---------------------------- MODULE CuSendProof -----------------------------
(***************************************************************************)
(* Proofs about CuSend, for all files, settings, chunks and bounds on what *)
(* is lost: on a line that loses nothing the echoes are found, and a file  *)
(* arrives unchanged; with echo checking every line arrives, whatever is   *)
(* lost, and the transfer implements LineTransfer.                         *)
(***************************************************************************)
EXTENDS CuSend, FiniteSetTheorems, SequenceTheorems, WellFoundedInduction, TLAPS

-----------------------------------------------------------------------------
(* Induction over numbers and sequences *)

(* A set of numbers that is not empty has a least one.                     *)
LEMMA LeastNumber ==
  ASSUME NEW T, T \subseteq Nat, T # {}
  PROVE  \E x \in T : \A y \in T : x <= y
<1>1. PICK x \in T : \A y \in T : ~ (<<y, x>> \in OpToRel(<, Nat))
  BY WFMin, NatLessThanWellFounded, Zenon
<1>2. \A y \in T : ~(y < x)
  BY <1>1, Zenon DEF OpToRel
<1> QED  BY <1>2

(* Induction, for a set.                                                   *)
LEMMA SetInduction ==
  ASSUME NEW T, T \subseteq Nat, 0 \in T, \A n \in T : n + 1 \in T
  PROVE  \A n \in Nat : n \in T
<1> SUFFICES ASSUME NEW n \in Nat, n \notin T  PROVE FALSE
  OBVIOUS
<1>1. PICK x \in Nat \ T : \A y \in Nat \ T : x <= y
  BY LeastNumber
<1>2. x - 1 \in Nat /\ x - 1 \in T
  BY <1>1
<1> QED  BY <1>1, <1>2

(* Induction over sequences, from front to end, for a set.                 *)
LEMMA SeqInduction ==
  ASSUME NEW A, NEW T, T \subseteq Seq(A), <<>> \in T,
         \A s \in T, c \in A : Append(s, c) \in T
  PROVE  \A s \in Seq(A) : s \in T
<1> DEFINE N == {n \in Nat : \A s \in Seq(A) : Len(s) = n => s \in T}
<1>1. 0 \in N
  OBVIOUS
<1>2. ASSUME NEW n \in N
      PROVE  n + 1 \in N
  <2>1. SUFFICES ASSUME NEW s \in Seq(A), Len(s) = n + 1
                 PROVE  s \in T
    OBVIOUS
  <2>2. s # <<>>
    BY <2>1
  <2>3. PICK f \in Seq(A), c \in A : s = Append(f, c)
    BY <2>2, SequenceEmptyOrAppend
  <2>4. Len(f) = n
    BY <2>1, <2>3, AppendProperties
  <2>5. f \in T
    BY <2>4
  <2> QED  BY <2>3, <2>5
<1>3. N \subseteq Nat
  OBVIOUS
<1> HIDE DEF N
<1>4. \A n \in Nat : n \in N
  BY <1>1, <1>2, <1>3, SetInduction
<1>5. \A s \in Seq(A) : Len(s) \in Nat
  OBVIOUS
<1> QED  BY <1>4, <1>5 DEF N

-----------------------------------------------------------------------------
(* Sequences of sequences made into one *)

(* A function that has put the first n together.                           *)
Flattening(ss, f, n) ==
  /\ f = [i \in 1..n |-> f[i]]
  /\ \A i \in 1..n : f[i] = IF i = 1 THEN ss[i] ELSE f[i - 1] \o ss[i]

LEMMA FlatteningExists ==
  ASSUME NEW ss
  PROVE  \A n \in Nat : \E f : Flattening(ss, f, n)
<1> DEFINE T == {n \in Nat : \E f : Flattening(ss, f, n)}
<1>1. 0 \in T
  <2>1. Flattening(ss, [i \in 1..0 |-> <<>>], 0)
    BY DEF Flattening
  <2> QED  BY <2>1
<1>2. ASSUME NEW n \in T
      PROVE  n + 1 \in T
  <2>1. PICK f : Flattening(ss, f, n)
    OBVIOUS
  <2>0. PICK last : last = IF n = 0 THEN ss[n + 1] ELSE f[n] \o ss[n + 1]
    OBVIOUS
  <2>2. PICK g : g = [i \in 1..n + 1 |-> IF i = n + 1 THEN last ELSE f[i]]
    OBVIOUS
  <2>3. /\ \A i \in 1..n : g[i] = f[i]
        /\ g[n + 1] = last /\ g = [i \in 1..n + 1 |-> g[i]]
    BY <2>2
  <2>4. ASSUME NEW i \in 1..n + 1
        PROVE  g[i] = IF i = 1 THEN ss[i] ELSE g[i - 1] \o ss[i]
    <3>1. CASE i = n + 1
      <4>0. n \in Nat /\ i - 1 = n
        BY <3>1
      <4>1. n # 0 => g[i - 1] = f[n]
        <5>1. n # 0 => n \in 1..n
          BY <4>0
        <5>2. n # 0 => g[n] = f[n]
          BY <2>3, <5>1
        <5> QED  BY <4>0, <5>2, Zenon
      <4>2. g[i] = IF n = 0 THEN ss[i] ELSE f[n] \o ss[i]
        BY <2>0, <2>3, <3>1
      <4>3. n = 0 <=> i = 1
        BY <3>1
      <4> QED  BY <4>1, <4>2, <4>3
    <3>2. CASE i # n + 1
      <4>1. i \in 1..n /\ (i # 1 => i - 1 \in 1..n)
        BY <3>2
      <4>2. f[i] = IF i = 1 THEN ss[i] ELSE f[i - 1] \o ss[i]
        BY <2>1, <4>1 DEF Flattening
      <4> QED  BY <2>3, <4>1, <4>2
    <3> QED  BY <3>1, <3>2
  <2>5. Flattening(ss, g, n + 1)
    BY <2>3, <2>4 DEF Flattening
  <2> QED  BY <2>5
<1>3. T \subseteq Nat
  OBVIOUS
<1> HIDE DEF T
<1>4. \A n \in Nat : n \in T
  BY <1>1, <1>2, <1>3, SetInduction
<1> QED  BY <1>4 DEF T

(* Two of them agree as far as what they put together does.                *)
LEMMA FlatteningUnique ==
  ASSUME NEW s, NEW t, NEW f, NEW g, NEW k \in Nat, NEW m \in Nat, k <= m,
         Flattening(s, f, k), Flattening(t, g, m), \A i \in 1..k : s[i] = t[i]
  PROVE  \A i \in 1..k : f[i] = g[i]
<1> DEFINE T == {i \in Nat : i \in 1..k => f[i] = g[i]}
<1>1. 0 \in T
  OBVIOUS
<1>2. ASSUME NEW i \in T
      PROVE  i + 1 \in T
  <2>1. SUFFICES ASSUME i + 1 <= k  PROVE f[i + 1] = g[i + 1]
    OBVIOUS
  <2>2. i # 0 => f[i] = g[i]
    BY <2>1
  <2>3. PICK j \in 1..k : j = i + 1
    BY <2>1
  <2>4. j \in 1..k /\ j \in 1..m /\ j - 1 = i
    BY <2>3
  <2>5. f[j] = IF j = 1 THEN s[j] ELSE f[j - 1] \o s[j]
    BY <2>4 DEF Flattening
  <2>6. g[j] = IF j = 1 THEN t[j] ELSE g[j - 1] \o t[j]
    BY <2>4 DEF Flattening
  <2>7. s[j] = t[j]
    OBVIOUS
  <2> QED  BY <2>2, <2>3, <2>4, <2>5, <2>6, <2>7
<1>3. T \subseteq Nat
  OBVIOUS
<1> HIDE DEF T
<1>4. \A i \in Nat : i \in T
  BY <1>1, <1>2, <1>3, SetInduction
<1> QED  BY <1>4 DEF T

(* What FlattenSeq returns.                                                *)
LEMMA FlattenIs ==
  ASSUME NEW A, NEW ss \in Seq(A), ss # <<>>
  PROVE  \E f : Flattening(ss, f, Len(ss)) /\ FlattenSeq(ss) = f[Len(ss)]
<1> DEFINE Body(f) == [i \in 1..Len(ss) |->
                        IF i = 1 THEN ss[i] ELSE f[i - 1] \o ss[i]]
<1>0. Len(ss) \in Nat /\ Len(ss) # 0
  BY EmptySeq
<1>1. PICK g : Flattening(ss, g, Len(ss))
  BY <1>0, FlatteningExists
<1>2. g = Body(g)
  <2>1. g = [i \in 1..Len(ss) |-> g[i]]
    BY <1>1 DEF Flattening
  <2> QED  BY <1>1, <2>1 DEF Flattening
<1>3. PICK f : f = CHOOSE h : h = Body(h)
  OBVIOUS
<1>4. f = Body(f)
  BY <1>2, <1>3
<1>5. FlattenSeq(ss) = f[Len(ss)]
  BY <1>0, <1>3 DEF FlattenSeq
<1>6. Flattening(ss, f, Len(ss))
  <2>1. \A i \in 1..Len(ss) : f[i] = IF i = 1 THEN ss[i] ELSE f[i - 1] \o ss[i]
    BY <1>4
  <2>2. f = [i \in 1..Len(ss) |-> f[i]]
    BY <1>4
  <2> QED  BY <2>1, <2>2 DEF Flattening
<1> QED  BY <1>5, <1>6

LEMMA FlattenNone == FlattenSeq(<<>>) = <<>>
  BY DEF FlattenSeq

LEMMA FlattenAppend ==
  ASSUME NEW A, NEW ss \in Seq(Seq(A)), NEW x \in Seq(A)
  PROVE  FlattenSeq(Append(ss, x)) = FlattenSeq(ss) \o x
<1>1. PICK t : t = Append(ss, x)
  OBVIOUS
<1>2. PICK n \in Nat : n = Len(ss)
  OBVIOUS
<1>3. /\ t \in Seq(Seq(A)) /\ t # <<>> /\ Len(t) = n + 1
      /\ \A i \in 1..n : t[i] = ss[i]
      /\ t[n + 1] = x
  BY <1>1, <1>2, AppendProperties
<1>4. PICK g : Flattening(t, g, n + 1) /\ FlattenSeq(t) = g[n + 1]
  BY <1>3, FlattenIs
<1>5. g[n + 1] = IF n + 1 = 1 THEN t[n + 1] ELSE g[n] \o t[n + 1]
  <2>1. PICK j \in 1..n + 1 : j = n + 1 /\ j - 1 = n
    OBVIOUS
  <2>2. g[j] = IF j = 1 THEN t[j] ELSE g[j - 1] \o t[j]
    BY <1>4 DEF Flattening
  <2> QED  BY <2>1, <2>2
<1>6. CASE n = 0
  <2>1. ss = <<>>
    BY <1>2, <1>6, EmptySeq
  <2>2. <<>> \o x = x
    OBVIOUS
  <2>3. g[n + 1] = x
    BY <1>3, <1>5, <1>6
  <2> QED  BY <1>1, <1>4, <2>1, <2>2, <2>3, FlattenNone
<1>7. CASE n # 0
  <2>1. ss # <<>>
    BY <1>2, <1>7
  <2>2. PICK f : Flattening(ss, f, n) /\ FlattenSeq(ss) = f[n]
    BY <1>2, <2>1, FlattenIs
  <2>3. \A i \in 1..n : f[i] = g[i]
    <3>1. PICK m \in Nat : m = n + 1
      OBVIOUS
    <3>2. \A i \in 1..n : ss[i] = t[i]
      BY <1>3
    <3>3. n <= m /\ Flattening(ss, f, n) /\ Flattening(t, g, m)
      BY <1>4, <2>2, <3>1
    <3> QED  BY <3>2, <3>3, FlatteningUnique
  <2>4. g[n + 1] = f[n] \o x
    <3>1. n \in 1..n /\ n + 1 # 1
      BY <1>7
    <3>2. f[n] = g[n]
      BY <2>3, <3>1
    <3>3. g[n + 1] = g[n] \o t[n + 1]
      BY <1>5, <3>1, Zenon
    <3> QED  BY <1>3, <3>2, <3>3
  <2> QED  BY <1>1, <1>4, <2>2, <2>4
<1> QED  BY <1>6, <1>7

LEMMA FlattenOne ==
  ASSUME NEW A, NEW x \in Seq(A)
  PROVE  FlattenSeq(<<x>>) = x
<1>1. <<>> \in Seq(Seq(A)) /\ Append(<<>>, x) = <<x>>
  OBVIOUS
<1>2. FlattenSeq(Append(<<>>, x)) = FlattenSeq(<<>>) \o x
  BY <1>1, FlattenAppend
<1> QED  BY <1>1, <1>2, FlattenNone, ConcatEmptySeq

LEMMA FlattenType ==
  ASSUME NEW A
  PROVE  \A ss \in Seq(Seq(A)) : FlattenSeq(ss) \in Seq(A)
<1> DEFINE T == {ss \in Seq(Seq(A)) : FlattenSeq(ss) \in Seq(A)}
<1>1. <<>> \in T
  <2>1. <<>> \in Seq(Seq(A)) /\ <<>> \in Seq(A)
    OBVIOUS
  <2> QED  BY <2>1, FlattenNone
<1>2. ASSUME NEW s \in T, NEW c \in Seq(A)
      PROVE  Append(s, c) \in T
  <2>1. FlattenSeq(Append(s, c)) = FlattenSeq(s) \o c
    BY FlattenAppend
  <2>2. FlattenSeq(s) \o c \in Seq(A)
    BY ConcatProperties
  <2>3. Append(s, c) \in Seq(Seq(A))
    OBVIOUS
  <2> QED  BY <2>1, <2>2, <2>3
<1>3. T \subseteq Seq(Seq(A))
  OBVIOUS
<1> HIDE DEF T
<1>4. \A s \in Seq(Seq(A)) : s \in T
  BY <1>1, <1>2, <1>3, SeqInduction
<1> QED  BY <1>4 DEF T

-----------------------------------------------------------------------------
(* What the elements of a sequence stand for, put together; h is a function *)
(* that says what they stand for.                                          *)
Mapped(h, s)    == [i \in DOMAIN s |-> h[s[i]]]
Flattened(h, s) == FlattenSeq(Mapped(h, s))

LEMMA MappedType ==
  ASSUME NEW A, NEW B, NEW h \in [A -> B], NEW s \in Seq(A)
  PROVE  /\ Mapped(h, s) \in Seq(B) /\ Len(Mapped(h, s)) = Len(s)
         /\ \A i \in 1..Len(s) : Mapped(h, s)[i] = h[s[i]]
<1>1. DOMAIN s = 1..Len(s) /\ Len(s) \in Nat
  OBVIOUS
<1>2. \A i \in 1..Len(s) : h[s[i]] \in B
  OBVIOUS
<1>3. PICK t : t = [i \in 1..Len(s) |-> h[s[i]]]
  OBVIOUS
<1>4. t \in Seq(B) /\ Len(t) = Len(s) /\ \A i \in 1..Len(s) : t[i] = h[s[i]]
  BY <1>1, <1>2, <1>3
<1> QED  BY <1>1, <1>3, <1>4 DEF Mapped

LEMMA MappedAppend ==
  ASSUME NEW A, NEW B, NEW h \in [A -> B], NEW s \in Seq(A), NEW c \in A
  PROVE  Mapped(h, Append(s, c)) = Append(Mapped(h, s), h[c])
<1>1. PICK t : t = Append(s, c)
  OBVIOUS
<1>2. /\ t \in Seq(A) /\ Len(t) = Len(s) + 1
      /\ \A i \in 1..Len(s) : t[i] = s[i]
      /\ t[Len(s) + 1] = c
  BY <1>1, AppendProperties
<1>3. PICK u : u = Mapped(h, t)
  OBVIOUS
<1>4. /\ u \in Seq(B) /\ Len(u) = Len(s) + 1
      /\ \A i \in 1..Len(s) + 1 : u[i] = h[t[i]]
  BY <1>2, <1>3, MappedType
<1>5. PICK m : m = Mapped(h, s)
  OBVIOUS
<1>6. /\ m \in Seq(B) /\ Len(m) = Len(s)
      /\ \A i \in 1..Len(s) : m[i] = h[s[i]]
  BY <1>5, MappedType
<1>7. h[c] \in B
  OBVIOUS
<1>8. PICK v : v = Append(m, h[c])
  OBVIOUS
<1>9. /\ v \in Seq(B) /\ Len(v) = Len(s) + 1
      /\ \A i \in 1..Len(s) : v[i] = m[i]
      /\ v[Len(s) + 1] = h[c]
  BY <1>6, <1>7, <1>8, AppendProperties
<1>10. ASSUME NEW i \in 1..Len(s) + 1
       PROVE  u[i] = v[i]
  <2>1. CASE i = Len(s) + 1
    BY <1>2, <1>4, <1>9, <2>1
  <2>2. CASE i # Len(s) + 1
    <3>1. i \in 1..Len(s)
      BY <2>2
    <3> QED  BY <1>2, <1>4, <1>6, <1>9, <3>1
  <2> QED  BY <2>1, <2>2
<1>11. u = v
  BY <1>4, <1>9, <1>10, SeqEqual
<1> QED  BY <1>1, <1>3, <1>5, <1>8, <1>11

LEMMA FlattenedNone ==
  ASSUME NEW h
  PROVE  Flattened(h, <<>>) = <<>>
<1>1. DOMAIN <<>> = {}
  OBVIOUS
<1>2. Mapped(h, <<>>) = <<>>
  BY <1>1 DEF Mapped
<1> QED  BY <1>2, FlattenNone DEF Flattened

LEMMA FlattenedType ==
  ASSUME NEW A, NEW B, NEW h \in [A -> Seq(B)], NEW s \in Seq(A)
  PROVE  Flattened(h, s) \in Seq(B)
  BY MappedType, FlattenType DEF Flattened

LEMMA FlattenedAppend ==
  ASSUME NEW A, NEW B, NEW h \in [A -> Seq(B)], NEW s \in Seq(A), NEW c \in A
  PROVE  Flattened(h, Append(s, c)) = Flattened(h, s) \o h[c]
<1>1. Mapped(h, Append(s, c)) = Append(Mapped(h, s), h[c])
  BY MappedAppend
<1>2. Mapped(h, s) \in Seq(Seq(B)) /\ h[c] \in Seq(B)
  BY MappedType
<1> QED  BY <1>1, <1>2, FlattenAppend DEF Flattened

LEMMA FlattenedConcat ==
  ASSUME NEW A, NEW B, NEW h \in [A -> Seq(B)], NEW s \in Seq(A), NEW t \in Seq(A)
  PROVE  Flattened(h, s \o t) = Flattened(h, s) \o Flattened(h, t)
<1> DEFINE T == {u \in Seq(A) : Flattened(h, s \o u) = Flattened(h, s) \o Flattened(h, u)}
<1>0. PICK f : f = Flattened(h, s)
  OBVIOUS
<1>1. f \in Seq(B)
  BY <1>0, FlattenedType
<1>2. <<>> \in T
  <2>1. s \o <<>> = s /\ f \o <<>> = f /\ <<>> \in Seq(A)
    BY <1>1
  <2> QED  BY <1>0, <2>1, FlattenedNone
<1>3. ASSUME NEW u \in T, NEW c \in A
      PROVE  Append(u, c) \in T
  <2>1. PICK g : g = Flattened(h, u)
    OBVIOUS
  <2>2. g \in Seq(B) /\ h[c] \in Seq(B)
    BY <2>1, FlattenedType
  <2>3. s \o Append(u, c) = Append(s \o u, c) /\ s \o u \in Seq(A) /\ Append(u, c) \in Seq(A)
    OBVIOUS
  <2>4. Flattened(h, s \o u) = f \o g
    BY <1>0, <2>1
  <2>5. Flattened(h, s \o Append(u, c)) = (f \o g) \o h[c]
    BY <2>3, <2>4, FlattenedAppend
  <2>6. Flattened(h, Append(u, c)) = g \o h[c]
    BY <2>1, FlattenedAppend
  <2>7. (f \o g) \o h[c] = f \o (g \o h[c])
    BY ONLY <1>1, <2>2, ConcatAssociative, SMTT(30)
  <2> QED  BY <1>0, <2>3, <2>5, <2>6, <2>7
<1>4. T \subseteq Seq(A)
  OBVIOUS
<1> HIDE DEF T
<1>5. \A u \in Seq(A) : u \in T
  BY <1>2, <1>3, <1>4, SeqInduction
<1> QED  BY <1>5 DEF T

LEMMA FlattenedOne ==
  ASSUME NEW A, NEW B, NEW h \in [A -> Seq(B)], NEW c \in A
  PROVE  Flattened(h, <<c>>) = h[c]
<1>1. <<>> \in Seq(A) /\ Append(<<>>, c) = <<c>>
  OBVIOUS
<1>2. Flattened(h, Append(<<>>, c)) = <<>> \o h[c]
  BY <1>1, FlattenedAppend, FlattenedNone
<1>3. <<>> \o h[c] = h[c]
  OBVIOUS
<1> QED  BY <1>1, <1>2, <1>3

(* It is nothing only if no element stands for something.                  *)
LEMMA FlattenedSomething ==
  ASSUME NEW A, NEW B, NEW h \in [A -> Seq(B)], NEW s \in Seq(A), s # <<>>,
         \A c \in A : h[c] # <<>>
  PROVE  Flattened(h, s) # <<>>
<1>1. PICK f \in Seq(A), c \in A : s = Append(f, c)
  BY SequenceEmptyOrAppend
<1>2. Flattened(h, s) = Flattened(h, f) \o h[c]
  BY <1>1, FlattenedAppend
<1>3. Flattened(h, f) \in Seq(B) /\ h[c] \in Seq(B) /\ h[c] # <<>>
  BY FlattenedType
<1> QED  BY <1>2, <1>3, ConcatEqualIffEmpty

(* Two functions that agree on the elements of a sequence.                 *)
LEMMA FlattenedSame ==
  ASSUME NEW g, NEW h, NEW s, \A i \in DOMAIN s : g[s[i]] = h[s[i]]
  PROVE  Flattened(g, s) = Flattened(h, s)
<1>1. Mapped(g, s) = Mapped(h, s)
  BY DEF Mapped
<1> QED  BY <1>1 DEF Flattened

-----------------------------------------------------------------------------
(* What is sent, looked for and echoed *)

RemoteType == [pending : Seq(OnTheWire), literal : BOOLEAN, open : BOOLEAN,
               lines : Seq(Seq(OnTheWire))]

(* Translate and the test of LooksFor, as functions.                       *)
Coder  == [c \in Characters |-> Translate(c)]
Looker == [c \in OnTheWire |-> IF LooksFor(c) THEN <<c>> ELSE <<>>]

(* What a chunk is on the line, and what of that is looked for.            *)
Coded(s)   == Flattened(Coder, s)
Awaited(s) == Flattened(Looker, s)

LEMMA SingleType ==
  ASSUME NEW A, NEW c \in A
  PROVE  <<c>> \in Seq(A) /\ <<c>> # <<>> /\ Len(<<c>>) = 1 /\ <<c>>[1] = c
  OBVIOUS

LEMMA OnTheWireHas ==
  /\ Characters \subseteq OnTheWire
  /\ {"tab", "ctl", "nl"} \subseteq Characters
  /\ {"cr", "kill", "prefix", "eof"} \subseteq OnTheWire
  BY DEF OnTheWire, Characters

LEMMA TranslateType ==
  ASSUME cuvar \in Settings, NEW c \in Characters
  PROVE  /\ Translate(c) \in Seq(OnTheWire)
         /\ c \in Printable \cup {"tab"} => Translate(c) = <<c>>
         /\ c = "nl" => Translate(c) = <<Newline>>
         /\ c = "ctl" => Translate(c) = IF cuvar.fCuvar_binary THEN <<"prefix", "ctl">> ELSE <<>>
         /\ Newline \in OnTheWire
<1>1. Printable \cap {"tab", "ctl", "nl", "cr", "kill", "prefix", "eof"} = {}
  BY ConstantsAssumption DEF ConstantsAssumption
<1>2. Newline \in OnTheWire
  BY OnTheWireHas DEF Newline
<1>3. CASE c \in Printable \cup {"tab"}
  <2>1. c # "nl" /\ c # "ctl"
    BY <1>1, <1>3
  <2>2. Translate(c) = <<c>>
    BY <1>3, <2>1 DEF Translate
  <2>3. <<c>> \in Seq(OnTheWire)
    BY OnTheWireHas, SingleType
  <2> QED  BY <1>2, <2>1, <2>2, <2>3
<1>4. CASE c = "nl"
  <2>1. c \notin Printable \cup {"tab"}
    BY <1>1, <1>4
  <2>2. Translate(c) = <<Newline>>
    BY <1>4, <2>1 DEF Translate, Newline
  <2>3. <<Newline>> \in Seq(OnTheWire)
    BY <1>2, SingleType
  <2> QED  BY <1>2, <1>4, <2>1, <2>2, <2>3
<1>5. CASE c = "ctl"
  <2>1. c \notin Printable \cup {"tab"} /\ c # "nl"
    BY <1>1, <1>5
  <2>2. Translate(c) = IF cuvar.fCuvar_binary THEN <<"prefix", "ctl">> ELSE <<>>
    BY <1>5, <2>1 DEF Translate
  <2>3. <<"prefix", "ctl">> \in Seq(OnTheWire) /\ <<>> \in Seq(OnTheWire)
    BY OnTheWireHas
  <2> QED  BY <1>2, <1>5, <2>1, <2>2, <2>3
<1> QED  BY <1>3, <1>4, <1>5 DEF Characters

LEMMA CoderType ==
  ASSUME cuvar \in Settings
  PROVE  Coder \in [Characters -> Seq(OnTheWire)]
  BY TranslateType DEF Coder

LEMMA CodedType ==
  ASSUME cuvar \in Settings, NEW s \in Seq(Characters)
  PROVE  Coded(s) \in Seq(OnTheWire)
  BY CoderType, FlattenedType DEF Coded

LEMMA ChunkIs ==
  ASSUME NEW s \in Seq(Characters)
  PROVE  Flat(Translate, s) = Coded(s)
<1>1. \A i \in DOMAIN s : Coder[s[i]] = Translate(s[i])
  BY DEF Coder
<1>2. [i \in DOMAIN s |-> Translate(s[i])] = [i \in DOMAIN s |-> Coder[s[i]]]
  BY <1>1
<1> QED  BY <1>2 DEF Flat, Each, Coded, Flattened, Mapped

LEMMA LookerType == Looker \in [OnTheWire -> Seq(OnTheWire)]
<1>1. \A c \in OnTheWire : <<c>> \in Seq(OnTheWire) /\ <<>> \in Seq(OnTheWire)
  OBVIOUS
<1> QED  BY <1>1 DEF Looker

LEMMA LookIs ==
  ASSUME NEW s \in Seq(OnTheWire)
  PROVE  Where(s, LooksFor) = Awaited(s)
<1>1. \A i \in DOMAIN s : Looker[s[i]] = IF LooksFor(s[i]) THEN <<s[i]>> ELSE <<>>
  BY DEF Looker
<1>2. [i \in DOMAIN s |-> IF LooksFor(s[i]) THEN <<s[i]>> ELSE <<>>]
        = [i \in DOMAIN s |-> Looker[s[i]]]
  BY <1>1
<1> QED  BY <1>2 DEF Where, Awaited, Flattened, Mapped

LEMMA ChunkLengthType ==
  ASSUME NEW b \in Seq(Characters), b # <<>>
  PROVE  /\ ChunkLength(b) \in 1..Len(b)
         /\ b[1] = "nl" => ChunkLength(b) = 1
         /\ b[1] # "nl" => \A i \in 1..ChunkLength(b) : b[i] # "nl"
<1>1. PICK n \in Nat : n = Len(b) /\ n > 0
  BY EmptySeq
<1>2. CASE b[1] = "nl"
  BY <1>1, <1>2 DEF ChunkLength
<1>3. CASE b[1] # "nl"
  <2>1. PICK m : m = Min({n, ChunkSize})
    OBVIOUS
  <2>2. ChunkSize \in Nat \ {0}
    BY ConstantsAssumption DEF ConstantsAssumption
  <2>3. m \in {n, ChunkSize} /\ m <= n
    <3>1. \E x \in {n, ChunkSize} : \A y \in {n, ChunkSize} : x <= y
      BY <2>2
    <3>2. m \in {n, ChunkSize} /\ \A y \in {n, ChunkSize} : m <= y
      BY <2>1, <3>1, Zenon DEF Min
    <3> QED  BY <3>2
  <2>4. m \in 1..n
    BY <1>1, <2>2, <2>3
  <2> DEFINE K == {k \in 1..m : \A i \in 1..k : b[i] # "nl"}
  <2>5. 1 \in K
    BY <1>3, <2>4
  <2>6. PICK x \in {m - k : k \in K} : \A y \in {m - k : k \in K} : x <= y
    <3>1. {m - k : k \in K} \subseteq Nat /\ {m - k : k \in K} # {}
      BY <2>4, <2>5
    <3> QED  BY <3>1, LeastNumber
  <2>7. PICK q \in K : x = m - q
    BY <2>6
  <2>8. ASSUME NEW k \in K
        PROVE  q >= k
    <3>1. m - q <= m - k
      BY <2>6, <2>7
    <3>2. m \in Int /\ q \in Int /\ k \in Int
      BY <2>4
    <3> HIDE DEF K
    <3> QED  BY <3>1, <3>2
  <2>9. Max(K) \in K
    BY <2>8, Zenon DEF Max
  <2>10. ChunkLength(b) = Max(K)
    BY <1>1, <1>3, <2>1 DEF ChunkLength
  <2>11. ChunkLength(b) \in 1..m /\ \A i \in 1..ChunkLength(b) : b[i] # "nl"
    BY <2>9, <2>10
  <2> QED  BY <1>1, <1>3, <2>4, <2>11
<1> QED  BY <1>2, <1>3

LEMMA BuffersType ==
  ASSUME file \in Files
  PROVE  Buffers \in Seq(Seq(Characters)) /\ file \in Seq(Seq(Characters))
<1>1. file \in Seq(Seq(Characters))
  BY ConstantsAssumption DEF ConstantsAssumption
<1>2. FlattenSeq(file) \in Seq(Characters)
  BY <1>1, FlattenType
<1>3. <<FlattenSeq(file)>> \in Seq(Seq(Characters))
  BY <1>2, SingleType
<1> QED  BY <1>1, <1>3 DEF Buffers

LEMMA EchoType ==
  ASSUME NEW r, NEW c \in OnTheWire
  PROVE  Echo(r, c) \in Seq(OnTheWire)
<1>1. NewlineEcho \in Seq(OnTheWire) /\ KillEcho \in Seq(OnTheWire)
  BY ConstantsAssumption DEF ConstantsAssumption
<1>2. <<c>> \in Seq(OnTheWire) /\ <<>> \in Seq(OnTheWire)
  OBVIOUS
<1> QED  BY <1>1, <1>2 DEF Echo

LEMMA AcceptType ==
  ASSUME NEW r \in RemoteType, NEW c \in OnTheWire
  PROVE  Accept(r, c) \in RemoteType
<1>1. PICK p : p = Append(r.pending, c)
  OBVIOUS
<1>2. p \in Seq(OnTheWire) /\ r.pending \in Seq(OnTheWire)
  BY <1>1 DEF RemoteType
<1>3. PICK l : l = Append(r.lines, r.pending)
  OBVIOUS
<1>4. l \in Seq(Seq(OnTheWire)) /\ r.lines \in Seq(Seq(OnTheWire))
  BY <1>3 DEF RemoteType
<1>5. [r EXCEPT !.lines = l, !.pending = <<>>] \in RemoteType
  <2>1. <<>> \in Seq(OnTheWire)
    OBVIOUS
  <2> QED  BY <1>4, <2>1 DEF RemoteType
<1>6. [r EXCEPT !.pending = p, !.literal = FALSE] \in RemoteType
  BY <1>2 DEF RemoteType
<1>7. [r EXCEPT !.pending = p] \in RemoteType
  BY <1>2 DEF RemoteType
<1>8. [r EXCEPT !.pending = <<>>] \in RemoteType
  <2>1. <<>> \in Seq(OnTheWire)
    OBVIOUS
  <2> QED  BY <2>1 DEF RemoteType
<1>9. [r EXCEPT !.literal = TRUE] \in RemoteType
  BY DEF RemoteType
<1>10. [r EXCEPT !.open = FALSE] \in RemoteType
  BY DEF RemoteType
<1>11. HandOver(r) \in RemoteType
  BY <1>3, <1>5 DEF HandOver
<1> HIDE DEF RemoteType
<1> QED  BY <1>1, <1>6, <1>7, <1>8, <1>9, <1>10, <1>11 DEF Accept

-----------------------------------------------------------------------------
(* Types, and what the places of the program say *)

PlaceInv ==
  /\ at = "over" <=> outcome # "none"
  /\ at = "buffer" \/ outcome = "complete" => zbuf = <<>>
  /\ at = "chunk" => zbuf # <<>>
  /\ at \in {"look", "receive"} => zsendbuf # <<>>
  /\ at \in {"chunk", "look", "receive"} => next > 1 /\ Buffers[next - 1] # <<>>

(* The types of the line, and of the rest.                                 *)
LineTypes ==
  /\ wire \in Seq(OnTheWire)
  /\ echo \in Seq(OnTheWire)
  /\ abPrecbuf \in Seq(OnTheWire)
  /\ remote \in RemoteType

LostTypes ==
  /\ lost \in [sent : 0..MaxLost, echoes : 0..MaxUnheard, kills : Nat, dead : BOOLEAN]
  /\ signal \in BOOLEAN

ProgramTypes ==
  /\ cuvar \in Settings /\ file \in Files
  /\ at \in Places
  /\ next \in 1..Len(Buffers) + 1
  /\ zbuf \in Seq(Characters)
  /\ zsendbuf \in Seq(OnTheWire)
  /\ ctries \in Nat /\ (ctries = 0 \/ ctries < cCuvar_resend)
  /\ outcome \in {"none", "complete", "aborted", "timed out", "disconnected"}

TypeInv == LineTypes /\ LostTypes /\ ProgramTypes /\ PlaceInv

LEMMA TypesAre == TypeOK <=> LineTypes /\ LostTypes /\ ProgramTypes
  BY DEF TypeOK, LineTypes, LostTypes, ProgramTypes, RemoteType

LEMMA TypeInvInit == Init => TypeInv
<1> SUFFICES ASSUME Init  PROVE TypeInv
  OBVIOUS
<1>1. <<>> \in Seq(OnTheWire) /\ <<>> \in Seq(Characters) /\ <<>> \in Seq(Seq(OnTheWire))
  OBVIOUS
<1>2. Len(Buffers) \in Nat
  BY BuffersType DEF Init
<1>3. LineTypes
  BY <1>1 DEF Init, LineTypes, RemoteType
<1>4. LostTypes
  <2>1. MaxLost \in Nat /\ MaxUnheard \in Nat
    BY ConstantsAssumption DEF ConstantsAssumption
  <2>2. 0 \in 0..MaxLost /\ 0 \in 0..MaxUnheard
    BY <2>1
  <2>3. lost = [sent |-> 0, echoes |-> 0, kills |-> 0, dead |-> FALSE] /\ signal = FALSE
    BY DEF Init
  <2> QED  BY <2>2, <2>3 DEF LostTypes
<1>5. ProgramTypes
  BY <1>1, <1>2 DEF Init, ProgramTypes, Places
<1>6. PlaceInv
  BY DEF Init, PlaceInv
<1> QED  BY <1>3, <1>4, <1>5, <1>6 DEF TypeInv

(* Cutting a sequence in two leaves its elements.                          *)
LEMMA CutType ==
  ASSUME NEW A, NEW s \in Seq(A), NEW n \in 0..Len(s)
  PROVE  SubSeq(s, 1, n) \in Seq(A) /\ SubSeq(s, n + 1, Len(s)) \in Seq(A)
  OBVIOUS

LEMMA SendDataTypes ==
  ASSUME wire \in Seq(OnTheWire), echo \in Seq(OnTheWire),
         NEW sent \in Seq(OnTheWire), SendData(sent)
  PROVE  /\ wire' \in Seq(OnTheWire) /\ echo' \in Seq(OnTheWire)
         /\ abPrecbuf' \in Seq(OnTheWire)
<1>1. PICK n \in 0..Len(echo) : /\ abPrecbuf' = SubSeq(echo, 1, n)
                                /\ echo' = SubSeq(echo, n + 1, Len(echo))
  BY DEF SendData
<1> QED  BY <1>1, CutType, ConcatProperties DEF SendData

LEMMA LineTypesStep ==
  ASSUME TypeInv, Next
  PROVE  LineTypes'
<1> USE DEF TypeInv
<1>0. LineTypes /\ cuvar \in Settings /\ zbuf \in Seq(Characters)
  BY DEF ProgramTypes
<1>1. ASSUME UNCHANGED line, UNCHANGED abPrecbuf
      PROVE  LineTypes'
  BY <1>0, <1>1 DEF LineTypes, line
<1>2. CASE ReadFile \/ SeeSignal \/ SeeNoSignal \/ GiveUp \/ PortFails \/ Interrupt
  BY <1>1, <1>2 DEF ReadFile, SeeSignal, SeeNoSignal, GiveUp, PortFails, Interrupt, Ended
<1>3. CASE Complete
  <2>1. Append(wire, "eof") \in Seq(OnTheWire)
    BY <1>0, OnTheWireHas, AppendProperties DEF LineTypes
  <2> QED  BY <1>0, <1>3, <2>1 DEF Complete, Ended, LineTypes
<1>4. CASE SendChunk
  <2>1. PICK chunk : /\ chunk = Flat(Translate, SubSeq(zbuf, 1, ChunkLength(zbuf)))
                     /\ IF chunk = <<>> THEN abPrecbuf' = <<>> /\ UNCHANGED <<wire, echo>>
                        ELSE SendData(chunk)
    BY <1>4 DEF SendChunk
  <2>2. ChunkLength(zbuf) \in 1..Len(zbuf)
    BY <1>0, <1>4, ChunkLengthType DEF SendChunk, PlaceInv
  <2>3. SubSeq(zbuf, 1, ChunkLength(zbuf)) \in Seq(Characters)
    BY <1>0, <2>2, CutType
  <2>4. chunk \in Seq(OnTheWire)
    BY <1>0, <2>1, <2>3, ChunkIs, CodedType
  <2>5. remote' = remote
    BY <1>4 DEF SendChunk
  <2>6. CASE chunk = <<>>
    <3>1. <<>> \in Seq(OnTheWire)
      OBVIOUS
    <3>2. abPrecbuf' = <<>> /\ wire' = wire /\ echo' = echo
      BY <2>1, <2>6
    <3> QED  BY <1>0, <2>5, <3>1, <3>2 DEF LineTypes
  <2>7. CASE chunk # <<>>
    BY <1>0, <2>1, <2>4, <2>5, <2>7, SendDataTypes DEF LineTypes
  <2> QED  BY <2>6, <2>7
<1>5. CASE ReadPort
  BY <1>0, <1>5, CutType DEF ReadPort, LineTypes
<1>6. CASE TakeCharacter
  BY <1>0, <1>6, HeadTailProperties DEF TakeCharacter, LineTypes, line
<1>7. CASE KillLine
  <2>1. <<"kill">> \in Seq(OnTheWire)
    BY OnTheWireHas, SingleType
  <2>2. SendData(<<"kill">>) /\ remote' = remote
    BY <1>7 DEF KillLine
  <2> QED  BY <1>0, <2>1, <2>2, SendDataTypes DEF LineTypes
<1>8. CASE LineDies
  BY <1>0, <1>8 DEF LineDies, theProgram, LineTypes
<1>9. CASE Arrive
  <2>1. Head(wire) \in OnTheWire /\ Tail(wire) \in Seq(OnTheWire)
    BY <1>0, <1>9, HeadTailProperties DEF Arrive, LineTypes
  <2>2. Accept(remote, Head(wire)) \in RemoteType
    BY <1>0, <2>1, AcceptType DEF LineTypes
  <2>3. echo \o Echo(remote, Head(wire)) \in Seq(OnTheWire)
    BY <1>0, <2>1, EchoType, ConcatProperties DEF LineTypes
  <2> QED  BY <1>0, <1>9, <2>1, <2>2, <2>3 DEF Arrive, theProgram, LineTypes
<1>10. CASE LoseSent
  BY <1>0, <1>10, HeadTailProperties DEF LoseSent, theProgram, LineTypes
<1>11. CASE LoseEcho
  BY <1>0, <1>11, HeadTailProperties DEF LoseEcho, theProgram, LineTypes
<1> QED  BY <1>2, <1>3, <1>4, <1>5, <1>6, <1>7, <1>8, <1>9, <1>10, <1>11
         DEF Next, Program, Line

LEMMA LostTypesStep ==
  ASSUME TypeInv, Next
  PROVE  LostTypes'
<1> USE DEF TypeInv, LostTypes
<1>0. MaxLost \in Nat /\ MaxUnheard \in Nat
  BY ConstantsAssumption DEF ConstantsAssumption
<1>1. CASE Program
  <2>1. CASE KillLine
    BY <2>1 DEF KillLine
  <2>2. CASE ReadFile \/ Complete \/ SendChunk \/ SeeSignal \/ SeeNoSignal
             \/ ReadPort \/ TakeCharacter \/ GiveUp
    <3>1. lost' = lost /\ signal' \in {signal, FALSE}
      BY <2>2 DEF ReadFile, Complete, SendChunk, SeeSignal, SeeNoSignal, ReadPort,
                  TakeCharacter, GiveUp, Ended, line
    <3> QED  BY <3>1
  <2> QED  BY <1>1, <2>1, <2>2 DEF Program
<1>2. CASE PortFails \/ Interrupt \/ Arrive
  <2>1. lost' = lost /\ signal' \in {signal, TRUE}
    BY <1>2 DEF PortFails, Interrupt, Arrive, line, theProgram
  <2> QED  BY <2>1
<1>3. CASE LineDies
  BY <1>3 DEF LineDies, theProgram
<1>4. CASE LoseSent
  BY <1>0, <1>4 DEF LoseSent, theProgram
<1>5. CASE LoseEcho
  <2>1. /\ lost.echoes < MaxUnheard /\ lost' = [lost EXCEPT !.echoes = @ + 1]
        /\ signal' = signal
    BY <1>5 DEF LoseEcho, theProgram
  <2>2. lost.echoes + 1 \in 0..MaxUnheard
    BY <1>0, <2>1
  <2> QED  BY <2>1, <2>2
<1> QED  BY <1>1, <1>2, <1>3, <1>4, <1>5 DEF Next, Line

LEMMA ProgramStep ==
  ASSUME TypeInv, Next
  PROVE  ProgramTypes' /\ PlaceInv'
<1> USE DEF TypeInv
<1>0. ProgramTypes /\ PlaceInv /\ LineTypes
  OBVIOUS
<1>1. /\ cuvar' = cuvar /\ file' = file /\ cuvar \in Settings /\ file \in Files
      /\ Buffers' = Buffers
  <2>1. cuvar' = cuvar /\ file' = file
    BY DEF Next, Program, Line, ReadFile, Complete, SendChunk, SeeSignal, SeeNoSignal,
           ReadPort, TakeCharacter, KillLine, GiveUp, PortFails, Interrupt, LineDies,
           Arrive, LoseSent, LoseEcho, Ended, theProgram, given
  <2> QED  BY <1>0, <2>1 DEF ProgramTypes, Buffers
<1>2. Buffers \in Seq(Seq(Characters)) /\ Len(Buffers) \in Nat
  BY <1>1, BuffersType
<1>3. cCuvar_resend \in Nat
  BY ConstantsAssumption DEF ConstantsAssumption
<1>4. ASSUME UNCHANGED <<at, next, zbuf, zsendbuf, ctries, outcome>>
      PROVE  ProgramTypes' /\ PlaceInv'
  BY <1>0, <1>1, <1>4 DEF ProgramTypes, PlaceInv
<1>5. ASSUME NEW how \in {"complete", "aborted", "timed out", "disconnected"}, Ended(how),
             how = "complete" => at = "buffer"
      PROVE  ProgramTypes' /\ PlaceInv'
  <2>1. /\ at' = "over" /\ outcome' = how /\ next' = next /\ zbuf' = zbuf
        /\ zsendbuf' = zsendbuf /\ ctries' = ctries
    BY <1>5 DEF Ended
  <2>2. ProgramTypes'
    BY <1>0, <1>1, <2>1 DEF ProgramTypes, Places
  <2>3. PlaceInv'
    BY <1>0, <1>5, <2>1 DEF PlaceInv
  <2> QED  BY <2>2, <2>3
<1>6. CASE ReadFile
  <2>0. next \in 1..Len(Buffers) + 1 /\ next <= Len(Buffers)
    BY <1>0, <1>6 DEF ReadFile, ProgramTypes
  <2>1. /\ next \in 1..Len(Buffers) /\ next' = next + 1 /\ zbuf' = Buffers[next]
        /\ at' = (IF zbuf' = <<>> THEN "buffer" ELSE "chunk") /\ ctries' = 0
        /\ outcome' = outcome /\ zsendbuf' = zsendbuf /\ at = "buffer"
    <3>1. next \in 1..Len(Buffers)
      BY <1>2, <2>0
    <3> QED  BY <1>6, <3>1 DEF ReadFile
  <2>2. Buffers[next] \in Seq(Characters)
    BY <1>2, <2>1
  <2>3. next' \in 1..Len(Buffers) + 1 /\ next' - 1 = next /\ next' > 1
    BY <1>2, <2>1
  <2>4. ProgramTypes'
    BY <1>0, <1>1, <2>1, <2>2, <2>3 DEF ProgramTypes, Places
  <2>5. outcome = "none"
    BY <1>0, <2>1 DEF PlaceInv
  <2>6. PlaceInv'
    BY <1>1, <2>1, <2>3, <2>5 DEF PlaceInv
  <2> QED  BY <2>4, <2>6
<1>7. CASE SendChunk
  <2>1. PICK k, chunk, look :
          /\ k = ChunkLength(zbuf)
          /\ chunk = Flat(Translate, SubSeq(zbuf, 1, k))
          /\ look = IF Checks(chunk) THEN Where(chunk, LooksFor) ELSE <<>>
          /\ zbuf' = SubSeq(zbuf, k + 1, Len(zbuf))
          /\ zsendbuf' = look
          /\ at' = IF look = <<>> THEN AfterChunk(zbuf') ELSE "look"
    BY <1>7 DEF SendChunk
  <2>2. /\ at = "chunk" /\ next' = next /\ ctries' = ctries /\ outcome' = outcome
        /\ outcome = "none"
    BY <1>0, <1>7 DEF SendChunk, PlaceInv
  <2>3. k \in 1..Len(zbuf) /\ zbuf \in Seq(Characters)
    BY <1>0, <2>1, <2>2, ChunkLengthType DEF ProgramTypes, PlaceInv
  <2>4. zbuf' \in Seq(Characters) /\ SubSeq(zbuf, 1, k) \in Seq(Characters)
    BY <2>1, <2>3, CutType
  <2>5. chunk \in Seq(OnTheWire)
    BY <1>1, <2>1, <2>4, ChunkIs, CodedType
  <2>6. look \in Seq(OnTheWire)
    <3>1. Where(chunk, LooksFor) \in Seq(OnTheWire)
      BY <2>5, LookIs, LookerType, FlattenedType DEF Awaited
    <3>2. <<>> \in Seq(OnTheWire)
      OBVIOUS
    <3> QED  BY <2>1, <3>1, <3>2
  <2>7. at' \in {"buffer", "chunk", "look"}
    BY <2>1 DEF AfterChunk
  <2>8. /\ at' = "buffer" => zbuf' = <<>>
        /\ at' = "chunk" => zbuf' # <<>>
        /\ at' = "look" => zsendbuf' # <<>>
    BY <2>1 DEF AfterChunk
  <2>9. ProgramTypes'
    BY <1>0, <1>1, <2>1, <2>2, <2>4, <2>6, <2>7 DEF ProgramTypes, Places
  <2>10. PlaceInv'
    BY <1>0, <1>1, <2>2, <2>7, <2>8 DEF PlaceInv
  <2> QED  BY <2>9, <2>10
<1>8. CASE SeeNoSignal
  <2>1. /\ at = "look" /\ at' = "receive"
        /\ UNCHANGED <<next, zbuf, zsendbuf, ctries, outcome>>
    BY <1>8 DEF SeeNoSignal
  <2>2. ProgramTypes'
    BY <1>0, <1>1, <2>1 DEF ProgramTypes, Places
  <2>3. PlaceInv'
    BY <1>0, <1>1, <2>1 DEF PlaceInv
  <2> QED  BY <2>2, <2>3
<1>9. CASE TakeCharacter
  <2>1. /\ at = "receive"
        /\ zsendbuf' \in {Tail(zsendbuf), zsendbuf}
        /\ at' = IF zsendbuf' = <<>> THEN AfterChunk(zbuf) ELSE "look"
        /\ UNCHANGED <<next, zbuf, ctries, outcome>>
    BY <1>9 DEF TakeCharacter
  <2>2. zsendbuf \in Seq(OnTheWire) /\ zsendbuf # <<>>
    BY <1>0, <2>1 DEF PlaceInv, ProgramTypes
  <2>3. zsendbuf' \in Seq(OnTheWire)
    BY <2>1, <2>2, HeadTailProperties
  <2>4. /\ at' \in {"buffer", "chunk", "look"}
        /\ at' = "buffer" => zbuf = <<>>
        /\ at' = "chunk" => zbuf # <<>>
        /\ at' = "look" => zsendbuf' # <<>>
    BY <2>1 DEF AfterChunk
  <2>5. ProgramTypes'
    BY <1>0, <1>1, <2>1, <2>3, <2>4 DEF ProgramTypes, Places
  <2>6. PlaceInv'
    BY <1>0, <1>1, <2>1, <2>4 DEF PlaceInv
  <2> QED  BY <2>5, <2>6
<1>10. CASE KillLine
  <2>1. /\ at = "receive" /\ at' = "chunk" /\ zbuf' = Buffers[next - 1] /\ zsendbuf' = <<>>
        /\ next' = next /\ outcome' = outcome
        /\ ctries' = ctries + 1 /\ ctries' < cCuvar_resend
    BY <1>10 DEF KillLine, TimesOut
  <2>2. next - 1 \in 1..Len(Buffers) /\ Buffers[next - 1] # <<>> /\ next > 1
    BY <1>0, <1>2, <2>1 DEF PlaceInv, ProgramTypes
  <2>3. Buffers[next - 1] \in Seq(Characters) /\ <<>> \in Seq(OnTheWire)
    BY <1>2, <2>2
  <2>4. ctries' \in Nat /\ (ctries' = 0 \/ ctries' < cCuvar_resend)
    <3>1. ctries \in Nat
      BY <1>0 DEF ProgramTypes
    <3>2. ctries + 1 \in Nat
      BY <3>1
    <3> QED  BY <2>1, <3>2, Zenon
  <2>6. zbuf' \in Seq(Characters) /\ zsendbuf' \in Seq(OnTheWire) /\ at' \in Places
    BY <2>1, <2>3, Zenon DEF Places
  <2>7. next' \in 1..Len(Buffers') + 1
        /\ outcome' \in {"none", "complete", "aborted", "timed out", "disconnected"}
    BY <1>0, <1>1, <2>1 DEF ProgramTypes
  <2>8. ProgramTypes'
    BY <1>1, <2>4, <2>6, <2>7 DEF ProgramTypes
  <2>5. PlaceInv'
    BY <1>0, <1>1, <2>1, <2>2 DEF PlaceInv
  <2> QED  BY <2>5, <2>8
<1>11. CASE Complete
  BY <1>5, <1>11 DEF Complete
<1>12. CASE SeeSignal
  BY <1>5, <1>12 DEF SeeSignal
<1>13. CASE GiveUp
  BY <1>5, <1>13 DEF GiveUp
<1>14. CASE PortFails
  BY <1>5, <1>14 DEF PortFails
<1>15. CASE ReadPort \/ Interrupt \/ LineDies \/ Line
  <2>1. UNCHANGED <<at, next, zbuf, zsendbuf, ctries, outcome>>
    BY <1>15 DEF ReadPort, Interrupt, LineDies, Line, Arrive, LoseSent, LoseEcho, theProgram
  <2> QED  BY <1>4, <2>1
<1> QED  BY <1>6, <1>7, <1>8, <1>9, <1>10, <1>11, <1>12, <1>13, <1>14, <1>15
         DEF Next, Program

LEMMA TypeInvStep ==
  ASSUME TypeInv, [Next]_vars
  PROVE  TypeInv'
<1>1. CASE Next
  BY <1>1, LineTypesStep, LostTypesStep, ProgramStep DEF TypeInv
<1>2. CASE UNCHANGED vars
  <2>1. Buffers' = Buffers
    BY <1>2 DEF vars, Buffers
  <2> QED  BY <1>2, <2>1 DEF vars, TypeInv, LineTypes, LostTypes, ProgramTypes, PlaceInv
<1> QED  BY <1>1, <1>2

(* The variables of a transfer keep their types, for all files, settings   *)
(* and bounds (icuput, fcusend_buf).                                       *)
THEOREM TypeCorrect == Spec => []TypeOK
<1>1. TypeInv => TypeOK
  BY TypesAre DEF TypeInv
<1> QED  BY <1>1, TypeInvInit, TypeInvStep, PTL DEF Spec

-----------------------------------------------------------------------------
(* The echoes that are looked for *)

(* z is what is left of s when some of it is left out.                     *)
Strict(f, n) == \A i, j \in 1..n : i < j => f[i] < f[j]

Within(z, s) ==
  \E f \in [1..Len(z) -> 1..Len(s)] :
    Strict(f, Len(z)) /\ \A i \in 1..Len(z) : s[f[i]] = z[i]

(* g takes the elements of s that are in S to elements of t in their order. *)
Embeds(g, s, t, S) ==
  /\ \A i \in 1..Len(s) : s[i] \in S => g[i] \in 1..Len(t) /\ t[g[i]] = s[i]
  /\ \A i, j \in 1..Len(s) : i < j /\ s[i] \in S /\ s[j] \in S => g[i] < g[j]

(* If the elements of s that may be in z are in t in the same order, what  *)
(* is within s is within t.                                                *)
LEMMA WithinAnother ==
  ASSUME NEW z, NEW s, NEW t, NEW g, NEW S, Within(z, s), Embeds(g, s, t, S),
         \A i \in 1..Len(z) : z[i] \in S
  PROVE  Within(z, t)
<1>1. PICK f \in [1..Len(z) -> 1..Len(s)] :
        Strict(f, Len(z)) /\ \A i \in 1..Len(z) : s[f[i]] = z[i]
  BY DEF Within
<1>2. PICK h : h = [i \in 1..Len(z) |-> g[f[i]]]
  OBVIOUS
<1>3. \A i \in 1..Len(z) : /\ f[i] \in 1..Len(s) /\ s[f[i]] = z[i]
                           /\ g[f[i]] \in 1..Len(t) /\ t[g[f[i]]] = z[i]
  BY <1>1 DEF Embeds
<1>4. h \in [1..Len(z) -> 1..Len(t)]
  BY <1>2, <1>3
<1>5. \A i \in 1..Len(z) : t[h[i]] = z[i]
  BY <1>2, <1>3
<1>6. ASSUME NEW i \in 1..Len(z), NEW j \in 1..Len(z), i < j
      PROVE  h[i] < h[j]
  <2>1. f[i] < f[j]
    BY <1>1, <1>6 DEF Strict
  <2>2. f[i] \in 1..Len(s) /\ f[j] \in 1..Len(s) /\ s[f[i]] \in S /\ s[f[j]] \in S
    BY <1>3
  <2>3. g[f[i]] < g[f[j]]
    BY <2>1, <2>2 DEF Embeds
  <2> QED  BY <1>2, <2>3
<1> QED  BY <1>4, <1>5, <1>6 DEF Within, Strict

(* What is within a sequence that is put after another.                    *)
LEMMA WithinAfter ==
  ASSUME NEW A, NEW z \in Seq(A), NEW p \in Seq(A), NEW s \in Seq(A), Within(z, s)
  PROVE  Within(z, p \o s)
<1>1. PICK t : t = p \o s
  OBVIOUS
<1>2. /\ t \in Seq(A) /\ Len(t) = Len(p) + Len(s)
      /\ \A i \in 1..Len(s) : t[Len(p) + i] = s[i]
  BY <1>1, ConcatProperties
<1>3. PICK g : g = [i \in 1..Len(s) |-> Len(p) + i]
  OBVIOUS
<1>4. \A i \in 1..Len(s) : /\ g[i] \in 1..Len(t) /\ t[g[i]] = s[i]
                           /\ \A j \in 1..Len(s) : i < j => g[i] < g[j]
  <2>1. Len(p) \in Nat /\ Len(s) \in Nat
    OBVIOUS
  <2>2. \A i \in 1..Len(s) : g[i] = Len(p) + i
    BY <1>3
  <2>3. ASSUME NEW i \in 1..Len(s)
        PROVE  g[i] \in 1..Len(t) /\ t[g[i]] = s[i]
    <3>1. Len(p) + i \in 1..Len(t)
      BY <1>2, <2>1
    <3>2. t[Len(p) + i] = s[i]
      BY <1>2
    <3> QED  BY <2>2, <3>1, <3>2, Zenon
  <2>4. ASSUME NEW i \in 1..Len(s), NEW j \in 1..Len(s), i < j
        PROVE  g[i] < g[j]
    <3>1. g[i] = Len(p) + i /\ g[j] = Len(p) + j
      BY <2>2
    <3> QED  BY <2>1, <2>4, <3>1
  <2> QED  BY <2>3, <2>4
<1>5. \A i \in 1..Len(z) : z[i] \in A
  OBVIOUS
<1>6. Embeds(g, s, t, A)
  BY <1>4 DEF Embeds
<1>8. Within(z, t)
  BY <1>5, <1>6, WithinAnother, Zenon
<1> QED  BY <1>1, <1>8

(* One element more at the end.                                            *)
LEMMA WithinAppend ==
  ASSUME NEW A, NEW z \in Seq(A), NEW s \in Seq(A), NEW c \in A, Within(z, s)
  PROVE  Within(z, Append(s, c)) /\ Within(Append(z, c), Append(s, c))
<1>1. PICK t : t = Append(s, c)
  OBVIOUS
<1>2. PICK y : y = Append(z, c)
  OBVIOUS
<1>3. /\ t \in Seq(A) /\ Len(t) = Len(s) + 1 /\ t[Len(s) + 1] = c
      /\ \A i \in 1..Len(s) : t[i] = s[i]
  BY <1>1, AppendProperties
<1>4. /\ y \in Seq(A) /\ Len(y) = Len(z) + 1 /\ y[Len(z) + 1] = c
      /\ \A i \in 1..Len(z) : y[i] = z[i]
  BY <1>2, AppendProperties
<1>5. PICK f \in [1..Len(z) -> 1..Len(s)] :
        Strict(f, Len(z)) /\ \A i \in 1..Len(z) : s[f[i]] = z[i]
  BY DEF Within
<1>6. Len(s) \in Nat /\ Len(z) \in Nat
  OBVIOUS
<1>7. Within(z, t)
  <2>1. f \in [1..Len(z) -> 1..Len(t)]
    <3>1. 1..Len(s) \subseteq 1..Len(t)
      BY <1>3, <1>6
    <3> QED  BY <1>5, <3>1
  <2>2. \A i \in 1..Len(z) : t[f[i]] = z[i]
    BY <1>3, <1>5
  <2> QED  BY <1>5, <2>1, <2>2 DEF Within
<1>8. PICK h : h = [i \in 1..Len(y) |-> IF i = Len(z) + 1 THEN Len(s) + 1 ELSE f[i]]
  OBVIOUS
<1>9. ASSUME NEW i \in 1..Len(y)
      PROVE  /\ i = Len(z) + 1 => h[i] = Len(s) + 1
             /\ i # Len(z) + 1 => i \in 1..Len(z) /\ h[i] = f[i] /\ f[i] \in 1..Len(s)
  <2>1. i # Len(z) + 1 => i \in 1..Len(z)
    BY <1>4, <1>6
  <2> QED  BY <1>5, <1>8, <2>1
<1>10. h \in [1..Len(y) -> 1..Len(t)]
  <2>1. \A i \in 1..Len(y) : h[i] \in 1..Len(t)
    <3>1. ASSUME NEW i \in 1..Len(y)
          PROVE  h[i] \in 1..Len(t)
      <4>1. CASE i = Len(z) + 1
        BY <1>3, <1>6, <1>9, <4>1
      <4>2. CASE i # Len(z) + 1
        <5>1. h[i] \in 1..Len(s)
          BY <1>9, <4>2
        <5> QED  BY <1>3, <1>6, <5>1
      <4> QED  BY <4>1, <4>2
    <3> QED  BY <3>1
  <2> QED  BY <1>8, <2>1
<1>11. ASSUME NEW i \in 1..Len(y)
       PROVE  t[h[i]] = y[i]
  <2>1. CASE i = Len(z) + 1
    BY <1>3, <1>4, <1>9, <2>1
  <2>2. CASE i # Len(z) + 1
    <3>1. i \in 1..Len(z) /\ h[i] = f[i] /\ f[i] \in 1..Len(s)
      BY <1>9, <2>2
    <3>2. t[f[i]] = s[f[i]] /\ s[f[i]] = z[i] /\ y[i] = z[i]
      BY <1>3, <1>4, <1>5, <3>1
    <3> QED  BY <3>1, <3>2
  <2> QED  BY <2>1, <2>2
<1>12. ASSUME NEW i \in 1..Len(y), NEW j \in 1..Len(y), i < j
       PROVE  h[i] < h[j]
  <2>1. i # Len(z) + 1
    BY <1>4, <1>6, <1>12
  <2>2. i \in 1..Len(z) /\ h[i] = f[i] /\ f[i] \in 1..Len(s)
    BY <1>9, <2>1
  <2>3. CASE j = Len(z) + 1
    <3>1. h[j] = Len(s) + 1
      BY <1>9, <2>3
    <3> QED  BY <1>6, <2>2, <3>1
  <2>4. CASE j # Len(z) + 1
    <3>1. j \in 1..Len(z) /\ h[j] = f[j]
      BY <1>9, <2>4
    <3>2. f[i] < f[j]
      BY <1>5, <1>12, <2>2, <3>1 DEF Strict
    <3> QED  BY <2>2, <3>1, <3>2
  <2> QED  BY <2>3, <2>4
<1>13. Within(y, t)
  BY <1>10, <1>11, <1>12 DEF Within, Strict
<1> QED  BY <1>1, <1>2, <1>7, <1>13

(* What a character that is received leaves to look for is within the rest. *)
LEMMA WithinTail ==
  ASSUME NEW A, NEW z \in Seq(A), NEW s \in Seq(A), z # <<>>, Within(z, s)
  PROVE  /\ s # <<>>
         /\ Within(IF Head(s) = Head(z) THEN Tail(z) ELSE z, Tail(s))
<1>1. PICK f \in [1..Len(z) -> 1..Len(s)] :
        Strict(f, Len(z)) /\ \A i \in 1..Len(z) : s[f[i]] = z[i]
  BY DEF Within
<1>2. Len(z) \in Nat /\ Len(z) > 0 /\ Len(s) \in Nat /\ 1 \in 1..Len(z) /\ z[1] = Head(z)
  BY EmptySeq
<1>3. f[1] \in 1..Len(s)
  BY <1>1, <1>2
<1>4. s # <<>> /\ Len(s) > 0
  BY <1>2, <1>3
<1>5. PICK t : t = Tail(s)
  OBVIOUS
<1>6. /\ t \in Seq(A) /\ Len(t) = Len(s) - 1
      /\ \A i \in 1..Len(t) : t[i] = s[i + 1]
      /\ Head(s) = s[1]
  BY <1>4, <1>5, HeadTailProperties
<1>7. ASSUME NEW i \in 1..Len(z), i > 1 \/ Head(s) # Head(z)
      PROVE  /\ f[i] > 1 /\ f[i] - 1 \in 1..Len(t) /\ t[f[i] - 1] = z[i]
  <2>1. f[i] \in 1..Len(s) /\ s[f[i]] = z[i]
    BY <1>1
  <2>2. f[i] > 1
    <3>1. CASE i > 1
      <4>1. f[1] < f[i]
        BY <1>1, <1>2, <3>1 DEF Strict
      <4> QED  BY <1>3, <2>1, <4>1
    <3>2. CASE i = 1
      <4>1. Head(s) # Head(z) /\ z[i] = Head(z)
        BY <1>2, <1>7, <3>2
      <4>2. f[i] # 1
        BY <1>6, <2>1, <4>1
      <4> QED  BY <2>1, <4>2
    <3> QED  BY <1>7, <3>1, <3>2
  <2>3. f[i] - 1 \in 1..Len(t)
    BY <1>2, <1>6, <2>1, <2>2
  <2>4. t[f[i] - 1] = s[(f[i] - 1) + 1]
    BY <1>6, <2>3
  <2>5. (f[i] - 1) + 1 = f[i]
    BY <2>1
  <2> QED  BY <2>1, <2>2, <2>3, <2>4, <2>5
<1>8. CASE Head(s) # Head(z)
  <2>1. PICK h : h = [i \in 1..Len(z) |-> f[i] - 1]
    OBVIOUS
  <2>2. \A i \in 1..Len(z) : h[i] = f[i] - 1 /\ f[i] \in Int
    BY <1>1, <2>1
  <2>3. h \in [1..Len(z) -> 1..Len(t)]
    BY <1>7, <1>8, <2>1
  <2>4. \A i \in 1..Len(z) : t[h[i]] = z[i]
    BY <1>7, <1>8, <2>2
  <2>5. ASSUME NEW i \in 1..Len(z), NEW j \in 1..Len(z), i < j
        PROVE  h[i] < h[j]
    <3>1. f[i] < f[j]
      BY <1>1, <2>5 DEF Strict
    <3> QED  BY <2>2, <3>1
  <2>6. Within(z, t)
    BY <2>3, <2>4, <2>5 DEF Within, Strict
  <2> QED  BY <1>4, <1>5, <1>8, <2>6
<1>9. CASE Head(s) = Head(z)
  <2>1. PICK y : y = Tail(z)
    OBVIOUS
  <2>2. /\ y \in Seq(A) /\ Len(y) = Len(z) - 1
        /\ \A i \in 1..Len(y) : y[i] = z[i + 1]
    BY <2>1, HeadTailProperties
  <2>3. \A i \in 1..Len(y) : i + 1 \in 1..Len(z) /\ i + 1 > 1
    BY <1>2, <2>2
  <2>4. PICK h : h = [i \in 1..Len(y) |-> f[i + 1] - 1]
    OBVIOUS
  <2>5. ASSUME NEW i \in 1..Len(y)
        PROVE  /\ h[i] = f[i + 1] - 1 /\ f[i + 1] \in Int
               /\ h[i] \in 1..Len(t) /\ t[h[i]] = y[i]
    <3>1. PICK k \in 1..Len(z) : k = i + 1 /\ k > 1
      BY <2>3
    <3>2. f[k] > 1 /\ f[k] - 1 \in 1..Len(t) /\ t[f[k] - 1] = z[k] /\ f[k] \in Int
      BY <1>1, <1>7, <3>1
    <3>3. h[i] = f[k] - 1
      BY <2>4, <3>1
    <3>4. y[i] = z[k]
      BY <2>2, <3>1
    <3> QED  BY <3>1, <3>2, <3>3, <3>4
  <2>6. h \in [1..Len(y) -> 1..Len(t)]
    BY <2>4, <2>5
  <2>7. ASSUME NEW i \in 1..Len(y), NEW j \in 1..Len(y), i < j
        PROVE  h[i] < h[j]
    <3>1. PICK k \in 1..Len(z), l \in 1..Len(z) : k = i + 1 /\ l = j + 1 /\ k < l
      BY <2>3, <2>7
    <3>2. f[k] < f[l]
      BY <1>1, <3>1 DEF Strict
    <3>3. /\ h[i] = f[k] - 1 /\ f[k] \in Int
          /\ h[j] = f[l] - 1 /\ f[l] \in Int
      BY <2>5, <3>1
    <3> QED  BY <3>2, <3>3
  <2>8. Within(y, t)
    BY <2>5, <2>6, <2>7 DEF Within, Strict
  <2> QED  BY <1>4, <1>5, <1>9, <2>1, <2>8
<1> QED  BY <1>8, <1>9

(* An element, of which copies may be in z, replaced by others that have it. *)
LEMMA WithinReplaced ==
  ASSUME NEW A, NEW z \in Seq(A), NEW p \in Seq(A), NEW c \in A, NEW q \in Seq(A),
         NEW e \in Seq(A), Within(z, p \o (<<c>> \o q)),
         NEW S, \A i \in 1..Len(z) : z[i] \in S,
         c \in S => \E k \in 1..Len(e) : e[k] = c
  PROVE  Within(z, (p \o e) \o q)
<1>1. PICK s : s = p \o (<<c>> \o q)
  OBVIOUS
<1>2. PICK t : t = (p \o e) \o q
  OBVIOUS
<1>3. PICK n \in Nat, m \in Nat, l \in Nat : n = Len(p) /\ m = Len(e) /\ l = Len(q)
  OBVIOUS
<1>4. /\ s \in Seq(A) /\ Len(s) = n + 1 + l
      /\ \A i \in 1..n : s[i] = p[i]
      /\ s[n + 1] = c
      /\ \A i \in 1..l : s[n + 1 + i] = q[i]
  BY <1>1, <1>3, SMTT(20)
<1>5. /\ t \in Seq(A) /\ Len(t) = n + m + l
      /\ \A i \in 1..n : t[i] = p[i]
      /\ \A i \in 1..m : t[n + i] = e[i]
      /\ \A i \in 1..l : t[n + m + i] = q[i]
  <2>1. PICK u : u = p \o e
    OBVIOUS
  <2>2. /\ u \in Seq(A) /\ Len(u) = n + m
        /\ \A i \in 1..n : u[i] = p[i]
        /\ \A i \in 1..m : u[n + i] = e[i]
    BY <1>3, <2>1
  <2>3. /\ t \in Seq(A) /\ Len(t) = (n + m) + l
        /\ \A i \in 1..n + m : t[i] = u[i]
        /\ \A i \in 1..l : t[(n + m) + i] = q[i]
    BY <1>2, <1>3, <2>1, <2>2
  <2>4. \A i \in 1..n : t[i] = p[i]
    BY <2>2, <2>3
  <2>5. \A i \in 1..m : t[n + i] = e[i]
    <3>1. \A i \in 1..m : n + i \in 1..n + m
      BY <1>3
    <3> QED  BY <2>2, <2>3, <3>1
  <2> QED  BY <2>3, <2>4, <2>5
<1>6. PICK k \in 1..m + 1 : c \in S => k \in 1..m /\ e[k] = c
  BY <1>3
<1>7. PICK g : g = [i \in 1..Len(s) |-> CASE i <= n -> i [] i = n + 1 -> n + k
                                        [] OTHER -> (i - 1) + m]
  OBVIOUS
<1>8. \A i \in 1..Len(s) :
         /\ i <= n => g[i] = i
         /\ i = n + 1 => g[i] = n + k
         /\ i > n + 1 => g[i] = (i - 1) + m
  BY <1>3, <1>7
<1>9. ASSUME NEW i \in 1..Len(s), s[i] \in S
      PROVE  g[i] \in 1..Len(t) /\ t[g[i]] = s[i]
  <2>1. CASE i <= n
    <3>1. i \in 1..n /\ i \in 1..Len(t) /\ g[i] = i
      BY <1>4, <1>5, <1>8, <2>1
    <3> QED  BY <1>4, <1>5, <3>1
  <2>2. CASE i = n + 1
    <3>1. s[i] = c /\ k \in 1..m /\ e[k] = c
      BY <1>4, <1>6, <1>9, <2>2
    <3>2. g[i] = n + k
      BY <1>8, <2>2
    <3>3. t[n + k] = e[k]
      BY <1>5, <3>1
    <3>4. n + k \in 1..Len(t)
      BY <1>5, <3>1
    <3> QED  BY <3>1, <3>2, <3>3, <3>4
  <2>3. CASE i > n + 1
    <3>0. i - (n + 1) \in 1..l
      <4>1. i \in Int /\ i <= n + 1 + l
        BY <1>3, <1>4
      <4> QED  BY <1>3, <2>3, <4>1
    <3>1. PICK j \in 1..l : j = i - (n + 1)
      BY <3>0
    <3>2. i = n + 1 + j /\ (i - 1) + m = n + m + j
      BY <1>3, <3>1
    <3>3. g[i] = n + m + j
      BY <1>8, <2>3, <3>2
    <3>4. t[n + m + j] = q[j] /\ s[n + 1 + j] = q[j]
      BY <1>4, <1>5, <3>1
    <3>5. n + m + j \in 1..Len(t)
      BY <1>3, <1>5, <3>1
    <3> QED  BY <3>2, <3>3, <3>4, <3>5
  <2> QED  BY <2>1, <2>2, <2>3
<1>10. ASSUME NEW i \in 1..Len(s), NEW j \in 1..Len(s), i < j, s[i] \in S, s[j] \in S
       PROVE  g[i] < g[j]
  <2>1. i = n + 1 \/ j = n + 1 => k \in 1..m
    BY <1>4, <1>6, <1>10
  <2>2. i \in Int /\ j \in Int /\ n \in Nat /\ m \in Nat /\ k \in Int
    OBVIOUS
  <2>3. CASE i <= n
    <3>1. g[i] = i
      BY <1>8, <2>3
    <3> QED  BY <1>8, <1>10, <2>1, <2>2, <2>3, <3>1
  <2>4. CASE i = n + 1
    <3>1. g[i] = n + k /\ g[j] = (j - 1) + m
      BY <1>8, <1>10, <2>4
    <3> QED  BY <1>10, <2>1, <2>2, <2>4, <3>1
  <2>5. CASE i > n + 1
    <3>1. g[i] = (i - 1) + m /\ g[j] = (j - 1) + m
      BY <1>8, <1>10, <2>5
    <3> QED  BY <1>10, <2>2, <3>1
  <2> QED  BY <2>2, <2>3, <2>4, <2>5
<1>11. Within(z, s)
  BY <1>1
<1>12. Embeds(g, s, t, S)
  BY <1>9, <1>10 DEF Embeds
<1>14. Within(z, t)
  BY <1>11, <1>12, WithinAnother, Zenon
<1> QED  BY <1>2, <1>14

LEMMA AwaitedType ==
  ASSUME NEW s \in Seq(OnTheWire)
  PROVE  Awaited(s) \in Seq(OnTheWire)
  BY LookerType, FlattenedType DEF Awaited

(* What is looked for of a chunk is within it.                             *)
LEMMA AwaitedWithin ==
  ASSUME NEW chunk \in Seq(OnTheWire)
  PROVE  /\ Within(Awaited(chunk), chunk)
         /\ \A i \in 1..Len(Awaited(chunk)) : LooksFor(Awaited(chunk)[i])
<1> DEFINE Good(s) == /\ Within(Awaited(s), s)
                      /\ \A i \in 1..Len(Awaited(s)) : LooksFor(Awaited(s)[i])
<1> DEFINE T == {s \in Seq(OnTheWire) : Good(s)}
<1>1. <<>> \in T
  <2>1. Awaited(<<>>) = <<>> /\ <<>> \in Seq(OnTheWire)
    BY FlattenedNone DEF Awaited
  <2>2. PICK f : f = [i \in 1..0 |-> i]
    OBVIOUS
  <2>3. f \in [1..0 -> 1..0] /\ Len(<<>>) = 0
    BY <2>2
  <2>5. PICK e : e = <<>> /\ Len(e) = 0
    OBVIOUS
  <2>6. \A i \in 1..0 : FALSE
    OBVIOUS
  <2>4. Within(e, e)
    BY <2>3, <2>5, <2>6 DEF Within, Strict
  <2> QED  BY <2>1, <2>4, <2>5, <2>6
<1>2. ASSUME NEW s \in T, NEW c \in OnTheWire
      PROVE  Append(s, c) \in T
  <2>1. PICK a : a = Awaited(s)
    OBVIOUS
  <2>2. /\ a \in Seq(OnTheWire) /\ Within(a, s)
        /\ \A i \in 1..Len(a) : LooksFor(a[i])
    BY <2>1, AwaitedType
  <2>3. Awaited(Append(s, c)) = a \o Looker[c]
    BY <2>1, LookerType, FlattenedAppend DEF Awaited
  <2>4. Append(s, c) \in Seq(OnTheWire)
    OBVIOUS
  <2>5. CASE LooksFor(c)
    <3>1. Looker[c] = <<c>>
      BY <2>5 DEF Looker
    <3>2. PICK b : b = Append(a, c)
      OBVIOUS
    <3>3. a \o <<c>> = b
      BY <2>2, <3>2
    <3>4. Within(b, Append(s, c))
      BY <2>2, <3>2, WithinAppend
    <3>5. /\ Len(b) = Len(a) + 1 /\ b[Len(a) + 1] = c
          /\ \A i \in 1..Len(a) : b[i] = a[i]
      BY <2>2, <3>2, AppendProperties
    <3>6. ASSUME NEW i \in 1..Len(b)
          PROVE  LooksFor(b[i])
      <4>1. i \in 1..Len(a) \/ i = Len(a) + 1
        BY <2>2, <3>5
      <4>2. b[i] = c \/ (i \in 1..Len(a) /\ b[i] = a[i])
        BY <3>5, <4>1
      <4> QED  BY <2>2, <2>5, <4>2, Zenon
    <3> QED  BY <2>3, <2>4, <3>1, <3>3, <3>4, <3>6
  <2>6. CASE ~LooksFor(c)
    <3>1. Looker[c] = <<>>
      BY <2>6 DEF Looker
    <3>2. a \o <<>> = a
      BY <2>2
    <3>3. Within(a, Append(s, c))
      BY <2>2, WithinAppend
    <3> QED  BY <2>2, <2>3, <2>4, <3>1, <3>2, <3>3
  <2> QED  BY <2>5, <2>6
<1>3. T \subseteq Seq(OnTheWire)
  OBVIOUS
<1> HIDE DEF T
<1>4. \A s \in Seq(OnTheWire) : s \in T
  BY <1>1, <1>2, <1>3, SeqInduction
<1>5. chunk \in T
  BY <1>4
<1> QED  BY <1>5 DEF T

(* The remote terminal echoes a line end with the character that is looked *)
(* for, if one is.                                                         *)
NewlineEchoed ==
  \A s \in Settings : s.zCuvar_echonl # "none" =>
     \E k \in 1..Len(NewlineEcho) :
        NewlineEcho[k] = IF s.fCuvar_binary THEN "nl" ELSE "cr"

LEMMA EchoHas ==
  ASSUME NewlineEchoed, cuvar \in Settings, NEW r \in RemoteType, NEW c \in OnTheWire, LooksFor(c)
  PROVE  \E k \in 1..Len(Echo(r, c)) : Echo(r, c)[k] = c
<1>1. Printable \cap {"tab", "ctl", "nl", "cr", "kill", "prefix", "eof"} = {}
  BY ConstantsAssumption DEF ConstantsAssumption
<1>2. <<c>>[1] = c /\ 1 \in 1..Len(<<c>>)
  OBVIOUS
<1>3. CASE Echo(r, c) = <<c>>
  BY <1>2, <1>3, Zenon
<1>4. CASE Echo(r, c) # <<c>>
  <2>1. /\ c \in {"cr", "nl", "kill", "prefix", "eof"}
        /\ c \in {"cr", "nl"} => Echo(r, c) = NewlineEcho
    <3>0. r.literal \in BOOLEAN
      BY DEF RemoteType
    <3>1. CASE r.literal = TRUE
      BY <1>4, <3>1 DEF Echo
    <3>2. CASE r.literal = FALSE
      BY <1>4, <3>2 DEF Echo
    <3> QED  BY <3>0, <3>1, <3>2
  <2>2. c \notin Printable
    BY <1>1, <2>1
  <2>3. c = Newline /\ cuvar.zCuvar_echonl # "none"
    BY <2>2 DEF LooksFor
  <2>4. Echo(r, c) = NewlineEcho
    BY <2>1, <2>3 DEF Newline
  <2>5. \E k \in 1..Len(NewlineEcho) : NewlineEcho[k] = c
    BY <2>3 DEF NewlineEchoed, Newline
  <2> QED  BY <2>4, <2>5
<1> QED  BY <1>3, <1>4

(* The characters that come back, or will, if nothing is lost.             *)
Coming == (abPrecbuf \o echo) \o wire

(* What is left to look for will come, in its order.                       *)
Sought == \A i \in 1..Len(zsendbuf) : LooksFor(zsendbuf[i])

EchoInv ==
  Unlost =>
    /\ outcome # "timed out"
    /\ at \in {"look", "receive"} => Within(zsendbuf, Coming) /\ Sought

LEMMA UnlostBefore ==
  ASSUME LostTypes, [Next]_vars, Unlost'
  PROVE  Unlost
<1>1. /\ lost \in [sent : 0..MaxLost, echoes : 0..MaxUnheard, kills : Nat, dead : BOOLEAN]
      /\ lost.sent \in Nat /\ lost.echoes \in Nat
  BY ConstantsAssumption DEF LostTypes, ConstantsAssumption
<1>2. CASE lost' = lost
  BY <1>2 DEF Unlost
<1>3. CASE KillLine
  <2>1. lost' = [lost EXCEPT !.kills = @ + 1]
    BY <1>3 DEF KillLine
  <2>2. lost'.sent = lost.sent /\ lost'.echoes = lost.echoes /\ lost'.dead = lost.dead
    BY <1>1, <2>1
  <2> QED  BY <2>2 DEF Unlost
<1>4. CASE LineDies
  BY <1>4 DEF LineDies
<1>5. CASE LoseSent
  <2>1. lost' = lost \/ lost' = [lost EXCEPT !.sent = @ + 1]
    BY <1>5 DEF LoseSent
  <2>2. lost' = [lost EXCEPT !.sent = @ + 1] => lost'.sent = lost.sent + 1
    BY <1>1
  <2>3. lost' # lost => lost'.sent # 0
    BY <1>1, <2>1, <2>2
  <2> QED  BY <1>2, <2>3 DEF Unlost
<1>6. CASE LoseEcho
  <2>1. lost' = [lost EXCEPT !.echoes = @ + 1]
    BY <1>6 DEF LoseEcho
  <2>2. lost'.echoes = lost.echoes + 1
    BY <1>1, <2>1
  <2>3. lost'.echoes # 0
    BY <1>1, <2>2
  <2> QED  BY <2>3 DEF Unlost
<1>7. CASE UNCHANGED vars \/ Arrive \/ PortFails \/ Interrupt \/ ReadFile \/ Complete
           \/ SendChunk \/ SeeSignal \/ SeeNoSignal \/ ReadPort \/ TakeCharacter \/ GiveUp
  <2>1. lost' = lost
    BY <1>7 DEF vars, Arrive, PortFails, Interrupt, ReadFile, Complete, SendChunk,
                SeeSignal, SeeNoSignal, ReadPort, TakeCharacter, GiveUp, Ended, line
  <2> QED  BY <1>2, <2>1
<1> QED  BY <1>3, <1>4, <1>5, <1>6, <1>7 DEF Next, Program, Line

LEMMA GivenStays ==
  ASSUME [Next]_vars
  PROVE  cuvar' = cuvar /\ file' = file
  BY DEF vars, Next, Program, Line, ReadFile, Complete, SendChunk, SeeSignal, SeeNoSignal,
         ReadPort, TakeCharacter, KillLine, GiveUp, PortFails, Interrupt, LineDies,
         Arrive, LoseSent, LoseEcho, Ended, theProgram, given

(* Reading what has come moves it, but leaves what is coming.              *)
LEMMA CutIsWhole ==
  ASSUME NEW A, NEW s \in Seq(A), NEW n \in 0..Len(s)
  PROVE  SubSeq(s, 1, n) \o SubSeq(s, n + 1, Len(s)) = s
<1>1. PICK k \in Nat : k = Len(s)
  OBVIOUS
<1>2. PICK a, b : a = SubSeq(s, 1, n) /\ b = SubSeq(s, n + 1, k)
  OBVIOUS
<1>3. a \in Seq(A) /\ Len(a) = n /\ \A i \in 1..n : a[i] = s[i]
  BY <1>1, <1>2
<1>4. b \in Seq(A) /\ Len(b) = k - n /\ \A i \in 1..k - n : b[i] = s[n + i]
  BY <1>1, <1>2
<1>5. PICK t : t = a \o b
  OBVIOUS
<1>6. /\ t \in Seq(A) /\ Len(t) = k
      /\ \A i \in 1..n : t[i] = a[i]
      /\ \A i \in 1..k - n : t[n + i] = b[i]
  BY <1>1, <1>3, <1>4, <1>5
<1>7. ASSUME NEW i \in 1..k
      PROVE  t[i] = s[i]
  <2>1. CASE i <= n
    BY <1>3, <1>6, <2>1
  <2>2. CASE i > n
    <3>1. PICK j \in 1..k - n : i = n + j
      <4>1. i - n \in 1..k - n /\ i = n + (i - n)
        BY <1>1, <2>2
      <4> QED  BY <4>1, Zenon
    <3> QED  BY <1>4, <1>6, <3>1
  <2> QED  BY <2>1, <2>2
<1>8. t = s
  BY <1>1, <1>6, <1>7, SeqEqual
<1> QED  BY <1>1, <1>2, <1>5, <1>8

LEMMA ConcatHeadTail ==
  ASSUME NEW A, NEW s \in Seq(A), NEW t \in Seq(A), s # <<>>
  PROVE  s \o t # <<>> /\ Head(s \o t) = Head(s) /\ Tail(s \o t) = Tail(s) \o t
<1>1. PICK u : u = s \o t
  OBVIOUS
<1>2. PICK n \in Nat, m \in Nat : n = Len(s) /\ n > 0 /\ m = Len(t)
  BY EmptySeq
<1>3. /\ u \in Seq(A) /\ Len(u) = n + m
      /\ \A i \in 1..n : u[i] = s[i]
      /\ \A i \in 1..m : u[n + i] = t[i]
  BY <1>1, <1>2
<1>4. u # <<>> /\ Head(u) = Head(s)
  BY <1>2, <1>3
<1>5. PICK v : v = Tail(u)
  OBVIOUS
<1>6. v \in Seq(A) /\ Len(v) = (n + m) - 1 /\ \A i \in 1..Len(v) : v[i] = u[i + 1]
  BY <1>2, <1>3, <1>4, <1>5, HeadTailProperties
<1>7. PICK r : r = Tail(s)
  OBVIOUS
<1>8. r \in Seq(A) /\ Len(r) = n - 1 /\ \A i \in 1..Len(r) : r[i] = s[i + 1]
  BY <1>2, <1>7, HeadTailProperties
<1>9. PICK w : w = r \o t
  OBVIOUS
<1>10. /\ w \in Seq(A) /\ Len(w) = (n + m) - 1
       /\ \A i \in 1..n - 1 : w[i] = r[i]
       /\ \A i \in 1..m : w[(n - 1) + i] = t[i]
  <2>1. PICK k \in Nat : k = n - 1
    BY <1>2
  <2>0. r \in Seq(A) /\ Len(r) = k
    BY <1>8, <2>1
  <2>2. /\ w \in Seq(A) /\ Len(w) = k + m
        /\ \A i \in 1..k : w[i] = r[i]
        /\ \A i \in 1..m : w[k + i] = t[i]
    <3>1. /\ r \o t \in Seq(A) /\ Len(r \o t) = Len(r) + Len(t)
          /\ \A i \in 1..Len(r) : (r \o t)[i] = r[i]
          /\ \A i \in 1..Len(t) : (r \o t)[Len(r) + i] = t[i]
      <4>1. r \in Seq(A)
        BY <2>0
      <4> QED  BY <4>1
    <3> QED  BY <1>2, <1>9, <2>0, <3>1
  <2>3. k + m = (n + m) - 1
    BY <1>2, <2>1
  <2> QED  BY <2>1, <2>2, <2>3
<1>11. ASSUME NEW i \in 1..(n + m) - 1
       PROVE  v[i] = w[i]
  <2>1. CASE i <= n - 1
    <3>1. i \in 1..n - 1 /\ i + 1 \in 1..n
      BY <1>2, <2>1
    <3> QED  BY <1>3, <1>6, <1>8, <1>10, <3>1
  <2>2. CASE i > n - 1
    <3>1. PICK j \in 1..m : i = (n - 1) + j /\ i + 1 = n + j
      <4>1. (i + 1) - n \in 1..m /\ i = (n - 1) + ((i + 1) - n) /\ i + 1 = n + ((i + 1) - n)
        BY <1>2, <2>2
      <4> QED  BY <4>1, Zenon
    <3> QED  BY <1>3, <1>6, <1>10, <3>1
  <2> QED  BY <1>2, <2>1, <2>2
<1>12. v = w
  BY <1>2, <1>6, <1>10, <1>11, SeqEqual
<1> QED  BY <1>1, <1>4, <1>5, <1>7, <1>9, <1>12

LEMMA WireConcat ==
  \A s, t, u \in Seq(OnTheWire) :
    s \o t \in Seq(OnTheWire) /\ (s \o t) \o u = s \o (t \o u)
  BY ConcatAssociative, ConcatProperties

LEMMA TextConcat ==
  \A s, t, u \in Seq(Characters) :
    s \o t \in Seq(Characters) /\ (s \o t) \o u = s \o (t \o u)
  BY ConcatAssociative, ConcatProperties

LEMMA HeadAndTail ==
  ASSUME NEW A, NEW s \in Seq(A), s # <<>>
  PROVE  /\ Head(s) \in A /\ Tail(s) \in Seq(A)
         /\ s = <<Head(s)>> \o Tail(s)
<1>1. PICK n \in Nat : n = Len(s) /\ n > 0
  BY EmptySeq
<1>2. PICK c, q : c = Head(s) /\ q = Tail(s)
  OBVIOUS
<1>3. /\ c \in A /\ q \in Seq(A) /\ Len(q) = n - 1
      /\ c = s[1] /\ \A i \in 1..Len(q) : q[i] = s[i + 1]
  BY <1>1, <1>2, HeadTailProperties
<1>4. PICK t : t = <<c>> \o q
  OBVIOUS
<1>5. PICK k \in Nat : k = n - 1 /\ k = Len(q) /\ n = 1 + k
  <2>1. n - 1 \in Nat /\ n = 1 + (n - 1)
    BY <1>1
  <2> QED  BY <1>3, <2>1, Zenon
<1>6. /\ t \in Seq(A) /\ Len(t) = 1 + k /\ t[1] = c
      /\ \A i \in 1..k : t[1 + i] = q[i]
  BY <1>3, <1>4, <1>5
<1>7. ASSUME NEW i \in 1..n
      PROVE  t[i] = s[i]
  <2>1. CASE i = 1
    BY <1>3, <1>6, <2>1
  <2>2. CASE i # 1
    <3>1. PICK j \in 1..k : i = 1 + j
      <4>1. i - 1 \in 1..k /\ i = 1 + (i - 1)
        BY <1>1, <1>5, <2>2
      <4> QED  BY <4>1, Zenon
    <3>2. j + 1 = 1 + j
      OBVIOUS
    <3> QED  BY <1>3, <1>5, <1>6, <3>1, <3>2
  <2> QED  BY <2>1, <2>2
<1>8. t = s
  BY <1>1, <1>5, <1>6, <1>7, SeqEqual
<1> QED  BY <1>2, <1>3, <1>4, <1>8

LEMMA EchoInvInit == Init => EchoInv
  BY DEF Init, EchoInv

LEMMA EchoInvStep ==
  ASSUME NewlineEchoed, TimelyEcho, TypeInv, [Next]_vars, EchoInv
  PROVE  EchoInv'
<1> SUFFICES ASSUME Unlost'
             PROVE  /\ outcome' # "timed out"
                    /\ at' \in {"look", "receive"} => Within(zsendbuf', Coming') /\ Sought'
  BY DEF EchoInv
<1>1. Unlost
  BY UnlostBefore DEF TypeInv
<1>2. /\ outcome # "timed out"
      /\ at \in {"look", "receive"} => Within(zsendbuf, Coming) /\ Sought
  BY <1>1 DEF EchoInv
<1>3. zsendbuf' = zsendbuf /\ Sought => Sought'
  BY GivenStays DEF Sought, LooksFor, Newline
<1>4. /\ wire \in Seq(OnTheWire) /\ echo \in Seq(OnTheWire)
      /\ abPrecbuf \in Seq(OnTheWire) /\ zsendbuf \in Seq(OnTheWire)
      /\ remote \in RemoteType /\ cuvar \in Settings
      /\ zbuf \in Seq(Characters)
  BY DEF TypeInv, LineTypes, ProgramTypes
<1>5. /\ wire' \in Seq(OnTheWire) /\ echo' \in Seq(OnTheWire)
      /\ abPrecbuf' \in Seq(OnTheWire) /\ zsendbuf' \in Seq(OnTheWire)
  BY TypeInvStep DEF TypeInv, LineTypes, ProgramTypes
<1>6. abPrecbuf \o echo \in Seq(OnTheWire) /\ Coming \in Seq(OnTheWire)
  BY <1>4, WireConcat DEF Coming
<1>19. ASSUME NEW z, zsendbuf' = z, \A i \in 1..Len(z) : LooksFor(z[i])
       PROVE  Sought'
  BY <1>19, GivenStays DEF Sought, LooksFor, Newline
<1>7. CASE at' \notin {"look", "receive"} /\ outcome' # "timed out"
  BY <1>7
<1>8. CASE UNCHANGED <<zsendbuf, abPrecbuf, echo, wire, outcome>> /\ at \in {"look", "receive"}
  <2>1. Coming' = Coming
    BY <1>8 DEF Coming
  <2> QED  BY <1>2, <1>3, <1>8, <2>1
<1>9. CASE ReadFile \/ Complete \/ SeeSignal \/ PortFails \/ KillLine
  <2>1. at' \in {"buffer", "chunk", "over"} /\ outcome' # "timed out"
    BY <1>2, <1>9 DEF ReadFile, Complete, SeeSignal, PortFails, KillLine, Ended
  <2> QED  BY <1>7, <2>1
<1>10. CASE SendChunk
  <2>1. PICK k, chunk, look :
          /\ k = ChunkLength(zbuf)
          /\ chunk = Flat(Translate, SubSeq(zbuf, 1, k))
          /\ look = IF Checks(chunk) THEN Where(chunk, LooksFor) ELSE <<>>
          /\ zbuf' = SubSeq(zbuf, k + 1, Len(zbuf))
          /\ zsendbuf' = look
          /\ at' = IF look = <<>> THEN AfterChunk(zbuf') ELSE "look"
          /\ IF chunk = <<>> THEN abPrecbuf' = <<>> /\ UNCHANGED <<wire, echo>>
             ELSE SendData(chunk)
    BY <1>10 DEF SendChunk
  <2>2. at = "chunk" /\ outcome' = outcome
    BY <1>10 DEF SendChunk
  <2>3. k \in 1..Len(zbuf)
    BY <1>4, <2>1, <2>2, ChunkLengthType DEF TypeInv, PlaceInv
  <2>4. SubSeq(zbuf, 1, k) \in Seq(Characters)
    BY <1>4, <2>3, CutType
  <2>5. chunk \in Seq(OnTheWire)
    BY <1>4, <2>1, <2>4, ChunkIs, CodedType
  <2>6. CASE look = <<>>
    <3>1. at' \in {"buffer", "chunk"}
      BY <2>1, <2>6 DEF AfterChunk
    <3> QED  BY <1>2, <2>2, <3>1
  <2>7. CASE look # <<>>
    <3>1. look = Awaited(chunk)
      BY <2>1, <2>5, <2>7, LookIs
    <3>2. chunk # <<>>
      BY <2>7, <3>1, FlattenedNone DEF Awaited
    <3>3. PICK n \in 0..Len(echo) : /\ wire' = wire \o chunk
                                    /\ abPrecbuf' = SubSeq(echo, 1, n)
                                    /\ echo' = SubSeq(echo, n + 1, Len(echo))
      BY <2>1, <3>2 DEF SendData
    <3>4. abPrecbuf' \o echo' = echo
      BY <1>4, <3>3, CutIsWhole
    <3>5. Coming' = (echo \o wire) \o chunk
      <4>1. (echo \o wire) \o chunk = echo \o (wire \o chunk)
        <5>1. echo \in Seq(OnTheWire) /\ wire \in Seq(OnTheWire)
          BY <1>4
        <5> QED  BY <2>5, <5>1, ConcatAssociative
      <4> QED  BY <3>3, <3>4, <4>1 DEF Coming
    <3>6. Within(look, chunk) /\ \A i \in 1..Len(look) : LooksFor(look[i])
      BY <2>5, <3>1, AwaitedWithin
    <3>7. echo \o wire \in Seq(OnTheWire) /\ look \in Seq(OnTheWire)
      BY <1>4, <2>5, <3>1, AwaitedType, ConcatProperties
    <3>8. Within(look, Coming')
      BY <2>5, <3>5, <3>6, <3>7, WithinAfter
    <3>9. Sought'
      BY <1>19, <2>1, <3>6
    <3> QED  BY <1>2, <2>2, <3>8, <3>9, <2>1
  <2> QED  BY <2>6, <2>7
<1>11. CASE SeeNoSignal
  BY <1>8, <1>11 DEF SeeNoSignal, line
<1>12. CASE ReadPort
  <2>1. PICK n \in 1..Len(echo) : /\ abPrecbuf' = SubSeq(echo, 1, n)
                                  /\ echo' = SubSeq(echo, n + 1, Len(echo))
    BY <1>12 DEF ReadPort
  <2>2. /\ at = "receive" /\ abPrecbuf = <<>> /\ wire' = wire /\ zsendbuf' = zsendbuf
        /\ outcome' = outcome
    BY <1>12 DEF ReadPort
  <2>3. abPrecbuf' \o echo' = echo
    BY <1>4, <2>1, CutIsWhole
  <2>4. abPrecbuf \o echo = echo
    BY <1>4, <2>2, ConcatEmptySeq
  <2>5. Coming' = Coming
    BY <2>2, <2>3, <2>4 DEF Coming
  <2> QED  BY <1>2, <1>3, <2>2, <2>5
<1>13. CASE TakeCharacter
  <2>1. /\ at = "receive" /\ abPrecbuf # <<>> /\ abPrecbuf' = Tail(abPrecbuf)
        /\ zsendbuf' = (IF Head(abPrecbuf) = Head(zsendbuf) THEN Tail(zsendbuf) ELSE zsendbuf)
        /\ echo' = echo /\ wire' = wire /\ outcome' = outcome
    BY <1>13 DEF TakeCharacter, line
  <2>2. zsendbuf # <<>> /\ Within(zsendbuf, Coming)
    BY <1>2, <2>1 DEF TypeInv, PlaceInv
  <2>3. PICK s : s = abPrecbuf \o (echo \o wire)
    OBVIOUS
  <2>4. s = Coming /\ echo \o wire \in Seq(OnTheWire)
    <3>1. /\ abPrecbuf \in Seq(OnTheWire) /\ echo \in Seq(OnTheWire)
          /\ wire \in Seq(OnTheWire)
      BY <1>4
    <3>2. /\ echo \o wire \in Seq(OnTheWire)
          /\ (abPrecbuf \o echo) \o wire = abPrecbuf \o (echo \o wire)
      BY ONLY <3>1, WireConcat, SMTT(30)
    <3> QED  BY ONLY <2>3, <3>2 DEF Coming
  <2>5. Head(s) = Head(abPrecbuf) /\ Tail(s) = Tail(abPrecbuf) \o (echo \o wire)
    <3>1. PICK a \in Seq(OnTheWire), b \in Seq(OnTheWire) :
            a = abPrecbuf /\ a # <<>> /\ b = echo \o wire
      BY <1>4, <2>1, <2>4
    <3>2. Head(a \o b) = Head(a) /\ Tail(a \o b) = Tail(a) \o b
      BY <3>1, ConcatHeadTail
    <3> QED  BY <2>3, <3>1, <3>2
  <2>6. Coming' = Tail(s)
    <3>1. Tail(abPrecbuf) \in Seq(OnTheWire)
      BY <1>4, <2>1
    <3>2. (Tail(abPrecbuf) \o echo) \o wire = Tail(abPrecbuf) \o (echo \o wire)
      BY <1>4, <3>1, WireConcat
    <3> QED  BY <2>1, <2>5, <3>2 DEF Coming
  <2>7. Within(zsendbuf', Coming')
    BY <1>4, <1>6, <2>1, <2>2, <2>4, <2>5, <2>6, WithinTail
  <2>8. CASE zsendbuf' = zsendbuf
    BY <1>2, <1>3, <2>1, <2>7, <2>8
  <2>9. CASE zsendbuf' = Tail(zsendbuf)
    <3>1. PICK z : z = Tail(zsendbuf)
      OBVIOUS
    <3>2. \A i \in 1..Len(z) : i + 1 \in 1..Len(zsendbuf) /\ z[i] = zsendbuf[i + 1]
      BY <1>4, <2>2, <3>1
    <3>3. Sought
      BY <1>2, <2>1
    <3>4. \A i \in 1..Len(z) : LooksFor(z[i])
      BY <3>2, <3>3 DEF Sought
    <3>5. Sought'
      BY <1>19, <2>9, <3>1, <3>4
    <3> QED  BY <1>2, <2>1, <2>7, <3>5
  <2> QED  BY <2>1, <2>8, <2>9
<1>14. CASE GiveUp
  <2>1. at = "receive" /\ abPrecbuf = <<>> /\ wire = <<>> /\ echo = <<>>
    BY <1>14 DEF GiveUp, TimesOut
  <2>2. Coming = <<>>
    BY <2>1 DEF Coming
  <2>3. zsendbuf # <<>> /\ Within(zsendbuf, Coming)
    BY <1>2, <2>1 DEF TypeInv, PlaceInv
  <2> QED  BY <1>4, <1>6, <2>2, <2>3, WithinTail
<1>15. CASE Interrupt
  <2>1. UNCHANGED <<zsendbuf, abPrecbuf, echo, wire, outcome, at>>
    BY <1>15 DEF Interrupt, line
  <2>2. Coming' = Coming
    BY <2>1 DEF Coming
  <2> QED  BY <1>2, <1>3, <2>1, <2>2
<1>16. CASE LineDies
  BY <1>4, <1>16 DEF LineDies, Unlost, TypeInv, LostTypes
<1>17. CASE Arrive
  <2>1. /\ wire # <<>> /\ wire' = Tail(wire) /\ echo' = echo \o Echo(remote, Head(wire))
        /\ abPrecbuf' = abPrecbuf /\ zsendbuf' = zsendbuf /\ at' = at /\ outcome' = outcome
    BY <1>17 DEF Arrive, theProgram
  <2>2. PICK c \in OnTheWire, q \in Seq(OnTheWire) :
          c = Head(wire) /\ q = Tail(wire) /\ wire = <<c>> \o q
    BY <1>4, <2>1, HeadAndTail, Zenon
  <2>3. PICK e : e = Echo(remote, c)
    OBVIOUS
  <2>4. e \in Seq(OnTheWire)
    BY <2>3, EchoType
  <2>5. PICK p : p = abPrecbuf \o echo
    OBVIOUS
  <2>6. p \in Seq(OnTheWire) /\ Coming = p \o (<<c>> \o q)
    BY <1>6, <2>2, <2>5 DEF Coming
  <2>7. Coming' = (p \o e) \o q
    <3>1. (abPrecbuf \o echo) \o e = abPrecbuf \o (echo \o e)
      <4>1. abPrecbuf \in Seq(OnTheWire) /\ echo \in Seq(OnTheWire)
        BY <1>4
      <4> QED  BY <2>4, <4>1, ConcatAssociative
    <3> QED  BY <2>1, <2>2, <2>3, <2>5, <3>1 DEF Coming
  <2>8. CASE at \in {"look", "receive"}
    <3>1. PICK S : S = {x \in OnTheWire : LooksFor(x)}
      OBVIOUS
    <3>2. \A i \in 1..Len(zsendbuf) : zsendbuf[i] \in S
      <4>1. \A i \in 1..Len(zsendbuf) : zsendbuf[i] \in OnTheWire
        BY <1>4
      <4>2. \A i \in 1..Len(zsendbuf) : LooksFor(zsendbuf[i])
        BY <1>2, <2>8 DEF Sought
      <4> QED  BY <3>1, <4>1, <4>2
    <3>3. c \in S => \E k \in 1..Len(e) : e[k] = c
      BY <1>4, <2>3, <3>1, EchoHas
    <3>4. Within(zsendbuf, p \o (<<c>> \o q))
      BY <1>2, <2>6, <2>8
    <3>5. Within(zsendbuf, (p \o e) \o q)
      BY <1>4, <2>4, <2>6, <3>2, <3>3, <3>4, WithinReplaced
    <3>6. Within(zsendbuf', Coming')
      BY <2>1, <2>7, <3>5
    <3> QED  BY <1>2, <1>3, <2>1, <2>8, <3>6
  <2> QED  BY <1>2, <2>1, <2>8
<1>18. CASE LoseSent
  <2>1. ~lost.dead
    BY <1>1 DEF Unlost
  <2>2. lost' = [lost EXCEPT !.sent = @ + 1]
    BY <1>18, <2>1 DEF LoseSent
  <2>3. lost.sent = 0 /\ lost'.sent = 1
    BY <1>1, <2>2 DEF Unlost, TypeInv, LostTypes
  <2>4. FALSE
    BY <2>3 DEF Unlost
  <2> QED  BY <2>4
<1>21. CASE LoseEcho
  <2>2. lost' = [lost EXCEPT !.echoes = @ + 1]
    BY <1>21 DEF LoseEcho
  <2>3. lost.echoes = 0 /\ lost'.echoes = 1
    BY <1>1, <2>2 DEF Unlost, TypeInv, LostTypes
  <2>4. FALSE
    BY <2>3 DEF Unlost
  <2> QED  BY <2>4
<1>20. CASE UNCHANGED vars
  <2>1. UNCHANGED <<zsendbuf, abPrecbuf, echo, wire, outcome, at>>
    BY <1>20 DEF vars
  <2>2. Coming' = Coming
    BY <2>1 DEF Coming
  <2> QED  BY <1>2, <1>3, <2>1, <2>2
<1> QED  BY <1>9, <1>10, <1>11, <1>12, <1>13, <1>14, <1>15, <1>16, <1>17, <1>18, <1>20, <1>21
         DEF Next, Program, Line

(* On a line that loses nothing, with echoes in time, no transfer gives up *)
(* for want of an echo, whatever the file, the chunks and the rest of what *)
(* the remote terminal echoes (fcusend_buf).                               *)
THEOREM EchoesAreFound ==
  ASSUME NewlineEchoed
  PROVE  Spec => []EchoesFound
<1>1. CASE TimelyEcho
  <2>1. Init => TypeInv /\ EchoInv
    BY TypeInvInit, EchoInvInit
  <2>2. TypeInv /\ EchoInv /\ [Next]_vars => (TypeInv /\ EchoInv)'
    BY <1>1, TypeInvStep, EchoInvStep
  <2>3. EchoInv => EchoesFound
    BY DEF EchoInv, EchoesFound
  <2> QED  BY <2>1, <2>2, <2>3, PTL DEF Spec
<1>2. CASE ~TimelyEcho
  <2>1. TimelyEcho = FALSE
    BY <1>2
  <2>2. EchoesFound
    BY <1>2 DEF EchoesFound
  <2> QED  BY <2>2, PTL
<1> QED  BY <1>1, <1>2

-----------------------------------------------------------------------------
(* What is sent, on its way and at the other side *)

(* The characters of a line but for its end, the characters that are sent, *)
(* and what of a sequence is sent.                                         *)
Plain  == Characters \ {"nl"}
Kept   == {c \in Characters : c = "ctl" => cuvar.fCuvar_binary}
Keeper == [c \in Characters |-> IF c \in Kept THEN <<c>> ELSE <<>>]
Keep(s) == Flattened(Keeper, s)

(* The text of the remote file.                                            *)
Ender   == [l \in Seq(Plain) |-> Append(l, "nl")]
Text(r) == Flattened(Ender, r.lines) \o r.pending

LEMMA SubType ==
  ASSUME NEW A, NEW B, A \subseteq B
  PROVE  \A s \in Seq(A) : s \in Seq(B)
  OBVIOUS

LEMMA KeptIs == Kept \subseteq Characters /\ Plain \subseteq Characters
  BY DEF Kept, Plain

LEMMA KeeperType ==
  /\ Keeper \in [Characters -> Seq(Kept)]
  /\ Keeper \in [Characters -> Seq(Characters)]
<1>1. \A c \in Characters : c \in Kept => <<c>> \in Seq(Kept) /\ <<c>> \in Seq(Characters)
  BY SingleType
<1>2. <<>> \in Seq(Kept) /\ <<>> \in Seq(Characters)
  OBVIOUS
<1>3. \A c \in Characters : /\ (IF c \in Kept THEN <<c>> ELSE <<>>) \in Seq(Kept)
                            /\ (IF c \in Kept THEN <<c>> ELSE <<>>) \in Seq(Characters)
  BY <1>1, <1>2
<1> HIDE DEF Kept, Characters
<1> QED  BY <1>3 DEF Keeper

LEMMA KeepConcat ==
  ASSUME NEW s \in Seq(Characters), NEW t \in Seq(Characters)
  PROVE  Keep(s \o t) = Keep(s) \o Keep(t)
<1>1. Keeper \in [Characters -> Seq(Characters)]
  BY KeeperType
<1>2. s \in Seq(Characters) /\ t \in Seq(Characters)
  OBVIOUS
<1>3. Flattened(Keeper, s \o t) = Flattened(Keeper, s) \o Flattened(Keeper, t)
  BY ONLY <1>1, <1>2, FlattenedConcat, SMTT(30)
<1> QED  BY <1>3 DEF Keep

LEMMA KeepAppend ==
  ASSUME NEW s \in Seq(Characters), NEW c \in Characters
  PROVE  Keep(Append(s, c)) = Keep(s) \o Keeper[c]
<1>1. Keeper \in [Characters -> Seq(Characters)]
  BY KeeperType
<1> QED  BY <1>1, FlattenedAppend DEF Keep

LEMMA CodedConcat ==
  ASSUME cuvar \in Settings, NEW s \in Seq(Characters), NEW t \in Seq(Characters)
  PROVE  Coded(s \o t) = Coded(s) \o Coded(t)
  BY CoderType, FlattenedConcat DEF Coded

LEMMA ConcatAppend ==
  ASSUME NEW A, NEW s \in Seq(A), NEW t \in Seq(A), NEW c \in A
  PROVE  s \o Append(t, c) = Append(s \o t, c)
  OBVIOUS

LEMMA KeepType ==
  ASSUME NEW s \in Seq(Characters)
  PROVE  Keep(s) \in Seq(Kept) /\ Keep(s) \in Seq(Characters)
  BY KeeperType, FlattenedType DEF Keep

LEMMA EnderType == Ender \in [Seq(Plain) -> Seq(Characters)]
<1>1. ASSUME NEW l \in Seq(Plain)
      PROVE  Append(l, "nl") \in Seq(Characters)
  <2>1. l \in Seq(Characters) /\ "nl" \in Characters
    BY KeptIs, SubType, OnTheWireHas
  <2> QED  BY <2>1, AppendProperties
<1> QED  BY <1>1 DEF Ender

LEMMA TextType ==
  ASSUME NEW r, r.lines \in Seq(Seq(Plain)), r.pending \in Seq(Plain)
  PROVE  Text(r) \in Seq(Characters) /\ Flattened(Ender, r.lines) \in Seq(Characters)
<1>1. Flattened(Ender, r.lines) \in Seq(Characters)
  BY EnderType, FlattenedType
<1>2. r.pending \in Seq(Characters)
  BY KeptIs, SubType
<1> QED  BY <1>1, <1>2, ConcatProperties DEF Text

(* The text when a character comes, and when a line is handed over.        *)
LEMMA TextAppend ==
  ASSUME NEW r, NEW q, NEW c \in Plain, r.lines \in Seq(Seq(Plain)), r.pending \in Seq(Plain),
         q.lines = r.lines, q.pending = Append(r.pending, c)
  PROVE  /\ Text(q) = Append(Text(r), c)
         /\ q.lines \in Seq(Seq(Plain)) /\ q.pending \in Seq(Plain)
<1>1. PICK a \in Seq(Characters), b \in Seq(Characters) :
        a = Flattened(Ender, r.lines) /\ b = r.pending
  <2>1. r.pending \in Seq(Characters)
    BY KeptIs, SubType
  <2> QED  BY <2>1, TextType
<1>2. c \in Characters
  BY KeptIs
<1>3. a \o Append(b, c) = Append(a \o b, c)
  BY <1>2, ConcatAppend
<1>4. Append(r.pending, c) \in Seq(Plain)
  BY AppendProperties
<1> QED  BY <1>1, <1>3, <1>4 DEF Text

LEMMA TextHandOver ==
  ASSUME NEW r, NEW q, r.lines \in Seq(Seq(Plain)), r.pending \in Seq(Plain),
         q.lines = Append(r.lines, r.pending), q.pending = <<>>
  PROVE  /\ Text(q) = Append(Text(r), "nl")
         /\ q.lines \in Seq(Seq(Plain)) /\ q.pending \in Seq(Plain)
<1>1. PICK a \in Seq(Characters), b \in Seq(Characters) :
        a = Flattened(Ender, r.lines) /\ b = r.pending
  <2>1. r.pending \in Seq(Characters)
    BY KeptIs, SubType
  <2> QED  BY <2>1, TextType
<1>2. "nl" \in Characters /\ Append(b, "nl") \in Seq(Characters)
  BY <1>1, OnTheWireHas, AppendProperties
<1>3. Flattened(Ender, q.lines) = a \o Ender[b]
  BY <1>1, EnderType, FlattenedAppend
<1>4. Ender[b] = Append(b, "nl")
  BY <1>1 DEF Ender
<1>5. a \o Append(b, "nl") = Append(a \o b, "nl")
  BY <1>2, ConcatAppend
<1>6. Append(a \o b, "nl") \o <<>> = Append(a \o b, "nl")
  <2>1. a \o b \in Seq(Characters)
    BY <1>1, ConcatProperties
  <2> QED  BY <1>2, <2>1, AppendProperties, ConcatEmptySeq
<1>7. Append(r.lines, r.pending) \in Seq(Seq(Plain)) /\ <<>> \in Seq(Plain)
  BY AppendProperties
<1> QED  BY <1>1, <1>3, <1>4, <1>5, <1>6, <1>7 DEF Text

(* What is not kept is not sent either.                                    *)
LEMMA CodedKeep ==
  ASSUME cuvar \in Settings, NEW s \in Seq(Characters)
  PROVE  Coded(Keep(s)) = Coded(s)
<1> DEFINE T == {t \in Seq(Characters) : Coded(Keep(t)) = Coded(t)}
<1>1. <<>> \in T
  <2>1. <<>> \in Seq(Characters)
    OBVIOUS
  <2> QED  BY <2>1, FlattenedNone DEF Keep, Coded
<1>2. ASSUME NEW t \in T, NEW c \in Characters
      PROVE  Append(t, c) \in T
  <2>1. PICK k \in Seq(Characters), d \in Seq(OnTheWire) : k = Keep(t) /\ d = Coded(t)
    BY KeepType, CodedType
  <2>2. Append(t, c) \in Seq(Characters) /\ Keep(Append(t, c)) = k \o Keeper[c]
    <3>1. Append(t, c) \in Seq(Characters)
      OBVIOUS
    <3>2. t \in Seq(Characters)
      OBVIOUS
    <3>3. Keep(Append(t, c)) = Keep(t) \o Keeper[c]
      BY <3>2, KeepAppend
    <3> QED  BY <2>1, <3>1, <3>3
  <2>3. Coded(Append(t, c)) = d \o Coder[c]
    BY <2>1, CoderType, FlattenedAppend DEF Coded
  <2>4. Coded(k) = d
    BY <2>1
  <2>5. CASE c \in Kept
    <3>1. Keeper[c] = <<c>> /\ <<c>> \in Seq(Characters)
      BY <2>5, SingleType DEF Keeper
    <3>2. Coded(k \o <<c>>) = Coded(k) \o Coded(<<c>>)
      BY <3>1, CodedConcat, Zenon
    <3>3. Coded(<<c>>) = Coder[c]
      BY CoderType, FlattenedOne DEF Coded
    <3> QED  BY <2>2, <2>3, <2>4, <3>1, <3>2, <3>3
  <2>6. CASE c \notin Kept
    <3>1. Keeper[c] = <<>>
      BY <2>6 DEF Keeper
    <3>2. Coder[c] = <<>>
      BY <2>6, TranslateType DEF Coder, Kept
    <3>3. k \o <<>> = k /\ d \o <<>> = d
      OBVIOUS
    <3> QED  BY <2>2, <2>3, <2>4, <3>1, <3>2, <3>3
  <2> QED  BY <2>5, <2>6
<1>3. T \subseteq Seq(Characters)
  OBVIOUS
<1> HIDE DEF T
<1>4. \A t \in Seq(Characters) : t \in T
  BY <1>1, <1>2, <1>3, SeqInduction
<1> QED  BY <1>4 DEF T

(* The first of what is on its way, and how it goes over the line.         *)
LEMMA CodedHead ==
  ASSUME cuvar \in Settings, NEW stuff \in Seq(Kept), stuff # <<>>
  PROVE  \E c \in Kept, rest \in Seq(Kept) :
           /\ stuff = <<c>> \o rest
           /\ Coded(stuff) = Translate(c) \o Coded(rest)
           /\ Translate(c) = IF c = "ctl" THEN <<"prefix", "ctl">>
                             ELSE IF c = "nl" THEN <<Newline>> ELSE <<c>>
<1>1. PICK c \in Kept, rest \in Seq(Kept) : stuff = <<c>> \o rest
  <2>1. Head(stuff) \in Kept /\ Tail(stuff) \in Seq(Kept)
    BY HeadTailProperties
  <2>2. stuff = <<Head(stuff)>> \o Tail(stuff)
    BY HeadAndTail
  <2> QED  BY <2>1, <2>2
<1>2. c \in Characters /\ rest \in Seq(Characters) /\ <<c>> \in Seq(Characters)
  BY KeptIs, SubType, SingleType
<1>3. Coded(<<c>> \o rest) = Coded(<<c>>) \o Coded(rest)
  BY <1>2, CodedConcat, Zenon
<1>4. Coded(<<c>>) = Translate(c)
  <2>1. Coded(<<c>>) = Coder[c]
    BY <1>2, CoderType, FlattenedOne DEF Coded
  <2> QED  BY <1>2, <2>1 DEF Coder
<1>5. Translate(c) = IF c = "ctl" THEN <<"prefix", "ctl">>
                     ELSE IF c = "nl" THEN <<Newline>> ELSE <<c>>
  BY <1>2, TranslateType DEF Kept, Characters
<1> QED  BY <1>1, <1>3, <1>4, <1>5

-----------------------------------------------------------------------------
(* A text is made of its lines in one way only *)

LEMMA ConcatFacts ==
  ASSUME NEW A, NEW s \in Seq(A), NEW t \in Seq(A), NEW n \in Nat, n = Len(s)
  PROVE  /\ Len(s \o t) = n + Len(t)
         /\ \A i \in 1..n : (s \o t)[i] = s[i]
         /\ \A i \in 1..Len(t) : (s \o t)[n + i] = t[i]
  OBVIOUS

(* s is a, a line end, and p.                                              *)
Ends(s, a, p) ==
  /\ Len(s) = Len(a) + 1 + Len(p) /\ s[Len(a) + 1] = "nl"
  /\ \A i \in 1..Len(a) : s[i] = a[i]
  /\ \A i \in 1..Len(p) : s[Len(a) + 1 + i] = p[i]

LEMMA EndAt ==
  ASSUME NEW a \in Seq(Characters), NEW p \in Seq(Plain)
  PROVE  Ends(Append(a, "nl") \o p, a, p)
<1>0. PICK s : s = Append(a, "nl") \o p
  OBVIOUS
<1>1. PICK c : c = Append(a, "nl")
  OBVIOUS
<1>2. "nl" \in Characters /\ p \in Seq(Characters)
  BY OnTheWireHas, KeptIs, SubType
<1>3. /\ c \in Seq(Characters) /\ Len(c) = Len(a) + 1 /\ c[Len(a) + 1] = "nl"
      /\ \A i \in 1..Len(a) : c[i] = a[i]
  BY <1>1, <1>2, AppendProperties
<1>4. PICK n \in Nat : n = Len(a) + 1
  OBVIOUS
<1>5. n = Len(c)
  BY <1>3, <1>4
<1>6. /\ Len(c \o p) = n + Len(p)
      /\ \A i \in 1..n : (c \o p)[i] = c[i]
      /\ \A i \in 1..Len(p) : (c \o p)[n + i] = p[i]
  BY <1>2, <1>3, <1>5, ConcatFacts, SMTT(20)
<1>7. s = c \o p
  BY <1>0, <1>1, Zenon
<1>8. /\ Len(s) = n + Len(p)
      /\ \A i \in 1..n : s[i] = c[i]
      /\ \A i \in 1..Len(p) : s[n + i] = p[i]
  BY <1>6, <1>7, Zenon
<1>9. n \in 1..n /\ \A i \in 1..Len(a) : i \in 1..n
  BY <1>4
<1>10. Ends(s, a, p)
  BY <1>3, <1>4, <1>8, <1>9 DEF Ends
<1> QED  BY <1>0, <1>10

LEMMA NoEnd ==
  ASSUME NEW a \in Seq(Characters), NEW p \in Seq(Plain), NEW q \in Seq(Plain)
  PROVE  Append(a, "nl") \o p # q
<1>1. PICK s : s = Append(a, "nl") \o p
  OBVIOUS
<1>2. Len(s) = Len(a) + 1 + Len(p) /\ s[Len(a) + 1] = "nl"
  BY <1>1, EndAt DEF Ends
<1>3. Len(a) + 1 \in 1..Len(s)
  BY <1>2
<1>4. \A i \in 1..Len(q) : q[i] # "nl"
  BY DEF Plain
<1> QED  BY <1>1, <1>2, <1>3, <1>4

LEMMA SameEnd ==
  ASSUME NEW a \in Seq(Characters), NEW b \in Seq(Characters),
         NEW p \in Seq(Plain), NEW q \in Seq(Plain), NEW s,
         Ends(s, a, p), Ends(s, b, q)
  PROVE  Len(a) >= Len(b)
<1> SUFFICES ASSUME Len(a) < Len(b)  PROVE FALSE
  OBVIOUS
<1>1. Len(s) = Len(a) + 1 + Len(p) /\ \A i \in 1..Len(p) : s[Len(a) + 1 + i] = p[i]
  BY DEF Ends
<1>2. Len(s) = Len(b) + 1 + Len(q) /\ s[Len(b) + 1] = "nl"
  BY DEF Ends
<1>3. PICK k \in Nat, n \in Nat, m \in Nat, l \in Nat :
        k = Len(a) /\ n = Len(b) /\ m = Len(p) /\ l = Len(q)
  OBVIOUS
<1>4. PICK j \in 1..m : k + 1 + j = n + 1
  <2>1. n - k \in 1..m /\ k + 1 + (n - k) = n + 1
    BY <1>1, <1>2, <1>3
  <2> QED  BY <2>1, Zenon
<1>5. s[k + 1 + j] = p[j] /\ s[n + 1] = "nl"
  BY <1>1, <1>2, <1>3
<1>6. p[j] \in Plain
  BY <1>3
<1> QED  BY <1>4, <1>5, <1>6 DEF Plain

LEMMA SplitUnique ==
  ASSUME NEW a \in Seq(Characters), NEW b \in Seq(Characters),
         NEW p \in Seq(Plain), NEW q \in Seq(Plain), NEW s, Ends(s, a, p), Ends(s, b, q)
  PROVE  a = b /\ p = q
<1>1. Len(a) >= Len(b) /\ Len(b) >= Len(a)
  BY SameEnd
<1>2. Len(a) = Len(b)
  <2>1. Len(a) \in Nat /\ Len(b) \in Nat
    OBVIOUS
  <2> QED  BY <1>1, <2>1
<1>3. /\ Len(s) = Len(a) + 1 + Len(p)
      /\ \A i \in 1..Len(a) : s[i] = a[i]
      /\ \A i \in 1..Len(p) : s[Len(a) + 1 + i] = p[i]
  BY DEF Ends
<1>4. /\ Len(s) = Len(b) + 1 + Len(q)
      /\ \A i \in 1..Len(b) : s[i] = b[i]
      /\ \A i \in 1..Len(q) : s[Len(b) + 1 + i] = q[i]
  BY DEF Ends
<1>5. Len(p) = Len(q)
  <2>1. Len(p) \in Nat /\ Len(q) \in Nat /\ Len(a) \in Nat
    OBVIOUS
  <2> QED  BY <1>2, <1>3, <1>4, <2>1
<1>6. \A i \in 1..Len(a) : a[i] = b[i]
  BY <1>2, <1>3, <1>4
<1>7. \A i \in 1..Len(p) : p[i] = q[i]
  BY <1>2, <1>3, <1>4, <1>5
<1>8. a = b
  BY <1>2, <1>6, SeqEqual
<1>9. p = q
  BY <1>5, <1>7, SeqEqual
<1> QED  BY <1>8, <1>9

LEMMA EndedAppend ==
  ASSUME NEW L \in Seq(Seq(Plain)), NEW l \in Seq(Plain)
  PROVE  /\ Flattened(Ender, Append(L, l)) = Append(Flattened(Ender, L) \o l, "nl")
         /\ Flattened(Ender, L) \o l \in Seq(Characters)
         /\ Flattened(Ender, L) \in Seq(Characters)
<1>1. PICK a \in Seq(Characters) : a = Flattened(Ender, L)
  BY EnderType, FlattenedType
<1>2. l \in Seq(Characters) /\ "nl" \in Characters
  BY KeptIs, SubType, OnTheWireHas
<1>3. Flattened(Ender, Append(L, l)) = a \o Ender[l]
  BY <1>1, EnderType, FlattenedAppend
<1>4. Ender[l] = Append(l, "nl")
  BY DEF Ender
<1>5. a \o Append(l, "nl") = Append(a \o l, "nl")
  BY <1>2, ConcatAppend
<1>6. a \o l \in Seq(Characters)
  BY <1>2, ConcatProperties
<1> QED  BY <1>1, <1>3, <1>4, <1>5, <1>6

(* The text of ended lines and of what is pending after them.              *)
EndedText(L, p) == Flattened(Ender, L) \o p

LEMMA LinesUnique ==
  ASSUME NEW L \in Seq(Seq(Plain)), NEW M \in Seq(Seq(Plain)),
         NEW p \in Seq(Plain), NEW q \in Seq(Plain),
         EndedText(L, p) = EndedText(M, q)
  PROVE  L = M /\ p = q
<1> USE DEF EndedText
<1> DEFINE Same(x, y) == \A r, s \in Seq(Plain) :
                           Flattened(Ender, x) \o r = Flattened(Ender, y) \o s => x = y /\ r = s
<1> DEFINE T == {x \in Seq(Seq(Plain)) : \A y \in Seq(Seq(Plain)) : Same(x, y)}
<1>1. \A r \in Seq(Plain) : Flattened(Ender, <<>>) \o r = r
  BY FlattenedNone, ConcatEmptySeq
<1>2. <<>> \in T
  <2>1. <<>> \in Seq(Seq(Plain))
    OBVIOUS
  <2>2. ASSUME NEW y \in Seq(Seq(Plain)), NEW r \in Seq(Plain), NEW s \in Seq(Plain),
               Flattened(Ender, <<>>) \o r = Flattened(Ender, y) \o s
        PROVE  <<>> = y /\ r = s
    <3>1. CASE y = <<>>
      BY <1>1, <2>2, <3>1
    <3>2. CASE y # <<>>
      <4>1. PICK z \in Seq(Seq(Plain)), l \in Seq(Plain) : y = Append(z, l)
        BY <3>2, SequenceEmptyOrAppend
      <4>2. Append(Flattened(Ender, z) \o l, "nl") \o s = r
        BY <1>1, <2>2, <4>1, EndedAppend
      <4>3. Flattened(Ender, z) \o l \in Seq(Characters)
        BY EndedAppend
      <4> QED  BY <4>2, <4>3, NoEnd
    <3> QED  BY <3>1, <3>2
  <2> QED  BY <2>1, <2>2
<1>3. ASSUME NEW x \in T, NEW k \in Seq(Plain)
      PROVE  Append(x, k) \in T
  <2>0. x \in Seq(Seq(Plain)) /\ \A y \in Seq(Seq(Plain)) : Same(x, y)
    OBVIOUS
  <2>1. Append(x, k) \in Seq(Seq(Plain))
    OBVIOUS
  <2>2. PICK a \in Seq(Characters) : a = Flattened(Ender, x) \o k
    BY <2>0, EndedAppend
  <2>3. Flattened(Ender, Append(x, k)) = Append(a, "nl")
    BY <2>0, <2>2, EndedAppend
  <2>4. ASSUME NEW y \in Seq(Seq(Plain)), NEW r \in Seq(Plain), NEW s \in Seq(Plain),
               Flattened(Ender, Append(x, k)) \o r = Flattened(Ender, y) \o s
        PROVE  Append(x, k) = y /\ r = s
    <3>1. Append(a, "nl") \o r = Flattened(Ender, y) \o s
      BY <2>3, <2>4
    <3>2. CASE y = <<>>
      <4>1. Append(a, "nl") \o r = s
        BY <1>1, <3>1, <3>2
      <4> QED  BY <2>2, <2>4, <4>1, NoEnd
    <3>3. CASE y # <<>>
      <4>1. PICK z \in Seq(Seq(Plain)), l \in Seq(Plain) : y = Append(z, l)
        BY <3>3, SequenceEmptyOrAppend
      <4>2. PICK b \in Seq(Characters) : b = Flattened(Ender, z) \o l
        BY EndedAppend
      <4>3. Append(a, "nl") \o r = Append(b, "nl") \o s
        BY <3>1, <4>1, <4>2, EndedAppend
      <4>6. a \in Seq(Characters) /\ b \in Seq(Characters) /\ r \in Seq(Plain) /\ s \in Seq(Plain)
        BY <2>2, <4>2
      <4>4. a = b /\ r = s
        <5>1. PICK t : Ends(t, a, r) /\ Ends(t, b, s)
          <6>1. Ends(Append(a, "nl") \o r, a, r)
            BY <4>6, EndAt
          <6>2. Ends(Append(b, "nl") \o s, b, s)
            BY <4>6, EndAt
          <6> QED  BY <4>3, <6>1, <6>2, Zenon
        <5> QED  BY <4>6, <5>1, SplitUnique
      <4>5. x = z /\ k = l
        BY <2>0, <2>2, <4>2, <4>4
      <4> QED  BY <4>1, <4>4, <4>5
    <3> QED  BY <3>2, <3>3
  <2> QED  BY <2>1, <2>4
<1>4. T \subseteq Seq(Seq(Plain))
  OBVIOUS
<1>5. T = {x \in Seq(Seq(Plain)) : \A y \in Seq(Seq(Plain)) : Same(x, y)}
  OBVIOUS
<1> HIDE DEF T
<1>6. \A x \in Seq(Seq(Plain)) : x \in T
  BY <1>2, <1>3, <1>4, SeqInduction
<1>7. L \in T /\ M \in Seq(Seq(Plain))
  BY <1>6
<1>8. Same(L, M)
  BY <1>5, <1>7
<1> QED  BY <1>8

-----------------------------------------------------------------------------
(* What is sent of the lines of a file *)

WholeLines == {Append(m, "nl") : m \in Seq(Plain)}

(* A file is made of whole lines, the last of which may want its end; of   *)
(* such a rest something is sent in text mode as well.                     *)
FilesAreLines ==
  \A f \in Files : \E whole \in Seq(WholeLines) :
    \/ f = whole
    \/ \E rest \in Seq(Plain) : /\ f = Append(whole, rest)
                                /\ \E i \in 1..Len(rest) : rest[i] # "ctl"

(* Content as a function of a character, and of a line.                    *)
Picker == [c \in Characters |-> IF IsContent(c) THEN <<c>> ELSE <<>>]
Reader == [l \in Seq(Characters) |-> Content(l)]

LEMMA PickerType == Picker \in [Characters -> Seq(Plain)]
<1>1. \A c \in Characters : IsContent(c) => c \in Plain
  BY DEF IsContent, Plain
<1>2. \A c \in Plain : <<c>> \in Seq(Plain)
  BY SingleType
<1>3. <<>> \in Seq(Plain)
  OBVIOUS
<1>4. \A c \in Characters : (IF IsContent(c) THEN <<c>> ELSE <<>>) \in Seq(Plain)
  BY <1>1, <1>2, <1>3
<1> HIDE DEF Plain, Characters
<1> QED  BY <1>4 DEF Picker

LEMMA ContentIs ==
  ASSUME NEW l \in Seq(Characters)
  PROVE  Content(l) = Flattened(Picker, l)
<1>1. \A i \in DOMAIN l : Picker[l[i]] = IF IsContent(l[i]) THEN <<l[i]>> ELSE <<>>
  BY DEF Picker
<1>2. [i \in DOMAIN l |-> IF IsContent(l[i]) THEN <<l[i]>> ELSE <<>>]
        = [i \in DOMAIN l |-> Picker[l[i]]]
  BY <1>1
<1> QED  BY <1>2 DEF Content, Where, Flattened, Mapped

LEMMA ReaderType == Reader \in [Seq(Characters) -> Seq(Plain)]
<1>1. \A l \in Seq(Characters) : Content(l) \in Seq(Plain)
  BY ContentIs, PickerType, FlattenedType
<1> QED  BY <1>1 DEF Reader

LEMMA ContentPlain ==
  ASSUME NEW m \in Seq(Plain)
  PROVE  Keep(m) = Content(m) /\ m \in Seq(Characters) /\ Content(m) \in Seq(Plain)
<1>1. m \in Seq(Characters)
  BY KeptIs, SubType
<1>2. ASSUME NEW i \in DOMAIN m
      PROVE  Keeper[m[i]] = Picker[m[i]]
  <2>1. m[i] \in Plain /\ m[i] \in Characters /\ m[i] # "nl"
    BY KeptIs DEF Plain
  <2>2. IsContent(m[i]) <=> m[i] \in Kept
    BY <2>1 DEF IsContent, Kept
  <2> QED  BY <2>1, <2>2 DEF Keeper, Picker
<1>3. Flattened(Keeper, m) = Flattened(Picker, m)
  BY <1>2, FlattenedSame
<1>4. Content(m) \in Seq(Plain)
  BY <1>1, ContentIs, PickerType, FlattenedType
<1> QED  BY <1>1, <1>3, <1>4, ContentIs DEF Keep

LEMMA ContentWhole ==
  ASSUME NEW m \in Seq(Plain)
  PROVE  /\ Append(m, "nl") \in Seq(Characters)
         /\ Content(Append(m, "nl")) = Content(m)
         /\ Keep(Append(m, "nl")) = Append(Content(m), "nl")
<1>1. /\ m \in Seq(Characters) /\ "nl" \in Characters
      /\ Keep(m) = Content(m) /\ Content(m) \in Seq(Plain)
  BY ContentPlain, OnTheWireHas
<1>2. Append(m, "nl") \in Seq(Characters)
  BY <1>1, AppendProperties
<1>3. PICK k : k = Content(m)
  OBVIOUS
<1>4. k \in Seq(Plain) /\ k \in Seq(Characters)
  BY <1>1, <1>3, KeptIs, SubType
<1>5. Content(Append(m, "nl")) = k \o Picker["nl"]
  <2>1. Flattened(Picker, Append(m, "nl")) = Flattened(Picker, m) \o Picker["nl"]
    BY <1>1, PickerType, FlattenedAppend
  <2> QED  BY <1>1, <1>2, <1>3, <2>1, ContentIs
<1>6. Picker["nl"] = <<>>
  BY <1>1 DEF Picker, IsContent
<1>7. k \o <<>> = k
  BY <1>4
<1>8. Keep(Append(m, "nl")) = k \o Keeper["nl"]
  BY <1>1, <1>3, KeepAppend
<1>9. Keeper["nl"] = <<"nl">>
  BY <1>1 DEF Keeper, Kept
<1>10. k \o <<"nl">> = Append(k, "nl")
  BY <1>1, <1>4
<1> QED  BY <1>2, <1>3, <1>5, <1>6, <1>7, <1>8, <1>9, <1>10

LEMMA EachIs ==
  ASSUME NEW f \in Seq(Seq(Characters))
  PROVE  Each(Content, f) = Mapped(Reader, f) /\ Mapped(Reader, f) \in Seq(Seq(Plain))
<1>1. \A i \in DOMAIN f : Reader[f[i]] = Content(f[i])
  BY DEF Reader
<1>2. [i \in DOMAIN f |-> Content(f[i])] = [i \in DOMAIN f |-> Reader[f[i]]]
  BY <1>1
<1>3. Each(Content, f) = Mapped(Reader, f)
  BY <1>2 DEF Each, Mapped
<1>4. Mapped(Reader, f) \in Seq(Seq(Plain))
  BY ReaderType, MappedType
<1> QED  BY <1>3, <1>4

LEMMA EachAppend ==
  ASSUME NEW f \in Seq(Seq(Characters)), NEW l \in Seq(Characters)
  PROVE  Mapped(Reader, Append(f, l)) = Append(Mapped(Reader, f), Content(l))
<1>1. Mapped(Reader, Append(f, l)) = Append(Mapped(Reader, f), Reader[l])
  BY ReaderType, MappedAppend
<1>2. Reader[l] = Content(l)
  BY DEF Reader
<1> QED  BY <1>1, <1>2

(* The text of a file of whole lines is that of their contents.            *)
LEMMA WholeText ==
  \A f \in Seq(WholeLines) :
    /\ f \in Seq(Seq(Characters))
    /\ Keep(FlattenSeq(f)) = Flattened(Ender, Mapped(Reader, f))
<1> DEFINE Good(f) == Keep(FlattenSeq(f)) = Flattened(Ender, Mapped(Reader, f))
<1> DEFINE T == {f \in Seq(WholeLines) : Good(f)}
<1>0. WholeLines \subseteq Seq(Characters)
  BY ContentWhole DEF WholeLines
<1>1. \A f \in Seq(WholeLines) : f \in Seq(Seq(Characters))
  BY <1>0, SubType
<1>2. <<>> \in T
  <2>1. Keep(<<>>) = <<>>
    BY FlattenedNone DEF Keep
  <2>2. Flattened(Ender, Mapped(Reader, <<>>)) = <<>>
    <3>1. Mapped(Reader, <<>>) = <<>>
      <4>1. DOMAIN <<>> = {}
        OBVIOUS
      <4> QED  BY <4>1 DEF Mapped
    <3> QED  BY <3>1, FlattenedNone
  <2>3. <<>> \in Seq(WholeLines)
    OBVIOUS
  <2> QED  BY <2>1, <2>2, <2>3, FlattenNone
<1>3. ASSUME NEW f \in T, NEW l \in WholeLines
      PROVE  Append(f, l) \in T
  <2>0. f \in Seq(WholeLines) /\ Good(f)
    OBVIOUS
  <2>1. PICK m \in Seq(Plain) : l = Append(m, "nl")
    BY DEF WholeLines
  <2>2. f \in Seq(Seq(Characters)) /\ l \in Seq(Characters)
    BY <1>0, <1>1, <2>0
  <2>3. PICK g : g = FlattenSeq(f)
    OBVIOUS
  <2>4. g \in Seq(Characters)
    BY <2>2, <2>3, FlattenType
  <2>5. FlattenSeq(Append(f, l)) = g \o l
    BY <2>2, <2>3, FlattenAppend
  <2>6. Keep(g \o l) = Keep(g) \o Keep(l)
    BY <2>2, <2>4, KeepConcat
  <2>7. PICK L : L = Mapped(Reader, f)
    OBVIOUS
  <2>8. L \in Seq(Seq(Plain)) /\ Keep(g) = Flattened(Ender, L)
    BY <2>0, <2>2, <2>3, <2>7, EachIs
  <2>9. PICK k : k = Content(m)
    OBVIOUS
  <2>10. k \in Seq(Plain) /\ Keep(l) = Append(k, "nl") /\ Content(l) = k
    BY <2>1, <2>9, ContentPlain, ContentWhole
  <2>11. Mapped(Reader, Append(f, l)) = Append(L, k)
    BY <2>2, <2>7, <2>10, EachAppend
  <2>12. Flattened(Ender, Append(L, k)) = Append(Flattened(Ender, L) \o k, "nl")
    BY <2>8, <2>10, EndedAppend
  <2>13. Flattened(Ender, L) \o Append(k, "nl") = Append(Flattened(Ender, L) \o k, "nl")
    <3>1. /\ Flattened(Ender, L) \in Seq(Characters) /\ k \in Seq(Characters)
          /\ "nl" \in Characters
      BY <2>8, <2>10, EnderType, FlattenedType, KeptIs, SubType, OnTheWireHas
    <3> QED  BY <3>1, ConcatAppend
  <2>14. Good(Append(f, l))
    BY <2>5, <2>6, <2>8, <2>10, <2>11, <2>12, <2>13
  <2>15. Append(f, l) \in Seq(WholeLines)
    BY <2>0, AppendProperties
  <2> QED  BY <2>14, <2>15
<1>4. T \subseteq Seq(WholeLines)
  OBVIOUS
<1>5. T = {f \in Seq(WholeLines) : Good(f)}
  OBVIOUS
<1> HIDE DEF T
<1>6. \A f \in Seq(WholeLines) : f \in T
  BY <1>2, <1>3, <1>4, SeqInduction
<1> QED  BY <1>1, <1>5, <1>6

(* Something is sent of a rest that does not consist of what is dropped.   *)
LEMMA RestSent ==
  ASSUME NEW s \in Seq(Plain), \E i \in 1..Len(s) : s[i] # "ctl"
  PROVE  Content(s) # <<>>
<1> DEFINE T == {t \in Seq(Plain) :
                   Flattened(Picker, t) = <<>> => \A i \in 1..Len(t) : t[i] = "ctl"}
<1>1. <<>> \in T
  OBVIOUS
<1>2. ASSUME NEW t \in T, NEW c \in Plain
      PROVE  Append(t, c) \in T
  <2>1. PICK u : u = Append(t, c)
    OBVIOUS
  <2>2. /\ u \in Seq(Plain) /\ Len(u) = Len(t) + 1 /\ u[Len(t) + 1] = c
        /\ \A i \in 1..Len(t) : u[i] = t[i]
    BY <2>1, AppendProperties
  <2>3. SUFFICES ASSUME Flattened(Picker, u) = <<>>, NEW i \in 1..Len(u)
                 PROVE  u[i] = "ctl"
    BY <2>1, <2>2
  <2>4. t \in Seq(Characters) /\ c \in Characters /\ c # "nl"
    BY KeptIs, SubType DEF Plain
  <2>5. Flattened(Picker, u) = Flattened(Picker, t) \o Picker[c]
    <3>1. Flattened(Picker, Append(t, c)) = Flattened(Picker, t) \o Picker[c]
      BY ONLY <2>4, PickerType, FlattenedAppend
    <3> QED  BY <2>1, <3>1
  <2>6. Flattened(Picker, t) \in Seq(Plain) /\ Picker[c] \in Seq(Plain)
    BY <2>4, PickerType, FlattenedType
  <2>7. Flattened(Picker, t) = <<>> /\ Picker[c] = <<>>
    <3>1. PICK a \in Seq(Plain), b \in Seq(Plain) : a = Flattened(Picker, t) /\ b = Picker[c]
      BY <2>6
    <3>2. a \o b = <<>>
      BY <2>3, <2>5, <3>1
    <3>3. a = <<>> /\ b = <<>>
      BY <3>1, <3>2, ConcatEqualIffEmpty
    <3> QED  BY <3>1, <3>3
  <2>8. c = "ctl"
    <3>1. ~IsContent(c)
      BY <2>4, <2>7 DEF Picker
    <3> QED  BY <2>4, <3>1 DEF IsContent
  <2>9. \A j \in 1..Len(t) : t[j] = "ctl"
    BY <2>7
  <2>10. i \in 1..Len(t) \/ i = Len(t) + 1
    BY <2>2, <2>3
  <2> QED  BY <2>2, <2>8, <2>9, <2>10
<1>3. T \subseteq Seq(Plain)
  OBVIOUS
<1>4. T = {t \in Seq(Plain) : Flattened(Picker, t) = <<>> => \A i \in 1..Len(t) : t[i] = "ctl"}
  OBVIOUS
<1> HIDE DEF T
<1>5. \A t \in Seq(Plain) : t \in T
  BY <1>1, <1>2, <1>3, SeqInduction
<1>6. s \in T /\ s \in Seq(Characters)
  BY <1>5, KeptIs, SubType
<1>7. Content(s) = Flattened(Picker, s)
  BY <1>6, ContentIs
<1> QED  BY <1>4, <1>6, <1>7

(* The remote file as it should be.                                        *)
AsItIs ==
  /\ remote.lines \o (IF remote.pending = <<>> THEN <<>> ELSE <<remote.pending>>)
       = Each(Content, file)
  /\ cuvar.zCuvar_eofwrite /\ Last(Last(file)) = "nl" => ~remote.open

(* If the text of the remote file is what is sent of the file, its lines   *)
(* are those of the file, and nothing is pending of a whole line.          *)
LEMMA ResultIs ==
  ASSUME FilesAreLines, file \in Files, NEW lines \in Seq(Seq(Plain)), NEW p \in Seq(Plain),
         Flattened(Ender, lines) \o p = Keep(FlattenSeq(file))
  PROVE  /\ lines \o (IF p = <<>> THEN <<>> ELSE <<p>>) = Each(Content, file)
         /\ Last(Last(file)) = "nl" => p = <<>>
<1>1. PICK whole \in Seq(WholeLines) :
        \/ file = whole
        \/ \E rest \in Seq(Plain) : /\ file = Append(whole, rest)
                                    /\ \E i \in 1..Len(rest) : rest[i] # "ctl"
  BY DEF FilesAreLines
<1>2. /\ whole \in Seq(Seq(Characters))
      /\ Keep(FlattenSeq(whole)) = Flattened(Ender, Mapped(Reader, whole))
  BY WholeText
<1>3. PICK L \in Seq(Seq(Plain)) : L = Mapped(Reader, whole) /\ L = Each(Content, whole)
  BY <1>2, EachIs
<1>4. CASE file = whole
  <2>0. PICK e \in Seq(Plain) : e = <<>>
    <3>1. <<>> \in Seq(Plain)
      OBVIOUS
    <3> QED  BY <3>1, Zenon
  <2>1. Flattened(Ender, L) \in Seq(Characters)
    BY EnderType, FlattenedType
  <2>2. Flattened(Ender, lines) \o p = Flattened(Ender, L) \o e
    BY <1>2, <1>3, <1>4, <2>0, <2>1, ConcatEmptySeq
  <2>6. EndedText(lines, p) = EndedText(L, e)
    BY <2>2 DEF EndedText
  <2>5. lines = L /\ p = e
    <3>1. e \in Seq(Plain) /\ L \in Seq(Seq(Plain))
      OBVIOUS
    <3> QED  BY <3>1, <2>6, LinesUnique
  <2>3. lines = L /\ p = <<>>
    BY <2>0, <2>5
  <2>4. lines \o <<>> = lines
    OBVIOUS
  <2> QED  BY <1>3, <1>4, <2>3, <2>4
<1>5. CASE \E rest \in Seq(Plain) : /\ file = Append(whole, rest)
                                    /\ \E i \in 1..Len(rest) : rest[i] # "ctl"
  <2>1. PICK rest \in Seq(Plain) : /\ file = Append(whole, rest)
                                   /\ \E i \in 1..Len(rest) : rest[i] # "ctl"
    BY <1>5
  <2>2. PICK k : k = Content(rest)
    OBVIOUS
  <2>3. k \in Seq(Plain) /\ Keep(rest) = k /\ rest \in Seq(Characters) /\ k # <<>>
    BY <2>1, <2>2, ContentPlain, RestSent
  <2>4. FlattenSeq(file) = FlattenSeq(whole) \o rest
    BY <1>2, <2>1, <2>3, FlattenAppend
  <2>5. FlattenSeq(whole) \in Seq(Characters)
    BY <1>2, FlattenType
  <2>6. Keep(FlattenSeq(file)) = Flattened(Ender, L) \o k
    BY <1>2, <1>3, <2>3, <2>4, <2>5, KeepConcat
  <2>7. Flattened(Ender, lines) \o p = Flattened(Ender, L) \o k
    BY <2>6
  <2>8. lines = L /\ p = k
    <3>1. k \in Seq(Plain) /\ L \in Seq(Seq(Plain))
      BY <1>3, <2>3
    <3>2. EndedText(lines, p) = EndedText(L, k)
      BY <2>7 DEF EndedText
    <3> QED  BY <3>1, <3>2, LinesUnique
  <2>9. Each(Content, file) = Append(L, k)
    <3>1. file \in Seq(Seq(Characters))
      BY <1>2, <2>1, <2>3, AppendProperties
    <3>2. Each(Content, file) = Mapped(Reader, file)
      BY <3>1, EachIs
    <3> QED  BY <1>2, <1>3, <2>1, <2>2, <2>3, <3>2, EachAppend
  <2>10. lines \o <<p>> = Append(lines, p)
    BY <2>3, <2>8
  <2>11. Last(Last(file)) # "nl"
    <3>1. Last(file) = rest
      <4>1. Len(file) = Len(whole) + 1 /\ file[Len(whole) + 1] = rest
        BY <1>2, <2>1, <2>3, AppendProperties
      <4> QED  BY <4>1 DEF Last
    <3>2. Len(rest) \in 1..Len(rest)
      BY <2>1
    <3>3. rest[Len(rest)] \in Plain
      BY <3>2
    <3>4. Last(rest) \in Plain
      BY <3>3 DEF Last
    <3> QED  BY <3>1, <3>4 DEF Plain
  <2> QED  BY <2>3, <2>8, <2>9, <2>10, <2>11
<1> QED  BY <1>1, <1>4, <1>5

-----------------------------------------------------------------------------
(* A file arrives unchanged *)

Prefix == IF remote.literal THEN <<"prefix">> ELSE <<>>
Ending == IF outcome = "complete" /\ cuvar.zCuvar_eofwrite THEN <<"eof">> ELSE <<>>

(* What was sent is what is at the other side and what is on its way.      *)
OnWay(sent, stuff) ==
  /\ sent \o zbuf = FlattenSeq(SubSeq(Buffers, 1, next - 1))
  /\ Text(remote) \o stuff = Keep(sent)
  /\ Prefix \o wire = Coded(stuff) \o Ending

GoesOn ==
  /\ Unlost
  /\ outcome = "none" \/ (outcome = "complete" /\ next > Len(Buffers))

LinesPlain == remote.lines \in Seq(Seq(Plain)) /\ remote.pending \in Seq(Plain)

SentInv ==
  GoesOn =>
    /\ LinesPlain
    /\ \/ outcome = "complete" /\ wire = <<>> /\ AsItIs
       \/ \E sent \in Seq(Characters), stuff \in Seq(Kept) : OnWay(sent, stuff)

LEMMA PairIs ==
  ASSUME NEW S, NEW a \in S, NEW b \in S
  PROVE  <<a>> \o <<b>> = <<a, b>>
<1>1. PICK m : m = <<a>>
  OBVIOUS
<1>2. m \in Seq(S) /\ Len(m) = 1 /\ m[1] = a
  BY <1>1
<1>3. PICK t : t = Append(m, b)
  OBVIOUS
<1>4. t \in Seq(S) /\ Len(t) = 2
  BY <1>2, <1>3
<1>10. t[1] = a /\ t[2] = b
  <2>1. 1 \in 1..Len(m)
    BY <1>2
  <2>2. m \in Seq(S)
    BY <1>2
  <2>3. /\ \A i \in 1.. Len(m) : Append(m, b)[i] = m[i]
        /\ Append(m, b)[Len(m)+1] = b
    BY <2>2, AppendProperties
  <2>4. t[1] = m[1] /\ t[Len(m) + 1] = b
    BY <1>3, <2>1, <2>3
  <2> QED  BY <1>2, <2>4
<1>5. PICK u : u = <<a, b>>
  OBVIOUS
<1>6. u \in Seq(S) /\ Len(u) = 2 /\ u[1] = a /\ u[2] = b
  BY <1>5
<1>7. \A i \in 1..2 : t[i] = u[i]
  <2>1. \A i \in 1..2 : i = 1 \/ i = 2
    OBVIOUS
  <2> QED  BY <1>10, <1>6, <2>1
<1>8. t = u
  BY <1>4, <1>6, <1>7
<1>9. m \o <<b>> = Append(m, b)
  BY <1>2
<1> QED  BY <1>1, <1>3, <1>5, <1>8, <1>9

(* Of something that is still to come, the first character is on the wire. *)
LEMMA FirstOnWire ==
  ASSUME cuvar \in Settings, remote \in RemoteType, wire \in Seq(OnTheWire),
         NEW c \in Kept, NEW rest, rest \in Seq(OnTheWire),
         Prefix \o wire = (IF c = "ctl" THEN <<"prefix", "ctl">>
                           ELSE IF c = "nl" THEN <<Newline>> ELSE <<c>>) \o rest
  PROVE  /\ wire # <<>>
         /\ remote.literal => c = "ctl" /\ Head(wire) = "ctl" /\ Tail(wire) = rest
         /\ ~remote.literal /\ c = "ctl" =>
              Head(wire) = "prefix" /\ Tail(wire) = <<"ctl">> \o rest
         /\ ~remote.literal /\ c = "nl" => Head(wire) = Newline /\ Tail(wire) = rest
         /\ ~remote.literal /\ c \notin {"nl", "ctl"} => Head(wire) = c /\ Tail(wire) = rest
<1>1. Printable \cap {"tab", "ctl", "nl", "cr", "kill", "prefix", "eof"} = {}
  BY ConstantsAssumption DEF ConstantsAssumption
<1>2. remote.literal \in BOOLEAN
  BY DEF RemoteType
<1>3. c \in OnTheWire /\ Newline \in OnTheWire /\ {"prefix", "ctl"} \subseteq OnTheWire
  BY KeptIs, OnTheWireHas DEF Newline
<1>4. c # "prefix" /\ Newline # "prefix"
  BY <1>1, KeptIs DEF Characters, Newline
<1>5. <<"prefix", "ctl">> = <<"prefix">> \o <<"ctl">>
  BY <1>3, PairIs
<1>6. /\ <<"prefix">> \in Seq(OnTheWire) /\ <<"ctl">> \in Seq(OnTheWire)
      /\ <<Newline>> \in Seq(OnTheWire) /\ <<c>> \in Seq(OnTheWire)
  BY <1>3, SingleType
<1>7. \A x \in OnTheWire : \A t \in Seq(OnTheWire) :
        <<x>> \o t # <<>> /\ Head(<<x>> \o t) = x /\ Tail(<<x>> \o t) = t
  <2>1. SUFFICES ASSUME NEW x \in OnTheWire, NEW t \in Seq(OnTheWire)
                 PROVE  <<x>> \o t # <<>> /\ Head(<<x>> \o t) = x /\ Tail(<<x>> \o t) = t
    OBVIOUS
  <2>2. <<x>> \in Seq(OnTheWire) /\ <<x>> # <<>> /\ Head(<<x>>) = x /\ Tail(<<x>>) = <<>>
    OBVIOUS
  <2>3. <<>> \o t = t
    BY ConcatEmptySeq
  <2> QED  BY <2>2, <2>3, ConcatHeadTail
<1>8. (<<"prefix">> \o <<"ctl">>) \o rest = <<"prefix">> \o (<<"ctl">> \o rest)
      /\ <<"ctl">> \o rest \in Seq(OnTheWire)
  BY <1>6, WireConcat
<1>9. <<>> \o wire = wire
  BY ConcatEmptySeq
<1>10. CASE remote.literal
  <2>1. Prefix = <<"prefix">>
    BY <1>10 DEF Prefix
  <2>2. Head(<<"prefix">> \o wire) = "prefix" /\ Tail(<<"prefix">> \o wire) = wire
    BY <1>3, <1>7
  <2>3. CASE c = "ctl"
    <3>1. <<"prefix">> \o wire = <<"prefix">> \o (<<"ctl">> \o rest)
      BY <1>5, <1>8, <2>1, <2>3
    <3>2. Tail(<<"prefix">> \o (<<"ctl">> \o rest)) = <<"ctl">> \o rest
      BY <1>3, <1>7, <1>8
    <3>3. wire = <<"ctl">> \o rest
      BY <2>2, <3>1, <3>2
    <3> QED  BY <1>3, <1>7, <1>10, <2>3, <3>3
  <2>4. CASE c # "ctl"
    <3>1. PICK x \in OnTheWire : x = (IF c = "nl" THEN Newline ELSE c)
      BY <1>3
    <3>2. <<"prefix">> \o wire = <<x>> \o rest
      BY <2>1, <2>4, <3>1
    <3>3. x = "prefix"
      BY <1>7, <2>2, <3>2
    <3> QED  BY <1>4, <3>1, <3>3
  <2> QED  BY <2>3, <2>4
<1>11. CASE ~remote.literal
  <2>1. Prefix = <<>>
    BY <1>11 DEF Prefix
  <2>2. CASE c = "ctl"
    <3>1. wire = <<"prefix">> \o (<<"ctl">> \o rest)
      BY <1>5, <1>8, <1>9, <2>1, <2>2
    <3> QED  BY <1>3, <1>7, <1>8, <1>11, <2>2, <3>1
  <2>3. CASE c # "ctl"
    <3>1. PICK x \in OnTheWire : x = (IF c = "nl" THEN Newline ELSE c)
      BY <1>3
    <3>2. wire = <<x>> \o rest
      BY <1>9, <2>1, <2>3, <3>1
    <3>3. wire # <<>> /\ Head(wire) = x /\ Tail(wire) = rest
      BY <1>7, <3>2
    <3> QED  BY <1>11, <2>3, <3>1, <3>3
  <2> QED  BY <2>2, <2>3
<1> QED  BY <1>2, <1>10, <1>11

LEMMA SentInvInit == Init => SentInv
<1> SUFFICES ASSUME Init  PROVE SentInv
  OBVIOUS
<1>1. /\ next = 1 /\ zbuf = <<>> /\ wire = <<>> /\ outcome = "none"
      /\ remote.lines = <<>> /\ remote.pending = <<>> /\ ~remote.literal
  BY DEF Init
<1>2. /\ <<>> \in Seq(Characters) /\ <<>> \in Seq(Kept) /\ <<>> \in Seq(Plain)
      /\ <<>> \in Seq(Seq(Plain)) /\ <<>> \o <<>> = <<>>
  OBVIOUS
<1>3. LinesPlain
  BY <1>1, <1>2 DEF LinesPlain
<1>4. SubSeq(Buffers, 1, next - 1) = <<>>
  <2>1. next - 1 = 0
    BY <1>1
  <2>2. SubSeq(Buffers, 1, 0) = <<>>
    <3>1. Buffers \in Seq(Seq(Characters))
      BY BuffersType DEF Init
    <3> QED  BY <3>1
  <2> QED  BY <2>1, <2>2
<1>5. Text(remote) = <<>> /\ Keep(<<>>) = <<>> /\ Coded(<<>>) = <<>>
  BY <1>1, <1>2, FlattenedNone DEF Text, Keep, Coded
<1>6. Prefix = <<>> /\ Ending = <<>>
  BY <1>1 DEF Prefix, Ending
<1>7. OnWay(<<>>, <<>>)
  BY <1>1, <1>2, <1>4, <1>5, <1>6, FlattenNone DEF OnWay
<1> QED  BY <1>2, <1>3, <1>7 DEF SentInv

(* While nothing is lost, no echo is given up.                             *)
LEMMA NoTimeout ==
  ASSUME TimelyEcho, TypeInv, EchoInv, Unlost
  PROVE  ~TimesOut
<1> SUFFICES ASSUME TimesOut  PROVE FALSE
  OBVIOUS
<1>1. at = "receive" /\ abPrecbuf = <<>> /\ wire = <<>> /\ echo = <<>>
  BY DEF TimesOut
<1>2. Coming = <<>>
  BY <1>1 DEF Coming
<1>3. zsendbuf # <<>> /\ Within(zsendbuf, Coming) /\ zsendbuf \in Seq(OnTheWire)
  BY <1>1 DEF TypeInv, PlaceInv, ProgramTypes, EchoInv
<1>4. <<>> \in Seq(OnTheWire)
  OBVIOUS
<1> QED  BY <1>2, <1>3, <1>4, WithinTail

(* What comes next of the text is a character.                             *)
LEMMA TextGoesOn ==
  ASSUME NEW sent \in Seq(Characters), NEW t \in Seq(Characters), NEW c \in Kept,
         NEW rest \in Seq(Kept), t \o (<<c>> \o rest) = Keep(sent)
  PROVE  Append(t, c) \o rest = Keep(sent)
<1>1. c \in Characters /\ <<c>> \in Seq(Characters) /\ rest \in Seq(Characters)
  BY KeptIs, SubType, SingleType
<1>2. Append(t, c) = t \o <<c>>
  BY <1>1
<1>3. (t \o <<c>>) \o rest = t \o (<<c>> \o rest)
  BY <1>1, ConcatAssociative
<1> QED  BY <1>2, <1>3

(* A character that is on its way arrives.                                 *)
LEMMA ArriveSome ==
  ASSUME TypeInv, LinesPlain, Arrive,
         NEW sent \in Seq(Characters), NEW stuff \in Seq(Kept), stuff # <<>>,
         OnWay(sent, stuff)
  PROVE  LinesPlain' /\ \E rest \in Seq(Kept) : OnWay(sent, rest)'
<1>1. cuvar \in Settings /\ remote \in RemoteType /\ wire \in Seq(OnTheWire)
  BY DEF TypeInv, ProgramTypes, LineTypes
<1>2. PICK c \in Kept, rest \in Seq(Kept) :
        /\ stuff = <<c>> \o rest
        /\ Coded(stuff) = Translate(c) \o Coded(rest)
        /\ Translate(c) = IF c = "ctl" THEN <<"prefix", "ctl">>
                          ELSE IF c = "nl" THEN <<Newline>> ELSE <<c>>
  BY <1>1, CodedHead
<1>3. /\ wire' = Tail(wire) /\ remote' = Accept(remote, Head(wire))
      /\ cuvar' = cuvar /\ file' = file /\ zbuf' = zbuf /\ next' = next /\ outcome' = outcome
  BY DEF Arrive, theProgram, given
<1>4. /\ Buffers' = Buffers /\ Ending' = Ending /\ \A s : Keep(s)' = Keep(s)
      /\ \A s : Coded(s)' = Coded(s) /\ \A r : Text(r)' = Text(r)
      /\ Seq(Kept)' = Seq(Kept)
  BY <1>3 DEF Buffers, Ending, Keep, Keeper, Kept, Coded, Coder, Translate, Text, Flattened, Mapped
<1>5. PICK e : e = Coded(rest) \o Ending
  OBVIOUS
<1>6. e \in Seq(OnTheWire) /\ Coded(rest) \in Seq(OnTheWire) /\ Ending \in Seq(OnTheWire)
  <2>1. Ending \in Seq(OnTheWire)
    <3>1. <<"eof">> \in Seq(OnTheWire) /\ <<>> \in Seq(OnTheWire)
      BY OnTheWireHas, SingleType
    <3> QED  BY <3>1 DEF Ending
  <2>2. rest \in Seq(Characters)
    BY KeptIs, SubType
  <2>3. Coded(rest) \in Seq(OnTheWire)
    BY <1>1, <2>2, CodedType
  <2> QED  BY <1>5, <2>1, <2>3, ConcatProperties
<1>7. Prefix \o wire = Translate(c) \o e
  <2>1. Translate(c) \in Seq(OnTheWire)
    BY <1>1, KeptIs, TranslateType
  <2>2. (Translate(c) \o Coded(rest)) \o Ending = Translate(c) \o (Coded(rest) \o Ending)
    BY <1>6, <2>1, WireConcat
  <2>3. Prefix \o wire = Coded(stuff) \o Ending
    BY DEF OnWay
  <2> QED  BY <1>2, <1>5, <2>2, <2>3
<1>8. /\ wire # <<>>
      /\ remote.literal => c = "ctl" /\ Head(wire) = "ctl" /\ Tail(wire) = e
      /\ ~remote.literal /\ c = "ctl" => Head(wire) = "prefix" /\ Tail(wire) = <<"ctl">> \o e
      /\ ~remote.literal /\ c = "nl" => Head(wire) = Newline /\ Tail(wire) = e
      /\ ~remote.literal /\ c \notin {"nl", "ctl"} => Head(wire) = c /\ Tail(wire) = e
  BY <1>1, <1>2, <1>6, <1>7, FirstOnWire
<1>9. PICK t \in Seq(Characters) : t = Text(remote) /\ t \o (<<c>> \o rest) = Keep(sent)
  BY <1>2, TextType DEF LinesPlain, OnWay
<1>10. sent \o zbuf' = FlattenSeq(SubSeq(Buffers', 1, next' - 1))
  BY <1>3, <1>4 DEF OnWay
<1>11. ASSUME wire' = e, ~remote'.literal, Text(remote') = Append(t, c)
       PROVE  OnWay(sent, rest)'
  <2>1. Prefix' = <<>>
    BY <1>11 DEF Prefix
  <2>2. <<>> \o e = e
    BY <1>6, ConcatEmptySeq
  <2>3. Append(t, c) \o rest = Keep(sent)
    BY <1>9, TextGoesOn
  <2>4. (Text(remote) \o rest = Keep(sent))'
    BY <1>4, <1>11, <2>3
  <2>5. (Prefix \o wire = Coded(rest) \o Ending)'
    BY <1>4, <1>5, <1>11, <2>1, <2>2
  <2> QED  BY <1>10, <2>4, <2>5 DEF OnWay
<1>12. /\ remote.literal \in BOOLEAN /\ remote.pending \in Seq(Plain)
       /\ remote.lines \in Seq(Seq(Plain))
  BY <1>1 DEF RemoteType, LinesPlain
<1> DEFINE Result == LinesPlain' /\ \E r \in Seq(Kept) : OnWay(sent, r)'
<1>13. ASSUME c # "nl", remote' = [remote EXCEPT !.pending = Append(@, c), !.literal = FALSE],
              wire' = e
       PROVE  Result
  <2>1. /\ remote'.lines = remote.lines /\ remote'.pending = Append(remote.pending, c)
        /\ ~remote'.literal
    BY <1>1, <1>13 DEF RemoteType
  <2>2. c \in Plain
    BY <1>13, KeptIs DEF Plain
  <2>3. /\ Text(remote') = Append(t, c)
        /\ remote'.lines \in Seq(Seq(Plain)) /\ remote'.pending \in Seq(Plain)
    BY <1>9, <1>12, <2>1, <2>2, TextAppend
  <2>4. LinesPlain'
    BY <2>3 DEF LinesPlain
  <2> QED  BY <1>11, <1>13, <2>1, <2>3, <2>4
<1>14. CASE remote.literal
  <2>1. remote' = [remote EXCEPT !.pending = Append(@, Head(wire)), !.literal = FALSE]
    BY <1>3, <1>12, <1>14 DEF Accept
  <2> QED  BY <1>3, <1>8, <1>13, <1>14, <2>1
<1>15. CASE ~remote.literal /\ c = "ctl"
  <2>1. remote' = [remote EXCEPT !.literal = TRUE] /\ wire' = <<"ctl">> \o e
    BY <1>3, <1>8, <1>12, <1>15 DEF Accept
  <2>2. remote'.lines = remote.lines /\ remote'.pending = remote.pending /\ remote'.literal
    BY <1>1, <2>1 DEF RemoteType
  <2>3. LinesPlain'
    BY <1>12, <2>2 DEF LinesPlain
  <2>4. Text(remote') = Text(remote)
    BY <2>2 DEF Text
  <2>5. (Text(remote) \o stuff = Keep(sent))'
    BY <1>4, <2>4 DEF OnWay
  <2>6. (Prefix \o wire = Coded(stuff) \o Ending)'
    <3>1. Prefix' = <<"prefix">> /\ Prefix = <<>>
      BY <1>15, <2>2 DEF Prefix
    <3>2. <<"prefix">> \o (<<"ctl">> \o e) = <<"prefix", "ctl">> \o e
      <4>1. <<"prefix">> \in Seq(OnTheWire) /\ <<"ctl">> \in Seq(OnTheWire)
        BY OnTheWireHas, SingleType
      <4>2. (<<"prefix">> \o <<"ctl">>) \o e = <<"prefix">> \o (<<"ctl">> \o e)
        BY <1>6, <4>1, WireConcat
      <4>3. <<"prefix">> \o <<"ctl">> = <<"prefix", "ctl">>
        BY OnTheWireHas, PairIs
      <4> QED  BY <4>2, <4>3
    <3>3. Translate(c) = <<"prefix", "ctl">>
      BY <1>2, <1>15
    <3>4. Prefix' \o wire' = Prefix \o wire
      BY <1>7, <2>1, <3>1, <3>2, <3>3
    <3> QED  BY <1>4, <3>4 DEF OnWay
  <2>7. OnWay(sent, stuff)'
    BY <1>10, <2>5, <2>6 DEF OnWay
  <2> QED  BY <2>3, <2>7
<1>16. CASE ~remote.literal /\ c = "nl"
  <2>1. Newline \in {"cr", "nl"}
    BY DEF Newline
  <2>2. remote' = [remote EXCEPT !.lines = Append(@, remote.pending), !.pending = <<>>] /\ wire' = e
    BY <1>3, <1>8, <1>12, <1>16, <2>1 DEF Accept, HandOver
  <2>3. /\ remote'.lines = Append(remote.lines, remote.pending) /\ remote'.pending = <<>>
        /\ ~remote'.literal
    BY <1>1, <1>16, <2>2 DEF RemoteType
  <2>4. /\ Text(remote') = Append(t, c)
        /\ remote'.lines \in Seq(Seq(Plain)) /\ remote'.pending \in Seq(Plain)
    BY <1>9, <1>12, <1>16, <2>3, TextHandOver
  <2>5. LinesPlain'
    BY <2>4 DEF LinesPlain
  <2> QED  BY <1>11, <2>2, <2>3, <2>4, <2>5
<1>17. CASE ~remote.literal /\ c \notin {"nl", "ctl"}
  <2>1. c \in Printable \cup {"tab"}
    BY <1>17, KeptIs DEF Characters
  <2>2. c \notin {"cr", "nl", "kill", "prefix", "eof"}
    BY <2>1, ConstantsAssumption DEF ConstantsAssumption
  <2>3. remote' = [remote EXCEPT !.pending = Append(@, c)]
    BY <1>3, <1>8, <1>12, <1>17, <2>2 DEF Accept
  <2>4. remote' = [remote EXCEPT !.pending = Append(@, c), !.literal = FALSE]
    BY <1>1, <1>17, <2>3 DEF RemoteType
  <2> QED  BY <1>3, <1>8, <1>13, <1>17, <2>4
<1> QED  BY <1>12, <1>14, <1>15, <1>16, <1>17

LEMMA PrefixIs ==
  ASSUME TypeInv
  PROVE  /\ Prefix \in Seq(OnTheWire) /\ Ending \in Seq(OnTheWire)
         /\ remote.literal \in BOOLEAN
         /\ remote.literal => Prefix = <<"prefix">>
         /\ ~remote.literal => Prefix = <<>>
         /\ Ending = <<>> \/ Ending = <<"eof">>
<1>1. <<"prefix">> \in Seq(OnTheWire) /\ <<"eof">> \in Seq(OnTheWire) /\ <<>> \in Seq(OnTheWire)
  BY OnTheWireHas, SingleType
<1>2. remote.literal \in BOOLEAN
  BY DEF TypeInv, LineTypes, RemoteType
<1>3. /\ remote.literal => Prefix = <<"prefix">>
      /\ ~remote.literal => Prefix = <<>>
  BY DEF Prefix
<1>4. Ending = <<>> \/ Ending = <<"eof">>
  BY DEF Ending
<1>5. Prefix \in Seq(OnTheWire)
  BY <1>1 DEF Prefix
<1>6. Ending \in Seq(OnTheWire)
  BY <1>1, <1>4
<1> QED  BY <1>2, <1>3, <1>4, <1>5, <1>6

(* If nothing that was sent is still to come, at most the end of file is.  *)
LEMMA OnlyEnding ==
  ASSUME TypeInv, NEW sent, OnWay(sent, <<>>)
  PROVE  ~remote.literal /\ wire = Ending
<1>1. wire \in Seq(OnTheWire)
  BY DEF TypeInv, LineTypes
<1>2. Coded(<<>>) = <<>>
  BY FlattenedNone DEF Coded
<1>3. <<>> \o Ending = Ending /\ <<>> \o wire = wire
  BY <1>1, PrefixIs, ConcatEmptySeq
<1>4. Prefix \o wire = Ending
  BY <1>2, <1>3 DEF OnWay
<1>5. CASE remote.literal
  <2>1. Prefix = <<"prefix">> /\ Prefix # <<>> /\ Head(Prefix) = "prefix"
    BY <1>5, PrefixIs, SMTT(20)
  <2>2. Prefix \o wire # <<>> /\ Head(Prefix \o wire) = "prefix"
    BY <1>1, <2>1, PrefixIs, ConcatHeadTail
  <2>3. Ending # <<"eof">>
    BY <1>4, <2>2
  <2> QED  BY <1>4, <2>2, <2>3, PrefixIs
<1>6. CASE ~remote.literal
  BY <1>3, <1>4, <1>6, PrefixIs
<1> QED  BY <1>5, <1>6, PrefixIs

(* When nothing is to come, the remote file is what it should be.          *)
LEMMA AllThere ==
  ASSUME FilesAreLines, TypeInv, LinesPlain, outcome = "complete", next > Len(Buffers),
         NEW sent \in Seq(Characters), OnWay(sent, <<>>)
  PROVE  /\ remote.lines \o (IF remote.pending = <<>> THEN <<>> ELSE <<remote.pending>>)
              = Each(Content, file)
         /\ Last(Last(file)) = "nl" => remote.pending = <<>>
<1>1. file \in Files /\ Buffers \in Seq(Seq(Characters)) /\ Len(Buffers) \in Nat
      /\ next - 1 = Len(Buffers) /\ zbuf = <<>>
  <2>1. file \in Files /\ next \in 1..Len(Buffers) + 1 /\ zbuf = <<>>
    BY DEF TypeInv, ProgramTypes, PlaceInv
  <2>2. Buffers \in Seq(Seq(Characters)) /\ Len(Buffers) \in Nat
    BY <2>1, BuffersType
  <2>3. next - 1 = Len(Buffers)
    BY <2>1, <2>2
  <2> QED  BY <2>1, <2>2, <2>3
<1>2. SubSeq(Buffers, 1, next - 1) = Buffers
  <2>1. SubSeq(Buffers, 1, Len(Buffers)) = Buffers
    BY <1>1
  <2> QED  BY <1>1, <2>1
<1>3. FlattenSeq(Buffers) = FlattenSeq(file)
  <2>1. FlattenSeq(file) \in Seq(Characters)
    BY <1>1, BuffersType, FlattenType
  <2>2. FlattenSeq(<<FlattenSeq(file)>>) = FlattenSeq(file)
    BY <2>1, FlattenOne
  <2> QED  BY <2>2 DEF Buffers
<1>4. sent \o <<>> = sent
  BY ConcatEmptySeq
<1>5. sent = FlattenSeq(file)
  BY <1>1, <1>2, <1>3, <1>4 DEF OnWay
<1>6. Text(remote) \o <<>> = Text(remote)
  BY TextType, ConcatEmptySeq DEF LinesPlain
<1>7. Text(remote) = Keep(FlattenSeq(file))
  BY <1>5, <1>6 DEF OnWay
<1> QED  BY <1>1, <1>7, ResultIs DEF Text, LinesPlain

(* The end of file arrives.                                                *)
LEMMA ArriveEnding ==
  ASSUME FilesAreLines, TypeInv, LinesPlain, Arrive, GoesOn,
         NEW sent \in Seq(Characters), OnWay(sent, <<>>)
  PROVE  LinesPlain' /\ outcome' = "complete" /\ wire' = <<>> /\ AsItIs'
<1>1. ~remote.literal /\ wire = Ending
  BY OnlyEnding
<1>2. wire = <<"eof">> /\ outcome = "complete" /\ next > Len(Buffers)
  BY <1>1 DEF Arrive, Ending, GoesOn
<1>3. /\ wire' = <<>> /\ remote' = Accept(remote, "eof") /\ outcome' = outcome
      /\ cuvar' = cuvar /\ file' = file
  <2>1. Head(wire) = "eof" /\ Tail(wire) = <<>>
    BY <1>2
  <2> QED  BY <2>1 DEF Arrive, theProgram, given
<1>4. remote \in RemoteType /\ remote.pending \in Seq(Plain) /\ remote.lines \in Seq(Seq(Plain))
  BY DEF TypeInv, LineTypes, LinesPlain
<1>5. /\ remote.lines \o (IF remote.pending = <<>> THEN <<>> ELSE <<remote.pending>>)
           = Each(Content, file)
      /\ Last(Last(file)) = "nl" => remote.pending = <<>>
  BY <1>2, AllThere
<1>6. Each(Content, file)' = Each(Content, file)
  BY <1>3 DEF Each, Content, Where, IsContent
<1>7. CASE remote.pending = <<>>
  <2>1. remote' = [remote EXCEPT !.open = FALSE]
    BY <1>1, <1>3, <1>7 DEF Accept
  <2>2. remote'.lines = remote.lines /\ remote'.pending = remote.pending /\ ~remote'.open
    BY <1>4, <2>1 DEF RemoteType
  <2>3. LinesPlain'
    BY <1>4, <2>2 DEF LinesPlain
  <2>4. AsItIs'
    BY <1>3, <1>5, <1>6, <2>2 DEF AsItIs
  <2> QED  BY <1>2, <1>3, <2>3, <2>4
<1>8. CASE remote.pending # <<>>
  <2>1. remote' = [remote EXCEPT !.lines = Append(@, remote.pending), !.pending = <<>>]
    BY <1>1, <1>3, <1>8 DEF Accept, HandOver
  <2>2. remote'.lines = Append(remote.lines, remote.pending) /\ remote'.pending = <<>>
    BY <1>4, <2>1 DEF RemoteType
  <2>3. <<>> \in Seq(Plain) /\ Append(remote.lines, remote.pending) \in Seq(Seq(Plain))
    BY <1>4, AppendProperties
  <2>4. LinesPlain'
    BY <2>2, <2>3 DEF LinesPlain
  <2>5. /\ remote.lines \o <<remote.pending>> = Append(remote.lines, remote.pending)
        /\ Append(remote.lines, remote.pending) \o <<>> = Append(remote.lines, remote.pending)
    BY <1>4, <2>3, ConcatEmptySeq
  <2>6. AsItIs'
    BY <1>3, <1>5, <1>6, <1>8, <2>2, <2>5 DEF AsItIs
  <2> QED  BY <1>2, <1>3, <2>4, <2>6
<1> QED  BY <1>7, <1>8

(* What the steps of the program leave as it is.                           *)
LEMMA OnWayStays ==
  ASSUME LinesPlain, UNCHANGED <<cuvar, file, remote>>
  PROVE  /\ Buffers' = Buffers /\ Prefix' = Prefix /\ LinesPlain'
         /\ \A s : Keep(s)' = Keep(s) /\ Coded(s)' = Coded(s) /\ Text(remote)' = Text(remote)
         /\ Seq(Kept)' = Seq(Kept) /\ AsItIs' = AsItIs
  BY DEF Buffers, Prefix, LinesPlain, Keep, Keeper, Kept, Coded, Coder, Translate, Text,
         Flattened, Mapped, AsItIs, Each, Content, Where, IsContent

(* The next buffer is read.                                                *)
LEMMA BuffersGoOn ==
  ASSUME NEW B \in Seq(Seq(Characters)), NEW n \in 1..Len(B)
  PROVE  FlattenSeq(SubSeq(B, 1, n)) = FlattenSeq(SubSeq(B, 1, n - 1)) \o B[n]
<1>1. PICK s \in Seq(Seq(Characters)), x \in Seq(Characters) : s = SubSeq(B, 1, n - 1) /\ x = B[n]
  <2>1. SubSeq(B, 1, n - 1) \in Seq(Seq(Characters)) /\ B[n] \in Seq(Characters)
    OBVIOUS
  <2> QED  BY <2>1, Zenon
<1>2. Len(s) = n - 1 /\ \A i \in 1..n - 1 : s[i] = B[i]
  BY <1>1
<1>3. PICK t : t = SubSeq(B, 1, n)
  OBVIOUS
<1>4. t \in Seq(Seq(Characters)) /\ Len(t) = n /\ \A i \in 1..n : t[i] = B[i]
  BY <1>3
<1>5. PICK u : u = Append(s, x)
  OBVIOUS
<1>6. /\ u \in Seq(Seq(Characters)) /\ Len(u) = (n - 1) + 1 /\ u[(n - 1) + 1] = x
      /\ \A i \in 1..n - 1 : u[i] = s[i]
  BY <1>2, <1>5, AppendProperties
<1>7. (n - 1) + 1 = n
  OBVIOUS
<1>8. ASSUME NEW i \in 1..n
      PROVE  t[i] = u[i]
  <2>1. i = n \/ i \in 1..n - 1
    OBVIOUS
  <2> QED  BY <1>1, <1>2, <1>4, <1>6, <1>7, <2>1
<1>9. t = u
  <2>1. Len(u) = n /\ Len(t) = n /\ u \in Seq(Seq(Characters)) /\ t \in Seq(Seq(Characters))
    BY <1>4, <1>6, <1>7
  <2>2. \A i \in 1..Len(t) : t[i] = u[i]
    BY <1>8, <2>1
  <2>3. Len(t) = Len(u)
    BY <2>1
  <2> QED  BY <2>1, <2>2, <2>3, SeqEqual
<1>10. FlattenSeq(u) = FlattenSeq(s) \o x
  BY <1>5, FlattenAppend
<1> QED  BY <1>1, <1>3, <1>9, <1>10

(* As soon as what is on its way is told again, the invariant holds.       *)
LEMMA SentInvFrom ==
  ASSUME cuvar' = cuvar, LinesPlain',
         NEW sent \in Seq(Characters), NEW stuff \in Seq(Kept), OnWay(sent, stuff)'
  PROVE  SentInv'
<1>1. Seq(Kept)' = Seq(Kept)
  BY DEF Kept
<1> QED  BY <1>1 DEF SentInv

LEMMA ReadFileSent ==
  ASSUME TypeInv, LinesPlain, ReadFile,
         NEW sent \in Seq(Characters), NEW stuff \in Seq(Kept), OnWay(sent, stuff)
  PROVE  SentInv'
<1>1. /\ at = "buffer" /\ next <= Len(Buffers) /\ next' = next + 1 /\ zbuf' = Buffers[next]
      /\ cuvar' = cuvar /\ file' = file /\ remote' = remote /\ wire' = wire /\ outcome' = outcome
  BY DEF ReadFile, given, line
<1>2. zbuf = <<>> /\ next \in 1..Len(Buffers) /\ Buffers \in Seq(Seq(Characters))
  <2>1. Buffers \in Seq(Seq(Characters)) /\ next \in 1..Len(Buffers) + 1
    BY BuffersType DEF TypeInv, ProgramTypes
  <2>2. Len(Buffers) \in Nat
    BY <2>1
  <2>3. next \in 1..Len(Buffers)
    BY <1>1, <2>1, <2>2
  <2> QED  BY <1>1, <2>1, <2>3 DEF TypeInv, PlaceInv
<1>3. /\ Buffers' = Buffers /\ Prefix' = Prefix /\ LinesPlain'
      /\ Keep(sent)' = Keep(sent) /\ Coded(stuff)' = Coded(stuff) /\ Text(remote)' = Text(remote)
  BY <1>1, OnWayStays
<1>4. sent = FlattenSeq(SubSeq(Buffers, 1, next - 1))
  <2>1. sent \o <<>> = sent
    BY ConcatEmptySeq
  <2> QED  BY <1>2, <2>1 DEF OnWay
<1>5. FlattenSeq(SubSeq(Buffers, 1, next)) = sent \o Buffers[next]
  BY <1>2, <1>4, BuffersGoOn
<1>6. next' - 1 = next
  BY <1>1, <1>2
<1>7. sent \o zbuf' = FlattenSeq(SubSeq(Buffers', 1, next' - 1))
  BY <1>1, <1>3, <1>5, <1>6
<1>8. Ending' = Ending
  BY <1>1 DEF Ending
<1>9. OnWay(sent, stuff)'
  BY <1>1, <1>3, <1>7, <1>8 DEF OnWay
<1> QED  BY <1>1, <1>3, <1>9, SentInvFrom

LEMMA CompleteSent ==
  ASSUME TypeInv, LinesPlain, Complete, outcome = "none",
         NEW sent \in Seq(Characters), NEW stuff \in Seq(Kept), OnWay(sent, stuff)
  PROVE  SentInv'
<1>1. /\ wire' = (IF cuvar.zCuvar_eofwrite THEN Append(wire, "eof") ELSE wire)
      /\ cuvar' = cuvar /\ file' = file /\ remote' = remote /\ zbuf' = zbuf /\ next' = next
      /\ outcome' = "complete"
  BY DEF Complete, Ended, given
<1>2. /\ Buffers' = Buffers /\ Prefix' = Prefix /\ LinesPlain'
      /\ Keep(sent)' = Keep(sent) /\ Coded(stuff)' = Coded(stuff) /\ Text(remote)' = Text(remote)
  BY <1>1, OnWayStays
<1>3. PICK p \in Seq(OnTheWire), w \in Seq(OnTheWire), d \in Seq(OnTheWire) :
        p = Prefix /\ w = wire /\ d = Coded(stuff)
  <2>1. stuff \in Seq(Characters)
    BY KeptIs, SubType
  <2>2. Coded(stuff) \in Seq(OnTheWire) /\ wire \in Seq(OnTheWire)
    BY <2>1, CodedType DEF TypeInv, ProgramTypes, LineTypes
  <2> QED  BY <2>2, PrefixIs
<1>4. p \o w = d
  <2>1. Ending = <<>>
    BY DEF Ending
  <2>2. d \o <<>> = d
    BY <1>3, ConcatEmptySeq
  <2> QED  BY <1>3, <2>1, <2>2 DEF OnWay
<1>5. CASE cuvar.zCuvar_eofwrite
  <2>1. Ending' = <<"eof">> /\ wire' = Append(w, "eof")
    BY <1>1, <1>3, <1>5 DEF Ending
  <2>2. p \o Append(w, "eof") = Append(p \o w, "eof")
    BY <1>3, OnTheWireHas, ConcatAppend
  <2>3. Append(d, "eof") = d \o <<"eof">>
    BY <1>3
  <2>4. Prefix' \o wire' = Coded(stuff)' \o Ending'
    BY <1>2, <1>3, <1>4, <2>1, <2>2, <2>3
  <2>5. OnWay(sent, stuff)'
    BY <1>1, <1>2, <2>4 DEF OnWay
  <2> QED  BY <1>1, <1>2, <2>5, SentInvFrom
<1>6. CASE ~cuvar.zCuvar_eofwrite
  <2>1. Ending' = Ending /\ wire' = wire
    BY <1>1, <1>6 DEF Ending
  <2>2. OnWay(sent, stuff)'
    BY <1>1, <1>2, <2>1 DEF OnWay
  <2> QED  BY <1>1, <1>2, <2>2, SentInvFrom
<1> QED  BY <1>5, <1>6

LEMMA SendChunkSent ==
  ASSUME TypeInv, LinesPlain, SendChunk,
         NEW sent \in Seq(Characters), NEW stuff \in Seq(Kept), OnWay(sent, stuff)
  PROVE  SentInv'
<1>0. cuvar \in Settings /\ zbuf \in Seq(Characters) /\ zbuf # <<>> /\ outcome = "none"
      /\ wire \in Seq(OnTheWire)
  BY DEF TypeInv, ProgramTypes, LineTypes, PlaceInv, SendChunk
<1>1. PICK k, chunk :
        /\ k = ChunkLength(zbuf)
        /\ chunk = Flat(Translate, SubSeq(zbuf, 1, k))
        /\ zbuf' = SubSeq(zbuf, k + 1, Len(zbuf))
        /\ IF chunk = <<>> THEN UNCHANGED wire ELSE SendData(chunk)
  BY DEF SendChunk
<1>2. /\ cuvar' = cuvar /\ file' = file /\ remote' = remote /\ next' = next /\ outcome' = outcome
  BY DEF SendChunk, given
<1>3. k \in 1..Len(zbuf) /\ k \in 0..Len(zbuf)
  BY <1>0, <1>1, ChunkLengthType
<1>4. PICK a \in Seq(Characters), b \in Seq(Characters) :
        a = SubSeq(zbuf, 1, k) /\ b = zbuf' /\ a \o b = zbuf
  <2>1. SubSeq(zbuf, 1, k) \in Seq(Characters) /\ zbuf' \in Seq(Characters)
    BY <1>0, <1>1, <1>3, CutType
  <2>2. SubSeq(zbuf, 1, k) \o zbuf' = zbuf
    BY <1>0, <1>1, <1>3, CutIsWhole
  <2> QED  BY <2>1, <2>2
<1>5. /\ Buffers' = Buffers /\ Prefix' = Prefix /\ LinesPlain'
      /\ \A s : Keep(s)' = Keep(s) /\ Coded(s)' = Coded(s)
      /\ Text(remote)' = Text(remote)
  BY <1>2, OnWayStays
<1>6. PICK s2 \in Seq(Characters), t2 \in Seq(Kept), m \in Seq(Kept) :
        s2 = sent \o a /\ m = Keep(a) /\ t2 = stuff \o m
  <2>1. sent \o a \in Seq(Characters) /\ Keep(a) \in Seq(Kept)
    BY KeepType, ConcatProperties
  <2>2. stuff \o Keep(a) \in Seq(Kept)
    BY <2>1, ConcatProperties
  <2> QED  BY <2>1, <2>2
<1>7. s2 \o zbuf' = FlattenSeq(SubSeq(Buffers', 1, next' - 1))
  <2>1. (sent \o a) \o b = sent \o (a \o b)
    <3>1. sent \in Seq(Characters) /\ a \in Seq(Characters) /\ b \in Seq(Characters)
      OBVIOUS
    <3> QED  BY ONLY <3>1, TextConcat, SMTT(30)
  <2> QED  BY <1>2, <1>4, <1>5, <1>6, <2>1 DEF OnWay
<1>8. Text(remote) \o t2 = Keep(s2)
  <2>1. Keep(sent \o a) = Keep(sent) \o Keep(a)
    BY KeepConcat
  <2>2. PICK t \in Seq(Characters) : t = Text(remote) /\ t \o stuff = Keep(sent)
    BY TextType DEF LinesPlain, OnWay
  <2>3. stuff \in Seq(Characters) /\ m \in Seq(Characters)
    BY KeptIs, SubType
  <2>4. (t \o stuff) \o m = t \o (stuff \o m)
    <3>1. t \in Seq(Characters)
      OBVIOUS
    <3> QED  BY ONLY <2>3, <3>1, TextConcat
  <2> QED  BY <1>6, <2>1, <2>2, <2>4
<1>9. chunk = Coded(m) /\ chunk \in Seq(OnTheWire)
  BY <1>0, <1>1, <1>4, <1>6, ChunkIs, CodedType, CodedKeep
<1>10. wire' = wire \o chunk
  <2>1. CASE chunk = <<>>
    <3>1. wire \o <<>> = wire
      BY <1>0, ConcatEmptySeq
    <3> QED  BY <1>1, <2>1, <3>1
  <2>2. CASE chunk # <<>>
    BY <1>1, <2>2 DEF SendData
  <2> QED  BY <2>1, <2>2
<1>11. Prefix' \o wire' = Coded(t2)' \o Ending'
  <2>1. PICK p \in Seq(OnTheWire), d \in Seq(OnTheWire) :
          p = Prefix /\ d = Coded(stuff) /\ stuff \in Seq(Characters) /\ m \in Seq(Characters)
    <3>1. stuff \in Seq(Characters) /\ m \in Seq(Characters)
      BY KeptIs, SubType
    <3> QED  BY <1>0, <3>1, CodedType, PrefixIs
  <2>2. Ending = <<>> /\ Ending' = <<>>
    BY <1>0, <1>2 DEF Ending
  <2>3. Coded(stuff \o m) = Coded(stuff) \o Coded(m)
    BY <1>0, <2>1, CodedConcat, Zenon
  <2>4. Coded(t2) = d \o chunk
    BY <1>6, <1>9, <2>1, <2>3
  <2>5. p \o wire = d
    <3>1. d \o <<>> = d
      BY <2>1, ConcatEmptySeq
    <3> QED  BY <2>1, <2>2, <3>1 DEF OnWay
  <2>6. p \o (wire \o chunk) = (p \o wire) \o chunk
    <3>1. p \in Seq(OnTheWire) /\ wire \in Seq(OnTheWire) /\ chunk \in Seq(OnTheWire)
      BY <1>0, <1>9, <2>1
    <3> QED  BY ONLY <3>1, WireConcat
  <2>7. (d \o chunk) \o <<>> = d \o chunk
    <3>1. d \o chunk \in Seq(OnTheWire)
      BY <1>9, <2>1, ConcatProperties
    <3> QED  BY <3>1, ConcatEmptySeq
  <2>8. Coded(t2)' = d \o chunk /\ Prefix' = p
    BY <1>5, <2>1, <2>4
  <2> QED  BY <1>10, <2>2, <2>5, <2>6, <2>7, <2>8
<1>12. OnWay(s2, t2)'
  BY <1>5, <1>7, <1>8, <1>11 DEF OnWay
<1> QED  BY <1>2, <1>5, <1>6, <1>12, SentInvFrom

LEMMA ArriveSent ==
  ASSUME FilesAreLines, TypeInv, LinesPlain, Arrive, GoesOn,
         NEW sent \in Seq(Characters), NEW stuff \in Seq(Kept), OnWay(sent, stuff)
  PROVE  SentInv'
<1>1. cuvar' = cuvar
  BY DEF Arrive, theProgram, given
<1>2. CASE stuff = <<>>
  <2>1. OnWay(sent, <<>>)
    BY <1>2
  <2> QED  BY <2>1, ArriveEnding DEF SentInv
<1>3. CASE stuff # <<>>
  <2>1. PICK rest \in Seq(Kept) : OnWay(sent, rest)'
    BY <1>3, ArriveSome
  <2>2. LinesPlain'
    BY <1>3, ArriveSome
  <2> QED  BY <1>1, <2>1, <2>2, SentInvFrom
<1> QED  BY <1>2, <1>3

(* Steps that leave the text, and what is on its way, as they are.         *)
LEMMA StaysSent ==
  ASSUME SentInv, GoesOn, UNCHANGED <<cuvar, file, remote, wire, zbuf, next, outcome>>
  PROVE  SentInv'
<1>1. LinesPlain
  BY DEF SentInv
<1>2. /\ Buffers' = Buffers /\ Prefix' = Prefix /\ LinesPlain'
      /\ \A s : Keep(s)' = Keep(s) /\ Coded(s)' = Coded(s) /\ Text(remote)' = Text(remote)
      /\ AsItIs' = AsItIs
  BY <1>1, OnWayStays
<1>3. CASE outcome = "complete" /\ wire = <<>> /\ AsItIs
  <2>1. outcome' = "complete" /\ wire' = <<>> /\ AsItIs'
    BY <1>2, <1>3
  <2> QED  BY <1>2, <2>1 DEF SentInv
<1>4. CASE \E sent \in Seq(Characters), stuff \in Seq(Kept) : OnWay(sent, stuff)
  <2>1. PICK sent \in Seq(Characters), stuff \in Seq(Kept) : OnWay(sent, stuff)
    BY <1>4
  <2>2. Ending' = Ending
    BY DEF Ending
  <2>3. OnWay(sent, stuff)'
    BY <1>2, <2>1, <2>2 DEF OnWay
  <2> QED  BY <1>2, <2>1, <2>3, SentInvFrom
<1> QED  BY <1>3, <1>4 DEF SentInv

LEMMA SentInvStep ==
  ASSUME FilesAreLines, TimelyEcho, TypeInv, EchoInv, [Next]_vars, SentInv
  PROVE  SentInv'
<1> SUFFICES ASSUME GoesOn'  PROVE SentInv'
  BY DEF SentInv
<1>1. Unlost /\ Unlost'
  BY UnlostBefore DEF TypeInv, GoesOn
<1>2. ASSUME GoesOn, UNCHANGED <<file, remote, wire, zbuf, next, outcome>>
      PROVE  SentInv'
  BY <1>2, GivenStays, StaysSent
<1>3. ASSUME outcome = "none"
      PROVE  LinesPlain /\ \E sent \in Seq(Characters), stuff \in Seq(Kept) : OnWay(sent, stuff)
  BY <1>1, <1>3 DEF SentInv, GoesOn
<1>4. at # "over" => outcome = "none"
  BY DEF TypeInv, PlaceInv, ProgramTypes
<1>5. CASE ReadFile
  <2>1. outcome = "none"
    BY <1>4, <1>5 DEF ReadFile
  <2> QED  BY <1>3, <1>5, <2>1, ReadFileSent
<1>6. CASE Complete
  <2>1. outcome = "none"
    BY <1>4, <1>6 DEF Complete
  <2> QED  BY <1>3, <1>6, <2>1, CompleteSent
<1>7. CASE SendChunk
  <2>1. outcome = "none"
    BY <1>4, <1>7 DEF SendChunk
  <2> QED  BY <1>3, <1>7, <2>1, SendChunkSent
<1>8. CASE SeeSignal \/ PortFails
  <2>1. outcome' \in {"aborted", "disconnected"}
    BY <1>8 DEF SeeSignal, PortFails, Ended
  <2> QED  BY <2>1 DEF GoesOn
<1>9. CASE SeeNoSignal \/ ReadPort \/ TakeCharacter
  <2>1. at # "over" /\ UNCHANGED <<file, remote, wire, zbuf, next, outcome>>
    BY <1>9 DEF SeeNoSignal, ReadPort, TakeCharacter, given, line
  <2>2. GoesOn
    BY <1>1, <1>4, <2>1 DEF GoesOn
  <2> QED  BY <1>2, <2>1, <2>2
<1>10. CASE KillLine \/ GiveUp
  <2>1. TimesOut
    BY <1>10 DEF KillLine, GiveUp
  <2>2. FALSE
    BY <1>1, <2>1, NoTimeout
  <2> QED  BY <2>2
<1>11. CASE Interrupt
  <2>1. at # "over" /\ UNCHANGED <<file, remote, wire, zbuf, next, outcome>>
    BY <1>11 DEF Interrupt, given, line
  <2>2. GoesOn
    BY <1>1, <1>4, <2>1 DEF GoesOn
  <2> QED  BY <1>2, <2>1, <2>2
<1>12. CASE Arrive
  <2>1. cuvar' = cuvar /\ file' = file /\ next' = next /\ outcome' = outcome /\ wire # <<>>
    BY <1>12 DEF Arrive, theProgram, given
  <2>2. GoesOn
    <3>1. Len(Buffers)' = Len(Buffers)
      BY <2>1 DEF Buffers
    <3> QED  BY <1>1, <2>1, <3>1 DEF GoesOn
  <2>3. LinesPlain /\ \E sent \in Seq(Characters), stuff \in Seq(Kept) : OnWay(sent, stuff)
    BY <2>1, <2>2 DEF SentInv
  <2> QED  BY <1>12, <2>2, <2>3, ArriveSent
<1>13. CASE LineDies
  <2>1. lost' = [lost EXCEPT !.dead = TRUE]
    BY <1>13 DEF LineDies
  <2>2. lost'.dead
    BY <2>1 DEF TypeInv, LostTypes
  <2>3. FALSE
    BY <1>1, <2>2 DEF Unlost
  <2> QED  BY <2>3
<1>14. CASE LoseSent
  <2>1. ~lost.dead
    BY <1>1 DEF Unlost
  <2>2. lost' = [lost EXCEPT !.sent = @ + 1]
    BY <1>14, <2>1 DEF LoseSent
  <2>3. lost.sent = 0 /\ lost'.sent = 1
    BY <1>1, <2>2 DEF Unlost, TypeInv, LostTypes
  <2>4. FALSE
    BY <1>1, <2>3 DEF Unlost
  <2> QED  BY <2>4
<1>15. CASE LoseEcho
  <2>1. lost' = [lost EXCEPT !.echoes = @ + 1]
    BY <1>15 DEF LoseEcho
  <2>2. lost.echoes = 0 /\ lost'.echoes = 1
    BY <1>1, <2>1 DEF Unlost, TypeInv, LostTypes
  <2>3. FALSE
    BY <1>1, <2>2 DEF Unlost
  <2> QED  BY <2>3
<1>16. CASE UNCHANGED vars
  <2>1. UNCHANGED <<cuvar, file, remote, wire, zbuf, next, outcome>>
    BY <1>16 DEF vars
  <2>2. GoesOn
    <3>1. Len(Buffers)' = Len(Buffers)
      BY <2>1 DEF Buffers
    <3> QED  BY <1>1, <2>1, <3>1 DEF GoesOn
  <2> QED  BY <1>2, <2>1, <2>2
<1> QED  BY <1>5, <1>6, <1>7, <1>8, <1>9, <1>10, <1>11, <1>12, <1>13, <1>14, <1>15, <1>16
         DEF Next, Program, Line

(* If nothing was lost and nothing is on the wire, all has arrived.        *)
LEMMA SentHasArrived ==
  ASSUME FilesAreLines, TypeInv, SentInv
  PROVE  ArrivesUnchanged
<1> SUFFICES ASSUME AllArrived, Unlost  PROVE AsItIs
  BY DEF ArrivesUnchanged, AsItIs
<1>1. outcome = "complete" /\ next > Len(Buffers) /\ wire = <<>>
  BY DEF AllArrived
<1>2. /\ LinesPlain
      /\ \/ AsItIs
         \/ \E sent \in Seq(Characters), stuff \in Seq(Kept) : OnWay(sent, stuff)
  BY <1>1 DEF SentInv, GoesOn
<1>3. ASSUME NEW sent \in Seq(Characters), NEW stuff \in Seq(Kept), OnWay(sent, stuff)
      PROVE  AsItIs
  <2>1. cuvar \in Settings /\ remote \in RemoteType /\ wire \in Seq(OnTheWire)
    BY DEF TypeInv, ProgramTypes, LineTypes
  <2>2. CASE stuff # <<>>
    <3>1. PICK c \in Kept, rest \in Seq(Kept) :
            /\ stuff = <<c>> \o rest
            /\ Coded(stuff) = Translate(c) \o Coded(rest)
            /\ Translate(c) = IF c = "ctl" THEN <<"prefix", "ctl">>
                              ELSE IF c = "nl" THEN <<Newline>> ELSE <<c>>
      BY <2>1, <2>2, CodedHead
    <3>2. PICK e \in Seq(OnTheWire) : e = Coded(rest) \o Ending
      <4>1. rest \in Seq(Characters)
        BY KeptIs, SubType
      <4>2. Coded(rest) \in Seq(OnTheWire) /\ Ending \in Seq(OnTheWire)
        BY <2>1, <4>1, CodedType, PrefixIs
      <4>3. Coded(rest) \o Ending \in Seq(OnTheWire)
        BY <4>2, ConcatProperties
      <4> QED  BY <4>3
    <3>3. Prefix \o wire = Translate(c) \o e
      <4>1. Coded(rest) \in Seq(OnTheWire) /\ Ending \in Seq(OnTheWire)
            /\ Translate(c) \in Seq(OnTheWire)
        <5>1. rest \in Seq(Characters) /\ c \in Characters
          BY KeptIs, SubType
        <5> QED  BY <2>1, <5>1, CodedType, PrefixIs, TranslateType
      <4>2. (Translate(c) \o Coded(rest)) \o Ending = Translate(c) \o (Coded(rest) \o Ending)
        BY <4>1, WireConcat
      <4>3. Prefix \o wire = Coded(stuff) \o Ending
        BY <1>3 DEF OnWay
      <4> QED  BY <3>1, <3>2, <4>2, <4>3
    <3>4. wire # <<>>
      BY <2>1, <3>1, <3>2, <3>3, FirstOnWire
    <3> QED  BY <1>1, <3>4
  <2>3. CASE stuff = <<>>
    <3>1. OnWay(sent, <<>>)
      BY <1>3, <2>3
    <3>2. Ending = <<>>
      BY <1>1, <3>1, OnlyEnding
    <3>3. ~cuvar.zCuvar_eofwrite
      BY <1>1, <3>2 DEF Ending
    <3>4. remote.lines \o (IF remote.pending = <<>> THEN <<>> ELSE <<remote.pending>>)
            = Each(Content, file)
      BY <1>1, <1>2, <3>1, AllThere
    <3> QED  BY <3>3, <3>4 DEF AsItIs
  <2> QED  BY <2>2, <2>3
<1> QED  BY <1>2, <1>3

(* On a line that loses nothing, whatever the ~s variables are and in      *)
(* whatever chunks it goes, a transfer that is complete has brought every  *)
(* line of the file as it is, but for what text mode drops, and closed the *)
(* remote file if its last line is a whole one (fcusend_buf, icuput).      *)
THEOREM FileArrivesUnchanged ==
  ASSUME FilesAreLines, NewlineEchoed, TimelyEcho
  PROVE  Spec => []ArrivesUnchanged
<1>1. Init => TypeInv /\ EchoInv /\ SentInv
  BY TypeInvInit, EchoInvInit, SentInvInit
<1>2. TypeInv /\ EchoInv /\ SentInv /\ [Next]_vars => (TypeInv /\ EchoInv /\ SentInv)'
  BY TypeInvStep, EchoInvStep, SentInvStep
<1>3. TypeInv /\ EchoInv /\ SentInv => ArrivesUnchanged
  BY SentHasArrived
<1> QED  BY <1>1, <1>2, <1>3, PTL DEF Spec

-----------------------------------------------------------------------------
(* The lines that arrive when characters and echoes are lost *)

(* What of a sequence is printable, so that its echo is looked for.        *)
Shower  == [c \in OnTheWire |-> IF c \in Printable THEN <<c>> ELSE <<>>]
Seen(s) == Flattened(Shower, s)
Num(s)  == Len(Seen(s))

NoCr(s)   == \A i \in 1..Len(s) : s[i] # "cr"
OneCr(s)  == \A i, j \in 1..Len(s) : s[i] = "cr" /\ s[j] = "cr" => i = j
Clean(s)  == \A i, j \in 1..Len(s) : i < j /\ s[j] = "cr" => s[i] \notin Printable
NoKill(s) == \A i \in 1..Len(s) : s[i] # "kill"

(* An echo may be there that is taken for that of a later newline.         *)
Stale == ~(NoCr(KillEcho) /\ OneCr(NewlineEcho))

(* No line of a file is empty, a newline ends it, and only the last line   *)
(* may want one, and then it shows something.                              *)
LastOf(l) == l[Len(l)]

CheckedFiles ==
  \A f \in Files : \A i \in 1..Len(f) :
    /\ f[i] # <<>>
    /\ \A j \in 1..Len(f[i]) : f[i][j] = "nl" => j = Len(f[i])
    /\ LastOf(f[i]) # "nl" => i = Len(f) /\ Seen(f[i]) # <<>>

(* The remote terminal shows nothing of its own for a line end or a kill,  *)
(* and if its echo for them may be taken for that of a later newline, every *)
(* line has something to look for before its newline.                      *)
EchoesApart ==
  /\ \A i \in 1..Len(NewlineEcho) : NewlineEcho[i] \notin Printable
  /\ \A i \in 1..Len(KillEcho) : KillEcho[i] \notin Printable
  /\ Stale => \A f \in Files : \A i \in 1..Len(f) : Seen(f[i]) # <<>>

(* The lines L are a beginning of the file f, k lines long, with           *)
(* repetitions if it is not certain that each was sent once.               *)
Has(f, k, L, once) ==
  /\ \E m \in [1..Len(L) -> 1..Len(f)] :
       /\ \A i \in 1..Len(L) : /\ Seen(L[i]) = Seen(f[m[i]])
                               /\ IF i = 1 THEN m[i] = 1
                                  ELSE m[i] - m[i - 1] \in {0, 1}
       /\ IF L = <<>> THEN k = 0 ELSE m[Len(L)] = k
  /\ once => Len(L) = k /\ \A i \in 1..k : Seen(L[i]) = Seen(f[i])

Behind(f, k, L, once) == Has(f, k - 1, L, once) \/ (~once /\ Has(f, k, L, once))

(* Of what was sent of a line, t, the remote side has x, w is on its way,  *)
(* n echoes are and z is left to look for.                                 *)
Follows(x, w, n, t, z) ==
  /\ Within(x \o w, t)
  /\ Len(t) + n <= Len(x) + Len(z)
  /\ Len(z) <= Len(t)

(* The same for the remote line p, the wire w and a line that may be dead: *)
(* a kill that has not arrived yet will empty p.                           *)
KillFirst(w) == w # <<>> /\ w[1] = "kill"

Sent(p, w, d, n, t, z) ==
  \/ Follows(Seen(p), Seen(w), n, t, z) /\ NoKill(w)
  \/ Follows(<<>>, Seen(w), n, t, z) /\ (KillFirst(w) \/ d)

(* What may be on the wire.                                                *)
WireOK(w, z, o) ==
  \A i \in 1..Len(w) :
    /\ w[i] \in Printable \cup {"tab", "kill", "cr", "eof"}
    /\ w[i] = "kill" => i = 1
    /\ w[i] \in {"cr", "eof"} => i = Len(w)
    /\ w[i] = "eof" => o = "complete"
    /\ w[i] = "cr" => z = <<"cr">>

(* The line k of the file f was sent to its end, b being left of it.       *)
Finished(f, k, b) == b = <<>> /\ (k = 0 \/ LastOf(f[k]) = "nl")

(* The echoes s cannot be taken for others than they are, z being left to  *)
(* look for of t.                                                          *)
Known(s, t, z) == Clean(s) /\ (NoCr(s) \/ (Stale /\ Len(z) = Len(t)))

(* In the line k, of which gone was sent.                                  *)
InLine(f, k, b, z, s, w, p, d) ==
  \E gone \in Seq(Characters) :
    /\ k >= 1 /\ gone \o b = f[k] /\ ~Finished(f, k, b)
    /\ z \in Seq(Printable)
    /\ Sent(p, w, d, Num(s), Seen(gone), z)
    /\ Known(s, Seen(gone), z)

(* Its carriage return was sent, and is on its way, is lost, or has arrived. *)
EndSent(f, k, b, z, s) ==
  k >= 1 /\ Finished(f, k, b) /\ z = <<"cr">> /\ Num(s) = 0

EndOnWay(f, k, b, z, s, w, p, d) ==
  /\ EndSent(f, k, b, z, s) /\ NoCr(s)
  /\ w # <<>> /\ LastOf(w) = "cr"
  /\ Sent(p, w, d, 0, Seen(f[k]), <<>>)

EndLost(f, k, b, z, s, w) == EndSent(f, k, b, z, s) /\ NoCr(s) /\ w = <<>>

EndArrived(f, k, b, z, s, w, p, once) ==
  /\ EndSent(f, k, b, z, s) /\ w = <<>> /\ p = <<>>
  /\ once => ~NoCr(s)
  /\ Stale \/ OneCr(s)

(* Its newline was heard, and the next line is not begun.                  *)
Between(f, k, b, z, s, w, p) ==
  /\ Finished(f, k, b) /\ z = <<>> /\ Num(s) = 0
  /\ w \in {<<>>, <<"eof">>} /\ p = <<>>
  /\ Stale \/ NoCr(s)

NewlineHeard == \E k \in 1..Len(NewlineEcho) : NewlineEcho[k] = "cr"

current == next - 1
Pieces  == abPrecbuf \o echo
Once    == lost.echoes = 0 /\ NewlineHeard

EofDue == cuvar.zCuvar_eofwrite /\ outcome = "complete"

InLineNow ==
  /\ InLine(file, current, zbuf, zsendbuf, Pieces, wire, remote.pending, lost.dead)
  /\ Behind(file, current, remote.lines, Once)
  /\ EofDue => wire # <<>> /\ LastOf(wire) = "eof"

EndOnWayNow ==
  /\ EndOnWay(file, current, zbuf, zsendbuf, Pieces, wire, remote.pending, lost.dead)
  /\ Behind(file, current, remote.lines, Once)

EndLostNow ==
  /\ EndLost(file, current, zbuf, zsendbuf, Pieces, wire)
  /\ Behind(file, current, remote.lines, Once)

EndArrivedNow ==
  /\ EndArrived(file, current, zbuf, zsendbuf, Pieces, wire, remote.pending, Once)
  /\ Has(file, current, remote.lines, Once)

BetweenNow ==
  /\ Between(file, current, zbuf, zsendbuf, Pieces, wire, remote.pending)
  /\ Has(file, current, remote.lines, Once)

AllNow ==
  /\ outcome = "complete" /\ wire = <<>>
  /\ Has(file, current, remote.lines, Once)

LineNow == \/ InLineNow \/ EndOnWayNow \/ EndLostNow \/ EndArrivedNow
           \/ BetweenNow \/ AllNow

SendPlace ==
  /\ ~remote.literal
  /\ WireOK(wire, zsendbuf, outcome)
  /\ at \in {"buffer", "chunk"} \/ outcome = "complete" => zsendbuf = <<>>
  /\ outcome = "complete" => current = Len(file)

LineInv == Checked /\ TimelyEcho => SendPlace /\ LineNow

LEMMA NotPrintable ==
  Printable \cap {"tab", "ctl", "nl", "cr", "kill", "prefix", "eof"} = {}
  BY ConstantsAssumption DEF ConstantsAssumption

LEMMA PrintableSent ==
  /\ Printable \subseteq OnTheWire /\ Printable \subseteq Characters
  /\ \A s \in Seq(Printable) : s \in Seq(OnTheWire)
  /\ \A s \in Seq(Characters) : s \in Seq(OnTheWire)
<1>1. Printable \subseteq Characters
  BY DEF Characters
<1>2. Printable \subseteq OnTheWire
  BY <1>1, OnTheWireHas
<1> QED  BY <1>1, <1>2, OnTheWireHas, SubType

LEMMA ShowerType == Shower \in [OnTheWire -> Seq(Printable)]
<1>1. \A c \in Printable : <<c>> \in Seq(Printable)
  BY SingleType
<1>2. <<>> \in Seq(Printable)
  OBVIOUS
<1> QED  BY <1>1, <1>2 DEF Shower

LEMMA SeenType ==
  ASSUME NEW s \in Seq(OnTheWire)
  PROVE  Seen(s) \in Seq(Printable) /\ Num(s) \in Nat /\ Num(s) = Len(Seen(s))
<1>1. Seen(s) \in Seq(Printable)
  BY ShowerType, FlattenedType DEF Seen
<1> QED  BY <1>1 DEF Num

LEMMA SeenNone == Seen(<<>>) = <<>> /\ Num(<<>>) = 0
  BY FlattenedNone DEF Seen, Num

LEMMA SeenOne ==
  ASSUME NEW c \in OnTheWire
  PROVE  /\ c \in Printable => Seen(<<c>>) = <<c>> /\ Num(<<c>>) = 1
         /\ c \notin Printable => Seen(<<c>>) = <<>> /\ Num(<<c>>) = 0
<1>1. Seen(<<c>>) = Shower[c]
  BY ShowerType, FlattenedOne DEF Seen
<1>2. Seen(<<c>>) = IF c \in Printable THEN <<c>> ELSE <<>>
  BY <1>1 DEF Shower
<1>3. Len(<<c>>) = 1 /\ Len(<<>>) = 0
  OBVIOUS
<1> QED  BY <1>2, <1>3 DEF Num

LEMMA SeenConcat ==
  ASSUME NEW s \in Seq(OnTheWire), NEW t \in Seq(OnTheWire)
  PROVE  Seen(s \o t) = Seen(s) \o Seen(t) /\ Num(s \o t) = Num(s) + Num(t)
<1>1. Seen(s \o t) = Seen(s) \o Seen(t)
  BY ShowerType, FlattenedConcat DEF Seen
<1>2. Seen(s) \in Seq(Printable) /\ Seen(t) \in Seq(Printable)
  BY SeenType
<1>3. Len(Seen(s) \o Seen(t)) = Len(Seen(s)) + Len(Seen(t))
  BY <1>2, ConcatProperties
<1> QED  BY <1>1, <1>3 DEF Num

(* A sequence, split at an element.                                        *)
LEMMA SplitAt ==
  ASSUME NEW A, NEW s \in Seq(A), NEW i \in 1..Len(s)
  PROVE  /\ s = SubSeq(s, 1, i - 1) \o (<<s[i]>> \o SubSeq(s, i + 1, Len(s)))
         /\ SubSeq(s, 1, i - 1) \in Seq(A) /\ SubSeq(s, i + 1, Len(s)) \in Seq(A)
<1>1. PICK n \in Nat : n = i - 1
  OBVIOUS
<1>2. n \in 0..Len(s) /\ n + 1 = i
  BY <1>1
<1>3. PICK p, r : p = SubSeq(s, 1, n) /\ r = SubSeq(s, n + 1, Len(s))
  OBVIOUS
<1>4. s = p \o r /\ p \in Seq(A) /\ r \in Seq(A)
  BY <1>2, <1>3, CutIsWhole, CutType
<1>5. r # <<>> /\ Head(r) = s[i]
  <2>1. Len(s) \in Nat /\ i <= Len(s)
    OBVIOUS
  <2>2. Len(r) = Len(s) - n /\ r[1] = s[i]
    BY <1>2, <1>3, <2>1
  <2>3. Len(r) # 0
    BY <1>2, <2>1, <2>2
  <2> QED  BY <1>4, <2>2, <2>3
<1>6. Tail(r) \in Seq(A) /\ r = <<s[i]>> \o Tail(r)
  BY <1>4, <1>5, HeadAndTail
<1>7. Tail(r) = SubSeq(s, i + 1, Len(s))
  <2>1. PICK m \in Nat : m = Len(s)
    OBVIOUS
  <2>2. PICK v : v = SubSeq(s, i + 1, m)
    OBVIOUS
  <2>3. v \in Seq(A) /\ Len(v) = m - i /\ \A j \in 1..Len(v) : v[j] = s[i + j]
    BY <2>1, <2>2
  <2>4. Len(r) = m - n /\ \A j \in 1..Len(r) : r[j] = s[n + j]
    BY <1>2, <1>3, <2>1
  <2>9. n \in Nat /\ m \in Nat /\ i \in Nat /\ n + 1 = i /\ i <= m
    BY <1>2, <2>1
  <2>5. Len(Tail(r)) = Len(r) - 1 /\ \A j \in 1..Len(Tail(r)) : Tail(r)[j] = r[j + 1]
    BY <1>4, <1>5, HeadTailProperties
  <2>6. Len(Tail(r)) = Len(v)
    <3>1. Len(Tail(r)) = (m - n) - 1 /\ Len(v) = m - i
      BY <2>3, <2>4, <2>5
    <3> QED  BY ONLY <2>9, <3>1
  <2>7. ASSUME NEW j \in 1..Len(v)
        PROVE  Tail(r)[j] = v[j]
    <3>1. j + 1 \in 1..Len(r) /\ n + (j + 1) = i + j
      BY <1>2, <2>1, <2>3, <2>4
    <3> QED  BY <2>3, <2>4, <2>5, <2>6, <3>1
  <2>8. Tail(r) = v
    BY <1>6, <2>3, <2>6, <2>7, SeqEqual
  <2> QED  BY <2>1, <2>2, <2>8
<1>8. p = SubSeq(s, 1, i - 1)
  BY <1>1, <1>3
<1> QED  BY <1>4, <1>6, <1>7, <1>8

LEMMA SeenThere ==
  ASSUME NEW p \in Seq(OnTheWire), NEW c \in Printable, NEW q \in Seq(OnTheWire)
  PROVE  Num(p \o (<<c>> \o q)) >= 1
<1>1. c \in OnTheWire /\ <<c>> \in Seq(OnTheWire)
  BY PrintableSent, SingleType
<1>2. Num(<<c>>) = 1
  BY <1>1, SeenOne
<1>3. <<c>> \o q \in Seq(OnTheWire) /\ Num(<<c>> \o q) = 1 + Num(q)
  BY <1>1, <1>2, SeenConcat, ConcatProperties
<1>4. Num(p \o (<<c>> \o q)) = Num(p) + (1 + Num(q))
  BY <1>3, SeenConcat
<1>5. Num(p) \in Nat /\ Num(q) \in Nat
  BY SeenType
<1> QED  BY ONLY <1>4, <1>5

(* Something that is printable is seen, and else nothing is.               *)
LEMMA NumHas ==
  ASSUME NEW s \in Seq(OnTheWire), Num(s) = 0, NEW i \in 1..Len(s)
  PROVE  s[i] \notin Printable
<1>1. PICK p, q : p = SubSeq(s, 1, i - 1) /\ q = SubSeq(s, i + 1, Len(s))
  OBVIOUS
<1>2. s = p \o (<<s[i]>> \o q)
  <2>1. s = SubSeq(s, 1, i - 1) \o (<<s[i]>> \o SubSeq(s, i + 1, Len(s)))
    <3>1. s \in Seq(OnTheWire) /\ i \in 1..Len(s)
      OBVIOUS
    <3>2. \A A : s \in Seq(A) => s = SubSeq(s, 1, i - 1) \o (<<s[i]>> \o SubSeq(s, i + 1, Len(s)))
      BY ONLY <3>1, SplitAt
    <3> QED  BY ONLY <3>1, <3>2
  <2> QED  BY ONLY <1>1, <2>1, Zenon
<1>3. p \in Seq(OnTheWire) /\ q \in Seq(OnTheWire)
  BY <1>1, SplitAt
<1>4. PICK c : c = s[i]
  OBVIOUS
<1>5. s = p \o (<<c>> \o q)
  BY ONLY <1>2, <1>4
<1>6. c \in Printable => Num(s) >= 1
  BY ONLY <1>3, <1>5, SeenThere
<1>7. ~(0 >= 1)
  OBVIOUS
<1> QED  BY <1>4, <1>6, <1>7

LEMMA NumNone ==
  \A s \in Seq(OnTheWire) :
     (\A i \in 1..Len(s) : s[i] \notin Printable) => Seen(s) = <<>> /\ Num(s) = 0
<1> DEFINE T == {s \in Seq(OnTheWire) :
                   (\A i \in 1..Len(s) : s[i] \notin Printable) => Seen(s) = <<>>}
<1>1. <<>> \in T
  BY SeenNone
<1>2. ASSUME NEW s \in T, NEW c \in OnTheWire
      PROVE  Append(s, c) \in T
  <2>1. PICK t : t = Append(s, c)
    OBVIOUS
  <2>2. /\ t \in Seq(OnTheWire) /\ Len(t) = Len(s) + 1 /\ t[Len(s) + 1] = c
        /\ \A i \in 1..Len(s) : t[i] = s[i]
    BY <2>1, AppendProperties
  <2>3. ASSUME \A i \in 1..Len(t) : t[i] \notin Printable
        PROVE  Seen(t) = <<>>
    <3>1. Len(s) \in Nat /\ s \in Seq(OnTheWire)
      OBVIOUS
    <3>2. c \notin Printable /\ \A i \in 1..Len(s) : s[i] \notin Printable
      BY <2>2, <2>3, <3>1
    <3>3. Seen(s) = <<>>
      BY <3>2
    <3>4. Seen(t) = Seen(s) \o Shower[c]
      BY <2>1, <3>1, ShowerType, FlattenedAppend DEF Seen
    <3>5. Shower[c] = <<>>
      BY <3>2 DEF Shower
    <3>6. <<>> \o <<>> = <<>>
      OBVIOUS
    <3> QED  BY <3>3, <3>4, <3>5, <3>6
  <2> QED  BY <2>1, <2>2, <2>3
<1>3. T \subseteq Seq(OnTheWire)
  OBVIOUS
<1>4. \A s \in T : (\A i \in 1..Len(s) : s[i] \notin Printable) => Seen(s) = <<>>
  OBVIOUS
<1> HIDE DEF T
<1>5. \A s \in Seq(OnTheWire) : s \in T
  BY <1>1, <1>2, <1>3, SeqInduction
<1>6. Len(<<>>) = 0
  OBVIOUS
<1> QED  BY <1>4, <1>5, <1>6 DEF Num

LEMMA ShownIs ==
  ASSUME NEW l \in Seq(OnTheWire)
  PROVE  Shown(l) = Seen(l)
<1>1. \A i \in DOMAIN l : Shower[l[i]] = IF IsShown(l[i]) THEN <<l[i]>> ELSE <<>>
  BY DEF Shower, IsShown
<1>2. [i \in DOMAIN l |-> IF IsShown(l[i]) THEN <<l[i]>> ELSE <<>>]
        = [i \in DOMAIN l |-> Shower[l[i]]]
  BY <1>1
<1> QED  BY <1>2 DEF Shown, Where, Seen, Flattened, Mapped

-----------------------------------------------------------------------------
(* What leaving out an element of a sequence and adding to it does *)

LEMMA WithinTrans ==
  ASSUME NEW u, NEW v, NEW t, Within(u, v), Within(v, t)
  PROVE  Within(u, t)
<1>1. PICK f \in [1..Len(u) -> 1..Len(v)] :
        Strict(f, Len(u)) /\ \A i \in 1..Len(u) : v[f[i]] = u[i]
  BY DEF Within
<1>2. PICK g \in [1..Len(v) -> 1..Len(t)] :
        Strict(g, Len(v)) /\ \A i \in 1..Len(v) : t[g[i]] = v[i]
  BY DEF Within
<1>3. PICK h : h = [i \in 1..Len(u) |-> g[f[i]]]
  OBVIOUS
<1>4. \A i \in 1..Len(u) : /\ f[i] \in 1..Len(v) /\ h[i] = g[f[i]]
                           /\ h[i] \in 1..Len(t) /\ t[h[i]] = u[i]
  BY <1>1, <1>2, <1>3
<1>5. h \in [1..Len(u) -> 1..Len(t)]
  BY <1>3, <1>4
<1>6. ASSUME NEW i \in 1..Len(u), NEW j \in 1..Len(u), i < j
      PROVE  h[i] < h[j]
  <2>1. f[i] < f[j] /\ f[i] \in 1..Len(v) /\ f[j] \in 1..Len(v)
    BY <1>1, <1>4, <1>6 DEF Strict
  <2>2. g[f[i]] < g[f[j]]
    BY <1>2, <2>1 DEF Strict
  <2> QED  BY <1>4, <2>2
<1> QED  BY <1>4, <1>5, <1>6 DEF Within, Strict

LEMMA WithinSame ==
  ASSUME NEW A, NEW s \in Seq(A)
  PROVE  Within(s, s)
<1>1. PICK f : f = [i \in 1..Len(s) |-> i]
  OBVIOUS
<1>2. f \in [1..Len(s) -> 1..Len(s)] /\ \A i \in 1..Len(s) : f[i] = i
  BY <1>1
<1> QED  BY <1>2 DEF Within, Strict

LEMMA WithinDropped ==
  ASSUME NEW A, NEW p \in Seq(A), NEW q \in Seq(A), NEW c \in A
  PROVE  Within(p \o q, p \o (<<c>> \o q))
<1>1. PICK s : s = p \o (<<c>> \o q)
  OBVIOUS
<1>2. PICK t : t = p \o q
  OBVIOUS
<1>3. PICK n \in Nat, l \in Nat : n = Len(p) /\ l = Len(q)
  OBVIOUS
<1>4. /\ s \in Seq(A) /\ Len(s) = n + 1 + l
      /\ \A i \in 1..n : s[i] = p[i]
      /\ \A i \in 1..l : s[n + 1 + i] = q[i]
  BY <1>1, <1>3, SMTT(20)
<1>5. /\ t \in Seq(A) /\ Len(t) = n + l
      /\ \A i \in 1..n : t[i] = p[i]
      /\ \A i \in 1..l : t[n + i] = q[i]
  BY <1>2, <1>3
<1>6. PICK f : f = [i \in 1..n + l |-> IF i <= n THEN i ELSE i + 1]
  OBVIOUS
<1>7. \A i \in 1..n + l : f[i] = IF i <= n THEN i ELSE i + 1
  BY <1>6
<1>8. \A i \in 1..n + l : f[i] \in 1..n + 1 + l
  BY <1>7
<1>9. f \in [1..Len(t) -> 1..Len(s)]
  BY <1>4, <1>5, <1>6, <1>8
<1>10. \A i, j \in 1..n + l : i < j => f[i] < f[j]
  BY <1>7
<1>11. ASSUME NEW i \in 1..n + l
       PROVE  s[f[i]] = t[i]
  <2>1. CASE i <= n
    <3>1. i \in 1..n /\ f[i] = i
      BY <1>7, <2>1
    <3> QED  BY <1>4, <1>5, <3>1
  <2>2. CASE i > n
    <3>1. PICK j \in 1..l : i = n + j
      <4>1. i - n \in 1..l /\ i = n + (i - n)
        BY <2>2
      <4> QED  BY <4>1, Zenon
    <3>2. f[i] = n + 1 + j
      BY <1>7, <2>2, <3>1
    <3> QED  BY <1>4, <1>5, <3>1, <3>2
  <2> QED  BY <2>1, <2>2
<1>12. Within(t, s)
  BY <1>5, <1>9, <1>10, <1>11 DEF Within, Strict
<1> QED  BY <1>1, <1>2, <1>12

(* What holds of the carriage returns in a sequence when some of its       *)
(* elements are left out.                                                  *)
LEMMA WithinKeeps ==
  ASSUME NEW u, NEW s, Within(u, s)
  PROVE  /\ NoCr(s) => NoCr(u)
         /\ OneCr(s) => OneCr(u)
         /\ Clean(s) => Clean(u)
         /\ NoKill(s) => NoKill(u)
<1>1. PICK f \in [1..Len(u) -> 1..Len(s)] :
        Strict(f, Len(u)) /\ \A i \in 1..Len(u) : s[f[i]] = u[i]
  BY DEF Within
<1>2. \A i \in 1..Len(u) : f[i] \in 1..Len(s) /\ s[f[i]] = u[i]
  BY <1>1
<1>3. NoCr(s) => NoCr(u)
  BY <1>2 DEF NoCr
<1>4. NoKill(s) => NoKill(u)
  BY <1>2 DEF NoKill
<1>5. ASSUME OneCr(s), NEW i \in 1..Len(u), NEW j \in 1..Len(u), u[i] = "cr", u[j] = "cr"
      PROVE  i = j
  <2>1. f[i] = f[j]
    BY <1>2, <1>5 DEF OneCr
  <2>2. f[i] \in Int /\ ~(f[i] < f[i])
    BY <1>2
  <2>3. ~(i < j) /\ ~(j < i)
    BY <1>1, <2>1, <2>2 DEF Strict
  <2> QED  BY <2>3
<1>6. ASSUME Clean(s), NEW i \in 1..Len(u), NEW j \in 1..Len(u), i < j, u[j] = "cr"
      PROVE  u[i] \notin Printable
  <2>1. f[i] < f[j]
    BY <1>1, <1>6 DEF Strict
  <2> QED  BY <1>2, <1>6, <2>1 DEF Clean
<1> QED  BY <1>3, <1>4, <1>5, <1>6 DEF OneCr, Clean

(* What holds of the echoes s holds of the fewer echoes u.                 *)
Fewer(u, s) ==
  /\ u \in Seq(OnTheWire) /\ Within(u, s) /\ Num(u) <= Num(s)

LEMMA FewerDropped ==
  ASSUME NEW p \in Seq(OnTheWire), NEW c \in OnTheWire, NEW q \in Seq(OnTheWire)
  PROVE  /\ Fewer(p \o q, p \o (<<c>> \o q))
         /\ c \in Printable => Num(p \o q) = Num(p \o (<<c>> \o q)) - 1
<1>1. <<c>> \in Seq(OnTheWire) /\ <<c>> \o q \in Seq(OnTheWire) /\ p \o q \in Seq(OnTheWire)
  BY SingleType, ConcatProperties
<1>2. Num(p \o (<<c>> \o q)) = Num(p) + (Num(<<c>>) + Num(q)) /\ Num(p \o q) = Num(p) + Num(q)
  <2>1. Num(p \o (<<c>> \o q)) = Num(p) + Num(<<c>> \o q)
    BY <1>1, SeenConcat
  <2>2. Num(<<c>> \o q) = Num(<<c>>) + Num(q) /\ Num(p \o q) = Num(p) + Num(q)
    BY <1>1, SeenConcat
  <2> QED  BY <2>1, <2>2
<1>3. Num(<<c>>) \in {0, 1} /\ (c \in Printable => Num(<<c>>) = 1)
  BY SeenOne
<1>4. Num(p) \in Nat /\ Num(q) \in Nat
  BY SeenType
<1>5. Within(p \o q, p \o (<<c>> \o q))
  BY WithinDropped
<1> QED  BY <1>1, <1>2, <1>3, <1>4, <1>5 DEF Fewer

LEMMA FewerKnown ==
  ASSUME NEW s \in Seq(OnTheWire), NEW u, Fewer(u, s), NEW t, NEW z, Known(s, t, z)
  PROVE  Known(u, t, z)
<1>1. Within(u, s)
  BY DEF Fewer
<1>2. (NoCr(s) => NoCr(u)) /\ (Clean(s) => Clean(u))
  BY <1>1, WithinKeeps
<1> QED  BY <1>2 DEF Known

(* Echoes that come after the others.                                      *)
LEMMA AddedIs ==
  ASSUME NEW s \in Seq(OnTheWire), NEW e \in Seq(OnTheWire)
  PROVE  /\ NoCr(s) /\ NoCr(e) => NoCr(s \o e)
         /\ NoCr(s) /\ OneCr(e) => OneCr(s \o e)
         /\ Clean(s) /\ NoCr(e) => Clean(s \o e)
         /\ (\A i \in 1..Len(s) : s[i] \notin Printable) /\ (\A i \in 1..Len(e) : e[i] \notin Printable)
              => Clean(s \o e)
         /\ (\E i \in 1..Len(e) : e[i] = "cr") => ~NoCr(s \o e)
<1>1. PICK n \in Nat, m \in Nat : n = Len(s) /\ m = Len(e)
  OBVIOUS
<1>2. PICK u : u = s \o e
  OBVIOUS
<1>3. /\ Len(u) = n + m
      /\ \A i \in 1..n : u[i] = s[i]
      /\ \A i \in 1..m : u[n + i] = e[i]
  BY <1>1, <1>2
<1>4. ASSUME NEW i \in 1..n + m
      PROVE  \/ i \in 1..n /\ u[i] = s[i]
             \/ \E j \in 1..m : i = n + j /\ u[i] = e[j]
  <2>1. CASE i <= n
    BY <1>3, <2>1
  <2>2. CASE i > n
    <3>1. i - n \in 1..m /\ i = n + (i - n)
      BY <2>2
    <3> QED  BY <1>3, <3>1, Zenon
  <2> QED  BY <2>1, <2>2
<1>5. NoCr(s) /\ NoCr(e) => NoCr(u)
  BY <1>1, <1>3, <1>4 DEF NoCr
<1>6. NoCr(s) /\ OneCr(e) => OneCr(u)
  <2> SUFFICES ASSUME NoCr(s), OneCr(e), NEW i \in 1..n + m, NEW j \in 1..n + m, u[i] = "cr", u[j] = "cr"
               PROVE  i = j
    BY <1>3 DEF OneCr
  <2>1. PICK a \in 1..m : i = n + a /\ u[i] = e[a]
    BY <1>1, <1>4 DEF NoCr
  <2>2. PICK b \in 1..m : j = n + b /\ u[j] = e[b]
    BY <1>1, <1>4 DEF NoCr
  <2>3. a = b
    BY <1>1, <2>1, <2>2 DEF OneCr
  <2> QED  BY <2>1, <2>2, <2>3
<1>7. Clean(s) /\ NoCr(e) => Clean(u)
  <2> SUFFICES ASSUME Clean(s), NoCr(e), NEW i \in 1..n + m, NEW j \in 1..n + m, i < j, u[j] = "cr"
               PROVE  u[i] \notin Printable
    BY <1>3 DEF Clean
  <2>1. j \in 1..n /\ u[j] = s[j]
    BY <1>1, <1>4 DEF NoCr
  <2>2. i \in 1..n
    BY <2>1
  <2> QED  BY <1>1, <1>3, <2>1, <2>2 DEF Clean
<1>8. (\A i \in 1..n : s[i] \notin Printable) /\ (\A i \in 1..m : e[i] \notin Printable)
        => Clean(u)
  BY <1>3, <1>4 DEF Clean
<1>9. (\E i \in 1..m : e[i] = "cr") => ~NoCr(u)
  <2> SUFFICES ASSUME NEW i \in 1..m, e[i] = "cr"  PROVE ~NoCr(u)
    OBVIOUS
  <2>1. n + i \in 1..Len(u) /\ u[n + i] = "cr"
    BY <1>3
  <2> QED  BY <2>1 DEF NoCr
<1> QED  BY <1>1, <1>2, <1>5, <1>6, <1>7, <1>8, <1>9

-----------------------------------------------------------------------------
(* What is within a sequence and as long is that sequence *)

LEMMA StrictGrows ==
  ASSUME NEW n \in Nat, NEW m \in Nat, NEW f \in [1..n -> 1..m], Strict(f, n)
  PROVE  n <= m /\ \A i \in 1..n : f[i] >= i /\ f[i] + (n - i) <= m
<1> DEFINE T == {k \in Nat : k \in 1..n => f[k] >= k}
<1>1. 0 \in T
  OBVIOUS
<1>2. ASSUME NEW k \in T
      PROVE  k + 1 \in T
  <2> SUFFICES ASSUME k + 1 \in 1..n  PROVE f[k + 1] >= k + 1
    OBVIOUS
  <2>1. f[k + 1] \in 1..m /\ k \in Nat
    OBVIOUS
  <2>2. CASE k = 0
    BY <2>1, <2>2
  <2>3. CASE k # 0
    <3>1. k \in 1..n /\ k < k + 1
      BY <2>3
    <3>2. f[k] >= k /\ f[k] \in 1..m
      BY <3>1
    <3>3. f[k] < f[k + 1]
      BY <3>1 DEF Strict
    <3> QED  BY <2>1, <3>2, <3>3
  <2> QED  BY <2>2, <2>3
<1>3. T \subseteq Nat
  OBVIOUS
<1>4. \A k \in T : k \in 1..n => f[k] >= k
  OBVIOUS
<1> HIDE DEF T
<1>5. \A k \in Nat : k \in T
  BY <1>1, <1>2, <1>3, SetInduction
<1>6. \A i \in 1..n : f[i] >= i /\ f[i] \in 1..m
  BY <1>4, <1>5
<1> DEFINE U == {k \in Nat : \A i \in 1..n : i + k = n => f[i] + k <= m}
<1>7. 0 \in U
  BY <1>6
<1>8. ASSUME NEW k \in U
      PROVE  k + 1 \in U
  <2> SUFFICES ASSUME NEW i \in 1..n, i + (k + 1) = n  PROVE f[i] + (k + 1) <= m
    OBVIOUS
  <2>1. k \in Nat /\ i + 1 \in 1..n /\ (i + 1) + k = n /\ i < i + 1
    OBVIOUS
  <2>2. f[i + 1] + k <= m
    BY <2>1
  <2>3. f[i] < f[i + 1]
    BY <2>1 DEF Strict
  <2>4. f[i] \in 1..m /\ f[i + 1] \in 1..m
    BY <1>6, <2>1
  <2> QED  BY <2>1, <2>2, <2>3, <2>4
<1>9. U \subseteq Nat
  OBVIOUS
<1>10. \A k \in U : \A i \in 1..n : i + k = n => f[i] + k <= m
  OBVIOUS
<1> HIDE DEF U
<1>11. \A k \in Nat : k \in U
  BY <1>7, <1>8, <1>9, SetInduction
<1>12. ASSUME NEW i \in 1..n
       PROVE  f[i] + (n - i) <= m
  <2>1. n - i \in Nat /\ i + (n - i) = n
    OBVIOUS
  <2> QED  BY <1>10, <1>11, <2>1
<1>13. n <= m
  <2>1. CASE n = 0
    BY <2>1
  <2>2. CASE n # 0
    <3>1. n \in 1..n
      BY <2>2
    <3> QED  BY <1>6, <3>1
  <2> QED  BY <2>1, <2>2
<1> QED  BY <1>6, <1>12, <1>13

LEMMA WithinLen ==
  ASSUME NEW A, NEW z \in Seq(A), NEW s \in Seq(A), Within(z, s)
  PROVE  Len(z) <= Len(s) /\ (Len(z) >= Len(s) => z = s)
<1>1. PICK n \in Nat, m \in Nat : n = Len(z) /\ m = Len(s)
  OBVIOUS
<1>2. PICK f \in [1..n -> 1..m] : Strict(f, n) /\ \A i \in 1..n : s[f[i]] = z[i]
  BY <1>1 DEF Within
<1>3. n <= m /\ \A i \in 1..n : f[i] >= i /\ f[i] + (n - i) <= m
  BY <1>2, StrictGrows
<1>4. ASSUME n >= m
      PROVE  z = s
  <2>1. n = m
    BY <1>3, <1>4
  <2>2. ASSUME NEW i \in 1..n
        PROVE  s[i] = z[i]
    <3>1. f[i] \in 1..m
      OBVIOUS
    <3>2. f[i] = i
      BY <1>3, <2>1, <3>1
    <3> QED  BY <1>2, <3>2
  <2> QED  BY <1>1, <2>1, <2>2, SeqEqual
<1> QED  BY <1>1, <1>3, <1>4

-----------------------------------------------------------------------------
(* A line that is sent *)

LEMMA PrintAssociative ==
  \A s, t, u \in Seq(Printable) : (s \o t) \o u = s \o (t \o u)
  BY ConcatAssociative

LEMMA PrintConcat ==
  \A s, t, u \in Seq(Printable) :
    /\ s \o t \in Seq(Printable) /\ (s \o t) \o u = s \o (t \o u)
    /\ Len(s \o t) = Len(s) + Len(t) /\ Len(s) \in Nat
    /\ s \o <<>> = s /\ <<>> \o s = s
<1> TAKE s, t, u \in Seq(Printable)
<1>1. s \o t \in Seq(Printable) /\ Len(s \o t) = Len(s) + Len(t) /\ Len(s) \in Nat
  BY ConcatProperties
<1>2. (s \o t) \o u = s \o (t \o u)
  BY PrintAssociative
<1>3. s \o <<>> = s /\ <<>> \o s = s
  BY ConcatEmptySeq
<1> QED  BY <1>1, <1>2, <1>3

(* When no echo is left to look for, all of it is there or was killed.     *)
LEMMA FollowsDone ==
  ASSUME NEW x \in Seq(Printable), NEW w \in Seq(Printable), NEW n \in Nat,
         NEW t \in Seq(Printable), Follows(x, w, n, t, <<>>)
  PROVE  w = <<>> /\ n = 0 /\ x = t
<1>1. PICK y : y = x \o w
  OBVIOUS
<1>2. y \in Seq(Printable) /\ Len(y) = Len(x) + Len(w)
  BY <1>1, PrintConcat
<1>3. Within(y, t) /\ Len(t) + n <= Len(x) + 0
  <2>1. Len(<<>>) = 0
    OBVIOUS
  <2> QED  BY <1>1, <2>1 DEF Follows
<1>4. Len(x) \in Nat /\ Len(w) \in Nat /\ Len(t) \in Nat
  BY PrintConcat
<1>5. Len(y) <= Len(t) /\ (Len(y) >= Len(t) => y = t)
  BY <1>2, <1>3, WithinLen
<1>6. Len(w) = 0 /\ n = 0 /\ y = t
  BY <1>2, <1>3, <1>4, <1>5
<1>7. w = <<>>
  BY <1>6, EmptySeq
<1>8. x \o w = x
  BY <1>7, PrintConcat
<1> QED  BY <1>1, <1>6, <1>7, <1>8

LEMMA FollowsFewer ==
  ASSUME NEW x \in Seq(Printable), NEW w, NEW n \in Nat, NEW m \in Nat,
         NEW t \in Seq(Printable), NEW z \in Seq(Printable), Follows(x, w, n, t, z), m <= n
  PROVE  Follows(x, w, m, t, z)
<1>1. Len(x) \in Nat /\ Len(t) \in Nat /\ Len(z) \in Nat
  OBVIOUS
<1> QED  BY <1>1 DEF Follows

LEMMA FollowsHeard ==
  ASSUME NEW x \in Seq(Printable), NEW w, NEW n \in Nat, NEW m \in Nat,
         NEW t \in Seq(Printable), NEW z \in Seq(Printable), Follows(x, w, n, t, z),
         z # <<>>, m + 1 <= n
  PROVE  Follows(x, w, m, t, Tail(z)) /\ Tail(z) \in Seq(Printable)
<1>1. Len(x) \in Nat /\ Len(t) \in Nat /\ Len(z) \in Nat
  OBVIOUS
<1>2. Tail(z) \in Seq(Printable) /\ Len(Tail(z)) = Len(z) - 1
  BY HeadTailProperties
<1>3. PICK l : l = Len(z) - 1
  OBVIOUS
<1>4. Within(x \o w, t) /\ Len(t) + n <= Len(x) + Len(z) /\ Len(z) <= Len(t)
  BY DEF Follows
<1>5. Len(t) + m <= Len(x) + l /\ l <= Len(t)
  BY ONLY <1>1, <1>3, <1>4, n \in Nat, m \in Nat, m + 1 <= n
<1> QED  BY <1>2, <1>3, <1>4, <1>5 DEF Follows

(* What is on the wire, but for a character of it.                         *)
LEMMA FollowsLost ==
  ASSUME NEW x \in Seq(Printable), NEW c \in OnTheWire, NEW w \in Seq(OnTheWire), NEW n,
         NEW t \in Seq(Printable), NEW z, Follows(x, Seen(<<c>> \o w), n, t, z)
  PROVE  Follows(x, Seen(w), n, t, z)
<1>1. <<c>> \in Seq(OnTheWire)
  BY SingleType
<1>2. Seen(<<c>> \o w) = Seen(<<c>>) \o Seen(w)
  BY <1>1, SeenConcat
<1>3. PICK v : v = Seen(w)
  OBVIOUS
<1>4. v \in Seq(Printable)
  BY <1>3, SeenType
<1>5. CASE c \in Printable
  <2>1. Seen(<<c>> \o w) = <<c>> \o v
    BY <1>2, <1>3, <1>5, SeenOne
  <2>2. Within(x \o v, x \o (<<c>> \o v))
    BY <1>4, <1>5, WithinDropped
  <2>3. Within(x \o (<<c>> \o v), t)
    BY <2>1 DEF Follows
  <2>4. Within(x \o v, t)
    BY <2>2, <2>3, WithinTrans
  <2> QED  BY <1>3, <2>4 DEF Follows
<1>6. CASE c \notin Printable
  <2>1. Seen(<<c>> \o w) = <<>> \o v
    BY <1>2, <1>3, <1>6, SeenOne
  <2>2. <<>> \o v = v
    BY <1>4, PrintConcat
  <2> QED  BY <1>3, <2>1, <2>2
<1> QED  BY <1>5, <1>6

LEMMA WithinTogether ==
  ASSUME NEW x \in Seq(Printable), NEW y \in Seq(Printable), NEW v \in Seq(Printable),
         NEW t, Within(x \o (y \o v), t)
  PROVE  Within((x \o y) \o v, t)
<1>1. (x \o y) \o v = x \o (y \o v)
  BY PrintAssociative
<1> QED  BY <1>1

(* A character arrives and is echoed.                                      *)
LEMMA FollowsArrived ==
  ASSUME NEW p \in Seq(OnTheWire), NEW c \in OnTheWire, NEW w \in Seq(OnTheWire), NEW n \in Nat,
         NEW t \in Seq(Printable), NEW z \in Seq(Printable),
         Follows(Seen(p), Seen(<<c>> \o w), n, t, z)
  PROVE  Follows(Seen(Append(p, c)), Seen(w), n + Num(<<c>>), t, z)
<1>1. <<c>> \in Seq(OnTheWire) /\ Append(p, c) = p \o <<c>>
  OBVIOUS
<1>2. PICK x, y, v : x = Seen(p) /\ y = Seen(<<c>>) /\ v = Seen(w)
  OBVIOUS
<1>3. x \in Seq(Printable) /\ y \in Seq(Printable) /\ v \in Seq(Printable)
  BY <1>1, <1>2, SeenType
<1>4. Seen(<<c>> \o w) = y \o v /\ Seen(Append(p, c)) = x \o y
  BY <1>1, <1>2, SeenConcat
<1>5. Within(x \o (y \o v), t) /\ Len(t) + n <= Len(x) + Len(z) /\ Len(z) <= Len(t)
  BY <1>2, <1>4 DEF Follows
<1>6. Len(x \o y) = Len(x) + Len(y) /\ Num(<<c>>) = Len(y)
  BY <1>2, <1>3, PrintConcat DEF Num
<1>7. Len(x) \in Nat /\ Len(y) \in Nat /\ Len(t) \in Nat /\ Len(z) \in Nat
  BY <1>3
<1>8. Len(t) + (n + Len(y)) <= (Len(x) + Len(y)) + Len(z)
  BY ONLY <1>5, <1>7, n \in Nat
<1>9. Within((x \o y) \o v, t)
  BY ONLY <1>3, <1>5, WithinTogether
<1> QED  BY <1>2, <1>4, <1>5, <1>6, <1>8, <1>9 DEF Follows

(* More of the line is sent when what was sent before is there.            *)
LEMMA FollowsMore ==
  ASSUME NEW x \in Seq(Printable), NEW w \in Seq(Printable), NEW n \in Nat,
         NEW t \in Seq(Printable), NEW u \in Seq(Printable), Follows(x, w, n, t, <<>>)
  PROVE  Follows(x, w \o u, 0, t \o u, u)
<1>1. w = <<>> /\ x = t
  BY FollowsDone
<1>2. w \o u = u
  BY <1>1, PrintConcat
<1>3. t \o u \in Seq(Printable) /\ Len(t \o u) = Len(t) + Len(u) /\ Len(t) \in Nat /\ Len(u) \in Nat
  BY PrintConcat
<1>4. Within(t \o u, t \o u)
  BY <1>3, WithinSame
<1>5. Len(t \o u) + 0 <= Len(t) + Len(u) /\ Len(u) <= Len(t \o u)
  BY <1>3
<1> QED  BY <1>1, <1>2, <1>4, <1>5 DEF Follows

(* What Sent says of each step of the line.                                *)
LEMMA SentFewer ==
  ASSUME NEW p \in Seq(OnTheWire), NEW w, NEW d, NEW n \in Nat, NEW m \in Nat,
         NEW t \in Seq(Printable), NEW z \in Seq(Printable), Sent(p, w, d, n, t, z), m <= n
  PROVE  Sent(p, w, d, m, t, z)
<1>1. Seen(p) \in Seq(Printable) /\ <<>> \in Seq(Printable)
  BY SeenType
<1>2. CASE Follows(Seen(p), Seen(w), n, t, z) /\ NoKill(w)
  <2>1. Follows(Seen(p), Seen(w), m, t, z)
    BY <1>1, <1>2, FollowsFewer
  <2> QED  BY <1>2, <2>1 DEF Sent
<1>3. CASE Follows(<<>>, Seen(w), n, t, z) /\ (KillFirst(w) \/ d)
  <2>1. Follows(<<>>, Seen(w), m, t, z)
    BY <1>1, <1>3, FollowsFewer
  <2> QED  BY <1>3, <2>1 DEF Sent
<1> QED  BY <1>2, <1>3 DEF Sent

LEMMA SentHeard ==
  ASSUME NEW p \in Seq(OnTheWire), NEW w, NEW d, NEW n \in Nat, NEW m \in Nat,
         NEW t \in Seq(Printable), NEW z \in Seq(Printable), Sent(p, w, d, n, t, z),
         z # <<>>, m + 1 <= n
  PROVE  Sent(p, w, d, m, t, Tail(z)) /\ Tail(z) \in Seq(Printable)
<1>1. Seen(p) \in Seq(Printable) /\ <<>> \in Seq(Printable)
  BY SeenType
<1>2. CASE Follows(Seen(p), Seen(w), n, t, z) /\ NoKill(w)
  <2>1. Follows(Seen(p), Seen(w), m, t, Tail(z)) /\ Tail(z) \in Seq(Printable)
    BY <1>1, <1>2, FollowsHeard
  <2> QED  BY <1>2, <2>1 DEF Sent
<1>3. CASE Follows(<<>>, Seen(w), n, t, z) /\ (KillFirst(w) \/ d)
  <2>1. Follows(<<>>, Seen(w), m, t, Tail(z)) /\ Tail(z) \in Seq(Printable)
    BY <1>1, <1>3, FollowsHeard
  <2> QED  BY <1>3, <2>1 DEF Sent
<1> QED  BY <1>2, <1>3 DEF Sent

LEMMA SentDead ==
  ASSUME NEW p, NEW w, NEW d, NEW e, NEW n, NEW t, NEW z, Sent(p, w, d, n, t, z), d => e
  PROVE  Sent(p, w, e, n, t, z)
  BY DEF Sent

(* The first of a wire and the rest.                                       *)
LEMMA WireRest ==
  ASSUME NEW c \in OnTheWire, NEW w \in Seq(OnTheWire)
  PROVE  /\ <<c>> \o w \in Seq(OnTheWire) /\ <<c>> \o w # <<>>
         /\ Len(<<c>> \o w) = 1 + Len(w) /\ (<<c>> \o w)[1] = c
         /\ \A i \in 1..Len(w) : (<<c>> \o w)[1 + i] = w[i]
         /\ w # <<>> => LastOf(<<c>> \o w) = LastOf(w)
<1>1. PICK v : v = <<c>> \o w
  OBVIOUS
<1>2. PICK k \in Nat : k = Len(w)
  OBVIOUS
<1>3. /\ v \in Seq(OnTheWire) /\ Len(v) = 1 + k /\ v[1] = c
      /\ \A i \in 1..k : v[1 + i] = w[i]
  BY <1>1, <1>2
<1>4. v # <<>>
  BY <1>3, EmptySeq
<1>5. w # <<>> => v[Len(v)] = w[k]
  <2>1. w # <<>> => k \in 1..k
    BY <1>2, EmptySeq
  <2> QED  BY <1>3, <2>1
<1> QED  BY <1>1, <1>2, <1>3, <1>4, <1>5 DEF LastOf

LEMMA WireOKRest ==
  ASSUME NEW c \in OnTheWire, NEW w \in Seq(OnTheWire), NEW z, NEW o, WireOK(<<c>> \o w, z, o)
  PROVE  /\ WireOK(w, z, o) /\ NoKill(w)
         /\ c \in Printable \cup {"tab", "kill", "cr", "eof"}
         /\ c \in {"cr", "eof"} => w = <<>>
         /\ c = "eof" => o = "complete"
         /\ c = "cr" => z = <<"cr">>
<1>1. PICK v : v = <<c>> \o w
  OBVIOUS
<1>2. /\ Len(v) = 1 + Len(w) /\ v[1] = c /\ Len(w) \in Nat
      /\ \A i \in 1..Len(w) : v[1 + i] = w[i]
  BY <1>1, WireRest
<1>3. WireOK(v, z, o)
  BY <1>1
<1>4. \A i \in 1..Len(w) : 1 + i \in 1..Len(v) /\ 1 + i # 1 /\ (1 + i = Len(v) <=> i = Len(w))
  BY <1>2
<1>5. ASSUME NEW i \in 1..Len(w)
      PROVE  /\ w[i] \in Printable \cup {"tab", "kill", "cr", "eof"}
             /\ w[i] # "kill"
             /\ w[i] \in {"cr", "eof"} => i = Len(w)
             /\ w[i] = "eof" => o = "complete"
             /\ w[i] = "cr" => z = <<"cr">>
  BY <1>2, <1>3, <1>4 DEF WireOK
<1>6. 1 \in 1..Len(v)
  BY <1>2
<1>7. /\ c \in Printable \cup {"tab", "kill", "cr", "eof"}
      /\ c \in {"cr", "eof"} => 1 = Len(v)
      /\ c = "eof" => o = "complete"
      /\ c = "cr" => z = <<"cr">>
  BY <1>2, <1>3, <1>6 DEF WireOK
<1>8. 1 = Len(v) => w = <<>>
  BY <1>2, EmptySeq
<1> QED  BY <1>5, <1>7, <1>8 DEF WireOK, NoKill

LEMMA SentLost ==
  ASSUME NEW p \in Seq(OnTheWire), NEW c \in OnTheWire, NEW w \in Seq(OnTheWire),
         NEW d, NEW n \in Nat, NEW t \in Seq(Printable), NEW z \in Seq(Printable),
         Sent(p, <<c>> \o w, d, n, t, z), c = "kill" => d
  PROVE  Sent(p, w, d, n, t, z)
<1>1. PICK v : v = <<c>> \o w
  OBVIOUS
<1>2. /\ Len(v) = 1 + Len(w) /\ v[1] = c /\ Len(w) \in Nat
      /\ \A i \in 1..Len(w) : v[1 + i] = w[i]
  BY <1>1, WireRest
<1>3. NoKill(v) => NoKill(w)
  <2>1. \A i \in 1..Len(w) : 1 + i \in 1..Len(v)
    BY <1>2
  <2> QED  BY <1>2, <2>1 DEF NoKill
<1>4. KillFirst(v) => c = "kill"
  BY <1>2 DEF KillFirst
<1>5. Sent(p, v, d, n, t, z)
  BY <1>1
<1>6. CASE Follows(Seen(p), Seen(v), n, t, z) /\ NoKill(v)
  <2>0. Seen(p) \in Seq(Printable)
    BY SeenType
  <2>1. Follows(Seen(p), Seen(w), n, t, z)
    BY <1>1, <1>6, <2>0, FollowsLost
  <2> QED  BY <1>3, <1>6, <2>1 DEF Sent
<1>7. CASE Follows(<<>>, Seen(v), n, t, z) /\ (KillFirst(v) \/ d)
  <2>0. <<>> \in Seq(Printable)
    OBVIOUS
  <2>1. Follows(<<>>, Seen(w), n, t, z)
    BY <1>1, <1>7, <2>0, FollowsLost
  <2>2. d
    BY <1>4, <1>7
  <2> QED  BY <2>1, <2>2 DEF Sent
<1> QED  BY <1>5, <1>6, <1>7 DEF Sent

LEMMA SentArrived ==
  ASSUME NEW p \in Seq(OnTheWire), NEW c \in OnTheWire, NEW w \in Seq(OnTheWire),
         NEW d, ~d, c # "kill", NEW n \in Nat, NEW t \in Seq(Printable),
         NEW z \in Seq(Printable), Sent(p, <<c>> \o w, d, n, t, z), NoKill(w)
  PROVE  /\ Sent(Append(p, c), w, d, n + Num(<<c>>), t, z)
         /\ Follows(Seen(p), Seen(<<c>> \o w), n, t, z)
<1>1. ~KillFirst(<<c>> \o w)
  BY WireRest DEF KillFirst
<1>2. Follows(Seen(p), Seen(<<c>> \o w), n, t, z)
  BY <1>1 DEF Sent
<1>3. Follows(Seen(Append(p, c)), Seen(w), n + Num(<<c>>), t, z)
  BY <1>2, FollowsArrived
<1> QED  BY <1>2, <1>3 DEF Sent

LEMMA SentKilled ==
  ASSUME NEW p \in Seq(OnTheWire), NEW w \in Seq(OnTheWire),
         NEW d, ~d, NEW n \in Nat, NEW t \in Seq(Printable),
         NEW z \in Seq(Printable), Sent(p, <<"kill">> \o w, d, n, t, z), NoKill(w)
  PROVE  Sent(<<>>, w, d, n, t, z) /\ n = 0 /\ Len(z) = Len(t)
<1>1. "kill" \in OnTheWire
  BY OnTheWireHas
<1>2. PICK v : v = <<"kill">> \o w
  OBVIOUS
<1>3. v[1] = "kill" /\ 1 \in 1..Len(v)
  <2>1. Len(v) = 1 + Len(w) /\ v[1] = "kill" /\ Len(w) \in Nat
    BY <1>1, <1>2, WireRest
  <2> QED  BY <2>1
<1>4. Follows(<<>>, Seen(v), n, t, z)
  <2>1. ~NoKill(v)
    BY <1>3 DEF NoKill
  <2> QED  BY <1>2, <2>1 DEF Sent
<1>5. <<>> \in Seq(Printable) /\ Len(<<>>) = 0
  OBVIOUS
<1>6. Follows(<<>>, Seen(w), n, t, z)
  BY <1>1, <1>2, <1>4, <1>5, FollowsLost
<1>7. n = 0 /\ Len(z) = Len(t)
  <2>1. Len(t) \in Nat /\ Len(z) \in Nat
    OBVIOUS
  <2> QED  BY <1>5, <1>6, <2>1 DEF Follows
<1> QED  BY <1>6, <1>7, SeenNone DEF Sent

(* When no echo is left to look for, nothing that shows is on the wire; and *)
(* the remote side has the line, unless a kill is under way to an empty one. *)
LEMMA SentDone ==
  ASSUME NEW p \in Seq(OnTheWire), NEW w \in Seq(OnTheWire), NEW d, NEW n \in Nat,
         NEW t \in Seq(Printable), Sent(p, w, d, n, t, <<>>)
  PROVE  /\ Seen(w) = <<>> /\ n = 0
         /\ \/ Seen(p) = t /\ NoKill(w)
            \/ t = <<>> /\ (KillFirst(w) \/ d)
<1>1. Seen(p) \in Seq(Printable) /\ <<>> \in Seq(Printable) /\ Seen(w) \in Seq(Printable)
  BY SeenType
<1>2. CASE Follows(Seen(p), Seen(w), n, t, <<>>) /\ NoKill(w)
  BY <1>1, <1>2, FollowsDone
<1>3. CASE Follows(<<>>, Seen(w), n, t, <<>>) /\ (KillFirst(w) \/ d)
  <2>1. Seen(w) = <<>> /\ n = 0 /\ <<>> = t
    BY <1>1, <1>3, FollowsDone
  <2> QED  BY <1>3, <2>1
<1> QED  BY <1>2, <1>3 DEF Sent

LEMMA SentMore ==
  ASSUME NEW p \in Seq(OnTheWire), NEW w \in Seq(OnTheWire), NEW d, NEW n \in Nat,
         NEW t \in Seq(Printable), Sent(p, w, d, n, t, <<>>),
         NEW c \in Seq(OnTheWire), NoKill(c)
  PROVE  Sent(p, w \o c, d, 0, t \o Seen(c), Seen(c))
<1>1. /\ Seen(p) \in Seq(Printable) /\ <<>> \in Seq(Printable)
      /\ Seen(w) \in Seq(Printable) /\ Seen(c) \in Seq(Printable)
  BY SeenType
<1>2. Seen(w \o c) = Seen(w) \o Seen(c)
  BY SeenConcat
<1>3. PICK v : v = w \o c
  OBVIOUS
<1>4. PICK k \in Nat, l \in Nat : k = Len(w) /\ l = Len(c)
  OBVIOUS
<1>5. /\ Len(v) = k + l /\ \A i \in 1..k : v[i] = w[i]
      /\ \A i \in 1..l : v[k + i] = c[i]
  BY <1>3, <1>4
<1>6. NoKill(w) => NoKill(v)
  <2> SUFFICES ASSUME NoKill(w), NEW i \in 1..k + l  PROVE v[i] # "kill"
    BY <1>5 DEF NoKill
  <2>1. CASE i <= k
    BY <1>4, <1>5, <2>1 DEF NoKill
  <2>2. CASE i > k
    <3>1. i - k \in 1..l /\ i = k + (i - k)
      BY <2>2
    <3>2. PICK j \in 1..l : i = k + j
      BY <3>1, Zenon
    <3> QED  BY <1>4, <1>5, <3>2 DEF NoKill
  <2> QED  BY <2>1, <2>2
<1>7. KillFirst(w) => KillFirst(v)
  <2> SUFFICES ASSUME w # <<>>, w[1] = "kill"  PROVE v # <<>> /\ v[1] = "kill"
    BY DEF KillFirst
  <2>1. k # 0
    BY <1>4, EmptySeq
  <2>2. 1 \in 1..k /\ Len(v) # 0
    BY <1>5, <2>1
  <2>3. v # <<>>
    BY <2>2
  <2> QED  BY <1>5, <2>2, <2>3
<1>8. CASE Follows(Seen(p), Seen(w), n, t, <<>>) /\ NoKill(w)
  <2>1. Follows(Seen(p), Seen(w) \o Seen(c), 0, t \o Seen(c), Seen(c))
    BY <1>1, <1>8, FollowsMore
  <2> QED  BY <1>2, <1>3, <1>6, <1>8, <2>1 DEF Sent
<1>9. CASE Follows(<<>>, Seen(w), n, t, <<>>) /\ (KillFirst(w) \/ d)
  <2>1. Follows(<<>>, Seen(w) \o Seen(c), 0, t \o Seen(c), Seen(c))
    BY <1>1, <1>9, FollowsMore
  <2> QED  BY <1>2, <1>3, <1>7, <1>9, <2>1 DEF Sent
<1> QED  BY <1>8, <1>9 DEF Sent

-----------------------------------------------------------------------------
(* What is sent of a checked line *)

Showing == Printable \cup {"tab"}

LEMMA PlainCoded ==
  ASSUME cuvar \in Settings, ~cuvar.fCuvar_binary
  PROVE  \A a \in Seq(Plain) :
           /\ Seen(Coded(a)) = Seen(a)
           /\ \A i \in 1..Len(Coded(a)) : Coded(a)[i] \in Showing
<1> DEFINE Good(a) == /\ Seen(Coded(a)) = Seen(a)
                      /\ \A i \in 1..Len(Coded(a)) : Coded(a)[i] \in Showing
<1> DEFINE T == {a \in Seq(Plain) : Good(a)}
<1>1. <<>> \in T
  <2>1. Coded(<<>>) = <<>> /\ <<>> \in Seq(Plain) /\ Len(<<>>) = 0
    BY FlattenedNone DEF Coded
  <2>2. \A i \in 1..0 : <<>>[i] \in Showing
    OBVIOUS
  <2> QED  BY <2>1, <2>2
<1>2. ASSUME NEW a \in T, NEW c \in Plain
      PROVE  Append(a, c) \in T
  <2>1. PICK b : b = Append(a, c)
    OBVIOUS
  <2>2. a \in Seq(Plain) /\ Good(a)
    OBVIOUS
  <2>3. b \in Seq(Plain)
    BY <2>1, <2>2, AppendProperties
  <2>4. /\ a \in Seq(Characters) /\ c \in Characters /\ c # "nl" /\ c \in OnTheWire
        /\ a \in Seq(OnTheWire)
    BY <2>2, KeptIs, SubType, OnTheWireHas, PrintableSent DEF Plain
  <2>5. PICK s, u : s = Coded(a) /\ u = Translate(c)
    OBVIOUS
  <2>6. Coded(b) = s \o u
    <3>1. Flattened(Coder, Append(a, c)) = Flattened(Coder, a) \o Coder[c]
      <4>1. Coder \in [Characters -> Seq(OnTheWire)]
        BY CoderType
      <4>2. a \in Seq(Characters) /\ c \in Characters
        BY <2>4
      <4> QED  BY ONLY <4>1, <4>2, FlattenedAppend
    <3>2. Coder[c] = Translate(c)
      BY <2>4 DEF Coder
    <3> QED  BY <2>1, <2>5, <3>1, <3>2 DEF Coded
  <2>7. Seen(b) = Seen(a) \o Shower[c]
    BY <2>1, <2>4, ShowerType, FlattenedAppend DEF Seen
  <2>8. s \in Seq(OnTheWire) /\ u \in Seq(OnTheWire)
    BY <2>4, <2>5, CodedType, TranslateType
  <2>9. Seen(u) = Shower[c] /\ \A i \in 1..Len(u) : u[i] \in Showing
    <3>1. CASE c \in Showing
      <4>1. u = <<c>>
        BY <2>4, <2>5, <3>1, TranslateType DEF Showing
      <4>2. Seen(<<c>>) = Shower[c]
        BY <2>4, ShowerType, FlattenedOne DEF Seen
      <4>3. Len(<<c>>) = 1 /\ <<c>>[1] = c
        OBVIOUS
      <4> QED  BY <3>1, <4>1, <4>2, <4>3
    <3>2. CASE c \notin Showing
      <4>1. c = "ctl"
        BY <2>4, <3>2 DEF Showing, Characters
      <4>2. u = <<>>
        BY <2>4, <2>5, <4>1, TranslateType
      <4>3. Shower[c] = <<>>
        BY <2>4, <3>2 DEF Shower, Showing
      <4>4. Len(<<>>) = 0
        OBVIOUS
      <4> QED  BY <4>2, <4>3, <4>4, SeenNone
    <3> QED  BY <3>1, <3>2
  <2>10. Seen(s \o u) = Seen(b)
    BY <2>2, <2>5, <2>7, <2>8, <2>9, SeenConcat
  <2>11. ASSUME NEW i \in 1..Len(s \o u)
         PROVE  (s \o u)[i] \in Showing
    <3>1. /\ Len(s \o u) = Len(s) + Len(u) /\ Len(s) \in Nat /\ Len(u) \in Nat
          /\ (s \o u)[i] = IF i <= Len(s) THEN s[i] ELSE u[i - Len(s)]
      BY <2>8, ConcatProperties
    <3>2. \A j \in 1..Len(s) : s[j] \in Showing
      BY <2>2, <2>5
    <3> HIDE DEF T, Good
    <3>3. CASE i <= Len(s)
      BY <3>1, <3>2, <3>3
    <3>4. CASE ~(i <= Len(s))
      <4>1. i - Len(s) \in 1..Len(u)
        BY <3>1, <3>4
      <4> QED  BY <2>9, <3>1, <3>4, <4>1
    <3> QED  BY <3>3, <3>4
  <2>12. Good(b)
    BY <2>6, <2>10, <2>11
  <2> QED  BY <2>1, <2>3, <2>12
<1>3. T \subseteq Seq(Plain)
  OBVIOUS
<1>4. \A a \in T : Good(a)
  OBVIOUS
<1> HIDE DEF T
<1>5. \A a \in Seq(Plain) : a \in T
  BY <1>1, <1>2, <1>3, SeqInduction
<1> QED  BY <1>4, <1>5

LEMMA CodedPlain ==
  ASSUME cuvar \in Settings, Checked, NEW a \in Seq(Plain)
  PROVE  /\ Coded(a) \in Seq(OnTheWire) /\ Seen(Coded(a)) = Seen(a)
         /\ Awaited(Coded(a)) = Seen(a)
         /\ \A i \in 1..Len(Coded(a)) : Coded(a)[i] \in Showing
<1>1. ~cuvar.fCuvar_binary /\ cuvar.fCuvar_echocheck
  BY DEF Checked
<1>2. PICK s : s = Coded(a)
  OBVIOUS
<1>3. Seen(s) = Seen(a) /\ \A i \in 1..Len(s) : s[i] \in Showing
  BY <1>1, <1>2, PlainCoded
<1>4. s \in Seq(OnTheWire)
  BY <1>2, KeptIs, SubType, CodedType
<1>5. ASSUME NEW i \in DOMAIN s
      PROVE  Looker[s[i]] = Shower[s[i]]
  <2>1. i \in 1..Len(s) /\ s[i] \in OnTheWire
    BY <1>4
  <2>2. s[i] # "cr"
    BY <1>3, <2>1, NotPrintable DEF Showing
  <2>3. LooksFor(s[i]) <=> s[i] \in Printable
    BY <1>1, <2>2 DEF LooksFor, Newline
  <2> QED  BY <2>1, <2>3 DEF Looker, Shower
<1>6. Awaited(s) = Seen(s)
  BY <1>5, FlattenedSame DEF Awaited, Seen
<1> QED  BY <1>2, <1>3, <1>4, <1>6

LEMMA CodedEnd ==
  ASSUME cuvar \in Settings, Checked
  PROVE  Coded(<<"nl">>) = <<"cr">> /\ Awaited(<<"cr">>) = <<"cr">> /\ Seen(<<"cr">>) = <<>>
<1>1. ~cuvar.fCuvar_binary /\ cuvar.zCuvar_echonl # "none"
  BY DEF Checked
<1>2. "nl" \in Characters /\ "cr" \in OnTheWire /\ Newline = "cr"
  BY <1>1, OnTheWireHas DEF Newline
<1>3. Coded(<<"nl">>) = Coder["nl"]
  BY <1>2, CoderType, FlattenedOne DEF Coded
<1>4. Coder["nl"] = <<"cr">>
  BY <1>2, TranslateType DEF Coder
<1>5. Awaited(<<"cr">>) = Looker["cr"]
  BY <1>2, LookerType, FlattenedOne DEF Awaited
<1>6. Looker["cr"] = <<"cr">>
  BY <1>1, <1>2 DEF Looker, LooksFor
<1>7. "cr" \notin Printable
  BY NotPrintable
<1> QED  BY <1>2, <1>3, <1>4, <1>5, <1>6, <1>7, SeenOne

-----------------------------------------------------------------------------
(* The lines that have arrived *)

LEMMA HasWeaker ==
  ASSUME NEW f, NEW k, NEW L, NEW o, NEW u, u => o
  PROVE  /\ Has(f, k, L, o) => Has(f, k, L, u)
         /\ Behind(f, k, L, o) => Behind(f, k, L, u)
<1>1. \A j : Has(f, j, L, o) => Has(f, j, L, u)
  BY DEF Has
<1> HIDE DEF Has
<1> QED  BY <1>1 DEF Behind

(* How the lines are those of the file.                                    *)
Matches(f, k, L, m) ==
  /\ m \in [1..Len(L) -> 1..Len(f)]
  /\ \A i \in 1..Len(L) : /\ Seen(L[i]) = Seen(f[m[i]])
                          /\ IF i = 1 THEN m[i] = 1
                             ELSE m[i] - m[i - 1] \in {0, 1}
  /\ IF L = <<>> THEN k = 0 ELSE m[Len(L)] = k

LEMMA HasIs ==
  ASSUME NEW f, NEW k, NEW L, NEW o
  PROVE  Has(f, k, L, o) <=>
           /\ \E m : Matches(f, k, L, m)
           /\ o => Len(L) = k /\ \A i \in 1..k : Seen(L[i]) = Seen(f[i])
  BY DEF Has, Matches

(* Another line of the file, or the same again.                            *)
LEMMA MatchesNext ==
  ASSUME NEW f \in Seq(Seq(Characters)), NEW L \in Seq(Seq(OnTheWire)), NEW j \in Nat,
         NEW m, Matches(f, j, L, m), NEW k \in 1..Len(f), k = j \/ k = j + 1,
         NEW l \in Seq(OnTheWire), Seen(l) = Seen(f[k])
  PROVE  \E h : Matches(f, k, Append(L, l), h)
<1>1. PICK n \in Nat : n = Len(L)
  OBVIOUS
<1>2. PICK N : N = Append(L, l)
  OBVIOUS
<1>3. /\ Len(N) = n + 1 /\ N[n + 1] = l /\ N # <<>>
      /\ \A i \in 1..n : N[i] = L[i]
  <2>1. Len(N) = n + 1 /\ N[n + 1] = l /\ \A i \in 1..n : N[i] = L[i]
    BY <1>1, <1>2, AppendProperties
  <2>2. n + 1 # 0 /\ Len(<<>>) = 0
    OBVIOUS
  <2> QED  BY <2>1, <2>2
<1>4. /\ m \in [1..n -> 1..Len(f)]
      /\ \A i \in 1..n : /\ Seen(L[i]) = Seen(f[m[i]])
                         /\ IF i = 1 THEN m[i] = 1 ELSE m[i] - m[i - 1] \in {0, 1}
      /\ IF n = 0 THEN j = 0 ELSE m[n] = j
  <2>1. L = <<>> <=> n = 0
    BY <1>1, EmptySeq
  <2> QED  BY <1>1, <2>1 DEF Matches
<1>5. PICK h : h = [i \in 1..n + 1 |-> IF i <= n THEN m[i] ELSE k]
  OBVIOUS
<1>6. h[n + 1] = k /\ \A i \in 1..n : h[i] = m[i] /\ m[i] \in 1..Len(f)
  <2>1. n + 1 \in 1..n + 1 /\ ~(n + 1 <= n) /\ \A i \in 1..n : i \in 1..n + 1 /\ i <= n
    OBVIOUS
  <2>2. h[n + 1] = k /\ \A i \in 1..n : h[i] = m[i]
    BY <1>5, <2>1
  <2> QED  BY <1>4, <2>2
<1>7. h \in [1..n + 1 -> 1..Len(f)]
  <2>1. \A i \in 1..n + 1 : (IF i <= n THEN m[i] ELSE k) \in 1..Len(f)
    BY <1>4
  <2> QED  BY <1>5, <2>1
<1>8. ASSUME NEW i \in 1..n + 1
      PROVE  /\ Seen(N[i]) = Seen(f[h[i]])
             /\ IF i = 1 THEN h[i] = 1 ELSE h[i] - h[i - 1] \in {0, 1}
  <2>1. CASE i \in 1..n
    <3>1. i # 1 => i - 1 \in 1..n
      BY <2>1
    <3>2. h[i] = m[i] /\ N[i] = L[i] /\ (i # 1 => h[i - 1] = m[i - 1])
      BY <1>3, <1>6, <2>1, <3>1
    <3> QED  BY <1>4, <2>1, <3>2
  <2>2. CASE i = n + 1
    <3>1. h[i] = k /\ N[i] = l
      BY <1>3, <1>6, <2>2
    <3>2. CASE n = 0
      <4>1. j = 0 /\ i = 1 /\ k = 1
        BY <1>4, <2>2, <3>2
      <4> QED  BY <3>1, <4>1
    <3>3. CASE n # 0
      <4>1. i # 1 /\ i - 1 = n /\ n \in 1..n
        BY <2>2, <3>3
      <4>2. h[i - 1] = j
        BY <1>4, <1>6, <3>3, <4>1
      <4>3. k - j \in {0, 1}
        OBVIOUS
      <4> QED  BY <3>1, <4>1, <4>2, <4>3
    <3> QED  BY <3>2, <3>3
  <2> QED  BY <2>1, <2>2
<1>9. Matches(f, k, N, h)
  BY <1>3, <1>6, <1>7, <1>8 DEF Matches
<1> QED  BY <1>2, <1>9

LEMMA HandedNext ==
  ASSUME NEW f \in Seq(Seq(Characters)), NEW L \in Seq(Seq(OnTheWire)), NEW o,
         NEW k \in 1..Len(f), Behind(f, k, L, o),
         NEW l \in Seq(OnTheWire), Seen(l) = Seen(f[k])
  PROVE  Has(f, k, Append(L, l), o)
<1>1. PICK N : N = Append(L, l)
  OBVIOUS
<1>2. PICK n \in Nat : n = Len(L)
  OBVIOUS
<1>3. Len(N) = n + 1 /\ N[n + 1] = l /\ \A i \in 1..n : N[i] = L[i]
  BY <1>1, <1>2, AppendProperties
<1>4. k - 1 \in Nat /\ k \in Nat /\ k = (k - 1) + 1
  OBVIOUS
<1>5. CASE Has(f, k - 1, L, o)
  <2>1. PICK m : Matches(f, k - 1, L, m)
    BY <1>5, HasIs
  <2>2. \E h : Matches(f, k, N, h)
    BY <1>1, <1>4, <2>1, MatchesNext
  <2>3. ASSUME o
        PROVE  Len(N) = k /\ \A i \in 1..k : Seen(N[i]) = Seen(f[i])
    <3>1. n = k - 1 /\ \A i \in 1..n : Seen(L[i]) = Seen(f[i])
      BY <1>2, <1>5, <2>3, HasIs
    <3>2. ASSUME NEW i \in 1..k
          PROVE  Seen(N[i]) = Seen(f[i])
      <4>1. CASE i = k
        BY <1>3, <1>4, <3>1, <4>1
      <4>2. CASE i # k
        <5>1. i \in 1..n
          BY <1>4, <3>1, <4>2
        <5> QED  BY <1>3, <3>1, <5>1
      <4> QED  BY <4>1, <4>2
    <3> QED  BY <1>3, <1>4, <3>1, <3>2
  <2> QED  BY <1>1, <2>2, <2>3, HasIs
<1>6. CASE ~o /\ Has(f, k, L, o)
  <2>1. PICK m : Matches(f, k, L, m)
    BY <1>6, HasIs
  <2>2. \E h : Matches(f, k, N, h)
    BY <1>1, <1>4, <2>1, MatchesNext
  <2> QED  BY <1>1, <1>6, <2>2, HasIs
<1> QED  BY <1>5, <1>6 DEF Behind

-----------------------------------------------------------------------------
(* What becomes of a line, step by step *)

(* What of a line was sent so far and still is to be seen.                 *)
LineUpTo(gone, f, k, b, z, s, w, p, d) ==
  /\ gone \in Seq(Characters)
  /\ k >= 1 /\ gone \o b = f[k] /\ ~Finished(f, k, b)
  /\ z \in Seq(Printable)
  /\ Sent(p, w, d, Num(s), Seen(gone), z)
  /\ Known(s, Seen(gone), z)

LEMMA InLineIs ==
  ASSUME NEW f, NEW k, NEW b, NEW z, NEW s, NEW w, NEW p, NEW d
  PROVE  InLine(f, k, b, z, s, w, p, d) <=>
           \E gone : LineUpTo(gone, f, k, b, z, s, w, p, d)
  BY DEF InLine, LineUpTo

LEMMA GoneType ==
  ASSUME NEW gone \in Seq(Characters)
  PROVE  /\ Seen(gone) \in Seq(Printable) /\ gone \in Seq(OnTheWire)
         /\ Num(gone) = Len(Seen(gone)) /\ Num(gone) \in Nat
  BY PrintableSent, SeenType

(* Fewer echoes, or the line dead.                                         *)
LEMMA InLineFewer ==
  ASSUME NEW f, NEW k, NEW b, NEW z, NEW s \in Seq(OnTheWire), NEW w,
         NEW p \in Seq(OnTheWire), NEW d, InLine(f, k, b, z, s, w, p, d),
         NEW u, Fewer(u, s), NEW e, d => e
  PROVE  InLine(f, k, b, z, u, w, p, e)
<1>1. PICK gone : LineUpTo(gone, f, k, b, z, s, w, p, d)
  BY InLineIs
<1>2. PICK t : t = Seen(gone)
  OBVIOUS
<1>3. t \in Seq(Printable) /\ z \in Seq(Printable) /\ Sent(p, w, d, Num(s), t, z) /\ Known(s, t, z)
  BY <1>1, <1>2, GoneType DEF LineUpTo
<1>4. Num(s) \in Nat /\ Num(u) \in Nat /\ Num(u) <= Num(s)
  BY SeenType DEF Fewer
<1>5. Sent(p, w, d, Num(u), t, z)
  BY <1>3, <1>4, SentFewer
<1>6. Sent(p, w, e, Num(u), t, z)
  BY <1>5, SentDead
<1>7. Known(u, t, z)
  BY <1>3, FewerKnown
<1>8. LineUpTo(gone, f, k, b, z, u, w, p, e)
  BY <1>1, <1>2, <1>6, <1>7 DEF LineUpTo
<1> QED  BY <1>8, InLineIs

LEMMA NumFewer ==
  ASSUME NEW s \in Seq(OnTheWire), NEW u, Fewer(u, s)
  PROVE  /\ Num(s) = 0 => Num(u) = 0
         /\ NoCr(s) => NoCr(u)
         /\ OneCr(s) => OneCr(u)
<1>1. Num(s) \in Nat /\ Num(u) \in Nat /\ Num(u) <= Num(s) /\ Within(u, s)
  BY SeenType DEF Fewer
<1> QED  BY <1>1, WithinKeeps

LEMMA EndFewer ==
  ASSUME NEW f, NEW k, NEW b, NEW z, NEW s \in Seq(OnTheWire), NEW w,
         NEW p, NEW d, NEW u, Fewer(u, s), NEW e, d => e, NEW o, NEW v,
         v => o /\ (NoCr(u) => NoCr(s))
  PROVE  /\ EndOnWay(f, k, b, z, s, w, p, d) => EndOnWay(f, k, b, z, u, w, p, e)
         /\ EndLost(f, k, b, z, s, w) => EndLost(f, k, b, z, u, w)
         /\ EndArrived(f, k, b, z, s, w, p, o) => EndArrived(f, k, b, z, u, w, p, v)
<1>1. (Num(s) = 0 => Num(u) = 0) /\ (NoCr(s) => NoCr(u)) /\ (OneCr(s) => OneCr(u))
  BY NumFewer
<1>2. EndSent(f, k, b, z, s) => EndSent(f, k, b, z, u)
  BY <1>1 DEF EndSent
<1>3. Sent(p, w, d, 0, Seen(f[k]), <<>>) => Sent(p, w, e, 0, Seen(f[k]), <<>>)
  BY SentDead
<1>4. EndOnWay(f, k, b, z, s, w, p, d) => EndOnWay(f, k, b, z, u, w, p, e)
  BY <1>1, <1>2, <1>3 DEF EndOnWay
<1>5. EndLost(f, k, b, z, s, w) => EndLost(f, k, b, z, u, w)
  BY <1>1, <1>2 DEF EndLost
<1>6. EndArrived(f, k, b, z, s, w, p, o) => EndArrived(f, k, b, z, u, w, p, v)
  BY <1>1, <1>2 DEF EndArrived
<1> QED  BY <1>4, <1>5, <1>6

LEMMA BetweenFewer ==
  ASSUME NEW f, NEW k, NEW b, NEW z, NEW s \in Seq(OnTheWire), NEW w,
         NEW p, NEW u, Fewer(u, s), Between(f, k, b, z, s, w, p)
  PROVE  Between(f, k, b, z, u, w, p)
  BY NumFewer DEF Between

(* The echo that is looked for is taken.                                   *)
LEMMA InLineHeard ==
  ASSUME NEW f, NEW k, NEW b, NEW z, NEW c \in OnTheWire, NEW q \in Seq(OnTheWire), NEW w,
         NEW p \in Seq(OnTheWire), NEW d, InLine(f, k, b, z, <<c>> \o q, w, p, d),
         z # <<>>, c = Head(z)
  PROVE  InLine(f, k, b, Tail(z), q, w, p, d)
<1>1. PICK s : s = <<c>> \o q
  OBVIOUS
<1>2. PICK gone : LineUpTo(gone, f, k, b, z, s, w, p, d)
  BY <1>1, InLineIs
<1>3. PICK t : t = Seen(gone)
  OBVIOUS
<1>4. t \in Seq(Printable) /\ z \in Seq(Printable) /\ Sent(p, w, d, Num(s), t, z) /\ Known(s, t, z)
  BY <1>2, <1>3, GoneType DEF LineUpTo
<1>5. c \in Printable
  BY <1>4, HeadTailProperties
<1>6. <<>> \in Seq(OnTheWire) /\ <<>> \o q = q /\ s \in Seq(OnTheWire) /\ <<>> \o s = s
  BY <1>1, WireRest
<1>7. Fewer(q, s) /\ Num(q) = Num(s) - 1
  <2>1. Fewer(<<>> \o q, <<>> \o (<<c>> \o q)) /\ Num(<<>> \o q) = Num(<<>> \o (<<c>> \o q)) - 1
    BY <1>5, <1>6, FewerDropped
  <2> QED  BY ONLY <1>1, <1>6, <2>1
<1>8. Num(s) \in Nat /\ Num(q) \in Nat /\ Num(q) + 1 <= Num(s)
  BY <1>6, <1>7, SeenType
<1>9. Sent(p, w, d, Num(q), t, Tail(z)) /\ Tail(z) \in Seq(Printable)
  BY <1>4, <1>8, SentHeard
<1>10. NoCr(s)
  <2>1. /\ Len(s) = 1 + Len(q) /\ s[1] = c /\ Len(q) \in Nat
        /\ \A i \in 1..Len(q) : s[1 + i] = q[i]
    BY <1>1, WireRest
  <2>2. ASSUME NEW i \in 1..Len(s), s[i] = "cr"
        PROVE  FALSE
    <3>1. i # 1
      BY <1>5, <2>1, <2>2, NotPrintable
    <3>2. 1 \in 1..Len(s) /\ 1 < i
      BY <2>1, <3>1
    <3>3. s[1] \notin Printable
      BY <1>4, <2>2, <3>2 DEF Known, Clean
    <3> QED  BY <1>5, <2>1, <3>3
  <2> QED  BY <2>2 DEF NoCr
<1>11. Known(q, t, Tail(z))
  <2>1. NoCr(q) /\ Clean(q)
    BY <1>4, <1>7, <1>10, WithinKeeps DEF Fewer, Known
  <2> QED  BY <2>1 DEF Known
<1>12. LineUpTo(gone, f, k, b, Tail(z), q, w, p, d)
  BY <1>2, <1>3, <1>9, <1>11 DEF LineUpTo
<1> QED  BY <1>12, InLineIs

(* The first character of the wire is lost.                                *)
LEMMA InLineLost ==
  ASSUME NEW f, NEW k, NEW b, NEW z, NEW s \in Seq(OnTheWire), NEW c \in OnTheWire,
         NEW w \in Seq(OnTheWire), NEW p \in Seq(OnTheWire), NEW d,
         InLine(f, k, b, z, s, <<c>> \o w, p, d), c = "kill" => d
  PROVE  InLine(f, k, b, z, s, w, p, d)
<1>0. PICK v : v = <<c>> \o w
  OBVIOUS
<1>1. PICK gone : LineUpTo(gone, f, k, b, z, s, v, p, d)
  BY <1>0, InLineIs
<1>2. PICK t : t = Seen(gone)
  OBVIOUS
<1>3. t \in Seq(Printable) /\ z \in Seq(Printable) /\ Sent(p, v, d, Num(s), t, z)
  BY <1>1, <1>2, GoneType DEF LineUpTo
<1>4. Num(s) \in Nat
  BY SeenType
<1>5. Sent(p, w, d, Num(s), t, z)
  BY <1>0, <1>3, <1>4, SentLost
<1>6. LineUpTo(gone, f, k, b, z, s, w, p, d)
  BY <1>1, <1>2, <1>5 DEF LineUpTo
<1> QED  BY <1>6, InLineIs

(* It arrives and is echoed.                                               *)
LEMMA InLineArrived ==
  ASSUME NEW f, NEW k, NEW b, NEW z, NEW s \in Seq(OnTheWire), NEW c \in Showing,
         NEW w \in Seq(OnTheWire), NEW p \in Seq(OnTheWire), NEW d, ~d, NoKill(w),
         InLine(f, k, b, z, s, <<c>> \o w, p, d)
  PROVE  InLine(f, k, b, z, s \o <<c>>, w, Append(p, c), d)
<1>0. PICK v : v = <<c>> \o w
  OBVIOUS
<1>1. PICK gone : LineUpTo(gone, f, k, b, z, s, v, p, d)
  BY <1>0, InLineIs
<1>2. PICK t : t = Seen(gone)
  OBVIOUS
<1>3. t \in Seq(Printable) /\ z \in Seq(Printable) /\ Sent(p, v, d, Num(s), t, z) /\ Known(s, t, z)
  BY <1>1, <1>2, GoneType DEF LineUpTo
<1>4. Num(s) \in Nat
  BY SeenType
<1>5. c \in OnTheWire /\ c # "kill" /\ c # "cr" /\ <<c>> \in Seq(OnTheWire)
  BY PrintableSent, NotPrintable, OnTheWireHas DEF Showing
<1>6. Sent(Append(p, c), w, d, Num(s) + Num(<<c>>), t, z)
  BY <1>0, <1>3, <1>4, <1>5, SentArrived
<1>7. Num(s \o <<c>>) = Num(s) + Num(<<c>>)
  BY <1>5, SeenConcat
<1>8. NoCr(<<c>>)
  <2>1. Len(<<c>>) = 1 /\ <<c>>[1] = c
    OBVIOUS
  <2> QED  BY <1>5, <2>1 DEF NoCr
<1>9. Known(s \o <<c>>, t, z)
  BY <1>3, <1>5, <1>8, AddedIs DEF Known
<1>10. LineUpTo(gone, f, k, b, z, s \o <<c>>, w, Append(p, c), d)
  BY <1>1, <1>2, <1>6, <1>7, <1>9 DEF LineUpTo
<1> QED  BY <1>10, InLineIs

(* A kill arrives.                                                         *)
LEMMA InLineKilled ==
  ASSUME EchoesApart,
         NEW f, NEW k, NEW b, NEW z, NEW s \in Seq(OnTheWire),
         NEW w \in Seq(OnTheWire), NEW p \in Seq(OnTheWire), NEW d, ~d, NoKill(w),
         InLine(f, k, b, z, s, <<"kill">> \o w, p, d)
  PROVE  InLine(f, k, b, z, s \o KillEcho, w, <<>>, d)
<1>0. PICK v : v = <<"kill">> \o w
  OBVIOUS
<1>1. PICK gone : LineUpTo(gone, f, k, b, z, s, v, p, d)
  BY <1>0, InLineIs
<1>2. PICK t : t = Seen(gone)
  OBVIOUS
<1>3. t \in Seq(Printable) /\ z \in Seq(Printable) /\ Sent(p, v, d, Num(s), t, z) /\ Known(s, t, z)
  BY <1>1, <1>2, GoneType DEF LineUpTo
<1>4. Num(s) \in Nat
  BY SeenType
<1>5. Sent(<<>>, w, d, Num(s), t, z) /\ Num(s) = 0 /\ Len(z) = Len(t)
  BY <1>0, <1>3, <1>4, SentKilled
<1>6. KillEcho \in Seq(OnTheWire) /\ \A i \in 1..Len(KillEcho) : KillEcho[i] \notin Printable
  BY ConstantsAssumption DEF ConstantsAssumption, EchoesApart
<1>7. Num(KillEcho) = 0
  BY <1>6, NumNone
<1>8. Num(s \o KillEcho) = 0
  BY <1>5, <1>6, <1>7, SeenConcat
<1>9. \A i \in 1..Len(s) : s[i] \notin Printable
  BY <1>5, NumHas
<1>10. Clean(s \o KillEcho)
  BY <1>6, <1>9, AddedIs
<1>11. NoCr(s \o KillEcho) \/ Stale
  BY <1>3, <1>6, AddedIs DEF Known, Stale
<1>12. Known(s \o KillEcho, t, z)
  BY <1>5, <1>10, <1>11 DEF Known
<1>13. LineUpTo(gone, f, k, b, z, s \o KillEcho, w, <<>>, d)
  BY <1>1, <1>2, <1>5, <1>8, <1>12 DEF LineUpTo
<1> QED  BY <1>13, InLineIs

(* The line of the file that is sent.                                      *)
LEMMA TheLine ==
  ASSUME CheckedFiles, EchoesApart, NEW f \in Files, NEW k \in 1..Len(f)
  PROVE  /\ f \in Seq(Seq(Characters)) /\ f[k] \in Seq(Characters) /\ f[k] # <<>>
         /\ Seen(f[k]) \in Seq(Printable)
         /\ \A j \in 1..Len(f[k]) : f[k][j] = "nl" => j = Len(f[k])
         /\ LastOf(f[k]) # "nl" => k = Len(f) /\ Seen(f[k]) # <<>>
         /\ Stale => Seen(f[k]) # <<>>
<1>1. f \in Seq(Seq(Characters))
  BY ConstantsAssumption DEF ConstantsAssumption
<1>2. f[k] \in Seq(Characters)
  BY <1>1, ElementOfSeq
<1>3. Seen(f[k]) \in Seq(Printable)
  BY <1>2, GoneType
<1> QED  BY <1>1, <1>2, <1>3 DEF CheckedFiles, EchoesApart

LEMMA EndOnWayLost ==
  ASSUME CheckedFiles, EchoesApart, NEW f \in Files, NEW k \in 1..Len(f), NEW b, NEW z,
         NEW s \in Seq(OnTheWire), NEW c \in OnTheWire,
         NEW w \in Seq(OnTheWire), NEW p \in Seq(OnTheWire), NEW d,
         EndOnWay(f, k, b, z, s, <<c>> \o w, p, d), c = "kill" => d,
         c = "cr" => w = <<>>
  PROVE  EndLost(f, k, b, z, s, w) \/ EndOnWay(f, k, b, z, s, w, p, d)
<1>1. PICK v : v = <<c>> \o w
  OBVIOUS
<1>2. PICK t : t = Seen(f[k])
  OBVIOUS
<1>3. EndSent(f, k, b, z, s) /\ NoCr(s) /\ LastOf(v) = "cr" /\ Sent(p, v, d, 0, t, <<>>)
  BY <1>1, <1>2 DEF EndOnWay
<1>4. t \in Seq(Printable) /\ <<>> \in Seq(Printable)
  BY <1>2, TheLine
<1>5. Sent(p, w, d, 0, t, <<>>)
  BY <1>1, <1>3, <1>4, SentLost
<1>6. w # <<>> => LastOf(w) = "cr"
  BY <1>1, <1>3, WireRest
<1> QED  BY <1>2, <1>3, <1>5, <1>6 DEF EndLost, EndOnWay

(* What is on the wire before a carriage return shows nothing.             *)
LEMMA EndOnWayTab ==
  ASSUME CheckedFiles, EchoesApart, NEW f \in Files, NEW k \in 1..Len(f), NEW b, NEW z,
         NEW s \in Seq(OnTheWire), NEW c \in Showing,
         NEW w \in Seq(OnTheWire), NEW p \in Seq(OnTheWire), NEW d, ~d, NoKill(w),
         EndOnWay(f, k, b, z, s, <<c>> \o w, p, d)
  PROVE  EndOnWay(f, k, b, z, s \o <<c>>, w, Append(p, c), d)
<1>0. c \in OnTheWire /\ c # "kill" /\ c # "cr" /\ <<c>> \in Seq(OnTheWire)
  BY PrintableSent, NotPrintable, OnTheWireHas DEF Showing
<1>1. PICK v : v = <<c>> \o w
  OBVIOUS
<1>2. PICK t : t = Seen(f[k])
  OBVIOUS
<1>3. EndSent(f, k, b, z, s) /\ NoCr(s) /\ LastOf(v) = "cr" /\ Sent(p, v, d, 0, t, <<>>)
  BY <1>1, <1>2 DEF EndOnWay
<1>4. t \in Seq(Printable) /\ <<>> \in Seq(Printable) /\ v \in Seq(OnTheWire)
  BY <1>0, <1>1, <1>2, TheLine, WireRest
<1>5. Seen(v) = <<>>
  BY <1>3, <1>4, SentDone
<1>6. Num(<<c>>) = 0
  <2>1. Num(v) = Num(<<c>>) + Num(w) /\ Num(v) = 0
    <3>1. Len(<<>>) = 0
      OBVIOUS
    <3> QED  BY <1>0, <1>1, <1>5, <3>1, SeenConcat DEF Num
  <2>2. Num(<<c>>) \in Nat /\ Num(w) \in Nat
    BY <1>0, SeenType
  <2> QED  BY <2>1, <2>2
<1>7. Sent(Append(p, c), w, d, 0, t, <<>>)
  <2>1. Sent(Append(p, c), w, d, 0 + Num(<<c>>), t, <<>>)
    BY <1>0, <1>1, <1>3, <1>4, SentArrived
  <2> QED  BY <1>6, <2>1
<1>8. Num(s \o <<c>>) = 0
  <2>1. Num(s) = 0
    BY <1>3 DEF EndSent
  <2>2. Num(s \o <<c>>) = Num(s) + Num(<<c>>)
    BY <1>0, SeenConcat
  <2> QED  BY ONLY <1>6, <2>1, <2>2
<1>9. NoCr(<<c>>)
  <2>1. Len(<<c>>) = 1 /\ <<c>>[1] = c
    OBVIOUS
  <2> QED  BY <1>0, <2>1 DEF NoCr
<1>10. NoCr(s \o <<c>>)
  BY <1>0, <1>3, <1>9, AddedIs
<1>11. w # <<>> /\ LastOf(w) = "cr"
  <2>1. /\ Len(v) = 1 + Len(w) /\ v[1] = c /\ (w # <<>> => LastOf(v) = LastOf(w))
    BY <1>0, <1>1, WireRest
  <2>2. w = <<>> => LastOf(v) = c
    <3>1. Len(<<>>) = 0 /\ 1 + 0 = 1
      OBVIOUS
    <3> QED  BY <2>1, <3>1 DEF LastOf
  <2> QED  BY <1>0, <1>3, <2>1, <2>2
<1> QED  BY <1>2, <1>3, <1>7, <1>8, <1>10, <1>11 DEF EndOnWay, EndSent

LEMMA EndOnWayKilled ==
  ASSUME CheckedFiles, EchoesApart, NEW f \in Files, NEW k \in 1..Len(f), NEW b, NEW z,
         NEW s \in Seq(OnTheWire),
         NEW w \in Seq(OnTheWire), NEW p \in Seq(OnTheWire), NEW d, ~d, NoKill(w),
         EndOnWay(f, k, b, z, s, <<"kill">> \o w, p, d)
  PROVE  EndOnWay(f, k, b, z, s \o KillEcho, w, <<>>, d)
<1>0. "kill" \in OnTheWire
  BY OnTheWireHas
<1>1. PICK v : v = <<"kill">> \o w
  OBVIOUS
<1>2. PICK t : t = Seen(f[k])
  OBVIOUS
<1>3. EndSent(f, k, b, z, s) /\ NoCr(s) /\ LastOf(v) = "cr" /\ Sent(p, v, d, 0, t, <<>>)
  BY <1>1, <1>2 DEF EndOnWay
<1>4. t \in Seq(Printable) /\ <<>> \in Seq(Printable) /\ Len(<<>>) = 0
  BY <1>2, TheLine
<1>5. Sent(<<>>, w, d, 0, t, <<>>) /\ Len(t) = 0
  <2>1. \A n \in Nat : \A e \in Seq(Printable) :
          Sent(p, <<"kill">> \o w, d, n, t, e) => Sent(<<>>, w, d, n, t, e) /\ Len(e) = Len(t)
    BY <1>4, SentKilled
  <2>2. Sent(p, <<"kill">> \o w, d, 0, t, <<>>)
    BY <1>1, <1>3
  <2>3. 0 \in Nat
    OBVIOUS
  <2> QED  BY ONLY <1>4, <2>1, <2>2, <2>3
<1>6. t = <<>>
  BY <1>4, <1>5, EmptySeq
<1>7. NoCr(KillEcho)
  BY <1>2, <1>6, TheLine DEF Stale
<1>8. KillEcho \in Seq(OnTheWire) /\ \A i \in 1..Len(KillEcho) : KillEcho[i] \notin Printable
  BY ConstantsAssumption DEF ConstantsAssumption, EchoesApart
<1>9. Num(s \o KillEcho) = 0
  <2>1. Num(s) = 0 /\ Num(KillEcho) = 0
    BY <1>3, <1>8, NumNone DEF EndSent
  <2>2. Num(s \o KillEcho) = Num(s) + Num(KillEcho)
    BY <1>8, SeenConcat
  <2> QED  BY ONLY <2>1, <2>2
<1>10. NoCr(s \o KillEcho)
  BY <1>3, <1>7, <1>8, AddedIs
<1>11. w # <<>> /\ LastOf(w) = "cr"
  <2>1. /\ Len(v) = 1 + Len(w) /\ v[1] = "kill" /\ (w # <<>> => LastOf(v) = LastOf(w))
    BY <1>0, <1>1, WireRest
  <2>2. w = <<>> => LastOf(v) = "kill"
    <3>1. Len(<<>>) = 0 /\ 1 + 0 = 1
      OBVIOUS
    <3> QED  BY <2>1, <3>1 DEF LastOf
  <2> QED  BY <1>3, <2>1, <2>2
<1> QED  BY <1>2, <1>3, <1>5, <1>9, <1>10, <1>11 DEF EndOnWay, EndSent

LEMMA EndOnWayArrived ==
  ASSUME CheckedFiles, EchoesApart, NEW f \in Files, NEW k \in 1..Len(f), NEW b, NEW z,
         NEW s \in Seq(OnTheWire), NEW p \in Seq(OnTheWire), NEW d, ~d,
         EndOnWay(f, k, b, z, s, <<"cr">>, p, d), NEW o, o => NewlineHeard
  PROVE  /\ EndArrived(f, k, b, z, s \o NewlineEcho, <<>>, <<>>, o)
         /\ Seen(p) = Seen(f[k])
<1>0. "cr" \in OnTheWire /\ <<"cr">> \in Seq(OnTheWire) /\ <<"cr">>[1] = "cr"
  BY OnTheWireHas, SingleType
<1>2. PICK t : t = Seen(f[k])
  OBVIOUS
<1>3. EndSent(f, k, b, z, s) /\ NoCr(s) /\ Sent(p, <<"cr">>, d, 0, t, <<>>)
  BY <1>2 DEF EndOnWay
<1>4. t \in Seq(Printable)
  BY <1>2, TheLine
<1>5. Seen(p) = t
  <2>1. ~KillFirst(<<"cr">>)
    BY <1>0 DEF KillFirst
  <2>2. Follows(Seen(p), Seen(<<"cr">>), 0, t, <<>>)
    BY <1>3, <2>1 DEF Sent
  <2>3. Seen(p) \in Seq(Printable) /\ Seen(<<"cr">>) \in Seq(Printable)
    BY <1>0, SeenType
  <2> QED  BY <1>4, <2>2, <2>3, FollowsDone
<1>6. NewlineEcho \in Seq(OnTheWire) /\ \A i \in 1..Len(NewlineEcho) : NewlineEcho[i] \notin Printable
  BY ConstantsAssumption DEF ConstantsAssumption, EchoesApart
<1>7. Num(s \o NewlineEcho) = 0
  BY <1>3, <1>6, NumNone, SeenConcat DEF EndSent
<1>8. o => ~NoCr(s \o NewlineEcho)
  BY <1>6, AddedIs DEF NewlineHeard
<1>9. Stale \/ OneCr(s \o NewlineEcho)
  BY <1>3, <1>6, AddedIs DEF Stale
<1> QED  BY <1>2, <1>3, <1>5, <1>7, <1>8, <1>9 DEF EndArrived, EndSent

(* A line begins, or is begun again.                                       *)
LEMMA InLineBegins ==
  ASSUME CheckedFiles, EchoesApart, NEW f \in Files, NEW k \in 1..Len(f),
         NEW p \in Seq(OnTheWire), NEW d
  PROVE  /\ InLine(f, k, f[k], <<>>, <<>>, <<"kill">>, p, d)
         /\ \A s \in Seq(OnTheWire) : Num(s) = 0 /\ (Stale \/ NoCr(s)) =>
              InLine(f, k, f[k], <<>>, s, <<>>, <<>>, d)
<1>1. f[k] \in Seq(Characters) /\ f[k] # <<>>
  BY TheLine
<1>2. <<>> \in Seq(Characters) /\ <<>> \o f[k] = f[k] /\ <<>> \in Seq(Printable) /\ <<>> \in Seq(OnTheWire)
  BY <1>1
<1>3. k >= 1 /\ ~Finished(f, k, f[k])
  BY <1>1 DEF Finished
<1>4. Follows(<<>>, <<>>, 0, <<>>, <<>>)
  <2>1. <<>> \o <<>> = <<>> /\ Len(<<>>) = 0
    OBVIOUS
  <2>2. Within(<<>>, <<>>)
    BY <1>2, WithinSame
  <2> QED  BY <2>1, <2>2 DEF Follows
<1>5. InLine(f, k, f[k], <<>>, <<>>, <<"kill">>, p, d)
  <2>1. "kill" \in OnTheWire /\ "kill" \notin Printable
    BY OnTheWireHas, NotPrintable
  <2>2. Seen(<<"kill">>) = <<>>
    BY <2>1, SeenOne
  <2>3. KillFirst(<<"kill">>)
    BY DEF KillFirst
  <2>4. Sent(p, <<"kill">>, d, 0, <<>>, <<>>)
    BY <1>4, <2>2, <2>3 DEF Sent
  <2>5. Known(<<>>, <<>>, <<>>)
    <3>1. Len(<<>>) = 0
      OBVIOUS
    <3> QED  BY <3>1 DEF Known, Clean, NoCr
  <2>6. LineUpTo(<<>>, f, k, f[k], <<>>, <<>>, <<"kill">>, p, d)
    BY <1>2, <1>3, <2>4, <2>5, SeenNone DEF LineUpTo
  <2> QED  BY <2>6, InLineIs
<1>6. ASSUME NEW s \in Seq(OnTheWire), Num(s) = 0, Stale \/ NoCr(s)
      PROVE  InLine(f, k, f[k], <<>>, s, <<>>, <<>>, d)
  <2>1. NoKill(<<>>)
    <3>1. Len(<<>>) = 0
      OBVIOUS
    <3> QED  BY <3>1 DEF NoKill
  <2>2. Sent(<<>>, <<>>, d, Num(s), <<>>, <<>>)
    BY <1>4, <1>6, <2>1, SeenNone DEF Sent
  <2>3. Known(s, <<>>, <<>>)
    BY <1>6, NumHas DEF Known, Clean
  <2>4. LineUpTo(<<>>, f, k, f[k], <<>>, s, <<>>, <<>>, d)
    BY <1>2, <1>3, <2>2, <2>3, SeenNone DEF LineUpTo
  <2> QED  BY <2>4, InLineIs
<1> QED  BY <1>5, <1>6

(* The end of the file is sent after an unfinished line, and arrives.      *)
LEMMA InLineEof ==
  ASSUME NEW f, NEW k, NEW b, NEW s \in Seq(OnTheWire),
         NEW w \in Seq(OnTheWire), NEW p \in Seq(OnTheWire), NEW d,
         InLine(f, k, b, <<>>, s, w, p, d)
  PROVE  InLine(f, k, b, <<>>, s, w \o <<"eof">>, p, d)
<1>0. "eof" \in OnTheWire /\ <<"eof">> \in Seq(OnTheWire) /\ "eof" \notin Printable
  BY OnTheWireHas, NotPrintable, SingleType
<1>1. PICK gone : LineUpTo(gone, f, k, b, <<>>, s, w, p, d)
  BY InLineIs
<1>2. PICK t : t = Seen(gone)
  OBVIOUS
<1>3. t \in Seq(Printable) /\ Sent(p, w, d, Num(s), t, <<>>) /\ t \o <<>> = t
  BY <1>1, <1>2, GoneType DEF LineUpTo
<1>4. Num(s) \in Nat
  BY SeenType
<1>5. Num(s) = 0
  BY <1>3, <1>4, SentDone
<1>6. NoKill(<<"eof">>)
  <2>1. Len(<<"eof">>) = 1 /\ <<"eof">>[1] = "eof"
    OBVIOUS
  <2> QED  BY <2>1 DEF NoKill
<1>7. Sent(p, w \o <<"eof">>, d, 0, t \o Seen(<<"eof">>), Seen(<<"eof">>))
  BY <1>0, <1>3, <1>4, <1>6, SentMore
<1>8. Sent(p, w \o <<"eof">>, d, Num(s), t, <<>>)
  BY <1>0, <1>3, <1>5, <1>7, SeenOne
<1>9. LineUpTo(gone, f, k, b, <<>>, s, w \o <<"eof">>, p, d)
  BY <1>1, <1>2, <1>8 DEF LineUpTo
<1> QED  BY <1>9, InLineIs

LEMMA InLineEnds ==
  ASSUME CheckedFiles, EchoesApart, NEW f \in Files, NEW k \in 1..Len(f),
         NEW s \in Seq(OnTheWire), NEW p \in Seq(OnTheWire), NEW d, ~d,
         InLine(f, k, <<>>, <<>>, s, <<"eof">>, p, d)
  PROVE  Seen(p) = Seen(f[k]) /\ p # <<>>
<1>0. "eof" \in OnTheWire /\ <<"eof">> \in Seq(OnTheWire) /\ <<"eof">>[1] = "eof"
  BY OnTheWireHas, SingleType
<1>1. PICK gone : LineUpTo(gone, f, k, <<>>, <<>>, s, <<"eof">>, p, d)
  BY InLineIs
<1>2. gone \o <<>> = gone /\ gone \in Seq(Characters)
  BY <1>1 DEF LineUpTo
<1>3. gone = f[k] /\ ~Finished(f, k, <<>>)
  BY <1>1, <1>2 DEF LineUpTo
<1>4. Seen(f[k]) # <<>> /\ Seen(f[k]) \in Seq(Printable)
  BY <1>3, TheLine DEF Finished
<1>5. Sent(p, <<"eof">>, d, Num(s), Seen(f[k]), <<>>)
  BY <1>1, <1>3 DEF LineUpTo
<1>6. Num(s) \in Nat
  BY SeenType
<1>7. Seen(p) = Seen(f[k])
  BY <1>0, <1>4, <1>5, <1>6, SentDone
<1> QED  BY <1>4, <1>7, SeenNone

(* A chunk of a line is sent: a part without the newline, or the newline.  *)
LEMMA PartSent ==
  ASSUME cuvar \in Settings, Checked, NEW f, NEW k, NEW b \in Seq(Characters),
         NEW s \in Seq(OnTheWire), NEW w \in Seq(OnTheWire), NEW p \in Seq(OnTheWire),
         NEW d, InLine(f, k, b, <<>>, s, w, p, d),
         NEW a \in Seq(Plain), a # <<>>, NEW r \in Seq(Characters), b = a \o r,
         NEW u, Fewer(u, s)
  PROVE  InLine(f, k, r, Seen(a), u, w \o Coded(a), p, d)
<1>1. PICK gone : LineUpTo(gone, f, k, b, <<>>, s, w, p, d)
  BY InLineIs
<1>2. PICK t : t = Seen(gone)
  OBVIOUS
<1>3. /\ t \in Seq(Printable) /\ Sent(p, w, d, Num(s), t, <<>>) /\ Known(s, t, <<>>)
      /\ gone \in Seq(Characters)
  BY <1>1, <1>2, GoneType DEF LineUpTo
<1>4. a \in Seq(Characters)
  BY KeptIs, SubType
<1>5. PICK c : c = Coded(a)
  OBVIOUS
<1>6. c \in Seq(OnTheWire) /\ Seen(c) = Seen(a) /\ \A i \in 1..Len(c) : c[i] \in Showing
  BY <1>5, CodedPlain
<1>7. NoKill(c)
  BY <1>6, NotPrintable DEF NoKill, Showing
<1>8. Num(s) \in Nat
  BY SeenType
<1>9. Sent(p, w \o c, d, 0, t \o Seen(a), Seen(a))
  BY <1>3, <1>6, <1>7, <1>8, SentMore
<1>10. Num(u) = 0
  <2>1. Num(s) = 0
    <3>1. Sent(p, w, d, Num(s), t, <<>>) /\ t \in Seq(Printable)
      BY <1>3
    <3>2. p \in Seq(OnTheWire) /\ w \in Seq(OnTheWire)
      OBVIOUS
    <3> QED  BY ONLY <1>8, <3>1, <3>2, SentDone
  <2> QED  BY <2>1, NumFewer
<1>11. Seen(a) \in Seq(Printable)
  BY <1>4, GoneType
<1>12. Known(u, t \o Seen(a), Seen(a))
  <2>1. Known(u, t, <<>>)
    BY <1>3, FewerKnown
  <2>2. Len(<<>>) = Len(t) => t \o Seen(a) = Seen(a)
    <3>1. Len(t) = 0 => t = <<>>
      BY <1>3, EmptySeq
    <3>2. <<>> \o Seen(a) = Seen(a) /\ Len(<<>>) = 0
      BY <1>11
    <3> QED  BY <3>1, <3>2
  <2> QED  BY <2>1, <2>2 DEF Known
<1>13. PICK g : g = gone \o a
  OBVIOUS
<1>14. g \in Seq(Characters) /\ g \o r = gone \o b
  <2>1. (gone \o a) \o r = gone \o (a \o r) /\ gone \o a \in Seq(Characters)
    <3>1. gone \in Seq(Characters) /\ a \in Seq(Characters) /\ r \in Seq(Characters)
      BY <1>3, <1>4
    <3> QED  BY ONLY <3>1, ConcatAssociative, ConcatProperties, SMTT(30)
  <2> QED  BY <1>13, <2>1
<1>15. Seen(g) = t \o Seen(a)
  BY <1>2, <1>3, <1>4, <1>13, PrintableSent, SeenConcat
<1>16. ~Finished(f, k, r)
  <2> SUFFICES ASSUME r = <<>>  PROVE LastOf(f[k]) # "nl" /\ k # 0
    BY <1>1 DEF Finished
  <2>1. f[k] = g
    <3>1. g \o <<>> = g
      BY <1>14
    <3> QED  BY <1>1, <1>14, <3>1 DEF LineUpTo
  <2>2. PICK m \in Nat, n \in Nat : m = Len(gone) /\ n = Len(a)
    BY <1>3
  <2>3. n # 0 /\ Len(g) = m + n /\ \A i \in 1..n : g[m + i] = a[i]
    BY <1>3, <1>4, <1>13, <2>2, EmptySeq
  <2>4. g[m + n] = a[n] /\ a[n] \in Plain
    BY <2>2, <2>3
  <2>5. a[n] # "nl"
    BY <2>4 DEF Plain
  <2>6. k >= 1
    BY <1>1 DEF LineUpTo
  <2>7. k # 0
    BY <2>6
  <2> QED  BY <2>1, <2>3, <2>4, <2>5, <2>7 DEF LastOf
<1>17. LineUpTo(g, f, k, r, Seen(a), u, w \o c, p, d)
  BY <1>1, <1>9, <1>10, <1>11, <1>12, <1>14, <1>15, <1>16 DEF LineUpTo
<1> QED  BY <1>5, <1>17, InLineIs

LEMMA EndIsSent ==
  ASSUME CheckedFiles, EchoesApart, NEW f \in Files, NEW k \in 1..Len(f),
         NEW b \in Seq(Characters), b # <<>>, b[1] = "nl",
         NEW s \in Seq(OnTheWire), NEW w \in Seq(OnTheWire), NEW p \in Seq(OnTheWire),
         NEW d, InLine(f, k, b, <<>>, s, w, p, d), NEW u, Fewer(u, s)
  PROVE  b = <<"nl">> /\ EndOnWay(f, k, <<>>, <<"cr">>, u, w \o <<"cr">>, p, d)
<1>0. "cr" \in OnTheWire /\ <<"cr">> \in Seq(OnTheWire) /\ "cr" \notin Printable
      /\ <<"cr">>[1] = "cr" /\ Len(<<"cr">>) = 1
  BY OnTheWireHas, NotPrintable, SingleType
<1>1. PICK gone : LineUpTo(gone, f, k, b, <<>>, s, w, p, d)
  BY InLineIs
<1>2. PICK t : t = Seen(gone)
  OBVIOUS
<1>3. /\ t \in Seq(Printable) /\ Sent(p, w, d, Num(s), t, <<>>) /\ Known(s, t, <<>>)
      /\ gone \in Seq(Characters) /\ gone \o b = f[k]
  BY <1>1, <1>2, GoneType DEF LineUpTo
<1>4. PICK l : l = f[k]
  OBVIOUS
<1>5. PICK m \in Nat, n \in Nat : m = Len(gone) /\ n = Len(b)
  BY <1>3
<1>6. n # 0 /\ Len(l) = m + n /\ l[m + 1] = b[1]
  <2>1. n # 0
    BY <1>5, EmptySeq
  <2>2. Len(l) = m + n /\ \A i \in 1..n : l[m + i] = b[i]
    <3>1. l = gone \o b
      BY <1>3, <1>4
    <3>2. gone \in Seq(Characters) /\ b \in Seq(Characters)
      BY <1>3
    <3> QED  BY ONLY <1>5, <3>1, <3>2
  <2>3. 1 \in 1..n
    BY <2>1
  <2> QED  BY <1>3, <1>4, <2>1, <2>2, <2>3
<1>7. n = 1 /\ LastOf(l) = "nl"
  <2>1. m + 1 \in 1..Len(l) /\ l[m + 1] = "nl"
    BY <1>6
  <2>2. m + 1 = Len(l)
    BY <1>4, <2>1, TheLine
  <2> QED  BY <1>6, <2>1, <2>2 DEF LastOf
<1>8. b = <<"nl">>
  <2>1. Len(b) = 1 /\ Len(<<"nl">>) = 1 /\ <<"nl">>[1] = "nl" /\ <<"nl">> \in Seq(Characters)
    BY <1>5, <1>7, OnTheWireHas
  <2>2. \A i \in 1..1 : b[i] = <<"nl">>[i]
    BY <2>1
  <2> QED  BY <2>1, <2>2, SeqEqual
<1>9. Seen(l) = t
  <2>1. "nl" \in OnTheWire /\ <<"nl">> \in Seq(OnTheWire) /\ "nl" \notin Printable
    BY OnTheWireHas, NotPrintable, SingleType
  <2>2. Seen(gone \o <<"nl">>) = t \o Seen(<<"nl">>)
    BY <1>2, <1>3, <2>1, PrintableSent, SeenConcat
  <2>3. Seen(<<"nl">>) = <<>> /\ t \o <<>> = t
    BY <1>3, <2>1, SeenOne
  <2> QED  BY <1>3, <1>4, <1>8, <2>2, <2>3
<1>10. Num(s) \in Nat
  BY SeenType
<1>11. Num(u) = 0
  <2>1. Num(s) = 0
    <3>1. Sent(p, w, d, Num(s), t, <<>>) /\ t \in Seq(Printable)
      BY <1>3
    <3>2. p \in Seq(OnTheWire) /\ w \in Seq(OnTheWire)
      OBVIOUS
    <3> QED  BY ONLY <1>10, <3>1, <3>2, SentDone
  <2> QED  BY <2>1, NumFewer
<1>12. NoCr(u)
  <2>1. NoCr(s)
    <3>1. Stale /\ Len(<<>>) = Len(t) => t = <<>>
      <4>1. Len(<<>>) = 0
        OBVIOUS
      <4> QED  BY <1>3, <4>1, EmptySeq
    <3>2. Stale => t # <<>>
      BY <1>4, <1>9, TheLine
    <3> QED  BY <1>3, <3>1, <3>2 DEF Known
  <2> QED  BY <2>1, NumFewer
<1>13. NoKill(<<"cr">>)
  BY <1>0 DEF NoKill
<1>14. Sent(p, w \o <<"cr">>, d, 0, Seen(f[k]), <<>>)
  <2>1. Sent(p, w \o <<"cr">>, d, 0, t \o Seen(<<"cr">>), Seen(<<"cr">>))
    BY <1>0, <1>3, <1>10, <1>13, SentMore
  <2>2. Seen(<<"cr">>) = <<>> /\ t \o <<>> = t
    BY <1>0, <1>3, SeenOne
  <2> QED  BY <1>4, <1>9, <2>1, <2>2
<1>15. w \o <<"cr">> # <<>> /\ LastOf(w \o <<"cr">>) = "cr"
  <2>1. PICK v : v = w \o <<"cr">>
    OBVIOUS
  <2>2. Len(v) = Len(w) + 1 /\ Len(w) \in Nat /\ v[Len(w) + 1] = "cr"
    BY <1>0, <2>1
  <2>3. v # <<>>
    BY <2>2
  <2> QED  BY <2>1, <2>2, <2>3 DEF LastOf
<1>16. EndSent(f, k, <<>>, <<"cr">>, u)
  BY <1>4, <1>7, <1>11 DEF EndSent, Finished
<1> QED  BY <1>8, <1>12, <1>14, <1>15, <1>16 DEF EndOnWay

-----------------------------------------------------------------------------
(* The steps of the transfer *)

LineFacts ==
  /\ cuvar \in Settings /\ file \in Files /\ file \in Seq(Seq(Characters)) /\ Buffers = file
  /\ Len(file) \in Nat /\ current \in 0..Len(file) /\ next = current + 1
  /\ zbuf \in Seq(Characters) /\ zsendbuf \in Seq(OnTheWire)
  /\ abPrecbuf \in Seq(OnTheWire) /\ echo \in Seq(OnTheWire) /\ Pieces \in Seq(OnTheWire)
  /\ wire \in Seq(OnTheWire) /\ remote \in RemoteType
  /\ remote.pending \in Seq(OnTheWire) /\ remote.lines \in Seq(Seq(OnTheWire))
  /\ lost.dead \in BOOLEAN /\ lost.echoes \in Nat

LEMMA LineFactsHold ==
  ASSUME TypeInv, Checked
  PROVE  LineFacts
<1>1. cuvar \in Settings /\ file \in Files /\ zbuf \in Seq(Characters) /\ zsendbuf \in Seq(OnTheWire)
  BY DEF TypeInv, ProgramTypes
<1>2. file \in Seq(Seq(Characters)) /\ Buffers = file
  BY <1>1, BuffersType DEF Buffers, Checked
<1>3. Len(file) \in Nat
  BY <1>2
<1>4. next \in 1..Len(file) + 1
  BY <1>2 DEF TypeInv, ProgramTypes
<1>5. current \in 0..Len(file) /\ next = current + 1
  BY <1>3, <1>4 DEF current
<1>6. /\ abPrecbuf \in Seq(OnTheWire) /\ echo \in Seq(OnTheWire)
      /\ wire \in Seq(OnTheWire) /\ remote \in RemoteType
  BY DEF TypeInv, LineTypes
<1>7. Pieces \in Seq(OnTheWire)
  BY <1>6, ConcatProperties DEF Pieces
<1>8. remote.pending \in Seq(OnTheWire) /\ remote.lines \in Seq(Seq(OnTheWire))
  BY <1>6 DEF RemoteType
<1>9. lost.dead \in BOOLEAN /\ lost.echoes \in Nat
  BY ConstantsAssumption DEF TypeInv, LostTypes, ConstantsAssumption
<1> QED  BY <1>1, <1>2, <1>3, <1>5, <1>6, <1>7, <1>8, <1>9 DEF LineFacts

(* A step that leaves the line as it is, or leaves out an echo.            *)
Quiet ==
  /\ file' = file /\ cuvar' = cuvar /\ next' = next
  /\ zbuf' = zbuf /\ zsendbuf' = zsendbuf /\ wire' = wire /\ remote' = remote
  /\ lost.dead => lost'.dead
  /\ Fewer(Pieces', Pieces)
  /\ Once' => Once
  /\ EndArrivedNow /\ Once' => (NoCr(Pieces') => NoCr(Pieces))
  /\ outcome' = "complete" <=> outcome = "complete"
  /\ at' \in {"buffer", "chunk"} => at \in {"buffer", "chunk"}

LEMMA QuietPlace ==
  ASSUME SendPlace, Quiet
  PROVE  SendPlace'
<1>1. current' = current
  BY DEF Quiet, current
<1>2. WireOK(wire, zsendbuf, outcome')
  BY DEF SendPlace, Quiet, WireOK
<1> QED  BY <1>1, <1>2 DEF Quiet, SendPlace

LEMMA QuietLines ==
  ASSUME LineFacts, LineNow, Quiet
  PROVE  LineNow'
<1>0. PICK f, k, b, z, s, w, p, d, L, o :
        /\ f = file /\ k = current /\ b = zbuf /\ z = zsendbuf /\ s = Pieces /\ w = wire
        /\ p = remote.pending /\ d = lost.dead /\ L = remote.lines /\ o = Once
  OBVIOUS
<1>1. PICK u, e, v : u = Pieces' /\ e = lost'.dead /\ v = Once'
  OBVIOUS
<1>2. /\ file' = f /\ current' = k /\ zbuf' = b /\ zsendbuf' = z /\ wire' = w
      /\ remote'.pending = p /\ remote'.lines = L /\ Pieces' = u /\ lost'.dead = e
      /\ Once' = v /\ (EofDue' <=> EofDue)
  BY <1>0, <1>1 DEF Quiet, current, EofDue
<1>3. /\ s \in Seq(OnTheWire) /\ Fewer(u, s) /\ (d => e) /\ (v => o)
      /\ p \in Seq(OnTheWire)
  BY <1>0, <1>1 DEF Quiet, LineFacts
<1>4. \A j : (Has(f, j, L, o) => Has(f, j, L, v)) /\ (Behind(f, j, L, o) => Behind(f, j, L, v))
  BY <1>3, HasWeaker
<1>5. CASE InLineNow
  <2>1. InLine(f, k, b, z, s, w, p, d) /\ Behind(f, k, L, o)
        /\ (EofDue => w # <<>> /\ LastOf(w) = "eof")
    BY <1>0, <1>5 DEF InLineNow
  <2>2. InLine(f, k, b, z, u, w, p, e)
    BY <1>3, <2>1, InLineFewer
  <2>3. InLineNow'
    BY <1>2, <1>4, <2>1, <2>2 DEF InLineNow
  <2> QED  BY <2>3 DEF LineNow
<1>6. CASE EndOnWayNow
  <2>1. EndOnWay(f, k, b, z, s, w, p, d) /\ Behind(f, k, L, o)
    BY <1>0, <1>6 DEF EndOnWayNow
  <2>2. EndOnWay(f, k, b, z, u, w, p, e)
    <3>1. FALSE => TRUE /\ (NoCr(u) => NoCr(s))
      OBVIOUS
    <3> QED  BY <1>3, <2>1, <3>1, EndFewer
  <2>3. EndOnWayNow'
    BY <1>2, <1>4, <2>1, <2>2 DEF EndOnWayNow
  <2> QED  BY <2>3 DEF LineNow
<1>7. CASE EndLostNow
  <2>1. EndLost(f, k, b, z, s, w) /\ Behind(f, k, L, o)
    BY <1>0, <1>7 DEF EndLostNow
  <2>2. EndLost(f, k, b, z, u, w)
    <3>1. FALSE => TRUE /\ (NoCr(u) => NoCr(s))
      OBVIOUS
    <3> QED  BY <1>3, <2>1, <3>1, EndFewer
  <2>3. EndLostNow'
    BY <1>2, <1>4, <2>1, <2>2 DEF EndLostNow
  <2> QED  BY <2>3 DEF LineNow
<1>8. CASE EndArrivedNow
  <2>1. EndArrived(f, k, b, z, s, w, p, o) /\ Has(f, k, L, o)
    BY <1>0, <1>8 DEF EndArrivedNow
  <2>2. v => o /\ (NoCr(u) => NoCr(s))
    BY <1>0, <1>1, <1>3, <1>8 DEF Quiet
  <2>3. EndArrived(f, k, b, z, u, w, p, v)
    BY <1>3, <2>1, <2>2, EndFewer
  <2>4. EndArrivedNow'
    BY <1>2, <1>4, <2>1, <2>3 DEF EndArrivedNow
  <2> QED  BY <2>4 DEF LineNow
<1>9. CASE BetweenNow
  <2>1. Between(f, k, b, z, s, w, p) /\ Has(f, k, L, o)
    BY <1>0, <1>9 DEF BetweenNow
  <2>2. Between(f, k, b, z, u, w, p)
    BY <1>3, <2>1, BetweenFewer
  <2>3. BetweenNow'
    BY <1>2, <1>4, <2>1, <2>2 DEF BetweenNow
  <2> QED  BY <2>3 DEF LineNow
<1>10. CASE AllNow
  <2>1. outcome = "complete" /\ w = <<>> /\ Has(f, k, L, o)
    BY <1>0, <1>10 DEF AllNow
  <2>2. outcome' = "complete"
    BY <2>1 DEF Quiet
  <2>3. AllNow'
    BY <1>2, <1>4, <2>1, <2>2 DEF AllNow
  <2> QED  BY <2>3 DEF LineNow
<1> QED  BY <1>5, <1>6, <1>7, <1>8, <1>9, <1>10 DEF LineNow

LEMMA FewerSame ==
  ASSUME NEW s \in Seq(OnTheWire)
  PROVE  Fewer(s, s)
<1>1. Within(s, s) /\ Num(s) \in Nat
  BY WithinSame, SeenType
<1> QED  BY <1>1 DEF Fewer

(* The variables of the line that Quiet speaks of.                         *)
ProgramQuiet ==
  /\ file' = file /\ cuvar' = cuvar /\ next' = next
  /\ zbuf' = zbuf /\ zsendbuf' = zsendbuf
  /\ outcome' = "complete" <=> outcome = "complete"
  /\ at' \in {"buffer", "chunk"} => at \in {"buffer", "chunk"}

LEMMA QuietPrograms ==
  ASSUME PlaceInv,
         SeeSignal \/ SeeNoSignal \/ GiveUp \/ PortFails \/ Interrupt \/ LineDies \/ ReadPort
           \/ LoseEcho \/ UNCHANGED vars
  PROVE  ProgramQuiet
<1>1. CASE SeeSignal \/ GiveUp \/ PortFails
  <2>1. at # "over" /\ (\E how \in {"aborted", "timed out", "disconnected"} : Ended(how))
    BY <1>1 DEF SeeSignal, GiveUp, PortFails, TimesOut
  <2>2. outcome = "none"
    BY <2>1 DEF PlaceInv
  <2> QED  BY <2>1, <2>2 DEF Ended, ProgramQuiet, given
<1>2. CASE SeeNoSignal
  BY <1>2 DEF SeeNoSignal, ProgramQuiet, given
<1>3. CASE Interrupt
  BY <1>3 DEF Interrupt, ProgramQuiet, given
<1>4. CASE LineDies \/ LoseEcho
  BY <1>4 DEF LineDies, LoseEcho, ProgramQuiet, theProgram, given
<1>5. CASE ReadPort
  BY <1>5 DEF ReadPort, ProgramQuiet, given
<1>6. CASE UNCHANGED vars
  BY <1>6 DEF vars, ProgramQuiet
<1> QED  BY <1>1, <1>2, <1>3, <1>4, <1>5, <1>6

LEMMA QuietSame ==
  ASSUME LineFacts, ProgramQuiet, wire' = wire, remote' = remote, Pieces' = Pieces,
         lost.dead => lost'.dead, lost'.echoes = lost.echoes
  PROVE  Quiet
<1>1. Fewer(Pieces', Pieces)
  BY FewerSame DEF LineFacts
<1>2. Once' => Once
  BY DEF Once
<1> QED  BY <1>1, <1>2 DEF Quiet, ProgramQuiet

LEMMA QuietSteps ==
  ASSUME LineFacts, PlaceInv, LostTypes,
         SeeSignal \/ SeeNoSignal \/ GiveUp \/ PortFails \/ Interrupt \/ LineDies \/ ReadPort
           \/ UNCHANGED vars
  PROVE  Quiet
<1>1. ProgramQuiet
  BY QuietPrograms
<1>2. wire' = wire /\ remote' = remote
  BY DEF SeeSignal, SeeNoSignal, GiveUp, PortFails, Interrupt, LineDies, ReadPort, vars, line
<1>3. Pieces' = Pieces
  <2>1. CASE ReadPort
    <3>1. PICK n \in 1..Len(echo) : abPrecbuf' = SubSeq(echo, 1, n)
                                    /\ echo' = SubSeq(echo, n + 1, Len(echo))
      BY <2>1 DEF ReadPort
    <3>2. echo \in Seq(OnTheWire) /\ n \in 0..Len(echo)
      BY DEF LineFacts
    <3>3. SubSeq(echo, 1, n) \o SubSeq(echo, n + 1, Len(echo)) = echo
      BY <3>2, CutIsWhole
    <3>4. <<>> \o echo = echo
      BY <3>2
    <3>5. abPrecbuf = <<>>
      BY <2>1 DEF ReadPort
    <3> QED  BY <3>1, <3>3, <3>4, <3>5 DEF Pieces
  <2>2. CASE SeeSignal \/ SeeNoSignal \/ GiveUp \/ PortFails \/ Interrupt \/ LineDies
             \/ UNCHANGED vars
    <3>1. abPrecbuf' = abPrecbuf /\ echo' = echo
      BY <2>2 DEF SeeSignal, SeeNoSignal, GiveUp, PortFails, Interrupt, LineDies, Ended, vars,
                  line, theProgram
    <3> QED  BY <3>1 DEF Pieces
  <2> QED  BY <2>1, <2>2
<1>4. (lost.dead => lost'.dead) /\ lost'.echoes = lost.echoes
  <2>1. CASE LineDies
    <3>1. lost' = [lost EXCEPT !.dead = TRUE]
      BY <2>1 DEF LineDies
    <3>2. lost \in [sent : 0..MaxLost, echoes : 0..MaxUnheard, kills : Nat, dead : BOOLEAN]
      BY DEF LostTypes
    <3> QED  BY <3>1, <3>2
  <2>2. CASE SeeSignal \/ SeeNoSignal \/ GiveUp \/ PortFails \/ Interrupt \/ ReadPort
             \/ UNCHANGED vars
    <3>1. lost' = lost
      BY <2>2 DEF SeeSignal, SeeNoSignal, GiveUp, PortFails, Interrupt, ReadPort, vars, line
    <3> QED  BY <3>1
  <2> QED  BY <2>1, <2>2
<1> QED  BY <1>1, <1>2, <1>3, <1>4, QuietSame

LEMMA QuietLoseEcho ==
  ASSUME LineFacts, PlaceInv, LostTypes, LoseEcho
  PROVE  Quiet
<1>1. ProgramQuiet
  BY QuietPrograms
<1>2. wire' = wire /\ remote' = remote /\ abPrecbuf' = abPrecbuf
  BY DEF LoseEcho, theProgram
<1>3. echo # <<>> /\ echo' = Tail(echo) /\ lost' = [lost EXCEPT !.echoes = @ + 1]
  BY DEF LoseEcho
<1>4. abPrecbuf \in Seq(OnTheWire) /\ echo \in Seq(OnTheWire)
  BY DEF LineFacts
<1>5. PICK c, q : c = Head(echo) /\ q = Tail(echo)
  OBVIOUS
<1>6. c \in OnTheWire /\ q \in Seq(OnTheWire) /\ echo = <<c>> \o q
  BY <1>3, <1>4, <1>5, HeadAndTail
<1>7. Fewer(abPrecbuf \o q, abPrecbuf \o (<<c>> \o q))
  BY <1>4, <1>6, FewerDropped
<1>8. Fewer(Pieces', Pieces)
  <2>1. Pieces' = abPrecbuf \o q /\ Pieces = abPrecbuf \o (<<c>> \o q)
    BY <1>2, <1>3, <1>5, <1>6 DEF Pieces
  <2> QED  BY <1>7, <2>1
<1>9. lost'.dead = lost.dead /\ lost'.echoes = lost.echoes + 1
  <2>1. lost \in [sent : 0..MaxLost, echoes : 0..MaxUnheard, kills : Nat, dead : BOOLEAN]
    BY DEF LostTypes
  <2> QED  BY <1>3, <2>1
<1>10. ~Once'
  <2>1. lost'.echoes # 0
    BY <1>9 DEF LineFacts
  <2> QED  BY <2>1 DEF Once
<1> QED  BY <1>1, <1>2, <1>8, <1>9, <1>10 DEF Quiet, ProgramQuiet

(* A character is received.                                                *)
LEMMA TakenIs ==
  ASSUME LineFacts, TakeCharacter
  PROVE  /\ Head(abPrecbuf) \in OnTheWire /\ Pieces' \in Seq(OnTheWire)
         /\ Pieces = <<Head(abPrecbuf)>> \o Pieces'
<1>1. abPrecbuf \in Seq(OnTheWire) /\ echo \in Seq(OnTheWire) /\ abPrecbuf # <<>>
  BY DEF LineFacts, TakeCharacter
<1>2. PICK c, q : c = Head(abPrecbuf) /\ q = Tail(abPrecbuf)
  OBVIOUS
<1>3. c \in OnTheWire /\ q \in Seq(OnTheWire) /\ abPrecbuf = <<c>> \o q
  BY <1>1, <1>2, HeadAndTail
<1>4. abPrecbuf' = q /\ echo' = echo
  BY <1>2 DEF TakeCharacter, line
<1>5. <<c>> \in Seq(OnTheWire)
  BY <1>3, SingleType
<1>6. (<<c>> \o q) \o echo = <<c>> \o (q \o echo)
  BY ONLY <1>1, <1>3, <1>5, ConcatAssociative, SMTT(30)
<1>7. Pieces' = q \o echo /\ q \o echo \in Seq(OnTheWire)
  BY <1>1, <1>3, <1>4, ConcatProperties DEF Pieces
<1>8. Pieces = (<<c>> \o q) \o echo
  BY <1>3 DEF Pieces
<1> QED  BY <1>2, <1>3, <1>6, <1>7, <1>8

LEMMA TakenFewer ==
  ASSUME NEW c \in OnTheWire, NEW q \in Seq(OnTheWire)
  PROVE  Fewer(q, <<c>> \o q) /\ (c # "cr" /\ NoCr(q) => NoCr(<<c>> \o q))
<1>1. <<>> \in Seq(OnTheWire) /\ <<>> \o q = q
  OBVIOUS
<1>2. PICK s : s = <<c>> \o q
  OBVIOUS
<1>3. /\ s \in Seq(OnTheWire) /\ Len(s) = 1 + Len(q) /\ s[1] = c /\ Len(q) \in Nat
      /\ \A i \in 1..Len(q) : s[1 + i] = q[i]
  BY <1>2, WireRest
<1>4. <<>> \o s = s
  BY <1>3
<1>5. Fewer(<<>> \o q, <<>> \o (<<c>> \o q))
  BY <1>1, FewerDropped
<1>6. ASSUME c # "cr", NoCr(q), NEW i \in 1..Len(s)
      PROVE  s[i] # "cr"
  <2>1. CASE i = 1
    BY <1>3, <1>6, <2>1
  <2>2. CASE i # 1
    <3>1. i - 1 \in 1..Len(q) /\ i = 1 + (i - 1)
      BY <1>3, <2>2
    <3>2. PICK j \in 1..Len(q) : i = 1 + j
      BY <3>1, Zenon
    <3> QED  BY <1>3, <1>6, <3>2 DEF NoCr
  <2> QED  BY <2>1, <2>2
<1> QED  BY <1>1, <1>2, <1>4, <1>5, <1>6 DEF NoCr

LEMMA QuietTake ==
  ASSUME LineFacts, PlaceInv, TakeCharacter, Head(abPrecbuf) # Head(zsendbuf)
  PROVE  Quiet
<1>1. /\ file' = file /\ cuvar' = cuvar /\ next' = next /\ zbuf' = zbuf
      /\ zsendbuf' = zsendbuf /\ wire' = wire /\ remote' = remote /\ lost' = lost
      /\ outcome' = outcome
  BY DEF TakeCharacter, given, line
<1>2. zsendbuf # <<>> /\ at' = "look"
  <2>1. zsendbuf # <<>>
    BY DEF TakeCharacter, PlaceInv
  <2> QED  BY <1>1, <2>1 DEF TakeCharacter
<1>3. PICK c, q : c = Head(abPrecbuf) /\ q = Pieces'
  OBVIOUS
<1>4. c \in OnTheWire /\ q \in Seq(OnTheWire) /\ Pieces = <<c>> \o q
  BY <1>3, TakenIs
<1>5. Fewer(q, <<c>> \o q) /\ (c # "cr" /\ NoCr(q) => NoCr(<<c>> \o q))
  BY <1>4, TakenFewer
<1>6. EndArrivedNow => c # "cr"
  <2>1. EndArrivedNow => zsendbuf = <<"cr">>
    BY DEF EndArrivedNow, EndArrived, EndSent
  <2>2. Head(<<"cr">>) = "cr"
    OBVIOUS
  <2> QED  BY <1>3, <2>1, <2>2
<1>7. Once' => Once
  BY <1>1 DEF Once
<1> QED  BY <1>1, <1>2, <1>3, <1>4, <1>5, <1>6, <1>7 DEF Quiet

LEMMA TakeLines ==
  ASSUME LineFacts, PlaceInv, SendPlace, LineNow, TakeCharacter,
         Head(abPrecbuf) = Head(zsendbuf)
  PROVE  SendPlace' /\ LineNow'
<1>0. /\ file' = file /\ cuvar' = cuvar /\ next' = next /\ zbuf' = zbuf
      /\ wire' = wire /\ remote' = remote /\ lost' = lost /\ outcome' = outcome
      /\ zsendbuf' = Tail(zsendbuf)
  BY DEF TakeCharacter, given, line
<1>1. zsendbuf # <<>> /\ outcome = "none" /\ (at' \in {"buffer", "chunk"} => zsendbuf' = <<>>)
  BY DEF TakeCharacter, PlaceInv, AfterChunk
<1>2. PICK f, k, b, z, w, p, d, L, o :
        /\ f = file /\ k = current /\ b = zbuf /\ z = zsendbuf /\ w = wire
        /\ p = remote.pending /\ d = lost.dead /\ L = remote.lines /\ o = Once
  OBVIOUS
<1>3. PICK c, q : c = Head(abPrecbuf) /\ q = Pieces'
  OBVIOUS
<1>4. c \in OnTheWire /\ q \in Seq(OnTheWire) /\ Pieces = <<c>> \o q
  BY <1>3, TakenIs
<1>5. /\ file' = f /\ current' = k /\ zbuf' = b /\ zsendbuf' = Tail(z) /\ wire' = w
      /\ remote'.pending = p /\ remote'.lines = L /\ lost'.dead = d
      /\ (Once' <=> o) /\ (EofDue' <=> EofDue) /\ c = Head(z) /\ z # <<>>
      /\ p \in Seq(OnTheWire)
  BY <1>0, <1>1, <1>2, <1>3 DEF current, EofDue, Once, LineFacts
<1>6. PICK v : v = Once'
  OBVIOUS
<1>7. (v => o) /\ (o => v)
  BY <1>5, <1>6
<1>8. \A j : (Has(f, j, L, o) => Has(f, j, L, v)) /\ (Behind(f, j, L, o) => Behind(f, j, L, v))
  BY <1>7, HasWeaker
<1>9. CASE InLineNow
  <2>1. InLine(f, k, b, z, <<c>> \o q, w, p, d) /\ Behind(f, k, L, o)
        /\ (EofDue => w # <<>> /\ LastOf(w) = "eof")
    BY <1>2, <1>4, <1>9 DEF InLineNow
  <2>2. InLine(f, k, b, Tail(z), q, w, p, d)
    BY <1>4, <1>5, <2>1, InLineHeard
  <2>3. InLineNow'
    BY <1>3, <1>5, <1>6, <1>8, <2>1, <2>2 DEF InLineNow
  <2>4. WireOK(wire', zsendbuf', outcome')
    <3>1. \A i \in 1..Len(w) : w[i] # "cr"
      <4>1. z \in Seq(Printable)
        BY <2>1 DEF InLine
      <4>2. z # <<"cr">>
        <5>1. Head(z) \in Printable
          BY <1>5, <4>1, HeadTailProperties
        <5>2. Head(<<"cr">>) = "cr"
          OBVIOUS
        <5> QED  BY <5>1, <5>2, NotPrintable
      <4> QED  BY <1>2, <4>2 DEF SendPlace, WireOK
    <3> QED  BY <1>0, <1>2, <3>1 DEF SendPlace, WireOK
  <2>5. SendPlace'
    BY <1>0, <1>1, <1>2, <1>5, <2>4 DEF SendPlace
  <2> QED  BY <2>3, <2>5 DEF LineNow
<1>10. CASE EndArrivedNow
  <2>1. EndArrived(f, k, b, z, <<c>> \o q, w, p, o) /\ Has(f, k, L, o)
    BY <1>2, <1>4, <1>10 DEF EndArrivedNow
  <2>2. /\ k >= 1 /\ Finished(f, k, b) /\ z = <<"cr">> /\ Num(<<c>> \o q) = 0
        /\ w = <<>> /\ p = <<>> /\ (Stale \/ OneCr(<<c>> \o q))
    BY <2>1 DEF EndArrived, EndSent
  <2>3. Tail(z) = <<>> /\ c = "cr"
    BY <1>5, <2>2
  <2>4. Num(q) = 0
    <3>1. Fewer(q, <<c>> \o q) /\ <<c>> \o q \in Seq(OnTheWire)
      BY <1>4, TakenFewer, WireRest
    <3> QED  BY <2>2, <3>1, NumFewer
  <2>5. OneCr(<<c>> \o q) => NoCr(q)
    <3>1. PICK s : s = <<c>> \o q
      OBVIOUS
    <3>2. /\ Len(s) = 1 + Len(q) /\ s[1] = c /\ Len(q) \in Nat
          /\ \A i \in 1..Len(q) : s[1 + i] = q[i]
      BY <1>4, <3>1, WireRest
    <3>3. ASSUME OneCr(s), NEW i \in 1..Len(q), q[i] = "cr"
          PROVE  FALSE
      <4>1. 1 \in 1..Len(s) /\ 1 + i \in 1..Len(s) /\ 1 # 1 + i
        BY <3>2
      <4>2. s[1] = "cr" /\ s[1 + i] = "cr"
        BY <2>3, <3>2, <3>3
      <4> QED  BY <3>3, <4>1, <4>2 DEF OneCr
    <3> QED  BY <3>1, <3>3 DEF NoCr
  <2>6. Between(f, k, b, Tail(z), q, w, p)
    BY <2>2, <2>3, <2>4, <2>5 DEF Between
  <2>7. BetweenNow'
    BY <1>3, <1>5, <1>6, <1>8, <2>1, <2>6 DEF BetweenNow
  <2>8. WireOK(wire', zsendbuf', outcome')
    <3>1. wire' = <<>> /\ Len(<<>>) = 0
      BY <1>5, <2>2
    <3> QED  BY <3>1 DEF WireOK
  <2>9. SendPlace'
    BY <1>0, <1>1, <1>2, <1>5, <2>8 DEF SendPlace
  <2> QED  BY <2>7, <2>9 DEF LineNow
<1>11. CASE EndOnWayNow \/ EndLostNow
  <2>1. NoCr(<<c>> \o q) /\ z = <<"cr">>
    BY <1>2, <1>4, <1>11 DEF EndOnWayNow, EndLostNow, EndOnWay, EndLost, EndSent
  <2>2. c = "cr"
    BY <1>5, <2>1
  <2>3. 1 \in 1..Len(<<c>> \o q) /\ (<<c>> \o q)[1] = c
    <3>1. Len(<<c>> \o q) = 1 + Len(q) /\ (<<c>> \o q)[1] = c /\ Len(q) \in Nat
      BY <1>4, WireRest
    <3> QED  BY <3>1
  <2> QED  BY <2>1, <2>2, <2>3 DEF NoCr
<1>12. CASE BetweenNow \/ AllNow
  BY <1>1, <1>12 DEF BetweenNow, Between, AllNow
<1> QED  BY <1>9, <1>10, <1>11, <1>12 DEF LineNow

(* A character arrives or is lost.                                         *)
WireMoves ==
  /\ wire # <<>> /\ wire' = Tail(wire)
  /\ file' = file /\ cuvar' = cuvar /\ next' = next /\ at' = at
  /\ zbuf' = zbuf /\ zsendbuf' = zsendbuf /\ abPrecbuf' = abPrecbuf /\ outcome' = outcome

LEMMA WireMovesIs ==
  ASSUME Arrive \/ LoseSent
  PROVE  WireMoves
  BY DEF Arrive, LoseSent, WireMoves, theProgram, given

LEMMA FirstIs ==
  ASSUME LineFacts, WireMoves, SendPlace
  PROVE  \E c \in OnTheWire, w \in Seq(OnTheWire) :
           /\ c = Head(wire) /\ wire' = w /\ wire = <<c>> \o w
           /\ WireOK(w, zsendbuf, outcome) /\ NoKill(w)
           /\ c \in Printable \cup {"tab", "kill", "cr", "eof"}
           /\ c \in {"cr", "eof"} => w = <<>>
           /\ c = "eof" => outcome = "complete"
           /\ c = "cr" => zsendbuf = <<"cr">>
           /\ w # <<>> => LastOf(wire) = LastOf(w)
           /\ w = <<>> => LastOf(wire) = c
<1>1. PICK c, w : c = Head(wire) /\ w = Tail(wire)
  OBVIOUS
<1>2. c \in OnTheWire /\ w \in Seq(OnTheWire) /\ wire = <<c>> \o w /\ wire' = w
  BY <1>1, HeadAndTail DEF LineFacts, WireMoves
<1>3. WireOK(<<c>> \o w, zsendbuf, outcome)
  BY <1>2 DEF SendPlace
<1>4. /\ WireOK(w, zsendbuf, outcome) /\ NoKill(w)
      /\ c \in Printable \cup {"tab", "kill", "cr", "eof"}
      /\ c \in {"cr", "eof"} => w = <<>>
      /\ c = "eof" => outcome = "complete"
      /\ c = "cr" => zsendbuf = <<"cr">>
  BY <1>2, <1>3, WireOKRest
<1>5. /\ Len(<<c>> \o w) = 1 + Len(w) /\ (<<c>> \o w)[1] = c
      /\ w # <<>> => LastOf(<<c>> \o w) = LastOf(w)
  BY <1>2, WireRest
<1>6. w = <<>> => LastOf(<<c>> \o w) = c
  BY <1>5 DEF LastOf
<1> QED  BY <1>1, <1>2, <1>4, <1>5, <1>6

LEMMA MovesPlace ==
  ASSUME SendPlace, WireMoves, WireOK(wire', zsendbuf, outcome), ~remote'.literal
  PROVE  SendPlace'
<1>1. current' = current
  BY DEF WireMoves, current
<1> QED  BY <1>1 DEF WireMoves, SendPlace

LEMMA LoseLines ==
  ASSUME CheckedFiles, EchoesApart, LineFacts, LostTypes, SendPlace, LineNow, LoseSent
  PROVE  SendPlace' /\ LineNow'
<1>0. WireMoves
  BY WireMovesIs
<1>1. PICK c \in OnTheWire, w \in Seq(OnTheWire) :
        /\ c = Head(wire) /\ wire' = w /\ wire = <<c>> \o w
        /\ WireOK(w, zsendbuf, outcome) /\ NoKill(w)
        /\ c \in Printable \cup {"tab", "kill", "cr", "eof"}
        /\ c \in {"cr", "eof"} => w = <<>>
        /\ c = "eof" => outcome = "complete"
        /\ c = "cr" => zsendbuf = <<"cr">>
        /\ w # <<>> => LastOf(wire) = LastOf(w)
        /\ w = <<>> => LastOf(wire) = c
  BY <1>0, FirstIs
<1>2. c # "eof" /\ (c = "kill" => lost.dead)
  BY <1>1 DEF LoseSent
<1>3. remote' = remote /\ echo' = echo
  BY DEF LoseSent
<1>4. lost'.dead = lost.dead /\ lost'.echoes = lost.echoes
  <2>1. lost' = lost \/ lost' = [lost EXCEPT !.sent = @ + 1]
    BY DEF LoseSent
  <2>2. lost \in [sent : 0..MaxLost, echoes : 0..MaxUnheard, kills : Nat, dead : BOOLEAN]
    BY DEF LostTypes
  <2> QED  BY <2>1, <2>2
<1>5. SendPlace'
  <2>1. WireOK(wire', zsendbuf, outcome) /\ ~remote'.literal
    BY <1>1, <1>3 DEF SendPlace
  <2> QED  BY <1>0, <2>1, MovesPlace
<1>6. PICK f, k, b, z, s, p, d, L, o :
        /\ f = file /\ k = current /\ b = zbuf /\ z = zsendbuf /\ s = Pieces
        /\ p = remote.pending /\ d = lost.dead /\ L = remote.lines /\ o = Once
  OBVIOUS
<1>7. PICK v : v = Once'
  OBVIOUS
<1>8. /\ file' = f /\ current' = k /\ zbuf' = b /\ zsendbuf' = z /\ Pieces' = s
      /\ remote'.pending = p /\ remote'.lines = L /\ lost'.dead = d /\ Once' = v
      /\ (EofDue' <=> EofDue) /\ (v => o)
  BY <1>0, <1>3, <1>4, <1>6, <1>7 DEF WireMoves, current, EofDue, Once, Pieces
<1>9. /\ s \in Seq(OnTheWire) /\ p \in Seq(OnTheWire) /\ f \in Files /\ k \in 0..Len(f)
  BY <1>6 DEF LineFacts
<1>10. \A j : Behind(f, j, L, o) => Behind(f, j, L, v)
  BY <1>8, HasWeaker
<1>11. CASE InLineNow
  <2>1. InLine(f, k, b, z, s, <<c>> \o w, p, d) /\ Behind(f, k, L, o)
        /\ (EofDue => LastOf(wire) = "eof")
    BY <1>1, <1>6, <1>11 DEF InLineNow
  <2>2. InLine(f, k, b, z, s, w, p, d)
    BY <1>2, <1>6, <1>9, <2>1, InLineLost
  <2>3. EofDue => w # <<>> /\ LastOf(w) = "eof"
    BY <1>1, <1>2, <2>1
  <2>4. InLineNow'
    BY <1>1, <1>8, <1>10, <2>1, <2>2, <2>3 DEF InLineNow
  <2> QED  BY <1>5, <2>4 DEF LineNow
<1>12. CASE EndOnWayNow
  <2>1. EndOnWay(f, k, b, z, s, <<c>> \o w, p, d) /\ Behind(f, k, L, o)
    BY <1>1, <1>6, <1>12 DEF EndOnWayNow
  <2>2. k \in 1..Len(f)
    BY <1>9, <2>1 DEF EndOnWay, EndSent
  <2>3. (c = "kill" => d) /\ (c = "cr" => w = <<>>)
    BY <1>1, <1>2, <1>6
  <2>4. EndLost(f, k, b, z, s, w) \/ EndOnWay(f, k, b, z, s, w, p, d)
    BY <1>9, <2>1, <2>2, <2>3, EndOnWayLost
  <2>5. EndLostNow' \/ EndOnWayNow'
    BY <1>1, <1>8, <1>10, <2>1, <2>4 DEF EndLostNow, EndOnWayNow
  <2> QED  BY <1>5, <2>5 DEF LineNow
<1>13. CASE EndLostNow \/ EndArrivedNow \/ AllNow
  BY <1>0, <1>13 DEF WireMoves, EndLostNow, EndLost, EndArrivedNow, EndArrived, AllNow
<1>14. CASE BetweenNow
  <2>1. wire = <<"eof">>
    BY <1>0, <1>14 DEF WireMoves, BetweenNow, Between
  <2>2. Head(<<"eof">>) = "eof"
    OBVIOUS
  <2> QED  BY <1>1, <1>2, <2>1, <2>2
<1> QED  BY <1>11, <1>12, <1>13, <1>14 DEF LineNow

(* What the remote terminal does with a character, that is not literal.    *)
LEMMA AcceptedIs ==
  ASSUME NEW r \in RemoteType, ~r.literal, NEW c \in Showing \cup {"kill", "cr", "eof"}
  PROVE  /\ ~Accept(r, c).literal
         /\ c \in Showing => /\ Accept(r, c).pending = Append(r.pending, c)
                             /\ Accept(r, c).lines = r.lines /\ Echo(r, c) = <<c>>
         /\ c = "kill" => /\ Accept(r, c).pending = <<>>
                          /\ Accept(r, c).lines = r.lines /\ Echo(r, c) = KillEcho
         /\ c = "cr" => /\ Accept(r, c).pending = <<>>
                        /\ Accept(r, c).lines = Append(r.lines, r.pending)
                        /\ Echo(r, c) = NewlineEcho
         /\ c = "eof" => /\ Accept(r, c).pending = <<>>
                         /\ Accept(r, c).lines = IF r.pending = <<>> THEN r.lines
                                                 ELSE Append(r.lines, r.pending)
                         /\ Echo(r, c) = <<>>
<1>1. Printable \cap {"tab", "ctl", "nl", "cr", "kill", "prefix", "eof"} = {}
  BY NotPrintable
<1>2. r = [pending |-> r.pending, literal |-> r.literal, open |-> r.open, lines |-> r.lines]
  BY DEF RemoteType
<1>3. CASE c \in Showing
  <2>1. c \notin {"cr", "nl", "kill", "prefix", "eof"}
    BY <1>1, <1>3 DEF Showing
  <2>2. Echo(r, c) = <<c>>
    BY <2>1 DEF Echo
  <2>3. Accept(r, c) = [r EXCEPT !.pending = Append(@, c)]
    BY <2>1 DEF Accept
  <2> QED  BY <1>2, <2>1, <2>2, <2>3
<1>4. CASE c = "kill"
  <2>1. Echo(r, c) = KillEcho /\ Accept(r, c) = [r EXCEPT !.pending = <<>>]
    BY <1>4 DEF Echo, Accept
  <2> QED  BY <1>1, <1>2, <1>4, <2>1 DEF Showing
<1>5. CASE c = "cr"
  <2>1. Echo(r, c) = NewlineEcho /\ Accept(r, c) = HandOver(r)
    BY <1>5 DEF Echo, Accept
  <2>2. HandOver(r) = [r EXCEPT !.lines = Append(@, r.pending), !.pending = <<>>]
    BY DEF HandOver
  <2> QED  BY <1>1, <1>2, <1>5, <2>1, <2>2 DEF Showing
<1>6. CASE c = "eof"
  <2>1. Echo(r, c) = <<>>
    BY <1>6 DEF Echo
  <2>2. HandOver(r) = [r EXCEPT !.lines = Append(@, r.pending), !.pending = <<>>]
    BY DEF HandOver
  <2>3. CASE r.pending = <<>>
    <3>1. Accept(r, c) = [r EXCEPT !.open = FALSE]
      BY <1>6, <2>3 DEF Accept
    <3> QED  BY <1>1, <1>2, <1>6, <2>1, <2>3, <3>1 DEF Showing
  <2>4. CASE r.pending # <<>>
    <3>1. Accept(r, c) = HandOver(r)
      BY <1>6, <2>4 DEF Accept
    <3> QED  BY <1>1, <1>2, <1>6, <2>1, <2>2, <2>4, <3>1 DEF Showing
  <2> QED  BY <2>3, <2>4
<1> QED  BY <1>3, <1>4, <1>5, <1>6

LEMMA ArriveLines ==
  ASSUME CheckedFiles, EchoesApart, LineFacts, PlaceInv, SendPlace, LineNow, Arrive
  PROVE  SendPlace' /\ LineNow'
<1>0. WireMoves
  BY WireMovesIs
<1>1. PICK c \in OnTheWire, w \in Seq(OnTheWire) :
        /\ c = Head(wire) /\ wire' = w /\ wire = <<c>> \o w
        /\ WireOK(w, zsendbuf, outcome) /\ NoKill(w)
        /\ c \in Printable \cup {"tab", "kill", "cr", "eof"}
        /\ c \in {"cr", "eof"} => w = <<>>
        /\ c = "eof" => outcome = "complete"
        /\ c = "cr" => zsendbuf = <<"cr">>
        /\ w # <<>> => LastOf(wire) = LastOf(w)
        /\ w = <<>> => LastOf(wire) = c
  BY <1>0, FirstIs
<1>2. /\ ~lost.dead /\ lost' = lost
      /\ remote' = Accept(remote, c) /\ echo' = echo \o Echo(remote, c)
  BY <1>1 DEF Arrive
<1>3. PICK f, k, b, z, s, p, d, L, o, e :
        /\ f = file /\ k = current /\ b = zbuf /\ z = zsendbuf /\ s = Pieces
        /\ p = remote.pending /\ d = lost.dead /\ L = remote.lines /\ o = Once
        /\ e = Echo(remote, c)
  OBVIOUS
<1>4. remote \in RemoteType /\ ~remote.literal /\ c \in Showing \cup {"kill", "cr", "eof"}
  BY <1>1 DEF LineFacts, SendPlace, Showing
<1>5. /\ ~remote'.literal
      /\ c \in Showing => remote'.pending = Append(p, c) /\ remote'.lines = L /\ e = <<c>>
      /\ c = "kill" => remote'.pending = <<>> /\ remote'.lines = L /\ e = KillEcho
      /\ c = "cr" => remote'.pending = <<>> /\ remote'.lines = Append(L, p) /\ e = NewlineEcho
      /\ c = "eof" => /\ remote'.pending = <<>> /\ e = <<>>
                      /\ remote'.lines = IF p = <<>> THEN L ELSE Append(L, p)
  BY <1>2, <1>3, <1>4, AcceptedIs
<1>6. SendPlace'
  <2>1. WireOK(wire', zsendbuf, outcome) /\ ~remote'.literal
    BY <1>1, <1>5
  <2> QED  BY <1>0, <2>1, MovesPlace
<1>7. /\ s \in Seq(OnTheWire) /\ p \in Seq(OnTheWire) /\ f \in Files /\ k \in 0..Len(f)
      /\ L \in Seq(Seq(OnTheWire)) /\ f \in Seq(Seq(Characters))
      /\ abPrecbuf \in Seq(OnTheWire) /\ echo \in Seq(OnTheWire)
  BY <1>3 DEF LineFacts
<1>8. PICK v : v = Once'
  OBVIOUS
<1>9. Pieces' = s \o e
  <2>1. e \in Seq(OnTheWire)
    BY <1>3, EchoType
  <2>2. Pieces' = abPrecbuf \o (echo \o e)
    BY <1>0, <1>2, <1>3 DEF WireMoves, Pieces
  <2>3. s = abPrecbuf \o echo
    BY <1>3 DEF Pieces
  <2>4. (abPrecbuf \o echo) \o e = abPrecbuf \o (echo \o e)
    <3>1. abPrecbuf \in Seq(OnTheWire) /\ echo \in Seq(OnTheWire) /\ e \in Seq(OnTheWire)
      BY <1>7, <2>1
    <3> QED  BY ONLY <3>1, ConcatAssociative, SMTT(30)
  <2> QED  BY <2>2, <2>3, <2>4
<1>10. /\ file' = f /\ current' = k /\ zbuf' = b /\ zsendbuf' = z /\ outcome' = outcome
       /\ lost'.dead = d /\ Once' = v /\ (EofDue' <=> EofDue) /\ v = o /\ ~d
  BY <1>0, <1>2, <1>3, <1>8 DEF WireMoves, current, EofDue, Once
<1>11. ASSUME c \in Showing
       PROVE  c \notin {"kill", "cr", "eof"}
  BY <1>11, NotPrintable DEF Showing
<1>12. CASE InLineNow
  <2>1. InLine(f, k, b, z, s, <<c>> \o w, p, d) /\ Behind(f, k, L, o)
        /\ (EofDue => LastOf(wire) = "eof")
    BY <1>1, <1>3, <1>12 DEF InLineNow
  <2>2. k >= 1 /\ z \in Seq(Printable)
    BY <2>1 DEF InLine
  <2>3. CASE c \in Showing
    <3>1. InLine(f, k, b, z, s \o <<c>>, w, Append(p, c), d)
      BY <1>1, <1>7, <1>10, <2>1, <2>3, InLineArrived
    <3>2. EofDue => w # <<>> /\ LastOf(w) = "eof"
      BY <1>1, <1>11, <2>1, <2>3
    <3>3. InLineNow'
      BY <1>1, <1>5, <1>9, <1>10, <2>1, <2>3, <3>1, <3>2 DEF InLineNow
    <3> QED  BY <1>6, <3>3 DEF LineNow
  <2>4. CASE c = "kill"
    <3>1. InLine(f, k, b, z, s \o KillEcho, w, <<>>, d)
      BY <1>1, <1>7, <1>10, <2>1, <2>4, InLineKilled
    <3>2. EofDue => w # <<>> /\ LastOf(w) = "eof"
      BY <1>1, <2>1, <2>4
    <3>3. InLineNow'
      BY <1>1, <1>5, <1>9, <1>10, <2>1, <2>4, <3>1, <3>2 DEF InLineNow
    <3> QED  BY <1>6, <3>3 DEF LineNow
  <2>5. c # "cr"
    <3>1. <<"cr">> \in Seq(Printable) => "cr" \in Printable
      <4>1. Len(<<"cr">>) = 1 /\ <<"cr">>[1] = "cr"
        OBVIOUS
      <4> QED  BY <4>1
    <3>2. "cr" \notin Printable
      BY NotPrintable
    <3> QED  BY <1>1, <1>3, <2>2, <3>1, <3>2
  <2>6. CASE c = "eof"
    <3>1. outcome = "complete" /\ w = <<>>
      BY <1>1, <2>6
    <3>2. b = <<>> /\ z = <<>>
      BY <1>3, <3>1 DEF PlaceInv, SendPlace
    <3>3. <<"eof">> \o <<>> = <<"eof">>
      <4>1. <<"eof">> \in Seq(OnTheWire)
        BY OnTheWireHas, SingleType
      <4> QED  BY <4>1
    <3>4. InLine(f, k, <<>>, <<>>, s, <<"eof">>, p, d)
      BY <2>1, <2>6, <3>1, <3>2, <3>3
    <3>5. k \in 1..Len(f)
      BY <1>7, <2>2
    <3>6. Seen(p) = Seen(f[k]) /\ p # <<>>
      BY <1>7, <1>10, <3>4, <3>5, InLineEnds
    <3>7. Has(f, k, Append(L, p), o)
      BY <1>7, <2>1, <3>5, <3>6, HandedNext
    <3>8. remote'.lines = Append(L, p)
      BY <1>5, <2>6, <3>6
    <3>9. AllNow'
      BY <1>1, <1>8, <1>10, <3>1, <3>7, <3>8 DEF AllNow
    <3> QED  BY <1>6, <3>9 DEF LineNow
  <2> QED  BY <1>4, <2>3, <2>4, <2>5, <2>6
<1>13. CASE EndOnWayNow
  <2>1. EndOnWay(f, k, b, z, s, <<c>> \o w, p, d) /\ Behind(f, k, L, o) /\ LastOf(wire) = "cr"
    BY <1>1, <1>3, <1>13 DEF EndOnWayNow, EndOnWay
  <2>2. k \in 1..Len(f)
    BY <1>7, <2>1 DEF EndOnWay, EndSent
  <2>3. CASE c \in Showing
    <3>1. EndOnWay(f, k, b, z, s \o <<c>>, w, Append(p, c), d)
      BY <1>1, <1>7, <1>10, <2>1, <2>2, <2>3, EndOnWayTab
    <3>2. EndOnWayNow'
      BY <1>1, <1>5, <1>9, <1>10, <2>1, <2>3, <3>1 DEF EndOnWayNow
    <3> QED  BY <1>6, <3>2 DEF LineNow
  <2>4. CASE c = "kill"
    <3>1. EndOnWay(f, k, b, z, s \o KillEcho, w, <<>>, d)
      BY <1>1, <1>7, <1>10, <2>1, <2>2, <2>4, EndOnWayKilled
    <3>2. EndOnWayNow'
      BY <1>1, <1>5, <1>9, <1>10, <2>1, <2>4, <3>1 DEF EndOnWayNow
    <3> QED  BY <1>6, <3>2 DEF LineNow
  <2>5. c # "eof"
    BY <1>1, <2>1
  <2>6. CASE c = "cr"
    <3>1. w = <<>>
      BY <1>1, <2>6
    <3>2. <<"cr">> \o <<>> = <<"cr">>
      <4>1. <<"cr">> \in Seq(OnTheWire)
        BY OnTheWireHas, SingleType
      <4> QED  BY <4>1
    <3>3. EndOnWay(f, k, b, z, s, <<"cr">>, p, d)
      BY <2>1, <2>6, <3>1, <3>2
    <3>4. o => NewlineHeard
      BY <1>3 DEF Once
    <3>5. /\ EndArrived(f, k, b, z, s \o NewlineEcho, <<>>, <<>>, o)
          /\ Seen(p) = Seen(f[k])
      <4>1. s \in Seq(OnTheWire) /\ p \in Seq(OnTheWire) /\ f \in Files /\ ~d
        BY <1>7, <1>10
      <4> QED  BY ONLY CheckedFiles, EchoesApart, <2>2, <3>3, <3>4, <4>1, EndOnWayArrived
    <3>6. Has(f, k, Append(L, p), o)
      BY <1>7, <2>1, <2>2, <3>5, HandedNext
    <3>7. EndArrivedNow'
      BY <1>1, <1>5, <1>8, <1>9, <1>10, <2>6, <3>1, <3>5, <3>6 DEF EndArrivedNow
    <3> QED  BY <1>6, <3>7 DEF LineNow
  <2> QED  BY <1>4, <2>3, <2>4, <2>5, <2>6
<1>14. CASE EndLostNow \/ EndArrivedNow \/ AllNow
  BY <1>0, <1>14 DEF WireMoves, EndLostNow, EndLost, EndArrivedNow, EndArrived, AllNow
<1>15. CASE BetweenNow
  <2>1. Between(f, k, b, z, s, wire, p) /\ Has(f, k, L, o)
    BY <1>3, <1>15 DEF BetweenNow
  <2>2. wire = <<"eof">> /\ p = <<>>
    BY <1>0, <2>1 DEF WireMoves, Between
  <2>3. c = "eof" /\ w = <<>>
    <3>1. Head(<<"eof">>) = "eof"
      OBVIOUS
    <3> QED  BY <1>1, <2>2, <3>1
  <2>4. s \o <<>> = s
    BY <1>7
  <2>5. Pieces' = s /\ remote'.pending = <<>> /\ remote'.lines = L
    BY <1>5, <1>9, <2>2, <2>3, <2>4
  <2>6. Between(f, k, b, z, s, <<>>, <<>>)
    BY <2>1 DEF Between
  <2>7. BetweenNow'
    BY <1>1, <1>10, <2>1, <2>3, <2>5, <2>6 DEF BetweenNow
  <2> QED  BY <1>6, <2>7 DEF LineNow
<1> QED  BY <1>12, <1>13, <1>14, <1>15 DEF LineNow

(* What is sent when nothing is looked for.                                *)
LEMMA WireOKMore ==
  ASSUME NEW w \in Seq(OnTheWire), WireOK(w, <<>>, "none"), NEW z, NEW o,
         NEW c \in Seq(OnTheWire),
         \A i \in 1..Len(c) :
           /\ c[i] \in Printable \cup {"tab", "cr", "eof"}
           /\ c[i] \in {"cr", "eof"} => i = Len(c)
           /\ c[i] = "eof" => o = "complete"
           /\ c[i] = "cr" => z = <<"cr">>
  PROVE  WireOK(w \o c, z, o)
<1>1. PICK m \in Nat, n \in Nat : m = Len(w) /\ n = Len(c)
  OBVIOUS
<1>2. PICK v : v = w \o c
  OBVIOUS
<1>3. /\ Len(v) = m + n /\ \A i \in 1..m : v[i] = w[i]
      /\ \A i \in 1..n : v[m + i] = c[i]
  BY <1>1, <1>2
<1>4. Printable \cap {"tab", "ctl", "nl", "cr", "kill", "prefix", "eof"} = {}
  BY NotPrintable
<1>5. \A i \in 1..m : /\ w[i] \in Printable \cup {"tab", "kill"}
                      /\ w[i] = "kill" => i = 1
  <2>1. "none" # "complete" /\ <<>> # <<"cr">>
    OBVIOUS
  <2> QED  BY <1>1, <2>1 DEF WireOK
<1>6. ASSUME NEW i \in 1..Len(v)
      PROVE  /\ v[i] \in Printable \cup {"tab", "kill", "cr", "eof"}
             /\ v[i] = "kill" => i = 1
             /\ v[i] \in {"cr", "eof"} => i = Len(v)
             /\ v[i] = "eof" => o = "complete"
             /\ v[i] = "cr" => z = <<"cr">>
  <2>1. CASE i <= m
    <3>1. i \in 1..m
      BY <1>3, <2>1
    <3>2. /\ v[i] \in Printable \cup {"tab", "kill"}
          /\ v[i] = "kill" => i = 1
      BY <1>3, <1>5, <3>1
    <3>3. v[i] \notin {"cr", "eof"}
      BY <1>4, <3>2
    <3> QED  BY <3>2, <3>3
  <2>2. CASE i > m
    <3>1. PICK j \in 1..n : i = m + j
      <4>1. i - m \in 1..n /\ i = m + (i - m)
        BY <1>3, <2>2
      <4> QED  BY <4>1, Zenon
    <3>2. v[i] = c[j] /\ j \in 1..Len(c)
      BY <1>1, <1>3, <3>1
    <3>3. /\ c[j] \in Printable \cup {"tab", "cr", "eof"}
          /\ c[j] \in {"cr", "eof"} => j = Len(c)
          /\ c[j] = "eof" => o = "complete"
          /\ c[j] = "cr" => z = <<"cr">>
      BY <3>2
    <3>4. c[j] # "kill"
      BY <1>4, <3>3
    <3> QED  BY <1>1, <1>3, <3>1, <3>2, <3>3, <3>4
  <2> QED  BY <1>1, <1>3, <2>1, <2>2
<1> QED  BY <1>2, <1>6 DEF WireOK

LEMMA WireOKNone == \A z, o : WireOK(<<>>, z, o)
<1>1. Len(<<>>) = 0
  OBVIOUS
<1> QED  BY <1>1 DEF WireOK

(* Where the file is read, the line sent before is through.                *)
LEMMA AtBuffer ==
  ASSUME LineFacts, PlaceInv, SendPlace, LineNow, at = "buffer"
  PROVE  /\ outcome = "none" /\ zbuf = <<>> /\ zsendbuf = <<>> /\ WireOK(wire, <<>>, "none")
         /\ InLineNow \/ (BetweenNow /\ wire = <<>>)
<1>1. outcome = "none" /\ zbuf = <<>> /\ zsendbuf = <<>>
  BY DEF PlaceInv, SendPlace
<1>2. WireOK(wire, <<>>, "none")
  BY <1>1 DEF SendPlace
<1>3. ~EndOnWayNow /\ ~EndLostNow /\ ~EndArrivedNow /\ ~AllNow
  BY <1>1 DEF EndOnWayNow, EndOnWay, EndLostNow, EndLost, EndArrivedNow, EndArrived, EndSent,
              AllNow
<1>4. wire # <<"eof">>
  <2>1. 1 \in 1..Len(<<"eof">>) /\ <<"eof">>[1] = "eof"
    OBVIOUS
  <2> QED  BY <1>2, <2>1 DEF WireOK
<1> QED  BY <1>1, <1>2, <1>3, <1>4 DEF LineNow, BetweenNow, Between

LEMMA ReadLines ==
  ASSUME CheckedFiles, EchoesApart, LineFacts, PlaceInv, SendPlace, LineNow, ReadFile
  PROVE  SendPlace' /\ LineNow'
<1>1. at = "buffer"
  BY DEF ReadFile
<1>2. /\ outcome = "none" /\ zbuf = <<>> /\ zsendbuf = <<>> /\ WireOK(wire, <<>>, "none")
      /\ InLineNow \/ (BetweenNow /\ wire = <<>>)
  BY <1>1, AtBuffer
<1>3. PICK f, k, j, s, p, d, L, o :
        /\ f = file /\ k = current /\ j = current + 1 /\ s = Pieces
        /\ p = remote.pending /\ d = lost.dead /\ L = remote.lines /\ o = Once
  OBVIOUS
<1>4. /\ s \in Seq(OnTheWire) /\ p \in Seq(OnTheWire) /\ f \in Files /\ k \in 0..Len(f)
      /\ f \in Seq(Seq(Characters)) /\ next = j /\ Buffers = f /\ Len(f) \in Nat
  BY <1>3 DEF LineFacts
<1>5. j \in 1..Len(f) /\ k < Len(f) /\ j = k + 1 /\ j - 1 = k /\ j + 1 - 1 = j
  BY <1>3, <1>4 DEF ReadFile
<1>6. f[j] # <<>>
  BY <1>4, <1>5, TheLine
<1>7. /\ file' = f /\ current' = j /\ zbuf' = f[j] /\ zsendbuf' = <<>> /\ Pieces' = s
      /\ wire' = wire /\ remote' = remote /\ lost' = lost /\ outcome' = "none" /\ at' = "chunk"
  BY <1>2, <1>3, <1>4, <1>5, <1>6 DEF ReadFile, given, line, current, Pieces
<1>8. PICK v : v = Once'
  OBVIOUS
<1>9. v = o /\ remote'.pending = p /\ remote'.lines = L /\ lost'.dead = d /\ ~EofDue'
  BY <1>3, <1>7, <1>8 DEF Once, EofDue
<1>10. ~InLineNow
  <2>1. InLineNow => k >= 1 /\ ~Finished(f, k, <<>>)
    BY <1>2, <1>3 DEF InLineNow, InLine
  <2>2. k >= 1 => k \in 1..Len(f)
    BY <1>4
  <2>3. k \in 1..Len(f) => (LastOf(f[k]) # "nl" => k = Len(f))
    BY <1>4, TheLine
  <2>4. k # Len(f)
    BY <1>4, <1>5
  <2> QED  BY <2>1, <2>2, <2>3, <2>4 DEF Finished
<1>11. Between(f, k, <<>>, <<>>, s, <<>>, p) /\ Has(f, k, L, o) /\ wire = <<>>
  BY <1>2, <1>3, <1>10 DEF BetweenNow
<1>12. InLine(f, j, f[j], <<>>, s, <<>>, p, d)
  <2>1. p = <<>> /\ Num(s) = 0 /\ (Stale \/ NoCr(s))
    BY <1>11 DEF Between
  <2>2. \A q \in Seq(OnTheWire) : Num(q) = 0 /\ (Stale \/ NoCr(q)) =>
           InLine(f, j, f[j], <<>>, q, <<>>, <<>>, d)
    BY <1>4, <1>5, InLineBegins
  <2> QED  BY <1>4, <2>1, <2>2
<1>13. Behind(f, j, L, o)
  BY <1>5, <1>11 DEF Behind
<1>14. InLineNow'
  BY <1>7, <1>8, <1>9, <1>11, <1>12, <1>13 DEF InLineNow
<1>15. SendPlace'
  <2>1. WireOK(wire', zsendbuf', outcome') /\ ~remote'.literal
    BY <1>7, <1>11, WireOKNone DEF SendPlace
  <2> QED  BY <1>7, <2>1 DEF SendPlace
<1> QED  BY <1>14, <1>15 DEF LineNow

LEMMA CompleteLines ==
  ASSUME CheckedFiles, EchoesApart, Checked, LineFacts, PlaceInv, SendPlace, LineNow, Complete
  PROVE  SendPlace' /\ LineNow'
<1>1. at = "buffer"
  BY DEF Complete
<1>2. /\ outcome = "none" /\ zbuf = <<>> /\ zsendbuf = <<>> /\ WireOK(wire, <<>>, "none")
      /\ InLineNow \/ (BetweenNow /\ wire = <<>>)
  BY <1>1, AtBuffer
<1>3. PICK f, k, s, w, p, d, L, o :
        /\ f = file /\ k = current /\ s = Pieces /\ w = wire
        /\ p = remote.pending /\ d = lost.dead /\ L = remote.lines /\ o = Once
  OBVIOUS
<1>4. /\ s \in Seq(OnTheWire) /\ p \in Seq(OnTheWire) /\ f \in Files /\ k \in 0..Len(f)
      /\ w \in Seq(OnTheWire) /\ next = k + 1 /\ Buffers = f /\ Len(f) \in Nat
  BY <1>3 DEF LineFacts
<1>5. k = Len(f)
  BY <1>4 DEF Complete, Checked
<1>6. /\ file' = f /\ cuvar' = cuvar /\ current' = k /\ zbuf' = <<>> /\ zsendbuf' = <<>>
      /\ Pieces' = s /\ remote' = remote /\ lost' = lost /\ outcome' = "complete" /\ at' = "over"
  BY <1>2, <1>3 DEF Complete, Ended, given, current, Pieces
<1>7. PICK v : v = Once'
  OBVIOUS
<1>8. v = o /\ remote'.pending = p /\ remote'.lines = L /\ lost'.dead = d
      /\ (EofDue' => cuvar.zCuvar_eofwrite)
  BY <1>3, <1>6, <1>7 DEF Once, EofDue
<1>9. <<"eof">> \in Seq(OnTheWire) /\ "eof" \in OnTheWire /\ <<"eof">>[1] = "eof"
      /\ Len(<<"eof">>) = 1
  BY OnTheWireHas, SingleType
<1>10. Append(w, "eof") = w \o <<"eof">>
  BY <1>4, <1>9, AppendIsConcat
<1>11. /\ WireOK(w \o <<"eof">>, <<>>, "complete")
       /\ WireOK(w, <<>>, "complete")
  <2>1. WireOK(w, <<>>, "none")
    BY <1>2, <1>3
  <2>2. ASSUME NEW i \in 1..Len(<<"eof">>)
        PROVE  <<"eof">>[i] = "eof" /\ i = Len(<<"eof">>)
    BY <1>9
  <2>3. WireOK(w \o <<"eof">>, <<>>, "complete")
    BY <1>4, <1>9, <2>1, <2>2, WireOKMore
  <2>4. WireOK(w, <<>>, "complete")
    BY <2>1 DEF WireOK
  <2> QED  BY <2>3, <2>4
<1>12. wire' = IF cuvar.zCuvar_eofwrite THEN w \o <<"eof">> ELSE w
  BY <1>3, <1>10 DEF Complete
<1>13. SendPlace'
  <2>1. WireOK(wire', zsendbuf', outcome') /\ ~remote'.literal
    BY <1>6, <1>11, <1>12 DEF SendPlace
  <2> QED  BY <1>5, <1>6, <2>1 DEF SendPlace
<1>14. CASE InLineNow
  <2>1. InLine(f, k, <<>>, <<>>, s, w, p, d) /\ Behind(f, k, L, o)
    BY <1>2, <1>3, <1>14 DEF InLineNow
  <2>2. InLine(f, k, <<>>, <<>>, s, w \o <<"eof">>, p, d)
    BY <1>4, <2>1, InLineEof
  <2>3. w \o <<"eof">> # <<>> /\ LastOf(w \o <<"eof">>) = "eof"
    <3>1. PICK u : u = w \o <<"eof">>
      OBVIOUS
    <3>2. Len(u) = Len(w) + 1 /\ Len(w) \in Nat /\ u[Len(w) + 1] = "eof"
      BY <1>4, <1>9, <3>1
    <3>3. u # <<>>
      BY <3>2
    <3> QED  BY <3>1, <3>2, <3>3 DEF LastOf
  <2>4. /\ InLine(f, k, <<>>, <<>>, s, wire', p, d)
        /\ EofDue' => wire' # <<>> /\ LastOf(wire') = "eof"
    BY <1>8, <1>12, <2>1, <2>2, <2>3
  <2>5. InLineNow'
    BY <1>6, <1>7, <1>8, <2>1, <2>4 DEF InLineNow
  <2> QED  BY <1>13, <2>5 DEF LineNow
<1>15. CASE BetweenNow /\ wire = <<>>
  <2>1. Between(f, k, <<>>, <<>>, s, <<>>, p) /\ Has(f, k, L, o) /\ w = <<>>
    BY <1>2, <1>3, <1>15 DEF BetweenNow
  <2>2. wire' \in {<<>>, <<"eof">>}
    BY <1>9, <1>12, <2>1
  <2>3. Between(f, k, <<>>, <<>>, s, wire', p)
    BY <2>1, <2>2 DEF Between
  <2>4. BetweenNow'
    BY <1>6, <1>7, <1>8, <2>1, <2>3 DEF BetweenNow
  <2> QED  BY <1>13, <2>4 DEF LineNow
<1> QED  BY <1>2, <1>14, <1>15

LEMMA FewerRest ==
  ASSUME NEW a \in Seq(OnTheWire), NEW e \in Seq(OnTheWire)
  PROVE  Fewer(e, a \o e)
<1>1. Within(e, a \o e)
  BY WithinSame, WithinAfter
<1>2. Num(a \o e) = Num(a) + Num(e) /\ Num(a) \in Nat /\ Num(e) \in Nat
  BY SeenConcat, SeenType
<1> QED  BY <1>1, <1>2 DEF Fewer

(* What is read before a write, or with a timeout, loses nothing.          *)
LEMMA SendDataKeeps ==
  ASSUME LineFacts, NEW sent, SendData(sent)
  PROVE  Pieces' = echo /\ Fewer(Pieces', Pieces) /\ wire' = wire \o sent
<1>1. PICK n \in 0..Len(echo) : abPrecbuf' = SubSeq(echo, 1, n)
                                /\ echo' = SubSeq(echo, n + 1, Len(echo))
  BY DEF SendData
<1>2. echo \in Seq(OnTheWire) /\ abPrecbuf \in Seq(OnTheWire)
  BY DEF LineFacts
<1>3. SubSeq(echo, 1, n) \o SubSeq(echo, n + 1, Len(echo)) = echo
  BY <1>2, CutIsWhole
<1>4. Pieces' = echo
  BY <1>1, <1>3 DEF Pieces
<1>5. Fewer(echo, abPrecbuf \o echo)
  BY <1>2, FewerRest
<1> QED  BY <1>4, <1>5 DEF Pieces, SendData

(* A chunk and what becomes of it.                                         *)
LEMMA ChunkGoes ==
  ASSUME Checked, LineFacts, zbuf # <<>>, SendChunk,
         NEW n, n = ChunkLength(zbuf), NEW a, a = SubSeq(zbuf, 1, n)
  PROVE  /\ n \in 1..Len(zbuf) /\ a \in Seq(Characters) /\ Coded(a) \in Seq(OnTheWire)
         /\ zbuf' = SubSeq(zbuf, n + 1, Len(zbuf)) /\ wire' = wire \o Coded(a)
         /\ zsendbuf' = Awaited(Coded(a)) /\ (zsendbuf' # <<>> => at' = "look")
         /\ Fewer(Pieces', Pieces)
<1>1. zbuf \in Seq(Characters) /\ cuvar \in Settings
  BY DEF LineFacts
<1>2. n \in 1..Len(zbuf)
  BY <1>1, ChunkLengthType
<1>3. a \in Seq(Characters)
  BY <1>1, <1>2
<1>4. PICK c : c = Coded(a)
  OBVIOUS
<1>5. c \in Seq(OnTheWire) /\ Flat(Translate, SubSeq(zbuf, 1, ChunkLength(zbuf))) = c
  BY <1>1, <1>3, <1>4, CodedType, ChunkIs
<1>6. Checks(c)
  BY DEF Checks, Checked
<1>7. Where(c, LooksFor) = Awaited(c)
  BY <1>5, LookIs
<1>8. /\ zbuf' = SubSeq(zbuf, n + 1, Len(zbuf))
      /\ zsendbuf' = Awaited(c)
      /\ zsendbuf' # <<>> => at' = "look"
      /\ IF c = <<>> THEN abPrecbuf' = <<>> /\ wire' = wire /\ echo' = echo
         ELSE SendData(c)
  BY <1>5, <1>6, <1>7 DEF SendChunk
<1>9. wire' = wire \o c /\ Fewer(Pieces', Pieces)
  <2>1. CASE c = <<>>
    <3>1. echo \in Seq(OnTheWire) /\ abPrecbuf \in Seq(OnTheWire) /\ wire \in Seq(OnTheWire)
      BY DEF LineFacts
    <3>2. <<>> \o echo = echo /\ wire \o <<>> = wire
      BY <3>1
    <3>3. Fewer(echo, abPrecbuf \o echo)
      BY <3>1, FewerRest
    <3>4. Pieces' = echo
      BY <1>8, <2>1, <3>2 DEF Pieces
    <3> QED  BY <1>8, <2>1, <3>2, <3>3, <3>4 DEF Pieces
  <2>2. CASE c # <<>>
    BY <1>8, <2>2, SendDataKeeps
  <2> QED  BY <2>1, <2>2
<1> QED  BY <1>2, <1>3, <1>4, <1>5, <1>8, <1>9

LEMMA ChunkLines ==
  ASSUME CheckedFiles, EchoesApart, Checked, LineFacts, PlaceInv, SendPlace, LineNow, SendChunk
  PROVE  SendPlace' /\ LineNow'
<1>1. /\ at = "chunk" /\ file' = file /\ cuvar' = cuvar /\ next' = next
      /\ remote' = remote /\ lost' = lost /\ outcome' = outcome
  BY DEF SendChunk, given
<1>2. outcome = "none" /\ zbuf # <<>> /\ zsendbuf = <<>> /\ WireOK(wire, <<>>, "none")
  <2>1. outcome = "none" /\ zbuf # <<>> /\ zsendbuf = <<>>
    BY <1>1 DEF PlaceInv, SendPlace
  <2> QED  BY <2>1 DEF SendPlace
<1>3. PICK f, k, b, s, w, p, d, L, o :
        /\ f = file /\ k = current /\ b = zbuf /\ s = Pieces /\ w = wire
        /\ p = remote.pending /\ d = lost.dead /\ L = remote.lines /\ o = Once
  OBVIOUS
<1>4. /\ s \in Seq(OnTheWire) /\ p \in Seq(OnTheWire) /\ f \in Files /\ k \in 0..Len(f)
      /\ w \in Seq(OnTheWire) /\ b \in Seq(Characters) /\ cuvar \in Settings
  BY <1>3 DEF LineFacts
<1>5. InLine(f, k, b, <<>>, s, w, p, d) /\ Behind(f, k, L, o)
  <2>1. ~EndOnWayNow /\ ~EndLostNow /\ ~EndArrivedNow /\ ~BetweenNow /\ ~AllNow
    BY <1>2 DEF EndOnWayNow, EndOnWay, EndLostNow, EndLost, EndArrivedNow, EndArrived, EndSent,
                BetweenNow, Between, Finished, AllNow
  <2> QED  BY <1>2, <1>3, <2>1 DEF LineNow, InLineNow
<1>6. PICK n, a, r, u, v :
        /\ n = ChunkLength(b) /\ a = SubSeq(b, 1, n) /\ r = zbuf' /\ u = Pieces' /\ v = Once'
  OBVIOUS
<1>7. /\ n \in 1..Len(b) /\ a \in Seq(Characters) /\ Coded(a) \in Seq(OnTheWire)
      /\ r = SubSeq(b, n + 1, Len(b)) /\ wire' = w \o Coded(a)
      /\ zsendbuf' = Awaited(Coded(a)) /\ (zsendbuf' # <<>> => at' = "look")
      /\ Fewer(u, s)
  BY <1>2, <1>3, <1>6, ChunkGoes
<1>8. r \in Seq(Characters) /\ b = a \o r
  <2>1. b \in Seq(Characters) /\ n \in 0..Len(b)
    BY <1>4, <1>7
  <2>2. SubSeq(b, 1, n) \o SubSeq(b, n + 1, Len(b)) = b
    BY <2>1, CutIsWhole
  <2> QED  BY <1>6, <1>7, <2>1, <2>2, CutType
<1>9. v = o /\ remote'.pending = p /\ remote'.lines = L /\ lost'.dead = d /\ ~EofDue'
      /\ file' = f /\ current' = k
  BY <1>1, <1>2, <1>3, <1>6 DEF Once, EofDue, current
<1>10. b # <<>> /\ (b[1] = "nl" => n = 1) /\ (b[1] # "nl" => \A i \in 1..n : b[i] # "nl")
  BY <1>2, <1>3, <1>4, <1>6, ChunkLengthType
<1>11. ASSUME NEW y \in Seq(OnTheWire), y = Coded(a),
              \A i \in 1..Len(y) :
                /\ y[i] \in Printable \cup {"tab", "cr", "eof"}
                /\ y[i] \in {"cr", "eof"} => i = Len(y)
                /\ y[i] = "eof" => outcome' = "complete"
                /\ y[i] = "cr" => zsendbuf' = <<"cr">>
       PROVE  SendPlace'
  <2>1. WireOK(w, <<>>, "none")
    BY <1>2, <1>3
  <2>2. PICK z, x : z = zsendbuf' /\ x = outcome'
    OBVIOUS
  <2>3. WireOK(w \o y, z, x)
    BY ONLY <1>4, <1>11, <2>1, <2>2, WireOKMore
  <2>4. WireOK(wire', zsendbuf', outcome')
    BY <1>7, <1>11, <2>2, <2>3
  <2>5. ~remote'.literal
    BY <1>1 DEF SendPlace
  <2> QED  BY <1>1, <1>2, <1>7, <2>4, <2>5 DEF SendPlace
<1>12. CASE b[1] = "nl"
  <2>1. k \in 1..Len(f)
    BY <1>4, <1>5 DEF InLine
  <2>2. b = <<"nl">> /\ EndOnWay(f, k, <<>>, <<"cr">>, u, w \o <<"cr">>, p, d)
    BY <1>4, <1>5, <1>7, <1>10, <1>12, <2>1, EndIsSent
  <2>3. a = <<"nl">> /\ r = <<>>
    <3>1. n = 1 /\ Len(b) = 1
      BY <1>10, <1>12, <2>2
    <3>2. Len(a) = 1 /\ a[1] = "nl" /\ Len(r) = 0
      BY <1>4, <1>6, <1>7, <1>12, <3>1
    <3>3. <<"nl">> \in Seq(Characters) /\ Len(<<"nl">>) = 1 /\ \A i \in 1..1 : a[i] = <<"nl">>[i]
      BY <3>2, OnTheWireHas
    <3>4. r = <<>>
      BY <1>8, <3>2, EmptySeq
    <3> QED  BY <1>7, <3>2, <3>3, <3>4, SeqEqual
  <2>4. Coded(a) = <<"cr">> /\ zsendbuf' = <<"cr">>
    BY <1>4, <1>7, <2>3, CodedEnd
  <2>5. <<"cr">> \in Seq(OnTheWire) /\ Len(<<"cr">>) = 1 /\ <<"cr">>[1] = "cr"
    BY OnTheWireHas, SingleType
  <2>6. ASSUME NEW i \in 1..Len(<<"cr">>)
        PROVE  i = 1 /\ <<"cr">>[i] = "cr" /\ "cr" # "eof"
    BY <2>5
  <2>7. SendPlace'
    BY <1>11, <2>4, <2>5, <2>6
  <2>8. EndOnWayNow'
    BY <1>5, <1>6, <1>7, <1>9, <2>2, <2>3, <2>4 DEF EndOnWayNow
  <2> QED  BY <2>7, <2>8 DEF LineNow
<1>13. CASE b[1] # "nl"
  <2>1. a \in Seq(Plain) /\ a # <<>>
    <3>1. Len(a) = n /\ n >= 1 /\ \A i \in 1..n : a[i] = b[i] /\ b[i] \in Characters
      <4>1. b \in Seq(Characters) /\ n \in 1..Len(b) /\ a = SubSeq(b, 1, n)
        BY <1>4, <1>6, <1>7
      <4> QED  BY ONLY <4>1
    <3>2. \A i \in 1..Len(a) : a[i] \in Plain
      BY <1>10, <1>13, <3>1 DEF Plain
    <3> QED  BY <1>7, <3>1, <3>2
  <2>2. InLine(f, k, r, Seen(a), u, w \o Coded(a), p, d)
    BY <1>4, <1>5, <1>7, <1>8, <2>1, PartSent
  <2>3. /\ Awaited(Coded(a)) = Seen(a)
        /\ \A i \in 1..Len(Coded(a)) : Coded(a)[i] \in Showing
    BY <1>4, <2>1, CodedPlain
  <2>4. InLineNow'
    BY <1>5, <1>6, <1>7, <1>9, <2>2, <2>3 DEF InLineNow
  <2>5. PICK y \in Seq(OnTheWire) : y = Coded(a)
    BY <1>7
  <2>6. \A i \in 1..Len(y) : y[i] \in Printable \cup {"tab"} /\ y[i] \notin {"cr", "eof"}
    BY <2>3, <2>5, NotPrintable DEF Showing
  <2>7. SendPlace'
    BY <1>11, <2>5, <2>6
  <2> QED  BY <2>4, <2>7 DEF LineNow
<1> QED  BY <1>12, <1>13

LEMMA NothingSaid ==
  /\ Num(<<>>) = 0 /\ NoCr(<<>>) /\ <<>> \in Seq(OnTheWire)
  /\ \A f, o : Has(f, 0, <<>>, o)
<1>1. NoCr(<<>>) /\ Num(<<>>) = 0 /\ Len(<<>>) = 0
  BY SeenNone DEF NoCr
<1>2. ASSUME NEW f, NEW o
      PROVE  Has(f, 0, <<>>, o)
  <2>1. PICK m : m = [i \in 1..0 |-> 1]
    OBVIOUS
  <2>2. m \in [1..0 -> 1..Len(f)]
    BY <2>1
  <2>3. 1..0 = {}
    OBVIOUS
  <2> QED  BY <1>1, <2>2, <2>3 DEF Has
<1> QED  BY <1>1, <1>2

LEMMA LineInvInit == Init => LineInv
<1> SUFFICES ASSUME Init  PROVE SendPlace /\ LineNow
  BY DEF LineInv
<1>1. next = 1 /\ zbuf = <<>> /\ zsendbuf = <<>> /\ abPrecbuf = <<>> /\ wire = <<>> /\ echo = <<>>
      /\ outcome = "none" /\ ~remote.literal /\ remote.pending = <<>> /\ remote.lines = <<>>
  BY DEF Init
<1>2. Pieces = <<>>
  <2>1. <<>> \o <<>> = <<>>
    OBVIOUS
  <2> QED  BY <1>1, <2>1 DEF Pieces
<1>3. current = 0
  BY <1>1 DEF current
<1>4. Between(file, 0, <<>>, <<>>, <<>>, <<>>, <<>>)
  BY NothingSaid DEF Between, Finished
<1>5. BetweenNow
  BY <1>1, <1>2, <1>3, <1>4, NothingSaid DEF BetweenNow
<1>6. SendPlace
  BY <1>1, WireOKNone DEF SendPlace
<1> QED  BY <1>5, <1>6 DEF LineNow

(* A line is killed when nothing is under way.                             *)
LEMMA KillLines ==
  ASSUME CheckedFiles, EchoesApart, TimelyEcho, LineFacts, LostTypes, PlaceInv, SendPlace, LineNow,
         KillLine
  PROVE  SendPlace' /\ LineNow'
<1>1. /\ at = "receive" /\ abPrecbuf = <<>> /\ wire = <<>> /\ echo = <<>>
  BY DEF KillLine, TimesOut
<1>2. /\ file' = file /\ cuvar' = cuvar /\ next' = next /\ remote' = remote /\ outcome' = outcome
      /\ zbuf' = Buffers[next - 1] /\ zsendbuf' = <<>> /\ at' = "chunk"
      /\ SendData(<<"kill">>) /\ lost' = [lost EXCEPT !.kills = @ + 1]
  BY DEF KillLine, given
<1>3. outcome = "none" /\ zsendbuf # <<>> /\ next > 1
  BY <1>1 DEF PlaceInv
<1>4. PICK f, k, p, d, L, o, v :
        /\ f = file /\ k = current /\ p = remote.pending /\ d = lost.dead /\ L = remote.lines
        /\ o = Once /\ v = Once'
  OBVIOUS
<1>5. p \in Seq(OnTheWire) /\ f \in Files /\ k \in 1..Len(f) /\ zbuf' = f[k]
  <2>1. f \in Files /\ p \in Seq(OnTheWire) /\ k \in 0..Len(f) /\ next = k + 1 /\ Buffers = f
    BY <1>4 DEF LineFacts
  <2>2. k \in 1..Len(f) /\ next - 1 = k
    BY <1>3, <2>1
  <2> QED  BY <1>2, <2>1, <2>2
<1>6. Pieces = <<>> /\ Pieces' = <<>> /\ wire' = <<"kill">>
  <2>1. Pieces' = <<>> /\ wire' = <<>> \o <<"kill">>
    BY <1>1, <1>2, SendDataKeeps
  <2>2. <<>> \o <<"kill">> = <<"kill">> /\ <<>> \o <<>> = <<>>
    <3>1. <<"kill">> \in Seq(OnTheWire)
      BY OnTheWireHas, SingleType
    <3> QED  BY <3>1
  <2> QED  BY <1>1, <2>1, <2>2 DEF Pieces
<1>7. lost'.dead = lost.dead /\ lost'.echoes = lost.echoes
  <2>1. lost \in [sent : 0..MaxLost, echoes : 0..MaxUnheard, kills : Nat, dead : BOOLEAN]
    BY DEF LostTypes
  <2> QED  BY <1>2, <2>1
<1>8. /\ file' = f /\ current' = k /\ remote'.pending = p /\ remote'.lines = L
      /\ lost'.dead = d /\ v = o /\ ~EofDue'
  BY <1>2, <1>3, <1>4, <1>7 DEF current, Once, EofDue
<1>9. Behind(f, k, L, o)
  <2>1. CASE InLineNow
    BY <1>4, <2>1 DEF InLineNow
  <2>2. CASE EndLostNow
    BY <1>4, <2>2 DEF EndLostNow
  <2>3. CASE EndArrivedNow
    <3>1. (o => ~NoCr(<<>>)) /\ Has(f, k, L, o)
      BY <1>4, <1>6, <2>3 DEF EndArrivedNow, EndArrived
    <3> QED  BY <3>1, NothingSaid DEF Behind
  <2>4. ~EndOnWayNow /\ ~BetweenNow /\ ~AllNow
    BY <1>1, <1>3 DEF EndOnWayNow, EndOnWay, BetweenNow, Between, AllNow
  <2> QED  BY <2>1, <2>2, <2>3, <2>4 DEF LineNow
<1>10. InLine(f, k, f[k], <<>>, <<>>, <<"kill">>, p, d)
  BY <1>5, InLineBegins
<1>11. InLineNow'
  BY <1>2, <1>4, <1>5, <1>6, <1>8, <1>9, <1>10 DEF InLineNow
<1>12. SendPlace'
  <2>1. WireOK(<<"kill">>, <<>>, "none")
    <3>1. Len(<<"kill">>) = 1 /\ <<"kill">>[1] = "kill"
      OBVIOUS
    <3>2. ASSUME NEW i \in 1..1
          PROVE  i = 1 /\ <<"kill">>[i] = "kill"
      BY <3>1
    <3> QED  BY <3>1, <3>2 DEF WireOK
  <2>2. ~remote'.literal
    BY <1>2 DEF SendPlace
  <2> QED  BY <1>2, <1>3, <1>6, <2>1, <2>2 DEF SendPlace
<1> QED  BY <1>11, <1>12 DEF LineNow

LEMMA LineInvStep ==
  ASSUME CheckedFiles, EchoesApart, TypeInv, LineInv, [Next]_vars
  PROVE  LineInv'
<1> SUFFICES ASSUME Checked', TimelyEcho  PROVE SendPlace' /\ LineNow'
  BY DEF LineInv
<1>1. Checked
  <2>1. cuvar' = cuvar
    BY GivenStays
  <2> QED  BY <2>1 DEF Checked
<1>2. SendPlace /\ LineNow
  BY <1>1 DEF LineInv
<1>3. LineFacts /\ PlaceInv /\ LostTypes
  BY <1>1, LineFactsHold DEF TypeInv
<1>4. ASSUME Quiet
      PROVE  SendPlace' /\ LineNow'
  BY <1>2, <1>3, <1>4, QuietPlace, QuietLines
<1>5. CASE ReadFile
  BY <1>2, <1>3, <1>5, ReadLines
<1>6. CASE Complete
  BY <1>1, <1>2, <1>3, <1>6, CompleteLines
<1>7. CASE SendChunk
  BY <1>1, <1>2, <1>3, <1>7, ChunkLines
<1>8. CASE SeeSignal \/ SeeNoSignal \/ GiveUp \/ PortFails \/ Interrupt \/ LineDies \/ ReadPort
           \/ UNCHANGED vars
  BY <1>3, <1>4, <1>8, QuietSteps
<1>9. CASE TakeCharacter
  <2>1. CASE Head(abPrecbuf) = Head(zsendbuf)
    BY <1>2, <1>3, <1>9, <2>1, TakeLines
  <2>2. CASE Head(abPrecbuf) # Head(zsendbuf)
    BY <1>3, <1>4, <1>9, <2>2, QuietTake
  <2> QED  BY <2>1, <2>2
<1>10. CASE KillLine
  BY <1>2, <1>3, <1>10, KillLines
<1>11. CASE Arrive
  BY <1>2, <1>3, <1>11, ArriveLines
<1>12. CASE LoseSent
  BY <1>2, <1>3, <1>12, LoseLines
<1>13. CASE LoseEcho
  BY <1>3, <1>4, <1>13, QuietLoseEcho
<1> QED  BY <1>5, <1>6, <1>7, <1>8, <1>9, <1>10, <1>11, <1>12, <1>13 DEF Next, Program, Line

(* The invariant and what it says of the remote file.                      *)
THEOREM LinesFollow ==
  ASSUME CheckedFiles, EchoesApart
  PROVE  Spec => [](TypeInv /\ LineInv)
<1>1. Init => TypeInv /\ LineInv
  BY TypeInvInit, LineInvInit
<1>2. TypeInv /\ LineInv /\ [Next]_vars => (TypeInv /\ LineInv)'
  BY TypeInvStep, LineInvStep
<1> QED  BY <1>1, <1>2, PTL DEF Spec

(* What goes from 1 to n without leaving one out comes to all of them.     *)
LEMMA NoneLeftOut ==
  ASSUME NEW n \in Nat, NEW l \in Nat \ {0}, NEW m \in [1..l -> 1..n],
         m[1] = 1, m[l] = n, \A i \in 1..l : i = 1 \/ m[i] - m[i - 1] \in {0, 1}
  PROVE  Range(m) = 1..n
<1>1. Range(m) \subseteq 1..n
  BY DEF Range
<1>2. ASSUME NEW j \in 1..n, j \notin Range(m)
      PROVE  FALSE
  <2>1. \A i \in 1..l : m[i] # j
    BY <1>2 DEF Range
  <2> DEFINE S == {i \in 1..l : m[i] > j}
  <2>2. l \in S
    <3>1. l \in 1..l /\ m[l] # j
      BY <2>1
    <3> QED  BY <3>1
  <2>3. PICK i \in S : \A x \in S : i <= x
    <3>1. S \subseteq Nat /\ S # {}
      BY <2>2
    <3> HIDE DEF S
    <3> QED  BY <3>1, LeastNumber
  <2>4. i # 1
    BY <2>3
  <2>5. i - 1 \in 1..l /\ i - 1 \notin S
    BY <2>3, <2>4
  <2>6. m[i - 1] < j
    BY <2>1, <2>5
  <2>7. i \in 1..l /\ m[i] > j /\ m[i] - m[i - 1] \in {0, 1}
    BY <2>3, <2>4
  <2> QED  BY <2>5, <2>6, <2>7
<1> QED  BY <1>1, <1>2

LEMMA HasMatch ==
  ASSUME NEW f \in Seq(Seq(Characters)), NEW L \in Seq(Seq(OnTheWire)), NEW k, NEW o,
         Has(f, k, L, o)
  PROVE  \E m \in [DOMAIN L -> DOMAIN f] :
           /\ \A i \in DOMAIN m : /\ Shown(L[i]) = Shown(f[m[i]])
                                 /\ IF i = 1 THEN m[i] = 1
                                    ELSE m[i] - m[i - 1] \in {0, 1}
           /\ k = Len(f) => Range(m) = DOMAIN f
<1>1. PICK m \in [1..Len(L) -> 1..Len(f)] :
        /\ \A i \in 1..Len(L) : /\ Seen(L[i]) = Seen(f[m[i]])
                                /\ IF i = 1 THEN m[i] = 1
                                   ELSE m[i] - m[i - 1] \in {0, 1}
        /\ IF L = <<>> THEN k = 0 ELSE m[Len(L)] = k
  BY DEF Has
<1>2. DOMAIN L = 1..Len(L) /\ DOMAIN f = 1..Len(f) /\ DOMAIN m = 1..Len(L) /\ Len(L) \in Nat
      /\ Len(f) \in Nat
  BY <1>1
<1>3. ASSUME NEW i \in 1..Len(L)
      PROVE  Shown(L[i]) = Seen(L[i]) /\ Shown(f[m[i]]) = Seen(f[m[i]])
  <2>0. m[i] \in 1..Len(f)
    BY <1>1
  <2>1. L[i] \in Seq(OnTheWire) /\ f[m[i]] \in Seq(Characters)
    BY <2>0
  <2>2. f[m[i]] \in Seq(OnTheWire)
    BY <2>1, PrintableSent
  <2> QED  BY <2>1, <2>2, ShownIs
<1>4. ASSUME k = Len(f)
      PROVE  Range(m) = DOMAIN f
  <2>1. CASE L = <<>>
    <3>1. Len(f) = 0 /\ Len(L) = 0
      BY <1>1, <1>4, <2>1
    <3>2. DOMAIN m = {} /\ DOMAIN f = {}
      BY <1>2, <3>1
    <3> QED  BY <3>2 DEF Range
  <2>2. CASE L # <<>>
    <3>1. Len(L) \in Nat \ {0}
      BY <1>2, <2>2, EmptySeq
    <3>2. m[1] = 1 /\ m[Len(L)] = Len(f)
          /\ \A i \in 1..Len(L) : i = 1 \/ m[i] - m[i - 1] \in {0, 1}
      <4>1. 1 \in 1..Len(L)
        BY <3>1
      <4> QED  BY <1>1, <1>4, <2>2, <4>1
    <3>3. Range(m) = 1..Len(f)
      BY <1>1, <1>2, <3>1, <3>2, NoneLeftOut
    <3> QED  BY <1>2, <3>3
  <2> QED  BY <2>1, <2>2
<1> QED  BY <1>1, <1>2, <1>3, <1>4

LEMMA LinesHaveArrived ==
  ASSUME TypeInv, LineInv
  PROVE  EveryLineArrives
<1> SUFFICES ASSUME Checked, TimelyEcho
             PROVE  \E m \in [DOMAIN remote.lines -> DOMAIN file] :
      /\ \A i \in DOMAIN m : /\ Shown(remote.lines[i]) = Shown(file[m[i]])
                            /\ IF i = 1 THEN m[i] = 1
                               ELSE m[i] - m[i - 1] \in {0, 1}
      /\ AllArrived /\ cuvar.zCuvar_eofwrite => Range(m) = DOMAIN file
  BY DEF EveryLineArrives
<1>1. LineFacts /\ SendPlace /\ LineNow
  BY LineFactsHold DEF LineInv
<1>2. PICK f, k, L, o : f = file /\ k = current /\ L = remote.lines /\ o = Once
  OBVIOUS
<1>3. f \in Seq(Seq(Characters)) /\ L \in Seq(Seq(OnTheWire))
  BY <1>1, <1>2 DEF LineFacts
<1>4. AllArrived => k = Len(f) /\ zsendbuf = <<>> /\ wire = <<>> /\ outcome = "complete"
  BY <1>1, <1>2 DEF AllArrived, SendPlace
<1>5. PICK j : Has(f, j, L, o) /\ (AllArrived /\ cuvar.zCuvar_eofwrite => j = Len(f))
  <2>1. CASE InLineNow
    <3>1. Behind(f, k, L, o) /\ ~(AllArrived /\ cuvar.zCuvar_eofwrite)
      BY <1>2, <1>4, <2>1 DEF InLineNow, EofDue
    <3> QED  BY <3>1 DEF Behind
  <2>2. CASE EndOnWayNow \/ EndLostNow
    <3>1. Behind(f, k, L, o) /\ zsendbuf # <<>>
      BY <1>2, <2>2 DEF EndOnWayNow, EndLostNow, EndOnWay, EndLost, EndSent
    <3> QED  BY <1>4, <3>1 DEF Behind
  <2>3. CASE EndArrivedNow \/ BetweenNow \/ AllNow
    <3>1. Has(f, k, L, o)
      BY <1>2, <2>3 DEF EndArrivedNow, BetweenNow, AllNow
    <3> QED  BY <1>4, <3>1
  <2> QED  BY <1>1, <2>1, <2>2, <2>3 DEF LineNow
<1>6. PICK m \in [DOMAIN L -> DOMAIN f] :
        /\ \A i \in DOMAIN m : /\ Shown(L[i]) = Shown(f[m[i]])
                              /\ IF i = 1 THEN m[i] = 1
                                 ELSE m[i] - m[i - 1] \in {0, 1}
        /\ j = Len(f) => Range(m) = DOMAIN f
  BY <1>3, <1>5, HasMatch
<1> QED  BY <1>2, <1>5, <1>6

(* With echo checking every line of the file arrives, whatever is lost on  *)
(* the way there or back (fcusend_buf).                                    *)
THEOREM LinesArriveChecked ==
  ASSUME CheckedFiles, EchoesApart
  PROVE  Spec => []EveryLineArrives
  BY LinesFollow, LinesHaveArrived, PTL

-----------------------------------------------------------------------------
(* The transfer of lines *)

(* Every transfer is a checked one, no echo is lost, the remote terminal   *)
(* echoes a carriage return, and the end of each file is handed over.      *)
AllChecked ==
  /\ TimelyEcho /\ MaxUnheard = 0 /\ NewlineHeard
  /\ \A s \in Settings :
       /\ ~s.fCuvar_binary /\ s.fCuvar_echocheck /\ s.zCuvar_echonl # "none"
       /\ s.zCuvar_eofwrite \/ \A f \in Files : f = <<>> \/ LastOf(LastOf(f)) = "nl"

(* The remote side has a beginning of the file f, and all of it when the   *)
(* transfer is complete.                                                   *)
Begun(f, L) ==
  Len(L) <= Len(f) /\ \A i \in 1..Len(L) : Shown(L[i]) = Shown(f[i])

LinesBegun ==
  /\ Begun(file, remote.lines)
  /\ outcome = "complete" /\ wire = <<>> => Len(remote.lines) = Len(file)

LEMMA HasBegun ==
  ASSUME NEW f \in Seq(Seq(Characters)), NEW L \in Seq(Seq(OnTheWire)), NEW k, k <= Len(f),
         Has(f, k, L, TRUE)
  PROVE  Begun(f, L) /\ Len(L) = k
<1>1. Len(L) = k /\ \A i \in 1..k : Seen(L[i]) = Seen(f[i])
  BY DEF Has
<1>2. ASSUME NEW i \in 1..Len(L)
      PROVE  Shown(L[i]) = Shown(f[i])
  <2>1. Len(L) \in Nat /\ Len(f) \in Nat
    OBVIOUS
  <2>2. i \in 1..Len(f)
    BY <1>1, <2>1
  <2>3. L[i] \in Seq(OnTheWire) /\ f[i] \in Seq(Characters)
    BY <2>2
  <2>4. f[i] \in Seq(OnTheWire)
    BY <2>3, PrintableSent
  <2>5. Shown(L[i]) = Seen(L[i]) /\ Shown(f[i]) = Seen(f[i])
    BY <2>3, <2>4, ShownIs
  <2> QED  BY <1>1, <2>5
<1> QED  BY <1>1, <1>2 DEF Begun

LEMMA AreBegun ==
  ASSUME CheckedFiles, EchoesApart, AllChecked, TypeInv, LineInv
  PROVE  LinesBegun
<1>1. cuvar \in Settings /\ Checked
  BY DEF TypeInv, ProgramTypes, AllChecked, Checked
<1>2. LineFacts /\ SendPlace /\ LineNow
  BY <1>1, LineFactsHold DEF LineInv, AllChecked
<1>3. Once
  <2>1. lost.echoes \in 0..0
    BY DEF TypeInv, LostTypes, AllChecked
  <2> QED  BY <2>1 DEF AllChecked, Once
<1>4. PICK f, k, L : f = file /\ k = current /\ L = remote.lines
  OBVIOUS
<1>5. /\ f \in Seq(Seq(Characters)) /\ L \in Seq(Seq(OnTheWire)) /\ f \in Files
      /\ k \in 0..Len(f) /\ Len(f) \in Nat
  BY <1>2, <1>4 DEF LineFacts
<1>6. outcome = "complete" => k = Len(f) /\ zsendbuf = <<>> /\ zbuf = <<>>
  BY <1>2, <1>4 DEF SendPlace, TypeInv, PlaceInv
<1>7. \A j : (Has(f, j, L, Once) => Has(f, j, L, TRUE))
             /\ (Behind(f, j, L, Once) => Has(f, j - 1, L, TRUE))
  BY <1>3, HasWeaker DEF Behind
<1>8. CASE InLineNow
  <2>1. k >= 1 /\ ~Finished(f, k, zbuf) /\ Has(f, k - 1, L, TRUE) /\ (EofDue => wire # <<>>)
    BY <1>4, <1>7, <1>8 DEF InLineNow, InLine
  <2>2. k - 1 <= Len(f)
    BY <1>5, <2>1
  <2>3. Begun(f, L)
    BY <1>5, <2>1, <2>2, HasBegun
  <2>4. ASSUME outcome = "complete", wire = <<>>
        PROVE  FALSE
    <3>1. LastOf(f[k]) # "nl" /\ k = Len(f)
      BY <1>6, <2>1, <2>4 DEF Finished
    <3>2. ~cuvar.zCuvar_eofwrite
      BY <2>1, <2>4 DEF EofDue
    <3>3. f # <<>>
      BY <2>1, <3>1
    <3> QED  BY <1>1, <1>5, <3>1, <3>2, <3>3 DEF AllChecked, LastOf
  <2> QED  BY <1>4, <2>3, <2>4 DEF LinesBegun
<1>9. CASE EndOnWayNow \/ EndLostNow
  <2>1. k >= 1 /\ zsendbuf # <<>> /\ Has(f, k - 1, L, TRUE)
    <3>1. Behind(f, k, L, Once) /\ k >= 1 /\ zsendbuf = <<"cr">>
      BY <1>4, <1>9 DEF EndOnWayNow, EndLostNow, EndOnWay, EndLost, EndSent
    <3> QED  BY <1>7, <3>1
  <2>2. k - 1 <= Len(f)
    BY <1>5, <2>1
  <2>3. Begun(f, L)
    BY <1>5, <2>1, <2>2, HasBegun
  <2> QED  BY <1>4, <1>6, <2>1, <2>3 DEF LinesBegun
<1>10. CASE EndArrivedNow \/ BetweenNow \/ AllNow
  <2>1. Has(f, k, L, TRUE) /\ k <= Len(f)
    <3>1. Has(f, k, L, Once)
      BY <1>4, <1>10 DEF EndArrivedNow, BetweenNow, AllNow
    <3>2. Has(f, k, L, TRUE)
      BY <1>7, <3>1, Zenon
    <3>3. k <= Len(f)
      <4>1. k \in 0..Len(f) /\ Len(f) \in Nat
        BY <1>5
      <4> QED  BY ONLY <4>1
    <3> QED  BY <3>2, <3>3, Zenon
  <2>2. Begun(f, L) /\ Len(L) = k
    BY <1>5, <2>1, HasBegun
  <2> QED  BY <1>4, <1>6, <2>2 DEF LinesBegun
<1> QED  BY <1>2, <1>8, <1>9, <1>10 DEF LineNow

(* What a step does to the lines that are there and to the outcome.        *)
LinesGo ==
  /\ file' = file
  /\ \/ remote'.lines = remote.lines
     \/ outcome' = outcome /\ remote'.lines = Append(remote.lines, remote.pending)
  /\ outcome' = outcome \/ outcome = "none"
  /\ outcome = "complete" /\ wire = <<>> =>
       wire' = <<>> /\ remote'.lines = remote.lines

LEMMA AcceptGoes ==
  ASSUME NEW r \in RemoteType, NEW c
  PROVE  Accept(r, c).lines = r.lines \/ Accept(r, c).lines = Append(r.lines, r.pending)
<1>1. r = [pending |-> r.pending, literal |-> r.literal, open |-> r.open, lines |-> r.lines]
  BY DEF RemoteType
<1>2. HandOver(r).lines = Append(r.lines, r.pending)
  <2>1. HandOver(r) = [r EXCEPT !.lines = Append(@, r.pending), !.pending = <<>>]
    BY DEF HandOver
  <2> QED  BY <1>1, <2>1
<1>3. \/ Accept(r, c) = HandOver(r)
      \/ Accept(r, c) = [r EXCEPT !.pending = Append(@, c), !.literal = FALSE]
      \/ Accept(r, c) = [r EXCEPT !.pending = <<>>]
      \/ Accept(r, c) = [r EXCEPT !.literal = TRUE]
      \/ Accept(r, c) = [r EXCEPT !.open = FALSE]
      \/ Accept(r, c) = [r EXCEPT !.pending = Append(@, c)]
  <2>1. r.pending = <<>> \/ r.pending # <<>>
    OBVIOUS
  <2> QED  BY <2>1 DEF Accept
<1> QED  BY <1>1, <1>2, <1>3

LEMMA LinesGoOn ==
  ASSUME TypeInv, [Next]_vars
  PROVE  LinesGo
<1>1. file' = file
  BY GivenStays
<1>2. (at = "over" <=> outcome # "none") /\ remote \in RemoteType
  BY DEF TypeInv, PlaceInv, LineTypes
<1>3. CASE ReadFile \/ Complete \/ SendChunk \/ SeeSignal \/ SeeNoSignal \/ ReadPort
           \/ TakeCharacter \/ KillLine \/ GiveUp \/ PortFails
  <2>1. at # "over" /\ remote' = remote
    BY <1>3 DEF ReadFile, Complete, SendChunk, SeeSignal, SeeNoSignal, ReadPort, TakeCharacter,
                KillLine, GiveUp, PortFails, TimesOut, line
  <2> QED  BY <1>1, <1>2, <2>1 DEF LinesGo
<1>4. CASE Interrupt \/ LineDies \/ LoseEcho \/ UNCHANGED vars
  BY <1>1, <1>4 DEF LinesGo, Interrupt, LineDies, LoseEcho, vars, line, theProgram
<1>5. CASE LoseSent
  BY <1>1, <1>5 DEF LinesGo, LoseSent, theProgram
<1>6. CASE Arrive
  <2>1. remote' = Accept(remote, Head(wire)) /\ wire # <<>> /\ outcome' = outcome
    BY <1>6 DEF Arrive, theProgram
  <2> QED  BY <1>1, <1>2, <2>1, AcceptGoes DEF LinesGo
<1> QED  BY <1>3, <1>4, <1>5, <1>6 DEF Next, Program, Line

LEMMA ShownAppend ==
  ASSUME NEW L \in Seq(Seq(OnTheWire)), NEW p \in Seq(OnTheWire)
  PROVE  /\ Each(Shown, L) \in Seq(Seq(OnTheWire)) /\ Len(Each(Shown, L)) = Len(L)
         /\ \A i \in 1..Len(L) : Each(Shown, L)[i] = Shown(L[i])
         /\ Each(Shown, Append(L, p)) = Append(Each(Shown, L), Shown(p))
<1>1. \A l \in Seq(OnTheWire) : Shown(l) \in Seq(OnTheWire)
  BY SeenType, ShownIs, PrintableSent
<1>2. ASSUME NEW K \in Seq(Seq(OnTheWire)), NEW T, T = Each(Shown, K)
      PROVE  /\ T \in Seq(Seq(OnTheWire)) /\ Len(T) = Len(K)
             /\ \A i \in 1..Len(K) : T[i] = Shown(K[i])
  <2>1. T = [i \in 1..Len(K) |-> Shown(K[i])] /\ Len(K) \in Nat
    BY <1>2 DEF Each
  <2>2. \A i \in 1..Len(K) : Shown(K[i]) \in Seq(OnTheWire)
    BY <1>1
  <2> QED  BY <2>1, <2>2
<1>3. PICK T, M, U, V :
        /\ T = Each(Shown, L) /\ M = Append(L, p) /\ U = Each(Shown, M) /\ V = Append(T, Shown(p))
  OBVIOUS
<1>4. /\ M \in Seq(Seq(OnTheWire)) /\ Len(M) = Len(L) + 1 /\ M[Len(L) + 1] = p
      /\ \A i \in 1..Len(L) : M[i] = L[i]
  BY <1>3, AppendProperties
<1>5. /\ T \in Seq(Seq(OnTheWire)) /\ Len(T) = Len(L) /\ \A i \in 1..Len(L) : T[i] = Shown(L[i])
  BY <1>2, <1>3
<1>6. /\ U \in Seq(Seq(OnTheWire)) /\ Len(U) = Len(M) /\ \A i \in 1..Len(M) : U[i] = Shown(M[i])
  BY <1>2, <1>3, <1>4
<1>7. /\ V \in Seq(Seq(OnTheWire)) /\ Len(V) = Len(T) + 1 /\ V[Len(T) + 1] = Shown(p)
      /\ \A i \in 1..Len(T) : V[i] = T[i]
  <2>1. PICK h \in Seq(OnTheWire) : h = Shown(p)
    BY <1>1
  <2>2. V = Append(T, h)
    BY <1>3, <2>1
  <2> QED  BY <1>5, <2>1, <2>2, AppendProperties
<1>8. ASSUME NEW i \in 1..Len(U)
      PROVE  U[i] = V[i]
  <2>1. CASE i \in 1..Len(L)
    <3>1. U[i] = Shown(L[i])
      BY <1>4, <1>6, <2>1
    <3> QED  BY <1>5, <1>7, <2>1, <3>1
  <2>2. CASE i = Len(L) + 1
    BY <1>4, <1>5, <1>6, <1>7, <2>2
  <2>3. Len(L) \in Nat
    OBVIOUS
  <2> QED  BY <1>4, <1>6, <2>1, <2>2, <2>3
<1>9. U = V
  <2>1. Len(U) = Len(V) /\ U \in Seq(Seq(OnTheWire)) /\ V \in Seq(Seq(OnTheWire))
    BY <1>4, <1>5, <1>6, <1>7
  <2> QED  BY ONLY <1>8, <2>1, SeqEqual
<1> QED  BY <1>3, <1>5, <1>9

(* In terms of the lines to be sent and those that are there.              *)
LEMMA BegunIs ==
  ASSUME NEW f \in Seq(Seq(Characters)), NEW L \in Seq(Seq(OnTheWire)), Begun(f, L),
         NEW X, X = Each(Shown, f), NEW D, D = Each(Shown, L)
  PROVE  /\ D \in Seq(Seq(OnTheWire)) /\ X \in Seq(Seq(OnTheWire))
         /\ Len(X) = Len(f) /\ Len(D) = Len(L) /\ Len(D) <= Len(X)
         /\ \A i \in 1..Len(D) : D[i] = X[i]
         /\ Len(L) = Len(f) => D = X
<1>1. f \in Seq(Seq(OnTheWire))
  <2>1. \A s \in Seq(Characters) : s \in Seq(OnTheWire)
    BY PrintableSent
  <2>2. Seq(Characters) \subseteq Seq(OnTheWire)
    BY <2>1
  <2> QED  BY <2>2, SubType
<1>2. <<>> \in Seq(OnTheWire)
  OBVIOUS
<1>3. /\ X \in Seq(Seq(OnTheWire)) /\ Len(X) = Len(f)
      /\ \A i \in 1..Len(f) : X[i] = Shown(f[i])
  BY <1>1, <1>2, ShownAppend
<1>4. /\ D \in Seq(Seq(OnTheWire)) /\ Len(D) = Len(L)
      /\ \A i \in 1..Len(L) : D[i] = Shown(L[i])
  BY <1>2, ShownAppend
<1>5. Len(L) <= Len(f) /\ \A i \in 1..Len(L) : Shown(L[i]) = Shown(f[i])
  BY DEF Begun
<1>6. \A i \in 1..Len(D) : D[i] = X[i]
  <2>1. Len(L) \in Nat /\ Len(f) \in Nat
    OBVIOUS
  <2> SUFFICES ASSUME NEW i \in 1..Len(D)  PROVE D[i] = X[i]
    OBVIOUS
  <2>2. i \in 1..Len(L) /\ i \in 1..Len(f)
    BY <1>4, <1>5, <2>1
  <2>3. D[i] = Shown(L[i]) /\ X[i] = Shown(f[i]) /\ Shown(L[i]) = Shown(f[i])
    BY <1>3, <1>4, <1>5, <2>2
  <2> QED  BY <2>3
<1>7. Len(L) = Len(f) => D = X
  BY <1>3, <1>4, <1>6, SeqEqual
<1> QED  BY <1>3, <1>4, <1>5, <1>6, <1>7

LEMMA TransferStep ==
  ASSUME TypeInv, TypeInv', LinesBegun, LinesBegun', LinesGo
  PROVE  [Transfer!Next]_(Transfer!vars)
<1>1. PICK f, L, M, p :
        /\ f = file /\ L = remote.lines /\ M = remote'.lines /\ p = remote.pending
  OBVIOUS
<1>2. /\ f \in Seq(Seq(Characters)) /\ L \in Seq(Seq(OnTheWire)) /\ M \in Seq(Seq(OnTheWire))
      /\ p \in Seq(OnTheWire) /\ file' = f
  <2>1. file \in Files /\ remote \in RemoteType /\ remote' \in RemoteType
    BY DEF TypeInv, ProgramTypes, LineTypes
  <2> QED  BY <1>1, <2>1, BuffersType DEF RemoteType, LinesGo
<1>3. Begun(f, L) /\ Begun(f, M)
  BY <1>1, <1>2 DEF LinesBegun
<1>4. PICK X, D, E : X = Each(Shown, f) /\ D = Each(Shown, L) /\ E = Each(Shown, M)
  OBVIOUS
<1>5. /\ D \in Seq(Seq(OnTheWire)) /\ X \in Seq(Seq(OnTheWire)) /\ E \in Seq(Seq(OnTheWire))
      /\ Len(X) = Len(f) /\ Len(D) = Len(L) /\ Len(E) = Len(M) /\ Len(D) <= Len(X)
      /\ Len(E) <= Len(X) /\ \A i \in 1..Len(E) : E[i] = X[i]
      /\ Len(M) = Len(f) => E = X
  <2>1. /\ D \in Seq(Seq(OnTheWire)) /\ X \in Seq(Seq(OnTheWire))
        /\ Len(X) = Len(f) /\ Len(D) = Len(L) /\ Len(D) <= Len(X)
    <3>1. Begun(f, L) /\ f \in Seq(Seq(Characters)) /\ L \in Seq(Seq(OnTheWire))
      BY <1>2, <1>3
    <3>2. X = Each(Shown, f) /\ D = Each(Shown, L)
      BY <1>4
    <3> QED  BY ONLY <3>1, <3>2, BegunIs, SMTT(30)
  <2>2. /\ E \in Seq(Seq(OnTheWire)) /\ Len(E) = Len(M)
        /\ Len(E) <= Len(X) /\ \A i \in 1..Len(E) : E[i] = X[i]
        /\ Len(M) = Len(f) => E = X
    <3>1. Begun(f, M) /\ f \in Seq(Seq(Characters)) /\ M \in Seq(Seq(OnTheWire))
      BY <1>2, <1>3
    <3>2. X = Each(Shown, f) /\ E = Each(Shown, M)
      BY <1>4
    <3> QED  BY ONLY <3>1, <3>2, BegunIs, SMTT(30)
  <2> QED  BY <2>1, <2>2
<1>6. Each(Shown, file) = X /\ Each(Shown, file)' = X
      /\ Each(Shown, remote.lines) = D /\ Each(Shown, remote.lines)' = E
  BY <1>1, <1>2, <1>4 DEF Each, Shown, Where, IsShown
<1>7. ASSUME M = Append(L, p)
      PROVE  E = Append(D, X[Len(D) + 1]) /\ Len(D) < Len(X) /\ Len(E) = Len(D) + 1
  <2>1. E = Append(D, Shown(p))
    BY <1>2, <1>4, <1>7, ShownAppend
  <2>2. Len(E) = Len(D) + 1 /\ E[Len(D) + 1] = Shown(p)
    <3>1. Shown(p) \in Seq(OnTheWire)
      BY <1>2, SeenType, ShownIs, PrintableSent
    <3> QED  BY <1>5, <2>1, <3>1
  <2>3. Len(D) \in Nat /\ Len(X) \in Nat
    BY <1>5
  <2> QED  BY <1>5, <2>1, <2>2, <2>3
<1>8. PICK a, b : /\ a = (CASE outcome = "none" -> "sending"
                           [] outcome = "complete" ->
                                IF wire = <<>> THEN "complete" ELSE "sending"
                           [] OTHER -> "stopped")
                  /\ b = (CASE outcome = "none" -> "sending"
                           [] outcome = "complete" ->
                                IF wire = <<>> THEN "complete" ELSE "sending"
                           [] OTHER -> "stopped")'
  OBVIOUS
<1>9. /\ a = "complete" <=> outcome = "complete" /\ wire = <<>>
      /\ a = "sending" <=> outcome = "none" \/ (outcome = "complete" /\ wire # <<>>)
      /\ a \in {"sending", "complete", "stopped"}
  BY <1>8
<1>10. /\ b = "complete" <=> outcome' = "complete" /\ wire' = <<>>
       /\ b = "sending" <=> outcome' = "none" \/ (outcome' = "complete" /\ wire' # <<>>)
       /\ b \in {"sending", "complete", "stopped"}
  BY <1>8
<1>11. M = L \/ (outcome' = outcome /\ M = Append(L, p))
  BY <1>1 DEF LinesGo
<1>12. /\ outcome' = outcome \/ outcome = "none"
       /\ a = "complete" => wire' = <<>> /\ M = L /\ outcome' = "complete"
  BY <1>1, <1>9 DEF LinesGo
<1>13. b = "complete" => E = X
  BY <1>1, <1>2, <1>5, <1>10 DEF LinesBegun
<1>14. M = L => E = D
  BY <1>4
<1>15. \/ E = D /\ b = a
       \/ Len(D) < Len(X) /\ E = Append(D, X[Len(D) + 1]) /\ b = a
       \/ /\ a = "sending" /\ b = "complete" /\ E = X
          /\ E = D \/ E = Append(D, X[Len(X)])
       \/ a = "sending" /\ b = "stopped" /\ E = D
  <2>1. CASE b = a
    BY <1>7, <1>11, <1>14, <2>1
  <2>2. CASE b # a
    <3>1. a = "sending" /\ b \in {"complete", "stopped"}
      BY <1>9, <1>10, <1>12, <2>2
    <3>2. CASE b = "stopped"
      <4>1. outcome' # outcome
        BY <1>9, <1>10, <3>1, <3>2
      <4> QED  BY <1>11, <1>14, <3>1, <3>2, <4>1
    <3>3. CASE b = "complete"
      <4>1. E = X
        BY <1>13, <3>3
      <4>2. M = Append(L, p) => E = Append(D, X[Len(X)])
        BY <1>7, <4>1
      <4> QED  BY <1>11, <1>14, <3>1, <3>3, <4>1, <4>2
    <3> QED  BY <3>1, <3>2, <3>3
  <2> QED  BY <2>1, <2>2
<1> QED  BY <1>6, <1>8, <1>15
         DEF Transfer!Next, Transfer!vars, Transfer!Deliver, Transfer!Complete, Transfer!Stop

LEMMA TransferInit == Init => Transfer!Init
<1> SUFFICES ASSUME Init  PROVE Transfer!Init
  OBVIOUS
<1>1. remote.lines = <<>> /\ outcome = "none"
  BY DEF Init
<1>2. Each(Shown, <<>>) = <<>>
  BY DEF Each
<1> QED  BY <1>1, <1>2 DEF Transfer!Init

(* If all that is sent is checked and echoes are not lost, the transfer is *)
(* that of the lines: icuput calls none complete that wants one, and none  *)
(* is there twice, though characters of it were lost (fcusend_buf).        *)
THEOREM LinesTransferred ==
  ASSUME CheckedFiles, EchoesApart, AllChecked
  PROVE  Spec => IsLineTransfer
<1>1. Init => Transfer!Init
  BY TransferInit
<1>2. /\ TypeInv /\ TypeInv' /\ LinesBegun /\ LinesBegun' /\ [Next]_vars
      => [Transfer!Next]_(Transfer!vars)
  BY LinesGoOn, TransferStep
<1>3. TypeInv /\ LineInv => LinesBegun
  BY AreBegun
<1>4. Spec => [](TypeInv /\ LineInv)
  BY LinesFollow
<1> QED  BY <1>1, <1>2, <1>3, <1>4, PTL DEF Spec, IsLineTransfer, Transfer!Spec
=============================================================================
