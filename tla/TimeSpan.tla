------------------------------ MODULE TimeSpan ------------------------------
(***************************************************************************)
(* Time strings: _uuconf_itime_parse and itadd_span of src/uuconf/time.c,  *)
(* which add the times of a "time" or "timegrade" command to an ordered    *)
(* list of spans of the week, each with a value and a retry time.  Where   *)
(* spans meet, the better value wins.                                      *)
(*                                                                         *)
(* A day is Day units of time rather than 1440 minutes; a value is better  *)
(* if it is smaller, as picmp says.  Memory never runs out.                *)
(***************************************************************************)
EXTENDS Integers, Sequences, SequencesExt

CONSTANTS
  Day,          \* units of time in a day
  Days,         \* days in a week
  Values,       \* grades or sizes
  Retries,      \* retry times
  MaxStrings,   \* strings that are parsed
  FirstEnd      \* the earliest end of the hours of a string; 0 is midnight

ASSUME SpanAssumption ==
  /\ Day \in Nat \ {0} /\ Days \in Nat \ {0}
  /\ Values \subseteq Nat \ {0}
  /\ Retries \subseteq Nat
  /\ FirstEnd \in {0, 1} /\ MaxStrings \in Nat

VARIABLES
  spans,        \* the list
  adding,       \* the span that is added
  spanAt,       \* the place in the list that pq points to; 0: none is added
  toAdd,        \* the spans of this string still to be added, a set
  parsed,       \* the number of strings
  best          \* history: for each time the best value of the strings, or 0

spanVars == <<spans, adding, spanAt, toAdd, parsed, best>>

Week == 0..Days * Day - 1

Span == [from: Nat, to: Nat, val: Values, retry: Retries]

NoSpan == [from |-> 0, to |-> 0, val |-> 0, retry |-> 0]

SpanTypeOK ==
  /\ spans \in Seq(Span)
  /\ adding \in Span \cup {NoSpan} /\ (spanAt > 0 => adding \in Span)
  /\ spanAt \in 0..Len(spans) + 1
  /\ toAdd \subseteq Span
  /\ parsed \in 0..MaxStrings
  /\ best \in [Week -> Values \cup {0}]

SpanInit ==
  /\ spans = <<>>
  /\ adding = NoSpan
  /\ spanAt = 0
  /\ toAdd = {}
  /\ parsed = 0
  /\ best = [t \in Week |-> 0]

-----------------------------------------------------------------------------
(* The spans that one day of a string stands for, of which two go around   *)
(* midnight.                                                               *)
SpansOf(day, s) ==
  LET span(from, to) == [from |-> day * Day + from, to |-> day * Day + to,
                         val |-> s.val, retry |-> s.retry]
  IN IF s.start < s.end THEN {span(s.start, s.end)}
     ELSE {span(0, s.end), span(s.start, Day)}

(* The time t is one of the string s.                                      *)
HasTime(s, t) ==
  \E day \in s.days :
    LET hour == t - day * Day
    IN /\ hour \in 0..Day - 1
       /\ IF s.start < s.end THEN s.start <= hour /\ hour < s.end
          ELSE hour < s.end \/ s.start <= hour

(* _uuconf_itime_parse.                                                    *)
ParseTime ==
  /\ spanAt = 0 /\ toAdd = {}
  /\ parsed < MaxStrings
  /\ \E days \in SUBSET (0..Days - 1) \ {{}}, start \in 0..Day - 1,
        end \in FirstEnd..Day, val \in Values, retry \in Retries :
       LET s == [days |-> days, start |-> start, end |-> end, val |-> val,
                 retry |-> retry]
       IN /\ toAdd' = UNION {SpansOf(day, s) : day \in days}
          /\ best' = [t \in Week |->
                        IF HasTime(s, t) /\ (best[t] = 0 \/ val < best[t])
                        THEN val ELSE best[t]]
          /\ parsed' = parsed + 1
  /\ UNCHANGED <<spans, adding, spanAt>>

(* itadd_span is called: day by day, and first for what follows midnight.  *)
NextSpan ==
  /\ spanAt = 0
  /\ \E p \in toAdd :
       /\ \A q \in toAdd : p.from < q.from \/ (p.from = q.from /\ p.to <= q.to)
       /\ adding' = p
       /\ toAdd' = toAdd \ {p}
  /\ spanAt' = 1
  /\ UNCHANGED <<spans, parsed, best>>

Added == spanAt' = 0 /\ UNCHANGED adding

(* Whether the span that is added ends before the one after the i-th of    *)
(* the list s, if there is one.                                            *)
FitsBefore(s, i) == i < Len(s) => adding.to <= s[i + 1].from

Same(q) == adding.retry = q.retry /\ adding.val = q.val

(* The list ends, or what is added lies before the next span.  It becomes  *)
(* a span of its own, or a part of the next one.                           *)
PutBefore ==
  /\ spanAt > 0
  /\ spanAt <= Len(spans) => adding.to <= spans[spanAt].from
  /\ spans' = IF /\ spanAt <= Len(spans)
                 /\ adding.to = spans[spanAt].from
                 /\ Same(spans[spanAt])
              THEN [spans EXCEPT ![spanAt].from = adding.from]
              ELSE InsertAt(spans, spanAt, adding)
  /\ Added
  /\ UNCHANGED <<toAdd, parsed, best>>

(* It lies after this span, and is added to it or goes on.                 *)
PassOver ==
  /\ spanAt \in 1..Len(spans)
  /\ adding.to > spans[spanAt].from
  /\ spans[spanAt].to <= adding.from
  /\ IF /\ spans[spanAt].to = adding.from
        /\ Same(spans[spanAt])
        /\ FitsBefore(spans, spanAt)
     THEN spans' = [spans EXCEPT ![spanAt].to = adding.to] /\ Added
     ELSE spanAt' = spanAt + 1 /\ UNCHANGED <<spans, adding>>
  /\ UNCHANGED <<toAdd, parsed, best>>

Overlaps ==
  /\ spanAt \in 1..Len(spans)
  /\ adding.to > spans[spanAt].from
  /\ spans[spanAt].to > adding.from

(* The i-th of the list s is a part of the span that is added: it now ends *)
(* where that does, or reaches up to the next one and the rest goes on.    *)
Grow(s, i) ==
  IF FitsBefore(s, i)
  THEN spans' = [s EXCEPT ![i].to = adding.to] /\ Added
  ELSE /\ spans' = [s EXCEPT ![i].to = s[i + 1].from]
       /\ adding' = [adding EXCEPT !.from = s[i + 1].from]
       /\ spanAt' = i + 1

SmallerOf(a, b) == IF a < b THEN a ELSE b

(* Values are the same: the old span is extended, at most to the next one. *)
Extend ==
  /\ Overlaps
  /\ adding.val = spans[spanAt].val
  /\ LET s == [spans EXCEPT ![spanAt].from = SmallerOf(@, adding.from)]
     IN IF s[spanAt].to >= adding.to
        THEN spans' = s /\ Added
        ELSE Grow(s, spanAt)
  /\ UNCHANGED <<toAdd, parsed, best>>

(* The list with the span that is added in the place of the old one where  *)
(* they overlap.                                                           *)
Replaced ==
  [spans EXCEPT ![spanAt] = [adding EXCEPT !.to = SmallerOf(@, spans[spanAt].to)]]

(* Variant: what follows the new span in the old one is lost.              *)
ReplaceRest ==
  /\ Overlaps
  /\ adding.val < spans[spanAt].val
  /\ LET old == spans[spanAt]
     IN IF old.from < adding.from
        THEN Grow(InsertAt(Replaced, spanAt, [old EXCEPT !.to = adding.from]),
                  spanAt + 1)
        ELSE Grow(Replaced, spanAt)
  /\ UNCHANGED <<toAdd, parsed, best>>

(* The new value is better: it replaces the old span where they overlap,   *)
(* and what the old span has before and after that is saved.               *)
Replace ==
  /\ Overlaps
  /\ adding.val < spans[spanAt].val
  /\ LET old == spans[spanAt]
         s   == IF adding.to < old.to
                THEN InsertAt(Replaced, spanAt + 1, [old EXCEPT !.from = adding.to])
                ELSE Replaced
     IN IF old.from < adding.from
        THEN Grow(InsertAt(s, spanAt, [old EXCEPT !.to = adding.from]), spanAt + 1)
        ELSE Grow(s, spanAt)
  /\ UNCHANGED <<toAdd, parsed, best>>

(* The old value is better: what the new span has before it is put in, and *)
(* what it has after it goes on.                                           *)
Keep ==
  /\ Overlaps
  /\ adding.val > spans[spanAt].val
  /\ LET old    == spans[spanAt]
         before == adding.from < old.from
     IN /\ spans' = IF before
                    THEN InsertAt(spans, spanAt, [adding EXCEPT !.to = old.from])
                    ELSE spans
        /\ IF adding.to <= old.to THEN Added
           ELSE /\ adding' = [adding EXCEPT !.from = old.to]
                /\ spanAt' = spanAt + (IF before THEN 2 ELSE 1)
  /\ UNCHANGED <<toAdd, parsed, best>>

SpanNext ==
  \/ ParseTime \/ NextSpan \/ PutBefore \/ PassOver \/ Extend \/ Replace \/ Keep

SpanSpec == SpanInit /\ [][SpanNext]_spanVars

-----------------------------------------------------------------------------
(* Properties *)

(* "We keep the list sorted by time": each span has some time in it and    *)
(* ends before the next one begins, also while a span is added             *)
(* (itadd_span).                                                           *)
SpansOrdered ==
  \A i \in 1..Len(spans) :
    /\ spans[i].from < spans[i].to
    /\ i < Len(spans) => spans[i].to <= spans[i + 1].from

(* When all strings are added, the list has for every time of the week the *)
(* best value of the strings that contain it, and no value if there are    *)
(* none, whatever they overlap (_uuconf_itime_parse, itadd_span).          *)
BestValue ==
  spanAt = 0 /\ toAdd = {} =>
    \A t \in Week :
      LET has == {spans[i].val : i \in {j \in 1..Len(spans) :
                                          spans[j].from <= t /\ t < spans[j].to}}
      IN has = {best[t]} \ {0}

(* The list of spans is a list of spans, and says what the strings say.    *)
SpansMean == SpansOrdered /\ BestValue
=============================================================================
