--------------------------- MODULE RangeTracking ---------------------------
(***************************************************************************)
(* The exposure structure of rangetracking.h: a list of closed ranges of   *)
(* byte offsets that the tracer adds to (add), cuts holes into (fetch) and *)
(* intersects (overlap).  A second range below a single one is appended    *)
(* and the list marked reversed, so that filling memory downwards costs    *)
(* no insertion; every other operation first turns the list around.       *)
(*                                                                         *)
(* Offsets stay far below 2^64 here, so the overflow guards of the code    *)
(* (end != UINT64_MAX and the like) are never taken.                       *)
(***************************************************************************)
EXTENDS Integers, Sequences, FiniteSetsExt, SequencesExt

Rng(first, last) == [first |-> first, last |-> last]

\* range::invalid(): first > last.
NoRange == Rng(1, 0)

Valid(g) == g.first <= g.last

NoExposure == [r |-> <<>>, reversed |-> FALSE]

\* The bytes an exposure stands for, whatever the order of its list.
BytesOf(e) == UNION {e.r[i].first .. e.r[i].last : i \in DOMAIN e.r}

\* The span from the lowest to the highest byte of a set of bytes.
Hull(bytes) == IF bytes = {} THEN NoRange ELSE Rng(Min(bytes), Max(bytes))

normalize(e) ==
    IF e.reversed THEN [r |-> Reverse(e.r), reversed |-> FALSE] ELSE e

-----------------------------------------------------------------------------
(* add of a range that starts inside the list: the first element that is   *)
(* not wholly below start is widened and swallows what it then reaches.    *)
AddInside(r, start, end) ==
    LET i == Min({k \in DOMAIN r : r[k].last + 1 >= start})
        top == Max({end, r[i].last})
        j == Max({i} \cup {k \in i .. Len(r) : r[k].first <= top + 1})
        merged == Rng(Min({r[i].first, start}), Max({top, r[j].last}))
    IN  IF end + 1 < r[i].first
        THEN SubSeq(r, 1, i - 1) \o <<Rng(start, end)>> \o SubSeq(r, i, Len(r))
        ELSE SubSeq(r, 1, i - 1) \o <<merged>> \o SubSeq(r, j + 1, Len(r))

add(e, start, end) ==
    LET new == Rng(start, end)
        n == normalize(e).r
        back == n[Len(n)]
    IN  CASE e.r = <<>> ->
                [r |-> <<new>>, reversed |-> FALSE]
          [] e.r # <<>> /\ e.reversed /\ end + 1 < e.r[Len(e.r)].first ->
                [e EXCEPT !.r = Append(@, new)]
          [] OTHER ->
                IF end + 1 < n[1].first THEN
                    IF Len(n) = 1
                    THEN [r |-> Append(n, new), reversed |-> TRUE]
                    ELSE [r |-> <<new>> \o n, reversed |-> FALSE]
                ELSE [r |-> IF start > back.last + 1 THEN Append(n, new)
                            ELSE IF start >= back.first
                            THEN [n EXCEPT ![Len(n)].last = Max({@, end})]
                            ELSE AddInside(n, start, end),
                      reversed |-> FALSE]

add_os(e, offset, size) ==
    IF size > 0 THEN add(e, offset, offset + size - 1) ELSE e

\* A hole cut one byte short at its upper end.
CutOutShort(g, start, end) ==
    SelectSeq(<<Rng(g.first, Min({g.last, start - 1})),
                Rng(Max({g.first, end}), g.last)>>, Valid)

\* What is left of one range when start .. end is cut out of it.
CutOut(g, start, end) ==
    SelectSeq(<<Rng(g.first, Min({g.last, start - 1})),
                Rng(Max({g.first, end + 1}), g.last)>>, Valid)

(* fetch returns the span of what is exposed inside start .. end and, when *)
(* the memory is not mapped at the moment, forgets it.                     *)
fetch(e, start, end, is_mapped) ==
    LET n == normalize(e)
        hit == BytesOf(n) \cap (start .. end)
        cut == FlattenSeq([i \in DOMAIN n.r |-> CutOut(n.r[i], start, end)])
    IN  [span |-> Hull(hit),
         left |-> IF is_mapped THEN n ELSE [n EXCEPT !.r = cut]]

\* The span of what two exposures share, the second one moved up by offset.
overlap(e, other, offset) ==
    Hull(BytesOf(e) \cap {b + offset : b \in BytesOf(other)})

\* exposure::list: the ranges in ascending order.
list(e) == normalize(e).r

\* The assertions of exposure::self_test, and that touching ranges were merged.
Canonical(e) ==
    LET n == list(e)
    IN  /\ \A i \in DOMAIN n : Valid(n[i])
        /\ \A i \in 1 .. Len(n) - 1 : n[i].last + 1 < n[i + 1].first
=============================================================================
