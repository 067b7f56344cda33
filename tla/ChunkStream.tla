---------------------------- MODULE ChunkStream ----------------------------
(***************************************************************************)
(* What a trace file promises, whatever threads produce it: the chunks the *)
(* writer filled are stored one after the other in the order in which they *)
(* were filled, and the file is closed only when all of them are stored.   *)
(***************************************************************************)
EXTENDS Integers, Sequences

VARIABLES sent,     \* the numbers of the chunks that hold data, counted as they are filled
          stored,   \* the chunks in the file
          closed    \* the file has been closed

streamVars == <<sent, stored, closed>>

Init == sent = {} /\ stored = <<>> /\ closed = FALSE

Stored(c) == \E i \in 1 .. Len(stored) : stored[i] = c

Fill ==
  /\ ~closed
  /\ \E c \in sent' : (\A d \in sent : d < c) /\ sent' = sent \cup {c}
  /\ UNCHANGED <<stored, closed>>

\* The oldest chunk that is not in the file yet is stored.
Store ==
  /\ ~closed
  /\ \E c \in sent : /\ ~Stored(c)
                     /\ \A d \in sent : d < c => Stored(d)
                     /\ stored' = Append(stored, c)
  /\ UNCHANGED <<sent, closed>>

Close ==
  /\ \A c \in sent : Stored(c)
  /\ closed' = TRUE
  /\ UNCHANGED <<sent, stored>>

Next == Fill \/ Store \/ Close

Spec == Init /\ [][Next]_streamVars
=============================================================================
