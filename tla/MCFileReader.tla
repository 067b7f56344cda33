----------------------------- MODULE MCFileReader -----------------------------
(***************************************************************************)
(* For FileReader: every stream of up to MaxChunks chunks of up to         *)
(* MaxChunk units and up to MaxSize units in all, cut into packets in      *)
(* every way.                                                              *)
(***************************************************************************)
EXTENDS FileReader

CONSTANTS MaxChunks, MaxChunk, MaxSize,    \* bounds on the streams
          WithRange                        \* a frame range is selected

Streams ==
  {u \in UNION {[1 .. n -> 1 .. MaxSize] : n \in 1 .. MaxChunks} :
     \A k \in DOMAIN u : u[k] - (IF k = 1 THEN 0 ELSE u[k - 1]) \in 1 .. MaxChunk}

MCLayouts ==
  UNION {LET size == Total([upto |-> u])
         IN {[upto |-> u, ends |-> e \cup {size}, wanted |-> w] :
               e \in SUBSET (1 .. size - 1), w \in IF WithRange THEN 1 .. size ELSE {size}} :
         u \in Streams}
=============================================================================
