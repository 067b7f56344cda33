--------------------------- MODULE MCHostMemory ---------------------------
(***************************************************************************)
(* Host memory on eight bytes compared two at a time: a buffer of five     *)
(* bytes, whose last byte is compared alone and whose first and last words *)
(* can change without the one between, and an addressed buffer of two      *)
(* after a byte that belongs to neither.                                   *)
(***************************************************************************)
EXTENDS HostMemory, TLC

CONSTANTS o1, o2, c1, c2

MCOffset == (o1 :> 0) @@ (o2 :> 6)
MCSize == (o1 :> 5) @@ (o2 :> 2)
MCWindow == {<<0, WHOLE_SIZE>>, <<4, 9>>}
MCTouch == {<<o1, 0, WHOLE_SIZE>>, <<o1, 3, 1>>, <<o2, 0, WHOLE_SIZE>>}
MCGarbage == [b \in Byte |-> IF b = 1 \/ b = 7 THEN 1 ELSE 0]
CmdbufSymmetry == Permutations(Cmdbuf)
=============================================================================
