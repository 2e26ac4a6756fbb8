--------------------------- MODULE MCBufferQueue ----------------------------
(* Instances of BufferQueue for TLC.                                          *)
EXTENDS BufferQueue, TLC

Symmetry == Permutations(Item)

\* No action looks at ret: states that differ in it only have the same steps.
WithoutRet == <<ring, modes, waits, op, arg>>
=============================================================================
