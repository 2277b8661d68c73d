--------------------------- MODULE MCSerialFlush ---------------------------
(***************************************************************************)
(* Two callers and one channel on a port. The callers are alike.           *)
(***************************************************************************)
EXTENDS SerialFlush, TLC

CONSTANTS c1, c2

CallerSymmetry == Permutations({c1, c2})

=============================================================================
