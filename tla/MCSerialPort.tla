---------------------------- MODULE MCSerialPort ----------------------------
(***************************************************************************)
(* Two callers and one channel on a port.                                  *)
(***************************************************************************)
EXTENDS SerialPort

CONSTANTS c1, c2

=============================================================================
