---------------------------- MODULE SerialFlush ----------------------------
(***************************************************************************)
(* What Flush leaves behind: SerialPort with one more history variable.    *)
(***************************************************************************)
EXTENDS SerialPort

VARIABLE partial   \* the unfinished line the reader held when the caller's
                   \* Flush returned

flushVars == <<vars, partial>>

Held == IF rpc = "reading" /\ drainBuf THEN Bytes(buf) ELSE {}

Remember ==
  partial' = [c \in Callers |->
    CASE cpc[c] = "idle" /\ cpc'[c] = "flushing" -> {}
      [] cpc[c] = "flushing" /\ cpc'[c] = "flushed" -> Held
      [] OTHER -> partial[c]]

FlushInit == Init /\ partial = [c \in Callers |-> {}]

FlushSpec == FlushInit /\ [][Next /\ Remember]_flushVars

\* Flush discards buffered input, the kernel's and any partial line in the
\* reader (serial_impl.go:166-167): no line handed to the caller afterwards
\* holds a byte the reader had in its buffer when Flush returned. This does not
\* hold: the reader, blocked in handle.Read, looks at drainBuf only after it
\* has appended the next bytes to the old ones and dispatched the line.
FlushDiscardsPartialLine ==
  \A c \in Callers :
    cpc[c] \in {"waiting", "returning"} /\ slot[c] # <<>>
      => Bytes(slot[c][1]) \cap partial[c] = {}

=============================================================================
