----------------------------- MODULE SerialPort -----------------------------
(***************************************************************************)
(* The serial driver of go/engine/resource/serial_impl.go: one goroutine   *)
(* reads the port and hands complete lines over, either to the one Read in *)
(* flight or else to the permanent callback of the port's channel. Callers *)
(* are SerialRead nodes, which flush the input before they read.           *)
(*                                                                         *)
(* A byte is its position in the stream the device sends, together with    *)
(* the mark of a newline; a line is the sequence of its bytes, newline     *)
(* included. Each action is one critical section of d.mu, or one call of   *)
(* the operating system outside it.                                        *)
(***************************************************************************)
EXTENDS Naturals, Sequences

CONSTANTS
  Callers,     \* goroutines that execute a SerialRead
  Channels,    \* UART channels that want the port's line callback
  None,        \* no caller, no channel
  MaxLine,     \* bytes kept while there is no newline (maxLineBytes)
  MaxBytes     \* bound of the model on what the device sends

ASSUME SerialAssumption ==
  /\ None \notin Callers \cup Channels
  /\ Callers \cap Channels = {}
  /\ MaxLine \in Nat \ {0}
  /\ MaxBytes \in Nat

VARIABLES
  sent,        \* number of bytes the device has sent
  kernel,      \* input buffer of the operating system
  handle,      \* "open" until handle.Close
  rpc,         \* control point of readerLoop
  buf,         \* its local buffer
  drainBuf,    \* set by Flush, honoured by readerLoop
  closed,      \* d.closed, and d.done closed with it
  cancelled,   \* the callers' ctx is done
  onLine,      \* the channel whose callback is installed
  waiter,      \* the caller whose Read is registered
  cpc,         \* control point of each caller
  slot,        \* the channel each Read waits on: empty or one line
  handed,      \* history: every line handed over, to a Read, to the callback or to nobody
  discarded    \* history: bytes dropped by a flush, an overflow or Close

port == <<sent, kernel, handle>>
reader == <<rpc, buf>>
calls == <<cpc, slot>>
ghosts == <<handed, discarded>>
vars == <<port, reader, drainBuf, closed, cancelled, onLine, waiter, calls, ghosts>>

Byte == [pos : 1 .. MaxBytes, newline : BOOLEAN]
Bytes(s) == {s[i].pos : i \in DOMAIN s}
HandedBytes == UNION {Bytes(handed[i]) : i \in DOMAIN handed}

TypeOK ==
  /\ sent \in 0 .. MaxBytes
  /\ kernel \in Seq(Byte) /\ buf \in Seq(Byte)
  /\ handle \in {"open", "closed"}
  /\ rpc \in {"top", "reading", "splitting", "exited"}
  /\ rpc \in {"top", "reading"} => Len(buf) <= MaxLine
  /\ drainBuf \in BOOLEAN /\ closed \in BOOLEAN /\ cancelled \in BOOLEAN
  /\ onLine \in Channels \cup {None}
  /\ waiter \in Callers \cup {None}
  /\ cpc \in [Callers -> {"idle", "flushing", "flushed", "waiting", "returning"}]
  /\ slot \in [Callers -> Seq(Seq(Byte))]
  /\ \A c \in Callers : Len(slot[c]) <= 1
  /\ handed \in Seq(Seq(Byte))
  /\ discarded \subseteq 1 .. MaxBytes

Init ==
  /\ sent = 0 /\ kernel = <<>> /\ handle = "open"
  /\ rpc = "top" /\ buf = <<>>
  /\ drainBuf = FALSE /\ closed = FALSE /\ cancelled = FALSE
  /\ onLine = None /\ waiter = None
  /\ cpc = [c \in Callers |-> "idle"]
  /\ slot = [c \in Callers |-> <<>>]
  /\ handed = <<>> /\ discarded = {}

NewlineAt(s, i) == s[i].newline /\ \A j \in 1 .. i - 1 : ~s[j].newline

-----------------------------------------------------------------------------
(* Mutants: errors the driver could have had. Each stands in for the operator  *)
(* named in its comment in a run that must then fail; none is part of Next.    *)

\* HandOver without d.waiter = nil.
HandOverKeepsSlot(line) ==
  IF waiter # None
  THEN /\ Len(slot[waiter]) = 0
       /\ slot' = [slot EXCEPT ![waiter] = <<line>>]
       /\ handed' = Append(handed, line)
       /\ UNCHANGED waiter
  ELSE /\ handed' = Append(handed, line)
       /\ UNCHANGED <<slot, waiter>>

\* EndChunk without the overflow check.
EndChunkUnbounded ==
  /\ rpc = "splitting"
  /\ \A i \in DOMAIN buf : ~buf[i].newline
  /\ rpc' = "top"
  /\ UNCHANGED <<port, buf, drainBuf, closed, cancelled, onLine, waiter, calls, ghosts>>

\* ClearWaiter that empties the slot whoever holds it.
ClearAnyWaiter(c) ==
  /\ cpc[c] = "returning"
  /\ cpc' = [cpc EXCEPT ![c] = "idle"]
  /\ waiter' = None
  /\ UNCHANGED <<port, reader, drainBuf, closed, cancelled, onLine, slot, ghosts>>

\* Quit on a timeout of its own.
QuitOnTimeout(c) ==
  /\ cpc[c] = "waiting"
  /\ cpc' = [cpc EXCEPT ![c] = "returning"]
  /\ UNCHANGED <<port, reader, drainBuf, closed, cancelled, onLine, waiter, slot, ghosts>>

\* Quit on cancellation only: a Read that does not watch d.done.
QuitOnCancel(c) ==
  /\ cpc[c] = "waiting"
  /\ cancelled
  /\ cpc' = [cpc EXCEPT ![c] = "returning"]
  /\ UNCHANGED <<port, reader, drainBuf, closed, cancelled, onLine, waiter, slot, ghosts>>

-----------------------------------------------------------------------------
(* The device and readerLoop *)

\* The device sends a byte, at any time.
Arrive ==
  /\ handle = "open"
  /\ sent < MaxBytes
  /\ sent' = sent + 1
  /\ \E nl \in BOOLEAN : kernel' = Append(kernel, [pos |-> sent + 1, newline |-> nl])
  /\ UNCHANGED <<handle, reader, drainBuf, closed, cancelled, onLine, waiter, calls, ghosts>>

\* Top of the loop: honour a pending flush, then block in handle.Read.
Drain ==
  /\ rpc = "top"
  /\ rpc' = "reading"
  /\ buf' = IF drainBuf THEN <<>> ELSE buf
  /\ discarded' = IF drainBuf THEN discarded \cup Bytes(buf) ELSE discarded
  /\ drainBuf' = FALSE
  /\ UNCHANGED <<port, closed, cancelled, onLine, waiter, calls, handed>>

\* handle.Read returns some of the bytes the kernel holds.
ReadChunk ==
  /\ rpc = "reading"
  /\ handle = "open"
  /\ \E n \in 1 .. Len(kernel) :
       /\ buf' = buf \o SubSeq(kernel, 1, n)
       /\ kernel' = SubSeq(kernel, n + 1, Len(kernel))
  /\ rpc' = "splitting"
  /\ UNCHANGED <<sent, handle, drainBuf, closed, cancelled, onLine, waiter, calls, ghosts>>

\* handle.Read returns nothing: back to the top.
ReadNothing ==
  /\ rpc = "reading"
  /\ handle = "open"
  /\ rpc' = "top"
  /\ UNCHANGED <<port, buf, drainBuf, closed, cancelled, onLine, waiter, calls, ghosts>>

\* handle.Read fails on a port that is open (the adapter was pulled out). Only
\* the goroutine ends: the port is not marked closed, and a Read goes on waiting.
ReadFails ==
  /\ rpc = "reading"
  /\ handle = "open"
  /\ rpc' = "exited"
  /\ UNCHANGED <<port, buf, drainBuf, closed, cancelled, onLine, waiter, calls, ghosts>>

\* handle.Read fails on the closed port.
ReaderExits ==
  /\ rpc = "reading"
  /\ handle = "closed"
  /\ rpc' = "exited"
  /\ UNCHANGED <<port, buf, drainBuf, closed, cancelled, onLine, waiter, calls, ghosts>>

\* dispatch: the line goes to the Read in flight, which gives up the slot, or
\* to the callback, or nowhere. The send happens with d.mu held, so that it
\* would block everyone if the Read's channel were full.
HandOver(line) ==
  IF waiter # None
  THEN /\ Len(slot[waiter]) = 0
       /\ slot' = [slot EXCEPT ![waiter] = <<line>>]
       /\ handed' = Append(handed, line)
       /\ waiter' = None
  ELSE /\ handed' = Append(handed, line)
       /\ UNCHANGED <<slot, waiter>>

\* Mutant of Dispatch: what follows the line in the buffer is thrown away.
DispatchAndReset ==
  /\ rpc = "splitting"
  /\ \E i \in DOMAIN buf :
       /\ NewlineAt(buf, i)
       /\ buf' = <<>>
       /\ HandOver(SubSeq(buf, 1, i))
  /\ UNCHANGED <<port, rpc, drainBuf, closed, cancelled, onLine, cpc, discarded>>

\* Mutant of Dispatch: cuts at the last newline of the buffer.
DispatchAtLastNewline ==
  /\ rpc = "splitting"
  /\ \E i \in DOMAIN buf :
       /\ buf[i].newline /\ \A j \in i + 1 .. Len(buf) : ~buf[j].newline
       /\ buf' = SubSeq(buf, i + 1, Len(buf))
       /\ HandOver(SubSeq(buf, 1, i))
  /\ UNCHANGED <<port, rpc, drainBuf, closed, cancelled, onLine, cpc, discarded>>

\* The first line of the buffer is cut off and handed over.
Dispatch ==
  /\ rpc = "splitting"
  /\ \E i \in DOMAIN buf :
       /\ NewlineAt(buf, i)
       /\ buf' = SubSeq(buf, i + 1, Len(buf))
       /\ HandOver(SubSeq(buf, 1, i))
  /\ UNCHANGED <<port, rpc, drainBuf, closed, cancelled, onLine, cpc, discarded>>

\* No newline left: an overlong rest is dropped, and the loop goes on.
EndChunk ==
  /\ rpc = "splitting"
  /\ \A i \in DOMAIN buf : ~buf[i].newline
  /\ rpc' = "top"
  /\ buf' = IF Len(buf) > MaxLine THEN <<>> ELSE buf
  /\ discarded' = IF Len(buf) > MaxLine THEN discarded \cup Bytes(buf) ELSE discarded
  /\ UNCHANGED <<port, drainBuf, closed, cancelled, onLine, waiter, calls, handed>>

-----------------------------------------------------------------------------
(* Channel setup and the callers: SerialRead.Execute is Flush, Write, Read *)

\* The first channel installs its callback; a second one is refused.
WatchRead(ch) ==
  /\ ~closed
  /\ onLine = None
  /\ onLine' = ch
  /\ UNCHANGED <<port, reader, drainBuf, closed, cancelled, waiter, calls, ghosts>>

\* Flush under the lock. On a closed port it fails and the node with it.
FlushReader(c) ==
  /\ cpc[c] = "idle"
  /\ ~closed
  /\ drainBuf' = TRUE
  /\ cpc' = [cpc EXCEPT ![c] = "flushing"]
  /\ UNCHANGED <<port, reader, closed, cancelled, onLine, waiter, slot, ghosts>>

\* ... then, outside the lock, ResetInputBuffer.
FlushKernel(c) ==
  /\ cpc[c] = "flushing"
  /\ handle = "open"
  /\ kernel' = <<>>
  /\ discarded' = discarded \cup Bytes(kernel)
  /\ cpc' = [cpc EXCEPT ![c] = "flushed"]
  /\ UNCHANGED <<sent, handle, reader, drainBuf, closed, cancelled, onLine, waiter, slot,
                 handed>>

\* ResetInputBuffer fails, on a closed port in any case, and the node with it.
FlushFails(c) ==
  /\ cpc[c] = "flushing"
  /\ cpc' = [cpc EXCEPT ![c] = "idle"]
  /\ UNCHANGED <<port, reader, drainBuf, closed, cancelled, onLine, waiter, slot, ghosts>>

\* Write fails; when it succeeds nothing changes on the input side.
PromptFails(c) ==
  /\ cpc[c] = "flushed"
  /\ cpc' = [cpc EXCEPT ![c] = "idle"]
  /\ UNCHANGED <<port, reader, drainBuf, closed, cancelled, onLine, waiter, slot, ghosts>>

\* Read claims the one waiter slot, or fails: closed, or a Read is in flight.
Register(c) ==
  /\ cpc[c] = "flushed"
  /\ IF ~closed /\ waiter = None
     THEN /\ waiter' = c
          /\ slot' = [slot EXCEPT ![c] = <<>>]
          /\ cpc' = [cpc EXCEPT ![c] = "waiting"]
     ELSE /\ cpc' = [cpc EXCEPT ![c] = "idle"]
          /\ UNCHANGED <<waiter, slot>>
  /\ UNCHANGED <<port, reader, drainBuf, closed, cancelled, onLine, ghosts>>

\* The select of Read: a line ...
Receive(c) ==
  /\ cpc[c] = "waiting"
  /\ slot[c] # <<>>
  /\ slot' = [slot EXCEPT ![c] = <<>>]
  /\ cpc' = [cpc EXCEPT ![c] = "returning"]
  /\ UNCHANGED <<port, reader, drainBuf, closed, cancelled, onLine, waiter, ghosts>>

\* ... or cancellation, or Close, which win at random when a line is there too.
Quit(c) ==
  /\ cpc[c] = "waiting"
  /\ cancelled \/ closed
  /\ cpc' = [cpc EXCEPT ![c] = "returning"]
  /\ UNCHANGED <<port, reader, drainBuf, closed, cancelled, onLine, waiter, slot, ghosts>>

\* The deferred clearWaiter gives the slot back if it is still this Read's.
ClearWaiter(c) ==
  /\ cpc[c] = "returning"
  /\ cpc' = [cpc EXCEPT ![c] = "idle"]
  /\ waiter' = IF waiter = c THEN None ELSE waiter
  /\ UNCHANGED <<port, reader, drainBuf, closed, cancelled, onLine, slot, ghosts>>

-----------------------------------------------------------------------------
(* Shutdown *)

Cancel ==
  /\ ~cancelled
  /\ cancelled' = TRUE
  /\ UNCHANGED <<port, reader, drainBuf, closed, onLine, waiter, calls, ghosts>>

\* Close under the lock; a second call returns at once.
MarkClosed ==
  /\ ~closed
  /\ closed' = TRUE
  /\ UNCHANGED <<port, reader, drainBuf, cancelled, onLine, waiter, calls, ghosts>>

\* ... then, outside the lock, handle.Close, which fails a pending handle.Read.
CloseHandle ==
  /\ closed
  /\ handle = "open"
  /\ handle' = "closed"
  /\ kernel' = <<>>
  /\ discarded' = discarded \cup Bytes(kernel)
  /\ UNCHANGED <<sent, reader, drainBuf, closed, cancelled, onLine, waiter, calls,
                 handed>>

Ended == closed /\ handle = "closed" /\ rpc = "exited" /\ \A c \in Callers : cpc[c] = "idle"

\* Nothing more happens on the port once it has ended.
Stop == Ended /\ UNCHANGED vars

ReaderStep == Drain \/ ReadNothing \/ ReadChunk \/ ReaderExits \/ Dispatch \/ EndChunk

ReadStep(c) == Register(c) \/ Receive(c) \/ Quit(c) \/ ClearWaiter(c)

FlushStep(c) == FlushKernel(c) \/ FlushFails(c)

CallStep(c) == FlushReader(c) \/ FlushStep(c) \/ PromptFails(c) \/ ReadStep(c)

Next ==
  \/ Arrive
  \/ ReaderStep
  \/ ReadFails
  \/ \E ch \in Channels : WatchRead(ch)
  \/ \E c \in Callers : CallStep(c)
  \/ Cancel
  \/ MarkClosed
  \/ CloseHandle
  \/ Stop

\* Go runs every goroutine that can run. The device may stay silent, and
\* nobody has to call or to close.
Fairness ==
  /\ WF_vars(ReaderStep)
  /\ WF_vars(CloseHandle)
  /\ \A c \in Callers : WF_vars(FlushStep(c)) /\ WF_vars(ReadStep(c))

Spec == Init /\ [][Next]_vars

FairSpec == Spec /\ Fairness

-----------------------------------------------------------------------------
(* What the driver promises *)

\* The send in dispatch happens with d.mu held: it never blocks, because the
\* registered Read has an empty channel of its own and has not returned yet.
ReaderNeverBlocksUnderLock ==
  waiter # None => slot[waiter] = <<>> /\ cpc[waiter] \in {"waiting", "returning"}

\* A Read in flight keeps the slot until a line is handed to it, so that the next
\* line is its own: another Read that returns late does not take it away.
ReadInFlightKeepsSlot ==
  \A c \in Callers : cpc[c] = "waiting" /\ slot[c] = <<>> => waiter = c

\* Bytes in the order the device sent them, within a buffer and from one to
\* the next.
Rising(s) == \A i, j \in DOMAIN s : i < j => s[i].pos < s[j].pos
Before(s, t) == \A i \in DOMAIN s, j \in DOMAIN t : s[i].pos < t[j].pos

\* The input is one stream from the device through the kernel and the reader's
\* buffer into the lines: no byte is lost or doubled on its way, none overtakes
\* another, and what was dropped was dropped by a flush, an overflow or Close
\* and shows up nowhere else.
EveryByteOnce ==
  /\ \A i \in DOMAIN handed :
       /\ Rising(handed[i]) /\ Before(handed[i], buf) /\ Before(handed[i], kernel)
       /\ \A j \in DOMAIN handed : i < j => Before(handed[i], handed[j])
  /\ Rising(buf) /\ Before(buf, kernel) /\ Rising(kernel)
  /\ (HandedBytes \cup Bytes(buf) \cup Bytes(kernel)) \cap discarded = {}
  /\ HandedBytes \cup Bytes(buf) \cup Bytes(kernel) \cup discarded = 1 .. sent

\* A line handed over ends with the first newline in it.
LinesAreCut ==
  \A i \in DOMAIN handed : NewlineAt(handed[i], Len(handed[i]))

\* A line that its Read never returned was lost to shutdown.
LineLostOnlyAtShutdown ==
  \A c \in Callers :
    slot[c] # <<>> /\ cpc[c] \in {"returning", "idle"} => cancelled \/ closed

\* Close ends everything: the reader goroutine exits and every Read returns.
CloseEndsAll == closed ~> Ended

=============================================================================
