--------------------------- MODULE SerialPortProofs ---------------------------
(***************************************************************************)
(* Proofs about SerialPort for any callers, channels, line bound and any   *)
(* number of bytes.                                                        *)
(***************************************************************************)
EXTENDS SerialPort, TLAPS

\* A registered Read that is already on its way out left because of shutdown.
LeaverMeansShutdown ==
  waiter # None /\ cpc[waiter] = "returning" => cancelled \/ closed

\* A line in the slot of a caller that no longer waits was lost to shutdown,
\* whatever that caller does next.
LostMeansShutdown ==
  \A c \in Callers : slot[c] # <<>> /\ cpc[c] # "waiting" => cancelled \/ closed

SlotInv ==
  /\ TypeOK
  /\ ReaderNeverBlocksUnderLock
  /\ ReadInFlightKeepsSlot
  /\ LeaverMeansShutdown
  /\ LostMeansShutdown

-----------------------------------------------------------------------------
(* Sequences of bytes *)

LEMMA PrefixAndRest ==
  ASSUME NEW s \in Seq(Byte), NEW i \in 0 .. Len(s)
  PROVE  /\ SubSeq(s, 1, i) \in Seq(Byte) /\ Len(SubSeq(s, 1, i)) = i
         /\ SubSeq(s, i + 1, Len(s)) \in Seq(Byte)
         /\ \A j \in 1 .. i : SubSeq(s, 1, i)[j] = s[j]
  OBVIOUS

LEMMA BytesAreInRange ==
  ASSUME NEW s \in Seq(Byte)
  PROVE  Bytes(s) \subseteq 1 .. MaxBytes
<1>1. ASSUME NEW i \in DOMAIN s PROVE s[i].pos \in 1 .. MaxBytes
  <2>1. s[i] \in Byte OBVIOUS
  <2> QED BY <2>1 DEF Byte
<1> QED BY <1>1 DEF Bytes

-----------------------------------------------------------------------------
(* Types *)

LEMMA InitIsTyped == Init => TypeOK
<1> SUFFICES ASSUME Init PROVE TypeOK OBVIOUS
<1>1. /\ kernel \in Seq(Byte) /\ buf \in Seq(Byte) /\ Len(buf) = 0
      /\ handed \in Seq(Seq(Byte))
  BY DEF Init
<1>2. slot \in [Callers -> Seq(Seq(Byte))] /\ \A c \in Callers : Len(slot[c]) = 0
  BY DEF Init
<1>3. sent \in 0 .. MaxBytes /\ 0 <= MaxLine BY SerialAssumption DEF Init
<1>4. /\ cpc \in [Callers -> {"idle", "flushing", "flushed", "waiting", "returning"}]
      /\ discarded \subseteq 1 .. MaxBytes
  BY DEF Init
<1>5. /\ handle \in {"open", "closed"} /\ rpc \in {"top", "reading", "splitting", "exited"}
      /\ drainBuf \in BOOLEAN /\ closed \in BOOLEAN /\ cancelled \in BOOLEAN
      /\ onLine \in Channels \cup {None} /\ waiter \in Callers \cup {None}
  BY DEF Init
<1>6. Len(buf) <= MaxLine /\ \A c \in Callers : Len(slot[c]) <= 1 BY <1>1, <1>2, <1>3
<1> QED BY <1>1, <1>2, <1>3, <1>4, <1>5, <1>6 DEF TypeOK

LEMMA DeviceKeepsTypes == TypeOK /\ Arrive => TypeOK'
<1> SUFFICES ASSUME TypeOK, Arrive PROVE TypeOK' OBVIOUS
<1>1. PICK nl \in BOOLEAN :
        kernel' = Append(kernel, [pos |-> sent + 1, newline |-> nl])
  BY DEF Arrive
<1>2. sent + 1 \in 1 .. MaxBytes BY SerialAssumption DEF Arrive, TypeOK
<1>3. [pos |-> sent + 1, newline |-> nl] \in Byte BY <1>2 DEF Byte
<1>4. kernel' \in Seq(Byte) BY <1>1, <1>3 DEF TypeOK
<1> QED BY <1>2, <1>4 DEF Arrive, TypeOK, reader, calls, ghosts

LEMMA DispatchKeepsTypes == TypeOK /\ Dispatch => TypeOK'
<1> SUFFICES ASSUME TypeOK, Dispatch PROVE TypeOK' OBVIOUS
<1>1. PICK i \in DOMAIN buf :
        /\ NewlineAt(buf, i)
        /\ buf' = SubSeq(buf, i + 1, Len(buf))
        /\ HandOver(SubSeq(buf, 1, i))
  BY DEF Dispatch
<1> DEFINE line == SubSeq(buf, 1, i)
<1>2. buf \in Seq(Byte) /\ i \in 0 .. Len(buf) BY DEF TypeOK
<1>3. line \in Seq(Byte) /\ buf' \in Seq(Byte) BY <1>1, <1>2, PrefixAndRest
<1>4. HandOver(line) BY <1>1
<1> HIDE DEF line
<1>5. /\ handed' \in Seq(Seq(Byte))
      /\ slot' \in [Callers -> Seq(Seq(Byte))]
      /\ \A c \in Callers : Len(slot'[c]) <= 1
      /\ waiter' \in Callers \cup {None}
  <2>1. CASE waiter # None
    <3>1. /\ slot' = [slot EXCEPT ![waiter] = <<line>>]
          /\ handed' = Append(handed, line)
          /\ waiter' = None
      BY <2>1, <1>4 DEF HandOver
    <3>2. <<line>> \in Seq(Seq(Byte)) /\ Len(<<line>>) = 1 BY <1>3
    <3>3. waiter \in Callers /\ slot \in [Callers -> Seq(Seq(Byte))] BY <2>1 DEF TypeOK
    <3>4. slot' \in [Callers -> Seq(Seq(Byte))] /\ \A c \in Callers : Len(slot'[c]) <= 1
      BY <3>1, <3>2, <3>3 DEF TypeOK
    <3> QED BY <1>3, <3>1, <3>4 DEF TypeOK
  <2>2. CASE waiter = None
    <3>1. /\ handed' = Append(handed, line)
          /\ UNCHANGED <<slot, waiter>>
      BY <2>2, <1>4 DEF HandOver
    <3> QED BY <1>3, <3>1 DEF TypeOK
  <2> QED BY <2>1, <2>2
<1> QED BY <1>3, <1>5 DEF Dispatch, TypeOK, port

LEMMA ReaderKeepsTypes == TypeOK /\ (ReaderStep \/ ReadFails) => TypeOK'
<1> SUFFICES ASSUME TypeOK, ReaderStep \/ ReadFails PROVE TypeOK' OBVIOUS
<1> USE DEF port, calls, ghosts
<1>1. CASE Drain
  <2>1. Bytes(buf) \subseteq 1 .. MaxBytes BY BytesAreInRange DEF TypeOK
  <2>2. Len(buf') <= MaxLine BY <1>1, SerialAssumption DEF Drain, TypeOK
  <2>3. buf' \in Seq(Byte) BY <1>1 DEF Drain, TypeOK
  <2>4. discarded' \subseteq 1 .. MaxBytes BY <1>1, <2>1 DEF Drain, TypeOK
  <2> QED BY <1>1, <2>2, <2>3, <2>4 DEF Drain, TypeOK
<1>2. CASE ReadNothing BY <1>2 DEF ReadNothing, TypeOK
<1>3. CASE ReadChunk
  <2>1. PICK n \in 1 .. Len(kernel) :
          /\ buf' = buf \o SubSeq(kernel, 1, n)
          /\ kernel' = SubSeq(kernel, n + 1, Len(kernel))
    BY <1>3 DEF ReadChunk
  <2>2. kernel \in Seq(Byte) /\ n \in 0 .. Len(kernel) BY DEF TypeOK
  <2>3. SubSeq(kernel, 1, n) \in Seq(Byte) /\ kernel' \in Seq(Byte)
    BY <2>1, <2>2, PrefixAndRest
  <2>4. buf' \in Seq(Byte) BY <2>1, <2>3 DEF TypeOK
  <2> QED BY <1>3, <2>3, <2>4 DEF ReadChunk, TypeOK
<1>4. CASE ReaderExits BY <1>4 DEF ReaderExits, TypeOK
<1>5. CASE Dispatch BY <1>5, DispatchKeepsTypes
<1>6. CASE EndChunk
  <2>1. Bytes(buf) \subseteq 1 .. MaxBytes BY BytesAreInRange DEF TypeOK
  <2>2. Len(buf') <= MaxLine BY <1>6, SerialAssumption DEF EndChunk, TypeOK
  <2>3. buf' \in Seq(Byte) BY <1>6 DEF EndChunk, TypeOK
  <2>4. discarded' \subseteq 1 .. MaxBytes BY <1>6, <2>1 DEF EndChunk, TypeOK
  <2> QED BY <1>6, <2>2, <2>3, <2>4 DEF EndChunk, TypeOK
<1>7. CASE ReadFails BY <1>7 DEF ReadFails, TypeOK
<1> QED BY <1>1, <1>2, <1>3, <1>4, <1>5, <1>6, <1>7 DEF ReaderStep

LEMMA CallsKeepTypes ==
  ASSUME TypeOK, NEW c \in Callers, CallStep(c)
  PROVE  TypeOK'
<1> USE DEF port, reader, ghosts, TypeOK
<1>1. CASE FlushReader(c) BY <1>1 DEF FlushReader
<1>2. CASE FlushKernel(c)
  <2>1. Bytes(buf) \subseteq 1 .. MaxBytes /\ Bytes(kernel) \subseteq 1 .. MaxBytes
    BY BytesAreInRange
  <2>2. kernel' \in Seq(Byte) BY <1>2 DEF FlushKernel
  <2>3. discarded' \subseteq 1 .. MaxBytes BY <1>2, <2>1 DEF FlushKernel
  <2> QED BY <1>2, <2>2, <2>3 DEF FlushKernel
<1>3. CASE FlushFails(c) BY <1>3 DEF FlushFails
<1>4. CASE PromptFails(c) BY <1>4 DEF PromptFails
<1>5. CASE Register(c)
  <2>1. slot' = [slot EXCEPT ![c] = <<>>] \/ slot' = slot BY <1>5 DEF Register
  <2>2. slot' \in [Callers -> Seq(Seq(Byte))] /\ \A d \in Callers : Len(slot'[d]) <= 1
    <3>1. <<>> \in Seq(Seq(Byte)) /\ Len(<<>>) = 0 OBVIOUS
    <3>2. CASE slot' = slot BY <3>2
    <3>3. CASE slot' = [slot EXCEPT ![c] = <<>>]
      <4>1. slot' \in [Callers -> Seq(Seq(Byte))] BY <3>1, <3>3
      <4>2. \A d \in Callers : slot'[d] = IF d = c THEN <<>> ELSE slot[d] BY <3>3
      <4> QED BY <3>1, <4>1, <4>2
    <3> QED BY <2>1, <3>2, <3>3
  <2>3. cpc' \in [Callers -> {"idle", "flushing", "flushed", "waiting", "returning"}]
        /\ waiter' \in Callers \cup {None}
    BY <1>5 DEF Register
  <2> QED BY <1>5, <2>2, <2>3 DEF Register
<1>6. CASE Receive(c) BY <1>6 DEF Receive
<1>7. CASE Quit(c) BY <1>7 DEF Quit
<1>8. CASE ClearWaiter(c) BY <1>8 DEF ClearWaiter
<1> QED BY <1>1, <1>2, <1>3, <1>4, <1>5, <1>6, <1>7, <1>8
        DEF CallStep, FlushStep, ReadStep

LEMMA NextKeepsTypes == TypeOK /\ [Next]_vars => TypeOK'
<1> SUFFICES ASSUME TypeOK, [Next]_vars PROVE TypeOK' OBVIOUS
<1> USE DEF port, reader, calls, ghosts
<1>1. CASE UNCHANGED vars BY <1>1 DEF vars, TypeOK
<1>2. ASSUME NEW ch \in Channels, WatchRead(ch) PROVE TypeOK'
  BY <1>2 DEF WatchRead, TypeOK
<1>3. CASE Cancel BY <1>3 DEF Cancel, TypeOK
<1>4. CASE MarkClosed BY <1>4 DEF MarkClosed, TypeOK
<1>5. CASE CloseHandle
  <2>1. Bytes(kernel) \subseteq 1 .. MaxBytes BY BytesAreInRange DEF TypeOK
  <2>2. kernel' \in Seq(Byte) BY <1>5 DEF CloseHandle
  <2>3. discarded' \subseteq 1 .. MaxBytes BY <1>5, <2>1 DEF CloseHandle, TypeOK
  <2> QED BY <1>5, <2>2, <2>3 DEF CloseHandle, TypeOK
<1> QED BY <1>1, <1>2, <1>3, <1>4, <1>5, DeviceKeepsTypes, ReaderKeepsTypes, CallsKeepTypes
        DEF Next, Stop

-----------------------------------------------------------------------------
(* The slot of the Read in flight *)

LEMMA InitOwnsSlot == Init => SlotInv
<1> SUFFICES ASSUME Init PROVE SlotInv OBVIOUS
<1>1. TypeOK BY InitIsTyped
<1>2. waiter = None /\ \A c \in Callers : cpc[c] = "idle" /\ slot[c] = <<>> BY DEF Init
<1> QED BY <1>1, <1>2 DEF SlotInv, ReaderNeverBlocksUnderLock, ReadInFlightKeepsSlot,
                          LeaverMeansShutdown, LostMeansShutdown

\* What does not touch slots, callers and the two flags of shutdown, or only
\* raises a flag, keeps all of it.
LEMMA OthersLeaveSlotsAlone ==
  ASSUME SlotInv, TypeOK', UNCHANGED <<waiter, cpc, slot>>,
         cancelled => cancelled', closed => closed'
  PROVE  SlotInv'
  BY DEF SlotInv, ReaderNeverBlocksUnderLock, ReadInFlightKeepsSlot,
         LeaverMeansShutdown, LostMeansShutdown

LEMMA HandOverKeepsSlots ==
  ASSUME SlotInv, TypeOK', NEW line, HandOver(line), UNCHANGED <<cpc, cancelled, closed>>
  PROVE  SlotInv'
<1>1. CASE waiter = None
  BY <1>1, OthersLeaveSlotsAlone DEF HandOver
<1>2. CASE waiter # None
  <2>1. /\ waiter \in Callers /\ waiter' = None
        /\ slot' = [slot EXCEPT ![waiter] = <<line>>]
    BY <1>2 DEF HandOver, SlotInv, TypeOK
  <2>2. slot'[waiter] # <<>> /\ \A c \in Callers : c # waiter => slot'[c] = slot[c]
    BY <2>1 DEF SlotInv, TypeOK
  <2>3. cpc[waiter] \in {"waiting", "returning"}
    BY <1>2 DEF SlotInv, ReaderNeverBlocksUnderLock
  <2>4. ReaderNeverBlocksUnderLock' /\ LeaverMeansShutdown'
    BY <2>1 DEF ReaderNeverBlocksUnderLock, LeaverMeansShutdown
  <2>5. ReadInFlightKeepsSlot'
    BY <2>2 DEF SlotInv, ReadInFlightKeepsSlot
  <2>6. LostMeansShutdown'
    BY <1>2, <2>2, <2>3 DEF SlotInv, LeaverMeansShutdown, LostMeansShutdown
  <2> QED BY <2>4, <2>5, <2>6 DEF SlotInv
<1> QED BY <1>1, <1>2

LEMMA CallsKeepSlots ==
  ASSUME SlotInv, NEW c \in Callers, CallStep(c)
  PROVE  SlotInv'
<1>0. TypeOK' BY CallsKeepTypes DEF SlotInv
<1> USE DEF SlotInv, ReaderNeverBlocksUnderLock, ReadInFlightKeepsSlot,
            LeaverMeansShutdown, LostMeansShutdown, TypeOK
<1>1. ASSUME cpc[c] \in {"idle", "flushing", "flushed"},
             NEW to \in {"idle", "flushing", "flushed"},
             cpc' = [cpc EXCEPT ![c] = to], UNCHANGED <<waiter, slot, cancelled, closed>>
      PROVE  SlotInv'
  BY <1>0, <1>1
<1>2. CASE FlushReader(c) \/ FlushStep(c) \/ PromptFails(c)
  BY <1>1, <1>2 DEF FlushReader, FlushStep, FlushKernel, FlushFails, PromptFails
<1>3. CASE Register(c)
  <2>1. CASE ~closed /\ waiter = None
    <3>1. /\ waiter' = c /\ slot' = [slot EXCEPT ![c] = <<>>]
          /\ cpc' = [cpc EXCEPT ![c] = "waiting"] /\ UNCHANGED <<cancelled, closed>>
      BY <1>3, <2>1 DEF Register
    <3>2. \A d \in Callers : d # c => ~(cpc[d] = "waiting" /\ slot[d] = <<>>)
      BY <2>1, SerialAssumption
    <3> QED BY <1>0, <3>1, <3>2
  <2>2. CASE ~(~closed /\ waiter = None)
    BY <1>1, <1>3, <2>2 DEF Register
  <2> QED BY <2>1, <2>2
<1>4. CASE Receive(c)
  BY <1>0, <1>4 DEF Receive
<1>5. CASE Quit(c)
  BY <1>0, <1>5 DEF Quit
<1>6. CASE ClearWaiter(c)
  BY <1>0, <1>6 DEF ClearWaiter
<1> QED BY <1>2, <1>3, <1>4, <1>5, <1>6 DEF CallStep, ReadStep

LEMMA NextKeepsSlots == SlotInv /\ [Next]_vars => SlotInv'
<1> SUFFICES ASSUME SlotInv, [Next]_vars PROVE SlotInv' OBVIOUS
<1>1. TypeOK' BY NextKeepsTypes DEF SlotInv
<1>2. CASE UNCHANGED vars BY <1>1, <1>2, OthersLeaveSlotsAlone DEF vars, calls
<1>3. CASE Dispatch
  <2>1. PICK i \in DOMAIN buf : HandOver(SubSeq(buf, 1, i)) BY <1>3 DEF Dispatch
  <2> QED BY <1>1, <1>3, <2>1, HandOverKeepsSlots DEF Dispatch
<1>4. CASE \E c \in Callers : CallStep(c) BY <1>4, CallsKeepSlots
<1>5. CASE Arrive \/ Drain \/ ReadNothing \/ ReadChunk \/ ReaderExits \/ EndChunk \/ ReadFails
  BY <1>1, <1>5, OthersLeaveSlotsAlone
     DEF Arrive, Drain, ReadNothing, ReadChunk, ReaderExits, EndChunk, ReadFails, calls
<1>6. CASE (\E ch \in Channels : WatchRead(ch)) \/ Cancel \/ MarkClosed \/ CloseHandle
  BY <1>1, <1>6, OthersLeaveSlotsAlone DEF WatchRead, Cancel, MarkClosed, CloseHandle, calls
<1> QED BY <1>2, <1>3, <1>4, <1>5, <1>6 DEF Next, ReaderStep, Stop

LEMMA SlotInvHolds == Spec => []SlotInv
  BY InitOwnsSlot, NextKeepsSlots, PTL DEF Spec

-----------------------------------------------------------------------------
(* Lines *)

LEMMA NextKeepsLinesCut == TypeOK /\ LinesAreCut /\ [Next]_vars => LinesAreCut'
<1> SUFFICES ASSUME TypeOK, LinesAreCut, [Next]_vars PROVE LinesAreCut' OBVIOUS
<1>1. CASE UNCHANGED handed BY <1>1 DEF LinesAreCut
<1>2. CASE Dispatch
  <2>1. PICK i \in DOMAIN buf : NewlineAt(buf, i) /\ HandOver(SubSeq(buf, 1, i))
    BY <1>2 DEF Dispatch
  <2> DEFINE line == SubSeq(buf, 1, i)
  <2>2. buf \in Seq(Byte) /\ i \in 1 .. Len(buf) /\ i \in 0 .. Len(buf) BY DEF TypeOK
  <2>3. Len(line) = i /\ \A j \in 1 .. i : line[j] = buf[j] BY <2>2, PrefixAndRest
  <2>4. HandOver(line) BY <2>1
  <2> HIDE DEF line
  <2>5. NewlineAt(line, Len(line)) BY <2>1, <2>2, <2>3 DEF NewlineAt
  <2>6. handed' = Append(handed, line) BY <2>4 DEF HandOver
  <2>7. handed \in Seq(Seq(Byte)) BY DEF TypeOK
  <2>8. \A k \in DOMAIN handed' :
          \/ k \in DOMAIN handed /\ handed'[k] = handed[k]
          \/ handed'[k] = line
    BY <2>6, <2>7
  <2> QED BY <2>5, <2>8 DEF LinesAreCut
<1>3. CASE \E c \in Callers : CallStep(c)
  BY <1>1, <1>3 DEF CallStep, FlushReader, FlushStep, FlushKernel, FlushFails, PromptFails,
     ReadStep, Register, Receive, Quit, ClearWaiter, ghosts
<1>4. CASE Arrive \/ Drain \/ ReadNothing \/ ReadChunk \/ ReaderExits \/ EndChunk \/ ReadFails
  BY <1>1, <1>4
     DEF Arrive, Drain, ReadNothing, ReadChunk, ReaderExits, EndChunk, ReadFails, ghosts
<1>5. CASE (\E ch \in Channels : WatchRead(ch)) \/ Cancel \/ MarkClosed \/ CloseHandle
  BY <1>1, <1>5 DEF WatchRead, Cancel, MarkClosed, CloseHandle, ghosts
<1>6. CASE UNCHANGED vars BY <1>1, <1>6 DEF vars, ghosts
<1> QED BY <1>2, <1>3, <1>4, <1>5, <1>6 DEF Next, ReaderStep, Stop

-----------------------------------------------------------------------------

\* The state of the driver is well typed; without a newline the reader keeps at
\* most MaxLine bytes from one round to the next.
THEOREM TypeCorrect == Spec => []TypeOK
<1>1. SlotInv => TypeOK BY DEF SlotInv
<1> QED BY <1>1, SlotInvHolds, PTL

\* The send that dispatch makes with d.mu held never blocks.
THEOREM DispatchNeverBlocks == Spec => []ReaderNeverBlocksUnderLock
<1>1. SlotInv => ReaderNeverBlocksUnderLock BY DEF SlotInv
<1> QED BY <1>1, SlotInvHolds, PTL

\* The next line belongs to the Read in flight, whoever else comes and goes.
THEOREM NextLineIsMine == Spec => []ReadInFlightKeepsSlot
<1>1. SlotInv => ReadInFlightKeepsSlot BY DEF SlotInv
<1> QED BY <1>1, SlotInvHolds, PTL

\* Only shutdown loses a line that was handed to a Read.
THEOREM NoLineLostInService == Spec => []LineLostOnlyAtShutdown
<1>1. SlotInv => LineLostOnlyAtShutdown
  BY DEF SlotInv, LostMeansShutdown, LineLostOnlyAtShutdown
<1> QED BY <1>1, SlotInvHolds, PTL

\* Every line handed over ends at the first newline in it.
THEOREM LinesEndAtNewline == Spec => []LinesAreCut
<1>1. Init => LinesAreCut BY DEF Init, LinesAreCut
<1> QED BY <1>1, NextKeepsLinesCut, TypeCorrect, PTL DEF Spec

-----------------------------------------------------------------------------
(* The stream of bytes *)

\* A buffer cut in two after its first i bytes.
Cut(s, i, a, b) == a = SubSeq(s, 1, i) /\ b = SubSeq(s, i + 1, Len(s))

LEMMA CutStream ==
  ASSUME NEW s \in Seq(Byte), NEW i \in 0 .. Len(s), NEW a, NEW b,
         Cut(s, i, a, b)
  PROVE  /\ a \in Seq(Byte) /\ b \in Seq(Byte)
         /\ Bytes(a) \cup Bytes(b) = Bytes(s)
         /\ Rising(s) => Rising(a) /\ Rising(b) /\ Before(a, b)
         /\ \A t : Before(t, s) => Before(t, a) /\ Before(t, b)
         /\ \A t : Before(s, t) => Before(a, t) /\ Before(b, t)
<1>1. /\ a \in Seq(Byte) /\ DOMAIN a = 1 .. i /\ \A j \in DOMAIN a : a[j] = s[j]
      /\ b \in Seq(Byte) /\ DOMAIN b = 1 .. Len(s) - i /\ \A j \in DOMAIN b : b[j] = s[i + j]
      /\ DOMAIN s = 1 .. Len(s) /\ i \in Nat /\ Len(s) \in Nat /\ i <= Len(s)
  BY DEF Cut
<1>2. /\ \A j \in DOMAIN a : j \in DOMAIN s
      /\ \A j \in DOMAIN b : i + j \in DOMAIN s
      /\ \A j \in DOMAIN s : j \in DOMAIN a \/ (j - i \in DOMAIN b /\ i + (j - i) = j)
      /\ \A j \in DOMAIN a, k \in DOMAIN b : j < i + k
      /\ \A j, k \in DOMAIN b : j < k => i + j < i + k
  BY <1>1
<1>3. Bytes(a) \cup Bytes(b) = Bytes(s)
  <2>1. Bytes(a) \subseteq Bytes(s) BY <1>1, <1>2 DEF Bytes
  <2>2. Bytes(b) \subseteq Bytes(s) BY <1>1, <1>2 DEF Bytes
  <2>3. ASSUME NEW j \in DOMAIN s PROVE s[j].pos \in Bytes(a) \cup Bytes(b)
    <3>1. CASE j \in DOMAIN a BY <1>1, <3>1 DEF Bytes
    <3>2. CASE j - i \in DOMAIN b /\ i + (j - i) = j BY <1>1, <3>2 DEF Bytes
    <3> QED BY <1>2, <3>1, <3>2
  <2> QED BY <2>1, <2>2, <2>3 DEF Bytes
<1>4. Rising(s) => Rising(a) /\ Rising(b) /\ Before(a, b)
  BY <1>1, <1>2 DEF Rising, Before
<1>5. \A t : Before(t, s) => Before(t, a) /\ Before(t, b) BY <1>1, <1>2 DEF Before
<1>6. \A t : Before(s, t) => Before(a, t) /\ Before(b, t) BY <1>1, <1>2 DEF Before
<1> QED BY <1>1, <1>3, <1>4, <1>5, <1>6

\* Appending one buffer to another.
LEMMA JoinStream ==
  ASSUME NEW s \in Seq(Byte), NEW t \in Seq(Byte), NEW r, r = s \o t
  PROVE  /\ r \in Seq(Byte)
         /\ Bytes(r) = Bytes(s) \cup Bytes(t)
         /\ Rising(s) /\ Rising(t) /\ Before(s, t) => Rising(r)
         /\ \A u : Before(u, s) /\ Before(u, t) => Before(u, r)
         /\ \A u : Before(s, u) /\ Before(t, u) => Before(r, u)
<1> DEFINE n == Len(s)
<1>1. /\ r \in Seq(Byte) /\ n \in Nat
      /\ DOMAIN r = 1 .. n + Len(t) /\ DOMAIN s = 1 .. n /\ DOMAIN t = 1 .. Len(t)
      /\ \A j \in DOMAIN s : r[j] = s[j]
      /\ \A j \in DOMAIN t : r[n + j] = t[j]
      /\ Len(t) \in Nat
  OBVIOUS
<1> HIDE DEF n
<1>2. /\ \A j \in DOMAIN s : j \in DOMAIN r
      /\ \A j \in DOMAIN t : n + j \in DOMAIN r
      /\ \A j \in DOMAIN r : j \in DOMAIN s \/ (j - n \in DOMAIN t /\ n + (j - n) = j)
      /\ \A j, k \in DOMAIN r : j < k /\ k \in DOMAIN s => j \in DOMAIN s
      /\ \A j, k \in DOMAIN r : j < k => j - n < k - n
  BY <1>1
<1>3. \A j \in DOMAIN r :
        \/ j \in DOMAIN s /\ r[j] = s[j]
        \/ j - n \in DOMAIN t /\ r[j] = t[j - n]
  <2> SUFFICES ASSUME NEW j \in DOMAIN r, j \notin DOMAIN s
               PROVE  j - n \in DOMAIN t /\ r[j] = t[j - n]
    BY <1>1
  <2>1. j - n \in DOMAIN t /\ n + (j - n) = j BY <1>2
  <2>2. r[n + (j - n)] = t[j - n] BY <1>1, <2>1
  <2> QED BY <2>1, <2>2
<1>4. Bytes(r) = Bytes(s) \cup Bytes(t)
  <2>1. Bytes(r) \subseteq Bytes(s) \cup Bytes(t) BY <1>3 DEF Bytes
  <2>2. Bytes(s) \subseteq Bytes(r) BY <1>1, <1>2 DEF Bytes
  <2>3. Bytes(t) \subseteq Bytes(r) BY <1>1, <1>2 DEF Bytes
  <2> QED BY <2>1, <2>2, <2>3
<1>5. ASSUME Rising(s), Rising(t), Before(s, t) PROVE Rising(r)
  <2> SUFFICES ASSUME NEW j \in DOMAIN r, NEW k \in DOMAIN r, j < k
               PROVE  r[j].pos < r[k].pos
    BY DEF Rising
  <2>1. CASE k \in DOMAIN s BY <1>1, <1>2, <1>5, <2>1 DEF Rising
  <2>2. CASE j \in DOMAIN s /\ k \notin DOMAIN s BY <1>3, <1>5, <2>2 DEF Before
  <2>3. CASE j \notin DOMAIN s /\ k \notin DOMAIN s
    <3>1. j - n < k - n BY <1>2
    <3> QED BY <1>3, <1>5, <2>3, <3>1 DEF Rising
  <2> QED BY <1>2, <2>1, <2>2, <2>3
<1>6. \A u : Before(u, s) /\ Before(u, t) => Before(u, r) BY <1>3 DEF Before
<1>7. \A u : Before(s, u) /\ Before(t, u) => Before(r, u) BY <1>3 DEF Before
<1> QED BY <1>1, <1>4, <1>5, <1>6, <1>7

\* Buffers one of which comes before the other share no byte.
LEMMA ApartWhenOrdered ==
  ASSUME NEW s \in Seq(Byte), NEW t \in Seq(Byte), Before(s, t)
  PROVE  Bytes(s) \cap Bytes(t) = {}
<1>1. \A i \in DOMAIN s, j \in DOMAIN t :
        s[i].pos < t[j].pos /\ s[i].pos \in Nat /\ t[j].pos \in Nat
  <2> SUFFICES ASSUME NEW i \in DOMAIN s, NEW j \in DOMAIN t
               PROVE  s[i].pos < t[j].pos /\ s[i].pos \in Nat /\ t[j].pos \in Nat
    OBVIOUS
  <2>1. s[i] \in Byte /\ t[j] \in Byte OBVIOUS
  <2> QED BY <2>1 DEF Before, Byte
<1>2. \A m, n \in Nat : m < n => m # n OBVIOUS
<1> QED BY <1>1, <1>2 DEF Bytes

\* The empty buffer is in no one's way.
LEMMA NoBytes ==
  /\ <<>> \in Seq(Byte) /\ Bytes(<<>>) = {} /\ Rising(<<>>)
  /\ \A t : Before(<<>>, t) /\ Before(t, <<>>)
  BY DEF Bytes, Rising, Before

\* What is in a line, in the reader's buffer and in the kernel's are different
\* bytes.
LEMMA PlacesAreApart ==
  ASSUME TypeOK, EveryByteOnce
  PROVE  /\ HandedBytes \cap Bytes(buf) = {}
         /\ HandedBytes \cap Bytes(kernel) = {}
         /\ Bytes(buf) \cap Bytes(kernel) = {}
<1>1. buf \in Seq(Byte) /\ kernel \in Seq(Byte) BY DEF TypeOK
<1>2. ASSUME NEW i \in DOMAIN handed
      PROVE  /\ Bytes(handed[i]) \cap Bytes(buf) = {}
             /\ Bytes(handed[i]) \cap Bytes(kernel) = {}
  <2>1. handed[i] \in Seq(Byte) BY DEF TypeOK
  <2> QED BY <1>1, <2>1, ApartWhenOrdered DEF EveryByteOnce
<1>3. Bytes(buf) \cap Bytes(kernel) = {} BY <1>1, ApartWhenOrdered DEF EveryByteOnce
<1> QED BY <1>2, <1>3 DEF HandedBytes

LEMMA StreamUntouched ==
  ASSUME EveryByteOnce, UNCHANGED <<sent, kernel, buf, handed, discarded>>
  PROVE  EveryByteOnce'
  BY DEF EveryByteOnce, HandedBytes

\* Dropping what the reader holds.
LEMMA DropBuffer ==
  ASSUME TypeOK, EveryByteOnce, UNCHANGED <<sent, kernel, handed>>,
         buf' = <<>>, discarded' = discarded \cup Bytes(buf)
  PROVE  EveryByteOnce'
<1>1. HandedBytes' = HandedBytes BY DEF HandedBytes
<1>2. Bytes(buf)' = {} BY NoBytes
<1>3. (HandedBytes' \cup Bytes(buf)' \cup Bytes(kernel)') \cap discarded' = {}
  BY <1>1, <1>2, PlacesAreApart DEF EveryByteOnce
<1>4. HandedBytes' \cup Bytes(buf)' \cup Bytes(kernel)' \cup discarded' = 1 .. sent'
  BY <1>1, <1>2 DEF EveryByteOnce
<1> QED BY <1>3, <1>4, NoBytes DEF EveryByteOnce

\* Dropping what the kernel holds.
LEMMA DropKernel ==
  ASSUME TypeOK, EveryByteOnce, UNCHANGED <<sent, buf, handed>>,
         kernel' = <<>>, discarded' = discarded \cup Bytes(kernel)
  PROVE  EveryByteOnce'
<1>1. HandedBytes' = HandedBytes BY DEF HandedBytes
<1>2. Bytes(kernel)' = {} BY NoBytes
<1>3. (HandedBytes' \cup Bytes(buf)' \cup Bytes(kernel)') \cap discarded' = {}
  BY <1>1, <1>2, PlacesAreApart DEF EveryByteOnce
<1>4. HandedBytes' \cup Bytes(buf)' \cup Bytes(kernel)' \cup discarded' = 1 .. sent'
  BY <1>1, <1>2 DEF EveryByteOnce
<1> QED BY <1>3, <1>4, NoBytes DEF EveryByteOnce

\* The device's next byte comes after all the others.
LEMMA ArriveKeepsStream ==
  ASSUME TypeOK, EveryByteOnce, Arrive
  PROVE  EveryByteOnce'
<1>1. PICK nl \in BOOLEAN : kernel' = Append(kernel, [pos |-> sent + 1, newline |-> nl])
  BY DEF Arrive
<1> DEFINE new == [pos |-> sent + 1, newline |-> nl]
           one == <<new>>
<1>2. new \in Byte /\ sent \in Nat
  BY SerialAssumption DEF Arrive, TypeOK, Byte
<1>3. /\ one \in Seq(Byte) /\ Bytes(one) = {sent + 1}
      /\ \A i \in DOMAIN one : one[i].pos = sent + 1
      /\ Rising(one)
  BY <1>2 DEF Bytes, Rising
<1>4. kernel \in Seq(Byte) /\ buf \in Seq(Byte) /\ kernel' = kernel \o one
  BY <1>1, <1>2 DEF TypeOK
<1> HIDE DEF new, one
<1>5. /\ sent' = sent + 1 /\ UNCHANGED <<buf, handed, discarded>>
  BY DEF Arrive, reader, ghosts
<1>6. ASSUME NEW s \in Seq(Byte), Bytes(s) \subseteq 1 .. sent PROVE Before(s, one)
  <2>1. \A i \in DOMAIN s : s[i].pos \in 1 .. sent BY <1>6 DEF Bytes
  <2>2. \A k \in 1 .. sent : k < sent + 1 BY <1>2
  <2>3. \A i \in DOMAIN s : s[i].pos < sent + 1 BY <2>1, <2>2
  <2> QED BY <1>3, <2>3 DEF Before
<1>7. Bytes(buf) \subseteq 1 .. sent /\ Bytes(kernel) \subseteq 1 .. sent
  BY DEF EveryByteOnce
<1>8. ASSUME NEW i \in DOMAIN handed PROVE Before(handed[i], kernel')
  <2>1. handed[i] \in Seq(Byte) BY DEF TypeOK
  <2>2. Bytes(handed[i]) \subseteq 1 .. sent BY DEF HandedBytes, EveryByteOnce
  <2>3. Before(handed[i], one) /\ Before(handed[i], kernel)
    BY <1>6, <2>1, <2>2 DEF EveryByteOnce
  <2> QED BY <1>3, <1>4, <2>3, JoinStream
<1>9. /\ Bytes(kernel') = Bytes(kernel) \cup {sent + 1}
      /\ Rising(kernel') /\ Before(buf, kernel')
  <2>1. Before(kernel, one) /\ Before(buf, one) BY <1>4, <1>6, <1>7
  <2>2. Rising(kernel) /\ Before(buf, kernel) BY DEF EveryByteOnce
  <2> DEFINE k == kernel'
  <2>3. k = kernel \o one BY <1>4
  <2> HIDE DEF k
  <2>4. /\ Bytes(k) = Bytes(kernel) \cup Bytes(one)
        /\ Rising(kernel) /\ Rising(one) /\ Before(kernel, one) => Rising(k)
        /\ \A u : Before(u, kernel) /\ Before(u, one) => Before(u, k)
    BY <1>3, <1>4, <2>3, JoinStream
  <2>5. Bytes(k) = Bytes(kernel) \cup {sent + 1} /\ Rising(k) /\ Before(buf, k)
    BY <1>3, <2>1, <2>2, <2>4
  <2> QED BY <2>5 DEF k
<1>10. HandedBytes' = HandedBytes BY <1>5 DEF HandedBytes
<1>11. sent + 1 \notin discarded
  <2>1. discarded \subseteq 1 .. sent BY DEF EveryByteOnce
  <2> QED BY <1>2, <2>1
<1>12. (HandedBytes' \cup Bytes(buf') \cup Bytes(kernel')) \cap discarded' = {}
  BY <1>5, <1>9, <1>10, <1>11 DEF EveryByteOnce
<1>13. HandedBytes' \cup Bytes(buf') \cup Bytes(kernel') \cup discarded' = 1 .. sent'
  <2>1. 1 .. sent + 1 = (1 .. sent) \cup {sent + 1} BY <1>2
  <2> QED BY <1>5, <1>9, <1>10, <2>1 DEF EveryByteOnce
<1> QED BY <1>5, <1>8, <1>9, <1>12, <1>13 DEF EveryByteOnce

\* A chunk moves from the front of the kernel's buffer to the end of the
\* reader's.
LEMMA ChunkKeepsStream ==
  ASSUME TypeOK, EveryByteOnce, ReadChunk
  PROVE  EveryByteOnce'
<1>1. PICK n \in 1 .. Len(kernel) :
        /\ buf' = buf \o SubSeq(kernel, 1, n)
        /\ kernel' = SubSeq(kernel, n + 1, Len(kernel))
  BY DEF ReadChunk
<1> DEFINE chunk == SubSeq(kernel, 1, n)
<1>2. /\ kernel \in Seq(Byte) /\ buf \in Seq(Byte) /\ n \in 0 .. Len(kernel)
      /\ UNCHANGED <<sent, handed, discarded>>
  BY DEF ReadChunk, TypeOK, ghosts
<1>3. buf' = buf \o chunk BY <1>1
<1>4. Rising(kernel) /\ Rising(buf) /\ Before(buf, kernel) BY DEF EveryByteOnce
<1>5. /\ chunk \in Seq(Byte) /\ kernel' \in Seq(Byte)
      /\ Bytes(chunk) \cup Bytes(kernel') = Bytes(kernel)
      /\ Rising(chunk) /\ Rising(kernel') /\ Before(chunk, kernel')
      /\ Before(buf, chunk) /\ Before(buf, kernel')
      /\ \A t : Before(t, kernel) => Before(t, chunk) /\ Before(t, kernel')
  <2> DEFINE k == kernel'
  <2>1. Cut(kernel, n, chunk, k) BY <1>1 DEF Cut
  <2> HIDE DEF chunk, k
  <2>2. /\ chunk \in Seq(Byte) /\ k \in Seq(Byte)
        /\ Bytes(chunk) \cup Bytes(k) = Bytes(kernel)
        /\ Rising(kernel) => Rising(chunk) /\ Rising(k) /\ Before(chunk, k)
        /\ \A t : Before(t, kernel) => Before(t, chunk) /\ Before(t, k)
    BY <1>2, <2>1, CutStream
  <2>3. Before(buf, chunk) /\ Before(buf, k) BY <1>4, <2>2
  <2> QED BY <1>4, <2>2, <2>3 DEF k
<1> HIDE DEF chunk
<1>6. /\ Bytes(buf') = Bytes(buf) \cup Bytes(chunk)
      /\ Rising(buf') /\ Before(buf', kernel')
      /\ \A u : Before(u, buf) /\ Before(u, chunk) => Before(u, buf')
  BY <1>2, <1>3, <1>4, <1>5, JoinStream
<1>7. \A i \in DOMAIN handed : Before(handed[i], buf') /\ Before(handed[i], kernel')
  BY <1>5, <1>6 DEF EveryByteOnce
<1>8. Bytes(buf') \cup Bytes(kernel') = Bytes(buf) \cup Bytes(kernel) BY <1>5, <1>6
<1>9. HandedBytes' = HandedBytes BY <1>2 DEF HandedBytes
<1>10. (HandedBytes' \cup Bytes(buf') \cup Bytes(kernel')) \cap discarded' = {}
  BY <1>2, <1>8, <1>9 DEF EveryByteOnce
<1>11. HandedBytes' \cup Bytes(buf') \cup Bytes(kernel') \cup discarded' = 1 .. sent'
  BY <1>2, <1>8, <1>9 DEF EveryByteOnce
<1> QED BY <1>2, <1>5, <1>6, <1>7, <1>10, <1>11 DEF EveryByteOnce

\* A line moves from the front of the reader's buffer to the lines handed over.
LEMMA DispatchKeepsStream ==
  ASSUME TypeOK, EveryByteOnce, Dispatch
  PROVE  EveryByteOnce'
<1>1. PICK n \in DOMAIN buf :
        /\ buf' = SubSeq(buf, n + 1, Len(buf))
        /\ HandOver(SubSeq(buf, 1, n))
  BY DEF Dispatch
<1> DEFINE line == SubSeq(buf, 1, n)
<1>2. /\ buf \in Seq(Byte) /\ kernel \in Seq(Byte) /\ n \in 0 .. Len(buf)
      /\ UNCHANGED <<sent, kernel, discarded>>
  BY DEF Dispatch, TypeOK, port
<1>3. HandOver(line) BY <1>1
<1>4. Rising(buf) /\ Rising(kernel) /\ Before(buf, kernel) BY DEF EveryByteOnce
<1>5. /\ line \in Seq(Byte) /\ buf' \in Seq(Byte)
      /\ Bytes(line) \cup Bytes(buf') = Bytes(buf)
      /\ Rising(line) /\ Rising(buf') /\ Before(line, buf')
      /\ Before(line, kernel) /\ Before(buf', kernel)
      /\ \A t : Before(t, buf) => Before(t, line) /\ Before(t, buf')
  <2> DEFINE b == buf'
  <2>1. Cut(buf, n, line, b) BY <1>1 DEF Cut
  <2> HIDE DEF line, b
  <2>2. /\ line \in Seq(Byte) /\ b \in Seq(Byte)
        /\ Bytes(line) \cup Bytes(b) = Bytes(buf)
        /\ Rising(buf) => Rising(line) /\ Rising(b) /\ Before(line, b)
        /\ \A t : Before(t, buf) => Before(t, line) /\ Before(t, b)
        /\ \A t : Before(buf, t) => Before(line, t) /\ Before(b, t)
    BY <1>2, <2>1, CutStream
  <2>3. Before(line, kernel) /\ Before(b, kernel) BY <1>4, <2>2
  <2> QED BY <1>4, <2>2, <2>3 DEF b
<1> HIDE DEF line
<1>6. handed' = Append(handed, line) /\ handed \in Seq(Seq(Byte))
  BY <1>3 DEF HandOver, TypeOK
<1> DEFINE m == Len(handed) + 1
<1>7. /\ DOMAIN handed' = DOMAIN handed \cup {m}
      /\ \A i \in DOMAIN handed : i < m /\ ~(m < i) /\ handed'[i] = handed[i]
      /\ handed'[m] = line /\ ~(m < m)
  BY <1>5, <1>6
<1> HIDE DEF m
<1>8. \A i \in DOMAIN handed :
        /\ Rising(handed[i]) /\ Before(handed[i], buf') /\ Before(handed[i], kernel)
        /\ Before(handed[i], line)
        /\ \A j \in DOMAIN handed : i < j => Before(handed[i], handed[j])
  BY <1>5 DEF EveryByteOnce
<1>9. \A i \in DOMAIN handed' :
        /\ Rising(handed'[i]) /\ Before(handed'[i], buf') /\ Before(handed'[i], kernel')
        /\ \A j \in DOMAIN handed' : i < j => Before(handed'[i], handed'[j])
  BY <1>2, <1>5, <1>7, <1>8
<1>10. HandedBytes' = HandedBytes \cup Bytes(line)
  BY <1>7 DEF HandedBytes
<1>11. (HandedBytes' \cup Bytes(buf') \cup Bytes(kernel')) \cap discarded' = {}
  BY <1>2, <1>5, <1>10 DEF EveryByteOnce
<1>12. HandedBytes' \cup Bytes(buf') \cup Bytes(kernel') \cup discarded' = 1 .. sent'
  BY <1>2, <1>5, <1>10 DEF EveryByteOnce
<1> QED BY <1>2, <1>4, <1>5, <1>9, <1>11, <1>12 DEF EveryByteOnce

LEMMA NextKeepsStream == TypeOK /\ EveryByteOnce /\ [Next]_vars => EveryByteOnce'
<1> SUFFICES ASSUME TypeOK, EveryByteOnce, [Next]_vars PROVE EveryByteOnce' OBVIOUS
<1> USE DEF port, reader, ghosts
<1>1. CASE Arrive BY <1>1, ArriveKeepsStream
<1>2. CASE Drain
  <2>1. CASE drainBuf BY <1>2, <2>1, DropBuffer DEF Drain
  <2>2. CASE ~drainBuf BY <1>2, <2>2, StreamUntouched DEF Drain
  <2> QED BY <2>1, <2>2
<1>3. CASE ReadChunk BY <1>3, ChunkKeepsStream
<1>4. CASE Dispatch BY <1>4, DispatchKeepsStream
<1>5. CASE EndChunk
  <2>1. CASE Len(buf) > MaxLine BY <1>5, <2>1, DropBuffer DEF EndChunk
  <2>2. CASE ~(Len(buf) > MaxLine) BY <1>5, <2>2, StreamUntouched DEF EndChunk
  <2> QED BY <2>1, <2>2
<1>6. CASE ReadNothing \/ ReaderExits \/ ReadFails
  BY <1>6, StreamUntouched DEF ReadNothing, ReaderExits, ReadFails
<1>7. ASSUME NEW c \in Callers, CallStep(c) PROVE EveryByteOnce'
  <2>1. CASE FlushKernel(c) BY <2>1, DropKernel DEF FlushKernel
  <2> QED BY <1>7, <2>1, StreamUntouched
          DEF CallStep, FlushReader, FlushStep, FlushFails, PromptFails, ReadStep,
              Register, Receive, Quit, ClearWaiter
<1>8. CASE CloseHandle BY <1>8, DropKernel DEF CloseHandle
<1>9. CASE (\E ch \in Channels : WatchRead(ch)) \/ Cancel \/ MarkClosed \/ UNCHANGED vars
  BY <1>9, StreamUntouched DEF WatchRead, Cancel, MarkClosed, vars
<1> QED BY <1>1, <1>2, <1>3, <1>4, <1>5, <1>6, <1>7, <1>8, <1>9
        DEF Next, ReaderStep, Stop

\* The input is one stream from the device to the lines, whatever the callers,
\* the number of bytes and the line bound: nothing lost, doubled or overtaken,
\* and what a flush, an overflow or Close dropped shows up nowhere else.
THEOREM StreamIsKept == Spec => []EveryByteOnce
<1>1. Init => EveryByteOnce
  <2> SUFFICES ASSUME Init PROVE EveryByteOnce OBVIOUS
  <2>1. /\ sent = 0 /\ kernel = <<>> /\ buf = <<>> /\ handed = <<>> /\ discarded = {}
    BY DEF Init
  <2>2. HandedBytes = {} /\ 1 .. sent = {} BY <2>1 DEF HandedBytes
  <2> QED BY <2>1, <2>2, NoBytes DEF EveryByteOnce
<1> QED BY <1>1, NextKeepsStream, TypeCorrect, PTL DEF Spec

-----------------------------------------------------------------------------
(* Whose the next line is *)

NewLine == handed' # handed

\* A line cut off while a Read waits, with nothing in its channel yet, is that
\* Read's, whoever else flushes, is refused or returns meanwhile.
LineStep ==
  \A c \in Callers :
    cpc[c] = "waiting" /\ slot[c] = <<>> /\ NewLine => slot'[c] = <<handed'[Len(handed')]>>

NextLineIsTheReads == [][LineStep]_vars

LEMMA LineGoesToTheRead == SlotInv /\ [Next]_vars => [LineStep]_vars
<1> SUFFICES ASSUME SlotInv, Next, NewLine,
                    NEW c \in Callers, cpc[c] = "waiting", slot[c] = <<>>
             PROVE  slot'[c] = <<handed'[Len(handed')]>>
  BY DEF LineStep
<1>1. Dispatch
  BY DEF NewLine, Next, ReaderStep, Stop, Arrive, Drain, ReadNothing, ReadChunk, ReaderExits,
     EndChunk, ReadFails, WatchRead, Cancel, MarkClosed, CloseHandle, CallStep, FlushReader,
     FlushStep, FlushKernel, FlushFails, PromptFails, ReadStep, Register, Receive, Quit,
     ClearWaiter, ghosts, vars
<1>2. PICK i \in DOMAIN buf : HandOver(SubSeq(buf, 1, i)) BY <1>1 DEF Dispatch
<1> DEFINE line == SubSeq(buf, 1, i)
<1>3. buf \in Seq(Byte) /\ i \in 0 .. Len(buf) /\ handed \in Seq(Seq(Byte))
      /\ slot \in [Callers -> Seq(Seq(Byte))]
  BY DEF SlotInv, TypeOK
<1>4. line \in Seq(Byte) BY <1>3, PrefixAndRest
<1>5. waiter = c /\ c # None BY SerialAssumption DEF SlotInv, ReadInFlightKeepsSlot
<1>6. handed' = Append(handed, line) /\ slot' = [slot EXCEPT ![c] = <<line>>]
  BY <1>2, <1>5 DEF HandOver
<1> HIDE DEF line
<1>7. handed'[Len(handed')] = line BY <1>3, <1>4, <1>6
<1> QED BY <1>3, <1>6, <1>7

\* The line that dispatch cuts off while a Read is in flight is the line of that
\* Read (serial_impl.go:106-129, 212-214, 224-243).
THEOREM NextLineGoesToTheRead == Spec => NextLineIsTheReads
BY LineGoesToTheRead, SlotInvHolds, PTL DEF Spec, NextLineIsTheReads

-----------------------------------------------------------------------------
(* After Close *)

\* The only ways of a call and of the reader once the port is closed: each has an
\* end, and none leads back.
CallEnds ==
  {<<"flushing", "flushed">>, <<"flushing", "idle">>, <<"flushed", "idle">>,
   <<"waiting", "returning">>, <<"returning", "idle">>}

ReaderEnds == {<<"splitting", "top">>, <<"top", "reading">>, <<"reading", "exited">>}

ReaderWinds ==
  \/ UNCHANGED reader
  \/ <<rpc, rpc'>> \in ReaderEnds
  \/ rpc = "splitting" /\ rpc' = "splitting" /\ Len(buf') < Len(buf)

CloseStep ==
  closed =>
    /\ closed'
    /\ \A c \in Callers : cpc'[c] = cpc[c] \/ <<cpc[c], cpc'[c]>> \in CallEnds
    /\ waiter' \in {waiter, None}
    /\ handle = "closed" => UNCHANGED port /\ ReaderWinds

\* After Close no call begins and no Read registers, and a call that is under way
\* only goes towards its end; once the handle is closed no byte comes in and the
\* reader only cuts the lines it still has and goes. CloseEndsAll then needs no
\* more than that each of them gets its turn.
CloseWindsDown == [][CloseStep]_vars

LEMMA CallWindsDown ==
  ASSUME SlotInv, closed, NEW c \in Callers, CallStep(c)
  PROVE  CloseStep
<1>1. cpc \in [Callers -> {"idle", "flushing", "flushed", "waiting", "returning"}]
  BY DEF SlotInv, TypeOK
<1>2. /\ cpc' = [cpc EXCEPT ![c] = cpc'[c]] /\ <<cpc[c], cpc'[c]>> \in CallEnds
      /\ closed' /\ waiter' \in {waiter, None}
  BY <1>1 DEF CallEnds, CallStep, FlushReader, FlushStep, FlushKernel, FlushFails, PromptFails,
     ReadStep, Register, Receive, Quit, ClearWaiter
<1>3. UNCHANGED reader /\ (handle = "closed" => UNCHANGED port)
  BY DEF CallStep, FlushReader, FlushStep, FlushKernel, FlushFails, PromptFails, ReadStep,
     Register, Receive, Quit, ClearWaiter, port
<1> QED BY <1>1, <1>2, <1>3 DEF CloseStep, ReaderWinds

LEMMA ReaderWindsDown ==
  ASSUME SlotInv, closed, ReaderStep \/ ReadFails
  PROVE  CloseStep
<1>1. closed' /\ UNCHANGED cpc /\ waiter' \in {waiter, None}
  BY DEF ReaderStep, Drain, ReadNothing, ReadChunk, ReaderExits, Dispatch, HandOver, EndChunk,
     ReadFails, calls
<1>2. ASSUME handle = "closed" PROVE UNCHANGED port /\ ReaderWinds
  <2>1. CASE Dispatch
    <3>1. PICK i \in DOMAIN buf : buf' = SubSeq(buf, i + 1, Len(buf)) BY <2>1 DEF Dispatch
    <3>2. buf \in Seq(Byte) /\ i \in 1 .. Len(buf) BY DEF SlotInv, TypeOK
    <3>3. Len(buf') < Len(buf) BY <3>1, <3>2
    <3> QED BY <2>1, <3>3 DEF Dispatch, ReaderWinds
  <2>2. CASE Drain \/ ReaderExits \/ EndChunk
    BY <2>2 DEF Drain, ReaderExits, EndChunk, ReaderWinds, ReaderEnds
  <2> QED BY <1>2, <2>1, <2>2 DEF ReaderStep, ReadNothing, ReadChunk, ReadFails
<1> QED BY <1>1, <1>2 DEF CloseStep

LEMMA ClosedStepsWind == SlotInv /\ [Next]_vars => [CloseStep]_vars
<1> SUFFICES ASSUME SlotInv, Next, closed PROVE CloseStep BY DEF CloseStep
<1>1. CASE Arrive \/ CloseHandle
  BY <1>1 DEF Arrive, CloseHandle, CloseStep, ReaderWinds, calls, reader
<1>2. CASE (\E ch \in Channels : WatchRead(ch)) \/ Cancel \/ MarkClosed \/ Stop
  BY <1>2 DEF WatchRead, Cancel, MarkClosed, Stop, vars, CloseStep, ReaderWinds, calls
<1> QED BY <1>1, <1>2, CallWindsDown, ReaderWindsDown DEF Next

\* Once the port is closed nothing begins and whatever is under way comes nearer
\* to its end with every step it takes (serial_impl.go:86-129, 168-222).
THEOREM ClosedWindsDown == Spec => CloseWindsDown
BY ClosedStepsWind, SlotInvHolds, PTL DEF Spec, CloseWindsDown

=============================================================================
