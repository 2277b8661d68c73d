------------------------- MODULE EngineRunnerFlowProofs -------------------------
(***************************************************************************)
(* Proofs about the way of an occurrence through EngineRunner, for every   *)
(* workflow and every capacity of the channels: from the driver into the   *)
(* channel of its trigger, into the hand of the trigger's goroutine, into  *)
(* the events channel and out of it to the runner.                         *)
(*                                                                         *)
(* The three places form one line per Source, oldest first: the events     *)
(* channel, then the hand, then the Source's channel. FlowInv says that    *)
(* the line is strictly increasing and holds exactly the occurrences whose *)
(* fate is open. Accounted is read off from it, and ServedInOrder is       *)
(* inductive together with it: what the runner takes out is the smallest   *)
(* of its line.                                                            *)
(***************************************************************************)
EXTENDS EngineRunnerProofs

USE DEF Triggers

\* The occurrence k was seen by the Source t and nothing has become of it yet.
Open(k, t) ==
  /\ k \in 1 .. occurred
  /\ origin[k] = t
  /\ fate[k] = "pending"

\* A Source's channel holds open occurrences, oldest first.
InboxInOrder ==
  \A t \in Sources :
    /\ \A i \in DOMAIN inbox[t] : Open(inbox[t][i], t)
    /\ \A i, j \in DOMAIN inbox[t] : i < j => inbox[t][i] < inbox[t][j]

\* What its goroutine is about to send is open and older than all of these.
HandInOrder ==
  \A t \in Sources : hand[t] # <<>> =>
    /\ Open(Head(hand[t]), t)
    /\ \A i \in DOMAIN inbox[t] : Head(hand[t]) < inbox[t][i]

\* The events of a Source in the events channel are open, oldest first, and
\* older than what the Source still has to send.
EventsInOrder ==
  \A t \in Sources : \A i \in DOMAIN events : events[i].src = t =>
    /\ Open(events[i].cause, t)
    /\ hand[t] # <<>> => events[i].cause < Head(hand[t])
    /\ \A j \in DOMAIN inbox[t] : events[i].cause < inbox[t][j]
    /\ \A j \in DOMAIN events :
         i < j /\ events[j].src = t => events[i].cause < events[j].cause

\* A trigger goroutine that holds an item is counting or sending.
OnlySendersHold ==
  \A t \in Triggers : hand[t] # <<>> => pc[t] \in {"counting", "sending"}

\* Nothing is forgotten.
OpenIsSomewhere ==
  \A k \in 1 .. occurred :
    /\ origin[k] \in Sources
    /\ fate[k] = "pending" => InInbox(k) \/ InHand(k) \/ Queued(k)

FutureIsOpen ==
  \A k \in Occurrence : k > occurred => fate[k] = "pending"

AbandonedOnlyByCancel ==
  \A k \in Occurrence : fate[k] = "abandoned" => cancelled

FlowInv ==
  /\ InboxInOrder
  /\ HandInOrder
  /\ EventsInOrder
  /\ OnlySendersHold
  /\ OpenIsSomewhere
  /\ FutureIsOpen
  /\ AbandonedOnlyByCancel

-----------------------------------------------------------------------------
(* Sequences by their indices *)

\* Receiving moves every remaining item up by one.
LEMMA TailItems ==
  ASSUME NEW S, NEW q \in Seq(S), q # <<>>
  PROVE  /\ 1 \in DOMAIN q /\ q[1] = Head(q)
         /\ \A i \in DOMAIN Tail(q) :
              /\ i \in Nat \ {0} /\ i + 1 \in DOMAIN q /\ Tail(q)[i] = q[i + 1]
         /\ \A i \in DOMAIN q : i # 1 => i - 1 \in DOMAIN Tail(q) /\ Tail(q)[i - 1] = q[i]
  OBVIOUS

\* Sending adds one item at the end.
LEMMA AppendItems ==
  ASSUME NEW S, NEW q \in Seq(S), NEW x \in S
  PROVE  /\ DOMAIN Append(q, x) = DOMAIN q \cup {Len(q) + 1}
         /\ \A i \in DOMAIN q :
              i \in Nat \ {0} /\ i < Len(q) + 1 /\ Append(q, x)[i] = q[i]
         /\ Append(q, x)[Len(q) + 1] = x
  OBVIOUS

\* A channel of capacity one or a hand holds its head and nothing else.
LEMMA OneItem ==
  ASSUME NEW S, NEW q \in Seq(S), Len(q) <= 1, q # <<>>
  PROVE  q = <<Head(q)>>
  OBVIOUS

-----------------------------------------------------------------------------
(* Steps that leave the line of every Source alone *)

\* What a step leaves of the line of the Source t.
LineKept(t) == inbox'[t] = inbox[t] /\ hand'[t] = hand[t]

\* Only Watchers are subscribed to the scope.
LEMMA NotifySparesSources ==
  ASSUME TypeOK, NEW S, NEW cause, NEW t \in Sources
  PROVE  Notify(inbox, S, cause)[t] = inbox[t]
  BY TriggerAssumption DEF Notify

LEMMA FlowUntouched ==
  ASSUME FlowInv, \A t \in Sources : LineKept(t),
         UNCHANGED <<events, history>>, cancelled => cancelled', OnlySendersHold'
  PROVE  FlowInv'
<1> USE DEF FlowInv, LineKept, history
<1>1. \A k, t : Open(k, t)' = Open(k, t) BY DEF Open
<1>2. InboxInOrder' BY <1>1 DEF InboxInOrder
<1>3. HandInOrder' BY <1>1 DEF HandInOrder
<1>4. EventsInOrder' BY <1>1 DEF EventsInOrder
<1>5. OpenIsSomewhere' BY DEF OpenIsSomewhere, InInbox, InHand, Queued
<1> QED BY <1>2, <1>3, <1>4, <1>5 DEF FutureIsOpen, AbandonedOnlyByCancel

\* The value k names an occurrence at t that is open after the step.
StaysOpen(k, t) ==
  /\ k \in 1 .. occurred'
  /\ origin'[k] = t
  /\ fate'[k] = "pending"

\* Recording the fate of one occurrence leaves every other one as it was.
LEMMA OthersStayOpen ==
  ASSUME TypeOK, NEW k, NEW f, fate' = [fate EXCEPT ![k] = f],
         UNCHANGED <<occurred, origin>>, NEW j, NEW t, j # k, Open(j, t)
  PROVE  StaysOpen(j, t)
<1>1. j \in Occurrence BY BoundAssumption DEF Open, TypeOK, Cause, Occurrence
<1> QED BY <1>1 DEF Open, StaysOpen, TypeOK

-----------------------------------------------------------------------------
(* The steps that move an occurrence along its line *)

LEMMA ConsumeKeepsFlow ==
  ASSUME RunnerInv, FlowInv, Consume
  PROVE  FlowInv'
<1> USE DEF RunnerInv, FlowInv, triggerVars
<1> DEFINE k == Head(events).cause
           s == Head(events).src
<1>1. /\ events # <<>> /\ events \in Seq(Event) /\ events' = Tail(events)
      /\ Record(s, k, "served")
      /\ UNCHANGED <<cancelled, pc, hand, occurred, origin>>
  BY DEF Consume, TypeOK
<1>2. \A u \in Sources : inbox'[u] = inbox[u] BY NotifySparesSources DEF Consume
<1>3. /\ 1 \in DOMAIN events /\ events[1].cause = k /\ events[1].src = s
      /\ Head(events) = [src |-> s, cause |-> k]
      /\ k \in Cause
  <2>1. 1 \in DOMAIN events /\ events[1] = Head(events) /\ events[1] \in Event
    BY <1>1, TailItems
  <2> QED BY <2>1 DEF Event
<1>4. k \in Nat BY <1>3, BoundAssumption DEF Cause
<1>5. s \in Sources => /\ Open(k, s)
                       /\ fate' = [fate EXCEPT ![k] = "served"]
                       /\ hand[s] # <<>> => k < Head(hand[s])
                       /\ \A j \in DOMAIN inbox[s] : k < inbox[s][j]
  BY <1>1, <1>3 DEF EventsInOrder, Record
<1>6. s \notin Sources => fate' = fate BY <1>1 DEF Record
<1> HIDE DEF k, s
\* Whatever is open stays so, but for the occurrence that is served.
<1>7. ASSUME NEW u \in Sources, NEW j, Open(j, u), u # s \/ j # k
      PROVE  StaysOpen(j, u)
  <2>1. CASE s \notin Sources BY <1>1, <1>6, <1>7, <2>1 DEF Open, StaysOpen
  <2>2. CASE s \in Sources
    <3>1. j # k BY <1>5, <1>7, <2>2 DEF Open
    <3> QED BY <1>1, <1>5, <1>7, <2>2, <3>1, OthersStayOpen
  <2> QED BY <2>1, <2>2
<1>8. InboxInOrder'
  <2>1. ASSUME NEW u \in Sources, NEW i \in DOMAIN inbox[u]
        PROVE  StaysOpen(inbox[u][i], u)
    <3>1. Open(inbox[u][i], u) BY DEF InboxInOrder
    <3>2. u # s \/ inbox[u][i] # k BY <1>4, <1>5
    <3> QED BY <1>7, <3>1, <3>2
  <2> QED BY <1>2, <2>1 DEF InboxInOrder, Open, StaysOpen
<1>9. HandInOrder'
  <2>1. ASSUME NEW u \in Sources, hand[u] # <<>>
        PROVE  StaysOpen(Head(hand[u]), u)
    <3>1. Open(Head(hand[u]), u) BY <2>1 DEF HandInOrder
    <3>2. u # s \/ Head(hand[u]) # k BY <1>4, <1>5, <2>1
    <3> QED BY <1>7, <3>1, <3>2
  <2> QED BY <1>1, <1>2, <2>1 DEF HandInOrder, Open, StaysOpen
<1>10. EventsInOrder'
  <2> SUFFICES ASSUME NEW u \in Sources, NEW i \in DOMAIN events', events'[i].src = u
               PROVE  /\ StaysOpen(events'[i].cause, u)
                      /\ hand[u] # <<>> => events'[i].cause < Head(hand[u])
                      /\ \A j \in DOMAIN inbox[u] : events'[i].cause < inbox[u][j]
                      /\ \A j \in DOMAIN events' :
                           i < j /\ events'[j].src = u => events'[i].cause < events'[j].cause
    BY <1>1, <1>2 DEF EventsInOrder, Open, StaysOpen
  <2>1. /\ i + 1 \in DOMAIN events /\ events'[i] = events[i + 1] /\ i \in Nat \ {0}
        /\ \A j \in DOMAIN events' :
             j \in Nat \ {0} /\ j + 1 \in DOMAIN events /\ events'[j] = events[j + 1]
    BY <1>1, TailItems
  <2>2. /\ Open(events[i + 1].cause, u)
        /\ hand[u] # <<>> => events[i + 1].cause < Head(hand[u])
        /\ \A j \in DOMAIN inbox[u] : events[i + 1].cause < inbox[u][j]
        /\ \A j \in DOMAIN events :
             i + 1 < j /\ events[j].src = u => events[i + 1].cause < events[j].cause
    BY <2>1 DEF EventsInOrder
  <2>3. u # s \/ events[i + 1].cause # k
    <3>1. ASSUME u = s PROVE k < events[i + 1].cause
      BY <1>3, <2>1, <3>1 DEF EventsInOrder
    <3> QED BY <1>4, <3>1
  <2>4. StaysOpen(events'[i].cause, u) BY <1>7, <2>1, <2>2, <2>3
  <2>5. \A j \in DOMAIN events' :
          i < j /\ events'[j].src = u => events'[i].cause < events'[j].cause
    BY <2>1, <2>2
  <2> QED BY <2>1, <2>2, <2>4, <2>5
<1>11. OpenIsSomewhere'
  <2> SUFFICES ASSUME NEW j \in 1 .. occurred
               PROVE  /\ origin[j] \in Sources
                      /\ fate'[j] = "pending" => InInbox(j)' \/ InHand(j)' \/ Queued(j)'
    BY <1>1 DEF OpenIsSomewhere
  <2>1. origin[j] \in Sources BY DEF OpenIsSomewhere
  <2>2. ASSUME fate'[j] = "pending"
        PROVE  InInbox(j)' \/ InHand(j)' \/ Queued(j)'
    <3>0. j \in Occurrence BY BoundAssumption DEF TypeOK, Cause, Occurrence
    <3>1. fate[j] = "pending" /\ (s \in Sources => j # k)
      BY <1>5, <1>6, <2>2, <3>0 DEF TypeOK
    <3>2. CASE InInbox(j) BY <1>1, <1>2, <2>1, <3>2 DEF InInbox
    <3>3. CASE InHand(j) BY <1>1, <3>3 DEF InHand
    <3>4. CASE Queued(j)
      <4>1. PICK i \in DOMAIN events : events[i] = [src |-> origin[j], cause |-> j]
        BY <3>4 DEF Queued
      <4>2. i # 1 BY <1>3, <2>1, <3>1, <4>1
      <4>3. i - 1 \in DOMAIN events' /\ events'[i - 1] = events[i]
        BY <1>1, <4>2, TailItems
      <4> QED BY <1>1, <4>1, <4>3 DEF Queued
    <3> QED BY <3>1, <3>2, <3>3, <3>4 DEF OpenIsSomewhere
  <2> QED BY <2>1, <2>2
<1>12. FutureIsOpen'
  <2>1. s \in Sources => k \in 1 .. occurred BY <1>5 DEF Open
  <2>2. ASSUME NEW j \in Occurrence, j > occurred PROVE fate'[j] = "pending"
    <3>1. fate[j] = "pending" BY <2>2 DEF FutureIsOpen
    <3>2. s \in Sources => j # k
      BY <2>1, <2>2, BoundAssumption DEF Occurrence, TypeOK, Cause
    <3> QED BY <1>5, <1>6, <3>1, <3>2 DEF TypeOK
  <2> QED BY <1>1, <2>2 DEF FutureIsOpen
<1>13. AbandonedOnlyByCancel'
  BY <1>1, <1>5, <1>6 DEF AbandonedOnlyByCancel, TypeOK
<1>14. OnlySendersHold' BY <1>1 DEF OnlySendersHold
<1> QED BY <1>8, <1>9, <1>10, <1>11, <1>12, <1>13, <1>14

\* A goroutine that takes an item holds nothing yet.
LEMMA HoldersKept ==
  ASSUME RunnerInv, OnlySendersHold, [Next]_vars
  PROVE  OnlySendersHold'
<1> USE DEF RunnerInv, OnlySendersHold, TypeOK
<1>1. CASE Runner
  BY <1>1 DEF Runner, Start, HonourCancel, Consume, BeginNode, Join, triggerVars
<1>2. CASE Execute
  BY <1>2 DEF Execute, ExecuteDelay, ExecuteNode, ExecuteFails, triggerVars
<1>3. ASSUME NEW t \in Triggers, Trigger(t) PROVE OnlySendersHold'
  BY <1>3 DEF Trigger, Take, TakeAndFire, TakeAndSkip, TakeAndDie, TakeArm, TimerFires,
              Send, GiveUp, Close, triggerVars
<1>4. ASSUME NEW t \in Sources, Occur(t) PROVE OnlySendersHold'
  BY <1>4 DEF Occur, triggerVars
<1>5. CASE Signal \/ CloseResources \/ UNCHANGED vars
  BY <1>5 DEF Signal, CloseResources, vars, triggerVars
<1> QED BY <1>1, <1>2, <1>3, <1>4, <1>5 DEF Next, Exited

LEMMA TakeAndFireKeepsFlow ==
  ASSUME RunnerInv, FlowInv, NEW t \in Sources, TakeAndFire(t), OnlySendersHold'
  PROVE  FlowInv'
<1> USE DEF RunnerInv, FlowInv, history
<1> DEFINE k == Head(inbox[t])
<1>1. /\ inbox[t] \in Seq(Cause) /\ inbox[t] # <<>> /\ hand[t] = <<>>
      /\ inbox'[t] = Tail(inbox[t])
      /\ hand'[t] = <<k>>
      /\ \A u \in Sources : u # t => LineKept(u)
      /\ UNCHANGED <<events, cancelled, occurred, origin, fate>>
  BY DEF TakeAndFire, TypeOK, OnlySendersHold, LineKept
<1>2. /\ 1 \in DOMAIN inbox[t] /\ inbox[t][1] = k
      /\ \A i \in DOMAIN inbox'[t] :
           i \in Nat \ {0} /\ i + 1 \in DOMAIN inbox[t] /\ inbox'[t][i] = inbox[t][i + 1]
      /\ \A i \in DOMAIN inbox[t] :
           i # 1 => i - 1 \in DOMAIN inbox'[t] /\ inbox'[t][i - 1] = inbox[t][i]
  BY <1>1, TailItems
<1>3. Head(hand'[t]) = k /\ hand'[t] # <<>> BY <1>1
<1> HIDE DEF k
<1>4. \A j, u : Open(j, u)' = Open(j, u) BY <1>1 DEF Open
<1>5. InboxInOrder'
  <2> SUFFICES ASSUME NEW u \in Sources
               PROVE  /\ \A i \in DOMAIN inbox'[u] : StaysOpen(inbox'[u][i], u)
                      /\ \A i, j \in DOMAIN inbox'[u] : i < j => inbox'[u][i] < inbox'[u][j]
    BY DEF InboxInOrder, Open, StaysOpen
  <2>1. CASE u = t
    <3>1. \A i \in DOMAIN inbox'[t] : StaysOpen(inbox'[t][i], t)
      BY <1>1, <1>2 DEF InboxInOrder, Open, StaysOpen
    <3>2. \A i, j \in DOMAIN inbox'[t] : i < j => inbox'[t][i] < inbox'[t][j]
      BY <1>2 DEF InboxInOrder
    <3> QED BY <2>1, <3>1, <3>2
  <2>2. CASE u # t
    BY <1>1, <2>2 DEF InboxInOrder, LineKept, Open, StaysOpen
  <2> QED BY <2>1, <2>2
<1>6. HandInOrder'
  <2> SUFFICES ASSUME NEW u \in Sources, hand'[u] # <<>>
               PROVE  /\ StaysOpen(Head(hand'[u]), u)
                      /\ \A i \in DOMAIN inbox'[u] : Head(hand'[u]) < inbox'[u][i]
    BY DEF HandInOrder, Open, StaysOpen
  <2>1. CASE u = t
    <3>1. StaysOpen(k, t) BY <1>1, <1>2 DEF InboxInOrder, Open, StaysOpen
    <3>2. \A i \in DOMAIN inbox'[t] : k < inbox'[t][i]
      BY <1>2 DEF InboxInOrder
    <3> QED BY <1>3, <2>1, <3>1, <3>2
  <2>2. CASE u # t
    BY <1>1, <2>2 DEF HandInOrder, LineKept, Open, StaysOpen
  <2> QED BY <2>1, <2>2
<1>7. EventsInOrder'
  <2> SUFFICES ASSUME NEW u \in Sources, NEW i \in DOMAIN events, events[i].src = u
               PROVE  /\ StaysOpen(events[i].cause, u)
                      /\ hand'[u] # <<>> => events[i].cause < Head(hand'[u])
                      /\ \A j \in DOMAIN inbox'[u] : events[i].cause < inbox'[u][j]
                      /\ \A j \in DOMAIN events :
                           i < j /\ events[j].src = u => events[i].cause < events[j].cause
    BY <1>1 DEF EventsInOrder, Open, StaysOpen
  <2>1. StaysOpen(events[i].cause, u) BY <1>1 DEF EventsInOrder, Open, StaysOpen
  <2>2. \A j \in DOMAIN events :
          i < j /\ events[j].src = u => events[i].cause < events[j].cause
    BY DEF EventsInOrder
  <2>3. \A j \in DOMAIN inbox[u] : events[i].cause < inbox[u][j] BY DEF EventsInOrder
  <2>4. CASE u = t BY <1>2, <1>3, <2>1, <2>2, <2>3, <2>4
  <2>5. CASE u # t BY <1>1, <2>1, <2>2, <2>5 DEF EventsInOrder, LineKept
  <2> QED BY <2>4, <2>5
<1>8. OpenIsSomewhere'
  <2> SUFFICES ASSUME NEW j \in 1 .. occurred, fate[j] = "pending"
               PROVE  InInbox(j)' \/ InHand(j)' \/ Queued(j)'
    BY <1>1 DEF OpenIsSomewhere
  <2>1. origin[j] \in Sources /\ (InInbox(j) \/ InHand(j) \/ Queued(j))
    BY DEF OpenIsSomewhere
  <2>2. CASE origin[j] # t \/ Queued(j)
    BY <1>1, <2>1, <2>2 DEF LineKept, InInbox, InHand, Queued
  <2>3. CASE origin[j] = t /\ InInbox(j)
    <3>1. PICK i \in DOMAIN inbox[t] : inbox[t][i] = j BY <2>3 DEF InInbox
    <3>2. CASE i = 1 BY <1>1, <1>2, <2>3, <3>1, <3>2 DEF InHand
    <3>3. CASE i # 1
      <4>1. i - 1 \in DOMAIN inbox'[t] /\ inbox'[t][i - 1] = j BY <1>2, <3>1, <3>3
      <4> QED BY <1>1, <2>3, <4>1 DEF InInbox
    <3> QED BY <3>2, <3>3
  <2>4. CASE origin[j] = t /\ InHand(j) BY <1>1, <2>4 DEF InHand
  <2> QED BY <2>1, <2>2, <2>3, <2>4
<1> QED BY <1>1, <1>5, <1>6, <1>7, <1>8 DEF FutureIsOpen, AbandonedOnlyByCancel

LEMMA TakeAndSkipKeepsFlow ==
  ASSUME RunnerInv, FlowInv, NEW t \in Sources, TakeAndSkip(t), OnlySendersHold'
  PROVE  FlowInv'
<1> USE DEF RunnerInv, FlowInv
<1> DEFINE k == Head(inbox[t])
<1>1. /\ inbox[t] \in Seq(Cause) /\ inbox[t] # <<>> /\ hand[t] = <<>>
      /\ inbox'[t] = Tail(inbox[t])
      /\ hand' = hand
      /\ \A u \in Sources : u # t => LineKept(u)
      /\ UNCHANGED <<events, cancelled, occurred, origin>>
      /\ fate' = [fate EXCEPT ![k] = "filtered"]
  BY DEF TakeAndSkip, TypeOK, OnlySendersHold, LineKept, Record, triggerVars
<1>2. /\ 1 \in DOMAIN inbox[t] /\ inbox[t][1] = k
      /\ \A i \in DOMAIN inbox'[t] :
           i \in Nat \ {0} /\ i + 1 \in DOMAIN inbox[t] /\ inbox'[t][i] = inbox[t][i + 1]
      /\ \A i \in DOMAIN inbox[t] :
           i # 1 => i - 1 \in DOMAIN inbox'[t] /\ inbox'[t][i - 1] = inbox[t][i]
  BY <1>1, TailItems
<1> HIDE DEF k
<1>3. Open(k, t) BY <1>2 DEF InboxInOrder
<1>4. k \in Occurrence /\ k \in Nat
  BY <1>3, BoundAssumption DEF Open, TypeOK, Cause, Occurrence
\* Whatever is open stays so, but for the occurrence that is filtered out.
<1>5. ASSUME NEW u \in Sources, NEW j, Open(j, u), u # t \/ j # k
      PROVE  StaysOpen(j, u)
  <2>1. j # k BY <1>3, <1>5 DEF Open
  <2> QED BY <1>1, <1>5, <2>1, OthersStayOpen
<1>6. InboxInOrder'
  <2> SUFFICES ASSUME NEW u \in Sources
               PROVE  /\ \A i \in DOMAIN inbox'[u] : StaysOpen(inbox'[u][i], u)
                      /\ \A i, j \in DOMAIN inbox'[u] : i < j => inbox'[u][i] < inbox'[u][j]
    BY DEF InboxInOrder, Open, StaysOpen
  <2>1. CASE u = t
    <3>1. ASSUME NEW i \in DOMAIN inbox'[t] PROVE StaysOpen(inbox'[t][i], t)
      <4>1. i + 1 \in DOMAIN inbox[t] /\ inbox'[t][i] = inbox[t][i + 1] /\ 1 < i + 1
        BY <1>2
      <4>2. Open(inbox[t][i + 1], t) /\ k < inbox[t][i + 1]
        BY <1>2, <4>1 DEF InboxInOrder
      <4>3. inbox[t][i + 1] # k BY <1>4, <4>2
      <4> QED BY <1>5, <4>1, <4>2, <4>3
    <3>2. \A i, j \in DOMAIN inbox'[t] : i < j => inbox'[t][i] < inbox'[t][j]
      BY <1>2 DEF InboxInOrder
    <3> QED BY <2>1, <3>1, <3>2
  <2>2. CASE u # t
    BY <1>1, <1>5, <2>2 DEF InboxInOrder, LineKept
  <2> QED BY <2>1, <2>2
<1>7. HandInOrder'
  <2> SUFFICES ASSUME NEW u \in Sources, hand[u] # <<>>
               PROVE  /\ StaysOpen(Head(hand[u]), u)
                      /\ \A i \in DOMAIN inbox'[u] : Head(hand[u]) < inbox'[u][i]
    BY <1>1 DEF HandInOrder, Open, StaysOpen
  <2>1. u # t BY <1>1
  <2> QED BY <1>1, <1>5, <2>1 DEF HandInOrder, LineKept
<1>8. EventsInOrder'
  <2> SUFFICES ASSUME NEW u \in Sources, NEW i \in DOMAIN events, events[i].src = u
               PROVE  /\ StaysOpen(events[i].cause, u)
                      /\ hand[u] # <<>> => events[i].cause < Head(hand[u])
                      /\ \A j \in DOMAIN inbox'[u] : events[i].cause < inbox'[u][j]
                      /\ \A j \in DOMAIN events :
                           i < j /\ events[j].src = u => events[i].cause < events[j].cause
    BY <1>1 DEF EventsInOrder, Open, StaysOpen
  <2>1. /\ Open(events[i].cause, u)
        /\ hand[u] # <<>> => events[i].cause < Head(hand[u])
        /\ \A j \in DOMAIN inbox[u] : events[i].cause < inbox[u][j]
        /\ \A j \in DOMAIN events :
             i < j /\ events[j].src = u => events[i].cause < events[j].cause
    BY DEF EventsInOrder
  <2>2. u = t => events[i].cause < k BY <1>2, <2>1
  <2>3. u # t \/ events[i].cause # k BY <1>4, <2>2
  <2>4. StaysOpen(events[i].cause, u) BY <1>5, <2>1, <2>3
  <2>5. \A j \in DOMAIN inbox'[u] : events[i].cause < inbox'[u][j]
    <3>1. CASE u = t BY <1>2, <2>1, <3>1
    <3>2. CASE u # t BY <1>1, <2>1, <3>2 DEF LineKept
    <3> QED BY <3>1, <3>2
  <2> QED BY <2>1, <2>4, <2>5
<1>9. OpenIsSomewhere'
  <2> SUFFICES ASSUME NEW j \in 1 .. occurred, fate'[j] = "pending"
               PROVE  InInbox(j)' \/ InHand(j)' \/ Queued(j)'
    BY <1>1 DEF OpenIsSomewhere
  <2>1. j \in Occurrence BY BoundAssumption DEF TypeOK, Cause, Occurrence
  <2>2. fate[j] = "pending" /\ j # k BY <1>1, <2>1 DEF TypeOK
  <2>3. origin[j] \in Sources /\ (InInbox(j) \/ InHand(j) \/ Queued(j))
    BY <2>2 DEF OpenIsSomewhere
  <2>4. CASE origin[j] # t \/ InHand(j) \/ Queued(j)
    BY <1>1, <2>3, <2>4 DEF LineKept, InInbox, InHand, Queued
  <2>5. CASE origin[j] = t /\ InInbox(j)
    <3>1. PICK i \in DOMAIN inbox[t] : inbox[t][i] = j BY <2>5 DEF InInbox
    <3>2. i - 1 \in DOMAIN inbox'[t] /\ inbox'[t][i - 1] = j BY <1>2, <2>2, <3>1
    <3> QED BY <1>1, <2>5, <3>2 DEF InInbox
  <2> QED BY <2>3, <2>4, <2>5
<1>10. FutureIsOpen'
  <2> SUFFICES ASSUME NEW j \in Occurrence, j > occurred PROVE fate'[j] = "pending"
    BY <1>1 DEF FutureIsOpen
  <2>1. j # k BY <1>3, BoundAssumption DEF Open, Occurrence, TypeOK, Cause
  <2> QED BY <1>1, <2>1 DEF FutureIsOpen, TypeOK
<1>11. AbandonedOnlyByCancel' BY <1>1 DEF AbandonedOnlyByCancel, TypeOK
<1> QED BY <1>6, <1>7, <1>8, <1>9, <1>10, <1>11

LEMMA SendKeepsFlow ==
  ASSUME RunnerInv, FlowInv, NEW t \in Triggers, Send(t), OnlySendersHold'
  PROVE  FlowInv'
<1> USE DEF RunnerInv, FlowInv, runnerVars, history
<1> DEFINE k == Head(hand[t])
           n == Len(events) + 1
<1>1. /\ hand[t] # <<>> /\ hand[t] \in Seq(Cause) /\ Len(hand[t]) <= 1
      /\ events \in Seq(Event)
      /\ events' = Append(events, [src |-> t, cause |-> k])
      /\ hand'[t] = <<>>
      /\ \A u \in Sources : u # t => LineKept(u)
      /\ UNCHANGED <<inbox, cancelled, occurred, origin, fate>>
  BY DEF Send, TypeOK, SenderHoldsItem, LineKept
<1>2. hand[t] = <<k>> /\ k \in Cause BY <1>1, OneItem
<1>3. [src |-> t, cause |-> k] \in Event BY <1>2 DEF Event
<1> HIDE DEF k
<1>4. /\ DOMAIN events' = DOMAIN events \cup {n}
      /\ \A i \in DOMAIN events : i \in Nat \ {0} /\ i < n /\ events'[i] = events[i]
      /\ events'[n] = [src |-> t, cause |-> k]
      /\ n \in Nat
  BY <1>1, <1>3, AppendItems
<1> HIDE DEF n
<1>5. InboxInOrder' BY <1>1 DEF InboxInOrder, Open
<1>6. HandInOrder'
  <2> SUFFICES ASSUME NEW u \in Sources, hand'[u] # <<>>
               PROVE  /\ StaysOpen(Head(hand'[u]), u)
                      /\ \A i \in DOMAIN inbox[u] : Head(hand'[u]) < inbox[u][i]
    BY <1>1 DEF HandInOrder, Open, StaysOpen
  <2>1. u # t BY <1>1
  <2> QED BY <1>1, <2>1 DEF HandInOrder, LineKept, Open, StaysOpen
<1>7. EventsInOrder'
  <2> SUFFICES ASSUME NEW u \in Sources, NEW i \in DOMAIN events', events'[i].src = u
               PROVE  /\ StaysOpen(events'[i].cause, u)
                      /\ hand'[u] # <<>> => events'[i].cause < Head(hand'[u])
                      /\ \A j \in DOMAIN inbox[u] : events'[i].cause < inbox[u][j]
                      /\ \A j \in DOMAIN events' :
                           i < j /\ events'[j].src = u => events'[i].cause < events'[j].cause
    BY <1>1 DEF EventsInOrder, Open, StaysOpen
  <2>1. CASE i = n
    <3>1. u = t /\ events'[i].cause = k BY <1>4, <2>1
    <3>2. Open(k, t) /\ \A j \in DOMAIN inbox[t] : k < inbox[t][j]
      BY <1>1, <3>1 DEF HandInOrder, k
    <3>3. \A j \in DOMAIN events' : ~(i < j) BY <1>4, <2>1
    <3> QED BY <1>1, <3>1, <3>2, <3>3 DEF Open, StaysOpen
  <2>2. CASE i \in DOMAIN events
    <3>1. events'[i] = events[i] /\ events[i].src = u BY <1>4, <2>2
    <3>2. /\ StaysOpen(events[i].cause, u)
          /\ hand[u] # <<>> => events[i].cause < Head(hand[u])
          /\ \A j \in DOMAIN inbox[u] : events[i].cause < inbox[u][j]
          /\ \A j \in DOMAIN events :
               i < j /\ events[j].src = u => events[i].cause < events[j].cause
      BY <1>1, <2>2, <3>1 DEF EventsInOrder, Open, StaysOpen
    <3>3. hand'[u] # <<>> => events[i].cause < Head(hand'[u])
      <4>1. CASE u = t BY <1>1, <4>1
      <4>2. CASE u # t BY <1>1, <3>2, <4>2 DEF LineKept
      <4> QED BY <4>1, <4>2
    <3>4. ASSUME NEW j \in DOMAIN events', i < j, events'[j].src = u
          PROVE  events[i].cause < events'[j].cause
      <4>1. CASE j \in DOMAIN events BY <1>4, <3>2, <3>4, <4>1
      <4>2. CASE j = n
        <5>1. u = t /\ events'[j].cause = k BY <1>4, <3>4, <4>2
        <5> QED BY <1>1, <3>2, <5>1 DEF k
      <4> QED BY <1>4, <4>1, <4>2
    <3> QED BY <3>1, <3>2, <3>3, <3>4
  <2> QED BY <1>4, <2>1, <2>2
<1>8. OpenIsSomewhere'
  <2> SUFFICES ASSUME NEW j \in 1 .. occurred, fate[j] = "pending"
               PROVE  InInbox(j)' \/ InHand(j)' \/ Queued(j)'
    BY <1>1 DEF OpenIsSomewhere
  <2>1. origin[j] \in Sources /\ (InInbox(j) \/ InHand(j) \/ Queued(j))
    BY DEF OpenIsSomewhere
  <2>2. CASE InInbox(j) BY <1>1, <2>2 DEF InInbox
  <2>3. CASE Queued(j)
    <3>1. PICK i \in DOMAIN events : events[i] = [src |-> origin[j], cause |-> j]
      BY <2>3 DEF Queued
    <3>2. i \in DOMAIN events' /\ events'[i] = [src |-> origin[j], cause |-> j]
      BY <1>4, <3>1
    <3> QED BY <1>1, <3>2 DEF Queued
  <2>4. CASE origin[j] # t /\ InHand(j) BY <1>1, <2>1, <2>4 DEF InHand, LineKept
  <2>5. CASE origin[j] = t /\ InHand(j)
    <3>1. <<k>> = <<j>> BY <1>2, <2>5 DEF InHand
    <3>2. k = j BY <3>1
    <3>3. n \in DOMAIN events' /\ events'[n] = [src |-> origin[j], cause |-> j]
      BY <1>4, <2>5, <3>2
    <3> QED BY <1>1, <3>3 DEF Queued
  <2> QED BY <2>1, <2>2, <2>3, <2>4, <2>5
<1> QED BY <1>1, <1>5, <1>6, <1>7, <1>8 DEF FutureIsOpen, AbandonedOnlyByCancel

LEMMA GiveUpKeepsFlow ==
  ASSUME RunnerInv, FlowInv, NEW t \in Sources, GiveUp(t), OnlySendersHold'
  PROVE  FlowInv'
<1> USE DEF RunnerInv, FlowInv, runnerVars
<1>1. /\ hand[t] \in Seq(Cause) /\ Len(hand[t]) <= 1
      /\ hand'[t] = <<>>
      /\ \A u \in Sources : u # t => LineKept(u)
      /\ cancelled
      /\ UNCHANGED <<inbox, events, cancelled, occurred, origin>>
  BY DEF GiveUp, TypeOK, LineKept
<1>2. CASE hand[t] = <<>>
  <2>1. /\ \A u \in Sources : LineKept(u)
        /\ UNCHANGED <<events, history>>
    BY <1>1, <1>2 DEF GiveUp, LineKept, history
  <2> QED BY <1>1, <2>1, FlowUntouched
<1>3. CASE hand[t] # <<>>
  <2> DEFINE k == Head(hand[t])
  <2>1. hand[t] = <<k>> BY <1>1, <1>3, OneItem
  <2>2. fate' = [fate EXCEPT ![k] = "abandoned"] BY <1>3 DEF GiveUp, Record
  <2>3. Open(k, t) /\ \A i \in DOMAIN inbox[t] : k < inbox[t][i]
    BY <1>3 DEF HandInOrder
  <2>4. \A i \in DOMAIN events : events[i].src = t => events[i].cause < k
    BY <1>3 DEF EventsInOrder
  <2> HIDE DEF k
  <2>5. k \in Occurrence /\ k \in Nat
    BY <2>3, BoundAssumption DEF Open, TypeOK, Cause, Occurrence
  \* Whatever is open stays so, but for the occurrence that is given up.
  <2>6. ASSUME NEW u \in Sources, NEW j, Open(j, u), u # t \/ j # k
        PROVE  StaysOpen(j, u)
    <3>1. j # k BY <2>3, <2>6 DEF Open
    <3> QED BY <1>1, <2>2, <2>6, <3>1, OthersStayOpen
  <2>7. InboxInOrder'
    <3>1. ASSUME NEW u \in Sources, NEW i \in DOMAIN inbox[u]
          PROVE  StaysOpen(inbox[u][i], u)
      <4>1. Open(inbox[u][i], u) BY DEF InboxInOrder
      <4>2. u # t \/ inbox[u][i] # k BY <2>3, <2>5
      <4> QED BY <2>6, <4>1, <4>2
    <3> QED BY <1>1, <3>1 DEF InboxInOrder, Open, StaysOpen
  <2>8. HandInOrder'
    <3> SUFFICES ASSUME NEW u \in Sources, hand'[u] # <<>>
                 PROVE  /\ StaysOpen(Head(hand'[u]), u)
                        /\ \A i \in DOMAIN inbox[u] : Head(hand'[u]) < inbox[u][i]
      BY <1>1 DEF HandInOrder, Open, StaysOpen
    <3>1. u # t BY <1>1
    <3> QED BY <1>1, <2>6, <3>1 DEF HandInOrder, LineKept
  <2>9. EventsInOrder'
    <3> SUFFICES ASSUME NEW u \in Sources, NEW i \in DOMAIN events, events[i].src = u
                 PROVE  /\ StaysOpen(events[i].cause, u)
                        /\ hand'[u] # <<>> => events[i].cause < Head(hand'[u])
                        /\ \A j \in DOMAIN inbox[u] : events[i].cause < inbox[u][j]
                        /\ \A j \in DOMAIN events :
                             i < j /\ events[j].src = u => events[i].cause < events[j].cause
      BY <1>1 DEF EventsInOrder, Open, StaysOpen
    <3>1. /\ Open(events[i].cause, u)
          /\ hand[u] # <<>> => events[i].cause < Head(hand[u])
          /\ \A j \in DOMAIN inbox[u] : events[i].cause < inbox[u][j]
          /\ \A j \in DOMAIN events :
               i < j /\ events[j].src = u => events[i].cause < events[j].cause
      BY DEF EventsInOrder
    <3>2. u # t \/ events[i].cause # k BY <2>4, <2>5
    <3>3. StaysOpen(events[i].cause, u) BY <2>6, <3>1, <3>2
    <3>4. hand'[u] # <<>> => events[i].cause < Head(hand'[u])
      <4>1. CASE u = t BY <1>1, <4>1
      <4>2. CASE u # t BY <1>1, <3>1, <4>2 DEF LineKept
      <4> QED BY <4>1, <4>2
    <3> QED BY <3>1, <3>3, <3>4
  <2>10. OpenIsSomewhere'
    <3> SUFFICES ASSUME NEW j \in 1 .. occurred, fate'[j] = "pending"
                 PROVE  InInbox(j)' \/ InHand(j)' \/ Queued(j)'
      BY <1>1 DEF OpenIsSomewhere
    <3>1. j \in Occurrence BY BoundAssumption DEF TypeOK, Cause, Occurrence
    <3>2. fate[j] = "pending" /\ j # k BY <2>2, <3>1 DEF TypeOK
    <3>3. origin[j] \in Sources /\ (InInbox(j) \/ InHand(j) \/ Queued(j))
      BY <3>2 DEF OpenIsSomewhere
    <3>4. CASE InInbox(j) \/ Queued(j) BY <1>1, <3>4 DEF InInbox, Queued
    <3>5. CASE InHand(j)
      <4>1. origin[j] # t
        <5> SUFFICES ASSUME origin[j] = t PROVE FALSE OBVIOUS
        <5>1. <<k>> = <<j>> BY <2>1, <3>5 DEF InHand
        <5> QED BY <3>2, <5>1
      <4> QED BY <1>1, <3>3, <3>5, <4>1 DEF InHand, LineKept
    <3> QED BY <3>3, <3>4, <3>5
  <2>11. FutureIsOpen'
    <3> SUFFICES ASSUME NEW j \in Occurrence, j > occurred PROVE fate'[j] = "pending"
      BY <1>1 DEF FutureIsOpen
    <3>1. j # k BY <2>3, BoundAssumption DEF Open, Occurrence, TypeOK, Cause
    <3> QED BY <2>2, <3>1 DEF FutureIsOpen, TypeOK
  <2>12. AbandonedOnlyByCancel' BY <1>1 DEF AbandonedOnlyByCancel
  <2> QED BY <2>7, <2>8, <2>9, <2>10, <2>11, <2>12
<1> QED BY <1>2, <1>3

LEMMA OccurKeepsFlow ==
  ASSUME RunnerInv, FlowInv, NEW t \in Sources, Occur(t), OnlySendersHold'
  PROVE  FlowInv'
<1> USE DEF RunnerInv, FlowInv, triggerVars
<1> DEFINE k == occurred + 1
           n == Len(inbox[t]) + 1
<1>1. /\ occurred \in Nat /\ k \in Occurrence /\ k \in Cause /\ k \in Nat /\ occurred < k
      /\ occurred' = k
  BY BoundAssumption DEF Occur, TypeOK, Cause, Occurrence
<1>2. /\ inbox[t] \in Seq(Cause)
      /\ inbox'[t] = Offer(inbox[t], k, InboxCap[t])
      /\ \A u \in Sources : u # t => inbox'[u] = inbox[u]
      /\ origin' = [origin EXCEPT ![k] = t]
      /\ UNCHANGED <<hand, events, cancelled>>
  BY DEF Occur, TypeOK
<1>3. \/ /\ inbox'[t] = Append(inbox[t], k)
         /\ fate' = fate
      \/ /\ inbox'[t] = inbox[t]
         /\ fate' = [fate EXCEPT ![k] = "overflow"]
  BY <1>2 DEF Occur, Offer
<1> HIDE DEF k
<1>4. /\ DOMAIN Append(inbox[t], k) = DOMAIN inbox[t] \cup {n}
      /\ \A i \in DOMAIN inbox[t] :
           i \in Nat \ {0} /\ i < n /\ Append(inbox[t], k)[i] = inbox[t][i]
      /\ Append(inbox[t], k)[n] = k
      /\ n \in Nat
  BY <1>1, <1>2, AppendItems
<1> HIDE DEF n
\* What is open is older than the new occurrence and stays open.
<1>5. ASSUME NEW u \in Sources, NEW j, Open(j, u)
      PROVE  StaysOpen(j, u) /\ j < k /\ j \in Nat
  <2>1. j \in 1 .. occurred BY <1>5 DEF Open
  <2>2. j < k /\ j # k /\ j \in 1 .. occurred' /\ j \in Nat BY <1>1, <2>1
  <2>3. j \in Occurrence BY <2>1, BoundAssumption DEF TypeOK, Cause, Occurrence
  <2>4. origin'[j] = origin[j] /\ fate'[j] = fate[j]
    BY <1>2, <1>3, <2>2, <2>3 DEF TypeOK
  <2> QED BY <1>5, <2>2, <2>4 DEF Open, StaysOpen
<1>6. origin'[k] = t /\ k \in 1 .. occurred' BY <1>1, <1>2 DEF TypeOK
<1>7. fate[k] = "pending" BY <1>1 DEF FutureIsOpen
<1>8. InboxInOrder'
  <2> SUFFICES ASSUME NEW u \in Sources
               PROVE  /\ \A i \in DOMAIN inbox'[u] : StaysOpen(inbox'[u][i], u)
                      /\ \A i, j \in DOMAIN inbox'[u] : i < j => inbox'[u][i] < inbox'[u][j]
    BY DEF InboxInOrder, Open, StaysOpen
  <2>1. /\ \A i \in DOMAIN inbox[u] : Open(inbox[u][i], u)
        /\ \A i, j \in DOMAIN inbox[u] : i < j => inbox[u][i] < inbox[u][j]
    BY DEF InboxInOrder
  <2>2. \A i \in DOMAIN inbox[u] : StaysOpen(inbox[u][i], u) /\ inbox[u][i] < k
    BY <1>5, <2>1
  <2>3. CASE inbox'[u] = inbox[u] BY <2>1, <2>2, <2>3
  <2>4. CASE u = t /\ inbox'[t] = Append(inbox[t], k) /\ fate' = fate
    <3>1. StaysOpen(k, t) BY <1>6, <1>7, <2>4 DEF StaysOpen
    <3>2. \A i \in DOMAIN inbox'[t] : StaysOpen(inbox'[t][i], t)
      BY <1>4, <2>2, <2>4, <3>1
    <3>3. ASSUME NEW i \in DOMAIN inbox'[t], NEW j \in DOMAIN inbox'[t], i < j
          PROVE  inbox'[t][i] < inbox'[t][j]
      <4>1. i \in DOMAIN inbox[t] BY <1>4, <2>4, <3>3
      <4>2. CASE j = n BY <1>4, <2>2, <2>4, <4>1, <4>2
      <4>3. CASE j \in DOMAIN inbox[t] BY <1>4, <2>1, <2>4, <3>3, <4>1, <4>3
      <4> QED BY <1>4, <2>4, <4>2, <4>3
    <3> QED BY <2>4, <3>2, <3>3
  <2> QED BY <1>2, <1>3, <2>3, <2>4
\* What is older than every item of a channel is older than the new one, too.
<1>9. ASSUME NEW u \in Sources, NEW j, Open(j, u), \A i \in DOMAIN inbox[u] : j < inbox[u][i]
      PROVE  \A i \in DOMAIN inbox'[u] : j < inbox'[u][i]
  <2>1. j < k BY <1>5, <1>9
  <2>2. CASE inbox'[u] = inbox[u] BY <1>9, <2>2
  <2>3. CASE u = t /\ inbox'[t] = Append(inbox[t], k) BY <1>4, <1>9, <2>1, <2>3
  <2> QED BY <1>2, <1>3, <2>2, <2>3
<1>10. HandInOrder'
  <2> SUFFICES ASSUME NEW u \in Sources, hand[u] # <<>>
               PROVE  /\ StaysOpen(Head(hand[u]), u)
                      /\ \A i \in DOMAIN inbox'[u] : Head(hand[u]) < inbox'[u][i]
    BY <1>2 DEF HandInOrder, Open, StaysOpen
  <2>1. /\ Open(Head(hand[u]), u)
        /\ \A i \in DOMAIN inbox[u] : Head(hand[u]) < inbox[u][i]
    BY DEF HandInOrder
  <2> QED BY <1>5, <1>9, <2>1
<1>11. EventsInOrder'
  <2> SUFFICES ASSUME NEW u \in Sources, NEW i \in DOMAIN events, events[i].src = u
               PROVE  /\ StaysOpen(events[i].cause, u)
                      /\ hand[u] # <<>> => events[i].cause < Head(hand[u])
                      /\ \A j \in DOMAIN inbox'[u] : events[i].cause < inbox'[u][j]
                      /\ \A j \in DOMAIN events :
                           i < j /\ events[j].src = u => events[i].cause < events[j].cause
    BY <1>2 DEF EventsInOrder, Open, StaysOpen
  <2>1. /\ Open(events[i].cause, u)
        /\ hand[u] # <<>> => events[i].cause < Head(hand[u])
        /\ \A j \in DOMAIN inbox[u] : events[i].cause < inbox[u][j]
        /\ \A j \in DOMAIN events :
             i < j /\ events[j].src = u => events[i].cause < events[j].cause
    BY DEF EventsInOrder
  <2> QED BY <1>5, <1>9, <2>1
<1>12. OpenIsSomewhere'
  <2> SUFFICES ASSUME NEW j \in 1 .. occurred'
               PROVE  /\ origin'[j] \in Sources
                      /\ fate'[j] = "pending" => InInbox(j)' \/ InHand(j)' \/ Queued(j)'
    BY DEF OpenIsSomewhere
  <2>1. CASE j = k
    <3>1. CASE inbox'[t] = Append(inbox[t], k)
      <4>1. n \in DOMAIN inbox'[t] /\ inbox'[t][n] = k BY <1>4, <3>1
      <4> QED BY <1>6, <2>1, <4>1 DEF InInbox
    <3>2. CASE fate' = [fate EXCEPT ![k] = "overflow"]
      BY <1>1, <1>6, <2>1, <3>2 DEF TypeOK
    <3> QED BY <1>3, <3>1, <3>2
  <2>2. CASE j # k
    <3>1. j \in 1 .. occurred BY <1>1, <2>2 DEF k
    <3>2. j \in Occurrence BY <3>1, BoundAssumption DEF TypeOK, Cause, Occurrence
    <3>3. origin'[j] = origin[j] /\ fate'[j] = fate[j]
      BY <1>2, <1>3, <2>2, <3>2 DEF TypeOK
    <3>4. /\ origin[j] \in Sources
          /\ fate[j] = "pending" => InInbox(j) \/ InHand(j) \/ Queued(j)
      BY <3>1 DEF OpenIsSomewhere
    <3>5. CASE InInbox(j)
      <4>1. PICK i \in DOMAIN inbox[origin[j]] : inbox[origin[j]][i] = j
        BY <3>5 DEF InInbox
      <4>2. i \in DOMAIN inbox'[origin[j]] /\ inbox'[origin[j]][i] = j
        <5>1. CASE inbox'[origin[j]] = inbox[origin[j]] BY <4>1, <5>1
        <5>2. CASE origin[j] = t /\ inbox'[t] = Append(inbox[t], k)
          BY <1>4, <4>1, <5>2
        <5> QED BY <1>2, <1>3, <3>4, <5>1, <5>2
      <4> QED BY <3>3, <3>4, <4>2 DEF InInbox
    <3>6. CASE InHand(j) BY <1>2, <3>3, <3>4, <3>6 DEF InHand
    <3>7. CASE Queued(j) BY <1>2, <3>3, <3>4, <3>7 DEF Queued
    <3> QED BY <3>3, <3>4, <3>5, <3>6, <3>7
  <2> QED BY <2>1, <2>2
<1>13. FutureIsOpen'
  <2> SUFFICES ASSUME NEW j \in Occurrence, j > occurred' PROVE fate'[j] = "pending"
    BY DEF FutureIsOpen
  <2>1. j > occurred /\ j # k BY <1>1 DEF Occurrence
  <2> QED BY <1>3, <2>1 DEF FutureIsOpen, TypeOK
<1>14. AbandonedOnlyByCancel'
  BY <1>1, <1>2, <1>3 DEF AbandonedOnlyByCancel, TypeOK
<1> QED BY <1>8, <1>10, <1>11, <1>12, <1>13, <1>14

-----------------------------------------------------------------------------
(* The invariant *)

LEMMA InitEstablishesFlow == Init => FlowInv
<1> SUFFICES ASSUME Init PROVE FlowInv OBVIOUS
<1>1. /\ \A t \in Sources : inbox[t] = <<>> /\ hand[t] = <<>>
      /\ \A t \in Triggers : hand[t] = <<>>
      /\ events = <<>> /\ occurred = 0
      /\ \A k \in Occurrence : fate[k] = "pending"
  BY TriggerAssumption DEF Init
<1> QED BY <1>1 DEF FlowInv, InboxInOrder, HandInOrder, EventsInOrder, OnlySendersHold,
                   OpenIsSomewhere, FutureIsOpen, AbandonedOnlyByCancel

LEMMA NextKeepsFlow ==
  ASSUME RunnerInv, FlowInv, [Next]_vars
  PROVE  FlowInv'
<1> USE DEF RunnerInv, runnerVars, triggerVars
<1>1. OnlySendersHold' BY HoldersKept DEF FlowInv
<1>2. CASE Runner
  <2>1. CASE Consume BY <2>1, ConsumeKeepsFlow
  <2>2. CASE Start \/ HonourCancel \/ BeginNode \/ Join
    <3>1. /\ \A t \in Sources : LineKept(t)
          /\ UNCHANGED <<events, history>> /\ cancelled' = cancelled
      BY <2>2 DEF Start, HonourCancel, BeginNode, Join, LineKept
    <3> QED BY <1>1, <3>1, FlowUntouched
  <2> QED BY <1>2, <2>1, <2>2 DEF Runner
<1>3. CASE Execute
  <2>1. /\ hand' = hand /\ UNCHANGED <<events, history>> /\ cancelled' = cancelled
    BY <1>3 DEF Execute, ExecuteDelay, ExecuteNode, ExecuteFails
  <2>2. \A t \in Sources : inbox'[t] = inbox[t]
    <3>1. CASE ExecuteDelay BY <3>1, TriggerAssumption DEF ExecuteDelay, TypeOK
    <3>2. CASE ExecuteNode BY <3>2, NotifySparesSources DEF ExecuteNode
    <3>3. CASE ExecuteFails
      <4>1. PICK S \in SUBSET Writes[state] : inbox' = Notify(inbox, S, Head(chain).cause)
        BY <3>3 DEF ExecuteFails
      <4> QED BY <4>1, NotifySparesSources
    <3> QED BY <1>3, <3>1, <3>2, <3>3 DEF Execute
  <2> QED BY <1>1, <2>1, <2>2, FlowUntouched DEF LineKept
<1>4. ASSUME NEW t \in Triggers, Trigger(t) PROVE FlowInv'
  <2>1. CASE Send(t) BY <1>1, <2>1, SendKeepsFlow
  <2>2. CASE t \in Sources /\ TakeAndFire(t) BY <1>1, <2>2, TakeAndFireKeepsFlow
  <2>3. CASE t \in Sources /\ TakeAndSkip(t) BY <1>1, <2>3, TakeAndSkipKeepsFlow
  <2>4. CASE t \in Sources /\ GiveUp(t) BY <1>1, <2>4, GiveUpKeepsFlow
  <2>5. CASE \/ t \notin Sources /\ (TakeAndFire(t) \/ TakeAndSkip(t) \/ GiveUp(t))
             \/ TakeAndDie(t) \/ TakeArm(t) \/ TimerFires(t) \/ Close(t)
    <3>1. \A u \in Sources : LineKept(u)
      BY <2>5, TriggerAssumption
      DEF TakeAndFire, TakeAndSkip, GiveUp, TakeAndDie, TakeArm, TimerFires, Close,
          LineKept, TypeOK
    <3>2. UNCHANGED <<events, history>> /\ cancelled' = cancelled
      BY <2>5
      DEF TakeAndFire, TakeAndSkip, GiveUp, TakeAndDie, TakeArm, TimerFires, Close,
          Record, history
    <3> QED BY <1>1, <3>1, <3>2, FlowUntouched
  <2> QED BY <1>4, <2>1, <2>2, <2>3, <2>4, <2>5 DEF Trigger, Take
<1>5. ASSUME NEW t \in Sources, Occur(t) PROVE FlowInv'
  BY <1>1, <1>5, OccurKeepsFlow
<1>6. CASE Signal \/ CloseResources \/ UNCHANGED vars
  <2>1. /\ \A t \in Sources : LineKept(t)
        /\ UNCHANGED <<events, history>>
        /\ cancelled => cancelled'
    BY <1>6 DEF Signal, CloseResources, vars, LineKept
  <2> QED BY <1>1, <2>1, FlowUntouched
<1> QED BY <1>2, <1>3, <1>4, <1>5, <1>6 DEF Next, Exited

LEMMA FlowHolds == Spec => [](RunnerInv /\ FlowInv)
<1>1. Init => RunnerInv /\ FlowInv BY InitEstablishesInv, InitEstablishesFlow
<1>2. RunnerInv /\ FlowInv /\ [Next]_vars => (RunnerInv /\ FlowInv)'
  BY NextKeepsInv, NextKeepsFlow
<1> QED BY <1>1, <1>2, PTL DEF Spec

-----------------------------------------------------------------------------
(* Nothing is lost, nothing is served twice *)

LEMMA LineAccounts ==
  ASSUME RunnerInv, FlowInv
  PROVE  Accounted
<1> USE DEF RunnerInv, FlowInv
<1> SUFFICES ASSUME NEW k \in 1 .. occurred
             PROVE  /\ fate[k] = "pending" =>
                         /\ ~Twice(k)
                         /\ \/ InInbox(k) /\ ~InHand(k) /\ ~Queued(k)
                            \/ ~InInbox(k) /\ InHand(k) /\ ~Queued(k)
                            \/ ~InInbox(k) /\ ~InHand(k) /\ Queued(k)
                    /\ fate[k] # "pending" => ~InInbox(k) /\ ~InHand(k) /\ ~Queued(k)
                    /\ fate[k] = "abandoned" => cancelled
  BY DEF Accounted
<1> DEFINE t == origin[k]
<1>1. t \in Sources /\ k \in Occurrence /\ k \in Nat
  BY BoundAssumption DEF OpenIsSomewhere, TypeOK, Cause, Occurrence
<1> HIDE DEF t
\* Each place where k may be says what is open and what is younger.
<1>2. ASSUME NEW i \in DOMAIN inbox[t], inbox[t][i] = k
      PROVE  /\ Open(k, t)
             /\ \A j \in DOMAIN inbox[t] : i # j => inbox[t][j] # k
             /\ hand[t] # <<>> => Head(hand[t]) < k
             /\ \A j \in DOMAIN events : events[j].src = t => events[j].cause < k
  <2>1. \A x, y \in DOMAIN inbox[t] : x < y => inbox[t][x] < inbox[t][y]
    BY <1>1 DEF InboxInOrder
  <2>2. ASSUME NEW j \in DOMAIN inbox[t], i # j PROVE inbox[t][j] # k
    <3>1. inbox[t] \in Seq(Cause) BY <1>1 DEF TypeOK
    <3>2. i < j \/ j < i BY <2>2, <3>1
    <3> QED BY <1>1, <1>2, <2>1, <3>2
  <2> QED BY <1>1, <1>2, <2>2 DEF InboxInOrder, HandInOrder, EventsInOrder
<1>3. ASSUME hand[t] = <<k>>
      PROVE  /\ Open(k, t)
             /\ hand[t] # <<>> /\ Head(hand[t]) = k
             /\ \A j \in DOMAIN events : events[j].src = t => events[j].cause < k
  <2>1. hand[t] # <<>> /\ Head(hand[t]) = k BY <1>3
  <2> QED BY <1>1, <2>1 DEF HandInOrder, EventsInOrder
<1>4. ASSUME NEW i \in DOMAIN events, events[i] = [src |-> t, cause |-> k]
      PROVE  /\ Open(k, t)
             /\ \A j \in DOMAIN events : i # j => events[j] # events[i]
  <2>1. events[i].src = t /\ events[i].cause = k BY <1>4
  <2>2. ASSUME NEW j \in DOMAIN events, i # j, events[j] = events[i] PROVE FALSE
    <3>1. events \in Seq(Event) BY DEF TypeOK
    <3>2. i < j \/ j < i BY <2>2, <3>1
    <3>3. k < k BY <1>1, <2>1, <2>2, <3>2 DEF EventsInOrder
    <3> QED BY <1>1, <3>3
  <2> QED BY <1>1, <2>1, <2>2 DEF EventsInOrder
<1>5. fate[k] # "pending" => ~InInbox(k) /\ ~InHand(k) /\ ~Queued(k)
  BY <1>2, <1>3, <1>4 DEF InInbox, InHand, Queued, Open, t
<1>6. ASSUME InInbox(k) PROVE ~InHand(k) /\ ~Queued(k)
  <2>1. PICK i \in DOMAIN inbox[t] : inbox[t][i] = k BY <1>6 DEF InInbox, t
  <2>2. ~InHand(k)
    <3>1. ASSUME hand[t] = <<k>> PROVE FALSE
      <4>1. k < k BY <1>2, <1>3, <2>1, <3>1
      <4> QED BY <1>1, <4>1
    <3> QED BY <3>1 DEF InHand, t
  <2>3. ~Queued(k)
    <3>1. ASSUME NEW j \in DOMAIN events, events[j] = [src |-> t, cause |-> k] PROVE FALSE
      <4>1. events[j].src = t /\ events[j].cause = k BY <3>1
      <4>2. k < k BY <1>2, <2>1, <4>1
      <4> QED BY <1>1, <4>2
    <3> QED BY <3>1 DEF Queued, t
  <2> QED BY <2>2, <2>3
<1>7. ASSUME InHand(k) PROVE ~Queued(k)
  <2>1. hand[t] = <<k>> BY <1>7 DEF InHand, t
  <2>2. ASSUME NEW j \in DOMAIN events, events[j] = [src |-> t, cause |-> k] PROVE FALSE
    <3>1. events[j].src = t /\ events[j].cause = k BY <2>2
    <3>2. k < k BY <1>3, <2>1, <3>1
    <3> QED BY <1>1, <3>2
  <2> QED BY <2>2 DEF Queued, t
<1>8. ~Twice(k)
  <2>1. ~\E i, j \in DOMAIN events :
           i # j /\ events[i] = events[j] /\ events[i] = [src |-> t, cause |-> k]
    BY <1>4
  <2>2. ~\E i, j \in DOMAIN inbox[t] : i # j /\ inbox[t][i] = k /\ inbox[t][j] = k
    BY <1>2
  <2> QED BY <2>1, <2>2 DEF Twice, t
<1>9. fate[k] = "pending" => InInbox(k) \/ InHand(k) \/ Queued(k)
  BY DEF OpenIsSomewhere
<1>10. fate[k] = "abandoned" => cancelled BY <1>1 DEF AbandonedOnlyByCancel
<1> QED BY <1>5, <1>6, <1>7, <1>8, <1>9, <1>10

\* For every workflow, every number of Sources and every capacity of the
\* channels: an occurrence whose fate is open sits in exactly one place on its
\* way to the runner, a decided one is nowhere any more, and only a cancelled
\* context makes a goroutine throw an event away (runner.go:18-20, 135-139).
THEOREM NothingLostOrDoubled == Spec => []Accounted
<1>1. RunnerInv /\ FlowInv => Accounted BY LineAccounts
<1> QED BY <1>1, FlowHolds, PTL

-----------------------------------------------------------------------------
(* What was seen first is served first *)

\* A step decides the fate of occurrences that are open, and of those it
\* serves it has the oldest open one of their Source.
LEMMA StepServesTheOldest ==
  ASSUME RunnerInv, FlowInv, [Next]_vars,
         NEW k \in Occurrence, fate[k] # "served", fate'[k] = "served",
         NEW j \in 1 .. occurred, j < k, origin[j] = origin[k], origin[k] \in Sources
  PROVE  fate[j] # "pending"
<1> USE DEF RunnerInv, FlowInv
<1>1. /\ Consume
      /\ Head(events).src \in Sources
      /\ Head(events).cause = k
  <2>1. CASE Consume
    BY <2>1 DEF Consume, Record, TypeOK
  <2>2. CASE Start \/ HonourCancel \/ BeginNode \/ Join \/ Execute \/ Signal
             \/ CloseResources \/ UNCHANGED vars
    BY <2>2 DEF Start, HonourCancel, BeginNode, Join, Execute, ExecuteDelay, ExecuteNode,
                ExecuteFails, Signal, CloseResources, vars, history
  <2>3. ASSUME NEW t \in Triggers, Trigger(t) PROVE FALSE
    BY <2>3 DEF Trigger, Take, TakeAndFire, TakeAndSkip, TakeAndDie, TakeArm, TimerFires,
                Send, GiveUp, Close, Record, history, TypeOK
  <2>4. ASSUME NEW t \in Sources, Occur(t) PROVE FALSE
    BY <2>4 DEF Occur, TypeOK
  <2> QED BY <2>1, <2>2, <2>3, <2>4 DEF Next, Runner, Exited
<1> DEFINE s == Head(events).src
<1>2. /\ 1 \in DOMAIN events /\ events[1].src = s /\ events[1].cause = k
      /\ events \in Seq(Event)
  BY <1>1, TailItems DEF Consume, TypeOK
<1>3. s \in Sources BY <1>1
<1> HIDE DEF s
<1>4. /\ Open(k, s)
      /\ hand[s] # <<>> => k < Head(hand[s])
      /\ \A i \in DOMAIN inbox[s] : k < inbox[s][i]
      /\ \A i \in DOMAIN events : 1 < i /\ events[i].src = s => k < events[i].cause
  BY <1>2, <1>3 DEF EventsInOrder
<1>5. origin[j] = s /\ k \in Nat /\ j \in Nat BY <1>4 DEF Open, Occurrence
<1> SUFFICES ASSUME fate[j] = "pending" PROVE FALSE OBVIOUS
<1>6. InInbox(j) \/ InHand(j) \/ Queued(j) BY DEF OpenIsSomewhere
<1>7. ASSUME InInbox(j) PROVE FALSE
  <2>1. k < j BY <1>4, <1>5, <1>7 DEF InInbox
  <2> QED BY <1>5, <2>1
<1>8. ASSUME InHand(j) PROVE FALSE
  <2>1. hand[s] = <<j>> BY <1>5, <1>8 DEF InHand
  <2>2. hand[s] # <<>> /\ Head(hand[s]) = j BY <2>1
  <2> QED BY <1>4, <1>5, <2>2
<1>9. ASSUME Queued(j) PROVE FALSE
  <2>1. PICK i \in DOMAIN events : events[i] = [src |-> s, cause |-> j]
    BY <1>5, <1>9 DEF Queued
  <2>2. events[i].src = s /\ events[i].cause = j BY <2>1
  <2>3. i = 1 \/ 1 < i BY <1>2
  <2>4. k = j \/ k < j BY <1>2, <1>4, <2>2, <2>3
  <2> QED BY <1>5, <2>4
<1> QED BY <1>6, <1>7, <1>8, <1>9

\* A step never changes a fate that is decided, nor where an occurrence came
\* from.
LEMMA StepKeepsHistory ==
  ASSUME RunnerInv, FlowInv, [Next]_vars
  PROVE  /\ \A k \in Occurrence : fate[k] # "pending" => fate'[k] = fate[k]
         /\ \A k \in 1 .. occurred : origin'[k] = origin[k]
         /\ occurred \in Nat /\ occurred <= occurred'
<1> USE DEF RunnerInv, FlowInv
<1>1. occurred \in Nat /\ 1 .. occurred \subseteq Occurrence
  BY BoundAssumption DEF TypeOK, Cause, Occurrence
\* A step that records a fate has an open occurrence to record it of.
<1>2. ASSUME NEW c, NEW t \in Sources, NEW f, Open(c, t), fate' = [fate EXCEPT ![c] = f]
      PROVE  \A k \in Occurrence : fate[k] # "pending" => fate'[k] = fate[k]
  BY <1>2 DEF Open, TypeOK
<1>3. ASSUME NEW t, NEW c, NEW f, Record(t, c, f), t \in Sources => Open(c, t)
      PROVE  \A k \in Occurrence : fate[k] # "pending" => fate'[k] = fate[k]
  BY <1>2, <1>3 DEF Record
<1>4. CASE Consume
  <2>1. Head(events).src \in Sources => Open(Head(events).cause, Head(events).src)
    <3>1. events # <<>> /\ events \in Seq(Event) BY <1>4 DEF Consume, TypeOK
    <3>2. 1 \in DOMAIN events /\ events[1] = Head(events) BY <3>1, TailItems
    <3> QED BY <3>2 DEF EventsInOrder
  <2>2. Record(Head(events).src, Head(events).cause, "served") BY <1>4 DEF Consume
  <2>3. \A k \in Occurrence : fate[k] # "pending" => fate'[k] = fate[k]
    BY <1>3, <2>1, <2>2
  <2> QED BY <1>1, <1>4, <2>3 DEF Consume
<1>5. CASE Start \/ HonourCancel \/ BeginNode \/ Join \/ Execute \/ Signal
           \/ CloseResources \/ UNCHANGED vars
  <2>1. UNCHANGED history
    BY <1>5 DEF Start, HonourCancel, BeginNode, Join, Execute, ExecuteDelay, ExecuteNode,
                ExecuteFails, Signal, CloseResources, vars
  <2> QED BY <1>1, <2>1 DEF history
<1>6. ASSUME NEW t \in Triggers, Trigger(t)
      PROVE  /\ \A k \in Occurrence : fate[k] # "pending" => fate'[k] = fate[k]
             /\ UNCHANGED <<occurred, origin>>
  <2>1. CASE TakeAndSkip(t)
    <3>1. inbox[t] \in Seq(Cause) /\ inbox[t] # <<>> BY <2>1 DEF TakeAndSkip, TypeOK
    <3>2. 1 \in DOMAIN inbox[t] /\ inbox[t][1] = Head(inbox[t]) BY <3>1, TailItems
    <3>3. t \in Sources => Open(Head(inbox[t]), t) BY <3>2 DEF InboxInOrder
    <3>4. Record(t, Head(inbox[t]), "filtered") BY <2>1 DEF TakeAndSkip
    <3>5. \A k \in Occurrence : fate[k] # "pending" => fate'[k] = fate[k]
      BY <1>3, <3>3, <3>4
    <3> QED BY <2>1, <3>5 DEF TakeAndSkip
  <2>2. CASE GiveUp(t)
    <3>1. CASE hand[t] # <<>>
      <4>1. t \in Sources => Open(Head(hand[t]), t) BY <3>1 DEF HandInOrder
      <4>2. Record(t, Head(hand[t]), "abandoned") BY <2>2, <3>1 DEF GiveUp
      <4>3. \A k \in Occurrence : fate[k] # "pending" => fate'[k] = fate[k]
        BY <1>3, <4>1, <4>2
      <4> QED BY <2>2, <4>3 DEF GiveUp
    <3>2. CASE hand[t] = <<>> BY <2>2, <3>2 DEF GiveUp
    <3> QED BY <3>1, <3>2
  <2>3. CASE TakeAndFire(t) \/ TakeAndDie(t) \/ TakeArm(t) \/ TimerFires(t) \/ Send(t)
             \/ Close(t)
    BY <2>3 DEF TakeAndFire, TakeAndDie, TakeArm, TimerFires, Send, Close, history
  <2> QED BY <1>6, <2>1, <2>2, <2>3 DEF Trigger, Take
<1>7. ASSUME NEW t \in Sources, Occur(t)
      PROVE  /\ \A k \in Occurrence : fate[k] # "pending" => fate'[k] = fate[k]
             /\ \A k \in 1 .. occurred : origin'[k] = origin[k]
             /\ occurred' = occurred + 1
  <2>1. occurred + 1 \in Occurrence BY <1>1, <1>7, BoundAssumption DEF Occur, Occurrence
  <2>2. fate[occurred + 1] = "pending" BY <1>1, <2>1 DEF FutureIsOpen
  <2>3. fate' \in {fate, [fate EXCEPT ![occurred + 1] = "overflow"]} BY <1>7 DEF Occur
  <2>4. \A k \in Occurrence : fate[k] # "pending" => fate'[k] = fate[k]
    BY <2>2, <2>3 DEF TypeOK
  <2>5. \A k \in 1 .. occurred : origin'[k] = origin[k]
    BY <1>1, <1>7 DEF Occur, TypeOK
  <2> QED BY <1>7, <2>4, <2>5 DEF Occur
<1> QED BY <1>1, <1>4, <1>5, <1>6, <1>7 DEF Next, Runner, Exited

\* What became of an occurrence is decided once: what a trigger filtered out,
\* dropped or gave up is never served later, and nothing is served and then
\* counted among the dropped.
DecidedOnce ==
  [][\A k \in Occurrence : fate[k] # "pending" => fate'[k] = fate[k]]_vars

THEOREM FatesAreFinal == Spec => DecidedOnce
<1>1. RunnerInv /\ FlowInv /\ [Next]_vars
        => [\A k \in Occurrence : fate[k] # "pending" => fate'[k] = fate[k]]_vars
  BY StepKeepsHistory
<1> QED BY <1>1, FlowHolds, PTL DEF Spec, DecidedOnce

LEMMA NextKeepsOrder ==
  ASSUME RunnerInv, FlowInv, ServedInOrder, [Next]_vars
  PROVE  ServedInOrder'
<1> SUFFICES ASSUME NEW j \in 1 .. occurred', NEW k \in 1 .. occurred', j < k,
                    origin'[j] = origin'[k], fate'[k] = "served"
             PROVE  fate'[j] # "pending"
  BY DEF ServedInOrder
<1> USE DEF RunnerInv, FlowInv
<1>1. occurred' \in Nat /\ 1 .. occurred' \subseteq Occurrence
  BY NextKeepsInv, BoundAssumption DEF TypeOK, Cause, Occurrence
<1>2. /\ \A i \in Occurrence : fate[i] # "pending" => fate'[i] = fate[i]
      /\ \A i \in 1 .. occurred : origin'[i] = origin[i]
      /\ occurred \in Nat /\ occurred <= occurred'
  BY StepKeepsHistory
\* An occurrence of this very step is not served by it.
<1>3. k \in 1 .. occurred
  <2> SUFFICES ASSUME k > occurred PROVE FALSE BY <1>1, <1>2
  <2>1. k \in Occurrence /\ fate[k] = "pending" BY <1>1 DEF FutureIsOpen
  <2>3. CASE Consume
    <3>1. occurred' = occurred BY <2>3 DEF Consume
    <3> QED BY <1>1, <1>2, <3>1
  <2>4. ASSUME NEW t \in Sources, Occur(t) PROVE FALSE
    BY <1>1, <2>1, <2>4 DEF Occur, TypeOK
  <2>5. CASE Start \/ HonourCancel \/ BeginNode \/ Join \/ Execute \/ Signal
             \/ CloseResources \/ UNCHANGED vars
    BY <2>1, <2>5 DEF Start, HonourCancel, BeginNode, Join, Execute, ExecuteDelay,
                      ExecuteNode, ExecuteFails, Signal, CloseResources, vars, history
  <2>6. ASSUME NEW t \in Triggers, Trigger(t) PROVE FALSE
    <3>1. occurred' = occurred
      BY <2>6 DEF Trigger, Take, TakeAndFire, TakeAndSkip, TakeAndDie, TakeArm, TimerFires,
                  Send, GiveUp, Close, history
    <3> QED BY <1>1, <1>2, <3>1
  <2> QED BY <2>3, <2>4, <2>5, <2>6 DEF Next, Runner, Exited
<1>4. j \in 1 .. occurred /\ j \in Occurrence /\ k \in Occurrence BY <1>1, <1>2, <1>3
<1>5. origin[j] = origin[k] /\ origin[k] \in Sources
  BY <1>2, <1>3, <1>4 DEF OpenIsSomewhere
<1>6. fate[j] # "pending"
  <2>1. CASE fate[k] = "served" BY <1>3, <1>4, <1>5, <2>1 DEF ServedInOrder
  <2>2. CASE fate[k] # "served" BY <1>4, <1>5, <2>2, StepServesTheOldest
  <2> QED BY <2>1, <2>2
<1> QED BY <1>2, <1>4, <1>6

\* For every workflow, what one trigger saw first is served first, across its
\* channel, its goroutine and the events channel it shares with the others.
THEOREM SourcesAreServedInOrder == Spec => []ServedInOrder
<1>1. Init => ServedInOrder BY DEF Init, ServedInOrder
<1>2. RunnerInv /\ FlowInv /\ ServedInOrder /\ [Next]_vars => ServedInOrder'
  BY NextKeepsOrder
<1> QED BY <1>1, <1>2, FlowHolds, PTL DEF Spec

-----------------------------------------------------------------------------
(* Delays: arms and resumed flows are counted against each other *)

\* An arm carries no value (chan struct{}).
ArmsCarryNothing ==
  \A d \in Delays :
    /\ \A i \in DOMAIN inbox[d] : inbox[d][i] = 0
    /\ hand[d] # <<>> => Head(hand[d]) = 0

\* The arms of d that no event has come of yet: one in the slot `armed`, one
\* with the goroutine that counts its time or sends its event.
Arms(ib, hd, d) == Len(ib[d]) + Len(hd[d])

Resumes(d) == events' = Append(events, [src |-> d, cause |-> 0])

\* An arm is the work of Execute and of nothing else, one at a time. It becomes
\* exactly one event of its Delay, or shutdown takes it: neither the second
\* flow that reaches the node, nor a full events channel, nor the timer of an
\* earlier arm makes it disappear or resume twice (delay.go:24-25, 43-69).
ArmStepOf(d) ==
  LET before == Arms(inbox, hand, d)
      after == Arms(inbox', hand', d)
  IN  /\ after < before => cancelled \/ Resumes(d)
      /\ after > before => rpc = "exec" /\ state = d /\ after = before + 1
      /\ Resumes(d) => after + 1 = before

ArmStep == \A d \in Delays : ArmStepOf(d)

EveryArmResumesOnce == [][ArmStep]_vars

LEMMA ArmsKept ==
  ASSUME ArmsCarryNothing,
         \A d \in Delays : inbox'[d] = inbox[d] /\ hand'[d] = hand[d]
  PROVE  ArmsCarryNothing'
BY DEF ArmsCarryNothing

\* Delays are not subscribed to the scope.
LEMMA NotifySparesDelays ==
  ASSUME NEW S, NEW cause, NEW d \in Delays
  PROVE  Notify(inbox, S, cause)[d] = inbox[d]
BY TriggerAssumption DEF Notify

\* The counts of a Delay before and after a step, as numbers.
LEMMA ArmCounts ==
  ASSUME NEW d, inbox[d] \in Seq(Cause), hand[d] \in Seq(Cause),
         inbox'[d] \in Seq(Cause), hand'[d] \in Seq(Cause)
  PROVE  \E m, n, m2, n2 \in Nat :
           /\ Len(inbox[d]) = m /\ Len(hand[d]) = n /\ Arms(inbox, hand, d) = m + n
           /\ Len(inbox'[d]) = m2 /\ Len(hand'[d]) = n2 /\ Arms(inbox', hand', d) = m2 + n2
<1> DEFINE m == Len(inbox[d])  n == Len(hand[d])  m2 == Len(inbox'[d])  n2 == Len(hand'[d])
<1>1. m \in Nat /\ n \in Nat /\ m2 \in Nat /\ n2 \in Nat OBVIOUS
<1>2. Arms(inbox, hand, d) = m + n /\ Arms(inbox', hand', d) = m2 + n2 BY DEF Arms
<1>3. Len(inbox[d]) = m /\ Len(hand[d]) = n /\ Len(inbox'[d]) = m2 /\ Len(hand'[d]) = n2
  OBVIOUS
<1> HIDE DEF m, n, m2, n2
<1> QED BY <1>1, <1>2, <1>3

LEMMA NoResume ==
  ASSUME TypeOK, \A d \in Delays : inbox'[d] = inbox[d] /\ hand'[d] = hand[d],
         \A d \in Delays : ~Resumes(d)
  PROVE  ArmStep
<1> SUFFICES ASSUME NEW d \in Delays PROVE ArmStepOf(d)
      BY DEF ArmStep
<1>1. inbox \in [Triggers -> Seq(Cause)] /\ hand \in [Triggers -> Seq(Cause)] BY DEF TypeOK
<1>2. inbox[d] \in Seq(Cause) /\ hand[d] \in Seq(Cause) BY <1>1
<1>3. inbox'[d] = inbox[d] /\ hand'[d] = hand[d] OBVIOUS
<1>4. PICK m, n, m2, n2 \in Nat :
        /\ Len(inbox[d]) = m /\ Len(hand[d]) = n /\ Arms(inbox, hand, d) = m + n
        /\ Len(inbox'[d]) = m2 /\ Len(hand'[d]) = n2 /\ Arms(inbox', hand', d) = m2 + n2
  BY <1>2, <1>3, ArmCounts
<1>5. m2 = m /\ n2 = n BY <1>3, <1>4
<1> QED BY <1>4, <1>5 DEF ArmStepOf

LEMMA NotAppended ==
  ASSUME NEW S, NEW q \in Seq(S), NEW x
  PROVE  q # Append(q, x) /\ (q # <<>> => Tail(q) # Append(q, x))
<1>1. Len(Append(q, x)) = Len(q) + 1 /\ Len(q) \in Nat OBVIOUS
<1>2. q # <<>> => Len(Tail(q)) = Len(q) - 1 OBVIOUS
<1> QED BY <1>1, <1>2

LEMMA StepKeepsArms ==
  ASSUME RunnerInv, FlowInv, ArmsCarryNothing, [Next]_vars
  PROVE  ArmsCarryNothing' /\ ArmStep
<1> USE DEF RunnerInv, FlowInv
<1>0. events \in Seq(Event) /\ inbox \in [Triggers -> Seq(Cause)] /\ hand \in [Triggers -> Seq(Cause)]
  BY DEF TypeOK
<1>9. \A d \in Delays : \E m, n, m2, n2 \in Nat :
        /\ Len(inbox[d]) = m /\ Len(hand[d]) = n /\ Arms(inbox, hand, d) = m + n
        /\ Len(inbox'[d]) = m2 /\ Len(hand'[d]) = n2 /\ Arms(inbox', hand', d) = m2 + n2
  <2>1. inbox' \in [Triggers -> Seq(Cause)] /\ hand' \in [Triggers -> Seq(Cause)]
    BY NextKeepsInv DEF TypeOK
  <2> TAKE d \in Delays
  <2>2. /\ inbox[d] \in Seq(Cause) /\ hand[d] \in Seq(Cause)
        /\ inbox'[d] \in Seq(Cause) /\ hand'[d] \in Seq(Cause)
    BY <1>0, <2>1
  <2> QED BY <2>2, ArmCounts
<1>1. ASSUME \A d \in Delays : inbox'[d] = inbox[d] /\ hand'[d] = hand[d],
             events' = events \/ (events # <<>> /\ events' = Tail(events))
      PROVE  ArmsCarryNothing' /\ ArmStep
  BY <1>0, <1>1, ArmsKept, NoResume, NotAppended DEF Resumes
<1>2. CASE Start \/ HonourCancel \/ BeginNode \/ Join \/ Signal \/ CloseResources \/ UNCHANGED vars
  BY <1>1, <1>2 DEF Start, HonourCancel, BeginNode, Join, Signal, CloseResources, vars, triggerVars
<1>3. CASE Consume \/ ExecuteNode \/ ExecuteFails
  <2>1. \E S, cause : inbox' = Notify(inbox, S, cause)
    <3>1. CASE Consume
      <4> PICK wrote \in BOOLEAN :
            LET S == IF wrote THEN OutputSlots(Head(events)) ELSE {}
            IN  inbox' = Notify(inbox, S, Head(events).cause)
        BY <3>1 DEF Consume
      <4> QED OBVIOUS
    <3>2. CASE ExecuteNode BY <3>2 DEF ExecuteNode
    <3>3. CASE ExecuteFails BY <3>3 DEF ExecuteFails
    <3> QED BY <1>3, <3>1, <3>2, <3>3
  <2>2. hand' = hand /\ (events' = events \/ (events # <<>> /\ events' = Tail(events)))
    BY <1>3 DEF Consume, ExecuteNode, ExecuteFails, triggerVars
  <2> QED BY <1>1, <2>1, <2>2, NotifySparesDelays
<1>4. CASE ExecuteDelay
  <2> DEFINE q == inbox[state]  new == Offer(q, 0, InboxCap[state])
  <2>1. /\ rpc = "exec" /\ state \in Delays /\ UNCHANGED <<events, hand>>
        /\ inbox' = [inbox EXCEPT ![state] = new]
    BY <1>4 DEF ExecuteDelay, triggerVars
  <2>2. q \in Seq(Cause) /\ hand[state] \in Seq(Cause) /\ \A i \in DOMAIN q : q[i] = 0
    BY <1>0, <2>1 DEF ArmsCarryNothing
  <2>3. new = q \/ (Len(new) = Len(q) + 1 /\ DOMAIN new = DOMAIN q \cup {Len(q) + 1}
                    /\ \A i \in DOMAIN new : new[i] = 0)
    BY <2>2 DEF Offer, Cause
  <2>4. \A i \in DOMAIN new : new[i] = 0 BY <2>2, <2>3
  <2>5. Len(new) = Len(q) \/ Len(new) = Len(q) + 1 BY <2>3
  <2>6. inbox'[state] = new /\ \A d \in Delays : d # state => inbox'[d] = inbox[d]
    BY <1>0, <2>1
  <2> HIDE DEF new
  <2>7. ArmsCarryNothing' BY <2>1, <2>4, <2>6 DEF ArmsCarryNothing
  <2>8. ArmStep
    <3> SUFFICES ASSUME NEW d \in Delays PROVE ArmStepOf(d)
      BY DEF ArmStep
    <3>1. PICK m, n, m2, n2 \in Nat :
          /\ Len(inbox[d]) = m /\ Len(hand[d]) = n /\ Arms(inbox, hand, d) = m + n
          /\ Len(inbox'[d]) = m2 /\ Len(hand'[d]) = n2 /\ Arms(inbox', hand', d) = m2 + n2
      BY <1>9
    <3>2. n2 = n BY <2>1, <3>1
    <3>3. d # state => m2 = m BY <2>6, <3>1
    <3>4. d = state => m2 = m \/ m2 = m + 1 BY <2>5, <2>6, <3>1
    <3>5. ~Resumes(d) BY <1>0, <2>1, NotAppended DEF Resumes
    <3> QED BY <2>1, <3>1, <3>2, <3>3, <3>4, <3>5 DEF ArmStepOf
  <2> QED BY <2>7, <2>8
<1>5. ASSUME NEW t \in Triggers, Trigger(t) PROVE ArmsCarryNothing' /\ ArmStep
  <2>1. CASE t \notin Delays /\ ~Send(t)
    BY <1>0, <1>1, <1>5, <2>1
       DEF Trigger, Take, TakeAndFire, TakeAndSkip, TakeAndDie, TakeArm, TimerFires, GiveUp, Close,
           triggerVars
  <2>2. CASE Send(t)
    <3>1. /\ hand[t] # <<>> /\ UNCHANGED inbox
          /\ hand' = [hand EXCEPT ![t] = <<>>]
          /\ events' = Append(events, [src |-> t, cause |-> Head(hand[t])])
      BY <2>2 DEF Send, SenderHoldsItem
    <3>2. Len(hand[t]) = 1 /\ hand'[t] = <<>> /\ Head(hand[t]) \in Cause
      <4>1. hand[t] \in Seq(Cause) /\ Len(hand[t]) <= 1 BY <1>0 DEF TypeOK
      <4>2. hand'[t] = <<>> BY <1>0, <3>1
      <4>3. Len(hand[t]) = 1 /\ Head(hand[t]) \in Cause
        <5> DEFINE h == hand[t]
        <5>1. h \in Seq(Cause) /\ Len(h) <= 1 /\ h # <<>> BY <3>1, <4>1
        <5> HIDE DEF h
        <5>2. Len(h) = 1 /\ Head(h) \in Cause BY <5>1
        <5> QED BY <5>2 DEF h
      <4> QED BY <4>2, <4>3
    <3>3. \A d \in Delays : d # t => hand'[d] = hand[d] BY <1>0, <3>1
    <3>4. ArmsCarryNothing' BY <3>1, <3>2, <3>3 DEF ArmsCarryNothing
    <3>5. ASSUME NEW d \in Delays
          PROVE  Resumes(d) <=> d = t
      <4> DEFINE x == [src |-> t, cause |-> Head(hand[t])]  y == [src |-> d, cause |-> 0]
      <4>1. x \in Event /\ y \in Event BY <3>2, <3>5, BoundAssumption DEF Event, Cause
      <4>2. d = t => x = y BY <3>1 DEF ArmsCarryNothing
      <4>3. x = y => d = t OBVIOUS
      <4> HIDE DEF x, y
      <4>4. Append(events, x) = Append(events, y) => x = y
        BY <1>0, <4>1, AppendItems
      <4>5. events' = Append(events, x) BY <3>1 DEF x
      <4> QED BY <4>2, <4>3, <4>4, <4>5 DEF y, Resumes
    <3>6. ArmStep
      <4> SUFFICES ASSUME NEW d \in Delays PROVE ArmStepOf(d)
      BY DEF ArmStep
      <4>1. PICK m, n, m2, n2 \in Nat :
            /\ Len(inbox[d]) = m /\ Len(hand[d]) = n /\ Arms(inbox, hand, d) = m + n
            /\ Len(inbox'[d]) = m2 /\ Len(hand'[d]) = n2 /\ Arms(inbox', hand', d) = m2 + n2
        BY <1>9
      <4>2. m2 = m BY <3>1, <4>1
      <4>3. d = t => n = 1 /\ n2 = 0
        <5>1. Len(<<>>) = 0 OBVIOUS
        <5>2. d = t => Len(hand[d]) = 1 /\ Len(hand'[d]) = 0 BY <3>2, <5>1
        <5> QED BY <4>1, <5>2
      <4>4. d # t => n2 = n BY <3>3, <4>1
      <4>5. Resumes(d) <=> d = t BY <3>5
      <4> QED BY <4>1, <4>2, <4>3, <4>4, <4>5 DEF ArmStepOf
    <3> QED BY <3>4, <3>6
  <2>3. CASE t \in Delays /\ TakeArm(t)
    <3>1. /\ hand[t] = <<>> /\ inbox[t] # <<>> /\ UNCHANGED events
          /\ hand' = [hand EXCEPT ![t] = <<Head(inbox[t])>>]
          /\ inbox' = [inbox EXCEPT ![t] = Tail(@)]
      BY <2>3 DEF TakeArm, OnlySendersHold
    <3>2. inbox[t] \in Seq(Cause) /\ Len(inbox[t]) \in Nat BY <1>0
    <3>3. /\ Len(Tail(inbox[t])) + 1 = Len(inbox[t])
          /\ Head(inbox[t]) = 0
          /\ \A i \in DOMAIN Tail(inbox[t]) : Tail(inbox[t])[i] = 0
      BY <2>3, <3>1, <3>2, TailItems DEF ArmsCarryNothing
    <3>4. /\ inbox'[t] = Tail(inbox[t]) /\ hand'[t] = <<Head(inbox[t])>>
          /\ \A d \in Delays : d # t => inbox'[d] = inbox[d] /\ hand'[d] = hand[d]
      BY <1>0, <3>1
    <3>5. ArmsCarryNothing'
      <4>1. hand'[t] # <<>> /\ Head(hand'[t]) = 0 BY <3>3, <3>4
      <4>2. \A i \in DOMAIN inbox'[t] : inbox'[t][i] = 0 BY <3>3, <3>4
      <4> QED BY <3>4, <4>1, <4>2 DEF ArmsCarryNothing
    <3>6. ArmStep
      <4> SUFFICES ASSUME NEW d \in Delays PROVE ArmStepOf(d)
      BY DEF ArmStep
      <4>1. PICK m, n, m2, n2 \in Nat :
            /\ Len(inbox[d]) = m /\ Len(hand[d]) = n /\ Arms(inbox, hand, d) = m + n
            /\ Len(inbox'[d]) = m2 /\ Len(hand'[d]) = n2 /\ Arms(inbox', hand', d) = m2 + n2
        BY <1>9
      <4>2. d = t => n = 0 /\ n2 = 1 BY <3>1, <3>4, <4>1
      <4>3. d = t => m2 + 1 = m BY <3>3, <3>4, <4>1
      <4>4. d # t => m2 = m /\ n2 = n BY <3>4, <4>1
      <4>5. ~Resumes(d) BY <1>0, <3>1, NotAppended DEF Resumes
      <4> QED BY <4>1, <4>2, <4>3, <4>4, <4>5 DEF ArmStepOf
    <3> QED BY <3>5, <3>6
  <2>4. CASE t \in Delays /\ (TimerFires(t) \/ Close(t))
    BY <1>1, <2>4 DEF TimerFires, Close
  <2>5. CASE t \in Delays /\ GiveUp(t)
    <3>1. cancelled /\ UNCHANGED <<inbox, events>> /\ hand' = [hand EXCEPT ![t] = <<>>]
      BY <2>5 DEF GiveUp
    <3>2. hand'[t] = <<>> /\ \A d \in Delays : d # t => hand'[d] = hand[d] BY <1>0, <3>1
    <3>3. ArmsCarryNothing' BY <3>1, <3>2 DEF ArmsCarryNothing
    <3>4. ArmStep
      <4> SUFFICES ASSUME NEW d \in Delays PROVE ArmStepOf(d)
      BY DEF ArmStep
      <4>1. PICK m, n, m2, n2 \in Nat :
            /\ Len(inbox[d]) = m /\ Len(hand[d]) = n /\ Arms(inbox, hand, d) = m + n
            /\ Len(inbox'[d]) = m2 /\ Len(hand'[d]) = n2 /\ Arms(inbox', hand', d) = m2 + n2
        BY <1>9
      <4>2. m2 = m /\ (n2 = n \/ n2 = 0) BY <3>1, <3>2, <4>1
      <4>3. ~Resumes(d) BY <1>0, <3>1, NotAppended DEF Resumes
      <4> QED BY <3>1, <4>1, <4>2, <4>3 DEF ArmStepOf
    <3> QED BY <3>3, <3>4
  <2>6. t \in Delays => ~TakeAndFire(t) /\ ~TakeAndSkip(t) /\ ~TakeAndDie(t)
    BY TriggerAssumption DEF TakeAndFire, TakeAndSkip, TakeAndDie
  <2> QED BY <1>5, <2>1, <2>2, <2>3, <2>4, <2>5, <2>6 DEF Trigger, Take
<1>6. ASSUME NEW t \in Sources, Occur(t) PROVE ArmsCarryNothing' /\ ArmStep
  BY <1>0, <1>1, <1>6, TriggerAssumption DEF Occur, triggerVars
<1> QED BY <1>2, <1>3, <1>4, <1>5, <1>6 DEF Next, Runner, Execute, Exited

\* The flow behind a Delay is resumed once for every arm, in every workflow.
THEOREM EveryArmResumes == Spec => EveryArmResumesOnce
<1>1. Init => ArmsCarryNothing
  BY TriggerAssumption DEF Init, ArmsCarryNothing
<1>2. RunnerInv /\ FlowInv /\ ArmsCarryNothing /\ [Next]_vars => ArmsCarryNothing' /\ ArmStep
  BY StepKeepsArms
<1>3. ArmStep => [ArmStep]_vars OBVIOUS
<1>4. RunnerInv /\ FlowInv /\ ArmsCarryNothing /\ [Next]_vars => [ArmStep]_vars BY <1>2, <1>3
<1> QED BY <1>1, <1>2, <1>4, FlowHolds, PTL DEF Spec, EveryArmResumesOnce

-----------------------------------------------------------------------------
(* Shutdown has no way back *)

RunnerStage == [start |-> 0, exec |-> 1, top |-> 2, joining |-> 3, returned |-> 4]
TriggerStage == [waiting |-> 0, counting |-> 0, sending |-> 0, closing |-> 1, closed |-> 2]

\* A goroutine that ends, ends: no later event revives it. A Run that waits for
\* its goroutines touches neither the scope nor a node. Once ctx is done, it
\* stays done, and no further node is begun: the runner only finishes what it
\* executes. After CloseAll nothing moves (runner.go:78-86, 105-143,
\* main.go:139-144).
ShutdownStep ==
  /\ resources = "open"
  /\ \A t \in Triggers : TriggerStage[pc[t]] <= TriggerStage[pc'[t]]
  /\ rpc \in {"joining", "returned"} =>
       RunnerStage[rpc] <= RunnerStage[rpc'] /\ UNCHANGED <<state, chain, scope>>
  /\ cancelled => cancelled' /\ RunnerStage[rpc] <= RunnerStage[rpc']

ShutdownHasNoWayBack == [][ShutdownStep]_vars

ClosedIsCancelled == resources = "closed" => cancelled

LEMMA StepsForward ==
  ASSUME RunnerInv, JoinedBeforeClose, ClosedIsCancelled, Next, vars' # vars
  PROVE  ShutdownStep /\ ClosedIsCancelled'
<1> USE DEF RunnerInv, ShutdownStep, ClosedIsCancelled, RunnerStage, TriggerStage, runnerVars, triggerVars
<1>0. /\ resources \in {"open", "closed"}
      /\ rpc \in {"start", "top", "exec", "joining", "returned"}
      /\ pc \in [Triggers -> {"waiting", "counting", "sending", "closing", "closed"}]
  BY DEF TypeOK
<1>1. \A t \in Triggers : TriggerStage[pc[t]] <= TriggerStage[pc[t]]
  BY <1>0
<1>2. rpc # "returned" => resources = "open" BY <1>0 DEF JoinedBeforeClose
<1>3. CASE Runner
  BY <1>0, <1>1, <1>2, <1>3 DEF Runner, Start, HonourCancel, Consume, BeginNode, Join
<1>4. CASE Execute
  BY <1>0, <1>1, <1>2, <1>4 DEF Execute, ExecuteDelay, ExecuteNode, ExecuteFails
<1>5. ASSUME NEW t \in Triggers, Trigger(t) PROVE ShutdownStep /\ ClosedIsCancelled'
  <2>1. pc[t] # "closed" /\ UNCHANGED <<cancelled, resources, rpc, state, chain, scope>>
    BY <1>5 DEF Trigger, Take, TakeAndFire, TakeAndSkip, TakeAndDie, TakeArm, TimerFires,
                Send, GiveUp, Close
  <2>2. resources = "open" BY <1>0, <2>1 DEF JoinedBeforeClose
  <2>3. /\ \A s \in Triggers : s # t => pc'[s] = pc[s]
        /\ \/ pc[t] \in {"waiting", "counting", "sending"}
              /\ pc'[t] \in {"waiting", "counting", "sending", "closing"}
           \/ pc[t] = "closing" /\ pc'[t] = "closed"
    BY <1>0, <1>5 DEF Trigger, Take, TakeAndFire, TakeAndSkip, TakeAndDie, TakeArm, TimerFires,
                      Send, GiveUp, Close
  <2>4. \A s \in Triggers : TriggerStage[pc[s]] <= TriggerStage[pc'[s]]
    BY <1>1, <2>3
  <2> QED BY <1>0, <2>1, <2>2, <2>4
<1>6. ASSUME NEW t \in Sources, Occur(t) PROVE ShutdownStep /\ ClosedIsCancelled'
  BY <1>0, <1>1, <1>6 DEF Occur
<1>7. CASE Signal BY <1>0, <1>1, <1>7 DEF Signal
<1>8. CASE CloseResources BY <1>0, <1>1, <1>8 DEF CloseResources
<1>9. CASE Exited BY <1>9 DEF Exited
<1> QED BY <1>3, <1>4, <1>5, <1>6, <1>7, <1>8, <1>9 DEF Next

\* The safety part of ShutdownCompletes: every step after the signal leads
\* towards the end of the process, in every workflow.
THEOREM ShutdownOnlyAdvances == Spec => ShutdownHasNoWayBack
<1>1. Init => JoinedBeforeClose /\ ClosedIsCancelled
  BY DEF Init, JoinedBeforeClose, ClosedIsCancelled
<1>2. RunnerInv /\ JoinedBeforeClose /\ [Next]_vars => JoinedBeforeClose'
  BY NextKeepsJoined
<1>3. RunnerInv /\ JoinedBeforeClose /\ ClosedIsCancelled /\ [Next]_vars
        => [ShutdownStep]_vars /\ ClosedIsCancelled'
  <2>1. CASE vars' = vars BY <2>1 DEF ClosedIsCancelled, vars
  <2>2. CASE vars' # vars BY <2>2, StepsForward
  <2> QED BY <2>1, <2>2
<1> QED BY <1>1, <1>2, <1>3, InvariantHolds, PTL DEF Spec, ShutdownHasNoWayBack

=============================================================================
