------------------------- MODULE EngineRunnerProofs -------------------------
(***************************************************************************)
(* Proofs about EngineRunner for every workflow: any nodes, triggers,      *)
(* edges and output bindings that satisfy the named assumptions of the     *)
(* module, and any capacities of the channels.                             *)
(***************************************************************************)
EXTENDS EngineRunner, TLAPS

USE DEF Triggers

\* The runner is idle exactly when it executes no event's nodes.
IdleHasNoChain == state = Idle <=> chain = <<>>

\* A trigger goroutine that counts or sends has the item it does so for.
SenderHoldsItem ==
  \A t \in Triggers : pc[t] \in {"counting", "sending"} => hand[t] # <<>>

RunnerInv ==
  /\ TypeOK
  /\ IdleHasNoChain
  /\ SenderHoldsItem

-----------------------------------------------------------------------------
(* The operators on channels and on the scope *)

\* The parts of GraphAssumption, with what the build establishes spelt out.
LEMMA GraphFacts ==
  /\ Entry \in Nodes \cup {Idle}
  /\ Target \in [Triggers -> Nodes \cup {Idle}]
  /\ Succ \in [Nodes -> SUBSET (Nodes \cup {Idle})]
  /\ Writes \in [Nodes -> SUBSET Slots]
  /\ Out \in [Triggers -> Slots \cup {NoSlot}]
  /\ Watch \in [Watchers -> Slots]
  /\ Seeded \subseteq Slots
BY GraphAssumption DEF Runnable

\* A sequence of at most one item.
LEMMA Singleton ==
  ASSUME NEW S, NEW x \in S
  PROVE  /\ <<x>> \in Seq(S) /\ Len(<<x>>) = 1 /\ Head(<<x>>) = x /\ <<x>> # <<>>
         /\ <<>> \in Seq(S) /\ Len(<<>>) = 0
  OBVIOUS

\* The chain is empty or holds one event.
LEMMA ChainBounded ==
  ASSUME NEW c, c = <<>> \/ \E w \in Event \cup {StartupEvent} : c = <<w>>
  PROVE  c \in Seq(Event \cup {StartupEvent}) /\ Len(c) <= 1
<1>1. CASE c = <<>> BY <1>1
<1>2. ASSUME NEW w \in Event \cup {StartupEvent}, c = <<w>>
      PROVE  c \in Seq(Event \cup {StartupEvent}) /\ Len(c) <= 1
  BY <1>2, Singleton
<1> QED BY <1>1, <1>2

\* A non-blocking send keeps a channel within its capacity.
LEMMA OfferBounded ==
  ASSUME NEW S, NEW q \in Seq(S), NEW item \in S, NEW cap \in Nat, Len(q) <= cap
  PROVE  /\ Offer(q, item, cap) \in Seq(S)
         /\ Len(Offer(q, item, cap)) <= cap
  BY DEF Offer

\* Receiving from a channel leaves an item of its type and a shorter channel.
LEMMA ReceiveBounded ==
  ASSUME NEW S, NEW q \in Seq(S), q # <<>>, NEW cap \in Nat, Len(q) <= cap
  PROVE  Head(q) \in S /\ Tail(q) \in Seq(S) /\ Len(Tail(q)) <= cap
  OBVIOUS

\* What TypeOK says of one trigger's channel and of its hand.
LEMMA InboxType ==
  ASSUME TypeOK, NEW t \in Triggers
  PROVE  /\ inbox[t] \in Seq(Cause) /\ Len(inbox[t]) <= InboxCap[t]
         /\ hand[t] \in Seq(Cause) /\ Len(hand[t]) <= 1
         /\ InboxCap[t] \in Nat
         /\ hand[t] # <<>> => Head(hand[t]) \in Cause
  BY BoundAssumption DEF TypeOK

\* Scope.Set keeps every trigger's channel within its capacity.
LEMMA NotifyBounded ==
  ASSUME TypeOK, NEW S, NEW cause \in Cause
  PROVE  /\ Notify(inbox, S, cause) \in [Triggers -> Seq(Cause)]
         /\ \A t \in Triggers : Len(Notify(inbox, S, cause)[t]) <= InboxCap[t]
<1>1. ASSUME NEW t \in Triggers
      PROVE  /\ Offer(inbox[t], cause, InboxCap[t]) \in Seq(Cause)
             /\ Len(Offer(inbox[t], cause, InboxCap[t])) <= InboxCap[t]
             /\ inbox[t] \in Seq(Cause)
             /\ Len(inbox[t]) <= InboxCap[t]
  BY InboxType, OfferBounded
<1> QED BY <1>1 DEF Notify

\* Replacing one trigger's channel by a bounded one.
LEMMA InboxUpdate ==
  ASSUME TypeOK, NEW t \in Triggers, NEW q \in Seq(Cause), Len(q) <= InboxCap[t]
  PROVE  /\ [inbox EXCEPT ![t] = q] \in [Triggers -> Seq(Cause)]
         /\ \A u \in Triggers : Len([inbox EXCEPT ![t] = q][u]) <= InboxCap[u]
  BY DEF TypeOK

\* Replacing what one trigger goroutine holds.
LEMMA HandUpdate ==
  ASSUME TypeOK, NEW t \in Triggers, NEW h \in Seq(Cause), Len(h) <= 1
  PROVE  /\ [hand EXCEPT ![t] = h] \in [Triggers -> Seq(Cause)]
         /\ \A u \in Triggers : Len([hand EXCEPT ![t] = h][u]) <= 1
  BY DEF TypeOK

\* Writing a cause to some slots leaves a scope.
LEMMA AssignType ==
  ASSUME TypeOK, NEW S, NEW cause \in Cause
  PROVE  Assign(scope, S, cause) \in [Slots -> Cause]
  BY DEF Assign, TypeOK

\* Recording a fate leaves a record of fates.
LEMMA RecordType ==
  ASSUME TypeOK, NEW t, NEW cause, NEW f \in Fate, Record(t, cause, f)
  PROVE  fate' \in [Occurrence -> Fate]
  BY DEF Record, TypeOK

-----------------------------------------------------------------------------
(* The inductive invariant: one lemma for each part of the next-state relation *)

LEMMA InitEstablishesInv == Init => RunnerInv
<1> SUFFICES ASSUME Init PROVE RunnerInv OBVIOUS
<1> USE DEF Init
<1>1. 0 \in Cause BY BoundAssumption DEF Cause
<1>2. /\ <<>> \in Seq(Cause) /\ <<0>> \in Seq(Cause)
      /\ Len(<<>>) = 0 /\ Len(<<0>>) = 1
  BY <1>1, Singleton
<1>3. TypeOK
  <2>1. \A t \in Triggers : inbox[t] \in {<<>>, <<0>>} /\ InboxCap[t] \in Nat \ {0}
    BY BoundAssumption
  <2>2. inbox \in [Triggers -> Seq(Cause)] BY <1>2
  <2>3. \A t \in Triggers : Len(inbox[t]) <= InboxCap[t]
    <3> SUFFICES ASSUME NEW t \in Triggers PROVE Len(inbox[t]) <= InboxCap[t] OBVIOUS
    <3>1. inbox[t] = <<>> \/ inbox[t] = <<0>> BY <2>1
    <3> HIDE DEF Init
    <3>2. InboxCap[t] \in Nat \ {0} BY BoundAssumption
    <3>3. \A n \in Nat \ {0} : 1 <= n OBVIOUS
    <3>4. InboxCap[t] \in Nat /\ 1 <= InboxCap[t] BY <3>2, <3>3
    <3>5. CASE inbox[t] = <<>> BY <3>4, <3>5
    <3>6. CASE inbox[t] = <<0>> BY <3>4, <3>6, <1>2
    <3> QED BY <3>1, <3>5, <3>6
  <2>4. chain \in Seq(Event \cup {StartupEvent}) /\ Len(chain) <= 1
    BY ChainBounded
  <2>5. events \in Seq(Event) /\ Len(events) <= EventBuf BY BoundAssumption
  <2>6. hand \in [Triggers -> Seq(Cause)] /\ \A t \in Triggers : Len(hand[t]) <= 1
    OBVIOUS
  <2>7. state \in Nodes \cup {Idle} BY GraphFacts
  <2>8. fate \in [Occurrence -> Fate] /\ origin \in [Occurrence -> Sources \cup {NoTrigger}]
    BY DEF Fate
  <2> QED BY <1>1, <2>2, <2>3, <2>4, <2>5, <2>6, <2>7, <2>8 DEF TypeOK
<1>4. IdleHasNoChain BY DEF IdleHasNoChain
<1>5. SenderHoldsItem BY DEF SenderHoldsItem
<1> QED BY <1>3, <1>4, <1>5 DEF RunnerInv

LEMMA ConsumeKeepsInv ==
  ASSUME RunnerInv, Consume
  PROVE  RunnerInv'
<1> USE DEF RunnerInv, triggerVars
<1> DEFINE ev == Head(events)
<1>1. ev \in Event /\ Tail(events) \in Seq(Event) /\ Len(Tail(events)) <= EventBuf
  BY BoundAssumption, ReceiveBounded DEF Consume, TypeOK
<1>2. ev.cause \in Cause /\ ev.src \in Triggers BY <1>1 DEF Event
<1>3. PICK wrote \in BOOLEAN, applied \in BOOLEAN :
        /\ scope' = Assign(scope, IF wrote THEN OutputSlots(ev) ELSE {}, ev.cause)
        /\ inbox' = Notify(inbox, IF wrote THEN OutputSlots(ev) ELSE {}, ev.cause)
        /\ state' = IF applied THEN Target[ev.src] ELSE Idle
        /\ chain' = IF applied /\ Target[ev.src] # Idle THEN <<ev>> ELSE <<>>
  BY DEF Consume
<1> DEFINE S == IF wrote THEN OutputSlots(ev) ELSE {}
<1>4. scope' \in [Slots -> Cause] BY <1>2, <1>3, AssignType
<1>5. /\ inbox' \in [Triggers -> Seq(Cause)]
      /\ \A t \in Triggers : Len(inbox'[t]) <= InboxCap[t]
  BY <1>2, <1>3, NotifyBounded
<1>6. fate' \in [Occurrence -> Fate] BY RecordType DEF Consume, Fate
<1>7. chain' \in Seq(Event \cup {StartupEvent}) /\ Len(chain') <= 1
  BY <1>1, <1>3, ChainBounded
<1>8. state' \in Nodes \cup {Idle} BY <1>2, <1>3, GraphFacts
<1>9. TypeOK' BY <1>1, <1>4, <1>5, <1>6, <1>7, <1>8 DEF Consume, TypeOK
<1>10. IdleHasNoChain' BY <1>3, Singleton DEF IdleHasNoChain
<1>11. SenderHoldsItem' BY DEF Consume, SenderHoldsItem
<1> QED BY <1>9, <1>10, <1>11

LEMMA RunnerKeepsInv ==
  ASSUME RunnerInv, Runner
  PROVE  RunnerInv'
<1> USE DEF RunnerInv, runnerVars, triggerVars, history
<1>1. CASE Start
  <2>1. state' \in Nodes \cup {Idle} /\ chain' \in {chain, <<>>} BY <1>1 DEF Start, TypeOK
  <2>2. chain' \in Seq(Event \cup {StartupEvent}) /\ Len(chain') <= 1
    BY <2>1, ChainBounded DEF TypeOK
  <2> QED BY <1>1, <2>1, <2>2 DEF Start, TypeOK, IdleHasNoChain, SenderHoldsItem
<1>2. CASE HonourCancel
  BY <1>2 DEF HonourCancel, TypeOK, IdleHasNoChain, SenderHoldsItem
<1>3. CASE Consume BY <1>3, ConsumeKeepsInv
<1>4. CASE BeginNode
  BY <1>4 DEF BeginNode, TypeOK, IdleHasNoChain, SenderHoldsItem
<1>5. CASE Join
  BY <1>5 DEF Join, TypeOK, IdleHasNoChain, SenderHoldsItem
<1> QED BY <1>1, <1>2, <1>3, <1>4, <1>5 DEF Runner

LEMMA ExecuteKeepsInv ==
  ASSUME RunnerInv, Execute
  PROVE  RunnerInv'
<1> USE DEF RunnerInv, triggerVars, history
<1>1. CASE ExecuteDelay
  <2>1. state \in Triggers /\ 0 \in Cause
    BY <1>1, BoundAssumption DEF ExecuteDelay, Cause
  <2>2. /\ inbox' \in [Triggers -> Seq(Cause)]
        /\ \A t \in Triggers : Len(inbox'[t]) <= InboxCap[t]
    BY <1>1, <2>1, InboxType, OfferBounded, InboxUpdate DEF ExecuteDelay
  <2> QED BY <1>1, <2>2 DEF ExecuteDelay, TypeOK, IdleHasNoChain, SenderHoldsItem
<1>2. ASSUME state \in Nodes \ Delays
      PROVE  Head(chain).cause \in Cause
  <2>1. chain # <<>> BY <1>2, TriggerAssumption DEF IdleHasNoChain
  <2>2. Head(chain) \in Event \cup {StartupEvent} BY <2>1 DEF TypeOK
  <2> QED BY <2>2, BoundAssumption DEF Event, StartupEvent, Cause
<1>3. CASE ExecuteNode
  <2>1. /\ scope' \in [Slots -> Cause]
        /\ inbox' \in [Triggers -> Seq(Cause)]
        /\ \A t \in Triggers : Len(inbox'[t]) <= InboxCap[t]
    BY <1>2, <1>3, AssignType, NotifyBounded DEF ExecuteNode
  <2>2. PICK n \in Succ[state] : state' = n /\ chain' = IF n = Idle THEN <<>> ELSE chain
    BY <1>3 DEF ExecuteNode
  <2>3. state' \in Nodes \cup {Idle} BY <1>3, <2>2, GraphFacts DEF ExecuteNode
  <2>4. chain' \in Seq(Event \cup {StartupEvent}) /\ Len(chain') <= 1 BY <2>2 DEF TypeOK
  <2>5. IdleHasNoChain'
    BY <1>3, <2>2, TriggerAssumption DEF ExecuteNode, IdleHasNoChain
  <2> QED BY <1>3, <2>1, <2>3, <2>4, <2>5 DEF ExecuteNode, TypeOK, SenderHoldsItem
<1>4. CASE ExecuteFails
  <2> PICK S \in SUBSET Writes[state] :
         /\ scope' = Assign(scope, S, Head(chain).cause)
         /\ inbox' = Notify(inbox, S, Head(chain).cause)
    BY <1>4 DEF ExecuteFails
  <2>1. /\ scope' \in [Slots -> Cause]
        /\ inbox' \in [Triggers -> Seq(Cause)]
        /\ \A t \in Triggers : Len(inbox'[t]) <= InboxCap[t]
    BY <1>2, <1>4, AssignType, NotifyBounded DEF ExecuteFails
  <2> QED BY <1>4, <2>1 DEF ExecuteFails, TypeOK, IdleHasNoChain, SenderHoldsItem
<1> QED BY <1>1, <1>3, <1>4 DEF Execute

LEMMA TakeKeepsInv ==
  ASSUME RunnerInv, NEW t \in Triggers, Take(t)
  PROVE  RunnerInv'
<1> USE DEF RunnerInv, runnerVars, triggerVars, history
<1>1. inbox[t] # <<>> BY DEF Take, TakeAndFire, TakeAndSkip, TakeAndDie, TakeArm
<1>2. /\ Head(inbox[t]) \in Cause
      /\ Tail(inbox[t]) \in Seq(Cause)
      /\ Len(Tail(inbox[t])) <= InboxCap[t]
  BY <1>1, InboxType, ReceiveBounded
<1>3. inbox' = [inbox EXCEPT ![t] = Tail(inbox[t])]
  BY DEF Take, TakeAndFire, TakeAndSkip, TakeAndDie, TakeArm
<1>4. /\ inbox' \in [Triggers -> Seq(Cause)]
      /\ \A u \in Triggers : Len(inbox'[u]) <= InboxCap[u]
  BY <1>2, <1>3, InboxUpdate
<1>5. /\ [hand EXCEPT ![t] = <<Head(inbox[t])>>] \in [Triggers -> Seq(Cause)]
      /\ \A u \in Triggers : Len([hand EXCEPT ![t] = <<Head(inbox[t])>>][u]) <= 1
  <2> DEFINE h == <<Head(inbox[t])>>
  <2>1. h \in Seq(Cause) /\ Len(h) <= 1 BY <1>2, Singleton
  <2> HIDE DEF h
  <2>2. /\ [hand EXCEPT ![t] = h] \in [Triggers -> Seq(Cause)]
        /\ \A u \in Triggers : Len([hand EXCEPT ![t] = h][u]) <= 1
    BY <2>1, HandUpdate
  <2> QED BY <2>2 DEF h
<1>6. CASE TakeAndFire(t)
  <2>1. TypeOK' BY <1>4, <1>5, <1>6 DEF TakeAndFire, TypeOK
  <2>2. SenderHoldsItem' BY <1>2, <1>6, Singleton DEF TakeAndFire, TypeOK, SenderHoldsItem
  <2> QED BY <1>6, <2>1, <2>2 DEF TakeAndFire, IdleHasNoChain
<1>7. CASE TakeAndSkip(t)
  <2>1. fate' \in [Occurrence -> Fate] BY <1>7, RecordType DEF TakeAndSkip, Fate
  <2> QED BY <1>4, <1>7, <2>1 DEF TakeAndSkip, TypeOK, IdleHasNoChain, SenderHoldsItem
<1>8. CASE TakeAndDie(t)
  BY <1>4, <1>8 DEF TakeAndDie, TypeOK, IdleHasNoChain, SenderHoldsItem
<1>9. CASE TakeArm(t)
  <2>1. TypeOK' BY <1>4, <1>5, <1>9 DEF TakeArm, TypeOK
  <2>2. SenderHoldsItem' BY <1>2, <1>9, Singleton DEF TakeArm, TypeOK, SenderHoldsItem
  <2> QED BY <1>9, <2>1, <2>2 DEF TakeArm, IdleHasNoChain
<1> QED BY <1>6, <1>7, <1>8, <1>9 DEF Take

LEMMA TriggerKeepsInv ==
  ASSUME RunnerInv, NEW t \in Triggers, Trigger(t)
  PROVE  RunnerInv'
<1> USE DEF RunnerInv, runnerVars, triggerVars, history
<1>1. /\ [hand EXCEPT ![t] = <<>>] \in [Triggers -> Seq(Cause)]
      /\ \A u \in Triggers : Len([hand EXCEPT ![t] = <<>>][u]) <= 1
  <2> DEFINE h == <<>>
  <2>1. h \in Seq(Cause) /\ Len(h) <= 1 OBVIOUS
  <2> HIDE DEF h
  <2>2. /\ [hand EXCEPT ![t] = h] \in [Triggers -> Seq(Cause)]
        /\ \A u \in Triggers : Len([hand EXCEPT ![t] = h][u]) <= 1
    BY <2>1, HandUpdate
  <2> QED BY <2>2 DEF h
<1>2. CASE Take(t) BY <1>2, TakeKeepsInv
<1>3. CASE TimerFires(t)
  BY <1>3 DEF TimerFires, TypeOK, IdleHasNoChain, SenderHoldsItem
<1>4. CASE Send(t)
  <2>1. Head(hand[t]) \in Cause BY <1>4, InboxType DEF Send, SenderHoldsItem
  <2>2. [src |-> t, cause |-> Head(hand[t])] \in Event BY <2>1 DEF Event
  <2>3. events' \in Seq(Event) /\ Len(events') <= EventBuf
    BY <1>4, <2>2, BoundAssumption DEF Send, TypeOK
  <2>4. TypeOK' BY <1>1, <1>4, <2>3 DEF Send, TypeOK
  <2>5. SenderHoldsItem' BY <1>4 DEF Send, TypeOK, SenderHoldsItem
  <2> QED BY <1>4, <2>4, <2>5 DEF Send, IdleHasNoChain
<1>5. CASE GiveUp(t)
  <2>1. fate' \in [Occurrence -> Fate]
    BY <1>5, RecordType DEF GiveUp, Fate, TypeOK
  <2>2. TypeOK' BY <1>1, <1>5, <2>1 DEF GiveUp, TypeOK
  <2>3. SenderHoldsItem' BY <1>5 DEF GiveUp, TypeOK, SenderHoldsItem
  <2> QED BY <1>5, <2>2, <2>3 DEF GiveUp, IdleHasNoChain
<1>6. CASE Close(t)
  BY <1>6 DEF Close, TypeOK, IdleHasNoChain, SenderHoldsItem
<1> QED BY <1>2, <1>3, <1>4, <1>5, <1>6 DEF Trigger

LEMMA OccurKeepsInv ==
  ASSUME RunnerInv, NEW t \in Sources, Occur(t)
  PROVE  RunnerInv'
<1> USE DEF RunnerInv, runnerVars, triggerVars, history
<1> DEFINE k == occurred + 1
<1>1. k \in Occurrence /\ k \in Cause
  BY BoundAssumption DEF Occur, TypeOK, Cause, Occurrence
<1>2. /\ inbox' \in [Triggers -> Seq(Cause)]
      /\ \A u \in Triggers : Len(inbox'[u]) <= InboxCap[u]
  BY <1>1, InboxType, OfferBounded, InboxUpdate DEF Occur
<1>3. origin' \in [Occurrence -> Sources \cup {NoTrigger}] BY DEF Occur, TypeOK
<1>4. fate' \in [Occurrence -> Fate] BY DEF Occur, TypeOK, Fate
<1> QED BY <1>1, <1>2, <1>3, <1>4 DEF Occur, TypeOK, IdleHasNoChain, SenderHoldsItem

LEMMA NextKeepsInv == RunnerInv /\ [Next]_vars => RunnerInv'
<1> SUFFICES ASSUME RunnerInv, [Next]_vars PROVE RunnerInv' OBVIOUS
<1> USE DEF vars, runnerVars, triggerVars, history
<1>1. CASE Runner BY <1>1, RunnerKeepsInv
<1>2. CASE Execute BY <1>2, ExecuteKeepsInv
<1>3. CASE \E t \in Triggers : Trigger(t) BY <1>3, TriggerKeepsInv
<1>4. CASE \E t \in Sources : Occur(t) BY <1>4, OccurKeepsInv
<1>5. CASE Signal
  BY <1>5 DEF Signal, RunnerInv, TypeOK, IdleHasNoChain, SenderHoldsItem
<1>6. CASE CloseResources
  BY <1>6 DEF CloseResources, RunnerInv, TypeOK, IdleHasNoChain, SenderHoldsItem
<1>7. CASE UNCHANGED vars
  BY <1>7 DEF RunnerInv, TypeOK, IdleHasNoChain, SenderHoldsItem
<1> QED BY <1>1, <1>2, <1>3, <1>4, <1>5, <1>6, <1>7 DEF Next, Exited

\* Every reachable state of the runner is well typed: no channel exceeds its
\* capacity, and the state of the interpreter is always a registered node or
\* idle, so that the lookup in Run (runner.go:89-92) never fails.
THEOREM TypeCorrect == Spec => []TypeOK
<1>1. RunnerInv => TypeOK BY DEF RunnerInv
<1> QED BY <1>1, InitEstablishesInv, NextKeepsInv, PTL DEF Spec

LEMMA InvariantHolds == Spec => []RunnerInv
  BY InitEstablishesInv, NextKeepsInv, PTL DEF Spec

-----------------------------------------------------------------------------
(* Run to completion *)

LEMMA NextKeepsChainEvent ==
  ASSUME RunnerInv, ChainSeesItsOwnEvent, [Next]_vars
  PROVE  ChainSeesItsOwnEvent'
<1> USE DEF RunnerInv, ChainSeesItsOwnEvent, runnerVars, OutputSlots
\* Only the runner writes the scope and starts a chain.
<1>1. CASE UNCHANGED <<chain, scope>> BY <1>1
<1>2. CASE Runner
  <2>1. CASE Consume
    <3>1. PICK wrote \in BOOLEAN, applied \in BOOLEAN :
            /\ applied => wrote
            /\ scope' = Assign(scope, IF wrote THEN OutputSlots(Head(events)) ELSE {},
                               Head(events).cause)
            /\ chain' = IF applied /\ Target[Head(events).src] # Idle
                        THEN <<Head(events)>> ELSE <<>>
      BY <2>1 DEF Consume
    <3>2. CASE chain' = <<>> BY <3>2
    <3>3. CASE wrote /\ chain' = <<Head(events)>>
      <4>1. Head(events) \in Event
        BY <2>1, BoundAssumption, ReceiveBounded DEF Consume, TypeOK
      <4>2. OutputSlots(Head(events)) \subseteq Slots
        BY <4>1, GraphFacts DEF Event
      <4> HIDE DEF OutputSlots
      <4>3. \A s \in OutputSlots(Head(events)) : scope'[s] = Head(events).cause
        BY <3>1, <3>3, <4>2 DEF Assign
      <4>4. Head(chain') = Head(events) BY <3>3
      <4> QED BY <4>3, <4>4
    <3> QED BY <3>1, <3>2, <3>3
  <2>2. CASE Start BY <2>2 DEF Start
  <2> QED BY <1>2, <1>1, <2>1, <2>2 DEF Runner, HonourCancel, BeginNode, Join
<1>3. CASE Execute
  <2>1. CASE ExecuteNode
    <3>1. PICK n \in Succ[state] : chain' = IF n = Idle THEN <<>> ELSE chain
      BY <2>1 DEF ExecuteNode
    <3>2. scope' = Assign(scope, Writes[state], Head(chain).cause)
      BY <2>1 DEF ExecuteNode
    <3>3. CASE chain' = <<>> BY <3>3
    <3>4. CASE chain' = chain /\ chain # <<>>
      <4>1. Head(chain) \in Event \cup {StartupEvent} BY <3>4 DEF TypeOK
      <4>2. OutputSlots(Head(chain)) \subseteq Slots
        BY <4>1, GraphFacts DEF Event
      <4>3. \A s \in OutputSlots(Head(chain)) : scope[s] = Head(chain).cause
        BY <3>4
      <4> HIDE DEF OutputSlots
      <4>4. \A s \in OutputSlots(Head(chain)) : scope'[s] = Head(chain).cause
        BY <3>2, <4>2, <4>3 DEF Assign
      <4> QED BY <3>4, <4>4
    <3> QED BY <3>1, <3>3, <3>4
  <2> QED BY <1>3, <2>1 DEF Execute, ExecuteDelay, ExecuteFails
<1>4. ASSUME NEW t \in Triggers, Trigger(t) PROVE UNCHANGED <<chain, scope>>
  BY <1>4 DEF Trigger, Take, TakeAndFire, TakeAndSkip, TakeAndDie, TakeArm, TimerFires,
              Send, GiveUp, Close
<1>5. ASSUME NEW t \in Sources, Occur(t) PROVE UNCHANGED <<chain, scope>>
  BY <1>5 DEF Occur
<1>6. CASE Signal \/ CloseResources \/ UNCHANGED vars
  BY <1>1, <1>6 DEF Signal, CloseResources, vars
<1> QED BY <1>1, <1>2, <1>3, <1>4, <1>5, <1>6 DEF Next, Exited

\* Run to completion, for every workflow: no event, however many are queued,
\* changes the trigger output that the nodes of another event read.
THEOREM ChainIsolation == Spec => []ChainSeesItsOwnEvent
<1>1. Init => ChainSeesItsOwnEvent
  BY TriggerAssumption DEF Init, ChainSeesItsOwnEvent, StartupEvent, OutputSlots
<1>2. RunnerInv /\ ChainSeesItsOwnEvent /\ [Next]_vars => ChainSeesItsOwnEvent'
  BY NextKeepsChainEvent
<1> QED BY <1>1, <1>2, InvariantHolds, PTL DEF Spec

-----------------------------------------------------------------------------
(* Order of the shutdown *)

\* Run returns only after it joined all goroutines, and main closes the
\* registries only after that.
JoinedBeforeClose ==
  /\ resources = "closed" => rpc = "returned"
  /\ rpc = "returned" => \A t \in Triggers : pc[t] = "closed"

LEMMA NextKeepsJoined ==
  ASSUME RunnerInv, JoinedBeforeClose, [Next]_vars
  PROVE  JoinedBeforeClose'
<1> USE DEF RunnerInv, JoinedBeforeClose, runnerVars, triggerVars
<1>1. CASE Runner
  BY <1>1 DEF Runner, Start, HonourCancel, Consume, BeginNode, Join
<1>2. CASE Execute
  BY <1>2 DEF Execute, ExecuteDelay, ExecuteNode, ExecuteFails
<1>3. ASSUME NEW t \in Triggers, Trigger(t)
      PROVE  JoinedBeforeClose'
  <2>1. pc[t] # "closed" /\ UNCHANGED <<rpc, resources>>
    BY <1>3 DEF Trigger, Take, TakeAndFire, TakeAndSkip, TakeAndDie, TakeArm, TimerFires,
                Send, GiveUp, Close
  <2> QED BY <2>1
<1>4. CASE \E t \in Sources : Occur(t) BY <1>4 DEF Occur
<1>5. CASE Signal BY <1>5 DEF Signal
<1>6. CASE CloseResources BY <1>6 DEF CloseResources
<1>7. CASE UNCHANGED vars BY <1>7 DEF vars
<1> QED BY <1>1, <1>2, <1>3, <1>4, <1>5, <1>6, <1>7 DEF Next, Exited

\* For every workflow, no goroutine can still use a driver that is closed.
THEOREM ShutdownOrder == Spec => []ResourcesOutliveUsers
<1>1. Init => JoinedBeforeClose BY DEF Init, JoinedBeforeClose
<1>2. RunnerInv /\ JoinedBeforeClose /\ [Next]_vars => JoinedBeforeClose'
  BY NextKeepsJoined
<1>3. JoinedBeforeClose => ResourcesOutliveUsers
  BY DEF JoinedBeforeClose, ResourcesOutliveUsers
<1> QED BY <1>1, <1>2, <1>3, InvariantHolds, PTL DEF Spec

-----------------------------------------------------------------------------
(* The runner implements the serial server *)

LEMMA InitRefines == Init => Service!Init
<1> SUFFICES ASSUME Init PROVE Service!Init OBVIOUS
<1>1. chain \in {<<>>} \cup {<<w>> : w \in Event \cup {StartupEvent}} BY DEF Init
<1> QED BY <1>1 DEF Init, Service!Init

LEMMA StepRefines ==
  ASSUME RunnerInv, [Next]_vars
  PROVE  [Service!Next]_Service!vars
<1> USE DEF RunnerInv, runnerVars, triggerVars, history
<1> DEFINE Stutters == UNCHANGED <<events, chain>>
                       /\ (rpc \in {"joining", "returned"})'
                            = (rpc \in {"joining", "returned"})
<1>0. ASSUME Stutters PROVE UNCHANGED Service!vars BY <1>0 DEF Service!vars
\* A chain that goes from an event to none is the server's Finish.
<1>1. ASSUME rpc \notin {"joining", "returned"}, rpc' \notin {"joining", "returned"},
             events' = events, chain' \in {chain, <<>>}
      PROVE  [Service!Next]_Service!vars
  <2>1. CASE chain' = chain BY <1>1, <2>1 DEF Service!vars
  <2>2. CASE chain # <<>> /\ chain' = <<>>
    <3>1. Service!Finish BY <1>1, <2>2 DEF Service!Finish
    <3> QED BY <3>1 DEF Service!Next
  <2> QED BY <1>1, <2>1, <2>2
<1>2. CASE Runner
  <2>1. CASE Start BY <1>1, <2>1 DEF Start
  <2>2. CASE HonourCancel
    <3>1. Service!Stop BY <2>2 DEF HonourCancel, Service!Stop
    <3> QED BY <3>1 DEF Service!Next
  <2>3. CASE Consume
    <3>1. chain = <<>> /\ events # <<>> /\ events' = Tail(events)
      BY <2>3 DEF Consume, IdleHasNoChain
    <3>2. chain' \in {<<>>, <<Head(events)>>} BY <2>3 DEF Consume
    <3>3. rpc = "top" /\ rpc' = "top" BY <2>3 DEF Consume
    <3>4. Service!Serve BY <3>1, <3>2, <3>3 DEF Service!Serve
    <3> QED BY <3>4 DEF Service!Next
  <2>4. CASE BeginNode BY <1>1, <2>4 DEF BeginNode
  <2>5. CASE Join BY <1>0, <2>5 DEF Join
  <2> QED BY <1>2, <2>1, <2>2, <2>3, <2>4, <2>5 DEF Runner
<1>3. CASE Execute
  BY <1>1, <1>3 DEF Execute, ExecuteDelay, ExecuteNode, ExecuteFails
<1>4. ASSUME NEW t \in Triggers, Trigger(t) PROVE [Service!Next]_Service!vars
  <2>1. CASE Send(t)
    <3>1. Head(hand[t]) \in Cause BY <2>1, InboxType DEF Send, SenderHoldsItem
    <3> DEFINE ev == [src |-> t, cause |-> Head(hand[t])]
    <3>2. ev \in Event \cup {StartupEvent} BY <3>1 DEF Event
    <3>3. Service!Accept(ev) BY <2>1 DEF Send, Service!Accept
    <3> QED BY <3>2, <3>3 DEF Service!Next
  <2> QED BY <1>4, <1>0, <2>1 DEF Trigger, Take, TakeAndFire, TakeAndSkip, TakeAndDie,
                              TakeArm, TimerFires, GiveUp, Close
<1>5. ASSUME NEW t \in Sources, Occur(t) PROVE [Service!Next]_Service!vars
  BY <1>0, <1>5 DEF Occur
<1>6. CASE Signal \/ CloseResources \/ UNCHANGED vars
  BY <1>0, <1>6 DEF Signal, CloseResources, vars
<1> QED BY <1>2, <1>3, <1>4, <1>5, <1>6 DEF Next, Exited

\* Every run of the interpreter, for every workflow, is a run of a server that
\* takes accepted events in order and serves one at a time to its end.
THEOREM RefinesService == Spec => ImplementsService
<1>1. RunnerInv /\ [Next]_vars => [Service!Next]_Service!vars BY StepRefines
<1> QED BY <1>1, InitRefines, InvariantHolds, PTL DEF Spec, ImplementsService, Service!Spec

=============================================================================
