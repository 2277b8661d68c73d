---------------------------- MODULE EngineRunner ----------------------------
(***************************************************************************)
(* The workflow interpreter of go/engine: the state-runner loop of         *)
(* Runner.Run, one goroutine per trigger, the bounded events channel       *)
(* between them, the bounded channels that feed the triggers, the scope    *)
(* the runner owns, and the shutdown that main.go drives.                  *)
(*                                                                         *)
(* A trigger is fed by one bounded channel, here its inbox:                *)
(*   - a Source by a driver thread or a Go ticker (Broadcaster.broadcast,  *)
(*     time.Ticker), which drops the newest item when the channel is full; *)
(*   - a Watcher (OnThreshold) by Scope.Set, which does the same;          *)
(*   - a Delay, which is an executable node as well, by its own Execute,   *)
(*     through the one-slot channel `armed`.                               *)
(*                                                                         *)
(* Values are abstracted to causes: every occurrence at a Source gets a    *)
(* fresh number, and the event it leads to and what the nodes of that      *)
(* event write to the scope carry that number. Cause 0 is the startup      *)
(* edge, the zero values that Build seeds, and the arm of a Delay, which   *)
(* carries no value (chan struct{}).                                       *)
(***************************************************************************)
EXTENDS Naturals, Sequences, WorkflowGraph

CONSTANTS
  Nodes,        \* ids of the executable nodes (Runner.Nodes)
  Sources,      \* triggers fed by a driver thread or by the clock
  Watchers,     \* threshold triggers, fed by Scope.Set
  Delays,       \* delay nodes: executables that are triggers too
  Slots,        \* scope variables
  Idle,         \* StateIdle
  NoSlot,       \* "no output binding"
  NoTrigger,    \* the startup edge, which no trigger emitted
  Entry,        \* EntryTransition.TargetID: a node or Idle
  Target,       \* TriggerNode.Target of every trigger
  Succ,         \* where each node's ports lead: to nodes, or nowhere (Idle)
  Writes,       \* the slots the outputs of each node are bound to
  Out,          \* the slot the output of each trigger is bound to
  Watch,        \* the slot each Watcher is subscribed to
  Seeded,       \* slots given a zero value by RegisterNodeOutputs
  EventBuf,     \* capacity of the events channel (defaultEventBufSize)
  InboxCap,     \* capacity of the channel that feeds each trigger
  MaxOccurrences \* bound of the model on occurrences at the Sources

Triggers == Sources \cup Watchers \cup Delays

ASSUME TriggerAssumption ==
  /\ Delays \subseteq Nodes
  /\ Sources \cap Watchers = {}
  /\ Sources \cap Delays = {}
  /\ Watchers \cap Delays = {}
  /\ Idle \notin Nodes
  /\ NoSlot \notin Slots
  /\ NoTrigger \notin Triggers

ASSUME BoundAssumption ==
  /\ EventBuf \in Nat \ {0}
  /\ InboxCap \in [Triggers -> Nat \ {0}]
  /\ \A d \in Delays : InboxCap[d] = 1
  /\ MaxOccurrences \in Nat

\* What build.wireEdges establishes (GraphBuild!BuiltGraphIsRunnable), and what
\* nodes and triggers are bound to.
ASSUME GraphAssumption ==
  /\ Runnable(Nodes, Triggers, Delays, Idle, Entry, Target, Succ)
  /\ Writes \in [Nodes -> SUBSET Slots]
  /\ Out \in [Triggers -> Slots \cup {NoSlot}]
  /\ \A d \in Delays : Out[d] = NoSlot
  /\ Watch \in [Watchers -> Slots]
  /\ Seeded \subseteq Slots

VARIABLES
  cancelled,   \* ctx is done
  resources,   \* "open" until main has called CloseAll
  rpc,         \* control point of Runner.Run
  state,       \* the local variable of that name: a node or Idle
  chain,       \* the event whose nodes are being executed, <<>> when idle
  events,      \* the channel from the triggers to the runner
  scope,       \* per slot, the cause of the last Set
  pc,          \* control point of each trigger goroutine
  inbox,       \* the channel that feeds each trigger
  hand,        \* the event a trigger goroutine is about to send, if any
  occurred,    \* number of occurrences at the Sources so far
  origin,      \* the Source of each of them
  fate         \* what became of each of them

runnerVars == <<rpc, state, chain, scope>>
triggerVars == <<pc, hand>>
history == <<occurred, origin, fate>>
vars == <<cancelled, resources, runnerVars, events, triggerVars, inbox, history>>

Cause == 0 .. MaxOccurrences
Occurrence == 1 .. MaxOccurrences
Event == [src : Triggers, cause : Cause]
StartupEvent == [src |-> NoTrigger, cause |-> 0]
Fate == {"pending", "served", "filtered", "overflow", "abandoned"}

TypeOK ==
  /\ cancelled \in BOOLEAN
  /\ resources \in {"open", "closed"}
  /\ rpc \in {"start", "top", "exec", "joining", "returned"}
  /\ state \in Nodes \cup {Idle}
  /\ chain \in Seq(Event \cup {StartupEvent}) /\ Len(chain) <= 1
  /\ events \in Seq(Event) /\ Len(events) <= EventBuf
  /\ scope \in [Slots -> Cause]
  /\ pc \in [Triggers -> {"waiting", "counting", "sending", "closing", "closed"}]
  /\ inbox \in [Triggers -> Seq(Cause)]
  /\ \A t \in Triggers : Len(inbox[t]) <= InboxCap[t]
  /\ hand \in [Triggers -> Seq(Cause)]
  /\ \A t \in Triggers : Len(hand[t]) <= 1
  /\ occurred \in Cause
  /\ origin \in [Occurrence -> Sources \cup {NoTrigger}]
  /\ fate \in [Occurrence -> Fate]

-----------------------------------------------------------------------------
(* Channels *)

\* Mutant of Offer: one item more than the channel holds.
OfferOneTooMany(q, item, cap) == IF Len(q) <= cap THEN Append(q, item) ELSE q

\* A send inside select with a default case: the newest item is dropped when
\* the channel is full, and the sender never blocks.
Offer(q, item, cap) == IF Len(q) < cap THEN Append(q, item) ELSE q

\* Scope.Set on every slot of S: the inboxes after all their subscribers were
\* offered the new value.
Notify(ib, S, cause) ==
  [t \in Triggers |->
     IF t \in Watchers /\ Watch[t] \in S
     THEN Offer(ib[t], cause, InboxCap[t])
     ELSE ib[t]]

Assign(scp, S, cause) == [s \in Slots |-> IF s \in S THEN cause ELSE scp[s]]

\* The slots that TriggerNode.Emit's closure writes for the event ev.
OutputSlots(ev) == IF ev.src \in Triggers THEN {Out[ev.src]} \ {NoSlot} ELSE {}

\* Record what became of an occurrence: only those of the Sources are counted.
Record(t, cause, f) ==
  fate' = IF t \in Sources THEN [fate EXCEPT ![cause] = f] ELSE fate

Init ==
  /\ cancelled = FALSE
  /\ resources = "open"
  /\ rpc = "start"
  /\ state = Entry
  /\ chain = IF Entry = Idle THEN <<>> ELSE <<StartupEvent>>
  /\ events = <<>>
  /\ scope = [s \in Slots |-> 0]
  /\ pc = [t \in Triggers |-> "waiting"]
  /\ inbox = [t \in Triggers |->
                IF t \in Watchers /\ Watch[t] \in Seeded THEN <<0>> ELSE <<>>]
  /\ hand = [t \in Triggers |-> <<>>]
  /\ occurred = 0
  /\ origin = [k \in Occurrence |-> NoTrigger]
  /\ fate = [k \in Occurrence |-> "pending"]

-----------------------------------------------------------------------------
(* Mutants: errors the code could have had. Each stands in for the action      *)
(* named in its comment in a run that must then fail; none is part of Next.    *)

\* Consume at the top of every iteration, also between two nodes of a chain.
ConsumePreempts ==
  /\ rpc = "top"
  /\ events # <<>>
  /\ LET ev == Head(events) IN
       /\ events' = Tail(events)
       /\ Record(ev.src, ev.cause, "served")
       /\ scope' = Assign(scope, OutputSlots(ev), ev.cause)
       /\ inbox' = Notify(inbox, OutputSlots(ev), ev.cause)
       /\ state' = Target[ev.src]
       /\ chain' = IF Target[ev.src] # Idle THEN <<ev>> ELSE <<>>
  /\ UNCHANGED <<cancelled, resources, rpc, triggerVars, occurred, origin>>

\* BeginNode without the cancellation check between two nodes.
BeginNodeUnchecked ==
  /\ rpc = "top"
  /\ state # Idle
  /\ rpc' = "exec"
  /\ UNCHANGED <<cancelled, resources, state, chain, scope, events, triggerVars,
                 inbox, history>>

\* ExecuteNode that forgets the node its edge leads to.
ExecuteNodeAgain ==
  /\ rpc = "exec"
  /\ state \in Nodes \ Delays
  /\ scope' = Assign(scope, Writes[state], Head(chain).cause)
  /\ inbox' = Notify(inbox, Writes[state], Head(chain).cause)
  /\ rpc' = "top"
  /\ UNCHANGED <<cancelled, resources, state, chain, events, triggerVars, history>>

\* ExecuteFails that ends Run with the node's error.
ExecuteFailsFatally ==
  /\ rpc = "exec"
  /\ state \in Nodes \ Delays
  /\ rpc' = "joining"
  /\ state' = Idle
  /\ chain' = <<>>
  /\ UNCHANGED <<cancelled, resources, scope, events, triggerVars, inbox, history>>

\* Join that does not wait for the trigger goroutines.
JoinAtOnce ==
  /\ rpc = "joining"
  /\ rpc' = "returned"
  /\ UNCHANGED <<cancelled, resources, state, chain, scope, events, triggerVars,
                 inbox, history>>

\* Send that drops the event when the channel is full.
SendOrDrop(t) ==
  /\ pc[t] = "sending"
  /\ events' = Offer(events, [src |-> t, cause |-> Head(hand[t])], EventBuf)
  /\ hand' = [hand EXCEPT ![t] = <<>>]
  /\ pc' = [pc EXCEPT ![t] = "waiting"]
  /\ UNCHANGED <<cancelled, resources, runnerVars, inbox, history>>

\* Send that sheds the event back to the trigger when the channel is full.
SendOrShed(t) ==
  /\ pc[t] = "sending"
  /\ IF Len(events) < EventBuf
     THEN /\ events' = Append(events, [src |-> t, cause |-> Head(hand[t])])
          /\ UNCHANGED inbox
     ELSE /\ Len(inbox[t]) < InboxCap[t]
          /\ inbox' = [inbox EXCEPT ![t] = Append(@, Head(hand[t]))]
          /\ UNCHANGED events
  /\ hand' = [hand EXCEPT ![t] = <<>>]
  /\ pc' = [pc EXCEPT ![t] = "waiting"]
  /\ UNCHANGED <<cancelled, resources, runnerVars, history>>

\* Send by a trigger that has written its output to the scope itself.
SendAfterOutput(t) ==
  /\ pc[t] = "sending"
  /\ Len(events) < EventBuf
  /\ LET ev == [src |-> t, cause |-> Head(hand[t])] IN
       /\ events' = Append(events, ev)
       /\ scope' = Assign(scope, OutputSlots(ev), ev.cause)
  /\ hand' = [hand EXCEPT ![t] = <<>>]
  /\ pc' = [pc EXCEPT ![t] = "waiting"]
  /\ UNCHANGED <<cancelled, resources, rpc, state, chain, inbox, history>>

-----------------------------------------------------------------------------
(* The runner goroutine *)

\* The entry transition is applied once; when it fails the runner starts idle.
Start ==
  /\ rpc = "start"
  /\ rpc' = "top"
  /\ \E ok \in BOOLEAN :
       /\ state' = IF ok THEN state ELSE Idle
       /\ chain' = IF ok THEN chain ELSE <<>>
  /\ UNCHANGED <<cancelled, resources, events, scope, triggerVars, inbox, history>>

\* The cancellation case of both selects: idle, and between two nodes.
HonourCancel ==
  /\ rpc = "top"
  /\ cancelled
  /\ rpc' = "joining"
  /\ UNCHANGED <<cancelled, resources, state, chain, scope, events, triggerVars,
                 inbox, history>>

\* The event case of the idle select. The event's closure runs here, on the
\* runner goroutine: first the trigger's outputs, then the side effect of its
\* edge. Either can fail, and the runner then stays idle.
Consume ==
  /\ rpc = "top"
  /\ state = Idle
  /\ events # <<>>
  /\ LET ev == Head(events) IN
       /\ events' = Tail(events)
       /\ Record(ev.src, ev.cause, "served")
       /\ \E wrote, applied \in BOOLEAN :
            /\ applied => wrote
            /\ LET S == IF wrote THEN OutputSlots(ev) ELSE {} IN
                 /\ scope' = Assign(scope, S, ev.cause)
                 /\ inbox' = Notify(inbox, S, ev.cause)
            /\ state' = IF applied THEN Target[ev.src] ELSE Idle
            /\ chain' = IF applied /\ Target[ev.src] # Idle THEN <<ev>> ELSE <<>>
  /\ UNCHANGED <<cancelled, resources, rpc, triggerVars, occurred, origin>>

\* Between two nodes, with no cancellation to honour.
BeginNode ==
  /\ rpc = "top"
  /\ state # Idle
  /\ ~cancelled
  /\ rpc' = "exec"
  /\ UNCHANGED <<cancelled, resources, state, chain, scope, events, triggerVars,
                 inbox, history>>

\* Delay.Execute: arm the timer unless an arm is pending already, and yield.
ExecuteDelay ==
  /\ rpc = "exec"
  /\ state \in Delays
  /\ inbox' = [inbox EXCEPT ![state] = Offer(@, 0, InboxCap[state])]
  /\ rpc' = "top"
  /\ state' = Idle
  /\ chain' = <<>>
  /\ UNCHANGED <<cancelled, resources, scope, events, triggerVars, history>>

\* Any other node runs to its end: its outputs are written and one of its
\* edges is taken.
ExecuteNode ==
  /\ rpc = "exec"
  /\ state \in Nodes \ Delays
  /\ scope' = Assign(scope, Writes[state], Head(chain).cause)
  /\ inbox' = Notify(inbox, Writes[state], Head(chain).cause)
  /\ rpc' = "top"
  /\ \E n \in Succ[state] :
       /\ state' = n
       /\ chain' = IF n = Idle THEN <<>> ELSE chain
  /\ UNCHANGED <<cancelled, resources, events, triggerVars, history>>

\* A node fails after writing some of its outputs: logged, and back to idle.
ExecuteFails ==
  /\ rpc = "exec"
  /\ state \in Nodes \ Delays
  /\ \E S \in SUBSET Writes[state] :
       /\ scope' = Assign(scope, S, Head(chain).cause)
       /\ inbox' = Notify(inbox, S, Head(chain).cause)
  /\ rpc' = "top"
  /\ state' = Idle
  /\ chain' = <<>>
  /\ UNCHANGED <<cancelled, resources, events, triggerVars, history>>

\* The deferred wg.Wait: Run returns once every trigger goroutine has ended.
Join ==
  /\ rpc = "joining"
  /\ \A t \in Triggers : pc[t] = "closed"
  /\ rpc' = "returned"
  /\ UNCHANGED <<cancelled, resources, state, chain, scope, events, triggerVars,
                 inbox, history>>

-----------------------------------------------------------------------------
(* The trigger goroutines *)

\* Wait receives from its channel an item that makes the trigger fire.
TakeAndFire(t) ==
  /\ pc[t] = "waiting"
  /\ t \notin Delays
  /\ inbox[t] # <<>>
  /\ hand' = [hand EXCEPT ![t] = <<Head(inbox[t])>>]
  /\ inbox' = [inbox EXCEPT ![t] = Tail(@)]
  /\ pc' = [pc EXCEPT ![t] = "sending"]
  /\ UNCHANGED <<cancelled, resources, runnerVars, events, history>>

\* Wait receives an item it does not fire on: an edge of the wrong polarity, a
\* message it cannot parse, a value on the same side of the threshold.
TakeAndSkip(t) ==
  /\ pc[t] = "waiting"
  /\ t \notin Delays
  /\ inbox[t] # <<>>
  /\ Record(t, Head(inbox[t]), "filtered")
  /\ inbox' = [inbox EXCEPT ![t] = Tail(@)]
  /\ UNCHANGED <<cancelled, resources, runnerVars, events, triggerVars, occurred, origin>>

\* OnThreshold.Wait returns an error on a value that is not numeric: this
\* trigger is dead, the workflow goes on.
TakeAndDie(t) ==
  /\ pc[t] = "waiting"
  /\ t \in Watchers
  /\ inbox[t] # <<>>
  /\ inbox' = [inbox EXCEPT ![t] = Tail(@)]
  /\ pc' = [pc EXCEPT ![t] = "closing"]
  /\ UNCHANGED <<cancelled, resources, runnerVars, events, hand, history>>

\* Delay.Wait receives an arm and starts its timer.
TakeArm(t) ==
  /\ pc[t] = "waiting"
  /\ t \in Delays
  /\ inbox[t] # <<>>
  /\ hand' = [hand EXCEPT ![t] = <<Head(inbox[t])>>]
  /\ inbox' = [inbox EXCEPT ![t] = Tail(@)]
  /\ pc' = [pc EXCEPT ![t] = "counting"]
  /\ UNCHANGED <<cancelled, resources, runnerVars, events, history>>

TimerFires(t) ==
  /\ pc[t] = "counting"
  /\ pc' = [pc EXCEPT ![t] = "sending"]
  /\ UNCHANGED <<cancelled, resources, runnerVars, events, hand, inbox, history>>

\* The send case of the inner select: it blocks while the channel is full.
Send(t) ==
  /\ pc[t] = "sending"
  /\ Len(events) < EventBuf
  /\ events' = Append(events, [src |-> t, cause |-> Head(hand[t])])
  /\ hand' = [hand EXCEPT ![t] = <<>>]
  /\ pc' = [pc EXCEPT ![t] = "waiting"]
  /\ UNCHANGED <<cancelled, resources, runnerVars, inbox, history>>

\* The cancellation case of every select of the goroutine. An event it had
\* ready to send is gone.
GiveUp(t) ==
  /\ cancelled
  /\ pc[t] \in {"waiting", "counting", "sending"}
  /\ pc' = [pc EXCEPT ![t] = "closing"]
  /\ hand' = [hand EXCEPT ![t] = <<>>]
  /\ IF hand[t] # <<>> THEN Record(t, Head(hand[t]), "abandoned") ELSE UNCHANGED fate
  /\ UNCHANGED <<cancelled, resources, runnerVars, events, inbox, occurred, origin>>

\* The deferred Close of the trigger, then wg.Done.
Close(t) ==
  /\ pc[t] = "closing"
  /\ pc' = [pc EXCEPT ![t] = "closed"]
  /\ UNCHANGED <<cancelled, resources, runnerVars, events, hand, inbox, history>>

-----------------------------------------------------------------------------
(* The environment and main *)

\* A driver thread or the clock offers an item to a Source. Drivers run until
\* main closes them.
Occur(t) ==
  /\ resources = "open"
  /\ occurred < MaxOccurrences
  /\ LET k == occurred + 1 IN
       /\ occurred' = k
       /\ origin' = [origin EXCEPT ![k] = t]
       /\ inbox' = [inbox EXCEPT ![t] = Offer(@, k, InboxCap[t])]
       /\ fate' = IF Len(inbox[t]) < InboxCap[t]
                  THEN fate ELSE [fate EXCEPT ![k] = "overflow"]
  /\ UNCHANGED <<cancelled, resources, runnerVars, events, triggerVars>>

\* SIGINT or SIGTERM cancels the one lifecycle context.
Signal ==
  /\ ~cancelled
  /\ cancelled' = TRUE
  /\ UNCHANGED <<resources, runnerVars, events, triggerVars, inbox, history>>

\* main, after Run has returned: cancel() and then CloseAll.
CloseResources ==
  /\ rpc = "returned"
  /\ resources = "open"
  /\ cancelled' = TRUE
  /\ resources' = "closed"
  /\ UNCHANGED <<runnerVars, events, triggerVars, inbox, history>>

\* The process has ended.
Exited ==
  /\ resources = "closed"
  /\ UNCHANGED vars

Runner == Start \/ HonourCancel \/ Consume \/ BeginNode \/ Join

Execute == ExecuteDelay \/ ExecuteNode \/ ExecuteFails

Take(t) == TakeAndFire(t) \/ TakeAndSkip(t) \/ TakeAndDie(t) \/ TakeArm(t)

Trigger(t) == Take(t) \/ TimerFires(t) \/ Send(t) \/ GiveUp(t) \/ Close(t)

Next ==
  \/ Runner
  \/ Execute
  \/ \E t \in Triggers : Trigger(t)
  \/ \E t \in Sources : Occur(t)
  \/ Signal
  \/ CloseResources
  \/ Exited

\* Scheduling the Go runtime gives: a goroutine that can take a step takes one,
\* and a select with several ready cases picks among them at random, so that the
\* cancellation case, ready again and again, is picked (GiveUp). A node returns
\* once its context is cancelled. Nothing is assumed of drivers or of signals.
SchedulerFairness ==
  /\ WF_vars(Runner)
  /\ WF_vars(cancelled /\ Execute)
  /\ WF_vars(CloseResources)
  /\ \A t \in Triggers : WF_vars(Trigger(t)) /\ SF_vars(GiveUp(t))

\* Goroutines blocked on a send are queued by the channel in order, so that none
\* is overtaken forever (Send). The workflow's nodes all return: it has no graph
\* cycle that never idles and no SerialRead that is never answered.
ServiceFairness ==
  /\ SchedulerFairness
  /\ WF_vars(Execute)
  /\ \A t \in Triggers : SF_vars(Send(t))

Spec == Init /\ [][Next]_vars

ShutdownSpec == Spec /\ SchedulerFairness

ServiceSpec == Spec /\ ServiceFairness

-----------------------------------------------------------------------------
(* What the runner promises *)

\* Run to completion: while the nodes that an event started are executed, the
\* output slot of its trigger holds the value of that event and of no later
\* one, however many events the triggers have queued meanwhile. Emit's closure
\* runs on the runner goroutine for this reason (node.go:183-189).
ChainSeesItsOwnEvent ==
  chain # <<>> =>
    \A s \in OutputSlots(Head(chain)) : scope[s] = Head(chain).cause

Queued(k) == \E i \in DOMAIN events : events[i] = [src |-> origin[k], cause |-> k]
InInbox(k) == \E i \in DOMAIN inbox[origin[k]] : inbox[origin[k]][i] = k
InHand(k) == hand[origin[k]] = <<k>>
Twice(k) ==
  \/ \E i, j \in DOMAIN events :
       i # j /\ events[i] = events[j] /\ events[i] = [src |-> origin[k], cause |-> k]
  \/ \E i, j \in DOMAIN inbox[origin[k]] :
       i # j /\ inbox[origin[k]][i] = k /\ inbox[origin[k]][j] = k

\* Nothing is lost or duplicated between a driver and the scope: an occurrence
\* whose fate is open sits in exactly one of its trigger's channel, the hand of
\* the trigger goroutine and the events channel, and one that was served,
\* filtered out or dropped is nowhere any more. The events channel itself loses
\* nothing when it is full (runner.go:18-20), and a goroutine throws an event
\* away only when ctx is done (runner.go:135-139).
Accounted ==
  \A k \in 1 .. occurred :
    /\ fate[k] = "pending" =>
         /\ ~Twice(k)
         /\ \/ InInbox(k) /\ ~InHand(k) /\ ~Queued(k)
            \/ ~InInbox(k) /\ InHand(k) /\ ~Queued(k)
            \/ ~InInbox(k) /\ ~InHand(k) /\ Queued(k)
    /\ fate[k] # "pending" => ~InInbox(k) /\ ~InHand(k) /\ ~Queued(k)
    /\ fate[k] = "abandoned" => cancelled

\* What one trigger saw first is served first, across its channel, its
\* goroutine and the events channel shared with the other triggers.
ServedInOrder ==
  \A j, k \in 1 .. occurred :
    j < k /\ origin[j] = origin[k] /\ fate[k] = "served" => fate[j] # "pending"

\* The registries main owns are closed only after the last goroutine that may
\* use a driver has ended (runner.go:34-39, main.go:139-144).
ResourcesOutliveUsers ==
  resources = "closed" =>
    /\ rpc = "returned"
    /\ \A t \in Triggers : pc[t] = "closed"

\* Shutdown: once ctx is cancelled the process comes to its end, also out of a
\* graph cycle, with the events channel full, and with a trigger already dead
\* (runner.go:78-86 and 109-111).
ShutdownCompletes == cancelled ~> (resources = "closed")

\* A trigger goroutine blocked on the full events channel gets its event in, or
\* shutdown takes it: no circular wait between Scope.Set, which pushes to the
\* watchers from the runner, and the watchers, which push to the runner.
BlockedTriggerGetsThrough ==
  \A t \in Triggers : (pc[t] = "sending") ~> (pc[t] # "sending")

\* An armed Delay resumes its flow: the arm is remembered until its event is in
\* the events channel (delay.go:15-25).
ArmedDelayResumes ==
  \A d \in Delays :
    (inbox[d] # <<>>) ~>
      (cancelled \/ \E i \in DOMAIN events : events[i].src = d)

\* The runner is a serial server of a bounded FIFO queue.
Service ==
  INSTANCE EventService WITH
    Request <- Event \cup {StartupEvent},
    Capacity <- EventBuf,
    queue <- events,
    current <- chain,
    stopped <- rpc \in {"joining", "returned"}

ImplementsService == Service!Spec
ImplementsFairService == Service!FairSpec

=============================================================================
