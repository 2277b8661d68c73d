# Verification of edge-agents

TLA+ models of the ForestHub edge agent: the workflow engine (`src/go/engine`),
the agent loop it drives, and the editor's side of its expressions. The models are checked with TLC on small
instances; what matters most is proved with TLAPS for every value of the
constants.

Paths in this document are relative to `src/`.

## 1. The system

An agent is a workflow graph. The **builder** (`ts/workflow-builder`, packaged by
`ts/workflow-cli`) edits it, the deployment tools turn it into containers, and
the **engine** (`go/cmd/engine`) runs it on a device: it opens the hardware,
builds the nodes, and interprets the graph until it receives a signal. Sidecar
components (camera, ONNX, llama, MQTT broker) answer over HTTP or MQTT.

### Components, their state and their operations

| Component | Code | State | Operations |
|---|---|---|---|
| Interpreter | `go/engine/runner.go`, `scope.go`, `node.go` | current node, events channel (64), scope variables and their subscribers | `Run`, `spawnTriggers`, `Set`, `Subscribe`, `Emit` |
| Triggers | `go/engine/node/trigger/` | one goroutine each, the channel that feeds it, hysteresis side, timer | `Wait`, `Close`, `Delay.Execute` |
| Executable nodes | `go/engine/node/` | none (they use drivers and the scope) | `Execute` |
| Channels | `go/engine/channel/` | subscriber channels of a broadcaster, UART callback | `Subscribe`, `broadcast`, `Watch` |
| Serial driver | `go/engine/resource/serial_impl.go` | line buffer, waiter slot, callback, drain flag, closed flag | `Read`, `Write`, `Flush`, `WatchRead`, `Close`, reader goroutine |
| MQTT connection | `go/engine/resource/mqtt.go` | claims on filters, the client's session | `OpenMQTT`, `Publish`, `Subscribe`, `Close` |
| GPIO, ADC, DAC, PWM | `go/engine/resource/*_linux.go` | open lines and channels | `Configure*`, `Read*`, `Write*`, `Close` |
| Registry | `go/engine/resource/registry.go` | all open drivers | `NewRegistry`, `CloseAll` |
| Memory files | `go/engine/memory/manager.go` | working copy, one record per file on the device | `Reconcile`, `Read`, `Append`, `Edit` |
| Agent loop | `go/llmproxy/agent/runner.go`, `go/engine/node/agent.go` | turn, current agent and model, conversation | `Run`, tool calls, hand-overs |
| Function calls | `go/engine/function.go` | a scope per call | `Call` |
| Build | `go/engine/build/` | claims of channels, node and trigger tables | `Build`, `wireEdges`, `setupNodes` |
| Boot | `go/cmd/engine/main.go`, `go/component/boot.go` | life-cycle context, exit codes | signals, `BootFail`, `BootRetry` |
| Expressions | `go/engine/expr/`, `ts/workflow-core/src/expression/` | none | `Eval`, `parseAndEval`, `parseExpression` |
| LLM proxy | `go/llmproxy/` | none between calls | `Chat` per provider |
| Camera component | `go/camera/`, `go/cmd/camera` | none between requests | capture |
| Builder | `ts/workflow-builder/src` | canvas stores with undo history, editor store, open tabs | graph edits, undo, redo, function edits |
| Editor application | `ts/workflow-cli/src/App.tsx`, `server/fileBridge.ts` | bound file, dirty mark | New, Open, Save |
| Workflow core | `ts/workflow-core/src` | none | serialization, diagnostics, migration |
| ONNX component | `py/onnx` | loaded models | inference |

### How they interact

- Driver threads push into the bounded channel of a trigger and drop the newest
  item when it is full; the trigger's goroutine waits on that channel, turns an
  item into an event and blocks on the events channel; the interpreter takes one
  event at a time, runs the event's closure (outputs of the trigger, side
  effects of its edge) and then node after node until an edge leads nowhere.
- `Scope.Set` runs on the interpreter and pushes to the threshold triggers that
  watch the variable: a loop through two bounded channels.
- `Delay` is a node and a trigger: its `Execute` arms its own `Wait`.
- A `SerialRead` node flushes the port, writes a prompt, and takes the next
  line; other lines go to the callback of the UART channel, a trigger's source.
- An agent's tools read and change the memory files, which outlive the process.
- An Agent node runs the agent loop on the interpreter's goroutine. The model's
  tools are device actions, functions of the workflow (a walk over another graph
  in a scope of its own) and other agents (a loop of its own).
- The boot opens the drivers, builds the graph, sets the channels up, and turns
  every failure into an exit code from which the orchestrator decides whether to
  start the engine again. PWM outputs stay as they are when the process dies.
- One context is cancelled by SIGINT or SIGTERM. `Run` then joins all trigger
  goroutines, and only after that `main` closes the drivers.

### What is hard, and what makes each part correct

| Part | What is hard | What has to hold |
|---|---|---|
| Interpreter | goroutines against one loop, full channels, cycles, failing nodes | one event's nodes see that event's values; nothing accepted is lost, doubled or reordered; no circular wait; shutdown ends from every state, drivers last |
| Triggers | updates dropped at full channels, dead triggers, arms during a countdown | an armed Delay resumes; a dead trigger hurts nobody else; hysteresis fires once per crossing |
| Serial driver | a lock held across a send, callers that leave, flush against a blocked read | the reader never blocks with the lock held; the Read in flight gets the next line; bytes are neither lost nor doubled; Close ends everybody; a flush discards what it says |
| Memory files | a crash or a full disk in the middle of a write, redeployments | the agent's content survives; records are never stale; caps hold |
| MQTT | timeouts that are not failures, reconnects | a claim corresponds to one live subscription; triggers go on hearing after a reconnect (they do not, see section 3) |
| Agent loop | failing tools, hand-overs, no limit on turns | every tool call is answered or the run ends; effects correspond to the conversation |
| Boot and build | the n-th step fails | everything opened is closed once; the exit code says whether a retry helps |
| Expressions | one language, parsed by jsep in the editor and by hand in the engine | what the editor accepts the engine evaluates, to the value that the types promise |
| Builder and editor | awaited saves, undo on one canvas against edits elsewhere | the dirty mark tells the truth; undo leads to a well-formed workflow |

`PROJECT.json` lists these hazards with the line at which each bites.

## 2. Modules

| Module | Models | Role |
|---|---|---|
| `EventService` | – | what the interpreter promises to its triggers: a serial server of a bounded FIFO queue |
| `EventWalk` | – | what the interpreter relies on in the nodes it executes: one step each |
| `AgentMemory` | – | what the memory promises to an agent: one history per file |
| `WorkflowGraph` | – | what a graph must be for the interpreter to run it; assumed by `EngineRunner`, established by `GraphBuild` |
| `EngineRunner` | `runner.go`, `scope.go`, `node.go`, `node/trigger/`, `channel/channel.go`, shutdown in `main.go` | the interpreter and everything that feeds it; implements `EventService` |
| `TriggerItems` | `trigger/pinedge.go`, `threshold.go`, `alarm.go` | which items make a trigger fire: functions, compared with references |
| `Threshold` | `trigger/threshold.go`, the full channel of `scope.go` | `OnThreshold.analyze` as a machine over all numbers, with its proof |
| `AgentLoop` | `llmproxy/agent/runner.go`, `node/agent.go`, `function.go`, `node/functioncall.go`, `types.go` | agents, tools, hand-overs and function calls on one call stack; implements `EventWalk` |
| `GraphBuild` | `build/graph.go`, the function part of `build/build.go` | from a document to the interpreter's tables |
| `EngineBoot` | `cmd/engine/main.go`, `component/boot.go`, `resource/registry.go`, `build/channel.go`, `pwm_linux.go`, `gpio_linux.go`, `mqtt.go` | the life of the process on its device |
| `SerialPort` | `serial_impl.go`, `node/serialread.go`, `channel/uart.go` | the serial driver and its callers |
| `SerialFlush` | `serial_impl.go`, `Flush` | `SerialPort` with one more history variable |
| `MemoryStore` | `memory/manager.go` | memory files, crashes, redeployments; implements `AgentMemory` |
| `Expressions` | `engine/expr/`, `workflow-core/src/expression/parser.ts` | two readings of an expression and what it means |
| `MC…` | – | small instances for TLC: `MCEngineRunner`, `MCAgentLoop`, `MCGraphBuild`, `MCEngineBoot`, `MCSerialPort`, `MCSerialFlush`, `MCMemoryStore`, `MCExpressions` |
| `…Proofs` | – | proofs: `EngineRunnerProofs`, `EngineRunnerFlowProofs`, `AgentLoopProofs`, `GraphBuildProofs`, `EngineBootProofs`, `SerialPortProofs`, `MemoryStoreProofs` |

An operator whose comment starts with "Mutant of" is a plausible bug, kept beside
the definition it would break; nothing uses it.

### EngineRunner

`rpc` is the control point of `Runner.Run`: `start` (apply the entry
transition), `top` (the head of the loop: both selects), `exec` (inside
`node.Execute`), `joining` (the deferred `wg.Wait`) and `returned`. `state` is the
local variable of that name. `chain` holds the event whose nodes are being
executed; it is the abstract server's current request. `pc[t]` is the control
point of the goroutine of trigger `t`; `hand[t]` is the event between `Wait` and
the inner select of `spawnTriggers`. `inbox[t]` is the channel that feeds the
trigger, whoever owns it: a driver subscription, a ticker, a scope subscription,
or the one-slot `armed` channel of a `Delay`.

Values are abstracted to *causes*. Each occurrence at a driver has a number; the
event it leads to carries it, and so does whatever the nodes of that event write.
This is what isolation, order and accounting need to tell apart; arithmetic on
values is not modelled. Which item makes a trigger fire (polarity of an edge,
hysteresis, a payload that cannot be parsed) is a free choice between
`TakeAndFire` and `TakeAndSkip`, and which edge a node takes is a free choice in
`Succ`.

The path on which `Run` returns because a node is not registered
(`runner.go:89-92`) is not an action: `build.wireEdges` excludes it.
`GraphAssumption` states that with `Runnable` of `WorkflowGraph`, which is the
property `BuiltGraphIsRunnable` of `GraphBuild`, and `TypeOK` (state is a registered node or idle) shows
that the loop keeps it excluded.

### TriggerItems

`EngineRunner` leaves open whether an item makes its trigger fire; the functions
here say which do. `Crossings` folds `OnThreshold.analyze` over the updates that
the trigger's channel accepted, with the threshold at 0. It is compared with a
Schmitt trigger said in one line: the last value outside the band, or else the
first value, decides the side. Values on the borders, a dead band of zero and
updates dropped at a full channel are among the inputs. `Threshold` has the same
code as a machine, `trigger` being its fields `seeded` and `wasAbove` with counts of
its crossings, for which the comparison is proved (section 4). `NextRing` is
`Alarm.nextDelay` over a day of six hours and a week of two days, in zones up to
four hours from UTC whose clocks may change by an hour; `Date` does what Go's
`time.Date` does with a local time that does not exist. All of it is stated as
assumptions, which TLC evaluates when it starts any run of `MCEngineRunner`.
What they show beside the agreement:

- a negative dead band, which nothing refuses, makes the trigger fire at every
  update of a constant signal (`NegativeDeadbandChatters`); the schema calls the
  dead band a width (`contract/workflow.yaml`), the code takes it on both sides
  of the threshold (`threshold.go:34`), twice as wide;
- an alarm set for an hour that the clocks skip is shifted by `time.Date`, and
  `AddDate` goes on from the shifted time: the next ring is an hour off too, and
  west of Greenwich the alarm rings twice on that day
  (`SkippedHourUpsetsAlarm`; `alarm.go:18` says "a specific local time of day").

### AgentLoop

Everything an event causes runs on the interpreter's goroutine, so the state is
one call stack of frames. A "walk" executes the nodes of one graph with one
scope: the main graph at the bottom, function bodies above it. A "run" is one
`Runner.Run` of the agent loop, with its turn, its current agent, its
conversation, the calls of the current turn that are still to be made and the
results so far (`done`). A tool that is a function pushes a walk, a tool that is
an agent pushes a run. An error anywhere is returned up the whole stack, which is
one step (`Abort`), because nothing on the way changes state.

The model is a free choice: any list of tool calls of `Responses`, names that do
not exist included, a final answer that declares any number of the outputs it
should, any branch, or a failing request. A task edge without a prompt, which the
schema calls required (`contract/workflow.yaml:98`) and nothing refuses before the
edge is taken, ends the flow with an error (`Applicable`). Prompts are abstracted to the event and
the scope they were evaluated in, tool calls and results to the tool. `asked`,
`ran`, `lost`, `written`, `from` and `cleared` are history: requests made, tools
run to their end, results thrown away at a hand-over, outputs written by the
event, the node that led here, whether an edge started the conversation anew.

`EngineRunner` takes a node for one step, which writes its slots and follows one
of its edges (`ExecuteNode`), or fails with some of them written
(`ExecuteFails`). `EventWalk` has these steps alone, and `ImplementsWalk` says
that the walk of the main graph, seen without the runs and functions above it,
makes no others: what `EngineRunner` supposes of its nodes holds of agents and
function calls too.

### GraphBuild

One canvas (the main graph or a function body) goes through the passes of
`graph.go` and `Build`: `nodes` (instantiate), `tools` (take what a tool edge
points at out of the executables), `wire` (one edge at a time), `check` (function
bodies), `setup`. Nodes are told apart by what the passes ask of them: what they
embed and which interfaces they implement. A transition is the index of its edge.
What the code accepts, and one might not expect: several startup edges, of which
the last counts (a second edge on any other port is refused); an edge on a port
that its node never follows; agents that are one another's tools.

### EngineBoot

`pins`, `broker` and `subs` outlive the process; `dep` and `code` belong to the
orchestrator; the rest is the process, with `phase` for the place in `main`.
Drivers are opened one at a time in any order within a family, channels are set
up in the order of `SetupAll`, and each write of `linuxPWM.Configure` and `Close`
to sysfs is a step (`doing`), between which the process can be killed
(`Crash`). What a kill leaves on the outputs is what the next boot finds, with
the same or another deployment. A power loss, which resets the outputs, is not
modelled. `had`, `closes`, `mine`, `stuck` and `wrote` are
history of the running process, `trouble` of all: it tells a late broker, which a
restart cures, from everything else that can go wrong.

### Expressions

A tree is what the user means. `Text` is what the engine reads: tokens, with the
parentheses a tree needs under jsep's precedences and with the values of
placeholders already written into it, as `evalCodeExpr` does. `Parse` and `More`
are the nested loops of `parser.go`, which evaluate while they read. `InferType`
and `Accepted` are the editor's typing. `Meaning` is the reference, computed on
the tree: the value that the inferred types promise. Strings are ranks in their
order, floats are fractions, integers have no width. A literal is the value that
its spelling has in JavaScript, together with the tokens that the engine makes of
that spelling (`Spelled`): the two sides need not agree on a literal either.

`EngineEvaluatesWhatEditorAccepts` leaves out what `Unsupported` and
`DividesOtherwise` describe. Each is a disagreement of editor and engine, and the
assumption `EditorAndEngineDisagree` holds witnesses for each:

- a float without a fraction is written into the text as an int
  (`expression.go:159`), so that `${} / ${}` of 3.0 and 2.0 is 1, also with an
  explicit `float(${})`;
- the other way round, `Number.isInteger` makes an int of the literal `2.0`
  (`parser.ts:170`), which is a float for the engine (`parser.go:353-376`): `7 / 2.0`
  is typed int, with 3 for its value, and evaluates to 3.5;
- of the literals, `1e1` is read as 1 and the rest is ignored, and `.5`, `null` and
  single-quoted strings are errors;
- the ternary, `&` (and the other bitwise operators) are typed by the editor and
  unknown to the engine, which stops reading there and returns its left operand
  without an error (`parser.go:19` does not look at the rest of the text);
- `+` on strings outside a string expression adds numbers;
- a cast of anything but a placeholder, and comparisons of images, are errors at
  run time;
- a unary plus on a negative value is an error.

`DividesOtherwise` compares the type the editor infers for a division with the one
the engine computes with (`ComputedType`). Only divisions are left out: everywhere
else a whole number that one side takes for an int and the other for a float does
no harm, and the property says so.

`&&` and `||` evaluate both operands, so that a guard such as
`${} != 0 && 1 / ${} > 2` fails instead of being false; `Apply` models it, and
`Meaning` does the same.

### SerialPort

Each action is one critical section of `d.mu` or one system call outside it. A
byte is its position in the stream together with the mark of a newline, so that
loss, doubling and order are visible and content is not (`EveryByteOnce` compares
positions within and between the buffers and lines). The operating system
may return any non-empty part of what it holds, nothing at all, or fail.
`handed` and `discarded` are history variables: they record where bytes went and
appear in no guard. `SerialFlush` adds a third, `partial`, that only its property
needs.

### MemoryStore

`files` is `Manager.files`, `disk` the directory of records, `local` what
`readLocal` returned, `before` the local variable of `write` that a rollback
uses. Content is a sequence of chunks and its length is its size. `os.WriteFile`
is two steps, truncation (`StartPersist`) and completion (`Persisted`), between
which the process can crash or the device fill up. Everything runs with `m.mu`
held, so that one write is in progress at a time. `committed` is a history
variable. A write that fails is taken to leave a record that cannot be parsed; a
failure reported only by the final `close` of a complete file is not modelled.
`Crash` is the end of the process, by a kill or by its own exit. `manager.go:262`
makes no fsync, so that a power loss may leave an older or an empty record after a
write that returned; what the properties say of crashes does not cover that.
`AgentMemory` is the same memory without files, crashes, failures and
deployments: a file is created from its declaration once, and every change is
one edit of what the change before left. `ImplementsMemory` maps its content to
`committed`.

## 3. Runs

| Run | Question | Bounds |
|---|---|---|
| `runner_safety` | isolation, accounting, order, shutdown order, refinement of `EventService!Spec` | one pin-edge source (channel of 2), one threshold watcher, one Delay, events channel of 1, 3 occurrences |
| `runner_service` | blocked triggers get through, armed Delays resume, refinement of `EventService!FairSpec` | the same workflow, 1 occurrence |
| `runner_shutdown` | cancellation ends the process | the workflow with a cycle, 1 occurrence |
| `agent_loop` | conversations, turn limits, outputs, cancellation, termination of limited runs | 4 agents, a function with a cycle, limits of 3 turns, 3 events, 2 turns for a run without a limit |
| `graph_build` | what is accepted can be run, acceptance is the document's, no edge is lost | 4 canvases of 3 to 5 nodes, as main graph and as function body, all lists of up to 3 of 20 edges |
| `graph_calls` | a function call is resolved by its `functionId`: **violated** | two canvases with one call |
| `engine_boot` | stale outputs, deployed state, closing, a late broker | 7 deployments on a GPIO chip, a PWM chip of 2 outputs and a broker; periods 1 and 2, duties −100, 100 and 200 % |
| `serial_safety` | the driver's safety, and that Close ends all | 2 callers, 1 channel, 3 bytes, lines of at most 1 byte before overflow |
| `serial_flush` | Flush discards a partial line: **violated** | as `serial_safety` |
| `memory_safety` | content, records, caps | 2 files, 2 chunks, size 2, three deployments (both files, a smaller cap, one file dropped) |
| `memory_durability` | a committed record survives: **violated** | as `memory_safety` |
| `expressions` | the engine evaluates what the editor accepts | all well-typed trees of up to 2 operators over 13 operands, and of 3 operators (two pairs) over 4 |

Why these bounds are enough for the cases to occur. Three occurrences and an events
channel of one let the channel be full with a goroutine blocked behind it, its
own channel filled behind that (2), and the next item overflow; the startup edge
and the watcher add events of their own, so the channel is full with one
occurrence as well in the liveness runs.

The workflow of `agent_loop` has an agent that calls a device tool, an agent and a
function, in one turn or in several; two agents that hand over to one another for
ever but for a limit; an agent inside the function; a delegate edge, a choice
and a control edge; three events, so that a conversation may be older than the
event before. `MaxAsks` bounds only runs that the code does not bound.

Every rule of `graph_build` can be kept and broken with three edges, a tool edge
before and after the control edges of its target included. `engine_boot` has two
frequencies for one output, so that a stale duty may exceed the new period, an
output that one deployment uses and the other does not, two claims on each kind
of place, and a channel without its resource; it has no bound on restarts.

Two callers are enough for one that leaves late and one that registers
meanwhile. Three bytes make two lines in one chunk, a line cut by a chunk, a
partial line before a flush and a line after it, and, with one byte kept without a
newline, an overflow. Two chunks and size two make an edit in the middle, a cap
that is exceeded, and a cap below what an earlier deployment left. Two operators
over mixed operands show every pair of precedences on either side and every pair
of types; the trees of three have parentheses on both sides at once.

The numbers of occurrences, bytes, events, chunks and turns of an unlimited run
are bounded only for TLC (`MaxOccurrences`, `MaxBytes`, `MaxEvents`, `MaxSize`,
`MaxAsks`); the proofs hold for any bound.

### Fairness

- `SchedulerFairness` (`EngineRunner`): Go runs every goroutine that can run (weak
  fairness of the interpreter, of each trigger goroutine and of `main`). `select`
  picks at random among the cases that are ready, so a trigger goroutine cannot
  prefer its inbox to a done context for ever (strong fairness of `GiveUp`). Nodes
  end once their context is cancelled: weak fairness of `cancelled /\ Execute`.
  Nothing is assumed of drivers, of signals, or of a node whose context is alive.
  This is all that `runner_shutdown` uses.
- `ServiceFairness` adds that nodes return (no endless cycle, no `SerialRead`
  that is never answered) and that goroutines blocked on a channel are queued in
  order, as the Go runtime does (strong fairness of `Send`).
- In `SerialPort`, the reader, `CloseHandle` and a call in progress go on; the
  device may stay silent, nobody has to call or to close.
- In `AgentLoop`, a step that can be made is made: requests carry the context and
  the HTTP client's limit of 120 s (`util/httpclient/client.go:48`), nodes honour
  their context. Nothing forces an event, a cancellation or an answer of a kind.
- In `EngineBoot`, a boot goes on, since every call in it has a time limit
  (`mqtt.go:20`, `pwm_linux.go:27`), and the orchestrator restarts what exits with
  1 (`docs/component-contract.md:193`). Nothing is assumed of the broker:
  `LateBrokerIsWaitedFor` supposes one that comes to stay, and no other trouble.
- `GraphBuild`, `MemoryStore` and `Expressions` have no liveness property.

### What the violated runs show

**A flush does not discard a partial line** (`serial_impl.go:166-167` against
`190-194`). The reader has a partial line in its buffer and blocks in
`handle.Read`. A caller flushes: the flag is set, the kernel buffer is emptied,
`Flush` returns. The caller registers its Read. The next byte completes the old
line, the reader dispatches it, and the caller receives an answer that starts
with what it had flushed. The flag is looked at only afterwards.

**A committed record can be lost** (`manager.go:178-180`,
`go/docs/engine-ports.md:127`, against `manager.go:262`). `os.WriteFile` truncates
the record before it writes. When the write fails, memory is rolled back and the
record is not; after a crash, or at the next start, `readLocal` cannot parse it
and the engine does not boot, also when the file is no longer declared.

**A function call is looked up by the node's id** (`graph.go:220` against
`api.gen.go:980`). A workflow whose FunctionCall node names a function by
`functionId` is refused with "function not found", unless the node has the
function's id.

### Disagreements without a run

- The editor promotes an arithmetic operation to float "if either is float"
  (`parser.ts:200`). The engine writes 2.0 into the text as `2` (`expression.go:159`)
  and divides as integers, so that whether a division of floats truncates depends on
  the values that the variables happen to have. The witness, and one for every
  other disagreement of the two, is in the assumption `EditorAndEngineDisagree` of
  `Expressions`, which TLC evaluates with `expressions`.
- A broker that goes away between the connection and a subscription ends the boot
  with 78, which stops restarts, because "a restart fails identically"
  (`docs/component-contract.md:192`, `boot.go:14`): it would not. Refused
  credentials, on the other hand, are retried for ever as if the broker were late.
- "The caller should tear down the driver Registry on error" (`graph.go:484`), but
  `main` leaves through `BootFail` and closes nothing. Outputs that were already
  configured stay exported and enabled, at duty zero.
- An engine that is killed leaves its PWM outputs running; the next boot zeroes
  only those that its deployment claims.
- After an MQTT reconnect the broker has a clean session and nothing subscribes
  again (`LinkLost`, `Reconnect`): the triggers stay silent.

## 4. Proofs

Checked by TLAPS for every value of the constants that satisfies the named
assumptions.

**EngineRunnerProofs** (from `TriggerAssumption`, `BoundAssumption`,
`GraphAssumption`):

- `TypeCorrect`: `TypeOK`. The inductive invariant `RunnerInv` ties control
  points to data: the interpreter is idle exactly when it has no chain
  (`IdleHasNoChain`), and a goroutine that counts or sends has an event in hand
  (`SenderHoldsItem`).
- `ChainIsolation`: `ChainSeesItsOwnEvent`, on top of `RunnerInv`. While a chain
  runs, whatever is written to the scope carries the chain's cause, and the
  closure of another event is run only by `Consume`, which needs an idle
  interpreter, hence no chain.
- `ShutdownOrder`: `ResourcesOutliveUsers`. The strengthening says that an
  interpreter that has returned left only closed goroutines behind; a closed
  goroutine never runs again.
- `RefinesService`: every step of the interpreter is a step of `EventService` or
  stutters, with the events channel as queue and the chain as current request.

**EngineRunnerFlowProofs** (same assumptions, on top of `RunnerInv`; any number of
sources, any capacities): `NothingLostOrDoubled` (`Accounted`),
`SourcesAreServedInOrder` (`ServedInOrder`) and `FatesAreFinal`, an action
property: a fate once decided stays. What has to be followed is each occurrence
on its way: per source, the events channel, then the goroutine's hand, then the
source's channel form one line. `FlowInv` says that each line rises strictly
(`InboxInOrder`, `HandInOrder`, `EventsInOrder`), that everything in it is open,
and that everything open is in one (`OpenIsSomewhere`). A strictly rising line
holds nothing twice, which is `Accounted`. Its head is the oldest open occurrence
of its source, and everything served earlier was the head once, which is
`ServedInOrder`. That only a counting or sending goroutine holds an
event (`OnlySendersHold`) lets a goroutine take the next item without losing one.

Two action properties carry what `ArmedDelayResumes` and `ShutdownCompletes` say
apart from fairness. `EveryArmResumes` (`EveryArmResumesOnce`) counts the arms of a
Delay in its channel and in its goroutine's hand: only executing the Delay adds
one, only resuming its flow or cancellation takes one away, and nothing resumes
without one. It needs `FlowInv` and that what a Delay holds carries no value
(`ArmsCarryNothing`). `ShutdownOnlyAdvances` (`ShutdownHasNoWayBack`): once ctx is
done the interpreter begins no node; goroutines that end stay ended; an
interpreter that waits for them touches no scope; and after `CloseAll` nothing
moves, because by then everyone has joined (`JoinedBeforeClose`) after a
cancellation (`ClosedIsCancelled`).

**AgentLoopProofs** (from `GraphAssumption`, `AgentAssumption`, `BoundAssumption`;
any graph, tools and limits, any depth of nesting): `AgentTypeCorrect`,
`TurnsBounded`, `ToldTruthfully`, `OutputsComplete`, `ConversationsOwn`. The
properties speak of frames in the middle of the stack, while an action changes
only its top. The inductive invariant `AgentInv` therefore says of each frame that
it is well formed (`GoodWalk`, `GoodRun`) and of each frame and the one above it
that the first called the second (`Called`): a run waits for the call at the head
of its list, a conversation was started by the prompt of that call or of the walk
below. Every action keeps a prefix of the stack and puts one frame on it, which
the lemma `PutOn` settles once. `GoodRun` counts: what is told and what was lost
at a hand-over make up what ran.

Two further theorems rest on it. `RefinesWalk`: `AgentLoop` implements `EventWalk`.
A step above the main walk leaves that walk alone; the walk stands at a node
while anything runs above it (`MainIsBusy`), so an error from any depth is a failed node;
and the answer that ends an agent's run at the bottom writes all of its outputs
and takes an edge, or some and none. `RunsOnlyGoForward` is an action property
(`RunsGoForward`): whatever a run calls, its pair of turn and calls left moves
forward, its runner stays, and its conversation is only appended to. It is
the part of `LimitedRunEnds` that does not speak of fairness: together with
`TurnsAreBounded` it leaves a run with a limit finitely many steps of its own.
`CancelledWindsDown` (`CancelWindsDown`) is the same for `CancelEndsEvent`: once ctx
is done no model answers, no node starts an agent or a function, only a call that
a model has already asked for puts a frame on the stack, and a run that moves has
fewer such calls left.

**GraphBuildProofs** (from `NodeAssumption`, `EdgeAssumption`; any document):
`BuildTypeCorrect`, `BuildIsRunnable`, `BuildFunctionsReturn`,
`BuildForgetsNoEdge`, `BuildVerdict`.
`BuildInv` adds what the edges already handled have become (`HandledInv`) and
that every transition made so far leads to an executable (`TransitionInv`), which
later edges cannot undo because tool providers were taken out first.
`BuildIsRunnable` is the assumption under which `EngineRunner` is proved.
`BuildVerdict` (`VerdictIsTheDocuments`) compares the outcome of the passes with
`Acceptable`, which speaks of the set of edges and of no order. `DocumentInv` says
for every pass what it has settled so far: what each node handled became, which
tool edges were taken out, that no edge handled broke a rule of its own or
together with one handled before (`ProgressInv`), and that a build that failed
did so on a rule that is broken (`FailedInv`). A late pass then only has to
add its own rules.

**EngineBootProofs** (from `DeploymentAssumption`; any resources, deployments and
orders of families): `BootTypeCorrect`, `DutyNeverAbovePeriod`, `RunsAsDeployed`,
`ClosesCleanly`. `BootInv` strengthens the duty property to outputs that are not
exported as well (`DutyBelow`), since an export brings back what the kernel kept;
says how far a configuration in progress has come (`Halfway`: once the duty is
zero any period is safe); that places have one owner (`OneOwner`), without which
a second channel could rewrite an output; and that an output this process
exported is known to the driver that will close it (`NoneForgotten`).

`VerdictEarned` (`VerdictIsEarned`) is what `LateBrokerIsWaitedFor` says apart from
fairness: code 78, after which the orchestrator gives up, is the answer to a
deployment that is not sound or to other trouble, never to a broker that is late;
and a workflow never runs on a deployment whose references, families, frequencies
or places conflict. `VerdictInv` relates the claims of the drivers to the channels
handled so far: they are disjoint, this process made them, and each stems from a
channel that asked for something (`ClaimsAreMine`, `ClaimsHaveSettings`), so that a
refused claim means that two channels ask for one place. `OutputsAreSafe`
(`OutputsChangeSafely`) is an action property about every write to an output.

**SerialPortProofs** (from `SerialAssumption`, for any number of callers and
bytes): `TypeCorrect`, `DispatchNeverBlocks`, `NextLineIsMine`,
`NoLineLostInService`, `LinesEndAtNewline`, `StreamIsKept`. The inductive invariant `SlotInv`
joins the first two slot properties, which need each other: a line may be sent
without blocking because the registered Read has an empty channel, and it has
one because no other Read can take or clear its slot. It adds that a registered
Read on its way out left because of shutdown (`LeaverMeansShutdown`), without
which a line handed to it would count as lost in service. `StreamIsKept`
(`EveryByteOnce`) is inductive with the types alone: the lines handed over, the
reader's buffer and the kernel's form one rising stream, a cut of it in two leaves
two that rise (`CutStream`), and so does joining what the kernel returns
to the buffer (`JoinStream`).

Two action properties follow from `SlotInv`. `NextLineGoesToTheRead`
(`NextLineIsTheReads`): the line that is cut off while a Read waits is that Read's.
`ClosedWindsDown` (`CloseWindsDown`) is what `CloseEndsAll` says apart from fairness:
after Close calls and the reader move only along `CallEnds` and `ReaderEnds`, which
have no cycle, while the reader's buffer shrinks with every line it still cuts.

**MemoryStoreProofs** (from `MemoryAssumption`): `TypeCorrect`,
`ContentSurvives`, `NoStaleRecord`, `CapsHold`, `RefinesMemory`. The inductive invariant `MemoryInv`
adds to the properties that, during Reconcile, what was read of a file not yet
handled is its committed content and what was handled holds it
(`ReconcileIsFaithful`), and that a write in progress belongs to a live process,
rewrites only committed content during Reconcile, and would roll back to
committed content afterwards (`WriteIsKnown`). Without the first, a crash in
the middle of Reconcile could let declared content win; without the second a
rollback could restore anything. `RefinesMemory` (`AgentMemory` is implemented)
needs one thing more, `WriteIsAnEdit`: the content of a write in progress is one
edit of the content that a rollback would restore, or the declared content of a
file that has none yet. A commit is then a `Change` or a `Create`, and
every other step, crashes and rollbacks included, stutters.

**Threshold** (for any threshold and any dead band that is not negative,
`BandIsAWidth`): `ThresholdIsASchmittTrigger`, which is for all numbers and without
end what the assumptions of `TriggerItems` say of short lists. The side is that of
the last value outside the band or else of the first, rises and falls alternate,
and updates dropped at the full channel add no event. For the last, `ThresholdInv`
runs a second trigger that gets every update: where the two stand on different
sides, that one has seen one crossing more towards its own side. The properties
were checked by TLC on small numbers before they were proved; no run lists them.

Only model-checked:

- liveness (`BlockedTriggerGetsThrough`, `ArmedDelayResumes`, `ShutdownCompletes`,
  `CloseEndsAll`, `CancelEndsEvent`, `LimitedRunEnds`, `LateBrokerIsWaitedFor`) and
  the refinement of the fair service, `ImplementsFairService`: temporal reasoning
  with fairness needs ENABLED, which is out of the prover's reach. The theorems
  above that name them prove the part that needs no fairness;
- `EngineEvaluatesWhatEditorAccepts` and `TypeOK` of `Expressions`: the two readings
  of an expression are recursive operators, and what they compute for
  every tree needs induction over trees;
- the assumptions of `TriggerItems` and `EditorAndEngineDisagree` of `Expressions`,
  over the inputs that they name, and the violated properties.

`ImplementsMemory`, `ImplementsWalk`, `RunsGoForward`, `CancelWindsDown`,
`DecidedOnce`, `EveryArmResumesOnce`, `ShutdownHasNoWayBack`, `VerdictIsEarned`,
`OutputsChangeSafely`, `NextLineIsTheReads` and `CloseWindsDown` are proved and belong
to no run: TLC checked them on the instances of `memory_safety`, `agent_loop`, the
three runs of the runner, `engine_boot` and `serial_safety` before they were
proved, and nothing in them depends on the bounds.

## 5. Not modelled

- Mapping of requests and responses for each LLM vendor, HTTP clients of the
  backend, search and retrieval ports, serialization, migration and the
  diagnostics of workflows other than the typing of expressions: functions of
  their input, without state; their data is text and JSON.
- Expressions of type string (templates), lexing other than of the literals named
  in section 2, the operators `~ | ^ << >>`,
  `Coerce`, the width of int64, IEEE rounding. A float of 2^63 or more is written
  into the text as digits that `ParseInt` refuses.
- What nodes other than agents and calls compute; Publish and the delivery of
  MQTT messages; ADC, DAC, camera and ML drivers: single calls without state.
- `llm.go` and `ml.go` of the build, which look names up in tables.
- A loss of power: what the file system keeps of a record that was not synced, and
  outputs that start from their reset state. Crashes are those of the process.
- The camera and ONNX components: stateless request handlers.
- Generated code (the API types and the Mistral client make up more than half of
  the implementation's lines), sidecar images, shell scripts.
- The workflow builder and the editor application, whose documents have no bound
  and whose steps are those of a browser. What reading them showed:
  - undo and redo restore derived `fnarg` entries and old snapshots of a function's
    signature in FunctionCall nodes (`canvasStore.ts:73-76`, `131-135`), although
    `migrateFunctionNodes.ts:101-104` says that they are not part of the history;
  - the migrate button (`NodeConfigPanel.tsx:179`) and dragging a node do not count
    as mutations, so that the embedding application is not told;
  - `App.tsx:179` clears the dirty mark after the awaited PUT even if the document
    was edited meanwhile; `fileBridge.ts:110` truncates the file before it writes.

## 6. What remains

- The liveness of shutdown from its safety core: `ShutdownHasNoWayBack`,
  `CancelWindsDown` and `CloseWindsDown` leave the argument that each step towards the
  end is taken, which needs fairness and stays with TLC.
- Delivery of MQTT messages, with QoS and a session that is lost.
- The history of the builder against edits outside it, should its stores be
  separated from the components that drive them.
