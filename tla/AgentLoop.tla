------------------------------ MODULE AgentLoop ------------------------------
(***************************************************************************)
(* One event of a workflow that reaches agents: the walk over the nodes of *)
(* the main graph, the agent loop (llmproxy/agent Runner.Run) that an      *)
(* Agent node starts, the tools the model calls, which may be functions    *)
(* of the workflow (engine.Function.Call, a walk of its own) or further    *)
(* agents (a loop of its own), and what comes back: results to the model,  *)
(* outputs and a branch to the walk.                                       *)
(*                                                                         *)
(* All of it runs on the goroutine of the state runner, so that the state  *)
(* is one call stack: a "walk" is executing the nodes of one graph with    *)
(* one scope, a "run" is one Runner.Run. The frame at the bottom is the    *)
(* main graph's walk, which stays when it is idle. Every error is returned *)
(* up the whole stack at once, which is one step here (Abort).             *)
(*                                                                         *)
(* Prompts are abstracted to the event that was being served and the graph *)
(* whose scope they were evaluated in; tool calls and results to the name  *)
(* of the tool. The model answers whatever it likes, names of tools that   *)
(* do not exist included.                                                  *)
(***************************************************************************)
EXTENDS Naturals, Sequences, FiniteSets

CONSTANTS
  Agents,      \* agents: nodes of a graph, and tools or hand-over targets of others
  Steps,       \* nodes that run no agent and no function
  Calls,       \* FunctionCall nodes, which may be tools as well
  Effects,     \* tools that act outside: memory, pins, search
  AgentTools,  \* agents exposed as tools
  Handoffs,    \* tools that hand over to another agent
  Offers,      \* the names of the tools of each agent
  AgentOf,     \* the agent behind each AgentTool and each Handoff
  FnOf,        \* the function behind each FunctionCall
  FnEntry,     \* the entry edge of each function's graph
  Main,        \* the main graph
  Starts,      \* the edges of its startup node and of its triggers
  OutEdges,    \* the outgoing edges of each node, one to Idle for an unwired port
  Declared,    \* how many outputs each agent declares
  MaxTurns,    \* turn limit of each agent's runner, 0 for none
  Responses,   \* the lists of tool calls a response may make
  Idle,        \* StateIdle
  NoName,      \* no node, no tool
  MaxEvents,   \* bound of the model on events
  MaxAsks      \* bound of the model on the turns of a run without a limit

Nodes == Agents \cup Steps \cup Calls
ToolNames == Effects \cup AgentTools \cup Handoffs \cup Calls
Functions == {FnOf[c] : c \in Calls}
Graphs == {Main} \cup Functions
EdgeTypes == {"Control", "AgentTask", "AgentDelegate", "AgentChoice"}

\* prompt: whether the edge carries one.
Edge == [to : Nodes \cup {Idle}, type : EdgeTypes, prompt : BOOLEAN]

ASSUME GraphAssumption ==
  /\ FnOf \in [Calls -> Functions]
  /\ Main \notin Functions
  /\ FnEntry \in [Functions -> Edge]
  /\ Starts \subseteq Edge
  /\ OutEdges \in [Nodes -> SUBSET Edge]
  /\ \A n \in Steps \cup Calls : OutEdges[n] # {}
  /\ Agents \cap (Steps \cup Calls) = {} /\ Steps \cap Calls = {}
  /\ Idle \notin Nodes
  /\ NoName \notin Nodes \cup ToolNames \cup {Idle}

ASSUME AgentAssumption ==
  /\ Offers \in [Agents -> SUBSET ToolNames]
  /\ AgentOf \in [AgentTools \cup Handoffs -> Agents]
  /\ (Effects \cup Calls) \cap (AgentTools \cup Handoffs) = {}
  /\ Effects \cap Calls = {} /\ AgentTools \cap Handoffs = {}
  /\ Declared \in [Agents -> Nat]
  /\ MaxTurns \in [Agents -> Nat]
  /\ Responses \subseteq Seq(ToolNames \cup {NoName}) \ {<<>>}

ASSUME BoundAssumption == MaxEvents \in Nat /\ MaxAsks \in Nat

VARIABLES
  cancelled,   \* ctx is done
  event,       \* number of events served so far
  stack        \* the frames, the running one last

vars == <<cancelled, event, stack>>

-----------------------------------------------------------------------------
(* Conversations and frames *)

\* An input item: a prompt, or a call of a tool and its result.
Prompt(e, g) == [is |-> "prompt", ev |-> e, of |-> g]
Call(t) == [is |-> "call", ev |-> 0, of |-> t]
Result(t) == [is |-> "result", ev |-> 0, of |-> t]

Item == [is : {"prompt", "call", "result"}, ev : 0 .. MaxEvents,
         of : Graphs \cup ToolNames]

Conversations == Seq(Item)
CallLists == Seq(ToolNames \cup {NoName})

\* from, cleared and written are history: the node the walk came from, whether
\* an edge of this event started the conversation anew, and the outputs that
\* nodes have written to this scope during this event, 0 being the answer.
Walk(g, conv, cleared) ==
  [kind |-> "walk", graph |-> g, at |-> Idle, conv |-> conv,
   from |-> NoName, cleared |-> cleared, written |-> {}]

\* runner is the agent whose node built the Runner, agent the current one. turn
\* counts the loop, calls are the calls of this turn still to be made, done the
\* items of those made. asked, ran and lost are history: requests to the model,
\* tools that ran to their end, those whose results were thrown away.
Run(a, conv) ==
  [kind |-> "run", runner |-> a, agent |-> a, conv |-> conv, turn |-> 0,
   calls |-> <<>>, done |-> <<>>, asked |-> 0, ran |-> 0, lost |-> 0]

Output == Agents \X Nat

WalkFrame ==
  [kind : {"walk"}, graph : Graphs, at : Nodes \cup {Idle}, conv : Conversations,
   from : Nodes \cup {NoName}, cleared : BOOLEAN, written : SUBSET Output]

RunFrame ==
  [kind : {"run"}, runner : Agents, agent : Agents, conv : Conversations, turn : Nat,
   calls : CallLists, done : Conversations,
   asked : Nat, ran : Nat, lost : Nat]

TypeOK ==
  /\ cancelled \in BOOLEAN
  /\ event \in 0 .. MaxEvents
  /\ stack \in Seq(WalkFrame \cup RunFrame)
  /\ Len(stack) >= 1
  /\ stack[1] \in WalkFrame

Top == stack[Len(stack)]
Below == stack[Len(stack) - 1]
Callers == SubSeq(stack, 1, Len(stack) - 1)
Replace(f) == [stack EXCEPT ![Len(stack)] = f]
Return(f) == [Callers EXCEPT ![Len(stack) - 1] = f]
AtRest == Len(stack) = 1 /\ stack[1].at = Idle

Walking == Top.kind = "walk" /\ Top.at # Idle
Asking == Top.kind = "run" /\ Top.calls = <<>>
Calling == Top.kind = "run" /\ Top.calls # <<>>

Init ==
  /\ cancelled = FALSE
  /\ event = 0
  /\ stack = <<Walk(Main, <<>>, FALSE)>>

\* An error: Function.Call, ToolCall, Runner.Run and Execute all hand it to
\* their caller, and the runner logs it and is idle again. main is the bottom
\* frame at that point: what it has written and its conversation stay.
Abort(main) ==
  /\ stack' = <<[main EXCEPT !.at = Idle, !.from = NoName]>>
  /\ UNCHANGED <<cancelled, event>>

-----------------------------------------------------------------------------
(* Edges *)

\* Transition.Apply refuses a task edge without a prompt; nothing before it does.
Applicable(e) == e.type = "AgentTask" => e.prompt

\* Transition.Apply: the conversation after the edge e of the graph g.
Apply(conv, e, ev, g) ==
  CASE e.type = "AgentTask" -> <<Prompt(ev, g)>>
    [] e.type = "AgentDelegate" /\ e.prompt -> Append(conv, Prompt(ev, g))
    [] e.type = "AgentChoice" -> <<>>
    [] OTHER -> conv

Renews(e) == e.type \in {"AgentTask", "AgentChoice"}

Follow(f, e, ev) ==
  [f EXCEPT !.from = f.at,
            !.at = e.to,
            !.conv = Apply(f.conv, e, ev, f.graph),
            !.cleared = f.cleared \/ Renews(e)]

\* The first node of a walk: the edge e of a trigger or of a function's entry.
Enter(f, e, ev) == [Follow(f, e, ev) EXCEPT !.from = NoName]

\* The end of a linear node: one of its ports. The prompt of the edge may fail
\* to evaluate, or be missing.
Leave(f, callers) ==
  \/ /\ \E e \in OutEdges[f.at] :
          Applicable(e) /\ stack' = Append(callers, Follow(f, e, event))
     /\ UNCHANGED <<cancelled, event>>
  \/ /\ \E e \in OutEdges[f.at] : e.prompt \/ ~Applicable(e)
     /\ Abort(Append(callers, f)[1])

-----------------------------------------------------------------------------
(* Walks: Runner.Run's inner loop and Function.Call *)

\* The idle select may take an event although ctx is done; no node of it runs.
\* One whose edge cannot be applied leaves the runner idle, with its conversation.
Fire ==
  /\ AtRest
  /\ event < MaxEvents
  /\ event' = event + 1
  /\ \E e \in Starts :
       /\ Applicable(e)
       /\ stack' = <<Enter([stack[1] EXCEPT !.written = {}, !.cleared = FALSE], e, event + 1)>>
  /\ UNCHANGED cancelled

\* Mutant of Stopped: only the runner's loop looks at ctx.
StoppedInMain == cancelled /\ Len(stack) = 1

\* Both loops look at ctx before each node.
Stopped == cancelled

StopWalking ==
  /\ Walking
  /\ Stopped
  /\ Abort(stack[1])

ExecuteStep ==
  /\ Walking
  /\ ~Stopped
  /\ Top.at \in Steps
  /\ Leave(Top, Callers) \/ Abort(stack[1])

\* Mutant of EmptyScope: the function works on the conversation of the workflow.
EmptyScopeShared(g) == Walk(g, stack[1].conv, FALSE)

\* NewFunctionScope: arguments and local variables, and no conversation.
EmptyScope(g) == Walk(g, <<>>, FALSE)

EnterFunction(c) ==
  LET g == FnOf[c] IN
  /\ Applicable(FnEntry[g])
  /\ stack' = Append(stack, Enter(EmptyScope(g), FnEntry[g], event))

ExecuteCall ==
  /\ Walking
  /\ ~Stopped
  /\ Top.at \in Calls
  /\ \/ EnterFunction(Top.at) /\ UNCHANGED <<cancelled, event>>
     \/ Abort(stack[1])

\* Agent.Execute needs a conversation; a control edge hands on the one of the
\* scope, whichever event left it there.
ExecuteAgent ==
  /\ Walking
  /\ ~Stopped
  /\ Top.at \in Agents
  /\ IF Top.conv = <<>> THEN Abort(stack[1])
     ELSE /\ stack' = Append(stack, Run(Top.at, Top.conv))
          /\ UNCHANGED <<cancelled, event>>

-----------------------------------------------------------------------------
(* The agent loop: Runner.Run and executeFunctionTools *)

\* Mutant of EndCalls: only the last call is told to the model.
EndCallsLast(f) ==
  IF f.calls = <<>>
  THEN [f EXCEPT !.conv = f.conv \o SubSeq(f.done, Len(f.done) - 1, Len(f.done)),
                 !.done = <<>>, !.turn = f.turn + 1]
  ELSE f

\* After the last call of a turn the conversation grows by what was called.
EndCalls(f) ==
  IF f.calls = <<>>
  THEN [f EXCEPT !.conv = f.conv \o f.done, !.done = <<>>, !.turn = f.turn + 1]
  ELSE f

\* A tool has answered the first call of the run f.
Told(f) ==
  LET t == Head(f.calls) IN
  EndCalls([f EXCEPT !.done = f.done \o <<Call(t), Result(t)>>,
                     !.calls = Tail(f.calls),
                     !.ran = f.ran + 1])

\* A function is back at idle: its return values go to the model, or to the
\* output bindings of the FunctionCall node, whose port is followed. One that
\* cannot be evaluated is an error.
FunctionEnds ==
  /\ Top.kind = "walk"
  /\ Top.at = Idle
  /\ Len(stack) > 1
  /\ \/ /\ Below.kind = "run"
        /\ stack' = Return(Told(Below))
        /\ UNCHANGED <<cancelled, event>>
     \/ /\ Below.kind = "walk"
        /\ Leave(Below, SubSeq(stack, 1, Len(stack) - 2))
     \/ Abort(stack[1])

\* Mutant of Exhausted: one turn more than the limit.
ExhaustedOffByOne(f) == MaxTurns[f.runner] > 0 /\ f.turn > MaxTurns[f.runner]

Exhausted(f) == MaxTurns[f.runner] > 0 /\ f.turn >= MaxTurns[f.runner]

\* Mutant of ChatFails: at the limit the run waits for ctx instead of failing.
ChatFailsUnlimited == Asking /\ (Exhausted(Top) => cancelled) /\ Abort(stack[1])

\* The request fails, ctx is done, the limit is reached, or the answer holds
\* neither text nor calls.
ChatFails == Asking /\ Abort(stack[1])

\* The model calls tools. (A run without a limit stops here by the bound.)
ChatCalls ==
  /\ Asking
  /\ ~cancelled
  /\ ~Exhausted(Top)
  /\ MaxTurns[Top.runner] = 0 => Top.turn < MaxAsks
  /\ \E r \in Responses : stack' = Replace([Top EXCEPT !.calls = r, !.asked = Top.asked + 1])
  /\ UNCHANGED <<cancelled, event>>

\* Agent.Setup: several branches or declared outputs ask for a JSON answer.
Structured(n) == Declared[n] > 0 \/ \E d, e \in OutEdges[n] : d # e

\* The outputs 0 .. k of the node at which the walk f stands are in its scope.
Wrote(f, k) == [f EXCEPT !.written = f.written \cup ({f.at} \X (0 .. k))]

\* Mutant of Branch: without a branch the next state is no node and not idle.
BranchNowhere(f, callers) ==
  IF OutEdges[f.at] = {}
  THEN /\ stack' = Append(callers, [f EXCEPT !.at = NoName, !.from = f.at])
       /\ UNCHANGED <<cancelled, event>>
  ELSE \/ /\ \E e \in OutEdges[f.at] :
               Applicable(e) /\ stack' = Append(callers, Follow(f, e, event))
          /\ UNCHANGED <<cancelled, event>>
       \/ Abort(Append(callers, f)[1])

\* Agent.next: idle without a branch, else the only one or the one chosen. The
\* choice may name no branch, the prompt of the edge may fail to evaluate or be
\* missing.
Branch(f, callers) ==
  IF OutEdges[f.at] = {}
  THEN /\ stack' = Append(callers, [f EXCEPT !.at = Idle, !.from = f.at])
       /\ UNCHANGED <<cancelled, event>>
  ELSE \/ /\ \E e \in OutEdges[f.at] :
               Applicable(e) /\ stack' = Append(callers, Follow(f, e, event))
          /\ UNCHANGED <<cancelled, event>>
       \/ Abort(Append(callers, f)[1])

\* Mutant of ApplyAnswer: a missing output is skipped.
ApplyAnswerSkips(f, callers) ==
  \/ \E k \in 0 .. Declared[f.at] : Branch(Wrote(f, k), callers)
  \/ Structured(f.at) /\ Abort(Append(callers, f)[1])

\* Agent.Execute after the loop, in the order of the code: the answer and the
\* declared outputs one by one, up to one that is missing or of a wrong type,
\* then the branch. What was written before an error stays written.
ApplyAnswer(f, callers) ==
  \/ Branch(Wrote(f, Declared[f.at]), callers)
  \/ Structured(f.at) /\ Abort(Append(callers, f)[1])
  \/ \E k \in 0 .. Declared[f.at] : k < Declared[f.at] /\ Abort(Append(callers, Wrote(f, k))[1])

\* The final output: a text, beside which a structured agent's calls are
\* ignored. It is the result of the tool call, or the answer of the node.
ChatFinal ==
  /\ Asking
  /\ ~cancelled
  /\ ~Exhausted(Top)
  /\ \/ /\ Below.kind = "run"
        /\ stack' = Return(Told(Below))
        /\ UNCHANGED <<cancelled, event>>
     \/ /\ Below.kind = "walk"
        /\ ApplyAnswer(Below, SubSeq(stack, 1, Len(stack) - 2))

Name == Head(Top.calls)
Offered(S) == Name \in Offers[Top.agent] /\ Name \in S

\* A name the agent does not offer, arguments that do not parse, a tool that
\* fails: the whole run fails. What the tool did before stays done.
CallFails ==
  /\ Calling
  /\ ~Offered(Handoffs)
  /\ Abort(stack[1])

CallEffect ==
  /\ Calling
  /\ Offered(Effects)
  /\ stack' = Replace(Told(Top))
  /\ UNCHANGED <<cancelled, event>>

CallFunction ==
  /\ Calling
  /\ Offered(Calls)
  /\ EnterFunction(Name)
  /\ UNCHANGED <<cancelled, event>>

\* Agent.AsTool and Agent.Tools: a new run, with the prompt of the call alone.
CallAgent ==
  /\ Calling
  /\ Offered(AgentTools)
  /\ stack' = Append(stack, Run(AgentOf[Name], <<Prompt(event, Name)>>))
  /\ UNCHANGED <<cancelled, event>>

\* A hand-over ends the turn at once: the calls after it are not made, the
\* results of those before it are not told, the input stays what it was.
HandOver ==
  /\ Calling
  /\ Offered(Handoffs)
  /\ stack' = Replace([Top EXCEPT !.agent = AgentOf[Name], !.calls = <<>>, !.done = <<>>,
                                  !.turn = Top.turn + 1,
                                  !.lost = Top.lost + Len(Top.done) \div 2])
  /\ UNCHANGED <<cancelled, event>>

Cancel ==
  /\ ~cancelled
  /\ cancelled' = TRUE
  /\ UNCHANGED <<event, stack>>

Over == AtRest /\ cancelled /\ UNCHANGED vars

Step ==
  \/ StopWalking \/ ExecuteStep \/ ExecuteCall \/ ExecuteAgent \/ FunctionEnds
  \/ ChatFails \/ ChatCalls \/ ChatFinal
  \/ CallFails \/ CallEffect \/ CallFunction \/ CallAgent \/ HandOver

Next == Fire \/ Step \/ Cancel \/ Over

Spec == Init /\ [][Next]_vars

\* Every call returns: requests to a model carry ctx and the HTTP client's time
\* limit (util/httpclient/client.go:48), nodes and tools honour ctx.
FairSpec == Spec /\ WF_vars(Step)

-----------------------------------------------------------------------------
(* What the loop promises *)

RunFrames == {stack[i] : i \in {j \in DOMAIN stack : stack[j].kind = "run"}}

Of(is, items) == {i \in DOMAIN items : items[i].is = is}

Paired(items) ==
  /\ \A i \in Of("call", items) : i + 1 \in DOMAIN items /\ items[i + 1] = Result(items[i].of)
  /\ \A i \in Of("result", items) : i > 1 /\ items[i - 1] = Call(items[i].of)

\* What the model is told is what was done: in every request a call is followed
\* by its own result, and every tool that ran to its end in this run is told,
\* once, but for those of a turn that ended in a hand-over ("ignoring any tool
\* results of the same turn", runner.go:164).
ToldWhatWasDone ==
  \A f \in RunFrames :
    /\ Paired(f.conv) /\ Paired(f.done)
    /\ Cardinality(Of("result", f.conv)) + Cardinality(Of("result", f.done)) + f.lost = f.ran
    /\ f.calls = <<>> => f.done = <<>>

\* A run knows the prompts of the scope it was started from and no others: of
\* the function body or the workflow that its node is part of, or the one of
\* its tool call; of an earlier event only where no edge of this event has
\* started the conversation anew (types.go:31-56, scope.go:45-59).
ConversationsAreOwn ==
  \A i \in 2 .. Len(stack) :
    stack[i].kind = "run" =>
      \A j \in Of("prompt", stack[i].conv) :
        LET p == stack[i].conv[j] IN
        IF stack[i - 1].kind = "run"
        THEN j = 1 /\ p = Prompt(event, Head(stack[i - 1].calls))
        ELSE /\ p.of = stack[i - 1].graph
             /\ p.ev # event => i = 2 /\ ~stack[i - 1].cleared

\* The turn limit of the Runner that was started bounds the requests to the
\* model, however often the agents of the run hand over to one another.
TurnsAreBounded ==
  \A f \in RunFrames : MaxTurns[f.runner] > 0 => f.asked <= MaxTurns[f.runner]

\* The nodes that follow an agent find all its outputs in their scope, of this
\* event: an answer that lacks one ends the flow (node/agent.go:335-338). And
\* the outputs of a node are written in their order.
OutputsCompleteBeforeNext ==
  \A i \in DOMAIN stack :
    LET f == stack[i] IN
    f.kind = "walk" =>
      /\ f.from \in Agents => \A k \in 0 .. Declared[f.from] : <<f.from, k>> \in f.written
      /\ \A o \in f.written : \A k \in 0 .. o[2] : <<o[1], k>> \in f.written

\* Cancellation ends the event that is being served, out of any depth of nested
\* runs and out of a cycle in a function's body (function.go:45-47).
CancelEndsEvent == cancelled ~> AtRest

\* Agents whose runs call nothing but effects, nor do those they hand over to.
SelfContained ==
  UNION {S \in SUBSET Agents :
           \A a \in S : \A t \in Offers[a] : t \in Effects \/ (t \in Handoffs /\ AgentOf[t] \in S)}

\* With a limit such a run ends by itself, two agents that hand over to one
\* another for ever included.
LimitedRunEnds ==
  \A a \in {b \in SelfContained : MaxTurns[b] > 0} :
    (Top.kind = "run" /\ Top.runner = a) ~> ~(Top.kind = "run" /\ Top.runner = a)

-----------------------------------------------------------------------------
(* What the interpreter sees of it *)

\* Where a node of the main graph leads, and what is written at it. Only agents
\* have outputs here; one without a branch ends the flow.
Leads(n) ==
  IF n \in Agents /\ OutEdges[n] = {} THEN {Idle} ELSE {e.to : e \in OutEdges[n]}

OutputsOf(n) == IF n \in Agents THEN {n} \X (0 .. Declared[n]) ELSE {}

\* However deep runs and functions are nested, to the interpreter a node of the
\* main graph is one step: it leaves all its outputs and follows an edge of its
\* own, or some and none, and nothing that it calls moves the walk.
Interpreter ==
  INSTANCE EventWalk WITH
    First <- {e.to : e \in Starts},
    Succ <- [n \in Nodes |-> Leads(n)],
    Outputs <- [n \in Nodes |-> OutputsOf(n)],
    at <- stack[1].at,
    written <- stack[1].written,
    served <- event

ImplementsWalk == Interpreter!Spec

=============================================================================
