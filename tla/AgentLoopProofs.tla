--------------------------- MODULE AgentLoopProofs ---------------------------
(***************************************************************************)
(* Proofs about AgentLoop, for any workflow graph, any agents, tools and   *)
(* limits, and any depth of nested runs and functions.                     *)
(*                                                                         *)
(* The invariant says of each frame of the stack that it is well formed    *)
(* (GoodWalk, GoodRun) and of neighbours that the lower one called the     *)
(* upper one (Called). An action keeps a prefix of the stack and puts one  *)
(* new frame on it: PutOn does the rest.                                   *)
(***************************************************************************)
EXTENDS AgentLoop, TLAPS, FiniteSetTheorems, SequenceTheorems

Frame == WalkFrame \cup RunFrame
Events == 0 .. MaxEvents

\* What an edge may find in its scope: prompts of this graph, of an earlier
\* event only if "old".
OwnPrompts(conv, g, ev, old) ==
  \A j \in 1 .. Len(conv) :
    conv[j].is = "prompt" /\ conv[j].of = g /\ (conv[j].ev = ev \/ old)

HasOutputs(written, a) == \A k \in 0 .. Declared[a] : <<a, k>> \in written
InOrder(written) == \A o \in written : \A k \in 0 .. o[2] : <<o[1], k>> \in written

GoodWalk(f, ev, bottom) ==
  /\ OwnPrompts(f.conv, f.graph, ev, bottom /\ ~f.cleared)
  /\ f.from \in Agents => HasOutputs(f.written, f.from)
  /\ InOrder(f.written)

\* Nothing but calls and results.
NoPrompts(items) == \A j \in 1 .. Len(items) : items[j].is # "prompt"

Results(items) == Cardinality(Of("result", items))

GoodRun(f) ==
  /\ f.asked <= f.turn + (IF f.calls = <<>> THEN 0 ELSE 1)
  /\ MaxTurns[f.runner] > 0 =>
       f.turn <= MaxTurns[f.runner] /\ (f.calls # <<>> => f.turn < MaxTurns[f.runner])
  /\ f.calls = <<>> => f.done = <<>>
  /\ NoPrompts(f.done)
  /\ Paired(f.conv) /\ Paired(f.done)
  /\ Len(f.done) = 2 * Results(f.done)
  /\ Results(f.conv) + Results(f.done) + f.lost = f.ran

\* The prompts of the run b, which the frame a started.
StartedBy(a, b, ev, bottom) ==
  \A j \in 1 .. Len(b.conv) :
    b.conv[j].is = "prompt" =>
      IF a.kind = "run" THEN j = 1 /\ b.conv[j] = Prompt(ev, Head(a.calls))
      ELSE b.conv[j].of = a.graph /\ (b.conv[j].ev = ev \/ (bottom /\ ~a.cleared))

Called(a, b, ev, bottom) ==
  /\ a.kind = "run" => a.calls # <<>> /\ Head(a.calls) \in ToolNames
  /\ a.kind = "walk" => a.at \in Nodes /\ (b.kind = "run" <=> a.at \in Agents)
  /\ b.kind = "run" => StartedBy(a, b, ev, bottom)

GoodFrame(f, ev, bottom) ==
  IF f.kind = "walk" THEN GoodWalk(f, ev, bottom) ELSE GoodRun(f)

GoodStack(s, ev) ==
  /\ s \in Seq(Frame) /\ Len(s) >= 1 /\ s[1] \in WalkFrame
  /\ \A i \in 1 .. Len(s) : GoodFrame(s[i], ev, i = 1)
  /\ \A i \in 1 .. Len(s) - 1 : Called(s[i], s[i + 1], ev, i = 1)

AgentInv == cancelled \in BOOLEAN /\ event \in Events /\ GoodStack(stack, event)

-----------------------------------------------------------------------------
(* Frames *)

LEMMA Kinds ==
  ASSUME NEW f \in Frame
  PROVE  /\ f.kind = "walk" \/ f.kind = "run"
         /\ f.kind = "walk" <=> f \in WalkFrame
         /\ f.kind = "run" <=> f \in RunFrame
BY DEF Frame, WalkFrame, RunFrame

LEMMA WalkFields ==
  ASSUME NEW f \in WalkFrame
  PROVE  /\ f.kind = "walk" /\ f.graph \in Graphs /\ f.at \in Nodes \cup {Idle}
         /\ f.conv \in Seq(Item) /\ f.from \in Nodes \cup {NoName} /\ f.cleared \in BOOLEAN
         /\ f.written \in SUBSET Output
BY DEF WalkFrame, Conversations

LEMMA RunFields ==
  ASSUME NEW f \in RunFrame
  PROVE  /\ f.kind = "run" /\ f.runner \in Agents /\ f.agent \in Agents
         /\ f.conv \in Seq(Item) /\ f.turn \in Nat
         /\ f.calls \in Seq(ToolNames \cup {NoName}) /\ f.done \in Seq(Item)
         /\ f.asked \in Nat /\ f.ran \in Nat /\ f.lost \in Nat
<1>1. f.conv \in Conversations /\ f.calls \in CallLists /\ f.done \in Conversations
  BY DEF RunFrame
<1>2. /\ f.kind = "run" /\ f.runner \in Agents /\ f.agent \in Agents /\ f.turn \in Nat
      /\ f.asked \in Nat /\ f.ran \in Nat /\ f.lost \in Nat
  BY DEF RunFrame
<1> QED BY <1>1, <1>2 DEF Conversations, CallLists

LEMMA EdgeFields ==
  /\ \A e \in Edge : e.to \in Nodes \cup {Idle} /\ e.type \in EdgeTypes /\ e.prompt \in BOOLEAN
  /\ \A n \in Nodes : OutEdges[n] \subseteq Edge
  /\ \A f \in Functions : FnEntry[f] \in Edge
  /\ \A c \in Calls : FnOf[c] \in Functions
  /\ Starts \subseteq Edge
BY GraphAssumption DEF Edge

LEMMA ItemTypes ==
  /\ \A ev \in Events, g \in Graphs \cup ToolNames : Prompt(ev, g) \in Item
  /\ \A t \in ToolNames : Call(t) \in Item /\ Result(t) \in Item
<1>1. 0 \in 0 .. MaxEvents BY BoundAssumption
<1> QED BY <1>1 DEF Item, Prompt, Call, Result, Events

LEMMA ApplyType ==
  ASSUME NEW conv \in Seq(Item), NEW e \in Edge, NEW ev \in Events, NEW g \in Graphs
  PROVE  Apply(conv, e, ev, g) \in Seq(Item)
<1> DEFINE p == Prompt(ev, g)
<1>1. p \in Item BY ItemTypes
<1> HIDE DEF p
<1>2. <<p>> \in Seq(Item) /\ Append(conv, p) \in Seq(Item) /\ <<>> \in Seq(Item)
  BY <1>1
<1> QED BY <1>2 DEF Apply, p

\* An edge keeps foreign prompts out, and old ones as well once it has renewed
\* the conversation.
LEMMA ApplyOwn ==
  ASSUME NEW conv \in Seq(Item), NEW e \in Edge, NEW ev \in Events, NEW g \in Graphs,
         NEW old \in BOOLEAN, OwnPrompts(conv, g, ev, old)
  PROVE  OwnPrompts(Apply(conv, e, ev, g), g, ev, old /\ ~Renews(e))
<1> DEFINE p == Prompt(ev, g)
<1>1. p \in Item /\ p.is = "prompt" /\ p.of = g /\ p.ev = ev BY ItemTypes DEF Prompt
<1> HIDE DEF p
<1>2. CASE e.type = "AgentTask"
  <2>1. Apply(conv, e, ev, g) = <<p>> BY <1>2 DEF Apply, p
  <2>2. Len(<<p>>) = 1 /\ <<p>>[1] = p OBVIOUS
  <2> QED BY <1>1, <2>1, <2>2 DEF OwnPrompts
<1>3. CASE e.type = "AgentChoice"
  <2>1. Apply(conv, e, ev, g) = <<>> BY <1>3 DEF Apply
  <2> QED BY <2>1 DEF OwnPrompts
<1>4. CASE e.type = "AgentDelegate" /\ e.prompt
  <2>1. Apply(conv, e, ev, g) = Append(conv, p) /\ ~Renews(e) BY <1>4 DEF Apply, p, Renews
  <2>2. /\ Len(Append(conv, p)) = Len(conv) + 1
        /\ \A j \in 1 .. Len(conv) : Append(conv, p)[j] = conv[j]
        /\ Append(conv, p)[Len(conv) + 1] = p
    BY <1>1, AppendProperties
  <2> QED BY <1>1, <2>1, <2>2 DEF OwnPrompts
<1>5. CASE e.type \notin {"AgentTask", "AgentChoice"} /\ ~(e.type = "AgentDelegate" /\ e.prompt)
  <2>1. Apply(conv, e, ev, g) = conv /\ ~Renews(e) BY <1>5 DEF Apply, Renews
  <2> QED BY <2>1 DEF OwnPrompts
<1> QED BY <1>2, <1>3, <1>4, <1>5

\* The fields that the frame of a walk has after an edge.
LEMMA FollowFields ==
  ASSUME NEW f \in WalkFrame, f.at \in Nodes, NEW e \in Edge, NEW ev \in Events
  PROVE  LET g == Follow(f, e, ev) IN
         /\ g \in WalkFrame
         /\ g.graph = f.graph /\ g.from = f.at /\ g.written = f.written
         /\ g.conv = Apply(f.conv, e, ev, f.graph)
         /\ g.cleared = (f.cleared \/ Renews(e))
<1> DEFINE c == Apply(f.conv, e, ev, f.graph)
           r == f.cleared \/ Renews(e)
<1>1. c \in Seq(Item) BY WalkFields, ApplyType
<1>2. r \in BOOLEAN BY WalkFields DEF Renews
<1>3. e.to \in Nodes \cup {Idle} BY EdgeFields
<1>4. Follow(f, e, ev) = [f EXCEPT !.from = f.at, !.at = e.to, !.conv = c, !.cleared = r]
  BY DEF Follow
<1> HIDE DEF c, r
<1>5. [f EXCEPT !.from = f.at, !.at = e.to, !.conv = c, !.cleared = r] \in WalkFrame
  BY <1>1, <1>2, <1>3 DEF WalkFrame, Conversations
<1>6. LET g == [f EXCEPT !.from = f.at, !.at = e.to, !.conv = c, !.cleared = r]
      IN  /\ g.graph = f.graph /\ g.from = f.at /\ g.written = f.written
          /\ g.conv = c /\ g.cleared = r
  BY DEF WalkFrame
<1> QED BY <1>4, <1>5, <1>6 DEF c, r

LEMMA FollowGood ==
  ASSUME NEW f \in WalkFrame, f.at \in Nodes, NEW e \in Edge, NEW ev \in Events,
         NEW bottom \in BOOLEAN, GoodWalk(f, ev, bottom),
         f.at \in Agents => HasOutputs(f.written, f.at)
  PROVE  Follow(f, e, ev) \in WalkFrame /\ GoodWalk(Follow(f, e, ev), ev, bottom)
<1> DEFINE g == Follow(f, e, ev)
<1>1. /\ g \in WalkFrame
      /\ g.graph = f.graph /\ g.from = f.at /\ g.written = f.written
      /\ g.conv = Apply(f.conv, e, ev, f.graph)
      /\ g.cleared = (f.cleared \/ Renews(e))
  BY FollowFields
<1> HIDE DEF g
<1>2. OwnPrompts(g.conv, g.graph, ev, (bottom /\ ~f.cleared) /\ ~Renews(e))
  BY <1>1, WalkFields, ApplyOwn DEF GoodWalk
<1>3. ((bottom /\ ~f.cleared) /\ ~Renews(e)) = (bottom /\ ~g.cleared) BY <1>1
<1> QED BY <1>1, <1>2, <1>3 DEF GoodWalk, g

\* The first node of a walk: an event, or the entry of a function.
LEMMA EnterGood ==
  ASSUME NEW f \in WalkFrame, NEW e \in Edge, NEW ev \in Events, NEW bottom \in BOOLEAN,
         OwnPrompts(f.conv, f.graph, ev, bottom /\ ~f.cleared), InOrder(f.written)
  PROVE  Enter(f, e, ev) \in WalkFrame /\ GoodWalk(Enter(f, e, ev), ev, bottom)
<1> DEFINE c == Apply(f.conv, e, ev, f.graph)
           r == f.cleared \/ Renews(e)
           g == [f EXCEPT !.from = NoName, !.at = e.to, !.conv = c, !.cleared = r]
<1>1. c \in Seq(Item) BY WalkFields, ApplyType
<1>2. r \in BOOLEAN BY WalkFields DEF Renews
<1>3. e.to \in Nodes \cup {Idle} BY EdgeFields
<1>4. OwnPrompts(c, f.graph, ev, (bottom /\ ~f.cleared) /\ ~Renews(e))
  BY WalkFields, ApplyOwn
<1>5. ((bottom /\ ~f.cleared) /\ ~Renews(e)) = (bottom /\ ~r) OBVIOUS
<1>6. OwnPrompts(c, f.graph, ev, bottom /\ ~r) BY <1>4, <1>5
<1>7. Enter(f, e, ev) = g BY DEF Enter, Follow, WalkFrame
<1> HIDE DEF c, r
<1>8. g \in WalkFrame /\ g.graph = f.graph /\ g.from = NoName /\ g.written = f.written
      /\ g.conv = c /\ g.cleared = r
  BY <1>1, <1>2, <1>3 DEF WalkFrame, Conversations
<1>9. NoName \notin Agents BY GraphAssumption DEF Nodes
<1> HIDE DEF g
<1> QED BY <1>6, <1>7, <1>8, <1>9 DEF GoodWalk

LEMMA EmptyScopeGood ==
  ASSUME NEW g \in Graphs, NEW ev \in Events
  PROVE  LET f == EmptyScope(g) IN
         /\ f \in WalkFrame /\ OwnPrompts(f.conv, f.graph, ev, FALSE /\ ~f.cleared)
         /\ InOrder(f.written)
BY DEF EmptyScope, Walk, WalkFrame, Conversations, OwnPrompts, InOrder

\* What an error leaves of the main walk.
LEMMA RestGood ==
  ASSUME NEW f \in WalkFrame, NEW ev \in Events, NEW bottom \in BOOLEAN, GoodWalk(f, ev, bottom)
  PROVE  LET g == [f EXCEPT !.at = Idle, !.from = NoName] IN
         g \in WalkFrame /\ GoodWalk(g, ev, bottom)
<1> DEFINE g == [f EXCEPT !.at = Idle, !.from = NoName]
<1>1. g \in WalkFrame /\ g.graph = f.graph /\ g.from = NoName /\ g.written = f.written
      /\ g.conv = f.conv /\ g.cleared = f.cleared
  BY DEF WalkFrame
<1>2. NoName \notin Agents BY GraphAssumption DEF Nodes
<1> HIDE DEF g
<1> QED BY <1>1, <1>2 DEF GoodWalk, g

LEMMA EndGood ==
  ASSUME NEW f \in WalkFrame, f.at \in Agents, NEW ev \in Events, NEW bottom \in BOOLEAN,
         GoodWalk(f, ev, bottom), HasOutputs(f.written, f.at)
  PROVE  LET g == [f EXCEPT !.at = Idle, !.from = f.at] IN
         g \in WalkFrame /\ GoodWalk(g, ev, bottom)
<1> DEFINE g == [f EXCEPT !.at = Idle, !.from = f.at]
<1>1. g \in WalkFrame /\ g.graph = f.graph /\ g.from = f.at /\ g.written = f.written
      /\ g.conv = f.conv /\ g.cleared = f.cleared
  BY DEF WalkFrame, Nodes
<1> HIDE DEF g
<1> QED BY <1>1 DEF GoodWalk, g

LEMMA WroteGood ==
  ASSUME NEW f \in WalkFrame, f.at \in Agents, NEW k \in 0 .. Declared[f.at],
         NEW ev \in Events, NEW bottom \in BOOLEAN, GoodWalk(f, ev, bottom)
  PROVE  LET g == Wrote(f, k) IN
         /\ g \in WalkFrame /\ GoodWalk(g, ev, bottom) /\ g.at = f.at
         /\ k = Declared[f.at] => HasOutputs(g.written, g.at)
<1> DEFINE w == f.written \cup ({f.at} \X (0 .. k))
           g == Wrote(f, k)
<1>0. Declared[f.at] \in Nat /\ k \in Nat BY AgentAssumption
<1>1. w \in SUBSET Output BY <1>0, WalkFields DEF Output
<1>2. InOrder(w)
  <2> SUFFICES ASSUME NEW o \in w, NEW i \in 0 .. o[2] PROVE <<o[1], i>> \in w
    BY DEF InOrder
  <2>1. CASE o \in f.written BY <2>1 DEF GoodWalk, InOrder
  <2>2. CASE o \in {f.at} \X (0 .. k) BY <1>0, <2>2
  <2> QED BY <2>1, <2>2
<1>3. k = Declared[f.at] => HasOutputs(w, f.at) BY DEF HasOutputs
<1>4. \A a : HasOutputs(f.written, a) => HasOutputs(w, a) BY DEF HasOutputs
<1>5. g = [f EXCEPT !.written = w] BY DEF Wrote
<1> HIDE DEF w, g
<1>6. g \in WalkFrame /\ g.graph = f.graph /\ g.from = f.from /\ g.written = w
      /\ g.conv = f.conv /\ g.cleared = f.cleared /\ g.at = f.at
  BY <1>1, <1>5 DEF WalkFrame
<1> QED BY <1>2, <1>3, <1>4, <1>6 DEF GoodWalk, g

-----------------------------------------------------------------------------
(* Conversations *)

LEMMA ResultsType ==
  ASSUME NEW s \in Seq(Item)
  PROVE  IsFiniteSet(Of("result", s)) /\ Results(s) \in Nat
<1>1. IsFiniteSet(1 .. Len(s)) BY FS_Interval, LenProperties
<1>2. Of("result", s) \in SUBSET (1 .. Len(s)) BY LenProperties DEF Of
<1>3. IsFiniteSet(Of("result", s)) BY <1>1, <1>2, FS_Subset
<1> QED BY <1>3, FS_CardinalityType DEF Results

LEMMA ConcatResults ==
  ASSUME NEW s \in Seq(Item), NEW t \in Seq(Item)
  PROVE  Results(s \o t) = Results(s) + Results(t)
<1> DEFINE A == Of("result", s)
           B == Of("result", t)
           C == {j \in Of("result", s \o t) : j > Len(s)}
<1>0. /\ Len(s) \in Nat /\ Len(t) \in Nat
      /\ DOMAIN s = 1 .. Len(s) /\ DOMAIN t = 1 .. Len(t)
      /\ DOMAIN (s \o t) = 1 .. Len(s) + Len(t)
      /\ \A i \in 1 .. Len(s) + Len(t) : (s \o t)[i] =
                     IF i <= Len(s) THEN s[i] ELSE t[i - Len(s)]
  BY ConcatProperties, LenProperties
<1>1. Of("result", s \o t) = A \cup C BY <1>0 DEF Of
<1>2. A \cap C = {} BY <1>0 DEF Of
<1> DEFINE shift == [j \in B |-> j + Len(s)]
<1>3. shift \in Bijection(B, C)
  <2>1. shift \in [B -> C] BY <1>0 DEF Of
  <2>2. \A i, j \in B : shift[i] = shift[j] => i = j BY <1>0 DEF Of
  <2>3. \A c \in C : \E j \in B : shift[j] = c
    <3> SUFFICES ASSUME NEW c \in C PROVE \E j \in B : shift[j] = c OBVIOUS
    <3>1. c - Len(s) \in B BY <1>0 DEF Of
    <3>2. shift[c - Len(s)] = c BY <3>1, <1>0 DEF Of
    <3> QED BY <3>1, <3>2
  <2>4. DOMAIN shift = B OBVIOUS
  <2> HIDE DEF shift
  <2> QED BY <2>1, <2>2, <2>3, <2>4 DEF Bijection, Injection, Surjection, IsInjective
<1>4. IsFiniteSet(A) /\ IsFiniteSet(B) BY ResultsType
<1>5. IsFiniteSet(C) /\ Cardinality(C) = Cardinality(B)
  <2> HIDE DEF A, B, C, shift
  <2>1. ExistsBijection(B, C) BY <1>3 DEF ExistsBijection
  <2> QED BY <2>1, <1>4, FS_Bijection
<1>6. Cardinality(A) \in Nat /\ Cardinality(B) \in Nat BY <1>4, FS_CardinalityType
<1>7. Cardinality(A \cup C) = Cardinality(A) + Cardinality(C)
  <2> HIDE DEF A, B, C
  <2>1. Cardinality(A \cap C) = 0 BY <1>2, FS_EmptySet
  <2>2. Cardinality(A \cup C) = Cardinality(A) + Cardinality(C) - Cardinality(A \cap C)
    BY <1>4, <1>5, FS_Union
  <2> QED BY <2>1, <2>2, <1>5, <1>6
<1> QED BY <1>1, <1>5, <1>7 DEF Results

LEMMA PairedConcat ==
  ASSUME NEW s \in Seq(Item), NEW t \in Seq(Item), Paired(s), Paired(t)
  PROVE  Paired(s \o t)
<1> DEFINE u == s \o t
<1>0. /\ Len(s) \in Nat /\ Len(t) \in Nat
      /\ DOMAIN s = 1 .. Len(s) /\ DOMAIN t = 1 .. Len(t)
      /\ DOMAIN u = 1 .. Len(s) + Len(t)
      /\ \A i \in 1 .. Len(s) + Len(t) : u[i] = IF i <= Len(s) THEN s[i] ELSE t[i - Len(s)]
  BY ConcatProperties, LenProperties
<1> HIDE DEF u
<1>1. ASSUME NEW i \in Of("call", u)
      PROVE  i + 1 \in DOMAIN u /\ u[i + 1] = Result(u[i].of)
  <2>1. i \in DOMAIN u /\ u[i].is = "call" BY DEF Of
  <2>2. CASE i <= Len(s)
    <3>1. i \in Of("call", s) /\ u[i] = s[i] BY <1>0, <2>1, <2>2 DEF Of
    <3>2. i + 1 \in DOMAIN s /\ s[i + 1] = Result(s[i].of) BY <3>1 DEF Paired
    <3> QED BY <1>0, <3>1, <3>2
  <2>3. CASE i > Len(s)
    <3> DEFINE j == i - Len(s)
    <3>1. j \in Of("call", t) /\ u[i] = t[j] BY <1>0, <2>1, <2>3 DEF Of
    <3>2. j + 1 \in DOMAIN t /\ t[j + 1] = Result(t[j].of) BY <3>1 DEF Paired
    <3> QED BY <1>0, <2>1, <2>3, <3>1, <3>2
  <2> QED BY <1>0, <2>1, <2>2, <2>3
<1>2. ASSUME NEW i \in Of("result", u)
      PROVE  i > 1 /\ u[i - 1] = Call(u[i].of)
  <2>1. i \in DOMAIN u /\ u[i].is = "result" BY DEF Of
  <2>2. CASE i <= Len(s)
    <3>1. i \in Of("result", s) /\ u[i] = s[i] BY <1>0, <2>1, <2>2 DEF Of
    <3>2. i > 1 /\ s[i - 1] = Call(s[i].of) BY <3>1 DEF Paired
    <3> QED BY <1>0, <2>1, <2>2, <3>1, <3>2
  <2>3. CASE i > Len(s)
    <3> DEFINE j == i - Len(s)
    <3>1. j \in Of("result", t) /\ u[i] = t[j] BY <1>0, <2>1, <2>3 DEF Of
    <3>2. j > 1 /\ t[j - 1] = Call(t[j].of) BY <3>1 DEF Paired
    <3> QED BY <1>0, <2>1, <2>3, <3>1, <3>2
  <2> QED BY <1>0, <2>1, <2>2, <2>3
<1> QED BY <1>1, <1>2 DEF Paired, u

LEMMA OnePair ==
  ASSUME NEW t \in ToolNames
  PROVE  LET p == <<Call(t), Result(t)>> IN
         /\ p \in Seq(Item) /\ Len(p) = 2 /\ Paired(p) /\ NoPrompts(p) /\ Results(p) = 1
<1> DEFINE p == <<Call(t), Result(t)>>
<1>1. p \in Seq(Item) /\ Len(p) = 2 /\ p[1] = Call(t) /\ p[2] = Result(t) /\ DOMAIN p = 1 .. 2
  BY ItemTypes
<1>2. /\ Call(t).is = "call" /\ Call(t).of = t
      /\ Result(t).is = "result" /\ Result(t).of = t
  BY DEF Call, Result
<1> HIDE DEF p
<1>3. Of("call", p) = {1} /\ Of("result", p) = {2} BY <1>1, <1>2 DEF Of
<1>4. Paired(p) BY <1>1, <1>2, <1>3 DEF Paired
<1>5. NoPrompts(p) BY <1>1, <1>2 DEF NoPrompts
<1>6. Results(p) = 1 BY <1>3, FS_Singleton DEF Results
<1> QED BY <1>1, <1>4, <1>5, <1>6 DEF p

LEMMA EmptyTelling ==
  /\ Paired(<<>>) /\ NoPrompts(<<>>) /\ Results(<<>>) = 0 /\ <<>> \in Seq(Item) /\ Len(<<>>) = 0
<1>1. Of("call", <<>>) = {} /\ Of("result", <<>>) = {} BY DEF Of
<1> QED BY <1>1, FS_EmptySet DEF Paired, NoPrompts, Results

-----------------------------------------------------------------------------
(* Runs *)

LEMMA NewRunGood ==
  ASSUME NEW a \in Agents, NEW conv \in Seq(Item), \A j \in 1 .. Len(conv) : conv[j].is = "prompt"
  PROVE  LET f == Run(a, conv) IN
         f \in RunFrame /\ f.conv = conv /\ GoodRun(f)
<1> DEFINE f == Run(a, conv)
<1>1. /\ f.runner = a /\ f.agent = a /\ f.conv = conv /\ f.turn = 0 /\ f.calls = <<>>
      /\ f.done = <<>> /\ f.asked = 0 /\ f.ran = 0 /\ f.lost = 0
  BY DEF Run
<1>2. f \in RunFrame BY EmptyTelling DEF Run, RunFrame, Conversations, CallLists
<1>3. Of("call", conv) = {} /\ Of("result", conv) = {} BY LenProperties DEF Of
<1>4. Paired(conv) /\ Results(conv) = 0 BY <1>3, FS_EmptySet DEF Paired, Results
<1>5. MaxTurns[a] \in Nat BY AgentAssumption
<1> HIDE DEF f
<1> QED BY <1>1, <1>2, <1>4, <1>5, EmptyTelling DEF GoodRun, f

LEMMA AskGood ==
  ASSUME NEW f \in RunFrame, GoodRun(f), f.calls = <<>>, ~Exhausted(f), NEW r \in Responses
  PROVE  LET g == [f EXCEPT !.calls = r, !.asked = f.asked + 1] IN
         g \in RunFrame /\ g.conv = f.conv /\ GoodRun(g)
<1> DEFINE g == [f EXCEPT !.calls = r, !.asked = f.asked + 1]
<1>1. r \in Seq(ToolNames \cup {NoName}) /\ r # <<>> BY AgentAssumption
<1>2. f.asked \in Nat /\ f.turn \in Nat /\ f.runner \in Agents BY RunFields
<1>3. g \in RunFrame
  <2>1. r \in CallLists /\ f.asked + 1 \in Nat BY <1>1, <1>2 DEF CallLists
  <2> QED BY <2>1 DEF RunFrame
<1>4. /\ g.runner = f.runner /\ g.conv = f.conv /\ g.turn = f.turn /\ g.calls = r
      /\ g.done = f.done /\ g.asked = f.asked + 1 /\ g.ran = f.ran /\ g.lost = f.lost
  BY DEF RunFrame
<1>5. MaxTurns[f.runner] \in Nat /\ (MaxTurns[f.runner] > 0 => f.turn < MaxTurns[f.runner])
  BY <1>2, AgentAssumption DEF Exhausted
<1> HIDE DEF g
<1> QED BY <1>1, <1>2, <1>3, <1>4, <1>5 DEF GoodRun, g

LEMMA HandGood ==
  ASSUME NEW f \in RunFrame, GoodRun(f), f.calls # <<>>, NEW a \in Agents
  PROVE  LET g == [f EXCEPT !.agent = a, !.calls = <<>>, !.done = <<>>, !.turn = f.turn + 1,
                            !.lost = f.lost + Len(f.done) \div 2] IN
         g \in RunFrame /\ g.conv = f.conv /\ GoodRun(g)
<1> DEFINE l == f.lost + Len(f.done) \div 2
           g == [f EXCEPT !.agent = a, !.calls = <<>>, !.done = <<>>, !.turn = f.turn + 1,
                          !.lost = l]
<1>1. /\ f.asked \in Nat /\ f.turn \in Nat /\ f.runner \in Agents /\ f.lost \in Nat
      /\ f.ran \in Nat /\ f.done \in Seq(Item) /\ f.conv \in Seq(Item)
  BY RunFields
<1>2. Results(f.done) \in Nat /\ Results(f.conv) \in Nat /\ Len(f.done) = 2 * Results(f.done)
  BY <1>1, ResultsType DEF GoodRun
<1>3. l = f.lost + Results(f.done) /\ l \in Nat BY <1>1, <1>2
<1>4. <<>> \in CallLists /\ <<>> \in Conversations BY DEF CallLists, Conversations
<1> HIDE DEF l
<1>5. g \in RunFrame
  <2>1. f.turn + 1 \in Nat BY <1>1
  <2> QED BY <1>3, <1>4, <2>1 DEF RunFrame
<1>6. /\ g.runner = f.runner /\ g.conv = f.conv /\ g.turn = f.turn + 1 /\ g.calls = <<>>
      /\ g.done = <<>> /\ g.asked = f.asked /\ g.ran = f.ran /\ g.lost = l
  BY DEF RunFrame
<1>7. MaxTurns[f.runner] \in Nat BY <1>1, AgentAssumption
<1> HIDE DEF g
<1>8. g.asked <= g.turn + 0 BY <1>1, <1>6 DEF GoodRun
<1>9. MaxTurns[g.runner] > 0 => g.turn <= MaxTurns[g.runner]
  BY <1>1, <1>6, <1>7 DEF GoodRun
<1>10. Results(g.conv) + Results(g.done) + g.lost = g.ran
  BY <1>1, <1>2, <1>3, <1>6, EmptyTelling DEF GoodRun
<1>11. Paired(g.conv) BY <1>6 DEF GoodRun
<1>12. /\ g.asked <= g.turn + (IF g.calls = <<>> THEN 0 ELSE 1)
       /\ g.calls = <<>> /\ g.done = <<>>
  BY <1>6, <1>8
<1>13. GoodRun(g)
  BY <1>9, <1>10, <1>11, <1>12, EmptyTelling DEF GoodRun
<1> QED BY <1>5, <1>6, <1>13 DEF g, l

\* A tool has ended: the run is told, at once or with the last call of the
\* turn, and no prompt is added.
LEMMA ToldGood ==
  ASSUME NEW f \in RunFrame, GoodRun(f), f.calls # <<>>, Head(f.calls) \in ToolNames
  PROVE  /\ Told(f) \in RunFrame /\ GoodRun(Told(f))
         /\ \A j \in 1 .. Len(Told(f).conv) :
              Told(f).conv[j].is = "prompt" => j \in 1 .. Len(f.conv) /\ Told(f).conv[j] = f.conv[j]
<1> DEFINE t == Head(f.calls)
           p == <<Call(t), Result(t)>>
           d == f.done \o p
           rest == Tail(f.calls)
           g == [f EXCEPT !.done = d, !.calls = rest, !.ran = f.ran + 1]
<1>1. /\ f.asked \in Nat /\ f.turn \in Nat /\ f.runner \in Agents /\ f.lost \in Nat
      /\ f.ran \in Nat /\ f.done \in Seq(Item) /\ f.conv \in Seq(Item)
      /\ f.calls \in Seq(ToolNames \cup {NoName})
  BY RunFields
<1>2. p \in Seq(Item) /\ Len(p) = 2 /\ Paired(p) /\ NoPrompts(p) /\ Results(p) = 1
  BY OnePair
<1> HIDE DEF p
<1>3. /\ d \in Seq(Item) /\ Len(d) = Len(f.done) + 2
      /\ \A i \in 1 .. Len(d) : d[i] = IF i <= Len(f.done) THEN f.done[i] ELSE p[i - Len(f.done)]
  <2>1. Len(f.done) \in Nat BY <1>1, LenProperties
  <2>2. /\ d \in Seq(Item) /\ Len(d) = Len(f.done) + Len(p)
        /\ \A i \in 1 .. Len(f.done) + Len(p) :
             d[i] = IF i <= Len(f.done) THEN f.done[i] ELSE p[i - Len(f.done)]
    BY <1>1, <1>2, ConcatProperties
  <2> HIDE DEF d
  <2> QED BY <1>2, <2>1, <2>2
<1>4. Results(d) = Results(f.done) + 1 /\ Results(f.done) \in Nat /\ Results(f.conv) \in Nat
  BY <1>1, <1>2, ConcatResults, ResultsType
<1>5. Paired(d) BY <1>1, <1>2, PairedConcat DEF GoodRun
<1>6. NoPrompts(d)
  <2>1. Len(f.done) \in Nat BY <1>1, LenProperties
  <2> QED BY <1>2, <1>3, <2>1 DEF GoodRun, NoPrompts
<1>7. Len(d) = 2 * Results(d)
  <2>1. Len(f.done) = 2 * Results(f.done) BY DEF GoodRun
  <2> QED BY <2>1, <1>3, <1>4
<1> HIDE DEF d
<1>8. rest \in Seq(ToolNames \cup {NoName}) BY <1>1, HeadTailProperties
<1> HIDE DEF rest
<1>9. g \in RunFrame
  <2>1. d \in Conversations /\ rest \in CallLists /\ f.ran + 1 \in Nat
    BY <1>1, <1>3, <1>8 DEF Conversations, CallLists
  <2> QED BY <2>1 DEF RunFrame
<1>10. /\ g.runner = f.runner /\ g.conv = f.conv /\ g.turn = f.turn /\ g.calls = rest
       /\ g.done = d /\ g.asked = f.asked /\ g.ran = f.ran + 1 /\ g.lost = f.lost
  BY DEF RunFrame
<1>11. MaxTurns[f.runner] \in Nat BY <1>1, AgentAssumption
<1>12. Told(f) = EndCalls(g) BY DEF Told, d, p, t, rest
<1>13. /\ f.asked <= f.turn + 1
       /\ MaxTurns[f.runner] > 0 => f.turn < MaxTurns[f.runner]
       /\ Results(f.conv) + Results(f.done) + f.lost = f.ran
       /\ Paired(f.conv)
  BY DEF GoodRun
<1> HIDE DEF g
<1>14. CASE rest # <<>>
  <2>1. Told(f) = g BY <1>10, <1>12, <1>14 DEF EndCalls
  <2>2. /\ g.asked <= g.turn + 1 /\ g.calls # <<>>
        /\ MaxTurns[g.runner] > 0 => g.turn < MaxTurns[g.runner]
    BY <1>10, <1>13, <1>14
  <2>3. Results(g.conv) + Results(g.done) + g.lost = g.ran BY <1>1, <1>4, <1>10, <1>13
  <2>4. Paired(g.conv) /\ Paired(g.done) /\ NoPrompts(g.done) /\ Len(g.done) = 2 * Results(g.done)
    BY <1>5, <1>6, <1>7, <1>10, <1>13
  <2>5. g.turn \in Nat /\ MaxTurns[g.runner] \in Nat BY <1>1, <1>10, <1>11
  <2>6. GoodRun(g) BY <2>2, <2>3, <2>4, <2>5 DEF GoodRun
  <2> QED BY <1>9, <1>10, <2>1, <2>6
<1>15. CASE rest = <<>>
  <2> DEFINE c == f.conv \o d
             h == [g EXCEPT !.conv = c, !.done = <<>>, !.turn = f.turn + 1]
  <2>1. Told(f) = h BY <1>10, <1>12, <1>15 DEF EndCalls
  <2>2. /\ c \in Seq(Item) /\ Len(c) = Len(f.conv) + Len(d)
        /\ \A i \in 1 .. Len(c) : c[i] = IF i <= Len(f.conv) THEN f.conv[i] ELSE d[i - Len(f.conv)]
    <3>1. /\ c \in Seq(Item) /\ Len(c) = Len(f.conv) + Len(d)
          /\ \A i \in 1 .. Len(f.conv) + Len(d) :
               c[i] = IF i <= Len(f.conv) THEN f.conv[i] ELSE d[i - Len(f.conv)]
      BY <1>1, <1>3, ConcatProperties
    <3> HIDE DEF c
    <3> QED BY <3>1
  <2>3. Results(c) = Results(f.conv) + Results(d) BY <1>1, <1>3, ConcatResults
  <2>4. Paired(c) BY <1>1, <1>3, <1>5, <1>13, PairedConcat
  <2> HIDE DEF c
  <2>5. h \in RunFrame
    <3>1. c \in Conversations /\ <<>> \in Conversations /\ f.turn + 1 \in Nat
      BY <1>1, <2>2 DEF Conversations
    <3> QED BY <1>9, <3>1 DEF RunFrame
  <2>6. /\ h.runner = f.runner /\ h.conv = c /\ h.turn = f.turn + 1 /\ h.calls = <<>>
        /\ h.done = <<>> /\ h.asked = f.asked /\ h.ran = f.ran + 1 /\ h.lost = f.lost
    BY <1>9, <1>10, <1>15 DEF RunFrame
  <2> HIDE DEF h
  <2>7. /\ h.asked <= h.turn + 0
        /\ MaxTurns[h.runner] > 0 => h.turn <= MaxTurns[h.runner]
    BY <1>1, <1>11, <1>13, <2>6
  <2>8. Results(h.conv) + Results(h.done) + h.lost = h.ran
    BY <1>1, <1>4, <1>13, <2>3, <2>6, EmptyTelling
  <2>9. h.asked <= h.turn + (IF h.calls = <<>> THEN 0 ELSE 1) BY <2>6, <2>7
  <2>10. GoodRun(h) BY <2>4, <2>6, <2>7, <2>8, <2>9, EmptyTelling DEF GoodRun
  <2>11. ASSUME NEW j \in 1 .. Len(c), c[j].is = "prompt"
         PROVE  j \in 1 .. Len(f.conv) /\ c[j] = f.conv[j]
    <3>1. Len(f.conv) \in Nat /\ Len(d) \in Nat BY <1>1, <1>3, LenProperties
    <3> QED BY <2>2, <2>11, <3>1, <1>6 DEF NoPrompts
  <2> QED BY <2>1, <2>5, <2>6, <2>10, <2>11
<1> QED BY <1>14, <1>15

-----------------------------------------------------------------------------
(* Stacks *)

\* A prefix of a good stack with a good frame on it.
LEMMA PutOn ==
  ASSUME NEW s, NEW ev, GoodStack(s, ev), NEW n \in 0 .. Len(s), NEW f \in Frame,
         NEW t \in Seq(Frame), Len(t) = n + 1, t[n + 1] = f, \A i \in 1 .. n : t[i] = s[i],
         n = 0 => f \in WalkFrame, GoodFrame(f, ev, n = 0),
         n > 0 => Called(s[n], f, ev, n = 1)
  PROVE  GoodStack(t, ev)
<1>0. Len(s) \in Nat /\ n \in Nat /\ Len(t) - 1 = n BY LenProperties DEF GoodStack
<1>1. t[1] \in WalkFrame BY <1>0 DEF GoodStack
<1>2. \A i \in 1 .. Len(t) : GoodFrame(t[i], ev, i = 1)
  <2> SUFFICES ASSUME NEW i \in 1 .. n + 1 PROVE GoodFrame(t[i], ev, i = 1) OBVIOUS
  <2>1. CASE i = n + 1
    <3>1. (i = 1) = (n = 0) BY <1>0, <2>1
    <3> QED BY <2>1, <3>1
  <2>2. CASE i \in 1 .. n
    <3>1. GoodFrame(s[i], ev, i = 1) BY <1>0, <2>2 DEF GoodStack
    <3> QED BY <2>2, <3>1
  <2> QED BY <1>0, <2>1, <2>2
<1>3. \A i \in 1 .. Len(t) - 1 : Called(t[i], t[i + 1], ev, i = 1)
  <2> SUFFICES ASSUME NEW i \in 1 .. n PROVE Called(t[i], t[i + 1], ev, i = 1) BY <1>0
  <2>1. CASE i = n BY <1>0, <2>1
  <2>2. CASE i # n
    <3>1. i \in 1 .. Len(s) - 1 /\ t[i] = s[i] /\ t[i + 1] = s[i + 1] BY <1>0, <2>2
    <3>2. Called(s[i], s[i + 1], ev, i = 1) BY <3>1 DEF GoodStack
    <3> QED BY <3>1, <3>2
  <2> QED BY <2>1, <2>2
<1> QED BY <1>0, <1>1, <1>2, <1>3 DEF GoodStack

\* The forms in which the actions write the new stack.
LEMMA Forms ==
  ASSUME NEW s \in Seq(Frame), NEW f \in Frame, NEW n \in 0 .. Len(s)
  PROVE  LET t == Append(SubSeq(s, 1, n), f) IN
         /\ t \in Seq(Frame) /\ Len(t) = n + 1 /\ t[n + 1] = f
         /\ \A i \in 1 .. n : t[i] = s[i]
         /\ t[1] = IF n = 0 THEN f ELSE s[1]
<1> DEFINE p == SubSeq(s, 1, n)
<1>0. Len(s) \in Nat /\ n \in Nat BY LenProperties
<1>1. p \in Seq(Frame) /\ Len(p) = n /\ \A i \in 1 .. n : p[i] = s[i]
  <2>1. \A i \in 1 .. n : s[i] \in Frame BY <1>0, ElementOfSeq
  <2> QED BY <1>0, <2>1, SubSeqProperties
<1> HIDE DEF p
<1>2. /\ Append(p, f) \in Seq(Frame) /\ Len(Append(p, f)) = n + 1 /\ Append(p, f)[n + 1] = f
      /\ \A i \in 1 .. n : Append(p, f)[i] = p[i]
  BY <1>1, AppendProperties
<1> QED BY <1>0, <1>1, <1>2 DEF p

LEMMA ReplaceForm ==
  ASSUME NEW s \in Seq(Frame), NEW f \in Frame, NEW n \in 0 .. Len(s) - 1
  PROVE  LET t == [SubSeq(s, 1, n + 1) EXCEPT ![n + 1] = f] IN
         /\ t \in Seq(Frame) /\ Len(t) = n + 1 /\ t[n + 1] = f
         /\ \A i \in 1 .. n : t[i] = s[i]
<1> DEFINE p == SubSeq(s, 1, n + 1)
<1>0. Len(s) \in Nat /\ n \in Nat BY LenProperties
<1>1. p \in Seq(Frame) /\ Len(p) = n + 1 /\ \A i \in 1 .. n + 1 : p[i] = s[i]
  <2>1. \A i \in 1 .. n + 1 : s[i] \in Frame BY <1>0, ElementOfSeq
  <2> QED BY <1>0, <2>1, SubSeqProperties
<1> HIDE DEF p
<1>2. n + 1 \in 1 .. Len(p) BY <1>0, <1>1
<1>3. /\ [p EXCEPT ![n + 1] = f] \in Seq(Frame) /\ Len([p EXCEPT ![n + 1] = f]) = Len(p)
      /\ \A j \in 1 .. Len(p) : [p EXCEPT ![n + 1] = f][j] = IF j = n + 1 THEN f ELSE p[j]
  BY <1>1, <1>2, ExceptSeq
<1> QED BY <1>0, <1>1, <1>2, <1>3 DEF p

-----------------------------------------------------------------------------
(* What an action does to the stack *)

LEMMA StackFacts ==
  ASSUME AgentInv
  PROVE  /\ event \in Events /\ cancelled \in BOOLEAN
         /\ stack \in Seq(Frame) /\ Len(stack) \in Nat /\ Len(stack) >= 1
         /\ DOMAIN stack = 1 .. Len(stack)
         /\ stack[1] \in WalkFrame /\ GoodWalk(stack[1], event, TRUE)
         /\ \A i \in 1 .. Len(stack) : stack[i] \in Frame /\ GoodFrame(stack[i], event, i = 1)
         /\ \A i \in 1 .. Len(stack) - 1 : Called(stack[i], stack[i + 1], event, i = 1)
         /\ Top = stack[Len(stack)] /\ Top \in Frame
<1>1. /\ event \in Events /\ cancelled \in BOOLEAN
      /\ stack \in Seq(Frame) /\ Len(stack) >= 1 /\ stack[1] \in WalkFrame
      /\ \A i \in 1 .. Len(stack) : GoodFrame(stack[i], event, i = 1)
      /\ \A i \in 1 .. Len(stack) - 1 : Called(stack[i], stack[i + 1], event, i = 1)
  BY DEF AgentInv, GoodStack
<1>2. Len(stack) \in Nat /\ DOMAIN stack = 1 .. Len(stack) BY <1>1, LenProperties
<1>3. \A i \in 1 .. Len(stack) : stack[i] \in Frame BY <1>1, ElementOfSeq
<1>4. GoodFrame(stack[1], event, TRUE)
  <2>1. 1 \in 1 .. Len(stack) /\ (1 = 1) = TRUE BY <1>1, <1>2
  <2>2. GoodFrame(stack[1], event, 1 = 1) BY <1>1, <2>1
  <2> QED BY <2>1, <2>2
<1>5. GoodWalk(stack[1], event, TRUE) BY <1>1, <1>4, WalkFields DEF GoodFrame
<1>6. Len(stack) \in 1 .. Len(stack) BY <1>1, <1>2
<1>7. Top = stack[Len(stack)] /\ Top \in Frame BY <1>3, <1>6 DEF Top
<1> QED BY <1>1, <1>2, <1>3, <1>5, <1>7

\* Only the kind of a walk matters to its caller, of a run also its prompts.
LEMMA CalledWalk ==
  ASSUME NEW a, NEW b, NEW f, NEW ev, NEW bottom, Called(a, b, ev, bottom),
         b.kind = "walk", f.kind = "walk"
  PROVE  Called(a, f, ev, bottom)
BY DEF Called

LEMMA CalledRun ==
  ASSUME NEW a, NEW b, NEW f, NEW ev, NEW bottom, Called(a, b, ev, bottom),
         b.kind = "run", f.kind = "run",
         \A j \in 1 .. Len(f.conv) :
           f.conv[j].is = "prompt" => j \in 1 .. Len(b.conv) /\ f.conv[j] = b.conv[j]
  PROVE  Called(a, f, ev, bottom)
<1>1. StartedBy(a, f, ev, bottom) BY DEF Called, StartedBy
<1> QED BY <1>1 DEF Called

LEMMA PutStep ==
  ASSUME AgentInv, NEW n \in 0 .. Len(stack), NEW f \in Frame,
         stack' = Append(SubSeq(stack, 1, n), f), UNCHANGED <<cancelled, event>>,
         n = 0 => f \in WalkFrame, GoodFrame(f, event, n = 0),
         n > 0 => Called(stack[n], f, event, n = 1)
  PROVE  AgentInv'
<1>1. stack \in Seq(Frame) /\ GoodStack(stack, event) BY DEF AgentInv, GoodStack
<1>2. /\ stack' \in Seq(Frame) /\ Len(stack') = n + 1 /\ stack'[n + 1] = f
      /\ \A i \in 1 .. n : stack'[i] = stack[i]
  BY <1>1, Forms
<1>3. GoodStack(stack', event) BY <1>1, <1>2, PutOn
<1> QED BY <1>3 DEF AgentInv

LEMMA ReplaceStep ==
  ASSUME AgentInv, NEW n \in 0 .. Len(stack) - 1, NEW f \in Frame,
         stack' = [SubSeq(stack, 1, n + 1) EXCEPT ![n + 1] = f], UNCHANGED <<cancelled, event>>,
         n = 0 => f \in WalkFrame, GoodFrame(f, event, n = 0),
         n > 0 => Called(stack[n], f, event, n = 1)
  PROVE  AgentInv'
<1>1. stack \in Seq(Frame) /\ GoodStack(stack, event) BY DEF AgentInv, GoodStack
<1>2. /\ stack' \in Seq(Frame) /\ Len(stack') = n + 1 /\ stack'[n + 1] = f
      /\ \A i \in 1 .. n : stack'[i] = stack[i]
  BY <1>1, ReplaceForm
<1>3. n \in 0 .. Len(stack) BY <1>1, LenProperties
<1>4. GoodStack(stack', event) BY <1>1, <1>2, <1>3, PutOn
<1> QED BY <1>4 DEF AgentInv

\* A frame is put on the whole stack.
LEMMA PushStep ==
  ASSUME AgentInv, NEW f \in Frame, stack' = Append(stack, f), UNCHANGED <<cancelled, event>>,
         GoodFrame(f, event, FALSE), Called(Top, f, event, Len(stack) = 1)
  PROVE  AgentInv'
<1>1. stack \in Seq(Frame) /\ Len(stack) \in Nat /\ Len(stack) >= 1 /\ Top = stack[Len(stack)]
  BY StackFacts
<1>2. SubSeq(stack, 1, Len(stack)) = stack BY <1>1, SubSeqFull
<1> DEFINE n == Len(stack)
<1>3. n \in 0 .. Len(stack) /\ n > 0 /\ (n = 0) = FALSE BY <1>1
<1>4. GoodFrame(f, event, n = 0) BY <1>3
<1> QED BY <1>1, <1>2, <1>3, <1>4, PutStep

\* An error in the middle of an event.
LEMMA AbortStep ==
  ASSUME AgentInv, NEW main \in WalkFrame, GoodWalk(main, event, TRUE), Abort(main)
  PROVE  AgentInv'
<1> DEFINE g == [main EXCEPT !.at = Idle, !.from = NoName]
<1>1. g \in WalkFrame /\ GoodWalk(g, event, TRUE) BY StackFacts, RestGood
<1>2. stack' = <<g>> /\ UNCHANGED <<cancelled, event>> BY DEF Abort
<1> HIDE DEF g
<1>3. /\ stack' \in Seq(Frame) /\ Len(stack') = 1 /\ stack'[1] = g
  BY <1>1, <1>2 DEF Frame
<1>4. GoodFrame(g, event, TRUE) BY <1>1, WalkFields DEF GoodFrame
<1>5. \A i \in 1 .. Len(stack') : GoodFrame(stack'[i], event, i = 1)
  <2> SUFFICES ASSUME NEW i \in 1 .. 1 PROVE GoodFrame(stack'[i], event, i = 1) BY <1>3
  <2>1. i = 1 /\ (i = 1) = TRUE OBVIOUS
  <2> QED BY <1>3, <1>4, <2>1
<1>6. GoodStack(stack', event) BY <1>1, <1>3, <1>5 DEF GoodStack
<1> QED BY <1>2, <1>6, StackFacts DEF AgentInv

\* One that loses the frames above the walk f, at the height n + 1.
LEMMA AbortAt ==
  ASSUME AgentInv, NEW n \in 0 .. Len(stack) - 1, NEW f \in WalkFrame,
         GoodWalk(f, event, n = 0), Abort(Append(SubSeq(stack, 1, n), f)[1])
  PROVE  AgentInv'
<1>1. n \in 0 .. Len(stack) BY StackFacts
<1>2. Append(SubSeq(stack, 1, n), f)[1] = IF n = 0 THEN f ELSE stack[1]
  BY <1>1, StackFacts, Forms DEF Frame
<1>3. CASE n = 0
  <2>1. GoodWalk(f, event, TRUE) BY <1>3
  <2> QED BY <1>2, <1>3, <2>1, AbortStep
<1>4. CASE n # 0 BY <1>2, <1>4, StackFacts, AbortStep
<1> QED BY <1>3, <1>4

\* The walk at the height n + 1 goes on as f.
LEMMA WalkOn ==
  ASSUME AgentInv, NEW n \in 0 .. Len(stack) - 1, stack[n + 1].kind = "walk",
         NEW f \in WalkFrame, GoodWalk(f, event, n = 0),
         stack' = Append(SubSeq(stack, 1, n), f), UNCHANGED <<cancelled, event>>
  PROVE  AgentInv'
<1>1. f.kind = "walk" BY WalkFields
<1>2. n \in 0 .. Len(stack) /\ (n > 0 => Called(stack[n], stack[n + 1], event, n = 1))
  BY StackFacts
<1>3. n > 0 => Called(stack[n], f, event, n = 1) BY <1>1, <1>2, CalledWalk
<1>4. GoodFrame(f, event, n = 0) BY <1>1 DEF GoodFrame
<1> QED BY <1>2, <1>3, <1>4, PutStep DEF Frame

LEMMA LeaveStep ==
  ASSUME AgentInv, NEW n \in 0 .. Len(stack) - 1, stack[n + 1].kind = "walk",
         NEW f \in WalkFrame, f.at \in Nodes, GoodWalk(f, event, n = 0),
         f.at \in Agents => HasOutputs(f.written, f.at),
         Leave(f, SubSeq(stack, 1, n))
  PROVE  AgentInv'
<1>1. CASE Abort(Append(SubSeq(stack, 1, n), f)[1]) BY <1>1, AbortAt
<1>2. ASSUME NEW e \in OutEdges[f.at], UNCHANGED <<cancelled, event>>,
             stack' = Append(SubSeq(stack, 1, n), Follow(f, e, event))
      PROVE  AgentInv'
  <2>1. e \in Edge /\ event \in Events BY EdgeFields, StackFacts
  <2>2. Follow(f, e, event) \in WalkFrame /\ GoodWalk(Follow(f, e, event), event, n = 0)
    BY <2>1, FollowGood
  <2> QED BY <1>2, <2>2, WalkOn
<1> QED BY <1>1, <1>2 DEF Leave

LEMMA BranchStep ==
  ASSUME AgentInv, NEW n \in 0 .. Len(stack) - 1, stack[n + 1].kind = "walk",
         NEW f \in WalkFrame, f.at \in Agents, GoodWalk(f, event, n = 0),
         HasOutputs(f.written, f.at), Branch(f, SubSeq(stack, 1, n))
  PROVE  AgentInv'
<1>1. CASE Abort(Append(SubSeq(stack, 1, n), f)[1]) BY <1>1, AbortAt
<1>2. ASSUME NEW e \in OutEdges[f.at], UNCHANGED <<cancelled, event>>,
             stack' = Append(SubSeq(stack, 1, n), Follow(f, e, event))
      PROVE  AgentInv'
  <2>1. e \in Edge /\ event \in Events /\ f.at \in Nodes BY EdgeFields, StackFacts DEF Nodes
  <2>2. Follow(f, e, event) \in WalkFrame /\ GoodWalk(Follow(f, e, event), event, n = 0)
    BY <2>1, FollowGood
  <2> QED BY <1>2, <2>2, WalkOn
<1>3. CASE /\ stack' = Append(SubSeq(stack, 1, n), [f EXCEPT !.at = Idle, !.from = f.at])
           /\ UNCHANGED <<cancelled, event>>
  <2> DEFINE g == [f EXCEPT !.at = Idle, !.from = f.at]
  <2>1. g \in WalkFrame /\ GoodWalk(g, event, n = 0) BY StackFacts, EndGood
  <2> HIDE DEF g
  <2>2. stack' = Append(SubSeq(stack, 1, n), g) BY <1>3 DEF g
  <2> QED BY <1>3, <2>1, <2>2, WalkOn
<1> QED BY <1>1, <1>2, <1>3 DEF Branch

\* The answer of the agent at which the walk of height n + 1 stands.
LEMMA ApplyAnswerStep ==
  ASSUME AgentInv, NEW n \in 0 .. Len(stack) - 1, stack[n + 1].kind = "walk",
         stack[n + 1].at \in Agents, ApplyAnswer(stack[n + 1], SubSeq(stack, 1, n))
  PROVE  AgentInv'
<1> DEFINE f == stack[n + 1]
           callers == SubSeq(stack, 1, n)
<1>1. f \in WalkFrame /\ GoodWalk(f, event, n = 0)
  <2>1. n + 1 \in 1 .. Len(stack) /\ (n + 1 = 1) = (n = 0) BY StackFacts
  <2>2. f \in Frame /\ GoodFrame(f, event, n + 1 = 1) BY <2>1, StackFacts
  <2> QED BY <2>1, <2>2, Kinds DEF GoodFrame
<1>2. Declared[f.at] \in Nat /\ event \in Events BY AgentAssumption, StackFacts
<1> HIDE DEF f
<1>3. ASSUME NEW k \in 0 .. Declared[f.at]
      PROVE  /\ Wrote(f, k) \in WalkFrame /\ GoodWalk(Wrote(f, k), event, n = 0)
             /\ Wrote(f, k).at = f.at
             /\ k = Declared[f.at] => HasOutputs(Wrote(f, k).written, Wrote(f, k).at)
  BY <1>1, <1>2, WroteGood DEF f
<1>4. CASE Branch(Wrote(f, Declared[f.at]), callers)
  <2> DEFINE g == Wrote(f, Declared[f.at])
  <2>1. g \in WalkFrame /\ GoodWalk(g, event, n = 0) /\ g.at \in Agents /\ HasOutputs(g.written, g.at)
    BY <1>2, <1>3 DEF f
  <2> HIDE DEF g
  <2>2. Branch(g, SubSeq(stack, 1, n)) BY <1>4 DEF g
  <2> QED BY <2>1, <2>2, BranchStep
<1>5. CASE Abort(Append(callers, f)[1]) BY <1>1, <1>5, AbortAt
<1>6. ASSUME NEW k \in 0 .. Declared[f.at], Abort(Append(callers, Wrote(f, k))[1])
      PROVE  AgentInv'
  <2> DEFINE g == Wrote(f, k)
  <2>1. g \in WalkFrame /\ GoodWalk(g, event, n = 0) BY <1>3
  <2> HIDE DEF g
  <2>2. Abort(Append(SubSeq(stack, 1, n), g)[1]) BY <1>6 DEF g
  <2> QED BY <2>1, <2>2, AbortAt
<1>7. ApplyAnswer(f, callers) BY DEF f
<1> QED BY <1>4, <1>5, <1>6, <1>7 DEF ApplyAnswer

-----------------------------------------------------------------------------
(* The actions *)

\* The frame on top, by its kind, and the one below.
LEMMA TopWalk ==
  ASSUME AgentInv, Top.kind = "walk"
  PROVE  /\ Top \in WalkFrame
         /\ GoodWalk(Top, event, Len(stack) - 1 = 0)
<1>1. Len(stack) \in 1 .. Len(stack) /\ (Len(stack) - 1 = 0) = (Len(stack) = 1) BY StackFacts
<1>2. Top \in WalkFrame /\ GoodFrame(Top, event, Len(stack) = 1) BY <1>1, StackFacts, Kinds
<1> QED BY <1>1, <1>2 DEF GoodFrame

LEMMA TopRun ==
  ASSUME AgentInv, Top.kind = "run"
  PROVE  /\ Top \in RunFrame /\ GoodRun(Top)
         /\ Len(stack) > 1
<1>1. Len(stack) \in 1 .. Len(stack) BY StackFacts
<1>2. Top \in RunFrame /\ GoodFrame(Top, event, Len(stack) = 1) BY <1>1, StackFacts, Kinds
<1>3. GoodRun(Top) BY <1>2 DEF GoodFrame
<1>4. Len(stack) # 1 BY StackFacts, WalkFields
<1> QED BY <1>2, <1>3, <1>4, StackFacts

LEMMA BelowFacts ==
  ASSUME AgentInv, Len(stack) > 1
  PROVE  LET n == Len(stack) - 2 IN
         /\ n \in 0 .. Len(stack) - 1 /\ Below = stack[n + 1] /\ Below \in Frame
         /\ Called(Below, Top, event, n = 0)
         /\ GoodFrame(Below, event, n = 0)
         /\ n > 0 => Called(stack[n], Below, event, n = 1)
         /\ n = 0 => Below \in WalkFrame
<1> DEFINE n == Len(stack) - 2
<1>1. /\ n \in 0 .. Len(stack) - 1 /\ n + 1 = Len(stack) - 1 /\ n + 1 + 1 = Len(stack)
      /\ n + 1 \in 1 .. Len(stack) /\ n + 1 \in 1 .. Len(stack) - 1 /\ (n + 1 = 1) = (n = 0)
  BY StackFacts
<1>2. Below = stack[n + 1] /\ Below \in Frame BY <1>1, StackFacts DEF Below
<1>3. Called(stack[n + 1], stack[n + 1 + 1], event, n + 1 = 1) BY <1>1, StackFacts
<1>4. Called(Below, Top, event, n = 0) BY <1>1, <1>2, <1>3, StackFacts
<1>5. GoodFrame(stack[n + 1], event, n + 1 = 1) BY <1>1, StackFacts
<1>6. GoodFrame(Below, event, n = 0) BY <1>1, <1>2, <1>5
<1>7. n > 0 => Called(stack[n], stack[n + 1], event, n = 1)
  <2>1. n > 0 => n \in 1 .. Len(stack) - 1 BY <1>1
  <2> QED BY <2>1, StackFacts
<1> QED BY <1>1, <1>2, <1>4, <1>6, <1>7, StackFacts

LEMMA FireStep == ASSUME AgentInv, Fire PROVE AgentInv'
<1> PICK e \in Starts :
      stack' = <<Enter([stack[1] EXCEPT !.written = {}, !.cleared = FALSE], e, event + 1)>>
  BY DEF Fire
<1>1. event \in Nat /\ event < MaxEvents /\ event' = event + 1 /\ cancelled' = cancelled
  BY StackFacts DEF Fire, Events
<1>2. event' \in Events BY <1>1, BoundAssumption DEF Events
<1> DEFINE f == [stack[1] EXCEPT !.written = {}, !.cleared = FALSE]
           g == Enter(f, e, event + 1)
<1>3. /\ f \in WalkFrame /\ f.conv = stack[1].conv /\ f.graph = stack[1].graph
      /\ f.written = {} /\ f.cleared = FALSE
  <2>1. stack[1] \in WalkFrame BY StackFacts
  <2> QED BY <2>1 DEF WalkFrame
<1> HIDE DEF f
<1>4. OwnPrompts(f.conv, f.graph, event + 1, TRUE /\ ~f.cleared)
  <2>1. GoodWalk(stack[1], event, TRUE) BY StackFacts
  <2> QED BY <1>3, <2>1 DEF GoodWalk, OwnPrompts
<1>5. InOrder(f.written) BY <1>3 DEF InOrder
<1>6. e \in Edge /\ event + 1 \in Events BY <1>1, <1>2, EdgeFields
<1>7. g \in WalkFrame /\ GoodWalk(g, event + 1, TRUE)
  BY <1>3, <1>4, <1>5, <1>6, EnterGood
<1>8. stack' = <<g>> BY DEF f
<1> HIDE DEF g
<1>9. stack' \in Seq(Frame) /\ Len(stack') = 1 /\ stack'[1] = g BY <1>7, <1>8 DEF Frame
<1>10. GoodFrame(g, event + 1, TRUE) BY <1>7, WalkFields DEF GoodFrame
<1>11. \A i \in 1 .. Len(stack') : GoodFrame(stack'[i], event + 1, i = 1)
  <2> SUFFICES ASSUME NEW i \in 1 .. 1 PROVE GoodFrame(stack'[i], event + 1, i = 1) BY <1>9
  <2>1. i = 1 /\ (i = 1) = TRUE OBVIOUS
  <2> QED BY <1>9, <1>10, <2>1
<1>12. GoodStack(stack', event + 1) BY <1>7, <1>9, <1>11 DEF GoodStack
<1> QED BY <1>1, <1>2, <1>12, StackFacts DEF AgentInv

LEMMA ExecuteStepStep == ASSUME AgentInv, ExecuteStep PROVE AgentInv'
<1>1. CASE Abort(stack[1]) BY <1>1, AbortStep, StackFacts
<1>2. CASE Leave(Top, Callers)
  <2> DEFINE n == Len(stack) - 1
  <2>1. /\ Top \in WalkFrame /\ Top.at \in Nodes /\ Top.at \notin Agents /\ Top.kind = "walk"
        /\ GoodWalk(Top, event, n = 0)
    BY TopWalk, GraphAssumption DEF ExecuteStep, Walking, Nodes
  <2>2. n \in 0 .. Len(stack) - 1 /\ stack[n + 1] = Top /\ Callers = SubSeq(stack, 1, n)
    BY StackFacts DEF Callers
  <2> HIDE DEF n
  <2>3. Leave(Top, SubSeq(stack, 1, n)) /\ stack[n + 1].kind = "walk" BY <1>2, <2>1, <2>2
  <2> QED BY <2>1, <2>2, <2>3, LeaveStep
<1> QED BY <1>1, <1>2 DEF ExecuteStep

LEMMA EnterFunctionStep ==
  ASSUME AgentInv, NEW c \in Calls, EnterFunction(c), UNCHANGED <<cancelled, event>>,
         Top.kind = "run" => Top.calls # <<>> /\ Head(Top.calls) \in ToolNames,
         Top.kind = "walk" => Top.at \in Calls
  PROVE  AgentInv'
<1> DEFINE g == FnOf[c]
           f == Enter(EmptyScope(g), FnEntry[g], event)
<1>1. g \in Functions /\ g \in Graphs /\ FnEntry[g] \in Edge /\ event \in Events
  BY EdgeFields, StackFacts DEF Graphs
<1>2. stack' = Append(stack, f) BY DEF EnterFunction
<1>3. f \in WalkFrame /\ GoodWalk(f, event, FALSE)
  <2> DEFINE h == EmptyScope(g)
  <2>1. h \in WalkFrame /\ OwnPrompts(h.conv, h.graph, event, FALSE /\ ~h.cleared) /\ InOrder(h.written)
    BY <1>1, EmptyScopeGood
  <2> HIDE DEF h, g
  <2>2. Enter(h, FnEntry[g], event) \in WalkFrame /\ GoodWalk(Enter(h, FnEntry[g], event), event, FALSE)
    BY <1>1, <2>1, EnterGood
  <2> QED BY <2>2 DEF h
<1> HIDE DEF f, g
<1>4. f.kind = "walk" BY <1>3, WalkFields
<1>5. GoodFrame(f, event, FALSE) BY <1>3, <1>4 DEF GoodFrame
<1>6. Called(Top, f, event, Len(stack) = 1)
  BY <1>4, GraphAssumption DEF Called, Nodes
<1> QED BY <1>2, <1>3, <1>5, <1>6, PushStep DEF Frame

LEMMA ExecuteCallStep == ASSUME AgentInv, ExecuteCall PROVE AgentInv'
<1>1. CASE Abort(stack[1]) BY <1>1, AbortStep, StackFacts
<1>2. CASE EnterFunction(Top.at) /\ UNCHANGED <<cancelled, event>>
  <2>1. Top.kind = "walk" /\ Top.at \in Calls BY DEF ExecuteCall, Walking
  <2> QED BY <1>2, <2>1, EnterFunctionStep
<1> QED BY <1>1, <1>2 DEF ExecuteCall

LEMMA ExecuteAgentStep == ASSUME AgentInv, ExecuteAgent PROVE AgentInv'
<1>1. CASE Abort(stack[1]) BY <1>1, AbortStep, StackFacts
<1>2. CASE stack' = Append(stack, Run(Top.at, Top.conv)) /\ UNCHANGED <<cancelled, event>>
  <2> DEFINE f == Run(Top.at, Top.conv)
  <2>0. (Len(stack) - 1 = 0) = (Len(stack) = 1) BY StackFacts
  <2>1. /\ Top \in WalkFrame /\ Top.kind = "walk" /\ Top.at \in Agents /\ Top.conv \in Seq(Item)
        /\ OwnPrompts(Top.conv, Top.graph, event, Len(stack) = 1 /\ ~Top.cleared)
    BY <2>0, TopWalk, WalkFields DEF ExecuteAgent, Walking, GoodWalk
  <2>2. f \in RunFrame /\ f.conv = Top.conv /\ GoodRun(f)
    BY <2>1, NewRunGood DEF OwnPrompts
  <2>3. stack' = Append(stack, f) BY <1>2
  <2> HIDE DEF f
  <2>4. f.kind = "run" BY <2>2, RunFields
  <2>5. GoodFrame(f, event, FALSE) BY <2>2, <2>4 DEF GoodFrame
  <2>6. StartedBy(Top, f, event, Len(stack) = 1) BY <2>1, <2>2 DEF StartedBy, OwnPrompts
  <2>7. Called(Top, f, event, Len(stack) = 1) BY <2>1, <2>4, <2>6 DEF Called, Nodes
  <2> QED BY <1>2, <2>2, <2>3, <2>5, <2>7, PushStep DEF Frame
<1> QED BY <1>1, <1>2 DEF ExecuteAgent

\* A function or an agent answers the run below.
LEMMA AnswerRun ==
  ASSUME AgentInv, Len(stack) > 1, Below.kind = "run", stack' = Return(Told(Below)),
         UNCHANGED <<cancelled, event>>
  PROVE  AgentInv'
<1> DEFINE n == Len(stack) - 2
           f == Told(Below)
<1>1. /\ n \in 0 .. Len(stack) - 1 /\ Below = stack[n + 1] /\ Below \in Frame
      /\ Called(Below, Top, event, n = 0)
      /\ GoodFrame(Below, event, n = 0)
      /\ n > 0 => Called(stack[n], Below, event, n = 1)
      /\ n = 0 => Below \in WalkFrame
  BY BelowFacts
<1>2. Below \in RunFrame /\ GoodRun(Below) /\ Below.calls # <<>> /\ Head(Below.calls) \in ToolNames
  BY <1>1, Kinds DEF GoodFrame, Called
<1>3. /\ f \in RunFrame /\ GoodRun(f)
      /\ \A j \in 1 .. Len(f.conv) :
           f.conv[j].is = "prompt" => j \in 1 .. Len(Below.conv) /\ f.conv[j] = Below.conv[j]
  BY <1>2, ToldGood
<1>4. n + 1 = Len(stack) - 1 BY StackFacts
<1>5. stack' = [SubSeq(stack, 1, n + 1) EXCEPT ![n + 1] = f] BY <1>4 DEF Return, Callers
<1> HIDE DEF n, f
<1>6. f.kind = "run" BY <1>3, RunFields
<1>7. n # 0 BY <1>1, <1>2, WalkFields
<1>8. n > 0 => Called(stack[n], f, event, n = 1) BY <1>1, <1>3, <1>6, CalledRun
<1>9. GoodFrame(f, event, n = 0) BY <1>3, <1>6 DEF GoodFrame
<1> QED BY <1>1, <1>3, <1>5, <1>7, <1>8, <1>9, ReplaceStep DEF Frame

LEMMA FunctionEndsStep == ASSUME AgentInv, FunctionEnds PROVE AgentInv'
<1>1. Top.kind = "walk" /\ Len(stack) > 1 BY DEF FunctionEnds
<1>2. CASE Abort(stack[1]) BY <1>2, AbortStep, StackFacts
<1>3. CASE Below.kind = "run" /\ stack' = Return(Told(Below)) /\ UNCHANGED <<cancelled, event>>
  BY <1>1, <1>3, AnswerRun
<1>4. CASE Below.kind = "walk" /\ Leave(Below, SubSeq(stack, 1, Len(stack) - 2))
  <2> DEFINE n == Len(stack) - 2
  <2>1. /\ n \in 0 .. Len(stack) - 1 /\ Below = stack[n + 1] /\ Below \in Frame
        /\ Called(Below, Top, event, n = 0) /\ GoodFrame(Below, event, n = 0)
    BY <1>1, BelowFacts
  <2>2. Below \in WalkFrame /\ GoodWalk(Below, event, n = 0) BY <1>4, <2>1, Kinds DEF GoodFrame
  <2>3. Below.at \in Nodes /\ Below.at \notin Agents BY <1>1, <1>4, <2>1 DEF Called
  <2>4. Leave(Below, SubSeq(stack, 1, n)) BY <1>4
  <2> HIDE DEF n
  <2> QED BY <1>4, <2>1, <2>2, <2>3, <2>4, LeaveStep
<1> QED BY <1>2, <1>3, <1>4 DEF FunctionEnds

LEMMA ChatFinalStep == ASSUME AgentInv, ChatFinal PROVE AgentInv'
<1>1. Top.kind = "run" /\ Len(stack) > 1 BY TopRun DEF ChatFinal, Asking
<1>2. CASE Below.kind = "run" /\ stack' = Return(Told(Below)) /\ UNCHANGED <<cancelled, event>>
  BY <1>1, <1>2, AnswerRun
<1>3. CASE Below.kind = "walk" /\ ApplyAnswer(Below, SubSeq(stack, 1, Len(stack) - 2))
  <2> DEFINE n == Len(stack) - 2
  <2>1. /\ n \in 0 .. Len(stack) - 1 /\ Below = stack[n + 1]
        /\ Called(Below, Top, event, n = 0)
    BY <1>1, BelowFacts
  <2>2. Below.at \in Agents BY <1>1, <1>3, <2>1 DEF Called
  <2>3. ApplyAnswer(Below, SubSeq(stack, 1, n)) BY <1>3
  <2> HIDE DEF n
  <2>4. /\ stack[n + 1].kind = "walk" /\ stack[n + 1].at \in Agents
        /\ ApplyAnswer(stack[n + 1], SubSeq(stack, 1, n))
    BY <1>3, <2>1, <2>2, <2>3
  <2> QED BY <2>1, <2>4, ApplyAnswerStep
<1> QED BY <1>2, <1>3 DEF ChatFinal

\* The run on top goes on as f.
LEMMA RunOn ==
  ASSUME AgentInv, Top.kind = "run", NEW f \in RunFrame, GoodRun(f),
         stack' = Replace(f), UNCHANGED <<cancelled, event>>,
         \A j \in 1 .. Len(f.conv) :
           f.conv[j].is = "prompt" => j \in 1 .. Len(Top.conv) /\ f.conv[j] = Top.conv[j]
  PROVE  AgentInv'
<1> DEFINE n == Len(stack) - 1
<1>1. /\ n \in 0 .. Len(stack) - 1 /\ n + 1 = Len(stack) /\ n > 0 /\ n \in 1 .. Len(stack) - 1
      /\ stack[n + 1] = Top /\ stack \in Seq(Frame)
  BY StackFacts, TopRun
<1>2. SubSeq(stack, 1, n + 1) = stack BY <1>1, SubSeqFull
<1>3. stack' = [SubSeq(stack, 1, n + 1) EXCEPT ![n + 1] = f] BY <1>1, <1>2 DEF Replace
<1> HIDE DEF n
<1>4. Called(stack[n], stack[n + 1], event, n = 1) BY <1>1, StackFacts
<1>5. f.kind = "run" BY RunFields
<1>6. Called(stack[n], f, event, n = 1) BY <1>1, <1>4, <1>5, CalledRun
<1>7. GoodFrame(f, event, n = 0) BY <1>5 DEF GoodFrame
<1> QED BY <1>1, <1>3, <1>6, <1>7, ReplaceStep DEF Frame

LEMMA ChatCallsStep == ASSUME AgentInv, ChatCalls PROVE AgentInv'
<1> PICK r \in Responses : stack' = Replace([Top EXCEPT !.calls = r, !.asked = Top.asked + 1])
  BY DEF ChatCalls
<1>1. /\ Top.kind = "run" /\ Top.calls = <<>> /\ ~Exhausted(Top) /\ UNCHANGED <<cancelled, event>>
      /\ Top \in RunFrame /\ GoodRun(Top)
  BY TopRun DEF ChatCalls, Asking
<1> DEFINE g == [Top EXCEPT !.calls = r, !.asked = Top.asked + 1]
<1>2. g \in RunFrame /\ g.conv = Top.conv /\ GoodRun(g) BY <1>1, AskGood
<1>3. stack' = Replace(g) OBVIOUS
<1> HIDE DEF g
<1> QED BY <1>1, <1>2, <1>3, RunOn

LEMMA CallEffectStep == ASSUME AgentInv, CallEffect PROVE AgentInv'
<1>1. /\ Top.kind = "run" /\ Top.calls # <<>> /\ Head(Top.calls) \in ToolNames
      /\ stack' = Replace(Told(Top)) /\ UNCHANGED <<cancelled, event>>
      /\ Top \in RunFrame /\ GoodRun(Top)
  BY TopRun DEF CallEffect, Calling, Offered, Name, ToolNames
<1> QED BY <1>1, ToldGood, RunOn

LEMMA HandOverStep == ASSUME AgentInv, HandOver PROVE AgentInv'
<1>1. /\ Top.kind = "run" /\ Top.calls # <<>> /\ Name \in Handoffs /\ UNCHANGED <<cancelled, event>>
      /\ Top \in RunFrame /\ GoodRun(Top)
  BY TopRun DEF HandOver, Calling, Offered
<1>2. AgentOf[Name] \in Agents BY <1>1, AgentAssumption
<1> DEFINE g == [Top EXCEPT !.agent = AgentOf[Name], !.calls = <<>>, !.done = <<>>,
                            !.turn = Top.turn + 1, !.lost = Top.lost + Len(Top.done) \div 2]
<1>3. g \in RunFrame /\ g.conv = Top.conv /\ GoodRun(g) BY <1>1, <1>2, HandGood
<1>4. stack' = Replace(g) BY DEF HandOver
<1> HIDE DEF g
<1> QED BY <1>1, <1>3, <1>4, RunOn

LEMMA CallFunctionStep == ASSUME AgentInv, CallFunction PROVE AgentInv'
<1>1. /\ Top.kind = "run" /\ Top.calls # <<>> /\ Head(Top.calls) \in ToolNames
      /\ Name \in Calls /\ EnterFunction(Name) /\ UNCHANGED <<cancelled, event>>
  BY DEF CallFunction, Calling, Offered, Name, ToolNames
<1> QED BY <1>1, EnterFunctionStep

LEMMA CallAgentStep == ASSUME AgentInv, CallAgent PROVE AgentInv'
<1>1. /\ Top.kind = "run" /\ Top.calls # <<>> /\ Head(Top.calls) \in ToolNames
      /\ Name \in AgentTools /\ Name \in ToolNames /\ UNCHANGED <<cancelled, event>>
      /\ Name = Head(Top.calls)
      /\ stack' = Append(stack, Run(AgentOf[Name], <<Prompt(event, Name)>>))
  BY DEF CallAgent, Calling, Offered, Name, ToolNames
<1> DEFINE p == Prompt(event, Name)
           a == AgentOf[Name]
           f == Run(a, <<p>>)
<1>2. a \in Agents BY <1>1, AgentAssumption
<1>3. p \in Item /\ p.is = "prompt" BY <1>1, StackFacts, ItemTypes DEF Prompt
<1> HIDE DEF p, a
<1>4. <<p>> \in Seq(Item) /\ Len(<<p>>) = 1 /\ <<p>>[1] = p BY <1>3
<1>5. f \in RunFrame /\ f.conv = <<p>> /\ GoodRun(f)
  <2> DEFINE c == <<p>>
  <2>1. c \in Seq(Item) /\ \A j \in 1 .. Len(c) : c[j].is = "prompt" BY <1>3, <1>4
  <2> HIDE DEF c
  <2>2. Run(a, c) \in RunFrame /\ Run(a, c).conv = c /\ GoodRun(Run(a, c))
    BY <1>2, <2>1, NewRunGood
  <2> QED BY <2>2 DEF c
<1>6. stack' = Append(stack, f) BY <1>1 DEF p, a
<1> HIDE DEF f
<1>7. f.kind = "run" BY <1>5, RunFields
<1>8. GoodFrame(f, event, FALSE) BY <1>5, <1>7 DEF GoodFrame
<1>9. StartedBy(Top, f, event, Len(stack) = 1)
  BY <1>1, <1>4, <1>5 DEF StartedBy, p
<1>10. Called(Top, f, event, Len(stack) = 1) BY <1>1, <1>9 DEF Called
<1> QED BY <1>1, <1>5, <1>6, <1>8, <1>10, PushStep DEF Frame

-----------------------------------------------------------------------------
(* The invariant *)

LEMMA InitInv == Init => AgentInv
<1> SUFFICES ASSUME Init PROVE AgentInv OBVIOUS
<1> DEFINE w == Walk(Main, <<>>, FALSE)
<1>1. w \in WalkFrame /\ w.conv = <<>> /\ w.from = NoName /\ w.written = {} /\ w.kind = "walk"
  <2>1. <<>> \in Conversations BY DEF Conversations
  <2> QED BY <2>1 DEF Walk, WalkFrame, Graphs
<1>2. cancelled = FALSE /\ event = 0 /\ stack = <<w>> BY DEF Init
<1> HIDE DEF w
<1>3. GoodWalk(w, 0, TRUE)
  <2>1. OwnPrompts(w.conv, w.graph, 0, TRUE /\ ~w.cleared) BY <1>1 DEF OwnPrompts
  <2>2. w.from \notin Agents BY <1>1, GraphAssumption DEF Nodes
  <2>3. InOrder(w.written) BY <1>1 DEF InOrder
  <2> QED BY <2>1, <2>2, <2>3 DEF GoodWalk
<1>4. stack \in Seq(Frame) /\ Len(stack) = 1 /\ stack[1] = w BY <1>1, <1>2 DEF Frame
<1>5. \A i \in 1 .. Len(stack) : GoodFrame(stack[i], event, i = 1)
  <2>1. GoodFrame(w, 0, TRUE) BY <1>1, <1>3 DEF GoodFrame
  <2>2. \A i \in 1 .. Len(stack) : i = 1 /\ (i = 1) = TRUE BY <1>4
  <2> QED BY <1>2, <1>4, <2>1, <2>2
<1>6. GoodStack(stack, event) BY <1>1, <1>4, <1>5 DEF GoodStack
<1>7. event \in Events BY <1>2, BoundAssumption DEF Events
<1> QED BY <1>2, <1>6, <1>7 DEF AgentInv

LEMMA StepInv == AgentInv /\ [Next]_vars => AgentInv'
<1> SUFFICES ASSUME AgentInv, [Next]_vars PROVE AgentInv' OBVIOUS
<1>1. CASE Fire BY <1>1, FireStep
<1>2. CASE StopWalking BY <1>2, AbortStep, StackFacts DEF StopWalking
<1>3. CASE ExecuteStep BY <1>3, ExecuteStepStep
<1>4. CASE ExecuteCall BY <1>4, ExecuteCallStep
<1>5. CASE ExecuteAgent BY <1>5, ExecuteAgentStep
<1>6. CASE FunctionEnds BY <1>6, FunctionEndsStep
<1>7. CASE ChatFails BY <1>7, AbortStep, StackFacts DEF ChatFails
<1>8. CASE ChatCalls BY <1>8, ChatCallsStep
<1>9. CASE ChatFinal BY <1>9, ChatFinalStep
<1>10. CASE CallFails BY <1>10, AbortStep, StackFacts DEF CallFails
<1>11. CASE CallEffect BY <1>11, CallEffectStep
<1>12. CASE CallFunction BY <1>12, CallFunctionStep
<1>13. CASE CallAgent BY <1>13, CallAgentStep
<1>14. CASE HandOver BY <1>14, HandOverStep
<1>15. CASE Cancel
  <2>1. cancelled' \in BOOLEAN /\ event' = event /\ stack' = stack BY <1>15 DEF Cancel
  <2> QED BY <2>1 DEF AgentInv
<1>16. CASE UNCHANGED vars
  <2>1. cancelled' = cancelled /\ event' = event /\ stack' = stack BY <1>16 DEF vars
  <2> QED BY <2>1 DEF AgentInv
<1>17. CASE Over BY <1>16, <1>17 DEF Over
<1> QED
  BY <1>1, <1>2, <1>3, <1>4, <1>5, <1>6, <1>7, <1>8, <1>9, <1>10, <1>11, <1>12, <1>13,
     <1>14, <1>15, <1>16, <1>17 DEF Next, Step

LEMMA Invariance == Spec => []AgentInv
BY InitInv, StepInv, PTL DEF Spec

-----------------------------------------------------------------------------
(* The theorems *)

\* The call stack of Runner.Run, Function.Call and the agents' runs is well
\* formed at any depth, and the main graph's walk stays at its bottom.
THEOREM AgentTypeCorrect == Spec => []TypeOK
<1>1. AgentInv => TypeOK
  <2> SUFFICES ASSUME AgentInv PROVE TypeOK OBVIOUS
  <2> QED BY StackFacts DEF TypeOK, Frame, Events
<1> QED BY <1>1, Invariance, PTL

LEMMA RunsAreGood ==
  ASSUME AgentInv, NEW f \in RunFrames
  PROVE  f \in RunFrame /\ GoodRun(f)
<1>1. PICK i \in 1 .. Len(stack) : f = stack[i] /\ stack[i].kind = "run"
  BY StackFacts DEF RunFrames
<1>2. f \in Frame /\ GoodFrame(f, event, i = 1) BY <1>1, StackFacts
<1> QED BY <1>1, <1>2, Kinds DEF GoodFrame

\* The turn limit bounds the requests of a run, whatever the model answers,
\* whichever agents hand over to one another and whatever their limits are
\* (llmproxy/agent/runner.go).
THEOREM TurnsBounded == Spec => []TurnsAreBounded
<1>1. AgentInv => TurnsAreBounded
  <2> SUFFICES ASSUME AgentInv, NEW f \in RunFrames, MaxTurns[f.runner] > 0
               PROVE  f.asked <= MaxTurns[f.runner]
    BY DEF TurnsAreBounded
  <2>1. f \in RunFrame /\ GoodRun(f) BY RunsAreGood
  <2>2. f.asked \in Nat /\ f.turn \in Nat /\ MaxTurns[f.runner] \in Nat
    BY <2>1, RunFields, AgentAssumption
  <2>3. CASE f.calls = <<>> BY <2>1, <2>2, <2>3 DEF GoodRun
  <2>4. CASE f.calls # <<>> BY <2>1, <2>2, <2>4 DEF GoodRun
  <2> QED BY <2>3, <2>4
<1> QED BY <1>1, Invariance, PTL

\* Of any number of calls, at any depth, the model is told exactly those that
\* were made, each with its own result, but for a turn that handed over.
THEOREM ToldTruthfully == Spec => []ToldWhatWasDone
<1>1. AgentInv => ToldWhatWasDone
  <2> SUFFICES ASSUME AgentInv, NEW f \in RunFrames
               PROVE  /\ Paired(f.conv) /\ Paired(f.done)
                      /\ Results(f.conv) + Results(f.done) + f.lost = f.ran
                      /\ f.calls = <<>> => f.done = <<>>
    BY DEF ToldWhatWasDone, Results
  <2> QED BY RunsAreGood DEF GoodRun
<1> QED BY <1>1, Invariance, PTL

\* A node that follows an agent finds all the agent's outputs in its scope, for
\* any declared outputs, branches and nesting of functions (node/agent.go).
THEOREM OutputsComplete == Spec => []OutputsCompleteBeforeNext
<1>1. AgentInv => OutputsCompleteBeforeNext
  <2> SUFFICES ASSUME AgentInv, NEW i \in 1 .. Len(stack), stack[i].kind = "walk"
               PROVE  LET f == stack[i] IN
                      /\ f.from \in Agents => HasOutputs(f.written, f.from)
                      /\ InOrder(f.written)
    BY StackFacts DEF OutputsCompleteBeforeNext, HasOutputs, InOrder
  <2>1. GoodFrame(stack[i], event, i = 1) BY StackFacts
  <2> QED BY <2>1 DEF GoodFrame, GoodWalk
<1> QED BY <1>1, Invariance, PTL

\* No run sees a prompt of another function body, of another tool call, or of
\* an earlier event that an edge of this one has closed.
THEOREM ConversationsOwn == Spec => []ConversationsAreOwn
<1>1. AgentInv => ConversationsAreOwn
  <2> SUFFICES ASSUME AgentInv, NEW i \in 2 .. Len(stack), stack[i].kind = "run",
                      NEW j \in Of("prompt", stack[i].conv)
               PROVE  LET p == stack[i].conv[j] IN
                      IF stack[i - 1].kind = "run"
                      THEN j = 1 /\ p = Prompt(event, Head(stack[i - 1].calls))
                      ELSE /\ p.of = stack[i - 1].graph
                           /\ p.ev # event => i = 2 /\ ~stack[i - 1].cleared
    BY DEF ConversationsAreOwn
  <2> DEFINE h == i - 1
  <2>1. /\ h \in 1 .. Len(stack) - 1 /\ h + 1 = i /\ i \in 1 .. Len(stack)
        /\ (h = 1) <=> (i = 2)
    BY StackFacts
  <2>2. Called(stack[h], stack[h + 1], event, h = 1) BY <2>1, StackFacts
  <2>3. StartedBy(stack[h], stack[i], event, h = 1) BY <2>1, <2>2 DEF Called
  <2>4. stack[i].conv \in Seq(Item) BY <2>1, StackFacts, Kinds, RunFields
  <2>5. j \in 1 .. Len(stack[i].conv) /\ stack[i].conv[j].is = "prompt" BY <2>4 DEF Of
  <2>6. IF stack[h].kind = "run" THEN j = 1 /\ stack[i].conv[j] = Prompt(event, Head(stack[h].calls))
        ELSE /\ stack[i].conv[j].of = stack[h].graph
             /\ stack[i].conv[j].ev = event \/ (h = 1 /\ ~stack[h].cleared)
    BY <2>3, <2>5 DEF StartedBy
  <2> QED BY <2>1, <2>6
<1> QED BY <1>1, Invariance, PTL

-----------------------------------------------------------------------------
(* What the interpreter sees: the refinement of EventWalk *)

SeenStep == [Interpreter!Next]_Interpreter!vars

\* While anything runs the main walk stands at a node.
LEMMA MainIsBusy ==
  ASSUME AgentInv, Len(stack) > 1 \/ Top.at # Idle
  PROVE  stack[1].at \in Nodes
<1>1. CASE Len(stack) > 1
  <2>1. 1 \in 1 .. Len(stack) - 1 BY <1>1, StackFacts
  <2>2. Called(stack[1], stack[2], event, TRUE)
    <3>1. Called(stack[1], stack[1 + 1], event, 1 = 1) BY <2>1, StackFacts
    <3>2. 1 + 1 = 2 /\ (1 = 1) = TRUE OBVIOUS
    <3> QED BY <3>1, <3>2
  <2>3. stack[1].kind = "walk" BY StackFacts, WalkFields
  <2> QED BY <2>2, <2>3 DEF Called
<1>2. CASE ~(Len(stack) > 1)
  <2>1. Len(stack) = 1 BY <1>2, StackFacts
  <2>2. stack[1] = Top /\ Top.at \in Nodes \cup {Idle} BY <2>1, StackFacts, WalkFields
  <2> QED BY <1>2, <2>2
<1> QED BY <1>1, <1>2

LEMMA AtLeads ==
  ASSUME NEW n \in Nodes
  PROVE  /\ [m \in Nodes |-> Leads(m)][n] = Leads(n)
         /\ [m \in Nodes |-> OutputsOf(m)][n] = OutputsOf(n)
  OBVIOUS

\* The three things that a step can be to the interpreter: nothing, the end of
\* a node, or its failure.
LEMMA SeenNothing ==
  ASSUME stack'[1].at = stack[1].at, stack'[1].written = stack[1].written, event' = event
  PROVE  SeenStep
  BY DEF SeenStep, Interpreter!vars

LEMMA SeenEnd ==
  ASSUME stack[1].at \in Nodes, stack'[1].at \in Leads(stack[1].at),
         stack'[1].written = stack[1].written \cup OutputsOf(stack[1].at), event' = event
  PROVE  SeenStep
  BY AtLeads DEF SeenStep, Interpreter!Next, Interpreter!Execute

LEMMA SeenFailure ==
  ASSUME stack[1].at \in Nodes, stack'[1].at = Idle, event' = event,
         NEW S \in SUBSET OutputsOf(stack[1].at),
         stack'[1].written = stack[1].written \cup S
  PROVE  SeenStep
<1>1. S \in SUBSET [m \in Nodes |-> OutputsOf(m)][stack[1].at] BY AtLeads
<1>2. Interpreter!Fail BY <1>1 DEF Interpreter!Fail
<1> QED BY <1>2 DEF SeenStep, Interpreter!Next

\* An error, with what the node had written by then.
LEMMA AbortSeen ==
  ASSUME stack[1].at \in Nodes, NEW main \in WalkFrame, Abort(main),
         NEW S \in SUBSET OutputsOf(stack[1].at), main.written = stack[1].written \cup S
  PROVE  SeenStep
<1>1. stack' = <<[main EXCEPT !.at = Idle, !.from = NoName]>> /\ event' = event
  BY DEF Abort
<1>2. stack'[1].at = Idle /\ stack'[1].written = main.written BY <1>1 DEF WalkFrame
<1> QED BY <1>1, <1>2, SeenFailure

LEMMA AbortMainSeen ==
  ASSUME AgentInv, Len(stack) > 1 \/ Top.at # Idle, Abort(stack[1])
  PROVE  SeenStep
<1>1. stack[1].written = stack[1].written \cup {} /\ {} \in SUBSET OutputsOf(stack[1].at)
  OBVIOUS
<1> QED BY <1>1, StackFacts, MainIsBusy, AbortSeen

\* The walk at the height n + 1 goes on as f, which is at the same node and has
\* the outputs S of it: by an edge, or not at all.
LEMMA MoveSeen ==
  ASSUME AgentInv, NEW n \in 0 .. Len(stack) - 1, Len(stack) > 1 \/ Top.at # Idle,
         NEW f \in WalkFrame, f.at \in Nodes, NEW g \in WalkFrame,
         n = 0 => f.at = stack[1].at /\ f.written = stack[1].written \cup OutputsOf(f.at),
         g.written = f.written, g.at \in Leads(f.at),
         stack' = Append(SubSeq(stack, 1, n), g), event' = event
  PROVE  SeenStep
<1>1. stack'[1] = IF n = 0 THEN g ELSE stack[1]
  <2>1. n \in 0 .. Len(stack) /\ g \in Frame BY StackFacts DEF Frame
  <2> QED BY <2>1, StackFacts, Forms
<1>2. CASE n = 0 BY <1>1, <1>2, SeenEnd
<1>3. CASE n # 0 BY <1>1, <1>3, SeenNothing
<1> QED BY <1>2, <1>3

LEMMA FailSeen ==
  ASSUME AgentInv, NEW n \in 0 .. Len(stack) - 1, Len(stack) > 1 \/ Top.at # Idle,
         NEW f \in WalkFrame, NEW S \in SUBSET OutputsOf(f.at),
         n = 0 => f.at = stack[1].at /\ f.written = stack[1].written \cup S,
         Abort(Append(SubSeq(stack, 1, n), f)[1])
  PROVE  SeenStep
<1>1. Append(SubSeq(stack, 1, n), f)[1] = IF n = 0 THEN f ELSE stack[1]
  <2>1. n \in 0 .. Len(stack) /\ f \in Frame BY StackFacts DEF Frame
  <2> QED BY <2>1, StackFacts, Forms
<1>2. CASE n = 0 BY <1>1, <1>2, MainIsBusy, AbortSeen
<1>3. CASE n # 0 BY <1>1, <1>3, AbortMainSeen
<1> QED BY <1>2, <1>3

LEMMA EdgeSeen ==
  ASSUME NEW f \in WalkFrame, f.at \in Nodes, NEW e \in OutEdges[f.at]
  PROVE  LET g == Follow(f, e, event) IN g.at \in Leads(f.at)
<1> DEFINE g == Follow(f, e, event)
<1>1. g.at = e.to
  <2> DEFINE c == Apply(f.conv, e, event, f.graph)
             r == f.cleared \/ Renews(e)
  <2>1. g = [f EXCEPT !.from = f.at, !.at = e.to, !.conv = c, !.cleared = r] BY DEF Follow
  <2> HIDE DEF c, r, g
  <2> QED BY <2>1 DEF WalkFrame
<1>2. e.to \in Leads(f.at) BY DEF Leads
<1> QED BY <1>1, <1>2

LEMMA LeaveSeen ==
  ASSUME AgentInv, NEW n \in 0 .. Len(stack) - 1, Len(stack) > 1 \/ Top.at # Idle,
         NEW f \in WalkFrame, f.at \in Nodes,
         n = 0 => f.at = stack[1].at /\ f.written = stack[1].written \cup OutputsOf(f.at),
         Leave(f, SubSeq(stack, 1, n))
  PROVE  SeenStep
<1>1. CASE Abort(Append(SubSeq(stack, 1, n), f)[1]) BY <1>1, FailSeen
<1>2. ASSUME NEW e \in OutEdges[f.at], UNCHANGED <<cancelled, event>>,
             stack' = Append(SubSeq(stack, 1, n), Follow(f, e, event))
      PROVE  SeenStep
  <2> DEFINE g == Follow(f, e, event)
  <2>1. e \in Edge /\ event \in Events BY EdgeFields, StackFacts
  <2>2. g \in WalkFrame /\ g.written = f.written /\ g.at \in Leads(f.at)
    BY <2>1, FollowFields, EdgeSeen
  <2>3. stack' = Append(SubSeq(stack, 1, n), g) /\ event' = event BY <1>2
  <2> HIDE DEF g
  <2> QED BY <2>2, <2>3, MoveSeen
<1> QED BY <1>1, <1>2 DEF Leave

LEMMA BranchSeen ==
  ASSUME AgentInv, NEW n \in 0 .. Len(stack) - 1, Len(stack) > 1 \/ Top.at # Idle,
         NEW f \in WalkFrame, f.at \in Agents,
         n = 0 => f.at = stack[1].at /\ f.written = stack[1].written \cup OutputsOf(f.at),
         Branch(f, SubSeq(stack, 1, n))
  PROVE  SeenStep
<1>1. f.at \in Nodes BY DEF Nodes
<1>2. CASE OutEdges[f.at] = {}
  <2> DEFINE g == [f EXCEPT !.at = Idle, !.from = f.at]
  <2>1. g \in WalkFrame /\ g.at = Idle /\ g.written = f.written BY <1>1 DEF WalkFrame
  <2>2. stack' = Append(SubSeq(stack, 1, n), g) /\ event' = event BY <1>2 DEF Branch
  <2>3. Idle \in Leads(f.at) BY <1>2 DEF Leads
  <2> HIDE DEF g
  <2> QED BY <1>1, <2>1, <2>2, <2>3, MoveSeen
<1>3. CASE OutEdges[f.at] # {}
  <2>1. CASE Abort(Append(SubSeq(stack, 1, n), f)[1]) BY <2>1, FailSeen
  <2>2. ASSUME NEW e \in OutEdges[f.at], UNCHANGED <<cancelled, event>>,
               stack' = Append(SubSeq(stack, 1, n), Follow(f, e, event))
        PROVE  SeenStep
    <3> DEFINE g == Follow(f, e, event)
    <3>1. e \in Edge /\ event \in Events BY <1>1, EdgeFields, StackFacts
    <3>2. g \in WalkFrame /\ g.written = f.written /\ g.at \in Leads(f.at)
      BY <1>1, <3>1, FollowFields, EdgeSeen
    <3>3. stack' = Append(SubSeq(stack, 1, n), g) /\ event' = event BY <2>2
    <3> HIDE DEF g
    <3> QED BY <1>1, <3>2, <3>3, MoveSeen
  <2> QED BY <1>3, <2>1, <2>2 DEF Branch
<1> QED BY <1>2, <1>3

\* The answer of the agent at the height n + 1.
LEMMA AnswerSeen ==
  ASSUME AgentInv, NEW n \in 0 .. Len(stack) - 1, Len(stack) > 1,
         NEW f \in WalkFrame, f = stack[n + 1], f.at \in Agents,
         ApplyAnswer(f, SubSeq(stack, 1, n))
  PROVE  SeenStep
<1>1. n = 0 => f = stack[1] OBVIOUS
<1>2. Declared[f.at] \in Nat BY AgentAssumption
<1>3. OutputsOf(f.at) = {f.at} \X (0 .. Declared[f.at]) BY DEF OutputsOf
<1>4. ASSUME NEW k \in 0 .. Declared[f.at]
      PROVE  /\ Wrote(f, k) \in WalkFrame /\ Wrote(f, k).at = f.at
             /\ Wrote(f, k).written = f.written \cup ({f.at} \X (0 .. k))
             /\ {f.at} \X (0 .. k) \in SUBSET OutputsOf(f.at)
  <2> DEFINE w == f.written \cup ({f.at} \X (0 .. k))
  <2>0. \A i \in 0 .. k : i \in 0 .. Declared[f.at] /\ i \in Nat BY <1>2
  <2>1. w \in SUBSET Output BY <2>0, WalkFields DEF Output
  <2>2. Wrote(f, k) = [f EXCEPT !.written = w] BY DEF Wrote
  <2>3. {f.at} \X (0 .. k) \in SUBSET OutputsOf(f.at) BY <1>3, <2>0
  <2> HIDE DEF w
  <2>4. [f EXCEPT !.written = w] \in WalkFrame BY <2>1 DEF WalkFrame
  <2>5. [f EXCEPT !.written = w].at = f.at /\ [f EXCEPT !.written = w].written = w
    BY DEF WalkFrame
  <2> QED BY <2>2, <2>3, <2>4, <2>5 DEF w
<1>5. CASE Branch(Wrote(f, Declared[f.at]), SubSeq(stack, 1, n))
  <2> DEFINE g == Wrote(f, Declared[f.at])
  <2>1. /\ g \in WalkFrame /\ g.at = f.at /\ g.at \in Agents
        /\ g.written = f.written \cup OutputsOf(g.at)
    BY <1>2, <1>3, <1>4
  <2>2. Branch(g, SubSeq(stack, 1, n)) BY <1>5
  <2> HIDE DEF g
  <2> QED BY <1>1, <2>1, <2>2, BranchSeen
<1>6. CASE Abort(Append(SubSeq(stack, 1, n), f)[1])
  <2>1. f.written = f.written \cup {} /\ {} \in SUBSET OutputsOf(f.at) OBVIOUS
  <2> QED BY <1>1, <1>6, <2>1, FailSeen
<1>7. ASSUME NEW k \in 0 .. Declared[f.at], Abort(Append(SubSeq(stack, 1, n), Wrote(f, k))[1])
      PROVE  SeenStep
  <2> DEFINE g == Wrote(f, k)
             S == {f.at} \X (0 .. k)
  <2>1. /\ g \in WalkFrame /\ g.at = f.at /\ g.written = f.written \cup S
        /\ S \in SUBSET OutputsOf(g.at)
    BY <1>4
  <2>2. Abort(Append(SubSeq(stack, 1, n), g)[1]) BY <1>7
  <2> HIDE DEF g, S
  <2> QED BY <1>1, <2>1, <2>2, FailSeen
<1> QED BY <1>5, <1>6, <1>7 DEF ApplyAnswer

\* A call on top of the stack, or a change to the run on top.
LEMMA PushSeen ==
  ASSUME AgentInv, NEW f, stack' = Append(stack, f), event' = event
  PROVE  SeenStep
<1>1. stack'[1] = stack[1] BY StackFacts
<1> QED BY <1>1, SeenNothing

LEMMA ReplaceSeen ==
  ASSUME AgentInv, Top.kind = "run", NEW f, stack' = Replace(f), event' = event
  PROVE  SeenStep
<1>1. Len(stack) > 1 BY TopRun
<1>2. stack'[1] = stack[1] BY <1>1, StackFacts DEF Replace
<1> QED BY <1>2, SeenNothing

\* The result of a call that a run made: that run is above the main walk.
LEMMA ReturnSeen ==
  ASSUME AgentInv, Len(stack) > 1, Below.kind = "run", NEW f, stack' = Return(f),
         event' = event
  PROVE  SeenStep
<1>1. Len(stack) - 1 # 1
  <2> SUFFICES ASSUME Len(stack) - 1 = 1 PROVE FALSE OBVIOUS
  <2>1. Below = stack[1] BY DEF Below
  <2> QED BY <2>1, StackFacts, WalkFields
<1>2. Callers \in Seq(Frame) /\ Len(Callers) = Len(stack) - 1 /\ Callers[1] = stack[1]
  <2>1. \A i \in 1 .. Len(stack) - 1 : stack[i] \in Frame BY StackFacts
  <2>2. Len(stack) - 1 \in 0 .. Len(stack) /\ 1 \in 1 .. Len(stack) - 1 BY StackFacts
  <2> QED BY <2>1, <2>2, StackFacts, SubSeqProperties DEF Callers
<1>3. stack'[1] = stack[1]
  <2>1. 1 \in DOMAIN Callers BY <1>2, StackFacts
  <2> QED BY <1>1, <1>2, <2>1 DEF Return
<1> QED BY <1>3, SeenNothing

LEMMA FunctionEndsSeen == ASSUME AgentInv, FunctionEnds PROVE SeenStep
<1>1. Top.kind = "walk" /\ Len(stack) > 1 BY DEF FunctionEnds
<1>2. CASE Abort(stack[1]) BY <1>1, <1>2, AbortMainSeen
<1>3. CASE Below.kind = "run" /\ stack' = Return(Told(Below)) /\ UNCHANGED <<cancelled, event>>
  BY <1>1, <1>3, ReturnSeen
<1>4. CASE Below.kind = "walk" /\ Leave(Below, SubSeq(stack, 1, Len(stack) - 2))
  <2> DEFINE n == Len(stack) - 2
  <2>1. /\ n \in 0 .. Len(stack) - 1 /\ Below = stack[n + 1] /\ Below \in Frame
        /\ Called(Below, Top, event, n = 0)
    BY <1>1, BelowFacts
  <2>2. Below \in WalkFrame BY <1>4, <2>1, Kinds
  <2>3. Below.at \in Nodes /\ OutputsOf(Below.at) = {}
    BY <1>1, <1>4, <2>1 DEF Called, OutputsOf
  <2>4. Leave(Below, SubSeq(stack, 1, n)) BY <1>4
  <2> HIDE DEF n
  <2>5. n = 0 => Below.at = stack[1].at
                 /\ Below.written = stack[1].written \cup OutputsOf(Below.at)
    BY <2>1, <2>3
  <2> QED BY <1>1, <2>1, <2>2, <2>3, <2>4, <2>5, LeaveSeen
<1> QED BY <1>2, <1>3, <1>4 DEF FunctionEnds

LEMMA ChatFinalSeen == ASSUME AgentInv, ChatFinal PROVE SeenStep
<1>1. Top.kind = "run" /\ Len(stack) > 1 BY TopRun DEF ChatFinal, Asking
<1>2. CASE Below.kind = "run" /\ stack' = Return(Told(Below)) /\ UNCHANGED <<cancelled, event>>
  BY <1>1, <1>2, ReturnSeen
<1>3. CASE Below.kind = "walk" /\ ApplyAnswer(Below, SubSeq(stack, 1, Len(stack) - 2))
  <2> DEFINE n == Len(stack) - 2
  <2>1. /\ n \in 0 .. Len(stack) - 1 /\ Below = stack[n + 1] /\ Below \in Frame
        /\ Called(Below, Top, event, n = 0)
    BY <1>1, BelowFacts
  <2>2. Below \in WalkFrame /\ Below.at \in Agents BY <1>1, <1>3, <2>1, Kinds DEF Called
  <2>3. ApplyAnswer(Below, SubSeq(stack, 1, n)) BY <1>3
  <2> HIDE DEF n
  <2> QED BY <1>1, <2>1, <2>2, <2>3, AnswerSeen
<1> QED BY <1>2, <1>3 DEF ChatFinal

LEMMA ExecuteStepSeen == ASSUME AgentInv, ExecuteStep PROVE SeenStep
<1>1. Top.at # Idle /\ Top.at \in Steps /\ Top.kind = "walk" BY DEF ExecuteStep, Walking
<1>2. CASE Abort(stack[1]) BY <1>1, <1>2, AbortMainSeen
<1>3. CASE Leave(Top, Callers)
  <2> DEFINE n == Len(stack) - 1
  <2>1. Top \in WalkFrame /\ Top.at \in Nodes /\ OutputsOf(Top.at) = {}
    BY <1>1, TopWalk, GraphAssumption DEF Nodes, OutputsOf
  <2>2. n \in 0 .. Len(stack) - 1 /\ stack[n + 1] = Top /\ Leave(Top, SubSeq(stack, 1, n))
    BY <1>3, StackFacts DEF Callers
  <2> HIDE DEF n
  <2>3. n = 0 => Top.at = stack[1].at
                 /\ Top.written = stack[1].written \cup OutputsOf(Top.at)
    BY <2>1, <2>2
  <2> QED BY <1>1, <2>1, <2>2, <2>3, LeaveSeen
<1> QED BY <1>2, <1>3 DEF ExecuteStep

LEMMA FireSeen == ASSUME AgentInv, Fire PROVE SeenStep
<1> PICK e \in Starts :
      stack' = <<Enter([stack[1] EXCEPT !.written = {}, !.cleared = FALSE], e, event + 1)>>
  BY DEF Fire
<1> DEFINE f == [stack[1] EXCEPT !.written = {}, !.cleared = FALSE]
           g == Enter(f, e, event + 1)
<1>1. stack[1].at = Idle /\ event' = event + 1 BY DEF Fire, AtRest
<1>2. f \in WalkFrame /\ f.written = {} BY StackFacts DEF WalkFrame
<1> HIDE DEF f
<1>3. g.at = e.to /\ g.written = {}
  <2> DEFINE c == Apply(f.conv, e, event + 1, f.graph)
             r == f.cleared \/ Renews(e)
  <2>1. g = [f EXCEPT !.from = NoName, !.at = e.to, !.conv = c, !.cleared = r]
    BY <1>2 DEF Enter, Follow, WalkFrame
  <2> HIDE DEF c, r, g
  <2> QED BY <1>2, <2>1 DEF WalkFrame
<1>4. stack' = <<g>> BY DEF f
<1> HIDE DEF g
<1>5. stack'[1].at \in {d.to : d \in Starts} /\ stack'[1].written = {} BY <1>3, <1>4
<1>6. Interpreter!Begin BY <1>1, <1>5 DEF Interpreter!Begin
<1> QED BY <1>6 DEF SeenStep, Interpreter!Next

LEMMA StepSeen == AgentInv /\ [Next]_vars => SeenStep
<1> SUFFICES ASSUME AgentInv, [Next]_vars PROVE SeenStep OBVIOUS
<1>1. CASE Fire BY <1>1, FireSeen
<1>2. CASE StopWalking BY <1>2, AbortMainSeen DEF StopWalking, Walking
<1>3. CASE ExecuteStep BY <1>3, ExecuteStepSeen
<1>4. CASE ExecuteCall \/ ExecuteAgent \/ CallFunction \/ CallAgent
  <2>1. CASE Abort(stack[1])
    <3>1. Len(stack) > 1 \/ Top.at # Idle
      BY <1>4, TopRun DEF ExecuteCall, ExecuteAgent, CallFunction, CallAgent, Walking, Calling
    <3> QED BY <2>1, <3>1, AbortMainSeen
  <2>2. ASSUME NEW f, stack' = Append(stack, f), event' = event PROVE SeenStep
    BY <2>2, PushSeen
  <2> QED BY <1>4, <2>1, <2>2
          DEF ExecuteCall, ExecuteAgent, CallFunction, CallAgent, EnterFunction
<1>5. CASE FunctionEnds BY <1>5, FunctionEndsSeen
<1>6. CASE ChatFails \/ CallFails
  <2>1. Top.kind = "run" /\ Abort(stack[1]) BY <1>6 DEF ChatFails, CallFails, Asking, Calling
  <2> QED BY <2>1, TopRun, AbortMainSeen
<1>7. CASE ChatCalls \/ CallEffect \/ HandOver
  <2>1. Top.kind = "run" /\ event' = event
    BY <1>7 DEF ChatCalls, CallEffect, HandOver, Asking, Calling
  <2>2. ASSUME NEW f, stack' = Replace(f) PROVE SeenStep BY <2>1, <2>2, ReplaceSeen
  <2> QED BY <1>7, <2>2 DEF ChatCalls, CallEffect, HandOver
<1>8. CASE ChatFinal BY <1>8, ChatFinalSeen
<1>9. CASE Cancel \/ Over \/ UNCHANGED vars
  BY <1>9, SeenNothing DEF Cancel, Over, vars
<1> QED BY <1>1, <1>2, <1>3, <1>4, <1>5, <1>6, <1>7, <1>8, <1>9 DEF Next, Step

\* To the interpreter a node of the main graph is one step, for any graph, any
\* tools and any depth of runs and functions: it leaves all its outputs and
\* follows an edge of its own, or it fails with some of them and the flow ends
\* (node/agent.go:173-258, function.go:26-84, runner.go:78-101).
THEOREM RefinesWalk == Spec => ImplementsWalk
<1>1. Init => Interpreter!Init BY DEF Init, Walk, Interpreter!Init
<1>2. AgentInv /\ [Next]_vars => [Interpreter!Next]_Interpreter!vars BY StepSeen DEF SeenStep
<1> QED BY <1>1, <1>2, Invariance, PTL DEF Spec, ImplementsWalk, Interpreter!Spec

-----------------------------------------------------------------------------
(* Runs only go forward *)

\* The conversation s goes on as t.
Continues(s, t) == Len(s) <= Len(t) /\ \A j \in 1 .. Len(s) : t[j] = s[j]

\* The run f goes on as g: a turn is over, or in the same turn the model has
\* answered or one call less is to be made.
Forward(f, g) ==
  /\ g.runner = f.runner
  /\ Continues(f.conv, g.conv)
  /\ \/ g.turn > f.turn
     \/ /\ g.turn = f.turn /\ g.calls # <<>>
        /\ f.calls = <<>> \/ Len(g.calls) < Len(f.calls)

RunGoesForward(i) ==
  stack[i].kind = "run" =>
    stack'[i] = stack[i] \/ (stack'[i].kind = "run" /\ Forward(stack[i], stack'[i]))

\* No step, of a run itself or of anything it has called, takes a turn or a call
\* back, makes a run start over, or changes what its model has been told. With a
\* limit on the turns a run therefore ends unless what it calls does not.
RunsGoForward == [][\A i \in DOMAIN stack \cap DOMAIN stack' : RunGoesForward(i)]_vars

LEMMA ContinuesItself ==
  ASSUME NEW s \in Seq(Item)
  PROVE  Continues(s, s) /\ \A d \in Seq(Item) : Continues(s, s \o d)
<1>1. Len(s) \in Nat BY LenProperties
<1>2. Continues(s, s) BY <1>1 DEF Continues
<1>3. ASSUME NEW d \in Seq(Item) PROVE Continues(s, s \o d)
  <2> DEFINE u == s \o d
  <2>1. Len(u) = Len(s) + Len(d) /\ Len(d) \in Nat
        /\ \A i \in 1 .. Len(s) + Len(d) : u[i] = IF i <= Len(s) THEN s[i] ELSE d[i - Len(s)]
    BY ConcatProperties, LenProperties
  <2> HIDE DEF u
  <2>2. Continues(s, u) BY <1>1, <2>1 DEF Continues
  <2> QED BY <2>2 DEF u
<1> QED BY <1>2, <1>3

LEMMA ToldForward ==
  ASSUME NEW f \in RunFrame, f.calls # <<>>, Head(f.calls) \in ToolNames
  PROVE  Told(f).kind = "run" /\ Forward(f, Told(f))
<1> DEFINE d == f.done \o <<Call(Head(f.calls)), Result(Head(f.calls))>>
           rest == Tail(f.calls)
           g == [f EXCEPT !.done = d, !.calls = rest, !.ran = f.ran + 1]
<1>1. /\ f.kind = "run" /\ f.turn \in Nat /\ f.done \in Seq(Item) /\ f.conv \in Seq(Item)
      /\ f.calls \in Seq(ToolNames \cup {NoName})
  BY RunFields
<1>2. d \in Seq(Item)
  <2> DEFINE p == <<Call(Head(f.calls)), Result(Head(f.calls))>>
  <2>1. p \in Seq(Item) BY OnePair
  <2> HIDE DEF p
  <2> QED BY <1>1, <2>1, ConcatProperties DEF p
<1>3. Len(rest) < Len(f.calls) /\ rest \in Seq(ToolNames \cup {NoName})
  BY <1>1, HeadTailProperties, LenProperties
<1>4. Told(f) = EndCalls(g) BY DEF Told
<1> HIDE DEF d, rest
<1>5. /\ g.kind = "run" /\ g.runner = f.runner /\ g.conv = f.conv /\ g.turn = f.turn
      /\ g.calls = rest /\ g.done = d
  BY <1>1 DEF RunFrame
<1>6. CASE rest # <<>>
  <2>1. Told(f) = g BY <1>4, <1>5, <1>6 DEF EndCalls
  <2> QED BY <1>1, <1>3, <1>5, <1>6, <2>1, ContinuesItself DEF Forward
<1>7. CASE rest = <<>>
  <2> DEFINE c == f.conv \o d
             h == [g EXCEPT !.conv = c, !.done = <<>>, !.turn = f.turn + 1]
  <2>1. Told(f) = h BY <1>4, <1>5, <1>7 DEF EndCalls
  <2>2. Continues(f.conv, c) BY <1>1, <1>2, ContinuesItself
  <2> HIDE DEF c
  <2>3. h.kind = "run" /\ h.runner = f.runner /\ h.conv = c /\ h.turn = f.turn + 1
    BY <1>5 DEF RunFrame
  <2> HIDE DEF h, g
  <2> QED BY <1>1, <2>1, <2>2, <2>3 DEF Forward
<1> QED BY <1>6, <1>7

\* All runs go forward in a step that ...
AllForward == \A i \in DOMAIN stack \cap DOMAIN stack' : RunGoesForward(i)

\* ... keeps n frames and puts one on them where a walk was, or nothing;
LEMMA PutForward ==
  ASSUME AgentInv, NEW n \in 0 .. Len(stack), NEW f \in Frame,
         stack' = Append(SubSeq(stack, 1, n), f),
         n < Len(stack) => stack[n + 1].kind = "walk"
  PROVE  AllForward
<1>1. /\ stack' \in Seq(Frame) /\ Len(stack') = n + 1
      /\ \A i \in 1 .. n : stack'[i] = stack[i]
  BY StackFacts, Forms
<1>2. DOMAIN stack' = 1 .. n + 1 BY <1>1, LenProperties
<1> SUFFICES ASSUME NEW i \in DOMAIN stack, i \in DOMAIN stack', stack[i].kind = "run"
             PROVE  stack'[i] = stack[i]
  BY DEF AllForward, RunGoesForward
<1>3. i \in 1 .. n \/ (i = n + 1 /\ n < Len(stack)) BY <1>2, StackFacts
<1> QED BY <1>1, <1>3

LEMMA PushForward ==
  ASSUME AgentInv, NEW f, stack' = Append(stack, f)
  PROVE  AllForward
<1>1. \A i \in DOMAIN stack : stack'[i] = stack[i] BY StackFacts
<1> QED BY <1>1 DEF AllForward, RunGoesForward

\* ... is an error, which leaves the main walk;
LEMMA AbortForward ==
  ASSUME AgentInv, NEW f, Abort(f)
  PROVE  AllForward
<1>1. DOMAIN stack' = {1} BY DEF Abort
<1>2. stack[1].kind = "walk" BY StackFacts, WalkFields
<1> QED BY <1>1, <1>2 DEF AllForward, RunGoesForward

\* ... moves the run on top;
LEMMA ReplaceForward ==
  ASSUME AgentInv, Top.kind = "run", NEW f, stack' = Replace(f), f.kind = "run", Forward(Top, f)
  PROVE  AllForward
<1>1. DOMAIN stack' = DOMAIN stack BY DEF Replace
<1>2. \A i \in DOMAIN stack : stack'[i] = IF i = Len(stack) THEN f ELSE stack[i]
  BY StackFacts DEF Replace
<1> QED BY <1>1, <1>2, StackFacts DEF AllForward, RunGoesForward

\* ... gives a result to the run below.
LEMMA ReturnForward ==
  ASSUME AgentInv, Len(stack) > 1, Below.kind = "run", stack' = Return(Told(Below))
  PROVE  AllForward
<1> DEFINE n == Len(stack) - 1
           f == Told(Below)
<1>1. Below \in RunFrame /\ Below.calls # <<>> /\ Head(Below.calls) \in ToolNames
  BY BelowFacts, Kinds DEF Called
<1>2. f.kind = "run" /\ Forward(Below, f) BY <1>1, ToldForward
<1>3. /\ n \in 1 .. Len(stack) /\ Below = stack[n]
      /\ Callers = SubSeq(stack, 1, n) /\ stack' = [Callers EXCEPT ![n] = f]
  BY StackFacts DEF Below, Callers, Return
<1> HIDE DEF n, f
<1>4. Callers \in Seq(Frame) /\ DOMAIN Callers = 1 .. n
      /\ \A i \in 1 .. n : Callers[i] = stack[i]
  <2>1. \A i \in 1 .. n : stack[i] \in Frame BY <1>3, StackFacts
  <2> QED BY <1>3, <2>1, StackFacts, SubSeqProperties, LenProperties
<1>5. DOMAIN stack' = 1 .. n /\ \A i \in 1 .. n : stack'[i] = IF i = n THEN f ELSE stack[i]
  BY <1>3, <1>4
<1> QED BY <1>2, <1>3, <1>5 DEF AllForward, RunGoesForward

LEMMA LeaveForward ==
  ASSUME AgentInv, NEW n \in 0 .. Len(stack) - 1, NEW f \in WalkFrame, f.at \in Nodes,
         stack[n + 1].kind = "walk", Leave(f, SubSeq(stack, 1, n))
  PROVE  AllForward
<1>1. CASE Abort(Append(SubSeq(stack, 1, n), f)[1]) BY <1>1, AbortForward
<1>2. ASSUME NEW e \in OutEdges[f.at],
             stack' = Append(SubSeq(stack, 1, n), Follow(f, e, event))
      PROVE  AllForward
  <2> DEFINE g == Follow(f, e, event)
  <2>1. e \in Edge /\ event \in Events BY EdgeFields, StackFacts
  <2>2. g \in Frame BY <2>1, FollowFields DEF Frame
  <2>3. n \in 0 .. Len(stack) BY StackFacts
  <2> HIDE DEF g
  <2>4. stack' = Append(SubSeq(stack, 1, n), g) BY <1>2 DEF g
  <2> QED BY <2>2, <2>3, <2>4, PutForward
<1> QED BY <1>1, <1>2 DEF Leave

LEMMA BranchForward ==
  ASSUME AgentInv, NEW n \in 0 .. Len(stack) - 1, NEW f \in WalkFrame, f.at \in Agents,
         stack[n + 1].kind = "walk", Branch(f, SubSeq(stack, 1, n))
  PROVE  AllForward
<1>1. f.at \in Nodes /\ n \in 0 .. Len(stack) BY StackFacts DEF Nodes
<1>2. CASE OutEdges[f.at] = {}
  <2> DEFINE g == [f EXCEPT !.at = Idle, !.from = f.at]
  <2>1. g \in Frame BY <1>1 DEF Frame, WalkFrame
  <2>2. stack' = Append(SubSeq(stack, 1, n), g) BY <1>2 DEF Branch
  <2> HIDE DEF g
  <2> QED BY <1>1, <2>1, <2>2, PutForward
<1>3. CASE OutEdges[f.at] # {}
  <2>1. CASE Abort(Append(SubSeq(stack, 1, n), f)[1]) BY <2>1, AbortForward
  <2>2. CASE ~Abort(Append(SubSeq(stack, 1, n), f)[1])
    <3>1. Leave(f, SubSeq(stack, 1, n)) BY <1>3, <2>2 DEF Branch, Leave
    <3> QED BY <1>1, <3>1, LeaveForward
  <2> QED BY <2>1, <2>2
<1> QED BY <1>2, <1>3

LEMMA AnswerForward ==
  ASSUME AgentInv, NEW n \in 0 .. Len(stack) - 1, NEW f \in WalkFrame, f = stack[n + 1],
         f.at \in Agents, GoodWalk(f, event, n = 0), ApplyAnswer(f, SubSeq(stack, 1, n))
  PROVE  AllForward
<1>1. CASE Branch(Wrote(f, Declared[f.at]), SubSeq(stack, 1, n))
  <2> DEFINE g == Wrote(f, Declared[f.at])
  <2>1. g \in WalkFrame /\ g.at = f.at
    <3>1. Declared[f.at] \in 0 .. Declared[f.at] /\ event \in Events
      BY AgentAssumption, StackFacts
    <3> QED BY <3>1, WroteGood
  <2> HIDE DEF g
  <2>2. Branch(g, SubSeq(stack, 1, n)) BY <1>1 DEF g
  <2> QED BY <2>1, <2>2, WalkFields, BranchForward
<1>2. CASE \E g : Abort(g) BY <1>2, AbortForward
<1> QED BY <1>1, <1>2 DEF ApplyAnswer

LEMMA AllGoForward == AgentInv /\ [Next]_vars => [AllForward]_vars
<1> SUFFICES ASSUME AgentInv, Next PROVE AllForward OBVIOUS
<1>1. CASE \E f : Abort(f) BY <1>1, AbortForward
<1>2. CASE \E f : stack' = Append(stack, f) BY <1>2, PushForward
<1>3. CASE Fire
  <2>1. DOMAIN stack = {1} /\ stack[1].kind = "walk"
    BY <1>3, StackFacts, WalkFields DEF Fire, AtRest
  <2> QED BY <2>1 DEF AllForward, RunGoesForward
<1>4. CASE ExecuteStep /\ Leave(Top, Callers)
  <2> DEFINE n == Len(stack) - 1
  <2>1. Top \in WalkFrame /\ Top.at \in Nodes /\ Top.kind = "walk"
    BY <1>4, TopWalk DEF ExecuteStep, Walking, Nodes
  <2>2. n \in 0 .. Len(stack) - 1 /\ stack[n + 1] = Top /\ Leave(Top, SubSeq(stack, 1, n))
    BY <1>4, StackFacts DEF Callers
  <2> HIDE DEF n
  <2> QED BY <2>1, <2>2, LeaveForward
<1>5. CASE Len(stack) > 1 /\ Below.kind = "run" /\ stack' = Return(Told(Below))
  BY <1>5, ReturnForward
<1>6. ASSUME Len(stack) > 1, Below.kind = "walk",
             \/ Top.kind = "walk" /\ Leave(Below, SubSeq(stack, 1, Len(stack) - 2))
             \/ Top.kind = "run" /\ ApplyAnswer(Below, SubSeq(stack, 1, Len(stack) - 2))
      PROVE  AllForward
  <2> DEFINE n == Len(stack) - 2
  <2>1. /\ n \in 0 .. Len(stack) - 1 /\ Below = stack[n + 1] /\ Below \in Frame
        /\ Called(Below, Top, event, n = 0) /\ GoodFrame(Below, event, n = 0)
    BY <1>6, BelowFacts
  <2>2. Below \in WalkFrame /\ GoodWalk(Below, event, n = 0) BY <1>6, <2>1, Kinds DEF GoodFrame
  <2>3. Below.at \in Nodes /\ (Top.kind = "run" => Below.at \in Agents)
    BY <1>6, <2>1 DEF Called
  <2>4. \/ Leave(Below, SubSeq(stack, 1, n))
        \/ Top.kind = "run" /\ ApplyAnswer(Below, SubSeq(stack, 1, n))
    BY <1>6
  <2> HIDE DEF n
  <2> QED BY <1>6, <2>1, <2>2, <2>3, <2>4, LeaveForward, AnswerForward
<1>7. CASE FunctionEnds BY <1>1, <1>5, <1>6, <1>7 DEF FunctionEnds
<1>8. CASE ChatFinal BY <1>5, <1>6, <1>8, TopRun DEF ChatFinal, Asking
<1>9. ASSUME NEW f \in RunFrame, Top.kind = "run", stack' = Replace(f), Forward(Top, f)
      PROVE  AllForward
  BY <1>9, ReplaceForward, RunFields
<1>10. CASE ChatCalls
  <2>1. Top \in RunFrame /\ Top.calls = <<>> /\ Top.conv \in Seq(Item) /\ Top.asked \in Nat
    BY <1>10, TopRun, RunFields DEF ChatCalls, Asking
  <2>2. PICK r \in Responses : stack' = Replace([Top EXCEPT !.calls = r, !.asked = Top.asked + 1])
    BY <1>10 DEF ChatCalls
  <2> DEFINE f == [Top EXCEPT !.calls = r, !.asked = Top.asked + 1]
  <2>3. r \in CallLists /\ r # <<>> BY AgentAssumption DEF CallLists
  <2>4. f \in RunFrame
    <3>1. Top.asked + 1 \in Nat BY <2>1
    <3> QED BY <2>1, <2>3, <3>1 DEF RunFrame
  <2>5. f.runner = Top.runner /\ f.conv = Top.conv /\ f.turn = Top.turn /\ f.calls = r
    BY <2>1 DEF RunFrame
  <2> HIDE DEF f
  <2>6. Forward(Top, f) BY <2>1, <2>3, <2>5, ContinuesItself DEF Forward
  <2> QED BY <1>9, <2>1, <2>2, <2>4, <2>6, TopRun, RunFields DEF f
<1>11. CASE CallEffect
  <2>1. Top \in RunFrame /\ Top.kind = "run" /\ Top.calls # <<>> /\ Head(Top.calls) \in ToolNames
    BY <1>11, TopRun DEF CallEffect, Calling, Offered, Name, ToolNames
  <2>2. stack' = Replace(Told(Top)) BY <1>11 DEF CallEffect
  <2> QED BY <2>1, <2>2, ToldForward, ReplaceForward
<1>12. CASE HandOver
  <2> DEFINE f == [Top EXCEPT !.agent = AgentOf[Name], !.calls = <<>>, !.done = <<>>,
                              !.turn = Top.turn + 1,
                              !.lost = Top.lost + Len(Top.done) \div 2]
  <2>1. Top \in RunFrame /\ Top.kind = "run" /\ Top.turn \in Nat /\ Top.conv \in Seq(Item)
    BY <1>12, TopRun, RunFields DEF HandOver, Calling
  <2>2. stack' = Replace(f) BY <1>12 DEF HandOver
  <2>3. /\ f.kind = "run" /\ f.runner = Top.runner /\ f.conv = Top.conv
        /\ f.turn = Top.turn + 1
    BY <2>1 DEF RunFrame
  <2> HIDE DEF f
  <2>4. Forward(Top, f) BY <2>1, <2>3, ContinuesItself DEF Forward
  <2> QED BY <2>1, <2>2, <2>3, <2>4, ReplaceForward
<1>13. CASE stack' = stack BY <1>13 DEF AllForward, RunGoesForward
<1> QED
  BY <1>1, <1>2, <1>3, <1>4, <1>7, <1>8, <1>10, <1>11, <1>12, <1>13
  DEF Next, Step, StopWalking, ExecuteStep, ExecuteCall, EnterFunction, ExecuteAgent,
      ChatFails, CallFails, CallFunction, CallAgent, Cancel, Over, vars

\* No run ever takes a turn or a call back, starts over, or changes what its
\* model was told, whatever is called and however deep (llmproxy/agent/runner.go:97-184,
\* 195-228).
THEOREM RunsOnlyGoForward == Spec => RunsGoForward
BY AllGoForward, Invariance, PTL DEF Spec, RunsGoForward, AllForward

-----------------------------------------------------------------------------
(* After cancellation the event winds down *)

\* The frame i of the next stack: a run that is there stays, or makes one of the
\* calls its model has asked for; a new one has not asked its model.
Winding(i) ==
  stack'[i].kind = "run" =>
    IF i \in DOMAIN stack /\ stack[i].kind = "run"
    THEN /\ stack'[i].asked = stack[i].asked
         /\ stack'[i] = stack[i] \/ Len(stack'[i].calls) < Len(stack[i].calls)
    ELSE i = Len(stack) + 1 /\ Calling /\ stack'[i].calls = <<>> /\ stack'[i].asked = 0

StackWinds ==
  /\ Len(stack') > Len(stack) => Calling
  /\ \A i \in DOMAIN stack' : Winding(i)

WindStep == cancelled => cancelled' /\ StackWinds

\* Once ctx is done it stays done; nothing but a call that a model has asked for
\* puts a frame on the stack, so that no node starts an agent or a function, nor
\* does one of an event that the idle select still takes; no model answers any
\* more (a request carries ctx), and a run can only make the calls still due, one
\* by one. That the event ends then takes no more than the end of these calls.
CancelWindsDown == [][WindStep]_vars

LEMMA ToldWinds ==
  ASSUME NEW f \in RunFrame, f.calls # <<>>
  PROVE  Told(f).asked = f.asked /\ Len(Told(f).calls) < Len(f.calls)
<1> DEFINE d == f.done \o <<Call(Head(f.calls)), Result(Head(f.calls))>>
           rest == Tail(f.calls)
           g == [f EXCEPT !.done = d, !.calls = rest, !.ran = f.ran + 1]
           c == f.conv \o d
           h == [g EXCEPT !.conv = c, !.done = <<>>, !.turn = g.turn + 1]
<1>1. Len(rest) < Len(f.calls) BY RunFields, HeadTailProperties, LenProperties
<1>2. Told(f) = EndCalls(g) BY DEF Told
<1> HIDE DEF d, rest
<1>3. g.conv = f.conv /\ g.calls = rest /\ g.done = d /\ g.asked = f.asked
  BY DEF RunFrame
<1> HIDE DEF c
<1>4. h.calls = rest /\ h.asked = f.asked BY <1>3 DEF RunFrame
<1> HIDE DEF g, h
<1>5. Told(f) = g \/ Told(f) = h BY <1>2, <1>3 DEF EndCalls, c, h
<1> QED BY <1>1, <1>3, <1>4, <1>5

\* The stack winds down in a step that is an error,
LEMMA AbortWinds ==
  ASSUME AgentInv, NEW f \in WalkFrame, Abort(f)
  PROVE  StackWinds
<1> DEFINE g == [f EXCEPT !.at = Idle, !.from = NoName]
<1>1. g.kind = "walk" BY DEF WalkFrame
<1>2. stack' = <<g>> BY DEF Abort
<1> HIDE DEF g
<1>3. Len(stack') = 1 /\ DOMAIN stack' = {1} /\ stack'[1] = g BY <1>2
<1> QED BY <1>1, <1>3, StackFacts DEF StackWinds, Winding

\* keeps n frames and moves the walk after them,
LEMMA WalkWinds ==
  ASSUME AgentInv, NEW n \in 0 .. Len(stack) - 1, NEW f \in WalkFrame,
         stack' = Append(SubSeq(stack, 1, n), f)
  PROVE  StackWinds
<1>1. n \in 0 .. Len(stack) /\ f \in Frame /\ f.kind = "walk"
  BY StackFacts, WalkFields DEF Frame
<1>2. /\ stack' \in Seq(Frame) /\ Len(stack') = n + 1 /\ stack'[n + 1] = f
      /\ \A i \in 1 .. n : stack'[i] = stack[i]
  BY <1>1, StackFacts, Forms
<1>3. DOMAIN stack' = 1 .. n + 1 /\ Len(stack') <= Len(stack) BY <1>2, LenProperties, StackFacts
<1>4. ASSUME NEW i \in 1 .. n + 1 PROVE Winding(i)
  <2>1. CASE i = n + 1 BY <1>1, <1>2, <2>1 DEF Winding
  <2>2. CASE i # n + 1
    <3>1. i \in 1 .. n /\ i \in DOMAIN stack BY <2>2, StackFacts
    <3> QED BY <1>2, <3>1 DEF Winding
  <2> QED BY <2>1, <2>2
<1> QED BY <1>3, <1>4, StackFacts DEF StackWinds

\* leaves the node of a walk, with an error or without,
LEMMA LeaveWinds ==
  ASSUME AgentInv, NEW n \in 0 .. Len(stack) - 1, NEW f \in WalkFrame, f.at \in Nodes,
         Leave(f, SubSeq(stack, 1, n))
  PROVE  StackWinds
<1>1. CASE Abort(Append(SubSeq(stack, 1, n), f)[1])
  <2>1. n \in 0 .. Len(stack) BY StackFacts
  <2>2. Append(SubSeq(stack, 1, n), f)[1] \in WalkFrame BY <2>1, StackFacts, Forms DEF Frame
  <2> QED BY <1>1, <2>2, AbortWinds
<1>2. ASSUME NEW e \in OutEdges[f.at],
             stack' = Append(SubSeq(stack, 1, n), Follow(f, e, event))
      PROVE  StackWinds
  <2>1. e \in Edge /\ event \in Events BY EdgeFields, StackFacts
  <2> QED BY <1>2, <2>1, FollowFields, WalkWinds
<1> QED BY <1>1, <1>2 DEF Leave

\* makes one call of the run at the height n, above which nothing is left,
LEMMA RunWinds ==
  ASSUME AgentInv, NEW n \in 1 .. Len(stack), NEW f, stack[n].kind = "run",
         f.asked = stack[n].asked, Len(f.calls) < Len(stack[n].calls),
         DOMAIN stack' = 1 .. n, Len(stack') = n,
         \A i \in 1 .. n : stack'[i] = IF i = n THEN f ELSE stack[i]
  PROVE  StackWinds
BY StackFacts DEF StackWinds, Winding

\* calls a function or an agent.
LEMMA CallWinds ==
  ASSUME AgentInv, Calling, NEW f \in Frame, stack' = Append(stack, f),
         f.kind = "run" => f.calls = <<>> /\ f.asked = 0
  PROVE  StackWinds
<1>1. /\ Len(stack') = Len(stack) + 1 /\ DOMAIN stack' = 1 .. Len(stack) + 1
      /\ stack'[Len(stack) + 1] = f
      /\ \A i \in 1 .. Len(stack) : stack'[i] = stack[i]
  BY StackFacts, AppendProperties, LenProperties
<1>2. ASSUME NEW i \in 1 .. Len(stack) + 1 PROVE Winding(i)
  <2>1. CASE i = Len(stack) + 1 BY <1>1, <2>1, StackFacts DEF Winding
  <2>2. CASE i # Len(stack) + 1
    <3>1. i \in 1 .. Len(stack) /\ i \in DOMAIN stack BY <2>2, StackFacts
    <3> QED BY <1>1, <3>1 DEF Winding
  <2> QED BY <2>1, <2>2
<1> QED BY <1>1, <1>2 DEF StackWinds

LEMMA FunctionEndsWinds == ASSUME AgentInv, FunctionEnds PROVE StackWinds
<1>1. Len(stack) > 1 BY DEF FunctionEnds
<1> DEFINE n == Len(stack) - 2
<1>2. /\ n \in 0 .. Len(stack) - 1 /\ Below = stack[n + 1] /\ Below \in Frame
      /\ Called(Below, Top, event, n = 0)
  BY <1>1, BelowFacts
<1>3. CASE Below.kind = "run" /\ stack' = Return(Told(Below))
  <2> DEFINE m == Len(stack) - 1
             f == Told(Below)
  <2>1. Below \in RunFrame /\ Below.calls # <<>> BY <1>2, <1>3, Kinds DEF Called
  <2>2. f.asked = Below.asked /\ Len(f.calls) < Len(Below.calls) BY <2>1, ToldWinds
  <2>3. /\ m \in 1 .. Len(stack) /\ Below = stack[m]
        /\ Callers = SubSeq(stack, 1, m) /\ stack' = [Callers EXCEPT ![m] = f]
    BY <1>1, <1>3, StackFacts DEF Below, Callers, Return
  <2> HIDE DEF n, m, f
  <2>4. Callers \in Seq(Frame) /\ DOMAIN Callers = 1 .. m
        /\ \A i \in 1 .. m : Callers[i] = stack[i]
    <3>1. \A i \in 1 .. m : stack[i] \in Frame BY <2>3, StackFacts
    <3> QED BY <2>3, <3>1, StackFacts, SubSeqProperties, LenProperties
  <2>5. /\ DOMAIN stack' = 1 .. m
        /\ \A i \in 1 .. m : stack'[i] = IF i = m THEN f ELSE stack[i]
    BY <2>3, <2>4
  <2>6. Len(stack') = m
    <3>1. m \in Nat BY <2>3, StackFacts
    <3>2. Len(Callers) = m BY <2>4, <3>1, LenProperties
    <3> QED BY <2>3, <2>4, <3>2
  <2> QED BY <1>3, <2>2, <2>3, <2>5, <2>6, RunWinds
<1>4. CASE Below.kind = "walk" /\ Leave(Below, SubSeq(stack, 1, n))
  <2>1. Below \in WalkFrame /\ Below.at \in Nodes BY <1>2, <1>4, Kinds DEF Called
  <2> HIDE DEF n
  <2> QED BY <1>2, <1>4, <2>1, LeaveWinds
<1>5. CASE Abort(stack[1]) BY <1>5, StackFacts, AbortWinds
<1> QED BY <1>3, <1>4, <1>5 DEF FunctionEnds

LEMMA ReplaceWinds ==
  ASSUME AgentInv, Top.kind = "run", NEW f, stack' = Replace(f),
         f.asked = Top.asked, Len(f.calls) < Len(Top.calls)
  PROVE  StackWinds
<1>1. DOMAIN stack' = 1 .. Len(stack) /\ Len(stack') = Len(stack)
  BY StackFacts DEF Replace
<1>2. \A i \in 1 .. Len(stack) : stack'[i] = IF i = Len(stack) THEN f ELSE stack[i]
  BY StackFacts DEF Replace
<1>3. Len(stack) \in 1 .. Len(stack) BY StackFacts
<1>4. stack[Len(stack)] = Top BY StackFacts
<1> QED BY <1>1, <1>2, <1>3, <1>4, RunWinds

LEMMA StepWinds == AgentInv /\ [Next]_vars => [WindStep]_vars
<1> SUFFICES ASSUME AgentInv, Next, cancelled
             PROVE  cancelled' /\ StackWinds
  BY DEF WindStep
<1>1. CASE FunctionEnds
  <2>1. cancelled' = cancelled BY <1>1 DEF FunctionEnds, Leave, Abort
  <2> QED BY <1>1, <2>1, FunctionEndsWinds
<1>2. CASE StopWalking \/ ChatFails \/ CallFails
  <2>1. Abort(stack[1]) BY <1>2 DEF StopWalking, ChatFails, CallFails
  <2> QED BY <2>1, StackFacts, AbortWinds DEF Abort
<1>3. CASE CallEffect
  <2>1. /\ Top.kind = "run" /\ Top.calls # <<>> /\ stack' = Replace(Told(Top)) /\ cancelled' = cancelled
    BY <1>3 DEF CallEffect, Calling
  <2>2. Top \in RunFrame BY <2>1, TopRun
  <2> QED BY <2>1, <2>2, ToldWinds, ReplaceWinds
<1>4. CASE HandOver
  <2> DEFINE f == [Top EXCEPT !.agent = AgentOf[Name], !.calls = <<>>, !.done = <<>>,
                              !.turn = Top.turn + 1,
                              !.lost = Top.lost + Len(Top.done) \div 2]
  <2>1. /\ Top.kind = "run" /\ Top.calls # <<>> /\ stack' = Replace(f) /\ cancelled' = cancelled
    BY <1>4 DEF HandOver, Calling
  <2>2. Top \in RunFrame BY <2>1, TopRun
  <2>3. f.asked = Top.asked /\ f.calls = <<>> BY <2>2 DEF RunFrame
  <2> HIDE DEF f
  <2>4. Len(Top.calls) \in Nat /\ Len(Top.calls) # 0
    BY <2>1, <2>2, RunFields, LenProperties, EmptySeq
  <2>5. Len(f.calls) < Len(Top.calls) BY <2>3, <2>4
  <2> QED BY <2>1, <2>3, <2>5, ReplaceWinds
<1>5. CASE CallFunction
  <2> DEFINE g == FnOf[Name]
             f == Enter(EmptyScope(g), FnEntry[g], event)
  <2>1. g \in Functions /\ event \in Events
    BY <1>5, EdgeFields, StackFacts DEF CallFunction, Offered
  <2>2. f \in WalkFrame
    <3>1. g \in Graphs /\ FnEntry[g] \in Edge BY <2>1, EdgeFields DEF Graphs
    <3> QED BY <2>1, <3>1, EmptyScopeGood, EnterGood
  <2>3. Calling /\ stack' = Append(stack, f) /\ cancelled' = cancelled
    BY <1>5 DEF CallFunction, EnterFunction
  <2> HIDE DEF f
  <2> QED BY <2>2, <2>3, WalkFields, CallWinds DEF Frame
<1>6. CASE CallAgent
  <2> DEFINE f == Run(AgentOf[Name], <<Prompt(event, Name)>>)
  <2>1. Calling /\ stack' = Append(stack, f) /\ cancelled' = cancelled
    BY <1>6 DEF CallAgent
  <2>2. f.calls = <<>> /\ f.asked = 0 BY DEF Run
  <2>3. f \in Frame
    <3>1. Name \in AgentTools /\ event \in Events BY <1>6, StackFacts DEF CallAgent, Offered
    <3>2. AgentOf[Name] \in Agents /\ Prompt(event, Name) \in Item
      BY <3>1, AgentAssumption, ItemTypes DEF ToolNames
    <3> DEFINE p == Prompt(event, Name)
    <3>3. p.is = "prompt" BY DEF Prompt
    <3> HIDE DEF p
    <3>4. <<p>> \in Seq(Item) /\ \A j \in 1 .. Len(<<p>>) : <<p>>[j].is = "prompt"
      BY <3>2, <3>3 DEF p
    <3> QED BY <3>2, <3>4, NewRunGood DEF Frame, p
  <2> HIDE DEF f
  <2> QED BY <2>1, <2>2, <2>3, CallWinds
<1>7. CASE Over \/ UNCHANGED vars
  <2>1. stack' = stack /\ cancelled' = cancelled BY <1>7 DEF Over, vars
  <2>2. StackWinds BY <2>1, StackFacts DEF StackWinds, Winding
  <2> QED BY <2>1, <2>2
<1>8. CASE Fire
  <2>1. Len(stack) = 1 /\ cancelled' = cancelled BY <1>8 DEF Fire, AtRest
  <2> DEFINE f == [stack[1] EXCEPT !.written = {}, !.cleared = FALSE]
  <2>2. f \in WalkFrame BY StackFacts DEF WalkFrame
  <2> HIDE DEF f
  <2>3. \A e, ev : Enter(f, e, ev).kind = "walk" BY <2>2 DEF Enter, Follow, WalkFrame
  <2>4. PICK e \in Starts : stack' = <<Enter(f, e, event + 1)>> BY <1>8 DEF Fire, f
  <2> DEFINE g == Enter(f, e, event + 1)
  <2>5. g.kind = "walk" BY <2>3
  <2> HIDE DEF g
  <2>6. Len(stack') = 1 /\ DOMAIN stack' = {1} /\ stack'[1] = g BY <2>4 DEF g
  <2> QED BY <2>1, <2>5, <2>6 DEF StackWinds, Winding
<1> QED
  BY <1>1, <1>2, <1>3, <1>4, <1>5, <1>6, <1>7, <1>8
  DEF Next, Step, ExecuteStep, ExecuteCall, ExecuteAgent, Stopped, ChatCalls, ChatFinal,
      Cancel

\* After cancellation no model answers and no node starts an agent or a function,
\* however deep the calls are nested (engine/runner.go:82-85, function.go:50-53,
\* llmproxy/agent/runner.go:97-184).
THEOREM CancelledWindsDown == Spec => CancelWindsDown
BY StepWinds, Invariance, PTL DEF Spec, CancelWindsDown

===============================================================================
