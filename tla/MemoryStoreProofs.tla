-------------------------- MODULE MemoryStoreProofs --------------------------
(***************************************************************************)
(* Proofs about MemoryStore for any files, contents, caps and deployments. *)
(***************************************************************************)
EXTENDS MemoryStore, TLAPS

\* While Reconcile runs, what it read of a file it has still to handle is the
\* committed content (or there is none), and a handled file has that content.
ReconcileIsFaithful ==
  proc = "reconciling" =>
    /\ \A f \in todo : local[f] = committed[f]
    /\ \A f \in DOMAIN declared \ todo : files[f] = committed[f]

\* A write in progress belongs to a live process; Reconcile rewrites a file
\* only with what was committed, or seeds one that nothing was committed of.
WriteIsKnown ==
  \A f \in Files : BeingWritten(f) =>
    /\ proc \in {"reconciling", "up"}
    /\ f \in DOMAIN declared
    /\ disk[f] = Torn
    /\ proc = "reconciling" =>
         f \in todo /\ (committed[f] = Absent \/ files[f] = committed[f])
    /\ proc = "up" => before = committed[f]

MemoryInv ==
  /\ TypeOK
  /\ RecordIsCurrent
  /\ RestartKeepsContent
  /\ ReconcileIsFaithful
  /\ WriteIsKnown

-----------------------------------------------------------------------------
(* Contents *)

LEMMA ContentIsBounded ==
  ASSUME NEW s \in Seq(Chunks), Len(s) <= MaxSize
  PROVE  s \in Content
<1>1. Len(s) \in 0 .. MaxSize /\ s \in [1 .. Len(s) -> Chunks]
  BY MemoryAssumption
<1> QED BY <1>1 DEF Content, BoundedSeq, SeqOf

LEMMA ContentIsSeq ==
  ASSUME NEW s \in Content
  PROVE  s \in Seq(Chunks)
<1>1. PICK n \in 0 .. MaxSize : s \in [1 .. n -> Chunks] BY DEF Content, BoundedSeq, SeqOf
<1>2. n \in Nat BY MemoryAssumption
<1> QED BY <1>1, <1>2

LEMMA DeclaredIsKnown ==
  ASSUME TypeOK
  PROVE  DOMAIN declared \subseteq Files
  BY MemoryAssumption DEF TypeOK

-----------------------------------------------------------------------------
(* The inductive invariant *)

LEMMA InitEstablishesInv == Init => MemoryInv
<1> SUFFICES ASSUME Init PROVE MemoryInv OBVIOUS
<1> USE DEF Init, Nothing
<1>1. TypeOK BY DEF TypeOK
<1>2. RecordIsCurrent BY DEF RecordIsCurrent
<1>3. RestartKeepsContent BY DEF RestartKeepsContent
<1>4. ReconcileIsFaithful BY DEF ReconcileIsFaithful
<1>5. WriteIsKnown BY DEF WriteIsKnown, BeingWritten
<1> QED BY <1>1, <1>2, <1>3, <1>4, <1>5 DEF MemoryInv

LEMMA PersistKeepsInv ==
  ASSUME MemoryInv, Persisted \/ PersistFails
  PROVE  MemoryInv'
<1> USE DEF MemoryInv
<1>1. PICK f \in Files : writing = <<f>> /\ Head(writing) = f
  BY DEF Persisted, PersistFails, TypeOK
<1>2. /\ f \in DOMAIN declared /\ disk[f] = Torn /\ proc \in {"reconciling", "up"}
      /\ proc = "reconciling" =>
           f \in todo /\ (committed[f] = Absent \/ files[f] = committed[f])
      /\ proc = "up" => before = committed[f]
  BY <1>1 DEF WriteIsKnown, BeingWritten
<1>3. \A g \in Files : BeingWritten(g) => g = f BY <1>1 DEF BeingWritten
<1>4. CASE Persisted
  <2>1. /\ disk' = [disk EXCEPT ![f] = files[f]]
        /\ committed' = [committed EXCEPT ![f] =
             IF proc = "up" \/ committed[f] = Absent THEN files[f] ELSE committed[f]]
        /\ todo' = todo \ {f} /\ writing' = <<>> /\ before' = Absent
        /\ UNCHANGED <<proc, declared, local, files>>
    BY <1>1, <1>4 DEF Persisted
  <2>2. committed'[f] = files[f] BY <1>1, <1>2, <2>1 DEF TypeOK
  <2>3. \A g \in Files : g # f => committed'[g] = committed[g] /\ disk'[g] = disk[g]
    BY <2>1 DEF TypeOK
  <2>4. TypeOK' BY <2>1 DEF TypeOK
  <2>5. RecordIsCurrent' BY <2>1, <2>2, <2>3 DEF RecordIsCurrent, TypeOK
  <2>6. RestartKeepsContent'
    BY <1>3, <2>1, <2>2, <2>3, DeclaredIsKnown DEF RestartKeepsContent
  <2>7. ReconcileIsFaithful'
    BY <2>1, <2>2, <2>3, DeclaredIsKnown DEF ReconcileIsFaithful, TypeOK
  <2>8. WriteIsKnown' BY <2>1 DEF WriteIsKnown, BeingWritten
  <2> QED BY <2>4, <2>5, <2>6, <2>7, <2>8
<1>5. CASE PersistFails
  <2>1. TypeOK' BY <1>1, <1>5 DEF PersistFails, TypeOK
  <2>2. RecordIsCurrent' BY <1>5 DEF PersistFails, RecordIsCurrent
  <2>3. RestartKeepsContent'
    BY <1>1, <1>2, <1>3, <1>5, DeclaredIsKnown DEF PersistFails, RestartKeepsContent, TypeOK
  <2>4. ReconcileIsFaithful' BY <1>2, <1>5 DEF PersistFails, ReconcileIsFaithful
  <2>5. WriteIsKnown' BY <1>5 DEF PersistFails, WriteIsKnown, BeingWritten
  <2> QED BY <2>1, <2>2, <2>3, <2>4, <2>5
<1> QED BY <1>4, <1>5

LEMMA ReconcileKeepsInv ==
  ASSUME MemoryInv, NEW f \in Files, ReconcileFile(f)
  PROVE  MemoryInv'
<1> USE DEF MemoryInv
<1> DEFINE content == IF local[f] # Absent THEN local[f] ELSE Seed[f]
<1>1. /\ proc = "reconciling" /\ writing = <<>> /\ f \in todo
      /\ files' = [files EXCEPT ![f] = content]
      /\ disk' = [disk EXCEPT ![f] = Torn]
      /\ writing' = <<f>> /\ before' = files[f]
      /\ UNCHANGED <<proc, declared, todo, local, committed>>
  BY DEF ReconcileFile, StartPersist
<1>2. content \in Content BY MemoryAssumption DEF TypeOK
<1>3. local[f] = committed[f] BY <1>1 DEF ReconcileIsFaithful
<1>4. TypeOK' BY <1>1, <1>2 DEF TypeOK
<1>5. RecordIsCurrent' BY <1>1 DEF RecordIsCurrent, TypeOK
<1>6. RestartKeepsContent' BY <1>1 DEF RestartKeepsContent
<1>7. ReconcileIsFaithful'
  BY <1>1, DeclaredIsKnown DEF ReconcileIsFaithful, TypeOK
<1>8. WriteIsKnown'
  BY <1>1, <1>3 DEF WriteIsKnown, BeingWritten, TypeOK
<1> QED BY <1>4, <1>5, <1>6, <1>7, <1>8

LEMMA WriteKeepsInv ==
  ASSUME MemoryInv, NEW f \in DOMAIN declared, NEW next \in Seq(Chunks), Write(f, next)
  PROVE  MemoryInv'
<1> USE DEF MemoryInv
<1>1. /\ proc = "up" /\ writing = <<>> /\ Len(next) <= MaxSize
      /\ files' = [files EXCEPT ![f] = next]
      /\ disk' = [disk EXCEPT ![f] = Torn]
      /\ writing' = <<f>> /\ before' = files[f]
      /\ UNCHANGED <<proc, declared, todo, local, committed>>
  BY DEF Write, StartPersist
<1>2. next \in Content /\ f \in Files BY <1>1, ContentIsBounded, DeclaredIsKnown
<1>3. TypeOK' BY <1>1, <1>2 DEF TypeOK
<1>4. RecordIsCurrent' BY <1>1 DEF RecordIsCurrent, TypeOK
<1>5. RestartKeepsContent'
  BY <1>1, DeclaredIsKnown DEF RestartKeepsContent, BeingWritten, TypeOK
<1>6. ReconcileIsFaithful' BY <1>1 DEF ReconcileIsFaithful
<1>7. files[f] = committed[f] BY <1>1 DEF RestartKeepsContent, BeingWritten
<1>8. WriteIsKnown' BY <1>1, <1>2, <1>7 DEF WriteIsKnown, BeingWritten, TypeOK
<1> QED BY <1>3, <1>4, <1>5, <1>6, <1>8

LEMMA MutationKeepsInv ==
  ASSUME MemoryInv, NEW f \in DOMAIN declared, files[f] # Absent, AppendTo(f) \/ Edit(f)
  PROVE  MemoryInv'
<1>1. files[f] \in Seq(Chunks)
  BY ContentIsSeq, DeclaredIsKnown DEF MemoryInv, TypeOK
<1>2. CASE AppendTo(f)
  <2>1. PICK c \in Chunks : Write(f, Append(files[f], c)) BY <1>2 DEF AppendTo
  <2>2. Append(files[f], c) \in Seq(Chunks) BY <1>1
  <2> QED BY <2>1, <2>2, WriteKeepsInv
<1>3. CASE Edit(f)
  <2>1. PICK i \in DOMAIN files[f], new \in {<<>>} \cup {<<c>> : c \in Chunks} :
          Write(f, SubSeq(files[f], 1, i - 1) \o new
                     \o SubSeq(files[f], i + 1, Len(files[f])))
    BY <1>3 DEF Edit
  <2>2. new \in Seq(Chunks)
    <3>1. CASE new = <<>> BY <3>1
    <3>2. ASSUME NEW c \in Chunks, new = <<c>> PROVE new \in Seq(Chunks) BY <3>2
    <3> QED BY <2>1, <3>1, <3>2
  <2>3. i \in 1 .. Len(files[f]) BY <1>1
  <2>4. SubSeq(files[f], 1, i - 1) \in Seq(Chunks)
    BY <1>1, <2>3
  <2>5. SubSeq(files[f], i + 1, Len(files[f])) \in Seq(Chunks)
    BY <1>1, <2>3
  <2>6. SubSeq(files[f], 1, i - 1) \o new \o SubSeq(files[f], i + 1, Len(files[f]))
          \in Seq(Chunks)
    BY <2>2, <2>4, <2>5
  <2> QED BY <2>1, <2>6, WriteKeepsInv
<1> QED BY <1>2, <1>3

LEMMA ProcessKeepsInv ==
  ASSUME MemoryInv, Boot \/ ReconcileFails \/ Ready \/ Crash \/ Redeploy
  PROVE  MemoryInv'
<1> USE DEF MemoryInv, BeingWritten
<1>1. CASE Boot
  <2>1. TypeOK' BY <1>1 DEF Boot, TypeOK
  <2>2. ReconcileIsFaithful'
    BY <1>1, DeclaredIsKnown DEF Boot, ReconcileIsFaithful, RecordIsCurrent
  <2>3. WriteIsKnown' BY <1>1 DEF Boot, WriteIsKnown
  <2> QED BY <1>1, <2>1, <2>2, <2>3 DEF Boot, RecordIsCurrent, RestartKeepsContent
<1>2. CASE ReconcileFails
  BY <1>2 DEF ReconcileFails, TypeOK, RecordIsCurrent, RestartKeepsContent,
              ReconcileIsFaithful, WriteIsKnown
<1>3. CASE Ready
  BY <1>3 DEF Ready, TypeOK, RecordIsCurrent, RestartKeepsContent,
              ReconcileIsFaithful, WriteIsKnown
<1>4. CASE Crash
  BY <1>4 DEF Crash, Nothing, TypeOK, RecordIsCurrent, RestartKeepsContent,
              ReconcileIsFaithful, WriteIsKnown
<1>5. CASE Redeploy
  BY <1>5 DEF Redeploy, Nothing, TypeOK, RecordIsCurrent, RestartKeepsContent,
              ReconcileIsFaithful, WriteIsKnown
<1> QED BY <1>1, <1>2, <1>3, <1>4, <1>5

LEMMA NextKeepsInv == MemoryInv /\ [Next]_vars => MemoryInv'
<1> SUFFICES ASSUME MemoryInv, [Next]_vars PROVE MemoryInv' OBVIOUS
<1>1. CASE UNCHANGED vars
  BY <1>1 DEF vars, MemoryInv, TypeOK, RecordIsCurrent, RestartKeepsContent,
              ReconcileIsFaithful, WriteIsKnown, BeingWritten
<1> QED BY <1>1, PersistKeepsInv, ReconcileKeepsInv, MutationKeepsInv, ProcessKeepsInv
        DEF Next

LEMMA InvariantHolds == Spec => []MemoryInv
  BY InitEstablishesInv, NextKeepsInv, PTL DEF Spec

-----------------------------------------------------------------------------

\* The state of the memory is well typed for any files and deployments.
THEOREM TypeCorrect == Spec => []TypeOK
<1>1. MemoryInv => TypeOK BY DEF MemoryInv
<1> QED BY <1>1, InvariantHolds, PTL

\* An agent reads what its last successful write left, across any number of
\* crashes, failed writes and deployments.
THEOREM ContentSurvives == Spec => []RestartKeepsContent
<1>1. MemoryInv => RestartKeepsContent BY DEF MemoryInv
<1> QED BY <1>1, InvariantHolds, PTL

\* A record on the device that can be read is never older than the last commit.
THEOREM NoStaleRecord == Spec => []RecordIsCurrent
<1>1. MemoryInv => RecordIsCurrent BY DEF MemoryInv
<1> QED BY <1>1, InvariantHolds, PTL

\* No mutation leaves a file above the cap of the running deployment.
THEOREM CapsHold == Spec => CapBoundsMutations
<1> DEFINE A == \A f \in Files :
                  proc = "up" /\ writing' = <<f>> => Len(files'[f]) <= declared[f]
<1>1. ASSUME MemoryInv, Next, NEW f \in Files, proc = "up", writing' = <<f>>
      PROVE  Len(files'[f]) <= declared[f]
  <2>1. PICK g \in DOMAIN declared : files[g] # Absent /\ (AppendTo(g) \/ Edit(g))
    BY <1>1 DEF Next, Boot, ReconcileFile, ReconcileFails, Ready, Persisted, PersistFails,
                Crash, Redeploy
  <2>2. PICK next : Write(g, next) BY <2>1 DEF AppendTo, Edit
  <2>3. g = f /\ files'[f] = next /\ Len(next) <= declared[f]
    BY <1>1, <2>2 DEF Write, StartPersist, MemoryInv, TypeOK
  <2> QED BY <2>3
<1>2. MemoryInv /\ [Next]_vars => [A]_vars BY <1>1
<1> QED BY <1>2, InvariantHolds, PTL DEF Spec, CapBoundsMutations

-----------------------------------------------------------------------------
(* The history of a file: the refinement of AgentMemory *)

\* What a write in progress would commit: an edit of what the file holds, or,
\* when Reconcile seeds the file, the declared content.
WriteIsAnEdit ==
  \A f \in Files : BeingWritten(f) =>
    /\ proc = "up" => before # Absent /\ files[f] \in Memory!Edited(before)
    /\ proc = "reconciling" /\ committed[f] = Absent => files[f] = Seed[f]

LEMMA ReplacedIsEdited ==
  ASSUME NEW s, NEW i \in DOMAIN s, \A j \in 1 .. i - 1 : s[j] # s[i],
         NEW new \in {<<>>} \cup {<<c>> : c \in Chunks}
  PROVE  SubSeq(s, 1, i - 1) \o new \o SubSeq(s, i + 1, Len(s)) \in Memory!Edited(s)
<1> DEFINE I == {j \in DOMAIN s : \A k \in 1 .. j - 1 : s[k] # s[j]}
           N == {<<>>} \cup {<<c>> : c \in Chunks}
           cut(j, n) == SubSeq(s, 1, j - 1) \o n \o SubSeq(s, j + 1, Len(s))
<1>1. i \in I /\ new \in N OBVIOUS
<1>2. Memory!Replaced(s) = {cut(j, n) : j \in I, n \in N} BY DEF Memory!Replaced
<1>3. cut(i, new) \in {cut(j, n) : j \in I, n \in N}
  <2> HIDE DEF I, N, cut
  <2> QED BY <1>1
<1>4. cut(i, new) \in Memory!Edited(s)
  <2> HIDE DEF I, N, cut
  <2> QED BY <1>2, <1>3 DEF Memory!Edited
<1> QED BY <1>4

LEMMA WriteStartsAnEdit ==
  ASSUME MemoryInv, NEW f \in DOMAIN declared, files[f] # Absent, AppendTo(f) \/ Edit(f)
  PROVE  WriteIsAnEdit'
<1>1. \E next \in Memory!Edited(files[f]) : Write(f, next)
  <2>1. CASE AppendTo(f) BY <2>1 DEF AppendTo, Memory!Edited, Memory!Appended
  <2>2. CASE Edit(f)
    <3>1. PICK i \in DOMAIN files[f], new \in {<<>>} \cup {<<c>> : c \in Chunks} :
            /\ \A j \in 1 .. i - 1 : files[f][j] # files[f][i]
            /\ Write(f, SubSeq(files[f], 1, i - 1) \o new
                          \o SubSeq(files[f], i + 1, Len(files[f])))
      BY <2>2 DEF Edit
    <3> QED BY <3>1, ReplacedIsEdited
  <2> QED BY <2>1, <2>2
<1>2. PICK next \in Memory!Edited(files[f]) : Write(f, next) BY <1>1
<1>3. /\ proc = "up" /\ proc' = "up" /\ writing' = <<f>> /\ before' = files[f]
      /\ files' = [files EXCEPT ![f] = next]
  BY <1>2 DEF Write, StartPersist
<1>4. \A g \in Files : BeingWritten(g)' => g = f /\ files'[g] = next
  BY <1>3 DEF BeingWritten, MemoryInv, TypeOK
<1>5. next \in Memory!Edited(before') BY <1>3
<1> QED BY <1>3, <1>4, <1>5 DEF WriteIsAnEdit

LEMMA NextKeepsEdits == MemoryInv /\ WriteIsAnEdit /\ [Next]_vars => WriteIsAnEdit'
<1> SUFFICES ASSUME MemoryInv, WriteIsAnEdit, [Next]_vars PROVE WriteIsAnEdit' OBVIOUS
<1>1. ASSUME NEW f \in Files, ReconcileFile(f) PROVE WriteIsAnEdit'
  <2>1. /\ proc = "reconciling" /\ f \in todo /\ writing' = <<f>>
        /\ files' = [files EXCEPT ![f] = IF local[f] # Absent THEN local[f] ELSE Seed[f]]
        /\ UNCHANGED <<proc, committed>>
    BY <1>1 DEF ReconcileFile, StartPersist
  <2>2. local[f] = committed[f] BY <2>1 DEF MemoryInv, ReconcileIsFaithful
  <2> QED BY <2>1, <2>2 DEF WriteIsAnEdit, BeingWritten, MemoryInv, TypeOK
<1>2. CASE UNCHANGED <<proc, files, writing, before, committed>>
  BY <1>2 DEF WriteIsAnEdit, BeingWritten
<1>3. CASE writing' = <<>> BY <1>3 DEF WriteIsAnEdit, BeingWritten
<1>4. CASE Boot \/ Ready \/ Redeploy \/ ReconcileFails
  <2>1. \A f \in Files : ~BeingWritten(f) /\ UNCHANGED writing
    BY <1>4 DEF Boot, Ready, Redeploy, ReconcileFails, BeingWritten, MemoryInv, WriteIsKnown
  <2> QED BY <2>1 DEF WriteIsAnEdit, BeingWritten
<1> QED BY <1>1, <1>2, <1>3, <1>4, WriteStartsAnEdit
        DEF Next, Persisted, PersistFails, Crash, vars

\* A record that is completed is an edit, the beginning of a history, or what
\* had been committed already.
LEMMA CommitRefines ==
  ASSUME MemoryInv, WriteIsAnEdit, Persisted
  PROVE  [Memory!Next]_committed
<1> USE DEF MemoryInv
<1>1. PICK f \in Files : writing = <<f>> /\ Head(writing) = f
  BY DEF Persisted, TypeOK
<1>2. committed' = [committed EXCEPT ![f] =
        IF proc = "up" \/ committed[f] = Absent THEN files[f] ELSE committed[f]]
  BY <1>1 DEF Persisted
<1>3. /\ proc \in {"reconciling", "up"}
      /\ proc = "up" => before = committed[f] /\ before # Absent
                          /\ files[f] \in Memory!Edited(before)
      /\ proc = "reconciling" /\ committed[f] = Absent => files[f] = Seed[f]
  BY <1>1 DEF WriteIsKnown, WriteIsAnEdit, BeingWritten
<1>4. CASE proc = "up" BY <1>2, <1>3, <1>4 DEF Memory!Next, Memory!Change
<1>5. CASE proc = "reconciling" /\ committed[f] = Absent
  BY <1>2, <1>3, <1>5 DEF Memory!Next, Memory!Create
<1>6. CASE proc = "reconciling" /\ committed[f] # Absent
  <2>1. committed' = committed BY <1>2, <1>6 DEF TypeOK
  <2> QED BY <2>1
<1> QED BY <1>3, <1>4, <1>5, <1>6

\* The memory has one history for each file, for any files, contents, caps,
\* deployments and any number of crashes and failed writes: the only step that
\* shows is the end of a write, and it is made to the content that the last one
\* left (manager.go:80-87, 178-202).
THEOREM RefinesMemory == Spec => ImplementsMemory
<1>1. Init => WriteIsAnEdit BY DEF Init, WriteIsAnEdit, BeingWritten
<1>2. Init => Memory!Init BY DEF Init, Nothing, Memory!Init
<1>3. MemoryInv /\ WriteIsAnEdit /\ [Next]_vars => [Memory!Next]_committed
  <2> SUFFICES ASSUME MemoryInv, WriteIsAnEdit, [Next]_vars PROVE [Memory!Next]_committed
    OBVIOUS
  <2>1. ASSUME NEW f \in DOMAIN declared, AppendTo(f) \/ Edit(f) PROVE UNCHANGED committed
    BY <2>1 DEF AppendTo, Edit, Write
  <2>2. CASE Persisted BY <2>2, CommitRefines
  <2>3. CASE ~Persisted
    BY <2>1, <2>3 DEF Next, Boot, ReconcileFile, ReconcileFails, Ready, PersistFails, Crash,
                      Redeploy, vars
  <2> QED BY <2>2, <2>3
<1> QED BY <1>1, <1>2, <1>3, InvariantHolds, NextKeepsEdits, PTL
        DEF Spec, ImplementsMemory, Memory!Spec

=============================================================================
