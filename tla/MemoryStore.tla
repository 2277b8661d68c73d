----------------------------- MODULE MemoryStore -----------------------------
(***************************************************************************)
(* The memory files of an agent (go/engine/memory/manager.go): the working *)
(* copy of the Manager, the records on the device, the boot that brings    *)
(* them together, mutations that write through, crashes of the process and *)
(* new deployments.                                                        *)
(*                                                                         *)
(* The content of a file is a sequence of chunks; its size is its length.  *)
(* os.WriteFile truncates the record and then writes it, so that a record  *)
(* passes through a state in which it cannot be parsed (Torn). Everything  *)
(* happens with m.mu held, so one mutation at a time is in progress.       *)
(***************************************************************************)
EXTENDS Naturals, SequencesExt

CONSTANTS
  Files,        \* uids of memory files
  Chunks,       \* pieces of content an agent appends or replaces
  Seed,         \* per file, the content the workflow declares for it
  Deployments,  \* each a function from the declared files to their size caps
  MaxSize,      \* bound of the model on the size of a file
  Absent,       \* no entry, or no record
  Torn          \* a record that is not valid JSON

Content == BoundedSeq(Chunks, MaxSize)

ASSUME MemoryAssumption ==
  /\ MaxSize \in Nat
  /\ Seed \in [Files -> Content]
  /\ \A d \in Deployments : DOMAIN d \subseteq Files /\ \A f \in DOMAIN d : d[f] \in Nat
  /\ {Absent, Torn} \cap Content = {}
  /\ Absent # Torn

VARIABLES
  proc,       \* the engine process: down, reconciling, up, or failed at boot
  declared,   \* memory files of the deployed workflow, with their caps
  todo,       \* files that Reconcile has not handled yet
  local,      \* what readLocal found
  files,      \* m.files: per file its content, Absent without an entry
  disk,       \* the records
  writing,    \* the file whose record is being written: <<>> or <<uid>>
  before,     \* the content a mutation in progress replaces (a local of write)
  committed   \* history: content of the last mutation that succeeded, or the
              \* declared content the file began with

vars == <<proc, declared, todo, local, files, disk, writing, before, committed>>

Nothing == [f \in Files |-> Absent]

TypeOK ==
  /\ proc \in {"down", "reconciling", "up", "failed"}
  /\ declared \in Deployments
  /\ todo \subseteq DOMAIN declared
  /\ local \in [Files -> Content \cup {Absent}]
  /\ files \in [Files -> Content \cup {Absent}]
  /\ disk \in [Files -> Content \cup {Absent, Torn}]
  /\ writing \in {<<>>} \cup {<<f>> : f \in Files}
  /\ before \in Content \cup {Absent}
  /\ committed \in [Files -> Content \cup {Absent}]

Init ==
  /\ proc = "down"
  /\ declared \in Deployments
  /\ todo = {}
  /\ local = Nothing /\ files = Nothing /\ disk = Nothing
  /\ writing = <<>> /\ before = Absent
  /\ committed = Nothing

-----------------------------------------------------------------------------
(* Mutants: errors the manager could have had. Each stands in for the action   *)
(* named in its comment in a run that must then fail; none is part of Next.    *)

\* PersistFails without the rollback.
PersistFailsForward ==
  /\ writing # <<>>
  /\ writing' = <<>> /\ before' = Absent
  /\ proc' = IF proc = "up" THEN proc ELSE "failed"
  /\ UNCHANGED <<declared, todo, local, files, disk, committed>>

\* Boot that takes a record it cannot parse for content.
BootTrusting ==
  /\ proc = "down"
  /\ proc' = "reconciling"
  /\ local' = disk
  /\ todo' = DOMAIN declared
  /\ UNCHANGED <<declared, files, disk, writing, before, committed>>

-----------------------------------------------------------------------------
(* persist: os.WriteFile, in two steps, each of which may fail *)

\* The entry of f gets new content and its record is truncated, unless the
\* record cannot be opened: then the caller sees the error and the record stays.
StartPersist(f, content) ==
  /\ files' = [files EXCEPT ![f] = content]
  /\ disk' = [disk EXCEPT ![f] = Torn]
  /\ writing' = <<f>>
  /\ before' = files[f]

\* The record is complete.
Persisted ==
  /\ writing # <<>>
  /\ LET f == Head(writing) IN
       /\ disk' = [disk EXCEPT ![f] = files[f]]
       /\ committed' = [committed EXCEPT ![f] =
                           IF proc = "up" \/ @ = Absent THEN files[f] ELSE @]
       /\ todo' = todo \ {f}
  /\ writing' = <<>> /\ before' = Absent
  /\ UNCHANGED <<proc, declared, local, files>>

\* Writing fails half way (device full). A mutation rolls the entry back;
\* Reconcile returns the error, and the boot fails.
PersistFails ==
  /\ writing # <<>>
  /\ writing' = <<>> /\ before' = Absent
  /\ IF proc = "up"
     THEN /\ files' = [files EXCEPT ![Head(writing)] = before]
          /\ UNCHANGED proc
     ELSE /\ proc' = "failed"
          /\ UNCHANGED files
  /\ UNCHANGED <<declared, todo, local, disk, committed>>

-----------------------------------------------------------------------------
(* Boot *)

\* readLocal reads every record in the directory, declared or not. One that
\* cannot be parsed fails Reconcile, the build, and the boot.
Boot ==
  /\ proc = "down"
  /\ IF \E f \in Files : disk[f] = Torn
     THEN /\ proc' = "failed"
          /\ UNCHANGED <<todo, local>>
     ELSE /\ proc' = "reconciling"
          /\ local' = disk
          /\ todo' = DOMAIN declared
  /\ UNCHANGED <<declared, files, disk, writing, before, committed>>

\* Mutant of ReconcileFile: the declared content wins over the local record.
ReconcileFromSeed(f) ==
  /\ proc = "reconciling"
  /\ writing = <<>>
  /\ f \in todo
  /\ StartPersist(f, Seed[f])
  /\ UNCHANGED <<proc, declared, todo, local, committed>>

\* One round of the loop: a local record wins over the declared content.
ReconcileFile(f) ==
  /\ proc = "reconciling"
  /\ writing = <<>>
  /\ f \in todo
  /\ StartPersist(f, IF local[f] # Absent THEN local[f] ELSE Seed[f])
  /\ UNCHANGED <<proc, declared, todo, local, committed>>

\* Reconcile returns an error before it touches a record: an invalid name, a
\* directory or a record that cannot be opened.
ReconcileFails ==
  /\ proc = "reconciling"
  /\ writing = <<>>
  /\ proc' = "failed"
  /\ UNCHANGED <<declared, todo, local, files, disk, writing, before, committed>>

Ready ==
  /\ proc = "reconciling"
  /\ todo = {}
  /\ writing = <<>>
  /\ proc' = "up"
  /\ UNCHANGED <<declared, todo, local, files, disk, writing, before, committed>>

-----------------------------------------------------------------------------
(* Mutations by the agent's tools *)

\* Mutant of Write: checks the size the file has, not the one it will have.
WriteIfSmall(f, next) ==
  /\ proc = "up"
  /\ writing = <<>>
  /\ files[f] # Absent
  /\ Len(files[f]) <= declared[f]
  /\ Len(next) <= MaxSize
  /\ StartPersist(f, next)
  /\ UNCHANGED <<proc, declared, todo, local, committed>>

\* write: refused when the file is not declared or the result exceeds its cap.
\* A record that cannot be opened leaves everything as it was.
Write(f, next) ==
  /\ proc = "up"
  /\ writing = <<>>
  /\ files[f] # Absent
  /\ Len(next) <= declared[f]
  /\ Len(next) <= MaxSize
  /\ StartPersist(f, next)
  /\ UNCHANGED <<proc, declared, todo, local, committed>>

AppendTo(f) == \E c \in Chunks : Write(f, Append(files[f], c))

\* The first match of a chunk is replaced by another one, or by nothing.
Edit(f) ==
  \E i \in DOMAIN files[f], new \in {<<>>} \cup {<<c>> : c \in Chunks} :
    /\ \A j \in 1 .. i - 1 : files[f][j] # files[f][i]
    /\ Write(f, SubSeq(files[f], 1, i - 1) \o new \o SubSeq(files[f], i + 1, Len(files[f])))

-----------------------------------------------------------------------------
(* The process and its deployments *)

\* The process is killed, or exits: with a write in progress the record stays
\* as it is at that moment. The kernel goes on and keeps what was written; a loss
\* of power, which may take back a write that has returned because persist calls
\* no fsync, is not modelled.
Crash ==
  /\ proc \in {"reconciling", "up"}
  /\ proc' = "down"
  /\ todo' = {}
  /\ local' = Nothing /\ files' = Nothing
  /\ writing' = <<>> /\ before' = Absent
  /\ UNCHANGED <<declared, disk, committed>>

\* A new deployment replaces the container; the device directory stays.
Redeploy ==
  /\ proc \in {"down", "failed"}
  /\ declared' \in Deployments
  /\ proc' = "down"
  /\ todo' = {}
  /\ local' = Nothing /\ files' = Nothing
  /\ UNCHANGED <<disk, writing, before, committed>>

Next ==
  \/ Boot
  \/ \E f \in Files : ReconcileFile(f)
  \/ ReconcileFails
  \/ Ready
  \/ \E f \in DOMAIN declared : files[f] # Absent /\ (AppendTo(f) \/ Edit(f))
  \/ Persisted
  \/ PersistFails
  \/ Crash
  \/ Redeploy

Spec == Init /\ [][Next]_vars

-----------------------------------------------------------------------------
(* What the memory promises *)

BeingWritten(f) == writing = <<f>>

\* What the agent reads is what its last successful write left, across crashes,
\* restarts, failed writes and deployments that drop the file and declare it
\* again with other content (manager.go:80-87, 199-202).
RestartKeepsContent ==
  proc = "up" =>
    \A f \in DOMAIN declared : ~BeingWritten(f) => files[f] = committed[f]

\* A record that can be read holds the last committed content, never an older
\* one, so that the copy that wins at the next boot is the right one.
RecordIsCurrent == \A f \in Files : disk[f] # Torn => disk[f] = committed[f]

\* No mutation leaves a file above the cap of this deployment, also when an
\* earlier deployment with a larger cap left more in it (manager.go:194-196).
CapBoundsMutations ==
  [][\A f \in Files :
       proc = "up" /\ writing' = <<f>> => Len(files'[f]) <= declared[f]]_vars

\* A failed mutation commits nothing and the device keeps what it had
\* (manager.go:178-180, engine-ports.md:121-128): once written, a file has a
\* readable record with the committed content. This does not hold: WriteFile
\* truncates the record first, and a write that fails or a crash leaves it torn.
CommittedSurvives ==
  \A f \in Files :
    committed[f] # Absent /\ ~BeingWritten(f) => disk[f] = committed[f]

\* To the agent its memory has one history: no crash, failed write, restart or
\* deployment loses an edit that succeeded, brings an earlier content back, or
\* starts a file anew.
Memory == INSTANCE AgentMemory WITH content <- committed

ImplementsMemory == Memory!Spec

=============================================================================
