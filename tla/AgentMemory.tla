---------------------------- MODULE AgentMemory ----------------------------
(***************************************************************************)
(* What the memory of an agent promises: every file has one history. It    *)
(* begins with the content the workflow declares when the file is first    *)
(* seen, and goes on by one edit of one file at a time, each made to the   *)
(* content that the one before it left.                                    *)
(***************************************************************************)
EXTENDS Naturals, Sequences

CONSTANTS Files, Chunks, Seed, Absent

VARIABLE content   \* per file, Absent before its history begins

\* What an append, and a replacement of the first match of a chunk, can make
\* of the content s.
Appended(s) == {Append(s, c) : c \in Chunks}

Replaced(s) ==
  {SubSeq(s, 1, i - 1) \o new \o SubSeq(s, i + 1, Len(s)) :
     i \in {j \in DOMAIN s : \A k \in 1 .. j - 1 : s[k] # s[j]},
     new \in {<<>>} \cup {<<c>> : c \in Chunks}}

Edited(s) == Appended(s) \cup Replaced(s)

Init == content = [f \in Files |-> Absent]

Create(f) ==
  /\ content[f] = Absent
  /\ content' = [content EXCEPT ![f] = Seed[f]]

Change(f) ==
  /\ content[f] # Absent
  /\ \E s \in Edited(content[f]) : content' = [content EXCEPT ![f] = s]

Next == \E f \in Files : Create(f) \/ Change(f)

Spec == Init /\ [][Next]_content

=============================================================================
