---------------------------- MODULE EventService ----------------------------
(***************************************************************************)
(* What the workflow engine promises to the triggers of a workflow: a      *)
(* server of a bounded queue that serves one request at a time, to its     *)
(* end, in the order in which they were accepted, until it stops.          *)
(***************************************************************************)
EXTENDS Naturals, Sequences

CONSTANTS Request, Capacity

VARIABLES
  queue,     \* accepted requests, oldest first
  current,   \* the request being served, <<>> when there is none
  stopped    \* nothing is served any more

vars == <<queue, current, stopped>>

Init ==
  /\ queue = <<>>
  /\ current \in {<<>>} \cup {<<r>> : r \in Request}
  /\ stopped = FALSE

Accept(r) ==
  /\ Len(queue) < Capacity
  /\ queue' = Append(queue, r)
  /\ UNCHANGED <<current, stopped>>

\* The oldest request is taken; it may need no work at all, or be refused.
Serve ==
  /\ ~stopped
  /\ current = <<>>
  /\ queue # <<>>
  /\ queue' = Tail(queue)
  /\ current' \in {<<>>, <<Head(queue)>>}
  /\ UNCHANGED stopped

Finish ==
  /\ ~stopped
  /\ current # <<>>
  /\ current' = <<>>
  /\ UNCHANGED <<queue, stopped>>

Stop ==
  /\ ~stopped
  /\ stopped' = TRUE
  /\ UNCHANGED <<queue, current>>

Next == (\E r \in Request : Accept(r)) \/ Serve \/ Finish \/ Stop

Spec == Init /\ [][Next]_vars

FairSpec ==
  /\ Spec
  /\ WF_vars(Serve)
  /\ WF_vars(Finish)

=============================================================================
