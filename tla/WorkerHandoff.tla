----------------------------- MODULE WorkerHandoff -----------------------------
(***************************************************************************)
(* worker_handoff.py, the program of the power action with which the       *)
(* rolling update reboots a node.  slurmd runs it in the worker's pod.  It *)
(* reads the operation from the pod's labels and answers it by patching    *)
(* the phase from "stopping" to "ready".                                   *)
(***************************************************************************)
EXTENDS WorkerState

CONSTANT MaxAttempts \* MAX_ATTEMPTS

ASSUME HandoffAssumption == MaxAttempts \in Nat \ {0}

VARIABLE handoff \* the program in each pod

Off == [pc |-> "off", op |-> NoOperation, attempt |-> 0]

HandoffTypeOK ==
    handoff \in [Workers -> [pc : {"off", "get", "patch"},
                             op : Revision \cup {NoOperation},
                             attempt : 0 .. MaxAttempts]]

HandoffInit == handoff = [w \in Workers |-> Off]

\* The program starts: operation_id is None until the first answer.
Started == [pc |-> "get", op |-> NoOperation, attempt |-> 1]

Exit(w) == handoff' = [handoff EXCEPT ![w] = Off]

\* Mutant: one attempt too many.
AttemptFailsLate(w) ==
    IF handoff[w].attempt > MaxAttempts
    THEN Exit(w)
    ELSE handoff' = [handoff EXCEPT ![w].pc = "get", ![w].attempt = @ + 1]

\* An exception: the next attempt, after a sleep, or the end.
AttemptFails(w) ==
    IF handoff[w].attempt = MaxAttempts
    THEN Exit(w)
    ELSE handoff' = [handoff EXCEPT ![w].pc = "get", ![w].attempt = @ + 1]

\* What the program does with the labels it reads: it ends, with success when
\* the phase is already ready, or goes on to patch.
HandoffEnds(w) ==
    \/ pods[w].op = NoOperation
    \/ handoff[w].op \notin {NoOperation, pods[w].op}
    \/ pods[w].phase # "stopping"

get_worker_operation(w) ==
    /\ handoff[w].pc = "get" /\ Exists(w)
    /\ \/ HandoffEnds(w) /\ Exit(w)
       \/ /\ ~HandoffEnds(w)
          /\ handoff' = [handoff EXCEPT ![w].pc = "patch", ![w].op = pods[w].op]
    /\ UNCHANGED workerVars

\* The patch tests both labels before it replaces the phase.
mark_ready(w) ==
    /\ handoff[w].pc = "patch" /\ Exists(w)
    /\ \/ /\ pods[w].op = handoff[w].op /\ pods[w].phase = "stopping"
          /\ pods' = [pods EXCEPT ![w].phase = "ready"]
          /\ Exit(w)
       \/ /\ pods[w].op # handoff[w].op \/ pods[w].phase # "stopping"
          /\ AttemptFails(w)
          /\ UNCHANGED pods
    /\ UNCHANGED <<nodes, revision, status>>

\* A request that does not arrive, or a patch whose answer is lost.
HandoffRequestFails(w) ==
    /\ handoff[w].pc # "off" /\ Exists(w)
    /\ AttemptFails(w)
    /\ \/ UNCHANGED pods
       \/ /\ handoff[w].pc = "patch"
          /\ pods[w].op = handoff[w].op /\ pods[w].phase = "stopping"
          /\ pods' = [pods EXCEPT ![w].phase = "ready"]
    /\ UNCHANGED <<nodes, revision, status>>
=============================================================================
