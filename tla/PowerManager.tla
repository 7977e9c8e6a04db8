----------------------------- MODULE PowerManager -----------------------------
(***************************************************************************)
(* The power-manager program, which slurmctld runs to resume and suspend   *)
(* nodes of ephemeral NodeSets, and the NodeSetPowerState objects it       *)
(* writes.  Several runs of the program may be under way at once.          *)
(***************************************************************************)
EXTENDS Integers, FiniteSets

CONSTANTS NodeSets,   \* the NodeSets with ephemeral nodes
          Replicas,   \* spec.replicas: the ordinals slurm.conf names
          Programs,   \* runs of the program that may be under way at once
          Attempts    \* retry.DefaultBackoff.Steps

ASSUME PowerAssumption ==
    /\ Replicas \in [NodeSets -> Nat]
    /\ Attempts \in Nat \ {0}

Ordinals(ns) == 0 .. (Replicas[ns] - 1)

Nodes == UNION {{ns} \X Ordinals(ns) : ns \in NodeSets}

VARIABLES powerState, \* the NodeSetPowerState of each NodeSet
          prog        \* the runs of the program

Absent == [exists |-> FALSE, activeNodes |-> {}, activeCount |-> -1]

\* A run between its calls: copy is the object it got, fresh whether the
\* object still has the resourceVersion of the copy.
Idle == [pc |-> "idle", op |-> "none", want |-> [ns \in NodeSets |-> {}],
         todo |-> {}, ns |-> "none", copy |-> {}, fresh |-> FALSE, tries |-> 0]

PowerTypeOK ==
    /\ powerState \in [NodeSets -> [exists : BOOLEAN, activeNodes : SUBSET Nat,
                                    activeCount : Int]]
    /\ prog \in [Programs -> [pc : {"idle", "get", "create", "update", "wait"},
                              op : {"none", "resume", "suspend"},
                              want : [NodeSets -> SUBSET Nat],
                              todo : SUBSET NodeSets,
                              ns : NodeSets \cup {"none"},
                              copy : SUBSET Nat,
                              fresh : BOOLEAN,
                              tries : 0 .. (Attempts - 1)]]

PowerInit ==
    /\ powerState = [ns \in NodeSets |-> Absent]
    /\ prog = [p \in Programs |-> Idle]

-----------------------------------------------------------------------------
(* The node list slurmctld passes, and how the program reads it.           *)

\* slurmctld writes nodes as a list of names with ranges of ordinals.
Hostlist(S) ==
    {[name |-> ns,
      spec |-> {r \in Ordinals(ns) \X Ordinals(ns) :
                  /\ \A o \in r[1] .. r[2] : <<ns, o>> \in S
                  /\ r[1] <= r[2]
                  /\ <<ns, r[1] - 1>> \notin S /\ <<ns, r[2] + 1>> \notin S}] :
     ns \in {n[1] : n \in S}}

\* Mutant: the end of a range is left out.
parseRangeSpecOpen(spec) == UNION {r[1] .. (r[2] - 1) : r \in spec}

parseRangeSpec(spec) == UNION {r[1] .. r[2] : r \in spec}

parseNodeList(list) ==
    UNION {{item.name} \X parseRangeSpec(item.spec) : item \in list}

groupNodesByNodeSet(refs) ==
    [ns \in NodeSets |-> {r[2] : r \in {s \in refs : s[1] = ns}}]

-----------------------------------------------------------------------------
(* The calls of a run.                                                     *)

\* Every write of the object ends the freshness of the copies of it.
Stale(ns, runs) ==
    [q \in Programs |-> IF runs[q].pc = "update" /\ runs[q].ns = ns
                        THEN [runs[q] EXCEPT !.fresh = FALSE] ELSE runs[q]]

\* The update of one NodeSet is done: the next one, or wait-added/-removed.
Done(p, runs) ==
    LET left == runs[p].todo \ {runs[p].ns}
    IN [runs EXCEPT ![p] = [@ EXCEPT !.pc = IF left = {} THEN "wait" ELSE "get",
                                     !.todo = left, !.ns = "none", !.copy = {},
                                     !.fresh = FALSE, !.tries = 0]]

\* The NodeSets of the list that exist and are ephemeral, in any order.
runPowerAction(p, op, nodes) ==
    LET want == groupNodesByNodeSet(parseNodeList(Hostlist(nodes)))
        todo == {ns \in NodeSets : want[ns] # {}}
    IN /\ prog[p].pc = "idle"
       /\ prog' = [prog EXCEPT ![p] = [Idle EXCEPT !.op = op, !.want = want,
                                         !.todo = todo,
                                         !.pc = IF todo = {} THEN "wait" ELSE "get"]]

Get(p, ns) ==
    /\ prog[p].pc = "get" /\ ns \in prog[p].todo /\ prog[p].ns \in {"none", ns}
    /\ prog' = [prog EXCEPT
         ![p].ns = ns,
         ![p].pc = IF powerState[ns].exists THEN "update" ELSE "create",
         ![p].copy = powerState[ns].activeNodes,
         ![p].fresh = TRUE]
    /\ UNCHANGED powerState

\* The object is created without active nodes; losing the race is an error.
Create(p) ==
    /\ prog[p].pc = "create"
    /\ IF powerState[prog[p].ns].exists
       THEN prog' = [prog EXCEPT ![p] = Idle] /\ UNCHANGED powerState
       ELSE /\ powerState' = [powerState EXCEPT ![prog[p].ns].exists = TRUE]
            /\ prog' = Done(p, prog)

\* What the run writes, from its copy.
newActiveNodes(r) == IF r.op = "resume" THEN r.copy \cup r.want[r.ns]
                     ELSE r.copy \ r.want[r.ns]

\* What is left of the retries after a conflict.
Conflict(r) == IF r.tries + 1 < Attempts
               THEN [r EXCEPT !.pc = "get", !.copy = {}, !.tries = @ + 1]
               ELSE Idle

\* Mutant: the list is written whatever the resourceVersion.
UpdateBlindly(p) ==
    LET r == prog[p] IN
    /\ r.pc = "update"
    /\ powerState' = [powerState EXCEPT ![r.ns].activeNodes = newActiveNodes(r)]
    /\ prog' = Done(p, Stale(r.ns, prog))

Update(p) ==
    LET r == prog[p] IN
    /\ r.pc = "update"
    /\ IF r.fresh
       THEN /\ powerState' = [powerState EXCEPT ![r.ns].activeNodes = newActiveNodes(r)]
            /\ prog' = IF newActiveNodes(r) = r.copy THEN Done(p, prog)
                       ELSE Done(p, Stale(r.ns, prog))
       ELSE /\ prog' = [prog EXCEPT ![p] = Conflict(r)]
            /\ UNCHANGED powerState

\* Any other error of a call ends the run; so does the timeout of the command.
ProgramFails(p) ==
    /\ prog[p].pc \in {"get", "create", "update"}
    /\ prog' = [prog EXCEPT ![p] = Idle]
    /\ UNCHANGED powerState

\* wait-added and wait-removed: whether all nodes are in the state waited for.
checkNodesStatus(p) ==
    \A ns \in NodeSets :
        prog[p].want[ns] # {} =>
            /\ powerState[ns].exists
            /\ IF prog[p].op = "resume"
               THEN prog[p].want[ns] \subseteq powerState[ns].activeNodes
               ELSE prog[p].want[ns] \cap powerState[ns].activeNodes = {}

\* The wait ends when they are, or at its timeout.  Either way the run is over.
waitForNodes(p) ==
    /\ prog[p].pc = "wait"
    /\ prog' = [prog EXCEPT ![p] = Idle]
    /\ UNCHANGED powerState
=============================================================================
