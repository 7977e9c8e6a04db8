----------------------------- MODULE PoweredNodes -----------------------------
(***************************************************************************)
(* What the power manager and the NodeSet controller promise together: a   *)
(* set of powered ordinals for every ephemeral NodeSet, seeded once, to    *)
(* which every request adds its nodes, or from which it takes them away,   *)
(* once and at one moment.  A request that fails has done some of that.    *)
(***************************************************************************)
EXTENDS Naturals

CONSTANTS NodeSets, \* the NodeSets with ephemeral nodes
          Seeds,    \* the ordinals each of them starts with
          Programs  \* the programs slurmctld may run at the same time

VARIABLES active,  \* the powered ordinals of each NodeSet, once it is seeded
          known,   \* the NodeSets that have been seeded
          request  \* what each program has been asked, and still has to do

Idle == [op |-> "none", nodes |-> [ns \in NodeSets |-> {}], todo |-> {}]

Init ==
    /\ active = [ns \in NodeSets |-> {}]
    /\ known = {}
    /\ request = [p \in Programs |-> Idle]

Seed(ns) ==
    /\ ns \notin known
    /\ known' = known \cup {ns}
    /\ active' = [active EXCEPT ![ns] = Seeds[ns]]
    /\ UNCHANGED request

Call(p) ==
    /\ request[p] = Idle
    /\ request'[p] \in [op : {"resume", "suspend"}, nodes : [NodeSets -> SUBSET Nat],
                        todo : SUBSET NodeSets]
    /\ request' = [request EXCEPT ![p] = request'[p]]
    /\ UNCHANGED <<active, known>>

Apply(p, ns) ==
    /\ ns \in request[p].todo /\ ns \in known
    /\ active' = [active EXCEPT ![ns] = IF request[p].op = "resume"
                                        THEN @ \cup request[p].nodes[ns]
                                        ELSE @ \ request[p].nodes[ns]]
    /\ request' = [request EXCEPT ![p].todo = @ \ {ns}]
    /\ UNCHANGED known

\* The program ends: it has failed when something was left to do.
Return(p) ==
    /\ request' = [request EXCEPT ![p] = Idle]
    /\ UNCHANGED <<active, known>>

Next ==
    \/ \E ns \in NodeSets : Seed(ns)
    \/ \E p \in Programs :
          \/ Call(p)
          \/ \E ns \in NodeSets : Apply(p, ns)
          \/ Return(p)

Spec == Init /\ [][Next]_<<active, known, request>>
=============================================================================
