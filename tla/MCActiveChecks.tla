---------------------------- MODULE MCActiveChecks ----------------------------
(* ActiveChecks for TLC: a Slurm check, and a Kubernetes check that depends *)
(* on it.                                                                   *)
EXTENDS ActiveChecks

Two == {"health", "report"}

Types == [c \in Two |-> IF c = "health" THEN "slurmJob" ELSE "k8sJob"]

OnHealth == [c \in Two |-> IF c = "report" THEN {"health"} ELSE {}]

Health == [c \in Two |-> c = "health"]

Always == [c \in Two |-> TRUE]

Unlimited == [c \in Two |-> 0]

Drains == [c \in Two |-> {"fail"}]

Times(B) == [b \in Bounds |-> IF b \in B THEN 1 ELSE 0]

OneFault == {Times({"bad", b}) : b \in {"faults", "answers", "pods", "cluster"}}
                \cup {Times({"delete", "faults"})}

ScheduledRuns == {Times({"schedule", "prune"})}

LostWrites == {Times({"stale"}), Times({"lost"})}

Troubles == OneFault \cup ScheduledRuns \cup LostWrites
=============================================================================
