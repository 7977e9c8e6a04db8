------------------------------- MODULE Rebooter -------------------------------
(***************************************************************************)
(* The Rebooter, an agent on every node: it cordons, taints and empties    *)
(* its node when told to drain, reboots the machine when told to reboot,   *)
(* and after a reboot opens the node again.                                *)
(*                                                                         *)
(* A reconciliation decides on the cached node (rcache); what it then does *)
(* is a fixed sequence of calls.  Every condition write is a live read     *)
(* followed by a merge patch of the whole condition list: RetryOnConflict  *)
(* around them never sees a conflict.  WriteCondition is a write nobody    *)
(* interferes with; ReadConditions and PatchConditions are the two halves  *)
(* of one that others may come between.                                    *)
(* The "evict" method is the only one the program accepts.                 *)
(***************************************************************************)
EXTENDS NodeConditions

VARIABLES machine, \* the machine under the node
          rcache,  \* the agent's cached copy of its node
          r        \* the reconciliation in progress

rebooterVars == <<machine, rcache, r>>

ConditionStep == {"setUndrained", "setRebooted", "setDraining", "setDrained",
                  "setRebooting"}

RebooterStep == ConditionStep \cup
    {"idle", "uncordon", "untaint", "cordon", "taint", "evicted", "reboot"}

\* body: the patch that has been computed, when read is TRUE.
RebooterRun == [pc : RebooterStep, drain : BOOLEAN, reboot : BOOLEAN,
                read : BOOLEAN, body : NodeObject]

IdleRebooter == [pc |-> "idle", drain |-> FALSE, reboot |-> FALSE,
                 read |-> FALSE, body |-> FreshNode(0, 0)]

RebooterTypeOK ==
    /\ machine \in [up : BOOLEAN, boot : Nat]
    /\ rcache \in NodeObject
    /\ r \in RebooterRun

RebooterInit ==
    /\ machine = [up |-> TRUE, boot |-> 0]
    /\ rcache = node
    /\ r = IdleRebooter

SyncRebooter ==
    /\ machine.up
    /\ rcache # node
    /\ rcache' = node
    /\ UNCHANGED <<boardVars, machine, r>>

-----------------------------------------------------------------------------
(* GetActions                                                              *)

\* Mutant: the comparison is the wrong way round.
UptimeLessThanLastTransition(c) == machine.boot > c.ltt

\* The machine started before the condition last changed.
IsUptimeGreaterThanLastTransition(c) == machine.boot < c.ltt

checkIfNodeNeedsReboot(c) == c.reason # "Rebooted" /\ IsConditionTrue(c)

\* The first step of a reconciliation; the drain order is noted before a
\* finished reboot takes it back.
GetActions(n) ==
    LET drain == IsConditionTrue(n.conds["SlurmNodeDrain"])
        reboot == n.conds["SlurmNodeReboot"]
        run(pc) == [IdleRebooter EXCEPT !.pc = pc, !.drain = drain]
    IN  CASE /\ reboot.status # ""
             /\ ~IsUptimeGreaterThanLastTransition(reboot) ->
                IF checkIfNodeNeedsReboot(reboot)
                THEN run(IF n.unschedulable THEN "uncordon" ELSE "untaint")
                ELSE run("setRebooted")
          [] /\ reboot.status # ""
             /\ IsUptimeGreaterThanLastTransition(reboot)
             /\ checkIfNodeNeedsReboot(reboot) ->
                [run("setDraining") EXCEPT !.drain = TRUE, !.reboot = TRUE]
          [] OTHER -> IF drain THEN run("setDraining") ELSE IdleRebooter

RebooterReconcile ==
    /\ machine.up /\ node.exists
    /\ r.pc = "idle"
    /\ r' = GetActions(rcache)
    /\ UNCHANGED <<boardVars, machine, rcache>>

-----------------------------------------------------------------------------
(* The calls                                                               *)

\* Mutant: a finished reboot is not reported.
AfterWithoutRebooted(pc) ==
    CASE pc = "uncordon"     -> "untaint"
      [] pc = "untaint"      -> "setUndrained"
      [] pc = "setUndrained" -> IF r.drain THEN "setDraining" ELSE "idle"
      [] pc = "setRebooted"  -> IF r.drain THEN "setDraining" ELSE "idle"
      [] pc = "setDraining"  -> "cordon"
      [] pc = "cordon"       -> "taint"
      [] pc = "taint"        -> "evicted"
      [] pc = "evicted"      -> "setDrained"
      [] pc = "setDrained"   -> IF r.reboot THEN "setRebooting" ELSE "idle"
      [] pc = "setRebooting" -> "reboot"

\* What each condition write sets, and the step that comes after each step.
Written(pc) ==
    CASE pc = "setUndrained" -> <<"SlurmNodeDrain", "False", "Undrained">>
      [] pc = "setRebooted"  -> <<"SlurmNodeReboot", "True", "Rebooted">>
      [] pc = "setDraining"  -> <<"SlurmNodeDrain", "True", "Draining">>
      [] pc = "setDrained"   -> <<"SlurmNodeDrain", "True", "Drained">>
      [] pc = "setRebooting" -> <<"SlurmNodeReboot", "True", "Rebooting">>

After(pc) ==
    CASE pc = "uncordon"     -> "untaint"
      [] pc = "untaint"      -> "setUndrained"
      [] pc = "setUndrained" -> "setRebooted"
      [] pc = "setRebooted"  -> IF r.drain THEN "setDraining" ELSE "idle"
      [] pc = "setDraining"  -> "cordon"
      [] pc = "cordon"       -> "taint"
      [] pc = "taint"        -> "evicted"
      [] pc = "evicted"      -> "setDrained"
      [] pc = "setDrained"   -> IF r.reboot THEN "setRebooting" ELSE "idle"
      [] pc = "setRebooting" -> "reboot"

Proceed ==
    r' = IF After(r.pc) = "idle" THEN IdleRebooter
         ELSE [r EXCEPT !.pc = After(r.pc), !.read = FALSE,
                        !.body = IdleRebooter.body]

\* SetNodeConditionIfNotExists: an unchanged condition keeps its time.
SetNodeCondition(n, type, status, reason) ==
    LET c == n.conds[type]
        same == c.status = status /\ c.reason = reason
    IN  Conditioned(n, type, newNodeCondition(type, status, reason,
                                              IF same THEN c.ltt ELSE now))

\* The live node with the condition of the current step set.
PatchBody ==
    LET w == Written(r.pc) IN SetNodeCondition(node, w[1], w[2], w[3])

WriteCondition ==
    /\ machine.up /\ node.exists
    /\ r.pc \in ConditionStep /\ ~r.read
    /\ node' = MergePatched(PatchBody)
    /\ Proceed
    /\ UNCHANGED <<now, mcache, pod, machine, rcache>>

ReadConditions ==
    /\ machine.up /\ node.exists
    /\ r.pc \in ConditionStep /\ ~r.read
    /\ r' = [r EXCEPT !.read = TRUE, !.body = PatchBody]
    /\ UNCHANGED <<boardVars, machine, rcache>>

PatchConditions ==
    /\ machine.up /\ node.exists
    /\ r.pc \in ConditionStep /\ r.read
    /\ node' = MergePatched(r.body)
    /\ Proceed
    /\ UNCHANGED <<now, mcache, pod, machine, rcache>>

SetNodeUnschedulable ==
    /\ machine.up /\ node.exists
    /\ r.pc \in {"cordon", "uncordon"}
    /\ node' = [node EXCEPT !.unschedulable = (r.pc = "cordon")]
    /\ Proceed
    /\ UNCHANGED <<now, mcache, pod, machine, rcache>>

TaintNodeWithNoExecute ==
    /\ machine.up /\ node.exists
    /\ r.pc \in {"taint", "untaint"}
    /\ node' = [node EXCEPT !.tainted = (r.pc = "taint")]
    /\ Proceed
    /\ UNCHANGED <<now, mcache, pod, machine, rcache>>

\* Mutant: the pods that are left are not looked at.
PodsTakenAsEvicted ==
    /\ machine.up /\ node.exists
    /\ r.pc = "evicted"
    /\ Proceed
    /\ UNCHANGED <<boardVars, machine, rcache>>

\* A pod that is still there ends the reconciliation; it is tried again.
AreAllPodsEvicted ==
    /\ machine.up /\ node.exists
    /\ r.pc = "evicted"
    /\ IF \E w \in Workers : pod[w].on THEN r' = IdleRebooter ELSE Proceed
    /\ UNCHANGED <<boardVars, machine, rcache>>

\* The machine goes down with whatever runs on it.
RebootNode ==
    /\ machine.up /\ node.exists
    /\ r.pc = "reboot"
    /\ machine' = [machine EXCEPT !.up = FALSE]
    /\ pod' = [w \in Workers |-> [pod[w] EXCEPT !.on = FALSE]]
    /\ r' = IdleRebooter
    /\ UNCHANGED <<now, node, mcache, rcache>>

\* The machine is up again and the agent starts with a fresh cache.
Boot ==
    /\ ~machine.up
    /\ machine' = [up |-> TRUE, boot |-> now]
    /\ rcache' = node
    /\ UNCHANGED <<boardVars, r>>

\* A call fails or the agent's pod restarts.
RebooterFails ==
    /\ machine.up
    /\ r.pc # "idle"
    /\ r' = IdleRebooter
    /\ rcache' \in {rcache, node}
    /\ UNCHANGED <<boardVars, machine>>

RebooterAgent ==
    \/ RebooterReconcile
    \/ WriteCondition
    \/ PatchConditions
    \/ SetNodeUnschedulable
    \/ TaintNodeWithNoExecute
    \/ AreAllPodsEvicted
    \/ RebootNode

=============================================================================
