---------------------------- MODULE MCNodeRecovery ----------------------------
(* NodeRecovery for TLC.                                                   *)
EXTENDS NodeRecovery, TLC

Some(f) == [b \in Bounds |-> IF b \in DOMAIN f THEN f[b] ELSE 0]

\* Two kill-task-failed drains, one after or during the recovery from the
\* other; or one trouble of any kind, with one failed call or restart.
Recoveries ==
    {Some("kills" :> 2 @@ "troubles" :> 2)}
    \cup {Some(b :> 1 @@ "troubles" :> 1 @@ "faults" :> 1) :
             b \in {"kills", "drains", "maintenance", "notReady"}}

\* A recovery in which a call fails and others come before a patch of the
\* Rebooter, or a decision is made on an old copy of the node.
Disturbances ==
    {Some("kills" :> 1 @@ "troubles" :> 1 @@ "faults" :> 1 @@ "races" :> 1),
     Some("kills" :> 1 @@ "troubles" :> 1 @@ "stale" :> 1)}

\* Maintenance scheduled, cancelled and scheduled again, with one decision on
\* an old copy of the node and one reboot nobody ordered.
Cancellations ==
    {Some("maintenance" :> 2 @@ "troubles" :> 2 @@ "cancels" :> 1 @@ "stale" :> 1
          @@ "crashes" :> 1)}

\* A reboot nobody ordered during a recovery.
UnorderedReboot == {Some("kills" :> 1 @@ "troubles" :> 1 @@ "crashes" :> 1)}

Symmetric == Permutations(Workers)
=============================================================================
