---------------------------- MODULE MCWorkerUpdate ----------------------------
(* WorkerUpdate for TLC.                                                   *)
EXTENDS WorkerUpdate, TLC

Some(f) == [b \in Bounds |-> IF b \in DOMAIN f THEN f[b] ELSE 0]

\* One template change and two troubles: failed calls and a pass that reads an
\* old status, or a failed call and a pod that fails and may come back.  Or two
\* changes and a failed call.
Updates ==
    {Some("changes" :> 1 @@ "troubles" :> 2 @@ "faults" :> 2 @@ "stale" :> 1),
     Some("changes" :> 1 @@ "troubles" :> 2 @@ "faults" :> 1 @@ "crashes" :> 1
          @@ "returns" :> 1),
     Some("changes" :> 2 @@ "troubles" :> 1 @@ "faults" :> 1)}

\* One template change, one failed call.
OneFault == {Some("changes" :> 1 @@ "troubles" :> 1 @@ "faults" :> 1)}
=============================================================================
