--------------------------- MODULE MCEphemeralNodes ---------------------------
(* EphemeralNodes for TLC: one NodeSet of two nodes.                       *)
EXTENDS EphemeralNodes, TLC

OneSet == {"gpu"}

TwoNodes == [ns \in OneSet |-> 2]

OneSeed == [ns \in OneSet |-> 1]

Calls(k) == [b \in Bounds |-> IF b = "calls" THEN k ELSE 0]

ThreeCalls == {Calls(3), [Calls(2) EXCEPT !["faults"] = 1, !["progFaults"] = 1]}

\* One kind of trouble at a time.
TroubledCalls ==
    {[Calls(2) EXCEPT !["stale"] = 1]}
        \cup {[Calls(1) EXCEPT ![b] = 1] : b \in {"faults", "progFaults", "maintenance"}}

Symmetric == Permutations(Programs)
=============================================================================
