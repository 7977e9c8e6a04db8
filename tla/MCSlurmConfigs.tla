--------------------------- MODULE MCSlurmConfigs ---------------------------
(* Small instances of SlurmConfigs. *)
EXTENDS SlurmConfigs

MCReaders == {"gpu", "cpu"}
MCPaths == {"slurm.conf", "gres.conf", "topology.conf", "extra.conf"}
MCConfigs == {"slurm", "topology", "extra"}
MCFilesOf == [c \in MCConfigs |-> CASE c = "slurm" -> {"slurm.conf", "gres.conf"}
                                    [] c = "topology" -> {"topology.conf"}
                                    [] OTHER -> {"extra.conf"}]
Tiers == [t \in {1, 2} |-> IF t = 1 THEN "leaf" ELSE "spine"]
OtherLeaf == [t \in {1, 2} |-> IF t = 1 THEN "leaf2" ELSE "spine"]
Shallow == [t \in {1} |-> "spine2"]
\* A node of a rack-scale system also has the label of its block.
WithBlock == [t \in {0, 1} |-> IF t = 0 THEN "block" ELSE "leaf3"]

Times(b) == [x \in Bounds |-> IF x \in DOMAIN b THEN b[x] ELSE 0]
Start(budget, js, running, nodes) ==
  [plugin |-> "tree", left |-> Times(budget), jailed |-> js, running |-> running, nodes |-> nodes]

OneNode(l) == [k \in {"k1"} |-> l]

\* They differ in tier 1: the controller does not notice other changes.
MCLabellings == {WithBlock, Tiers, OtherLeaf, Shallow, Unlabelled}
MCNoLong == {}
MCFabrics == [w \in {"gpu"} |-> "ib"]

Updates == {
  Start([update |-> 2], {"slurm", "topology"}, {"cpu"}, OneNode(Unlabelled)),
  Start([update |-> 1, evict |-> 1, pods |-> 1], {"slurm", "topology"}, {"cpu"}, OneNode(Unlabelled)),
  Start([update |-> 1, faults |-> 1], {"slurm", "topology"}, {"cpu"}, OneNode(Unlabelled)),
  Start([update |-> 1, crash |-> 1], {"slurm", "topology"}, {"cpu"}, OneNode(Unlabelled)),
  Start([update |-> 1, timeout |-> 1], {"slurm", "topology"}, {"cpu"}, OneNode(Unlabelled)),
  Start([update |-> 1, poll |-> 1], {"slurm", "topology"}, {"cpu"}, OneNode(Unlabelled)),
  Start([update |-> 1, silent |-> 1], {"slurm", "topology"}, {"cpu"}, OneNode(Unlabelled)),
  Start([update |-> 1, delete |-> 1], {"slurm", "topology"}, {"cpu"}, OneNode(Unlabelled)),
  Start([bad |-> 1], {"slurm", "topology"}, {"cpu"}, OneNode(Unlabelled))}

Extra == {
  Start([create |-> 1, update |-> 1, delete |-> 1], {"topology"}, {"cpu"}, OneNode(Unlabelled)),
  Start([update |-> 1, delete |-> 1, bad |-> 1], {"extra"}, {}, OneNode(Unlabelled))}

Placements == {
  Start([pods |-> 1], {}, {}, OneNode(Tiers)),
  Start([pods |-> 1, nodes |-> 1], {"topology"}, {}, OneNode(Shallow)),
  Start([pods |-> 1, relabel |-> 1], {"topology"}, {}, OneNode(Tiers)),
  Start([pods |-> 2, evict |-> 1], {"topology"}, {}, OneNode(Tiers)),
  Start([pods |-> 1, unregistered |-> 1, init |-> 1], {"topology"}, {}, OneNode(Tiers)),
  Start([distribution |-> 1, lost |-> 1, crash |-> 1, nodes |-> 1], {"topology"}, {}, OneNode(Tiers)),
  Start([pods |-> 1, distribution |-> 1], {"topology"}, {}, OneNode(Tiers))}

Blocks == {
  [Start([pods |-> 2], {"topology"}, {}, OneNode(WithBlock)) EXCEPT !.plugin = "block"],
  [Start([pods |-> 1, nodes |-> 1], {"topology"}, {}, OneNode(WithBlock)) EXCEPT !.plugin = "block"],
  [Start([pods |-> 1, relabel |-> 1], {"topology"}, {}, OneNode(Tiers)) EXCEPT !.plugin = "block"]}

MCAll == Updates \cup Extra \cup Placements \cup Blocks
=============================================================================
