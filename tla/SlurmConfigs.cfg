SPECIFICATION FairSpec
CONSTANTS
  Readers <- MCReaders
  Paths <- MCPaths
  Configs <- MCConfigs
  FilesOf <- MCFilesOf
  Aggregated = {"slurm", "topology"}
  Reconfigures = {"slurm"}
  LongNames <- MCNoLong
  K8SNodes = {"k1", "k2"}
  GPUWorkers = {"gpu"}
  Fabrics <- MCFabrics
  TopologyPath = "topology.conf"
  Versions = {"v1", "v2"}
  Labellings <- MCLabellings
  Scenarios <- MCAll
INVARIANTS  ReadersFindFiles EveryNodeListedOnce 
PROPERTIES   TopologyReachesJail WorkersStart
CHECK_DEADLOCK FALSE
