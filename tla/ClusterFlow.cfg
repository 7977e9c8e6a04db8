SPECIFICATION FairSpec
CONSTANTS
  ConfigMaps = {"slurm-configs", "sysctl", "controller-limits", "login-limits", "sshd-login", "ssh-root-keys", "user-isolation", "custom-sshd"}
  Secrets = {"rest-jwt", "munge", "sshd-keys", "slurmdbd", "mariadb-password", "mariadb-root", "sssd-conf", "db-password"}
  Services = {"accounting-svc", "controller-svc", "login-svc", "login-headless", "rest-svc"}
  JailedConfigs = {"jailed-config"}
  AppArmorProfiles = {"apparmor"}
  MariaDbs = {"mariadb"}
  Grants = {"grant"}
  PodMonitors = {"pod-monitor"}
  ServiceMonitors = {"service-monitor"}
  Deployments = {"accounting", "sconfig", "rest", "exporter"}
  AdvancedStatefulSets = {"controller", "login"}
  MinNodeCount = 4
  IgnoredEntry = 10
  NoNodesEntry = 8
  TailEntry = 4
  MessageLimit = 34
  Scenarios <- MCAll
INVARIANTS  RestartedOnChange ConfigAccepted LoginWaitsForRestore 
PROPERTIES  BecomesAvailable OverwrittenOnce
CHECK_DEADLOCK FALSE
