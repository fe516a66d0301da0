CONSTANTS
  Hosts = {"g", "h"}
  Routers = {}
  Networks = {}
  Interfaces = {}
  Disks = {"e"}
  DefaultDisks = {}
  Dns = {}
  Dhcp = {}
  HostOf <- MCHostOf
  NetworkOf <- MCNetworkOf
  InterfaceOf <- MCInterfaceOf
  DiskOf <- MCDiskOf
  Differences <- NewTemplate
  Templates = {"ubuntu"}
  TemplateOf <- MCTemplateOf
  Exclusive = {"h"}
  Volumes = {"e"}
  Drifted = {"h"}
  MaxFaults = 1
  Nobody = Nobody
SPECIFICATION BuildSpec
INVARIANTS OneUnnamedAtATime VainOnlyIfNamed NoPlanAddsDisk
PROPERTIES NobodyIsMisled NoSetupReplaces
CHECK_DEADLOCK FALSE
