CONSTANTS
  Hosts = {"h"}
  Routers = {"h"}
  Networks = {"n", "o"}
  Interfaces = {"i"}
  Disks = {"d"}
  DefaultDisks = {"d"}
  Dns = {"dns"}
  Dhcp = {"dhcp"}
  HostOf <- MCHostOf
  NetworkOf <- MCNetworkOf
  InterfaceOf <- MCInterfaceOf
  DiskOf <- MCDiskOf
  Differences <- NewNetwork
  Templates = {"ubuntu"}
  TemplateOf <- MCTemplateOf
  Exclusive = {"h", "n", "o"}
  Volumes = {"d"}
  Drifted = {}
  MaxFaults = 0
  Nobody = Nobody
SPECIFICATION BuildSpec
INVARIANTS BuildTypeOK AsBelieved OnlyHostsAreRemoved NoPlanRemovesDns
CHECK_DEADLOCK FALSE
