SPECIFICATION FairSpec
CONSTANTS
  creator = creator
  obs = obs
  Cores = {creator, obs}
  CreatorCore = creator
  NamespaceOf <- CreatorAndData
  PRESYNC_NAMESPACES = {"auth", "config"}
  DATA_NAMESPACES = {"data"}
  AssumedRole = "none"
  RoleRecords = {"member", "blocked"}
  MaxHave = 1
  MaxReads = 2
  Null = Null
INVARIANTS ReplicationBookkeeping EnabledNamespacesPermitted
PROPERTIES CapabilityFollowsRole ForbiddenStops MemberSyncsData
\* A disposed controller stops.
CHECK_DEADLOCK FALSE
