\* Any sequence of VM entries and exits on quiet and other hosts.
SPECIFICATION Spec
CONSTANTS
  Hosts <- MCHosts
  Leftovers <- MCLeftovers
INVARIANTS
  ContextRestored
  QuietHostRestored
  ReturnsOnOwnStack
  GuestRunsInContext
