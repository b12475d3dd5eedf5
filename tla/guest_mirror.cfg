\* The guest's registers compared with the host's.
SPECIFICATION Spec
CONSTANTS
  Hosts <- MCHosts
  Leftovers <- MCLeftovers
INVARIANTS
  GuestMirrorsHost
