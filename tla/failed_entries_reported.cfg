\* The Linux build when VMLAUNCH or VMRESUME does not reach the guest's CPUID.
SPECIFICATION Spec
CONSTANTS
  Cpus = {c1, c2}
  Pages = {p1, p2, p3, p4, p5}
  Machines <- EnabledLinux
  VmxonBusy = "as_decoded"
  AllocCanFail = FALSE
  Iterations = 1
  Hv = Hv
  None = None
SYMMETRY Symmetry
INVARIANTS
  StatsAreRoundTrips
