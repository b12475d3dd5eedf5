\* The Linux build when an allocation fails.
SPECIFICATION Spec
CONSTANTS
  Cpus = {c1, c2}
  Pages = {p1, p2, p3, p4, p5}
  Machines <- EnabledLinux
  VmxonBusy = "as_decoded"
  AllocCanFail = TRUE
  Iterations = 1
  Hv = Hv
  None = None
SYMMETRY Symmetry
INVARIANTS
  PagesReleased
