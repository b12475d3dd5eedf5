\* The Linux build on a processor whose revision identifier has bit 28 set.
SPECIFICATION Spec
CONSTANTS
  Cpus = {c1, c2}
  Pages = {p1, p2, p3, p4, p5}
  Machines <- EnabledLinuxAnyRevision
  VmxonBusy = "as_decoded"
  AllocCanFail = FALSE
  Iterations = 1
  Hv = Hv
  None = None
SYMMETRY Symmetry
INVARIANTS
  Cr4Restored
