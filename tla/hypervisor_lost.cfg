\* The Linux build beside a hypervisor with a current VMCS.
SPECIFICATION Spec
CONSTANTS
  Cpus = {c1, c2}
  Pages = {p1, p2, p3, p4, p5}
  Machines <- EnabledLinux
  VmxonBusy = "vmfail"
  AllocCanFail = FALSE
  Iterations = 1
  Hv = Hv
  None = None
SYMMETRY Symmetry
INVARIANTS
  HypervisorKept
