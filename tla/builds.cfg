\* The three builds on any machine beside another hypervisor, with failing
\* allocations and the processor's real VMXON flags.
SPECIFICATION Spec
CONSTANTS
  Cpus = {c1, c2}
  Pages = {p1, p2, p3, p4, p5, p6}
  Machines <- AnyMachine
  VmxonBusy = "vmfail"
  AllocCanFail = TRUE
  Iterations = 2
  Hv = Hv
  None = None
SYMMETRY Symmetry
INVARIANTS
  TypeOK
  DriverInv
  
  DescriptorTablesRestored
  NoDanglingHardwareReference
  EntryUsesOwnVmcs
PROPERTIES
  ResumeStaysLaunched
  HypervisorUndisturbed
