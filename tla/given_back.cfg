\* A build that shares a busy processor (macOS) and one that refuses it
\* (Windows), when no allocation fails and the revision identifier survives
\* the mask: everything is given back, under weak fairness of the init thread.
SPECIFICATION FairSpec
CONSTANTS
  Cpus = {c1, c2}
  Pages = {p1, p2, p3, p4, p5}
  Machines <- EnabledMacWin
  VmxonBusy = "as_decoded"
  AllocCanFail = FALSE
  Iterations = 2
  Hv = Hv
  None = None
INVARIANTS
  NoFault
  HypervisorKept
  Cr4Restored
  PagesReleased
PROPERTIES
  LoanKept
  InterruptsReenabled
  LoadReturns
