\* The three builds with two pages and three frames on two processors.
SPECIFICATION FairSpec
CONSTANTS
  Builds <- AllBuilds
  Slots = {s1, s2}
  Frames = {f1, f2, f3}
  Cpus = {c1, c2}
  MaxMdls = 3
  None = None
INVARIANTS
  TypeOK
  NothingLost
  NoStrayMapping
  PagesZeroed
  SwitchableIsInterruptible
  SectionUndisturbed
  
PROPERTIES
  ServiceKept
  CallsReturn
