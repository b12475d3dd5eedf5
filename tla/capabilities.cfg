\* Every combination of capability MSRs.
SPECIFICATION Spec
CONSTANT
  Processors <- MCProcessors
INVARIANTS
  TypeOK
  
  MsrsExist
  ControlsAllowed
  
