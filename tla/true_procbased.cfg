\* Processors whose TRUE MSR frees a processor-based control.
SPECIFICATION Spec
CONSTANT
  Processors <- MCProcessors
INVARIANTS
  TrueMsrsCached
