------------------------- MODULE MCMeasureVmlatency -------------------------
(***************************************************************************)
(* Instances of MeasureVmlatency for TLC.                                  *)
(***************************************************************************)
EXTENDS MeasureVmlatency, TLC

\* Revision identifiers: bit 28 is one of the three that 0x8fffffff drops.
RevisionKept == {4, 1}
RevisionTruncated == {28, 1}

\* Machines that run a build of P, whose firmware has enabled VMX on every
\* processor, with a revision identifier of R.
Enabled(P, R) ==
  [platform : P, vmx : {TRUE}, featureControl : {[c \in Cpus |-> FeatureControlBits]},
   revision : R]

\* IA32_FEATURE_CONTROL as the firmware leaves it: VMX enabled and locked,
\* enabled and not locked, locked and disabled.
FirmwareSettings ==
  {FeatureControlBits, {"VMX_OUTSIDE_SMX_ENABLE_BIT"}, {"LOCK_BIT"}}

\* Every build; without VMX, or with any firmware setting on each processor,
\* or with a revision identifier that loses bits.  (In this module the macOS
\* build differs from the Linux one by its entry points only.)
AnyMachine ==
  [platform : {"linux", "win"}, vmx : {TRUE},
   featureControl : [Cpus -> FirmwareSettings], revision : {RevisionKept}]
  \cup [platform : {"linux", "win"}, vmx : {FALSE},
        featureControl : [Cpus -> {{}}], revision : {RevisionKept}]
  \cup Enabled({"mac"}, {RevisionTruncated})

\* The two ways of recognising a busy processor.
EnabledMacWin == Enabled({"mac", "win"}, {RevisionKept})

EnabledLinux == Enabled({"linux"}, {RevisionKept})
EnabledLinuxAnyRevision ==
  Enabled({"linux"}, {RevisionKept, RevisionTruncated})

\* Page frames and processors are interchangeable.
Symmetry == Permutations(Pages) \cup Permutations(Cpus)

=============================================================================
