---------------------------- MODULE MCVmcsState ----------------------------
(***************************************************************************)
(* Register files for VmcsState: every register has a value of its own,    *)
(* and those a VM exit disturbs also have the value it leaves.             *)
(***************************************************************************)
EXTENDS VmcsState, TLC

Sel(r, low) == [index |-> r, low |-> low]

\* Descriptors with an address in each of the four parts of the base.
Code == {40, 41, 43, 44, 47, 53, 55} \cup (48..51)
Data == {41, 44, 47, 54, 55} \cup (48..51)
Tss == {0, 1, 17, 38, 40, 41, 43, 47, 48, 57, 63, 66, 95}
MCGdt == [s \in Selectors |-> CASE s = "CS" -> Code [] s = "TR" -> Tss [] OTHER -> Data]

\* Data segments with RPL 0 (Linux, macOS kernels) or 3 (Windows); SS loaded or
\* null.
MCHosts ==
  {[gdt |-> MCGdt,
    regs |-> [r \in Registers |->
      CASE r \in {"ES", "DS"}        -> Sel(r, data)
        [] r \in {"FS", "GS"}        -> Sel(r, thread)
        [] r \in {"CS", "TR"}        -> Sel(r, 0)
        [] r = "SS"                  -> Sel(ss, 0)
        [] r = "TR_BASE"             -> LoadedBase(Tss)
        [] r \in Rights              -> LoadedRights(MCGdt[Segment[r]])
        [] r \in DOMAIN forced       -> forced[r]
        [] OTHER                     -> r]] :
     data \in {0, 3}, thread \in {0, 3}, ss \in {"SS", "null"},
     forced \in {f \in [{"LDTR", "TR_LIMIT", "DR7", "DEBUGCTL"} ->
                          {"null", "0x67", "0x400", "0", "other"}] :
                   \A r \in DOMAIN f : f[r] \in {Forced[r], "other"}}}

\* A stack slot that was zero, and one that was not.
MCLeftovers == {{}, {1, 9, 12, 18, 31}}

=============================================================================
