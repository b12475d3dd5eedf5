---------------------------- MODULE ProcessData ----------------------------
(***************************************************************************)
(* process-data.py: the files of results/ are read in whatever order       *)
(* os.listdir() gives, unreliable ones are skipped, and the file with the  *)
(* lowest latency of each microarchitecture decides what is printed.       *)
(*                                                                         *)
(* A file is a sequence of lines; a line has a kind ("brand", "msr",       *)
(* "latency" or "error"), a value and the load of the driver it comes      *)
(* from.  The value of a latency line is <<number>>, that of a brand line  *)
(* <<family, model>>, which is what name2uarch() looks at.                 *)
(***************************************************************************)
EXTENDS Integers, Sequences, SequencesExt, FiniteSetsExt

CONSTANT Architectures    \* The list of launch dates: names, in its order.

ASSUME ArchitecturesAssumption ==
  Architectures \in Seq(STRING) /\ IsInjective(Architectures)

VARIABLES
  stage,    \* "collect" until the script starts, then "read", "raised" when
            \* an exception ends it and "printed" when it returns.
  todo,     \* Files not yet read.
  cpus,     \* File chosen for each microarchitecture met.
  table     \* Microarchitectures printed.

processVars == <<stage, todo, cpus, table>>

-----------------------------------------------------------------------------
\* name2uarch(): what the words of the brand string decide.
Uarchs ==
  [Core2 |-> [CPU |-> "Merom", Duo |-> "Penryn"],
   Core |-> [i5_760 |-> "Nehalem", U |-> "Westmere", M |-> "Westmere",
             i2000 |-> "Sandy Bridge", i3000 |-> "Ivy Bridge",
             i4000 |-> "Haswell", i6000 |-> "Skylake", i7000 |-> "Kaby Lake"],
   Xeon |-> [X56 |-> "Westmere", E_0 |-> "Sandy Bridge", E_v2 |-> "Ivy Bridge",
             E_v3 |-> "Haswell", E_v4 |-> "Broadwell", E_v5 |-> "Skylake"],
   Celeron |-> [N3150 |-> "Airmont", G3900 |-> "Skylake"]]

\* Whether name2uarch() returns, and what; anything but a known brand raises.
Known(l) ==
  /\ l.kind = "brand"
  /\ l.value[1] \in DOMAIN Uarchs
  /\ l.value[2] \in DOMAIN Uarchs[l.value[1]]

name2uarch(l) == Uarchs[l.value[1]][l.value[2]]

-----------------------------------------------------------------------------
\* The first line is the brand string; of the others those of MSRs are
\* skipped, and the rest must be latencies.  Latencies are the positions of
\* these.
Latencies(file) == {k \in 2..Len(file) : file[k].kind = "latency"}

count(file) == Cardinality(Latencies(file))
total(file) == MapThenSumSet(LAMBDA k : file[k].value[1], Latencies(file))
lmin(file) == Min({file[k].value[1] : k \in Latencies(file)})

\* A mutant of Readable that ignores the lines it does not know.
MutIgnoreUnknown(file) == total(file) > 0

\* No IndexError on a line without " - ", and no division by zero, neither by
\* the count nor by the average.  (Latencies are positive.)
Readable(file) ==
  /\ \A k \in 2..Len(file) : file[k].kind \in {"msr", "latency"}
  /\ Latencies(file) # {} /\ total(file) > 0

\* 100. * lmin / avg < 80 is "unreliable".
Reliable(file) == 100 * lmin(file) * count(file) >= 80 * total(file)

\* A mutant of Better that compares what is printed.
MutCompareAverages(file, other) ==
  total(file) * count(other) < total(other) * count(file)

Better(file, other) == lmin(file) < lmin(other)

\* What becomes of a file: an exception, `continue', or an entry of cpus.
Verdict(file) ==
  IF ~Readable(file) THEN "raise"
  ELSE IF ~Reliable(file) THEN "skip"
  ELSE IF Known(file[1]) THEN "use" ELSE "raise"

\* A mutant of ReadFile that forgets to go on to the next file.
MutSameFile(file) ==
  /\ stage = "read" /\ file \in todo
  /\ stage' = IF Verdict(file) = "raise" THEN "raised" ELSE "read"
  /\ UNCHANGED <<todo, cpus, table>>

\* One turn of the loop over datafiles.
ReadFile(file) ==
  /\ stage = "read" /\ file \in todo
  /\ todo' = todo \ {file}
  /\ stage' = IF Verdict(file) = "raise" THEN "raised" ELSE "read"
  /\ cpus' = LET u == name2uarch(file[1])
             IN  IF \/ Verdict(file) # "use"
                    \/ u \in DOMAIN cpus /\ ~Better(file, cpus[u])
                 THEN cpus
                 ELSE [v \in DOMAIN cpus \cup {u} |-> IF v = u THEN file ELSE cpus[v]]
  /\ UNCHANGED table

\* The table is printed in the order of the list, up to the first
\* microarchitecture without a file (KeyError).
PrintTable ==
  /\ stage = "read" /\ todo = {}
  /\ LET missing == {i \in DOMAIN Architectures : Architectures[i] \notin DOMAIN cpus}
     IN  IF missing = {}
         THEN stage' = "printed" /\ table' = Range(Architectures)
         ELSE /\ stage' = "raised"
              /\ table' = {Architectures[i] : i \in 1..(Min(missing) - 1)}
  /\ UNCHANGED <<todo, cpus>>

main == PrintTable \/ \E file \in todo : ReadFile(file)

=============================================================================
