------------------------------ MODULE Results ------------------------------
(***************************************************************************)
(* How a published number comes about: get_vmlatency.sh or                 *)
(* GetVmlatency.ps1 loads the driver on one machine, the driver prints,    *)
(* the script turns the system's log into a file, and process-data.py      *)
(* reads that file together with those already in results/.                *)
(*                                                                         *)
(* The script can be killed and the machine rebooted at any time; on       *)
(* Windows a line can be lost and reaches the log some time after it is    *)
(* printed.                                                                *)
(***************************************************************************)
EXTENDS LatencyStats, ProcessData

CONSTANTS
  Systems,       \* Operating systems considered.
  Brands,        \* Processors considered.
  Committed,     \* Files that are in results/ already.
  LoadsPerRun,   \* Loads by one run of get_vmlatency.sh (20).
  MaxLoads,      \* Bound: no run starts after that many loads.
  LogSize,       \* Lines the kernel's ring buffer keeps.
  MaxLost,       \* Bound: lines of a load that Windows loses.
  Iterations,    \* VMX_ITERATIONS.
  MinCost,       \* Cycles one VM entry and exit takes at least...
  MaxCost,       \* ...and at most.
  NoFile

ASSUME ResultsAssumption ==
  /\ Systems \subseteq {"linux", "mac", "win"}
  /\ LoadsPerRun \in Nat \ {0} /\ MaxLoads \in Nat /\ LogSize \in Nat /\ MaxLost \in Nat
  /\ Iterations \in Nat \ {0}
  /\ MinCost \in Nat \ {0} /\ MaxCost \in Nat /\ MinCost <= MaxCost

\* No round is longer than the period of the time-stamp counter, and no entry
\* longer than half of it (195 years at 3 GHz, and 97).
ASSUME CostAssumption ==
  /\ \A n \in 0..(Iterations - 1) : __BIT(n) * MaxCost < U64
  /\ 2 * MaxCost < U64

\* In a file of get_vmlatency.sh a load begins with the brand string or an
\* error, and the brand string of a load with an error is followed by it.
Marked(f) ==
  /\ \A k \in 1..(Len(f) - 1) :
       f[k].load # f[k + 1].load => f[k + 1].kind \in {"brand", "error"}
  /\ \A k \in DOMAIN f : f[k].kind = "brand" /\ f[k].odd =>
       \E m \in DOMAIN f : k < m /\ f[m].kind = "error"

\* The files in results/ are such files.
ASSUME CommittedAssumption ==
  \A f \in Committed :
    /\ f \in Seq(Range(f)) /\ Marked(f)
    /\ \A k \in DOMAIN f : f[k].kind = "latency" => f[k].value[1] \in Nat

\* Every name that name2uarch() returns is in the list of launch dates.
Listed(l) == Known(l) => name2uarch(l) \in Range(Architectures)

ASSUME ListedAssumption ==
  /\ \A b \in Brands : Listed([kind |-> "brand", value |-> b])
  /\ \A f \in Committed : f # <<>> => Listed(f[1])

VARIABLES
  machine,    \* Operating system and processor; never changes.
  \* --- the kernel
  loaded,     \* The driver is in the kernel (on Windows: g_Device is set).
  loads,      \* Number of times the driver's entry point has run.
  log,        \* Lines of the driver in the log of the system.
  queue,      \* Windows: lines on their way to the event log.
  \* --- Windows
  service,    \* State of the service vmlatency.
  key,        \* Whether the registry key of the event log exists.
  \* --- the script
  pc,
  i,          \* Counter of the loop of get_vmlatency.sh.
  start,      \* First load after StartTime.
  file,       \* The file it has written last.
  excused     \* The script has been killed, or sc.exe has failed.

kernel == <<loaded, loads, log, queue>>
windows == <<service, key>>
script == <<pc, i, start, file, excused>>
vars == <<machine, kernel, windows, script, processVars>>

Init ==
  /\ machine \in [os : Systems, brand : Brands]
  /\ loaded = FALSE /\ loads = 0 /\ log = <<>> /\ queue = <<>>
  /\ service = "absent" /\ key = FALSE
  /\ pc = "idle" /\ i = 0 /\ start = 0 /\ file = NoFile /\ excused = FALSE
  /\ stage = "collect" /\ todo = {} /\ cpus = <<>> /\ table = {}

-----------------------------------------------------------------------------
(***************************************************************************)
(* What a load prints.                                                     *)
(***************************************************************************)

\* A line of the load in progress; odd tells whether that load prints an
\* error, which the line itself does not show.
Line(kind, value, odd) ==
  [kind |-> kind, value |-> value, load |-> loads + 1, odd |-> odd]

Error == Line("error", <<>>, TRUE)

\* print_vmx_info().
Header(odd) == <<Line("brand", machine.brand, odd), Line("msr", <<>>, odd)>>

\* The cycles that 2^n VM entries may take.
Elapsed(n) == (__BIT(n) * MinCost)..(__BIT(n) * MaxCost)

\* What may be printed of stats[n], whenever the round begins.
Reports == [n \in 0..(Iterations - 1) |->
              {lld(stat(__BIT(n), t, e)) : t \in 0..(U64 - 1), e \in Elapsed(n)}]

\* The lines of measure_vmlatency(), one per round.
Stats(odd) == {[k \in 1..Iterations |-> Line("latency", <<v[k - 1]>>, odd)] :
            v \in {v \in [DOMAIN Reports -> UNION Range(Reports)] :
                     \A n \in DOMAIN Reports : v[n] \in Reports[n]}}

\* vmlatency_init() and vmlatency_start() print nothing but an error when VMX
\* is not enabled; DriverEntry() does not look.  measure_vmlatency() prints the
\* statistics (after an error, when the first exit was not caused by CPUID),
\* an error when a VMX instruction fails, or nothing when there is no memory.
Printed ==
  {Header(FALSE) \o s : s \in Stats(FALSE)}
  \cup {Header(TRUE) \o <<Error>> \o s : s \in Stats(TRUE)}
  \cup {Header(TRUE) \o <<Error>>, Header(FALSE)}
  \cup (IF machine.os = "win" THEN {} ELSE {<<Error>>})

\* vmlatency_printm() on Linux and macOS: every line goes to the ring buffer,
\* where it displaces the oldest one.
vmlatency_printm(lines) ==
  LET all == log \o lines IN SubSeq(all, Max({1, Len(all) - LogSize + 1}), Len(all))

\* The elements of s at the positions ks, in their order.
Select(s, ks) ==
  [j \in 1..Cardinality(ks) |->
     s[CHOOSE k \in ks : Cardinality(ks \cap (1..k)) = j]]

\* vmlatency_printm() on Windows: all the errors are printed with interrupts
\* masked, above PASSIVE_LEVEL, and are not logged; of the others, those for
\* which IoAllocateErrorLogEntry() finds no memory are lost.
Logged(lines) ==
  LET passive == {k \in DOMAIN lines : lines[k].kind # "error"}
  IN  {Select(lines, passive \ lost) :
         lost \in UNION {kSubset(k, passive) : k \in 0..MaxLost}}

\* The entry point of the driver runs.
Enter == loaded' = TRUE /\ loads' = loads + 1

-----------------------------------------------------------------------------
(***************************************************************************)
(* get_vmlatency.sh.                                                       *)
(***************************************************************************)

\* A step of the script from x to y, on Windows or not.
Sh(x, y) == machine.os # "win" /\ pc = x /\ pc' = y /\ UNCHANGED machine
Ps(x, y) == machine.os = "win" /\ pc = x /\ pc' = y /\ UNCHANGED machine

\* A run starts: the driver is built (or the run ends there).
Build(built) ==
  /\ stage = "collect" /\ pc = "idle" /\ loads < MaxLoads
  /\ i' = 1
  /\ pc' = CASE ~built -> "idle"
             [] built /\ machine.os = "win" -> "sign"
             [] OTHER -> "load"
  /\ UNCHANGED <<machine, kernel, windows, start, file, excused, processVars>>

\* insmod and kextload; when the driver is loaded already nothing happens,
\* and nobody looks at the exit code.
load ==
  /\ Sh("load", "unload")
  /\ IF loaded THEN UNCHANGED kernel
     ELSE \E lines \in Printed :
            Enter /\ log' = vmlatency_printm(lines) /\ UNCHANGED queue
  /\ UNCHANGED <<windows, i, start, file, excused, processVars>>

\* A mutant of unload whose loop runs once more.
MutOneLoadMore ==
  /\ Sh("unload", IF i <= LoadsPerRun THEN "load" ELSE "getlog")
  /\ loaded' = FALSE
  /\ i' = i + 1
  /\ UNCHANGED <<loads, log, queue, windows, start, file, excused, processVars>>

\* rmmod and kextunload, and the loop.
unload ==
  /\ Sh("unload", IF i < LoadsPerRun THEN "load" ELSE "getlog")
  /\ loaded' = FALSE
  /\ i' = i + 1
  /\ UNCHANGED <<loads, log, queue, windows, start, file, excused,
                 processVars>>

\* All the lines of the driver that the ring buffer holds.
getlog ==
  /\ Sh("getlog", "idle")
  /\ file' = log
  /\ UNCHANGED <<kernel, windows, i, start, excused, processVars>>

-----------------------------------------------------------------------------
(***************************************************************************)
(* GetVmlatency.ps1.                                                       *)
(***************************************************************************)

\* Sign, which ends the script only on exit code 1, and the start time.
Sign(signed) ==
  /\ Ps("sign", IF signed THEN "setup" ELSE "idle")
  /\ start' = IF signed THEN loads + 1 ELSE start
  /\ UNCHANGED <<kernel, windows, i, file, excused, processVars>>

Setup_EventLog ==
  /\ Ps("setup", "create")
  /\ key' = TRUE
  /\ UNCHANGED <<kernel, service, i, start, file, excused, processVars>>

\* "sc create", which refuses a service that exists.
sc_create ==
  /\ service = "absent"
  /\ Ps("create", "start")
  /\ service' = "stopped"
  /\ UNCHANGED <<kernel, key, i, start, file, excused, processVars>>

sc_create_fails ==
  /\ Ps("create", "idle")
  /\ excused' = TRUE
  /\ UNCHANGED <<kernel, windows, i, start, file, processVars>>

\* DriverEntry() creates the device and prints; the lines are queued.
DriverEntry ==
  /\ service = "stopped"
  /\ Ps("start", "dump")
  /\ service' = "running"
  /\ \E lines \in Printed :
       Enter /\ \E q \in Logged(lines) : queue' = queue \o q
  /\ UNCHANGED <<log, key, i, start, file, excused, processVars>>

\* The service does not start: the image is refused, or IoCreateDevice()
\* fails and, g_Device being NULL, the message is not logged.
Start_fails ==
  /\ Ps("start", "stop")
  /\ UNCHANGED <<kernel, windows, i, start, file, excused, processVars>>

\* A mutant of Dump_Results that takes the whole log.
MutDumpAll ==
  /\ Ps("dump", "stop")
  /\ file' = log
  /\ UNCHANGED <<kernel, windows, i, start, excused, processVars>>

\* The events after StartTime that have reached the log.
Dump_Results ==
  /\ Ps("dump", "stop")
  /\ file' = Select(log, {k \in DOMAIN log : log[k].load >= start})
  /\ UNCHANGED <<kernel, windows, i, start, excused, processVars>>

\* A mutant of Stop that leaves the service running.
MutNoStop == Ps("stop", "delete") /\ UNCHANGED <<kernel, windows, i, start,
                                                 file, excused, processVars>>

\* Unload-Vmlatency stops the service if it runs; VmlatencyUnloadDriver()
\* deletes the device.
Stop ==
  /\ Ps("stop", "delete")
  /\ loaded' = FALSE
  /\ service' = "stopped"
  /\ UNCHANGED <<loads, log, queue, key, i, start, file, excused,
                 processVars>>

\* "sc delete", and the key; when it fails the script ends before the key.
sc_delete ==
  /\ Ps("delete", "idle")
  /\ service' = "absent" /\ key' = FALSE
  /\ UNCHANGED <<kernel, i, start, file, excused, processVars>>

sc_delete_fails ==
  /\ Ps("delete", "idle")
  /\ excused' = TRUE
  /\ UNCHANGED <<kernel, windows, i, start, file, processVars>>

-----------------------------------------------------------------------------
(***************************************************************************)
(* The environment.                                                        *)
(***************************************************************************)

\* The next line of the queue of IoWriteErrorLogEntry() reaches the log.
Deliver ==
  /\ queue # <<>> /\ stage = "collect"
  /\ log' = Append(log, Head(queue)) /\ queue' = Tail(queue)
  /\ UNCHANGED <<machine, loaded, loads, windows, script, processVars>>

\* The user kills the script.
Kill ==
  /\ pc # "idle" /\ pc' = "idle"
  /\ excused' = TRUE
  /\ UNCHANGED <<machine, kernel, windows, i, start, file, processVars>>

\* The machine reboots: only the event log, the service and the key persist.
Reboot ==
  /\ stage = "collect"
  /\ loaded' = FALSE /\ queue' = <<>>
  /\ log' = IF machine.os = "win" THEN log ELSE <<>>
  /\ service' = IF service = "running" THEN "stopped" ELSE service
  /\ pc' = "idle" /\ excused' = (excused \/ pc # "idle")
  /\ UNCHANGED <<machine, loads, key, i, start, file, processVars>>

\* The file is put into results/, and process-data.py is started.  The machine
\* the file comes from plays no part any more, and its state is dropped.
Submit ==
  /\ stage = "collect" /\ pc = "idle"
  /\ stage' = "read"
  /\ todo' = Committed \cup (IF file = NoFile THEN {} ELSE {file})
  /\ loaded' = FALSE /\ loads' = 0 /\ log' = <<>> /\ queue' = <<>>
  /\ service' = "absent" /\ key' = FALSE
  /\ i' = 0 /\ start' = 0 /\ excused' = FALSE
  /\ UNCHANGED <<machine, pc, file, cpus, table>>

Process == main /\ UNCHANGED <<machine, kernel, windows, script>>

-----------------------------------------------------------------------------
GetVmlatency ==
  \/ load \/ unload \/ getlog
  \/ \E b \in BOOLEAN : Sign(b)
  \/ Setup_EventLog \/ sc_create \/ sc_create_fails
  \/ DriverEntry \/ Start_fails \/ Dump_Results
  \/ Stop \/ sc_delete \/ sc_delete_fails

Next ==
  \/ \E b \in BOOLEAN : Build(b)
  \/ GetVmlatency \/ Process
  \/ Deliver \/ Kill \/ Reboot \/ Submit
  \/ stage \in {"raised", "printed"} /\ UNCHANGED vars

Spec == Init /\ [][Next]_vars

\* A script that is not killed goes on, and so does process-data.py.
FairSpec == Spec /\ WF_vars(GetVmlatency) /\ WF_vars(Process)

-----------------------------------------------------------------------------
(***************************************************************************)
(* Properties.                                                             *)
(***************************************************************************)

Lines == [kind : {"brand", "msr", "latency", "error"},
          value : Brands \cup Seq(Int),
          load : 0..(MaxLoads + LoadsPerRun),
          odd : BOOLEAN]

TypeOK ==
  /\ machine \in [os : Systems, brand : Brands]
  /\ loaded \in BOOLEAN /\ key \in BOOLEAN /\ excused \in BOOLEAN
  /\ loads \in 0..(MaxLoads + LoadsPerRun - 1)
  /\ log \in Seq(Lines) /\ queue \in Seq(Lines)
  /\ machine.os # "win" => Len(log) <= LogSize
  /\ service \in {"absent", "stopped", "running"}
  /\ pc \in {"idle", "load", "unload", "getlog", "sign", "setup", "create",
             "start", "dump", "stop", "delete"}
  /\ i \in 0..(LoadsPerRun + 1)
  /\ start \in 0..(loads + 1)
  /\ file \in Seq(Lines) \cup {NoFile}
  /\ stage \in {"collect", "read", "raised", "printed"}
  /\ todo \subseteq Committed \cup {file}
  /\ DOMAIN cpus \subseteq Range(Architectures) /\ table \subseteq DOMAIN cpus

\* Every latency the driver prints lies between the fastest and the slowest VM
\* entry: no wrap of the counter, of its lower half or of the signed format,
\* and no rounding takes it outside.
LatencyWithinCost ==
  \A l \in Range(log \o queue) : l.kind = "latency" =>
    MinCost <= l.value[1] /\ l.value[1] <= MaxCost

\* The order in which a load prints.
Rank == [brand |-> 1, msr |-> 2, error |-> 3, latency |-> 4]

\* The file GetVmlatency.ps1 writes holds lines of one load only, in the order
\* they were printed, whatever earlier runs, killed or not, left in the event
\* log or in the queue; lines may be missing.
WindowsFileIsOneLoad ==
  machine.os = "win" /\ file # NoFile =>
    \A a, b \in DOMAIN file : a < b =>
      /\ file[a].load = file[b].load
      /\ Rank[file[a].kind] <= Rank[file[b].kind]

\* Between runs neither the driver nor, on Windows, the service and the key
\* are left behind, unless a script was killed or sc.exe has failed.
LeftoversExcused ==
  pc = "idle" /\ ~excused => ~loaded /\ service = "absent" /\ ~key

\* What decides an entry of the table was printed by one load, with the brand
\* string of its microarchitecture, although the file of get_vmlatency.sh
\* holds all the loads since boot; and, except on Windows, where errors are not
\* logged, by a load without an error.
PublishedFromOneLoad ==
  \A u \in DOMAIN cpus :
    LET f == cpus[u]
    IN  /\ \A l \in Range(f) : l.load = f[1].load
        /\ f[1].kind = "brand" /\ name2uarch(f[1]) = u
        /\ machine.os # "win" => ~f[1].odd

\* The table does not depend on the order of os.listdir() but for ties: every
\* printed entry is of a usable file with the lowest latency.
PublishedIsBest ==
  \A u \in table :
    \A f \in Committed \cup ({file} \ {NoFile}) :
      Verdict(f) = "use" /\ name2uarch(f[1]) = u => lmin(cpus[u]) <= lmin(f)

\* Both scripts end, and so does process-data.py.
ScriptsEnd ==
  /\ pc # "idle" ~> pc = "idle"
  /\ stage = "read" ~> stage \in {"raised", "printed"}

=============================================================================
