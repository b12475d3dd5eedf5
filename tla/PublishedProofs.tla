-------------------------- MODULE PublishedProofs --------------------------
(***************************************************************************)
(* What process-data.py publishes, for any files in results/ and any order *)
(* in which they are read.                                                 *)
(***************************************************************************)
EXTENDS ResultsProofs

\* A set of naturals has a minimum.
LEMMA MinExists ==
  ASSUME NEW S, S \subseteq Nat, S # {}
  PROVE  Min(S) \in S /\ \A y \in S : Min(S) <= y
BY LeastElement DEF Min

\* The files that process-data.py finds.
Files == Committed \cup ({file} \ {NoFile})

\* process-data.py: what has been chosen so far is the best of what has been
\* read so far.
ProcessInv ==
  /\ stage \in {"collect", "read", "raised", "printed"}
  /\ stage = "collect" => todo = {} /\ cpus = <<>> /\ table = {}
  /\ stage # "collect" => pc = "idle"
  /\ todo \subseteq Files
  /\ \A u \in DOMAIN cpus :
       /\ cpus[u] \in Files /\ Verdict(cpus[u]) = "use"
       /\ name2uarch(cpus[u][1]) = u
  /\ table # {} => stage # "collect" /\ todo = {}
  /\ table \subseteq DOMAIN cpus
  /\ stage # "collect" => \A f \in Files \ todo : Verdict(f) = "use" =>
       /\ name2uarch(f[1]) \in DOMAIN cpus
       /\ lmin(cpus[name2uarch(f[1])]) <= lmin(f)

-----------------------------------------------------------------------------
\* What is known of every file that process-data.py finds.
LEMMA FileShape ==
  ASSUME LinesInv, OrderInv, NEW f \in Files
  PROVE  /\ Len(f) \in Nat /\ DOMAIN f = 1..Len(f)
         /\ \A k \in DOMAIN f : f[k].kind = "latency" => f[k].value[1] \in Nat
         /\ Marked(f) \/ (machine.os = "win" /\ OneLoad(f))
         /\ f # <<>> => Listed(f[1])
<1>1. CASE f \in Committed
  BY <1>1, CommittedAssumption, ListedAssumption
<1>2. CASE f = file /\ file # NoFile
  <2>1. f \in Seq(DriverLines)
    BY <1>2 DEF LinesInv
  <2>2. /\ Len(f) \in Nat /\ DOMAIN f = 1..Len(f)
        /\ \A k \in DOMAIN f : f[k] \in DriverLines
    BY <2>1
  <2>3. \A k \in DOMAIN f : f[k].kind = "latency" => f[k].value[1] \in Nat
    BY <2>2, ResultsAssumption DEF DriverLines
  <2>4. Marked(f) \/ (machine.os = "win" /\ OneLoad(f))
    BY <1>2 DEF OrderInv
  <2>5. ASSUME f # <<>>, Known(f[1]) PROVE name2uarch(f[1]) \in Range(Architectures)
    <3>1. f[1] \in DriverLines /\ f[1].kind = "brand"
      BY <2>1, <2>5 DEF Known
    <3>2. f[1].value \in Brands
      BY <3>1 DEF DriverLines
    <3>3. Known([kind |-> "brand", value |-> f[1].value])
      BY <2>5 DEF Known
    <3> QED
      BY <3>2, <3>3, ListedAssumption DEF Listed, name2uarch
  <2> QED
    BY <2>2, <2>3, <2>4, <2>5 DEF Listed
<1> QED
  BY <1>1, <1>2 DEF Files

\* What a file must be like to be used.
LEMMA UsedShape ==
  ASSUME NEW f, Verdict(f) = "use"
  PROVE  /\ Known(f[1]) /\ f[1].kind = "brand"
         /\ Latencies(f) # {}
         /\ \A k \in 2..Len(f) : f[k].kind \in {"msr", "latency"}
BY DEF Verdict, Readable, Known

\* The lowest latency of a file that is used is a number.
LEMMA LminNat ==
  ASSUME LinesInv, OrderInv, NEW f \in Files, Verdict(f) = "use"
  PROVE  lmin(f) \in Nat /\ Len(f) \in Nat /\ 1 \in DOMAIN f
<1>1. /\ Len(f) \in Nat /\ DOMAIN f = 1..Len(f)
      /\ \A k \in DOMAIN f : f[k].kind = "latency" => f[k].value[1] \in Nat
  BY FileShape
<1>2. Latencies(f) # {}
  BY UsedShape
<1> DEFINE S == {f[k].value[1] : k \in Latencies(f)}
<1>3. S \subseteq Nat /\ S # {}
  <2>1. \A k \in Latencies(f) : f[k].value[1] \in Nat
    BY <1>1 DEF Latencies
  <2> QED
    BY <1>2, <2>1
<1>4. Min(S) \in Nat
  <2> HIDE DEF S
  <2> QED
    BY <1>3, MinExists
<1>5. 1 \in DOMAIN f
  BY <1>1, <1>2 DEF Latencies
<1> QED
  BY <1>1, <1>4, <1>5 DEF lmin

\* In a file where every load is marked, lines after the first that are not
\* marks are of the load of the first.
LEMMA NoMarkOneLoad ==
  ASSUME NEW f, Len(f) \in Nat, DOMAIN f = 1..Len(f), Marked(f),
         \A k \in 2..Len(f) : f[k].kind \in {"msr", "latency"}
  PROVE  \A k \in DOMAIN f : f[k].load = f[1].load
<1> DEFINE T == {k \in 1..Len(f) : f[k].load # f[1].load}
<1> SUFFICES ASSUME T # {} PROVE FALSE
  OBVIOUS
<1>1. PICK x \in T : \A y \in T : x <= y
  <2>1. T \subseteq Nat
    OBVIOUS
  <2> HIDE DEF T
  <2> QED
    BY <2>1, LeastElement
<1>2. x \in 2..Len(f) /\ x - 1 \in 1..(Len(f) - 1) /\ (x - 1) + 1 = x
  BY <1>1
<1>3. f[x - 1].load = f[1].load
  BY <1>1, <1>2
<1>4. f[x - 1].load # f[(x - 1) + 1].load
  BY <1>1, <1>2, <1>3
<1>5. f[x].kind \in {"brand", "error"}
  BY <1>2, <1>4 DEF Marked
<1> QED
  BY <1>2, <1>5

-----------------------------------------------------------------------------
\* While the scripts of the driver run, process-data.py has not started.
LEMMA CollectSteps ==
  ASSUME stage = "collect", [Next]_vars
  PROVE  UNCHANGED processVars \/ Submit
<1> USE DEF processVars
<1>1. ASSUME NEW b \in BOOLEAN, Build(b) \/ Sign(b) PROVE UNCHANGED processVars
  BY <1>1 DEF Build, Sign
<1>2. CASE load \/ unload \/ getlog
  BY <1>2 DEF load, unload, getlog
<1>3. CASE Setup_EventLog \/ sc_create \/ sc_create_fails \/ DriverEntry \/ Start_fails
  BY <1>3 DEF Setup_EventLog, sc_create, sc_create_fails, DriverEntry, Start_fails
<1>4. CASE Dump_Results \/ Stop \/ sc_delete \/ sc_delete_fails
  BY <1>4 DEF Dump_Results, Stop, sc_delete, sc_delete_fails
<1>5. CASE Deliver \/ Kill \/ Reboot \/ UNCHANGED vars
  BY <1>5 DEF Deliver, Kill, Reboot, vars
<1>6. ~Process
  BY DEF Process, main, PrintTable, ReadFile
<1> QED
  BY <1>1, <1>2, <1>3, <1>4, <1>5, <1>6 DEF Next, GetVmlatency

\* When it runs nothing else does.
LEMMA ProcessSteps ==
  ASSUME stage # "collect", pc = "idle", [Next]_vars
  PROVE  /\ pc' = pc /\ file' = file
         /\ UNCHANGED processVars \/ main
<1>1. ASSUME NEW b \in BOOLEAN PROVE ~Build(b) /\ ~Sign(b)
  BY DEF Build, Sign, Ps
<1>2. ~(load \/ unload \/ getlog)
  BY DEF load, unload, getlog, Sh
<1>3. ~(Setup_EventLog \/ sc_create \/ sc_create_fails \/ DriverEntry \/ Start_fails)
  BY DEF Setup_EventLog, sc_create, sc_create_fails, DriverEntry, Start_fails, Ps
<1>4. ~(Dump_Results \/ Stop \/ sc_delete \/ sc_delete_fails)
  BY DEF Dump_Results, Stop, sc_delete, sc_delete_fails, Ps
<1>5. ~(Deliver \/ Kill \/ Reboot \/ Submit)
  BY DEF Deliver, Kill, Reboot, Submit
<1>6. CASE Process
  BY <1>6 DEF Process, script
<1>7. CASE UNCHANGED vars
  BY <1>7 DEF vars, script, processVars
<1> QED
  BY <1>1, <1>2, <1>3, <1>4, <1>5, <1>6, <1>7 DEF Next, GetVmlatency

\* Initially nothing has been read.
LEMMA ProcessInit == Init => ProcessInv
BY DEF Init, ProcessInv

\* The table holds microarchitectures with a file only.
LEMMA PrintTableStep ==
  ASSUME ProcessInv, pc' = pc, file' = file, PrintTable
  PROVE  ProcessInv'
<1> DEFINE missing == {k \in DOMAIN Architectures : Architectures[k] \notin DOMAIN cpus}
<1>1. /\ stage = "read" /\ todo = {} /\ todo' = todo /\ cpus' = cpus
      /\ stage' \in {"raised", "printed"}
  BY DEF PrintTable
<1>2. table' \subseteq DOMAIN cpus
  <2>1. CASE missing = {}
    <3>1. table' = Range(Architectures)
      BY <2>1 DEF PrintTable
    <3> QED
      BY <2>1, <3>1 DEF Range
  <2>2. CASE missing # {}
    <3>1. table' = {Architectures[k] : k \in 1..(Min(missing) - 1)}
      BY <2>2 DEF PrintTable
    <3>2. missing \subseteq DOMAIN Architectures /\ DOMAIN Architectures = 1..Len(Architectures)
          /\ Len(Architectures) \in Nat
      BY ArchitecturesAssumption
    <3>3. Min(missing) \in missing /\ \A y \in missing : Min(missing) <= y
      <4>1. missing \subseteq Nat
        BY <3>2
      <4> HIDE DEF missing
      <4> QED
        BY <2>2, <4>1, MinExists
    <3>4. \A k \in 1..(Min(missing) - 1) : k \in DOMAIN Architectures /\ k \notin missing
      <4> DEFINE x == Min(missing)
      <4>1. x \in 1..Len(Architectures) /\ \A y \in missing : x <= y
        BY <3>2, <3>3
      <4> HIDE DEF x, missing
      <4>2. \A k \in 1..(x - 1) : k \in DOMAIN Architectures /\ k \notin missing
        BY <3>2, <4>1
      <4> QED
        BY <4>2 DEF x
    <3> QED
      BY <3>1, <3>4
  <2> QED
    BY <2>1, <2>2
<1>3. Files' = Files
  BY DEF Files
<1> QED
  BY <1>1, <1>2, <1>3 DEF ProcessInv

\* One more file.
LEMMA ReadFileStep ==
  ASSUME LinesInv, OrderInv, ProcessInv, pc' = pc, file' = file,
         NEW f, ReadFile(f)
  PROVE  ProcessInv'
<1>0. Files' = Files
  BY DEF Files
<1>1. /\ stage = "read" /\ f \in todo /\ todo' = todo \ {f} /\ table' = table
      /\ stage' \in {"read", "raised"} /\ f \in Files /\ table = {}
  BY DEF ReadFile, ProcessInv
<1> DEFINE u == name2uarch(f[1])
           Best(c, g) == /\ name2uarch(g[1]) \in DOMAIN c
                         /\ lmin(c[name2uarch(g[1])]) <= lmin(g)
<1>2. SUFFICES /\ \A w \in DOMAIN cpus' :
                    /\ cpus'[w] \in Files /\ Verdict(cpus'[w]) = "use"
                    /\ name2uarch(cpus'[w][1]) = w
               /\ \A g \in Files \ todo' : Verdict(g) = "use" => Best(cpus', g)
  BY <1>0, <1>1 DEF ProcessInv
<1>3. /\ \A w \in DOMAIN cpus :
           /\ cpus[w] \in Files /\ Verdict(cpus[w]) = "use"
           /\ name2uarch(cpus[w][1]) = w
      /\ \A g \in Files \ todo : Verdict(g) = "use" => Best(cpus, g)
  BY <1>1 DEF ProcessInv
<1>4. \A g \in Files \ todo' : g = f \/ g \in Files \ todo
  BY <1>1
<1>5. \A g \in Files : Verdict(g) = "use" => lmin(g) \in Nat
  BY LminNat
<1>6. CASE Verdict(f) # "use"
  <2>1. cpus' = cpus
    BY <1>6 DEF ReadFile
  <2> QED
    BY <1>3, <1>4, <1>6, <2>1
<1>7. CASE Verdict(f) = "use" /\ u \in DOMAIN cpus /\ ~Better(f, cpus[u])
  <2>1. cpus' = cpus
    BY <1>7 DEF ReadFile
  <2>2. lmin(cpus[u]) <= lmin(f)
    BY <1>1, <1>3, <1>5, <1>7 DEF Better
  <2>3. Best(cpus, f)
    BY <1>7, <2>2
  <2> QED
    BY <1>3, <1>4, <2>1, <2>3
<1>8. CASE Verdict(f) = "use" /\ ~(u \in DOMAIN cpus /\ ~Better(f, cpus[u]))
  <2>1. cpus' = [v \in DOMAIN cpus \cup {u} |-> IF v = u THEN f ELSE cpus[v]]
    BY <1>8 DEF ReadFile
  <2>2. /\ DOMAIN cpus' = DOMAIN cpus \cup {u} /\ cpus'[u] = f
        /\ \A w \in DOMAIN cpus : w # u => cpus'[w] = cpus[w]
    BY <2>1
  <2>3. ASSUME NEW w \in DOMAIN cpus'
        PROVE  /\ cpus'[w] \in Files /\ Verdict(cpus'[w]) = "use"
               /\ name2uarch(cpus'[w][1]) = w
    BY <1>1, <1>3, <1>8, <2>2
  <2>4. ASSUME NEW g \in Files \ todo', Verdict(g) = "use" PROVE Best(cpus', g)
    <3> DEFINE w == name2uarch(g[1])
    <3>1. CASE g = f
      <4>1. lmin(f) <= lmin(f)
        BY <1>1, <1>5, <1>8
      <4> QED
        BY <2>2, <3>1, <4>1
    <3>2. CASE g # f /\ w # u
      BY <1>3, <1>4, <2>2, <2>4, <3>2
    <3>3. CASE g # f /\ w = u
      <4>1. u \in DOMAIN cpus /\ lmin(cpus[u]) <= lmin(g)
        BY <1>3, <1>4, <2>4, <3>3
      <4>2. lmin(f) < lmin(cpus[u])
        BY <1>8, <4>1 DEF Better
      <4>3. lmin(f) \in Nat /\ lmin(g) \in Nat /\ lmin(cpus[u]) \in Nat
        BY <1>1, <1>3, <1>5, <1>8, <2>4, <4>1
      <4>4. lmin(f) <= lmin(g)
        BY <4>1, <4>2, <4>3
      <4> QED
        BY <2>2, <3>3, <4>4
    <3> QED
      BY <3>1, <3>2, <3>3
  <2> QED
    BY <2>3, <2>4
<1> QED
  BY <1>6, <1>7, <1>8

\* What has been chosen stays the best of what has been read.
LEMMA ProcessStep ==
  LinesInv /\ OrderInv /\ ProcessInv /\ [Next]_vars => ProcessInv'
<1> SUFFICES ASSUME LinesInv, OrderInv, ProcessInv, [Next]_vars PROVE ProcessInv'
  OBVIOUS
<1>1. CASE stage = "collect"
  <2>1. todo = {} /\ cpus = <<>> /\ table = {}
    BY <1>1 DEF ProcessInv
  <2>2. CASE UNCHANGED processVars
    BY <1>1, <2>1, <2>2 DEF ProcessInv, processVars
  <2>3. CASE Submit
    <3>1. /\ stage' = "read" /\ pc' = "idle" /\ cpus' = <<>> /\ table' = {}
          /\ file' = file
          /\ todo' = Committed \cup (IF file = NoFile THEN {} ELSE {file})
      BY <2>1, <2>3 DEF Submit
    <3>2. todo' = Files'
      BY <3>1 DEF Files
    <3> QED
      BY <3>1, <3>2 DEF ProcessInv
  <2> QED
    BY <1>1, <2>2, <2>3, CollectSteps
<1>2. CASE stage # "collect"
  <2>1. pc = "idle"
    BY <1>2 DEF ProcessInv
  <2>2. pc' = pc /\ file' = file /\ (UNCHANGED processVars \/ main)
    BY <1>2, <2>1, ProcessSteps
  <2>3. CASE UNCHANGED processVars
    BY <2>2, <2>3 DEF ProcessInv, processVars, Files
  <2>4. CASE PrintTable
    BY <2>2, <2>4, PrintTableStep
  <2>5. ASSUME NEW f \in todo, ReadFile(f) PROVE ProcessInv'
    BY <2>2, <2>5, ReadFileStep
  <2> QED
    BY <2>2, <2>3, <2>4, <2>5 DEF main
<1> QED
  BY <1>1, <1>2

\* The invariant of the scripts and this one hold in every state.
LEMMA PublishInvariant == Spec => [](CollectInv /\ ProcessInv)
<1>1. Init => ProcessInv
  BY ProcessInit
<1>2. CollectInv /\ ProcessInv /\ [Next]_vars => ProcessInv'
  BY ProcessStep DEF CollectInv
<1> QED
  BY <1>1, <1>2, CollectInvariant, PTL DEF Spec

-----------------------------------------------------------------------------
\* The scripts, the log and process-data.py stay within their types: in
\* particular the loop of get_vmlatency.sh loads the driver LoadsPerRun times at
\* most, and the assertion of process-data.py on the names never fails.
THEOREM ResultsTypeCorrect == Spec => []TypeOK
<1>1. CollectInv /\ ProcessInv => TypeOK
  <2> SUFFICES ASSUME CollectInv, ProcessInv PROVE TypeOK
    OBVIOUS
  <2>1. FlagInv /\ RunInv /\ LinesInv /\ OrderInv
    BY DEF CollectInv
  <2>2. DriverLines \subseteq Lines /\ PrintedBy(loads) \subseteq Lines
    BY DEF PrintedBy, DriverLines
  <2>3. log \in Seq(Lines) /\ queue \in Seq(Lines) /\ file \in Seq(Lines) \cup {NoFile}
    BY <2>1, <2>2, SeqMonotonic DEF LinesInv
  <2>4. todo \subseteq Committed \cup {file}
    BY DEF ProcessInv, Files
  <2>5. ASSUME NEW u \in DOMAIN cpus PROVE u \in Range(Architectures)
    <3>1. cpus[u] \in Files /\ Verdict(cpus[u]) = "use" /\ name2uarch(cpus[u][1]) = u
      BY DEF ProcessInv
    <3>2. Known(cpus[u][1])
      BY <3>1, UsedShape
    <3>3. cpus[u] # <<>>
      BY <2>1, <3>1, LminNat
    <3>4. Listed(cpus[u][1])
      BY <2>1, <3>1, <3>3, FileShape
    <3> QED
      BY <3>1, <3>2, <3>4 DEF Listed
  <2> QED
    BY <2>1, <2>3, <2>4, <2>5 DEF TypeOK, FlagInv, RunInv, LinesInv, ProcessInv
<1> QED
  BY <1>1, PublishInvariant, PTL

\* Although a file of get_vmlatency.sh holds every load since boot, an entry of
\* the table is decided by the lines of one load, without an error unless
\* Windows wrote the file.
THEOREM EntriesOfOneLoad == Spec => []PublishedFromOneLoad
<1>1. CollectInv /\ ProcessInv => PublishedFromOneLoad
  <2> SUFFICES ASSUME CollectInv, ProcessInv, NEW u \in DOMAIN cpus,
                      NEW f, f = cpus[u]
               PROVE  /\ \A l \in Range(f) : l.load = f[1].load
                      /\ f[1].kind = "brand" /\ name2uarch(f[1]) = u
                      /\ machine.os # "win" => ~f[1].odd
    BY DEF PublishedFromOneLoad
  <2>1. LinesInv /\ OrderInv
    BY DEF CollectInv
  <2>2. f \in Files /\ Verdict(f) = "use" /\ name2uarch(f[1]) = u
    BY DEF ProcessInv
  <2>3. f[1].kind = "brand" /\ \A k \in 2..Len(f) : f[k].kind \in {"msr", "latency"}
    BY <2>2, UsedShape
  <2>4. /\ Len(f) \in Nat /\ DOMAIN f = 1..Len(f) /\ 1 \in DOMAIN f
        /\ Marked(f) \/ (machine.os = "win" /\ OneLoad(f))
    BY <2>1, <2>2, FileShape, LminNat
  <2>5. CASE Marked(f)
    <3>1. \A k \in DOMAIN f : f[k].load = f[1].load
      BY <2>3, <2>4, <2>5, NoMarkOneLoad
    <3>2. ~f[1].odd
      <4> SUFFICES ASSUME f[1].odd PROVE FALSE
        OBVIOUS
      <4>1. PICK m \in DOMAIN f : 1 < m /\ f[m].kind = "error"
        BY <2>3, <2>4, <2>5 DEF Marked
      <4> QED
        BY <2>3, <2>4, <4>1
    <3> QED
      BY <2>2, <2>3, <3>1, <3>2 DEF Range
  <2>6. CASE machine.os = "win" /\ OneLoad(f)
    <3>1. ASSUME NEW k \in DOMAIN f PROVE f[k].load = f[1].load
      <4>1. CASE k = 1
        BY <4>1
      <4>2. CASE 1 < k
        BY <2>4, <2>6, <4>2 DEF OneLoad
      <4> QED
        BY <2>4, <4>1, <4>2
    <3> QED
      BY <2>2, <2>3, <2>6, <3>1 DEF Range
  <2> QED
    BY <2>4, <2>5, <2>6
<1> QED
  BY <1>1, PublishInvariant, PTL

\* Whatever order the files are read in, an entry of the table has the lowest
\* latency of the files that are used for it.
THEOREM EntriesAreBest == Spec => []PublishedIsBest
<1>1. ProcessInv => PublishedIsBest
  BY DEF ProcessInv, PublishedIsBest, Files
<1> QED
  BY <1>1, PublishInvariant, PTL

=============================================================================
