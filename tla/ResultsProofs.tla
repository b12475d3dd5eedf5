--------------------------- MODULE ResultsProofs ---------------------------
(***************************************************************************)
(* What the driver prints, what the log and the file hold, and what the    *)
(* two scripts leave behind, for any number of loads and any sequence of   *)
(* runs, failures, kills and reboots.                                      *)
(*                                                                         *)
(* Where a proof needs induction over a sequence or a set of positions it  *)
(* takes the least counterexample (LeastElement).                          *)
(***************************************************************************)
EXTENDS Results, LatencyStatsProofs, FiniteSetTheorems, SequenceTheorems,
        WellFoundedInduction, TLAPS

-----------------------------------------------------------------------------
(***************************************************************************)
(* Numbers and sequences.                                                  *)
(***************************************************************************)

\* Every set of naturals has a least element.
LEMMA LeastElement ==
  ASSUME NEW T, T \subseteq Nat, T # {}
  PROVE  \E x \in T : \A y \in T : x <= y
<1> DEFINE R == {ss \in Nat \X Nat : ss[1] < ss[2]}
<1>1. OpToRel(<, Nat) = R
  BY Zenon DEF OpToRel
<1>2. IsWellFoundedOn(R, Nat)
  BY <1>1, NatLessThanWellFounded, Zenon
<1> HIDE DEF R
<1>3. PICK x \in T : \A y \in T : ~(<<y, x>> \in R)
  BY <1>2, WFMin
<1>4. ASSUME NEW y \in T PROVE x <= y
  <2>1. x \in Nat /\ y \in Nat /\ ~(<<y, x>> \in R)
    BY <1>3
  <2>2. <<y, x>> \in Nat \X Nat /\ <<y, x>>[1] = y /\ <<y, x>>[2] = x
    BY <2>1
  <2>3. ~(y < x)
    BY <2>1, <2>2, Zenon DEF R
  <2> QED
    BY <2>1, <2>3
<1> QED
  BY <1>4

\* A set of positions is finite, and so is every part of it.
LEMMA PositionsFinite ==
  ASSUME NEW n \in Nat, NEW ks \in SUBSET (1..n)
  PROVE  /\ IsFiniteSet(ks) /\ Cardinality(ks) \in Nat
         /\ \A m : /\ IsFiniteSet(ks \cap (1..m))
                   /\ Cardinality(ks \cap (1..m)) \in Nat
<1>1. IsFiniteSet(1..n)
  BY FS_Interval
<1>2. IsFiniteSet(ks)
  BY <1>1, FS_Subset
<1>3. ASSUME NEW m PROVE IsFiniteSet(ks \cap (1..m))
  BY <1>2, FS_Intersection
<1> QED
  BY <1>2, <1>3, FS_CardinalityType

\* The position of the j-th member of a set of positions.
LEMMA CountReaches ==
  ASSUME NEW n \in Nat, NEW ks \in SUBSET (1..n), NEW j \in 1..Cardinality(ks)
  PROVE  \E k \in ks : Cardinality(ks \cap (1..k)) = j
<1> DEFINE C(m) == Cardinality(ks \cap (1..m))
           T == {m \in Nat : C(m) >= j}
<1>1. /\ IsFiniteSet(ks) /\ Cardinality(ks) \in Nat
      /\ \A m : IsFiniteSet(ks \cap (1..m)) /\ C(m) \in Nat
  BY PositionsFinite
<1>2. n \in T
  <2>1. ks \cap (1..n) = ks
    OBVIOUS
  <2> QED
    BY <1>1, <2>1
<1> HIDE DEF C
<1>3. PICK x \in T : \A y \in T : x <= y
  <2>1. T \subseteq Nat
    OBVIOUS
  <2> HIDE DEF T
  <2> QED
    BY <1>2, <2>1, LeastElement
<1>4. x # 0
  <2>1. ks \cap (1..0) = {}
    OBVIOUS
  <2>2. C(0) = 0
    BY <2>1, FS_EmptySet DEF C
  <2> QED
    BY <2>2, <1>3
<1>5. x \in Nat /\ x - 1 \in Nat /\ C(x - 1) < j /\ C(x) >= j /\ C(x - 1) \in Nat
  <2>1. x \in Nat /\ x - 1 \in Nat /\ C(x) >= j /\ x - 1 \notin T
    BY <1>3, <1>4
  <2>2. ~(C(x - 1) >= j) /\ C(x - 1) \in Nat
    BY <2>1, <1>1
  <2> QED
    BY <2>1, <2>2, <1>1
<1>6. x \in ks /\ C(x) = C(x - 1) + 1
  <2>1. CASE x \in ks
    <3>1. ks \cap (1..x) = (ks \cap (1..(x - 1))) \cup {x}
      BY <2>1, <1>5
    <3>2. x \notin ks \cap (1..(x - 1))
      BY <1>5
    <3> QED
      BY <2>1, <3>1, <3>2, <1>1, <1>5, FS_AddElement DEF C
  <2>2. CASE x \notin ks
    <3>1. ks \cap (1..x) = ks \cap (1..(x - 1))
      BY <2>2, <1>5
    <3>2. C(x) = C(x - 1)
      BY <3>1 DEF C
    <3> QED
      BY <3>2, <1>5
  <2> QED
    BY <2>1, <2>2
<1>7. C(x) = j
  BY <1>5, <1>6
<1> QED
  BY <1>6, <1>7 DEF C

\* A selection is a sequence of the same elements, taken from increasing positions.
LEMMA SelectIncreasing ==
  ASSUME NEW S, NEW s \in Seq(S), NEW ks \in SUBSET DOMAIN s
  PROVE  /\ Select(s, ks) \in Seq(S)
         /\ \E p \in [DOMAIN Select(s, ks) -> ks] :
              /\ \A a \in DOMAIN Select(s, ks) : Select(s, ks)[a] = s[p[a]]
              /\ \A a, b \in DOMAIN Select(s, ks) : a < b => p[a] < p[b]
<1> DEFINE c == Cardinality(ks)
           C(k) == Cardinality(ks \cap (1..k))
           p == [j \in 1..c |-> CHOOSE k \in ks : C(k) = j]
<1>1. Len(s) \in Nat /\ ks \in SUBSET (1..Len(s)) /\ DOMAIN s = 1..Len(s)
  OBVIOUS
<1>2. /\ IsFiniteSet(ks) /\ c \in Nat
      /\ \A m : IsFiniteSet(ks \cap (1..m)) /\ C(m) \in Nat
  BY <1>1, PositionsFinite
<1>3. ASSUME NEW j \in 1..c PROVE p[j] \in ks /\ C(p[j]) = j
  <2>1. \E k \in ks : C(k) = j
    BY <1>1, CountReaches
  <2> HIDE DEF C, c
  <2> QED
    BY <2>1
<1>4. \A j \in 1..c : Select(s, ks)[j] = s[p[j]]
  BY DEF Select
<1>5. DOMAIN Select(s, ks) = 1..c
  BY DEF Select
<1>6. ASSUME NEW a \in 1..c, NEW b \in 1..c, a < b PROVE p[a] < p[b]
  <2> HIDE DEF p
  <2>0. p[a] \in ks /\ p[b] \in ks /\ C(p[a]) = a /\ C(p[b]) = b
    BY <1>3, Zenon
  <2>1. p[a] \in Nat /\ p[b] \in Nat
    BY <1>1, <2>0
  <2> SUFFICES ASSUME p[b] <= p[a] PROVE FALSE
    BY <2>1
  <2>2. ks \cap (1..p[b]) \in SUBSET (ks \cap (1..p[a]))
    BY <2>1
  <2>3. C(p[b]) <= C(p[a])
    BY <2>1, <2>2, <1>2, FS_Subset
  <2> QED
    BY <2>0, <2>3, <1>2, <1>6
<1>7. p \in [1..c -> ks]
  BY <1>3
<1>8. Select(s, ks) = [j \in 1..c |-> s[p[j]]]
  BY <1>3 DEF Select
<1> HIDE DEF p, c
<1>9. Select(s, ks) \in Seq(S)
  BY <1>1, <1>2, <1>7, <1>8
<1> QED
  BY <1>4, <1>5, <1>6, <1>7, <1>9

\* A round has at least one VM entry.
LEMMA BitPositive ==
  ASSUME NEW n \in Nat
  PROVE  __BIT(n) \in Nat \ {0}
<1>1. IsFiniteSet(1..n) /\ Cardinality(1..n) = n
  BY FS_Interval
<1>2. IsFiniteSet(SUBSET (1..n)) /\ Cardinality(SUBSET (1..n)) = 2^n
  BY <1>1, FS_SUBSET
<1>3. SUBSET (1..n) # {}
  OBVIOUS
<1>4. 2^n \in Nat /\ 2^n # 0
  BY <1>2, <1>3, FS_CardinalityType, FS_EmptySet
<1> QED
  BY <1>4 DEF __BIT

\* c holds the elements of a and then those of b.
IsConcat(c, a, b) ==
         /\ Len(a) \in Nat /\ Len(b) \in Nat /\ Len(c) = Len(a) + Len(b)
         /\ \A k \in 1..Len(a) : c[k] = a[k]
         /\ \A k \in (Len(a) + 1)..Len(c) : k - Len(a) \in 1..Len(b) /\ c[k] = b[k - Len(a)]

\* So does a \o b.
LEMMA ConcatShape ==
  ASSUME NEW S, NEW a \in Seq(S), NEW b \in Seq(S)
  PROVE  a \o b \in Seq(S) /\ IsConcat(a \o b, a, b)
<1> DEFINE c == a \o b
<1>1. Len(a) \in Nat /\ Len(b) \in Nat
  OBVIOUS
<1>2. c \in Seq(S) /\ Len(c) = Len(a) + Len(b)
  BY ConcatProperties
<1>4. \A k \in 1..(Len(a) + Len(b)) : c[k] = IF k <= Len(a) THEN a[k] ELSE b[k - Len(a)]
  BY ConcatProperties, Zenon
<1> HIDE DEF c
<1>3. DOMAIN c = 1..Len(c)
  BY <1>2
<1>5. \A k \in 1..Len(a) : c[k] = a[k]
  BY <1>1, <1>4
<1>6. \A k \in (Len(a) + 1)..Len(c) : k - Len(a) \in 1..Len(b) /\ c[k] = b[k - Len(a)]
  BY <1>1, <1>2, <1>4
<1>7. c \in Seq(S) /\ IsConcat(c, a, b)
  BY <1>1, <1>2, <1>3, <1>5, <1>6 DEF IsConcat
<1> QED
  BY <1>7 DEF c

-----------------------------------------------------------------------------
(***************************************************************************)
(* What a load prints.                                                     *)
(***************************************************************************)

\* Lines that the driver may print.
DriverLines ==
  {l \in Lines : /\ l.kind = "brand" => l.value \in Brands
                 /\ l.kind = "latency" => l.value[1] \in MinCost..MaxCost}

\* stats[n] is printed as a number of cycles that one VM entry may take.
LEMMA ReportWithinCost ==
  ASSUME NEW n \in 0..(Iterations - 1), NEW v \in Reports[n]
  PROVE  v \in MinCost..MaxCost
<1> DEFINE k == __BIT(n)
<1>1. MinCost \in Nat /\ MaxCost \in Nat /\ Iterations \in Nat
  BY ResultsAssumption
<1>2. n \in Nat /\ k \in Nat \ {0}
  BY <1>1, BitPositive
<1>3. PICK t \in 0..(U64 - 1), e \in Elapsed(n) : v = lld(stat(k, t, e))
  BY DEF Reports
<1> HIDE DEF k
<1>4. k * MinCost \in Nat /\ k * MaxCost \in Nat /\ k * MaxCost < U64
  BY <1>1, <1>2, CostAssumption DEF k
<1>5. t \in Nat /\ e \in Nat /\ k * MinCost <= e /\ e <= k * MaxCost /\ e < U64
  BY <1>3, <1>4, U64Positive DEF Elapsed, k
<1>6. MinCost <= stat(k, t, e) /\ stat(k, t, e) <= MaxCost
  BY <1>1, <1>2, <1>5, StatWithinCost
<1>7. stat(k, t, e) \in Int
  <2>1. stat(k, t, e) = e \div k
    BY <1>2, <1>5, StatExact
  <2> QED
    BY <1>2, <1>5, <2>1
<1> DEFINE w == stat(k, t, e)
<1> HIDE DEF w
<1>8. w \in MinCost..MaxCost
  BY <1>1, <1>6, <1>7 DEF w
<1>9. lld(w) = w
  BY <1>1, <1>8, CostAssumption, U64Positive DEF lld
<1> QED
  BY <1>3, <1>8, <1>9 DEF w

\* What the properties need to know of the lines of one load.
PrintOK(lines) ==
  /\ lines \in Seq(DriverLines) /\ Len(lines) >= 1
  /\ \A k \in DOMAIN lines : lines[k].load = loads + 1
  /\ lines[1].kind \in {"brand", "error"}
  /\ \A k \in 2..Len(lines) : lines[k].kind # "brand"
  /\ lines[1].kind = "brand" /\ lines[1].odd =>
       \E m \in 2..Len(lines) : lines[m].kind = "error"
  /\ \A a, b \in DOMAIN lines : a < b =>
       Rank[lines[a].kind] <= Rank[lines[b].kind]

\* The statistics.
LEMMA StatsShape ==
  ASSUME NEW odd \in BOOLEAN, NEW s \in Stats(odd),
         loads + 1 \in 0..(MaxLoads + LoadsPerRun)
  PROVE  /\ s \in Seq(DriverLines)
         /\ \A k \in DOMAIN s : /\ s[k].kind = "latency" /\ s[k].odd = odd
                                /\ s[k].load = loads + 1
<1>0. Iterations \in Nat /\ MinCost \in Nat /\ MaxCost \in Nat
  BY ResultsAssumption
<1>1. PICK v : /\ s = [k \in 1..Iterations |-> Line("latency", <<v[k - 1]>>, odd)]
               /\ \A n \in DOMAIN Reports : v[n] \in Reports[n]
  BY DEF Stats
<1>2. DOMAIN Reports = 0..(Iterations - 1)
  BY DEF Reports
<1>3. ASSUME NEW k \in 1..Iterations PROVE v[k - 1] \in MinCost..MaxCost
  BY <1>0, <1>1, <1>2, ReportWithinCost
<1>4. ASSUME NEW k \in 1..Iterations
      PROVE  Line("latency", <<v[k - 1]>>, odd) \in DriverLines
  <2>1. <<v[k - 1]>> \in Seq(Int) /\ <<v[k - 1]>>[1] \in MinCost..MaxCost
    BY <1>0, <1>3
  <2> QED
    BY <2>1 DEF DriverLines, Lines, Line
<1>5. s \in Seq(DriverLines) /\ DOMAIN s = 1..Iterations
  BY <1>0, <1>1, <1>4
<1> QED
  BY <1>1, <1>5 DEF Line

\* The brand string and the MSRs.
LEMMA HeaderShape ==
  ASSUME NEW odd \in BOOLEAN, machine.brand \in Brands,
         loads + 1 \in 0..(MaxLoads + LoadsPerRun)
  PROVE  /\ Header(odd) \in Seq(DriverLines) /\ Len(Header(odd)) = 2
         /\ Header(odd)[1].kind = "brand" /\ Header(odd)[2].kind = "msr"
         /\ \A k \in 1..2 : Header(odd)[k].load = loads + 1 /\ Header(odd)[k].odd = odd
<1>1. Line("brand", machine.brand, odd) \in DriverLines
  BY DEF DriverLines, Lines, Line
<1>2. Line("msr", <<>>, odd) \in DriverLines
  BY DEF DriverLines, Lines, Line
<1> QED
  BY <1>1, <1>2 DEF Header, Line

\* The error.
LEMMA ErrorShape ==
  ASSUME loads + 1 \in 0..(MaxLoads + LoadsPerRun)
  PROVE  Error \in DriverLines /\ Error.kind = "error" /\ Error.load = loads + 1
BY DEF DriverLines, Lines, Line, Error

\* Every load prints such lines.
LEMMA PrintedShape ==
  ASSUME machine.brand \in Brands, loads + 1 \in 0..(MaxLoads + LoadsPerRun),
         NEW lines \in Printed
  PROVE  PrintOK(lines)
<1>0. /\ Rank["brand"] = 1 /\ Rank["msr"] = 2 /\ Rank["error"] = 3
      /\ Rank["latency"] = 4
  BY DEF Rank
<1> HIDE DEF Rank
<1>1. ASSUME NEW s \in Stats(FALSE), lines = Header(FALSE) \o s PROVE PrintOK(lines)
  <2> DEFINE h == Header(FALSE)
  <2>1. /\ h \in Seq(DriverLines) /\ Len(h) = 2
        /\ h[1].kind = "brand" /\ h[2].kind = "msr"
        /\ \A k \in 1..2 : h[k].load = loads + 1 /\ h[k].odd = FALSE
    BY HeaderShape
  <2>2. /\ s \in Seq(DriverLines)
        /\ \A k \in DOMAIN s : s[k].kind = "latency" /\ s[k].load = loads + 1
    BY StatsShape
  <2>a. lines = h \o s
    BY <1>1
  <2> HIDE DEF h
  <2>3. /\ lines \in Seq(DriverLines) /\ Len(lines) = 2 + Len(s)
        /\ \A k \in 1..Len(lines) : lines[k] = IF k <= 2 THEN h[k] ELSE s[k - 2]
    <3>1. lines \in Seq(DriverLines) /\ IsConcat(lines, h, s)
      BY <2>a, <2>1, <2>2, ConcatShape
    <3> QED
      BY <3>1, <2>1 DEF IsConcat
  <2>4. \A k \in 3..Len(lines) : lines[k].kind = "latency" /\ lines[k].load = loads + 1
    BY <2>2, <2>3
  <2>5. lines[1] = h[1] /\ lines[2] = h[2] /\ Len(lines) \in Nat /\ Len(lines) >= 2
    BY <2>2, <2>3
  <2>6. \A a, b \in DOMAIN lines : a < b => Rank[lines[a].kind] <= Rank[lines[b].kind]
    BY <1>0, <2>1, <2>3, <2>4, <2>5
  <2>7. \A k \in 2..Len(lines) : lines[k].kind # "brand"
    BY <2>1, <2>4, <2>5
  <2> QED
    BY <2>1, <2>3, <2>4, <2>5, <2>6, <2>7 DEF PrintOK
<1>2. ASSUME NEW s \in Stats(TRUE), lines = Header(TRUE) \o <<Error>> \o s
      PROVE  PrintOK(lines)
  <2> DEFINE h == Header(TRUE)
  <2>1. /\ h \in Seq(DriverLines) /\ Len(h) = 2
        /\ h[1].kind = "brand" /\ h[2].kind = "msr"
        /\ \A k \in 1..2 : h[k].load = loads + 1
    BY HeaderShape
  <2>2. /\ s \in Seq(DriverLines)
        /\ \A k \in DOMAIN s : s[k].kind = "latency" /\ s[k].load = loads + 1
    BY StatsShape
  <2> DEFINE g == h \o <<Error>>
  <2>a. lines = g \o s
    BY <1>2
  <2> HIDE DEF h
  <2>b. g \in Seq(DriverLines) /\ Len(g) = 3 /\ g[1] = h[1] /\ g[2] = h[2] /\ g[3] = Error
    <3>1. <<Error>> \in Seq(DriverLines) /\ Len(<<Error>>) = 1 /\ <<Error>>[1] = Error
      BY ErrorShape
    <3>2. g \in Seq(DriverLines) /\ IsConcat(g, h, <<Error>>)
      BY <2>1, <3>1, ConcatShape
    <3> QED
      BY <3>1, <3>2, <2>1 DEF IsConcat
  <2> HIDE DEF g
  <2>3. /\ lines \in Seq(DriverLines) /\ Len(lines) = 3 + Len(s)
        /\ lines[1] = h[1] /\ lines[2] = h[2] /\ lines[3] = Error
        /\ \A k \in 4..Len(lines) : lines[k] = s[k - 3]
    <3>1. lines \in Seq(DriverLines) /\ IsConcat(lines, g, s)
      BY <2>a, <2>b, <2>2, ConcatShape
    <3> QED
      BY <3>1, <2>b DEF IsConcat
  <2>4. \A k \in 4..Len(lines) : lines[k].kind = "latency" /\ lines[k].load = loads + 1
    BY <2>2, <2>3
  <2>5. Len(lines) \in Nat /\ Len(lines) >= 3
    BY <2>2, <2>3
  <2>6. \A a, b \in DOMAIN lines : a < b => Rank[lines[a].kind] <= Rank[lines[b].kind]
    BY <1>0, <2>1, <2>3, <2>4, <2>5, ErrorShape
  <2>7. \A k \in 2..Len(lines) : lines[k].kind # "brand"
    BY <2>1, <2>3, <2>4, <2>5, ErrorShape
  <2>8. \A k \in DOMAIN lines : lines[k].load = loads + 1
    BY <2>1, <2>3, <2>4, <2>5, ErrorShape
  <2>9. \E m \in 2..Len(lines) : lines[m].kind = "error"
    BY <2>3, <2>5, ErrorShape
  <2> QED
    BY <2>1, <2>3, <2>5, <2>6, <2>7, <2>8, <2>9 DEF PrintOK
<1>3. CASE lines = Header(TRUE) \o <<Error>>
  <2> DEFINE h == Header(TRUE)
  <2>1. /\ h \in Seq(DriverLines) /\ Len(h) = 2
        /\ h[1].kind = "brand" /\ h[2].kind = "msr"
        /\ \A k \in 1..2 : h[k].load = loads + 1
    BY HeaderShape
  <2>a. lines = h \o <<Error>>
    BY <1>3
  <2> HIDE DEF h
  <2>3. /\ lines \in Seq(DriverLines) /\ Len(lines) = 3
        /\ lines[1] = h[1] /\ lines[2] = h[2] /\ lines[3] = Error
    <3>1. <<Error>> \in Seq(DriverLines) /\ Len(<<Error>>) = 1 /\ <<Error>>[1] = Error
      BY ErrorShape
    <3>2. lines \in Seq(DriverLines) /\ IsConcat(lines, h, <<Error>>)
      BY <2>a, <2>1, <3>1, ConcatShape
    <3> QED
      BY <3>1, <3>2, <2>1 DEF IsConcat
  <2> QED
    BY <1>0, <2>1, <2>3, ErrorShape DEF PrintOK
<1>4. CASE lines = Header(FALSE)
  <2>1. /\ lines \in Seq(DriverLines) /\ Len(lines) = 2
        /\ lines[1].kind = "brand" /\ lines[2].kind = "msr"
        /\ \A k \in 1..2 : lines[k].load = loads + 1 /\ lines[k].odd = FALSE
    BY <1>4, HeaderShape, Zenon
  <2>2. DOMAIN lines = 1..2 /\ 2..Len(lines) = {2}
    BY <2>1
  <2>3. \A a, b \in DOMAIN lines : a < b => Rank[lines[a].kind] <= Rank[lines[b].kind]
    BY <1>0, <2>1, <2>2
  <2>4. \A k \in 2..Len(lines) : lines[k].kind # "brand"
    BY <2>1, <2>2
  <2>5. lines[1].odd = FALSE /\ Len(lines) >= 1
    BY <2>1
  <2> QED
    BY <2>1, <2>2, <2>3, <2>4, <2>5, Zenon DEF PrintOK
<1>5. CASE lines = <<Error>>
  BY <1>5, ErrorShape DEF PrintOK
<1> QED
  BY <1>1, <1>2, <1>3, <1>4, <1>5 DEF Printed

-----------------------------------------------------------------------------
(***************************************************************************)
(* The inductive invariant.                                                *)
(***************************************************************************)

\* get_vmlatency.sh: how many loads there may have been when the loop has come
\* to its i-th turn.
ShLoop ==
  /\ pc \in {"idle", "load", "unload", "getlog"}
  /\ pc = "load" => i \in 1..LoadsPerRun /\ loads <= MaxLoads + i - 2
  /\ pc = "unload" => i \in 1..LoadsPerRun /\ loads <= MaxLoads + i - 1
  /\ queue = <<>>

\* GetVmlatency.ps1: the only load after StartTime is that of DriverEntry.
PsRun ==
  /\ pc \notin {"load", "unload", "getlog"}
  /\ pc \in {"sign", "setup", "create", "start"} => loads < MaxLoads
  /\ pc \in {"setup", "create", "start"} => start = loads + 1
  /\ pc = "dump" => start = loads

\* The flags.
FlagInv == loaded \in BOOLEAN /\ key \in BOOLEAN /\ excused \in BOOLEAN

\* What else TypeOK says of the scripts and the kernel, and where the scripts
\* are.
RunInv ==
  /\ machine \in [os : Systems, brand : Brands]
  /\ loads \in 0..(MaxLoads + LoadsPerRun - 1)
  /\ service \in {"absent", "stopped", "running"}
  /\ pc \in {"idle", "load", "unload", "getlog", "sign", "setup", "create",
             "start", "dump", "stop", "delete"}
  /\ i \in 0..(LoadsPerRun + 1) /\ start \in 0..(loads + 1)
  /\ IF machine.os = "win" THEN PsRun ELSE ShLoop

\* Lines that the driver has printed by its n-th load.
PrintedBy(n) == {l \in DriverLines : l.load <= n}

\* The lines in the log, in the queue and in the file were printed by the
\* loads so far.
LinesInv ==
  /\ log \in Seq(PrintedBy(loads)) /\ queue \in Seq(PrintedBy(loads))
  /\ file \in Seq(DriverLines) \cup {NoFile}
  /\ machine.os # "win" => Len(log) <= LogSize

\* Line a may be printed before line b.
Before(a, b) ==
  \/ a.load < b.load
  \/ a.load = b.load /\ Rank[a.kind] <= Rank[b.kind]

\* Windows: what is logged and what is queued is in the order it was printed.
Ordered(s) == \A a, b \in DOMAIN s : a < b => Before(s[a], s[b])

\* Every line of s may be printed before every line of t.
AllBefore(s, t) == \A a \in DOMAIN s, b \in DOMAIN t : Before(s[a], t[b])

\* The lines of s are of one load, in the order it prints.
OneLoad(s) ==
  \A a, b \in DOMAIN s : a < b =>
    s[a].load = s[b].load /\ Rank[s[a].kind] <= Rank[s[b].kind]

\* The file holds one load, in order, and the log is in order, or the loads in
\* both are marked.
OrderInv ==
  IF machine.os = "win"
  THEN /\ Ordered(log) /\ Ordered(queue) /\ AllBefore(log, queue)
       /\ file # NoFile => OneLoad(file)
  ELSE Marked(log) /\ (file # NoFile => Marked(file))

\* Initially no flag is set.
LEMMA FlagInit == Init => FlagInv
BY DEF Init, FlagInv

\* Every step leaves the flags Boolean.
LEMMA FlagStep == FlagInv /\ [Next]_vars => FlagInv'
<1> SUFFICES ASSUME FlagInv, [Next]_vars PROVE FlagInv'
  OBVIOUS
<1> USE DEF FlagInv
<1>1. ASSUME NEW b \in BOOLEAN, Build(b) \/ Sign(b) PROVE FlagInv'
  BY <1>1 DEF Build, Sign, kernel, windows
<1>2. CASE load \/ unload \/ getlog
  BY <1>2 DEF load, unload, getlog, Enter, kernel, windows
<1>3. CASE Setup_EventLog \/ sc_create \/ sc_create_fails \/ DriverEntry
  BY <1>3 DEF Setup_EventLog, sc_create, sc_create_fails, DriverEntry, Enter, kernel,
              windows
<1>4. CASE Start_fails \/ Dump_Results \/ Stop \/ sc_delete \/ sc_delete_fails
  BY <1>4 DEF Start_fails, Dump_Results, Stop, sc_delete, sc_delete_fails, kernel,
              windows
<1>5. CASE Process \/ Deliver \/ Kill \/ UNCHANGED vars
  BY <1>5 DEF Process, Deliver, Kill, vars, kernel, windows, script
<1>6. CASE Reboot
  <2>1. (excused \/ pc # "idle") \in BOOLEAN
    OBVIOUS
  <2> QED
    BY <1>6, <2>1 DEF Reboot
<1>7. CASE Submit
  BY <1>7 DEF Submit
<1> QED
  BY <1>1, <1>2, <1>3, <1>4, <1>5, <1>6, <1>7 DEF Next, GetVmlatency

\* Initially nothing has run.
LEMMA RunInit == Init => RunInv
<1> SUFFICES ASSUME Init PROVE RunInv
  OBVIOUS
<1>1. machine \in [os : Systems, brand : Brands]
  BY DEF Init
<1>2. loads \in 0..(MaxLoads + LoadsPerRun - 1) /\ i \in 0..(LoadsPerRun + 1)
  BY ResultsAssumption DEF Init
<1>3. start \in 0..(loads + 1)
  BY DEF Init
<1>4. pc = "idle" /\ service = "absent" /\ queue = <<>>
  BY DEF Init
<1> QED
  BY <1>1, <1>2, <1>3, <1>4 DEF RunInv, PsRun, ShLoop

\* Every step keeps the scripts on their way and within the bound on loads.
LEMMA RunStep == RunInv /\ [Next]_vars => RunInv'
<1> SUFFICES ASSUME RunInv, [Next]_vars PROVE RunInv'
  OBVIOUS
<1> USE ResultsAssumption DEF RunInv, PsRun, ShLoop
<1>1. ASSUME NEW b \in BOOLEAN, Build(b) PROVE RunInv'
  <2>1. CASE b /\ machine.os = "win"
    BY <1>1, <2>1 DEF Build, kernel, windows
  <2>2. CASE b /\ machine.os # "win"
    BY <1>1, <2>2 DEF Build, kernel, windows
  <2>3. CASE ~b
    BY <1>1, <2>3 DEF Build, kernel, windows
  <2> QED
    BY <2>1, <2>2, <2>3
<1>2. CASE load
  <2>1. CASE loaded
    BY <1>2, <2>1 DEF load, Sh, kernel, windows
  <2>2. CASE ~loaded
    BY <1>2, <2>2 DEF load, Sh, Enter, windows
  <2> QED
    BY <2>1, <2>2
<1>3. CASE unload
  BY <1>3 DEF unload, Sh, windows
<1>4. CASE getlog
  BY <1>4 DEF getlog, Sh, kernel, windows
<1>5. ASSUME NEW b \in BOOLEAN, Sign(b) PROVE RunInv'
  BY <1>5 DEF Sign, Ps, kernel, windows
<1>6. CASE Setup_EventLog \/ sc_create \/ sc_create_fails
  BY <1>6 DEF Setup_EventLog, sc_create, sc_create_fails, Ps, kernel, windows
<1>7. CASE DriverEntry
  BY <1>7 DEF DriverEntry, Ps, Enter
<1>8. CASE Start_fails \/ Dump_Results
  BY <1>8 DEF Start_fails, Dump_Results, Ps, kernel, windows
<1>9. CASE Stop \/ sc_delete \/ sc_delete_fails
  BY <1>9 DEF Stop, sc_delete, sc_delete_fails, Ps, kernel, windows
<1>10. CASE Process \/ UNCHANGED vars
  BY <1>10 DEF Process, vars, kernel, windows, script
<1>11. CASE Deliver \/ Kill
  BY <1>11 DEF Deliver, Kill, windows, script, kernel
<1>12. CASE Reboot
  BY <1>12 DEF Reboot
<1>13. CASE Submit
  BY <1>13 DEF Submit
<1> QED
  BY <1>1, <1>2, <1>3, <1>4, <1>5, <1>6, <1>7, <1>8, <1>9, <1>10, <1>11, <1>12,
     <1>13 DEF Next, GetVmlatency

-----------------------------------------------------------------------------
\* What is left of s when d elements have been dropped from its beginning.
IsTailOf(r, s, d) ==
  /\ d \in Nat /\ Len(r) \in Nat /\ Len(s) = Len(r) + d
  /\ DOMAIN r = 1..Len(r) /\ DOMAIN s = 1..Len(s)
  /\ \A k \in 1..Len(r) : r[k] = s[k + d]

\* The ring buffer holds the end of what was written to it.
LEMMA KeepsSuffix ==
  ASSUME NEW S, NEW all \in Seq(S)
  PROVE  LET r == SubSeq(all, Max({1, Len(all) - LogSize + 1}), Len(all))
         IN  /\ r \in Seq(S) /\ Len(r) <= LogSize
             /\ \E d \in Nat : IsTailOf(r, all, d)
<1> DEFINE n == Len(all)
           x == n - LogSize + 1
           m == Max({1, x})
           r == SubSeq(all, m, n)
<1>1. LogSize \in Nat /\ n \in Nat /\ x \in Int
  BY ResultsAssumption
<1>2. m \in {1, x} /\ m >= 1 /\ m >= x
  <2> HIDE DEF x
  <2>1. \E y \in {1, x} : \A z \in {1, x} : y >= z
    <3>1. CASE x <= 1
      BY <1>1, <3>1
    <3>2. CASE x > 1
      BY <1>1, <3>2
    <3> QED
      BY <1>1, <3>1, <3>2
  <2> QED
    BY <1>1, <2>1 DEF Max
<1> HIDE DEF m
<1>3. m \in Nat /\ m <= n + 1
  BY <1>1, <1>2
<1>4. \A k \in m..n : all[k] \in S
  BY <1>1, <1>2, <1>3
<1>5. /\ r \in Seq(S) /\ Len(r) = n - m + 1
      /\ \A k \in 1..(n - m + 1) : r[k] = all[m + k - 1]
  <2>1. /\ r \in Seq(S) /\ Len(r) = IF m <= n THEN n - m + 1 ELSE 0
        /\ \A k \in 1..(n - m + 1) : r[k] = all[m + k - 1]
    BY <1>1, <1>3, <1>4, SubSeqProperties
  <2> QED
    BY <1>1, <1>3, <2>1
<1> HIDE DEF r
<1>6. m - 1 \in Nat /\ IsTailOf(r, all, m - 1)
  BY <1>1, <1>2, <1>3, <1>5 DEF IsTailOf
<1>7. Len(r) <= LogSize
  BY <1>1, <1>2, <1>5
<1> QED
  BY <1>5, <1>6, <1>7 DEF r, m

\* Dropping lines from the beginning leaves the loads marked.
LEMMA MarkedSuffix ==
  ASSUME NEW s, NEW r, NEW d \in Nat, IsTailOf(r, s, d), Marked(s)
  PROVE  Marked(r)
<1>1. ASSUME NEW k \in 1..(Len(r) - 1), r[k].load # r[k + 1].load
      PROVE  r[k + 1].kind \in {"brand", "error"}
  <2>1. r[k] = s[k + d] /\ r[k + 1] = s[(k + d) + 1] /\ k + d \in 1..(Len(s) - 1)
    BY DEF IsTailOf
  <2> QED
    BY <1>1, <2>1 DEF Marked
<1>2. ASSUME NEW k \in DOMAIN r, r[k].kind = "brand", r[k].odd
      PROVE  \E m \in DOMAIN r : k < m /\ r[m].kind = "error"
  <2>1. r[k] = s[k + d] /\ k + d \in DOMAIN s /\ k \in Nat
    BY DEF IsTailOf
  <2>2. PICK m \in DOMAIN s : k + d < m /\ s[m].kind = "error"
    BY <1>2, <2>1 DEF Marked
  <2>3. m - d \in DOMAIN r /\ k < m - d /\ r[m - d] = s[m]
    BY <2>1, <2>2 DEF IsTailOf
  <2> QED
    BY <2>2, <2>3
<1> QED
  BY <1>1, <1>2 DEF Marked

\* So does one more load.
LEMMA MarkedConcat ==
  ASSUME NEW S, NEW s \in Seq(S), Marked(s), NEW lines, PrintOK(lines),
         NEW c, IsConcat(c, s, lines), DOMAIN c = 1..Len(c)
  PROVE  Marked(c)
<1>0. /\ Len(s) \in Nat /\ DOMAIN s = 1..Len(s)
      /\ Len(lines) \in Nat /\ DOMAIN lines = 1..Len(lines) /\ Len(lines) >= 1
  BY DEF PrintOK
<1>1. ASSUME NEW k \in 1..(Len(c) - 1), c[k].load # c[k + 1].load
      PROVE  c[k + 1].kind \in {"brand", "error"}
  <2>1. CASE k + 1 <= Len(s)
    <3>1. c[k] = s[k] /\ c[k + 1] = s[k + 1] /\ k \in 1..(Len(s) - 1)
      BY <1>0, <2>1 DEF IsConcat
    <3> QED
      BY <1>1, <3>1 DEF Marked
  <2>2. CASE k = Len(s)
    <3>1. c[k + 1] = lines[1]
      BY <1>0, <2>2 DEF IsConcat
    <3> QED
      BY <3>1 DEF PrintOK
  <2>3. CASE k > Len(s)
    <3>1. /\ k - Len(s) \in DOMAIN lines /\ c[k] = lines[k - Len(s)]
          /\ k + 1 - Len(s) \in DOMAIN lines /\ c[k + 1] = lines[k + 1 - Len(s)]
      BY <1>0, <2>3 DEF IsConcat
    <3> QED
      BY <1>1, <3>1 DEF PrintOK
  <2>4. k \in Int /\ Len(s) \in Int
    BY <1>0 DEF IsConcat
  <2>5. k + 1 <= Len(s) \/ k = Len(s) \/ k > Len(s)
    BY <2>4
  <2> QED
    BY <2>1, <2>2, <2>3, <2>5
<1>2. ASSUME NEW k \in DOMAIN c, c[k].kind = "brand", c[k].odd
      PROVE  \E m \in DOMAIN c : k < m /\ c[m].kind = "error"
  <2>1. CASE k <= Len(s)
    <3>1. k \in DOMAIN s /\ c[k] = s[k]
      BY <1>0, <2>1 DEF IsConcat
    <3>2. PICK m \in DOMAIN s : k < m /\ s[m].kind = "error"
      BY <1>2, <3>1 DEF Marked
    <3>3. m \in DOMAIN c /\ c[m] = s[m]
      BY <1>0, <3>2 DEF IsConcat
    <3> QED
      BY <3>2, <3>3
  <2>2. CASE k > Len(s)
    <3>1. k - Len(s) \in 1..Len(lines) /\ c[k] = lines[k - Len(s)]
      BY <1>0, <2>2 DEF IsConcat
    <3>2. k - Len(s) = 1
      BY <1>0, <1>2, <3>1 DEF PrintOK
    <3>3. PICK m \in 2..Len(lines) : lines[m].kind = "error"
      BY <1>2, <3>1, <3>2 DEF PrintOK
    <3>4. m + Len(s) \in DOMAIN c /\ k < m + Len(s) /\ c[m + Len(s)] = lines[m]
      BY <1>0, <3>1, <3>2, <3>3 DEF IsConcat
    <3> QED
      BY <3>3, <3>4
  <2> QED
    BY <1>0, <2>1, <2>2
<1> QED
  BY <1>1, <1>2 DEF Marked

\* Windows logs the lines of a load in their order.
LEMMA LoggedShape ==
  ASSUME NEW lines, PrintOK(lines), NEW q \in Logged(lines)
  PROVE  /\ q \in Seq(DriverLines) /\ OneLoad(q)
         /\ \A k \in DOMAIN q : q[k].load = loads + 1
<1>1. PICK ks \in SUBSET DOMAIN lines : q = Select(lines, ks)
  BY DEF Logged
<1>2. lines \in Seq(DriverLines)
  BY DEF PrintOK
<1>3. /\ q \in Seq(DriverLines)
      /\ \E p \in [DOMAIN q -> ks] :
           /\ \A a \in DOMAIN q : q[a] = lines[p[a]]
           /\ \A a, b \in DOMAIN q : a < b => p[a] < p[b]
  BY <1>1, <1>2, SelectIncreasing
<1>4. PICK p \in [DOMAIN q -> ks] :
           /\ \A a \in DOMAIN q : q[a] = lines[p[a]]
           /\ \A a, b \in DOMAIN q : a < b => p[a] < p[b]
  BY <1>3
<1>5. \A a \in DOMAIN q : p[a] \in DOMAIN lines
  BY <1>1, <1>4
<1>6. \A k \in DOMAIN q : q[k].load = loads + 1
  BY <1>4, <1>5 DEF PrintOK
<1>7. OneLoad(q)
  <2> SUFFICES ASSUME NEW a \in DOMAIN q, NEW b \in DOMAIN q, a < b
               PROVE  q[a].load = q[b].load /\ Rank[q[a].kind] <= Rank[q[b].kind]
    BY DEF OneLoad
  <2>1. p[a] < p[b] /\ q[a] = lines[p[a]] /\ q[b] = lines[p[b]]
    BY <1>4
  <2>2. Rank[lines[p[a]].kind] <= Rank[lines[p[b]].kind]
    BY <1>5, <2>1 DEF PrintOK
  <2> QED
    BY <1>6, <2>1, <2>2
<1> QED
  BY <1>3, <1>6, <1>7

\* Dump-Results selects the lines of the last load.
LEMMA DumpShape ==
  ASSUME NEW S, NEW s \in Seq(S), Ordered(s), NEW n \in Int,
         \A k \in DOMAIN s : s[k].load \in Int /\ s[k].load <= n,
         NEW ks \in SUBSET DOMAIN s, \A k \in ks : s[k].load >= n,
         NEW f, f = Select(s, ks)
  PROVE  f \in Seq(S) /\ OneLoad(f)
<1>1. /\ f \in Seq(S)
      /\ \E p \in [DOMAIN f -> ks] :
           /\ \A a \in DOMAIN f : f[a] = s[p[a]]
           /\ \A a, b \in DOMAIN f : a < b => p[a] < p[b]
  BY SelectIncreasing
<1>2. PICK p \in [DOMAIN f -> ks] :
           /\ \A a \in DOMAIN f : f[a] = s[p[a]]
           /\ \A a, b \in DOMAIN f : a < b => p[a] < p[b]
  BY <1>1
<1>3. \A a \in DOMAIN f : p[a] \in DOMAIN s /\ f[a].load = n
  BY <1>2
<1>4. OneLoad(f)
  <2> SUFFICES ASSUME NEW a \in DOMAIN f, NEW b \in DOMAIN f, a < b
               PROVE  f[a].load = f[b].load /\ Rank[f[a].kind] <= Rank[f[b].kind]
    BY DEF OneLoad
  <2>1. p[a] < p[b] /\ f[a] = s[p[a]] /\ f[b] = s[p[b]]
    BY <1>2
  <2>2. Before(f[a], f[b])
    BY <1>3, <2>1 DEF Ordered
  <2>3. f[a].load = n /\ f[b].load = n /\ ~(n < n)
    BY <1>3
  <2> QED
    BY <2>2, <2>3 DEF Before
<1> QED
  BY <1>1, <1>4

-----------------------------------------------------------------------------
\* A step that leaves alone what the driver has printed.
Quiet == UNCHANGED <<machine, loads, log, queue, file>>

\* All the steps but seven are such steps.
LEMMA QuietSteps ==
  ASSUME [Next]_vars
  PROVE  \/ Quiet \/ load \/ getlog \/ DriverEntry \/ Dump_Results
         \/ Deliver \/ Reboot \/ Submit
<1> USE DEF Quiet, kernel, windows, script
<1>1. ASSUME NEW b \in BOOLEAN, Build(b) \/ Sign(b) PROVE Quiet
  BY <1>1 DEF Build, Sign, Ps
<1>2. CASE unload
  BY <1>2 DEF unload, Sh
<1>3. CASE Setup_EventLog \/ sc_create \/ sc_create_fails \/ Start_fails
  BY <1>3 DEF Setup_EventLog, sc_create, sc_create_fails, Start_fails, Ps
<1>4. CASE Stop \/ sc_delete \/ sc_delete_fails
  BY <1>4 DEF Stop, sc_delete, sc_delete_fails, Ps
<1>5. CASE Process \/ Kill \/ UNCHANGED vars
  BY <1>5 DEF Process, Kill, vars
<1> QED
  BY <1>1, <1>2, <1>3, <1>4, <1>5 DEF Next, GetVmlatency

\* More loads have printed more.
LEMMA PrintedByGrows ==
  ASSUME NEW n \in Int
  PROVE  PrintedBy(n) \subseteq PrintedBy(n + 1) /\ PrintedBy(n) \subseteq DriverLines
BY DEF PrintedBy, DriverLines, Lines

\* The lines of a load are printed by it.
LEMMA NewLines ==
  ASSUME NEW n \in Int, NEW s \in Seq(DriverLines),
         \A k \in DOMAIN s : s[k].load = n
  PROVE  s \in Seq(PrintedBy(n))
<1>1. \A k \in 1..Len(s) : s[k] \in PrintedBy(n)
  BY DEF PrintedBy
<1> QED
  BY <1>1

\* Initially there are no lines.
LEMMA LinesInit == Init => LinesInv
BY ResultsAssumption DEF Init, LinesInv

\* Every step adds only lines of the driver to the log, the queue or the file.
LEMMA LinesStep == RunInv /\ LinesInv /\ [Next]_vars => LinesInv'
<1> SUFFICES ASSUME RunInv, LinesInv, [Next]_vars PROVE LinesInv'
  OBVIOUS
<1>0. /\ loads \in Nat /\ loads + 1 \in 0..(MaxLoads + LoadsPerRun)
      /\ machine.brand \in Brands
  BY ResultsAssumption DEF RunInv
<1>1. CASE Quiet
  BY <1>1 DEF Quiet, LinesInv
<1>2. CASE load
  <2>1. CASE loaded
    BY <1>2, <2>1 DEF load, Sh, kernel, LinesInv
  <2>2. CASE ~loaded
    <3>1. PICK lines \in Printed : log' = vmlatency_printm(lines)
      BY <1>2, <2>2 DEF load
    <3>2. /\ loads' = loads + 1 /\ queue' = queue /\ file' = file
          /\ machine' = machine
      BY <1>2, <2>2 DEF load, Sh, Enter
    <3>3. PrintOK(lines)
      BY <1>0, PrintedShape
    <3>4. lines \in Seq(PrintedBy(loads + 1))
      BY <1>0, <3>3, NewLines DEF PrintOK
    <3>5. log \in Seq(PrintedBy(loads + 1)) /\ queue \in Seq(PrintedBy(loads + 1))
      BY <1>0, PrintedByGrows, SeqMonotonic DEF LinesInv
    <3>6. log \o lines \in Seq(PrintedBy(loads + 1))
      BY <3>4, <3>5, ConcatShape
    <3>7. log' \in Seq(PrintedBy(loads + 1)) /\ Len(log') <= LogSize
      BY <3>1, <3>6, KeepsSuffix DEF vmlatency_printm
    <3> QED
      BY <3>2, <3>5, <3>7 DEF LinesInv
  <2> QED
    BY <2>1, <2>2
<1>3. CASE getlog
  <2>1. log \in Seq(DriverLines)
    BY <1>0, PrintedByGrows, SeqMonotonic DEF LinesInv
  <2> QED
    BY <1>3, <2>1 DEF getlog, Sh, kernel, LinesInv
<1>4. CASE DriverEntry
  <2>0. PICK lines \in Printed : \E q \in Logged(lines) : queue' = queue \o q
    BY <1>4 DEF DriverEntry
  <2>1. PICK q \in Logged(lines) : queue' = queue \o q
    BY <2>0
  <2>2. /\ loads' = loads + 1 /\ log' = log /\ file' = file
        /\ machine' = machine /\ machine.os = "win"
    BY <1>4 DEF DriverEntry, Ps, Enter
  <2>3. PrintOK(lines)
    BY <1>0, PrintedShape
  <2>4. q \in Seq(DriverLines) /\ \A k \in DOMAIN q : q[k].load = loads + 1
    BY <2>1, <2>3, LoggedShape
  <2>5. q \in Seq(PrintedBy(loads + 1))
    BY <1>0, <2>4, NewLines
  <2>6. log \in Seq(PrintedBy(loads + 1)) /\ queue \in Seq(PrintedBy(loads + 1))
    BY <1>0, PrintedByGrows, SeqMonotonic DEF LinesInv
  <2>7. queue' \in Seq(PrintedBy(loads + 1))
    BY <2>1, <2>5, <2>6, ConcatShape
  <2> QED
    BY <2>2, <2>6, <2>7 DEF LinesInv
<1>5. CASE Dump_Results
  <2>1. log \in Seq(DriverLines)
    BY <1>0, PrintedByGrows, SeqMonotonic DEF LinesInv
  <2> DEFINE ks == {k \in DOMAIN log : log[k].load >= start}
  <2>2. file' = Select(log, ks) /\ ks \in SUBSET DOMAIN log
    BY <1>5 DEF Dump_Results
  <2> HIDE DEF ks
  <2>3. file' \in Seq(DriverLines)
    BY <2>1, <2>2, SelectIncreasing
  <2> QED
    BY <1>5, <2>3 DEF Dump_Results, Ps, kernel, LinesInv
<1>6. CASE Deliver
  <2>1. /\ queue # <<>> /\ log' = Append(log, Head(queue)) /\ queue' = Tail(queue)
        /\ loads' = loads /\ file' = file /\ machine' = machine
    BY <1>6 DEF Deliver, script
  <2>2. Head(queue) \in PrintedBy(loads) /\ queue' \in Seq(PrintedBy(loads))
    BY <2>1, HeadTailProperties DEF LinesInv
  <2>3. log' \in Seq(PrintedBy(loads))
    BY <2>1, <2>2, AppendProperties DEF LinesInv
  <2>4. machine.os = "win"
    BY <2>1 DEF RunInv, ShLoop
  <2> QED
    BY <2>1, <2>2, <2>3, <2>4 DEF LinesInv
<1>7. CASE Reboot
  BY <1>7, ResultsAssumption DEF Reboot, LinesInv
<1>8. CASE Submit
  BY <1>8, ResultsAssumption DEF Submit, LinesInv
<1> QED
  BY <1>1, <1>2, <1>3, <1>4, <1>5, <1>6, <1>7, <1>8, QuietSteps

-----------------------------------------------------------------------------
\* Lines of a new load come after all earlier ones.
LEMMA NewAfterOld ==
  ASSUME NEW n \in Int, NEW s \in Seq(PrintedBy(n)), NEW t,
         \A k \in DOMAIN t : t[k].load = n + 1
  PROVE  AllBefore(s, t)
<1>1. \A a \in DOMAIN s : s[a].load \in Int /\ s[a].load <= n
  BY DEF PrintedBy, DriverLines, Lines
<1> QED
  BY <1>1 DEF AllBefore, Before

\* A sequence in order stays so when lines that come later are added.
LEMMA OrderedConcat ==
  ASSUME NEW S, NEW s \in Seq(S), NEW t \in Seq(S), Ordered(s), Ordered(t),
         AllBefore(s, t), NEW c, c = s \o t
  PROVE  Ordered(c)
<1>1. c \in Seq(S) /\ IsConcat(c, s, t)
  BY ConcatShape
<1>2. Len(s) \in Nat /\ DOMAIN s = 1..Len(s) /\ DOMAIN t = 1..Len(t) /\ DOMAIN c = 1..Len(c)
  BY <1>1
<1> SUFFICES ASSUME NEW a \in DOMAIN c, NEW b \in DOMAIN c, a < b
             PROVE  Before(c[a], c[b])
  BY DEF Ordered
<1>3. a \in Int /\ b \in Int
  BY <1>2
<1>4. CASE b <= Len(s)
  <2>1. a \in DOMAIN s /\ b \in DOMAIN s /\ c[a] = s[a] /\ c[b] = s[b]
    BY <1>1, <1>2, <1>3, <1>4 DEF IsConcat
  <2> QED
    BY <2>1 DEF Ordered
<1>5. CASE a <= Len(s) /\ b > Len(s)
  <2>1. /\ a \in DOMAIN s /\ c[a] = s[a]
        /\ b - Len(s) \in DOMAIN t /\ c[b] = t[b - Len(s)]
    BY <1>1, <1>2, <1>3, <1>5 DEF IsConcat
  <2> QED
    BY <2>1 DEF AllBefore
<1>6. CASE a > Len(s)
  <2>1. /\ a - Len(s) \in DOMAIN t /\ c[a] = t[a - Len(s)]
        /\ b - Len(s) \in DOMAIN t /\ c[b] = t[b - Len(s)]
        /\ a - Len(s) < b - Len(s)
    BY <1>1, <1>2, <1>3, <1>6 DEF IsConcat
  <2> QED
    BY <2>1 DEF Ordered
<1>7. b <= Len(s) \/ (a <= Len(s) /\ b > Len(s)) \/ a > Len(s)
  BY <1>2, <1>3
<1> QED
  BY <1>4, <1>5, <1>6, <1>7

\* A line that moves from the head of the queue to the end of the log keeps
\* its place.
LEMMA DeliverOrdered ==
  ASSUME NEW S, NEW s \in Seq(S), NEW t \in Seq(S), t # <<>>,
         Ordered(s), Ordered(t), AllBefore(s, t),
         NEW s1, s1 = Append(s, Head(t)), NEW t1, t1 = Tail(t)
  PROVE  Ordered(s1) /\ Ordered(t1) /\ AllBefore(s1, t1)
<1>1. /\ Len(s) \in Nat /\ DOMAIN s = 1..Len(s)
      /\ Len(t) \in Nat \ {0} /\ DOMAIN t = 1..Len(t)
      /\ Head(t) = t[1] /\ Head(t) \in S
  OBVIOUS
<1>2. /\ DOMAIN s1 = 1..(Len(s) + 1) /\ s1[Len(s) + 1] = t[1]
      /\ \A k \in 1..Len(s) : s1[k] = s[k]
  BY <1>1
<1>3. DOMAIN t1 = 1..(Len(t) - 1) /\ \A k \in 1..(Len(t) - 1) : t1[k] = t[k + 1]
  BY <1>1
<1>4. Ordered(s1)
  <2> SUFFICES ASSUME NEW a \in DOMAIN s1, NEW b \in DOMAIN s1, a < b
               PROVE  Before(s1[a], s1[b])
    BY DEF Ordered
  <2>1. CASE b <= Len(s)
    BY <1>1, <1>2, <2>1 DEF Ordered
  <2>2. CASE b = Len(s) + 1
    <3>1. a \in DOMAIN s /\ s1[a] = s[a] /\ s1[b] = t[1] /\ 1 \in DOMAIN t
      BY <1>1, <1>2, <2>2
    <3> QED
      BY <3>1 DEF AllBefore
  <2> QED
    BY <1>1, <1>2, <2>1, <2>2
<1>5. Ordered(t1)
  BY <1>1, <1>3 DEF Ordered
<1>6. AllBefore(s1, t1)
  <2> SUFFICES ASSUME NEW a \in DOMAIN s1, NEW b \in DOMAIN t1
               PROVE  Before(s1[a], t1[b])
    BY DEF AllBefore
  <2>0. b + 1 \in DOMAIN t /\ t1[b] = t[b + 1] /\ 1 < b + 1 /\ 1 \in DOMAIN t
    BY <1>1, <1>3
  <2>1. CASE a <= Len(s)
    BY <1>1, <1>2, <2>0, <2>1 DEF AllBefore
  <2>2. CASE a = Len(s) + 1
    BY <1>2, <2>0, <2>2 DEF Ordered
  <2> QED
    BY <1>1, <1>2, <2>1, <2>2
<1> QED
  BY <1>4, <1>5, <1>6

\* Initially there is nothing to put in order.
LEMMA OrderInit == Init => OrderInv
BY DEF Init, OrderInv, Ordered, AllBefore, Marked

\* Every step keeps the loads in order (Windows) or marked (the others).
LEMMA OrderStep == RunInv /\ LinesInv /\ OrderInv /\ [Next]_vars => OrderInv'
<1> SUFFICES ASSUME RunInv, LinesInv, OrderInv, [Next]_vars PROVE OrderInv'
  OBVIOUS
<1>0. /\ loads \in Nat /\ loads + 1 \in 0..(MaxLoads + LoadsPerRun)
      /\ machine.brand \in Brands
  BY ResultsAssumption DEF RunInv
<1>1. CASE Quiet
  BY <1>1 DEF Quiet, OrderInv
<1>2. CASE load
  <2>1. CASE loaded
    BY <1>2, <2>1 DEF load, Sh, kernel, OrderInv
  <2>2. CASE ~loaded
    <3>1. PICK lines \in Printed : log' = vmlatency_printm(lines)
      BY <1>2, <2>2 DEF load
    <3>2. file' = file /\ machine' = machine /\ machine.os # "win"
      BY <1>2, <2>2 DEF load, Sh
    <3>3. PrintOK(lines)
      BY <1>0, PrintedShape
    <3>4. log \in Seq(DriverLines) /\ lines \in Seq(DriverLines)
      BY <1>0, <3>3, PrintedByGrows, SeqMonotonic DEF LinesInv, PrintOK
    <3> DEFINE all == log \o lines
    <3>5. all \in Seq(DriverLines) /\ IsConcat(all, log, lines)
      BY <3>4, ConcatShape
    <3>6. PICK d \in Nat : IsTailOf(log', all, d)
      BY <3>1, <3>5, KeepsSuffix DEF vmlatency_printm
    <3> HIDE DEF all
    <3>7. DOMAIN all = 1..Len(all)
      BY <3>5
    <3>8. Marked(all)
      BY <3>2, <3>3, <3>4, <3>5, <3>7, MarkedConcat DEF OrderInv
    <3>9. Marked(log')
      BY <3>6, <3>8, MarkedSuffix
    <3> QED
      BY <3>2, <3>9 DEF OrderInv
  <2> QED
    BY <2>1, <2>2
<1>3. CASE getlog
  BY <1>3 DEF getlog, Sh, kernel, OrderInv
<1>4. CASE DriverEntry
  <2>0. PICK lines \in Printed : \E q \in Logged(lines) : queue' = queue \o q
    BY <1>4 DEF DriverEntry
  <2>1. PICK q \in Logged(lines) : queue' = queue \o q
    BY <2>0
  <2>2. log' = log /\ file' = file /\ machine' = machine /\ machine.os = "win"
    BY <1>4 DEF DriverEntry, Ps
  <2>3. PrintOK(lines)
    BY <1>0, PrintedShape
  <2>4. /\ q \in Seq(DriverLines) /\ OneLoad(q)
        /\ \A k \in DOMAIN q : q[k].load = loads + 1
    BY <2>1, <2>3, LoggedShape
  <2>5. Ordered(q)
    BY <2>4 DEF OneLoad, Ordered, Before
  <2>6. AllBefore(log, q) /\ AllBefore(queue, q)
    BY <1>0, <2>4, NewAfterOld DEF LinesInv
  <2>7. queue \in Seq(DriverLines)
    BY <1>0, PrintedByGrows, SeqMonotonic DEF LinesInv
  <2>8. Ordered(queue')
    BY <2>1, <2>2, <2>4, <2>5, <2>6, <2>7, OrderedConcat DEF OrderInv
  <2>9. AllBefore(log, queue')
    <3>1. IsConcat(queue', queue, q) /\ queue' \in Seq(DriverLines)
      BY <2>1, <2>4, <2>7, ConcatShape
    <3>2. \A b \in DOMAIN queue' : \/ b \in DOMAIN queue /\ queue'[b] = queue[b]
                                   \/ b - Len(queue) \in DOMAIN q /\ queue'[b] = q[b - Len(queue)]
      BY <2>4, <2>7, <3>1 DEF IsConcat
    <3> QED
      BY <2>2, <2>6, <3>2 DEF OrderInv, AllBefore
  <2> QED
    BY <2>2, <2>8, <2>9 DEF OrderInv
<1>5. CASE Dump_Results
  <2> DEFINE ks == {k \in DOMAIN log : log[k].load >= start}
  <2>1. file' = Select(log, ks) /\ ks \in SUBSET DOMAIN log
    BY <1>5 DEF Dump_Results
  <2>2. start = loads /\ machine.os = "win" /\ machine' = machine /\ log' = log /\ queue' = queue
    BY <1>5 DEF Dump_Results, Ps, kernel, RunInv, PsRun
  <2>3. \A k \in DOMAIN log : log[k].load \in Int /\ log[k].load <= loads
    BY <1>0 DEF LinesInv, PrintedBy, DriverLines, Lines
  <2>4. \A k \in ks : log[k].load >= loads
    BY <2>2
  <2> HIDE DEF ks
  <2>5. OneLoad(file')
    BY <1>0, <2>1, <2>2, <2>3, <2>4, DumpShape DEF LinesInv, OrderInv
  <2> QED
    BY <2>2, <2>5 DEF OrderInv
<1>6. CASE Deliver
  <2>1. /\ queue # <<>> /\ log' = Append(log, Head(queue)) /\ queue' = Tail(queue)
        /\ file' = file /\ machine' = machine
    BY <1>6 DEF Deliver, script
  <2>2. machine.os = "win"
    BY <2>1 DEF RunInv, ShLoop
  <2>3. Ordered(log') /\ Ordered(queue') /\ AllBefore(log', queue')
    BY <2>1, <2>2, DeliverOrdered DEF LinesInv, OrderInv
  <2> QED
    BY <2>1, <2>2, <2>3 DEF OrderInv
<1>7. CASE Reboot
  BY <1>7 DEF Reboot, OrderInv, Ordered, AllBefore, Marked
<1>8. CASE Submit
  BY <1>8 DEF Submit, OrderInv, Ordered, AllBefore, Marked
<1> QED
  BY <1>1, <1>2, <1>3, <1>4, <1>5, <1>6, <1>7, <1>8, QuietSteps

-----------------------------------------------------------------------------
(***************************************************************************)
(* The file and the log.                                                   *)
(***************************************************************************)

\* The four parts together are inductive.
CollectInv == FlagInv /\ RunInv /\ LinesInv /\ OrderInv

\* They hold in every state.
LEMMA CollectInvariant == Spec => []CollectInv
<1>1. Init => CollectInv
  BY FlagInit, RunInit, LinesInit, OrderInit DEF CollectInv
<1>2. CollectInv /\ [Next]_vars => CollectInv'
  BY FlagStep, RunStep, LinesStep, OrderStep DEF CollectInv
<1> QED
  BY <1>1, <1>2, PTL DEF Spec

\* Whenever a round begins and however long it takes, within the limits of
\* the counter, the latency that reaches the log is one of a VM entry.
THEOREM PrintedLatencyWithinCost == Spec => []LatencyWithinCost
<1>1. CollectInv => LatencyWithinCost
  <2> SUFFICES ASSUME CollectInv, NEW l \in Range(log \o queue), l.kind = "latency"
               PROVE  MinCost <= l.value[1] /\ l.value[1] <= MaxCost
    BY DEF LatencyWithinCost
  <2>1. log \o queue \in Seq(PrintedBy(loads))
    BY ConcatShape DEF CollectInv, LinesInv
  <2>2. l \in PrintedBy(loads)
    BY <2>1, RangeOfSeq
  <2> QED
    BY <2>2, ResultsAssumption DEF PrintedBy, DriverLines
<1> QED
  BY <1>1, CollectInvariant, PTL

\* Whatever is killed, lost, late or rebooted, GetVmlatency.ps1 writes a file
\* of one load, in its order.
THEOREM WindowsFileOfOneLoad == Spec => []WindowsFileIsOneLoad
<1>1. CollectInv => WindowsFileIsOneLoad
  BY DEF CollectInv, OrderInv, OneLoad, WindowsFileIsOneLoad
<1> QED
  BY <1>1, CollectInvariant, PTL

-----------------------------------------------------------------------------
(***************************************************************************)
(* What the scripts leave behind.                                          *)
(***************************************************************************)

\* What GetVmlatency.ps1 has set up when it is about to take a step.
SetUp ==
  /\ pc \in {"idle", "sign", "setup"} => service = "absent" /\ ~key /\ ~loaded
  /\ pc = "create" => service = "absent" /\ ~loaded
  /\ pc \in {"start", "delete"} => ~loaded
  /\ pc \notin {"load", "unload", "getlog"}

\* What get_vmlatency.sh has set up.
ShSetUp ==
  /\ service = "absent" /\ ~key
  /\ pc \in {"idle", "load", "getlog"}  => ~loaded
  /\ pc \in {"idle", "load", "unload", "getlog"}

\* As long as nothing excuses it, a script undoes what it has done.
TidyInv == ~excused => IF machine.os = "win" THEN SetUp ELSE ShSetUp

\* Initially nothing is set up.
LEMMA TidyInit == Init => TidyInv
BY DEF Init, TidyInv, SetUp, ShSetUp

\* Every step of the scripts, of the kernel and of the user keeps it that way.
LEMMA TidyStep == TidyInv /\ [Next]_vars => TidyInv'
<1> SUFFICES ASSUME TidyInv, [Next]_vars PROVE TidyInv'
  OBVIOUS
<1> USE DEF TidyInv, SetUp, ShSetUp
<1>1. ASSUME NEW b \in BOOLEAN, Build(b) PROVE TidyInv'
  BY <1>1 DEF Build, kernel, windows
<1>2. CASE load \/ unload \/ getlog
  BY <1>2 DEF load, unload, getlog, Sh, Enter, kernel, windows
<1>3. ASSUME NEW b \in BOOLEAN, Sign(b) PROVE TidyInv'
  BY <1>3 DEF Sign, Ps, kernel, windows
<1>4. CASE Setup_EventLog \/ sc_create \/ sc_create_fails
  BY <1>4 DEF Setup_EventLog, sc_create, sc_create_fails, Ps, kernel, windows
<1>5. CASE DriverEntry \/ Start_fails \/ Dump_Results
  BY <1>5 DEF DriverEntry, Start_fails, Dump_Results, Ps, kernel, windows
<1>6. CASE Stop \/ sc_delete \/ sc_delete_fails
  BY <1>6 DEF Stop, sc_delete, sc_delete_fails, Ps, kernel, windows
<1>7. CASE Process \/ UNCHANGED vars
  BY <1>7 DEF Process, vars, kernel, windows, script
<1>8. CASE Deliver \/ Kill
  BY <1>8 DEF Deliver, Kill, windows, script, kernel
<1>9. CASE Reboot
  BY <1>9 DEF Reboot
<1>10. CASE Submit
  BY <1>10 DEF Submit
<1> QED
  BY <1>1, <1>2, <1>3, <1>4, <1>5, <1>6, <1>7, <1>8, <1>9, <1>10
     DEF Next, GetVmlatency

\* The driver, the service and the key are left behind only by a script that
\* was killed or that sc.exe refused.
THEOREM OnlyExcusedLeftovers == Spec => []LeftoversExcused
<1>1. TidyInv => LeftoversExcused
  BY DEF TidyInv, SetUp, ShSetUp, LeftoversExcused
<1> QED
  BY <1>1, TidyInit, TidyStep, PTL DEF Spec

=============================================================================
