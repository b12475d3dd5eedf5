----------------------------- MODULE MCResults -----------------------------
(***************************************************************************)
(* Instance of Results for TLC.                                            *)
(***************************************************************************)
EXTENDS Results

\* The microarchitectures of process-data.py, in the order of its list.
AllArchitectures ==
  <<"Merom", "Penryn", "Nehalem", "Westmere", "Sandy Bridge", "Ivy Bridge",
    "Haswell", "Broadwell", "Airmont", "Skylake", "Kaby Lake">>

\* Its assertion cannot fail: name2uarch() returns only those.
ASSUME AssertionHolds ==
  Range(AllArchitectures) = UNION {Range(Uarchs[f]) : f \in DOMAIN Uarchs}

\* Two of them are enough for a complete and an incomplete table.
TwoArchitectures == <<"Skylake", "Kaby Lake">>

Skylake == <<"Core", "i6000">>
KabyLake == <<"Core", "i7000">>
CoffeeLake == <<"Core", "i8000">>   \* Not in name2uarch().

\* A file of one load that was added to results/ earlier.
OneLoad(brand, v, w) ==
  LET line(k, x) == [kind |-> k, value |-> x, load |-> 0, odd |-> FALSE]
  IN  <<line("brand", brand), line("msr", <<>>), line("latency", <<v>>),
        line("latency", <<w>>)>>

TwoBrands == {Skylake, CoffeeLake}
Files == {OneLoad(KabyLake, 1, 1), OneLoad(Skylake, 10, 10),
          OneLoad(Skylake, 9, 13)}

=============================================================================
