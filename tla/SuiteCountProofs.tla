-------------------------- MODULE SuiteCountProofs ---------------------------
(***************************************************************************)
(* The counters that outlive a reset, for every list of tests with the     *)
(* suite's reset tests in it, every choice of the user's and any number of *)
(* hangs: the summary of a first run counts every test once.               *)
(***************************************************************************)
EXTENDS SuiteProofs, FiniteSetTheorems

-----------------------------------------------------------------------------
(* The counters. Where the reset tests that are not left out have written  *)
(* their flags, the counters are those of the tests before the place the   *)
(* run has come to.                                                        *)

\* The modules whose tests are counted where there are no legacy tests. The DA
\* module runs nothing when another flag than that of rme032 is the last.
DaReached == 32 \notin SkipTests \/ RmeResets \subseteq SkipTests \/ "rme" \in SkipModules
Counted   == {m \in Modules \ SkipModules : m # "legacy" /\ (m = "da" => DaReached)}

\* The call that resets the machine does not come back.
FirstHalf(m, i) == Calls[m][i] \in RmeResets \ SkipTests /\ i = Resume("rme", Calls[m][i]) - 1

\* The tests that have come back before the n-th call of m, and those that have
\* done so twice.
Before(m, n) ==
  {t \in Tests : \E e \in Counted : \E i \in 1 .. Len(Calls[e]) :
     Calls[e][i] = t /\ ~FirstHalf(e, i) /\ (e \in Earlier[m] \/ (e = m /\ i < n))}
Twice(m, n) ==
  {t \in RmeResets \cap SkipTests : "rme" \in Counted /\ (m = "rme" => Resume("rme", t) < n)}

\* The counters c are right for the outcomes h of the tests in B, with those in D
\* counted once more.
Tally(c, h, B, D) ==
  /\ IsFiniteSet(B) /\ IsFiniteSet(D) /\ c \in [Counters -> Nat]
  /\ c["total"] = Cardinality(B) + Cardinality(D)
  /\ c["pass"] = Cardinality({t \in B : h[t] = "PASS"})
  /\ c["fail"] = Cardinality({t \in B : h[t] = "FAIL"})
  /\ \A t \in B : h[t] # "NONE"

\* The flag is of a test that was not left out, and once the module is behind
\* such a test the flag is not of an earlier one.
OrderInv ==
  /\ flag \in ResetTests => flag \notin SkipTests
  /\ PEsAnswer /\ "rme" \notin SkipModules =>
       \A t \in RmeResets \ SkipTests :
         mod \in {"legacy", "gic", "smmu", "da"} \/ (mod = "rme" /\ k >= Resume("rme", t))
           => Rank(flag) >= Resume("rme", t)
  /\ \A t \in Tests \cap SkipTests : hist[t] \in {"NONE", "SKIP"}

\* The runs CountedOnce speaks of.
Plain    == run = 1 /\ ~aborted /\ ~torn /\ ~LegacyTz /\ PEsAnswer
Resuming == mod = "rme" /\ flag \in RmeResets /\ k = Resume("rme", flag)
Bumped(c) == [c EXCEPT !["total"] = @ + 1]

\* The counters are right for the place, but for the call that restores them;
\* what it restores are those at the call that saved them.
CountInv ==
  Plain =>
    /\ \A t \in Tests : hist[t] # "NONE" => t \in Before("end", 0)
    /\ mod \in Modules /\ k \in 1 .. Len(Calls[mod]) => mod \in Counted
    /\ mod = "rme" /\ k = 0 => counter = Zero
    /\ (mod # "rme" \/ k > 0) /\ ~Resuming => Tally(counter, hist, Before(mod, k), Twice(mod, k))
    /\ flag \in RmeResets =>
         \E c : /\ saved = Bumped(c)
                /\ Tally(c, hist, Before("rme", Resume("rme", flag) - 1), Twice("rme", Resume("rme", flag) - 1))

-----------------------------------------------------------------------------
(* Counting.                                                               *)
LEMMA TallyZero ==
  ASSUME NEW h
  PROVE  Tally(Zero, h, {}, {})
<1>1. {t \in {} : h[t] = "PASS"} = {} /\ {t \in {} : h[t] = "FAIL"} = {}  OBVIOUS
<1>2. Zero \in [Counters -> Nat] /\ Zero["total"] = 0 /\ Zero["pass"] = 0 /\ Zero["fail"] = 0
  BY DEF Zero, Counters
<1> QED  BY <1>1, <1>2, FS_EmptySet DEF Tally

\* Only the outcomes of the tests counted matter.
LEMMA TallySame ==
  ASSUME NEW c, NEW h, NEW g, NEW B, NEW D, Tally(c, h, B, D), \A t \in B : g[t] = h[t]
  PROVE  Tally(c, g, B, D)
<1>1. {t \in B : g[t] = "PASS"} = {t \in B : h[t] = "PASS"} /\ {t \in B : g[t] = "FAIL"} = {t \in B : h[t] = "FAIL"}
  OBVIOUS
<1> QED  BY Zenon, <1>1 DEF Tally

\* Count, one counter at a time.
LEMMA CountFacts ==
  ASSUME NEW c \in [Counters -> Nat], NEW o
  PROVE  /\ Count(Bumped(c), o) \in [Counters -> Nat]
         /\ Count(Bumped(c), o)["total"] = c["total"] + 1
         /\ Count(Bumped(c), o)["pass"] = c["pass"] + (IF o = "PASS" THEN 1 ELSE 0)
         /\ Count(Bumped(c), o)["fail"] = c["fail"] + (IF o = "FAIL" THEN 1 ELSE 0)
<1>1. "total" \in Counters /\ "pass" \in Counters /\ "fail" \in Counters  BY DEF Counters
<1>2. /\ Bumped(c) \in [Counters -> Nat] /\ Bumped(c)["total"] = c["total"] + 1
      /\ Bumped(c)["pass"] = c["pass"] /\ Bumped(c)["fail"] = c["fail"]
  BY <1>1 DEF Bumped
<1> HIDE DEF Bumped
<1> QED  BY <1>1, <1>2 DEF Count

\* A test that was not counted comes back.
LEMMA CountStep ==
  ASSUME NEW T, NEW h \in [T -> Outcomes \cup {"NONE"}], NEW c, NEW B \in SUBSET T, NEW D,
         Tally(c, h, B, D), NEW t \in T, t \notin B, NEW o \in Outcomes
  PROVE  Tally(Count(Bumped(c), o), [h EXCEPT ![t] = o], B \cup {t}, D)
<1> DEFINE g == [h EXCEPT ![t] = o]
           Old(v) == {b \in B : h[b] = v}
           New(v) == {b \in B \cup {t} : g[b] = v}
<1>1. g[t] = o /\ \A b \in B : g[b] = h[b]  OBVIOUS
<1>3. IsFiniteSet(B) /\ IsFiniteSet(D) /\ c \in [Counters -> Nat]  BY DEF Tally
<1>4. ASSUME NEW v PROVE IsFiniteSet(Old(v))
  <2>1. Old(v) \in SUBSET B  OBVIOUS
  <2> HIDE DEF Old
  <2> QED  BY <1>3, <2>1, FS_Subset
<1>5. \A v : Cardinality(New(v)) = Cardinality(Old(v)) + (IF o = v THEN 1 ELSE 0)
  <2>1. SUFFICES ASSUME NEW v PROVE Cardinality(New(v)) = Cardinality(Old(v)) + (IF o = v THEN 1 ELSE 0)  OBVIOUS
  <2>2. Cardinality(Old(v)) \in Nat  BY ZenonT(30), <1>4, FS_CardinalityType
  <2>3. t \notin Old(v) /\ IsFiniteSet(Old(v))  BY <1>4
  <2>4. Cardinality(Old(v) \cup {t}) = Cardinality(Old(v)) + 1
    <3> HIDE DEF Old
    <3> QED  BY Zenon, <2>3, FS_AddElement
  <2>5. CASE o = v
    <3>1. New(v) = Old(v) \cup {t}  BY <1>1, <2>5
    <3> HIDE DEF Old, New
    <3> QED  BY <2>4, <2>5, <3>1
  <2>6. CASE o # v
    <3>1. New(v) = Old(v)  BY <1>1, <2>6
    <3> HIDE DEF Old, New
    <3> QED  BY <2>2, <2>6, <3>1
  <2> QED  BY <2>5, <2>6
<1>6. IsFiniteSet(B \cup {t}) /\ Cardinality(B \cup {t}) = Cardinality(B) + 1  BY <1>3, FS_AddElement
<1>7. Cardinality(B) \in Nat /\ Cardinality(D) \in Nat  BY <1>3, FS_CardinalityType
<1>8. \A b \in B \cup {t} : g[b] # "NONE"  BY <1>1 DEF Tally, Outcomes
<1>9. c["total"] = Cardinality(B) + Cardinality(D) /\ c["pass"] = Cardinality(Old("PASS")) /\ c["fail"] = Cardinality(Old("FAIL"))
  BY DEF Tally
<1> HIDE DEF g, Old
<1>10. Count(Bumped(c), o)["total"] = Cardinality(B \cup {t}) + Cardinality(D)
  BY <1>3, <1>6, <1>7, <1>9, CountFacts
<1>11. /\ Count(Bumped(c), o)["pass"] = Cardinality(New("PASS"))
       /\ Count(Bumped(c), o)["fail"] = Cardinality(New("FAIL"))
  <2> HIDE DEF New
  <2> QED  BY <1>3, <1>5, <1>9, CountFacts
<1>12. Count(Bumped(c), o) \in [Counters -> Nat]  BY <1>3, CountFacts
<1>13. Tally(Count(Bumped(c), o), g, B \cup {t}, D)  BY <1>3, <1>6, <1>8, <1>10, <1>11, <1>12 DEF Tally
<1> QED  BY <1>13 DEF g

\* The second call of a reset test that is left out.
LEMMA CountAgain ==
  ASSUME NEW h, NEW c, NEW B, NEW D, Tally(c, h, B, D), NEW t, t \notin D
  PROVE  Tally(Count(Bumped(c), "SKIP"), h, B, D \cup {t})
<1>1. IsFiniteSet(B) /\ IsFiniteSet(D) /\ c \in [Counters -> Nat]  BY DEF Tally
<1>2. IsFiniteSet(D \cup {t}) /\ Cardinality(D \cup {t}) = Cardinality(D) + 1  BY <1>1, FS_AddElement
<1>3. Cardinality(B) \in Nat /\ Cardinality(D) \in Nat  BY <1>1, FS_CardinalityType
<1>4. /\ Count(Bumped(c), "SKIP") \in [Counters -> Nat]
      /\ Count(Bumped(c), "SKIP")["total"] = c["total"] + 1
      /\ Count(Bumped(c), "SKIP")["pass"] = c["pass"] + 0 /\ Count(Bumped(c), "SKIP")["fail"] = c["fail"] + 0
  <2>1. "SKIP" # "PASS" /\ "SKIP" # "FAIL"  OBVIOUS
  <2> QED  BY Zenon, <1>1, <2>1, CountFacts
<1>5. c["pass"] \in Nat /\ c["fail"] \in Nat /\ c["total"] \in Nat  BY <1>1 DEF Counters
<1> QED  BY <1>1, <1>2, <1>3, <1>4, <1>5 DEF Tally

-----------------------------------------------------------------------------
(* The tests behind and before a place.                                    *)
Numbers == [rme |-> 1 .. 32, gic |-> {201}, smmu |-> {401, 402}, legacy |-> 501 .. 504, da |-> 601 .. 620]

LEMMA TestRange ==
  ASSUME sc \in Scenarios, NEW m \in Modules, NEW i \in 1 .. Len(Calls[m])
  PROVE  Calls[m][i] \in Numbers[m]
<1>1. RmeCalls \in Seq(1 .. 32) /\ DaCalls \in Seq(601 .. 620)
  BY SuiteAssumption DEF RmeCalls, DaCalls
<1>2. CASE m = "rme"
  <2>1. Calls[m] = RmeCalls /\ Numbers[m] = 1 .. 32  BY <1>2, CallsFacts DEF Numbers
  <2> QED  BY <1>1, <2>1, ElementOf
<1>3. CASE m = "da"
  <2>1. Calls[m] = DaCalls /\ Numbers[m] = 601 .. 620  BY <1>3, CallsFacts DEF Numbers
  <2> QED  BY <1>1, <2>1, ElementOf
<1>4. CASE m = "gic"
  <2>1. Calls[m] = <<201>> /\ Numbers[m] = {201}  BY <1>4, CallsFacts DEF Numbers
  <2> QED  BY <2>1
<1>5. CASE m = "smmu"
  <2>1. Calls[m] = <<401, 402>> /\ Numbers[m] = {401, 402}  BY <1>5, CallsFacts DEF Numbers
  <2> QED  BY <2>1
<1>6. CASE m = "legacy"
  <2>1. Numbers[m] = 501 .. 504  BY <1>6 DEF Numbers
  <2> QED  BY <1>6, <2>1, CallsFacts, LegacyFacts
<1> QED  BY <1>2, <1>3, <1>4, <1>5, <1>6, CallsFacts

LEMMA NumbersApart ==
  ASSUME NEW e \in Modules, NEW f \in Modules, NEW v \in Numbers[e], v \in Numbers[f]
  PROVE  e = f
<1>1. /\ Numbers["rme"] = 1 .. 32 /\ Numbers["gic"] = {201} /\ Numbers["smmu"] = {401, 402}
      /\ Numbers["legacy"] = 501 .. 504 /\ Numbers["da"] = 601 .. 620
  BY DEF Numbers
<1>2. CASE e = "rme"  BY <1>1, <1>2, CallsFacts
<1>3. CASE e = "gic"  BY <1>1, <1>3, CallsFacts
<1>4. CASE e = "smmu"  BY <1>1, <1>4, CallsFacts
<1>5. CASE e = "legacy"  BY <1>1, <1>5, CallsFacts
<1>6. CASE e = "da"  BY <1>1, <1>6, CallsFacts
<1> QED  BY <1>2, <1>3, <1>4, <1>5, <1>6, CallsFacts

\* A test is called by one module, at one place or, if it resets, at two.
LEMMA OnePlace ==
  ASSUME sc \in Scenarios, NEW e \in Modules \ {"legacy"}, NEW f \in Modules \ {"legacy"},
         NEW i \in 1 .. Len(Calls[e]), NEW j \in 1 .. Len(Calls[f]), Calls[e][i] = Calls[f][j]
  PROVE  e = f /\ (i = j \/ (e = "rme" /\ Calls[e][i] \in RmeResets))
<1>1. e \in {"rme", "gic", "smmu", "da"} /\ f \in {"rme", "gic", "smmu", "da"}  BY CallsFacts
<1>2. e = f
  <2>1. Calls[e][i] \in Numbers[e] /\ Calls[f][j] \in Numbers[f]  BY TestRange
  <2> QED  BY <2>1, NumbersApart
<1>3. CASE e = "rme"
  <2>1. Calls[e] = RmeCalls /\ DOMAIN RmeCalls = 1 .. Len(RmeCalls)
    BY <1>3, CallsFacts, ListFacts
  <2>2. \A a, b \in DOMAIN RmeCalls : RmeCalls[a] = RmeCalls[b] => a = b \/ RmeCalls[a] \in RmeResets
    BY SuiteAssumption DEF RmeCalls
  <2> QED  BY <1>2, <1>3, <2>1, <2>2
<1>4. CASE e = "da"
  <2>1. Calls[e] = DaCalls /\ DOMAIN DaCalls = 1 .. Len(DaCalls)
    BY <1>4, CallsFacts, ListFacts
  <2>2. \A a, b \in DOMAIN DaCalls : DaCalls[a] = DaCalls[b] => a = b
    BY SuiteAssumption DEF DaCalls
  <2> QED  BY <1>2, <1>4, <2>1, <2>2
<1>5. CASE e \in {"gic", "smmu"}
  <2>1. CASE e = "gic"
    <3>1. Calls[e] = <<201>>  BY <2>1, CallsFacts
    <3> QED  BY <1>2, <3>1
  <2>2. CASE e = "smmu"
    <3>1. Calls[e] = <<401, 402>>  BY <2>2, CallsFacts
    <3> QED  BY <1>2, <3>1
  <2> QED  BY <1>5, <2>1, <2>2
<1> QED  BY <1>1, <1>3, <1>4, <1>5

\* Only a reset test that is left out has come back before a call of its own.
LEMMA NotBefore ==
  ASSUME sc \in Scenarios, NEW m \in Counted, NEW i \in 1 .. Len(Calls[m]), NEW n \in Nat, n <= i,
         Calls[m][i] \in Before(m, n)
  PROVE  n = i /\ m = "rme" /\ Calls[m][i] \in RmeResets \cap SkipTests /\ i = Resume("rme", Calls[m][i])
<1>0. m \in Modules \ {"legacy"} /\ Counted \subseteq Modules \ {"legacy"}  BY DEF Counted
<1>a. PICK e \in Counted : \E j \in 1 .. Len(Calls[e]) :
        Calls[e][j] = Calls[m][i] /\ ~FirstHalf(e, j) /\ (e \in Earlier[m] \/ (e = m /\ j < n))
  BY DEF Before
<1>1. PICK j \in 1 .. Len(Calls[e]) :
        Calls[e][j] = Calls[m][i] /\ ~FirstHalf(e, j) /\ (e \in Earlier[m] \/ (e = m /\ j < n))
  BY <1>a
<1>2. e = m /\ (j = i \/ (e = "rme" /\ Calls[e][j] \in RmeResets))  BY <1>0, <1>1, OnePlace
<1>3. m \notin Earlier[m]  BY <1>0, CallsFacts DEF Earlier
<1>4. j < n  BY <1>1, <1>2, <1>3
<1>5. Len(Calls[m]) \in Nat  BY <1>0, ListFacts
<1>6. j # i  BY <1>2, <1>4, <1>5
<1>7. PICK t \in RmeResets : t = Calls[m][i] /\ m = "rme"  BY <1>1, <1>2, <1>6
<1>8. Resume("rme", t) \in 2 .. Len(RmeCalls) /\ j \in {Resume("rme", t) - 1, Resume("rme", t)}
      /\ i \in {Resume("rme", t) - 1, Resume("rme", t)}
  BY <1>1, <1>2, <1>7, RmeFacts, CallsFacts
<1>9. i = Resume("rme", t) /\ j = Resume("rme", t) - 1 /\ n = i  BY <1>4, <1>5, <1>8
<1>10. t \in SkipTests  BY <1>1, <1>2, <1>7, <1>9 DEF FirstHalf
<1> QED  BY <1>7, <1>9, <1>10

\* One call further on.
LEMMA BeforeNext ==
  ASSUME sc \in Scenarios, NEW m \in Counted, NEW n \in 1 .. Len(Calls[m])
  PROVE  Before(m, n + 1) = IF FirstHalf(m, n) THEN Before(m, n) ELSE Before(m, n) \cup {Calls[m][n]}
<1>0. m \in Modules /\ Counted \subseteq Modules  BY DEF Counted
<1>1. Len(Calls[m]) \in Nat /\ Calls[m][n] \in Tests  BY <1>0, ListFacts
<1>2. \A i \in 1 .. Len(Calls[m]) : i < n + 1 <=> i < n \/ i = n  BY <1>1
<1>3. ASSUME NEW t \in Tests
      PROVE  t \in Before(m, n + 1) <=> t \in Before(m, n) \/ (~FirstHalf(m, n) /\ t = Calls[m][n])
  BY <1>2, Zenon DEF Before
<1>4. Before(m, n + 1) \subseteq Tests /\ Before(m, n) \subseteq Tests  BY DEF Before
<1> QED  BY Zenon, <1>1, <1>3, <1>4

LEMMA TwiceNext ==
  ASSUME sc \in Scenarios, NEW m \in Counted, NEW n \in 1 .. Len(Calls[m])
  PROVE  Twice(m, n + 1) = IF Calls[m][n] \in RmeResets \cap SkipTests /\ n = Resume("rme", Calls[m][n])
                           THEN Twice(m, n) \cup {Calls[m][n]} ELSE Twice(m, n)
<1>0. m \in Modules  BY DEF Counted
<1>1. CASE m # "rme"
  <2>1. Calls[m][n] \notin RmeResets  BY <1>0, <1>1, WhereResets
  <2> QED  BY <1>1, <2>1 DEF Twice
<1>2. CASE m = "rme"
  <2>1. Len(Calls[m]) \in Nat /\ Calls[m] = RmeCalls  BY <1>0, <1>2, ListFacts, CallsFacts
  <2>2. ASSUME NEW t \in RmeResets PROVE Resume("rme", t) < n + 1 <=> Resume("rme", t) < n \/ (n = Resume("rme", t) /\ Calls[m][n] = t)
    <3>1. Resume("rme", t) \in 2 .. Len(RmeCalls) /\ RmeCalls[Resume("rme", t)] = t  BY <2>1, RmeFacts
    <3> QED  BY <2>1, <3>1
  <2>3. \A t : t \in Twice(m, n + 1) <=> t \in RmeResets \cap SkipTests /\ Resume("rme", t) < n + 1
    BY <1>2 DEF Twice
  <2>4. \A t : t \in Twice(m, n) <=> t \in RmeResets \cap SkipTests /\ Resume("rme", t) < n
    BY <1>2 DEF Twice
  <2> QED  BY Zenon, <2>2, <2>3, <2>4
<1> QED  BY <1>1, <1>2

\* On to the next module.
LEMMA BeforeAfter ==
  ASSUME sc \in Scenarios, NEW m \in Modules, NEW n, m \in Counted => n = Len(Calls[m]) + 1
  PROVE  Before(After[m], 0) = Before(m, n) /\ Twice(After[m], 0) = Twice(m, n)
<1>1. Len(Calls[m]) \in Nat  BY ListFacts
<1>2. Earlier[After[m]] = Earlier[m] \cup {m} /\ After[m] # m /\ After[m] # "rme"
  BY CallsFacts, EarlierFacts
<1>3. \A e \in Counted : \A i \in 1 .. Len(Calls[e]) :
        (e \in Earlier[After[m]] \/ (e = After[m] /\ i < 0)) <=> (e \in Earlier[m] \/ (e = m /\ i < n))
  <2> SUFFICES ASSUME NEW e \in Counted, NEW i \in 1 .. Len(Calls[e])
               PROVE (e \in Earlier[After[m]] \/ (e = After[m] /\ i < 0)) <=> (e \in Earlier[m] \/ (e = m /\ i < n))
    OBVIOUS
  <2>1. ~(i < 0)  OBVIOUS
  <2>2. e = m => i < n  BY <1>1
  <2> QED  BY <1>2, <2>1, <2>2
<1>4. Before(After[m], 0) = Before(m, n)  BY <1>3 DEF Before
<1>5. Twice(After[m], 0) = Twice(m, n)
  <2>1. CASE m = "rme" /\ m \in Counted
    <3>1. \A t \in RmeResets : Resume("rme", t) < n
      <4>1. \A t \in RmeResets : Resume("rme", t) \in 2 .. Len(RmeCalls)  BY RmeFacts
      <4> QED  BY <1>1, <2>1, <4>1, CallsFacts
    <3> QED  BY <1>2, <2>1, <3>1 DEF Twice
  <2>2. CASE ~(m = "rme" /\ m \in Counted)  BY <1>2, <2>2 DEF Twice
  <2> QED  BY <2>1, <2>2
<1> QED  BY <1>4, <1>5

\* At the start of the RME module there is nothing behind.
LEMMA BeforeStart ==
  ASSUME sc \in Scenarios, NEW n \in 0 .. 1
  PROVE  Before("rme", n) = {} /\ Twice("rme", n) = {}
<1>1. \A e \in Counted : e \notin Earlier["rme"]  BY EarlierFacts
<1>2. \A i \in Nat : i >= 1 => ~(i < n)  OBVIOUS
<1>3. \A e \in Counted : \A i \in 1 .. Len(Calls[e]) : ~(i < n)  OBVIOUS
<1>4. Before("rme", n) = {}  BY Zenon, <1>1, <1>3 DEF Before
<1>5. \A t \in RmeResets : ~(Resume("rme", t) < n)
  <2> SUFFICES ASSUME NEW t \in RmeResets PROVE ~(Resume("rme", t) < n)  OBVIOUS
  <2>1. Resume("rme", t) \in 2 .. Len(RmeCalls)  BY RmeFacts
  <2> QED  BY <2>1
<1> QED  BY <1>4, <1>5 DEF Twice

\* Behind all calls of its module, of the module and of the ones before it.
LEMMA BeforeEnd ==
  ASSUME sc \in Scenarios, NEW m \in Counted, NEW i \in 1 .. Len(Calls[m])
  PROVE  Calls[m][i] \in Before("end", 0)
<1>0. m \in Modules /\ m \in Earlier["end"]  BY CallsFacts DEF Counted, Earlier
<1>1. Calls[m][i] \in Tests /\ Len(Calls[m]) \in Nat  BY <1>0, ListFacts
<1>2. CASE ~FirstHalf(m, i)  BY <1>0, <1>1, <1>2 DEF Before
<1>3. CASE FirstHalf(m, i)
  <2>1. PICK t \in RmeResets : t = Calls[m][i] /\ i = Resume("rme", t) - 1  BY <1>3 DEF FirstHalf
  <2>2. m = "rme"  BY <1>0, <2>1, WhereResets
  <2>3. Resume("rme", t) \in 2 .. Len(RmeCalls) /\ RmeCalls[Resume("rme", t)] = t  BY RmeFacts
  <2>4. PICK j \in 1 .. Len(Calls[m]) : j = Resume("rme", t) /\ Calls[m][j] = t
    BY <2>2, <2>3, CallsFacts
  <2>5. ~FirstHalf(m, j)
    <3>1. j # j - 1  BY <1>1
    <3> QED  BY Zenon, <2>4, <3>1 DEF FirstHalf
  <2> QED  BY <1>0, <1>1, <2>1, <2>4, <2>5 DEF Before
<1> QED  BY <1>2, <1>3

\* What depends on the scenario alone does not change.
LEMMA SameCount ==
  ASSUME sc' = sc
  PROVE  /\ Counted' = Counted /\ PEsAnswer' = PEsAnswer
         /\ \A m, n : Before(m, n)' = Before(m, n) /\ Twice(m, n)' = Twice(m, n)
<1>1. Counted' = Counted /\ PEsAnswer' = PEsAnswer  BY SameScenario DEF Counted, DaReached, PEsAnswer
<1>2. \A m, n : Twice(m, n)' = Twice(m, n)  BY <1>1, SameScenario DEF Twice
<1>3. \A m, n : Before(m, n)' = Before(m, n)  BY <1>1, SameScenario DEF Before, FirstHalf, Earlier
<1> QED  BY Zenon, <1>1, <1>2, <1>3

-----------------------------------------------------------------------------
(* The order of the flags.                                                 *)
LEMMA OrderStep ==
  ASSUME IInv, OrderInv, [Next]_vars
  PROVE  OrderInv'
<1>1. sc' = sc /\ sc \in Scenarios /\ TypeInv /\ PlaceInv  BY StepKinds DEF IInv, TypeInv
<1>2. /\ SkipModules' = SkipModules /\ SkipTests' = SkipTests /\ Tests' = Tests /\ PEsAnswer' = PEsAnswer
      /\ RmeCalls' = RmeCalls /\ Calls' = Calls /\ \A m, t : Resume(m, t)' = Resume(m, t)
  BY <1>1, SameScenario, SameCount
<1>3. \A m \in Modules : Len(Calls[m]) \in Nat /\ DOMAIN Calls[m] = 1 .. Len(Calls[m])  BY <1>1, ListFacts
<1>4. flag' \in ResetTests => flag' \notin SkipTests
  <2>1. CASE WritesFlag  BY <2>1 DEF WritesFlag
  <2>2. CASE WritesTieOff
    BY <2>2 DEF WritesTieOff, ResetTests, RmeResets, LsTest3, LsDisblFlag
  <2>3. CASE flag' = flag  BY <2>3 DEF OrderInv
  <2> QED
    BY Zenon, <2>1, <2>2, <2>3, StepKinds DEF Finishes, Restarts, Enters, Leaves, Aborts, RunsAgain, Idles
<1>5. \A t \in Tests \cap SkipTests : hist'[t] \in {"NONE", "SKIP"}
  <2> SUFFICES ASSUME NEW t \in Tests \cap SkipTests PROVE hist'[t] \in {"NONE", "SKIP"}  OBVIOUS
  <2>1. hist[t] \in {"NONE", "SKIP"} /\ hist \in [Tests -> Outcomes \cup {"NONE"}]  BY <1>1 DEF OrderInv, TypeInv
  <2>2. CASE Finishes  BY <2>1, <2>2 DEF Finishes
  <2>3. CASE RunsAgain  BY <2>3 DEF RunsAgain
  <2>4. CASE hist' = hist  BY <2>1, <2>4
  <2> QED
    BY Zenon, <2>2, <2>3, <2>4, StepKinds DEF WritesFlag, WritesTieOff, Restarts, Enters, Leaves, Aborts, Idles
<1> DEFINE Behind(m, n, t) == m \in {"legacy", "gic", "smmu", "da"} \/ (m = "rme" /\ n >= Resume("rme", t))
<1>6. ASSUME PEsAnswer, "rme" \notin SkipModules, NEW t \in RmeResets \ SkipTests, Behind(mod', k', t)
      PROVE  Rank(flag)' >= Resume("rme", t)
  <2>1. Resume("rme", t) \in 2 .. Len(RmeCalls) /\ Len(RmeCalls) \in Nat  BY <1>1, RmeFacts, ListFacts, CallsFacts
  <2>2. ~Behind("rme", 0, t) /\ ~Behind("end", 0, t)  BY <2>1
  <2>3. CASE mod' \in {"rme", "end"} /\ k' = 0  BY <1>6, <2>2, <2>3
  <2>4. Behind(mod, k, t) => Rank(flag) >= Resume("rme", t)  BY <1>6 DEF OrderInv
  <2>5. flag' = flag => Rank(flag)' = Rank(flag)  BY <1>2 DEF Rank
  <2>6. CASE Finishes
    <3>1. /\ mod' = mod /\ k' = k + 1 /\ flag' = flag /\ mod \in Modules /\ k \in 1 .. Len(Calls[mod])
          /\ (This \in RmeResets => This \in SkipTests \/ flag = This)
      BY <1>3, <1>6, <2>6 DEF Finishes, Calling
    <3>2. CASE mod = "rme" /\ k = Resume("rme", t) - 1
      <4>1. This = t  BY <1>1, <2>1, <3>1, <3>2, RmeFacts, CallsFacts DEF This
      <4>2. flag = t  BY <3>1, <4>1
      <4>3. Rank(flag) = Resume("rme", t)  BY <4>2 DEF Rank, RmeResets, NoFlag
      <4> QED  BY <2>1, <2>5, <3>1, <4>3
    <3>3. CASE ~(mod = "rme" /\ k = Resume("rme", t) - 1)
      <4>1. k \in Nat  BY <1>1 DEF TypeInv
      <4>2. Behind(mod, k, t)  BY <1>6, <2>1, <3>1, <3>3, <4>1
      <4> QED  BY <2>4, <2>5, <3>1, <4>2
    <3> QED  BY <3>2, <3>3
  <2>7. CASE Enters
    <3>1. mod' = mod /\ flag' = flag /\ k' = EntryOf(mod)  BY <2>7 DEF Enters
    <3>2. CASE mod = "rme"
      <4>1. EntryOf("rme") >= Resume("rme", t)  BY <1>6, <3>1, <3>2
      <4>2. CASE flag \in RmeResets
        BY <2>1, <2>5, <3>1, <4>1, <4>2, EntryFacts DEF Rank, val_rme_execute_tests, RmeResets, NoFlag
      <4>3. CASE flag \in {LsDisblFlag, LsTest3}
        <5>1. Rank(flag) = Len(RmeCalls)  BY <4>3 DEF Rank, RmeResets, NoFlag, LsDisblFlag, LsTest3
        <5> QED  BY <2>1, <2>5, <3>1, <5>1
      <4>4. CASE flag \notin RmeResets \cup {LsDisblFlag, LsTest3}
        <5>1. EntryOf("rme") = 1  BY <4>4, EntryFacts DEF val_rme_execute_tests
        <5> QED  BY <2>1, <4>1, <5>1
      <4> QED  BY <4>2, <4>3, <4>4
    <3>3. CASE mod # "rme"  BY ZenonT(30), <1>6, <2>4, <2>5, <3>1, <3>3
    <3> QED  BY <3>2, <3>3
  <2>8. CASE Leaves
    <3>1. mod \in Modules /\ mod' = After[mod] /\ flag' = flag /\ k' = 0  BY <2>8 DEF Leaves
    <3>2. CASE mod = "rme"
      <4>1. k = Len(Calls[mod]) + 1  BY <1>6, <2>8, <3>2 DEF Leaves
      <4>2. Behind(mod, k, t)  BY <2>1, <3>2, <4>1, CallsFacts
      <4> QED  BY <2>4, <2>5, <3>1, <4>2
    <3>3. CASE mod # "rme"
      <4>1. Behind(mod, k, t)  BY <3>1, <3>3, CallsFacts
      <4> QED  BY <2>4, <2>5, <3>1, <4>1
    <3> QED  BY <3>2, <3>3
  <2>9. CASE Idles  BY <1>6, <2>4, <2>5, <2>9 DEF Idles
  <2> HIDE DEF Behind
  <2> QED
    BY Zenon, <2>3, <2>6, <2>7, <2>8, <2>9, StepKinds DEF WritesFlag, WritesTieOff, Restarts, Aborts, RunsAgain
<1>7. PEsAnswer /\ "rme" \notin SkipModules =>
        \A t \in RmeResets \ SkipTests : Behind(mod', k', t) => Rank(flag)' >= Resume("rme", t)
  <2> HIDE DEF Behind
  <2> QED  BY Zenon, <1>6
<1> QED  BY <1>2, <1>4, <1>5, <1>7 DEF OrderInv

-----------------------------------------------------------------------------
(* The counters, one kind of step at a time.                               *)

\* The parts of CountInv that speak of the place and of the flag.
Here  == (mod # "rme" \/ k > 0) /\ ~Resuming => Tally(counter, hist, Before(mod, k), Twice(mod, k))
Saved(f, v, h) ==
  f \in RmeResets => \E c : /\ v = Bumped(c)
                            /\ Tally(c, h, Before("rme", Resume("rme", f) - 1), Twice("rme", Resume("rme", f) - 1))

LEMMA SamePlace ==
  ASSUME sc' = sc
  PROVE  /\ Plain' <=> run' = 1 /\ ~aborted' /\ ~torn' /\ ~LegacyTz /\ PEsAnswer
         /\ Resuming' <=> mod' = "rme" /\ flag' \in RmeResets /\ k' = Resume("rme", flag')
         /\ Here' <=> ((mod' # "rme" \/ k' > 0) /\ ~Resuming'
                        => Tally(counter', hist', Before(mod', k'), Twice(mod', k')))
         /\ Saved(flag, saved, hist)' <=> Saved(flag', saved', hist')
<1>1. Calls' = Calls /\ LegacyTz' = LegacyTz /\ PEsAnswer' = PEsAnswer /\ SkipTests' = SkipTests
      /\ Tests' = Tests /\ Counted' = Counted
  BY SameScenario, SameCount
<1>2. Plain' <=> run' = 1 /\ ~aborted' /\ ~torn' /\ ~LegacyTz /\ PEsAnswer  BY <1>1 DEF Plain
<1>3. Resuming' <=> mod' = "rme" /\ flag' \in RmeResets /\ k' = Resume("rme", flag')
  BY ZenonT(30), <1>1 DEF Resuming, Resume
<1>4. Before(mod, k)' = Before(mod', k') /\ Twice(mod, k)' = Twice(mod', k')
  BY <1>1 DEF Before, Twice, FirstHalf, Resume, Earlier
<1>5. Here' <=> ((mod' # "rme" \/ k' > 0) /\ ~Resuming'
                  => Tally(counter', hist', Before(mod', k'), Twice(mod', k')))
  BY <1>4 DEF Here, Tally, Counters
<1>6. Saved(flag, saved, hist)' <=> Saved(flag', saved', hist')
  <2>1. /\ Before("rme", Resume("rme", flag) - 1)' = Before("rme", Resume("rme", flag') - 1)
        /\ Twice("rme", Resume("rme", flag) - 1)' = Twice("rme", Resume("rme", flag') - 1)
    BY <1>1 DEF Before, Twice, FirstHalf, Resume, Earlier
  <2> QED  BY Zenon, <2>1 DEF Saved, Bumped, Tally, Counters
<1> QED  BY <1>2, <1>3, <1>5, <1>6

\* A step that leads to a plain state leaves one.
LEMMA PlainBefore ==
  ASSUME IInv, [Next]_vars, Plain'
  PROVE  Plain /\ ~Rerun /\ ~CutShort /\ ~UnexpectedException /\ ~GiveUp /\ ~DisableTieOff
<1>1. sc' = sc /\ run \in Nat \ {0}  BY StepKinds DEF IInv, TypeInv
<1>2. run' = 1 /\ ~aborted' /\ ~torn' /\ ~LegacyTz /\ PEsAnswer  BY <1>1, SamePlace
<1>3. ~Rerun  BY <1>1, <1>2 DEF Rerun
<1>4. ~CutShort /\ ~UnexpectedException /\ ~GiveUp  BY <1>2 DEF CutShort, UnexpectedException, GiveUp
<1>5. ~DisableTieOff
  <2>1. TieOffNext => mod = "legacy" /\ k = 5  BY Zenon, LegacyFacts DEF TieOffNext
  <2>2. "legacy" \in Modules /\ 5 > 0  BY CallsFacts
  <2>3. mod = "legacy" /\ k = 5 => LegacyTz  BY Zenon, <2>2 DEF IInv, PlaceInv
  <2> QED  BY Zenon, <1>2, <2>1, <2>3 DEF DisableTieOff
<1>6. run' = run /\ aborted' = aborted /\ torn' = torn
  BY <1>3, <1>4, <1>5 DEF Next, Step, Enter, SkipModule, Return, SkippedTest, OrdinaryTest, ArmReset, ResumeTest,
     Finish, Hang, Stopped, vars, nvm, history
<1> QED  BY <1>2, <1>3, <1>4, <1>5, <1>6 DEF Plain

\* The counters are right unless they are about to be restored.
LEMMA Standing ==
  ASSUME IInv, CountInv, Plain, ~Resuming
  PROVE  Tally(counter, hist, Before(mod, k), Twice(mod, k))
<1>1. sc \in Scenarios /\ k \in Nat  BY DEF IInv, TypeInv
<1>2. CASE mod = "rme" /\ k = 0
  <2>1. counter = Zero  BY <1>2 DEF CountInv
  <2>2. Before("rme", 0) = {} /\ Twice("rme", 0) = {}  BY <1>1, BeforeStart
  <2> QED  BY Zenon, <1>2, <2>1, <2>2, TallyZero
<1>3. CASE ~(mod = "rme" /\ k = 0)
  <2>1. mod # "rme" \/ k > 0  BY <1>1, <1>3
  <2> QED  BY Zenon, <2>1 DEF CountInv
<1> QED  BY <1>2, <1>3

\* A call that comes back leaves what was saved alone, and what was saved is of
\* the tests before it.
LEMMA FinishKeeps ==
  ASSUME IInv, CountInv, Plain, Plain', sc' = sc, Calling, NEW o \in Outcomes,
         hist' = [hist EXCEPT ![This] = o], k' = k + 1, UNCHANGED <<mod, flag, saved>>,
         Tally(counter', hist', Before(mod, k + 1), Twice(mod, k + 1))
  PROVE  CountInv'
<1>1. /\ sc \in Scenarios /\ k \in Nat /\ mod \in Modules /\ k \in 1 .. Len(Calls[mod]) /\ This \in Tests
      /\ hist \in [Tests -> Outcomes \cup {"NONE"}] /\ Len(Calls[mod]) \in Nat
  BY ListFacts DEF IInv, TypeInv, Calling, This
<1>2. mod \in Counted /\ Counted \subseteq Modules \ {"legacy"}  BY <1>1 DEF CountInv, Counted
<1>3. Tests' = Tests /\ Calls' = Calls /\ Modules' = Modules /\ Counted' = Counted /\ Before("end", 0)' = Before("end", 0)
  BY SameScenario, SameCount
<1>4. \A t \in Tests : t # This => hist'[t] = hist[t]  BY <1>1
<1>5. \A t \in Tests : hist'[t] # "NONE" => t \in Before("end", 0)
  <2>1. This \in Before("end", 0)  BY <1>1, <1>2, BeforeEnd DEF This
  <2> QED  BY Zenon, <1>4, <2>1 DEF CountInv
<1>6. k' # 0  BY <1>1
<1>7. Here'  BY SamePlace
<1>8. Saved(flag', saved', hist')
  <2> SUFFICES ASSUME flag \in RmeResets PROVE Saved(flag', saved', hist')  BY Zenon DEF Saved
  <2> DEFINE n == Resume("rme", flag) - 1
  <2>1. PICK c : saved = Bumped(c) /\ Tally(c, hist, Before("rme", n), Twice("rme", n))  BY DEF CountInv
  <2>2. Resume("rme", flag) \in 2 .. Len(RmeCalls)  BY ZenonT(30), <1>1, RmeFacts
  <2>3. n \in Nat /\ Before("rme", n) \subseteq Tests  BY <2>2 DEF Before
  <2>4. This \notin Before("rme", n)
    <3>1. CASE mod = "rme"
      <4>1. k >= Resume("rme", flag)
        <5>1. k >= Rank(flag)  BY <1>1, <3>1 DEF IInv, PlaceInv
        <5> QED  BY <5>1 DEF Rank, RmeResets, NoFlag
      <4>2. n <= k /\ n # k  BY <1>1, <2>2, <4>1
      <4> HIDE DEF n
      <4> QED  BY ZenonT(30), <1>1, <1>2, <2>3, <3>1, <4>2, NotBefore DEF This
    <3>2. CASE mod # "rme"
      <4>1. SUFFICES ASSUME This \in Before("rme", n) PROVE FALSE  OBVIOUS
      <4>2. PICK e \in Counted : \E j \in 1 .. Len(Calls[e]) : Calls[e][j] = This /\ (e \in Earlier["rme"] \/ e = "rme")
        BY ZenonT(30), <4>1 DEF Before
      <4>3. PICK j \in 1 .. Len(Calls[e]) : Calls[e][j] = This  BY <4>2
      <4>4. e = "rme"  BY ZenonT(30), <4>2, EarlierFacts
      <4>5. e = mod  BY <1>1, <1>2, <4>3, OnePlace DEF This
      <4> QED  BY <3>2, <4>4, <4>5
    <3> QED  BY ZenonT(30), <3>1, <3>2
  <2>5. \A t \in Before("rme", n) : hist'[t] = hist[t]  BY <1>4, <2>3, <2>4
  <2> HIDE DEF n
  <2>6. Tally(c, hist', Before("rme", n), Twice("rme", n))  BY Zenon, <2>1, <2>5, TallySame
  <2> USE DEF n
  <2> QED  BY Zenon, <2>1, <2>6 DEF Saved
<1> QED
  <2>1. Saved(flag, saved, hist)'  BY <1>8, SamePlace
  <2>2. mod' \in Modules' /\ k' \in 1 .. Len(Calls[mod])' => mod' \in Counted'  BY <1>2, <1>3
  <2>3. \A t \in Tests' : hist'[t] # "NONE" => t \in Before("end", 0)'  BY <1>3, <1>5
  <2> QED  BY Zenon, <1>6, <1>7, <2>1, <2>2, <2>3 DEF CountInv, Here, Saved

\* A test that is not a reset test, or that is left out, comes back: it counts
\* for the first time, but at the second call of a reset test.
LEMMA FinishCounts ==
  ASSUME IInv, OrderInv, CountInv, Plain, sc' = sc, Calling, NEW o \in Outcomes,
         counter' = Count(Begun, o), hist' = [hist EXCEPT ![This] = o],
         This \notin ResetTests \/ (This \in SkipTests /\ o = "SKIP")
  PROVE  Tally(counter', hist', Before(mod, k + 1), Twice(mod, k + 1))
<1>1. /\ sc \in Scenarios /\ k \in Nat /\ mod \in Modules /\ k \in 1 .. Len(Calls[mod]) /\ This \in Tests
      /\ hist \in [Tests -> Outcomes \cup {"NONE"}] /\ Len(Calls[mod]) \in Nat
  BY ListFacts DEF IInv, TypeInv, Calling, This
<1>2. mod \in Counted  BY <1>1 DEF CountInv
<1>3. ~Resuming
  <2>1. SUFFICES ASSUME Resuming PROVE FALSE  OBVIOUS
  <2>2. flag \in RmeResets /\ mod = "rme" /\ k = Resume("rme", flag)  BY <2>1 DEF Resuming
  <2>3. This = flag  BY <1>1, <2>2, RmeFacts, CallsFacts DEF This
  <2>4. flag \in ResetTests /\ flag \notin SkipTests  BY <2>2 DEF OrderInv, ResetTests
  <2> QED  BY <2>3, <2>4
<1>4. Tally(counter, hist, Before(mod, k), Twice(mod, k))  BY <1>3, Standing
<1>5. ~FirstHalf(mod, k)  BY ZenonT(30) DEF FirstHalf, This, ResetTests
<1>6. Before(mod, k + 1) = Before(mod, k) \cup {This} /\ Before(mod, k) \subseteq Tests
  BY ZenonT(30), <1>1, <1>2, <1>5, BeforeNext DEF This, Before
<1>7. Begun = Bumped(counter)  BY DEF Begun, Bumped
<1>8. CASE This \in RmeResets \cap SkipTests /\ k = Resume("rme", This)
  <2>1. Twice(mod, k + 1) = Twice(mod, k) \cup {This}  BY Zenon, <1>1, <1>2, <1>8, TwiceNext DEF This
  <2>2. mod = "rme"  BY <1>1, <1>8, WhereResets DEF This
  <2>3. This \notin Twice(mod, k)  BY <1>1, <1>8, <2>2 DEF Twice
  <2>4. This \in Before(mod, k)
    <3>1. PICK j \in 1 .. Len(Calls[mod]) : j = k - 1 /\ Calls[mod][j] = This
      <4>1. /\ Resume("rme", This) \in 2 .. Len(RmeCalls)
            /\ \A j \in 1 .. Len(RmeCalls) : RmeCalls[j] = This <=> j \in {Resume("rme", This) - 1, Resume("rme", This)}
        BY ZenonT(30), <1>1, <1>8, RmeFacts
      <4>2. Calls[mod] = RmeCalls  BY <2>2, CallsFacts
      <4>3. k - 1 \in 1 .. Len(RmeCalls)  BY <1>1, <1>8, <4>1
      <4> QED  BY ZenonT(30), <1>8, <4>1, <4>2, <4>3
    <3>2. ~FirstHalf(mod, j)  BY <1>8, <3>1 DEF FirstHalf
    <3>3. j < k  BY <1>1, <3>1
    <3> QED  BY ZenonT(30), <1>1, <1>2, <3>1, <3>2, <3>3 DEF Before
  <2>5. hist[This] = "SKIP"
    <3>1. hist[This] # "NONE"  BY <1>4, <2>4 DEF Tally
    <3> QED  BY ZenonT(30), <1>1, <1>8, <3>1 DEF OrderInv
  <2>6. o = "SKIP"  BY <1>8 DEF ResetTests
  <2>7. hist' = hist  BY <1>1, <2>5, <2>6
  <2>8. Before(mod, k + 1) = Before(mod, k)  BY ZenonT(30), <1>6, <2>4
  <2>9. Tally(Count(Bumped(counter), "SKIP"), hist, Before(mod, k), Twice(mod, k) \cup {This})
    BY ZenonT(30), <1>4, <2>3, CountAgain
  <2> QED  BY Zenon, <1>7, <2>1, <2>6, <2>7, <2>8, <2>9
<1>9. CASE ~(This \in RmeResets \cap SkipTests /\ k = Resume("rme", This))
  <2>1. Twice(mod, k + 1) = Twice(mod, k)  BY Zenon, <1>1, <1>2, <1>9, TwiceNext DEF This
  <2>2. This \notin Before(mod, k)  BY <1>1, <1>2, <1>9, NotBefore DEF This
  <2>3. Tally(Count(Bumped(counter), o), [hist EXCEPT ![This] = o], Before(mod, k) \cup {This}, Twice(mod, k))
    BY Zenon, <1>1, <1>4, <1>6, <2>2, CountStep
  <2> QED  BY Zenon, <1>6, <1>7, <2>1, <2>3
<1> QED  BY <1>8, <1>9

\* The second half of a reset test goes on from the counters of the first.
LEMMA ResumeCounts ==
  ASSUME IInv, OrderInv, CountInv, Plain, sc' = sc, Calling, NEW o \in Outcomes,
         This \in RmeResets \ SkipTests, flag = This,
         counter' = Count(saved, o), hist' = [hist EXCEPT ![This] = o]
  PROVE  Tally(counter', hist', Before(mod, k + 1), Twice(mod, k + 1))
<1>1. /\ sc \in Scenarios /\ k \in Nat /\ mod \in Modules /\ k \in 1 .. Len(Calls[mod]) /\ This \in Tests
      /\ hist \in [Tests -> Outcomes \cup {"NONE"}] /\ Len(Calls[mod]) \in Nat
  BY ZenonT(30), ListFacts DEF IInv, TypeInv, Calling, This
<1>2. mod \in Counted /\ mod = "rme"  BY <1>1, WhereResets DEF CountInv, This
<1>3. Calls[mod] = RmeCalls  BY <1>2, CallsFacts
<1>4. /\ Resume("rme", This) \in 2 .. Len(RmeCalls)
      /\ \A j \in 1 .. Len(RmeCalls) : RmeCalls[j] = This <=> j \in {Resume("rme", This) - 1, Resume("rme", This)}
  BY <1>1, RmeFacts
<1>5. k = Resume("rme", This)
  <2>1. k >= Rank(flag)  BY <1>1, <1>2 DEF IInv, PlaceInv
  <2>2. k >= Resume("rme", This)  BY <2>1 DEF Rank, RmeResets, NoFlag
  <2>3. k \in {Resume("rme", This) - 1, Resume("rme", This)}  BY ZenonT(30), <1>1, <1>3, <1>4 DEF This
  <2> QED  BY <1>1, <1>4, <2>2, <2>3
<1>6. PICK n \in 1 .. Len(Calls[mod]) : n = k - 1 /\ Calls[mod][n] = This /\ n + 1 = k /\ n \in Nat
  <2>1. k - 1 \in 1 .. Len(RmeCalls)  BY <1>1, <1>4, <1>5
  <2>2. RmeCalls[k - 1] = This  BY ZenonT(30), <1>4, <1>5, <2>1
  <2> QED  BY <1>1, <1>3, <2>1, <2>2
<1>7. FirstHalf(mod, n)  BY <1>5, <1>6 DEF FirstHalf
<1>8. ~FirstHalf(mod, k)  BY <1>1, <1>5 DEF FirstHalf, This
<1>9. Before(mod, k) = Before(mod, n) /\ Twice(mod, k) = Twice(mod, n)
  <2>1. Before(mod, n + 1) = Before(mod, n)  BY Zenon, <1>1, <1>2, <1>7, BeforeNext
  <2>2. Twice(mod, n + 1) = Twice(mod, n)  BY Zenon, <1>1, <1>2, <1>6, TwiceNext
  <2> QED  BY <1>6, <2>1, <2>2
<1>10. Before(mod, k + 1) = Before(mod, k) \cup {This} /\ Twice(mod, k + 1) = Twice(mod, k)
  <2>1. Before(mod, k + 1) = Before(mod, k) \cup {This}  BY Zenon, <1>1, <1>2, <1>8, BeforeNext DEF This
  <2>2. Twice(mod, k + 1) = Twice(mod, k)  BY Zenon, <1>1, <1>2, TwiceNext DEF This
  <2> QED  BY <2>1, <2>2
<1>11. This \notin Before(mod, n) /\ Before(mod, n) \subseteq Tests
  <2>1. n <= k /\ n # k  BY <1>1, <1>6
  <2> QED  BY Zenon, <1>1, <1>2, <1>6, <2>1, NotBefore DEF This, Before
<1>12. PICK c : saved = Bumped(c) /\ Tally(c, hist, Before(mod, n), Twice(mod, n))
  <2>1. n = Resume("rme", flag) - 1  BY <1>5, <1>6
  <2> QED  BY ZenonT(30), <1>2, <2>1 DEF CountInv
<1>13. Tally(Count(Bumped(c), o), [hist EXCEPT ![This] = o], Before(mod, n) \cup {This}, Twice(mod, n))
  BY Zenon, <1>1, <1>11, <1>12, CountStep
<1> QED  BY Zenon, <1>9, <1>10, <1>12, <1>13

\* The first half saves the counters of the tests before it.
LEMMA ArmCounts ==
  ASSUME IInv, OrderInv, CountInv, Plain, Plain', sc' = sc, ArmReset
  PROVE  CountInv'
<1>1. /\ sc \in Scenarios /\ k \in Nat /\ mod \in Modules /\ k \in 1 .. Len(Calls[mod])
      /\ Len(Calls[mod]) \in Nat
  BY ListFacts DEF IInv, TypeInv, ArmReset, Calling
<1>2. This \in RmeResets \ SkipTests /\ mod = "rme"
  <2>1. mod # "legacy"  BY <1>1 DEF CountInv, Counted
  <2> QED  BY <1>1, <2>1, WhereResets DEF ArmReset, ResetTests, This
<1>3. Calls[mod] = RmeCalls  BY <1>2, CallsFacts
<1>4. /\ Resume("rme", This) \in 2 .. Len(RmeCalls)
      /\ k \in {Resume("rme", This) - 1, Resume("rme", This)}
  BY <1>1, <1>2, <1>3, RmeFacts DEF This
<1>5. flag # This /\ flag' = This /\ saved' = Bumped(counter) /\ hist' = hist
  <2>1. This # LsTest3  BY <1>2 DEF RmeResets, LsTest3
  <2> QED  BY <2>1 DEF ArmReset, Begun, Bumped
<1>6. ~Resuming
  <2>1. SUFFICES ASSUME Resuming PROVE FALSE  OBVIOUS
  <2>2. flag \in RmeResets /\ k = Resume("rme", flag)  BY <2>1 DEF Resuming
  <2> QED  BY <1>1, <1>3, <1>5, <2>2, RmeFacts DEF This
<1>7. k = Resume("rme", This) - 1
  <2>1. SUFFICES ASSUME k = Resume("rme", This) PROVE FALSE  BY <1>4
  <2>2. "rme" \notin SkipModules /\ PEsAnswer  BY <1>1, <1>2 DEF IInv, PlaceInv, Plain
  <2>3. Rank(flag) >= k  BY <1>1, <1>2, <2>1, <2>2 DEF OrderInv
  <2>4. k >= Rank(flag) /\ Rank(flag) \in Nat  BY <1>1, <1>2, RankFacts DEF IInv, PlaceInv
  <2>5. Rank(flag) = k  BY <1>1, <2>3, <2>4
  <2>6. flag \in RmeResets
    <3>1. flag \notin {LsDisblFlag, LsTest3}  BY DEF IInv, FlagInv, Plain
    <3>2. flag # NoFlag  BY <1>1, <2>5 DEF Rank
    <3> QED  BY <3>1, <3>2 DEF IInv, TypeInv, ResetTests
  <2>7. k = Resume("rme", flag)  BY <2>5, <2>6 DEF Rank, RmeResets, NoFlag
  <2> QED  BY <1>2, <1>6, <2>6, <2>7 DEF Resuming
<1>8. Tally(counter, hist, Before(mod, k), Twice(mod, k))  BY <1>6, Standing
<1>9. Saved(flag', saved', hist')  BY Zenon, <1>2, <1>5, <1>7, <1>8 DEF Saved
<1>10. Saved(flag, saved, hist)'  BY <1>9, SamePlace
<1>11. mod' = "rme" /\ k' = 0 /\ counter' = Zero /\ Zero' = Zero  BY DEF ArmReset, Boot, Zero, Counters
<1>12. Tests' = Tests /\ Before("end", 0)' = Before("end", 0)  BY SameScenario, SameCount
<1>13. Here'  BY <1>11, SamePlace
<1>14. \A t \in Tests' : hist'[t] # "NONE" => t \in Before("end", 0)'  BY <1>5, <1>12 DEF CountInv
<1>15. ~(k' \in 1 .. Len(Calls[mod])')  BY <1>11
<1> QED  BY Zenon, <1>10, <1>11, <1>13, <1>14, <1>15 DEF CountInv, Here, Saved

\* The DA module has tests to run exactly where the last flag lets it.
LEMMA DaEntry ==
  ASSUME IInv, OrderInv, Plain, mod = "da"
  PROVE  DaReached <=> flag \in {NoFlag, 32}
<1>1. sc \in Scenarios /\ flag \in {NoFlag} \cup RmeResets
  BY DEF IInv, TypeInv, FlagInv, ResetTests, Plain
<1>2. flag \in RmeResets => flag \notin SkipTests /\ "rme" \notin SkipModules
  BY DEF IInv, FlagInv, OrderInv, ResetTests, Plain
<1>3. 32 \in RmeResets /\ NoFlag \notin RmeResets  BY DEF RmeResets, NoFlag
<1>4. CASE flag = 32  BY <1>2, <1>3, <1>4 DEF DaReached
<1>5. CASE flag = NoFlag
  <2>1. SUFFICES ASSUME "rme" \notin SkipModules, NEW t \in RmeResets \ SkipTests PROVE FALSE
    BY <1>5 DEF DaReached
  <2>2. Rank(flag) >= Resume("rme", t)  BY <2>1 DEF OrderInv, Plain
  <2>3. Resume("rme", t) \in 2 .. Len(RmeCalls)  BY <1>1, RmeFacts
  <2> QED  BY <1>5, <2>2, <2>3 DEF Rank
<1>6. CASE flag \in RmeResets \ {32}
  <2>1. SUFFICES ASSUME 32 \notin SkipTests PROVE FALSE  BY <1>2, <1>3, <1>6 DEF DaReached
  <2> QED  BY <1>6, <2>1 DEF IInv, FlagInv, Plain
<1> QED  BY ZenonT(30), <1>1, <1>4, <1>5, <1>6

LEMMA EnterCounts ==
  ASSUME IInv, OrderInv, CountInv, Plain, Plain', sc' = sc, Enter
  PROVE  CountInv'
<1>1. /\ sc \in Scenarios /\ mod \in Modules \ SkipModules /\ k = 0 /\ Len(Calls[mod]) \in Nat
      /\ mod \in {"rme", "gic", "smmu", "da"}
  BY ListFacts, CallsFacts DEF IInv, TypeInv, Enter, Plain
<1>2. mod' = mod /\ k' = EntryOf(mod) /\ flag' = flag /\ saved' = saved /\ hist' = hist /\ counter' = counter
  BY DEF Enter, nvm, history
<1>3. k' \in 1 .. Len(Calls[mod]) + 1  BY <1>1, <1>2, EntryRange DEF IInv
<1>4. /\ Tests' = Tests /\ Calls' = Calls /\ Modules' = Modules /\ Counted' = Counted
      /\ Before("end", 0)' = Before("end", 0)
  BY ZenonT(30), SameScenario, SameCount
<1>5. mod = "da" => (DaReached => k' = 1) /\ (k' \in 1 .. Len(Calls["da"]) => DaReached)
  BY <1>1, <1>2, DaEntry, EntryFacts, CallsFacts
     DEF val_rme_da_execute_tests, IInv, TypeInv, FlagInv, Plain, ResetTests, RmeResets, NoFlag, LsDisblFlag, LsTest3
<1>6. k' \in 1 .. Len(Calls[mod]) => mod \in Counted  BY <1>1, <1>3, <1>5 DEF Counted
<1>7. Before(mod, k') = Before(mod, 0) \/ mod = "rme"
  <2> SUFFICES ASSUME mod # "rme" PROVE Before(mod, k') = Before(mod, 0)  OBVIOUS
  <2>1. mod \in Counted => \A i \in 1 .. Len(Calls[mod]) : ~(i < k') /\ ~(i < 0)
    <3>1. SUFFICES ASSUME mod \in Counted, NEW i \in 1 .. Len(Calls[mod]) PROVE ~(i < k') /\ ~(i < 0)  OBVIOUS
    <3>2. k' = 1
      <4>1. CASE mod = "da"  BY <1>1, <1>5, <3>1, <4>1 DEF Counted
      <4>2. CASE mod \in {"gic", "smmu"}  BY <1>2, <4>2, EntryFacts
      <4> QED  BY <1>1, <4>1, <4>2
    <3> QED  BY <1>1, <3>2
  <2>2. \A e \in Counted : \A i \in 1 .. Len(Calls[e]) : (e = mod /\ i < k') <=> (e = mod /\ i < 0)  BY <2>1
  <2> QED  BY Zenon, <2>2 DEF Before
<1>8. Here'
  <2> SUFFICES ASSUME ~Resuming' PROVE Tally(counter', hist', Before(mod', k'), Twice(mod', k'))  BY SamePlace
  <2>1. ~Resuming
    <3>1. flag \in RmeResets => Resume("rme", flag) \in 2 .. Len(RmeCalls)  BY <1>1, RmeFacts
    <3> QED  BY <1>1, <3>1 DEF Resuming
  <2>2. Tally(counter, hist, Before(mod, k), Twice(mod, k))  BY <2>1, Standing
  <2>3. CASE mod = "rme"
    <3>1. flag \notin RmeResets  BY <1>2, <2>3, EntryFacts, SamePlace DEF val_rme_execute_tests
    <3>2. flag \notin {LsDisblFlag, LsTest3}  BY DEF IInv, FlagInv, Plain
    <3>3. k' = 1  BY ZenonT(30), <1>2, <2>3, <3>1, <3>2, EntryFacts DEF val_rme_execute_tests
    <3>4. /\ Before("rme", 0) = {} /\ Twice("rme", 0) = {} /\ Before("rme", 1) = {} /\ Twice("rme", 1) = {}
      BY <1>1, BeforeStart
    <3> QED  BY Zenon, <1>1, <1>2, <2>2, <2>3, <3>3, <3>4
  <2>4. CASE mod # "rme"
    <3>1. Twice(mod, k') = Twice(mod, 0)  BY <2>4 DEF Twice
    <3> QED  BY Zenon, <1>1, <1>2, <1>7, <2>2, <2>4, <3>1
  <2> QED  BY <2>3, <2>4
<1>9. Saved(flag, saved, hist)'  BY Zenon, <1>2, SamePlace DEF CountInv, Saved
<1>10. \A t \in Tests' : hist'[t] # "NONE" => t \in Before("end", 0)'  BY <1>2, <1>4 DEF CountInv
<1>11. k' # 0  BY <1>1, <1>3
<1> QED  BY Zenon, <1>2, <1>4, <1>6, <1>8, <1>9, <1>10, <1>11 DEF CountInv, Here, Saved

LEMMA LeaveCounts ==
  ASSUME IInv, CountInv, Plain, Plain', sc' = sc, SkipModule \/ Return
  PROVE  CountInv'
<1>1. /\ sc \in Scenarios /\ mod \in Modules /\ k \in Nat /\ Len(Calls[mod]) \in Nat
  BY ListFacts DEF IInv, TypeInv, SkipModule, Return
<1>2. /\ mod' = After[mod] /\ k' = 0 /\ flag' = flag /\ saved' = saved /\ hist' = hist /\ counter' = counter
      /\ k = Len(Calls[mod]) + 1 \/ (k = 0 /\ (mod \in SkipModules \/ mod = "legacy"))
  BY DEF SkipModule, Return, nvm, history
<1>3. mod \in Counted => k = Len(Calls[mod]) + 1  BY Zenon, <1>2 DEF Counted
<1>4. ~Resuming
  <2>1. flag \in RmeResets => Resume("rme", flag) \in 2 .. Len(RmeCalls)  BY <1>1, RmeFacts
  <2> QED  BY <1>1, <1>2, <2>1, CallsFacts DEF Resuming
<1>5. Tally(counter, hist, Before(mod, k), Twice(mod, k))  BY <1>4, Standing
<1>6. Before(After[mod], 0) = Before(mod, k) /\ Twice(After[mod], 0) = Twice(mod, k)
  BY ZenonT(30), <1>1, <1>3, BeforeAfter
<1>7. Here'  BY <1>2, <1>5, <1>6, SamePlace
<1>8. Saved(flag, saved, hist)'  BY Zenon, <1>2, SamePlace DEF CountInv, Saved
<1>9. Tests' = Tests /\ Before("end", 0)' = Before("end", 0)  BY SameScenario, SameCount
<1>10. \A t \in Tests' : hist'[t] # "NONE" => t \in Before("end", 0)'  BY ZenonT(30), <1>2, <1>9 DEF CountInv
<1>11. ~(k' \in 1 .. Len(Calls[mod])') /\ mod' # "rme"  BY <1>1, <1>2, CallsFacts
<1> QED  BY Zenon, <1>7, <1>8, <1>10, <1>11 DEF CountInv, Here, Saved

\* A hang loses the counters of this boot, not the saved ones.
LEMMA HangCounts ==
  ASSUME CountInv, Plain, Plain', sc' = sc, Hang
  PROVE  CountInv'
<1>1. mod' = "rme" /\ k' = 0 /\ counter' = Zero /\ Zero' = Zero /\ flag' = flag /\ saved' = saved /\ hist' = hist
  BY DEF Hang, Boot, nvm, Zero, Counters
<1>2. Here'  BY <1>1, SamePlace
<1>3. Saved(flag, saved, hist)'  BY Zenon, <1>1, SamePlace DEF CountInv, Saved
<1>4. Tests' = Tests /\ Before("end", 0)' = Before("end", 0)  BY SameScenario, SameCount
<1>5. \A t \in Tests' : hist'[t] # "NONE" => t \in Before("end", 0)'  BY <1>1, <1>4 DEF CountInv
<1>6. ~(k' \in 1 .. Len(Calls[mod])')  BY <1>1
<1> QED  BY Zenon, <1>1, <1>2, <1>3, <1>5, <1>6 DEF CountInv, Here, Saved

LEMMA CountKeeps ==
  ASSUME IInv, OrderInv, CountInv, [Next]_vars
  PROVE  CountInv'
<1>1. SUFFICES ASSUME Plain' PROVE CountInv'  BY Zenon DEF CountInv
<1>2. sc' = sc  BY StepKinds
<1>3. Plain /\ ~Rerun /\ ~CutShort /\ ~UnexpectedException /\ ~GiveUp /\ ~DisableTieOff  BY <1>1, PlainBefore
<1>4. CASE Enter  BY <1>1, <1>2, <1>3, <1>4, EnterCounts
<1>5. CASE SkipModule \/ Return  BY <1>1, <1>2, <1>3, <1>5, LeaveCounts
<1>6. CASE SkippedTest
  <2>1. /\ Calling /\ counter' = Count(Begun, "SKIP") /\ hist' = [hist EXCEPT ![This] = "SKIP"] /\ k' = k + 1
        /\ mod' = mod /\ flag' = flag /\ saved' = saved /\ This \in SkipTests /\ "SKIP" \in Outcomes
    BY <1>6 DEF SkippedTest, Finish, nvm, Outcomes
  <2>2. Tally(counter', hist', Before(mod, k + 1), Twice(mod, k + 1))  BY Zenon, <1>2, <1>3, <2>1, FinishCounts
  <2> QED  BY Zenon, <1>1, <1>2, <1>3, <2>1, <2>2, FinishKeeps
<1>7. CASE OrdinaryTest
  <2>1. PICK o \in Outcomes : Finish(Begun, o)  BY <1>7 DEF OrdinaryTest
  <2>2. /\ Calling /\ counter' = Count(Begun, o) /\ hist' = [hist EXCEPT ![This] = o] /\ k' = k + 1
        /\ mod' = mod /\ flag' = flag /\ saved' = saved /\ This \notin ResetTests
    BY Zenon, <1>7, <2>1 DEF OrdinaryTest, Finish, nvm
  <2>3. Tally(counter', hist', Before(mod, k + 1), Twice(mod, k + 1))  BY Zenon, <1>2, <1>3, <2>2, FinishCounts
  <2> QED  BY Zenon, <1>1, <1>2, <1>3, <2>2, <2>3, FinishKeeps
<1>8. CASE ResumeTest
  <2>1. PICK o \in Outcomes : Finish(IF This = LsTest3 THEN Begun ELSE saved, o)
    BY <1>8 DEF ResumeTest, Outcomes
  <2>2. This \in RmeResets
    <3>1. LsTest3 # flag  BY <1>3 DEF IInv, FlagInv, Plain
    <3> QED  BY <1>8, <3>1 DEF ResumeTest, ResetTests
  <2>3. This # LsTest3  BY <2>2 DEF RmeResets, LsTest3
  <2>4. /\ Calling /\ counter' = Count(saved, o) /\ hist' = [hist EXCEPT ![This] = o] /\ k' = k + 1
        /\ mod' = mod /\ flag' = flag /\ saved' = saved /\ This \in RmeResets \ SkipTests /\ flag = This
    BY Zenon, <1>8, <2>1, <2>2, <2>3 DEF ResumeTest, Finish, nvm
  <2>5. Tally(counter', hist', Before(mod, k + 1), Twice(mod, k + 1))  BY Zenon, <1>2, <1>3, <2>4, ResumeCounts
  <2> QED  BY Zenon, <1>1, <1>2, <1>3, <2>4, <2>5, FinishKeeps
<1>9. CASE ArmReset  BY <1>1, <1>2, <1>3, <1>9, ArmCounts
<1>10. CASE Hang  BY <1>1, <1>2, <1>3, <1>10, HangCounts
<1>11. CASE Stopped \/ UNCHANGED vars
  <2>1. /\ mod' = mod /\ k' = k /\ counter' = counter /\ flag' = flag /\ saved' = saved /\ hist' = hist
    BY <1>11 DEF Stopped, vars, nvm, history
  <2>2. /\ Tests' = Tests /\ Calls' = Calls /\ Modules' = Modules /\ Counted' = Counted /\ Zero' = Zero
        /\ Before("end", 0)' = Before("end", 0)
    BY <1>2, SameScenario, SameCount DEF Zero, Counters
  <2>3. Here'
    <3>1. Resuming' <=> Resuming  BY <1>2, <2>1, SamePlace DEF Resuming
    <3>2. Here  BY Zenon, <1>3 DEF CountInv, Here
    <3> QED  BY Zenon, <1>2, <2>1, <3>1, <3>2, SamePlace DEF Here
  <2>4. Saved(flag, saved, hist)'  BY Zenon, <1>2, <1>3, <2>1, SamePlace DEF CountInv, Saved
  <2>5. \A t \in Tests' : hist'[t] # "NONE" => t \in Before("end", 0)'  BY <1>3, <2>1, <2>2 DEF CountInv
  <2>6. mod' \in Modules' /\ k' \in 1 .. Len(Calls[mod])' => mod' \in Counted'
    BY <1>3, <2>1, <2>2 DEF CountInv
  <2>7. mod' = "rme" /\ k' = 0 => counter' = Zero'  BY <1>3, <2>1, <2>2 DEF CountInv
  <2> QED  BY Zenon, <2>3, <2>4, <2>5, <2>6, <2>7 DEF CountInv, Here, Saved
<1> QED
  BY <1>3, <1>4, <1>5, <1>6, <1>7, <1>8, <1>9, <1>10, <1>11 DEF Next, Step

-----------------------------------------------------------------------------
LEMMA CountStarts == Init => OrderInv /\ CountInv
<1> SUFFICES ASSUME Init PROVE OrderInv /\ CountInv  OBVIOUS
<1>1. /\ sc \in Scenarios /\ mod = "rme" /\ k = 0 /\ flag = NoFlag /\ counter = Zero
      /\ hist = [t \in Tests |-> "NONE"]
  BY DEF Init
<1>2. NoFlag \notin ResetTests /\ NoFlag \notin RmeResets  BY DEF NoFlag, ResetTests, RmeResets, LsTest3
<1>3. \A t \in RmeResets : ~(k >= Resume("rme", t))
  <2> SUFFICES ASSUME NEW t \in RmeResets PROVE ~(k >= Resume("rme", t))  OBVIOUS
  <2>1. Resume("rme", t) \in 2 .. Len(RmeCalls)  BY <1>1, RmeFacts
  <2> QED  BY <1>1, <2>1
<1>4. OrderInv  BY ZenonT(30), <1>1, <1>2, <1>3 DEF OrderInv
<1>5. CountInv  BY <1>1, <1>2 DEF CountInv
<1> QED  BY <1>4, <1>5

LEMMA CountInvariance == Spec => [](IInv /\ OrderInv /\ CountInv)
<1>1. Init => IInv /\ OrderInv /\ CountInv  BY InitHolds, CountStarts
<1>2. IInv /\ OrderInv /\ CountInv /\ [Next]_vars => (IInv /\ OrderInv /\ CountInv)'
  BY NextKeeps, OrderStep, CountKeeps
<1> QED  BY <1>1, <1>2, PTL DEF Spec

\* The summary of a first run counts every test once, with its last outcome, and
\* a reset test that was left out by its number once more: the counters that
\* val_save_global_test_data wrote before a reset are those of the tests before
\* it, whatever was run, hung and thrown away since.
THEOREM CountersAreRight == Spec => []CountedOnce
<1>1. ASSUME IInv, CountInv PROVE CountedOnce
  <2> DEFINE Of(os) == {t \in Tests : hist[t] \in os}
             Again == RmeResets \cap SkipTests \cap Selected
  <2>1. SUFFICES ASSUME mod = "end", Plain
                 PROVE  /\ counter["total"] = Cardinality(Of(Outcomes)) + Cardinality(Again)
                        /\ counter["pass"] = Cardinality(Of({"PASS"}))
                        /\ counter["fail"] = Cardinality(Of({"FAIL"}))
    BY DEF CountedOnce, Complete, Plain
  <2>2. sc \in Scenarios /\ hist \in [Tests -> Outcomes \cup {"NONE"}]  BY <1>1 DEF IInv, TypeInv
  <2>3. ~Resuming  BY <2>1 DEF Resuming
  <2>4. Tally(counter, hist, Before("end", k), Twice("end", k))  BY <1>1, <2>1, <2>3, Standing
  <2>5. Before("end", k) = Before("end", 0)
    <3>1. "end" \notin Counted  BY CallsFacts DEF Counted
    <3> QED  BY Zenon, <3>1 DEF Before
  <2>6. Before("end", k) = Of(Outcomes)
    <3>1. "NONE" \notin Outcomes  BY DEF Outcomes
    <3>2. \A t \in Tests : hist[t] # "NONE" <=> hist[t] \in Outcomes  BY ZenonT(30), <2>2, <3>1
    <3>3. \A t \in Tests : hist[t] # "NONE" => t \in Before("end", k)  BY ZenonT(30), <1>1, <2>1, <2>5 DEF CountInv
    <3>4. \A t \in Before("end", k) : t \in Tests /\ hist[t] # "NONE"  BY ZenonT(30), <2>4 DEF Tally, Before
    <3> QED  BY Zenon, <3>2, <3>3, <3>4
  <2>7. Of({"PASS"}) = {t \in Before("end", k) : hist[t] = "PASS"} /\ Of({"FAIL"}) = {t \in Before("end", k) : hist[t] = "FAIL"}
    BY <2>6 DEF Outcomes
  <2>8. Twice("end", k) = Again
    <3>1. ASSUME NEW t \in RmeResets PROVE t \in Selected <=> "rme" \in Counted
      <4>1. ~LegacyTz  BY <2>1 DEF Plain
      <4>2. ASSUME t \in Selected PROVE "rme" \in Counted
        <5>1. PICK m \in Modules \ SkipModules : t \in {Calls[m][i] : i \in DOMAIN Calls[m]}
          BY ZenonT(30), <4>2 DEF Selected
        <5>2. PICK i \in 1 .. Len(Calls[m]) : t = Calls[m][i]  BY ZenonT(30), <2>2, <5>1, ListFacts
        <5>3. m = "rme"  BY <2>2, <5>2, WhereResets
        <5> QED  BY ZenonT(30), <5>1, <5>3 DEF Counted
      <4>3. ASSUME "rme" \in Counted PROVE t \in Selected
        <5>1. Resume("rme", t) \in 2 .. Len(RmeCalls) /\ RmeCalls[Resume("rme", t)] = t  BY <2>2, RmeFacts
        <5>2. "rme" \in Modules \ SkipModules  BY ZenonT(30), <4>3 DEF Counted
        <5>3. PICK i \in DOMAIN Calls["rme"] : Calls["rme"][i] = t
          BY <2>2, <5>1, <5>2, CallsFacts, ListFacts
        <5> QED  BY <5>2, <5>3 DEF Selected
      <4> QED  BY <4>2, <4>3
    <3>2. \A t : t \in Twice("end", k) <=> t \in RmeResets \cap SkipTests /\ "rme" \in Counted  BY DEF Twice
    <3> QED  BY Zenon, <3>1, <3>2
  <2> HIDE DEF Of, Again
  <2> QED  BY Zenon, <2>4, <2>6, <2>7, <2>8 DEF Tally
<1> QED  BY <1>1, CountInvariance, PTL
=============================================================================
