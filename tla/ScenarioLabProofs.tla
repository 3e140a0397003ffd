--------------------------- MODULE ScenarioLabProofs ---------------------------
(***************************************************************************)
(* Proofs about the Scenario Lab, for any definitions, any engine behind   *)
(* it, and any number of presets, versions and steps of other tabs.        *)
(***************************************************************************)
EXTENDS ScenarioLab, SequenceTheorems, WellFoundedInduction, TLAPS

\* Two outcomes of the engine.
Outcomes == {Plan(def, scenario) : def \in Definitions, scenario \in Scenarios}

Preset == [id : Nat, a : Scenarios, b : Scenarios]

FormsInv == draft \in Definitions /\ forms \in [A : Forms, B : Forms] /\ mode \in {"scenarios", "versions"}

\* The presets in the store and in the dialog are scenarios of forms, and the store is never
\* larger than what a reader keeps of it.
StoreInv ==
  /\ stored \in Seq(Preset) /\ Len(stored) <= MAX_SCENARIO_PRESETS /\ presets \in Seq(Preset)
  /\ selectedPreset \in Nat /\ lastPreset \in Nat

\* What is selected or has been loaded is a version that was published.
VersionInv ==
  /\ published \in Seq(Definitions)
  /\ versions \in Seq(Nat) /\ \A i \in 1..Len(versions) : versions[i] \in 1..Len(published)
  /\ selectedVersion \in 0..Len(published) /\ DOMAIN snapshots \subseteq 1..Len(published)
  /\ result # NoResult /\ mode = "versions" => selectedVersion # 0

\* What is on the screen was compared: two runs that the engine made.
CasesInv ==
  result # NoResult =>
    \A i \in DOMAIN result.cases : \E baseline, candidate \in Outcomes :
      /\ IsOutcome(baseline) /\ IsOutcome(candidate)
      /\ result.cases[i] = compareScenarioOutcomes(baseline, candidate)

IInv == FormsInv /\ StoreInv /\ VersionInv /\ ResultIsOfTheForms /\ CasesInv

-------------------------------------------------------------------------------
(* The filter of the presets.                                              *)

\* A set of numbers that is not empty has a least one.
LEMMA LeastNumber ==
  ASSUME NEW T \in SUBSET Nat, T # {}
  PROVE  \E n \in T : \A m \in T : n <= m
<1>1. PICK n \in T : \A m \in T : <<m, n>> \notin OpToRel(<, Nat)
  BY NatLessThanWellFounded, WFMin, Zenon
<1>2. \A m \in T : ~(m < n)
  BY <1>1 DEF OpToRel
<1> QED
  BY <1>2

\* The filter on the first n presets of a list.
Filters(list, id, n, kept) ==
  kept = [m \in 0..n |-> IF m = 0 THEN <<>> ELSE IF list[m].id = id THEN kept[m - 1] ELSE Append(kept[m - 1], list[m])]

\* It is defined for a list of any length.
LEMMA FilterExists ==
  ASSUME NEW list, NEW id, NEW n \in Nat
  PROVE  \E kept : Filters(list, id, n, kept)
<1> DEFINE T == {m \in Nat : ~ \E kept : Filters(list, id, m, kept)}
<1> SUFFICES ASSUME T # {} PROVE FALSE
  OBVIOUS
<1>1. PICK m \in T : \A k \in T : m <= k
  BY LeastNumber, Zenon
<1>2. CASE m = 0
  <2>1. Filters(list, id, 0, [k \in 0..0 |-> <<>>])
    BY DEF Filters
  <2> QED
    BY <1>1, <1>2, <2>1
<1>3. CASE m # 0
  <2>1. m - 1 \in Nat /\ m - 1 \notin T
    BY <1>1, <1>3
  <2>2. PICK kept : Filters(list, id, m - 1, kept)
    BY <2>1
  <2> DEFINE more == [k \in 0..m |-> IF k < m THEN kept[k] ELSE IF list[m].id = id THEN kept[m - 1]
                                     ELSE Append(kept[m - 1], list[m])]
  <2>3. \A k \in 0..m - 1 : kept[k] = IF k = 0 THEN <<>> ELSE IF list[k].id = id THEN kept[k - 1]
                                      ELSE Append(kept[k - 1], list[k])
    BY <2>2 DEF Filters
  <2>4. \A k \in 1..m : more[k - 1] = kept[k - 1]
    BY <1>1
  <2>5. \A k \in 0..m : more[k] = IF k = 0 THEN <<>> ELSE IF list[k].id = id THEN more[k - 1]
                                  ELSE Append(more[k - 1], list[k])
    BY <1>1, <1>3, <2>3, <2>4
  <2>6. Filters(list, id, m, more)
    BY <2>5 DEF Filters
  <2> QED
    BY <1>1, <2>6
<1> QED
  BY <1>2, <1>3

\* The filter at one more preset.
LEMMA FilterUnfolds ==
  ASSUME NEW list, NEW id, NEW n \in Nat, NEW kept, Filters(list, id, n, kept)
  PROVE  /\ kept[0] = <<>>
         /\ \A m \in 1..n : kept[m] = IF list[m].id = id THEN kept[m - 1] ELSE Append(kept[m - 1], list[m])
<1> DEFINE one == [m \in 0..n |-> IF m = 0 THEN <<>> ELSE IF list[m].id = id THEN kept[m - 1]
                                  ELSE Append(kept[m - 1], list[m])]
<1>1. kept = one
  BY DEF Filters
<1>2. /\ one[0] = <<>>
      /\ \A m \in 1..n : one[m] = IF list[m].id = id THEN kept[m - 1] ELSE Append(kept[m - 1], list[m])
  OBVIOUS
<1> HIDE DEF one
<1> QED
  BY <1>1, <1>2

\* A store that is not too large is read whole.
LEMMA ReadsAll ==
  ASSUME NEW S, NEW store \in Seq(S), Len(store) <= MAX_SCENARIO_PRESETS
  PROVE  listScenarioPresets(store) = store
<1>1. MAX_SCENARIO_PRESETS \in Nat /\ Len(store) \in Nat
  BY LabAssumption
<1>2. listScenarioPresets(store) = SubSeq(store, 1, Len(store))
  BY <1>1 DEF listScenarioPresets
<1> QED
  BY <1>1, <1>2, SubSeqFull

\* What deleteScenarioPreset leaves: every preset of another identifier, no later than it was, and
\* a shorter list if there was one of this.
LEMMA WithoutProperties ==
  ASSUME NEW S, NEW store \in Seq(S), NEW id, Len(store) <= MAX_SCENARIO_PRESETS
  PROVE  /\ Without(store, id) \in Seq(S) /\ Len(Without(store, id)) <= Len(store)
         /\ \A i \in 1..Len(store) :
              IF store[i].id = id THEN Len(Without(store, id)) < Len(store)
              ELSE \E j \in 1..i : j <= Len(Without(store, id)) /\ Without(store, id)[j] = store[i]
<1> DEFINE f == CHOOSE kept : Filters(store, id, Len(store), kept)
<1>1. Len(store) \in Nat /\ \A i \in 1..Len(store) : store[i] \in S
  BY ElementOfSeq
<1>2. Filters(store, id, Len(store), f)
  BY <1>1, FilterExists
<1>3. Without(store, id) = f[Len(store)]
  BY ReadsAll, ZenonT(30) DEF Without, Filters
<1> HIDE DEF f
<1> DEFINE Good(n) ==
             /\ f[n] \in Seq(S) /\ Len(f[n]) <= n
             /\ \A i \in 1..n : IF store[i].id = id THEN Len(f[n]) < n
                                ELSE \E j \in 1..i : j <= Len(f[n]) /\ f[n][j] = store[i]
           T == {n \in 0..Len(store) : ~Good(n)}
<1>4. f[0] = <<>> /\ \A n \in 1..Len(store) : f[n] = IF store[n].id = id THEN f[n - 1] ELSE Append(f[n - 1], store[n])
  BY <1>1, <1>2, FilterUnfolds
<1>5. Good(0)
  BY <1>4
<1>6. ASSUME NEW n \in 1..Len(store), Good(n - 1) PROVE Good(n)
  <2>1. CASE store[n].id = id
    <3>1. f[n] = f[n - 1]
      BY <1>4, <2>1
    <3>2. Len(f[n]) \in Nat /\ Len(f[n]) < n
      BY <1>1, <1>6, <3>1
    <3> QED
      BY <1>1, <1>6, <2>1, <3>1, <3>2
  <2>2. CASE store[n].id # id
    <3>1. f[n] = Append(f[n - 1], store[n]) /\ store[n] \in S /\ f[n - 1] \in Seq(S)
      BY <1>1, <1>4, <1>6, <2>2
    <3>2. /\ f[n] \in Seq(S)
          /\ Len(f[n - 1]) \in Nat /\ Len(f[n]) = Len(f[n - 1]) + 1 /\ f[n][Len(f[n - 1]) + 1] = store[n]
          /\ \A i \in 1..Len(f[n - 1]) : f[n][i] = f[n - 1][i]
      BY <3>1, AppendProperties
    <3>3. ASSUME NEW i \in 1..n
          PROVE  IF store[i].id = id THEN Len(f[n]) < n ELSE \E j \in 1..i : j <= Len(f[n]) /\ f[n][j] = store[i]
      <4>1. CASE i = n
        BY <1>6, <2>2, <3>2, <4>1
      <4>2. CASE i # n
        <5>1. i \in 1..n - 1
          BY <4>2
        <5> QED
          BY <1>6, <3>2, <5>1
      <4> QED
        BY <4>1, <4>2
    <3> QED
      BY <1>6, <3>2, <3>3
  <2> QED
    BY <2>1, <2>2
<1>7. T = {}
  <2> SUFFICES ASSUME T # {} PROVE FALSE
    OBVIOUS
  <2>1. T \in SUBSET Nat
    OBVIOUS
  <2> HIDE DEF Good
  <2>2. PICK n \in T : \A m \in T : n <= m
    BY <2>1, LeastNumber, Zenon
  <2>3. n # 0 /\ n \in 1..Len(store) /\ n - 1 \in 0..Len(store)
    BY <1>1, <1>5, <2>2
  <2>4. n - 1 \notin T
    BY <2>2, <2>3
  <2> QED
    BY <1>6, <2>2, <2>3, <2>4
<1>8. Good(Len(store))
  BY <1>1, <1>7
<1> QED
  BY <1>3, <1>8

\* What saveScenarioPreset leaves: the new preset, and all others but the last one of a full store.
LEMMA KeptProperties ==
  ASSUME NEW S, NEW store \in Seq(S), NEW p \in S, Len(store) <= MAX_SCENARIO_PRESETS
  PROVE  /\ Kept(store, p) \in Seq(S) /\ Len(Kept(store, p)) <= MAX_SCENARIO_PRESETS
         /\ \A i \in 1..Len(store) :
              \/ \E j \in 1..Len(Kept(store, p)) : Kept(store, p)[j].id = store[i].id
              \/ i = Len(store) /\ Len(store) = MAX_SCENARIO_PRESETS
<1> DEFINE rest == Without(store, p.id)
           all  == <<p>> \o rest
           n    == IF Len(all) < MAX_SCENARIO_PRESETS THEN Len(all) ELSE MAX_SCENARIO_PRESETS
<1>1. MAX_SCENARIO_PRESETS \in Nat \ {0} /\ Len(store) \in Nat
  BY LabAssumption
<1>2. /\ rest \in Seq(S) /\ Len(rest) <= Len(store)
      /\ \A i \in 1..Len(store) : IF store[i].id = p.id THEN Len(rest) < Len(store)
                                  ELSE \E j \in 1..i : j <= Len(rest) /\ rest[j] = store[i]
  BY WithoutProperties
<1> HIDE DEF rest
<1>3. /\ <<p>> \in Seq(S) /\ Len(<<p>>) = 1 /\ <<p>>[1] = p
  OBVIOUS
<1>4. /\ all \in Seq(S) /\ Len(all) = Len(rest) + 1 /\ Len(rest) \in Nat
      /\ all[1] = p /\ \A j \in 1..Len(rest) : all[j + 1] = rest[j]
  BY <1>2, <1>3, ConcatProperties
<1>5. Kept(store, p) = SubSeq(all, 1, n)
  BY DEF Kept, listScenarioPresets, rest
<1> HIDE DEF all
<1>6. n \in 1..Len(all) /\ n <= MAX_SCENARIO_PRESETS /\ (n < Len(all) => n = MAX_SCENARIO_PRESETS)
  BY <1>1, <1>4
<1> HIDE DEF n
<1>7. \A i \in 1..n : all[i] \in S
  BY <1>4, <1>6
<1>8. /\ SubSeq(all, 1, n) \in Seq(S) /\ Len(SubSeq(all, 1, n)) = n
      /\ \A i \in 1..n : SubSeq(all, 1, n)[i] = all[i]
  <2>1. 1 \in Int /\ n \in Int /\ 1 <= n /\ n - 1 + 1 = n
    BY <1>6
  <2>2. /\ SubSeq(all, 1, n) \in Seq(S) /\ Len(SubSeq(all, 1, n)) = n
        /\ \A i \in 1..n : SubSeq(all, 1, n)[i] = all[1 + i - 1]
    BY <1>7, <2>1, SubSeqProperties
  <2> QED
    BY <2>2, <2>1
<1>9. ASSUME NEW i \in 1..Len(store)
      PROVE  \/ \E j \in 1..n : all[j].id = store[i].id
             \/ i = Len(store) /\ Len(store) = MAX_SCENARIO_PRESETS
  <2>1. CASE store[i].id = p.id
    BY <1>4, <1>6, <2>1
  <2>2. CASE store[i].id # p.id
    <3>1. PICK j \in 1..i : j <= Len(rest) /\ rest[j] = store[i]
      BY <1>2, <2>2
    <3>2. CASE j + 1 <= n
      BY <1>4, <3>1, <3>2
    <3>3. CASE j + 1 > n
      BY <1>1, <1>2, <1>4, <1>6, <3>1, <3>3
    <3> QED
      BY <1>6, <3>2, <3>3
  <2> QED
    BY <2>1, <2>2
<1> QED
  BY <1>5, <1>6, <1>8, <1>9

-------------------------------------------------------------------------------
(* The comparison.                                                         *)

\* Two paths diverge somewhere unless they are the same.
LEMMA DivergenceTells ==
  ASSUME NEW S, NEW T, NEW p \in Seq(S), NEW q \in Seq(T)
  PROVE  firstDivergence(p, q) = 0 <=> p = q
<1> DEFINE longest == IF Len(p) > Len(q) THEN Len(p) ELSE Len(q)
           differ  == {i \in 1..longest : i > Len(p) \/ i > Len(q) \/ (i <= Len(p) /\ i <= Len(q) /\ p[i] # q[i])}
<1>1. Len(p) \in Nat /\ Len(q) \in Nat
  OBVIOUS
<1>2. firstDivergence(p, q) = IF differ = {} THEN 0 ELSE CHOOSE i \in differ : \A j \in differ : i <= j
  BY DEF firstDivergence
<1>3. differ \in SUBSET Nat /\ 0 \notin differ
  BY <1>1
<1>4. ASSUME differ = {} PROVE p = q
  <2>1. Len(p) = Len(q)
    <3>1. CASE Len(p) > Len(q)
      <4>1. Len(p) \in differ
        BY <1>1, <3>1
      <4> QED
        BY <1>4, <4>1
    <3>2. CASE Len(p) < Len(q)
      <4>1. Len(q) \in differ
        BY <1>1, <3>2
      <4> QED
        BY <1>4, <4>1
    <3> QED
      BY <1>1, <3>1, <3>2
  <2>2. ASSUME NEW i \in 1..Len(p) PROVE p[i] = q[i]
    <3>1. i \notin differ
      BY <1>4
    <3> QED
      BY <1>1, <2>1, <3>1
  <2> QED
    BY <2>1, <2>2
<1>5. ASSUME p = q PROVE differ = {}
  BY <1>1, <1>5
<1>6. ASSUME differ # {} PROVE (CHOOSE i \in differ : \A j \in differ : i <= j) # 0
  <2> HIDE DEF differ
  <2>1. \E i \in differ : \A j \in differ : i <= j
    BY <1>3, <1>6, LeastNumber, Zenon
  <2>2. (CHOOSE i \in differ : \A j \in differ : i <= j) \in differ
    BY <2>1
  <2> QED
    BY <1>3, <2>2
<1> HIDE DEF differ
<1> QED
  BY <1>2, <1>4, <1>5, <1>6

\* Exchanging the sides exchanges regression and improvement, and nothing is unchanged that is not.
LEMMA VerdictsAreFair ==
  ASSUME NEW b, NEW c, IsOutcome(b), IsOutcome(c)
  PROVE  /\ (Verdict(b, c) = "regression") = (Verdict(c, b) = "improvement")
         /\ (Verdict(b, c) = "unchanged") = (Verdict(c, b) = "unchanged")
         /\ Verdict(b, c) = "regression" => c.status # "completed"
         /\ Verdict(b, c) = "unchanged" => b = c /\ firstDivergence(b.path, c.path) = 0
<1>1. b.path \in Seq(ToSet(b.path)) /\ c.path \in Seq(ToSet(c.path))
  BY DEF IsOutcome
<1>2. /\ firstDivergence(b.path, c.path) = 0 <=> b.path = c.path
      /\ firstDivergence(c.path, b.path) = 0 <=> c.path = b.path
  BY <1>1, DivergenceTells
<1>3. /\ b = [status |-> b.status, path |-> b.path, duration |-> b.duration, events |-> b.events]
      /\ c = [status |-> c.status, path |-> c.path, duration |-> c.duration, events |-> c.events]
  BY DEF IsOutcome
<1> DEFINE rb == outcomeRank(b.status)
           rc == outcomeRank(c.status)
           same == b.status = c.status /\ b.path = c.path /\ b.duration = c.duration /\ b.events = c.events
<1>4. rb \in 0..2 /\ rc \in 0..2 /\ (c.status = "completed" => rc = 2)
  BY DEF outcomeRank
<1>5. /\ Verdict(b, c) = IF rc < rb THEN "regression" ELSE IF rc > rb THEN "improvement"
                         ELSE IF same THEN "unchanged" ELSE "changed"
      /\ Verdict(c, b) = IF rb < rc THEN "regression" ELSE IF rb > rc THEN "improvement"
                         ELSE IF same THEN "unchanged" ELSE "changed"
  <2> HIDE DEF same
  <2>1. (\/ b.status # c.status \/ firstDivergence(b.path, c.path) # 0
         \/ c.duration # b.duration \/ c.events # b.events) <=> ~same
    BY <1>2 DEF same
  <2>2. (\/ c.status # b.status \/ firstDivergence(c.path, b.path) # 0
         \/ b.duration # c.duration \/ b.events # c.events) <=> ~same
    BY <1>2 DEF same
  <2>3. rb - rc \in Int /\ rc - rb \in Int /\ (rc - rb < 0 <=> rc < rb) /\ (rc - rb > 0 <=> rc > rb)
        /\ (rb - rc < 0 <=> rb < rc) /\ (rb - rc > 0 <=> rb > rc) /\ ~(rc < rb /\ rc > rb)
    BY <1>4
  <2> HIDE DEF rb, rc
  <2> QED
    BY <2>1, <2>2, <2>3 DEF Verdict, rb, rc
<1>6. same => b = c
  BY <1>3
<1> HIDE DEF rb, rc
<1> QED
  BY <1>2, <1>4, <1>5, <1>6

\* What is on the screen was compared, so its verdicts are fair.
LEMMA CasesAreFair == CasesInv => VerdictIsFair
<1> SUFFICES ASSUME CasesInv, result # NoResult, NEW i \in DOMAIN result.cases
             PROVE  LET c == result.cases[i]
                        mirrored == Verdict(c.candidate, c.baseline)
                    IN  /\ (c.verdict = "regression") = (mirrored = "improvement")
                        /\ (c.verdict = "unchanged") = (mirrored = "unchanged")
                        /\ c.verdict = "regression" => c.candidate.status # "completed"
                        /\ c.verdict = "unchanged" => c.baseline = c.candidate /\ c.divergence = 0 /\ c.added \cup c.removed = {}
  BY DEF VerdictIsFair
<1>1. PICK b \in Outcomes, c \in Outcomes :
        IsOutcome(b) /\ IsOutcome(c) /\ result.cases[i] = compareScenarioOutcomes(b, c)
  BY DEF CasesInv
<1> DEFINE r == compareScenarioOutcomes(b, c)
<1>2. /\ r.baseline = b /\ r.candidate = c /\ r.verdict = Verdict(b, c)
      /\ r.divergence = firstDivergence(b.path, c.path)
      /\ r.added = ToSet(c.path) \ ToSet(b.path) /\ r.removed = ToSet(b.path) \ ToSet(c.path)
  BY DEF compareScenarioOutcomes
<1>3. result.cases[i] = r
  BY <1>1
<1> HIDE DEF r
<1>4. b = c => r.added \cup r.removed = {}
  BY <1>2
<1> QED
  BY <1>1, <1>2, <1>3, <1>4, VerdictsAreFair

-------------------------------------------------------------------------------
(* Forms.                                                                  *)

\* The fields of a form.
LEMMA FieldsOfForms ==
  ASSUME NEW f \in Forms
  PROVE  DOMAIN f = {"name", "input", "triggerId", "failedNodeId", "forcedNodeId", "forcedEdgeId"}
BY DEF Forms

\* What the dialog opens with.
LEMMA InitialForms == initialForm("base") \in Forms /\ initialForm("alternative") \in Forms
BY DEF initialForm, Forms

\* A field takes what is offered for it.
LEMMA ChangedForm ==
  ASSUME draft \in Definitions, NEW f \in Forms, NEW field \in DOMAIN f, NEW value \in Offered(field, f)
  PROVE  Changed(f, field, value) \in Forms
<1>1. CASE field = "name"
  BY <1>1 DEF Changed, Offered, Forms
<1>2. CASE field = "input"
  BY <1>2 DEF Changed, Offered, Forms
<1>3. CASE field = "triggerId"
  <2>1. value \in {""} \cup UNION {d.triggers : d \in Definitions}
    BY <1>3 DEF Offered
  <2> QED
    BY <1>3, <2>1 DEF Changed, Forms
<1>4. CASE field = "failedNodeId"
  <2>1. value \in {""} \cup UNION {d.failable : d \in Definitions}
    BY <1>4 DEF Offered
  <2> QED
    BY <1>4, <2>1 DEF Changed, Forms
<1>5. CASE field = "forcedNodeId"
  <2>1. value \in {""} \cup UNION {d.decisions : d \in Definitions}
    BY <1>5 DEF Offered
  <2> QED
    BY <1>5, <2>1 DEF Changed, Forms
<1>6. CASE field = "forcedEdgeId"
  <2>1. value \in {""} \cup UNION {DOMAIN d.edges : d \in Definitions}
    BY <1>6 DEF Offered
  <2> QED
    BY <1>6, <2>1 DEF Changed, Forms
<1> QED
  BY <1>1, <1>2, <1>3, <1>4, <1>5, <1>6, FieldsOfForms

\* A scenario that is read back into a form is the scenario of that form.
LEMMA ReadBack ==
  ASSUME NEW s \in Scenarios
  PROVE  formFromScenario(s) \in Forms /\ parseScenario(formFromScenario(s)) = s
<1>1. PICK f \in Forms : s = parseScenario(f)
  BY DEF Scenarios
<1> DEFINE node  == IF s.failed = {} THEN "" ELSE CHOOSE n \in s.failed : TRUE
           route == IF s.forced = {} THEN <<"", "">> ELSE CHOOSE r \in s.forced : TRUE
           back  == [name |-> s.name, input |-> s.input, triggerId |-> s.triggerId, failedNodeId |-> node,
                     forcedNodeId |-> route[1], forcedEdgeId |-> route[2]]
<1>2. formFromScenario(s) = back
  BY DEF formFromScenario
<1>3. /\ s.name = f.name /\ s.input = f.input /\ s.triggerId = f.triggerId
      /\ s.failed = {f.failedNodeId} \ {""}
      /\ s.forced = IF "" \in {f.forcedNodeId, f.forcedEdgeId} THEN {} ELSE {<<f.forcedNodeId, f.forcedEdgeId>>}
      /\ s = [name |-> s.name, input |-> s.input, triggerId |-> s.triggerId, failed |-> s.failed, forced |-> s.forced]
  BY <1>1 DEF parseScenario
<1>4. node = f.failedNodeId
  BY <1>3
<1>5. route = IF "" \in {f.forcedNodeId, f.forcedEdgeId} THEN <<"", "">> ELSE <<f.forcedNodeId, f.forcedEdgeId>>
  BY <1>3
<1> HIDE DEF node, route
<1>6. back \in Forms
  BY <1>3, <1>4, <1>5 DEF Forms
<1>7. /\ back.name = s.name /\ back.input = s.input /\ back.triggerId = s.triggerId /\ back.failedNodeId = node
      /\ back.forcedNodeId = route[1] /\ back.forcedEdgeId = route[2]
  OBVIOUS
<1> HIDE DEF back
<1>8. {back.failedNodeId} \ {""} = s.failed
  BY <1>3, <1>4, <1>7
<1>9. (IF "" \in {back.forcedNodeId, back.forcedEdgeId} THEN {} ELSE {<<back.forcedNodeId, back.forcedEdgeId>>}) = s.forced
  <2>1. CASE "" \in {f.forcedNodeId, f.forcedEdgeId}
    BY <1>3, <1>5, <1>7, <2>1
  <2>2. CASE "" \notin {f.forcedNodeId, f.forcedEdgeId}
    <3>1. back.forcedNodeId = f.forcedNodeId /\ back.forcedEdgeId = f.forcedEdgeId
      BY <1>5, <1>7, <2>2
    <3> QED
      BY <1>3, <2>2, <3>1
  <2> QED
    BY <2>1, <2>2
<1> QED
  BY <1>2, <1>3, <1>6, <1>7, <1>8, <1>9 DEF parseScenario

\* What is in a list.
LEMMA MemberOfSeq == ASSUME NEW S, NEW s \in Seq(S), NEW x \in ToSet(s) PROVE x \in S /\ \E i \in 1..Len(s) : x = s[i]
<1>1. PICK i \in DOMAIN s : x = s[i]
  BY DEF ToSet
<1>2. DOMAIN s = 1..Len(s)
  OBVIOUS
<1> QED
  BY <1>1, <1>2, ElementOfSeq

\* The forms stay forms.
LEMMA FormsStep ==
  ASSUME IInv, [Next]_vars
  PROVE  FormsInv'
<1>1. FormsInv /\ presets \in Seq(Preset)
  BY DEF IInv, StoreInv
<1>2. CASE ChangeForm
  <2>1. PICK side \in {"A", "B"}, field \in DOMAIN forms.A : \E value \in Offered(field, forms[side]) \ {forms[side][field]} :
          forms' = [forms EXCEPT ![side] = Changed(@, field, value)]
    BY <1>2 DEF ChangeForm
  <2>2. PICK value \in Offered(field, forms[side]) : forms' = [forms EXCEPT ![side] = Changed(@, field, value)]
    BY <2>1
  <2>3. forms.A \in Forms /\ forms.B \in Forms /\ forms[side] \in Forms /\ field \in DOMAIN forms[side]
    BY <1>1, FieldsOfForms DEF FormsInv
  <2>4. Changed(forms[side], field, value) \in Forms
    BY <1>1, <2>3, ChangedForm DEF FormsInv
  <2>5. forms' \in [A : Forms, B : Forms]
    BY <1>1, <2>2, <2>4 DEF FormsInv
  <2> QED
    BY <1>1, <1>2, <2>5 DEF FormsInv, ChangeForm, world
<1>3. CASE loadPreset
  <2>1. PICK p \in ToSet(presets) : forms' = [A |-> formFromScenario(p.a), B |-> formFromScenario(p.b)]
    BY <1>3 DEF loadPreset
  <2>2. p \in Preset
    BY <1>1, <2>1, MemberOfSeq
  <2>3. p.a \in Scenarios /\ p.b \in Scenarios
    BY <2>2 DEF Preset
  <2>4. forms' \in [A : Forms, B : Forms]
    BY <2>1, <2>3, ReadBack
  <2> QED
    BY <1>1, <1>3, <2>4 DEF FormsInv, loadPreset, world
<1>4. CASE EditDraft \/ PublishDraft \/ OtherTab
  BY <1>1, <1>4 DEF FormsInv, EditDraft, PublishDraft, OtherTab, Around
<1>5. CASE SelectMode
  BY <1>1, <1>5 DEF FormsInv, SelectMode, world
<1>6. CASE OpenLab \/ CloseLab \/ ChooseVersion \/ VersionsLoaded \/ SnapshotLoaded
  BY <1>1, <1>6 DEF FormsInv, OpenLab, CloseLab, ChooseVersion, VersionsLoaded, SnapshotLoaded, world
<1>7. CASE executeComparison \/ savePreset \/ choosePreset \/ removePreset \/ replay
  BY <1>1, <1>7 DEF FormsInv, executeComparison, savePreset, choosePreset, removePreset, replay, CloseLab, world
<1>8. CASE UNCHANGED vars
  BY <1>1, <1>8 DEF FormsInv, vars
<1> QED
  BY <1>2, <1>3, <1>4, <1>5, <1>6, <1>7, <1>8 DEF Next

-------------------------------------------------------------------------------
(* Presets.                                                                *)

\* What is read of a store is a list of presets that fits the store.
LEMMA ListTyped ==
  ASSUME NEW store \in Seq(Preset), Len(store) <= MAX_SCENARIO_PRESETS
  PROVE  listScenarioPresets(store) \in Seq(Preset)
BY ReadsAll

\* A store that something was deleted from.
LEMMA DeletingTyped ==
  ASSUME StoreInv, NEW id
  PROVE  Without(stored, id) \in Seq(Preset) /\ Len(Without(stored, id)) <= MAX_SCENARIO_PRESETS
<1>1. stored \in Seq(Preset) /\ Len(stored) <= MAX_SCENARIO_PRESETS
  BY DEF StoreInv
<1>2. Without(stored, id) \in Seq(Preset) /\ Len(Without(stored, id)) <= Len(stored)
  BY <1>1, WithoutProperties
<1>3. MAX_SCENARIO_PRESETS \in Nat /\ Len(stored) \in Nat /\ Len(Without(stored, id)) \in Nat
  BY <1>1, <1>2, LabAssumption
<1> QED
  BY <1>1, <1>2, <1>3

\* A store that was written has its size.
LEMMA SavingTyped ==
  ASSUME StoreInv, NEW p \in Preset
  PROVE  Kept(stored, p) \in Seq(Preset) /\ Len(Kept(stored, p)) <= MAX_SCENARIO_PRESETS
BY KeptProperties DEF StoreInv

\* A form that is saved.
LEMMA SavedForms ==
  ASSUME NEW a \in Forms, NEW b \in Forms, NEW id \in Nat
  PROVE  [id |-> id, a |-> parseScenario(a), b |-> parseScenario(b)] \in Preset
BY DEF Preset, Scenarios

\* The stores stay lists of presets.
LEMMA StoreStep ==
  ASSUME IInv, [Next]_vars
  PROVE  StoreInv'
<1>1. StoreInv /\ forms.A \in Forms /\ forms.B \in Forms
  BY DEF IInv, FormsInv
<1>2. CASE OpenLab
  <2>1. presets' = listScenarioPresets(stored) /\ UNCHANGED <<stored, selectedPreset, lastPreset>>
    BY <1>2 DEF OpenLab
  <2> QED
    BY <1>1, <2>1, ListTyped DEF StoreInv
<1>3. CASE savePreset
  <2> DEFINE id == IF selectedPreset # 0 THEN selectedPreset ELSE lastPreset + 1
             p  == [id |-> id, a |-> parseScenario(forms.A), b |-> parseScenario(forms.B)]
  <2>1. /\ stored' = Kept(stored, p) /\ selectedPreset' = id /\ lastPreset' = IF id > lastPreset THEN id ELSE lastPreset
        /\ presets' = listScenarioPresets(stored')
    BY <1>3 DEF savePreset
  <2>2. id \in Nat
    BY <1>1 DEF StoreInv
  <2> HIDE DEF id
  <2>3. p \in Preset
    BY <1>1, <2>2, SavedForms
  <2> HIDE DEF p
  <2>4. stored' \in Seq(Preset) /\ Len(stored') <= MAX_SCENARIO_PRESETS
    BY <1>1, <2>1, <2>3, SavingTyped
  <2>5. presets' \in Seq(Preset)
    BY <2>1, <2>4, ListTyped
  <2> QED
    BY <1>1, <2>1, <2>2, <2>4, <2>5 DEF StoreInv
<1>4. CASE choosePreset
  <2>1. PICK id \in ({p.id : p \in ToSet(presets)} \cup {0}) : selectedPreset' = id
    BY <1>4 DEF choosePreset
  <2>2. \A p \in ToSet(presets) : p \in Preset
    BY <1>1, MemberOfSeq DEF StoreInv
  <2>3. id \in Nat
    BY <2>1, <2>2 DEF Preset
  <2> QED
    BY <1>1, <1>4, <2>1, <2>3 DEF StoreInv, choosePreset
<1>5. CASE removePreset
  <2>1. stored' = Without(stored, selectedPreset) /\ presets' = listScenarioPresets(stored') /\ selectedPreset' = 0 /\ lastPreset' = lastPreset
    BY <1>5 DEF removePreset
  <2>2. stored' \in Seq(Preset) /\ Len(stored') <= MAX_SCENARIO_PRESETS
    BY <1>1, <2>1, DeletingTyped
  <2> QED
    BY <1>1, <2>1, <2>2, ListTyped DEF StoreInv
<1>6. CASE OtherTab
  <2>1. UNCHANGED <<presets, selectedPreset>>
    BY <1>6 DEF OtherTab, Around
  <2>2. CASE \E p \in ToSet(stored) : stored' = Without(stored, p.id) /\ lastPreset' = lastPreset
    BY <1>1, <2>1, <2>2, DeletingTyped DEF StoreInv
  <2>3. CASE lastPreset' = lastPreset + 1 /\ stored' = Kept(stored, [id |-> lastPreset + 1, a |-> parseScenario(initialForm("base")),
                                                                    b |-> parseScenario(initialForm("alternative"))])
    <3>1. lastPreset + 1 \in Nat
      BY <1>1 DEF StoreInv
    <3>2. [id |-> lastPreset + 1, a |-> parseScenario(initialForm("base")), b |-> parseScenario(initialForm("alternative"))] \in Preset
      BY <3>1, InitialForms, SavedForms
    <3>3. stored' \in Seq(Preset) /\ Len(stored') <= MAX_SCENARIO_PRESETS
      BY <1>1, <2>3, <3>2, SavingTyped
    <3> QED
      BY <1>1, <2>1, <2>3, <3>1, <3>3 DEF StoreInv
  <2> QED
    BY <1>6, <2>2, <2>3 DEF OtherTab
<1>7. CASE UNCHANGED <<stored, presets, selectedPreset, lastPreset>>
  BY <1>1, <1>7 DEF StoreInv
<1>8. CASE CloseLab \/ SelectMode \/ ChangeForm \/ ChooseVersion \/ VersionsLoaded \/ SnapshotLoaded \/ executeComparison
  BY <1>7, <1>8 DEF CloseLab, SelectMode, ChangeForm, ChooseVersion, VersionsLoaded, SnapshotLoaded, executeComparison, saving
<1>9. CASE loadPreset \/ replay \/ EditDraft \/ PublishDraft \/ UNCHANGED vars
  BY <1>7, <1>9 DEF loadPreset, replay, CloseLab, EditDraft, PublishDraft, Around, saving, vars
<1> QED
  BY <1>2, <1>3, <1>4, <1>5, <1>6, <1>8, <1>9 DEF Next

-------------------------------------------------------------------------------
(* Versions.                                                               *)

\* The list of versions that is loaded has every version.
LEMMA LoadedVersions ==
  ASSUME published \in Seq(Definitions), NEW list, list = Reverse([v \in DOMAIN published |-> v])
  PROVE  /\ list \in Seq(Nat) /\ Len(list) = Len(published)
         /\ \A i \in 1..Len(list) : list[i] \in 1..Len(published)
         /\ ToSet(list) = 1..Len(published)
<1> DEFINE n == Len(published)
           s == [v \in DOMAIN published |-> v]
<1>1. n \in Nat /\ DOMAIN published = 1..n
  OBVIOUS
<1>2. s = [v \in 1..n |-> v] /\ Len(s) = n
  BY <1>1
<1>3. list = [i \in 1..n |-> s[(n - i) + 1]]
  BY <1>2 DEF Reverse
<1>4. list = [i \in 1..n |-> (n - i) + 1]
  <2>1. \A i \in 1..n : (n - i) + 1 \in 1..n /\ s[(n - i) + 1] = (n - i) + 1
    BY <1>1, <1>2
  <2> HIDE DEF s, n
  <2> QED
    BY <1>3, <2>1
<1> HIDE DEF s, n
<1>5. list \in Seq(Nat) /\ Len(list) = n /\ \A i \in 1..n : list[i] \in 1..n
  <2>1. \A i \in 1..n : (n - i) + 1 \in 1..n
    BY <1>1
  <2>2. \A i \in 1..n : list[i] \in 1..n
    BY <1>4, <2>1
  <2>3. list \in [1..n -> Nat]
    BY <1>1, <1>4
  <2>4. list \in Seq(Nat)
    BY <1>1, <2>3
  <2>5. Len(list) = n
    BY <1>1, <1>4, <2>4
  <2> QED
    BY <2>2, <2>4, <2>5
<1>6. ToSet(list) = 1..n
  <2>1. \A v \in 1..n : (n - v) + 1 \in 1..n /\ list[(n - v) + 1] = v
    BY <1>1, <1>4
  <2>2. DOMAIN list = 1..n
    BY <1>4
  <2> QED
    BY <1>5, <2>1, <2>2 DEF ToSet
<1> QED
  BY <1>5, <1>6 DEF n

\* Only versions that were published are selected and loaded.
LEMMA VersionStep ==
  ASSUME IInv, [Next]_vars
  PROVE  VersionInv'
<1>1. VersionInv /\ draft \in Definitions /\ mode \in {"scenarios", "versions"} /\ Len(published) \in Nat
  BY DEF IInv, FormsInv, VersionInv
<1>2. CASE SelectMode
  <2>1. PICK m \in {"scenarios", "versions"} : mode' = m /\ selectedVersion' = Selection(m, versions, selectedVersion)
    BY <1>2 DEF SelectMode
  <2>2. selectedVersion' \in 0..Len(published)
    BY <1>1, <2>1 DEF Selection, VersionInv
  <2> QED
    BY <1>1, <1>2, <2>2 DEF VersionInv, SelectMode, world, lists
<1>3. CASE ChooseVersion
  <2>1. PICK v \in ToSet(versions) : selectedVersion' = v
    BY <1>3 DEF ChooseVersion
  <2>2. v \in 1..Len(published)
    BY <1>1, <2>1, MemberOfSeq DEF VersionInv
  <2> QED
    BY <1>1, <1>3, <2>1, <2>2 DEF VersionInv, ChooseVersion, world, lists, ClearResult
<1>4. CASE VersionsLoaded
  <2>1. /\ versions' \in Seq(Nat) /\ Len(versions') = Len(published)
        /\ \A i \in 1..Len(versions') : versions'[i] \in 1..Len(published)
        /\ ToSet(versions') = 1..Len(published)
    BY <1>1, <1>4, LoadedVersions DEF VersionsLoaded, VersionInv
  <2>2. selectedVersion' \in 0..Len(published) /\ (selectedVersion # 0 => selectedVersion' # 0)
    BY <1>1, <1>4, <2>1, SMTT(30) DEF VersionsLoaded, Selection, VersionInv
  <2> QED
    BY <1>1, <1>4, <2>1, <2>2 DEF VersionInv, VersionsLoaded, world
<1>5. CASE SnapshotLoaded
  <2>1. DOMAIN snapshots' = DOMAIN snapshots \cup {selectedVersion} /\ selectedVersion # 0
    BY <1>5 DEF SnapshotLoaded
  <2> QED
    BY <1>1, <1>5, <2>1 DEF VersionInv, SnapshotLoaded, world
<1>6. CASE executeComparison
  BY <1>1, <1>6 DEF VersionInv, executeComparison, CanCompare, world, lists
<1>7. CASE PublishDraft
  <2>1. /\ published' = Append(published, draft)
        /\ UNCHANGED <<versions, selectedVersion, snapshots, result, mode>>
    BY <1>7 DEF PublishDraft, Around, lists
  <2>2. published' \in Seq(Definitions) /\ Len(published') = Len(published) + 1
    BY <1>1, <2>1 DEF VersionInv
  <2> QED
    BY <1>1, <2>1, <2>2 DEF VersionInv
<1>8. CASE EditDraft \/ OtherTab
  BY <1>1, <1>8 DEF VersionInv, EditDraft, OtherTab, Around, lists
<1>9. CASE OpenLab \/ ChangeForm \/ loadPreset
  BY <1>1, <1>9 DEF VersionInv, OpenLab, ChangeForm, loadPreset, ClearResult, world, lists
<1>10. CASE CloseLab \/ replay \/ savePreset \/ choosePreset \/ removePreset \/ UNCHANGED vars
  BY <1>1, <1>10 DEF VersionInv, CloseLab, replay, savePreset, choosePreset, removePreset, world, lists, vars
<1> QED
  BY <1>2, <1>3, <1>4, <1>5, <1>6, <1>7, <1>8, <1>9, <1>10 DEF Next

-------------------------------------------------------------------------------
(* Results.                                                                *)

\* Runs of scenarios of the forms are outcomes of the engine.
LEMMA RunsAreOutcomes ==
  ASSUME NEW def \in Definitions, NEW s \in Scenarios, Runs(def, s)
  PROVE  Plan(def, s) \in Outcomes /\ IsOutcome(Plan(def, s))
BY LabAssumption DEF Outcomes

\* What executeComparison shows was asked for by the screen.
LEMMA ComparedIsSound ==
  ASSUME IInv, CanCompare, Compared # NoResult
  PROVE  /\ Compared.kind = mode /\ Compared.a = parseScenario(forms.A) /\ Compared.b = parseScenario(forms.B)
         /\ mode = "versions" => Compared.version = selectedVersion
         /\ \A i \in DOMAIN Compared.cases : \E baseline, candidate \in Outcomes :
              /\ IsOutcome(baseline) /\ IsOutcome(candidate)
              /\ Compared.cases[i] = compareScenarioOutcomes(baseline, candidate)
<1> DEFINE a == parseScenario(forms.A)
           b == parseScenario(forms.B)
           Report(cases, version) == [kind |-> mode, a |-> a, b |-> b, version |-> version, cases |-> cases]
           old == published[selectedVersion]
<1>1. /\ a \in Scenarios /\ b \in Scenarios /\ draft \in Definitions
      /\ mode \in {"scenarios", "versions"}
  BY DEF IInv, FormsInv, Scenarios
<1> HIDE DEF a, b
<1>2. CASE mode = "scenarios"
  <2>1. Compared = Report(compareScenarios(draft, a, b), 0) /\ Runs(draft, a) /\ Runs(draft, b)
    BY <1>2 DEF Compared, a, b
  <2> DEFINE x == Plan(draft, a)
             y == Plan(draft, b)
             cases == <<compareScenarioOutcomes(x, y)>>
  <2>2. x \in Outcomes /\ IsOutcome(x) /\ y \in Outcomes /\ IsOutcome(y)
    BY <1>1, <2>1, RunsAreOutcomes
  <2>3. Compared = Report(cases, 0)
    BY <2>1 DEF compareScenarios
  <2> HIDE DEF x, y
  <2>4. DOMAIN cases = {1} /\ cases[1] = compareScenarioOutcomes(x, y)
    OBVIOUS
  <2> HIDE DEF cases
  <2>5. /\ Compared.kind = mode /\ Compared.a = a /\ Compared.b = b /\ Compared.cases = cases
    BY <2>3
  <2> QED
    BY <1>2, <2>2, <2>4, <2>5 DEF a, b
<1>3. CASE mode = "versions"
  <2>1. /\ Compared = Report(compareFlowVariants(old, draft, <<a, b>>), selectedVersion)
        /\ Runs(draft, a) /\ Runs(draft, b) /\ Runs(old, a) /\ Runs(old, b)
    BY <1>3 DEF Compared, a, b
  <2>2. old \in Definitions
    <3>1. selectedVersion \in 1..Len(published) /\ published \in Seq(Definitions)
      BY <1>3 DEF IInv, VersionInv, CanCompare
    <3> QED
      BY <3>1, ElementOfSeq
  <2> HIDE DEF old
  <2> DEFINE both == <<a, b>>
             cases == [i \in DOMAIN both |-> compareScenarioOutcomes(Plan(old, both[i]), Plan(draft, both[i]))]
  <2>3. Compared = Report(cases, selectedVersion)
    BY <2>1 DEF compareFlowVariants
  <2>4. ASSUME NEW i \in DOMAIN cases
        PROVE  /\ Plan(old, both[i]) \in Outcomes /\ IsOutcome(Plan(old, both[i]))
               /\ Plan(draft, both[i]) \in Outcomes /\ IsOutcome(Plan(draft, both[i]))
               /\ cases[i] = compareScenarioOutcomes(Plan(old, both[i]), Plan(draft, both[i]))
    <3>1. i \in {1, 2} /\ both[i] \in {a, b}
      OBVIOUS
    <3>2. both[i] \in Scenarios /\ Runs(old, both[i]) /\ Runs(draft, both[i])
      BY <1>1, <2>1, <3>1
    <3>3. cases[i] = compareScenarioOutcomes(Plan(old, both[i]), Plan(draft, both[i]))
      OBVIOUS
    <3> HIDE DEF both
    <3> QED
      BY <1>1, <2>2, <3>2, <3>3, RunsAreOutcomes
  <2> HIDE DEF cases
  <2>5. /\ Compared.kind = mode /\ Compared.a = a /\ Compared.b = b /\ Compared.cases = cases
        /\ Compared.version = selectedVersion
    BY <2>3
  <2> QED
    BY <2>4, <2>5 DEF a, b
<1> QED
  BY <1>1, <1>2, <1>3

\* A step that changes the forms, the tab or the version leaves no result of the old ones.
LEMMA ResultStep ==
  ASSUME IInv, [Next]_vars
  PROVE  (ResultIsOfTheForms /\ CasesInv)'
<1>1. ResultIsOfTheForms /\ CasesInv /\ VersionInv
  BY DEF IInv
<1>2. CASE result' = NoResult
  BY <1>2 DEF ResultIsOfTheForms, CasesInv, NoResult
<1>3. CASE UNCHANGED <<result, forms, mode, selectedVersion>>
  BY <1>1, <1>3 DEF ResultIsOfTheForms, CasesInv, NoResult
<1>4. CASE executeComparison
  <2>1. result' = Compared /\ CanCompare /\ UNCHANGED <<forms, mode, selectedVersion>>
    BY <1>4 DEF executeComparison
  <2>2. CASE Compared = NoResult
    BY <1>2, <2>1, <2>2
  <2>3. CASE Compared # NoResult
    <3>1. ResultIsOfTheForms'
      BY <2>1, <2>3, ComparedIsSound DEF ResultIsOfTheForms
    <3>2. CasesInv'
      BY <2>1, <2>3, ComparedIsSound DEF CasesInv
    <3> QED
      BY <3>1, <3>2
  <2> QED
    BY <2>2, <2>3
<1>5. CASE VersionsLoaded
  <2>1. UNCHANGED <<result, forms, mode>>
    BY <1>5 DEF VersionsLoaded
  <2>2. ToSet(versions') = 1..Len(published)
    BY <1>1, <1>5, LoadedVersions DEF VersionsLoaded, VersionInv
  <2>3. result # NoResult => selectedVersion' = selectedVersion
    BY <1>1, <1>5, <2>2 DEF VersionsLoaded, Selection, VersionInv
  <2> QED
    BY <1>2, <1>3, <2>1, <2>3
<1>6. CASE OpenLab \/ SelectMode \/ ChangeForm \/ ChooseVersion \/ loadPreset
  BY <1>2, <1>6 DEF OpenLab, SelectMode, ChangeForm, ChooseVersion, loadPreset, ClearResult
<1>7. CASE CloseLab \/ SnapshotLoaded \/ savePreset \/ choosePreset \/ removePreset \/ replay
  BY <1>3, <1>7 DEF CloseLab, SnapshotLoaded, savePreset, choosePreset, removePreset, replay
<1>8. CASE EditDraft \/ PublishDraft \/ OtherTab \/ UNCHANGED vars
  BY <1>3, <1>8 DEF EditDraft, PublishDraft, OtherTab, Around, vars
<1> QED
  BY <1>4, <1>5, <1>6, <1>7, <1>8 DEF Next

\* The dialog starts empty.
LEMMA InitInv == Init => IInv
<1> SUFFICES ASSUME Init PROVE IInv
  OBVIOUS
<1>1. FormsInv
  BY InitialForms DEF Init, FormsInv
<1>2. StoreInv
  BY LabAssumption DEF Init, StoreInv
<1>3. VersionInv
  <2>1. published \in Seq(Definitions) /\ Len(published) \in Nat
    <3>1. draft \in Definitions /\ (published = <<>> \/ published = <<draft>>)
      BY DEF Init
    <3>2. <<>> \in Seq(Definitions) /\ (draft \in Definitions => <<draft>> \in Seq(Definitions))
      OBVIOUS
    <3>3. published \in Seq(Definitions)
      BY <3>1, <3>2
    <3> QED
      BY <3>3
  <2>2. versions = <<>> /\ selectedVersion = 0 /\ DOMAIN snapshots = {} /\ result = NoResult
    BY DEF Init
  <2> QED
    BY <2>1, <2>2 DEF VersionInv
<1>4. ResultIsOfTheForms /\ CasesInv
  BY DEF Init, ResultIsOfTheForms, CasesInv, NoResult
<1> QED
  BY <1>1, <1>2, <1>3, <1>4 DEF IInv

\* Whatever other tabs and the draft do, the forms, the stores and the result fit together.
THEOREM Invariant == Spec => []IInv
<1>1. IInv /\ [Next]_vars => IInv'
  BY FormsStep, StoreStep, VersionStep, ResultStep DEF IInv
<1> QED
  BY <1>1, InitInv, PTL DEF Spec

\* executeComparison and the setters that clear its result (ScenarioLabDialog.tsx:475-635): the
\* comparison on the screen is of the forms, the tab and the version on the screen, whatever is
\* loaded, edited or published meanwhile, and its verdict is fair to both sides.
THEOREM ComparisonsAreSound == Spec => []ComparisonIsSound
<1>1. IInv => ComparisonIsSound
  BY CasesAreFair DEF IInv, ComparisonIsSound
<1> QED
  BY <1>1, Invariant, PTL

-------------------------------------------------------------------------------
(* Saving.                                                                 *)

\* What of the store is allowed to be lost.
Lost(p) ==
  \/ \E q \in ToSet(stored') : q.id = p.id
  \/ Len(stored') < Len(stored)
  \/ Len(stored) = MAX_SCENARIO_PRESETS /\ p = Last(stored)

\* Saving loses the last preset of a full store.
LEMMA SavingLoses ==
  ASSUME StoreInv, NEW n \in Preset, stored' = Kept(stored, n), NEW p \in ToSet(stored)
  PROVE  Lost(p)
<1>1. stored \in Seq(Preset) /\ Len(stored) <= MAX_SCENARIO_PRESETS
  BY DEF StoreInv
<1>2. PICK i \in 1..Len(stored) : p = stored[i]
  BY <1>1, MemberOfSeq
<1>3. /\ stored' \in Seq(Preset)
      /\ \/ \E j \in 1..Len(stored') : stored'[j].id = stored[i].id
         \/ i = Len(stored) /\ Len(stored) = MAX_SCENARIO_PRESETS
  BY <1>1, KeptProperties
<1>4. \A j \in 1..Len(stored') : stored'[j] \in ToSet(stored')
  BY <1>3 DEF ToSet
<1>5. Last(stored) = stored[Len(stored)]
  BY DEF Last
<1> QED
  BY <1>2, <1>3, <1>4, <1>5 DEF Lost

\* Deleting loses what is deleted.
LEMMA DeletingLoses ==
  ASSUME StoreInv, NEW id, stored' = Without(stored, id), NEW p \in ToSet(stored)
  PROVE  Lost(p)
<1>1. stored \in Seq(Preset) /\ Len(stored) <= MAX_SCENARIO_PRESETS
  BY DEF StoreInv
<1>2. PICK i \in 1..Len(stored) : p = stored[i]
  BY <1>1, MemberOfSeq
<1>3. /\ stored' \in Seq(Preset)
      /\ IF p.id = id THEN Len(stored') < Len(stored)
         ELSE \E j \in 1..i : j <= Len(stored') /\ stored'[j] = p
  BY <1>1, <1>2, WithoutProperties
<1>4. \A j \in 1..Len(stored') : stored'[j] \in ToSet(stored')
  BY <1>3 DEF ToSet
<1> QED
  BY <1>2, <1>3, <1>4 DEF Lost

\* saveScenarioPreset reads, replaces, cuts and writes (scenario-presets.ts:116-129): however two
\* tabs write in turn, only the oldest preset of a full store goes, and a preset that is loaded
\* fills the forms with the scenarios that were saved.
THEOREM SavingKeepsPresets == Spec => PresetsAreKept
<1>1. ASSUME IInv, Next PROVE \A p \in ToSet(stored) : Lost(p)
  <2>1. StoreInv /\ forms.A \in Forms /\ forms.B \in Forms /\ lastPreset \in Nat /\ selectedPreset \in Nat
    BY <1>1 DEF IInv, FormsInv, StoreInv
  <2>2. CASE UNCHANGED stored
    BY <2>2 DEF Lost
  <2>3. CASE savePreset
    <3> DEFINE id == IF selectedPreset # 0 THEN selectedPreset ELSE lastPreset + 1
    <3>1. stored' = Kept(stored, [id |-> id, a |-> parseScenario(forms.A), b |-> parseScenario(forms.B)])
      BY <2>3 DEF savePreset
    <3>2. id \in Nat
      BY <2>1
    <3> HIDE DEF id
    <3>3. [id |-> id, a |-> parseScenario(forms.A), b |-> parseScenario(forms.B)] \in Preset
      BY <2>1, <3>2, SavedForms
    <3> QED
      BY <2>1, <3>1, <3>3, SavingLoses
  <2>4. CASE removePreset
    BY <2>1, <2>4, DeletingLoses DEF removePreset
  <2>5. CASE OtherTab
    <3>1. CASE \E p \in ToSet(stored) : stored' = Without(stored, p.id)
      BY <2>1, <3>1, DeletingLoses
    <3>2. CASE stored' = Kept(stored, [id |-> lastPreset + 1, a |-> parseScenario(initialForm("base")),
                                       b |-> parseScenario(initialForm("alternative"))])
      <4>1. [id |-> lastPreset + 1, a |-> parseScenario(initialForm("base")), b |-> parseScenario(initialForm("alternative"))] \in Preset
        BY <2>1, InitialForms, SavedForms
      <4> QED
        BY <2>1, <3>2, <4>1, SavingLoses
    <3> QED
      BY <2>5, <3>1, <3>2 DEF OtherTab
  <2>6. CASE OpenLab \/ CloseLab \/ SelectMode \/ ChangeForm \/ ChooseVersion \/ VersionsLoaded \/ SnapshotLoaded
    BY <2>2, <2>6 DEF OpenLab, CloseLab, SelectMode, ChangeForm, ChooseVersion, VersionsLoaded, SnapshotLoaded, saving
  <2>7. CASE executeComparison \/ choosePreset \/ loadPreset \/ replay \/ EditDraft \/ PublishDraft
    BY <2>2, <2>7 DEF executeComparison, choosePreset, loadPreset, replay, CloseLab, EditDraft, PublishDraft, Around, saving
  <2> QED
    BY <1>1, <2>3, <2>4, <2>5, <2>6, <2>7 DEF Next
<1>2. ASSUME IInv, loadPreset
      PROVE  \E p \in ToSet(presets) :
               p.id = selectedPreset /\ p.a = parseScenario(forms'.A) /\ p.b = parseScenario(forms'.B)
  <2>1. PICK p \in ToSet(presets) :
          p.id = selectedPreset /\ forms' = [A |-> formFromScenario(p.a), B |-> formFromScenario(p.b)]
    BY <1>2 DEF loadPreset
  <2>2. p \in Preset
    BY <1>2, <2>1, MemberOfSeq DEF IInv, StoreInv
  <2>3. p.a \in Scenarios /\ p.b \in Scenarios
    BY <2>2 DEF Preset
  <2>4. forms'.A = formFromScenario(p.a) /\ forms'.B = formFromScenario(p.b)
    BY <2>1
  <2> QED
    BY <2>1, <2>3, <2>4, ReadBack
<1>3. IInv /\ [Next]_vars
        => [/\ \A p \in ToSet(stored) :
                  \/ \E q \in ToSet(stored') : q.id = p.id
                  \/ Len(stored') < Len(stored)
                  \/ Len(stored) = MAX_SCENARIO_PRESETS /\ p = Last(stored)
            /\ loadPreset => \E p \in ToSet(presets) :
                  p.id = selectedPreset /\ p.a = parseScenario(forms'.A) /\ p.b = parseScenario(forms'.B)]_vars
  BY <1>1, <1>2 DEF Lost
<1> QED
  BY <1>3, Invariant, PTL DEF Spec, PresetsAreKept
================================================================================
