--------------------------- MODULE InsideProofs ---------------------------
(* What holds of what the agents of a Run decide, for any bounds: each part *)
(* on its own, for only the part that the first state chose takes steps.    *)
EXTENDS MCInside, Integers, Sequences, FiniteSets, Filtering, FiniteSetTheorems,
        WellFoundedInduction, TLAPS

\* A set of naturals that is not empty has a least element.
LEMMA LeastNatural ==
    ASSUME NEW T \in SUBSET Nat, T # {}
    PROVE  \E m \in T : \A t \in T : m <= t
<1> DEFINE R == OpToRel(<, Nat)
<1>1. IsWellFoundedOn(R, Nat)
  BY NatLessThanWellFounded
<1>2. PICK m \in T : \A t \in T : ~(<<t, m>> \in R)
  BY <1>1, WFMin
<1>3. \A t \in T : ~(t < m)
  BY <1>2 DEF OpToRel
<1> QED BY <1>3

\* What a finite set of numbers looks like in ascending order.
Ascends(f, S) ==
    /\ f \in [1..Cardinality(S) -> S]
    /\ \A i, j \in 1..Cardinality(S) : i < j => f[i] < f[j]

\* Every finite set of numbers can be put in ascending order: a smallest one that
\* could not would have a least element, and could be without it.
LEMMA AscendingExists ==
    ASSUME NEW S \in SUBSET Nat, IsFiniteSet(S)
    PROVE  \E f : Ascends(f, S)
<1> DEFINE Failing(T) == IsFiniteSet(T) /\ ~\E f : Ascends(f, T)
           Sizes == {n \in Nat : \E T \in SUBSET Nat : Failing(T) /\ Cardinality(T) = n}
<1>1. SUFFICES ASSUME ~\E f : Ascends(f, S) PROVE FALSE
  OBVIOUS
<1>2. Cardinality(S) \in Sizes
  BY <1>1, FS_CardinalityType
<1>3. Sizes \in SUBSET Nat /\ Sizes # {}
  BY <1>2
<1>4. PICK n \in Sizes : \A k \in Sizes : n <= k
  BY <1>3, LeastNatural
<1>5. PICK T \in SUBSET Nat : IsFiniteSet(T) /\ Cardinality(T) = n /\ ~\E f : Ascends(f, T)
  BY <1>4
<1>6. CASE T = {}
  <2>1. Cardinality(T) = 0
    BY <1>6, FS_EmptySet
  <2>2. Ascends([i \in 1..0 |-> 0], T)
    BY <1>6, <2>1 DEF Ascends
  <2> QED BY <1>5, <2>2
<1>7. CASE T # {}
  <2>1. PICK low \in T : \A t \in T : low <= t
    BY <1>7, LeastNatural
  <2> DEFINE U == T \ {low}
  <2>2. IsFiniteSet(U) /\ Cardinality(U) = n - 1 /\ U \in SUBSET Nat
    BY <1>5, <2>1, FS_RemoveElement
  <2>3. n \in Nat /\ n - 1 \in Nat
    BY <1>3, <2>2, FS_CardinalityType
  <2>4. n - 1 \notin Sizes
    BY <1>4, <2>3
  <2>5. PICK f : Ascends(f, U)
    BY <2>2, <2>3, <2>4
  <2>6. /\ f \in [1..(n - 1) -> U]
        /\ \A i, j \in 1..(n - 1) : i < j => f[i] < f[j]
    BY <2>2, <2>5 DEF Ascends
  <2> DEFINE g == [i \in 1..n |-> IF i = 1 THEN low ELSE f[i - 1]]
  <2>7. \A u \in U : u \in T /\ u \in Nat /\ low < u
    BY <1>5, <2>1
  <2>8. \A i \in 1..n : i # 1 => i - 1 \in 1..(n - 1) /\ f[i - 1] \in U
    BY <2>3, <2>6
  <2>9. g \in [1..n -> T]
    BY <2>1, <2>7, <2>8
  <2>10. ASSUME NEW i \in 1..n, NEW j \in 1..n, i < j PROVE g[i] < g[j]
    <3>1. j # 1 /\ j - 1 \in 1..(n - 1) /\ g[j] = f[j - 1] /\ f[j - 1] \in U
      BY <2>3, <2>8, <2>10
    <3>2. CASE i = 1
      BY <2>7, <3>1, <3>2
    <3>3. CASE i # 1
      <4>1. i - 1 \in 1..(n - 1) /\ g[i] = f[i - 1] /\ i - 1 < j - 1
        BY <2>3, <2>8, <2>10, <3>3
      <4> QED BY <2>6, <3>1, <4>1
    <3> QED BY <3>2, <3>3
  <2>11. Ascends(g, T)
    BY <1>5, <2>9, <2>10 DEF Ascends
  <2> QED BY <1>5, <2>11
<1> QED BY <1>6, <1>7

\* A function of two numbered sets of one size that gives no value twice gives all.
LEMMA OnceIsAll ==
    ASSUME NEW S, IsFiniteSet(S), NEW f \in [1..Cardinality(S) -> S],
           \A i, j \in 1..Cardinality(S) : f[i] = f[j] => i = j
    PROVE  \A s \in S : \E i \in 1..Cardinality(S) : f[i] = s
<1>1. Cardinality(S) \in Nat
  BY FS_CardinalityType
<1>2. f \in Injection(1..Cardinality(S), S)
  BY DEF Injection, IsInjective
<1>3. Cardinality(1..Cardinality(S)) = Cardinality(S)
  BY <1>1, FS_Interval
<1>4. f \in Surjection(1..Cardinality(S), S)
  BY <1>2, <1>3, FS_Injection
<1> QED BY <1>4 DEF Surjection

\* The places of a set of numbers: each has one, in order.
LEMMA AscendingPlaces ==
    ASSUME NEW S \in SUBSET Nat, IsFiniteSet(S)
    PROVE  /\ Cardinality(S) \in Nat
           /\ Ascending(S) \in [1..Cardinality(S) -> S]
           /\ \A i, j \in 1..Cardinality(S) : i < j => Ascending(S)[i] < Ascending(S)[j]
           /\ \A s \in S : \E i \in 1..Cardinality(S) : Ascending(S)[i] = s
<1> DEFINE n == Cardinality(S)
           a == Ascending(S)
<1>1. n \in Nat
  BY FS_CardinalityType
<1>2. \E f \in [1..n -> S] : \A i, j \in DOMAIN f : i < j => f[i] < f[j]
  <2>1. PICK f : Ascends(f, S)
    BY AscendingExists
  <2> QED BY <2>1 DEF Ascends
<1>3. a \in [1..n -> S] /\ \A i, j \in DOMAIN a : i < j => a[i] < a[j]
  BY <1>2 DEF Ascending
<1> HIDE DEF a
<1>4. \A i, j \in 1..n : i < j => a[i] < a[j]
  BY <1>3
<1>5. ASSUME NEW i \in 1..n, NEW j \in 1..n, a[i] = a[j] PROVE i = j
  <2>1. a[i] \in Nat /\ a[j] \in Nat
    BY <1>3
  <2>2. ~(i < j) /\ ~(j < i)
    BY <1>4, <1>5, <2>1
  <2> QED BY <1>1, <2>2
<1>6. \A s \in S : \E i \in 1..n : a[i] = s
  BY <1>3, <1>5, OnceIsAll
<1> QED BY <1>1, <1>3, <1>4, <1>6 DEF a

\* The place of a number is how many of the set there are up to it.
LEMMA PlaceIsCount ==
    ASSUME NEW S \in SUBSET Nat, IsFiniteSet(S), NEW k \in 1..Cardinality(S)
    PROVE  Cardinality({s \in S : s <= Ascending(S)[k]}) = k
<1> DEFINE n == Cardinality(S)
           a == Ascending(S)
           T == {s \in S : s <= a[k]}
           f == [i \in 1..k |-> a[i]]
<1>1. /\ n \in Nat /\ a \in [1..n -> S]
      /\ \A i, j \in 1..n : i < j => a[i] < a[j]
      /\ \A s \in S : \E i \in 1..n : a[i] = s
  BY AscendingPlaces
<1> HIDE DEF a, n
<1>2. k \in Nat /\ k >= 1 /\ k <= n /\ \A i \in 1..k : i \in 1..n /\ i <= n
  BY <1>1 DEF n
<1>3. \A i \in 1..n : a[i] \in Nat /\ a[i] \in S
  BY <1>1
<1>4. \A i \in 1..k : f[i] \in T
  <2>1. SUFFICES ASSUME NEW i \in 1..k PROVE a[i] \in S /\ a[i] <= a[k]
    OBVIOUS
  <2>2. i = k \/ i < k
    BY <1>2
  <2>3. k \in 1..n
    BY <1>2
  <2> QED BY <1>1, <1>2, <1>3, <2>2, <2>3
<1>5. \A i, j \in 1..k : f[i] = f[j] => i = j
  <2>1. SUFFICES ASSUME NEW i \in 1..k, NEW j \in 1..k, a[i] = a[j] PROVE i = j
    OBVIOUS
  <2>2. ~(i < j) /\ ~(j < i)
    BY <1>1, <1>2, <1>3, <2>1
  <2> QED BY <1>2, <2>2
<1>6. \A t \in T : \E i \in 1..k : f[i] = t
  <2>1. SUFFICES ASSUME NEW t \in T PROVE \E i \in 1..k : a[i] = t
    OBVIOUS
  <2>2. PICK i \in 1..n : a[i] = t
    BY <1>1
  <2>3. ~(k < i)
    <3>1. SUFFICES ASSUME k < i PROVE FALSE
      OBVIOUS
    <3>2. k \in 1..n
      BY <1>2
    <3>3. a[k] < a[i] /\ a[i] <= a[k]
      BY <1>1, <2>1, <2>2, <3>1, <3>2
    <3> QED BY <1>3, <2>2, <3>2, <3>3
  <2>4. i \in 1..k
    BY <1>1, <1>2, <2>3
  <2> QED BY <2>2, <2>4
<1>7. f \in Bijection(1..k, T)
  BY <1>4, <1>5, <1>6 DEF Bijection, Injection, Surjection, IsInjective
<1>8. ExistsBijection(1..k, T)
  BY <1>7 DEF ExistsBijection
<1> QED BY <1>2, <1>8, FS_CountingElements DEF a

-----------------------------------------------------------------------------
(* The design that is handed over.                                          *)

Parts == {"systemDesign", "slicePlan", "apiContract"}

\* A part that is saved is what the last call that was run sent, and has no problems
\* of its own; what finish_design accepted is what is saved still, and agrees with itself.
DraftsFit ==
    /\ drafts \in [Parts -> {drafts[p] : p \in Parts}]
    /\ ran \in [Parts -> {ran[p] : p \in Parts}]
    /\ \A p \in Parts : drafts[p] # SystemDesignAgent!NotSaved =>
          drafts[p] = ran[p] /\ ~SystemDesignAgent!Problems(p, drafts[p])
    /\ drafts["slicePlan"] \in SystemDesignAgent!Plans \cup {SystemDesignAgent!NotSaved}

AcceptedFits ==
    accepted # SystemDesignAgent!NotAccepted =>
        /\ accepted = ran
        /\ accepted.slicePlan \in SystemDesignAgent!Plans
        /\ ~SystemDesignAgent!slicePlanProblems(accepted.slicePlan.slices)
        /\ ~SystemDesignAgent!sliceContractProblems(accepted.slicePlan.slices,
                                                    accepted.apiContract.has)

\* The spec is of the design accepted: what is drawn was accepted before, and is
\* built only once it is drawn.
DrawnFits ==
    /\ designStage \in {"designing", "drawing", "building", "ended"}
    /\ designStage \in {"drawing", "building"} => accepted # SystemDesignAgent!NotAccepted
    /\ designStage = "designing" => uiSpec = {}
    /\ designStage = "building" => uiSpec # {}
    /\ uiSpec # {} => ~SystemDesignAgent!uiSpecProblems(uiSpec)

BuiltFits ==
    /\ early = {}
    /\ built \in SUBSET (IF designStage = "building" THEN DOMAIN SystemDesignAgent!Plan ELSE {})

DesignInv == DraftsFit /\ AcceptedFits /\ DrawnFits /\ BuiltFits

\* The first state of a System Design has it: nothing is drafted.
LEMMA DesignStarts ==
    ASSUME SystemDesignAgent!Init
    PROVE  DesignInv
<1>1. /\ drafts = SystemDesignAgent!NotAccepted /\ ran = SystemDesignAgent!NotAccepted
      /\ accepted = SystemDesignAgent!NotAccepted /\ uiSpec = {} /\ designStage = "designing"
      /\ built = {} /\ early = {}
  BY DEF SystemDesignAgent!Init
<1>2. /\ SystemDesignAgent!NotAccepted = [p \in Parts |-> SystemDesignAgent!NotSaved]
  BY DEF SystemDesignAgent!NotAccepted, Parts
<1>3. \A p \in Parts : drafts[p] = SystemDesignAgent!NotSaved /\ ran[p] = SystemDesignAgent!NotSaved
  BY <1>1, <1>2
<1>4. DraftsFit
  BY <1>1, <1>2, <1>3 DEF DraftsFit, Parts
<1> QED BY <1>1, <1>4 DEF DesignInv, AcceptedFits, DrawnFits, BuiltFits

\* A part is sent.
LEMMA SavingStays ==
    ASSUME DesignInv,
           NEW p \in Parts, NEW value, SystemDesignAgent!save(p, value),
           p = "slicePlan" => value \in SystemDesignAgent!Plans
    PROVE  DesignInv'
<1>1. /\ designStage = "designing" /\ ran' = [ran EXCEPT ![p] = value]
      /\ accepted' = SystemDesignAgent!NotAccepted
      /\ drafts' = [drafts EXCEPT ![p] = IF SystemDesignAgent!Problems(p, value)
                                         THEN SystemDesignAgent!NotSaved ELSE value]
      /\ UNCHANGED <<uiSpec, designStage, built, early>>
  BY DEF SystemDesignAgent!save, SystemDesignAgent!Withdraws
<1>2. /\ DOMAIN drafts = Parts /\ DOMAIN ran = Parts
      /\ drafts = [q \in Parts |-> drafts[q]] /\ ran = [q \in Parts |-> ran[q]]
  BY DEF DesignInv, DraftsFit
<1>3. /\ drafts' = [q \in Parts |-> drafts'[q]] /\ ran' = [q \in Parts |-> ran'[q]]
      /\ ran'[p] = value /\ \A q \in Parts \ {p} : ran'[q] = ran[q] /\ drafts'[q] = drafts[q]
      /\ drafts'[p] = IF SystemDesignAgent!Problems(p, value)
                      THEN SystemDesignAgent!NotSaved ELSE value
  BY <1>1, <1>2
<1>4. \A q \in Parts : drafts'[q] # SystemDesignAgent!NotSaved =>
         drafts'[q] = ran'[q] /\ ~SystemDesignAgent!Problems(q, drafts'[q])
  BY <1>3 DEF DesignInv, DraftsFit
<1>5. drafts'["slicePlan"] \in SystemDesignAgent!Plans \cup {SystemDesignAgent!NotSaved}
  BY <1>3 DEF DesignInv, DraftsFit, Parts
<1>6. DraftsFit'
  BY <1>3, <1>4, <1>5 DEF DraftsFit
<1>7. AcceptedFits' /\ DrawnFits' /\ BuiltFits'
  BY <1>1 DEF DesignInv, AcceptedFits, DrawnFits, BuiltFits
<1> QED BY <1>6, <1>7 DEF DesignInv

\* The first unbuilt Slice.
LEMMA CurrentSlice ==
    ASSUME SystemDesignAgent!Plan \in {<<a, b>> : a \in SystemDesignAgent!Firsts,
                                                  b \in SystemDesignAgent!Seconds},
           built # DOMAIN SystemDesignAgent!Plan,
           built \in SUBSET (DOMAIN SystemDesignAgent!Plan)
    PROVE  /\ SystemDesignAgent!Current \in DOMAIN SystemDesignAgent!Plan
           /\ \A j \in DOMAIN SystemDesignAgent!Plan : j < SystemDesignAgent!Current => j \in built
<1>1. DOMAIN SystemDesignAgent!Plan = 1..2
  OBVIOUS
<1> DEFINE open == DOMAIN SystemDesignAgent!Plan \ built
<1>2. open \in SUBSET Nat /\ open # {}
  BY <1>1
<1>3. \E i \in open : \A j \in open : i <= j
  BY <1>2, LeastNatural
<1>4. /\ SystemDesignAgent!Current \in open
      /\ \A j \in open : SystemDesignAgent!Current <= j
  BY <1>3 DEF SystemDesignAgent!Current
<1>5. \A j \in DOMAIN SystemDesignAgent!Plan : j \in Nat
  BY <1>1
<1> QED BY <1>4, <1>5

\* No Slice of a batch is built before one it depends on: the first unbuilt Slice
\* depends on Slices that come before, and the others of the batch on built ones.
LEMMA BatchIsNotEarly ==
    ASSUME DesignInv, designStage = "building", built # DOMAIN SystemDesignAgent!Plan,
           NEW batch \in SystemDesignAgent!nextBatch
    PROVE  /\ batch \in SUBSET (DOMAIN SystemDesignAgent!Plan)
           /\ \A i \in batch : \A d \in SystemDesignAgent!Plan[i].dependsOn :
                 \E j \in built : SystemDesignAgent!Plan[j].title = d
<1> DEFINE slices == SystemDesignAgent!Plan
           first == SystemDesignAgent!Current
<1>1. /\ accepted.slicePlan \in SystemDesignAgent!Plans
      /\ ~SystemDesignAgent!slicePlanProblems(slices)
      /\ built \in SUBSET (DOMAIN slices)
  BY DEF DesignInv, AcceptedFits, DrawnFits, BuiltFits, SystemDesignAgent!Plan
<1>2. slices \in {<<a, b>> : a \in SystemDesignAgent!Firsts, b \in SystemDesignAgent!Seconds}
  BY <1>1 DEF SystemDesignAgent!Plans, SystemDesignAgent!Plan
<1>3. first \in DOMAIN slices /\ \A j \in DOMAIN slices : j < first => j \in built
  BY <1>1, <1>2, CurrentSlice
<1>4. DOMAIN slices = 1..2
  BY <1>2
<1>5. \A i \in DOMAIN slices : \A d \in slices[i].dependsOn :
         \E j \in 1..(i - 1) : slices[j].title = d
  BY <1>1 DEF SystemDesignAgent!slicePlanProblems
<1> HIDE DEF slices, first
<1>6. \A d \in slices[first].dependsOn : \E j \in built : slices[j].title = d
  <2>1. SUFFICES ASSUME NEW d \in slices[first].dependsOn
                 PROVE  \E j \in built : slices[j].title = d
    OBVIOUS
  <2>2. PICK j \in 1..(first - 1) : slices[j].title = d
    BY <1>3, <1>5
  <2>3. j \in DOMAIN slices /\ j < first
    BY <1>3, <1>4
  <2> QED BY <1>3, <2>2, <2>3
<1>7. /\ batch \in SUBSET (DOMAIN slices)
      /\ \A i \in batch : i = first
            \/ \A d \in slices[i].dependsOn : \E j \in built : slices[j].title = d
  BY <1>3 DEF SystemDesignAgent!nextBatch, slices, first
<1>8. \A i \in batch : \A d \in slices[i].dependsOn : \E j \in built : slices[j].title = d
  BY <1>6, <1>7
<1> QED BY <1>7, <1>8 DEF slices

\* Every step of the System Design keeps it.
LEMMA DesignStays ==
    ASSUME DesignInv, SystemDesignAgent!Next
    PROVE  DesignInv'
<1>1. CASE \E value \in SystemDesignAgent!SystemDesigns :
              SystemDesignAgent!save("systemDesign", value)
  <2>1. PICK value : SystemDesignAgent!save("systemDesign", value)
    BY <1>1
  <2>2. "systemDesign" \in Parts
    BY DEF Parts
  <2> QED BY <2>1, <2>2, SavingStays
<1>2. CASE \E value \in SystemDesignAgent!Plans : SystemDesignAgent!save("slicePlan", value)
  <2>1. PICK value \in SystemDesignAgent!Plans : SystemDesignAgent!save("slicePlan", value)
    BY <1>2
  <2>2. "slicePlan" \in Parts
    BY DEF Parts
  <2> QED BY <2>1, <2>2, SavingStays
<1>3. CASE \E value \in SystemDesignAgent!Contracts :
              SystemDesignAgent!save("apiContract", value)
  <2>1. PICK value : SystemDesignAgent!save("apiContract", value)
    BY <1>3
  <2>2. "apiContract" \in Parts
    BY DEF Parts
  <2> QED BY <2>1, <2>2, SavingStays
<1>4. CASE SystemDesignAgent!finish
  <2>1. /\ designStage = "designing" /\ accepted' = drafts
        /\ \A p \in DOMAIN drafts : drafts[p] # SystemDesignAgent!NotSaved
        /\ ~SystemDesignAgent!sliceContractProblems(drafts.slicePlan.slices,
                                                    drafts.apiContract.has)
        /\ UNCHANGED <<drafts, uiSpec, designStage, built, ran, early>>
    BY <1>4 DEF SystemDesignAgent!finish
  <2>2. /\ DOMAIN drafts = Parts /\ DOMAIN ran = Parts
        /\ drafts = [q \in Parts |-> drafts[q]] /\ ran = [q \in Parts |-> ran[q]]
        /\ \A q \in Parts : drafts[q] = ran[q] /\ ~SystemDesignAgent!Problems(q, drafts[q])
        /\ drafts["slicePlan"] \in SystemDesignAgent!Plans
    BY <2>1 DEF DesignInv, DraftsFit, Parts
  <2>3. drafts = ran
    BY <2>2
  <2>4. ~SystemDesignAgent!slicePlanProblems(drafts.slicePlan.slices)
    <3>1. ~SystemDesignAgent!Problems("slicePlan", drafts["slicePlan"])
      BY <2>2 DEF Parts
    <3> QED BY <3>1 DEF SystemDesignAgent!Problems
  <2>5. AcceptedFits'
    BY <2>1, <2>2, <2>3, <2>4 DEF AcceptedFits
  <2>6. DraftsFit' /\ DrawnFits' /\ BuiltFits'
    BY <2>1 DEF DesignInv, DraftsFit, DrawnFits, BuiltFits
  <2> QED BY <2>5, <2>6 DEF DesignInv
<1>5. CASE SystemDesignAgent!LoopEnds
  <2>1. /\ designStage = "designing"
        /\ designStage' = IF accepted = SystemDesignAgent!NotAccepted THEN "ended" ELSE "drawing"
        /\ UNCHANGED <<drafts, accepted, uiSpec, built, ran, early>>
    BY <1>5 DEF SystemDesignAgent!LoopEnds
  <2>2. DraftsFit' /\ AcceptedFits' /\ BuiltFits'
    BY <2>1 DEF DesignInv, DraftsFit, AcceptedFits, BuiltFits
  <2>3. DrawnFits'
    BY <2>1 DEF DesignInv, DrawnFits
  <2> QED BY <2>2, <2>3 DEF DesignInv
<1>6. CASE SystemDesignAgent!submitUiSpec
  <2>1. /\ designStage = "drawing" /\ UNCHANGED <<drafts, accepted, designStage, built, ran, early>>
    BY <1>6 DEF SystemDesignAgent!submitUiSpec
  <2>2. PICK screens : uiSpec' = IF SystemDesignAgent!uiSpecProblems(screens) THEN {} ELSE screens
    BY <1>6 DEF SystemDesignAgent!submitUiSpec
  <2>3. uiSpec' # {} => ~SystemDesignAgent!uiSpecProblems(uiSpec')
    BY <2>2
  <2>4. uiSpec' # {} => ~SystemDesignAgent!uiSpecProblems(uiSpec)'
    BY <2>1, <2>3
    DEF SystemDesignAgent!uiSpecProblems, SystemDesignAgent!uiSpecProblemsButUnused,
        SystemDesignAgent!Plan
  <2>5. DraftsFit' /\ AcceptedFits' /\ BuiltFits'
    BY <2>1 DEF DesignInv, DraftsFit, AcceptedFits, BuiltFits
  <2>6. DrawnFits'
    BY <2>1, <2>4 DEF DesignInv, DrawnFits
  <2> QED BY <2>5, <2>6 DEF DesignInv
<1>7. CASE SystemDesignAgent!UiLoopEnds
  <2>1. /\ designStage = "drawing" /\ designStage' = IF uiSpec = {} THEN "ended" ELSE "building"
        /\ UNCHANGED <<drafts, accepted, uiSpec, built, ran, early>>
    BY <1>7 DEF SystemDesignAgent!UiLoopEnds
  <2>2. DraftsFit' /\ AcceptedFits'
    BY <2>1 DEF DesignInv, DraftsFit, AcceptedFits
  <2>3. BuiltFits'
    BY <2>1 DEF DesignInv, BuiltFits
  <2>4. DrawnFits'
    BY <2>1
    DEF DesignInv, DrawnFits, SystemDesignAgent!uiSpecProblems,
        SystemDesignAgent!uiSpecProblemsButUnused, SystemDesignAgent!Plan
  <2> QED BY <2>2, <2>3, <2>4 DEF DesignInv
<1>8. CASE SystemDesignAgent!Build
  <2>1. /\ designStage = "building" /\ built # DOMAIN SystemDesignAgent!Plan
        /\ UNCHANGED <<drafts, accepted, uiSpec, designStage, ran>>
    BY <1>8 DEF SystemDesignAgent!Build
  <2>2. PICK batch \in SystemDesignAgent!nextBatch :
           /\ built' = built \cup batch
           /\ early' = early \cup {i \in batch : \E d \in SystemDesignAgent!Plan[i].dependsOn :
                                     \A j \in built : SystemDesignAgent!Plan[j].title # d}
    BY <1>8 DEF SystemDesignAgent!Build
  <2>3. /\ batch \in SUBSET (DOMAIN SystemDesignAgent!Plan)
        /\ \A i \in batch : \A d \in SystemDesignAgent!Plan[i].dependsOn :
              \E j \in built : SystemDesignAgent!Plan[j].title = d
    BY <2>1, BatchIsNotEarly
  <2>4. early' = {}
    BY <2>2, <2>3 DEF DesignInv, BuiltFits
  <2>5. BuiltFits'
    BY <2>1, <2>2, <2>3, <2>4 DEF DesignInv, BuiltFits, SystemDesignAgent!Plan
  <2>6. DraftsFit' /\ AcceptedFits' /\ DrawnFits'
    BY <2>1
    DEF DesignInv, DraftsFit, AcceptedFits, DrawnFits, SystemDesignAgent!uiSpecProblems,
        SystemDesignAgent!uiSpecProblemsButUnused, SystemDesignAgent!Plan
  <2> QED BY <2>5, <2>6 DEF DesignInv
<1>9. CASE SystemDesignAgent!NotRun
  <2>1. UNCHANGED <<drafts, accepted, uiSpec, designStage, built, ran, early>>
    BY <1>9 DEF SystemDesignAgent!NotRun
  <2> QED
    BY <2>1
    DEF DesignInv, DraftsFit, AcceptedFits, DrawnFits, BuiltFits, SystemDesignAgent!uiSpecProblems,
        SystemDesignAgent!uiSpecProblemsButUnused, SystemDesignAgent!Plan
<1> QED
  BY <1>1, <1>2, <1>3, <1>4, <1>5, <1>6, <1>7, <1>8, <1>9 DEF SystemDesignAgent!Next

(* The design agents' drafts, what was accepted of them, what was drawn and *)
(* what was built of it fit together in every state (systemDesignAgent.ts,  *)
(* uiDesignAgent.ts, sliceBatch.ts).                                        *)
THEOREM DesignInductive == Spec => [](part = "systemDesign" => DesignInv)
<1>1. Init => (part = "systemDesign" => DesignInv)
  BY DesignStarts DEF Init
<1>2. (part = "systemDesign" => DesignInv) /\ [Next]_vars => (part = "systemDesign" => DesignInv)'
  <2>1. SUFFICES ASSUME part = "systemDesign" => DesignInv, [Next]_vars, part' = "systemDesign"
                 PROVE  DesignInv'
    OBVIOUS
  <2>2. CASE SystemDesignAgentStep
    BY <2>1, <2>2, DesignStays DEF SystemDesignAgentStep
  <2>3. CASE UNCHANGED <<part, systemDesignState>>
    <3>1. part = "systemDesign" /\ DesignInv
      BY <2>1, <2>3
    <3>2. UNCHANGED <<drafts, accepted, uiSpec, designStage, built, submits, ran, early>>
      BY <2>3 DEF systemDesignState
    <3>3. DraftsFit' /\ AcceptedFits' /\ BuiltFits'
      BY <3>1, <3>2
      DEF DesignInv, DraftsFit, AcceptedFits, BuiltFits, SystemDesignAgent!Plan
    <3>4. DrawnFits'
      BY <3>1, <3>2
      DEF DesignInv, DrawnFits, SystemDesignAgent!uiSpecProblems,
          SystemDesignAgent!uiSpecProblemsButUnused, SystemDesignAgent!Plan
    <3> QED BY <3>3, <3>4 DEF DesignInv
  <2> QED
    BY <2>1, <2>2, <2>3
    DEF Next, vars, CodingAgentsStep, RoutingStep, ReviewStep, BriefStep
<1> QED BY <1>1, <1>2, PTL DEF Spec

(* A design is handed over as the last calls that were run sent it, whole;  *)
(* no Slice of it is built before one it depends on; and each of its        *)
(* operations is built and called by a screen (save, finish_design,         *)
(* nextBatch, submit_ui_spec).                                              *)
THEOREM WholeDesignIsHandedOver == Spec => []DesignHandedOverIsWhole
<1>1. (part = "systemDesign" => DesignInv) => DesignHandedOverIsWhole
  <2>1. SUFFICES ASSUME DesignInv
                 PROVE  /\ SystemDesignAgent!HandsOverWhatRanLast
                        /\ SystemDesignAgent!NothingIsBuiltEarly
                        /\ SystemDesignAgent!EveryOperationIsReached
    BY DEF DesignHandedOverIsWhole
  <2>2. SystemDesignAgent!HandsOverWhatRanLast
    BY <2>1 DEF DesignInv, AcceptedFits, SystemDesignAgent!HandsOverWhatRanLast
  <2>3. SystemDesignAgent!NothingIsBuiltEarly
    BY <2>1 DEF DesignInv, BuiltFits, SystemDesignAgent!NothingIsBuiltEarly
  <2>4. SystemDesignAgent!EveryOperationIsReached
    <3>1. SUFFICES ASSUME designStage = "building", built = DOMAIN SystemDesignAgent!Plan,
                          NEW op \in accepted.apiContract.has \ {SystemDesignAgent!Health}
                   PROVE  /\ \E screen \in uiSpec : op \in screen.endpoints
                          /\ SystemDesignAgent!Cardinality({i \in built :
                                op \in SystemDesignAgent!Plan[i].endpoints}) = 1
      BY DEF SystemDesignAgent!EveryOperationIsReached
    <3>2. /\ ~SystemDesignAgent!uiSpecProblems(uiSpec)
          /\ ~SystemDesignAgent!sliceContractProblems(SystemDesignAgent!Plan, accepted.apiContract.has)
      BY <2>1, <3>1 DEF DesignInv, DrawnFits, AcceptedFits, SystemDesignAgent!Plan
    <3>3. \E screen \in uiSpec : op \in screen.endpoints
      BY <3>2 DEF SystemDesignAgent!uiSpecProblems
    <3>4. SystemDesignAgent!Cardinality({i \in built :
             op \in SystemDesignAgent!Plan[i].endpoints}) = 1
      BY <3>1, <3>2 DEF SystemDesignAgent!sliceContractProblems
    <3> QED BY <3>3, <3>4
  <2> QED BY <2>2, <2>3, <2>4
<1> QED BY <1>1, DesignInductive, PTL

-----------------------------------------------------------------------------
(* The files the Coding Agents write.                                       *)

\* A side whose package.json was never deleted has all that was there.
ManifestsKeep ==
    /\ manifest = [s \in CodingAgents!Sides |-> manifest[s]]
    /\ before.json =>
          \A s \in CodingAgents!Sides \ deleted :
              manifest[s].json /\ CodingAgents!Keeps(manifest[s])

\* What is merged are the manifests as both Steps left them.
MergeFits ==
    merged # CodingAgents!NotMerged =>
        /\ \A s \in CodingAgents!Sides : stage[s] # "working"
        /\ merged = CodingAgents!MergeManifests(before, manifest["backend"], manifest["frontend"])

\* A Step that delivers what its check has seen was sent back as often as it may be, or
\* nothing is found in its own files, which no other Step writes, or just what it was
\* sent back for.
ChecksFit ==
    /\ stage = [s \in CodingAgents!Sides |-> stage[s]]
    /\ tree = [s \in CodingAgents!Sides |-> tree[s]]
    /\ sentFor = [s \in CodingAgents!Sides |-> sentFor[s]]
    /\ sentBack \in [CodingAgents!Sides -> 0..MaxChecks]
    /\ \A s \in CodingAgents!Sides : sentFor[s] # {} => sentBack[s] > 0
    /\ \A s \in CodingAgents!Sides : stage[s] = "delivered" =>
          \/ CodingAgents!cheapFindings(s) = {} \/ sentBack[s] = MaxChecks
          \/ CodingAgents!SameAgain(s)

CodingInv == ManifestsKeep /\ MergeFits /\ ChecksFit

\* The first state of a coding Step has it: nothing is merged.
LEMMA CodingStarts ==
    ASSUME CodingAgents!Init
    PROVE  CodingInv
<1> USE DEF CodingAgents!Init
<1>1. ManifestsKeep
  BY DEF ManifestsKeep, CodingAgents!Keeps
<1>2. MergeFits
  BY DEF MergeFits
<1>3. ChecksFit
  <2>1. \A s \in CodingAgents!Sides : stage[s] = "working" /\ sentBack[s] = 0 /\ sentFor[s] = {}
    OBVIOUS
  <2>2. sentBack \in [CodingAgents!Sides -> 0..MaxChecks]
    BY ConstantsAssumption
  <2> QED BY <2>1, <2>2 DEF ChecksFit
<1> QED BY <1>1, <1>2, <1>3 DEF CodingInv

\* Only a Step that works changes files, and only its own.
LEMMA ChangingStays ==
    ASSUME CodingInv, NEW side \in CodingAgents!Sides, NEW path,
           CodingAgents!Changes(side, path), tree' = [s \in CodingAgents!Sides |-> tree'[s]],
           \A s \in CodingAgents!Sides \ {side} : tree'[s] = tree[s]
    PROVE  MergeFits' /\ ChecksFit'
<1>1. stage[side] = "working" /\ UNCHANGED <<before, sentBack, sentFor, stage, merged>>
  BY DEF CodingAgents!Changes
<1>2. MergeFits'
  BY <1>1 DEF CodingInv, MergeFits
<1>3. \A s \in CodingAgents!Sides : stage[s] = "delivered" =>
         CodingAgents!cheapFindings(s)' = CodingAgents!cheapFindings(s)
  BY <1>1 DEF CodingAgents!cheapFindings
<1>4. ChecksFit'
  BY <1>1, <1>3 DEF CodingInv, ChecksFit, CodingAgents!SameAgain
<1> QED BY <1>2, <1>4

\* Nothing but the stages of the Steps and how often they were sent back changes.
LEMMA AnsweringStays ==
    ASSUME CodingInv, NEW side \in CodingAgents!Sides,
           UNCHANGED <<before, manifest, tree, merged, deleted>>,
           stage[side] = "working", \A s \in CodingAgents!Sides \ {side} : stage'[s] = stage[s],
           ChecksFit'
    PROVE  CodingInv'
<1>1. ManifestsKeep'
  BY DEF CodingInv, ManifestsKeep, CodingAgents!Keeps
<1>2. merged = CodingAgents!NotMerged
  BY DEF CodingInv, MergeFits
<1>3. MergeFits'
  BY <1>2 DEF MergeFits, CodingAgents!NotMerged
<1> QED BY <1>1, <1>3 DEF CodingInv

\* Every step of the coding agents, the merge and the checks keeps it.
LEMMA CodingStays ==
    ASSUME CodingInv, CodingAgents!Next
    PROVE  CodingInv'
<1> DEFINE Sides == CodingAgents!Sides
<1>1. ASSUME NEW side \in Sides, NEW path, NEW text, CodingAgents!writeFile(side, path, text)
      PROVE  CodingInv'
  <2>1. /\ CodingAgents!Changes(side, path) /\ tree' = [tree EXCEPT ![side][path] = text]
        /\ UNCHANGED <<manifest, deleted>> /\ UNCHANGED before
    BY <1>1 DEF CodingAgents!writeFile, CodingAgents!Changes
  <2>2. /\ tree' = [s \in Sides |-> tree'[s]]
        /\ \A s \in Sides \ {side} : tree'[s] = tree[s]
    BY <2>1 DEF CodingInv, ChecksFit
  <2>3. MergeFits' /\ ChecksFit'
    BY <2>1, <2>2, ChangingStays
  <2>4. ManifestsKeep'
    BY <2>1 DEF CodingInv, ManifestsKeep, CodingAgents!Keeps
  <2> QED BY <2>3, <2>4 DEF CodingInv
<1>2. ASSUME NEW side \in Sides, NEW path, NEW old, NEW next,
             CodingAgents!editFile(side, path, old, next)
      PROVE  CodingInv'
  <2>1. /\ CodingAgents!Changes(side, path)
        /\ UNCHANGED <<manifest, deleted>> /\ UNCHANGED before
    BY <1>2 DEF CodingAgents!editFile, CodingAgents!Changes
  <2>2. PICK i : tree' = [tree EXCEPT ![side][path][i] = next]
    BY <1>2 DEF CodingAgents!editFile
  <2>3. /\ tree' = [s \in Sides |-> tree'[s]]
        /\ \A s \in Sides \ {side} : tree'[s] = tree[s]
    BY <2>2 DEF CodingInv, ChecksFit
  <2>4. MergeFits' /\ ChecksFit'
    BY <2>1, <2>3, ChangingStays
  <2>5. ManifestsKeep'
    BY <2>1 DEF CodingInv, ManifestsKeep, CodingAgents!Keeps
  <2> QED BY <2>4, <2>5 DEF CodingInv
<1>3. ASSUME NEW side \in Sides, NEW next, CodingAgents!writeManifest(side, next)
      PROVE  CodingInv'
  <2>1. /\ CodingAgents!Changes(side, CodingAgents!MANIFEST_PATH)
        /\ \/ manifest[side] = CodingAgents!NoFile
           \/ ~CodingAgents!manifestChangeProblem(manifest[side], next)
        /\ manifest' = [manifest EXCEPT ![side] = next]
        /\ UNCHANGED <<tree, deleted>> /\ UNCHANGED before
    BY <1>3 DEF CodingAgents!writeManifest, CodingAgents!Changes
  <2>2. MergeFits' /\ ChecksFit'
    BY <2>1, ChangingStays DEF CodingInv, ChecksFit
  <2>3. /\ manifest' = [s \in Sides |-> manifest'[s]] /\ manifest'[side] = next
        /\ \A s \in Sides \ {side} : manifest'[s] = manifest[s]
    BY <2>1 DEF CodingInv, ManifestsKeep
  <2>4. ASSUME before.json, side \notin deleted
        PROVE  next.json /\ CodingAgents!Keeps(next)
    <3>1. manifest[side].json /\ CodingAgents!Keeps(manifest[side])
      BY <2>4 DEF CodingInv, ManifestsKeep
    <3>2. ~CodingAgents!manifestChangeProblem(manifest[side], next)
      BY <2>1, <3>1 DEF CodingAgents!NoFile
    <3> QED BY <3>1, <3>2 DEF CodingAgents!manifestChangeProblem, CodingAgents!Keeps
  <2>5. ManifestsKeep'
    BY <2>1, <2>3, <2>4 DEF CodingInv, ManifestsKeep, CodingAgents!Keeps
  <2> QED BY <2>2, <2>5 DEF CodingInv
<1>4. ASSUME NEW side \in Sides, CodingAgents!deleteManifest(side)
      PROVE  CodingInv'
  <2>1. /\ CodingAgents!Changes(side, CodingAgents!MANIFEST_PATH)
        /\ manifest' = [manifest EXCEPT ![side] = CodingAgents!NoFile]
        /\ deleted' = deleted \cup {side} /\ UNCHANGED tree /\ UNCHANGED before
    BY <1>4 DEF CodingAgents!deleteManifest, CodingAgents!Changes
  <2>2. MergeFits' /\ ChecksFit'
    BY <2>1, ChangingStays DEF CodingInv, ChecksFit
  <2>3. /\ manifest' = [s \in Sides |-> manifest'[s]]
        /\ \A s \in Sides \ {side} : manifest'[s] = manifest[s]
    BY <2>1 DEF CodingInv, ManifestsKeep
  <2>4. ManifestsKeep'
    BY <2>1, <2>3 DEF CodingInv, ManifestsKeep, CodingAgents!Keeps
  <2> QED BY <2>2, <2>4 DEF CodingInv
<1>5. ASSUME NEW side \in Sides, CodingAgents!AnswerSentBack(side)
      PROVE  CodingInv'
  <2>1. /\ stage[side] = "working" /\ sentBack[side] < MaxChecks
        /\ sentBack' = [sentBack EXCEPT ![side] = @ + 1]
        /\ sentFor' = [sentFor EXCEPT ![side] = CodingAgents!cheapFindings(side)]
        /\ UNCHANGED <<before, manifest, tree, stage, merged, deleted>>
    BY <1>5 DEF CodingAgents!AnswerSentBack, CodingAgents!IsChecked
  <2>2. /\ sentBack' \in [Sides -> 0..MaxChecks] /\ sentBack'[side] > 0
        /\ sentFor' = [s \in Sides |-> sentFor'[s]]
        /\ \A s \in Sides \ {side} : sentBack'[s] = sentBack[s] /\ sentFor'[s] = sentFor[s]
    BY <2>1, ConstantsAssumption DEF CodingInv, ChecksFit
  <2>3. \A s \in Sides : stage[s] = "delivered" =>
           \/ CodingAgents!cheapFindings(s) = {} \/ sentBack'[s] = MaxChecks
           \/ sentFor'[s] = CodingAgents!cheapFindings(s)
    BY <2>1, <2>2 DEF CodingInv, ChecksFit, CodingAgents!SameAgain
  <2>4. \A s \in Sides : CodingAgents!cheapFindings(s)' = CodingAgents!cheapFindings(s)
    BY <2>1 DEF CodingAgents!cheapFindings
  <2>5. ChecksFit'
    BY <2>1, <2>2, <2>3, <2>4 DEF CodingInv, ChecksFit, CodingAgents!SameAgain
  <2> QED BY <2>1, <2>5, AnsweringStays
<1>6. ASSUME NEW side \in Sides, NEW how, stage[side] = "working", CodingAgents!Ends(side, how),
             how = "delivered" =>
                 \/ CodingAgents!cheapFindings(side) = {} \/ sentBack[side] = MaxChecks
                 \/ CodingAgents!SameAgain(side)
      PROVE  CodingInv'
  <2>1. /\ stage' = [stage EXCEPT ![side] = how]
        /\ UNCHANGED <<before, manifest, tree, sentBack, sentFor, merged, deleted>>
    BY <1>6 DEF CodingAgents!Ends
  <2>2. /\ stage' = [s \in Sides |-> stage'[s]] /\ stage'[side] = how
        /\ \A s \in Sides \ {side} : stage'[s] = stage[s]
    BY <2>1 DEF CodingInv, ChecksFit
  <2>3. \A s \in Sides : stage'[s] = "delivered" =>
           \/ CodingAgents!cheapFindings(s) = {} \/ sentBack[s] = MaxChecks
           \/ sentFor[s] = CodingAgents!cheapFindings(s)
    BY <1>6, <2>2 DEF CodingInv, ChecksFit, CodingAgents!SameAgain
  <2>4. \A s \in Sides : CodingAgents!cheapFindings(s)' = CodingAgents!cheapFindings(s)
    BY <2>1 DEF CodingAgents!cheapFindings
  <2>5. ChecksFit'
    BY <2>1, <2>2, <2>3, <2>4 DEF CodingInv, ChecksFit, CodingAgents!SameAgain
  <2> QED BY <1>6, <2>1, <2>2, <2>5, AnsweringStays
<1>7. ASSUME NEW side \in Sides,
             \/ CodingAgents!AnswerStands(side) \/ CodingAgents!AnswerOutOfTurns(side)
             \/ CodingAgents!AnswerUnread(side) \/ CodingAgents!StopsEarly(side)
      PROVE  CodingInv'
  <2>1. sentBack[side] \in 0..MaxChecks /\ MaxChecks \in Nat
    BY ConstantsAssumption DEF CodingInv, ChecksFit
  <2>2. CASE CodingAgents!AnswerStands(side)
    <3>1. /\ stage[side] = "working"
          /\ (sentBack[side] < MaxChecks /\ changes[side] # {})
                => CodingAgents!cheapFindings(side) = {} \/ CodingAgents!SameAgain(side)
          /\ CodingAgents!Ends(side, IF changes[side] = {} THEN "noChanges" ELSE "delivered")
      BY <2>2 DEF CodingAgents!AnswerStands, CodingAgents!IsChecked
    <3>2. CASE changes[side] = {}
      BY <1>6, <3>1, <3>2
    <3>3. CASE changes[side] # {}
      <4>1. \/ CodingAgents!cheapFindings(side) = {} \/ sentBack[side] = MaxChecks
            \/ CodingAgents!SameAgain(side)
        BY <2>1, <3>1, <3>3
      <4> QED BY <1>6, <3>1, <3>3, <4>1
    <3> QED BY <3>2, <3>3
  <2>3. CASE CodingAgents!AnswerOutOfTurns(side)
    BY <1>6, <2>3 DEF CodingAgents!AnswerOutOfTurns
  <2>4. CASE CodingAgents!AnswerUnread(side)
    BY <1>6, <2>4 DEF CodingAgents!AnswerUnread
  <2>5. CASE CodingAgents!StopsEarly(side)
    BY <1>6, <2>5 DEF CodingAgents!StopsEarly
  <2> QED BY <1>7, <2>2, <2>3, <2>4, <2>5
<1>8. CASE CodingAgents!mergeSides
  <2>1. /\ \A s \in Sides : stage[s] # "working"
        /\ merged' = CodingAgents!MergeManifests(before, manifest["backend"], manifest["frontend"])
        /\ UNCHANGED <<before, manifest, tree, sentBack, sentFor, stage, deleted>>
    BY <1>8 DEF CodingAgents!mergeSides, CodingAgents!Delivered
  <2>2. MergeFits'
    BY <2>1 DEF MergeFits
  <2>3. ManifestsKeep'
    BY <2>1 DEF CodingInv, ManifestsKeep, CodingAgents!Keeps
  <2>4. \A s \in Sides : CodingAgents!cheapFindings(s)' = CodingAgents!cheapFindings(s)
    BY <2>1 DEF CodingAgents!cheapFindings
  <2>5. ChecksFit'
    BY <2>1, <2>4 DEF CodingInv, ChecksFit, CodingAgents!SameAgain
  <2> QED BY <2>2, <2>3, <2>5 DEF CodingInv
<1> QED
  BY <1>1, <1>2, <1>3, <1>4, <1>5, <1>7, <1>8 DEF CodingAgents!Next

(* What each side did to package.json, what both were merged into and what  *)
(* each answer was put to fit together in every state (manifestGuard.ts,    *)
(* packageJsonMerge.ts, selfCheck.ts).                                      *)
THEOREM CodingInductive == Spec => [](part = "coding" => CodingInv)
<1>1. Init => (part = "coding" => CodingInv)
  BY CodingStarts DEF Init
<1>2. (part = "coding" => CodingInv) /\ [Next]_vars => (part = "coding" => CodingInv)'
  <2>1. SUFFICES ASSUME part = "coding" => CodingInv, [Next]_vars, part' = "coding"
                 PROVE  CodingInv'
    OBVIOUS
  <2>2. CASE CodingAgentsStep
    BY <2>1, <2>2, CodingStays DEF CodingAgentsStep
  <2>3. CASE UNCHANGED <<part, codingState>>
    <3>1. /\ part = "coding" /\ CodingInv
          /\ UNCHANGED <<before, manifest, tree, changes, calls, sentBack, sentFor, stage,
                        merged, deleted>>
      BY <2>1, <2>3 DEF codingState
    <3>2. ManifestsKeep' /\ MergeFits'
      BY <3>1 DEF CodingInv, ManifestsKeep, MergeFits, CodingAgents!Keeps
    <3>3. \A s \in CodingAgents!Sides :
              CodingAgents!cheapFindings(s)' = CodingAgents!cheapFindings(s)
      BY <3>1 DEF CodingAgents!cheapFindings
    <3>4. ChecksFit'
      BY <3>1, <3>3 DEF CodingInv, ChecksFit, CodingAgents!SameAgain
    <3> QED BY <3>2, <3>4 DEF CodingInv
  <2> QED
    BY <2>1, <2>2, <2>3
    DEF Next, vars, SystemDesignAgentStep, RoutingStep, ReviewStep, BriefStep
<1> QED BY <1>1, <1>2, PTL DEF Spec

\* What two manifests are merged into, entry by entry.
LEMMA MergedEntries ==
    ASSUME NEW b, NEW o, NEW t, NEW m, m = CodingAgents!MergeManifests(b, o, t),
           m # CodingAgents!Conflict, NEW e \in Entries
    PROVE  \/ o = t /\ m = o
           \/ b = t /\ m = o
           \/ b = o /\ m = t
           \/ /\ b.json /\ o.json /\ t.json /\ m.json
              /\ \/ o.has[e] = t.has[e] /\ m.has[e] = o.has[e]
                 \/ b.has[e] = o.has[e] /\ m.has[e] = t.has[e]
                 \/ b.has[e] = t.has[e] /\ m.has[e] = o.has[e]
<1>1. CASE o = t \/ b = t
  BY <1>1 DEF CodingAgents!MergeManifests
<1>2. CASE b = o /\ ~(o = t \/ b = t)
  BY <1>2 DEF CodingAgents!MergeManifests
<1>3. CASE ~(o = t \/ b = t) /\ b # o
  <2> DEFINE ours == CodingAgents!mergeObjects(b, o, t)
  <2>1. m = CodingAgents!mergePackageJson(b, o, t)
    BY <1>3 DEF CodingAgents!MergeManifests
  <2>2. /\ b.json /\ o.json /\ t.json
        /\ ~\E d \in Entries : ours[d] = -3
        /\ m = [json |-> TRUE, has |-> ours]
    BY <2>1 DEF CodingAgents!mergePackageJson
  <2>3. m.json /\ m.has[e] = ours[e] /\ ours[e] # -3
    BY <2>2
  <2>4. ours[e] = CodingAgents!pick(b.has[e], o.has[e], t.has[e])
    BY DEF CodingAgents!mergeObjects
  <2> HIDE DEF ours
  <2>5. \/ o.has[e] = t.has[e] /\ m.has[e] = o.has[e]
        \/ b.has[e] = o.has[e] /\ m.has[e] = t.has[e]
        \/ b.has[e] = t.has[e] /\ m.has[e] = o.has[e]
    BY <2>3, <2>4 DEF CodingAgents!pick
  <2> QED BY <2>2, <2>3, <2>5
<1> QED BY <1>1, <1>2, <1>3

(* The package.json two sides are merged into keeps what was there and each *)
(* change of either, and forbidden lines that are delivered by a Step with  *)
(* a turn left were sent back before, or the Step as often as it may be     *)
(* (manifestChangeProblem, mergePackageJson, agentLoop.ts, selfCheck.ts).   *)
THEOREM MergedManifestsAreWhole == Spec => []MergedManifestIsWhole
<1>1. (part = "coding" => CodingInv) => MergedManifestIsWhole
  <2>1. SUFFICES ASSUME CodingInv
                 PROVE  /\ CodingAgents!MergedManifestKeeps
                        /\ CodingAgents!MergeLosesNoChange
                        /\ CodingAgents!ForbiddenLinesWereSentBack
    BY DEF MergedManifestIsWhole
  <2>2. "backend" \in CodingAgents!Sides /\ "frontend" \in CodingAgents!Sides
    BY DEF CodingAgents!Sides
  <2> DEFINE ours == manifest["backend"]
             theirs == manifest["frontend"]
  <2>3. merged # CodingAgents!NotMerged => merged = CodingAgents!MergeManifests(before, ours, theirs)
    BY <2>1 DEF CodingInv, MergeFits
  <2> HIDE DEF ours, theirs
  <2>4. CodingAgents!MergedManifestKeeps
    <3>1. SUFFICES ASSUME before.json, deleted = {}, merged # CodingAgents!NotMerged,
                          merged # CodingAgents!Conflict,
                          NEW e \in Entries, before.has[e] # 0
                   PROVE  merged.has[e] = before.has[e]
      BY DEF CodingAgents!MergedManifestKeeps, CodingAgents!Keeps
    <3>2. ours.has[e] = before.has[e] /\ theirs.has[e] = before.has[e]
      BY <2>1, <2>2, <3>1 DEF CodingInv, ManifestsKeep, CodingAgents!Keeps, ours, theirs
    <3> QED BY <2>3, <3>1, <3>2, MergedEntries
  <2>5. CodingAgents!MergeLosesNoChange
    <3>1. SUFFICES ASSUME before.json, merged.json, NEW s \in CodingAgents!Sides, NEW e \in Entries,
                          manifest[s].has[e] # before.has[e]
                   PROVE  merged.has[e] = manifest[s].has[e]
      BY DEF CodingAgents!MergeLosesNoChange
    <3>2. manifest[s] = ours \/ manifest[s] = theirs
      BY DEF CodingAgents!Sides, ours, theirs
    <3>3. merged # CodingAgents!NotMerged /\ merged # CodingAgents!Conflict
      BY <3>1 DEF CodingAgents!NotMerged, CodingAgents!Conflict
    <3> QED BY <2>3, <3>1, <3>2, <3>3, MergedEntries
  <2>6. CodingAgents!ForbiddenLinesWereSentBack
    <3>1. \A s \in CodingAgents!Sides :
              CodingAgents!ForbiddenIn(s) = CodingAgents!cheapFindings(s)
      BY DEF CodingAgents!ForbiddenIn, CodingAgents!cheapFindings
    <3> QED
      BY <2>1, <3>1
      DEF CodingInv, ChecksFit, CodingAgents!ForbiddenLinesWereSentBack, CodingAgents!SameAgain
  <2> QED BY <2>4, <2>5, <2>6
<1> QED BY <1>1, CodingInductive, PTL

-----------------------------------------------------------------------------
(* What is filtered.                                                        *)

\* The elements of a sequence at a set of places, in their order.
At(s, P) == [k \in DOMAIN Ascending(P) |-> s[Ascending(P)[k]]]

\* The elements at a set of places, in their order, are elements of the sequence
\* at those places, and each of them is there.
LEMMA FilteredAt ==
    ASSUME NEW S, NEW s \in Seq(S), NEW P \in SUBSET (DOMAIN s)
    PROVE  LET a == Ascending(P)
               t == At(s, P) IN
           /\ Cardinality(P) \in Nat /\ DOMAIN t = 1..Cardinality(P) /\ t \in Seq(S)
           /\ Len(t) = Cardinality(P)
           /\ \A k \in DOMAIN t : a[k] \in P /\ t[k] = s[a[k]]
           /\ \A p \in P : \E k \in DOMAIN t : a[k] = p /\ t[k] = s[p]
<1> SUFFICES ASSUME NEW a, a = Ascending(P),
                    NEW t, t = [k \in DOMAIN a |-> s[a[k]]]
             PROVE  /\ Cardinality(P) \in Nat /\ DOMAIN t = 1..Cardinality(P) /\ t \in Seq(S)
                    /\ Len(t) = Cardinality(P)
                    /\ \A k \in DOMAIN t : a[k] \in P /\ t[k] = s[a[k]]
                    /\ \A p \in P : \E k \in DOMAIN t : a[k] = p /\ t[k] = s[p]
  BY DEF At
<1>1. DOMAIN s = 1..Len(s) /\ Len(s) \in Nat
  OBVIOUS
<1>2. P \in SUBSET Nat
  BY <1>1
<1>3. IsFiniteSet(P)
  <2>1. IsFiniteSet(1..Len(s))
    BY <1>1, FS_Interval
  <2> QED BY <1>1, <2>1, FS_Subset
<1>4. /\ Cardinality(P) \in Nat /\ a \in [1..Cardinality(P) -> P]
      /\ \A p \in P : \E k \in 1..Cardinality(P) : a[k] = p
  BY <1>2, <1>3, AscendingPlaces
<1>5. DOMAIN a = 1..Cardinality(P) /\ DOMAIN t = 1..Cardinality(P)
  BY <1>4
<1>6. \A k \in DOMAIN t : a[k] \in P /\ t[k] = s[a[k]] /\ t[k] \in S
  BY <1>4, <1>5
<1>7. t \in [1..Cardinality(P) -> S]
  BY <1>5, <1>6
<1>8. t \in Seq(S) /\ Len(t) = Cardinality(P)
  BY <1>4, <1>7
<1>9. \A p \in P : \E k \in DOMAIN t : a[k] = p /\ t[k] = s[p]
  BY <1>4, <1>5
<1> QED BY <1>4, <1>5, <1>6, <1>8, <1>9

-----------------------------------------------------------------------------
(* The brief of an Escalation.                                              *)

LEMMA BriefAscending == \A S : Brief!Ascending(S) = Ascending(S)
BY DEF Brief!Ascending, Ascending, Brief!Cardinality, Cardinality

\* The facts the brief is cut from: those code found, then those reports tell.
FoundFacts == Brief!TriggerFact \o Brief!templateFacts
FactsTold == FoundFacts \o Brief!reportFacts

Triggers == {"loop", "tokenBudget", "retryBudget"}
FoundKinds == [is : {"trigger", "extendIt", "gone", "lostExports"}, of : {"a", "b"} \cup Triggers]
ReportKinds == [is : {"cause", "often"}, of : Int]

\* The facts up to some place.
StartsAs(t, n) == n \in 0..Len(FactsTold) /\ t = SubSeq(FactsTold, 1, n)

FoundTyped ==
    /\ found.reports \in Seq(Brief!Reports)
    /\ escalation \in [trigger : Triggers, inSlice : BOOLEAN, resolved : {"none"} \cup Brief!CHOICES]

\* A set of names as a sequence of them.
LEMMA NamesInSequence ==
    ASSUME NEW S, IsFiniteSet(S)
    PROVE  Brief!SetToSeq(S) \in [1..Cardinality(S) -> S] /\ Cardinality(S) \in Nat
<1>1. /\ Cardinality(S) \in Nat /\ ExistsBijection(1..Cardinality(S), S)
  BY FS_CardinalityType
<1>2. PICK f : f \in Bijection(1..Cardinality(S), S)
  BY <1>1 DEF ExistsBijection
<1>3. f \in [1..Cardinality(S) -> S] /\ Brief!IsInjective(f)
  BY <1>2 DEF Bijection, Injection, IsInjective, Brief!IsInjective
<1>4. Brief!Cardinality(S) = Cardinality(S)
  BY DEF Brief!Cardinality, Cardinality
<1>5. Brief!SetToSeq(S) \in [1..Cardinality(S) -> S]
  BY <1>3, <1>4 DEF Brief!SetToSeq
<1> QED BY <1>1, <1>5

\* The files of the template, which the brief goes through.
LEMMA TemplateFilesTyped ==
    /\ TemplateFiles \in Seq({"a", "b"}) /\ IsFiniteSet({"a", "b"})
    /\ Brief!ToSet(TemplateFiles) = {"a", "b"}
<1>1. IsFiniteSet({"a"}) /\ {"a", "b"} = {"a"} \cup {"b"}
  BY FS_Singleton
<1>2. IsFiniteSet({"a"} \cup {"b"})
  BY <1>1, FS_AddElement
<1>3. TemplateFiles \in Seq({"a", "b"}) /\ DOMAIN TemplateFiles = {1, 2}
      /\ TemplateFiles[1] = "a" /\ TemplateFiles[2] = "b"
  BY DEF TemplateFiles
<1>4. Brief!ToSet(TemplateFiles) = {"a", "b"}
  BY <1>3 DEF Brief!ToSet
<1> QED BY <1>1, <1>2, <1>3, <1>4

\* What the brief says of the template is about files found broken or named.
LEMMA TemplateFactsTyped ==
    Brief!templateFacts \in Seq(FoundKinds)
<1> DEFINE files == Brief!Named \cap Brief!ToSet(TemplateFiles)
           named == Brief!SetToSeq(files)
           P == {i \in DOMAIN TemplateFiles : found.merged[TemplateFiles[i]] \in {"gone", "lostExports"}}
           a == Ascending(P)
           broken == [k \in DOMAIN a |-> TemplateFiles[a[k]]]
           first == [i \in DOMAIN named |-> Brief!Fact("extendIt", named[i])]
           second == [i \in DOMAIN broken |-> Brief!Fact(found.merged[broken[i]], broken[i])]
<1>1. TemplateFiles \in Seq({"a", "b"})
  BY TemplateFilesTyped
<1>2. IsFiniteSet(files) /\ files \in SUBSET {"a", "b"}
  <2>1. files \in SUBSET {"a", "b"} /\ IsFiniteSet({"a", "b"})
    BY TemplateFilesTyped
  <2> QED BY <2>1, FS_Subset
<1>3. named \in [1..Cardinality(files) -> files] /\ Cardinality(files) \in Nat
  BY <1>2, NamesInSequence
<1>4. first \in Seq(FoundKinds)
  <2> HIDE DEF named, files
  <2>1. \A i \in 1..Cardinality(files) : Brief!Fact("extendIt", named[i]) \in FoundKinds
    BY <1>2, <1>3 DEF Brief!Fact, FoundKinds
  <2>2. first \in [1..Cardinality(files) -> FoundKinds]
    BY <1>3, <2>1
  <2> QED BY <1>3, <2>2
<1>5. /\ Cardinality(P) \in Nat /\ DOMAIN broken = 1..Cardinality(P) /\ broken \in Seq({"a", "b"})
      /\ \A k \in DOMAIN broken : a[k] \in P /\ broken[k] = TemplateFiles[a[k]]
  <2>1. P \in SUBSET (DOMAIN TemplateFiles)
    OBVIOUS
  <2>2. broken = At(TemplateFiles, P)
    BY DEF At
  <2> HIDE DEF P, broken
  <2> QED BY <1>1, <2>1, <2>2, FilteredAt
<1>6. second \in Seq(FoundKinds)
  <2>1. \A k \in DOMAIN broken : broken[k] \in {"a", "b"}
                                 /\ found.merged[broken[k]] \in {"gone", "lostExports"}
    <3>1. ASSUME NEW k \in DOMAIN broken
          PROVE  broken[k] \in {"a", "b"} /\ found.merged[broken[k]] \in {"gone", "lostExports"}
      <4>1. a[k] \in P /\ broken[k] = TemplateFiles[a[k]]
        BY <1>5, <3>1
      <4>2. a[k] \in DOMAIN TemplateFiles
            /\ found.merged[TemplateFiles[a[k]]] \in {"gone", "lostExports"}
        BY <4>1 DEF P
      <4> HIDE DEF broken, a
      <4> QED BY <1>1, <4>1, <4>2
    <3> QED BY <3>1
  <2> HIDE DEF broken, P
  <2>2. \A k \in 1..Cardinality(P) : Brief!Fact(found.merged[broken[k]], broken[k]) \in FoundKinds
    BY <1>5, <2>1 DEF Brief!Fact, FoundKinds
  <2>3. second \in [1..Cardinality(P) -> FoundKinds]
    BY <1>5, <2>2
  <2> QED BY <1>5, <2>3
<1>7. Brief!templateFacts = first \o second
  BY BriefAscending DEF Brief!templateFacts, Brief!Filter
<1> HIDE DEF first, second
<1> QED BY <1>4, <1>6, <1>7

\* What the brief says of the Issue Reports is a cause or a count of one.
LEMMA ReportFactsTyped ==
    ASSUME FoundTyped
    PROVE  Brief!reportFacts \in Seq(ReportKinds)
<1> DEFINE n == 2 * Len(found.reports)
           may == [k \in 1..n |-> Brief!Fact(IF k % 2 = 1 THEN "cause" ELSE "often", (k + 1) \div 2)]
           P == {k \in DOMAIN may : IF may[k].is = "cause" THEN found.reports[may[k].of].hasCause
                                    ELSE found.reports[may[k].of].often}
           a == Ascending(P)
<1>1. n \in Nat
  BY DEF FoundTyped
<1>2. may \in Seq(ReportKinds)
  <2>1. \A k \in 1..n : Brief!Fact(IF k % 2 = 1 THEN "cause" ELSE "often", (k + 1) \div 2) \in ReportKinds
    BY <1>1 DEF Brief!Fact, ReportKinds
  <2>2. may \in [1..n -> ReportKinds]
    BY <2>1
  <2> QED BY <1>1, <2>2
<1>3. Brief!reportFacts = At(may, P)
  <2>1. Brief!reportFacts = [k \in DOMAIN Brief!Ascending(P) |-> may[Brief!Ascending(P)[k]]]
    BY DEF Brief!reportFacts, Brief!Filter
  <2>2. Brief!Ascending(P) = a
    BY BriefAscending
  <2> HIDE DEF P, may
  <2> QED BY <2>1, <2>2 DEF At
<1>4. P \in SUBSET (DOMAIN may)
  OBVIOUS
<1> HIDE DEF P, may
<1>5. At(may, P) \in Seq(ReportKinds)
  BY <1>2, <1>4, FilteredAt
<1> QED BY <1>3, <1>5

\* The facts there are to tell: the ones found first, the reports' after them.
LEMMA FactsTyped ==
    ASSUME FoundTyped
    PROVE  /\ FoundFacts \in Seq(FoundKinds) /\ Brief!reportFacts \in Seq(ReportKinds)
           /\ FactsTold \in Seq(FoundKinds \cup ReportKinds)
           /\ Len(FactsTold) = Len(FoundFacts) + Len(Brief!reportFacts)
           /\ \A i \in 1..Len(FoundFacts) : FactsTold[i] = FoundFacts[i]
           /\ \A i \in 1..Len(FactsTold) : i > Len(FoundFacts) =>
                 FactsTold[i] = Brief!reportFacts[i - Len(FoundFacts)]
<1>1. Brief!TriggerFact \in Seq(FoundKinds)
  <2>1. escalation.trigger \in Triggers
    BY DEF FoundTyped
  <2>2. Brief!Fact("trigger", escalation.trigger) \in FoundKinds
    BY <2>1 DEF Brief!Fact, FoundKinds
  <2> QED BY <2>2 DEF Brief!TriggerFact
<1>2. FoundFacts \in Seq(FoundKinds)
  BY <1>1, TemplateFactsTyped DEF FoundFacts
<1>3. Brief!reportFacts \in Seq(ReportKinds)
  BY ReportFactsTyped
<1> DEFINE both == FoundKinds \cup ReportKinds
<1>4. FoundFacts \in Seq(both) /\ Brief!reportFacts \in Seq(both)
  BY <1>2, <1>3
<1> HIDE DEF both
<1>5. FactsTold \in Seq(both) /\ Len(FactsTold) = Len(FoundFacts) + Len(Brief!reportFacts)
  BY <1>4 DEF FactsTold
<1>6. \A i \in 1..Len(FoundFacts) : FactsTold[i] = FoundFacts[i]
  BY <1>4 DEF FactsTold
<1>7. \A i \in 1..Len(FactsTold) : i > Len(FoundFacts) =>
         FactsTold[i] = Brief!reportFacts[i - Len(FoundFacts)]
  BY <1>4, <1>5 DEF FactsTold
<1> QED BY <1>2, <1>3, <1>5, <1>6, <1>7 DEF both

\* The start of the facts is a start of them, cut again or not.
LEMMA StartCut ==
    ASSUME FoundTyped, NEW t, NEW n, StartsAs(t, n), NEW m \in Nat
    PROVE  /\ \E k \in Nat : StartsAs(Brief!Cut(t, m), k)
           /\ t \in Seq(FoundKinds \cup ReportKinds) /\ Len(t) = n
           /\ \A i \in 1..n : t[i] = FactsTold[i]
<1>1. /\ FactsTold \in Seq(FoundKinds \cup ReportKinds) /\ n \in Nat /\ n <= Len(FactsTold)
      /\ t = SubSeq(FactsTold, 1, n) /\ Len(FactsTold) \in Nat
  BY FactsTyped DEF StartsAs
<1>2. t \in Seq(FoundKinds \cup ReportKinds) /\ Len(t) = n
  BY <1>1
<1>3. \A i \in 1..n : t[i] = FactsTold[i]
  BY <1>1
<1> DEFINE k == IF n < m THEN n ELSE m
<1>4. k \in Nat /\ k <= n /\ k <= Len(FactsTold)
  BY <1>1
<1>5. Brief!Cut(t, m) = SubSeq(t, 1, k)
  BY <1>2 DEF Brief!Cut
<1> HIDE DEF k
<1>6. SubSeq(t, 1, k) = SubSeq(FactsTold, 1, k)
  BY <1>1, <1>2, <1>3, <1>4
<1>7. StartsAs(Brief!Cut(t, m), k)
  BY <1>1, <1>4, <1>5, <1>6 DEF StartsAs
<1> QED BY <1>2, <1>3, <1>4, <1>7

\* A start of the facts warns of nothing, and tells a line of a report only after
\* all that was found.
LEMMA StartTells ==
    ASSUME FoundTyped, NEW t, NEW n, StartsAs(t, n)
    PROVE  /\ t \in Seq(FoundKinds \cup ReportKinds)
           /\ Brief!Warning \notin Brief!ToSet(t)
           /\ (\E fact \in Brief!ToSet(t) : fact.is \in {"cause", "often"})
                 => Brief!ToSet(FoundFacts) \subseteq Brief!ToSet(t)
<1>1. /\ t \in Seq(FoundKinds \cup ReportKinds) /\ Len(t) = n
      /\ \A i \in 1..n : t[i] = FactsTold[i]
  BY StartCut
<1>2. /\ FoundFacts \in Seq(FoundKinds) /\ Len(FoundFacts) \in Nat /\ n \in Nat
      /\ DOMAIN t = 1..n /\ DOMAIN FoundFacts = 1..Len(FoundFacts)
      /\ \A i \in 1..Len(FoundFacts) : FactsTold[i] = FoundFacts[i]
  <2>1. /\ FoundFacts \in Seq(FoundKinds)
        /\ \A i \in 1..Len(FoundFacts) : FactsTold[i] = FoundFacts[i]
    BY FactsTyped
  <2>2. /\ Len(FoundFacts) \in Nat /\ DOMAIN FoundFacts = 1..Len(FoundFacts)
        /\ Len(t) \in Nat /\ DOMAIN t = 1..Len(t)
    BY <1>1, <2>1
  <2> QED BY <1>1, <2>1, <2>2
<1>3. Brief!Warning \notin Brief!ToSet(t)
  BY <1>1 DEF Brief!ToSet, Brief!Warning, Brief!Fact, FoundKinds, ReportKinds
<1>4. ASSUME NEW fact \in Brief!ToSet(t), fact.is \in {"cause", "often"}
      PROVE  Brief!ToSet(FoundFacts) \subseteq Brief!ToSet(t)
  <2>1. PICK i \in 1..n : t[i].is \in {"cause", "often"}
    BY <1>2, <1>4 DEF Brief!ToSet
  <2>2. ~(i <= Len(FoundFacts))
    <3>1. SUFFICES ASSUME i <= Len(FoundFacts) PROVE FALSE
      OBVIOUS
    <3>2. t[i] = FoundFacts[i] /\ FoundFacts[i] \in FoundKinds
      BY <1>1, <1>2, <3>1
    <3> QED BY <2>1, <3>2 DEF FoundKinds
  <2>3. \A j \in 1..Len(FoundFacts) : j \in 1..n /\ t[j] = FoundFacts[j]
    BY <1>1, <1>2, <2>2
  <2> QED BY <1>2, <2>3 DEF Brief!ToSet
<1> QED BY <1>1, <1>3, <1>4

\* What the brief shows is a start of the facts, with the warning after it exactly
\* where the hint asks for what is forbidden.
BriefShows ==
    /\ brief.hint # "asksForbidden" => \E n \in Nat : StartsAs(brief.facts, n)
    /\ brief.hint = "asksForbidden" =>
          \E t : (\E n \in Nat : StartsAs(t, n)) /\ brief.facts = Append(t, Brief!Warning)
    /\ brief.choice # "none" => brief.choice \in Brief!choicesFor
    /\ brief.hint # "none" => brief.choice = "retryWithHint"

\* A look is made only where its longest answer fits, and once.
LookFits ==
    /\ pace \in {1, 2} /\ spent \in Int /\ budget \in Int /\ allowed \in Int /\ message \in Nat
    /\ pace = 1 => spent <= allowed
    /\ writing = "looking" => spent + message + MaxAnswer <= allowed

BriefInv == FoundTyped /\ LookFits /\ (\E n \in Nat : StartsAs(facts, n)) /\ BriefShows

\* What one more element adds.
LEMMA SetOfAppended ==
    ASSUME NEW S, NEW s \in Seq(S), NEW e
    PROVE  Brief!ToSet(Append(s, e)) = Brief!ToSet(s) \cup {e}
<1> DEFINE T == S \cup {e}
           longer == Append(s, e)
<1>1. s \in Seq(T) /\ e \in T
  OBVIOUS
<1> HIDE DEF T
<1>2. Len(s) \in Nat /\ DOMAIN s = 1..Len(s) /\ DOMAIN longer = 1..(Len(s) + 1)
  BY <1>1
<1>3. (\A i \in 1..Len(s) : longer[i] = s[i]) /\ longer[Len(s) + 1] = e
  BY <1>1
<1> HIDE DEF longer
<1>4. \A i \in DOMAIN longer : i \in 1..Len(s) \/ i = Len(s) + 1
  BY <1>2
<1>5. \A i \in 1..Len(s) : i \in DOMAIN longer
  BY <1>2
<1>6. Len(s) + 1 \in DOMAIN longer
  BY <1>2
<1>7. Brief!ToSet(longer) = Brief!ToSet(s) \cup {e}
  BY <1>2, <1>3, <1>4, <1>5, <1>6 DEF Brief!ToSet
<1> QED BY <1>7 DEF longer

\* What was found, and why the Run stopped, stays as it is.
LEMMA FactsStay ==
    ASSUME found' = found, escalation'.trigger = escalation.trigger
    PROVE  \A t, n : StartsAs(t, n)' <=> StartsAs(t, n)
<1>1. Brief!TriggerFact' = Brief!TriggerFact
  BY DEF Brief!TriggerFact
<1>2. Brief!templateFacts' = Brief!templateFacts
  BY DEF Brief!templateFacts, Brief!Named, Brief!Filter
<1>3. Brief!reportFacts' = Brief!reportFacts
  BY DEF Brief!reportFacts, Brief!Filter
<1>4. FactsTold' = FactsTold
  BY <1>1, <1>2, <1>3 DEF FactsTold, FoundFacts
<1> QED BY <1>4 DEF StartsAs

\* The first state of a brief has it: nothing is told yet.
LEMMA BriefStarts ==
    ASSUME Brief!Init
    PROVE  BriefInv
<1> USE DEF Brief!Init
<1>1. FoundTyped
  <2>1. escalation \in [trigger : Triggers, inSlice : BOOLEAN, resolved : {"none"} \cup Brief!CHOICES]
    BY DEF Triggers
  <2>2. PICK n \in 0..MaxReports : \E reports \in [1..n -> Brief!Reports] : found.reports = reports
    OBVIOUS
  <2>3. n \in Nat
    BY <2>2, ConstantsAssumption
  <2>4. found.reports \in Seq(Brief!Reports)
    BY <2>2, <2>3
  <2> QED BY <2>1, <2>4 DEF FoundTyped
<1>2. LookFits
  BY ConstantsAssumption DEF LookFits
<1>3. StartsAs(<<>>, 0)
  <2>1. FactsTold \in Seq(FoundKinds \cup ReportKinds)
    BY <1>1, FactsTyped
  <2> QED BY <2>1 DEF StartsAs
<1>4. facts = <<>> /\ brief = Brief!NoBrief
  OBVIOUS
<1>5. BriefShows
  BY <1>3, <1>4 DEF BriefShows, Brief!NoBrief
<1> QED BY <1>1, <1>2, <1>3, <1>4, <1>5 DEF BriefInv

\* Nothing the brief is made of changes.
LEMMA BriefUntouched ==
    ASSUME BriefInv, FoundTyped', LookFits', UNCHANGED <<found, facts, brief>>,
           escalation'.trigger = escalation.trigger, escalation'.inSlice = escalation.inSlice
    PROVE  BriefInv'
<1>1. \A t, n : StartsAs(t, n)' <=> StartsAs(t, n)
  BY FactsStay
<1>2. \E n \in Nat : StartsAs(facts, n)'
  BY <1>1 DEF BriefInv
<1>3. Brief!choicesFor' = Brief!choicesFor
  BY DEF Brief!choicesFor
<1>4. BriefShows'
  BY <1>1, <1>3 DEF BriefInv, BriefShows
<1> QED BY <1>2, <1>4 DEF BriefInv

\* A brief is saved, with what its facts are and what it advises.
LEMMA SavingBriefStays ==
    ASSUME BriefInv, UNCHANGED <<found, escalation, facts>>, LookFits',
           NEW saved, brief' = saved,
           saved.hint # "asksForbidden" => saved.facts = facts,
           saved.hint = "asksForbidden" =>
              saved.facts = Append(Brief!Cut(facts, MaxFacts - 1), Brief!Warning),
           saved.choice # "none" => saved.choice \in Brief!choicesFor,
           saved.hint # "none" => saved.choice = "retryWithHint"
    PROVE  BriefInv'
<1>1. PICK n \in Nat : StartsAs(facts, n)
  BY DEF BriefInv
<1>2. \A t, k : StartsAs(t, k)' <=> StartsAs(t, k)
  BY FactsStay
<1>3. \E k \in Nat : StartsAs(Brief!Cut(facts, MaxFacts - 1), k)
  <2>1. MaxFacts - 1 \in Nat /\ FoundTyped
    BY ConstantsAssumption DEF BriefInv
  <2> QED BY <1>1, <2>1, StartCut
<1>4. Brief!choicesFor' = Brief!choicesFor
  BY DEF Brief!choicesFor
<1>5. BriefShows'
  BY <1>1, <1>2, <1>3, <1>4 DEF BriefShows
<1>6. \E k \in Nat : StartsAs(facts, k)'
  BY <1>1, <1>2
<1>7. FoundTyped'
  BY DEF BriefInv, FoundTyped
<1> QED BY <1>5, <1>6, <1>7 DEF BriefInv

\* Every step of writing the brief and of the person's answer keeps it.
LEMMA BriefStays ==
    ASSUME BriefInv, Brief!Next
    PROVE  BriefInv'
<1>1. CASE Brief!Gathers
  <2>1. UNCHANGED <<escalation, found, budget, spent, pace, brief, allowed>>
    BY <1>1 DEF Brief!Gathers
  <2>2. FoundTyped'
    BY <2>1 DEF BriefInv, FoundTyped
  <2>3. \A t, n : StartsAs(t, n)' <=> StartsAs(t, n)
    BY <2>1, FactsStay
  <2>4. CASE writing' = "gathered" /\ facts' = Brief!briefFacts /\ message' \in 1..MaxMessage
    <3>1. LookFits'
      BY <2>1, <2>4, ConstantsAssumption DEF BriefInv, LookFits
    <3>2. StartsAs(FactsTold, Len(FactsTold)) /\ FoundTyped
      <4>1. FactsTold \in Seq(FoundKinds \cup ReportKinds) /\ FoundTyped
        BY FactsTyped DEF BriefInv
      <4> QED BY <4>1 DEF StartsAs
    <3>3. \E k \in Nat : StartsAs(Brief!briefFacts, k)
      <4>1. MaxFacts \in Nat /\ Brief!briefFacts = Brief!Cut(FactsTold, MaxFacts)
        BY ConstantsAssumption DEF Brief!briefFacts, FactsTold, FoundFacts
      <4> QED BY <3>2, <4>1, StartCut
    <3>4. \E k \in Nat : StartsAs(facts, k)'
      BY <2>3, <2>4, <3>3
    <3>5. BriefShows'
      BY <2>1, <2>3 DEF BriefInv, BriefShows, Brief!choicesFor
    <3> QED BY <2>2, <3>1, <3>4, <3>5 DEF BriefInv
  <2>5. CASE writing' = "problem" /\ UNCHANGED <<facts, message>>
    <3>1. LookFits'
      BY <2>1, <2>5 DEF BriefInv, LookFits
    <3> QED BY <2>1, <2>2, <2>5, <3>1, BriefUntouched
  <2> QED BY <1>1, <2>4, <2>5 DEF Brief!Gathers
<1>2. CASE Brief!SkipsLook
  <2> DEFINE saved == [Brief!NoBrief EXCEPT !.facts = facts, !.without = "skipped"]
  <2>1. /\ brief' = saved /\ writing' = "written"
        /\ UNCHANGED <<escalation, found, budget, spent, pace, facts, message, allowed>>
    BY <1>2 DEF Brief!SkipsLook, Brief!Saves
  <2>2. saved.hint = "none" /\ saved.choice = "none" /\ saved.facts = facts
    BY DEF Brief!NoBrief
  <2>3. LookFits'
    BY <2>1 DEF BriefInv, LookFits
  <2> HIDE DEF saved
  <2> QED BY <2>1, <2>2, <2>3, SavingBriefStays
<1>3. CASE Brief!Looks
  <2>1. /\ ~Brief!whyNoLook /\ writing' = "looking" /\ allowed' = budget
        /\ UNCHANGED <<escalation, found, budget, spent, pace, facts, message, brief>>
    BY <1>3 DEF Brief!Looks
  <2>2. spent + message + MaxAnswer <= budget
    BY <2>1, ConstantsAssumption
    DEF Brief!whyNoLook, Brief!remaining, Brief!lookTokens, BriefInv, LookFits
  <2>3. spent <= budget
    BY <2>2, ConstantsAssumption DEF BriefInv, LookFits
  <2>4. LookFits'
    BY <2>1, <2>2, <2>3 DEF BriefInv, LookFits
  <2>5. FoundTyped'
    BY <2>1 DEF BriefInv, FoundTyped
  <2> QED BY <2>1, <2>4, <2>5, BriefUntouched
<1>4. CASE Brief!LookAnswers
  <2>1. /\ writing = "looking"
        /\ UNCHANGED <<escalation, found, budget, pace, facts, message, allowed>>
    BY <1>4 DEF Brief!LookAnswers
  <2>2. PICK answer \in 1..MaxAnswer : spent' = spent + pace * message + answer
    BY <1>4 DEF Brief!LookAnswers
  <2>3. spent' \in Int /\ (pace = 1 => spent' <= allowed)
    <3>1. /\ spent \in Int /\ message \in Nat /\ answer \in Nat /\ answer <= MaxAnswer
          /\ MaxAnswer \in Nat /\ allowed \in Int /\ spent + message + MaxAnswer <= allowed
      BY <2>1, <2>2, ConstantsAssumption DEF BriefInv, LookFits
    <3>2. CASE pace = 1
      <4>1. pace * message = message
        BY <3>1, <3>2
      <4> QED BY <2>2, <3>1, <4>1
    <3>3. CASE pace = 2
      <4>1. pace * message \in Int
        BY <3>1, <3>3
      <4> QED BY <2>2, <3>1, <3>3, <4>1
    <3> QED BY <3>2, <3>3 DEF BriefInv, LookFits
  <2>4. \E saved : /\ Brief!Saves(saved)
                   /\ \/ saved = [Brief!NoBrief EXCEPT !.facts = facts, !.without = "unusable"]
                      \/ \E choice \in Brief!choicesFor, hint \in {"none", "plain", "asksForbidden"} :
                            saved = [facts |-> Brief!Warned(Brief!HintFor(choice, hint)),
                                     choice |-> choice, hint |-> Brief!HintFor(choice, hint),
                                     without |-> "none"]
    BY <1>4 DEF Brief!LookAnswers
  <2>5. PICK saved : /\ Brief!Saves(saved)
                     /\ \/ saved = [Brief!NoBrief EXCEPT !.facts = facts, !.without = "unusable"]
                        \/ \E choice \in Brief!choicesFor, hint \in {"none", "plain", "asksForbidden"} :
                              saved = [facts |-> Brief!Warned(Brief!HintFor(choice, hint)),
                                       choice |-> choice, hint |-> Brief!HintFor(choice, hint),
                                       without |-> "none"]
    BY <2>4
  <2>6. brief' = saved /\ writing' = "written"
    BY <2>5 DEF Brief!Saves
  <2>7. LookFits'
    BY <2>1, <2>3, <2>6 DEF BriefInv, LookFits
  <2>8. CASE saved = [Brief!NoBrief EXCEPT !.facts = facts, !.without = "unusable"]
    <3>1. saved.hint = "none" /\ saved.choice = "none" /\ saved.facts = facts
      BY <2>8 DEF Brief!NoBrief
    <3> QED BY <2>1, <2>6, <2>7, <3>1, SavingBriefStays
  <2>9. ASSUME NEW choice \in Brief!choicesFor, NEW hint \in {"none", "plain", "asksForbidden"},
               saved = [facts |-> Brief!Warned(Brief!HintFor(choice, hint)),
                        choice |-> choice, hint |-> Brief!HintFor(choice, hint),
                        without |-> "none"]
        PROVE  BriefInv'
    <3>1. /\ saved.facts = Brief!Warned(saved.hint) /\ saved.choice \in Brief!choicesFor
          /\ saved.hint = Brief!HintFor(saved.choice, hint)
      BY <2>9
    <3>2. saved.hint # "none" => saved.choice = "retryWithHint"
      BY <3>1 DEF Brief!HintFor
    <3>3. /\ saved.hint # "asksForbidden" => saved.facts = facts
          /\ saved.hint = "asksForbidden" =>
                saved.facts = Append(Brief!Cut(facts, MaxFacts - 1), Brief!Warning)
      BY <3>1 DEF Brief!Warned
    <3> QED BY <2>1, <2>6, <2>7, <3>1, <3>2, <3>3, SavingBriefStays
  <2> QED BY <2>5, <2>8, <2>9
<1>5. CASE Brief!LookRefused
  <2> DEFINE saved == [Brief!NoBrief EXCEPT !.facts = facts, !.without = "unusable"]
  <2>1. /\ brief' = saved /\ writing' = "written"
        /\ UNCHANGED <<escalation, found, budget, spent, pace, facts, message, allowed>>
    BY <1>5 DEF Brief!LookRefused, Brief!Saves
  <2>2. saved.hint = "none" /\ saved.choice = "none" /\ saved.facts = facts
    BY DEF Brief!NoBrief
  <2>3. LookFits'
    BY <2>1 DEF BriefInv, LookFits
  <2> HIDE DEF saved
  <2> QED BY <2>1, <2>2, <2>3, SavingBriefStays
<1>6. CASE Brief!LookThrows \/ Brief!Dies
  <2>1. /\ writing' # "looking"
        /\ UNCHANGED <<escalation, found, budget, spent, pace, facts, message, brief, allowed>>
    BY <1>6 DEF Brief!LookThrows, Brief!Dies
  <2>2. LookFits' /\ FoundTyped'
    BY <2>1 DEF BriefInv, LookFits, FoundTyped
  <2> QED BY <2>1, <2>2, BriefUntouched
<1>7. CASE Brief!resolveEscalation
  <2>1. UNCHANGED <<found, spent, pace, writing, facts, message, brief, allowed>>
    BY <1>7 DEF Brief!resolveEscalation
  <2>2. PICK choice \in Brief!CHOICES, raised \in 1..MaxBudget :
           escalation' = [escalation EXCEPT !.resolved = choice] /\ budget' = raised
    BY <1>7 DEF Brief!resolveEscalation
  <2>3. LookFits'
    BY <2>1, <2>2, ConstantsAssumption DEF BriefInv, LookFits
  <2>4. FoundTyped' /\ escalation'.trigger = escalation.trigger
        /\ escalation'.inSlice = escalation.inSlice
    BY <2>1, <2>2 DEF BriefInv, FoundTyped
  <2> QED BY <2>1, <2>3, <2>4, BriefUntouched
<1> QED BY <1>1, <1>2, <1>3, <1>4, <1>5, <1>6, <1>7 DEF Brief!Next

(* What was found at an Escalation, the look that may be made of it and the *)
(* brief that is saved fit together in every state (escalationBrief.ts).    *)
THEOREM BriefInductive == Spec => [](part = "brief" => BriefInv)
<1>1. Init => (part = "brief" => BriefInv)
  BY BriefStarts DEF Init
<1>2. (part = "brief" => BriefInv) /\ [Next]_vars => (part = "brief" => BriefInv)'
  <2>1. SUFFICES ASSUME part = "brief" => BriefInv, [Next]_vars, part' = "brief"
                 PROVE  BriefInv'
    OBVIOUS
  <2>2. CASE BriefStep
    BY <2>1, <2>2, BriefStays DEF BriefStep
  <2>3. CASE UNCHANGED <<part, briefState>>
    <3>1. /\ part = "brief" /\ BriefInv
          /\ UNCHANGED <<escalation, found, budget, spent, pace, writing, facts, message, brief,
                         allowed>>
      BY <2>1, <2>3 DEF briefState
    <3>2. FoundTyped' /\ LookFits'
      BY <3>1 DEF BriefInv, FoundTyped, LookFits
    <3> QED BY <3>1, <3>2, BriefUntouched
  <2> QED
    BY <2>1, <2>2, <2>3
    DEF Next, vars, SystemDesignAgentStep, CodingAgentsStep, RoutingStep, ReviewStep
<1> QED BY <1>1, <1>2, PTL DEF Spec

(* A brief takes the Run past no Token Budget, advises what can be done,    *)
(* with a warning where one is due, and shows what was found first          *)
(* (whyNoLook, choicesFor, briefFacts).                                     *)
THEOREM BriefsAreWithinTheirMeans == Spec => []BriefIsWithinItsMeans
<1>1. (part = "brief" => BriefInv) => BriefIsWithinItsMeans
  <2>1. SUFFICES ASSUME BriefInv
                 PROVE  /\ Brief!LookStaysInBudget /\ Brief!AdviceCanBeFollowed
                        /\ Brief!FoundFactsComeFirst
    BY DEF BriefIsWithinItsMeans
  <2>2. Brief!LookStaysInBudget
    BY <2>1 DEF BriefInv, LookFits, Brief!LookStaysInBudget
  <2>3. PICK t, n : /\ StartsAs(t, n)
                    /\ brief.hint # "asksForbidden" => brief.facts = t
                    /\ brief.hint = "asksForbidden" => brief.facts = Append(t, Brief!Warning)
    <3>1. CASE brief.hint = "asksForbidden"
      BY <2>1, <3>1 DEF BriefInv, BriefShows
    <3>2. CASE brief.hint # "asksForbidden"
      BY <2>1, <3>2 DEF BriefInv, BriefShows
    <3> QED BY <3>1, <3>2
  <2>4. /\ t \in Seq(FoundKinds \cup ReportKinds)
        /\ Brief!Warning \notin Brief!ToSet(t)
        /\ (\E fact \in Brief!ToSet(t) : fact.is \in {"cause", "often"})
              => Brief!ToSet(FoundFacts) \subseteq Brief!ToSet(t)
    BY <2>1, <2>3, StartTells DEF BriefInv
  <2>5. Brief!ToSet(Append(t, Brief!Warning)) = Brief!ToSet(t) \cup {Brief!Warning}
    BY <2>4, SetOfAppended
  <2>6. brief.hint = "asksForbidden" <=> Brief!Warning \in Brief!ToSet(brief.facts)
    BY <2>3, <2>4, <2>5
  <2>7. Brief!AdviceCanBeFollowed
    <3>1. SUFFICES ASSUME brief.choice # "none"
                   PROVE  brief.choice \in Brief!Offered
                          /\ (brief.hint # "none" => brief.choice = "retryWithHint")
      BY <2>6 DEF Brief!AdviceCanBeFollowed
    <3> QED
      BY <2>1, <3>1 DEF BriefInv, BriefShows, Brief!Offered, Brief!choicesFor
  <2>8. Brief!FoundFactsComeFirst
    <3>1. SUFFICES ASSUME NEW fact \in Brief!ToSet(brief.facts), fact.is \in {"cause", "often"}
                   PROVE  Brief!ToSet(FoundFacts) \subseteq Brief!ToSet(brief.facts)
      BY DEF Brief!FoundFactsComeFirst, FoundFacts
    <3>2. /\ Brief!ToSet(t) \subseteq Brief!ToSet(brief.facts)
          /\ \A other \in Brief!ToSet(brief.facts) : other \in Brief!ToSet(t) \/ other = Brief!Warning
      BY <2>3, <2>5
    <3>3. fact \in Brief!ToSet(t)
      BY <3>1, <3>2 DEF Brief!Warning, Brief!Fact
    <3> QED BY <2>4, <3>1, <3>2, <3>3
  <2> QED BY <2>2, <2>7, <2>8
<1> QED BY <1>1, BriefInductive, PTL

-----------------------------------------------------------------------------
(* The Issue Reports of a Test Run and their Owners.                        *)

LEMMA RoutingAscending == \A S : Routing!Ascending(S) = Ascending(S)
BY DEF Routing!Ascending, Ascending, Routing!Cardinality, Cardinality

Failures == Routing!TestFailures \cup Routing!StepFailures
Rules == {"codeDeviates", "documentsContradict", "requirementMissing", "undecidable"}

\* What is told of a failure, the side it points at included, follows from what
\* makes two failures the same.
LEMMA SameFailure ==
    ASSUME NEW f \in Failures, NEW g \in Failures,
           Routing!signature(Routing!report(f)) = Routing!signature(Routing!report(g))
    PROVE  /\ Routing!report(f).step = Routing!report(g).step
           /\ Routing!report(f).test = Routing!report(g).test
           /\ Routing!report(f).error = Routing!report(g).error
           /\ Routing!report(f).suspected = Routing!report(g).suspected
<1>1. \A h \in Failures :
         /\ Routing!report(h).step = h.step /\ Routing!report(h).test = h.test
         /\ Routing!report(h).error = h.error
  BY DEF Routing!report, Routing!fromStep, Routing!fromFailure
<1>2. \A h \in Failures : h.test # "none" =>
         Routing!report(h).suspected = Routing!ownerOf(Routing!report(h).file)
  BY DEF Routing!report, Routing!fromFailure
<1>3. \A h \in Failures : h.test = "none" =>
         Routing!report(h).suspected = IF h.step \in {"boot", "smoke"} THEN "backendCoding" ELSE "nobody"
  BY DEF Failures, Routing!TestFailures, Routing!StepFailures, Routing!report, Routing!fromStep,
         Routing!ownerOf
<1>4. f.step = g.step /\ f.test = g.test /\ f.error = g.error
  BY <1>1 DEF Routing!signature
<1>5. CASE f.test = "none"
  BY <1>1, <1>3, <1>4, <1>5
<1>6. CASE f.test # "none"
  <2>1. Routing!report(f).file = Routing!report(g).file
    BY <1>1, <1>4, <1>6 DEF Routing!signature
  <2> QED BY <1>1, <1>2, <1>4, <1>6, <2>1
<1> QED BY <1>5, <1>6

\* A report suspects one of the two sides, or nobody.
LEMMA SuspectedSides ==
    \A f \in Failures : Routing!report(f).suspected \in Routing!CodingOwners \cup {"nobody"}
BY DEF Routing!report, Routing!fromStep, Routing!fromFailure, Routing!ownerOf,
       Routing!CodingOwners

\* Each report is one of a failure, and each failure has a report with its signature.
Reported(reports, all) ==
    /\ \E c \in Nat : DOMAIN reports = 1..c
    /\ \A i \in DOMAIN reports : \E m \in DOMAIN all : reports[i] = Routing!report(all[m])
    /\ \A k \in DOMAIN all : \E i \in DOMAIN reports :
          Routing!signature(reports[i]) = Routing!signature(Routing!report(all[k]))

\* The reports made of failures cover every one of them, and invent none.
LEMMA ReportsOfFailures ==
    ASSUME NEW n \in Nat
    PROVE  \A all \in [1..n -> Failures] : Reported(Routing!issueReports(all), all)
<1> TAKE all \in [1..n -> Failures]
<1> DEFINE drafts_ == [i \in DOMAIN all |-> Routing!report(all[i])]
           numbered == [i \in DOMAIN drafts_ |-> [at |-> i, draft |-> drafts_[i]]]
           P == {i \in DOMAIN numbered : \A j \in 1..(numbered[i].at - 1) :
                    Routing!signature(drafts_[j]) # Routing!signature(numbered[i].draft)}
           a == Ascending(P)
           picked == [k \in DOMAIN a |-> numbered[a[k]]]
           reports == [i \in DOMAIN picked |-> picked[i].draft]
<1>1. Routing!issueReports(all) = reports
  <2>1. Routing!mergeBySignature(drafts_)
          = [k \in DOMAIN Routing!Ascending(P) |-> numbered[Routing!Ascending(P)[k]]]
    BY DEF Routing!mergeBySignature, Routing!Filter
  <2>2. Routing!Ascending(P) = a
    BY RoutingAscending
  <2> HIDE DEF P, numbered
  <2>3. Routing!mergeBySignature(drafts_) = picked
    BY <2>1, <2>2
  <2> HIDE DEF picked, a
  <2> QED BY <2>3 DEF Routing!issueReports
<1>2. /\ DOMAIN all = 1..n /\ DOMAIN drafts_ = 1..n /\ DOMAIN numbered = 1..n
      /\ \A i \in 1..n : drafts_[i] = Routing!report(all[i])
                         /\ numbered[i] = [at |-> i, draft |-> drafts_[i]]
  OBVIOUS
<1> DEFINE Numbered == {numbered[i] : i \in 1..n}
<1>3. numbered \in Seq(Numbered)
  <2>1. numbered \in [1..n -> Numbered]
    BY <1>2
  <2> QED BY <2>1
<1> HIDE DEF drafts_, numbered, Numbered
<1>4. P \in SUBSET (1..n) /\ P \in SUBSET (DOMAIN numbered)
  BY <1>2
<1>5. \A i \in 1..n : i \in P <=> \A j \in 1..(i - 1) :
         Routing!signature(drafts_[j]) # Routing!signature(drafts_[i])
  BY <1>2
<1> HIDE DEF P
<1>6. /\ Cardinality(P) \in Nat /\ DOMAIN picked = 1..Cardinality(P)
      /\ \A k \in DOMAIN picked : a[k] \in P /\ picked[k] = numbered[a[k]]
      /\ \A p \in P : \E k \in DOMAIN picked : a[k] = p /\ picked[k] = numbered[p]
  <2>1. P \in SUBSET (DOMAIN numbered)
    BY <1>4
  <2>2. picked = At(numbered, P)
    BY DEF At
  <2> HIDE DEF picked
  <2> QED BY <1>3, <2>1, <2>2, FilteredAt
<1> HIDE DEF a, picked
<1>7. DOMAIN reports = 1..Cardinality(P) /\ \A i \in DOMAIN reports : reports[i] = picked[i].draft
  BY <1>6
<1>8. \A i \in DOMAIN reports : \E m \in 1..n : reports[i] = Routing!report(all[m])
  <2>1. SUFFICES ASSUME NEW i \in DOMAIN reports
                 PROVE  \E m \in 1..n : reports[i] = Routing!report(all[m])
    OBVIOUS
  <2>2. a[i] \in 1..n /\ reports[i] = numbered[a[i]].draft
    BY <1>4, <1>6, <1>7
  <2>3. reports[i] = drafts_[a[i]]
    BY <1>2, <2>2
  <2> QED BY <1>2, <2>2, <2>3
<1>9. \A k \in 1..n : \E i \in DOMAIN reports :
         Routing!signature(reports[i]) = Routing!signature(Routing!report(all[k]))
  <2>1. SUFFICES ASSUME NEW k \in 1..n
                 PROVE  \E i \in DOMAIN reports :
                           Routing!signature(reports[i]) = Routing!signature(drafts_[k])
    BY <1>2
  <2> DEFINE same == {i \in 1..n : Routing!signature(drafts_[i]) = Routing!signature(drafts_[k])}
  <2>2. same \in SUBSET Nat /\ same # {}
    OBVIOUS
  <2>3. PICK p \in same : \A i \in same : p <= i
    BY <2>2, LeastNatural
  <2>4. p \in 1..n /\ \A j \in 1..(p - 1) : j \in 1..n /\ ~(p <= j)
    BY <2>3
  <2>5. p \in P
    <3>1. \A j \in 1..(p - 1) : Routing!signature(drafts_[j]) # Routing!signature(drafts_[p])
      BY <2>3, <2>4
    <3> QED BY <1>5, <2>4, <3>1
  <2>6. PICK i \in DOMAIN picked : picked[i] = numbered[p]
    BY <1>6, <2>5
  <2>7. i \in DOMAIN reports /\ reports[i] = drafts_[p]
    BY <1>2, <1>6, <1>7, <2>4, <2>6
  <2> QED BY <2>3, <2>7
<1> HIDE DEF reports
<1>10. Reported(reports, all)
  <2>1. \E c \in Nat : DOMAIN reports = 1..c
    BY <1>6, <1>7
  <2>2. DOMAIN all = 1..n
    OBVIOUS
  <2> QED BY <1>8, <1>9, <2>1, <2>2 DEF Reported
<1> QED BY <1>1, <1>10

\* What the Test Run left: its failures, and one report of each.
ReportsFit ==
    /\ \E n \in Nat : failed \in [1..n -> Failures]
    /\ Reported(issues, failed)

\* A decision that answers the question of its report.
Ruled(r, d) == d.rule \in Rules /\ Routing!accepts(r, d)

\* Each report is owned by whom its rule allows once every judge has answered; only
\* before they are asked, or after one threw, is one undecided.
DecisionsFit ==
    /\ decisions = [i \in DOMAIN issues |-> decisions[i]]
    /\ \A i \in DOMAIN issues : \/ Ruled(issues[i], decisions[i])
                                \/ decisions[i] = Routing!Asked
                                \/ /\ decisions[i] = Routing!Undecided
                                   /\ route \in {"resolving", "threw"}
    /\ route \notin {"judging", "threw", "resolving"} =>
          \A i \in DOMAIN issues : decisions[i] # Routing!Asked

RoutingInv ==
    /\ ReportsFit /\ DecisionsFit
    /\ Routing!NoFailureIsForgotten
    /\ Routing!HintReachesWhoMustFix

\* The first state of the routing has it: no report is written.
LEMMA RoutingStarts ==
    ASSUME Routing!Init
    PROVE  RoutingInv
<1> USE DEF Routing!Init
<1>1. PICK n \in 1..MaxTestFailures : failed \in [1..n -> Failures]
  BY DEF Failures
<1>2. n \in Nat /\ DOMAIN failed = 1..n /\ issues = Routing!issueReports(failed)
  BY <1>1, ConstantsAssumption
<1>3. ReportsFit
  <2>1. Reported(issues, failed)
    BY <1>1, <1>2, ReportsOfFailures
  <2> QED BY <1>1, <1>2, <2>1 DEF ReportsFit
<1>4. /\ decisions = [i \in DOMAIN issues |-> Routing!Undecided] /\ route = "resolving"
  OBVIOUS
<1>5. DecisionsFit
  BY <1>4 DEF DecisionsFit
<1>6. Routing!NoFailureIsForgotten /\ Routing!HintReachesWhoMustFix
  BY <1>4 DEF Routing!NoFailureIsForgotten, Routing!HintReachesWhoMustFix
<1> QED BY <1>3, <1>5, <1>6 DEF RoutingInv

\* Every report on record suspects one of the two sides, or nobody.
LEMMA IssuesSuspect ==
    ASSUME ReportsFit
    PROVE  \A i \in DOMAIN issues : issues[i].suspected \in Routing!CodingOwners \cup {"nobody"}
<1>1. \A m \in DOMAIN failed : failed[m] \in Failures
  BY DEF ReportsFit
<1> QED BY <1>1, SuspectedSides DEF ReportsFit, Reported

\* The documents decide nothing, or by a rule.
LEMMA DocumentsRule ==
    ASSUME NEW r, r.suspected \in Routing!CodingOwners \cup {"nobody"}
    PROVE  \/ Routing!resolveByDocuments(r) = Routing!Undecided
           \/ Ruled(r, Routing!resolveByDocuments(r))
<1> USE DEF Ruled, Rules, Routing!accepts, Routing!OwnersByRule, Routing!Decision
<1>1. CASE Routing!resolveByDocuments(r) = Routing!Decision(r.suspected, "codeDeviates")
              /\ r.suspected # "nobody"
  BY <1>1
<1>2. CASE Routing!resolveByDocuments(r) = Routing!Decision("systemDesign", "documentsContradict")
              /\ r.endpoint # Routing!NoEndpoint
  BY <1>2
<1>3. CASE Routing!resolveByDocuments(r) = Routing!Decision("uiDesign", "documentsContradict")
              /\ r.endpoint # Routing!NoEndpoint
  BY <1>3
<1>4. \/ Routing!resolveByDocuments(r) = Routing!Undecided
      \/ Routing!resolveByDocuments(r) = Routing!Decision(r.suspected, "codeDeviates")
            /\ r.suspected # "nobody"
      \/ Routing!resolveByDocuments(r) = Routing!Decision("systemDesign", "documentsContradict")
            /\ r.endpoint # Routing!NoEndpoint
      \/ Routing!resolveByDocuments(r) = Routing!Decision("uiDesign", "documentsContradict")
            /\ r.endpoint # Routing!NoEndpoint
  BY DEF Routing!resolveByDocuments
<1> QED BY <1>1, <1>2, <1>3, <1>4

\* What a person decides is accepted for every report.
LEMMA PersonRules == \A r : Ruled(r, Routing!ByAPerson)
BY DEF Ruled, Rules, Routing!accepts, Routing!OwnersByRule, Routing!ByAPerson, Routing!Decision

\* One more report is decided while the judges answer.
LEMMA DecidingStays ==
    ASSUME RoutingInv, route \in {"judging", "threw"}, route' \in {"judging", "threw"},
           UNCHANGED <<failed, issues, told, hintTo>>, route' = "threw" \/ route' = route,
           NEW i \in DOMAIN issues, NEW d, decisions' = [decisions EXCEPT ![i] = d],
           Ruled(issues[i], d) \/ (d = Routing!Undecided /\ route' = "threw")
    PROVE  RoutingInv'
<1>1. ReportsFit'
  BY DEF RoutingInv, ReportsFit, Reported
<1>2. /\ decisions' = [k \in DOMAIN issues |-> decisions'[k]] /\ decisions'[i] = d
      /\ \A k \in DOMAIN issues \ {i} : decisions'[k] = decisions[k]
  BY DEF RoutingInv, DecisionsFit
<1>3. DecisionsFit'
  <2>1. ASSUME NEW k \in DOMAIN issues
        PROVE  \/ Ruled(issues[k], decisions'[k])
               \/ decisions'[k] = Routing!Asked
               \/ decisions'[k] = Routing!Undecided /\ route' \in {"resolving", "threw"}
    <3>1. CASE k = i
      BY <1>2, <3>1
    <3>2. CASE k # i
      BY <1>2, <3>2 DEF RoutingInv, DecisionsFit
    <3> QED BY <3>1, <3>2
  <2>2. \A k \in DOMAIN issues' : \/ Ruled(issues[k], decisions[k])'
                                  \/ (decisions[k] = Routing!Asked)'
                                  \/ (decisions[k] = Routing!Undecided)' /\ route' \in {"resolving", "threw"}
    BY <2>1 DEF Ruled, Routing!accepts, Routing!Asked, Routing!Undecided
  <2> QED BY <1>2, <2>2 DEF DecisionsFit
<1>4. Routing!NoFailureIsForgotten' /\ Routing!HintReachesWhoMustFix'
  BY DEF Routing!NoFailureIsForgotten, Routing!HintReachesWhoMustFix
<1> QED BY <1>1, <1>3, <1>4 DEF RoutingInv

\* What a Coding Agent is told names every report it owns.
LEMMA ToldOfOwned ==
    ASSUME ReportsFit, NEW i \in DOMAIN issues
    PROVE  \A owner : decisions[i].owner = owner =>
              LET said == Routing!codingIssues(Routing!Owned(owner)) IN
              <<issues[i].step, issues[i].test, issues[i].error>> \in said.issues \cup said.rest
<1> TAKE owner
<1> HAVE decisions[i].owner = owner
<1> DEFINE all == [k \in DOMAIN issues |-> [by |-> decisions[k].owner, is |-> issues[k]]]
           P == {k \in DOMAIN all : all[k].by = owner}
           a == Ascending(P)
           own == [k \in DOMAIN a |-> all[a[k]]]
           All == {all[k] : k \in DOMAIN issues}
<1>1. Routing!Owned(owner) = own
  <2>1. Routing!Owned(owner) = [k \in DOMAIN Routing!Ascending(P) |-> all[Routing!Ascending(P)[k]]]
    BY DEF Routing!Owned, Routing!Filter
  <2>2. Routing!Ascending(P) = a
    BY RoutingAscending
  <2> HIDE DEF P, all
  <2> QED BY <2>1, <2>2
<1>2. PICK c \in Nat : DOMAIN issues = 1..c
  BY DEF ReportsFit, Reported
<1>3. DOMAIN all = 1..c /\ all[i].by = owner /\ all[i].is = issues[i]
  BY <1>2
<1>4. all \in Seq(All)
  <2>1. all \in [1..c -> All]
    BY <1>2
  <2> QED BY <2>1
<1>5. P \in SUBSET (DOMAIN all) /\ i \in P
  BY <1>2, <1>3
<1> HIDE DEF P, all, All
<1>6. /\ DOMAIN own = 1..Cardinality(P) /\ Cardinality(P) \in Nat
      /\ \E k \in DOMAIN own : own[k] = all[i]
  <2>1. P \in SUBSET (DOMAIN all)
    BY <1>5
  <2>2. own = At(all, P)
    BY DEF At
  <2> HIDE DEF own
  <2>3. /\ DOMAIN own = 1..Cardinality(P) /\ Cardinality(P) \in Nat
        /\ \A p \in P : \E k \in DOMAIN own : a[k] = p /\ own[k] = all[p]
    BY <1>4, <2>1, <2>2, FilteredAt
  <2> QED BY <1>5, <2>3
<1> HIDE DEF own
<1>7. PICK k \in DOMAIN own : own[k].is = issues[i]
  BY <1>3, <1>6
<1> DEFINE said == Routing!codingIssues(own)
<1>8. k \in Nat /\ MaxCodingIssues \in Nat
  BY <1>6, <1>7, ConstantsAssumption
<1>9. <<own[k].is.step, own[k].is.test, own[k].is.error>> \in said.issues \cup said.rest
  <2>1. CASE k <= MaxCodingIssues
    BY <1>7, <2>1 DEF Routing!codingIssues
  <2>2. CASE k > MaxCodingIssues
    BY <1>7, <2>2 DEF Routing!codingIssues
  <2> QED BY <1>8, <2>1, <2>2
<1> HIDE DEF said
<1> QED BY <1>1, <1>7, <1>9 DEF said

\* Who an issue is owned by, once every judge has answered.
LEMMA OwnersDecided ==
    ASSUME RoutingInv, Routing!AllDecided, NEW i \in DOMAIN issues
    PROVE  /\ Ruled(issues[i], decisions[i]) /\ decisions[i] # Routing!Asked
           /\ decisions[i].owner \in Routing!Owners
<1>1. route = "judging" /\ decisions[i] # Routing!Asked
  BY DEF Routing!AllDecided
<1>2. Ruled(issues[i], decisions[i])
  BY <1>1 DEF RoutingInv, DecisionsFit
<1>3. decisions[i].owner \in Routing!Owners
  BY <1>2
  DEF Ruled, Rules, Routing!accepts, Routing!OwnersByRule, Routing!Owners, Routing!CodingOwners
<1> QED BY <1>1, <1>2, <1>3

\* The Test Run leads somewhere; its reports and decisions stay.
LEMMA LeadingStays ==
    ASSUME RoutingInv, UNCHANGED <<failed, issues, decisions>>,
           route' \in {"escalated", "reviseDocuments", "retryCoding", "retryWithHint"},
           \A i \in DOMAIN issues : decisions[i] # Routing!Asked /\ decisions[i] # Routing!Undecided,
           Routing!NoFailureIsForgotten', Routing!HintReachesWhoMustFix'
    PROVE  RoutingInv'
<1>1. ReportsFit'
  BY DEF RoutingInv, ReportsFit, Reported
<1>2. \A i \in DOMAIN issues : Ruled(issues[i], decisions[i])
  BY DEF RoutingInv, DecisionsFit
<1>3. DecisionsFit'
  BY <1>2
  DEF RoutingInv, DecisionsFit, Ruled, Routing!accepts, Routing!Asked, Routing!Undecided
<1> QED BY <1>1, <1>3 DEF RoutingInv

\* A retry of the coding Steps keeps it.
LEMMA RetriesStays ==
    ASSUME RoutingInv, Routing!RetriesCoding
    PROVE  RoutingInv'
<1>1. /\ Routing!AllDecided /\ Routing!OwnedBy(Routing!Owners \ Routing!CodingOwners) = {}
      /\ UNCHANGED <<documents, builds, failed, issues, decisions, left, hintTo>>
  BY DEF Routing!RetriesCoding
<1>2. \A i \in DOMAIN issues : /\ Ruled(issues[i], decisions[i])
                               /\ decisions[i] # Routing!Asked
                               /\ decisions[i].owner \in Routing!CodingOwners
  BY <1>1, OwnersDecided DEF Routing!OwnedBy
<1>3. \A i \in DOMAIN issues : decisions[i] # Routing!Undecided
  BY <1>2 DEF Routing!Undecided, Routing!Decision, Routing!CodingOwners
<1>4. route' \in {"escalated", "retryCoding"}
  BY DEF Routing!RetriesCoding
<1>5. Routing!HintReachesWhoMustFix'
  BY <1>4 DEF Routing!HintReachesWhoMustFix
<1>6. Routing!NoFailureIsForgotten'
  <2>1. SUFFICES ASSUME route' = "retryCoding", NEW k \in DOMAIN failed
                 PROVE  \E o \in builds : told'[o] # <<>> /\
                           LET r == Routing!report(failed[k]) IN
                           <<r.step, r.test, r.error>> \in told'[o][1].issues \cup told'[o][1].rest
    BY <1>1 DEF Routing!NoFailureIsForgotten
  <2>2. /\ \A o \in Routing!CodingOwners : Routing!OwnedBy({o}) # {} => o \in builds
        /\ told' = [o \in Routing!CodingOwners |->
                       IF Routing!OwnedBy({o}) = {} THEN <<>>
                       ELSE <<Routing!codingIssues(Routing!Owned(o))>>]
    BY <2>1 DEF Routing!RetriesCoding
  <2>3. PICK i \in DOMAIN issues :
           Routing!signature(issues[i]) = Routing!signature(Routing!report(failed[k]))
    BY DEF RoutingInv, ReportsFit, Reported
  <2>4. PICK m \in DOMAIN failed : issues[i] = Routing!report(failed[m])
    BY DEF RoutingInv, ReportsFit, Reported
  <2>5. failed[k] \in Failures /\ failed[m] \in Failures
    BY DEF RoutingInv, ReportsFit
  <2> DEFINE r == Routing!report(failed[k])
             o == decisions[i].owner
             said == Routing!codingIssues(Routing!Owned(o))
  <2>6. issues[i].step = r.step /\ issues[i].test = r.test /\ issues[i].error = r.error
    BY <2>3, <2>4, <2>5, SameFailure
  <2>7. o \in Routing!CodingOwners /\ Routing!OwnedBy({o}) # {}
    BY <1>2 DEF Routing!OwnedBy
  <2>8. <<issues[i].step, issues[i].test, issues[i].error>> \in said.issues \cup said.rest
    BY ToldOfOwned DEF RoutingInv
  <2> HIDE DEF r, said, o
  <2>9. o \in builds /\ told'[o] = <<said>>
    BY <2>2, <2>7 DEF said
  <2>10. told'[o] # <<>> /\ told'[o][1] = said
    BY <2>9
  <2>11. <<r.step, r.test, r.error>> \in told'[o][1].issues \cup told'[o][1].rest
    BY <2>6, <2>8, <2>10
  <2> QED BY <2>9, <2>10, <2>11 DEF r
<1>7. route' \in {"escalated", "reviseDocuments", "retryCoding", "retryWithHint"}
  BY <1>4
<1> QED BY <1>1, <1>2, <1>3, <1>5, <1>6, <1>7, LeadingStays

\* A set of one element holds no other.
LEMMA OnlyOne ==
    ASSUME NEW S, Routing!Cardinality(S) = 1, IsFiniteSet(S), NEW x \in S
    PROVE  S = {x}
<1>1. Cardinality(S) = 1
  BY DEF Routing!Cardinality, Cardinality
<1>2. Cardinality(S \ {x}) = 0 /\ IsFiniteSet(S \ {x})
  BY <1>1, FS_RemoveElement
<1>3. S \ {x} = {}
  BY <1>2, FS_EmptySet
<1> QED BY <1>3

\* A retry with a hint keeps it.
LEMMA HintingStays ==
    ASSUME RoutingInv, Routing!RetriesWithHint
    PROVE  RoutingInv'
<1>1. /\ route = "escalated" /\ route' = "retryWithHint" /\ hintTo' = Routing!sideAtFault
      /\ UNCHANGED <<failed, issues, decisions, told>>
  BY DEF Routing!RetriesWithHint
<1>2. \A i \in DOMAIN issues : decisions[i] # Routing!Asked /\ decisions[i] # Routing!Undecided
  <2>1. ASSUME NEW i \in DOMAIN issues PROVE decisions[i] # Routing!Undecided
    <3>1. Ruled(issues[i], decisions[i])
      BY <1>1 DEF RoutingInv, DecisionsFit
    <3> QED BY <3>1 DEF Ruled, Rules, Routing!Undecided, Routing!Decision
  <2> QED BY <1>1, <2>1 DEF RoutingInv, DecisionsFit
<1>3. Routing!NoFailureIsForgotten'
  BY <1>1 DEF Routing!NoFailureIsForgotten
<1>4. Routing!HintReachesWhoMustFix'
  <2>1. SUFFICES ASSUME hintTo' # Routing!CodingOwners, NEW k \in DOMAIN failed
                 PROVE  {Routing!report(failed[k]).suspected} = hintTo'
    BY <1>1 DEF Routing!HintReachesWhoMustFix
  <2>2. /\ Routing!Cardinality(Routing!Suspects) = 1
        /\ Routing!Suspects \subseteq Routing!CodingOwners /\ hintTo' = Routing!Suspects
    BY <1>1, <2>1 DEF Routing!sideAtFault
  <2>3. PICK i \in DOMAIN issues :
           Routing!signature(issues[i]) = Routing!signature(Routing!report(failed[k]))
    BY DEF RoutingInv, ReportsFit, Reported
  <2>4. PICK m \in DOMAIN failed : issues[i] = Routing!report(failed[m])
    BY DEF RoutingInv, ReportsFit, Reported
  <2>5. failed[k] \in Failures /\ failed[m] \in Failures
    BY DEF RoutingInv, ReportsFit
  <2>6. Routing!report(failed[k]).suspected = issues[i].suspected
    BY <2>3, <2>4, <2>5, SameFailure
  <2>7. Routing!report(failed[k]).suspected \in Routing!Suspects
    BY <2>6 DEF Routing!Suspects
  <2>8. IsFiniteSet(Routing!Suspects)
    <3>1. IsFiniteSet({"backendCoding"}) /\ Routing!CodingOwners = {"backendCoding"} \cup {"frontendCoding"}
      BY FS_Singleton DEF Routing!CodingOwners
    <3>2. IsFiniteSet(Routing!CodingOwners)
      BY <3>1, FS_AddElement
    <3> QED BY <2>2, <3>2, FS_Subset
  <2> QED BY <2>2, <2>7, <2>8, OnlyOne
<1>5. route' \in {"escalated", "reviseDocuments", "retryCoding", "retryWithHint"}
  BY <1>1
<1> QED BY <1>1, <1>2, <1>3, <1>4, <1>5, LeadingStays

\* Deciding who must fix each report keeps it.
LEMMA ResolvingStays ==
    ASSUME RoutingInv, Routing!Resolve
    PROVE  RoutingInv'
<1>1. /\ route' = "judging" /\ UNCHANGED <<failed, issues, told, hintTo>>
      /\ decisions' = [i \in DOMAIN issues |->
                          IF Routing!resolveByDocuments(issues[i]) # Routing!Undecided
                          THEN Routing!resolveByDocuments(issues[i])
                          ELSE IF left <= 0 THEN Routing!ByAPerson ELSE Routing!Asked]
  BY DEF Routing!Resolve
<1>2. ReportsFit'
  BY <1>1 DEF RoutingInv, ReportsFit, Reported
<1>3. ASSUME NEW i \in DOMAIN issues
      PROVE  Ruled(issues[i], decisions'[i]) \/ decisions'[i] = Routing!Asked
  <2>1. Ruled(issues[i], Routing!resolveByDocuments(issues[i]))
        \/ Routing!resolveByDocuments(issues[i]) = Routing!Undecided
    <3>1. issues[i].suspected \in Routing!CodingOwners \cup {"nobody"}
      BY IssuesSuspect DEF RoutingInv
    <3> QED BY <3>1, DocumentsRule
  <2>2. Ruled(issues[i], Routing!ByAPerson)
    BY PersonRules
  <2>3. CASE Routing!resolveByDocuments(issues[i]) # Routing!Undecided
    BY <1>1, <2>1, <2>3
  <2>4. CASE Routing!resolveByDocuments(issues[i]) = Routing!Undecided /\ left <= 0
    <3>1. decisions'[i] = Routing!ByAPerson
      BY <1>1, <2>4
    <3> QED BY <2>2, <3>1
  <2>5. CASE Routing!resolveByDocuments(issues[i]) = Routing!Undecided /\ ~(left <= 0)
    BY <1>1, <2>5
  <2> QED BY <2>3, <2>4, <2>5
<1>4. decisions' = [i \in DOMAIN issues |-> decisions'[i]]
  BY <1>1
<1>5. \A i \in DOMAIN issues : Ruled(issues[i], decisions[i])' \/ (decisions[i] = Routing!Asked)'
  BY <1>1, <1>3 DEF Ruled, Routing!accepts, Routing!Asked
<1>6. DecisionsFit'
  BY <1>1, <1>4, <1>5 DEF DecisionsFit
<1>7. Routing!NoFailureIsForgotten' /\ Routing!HintReachesWhoMustFix'
  BY <1>1 DEF Routing!NoFailureIsForgotten, Routing!HintReachesWhoMustFix
<1> QED BY <1>2, <1>6, <1>7 DEF RoutingInv

\* Every step of the routing keeps it.
LEMMA RoutingStays ==
    ASSUME RoutingInv, Routing!Next
    PROVE  RoutingInv'
<1>1. CASE Routing!JudgeAnswers
  <2>1. route \in {"judging", "threw"} /\ UNCHANGED <<failed, issues, told, hintTo, route>>
    BY <1>1 DEF Routing!JudgeAnswers
  <2>2. PICK i \in DOMAIN issues, owner \in Routing!Owners, rule \in DOMAIN Routing!OwnersByRule,
             cut \in BOOLEAN :
           decisions' = [decisions EXCEPT ![i] =
                            IF ~cut /\ Routing!accepts(issues[i], Routing!Decision(owner, rule))
                            THEN Routing!Decision(owner, rule) ELSE Routing!ByAPerson]
    BY <1>1 DEF Routing!JudgeAnswers
  <2> DEFINE d == IF ~cut /\ Routing!accepts(issues[i], Routing!Decision(owner, rule))
                  THEN Routing!Decision(owner, rule) ELSE Routing!ByAPerson
  <2>3. Ruled(issues[i], d)
    <3>1. Routing!Decision(owner, rule).rule \in Rules
      BY DEF Routing!Decision, Rules, Routing!OwnersByRule
    <3>2. CASE ~cut /\ Routing!accepts(issues[i], Routing!Decision(owner, rule))
      BY <3>1, <3>2 DEF Ruled
    <3>3. CASE ~(~cut /\ Routing!accepts(issues[i], Routing!Decision(owner, rule)))
      BY <3>3, PersonRules
    <3> QED BY <3>2, <3>3
  <2>4. decisions' = [decisions EXCEPT ![i] = d]
    BY <2>2
  <2> HIDE DEF d
  <2> QED BY <2>1, <2>3, <2>4, DecidingStays
<1>2. CASE Routing!JudgeRefused
  <2>1. route \in {"judging", "threw"} /\ UNCHANGED <<failed, issues, told, hintTo, route>>
    BY <1>2 DEF Routing!JudgeRefused
  <2>2. PICK i \in DOMAIN issues : decisions' = [decisions EXCEPT ![i] = Routing!ByAPerson]
    BY <1>2 DEF Routing!JudgeRefused
  <2>3. Ruled(issues[i], Routing!ByAPerson)
    BY PersonRules
  <2> QED BY <2>1, <2>2, <2>3, DecidingStays
<1>3. CASE Routing!JudgeThrows
  <2>1. /\ route \in {"judging", "threw"} /\ route' = "threw"
        /\ UNCHANGED <<failed, issues, told, hintTo>>
    BY <1>3 DEF Routing!JudgeThrows
  <2>2. PICK i \in DOMAIN issues : decisions' = [decisions EXCEPT ![i] = Routing!Undecided]
    BY <1>3 DEF Routing!JudgeThrows
  <2> QED BY <2>1, <2>2, DecidingStays
<1>4. CASE Routing!Escalates \/ Routing!RevisesDocuments
  <2>1. /\ Routing!AllDecided /\ route' \in {"escalated", "reviseDocuments"}
        /\ UNCHANGED <<failed, issues, decisions>>
    BY <1>4 DEF Routing!Escalates, Routing!RevisesDocuments
  <2>2. \A i \in DOMAIN issues : decisions[i] # Routing!Asked /\ decisions[i] # Routing!Undecided
    <3>1. ASSUME NEW i \in DOMAIN issues
          PROVE  decisions[i] # Routing!Asked /\ decisions[i] # Routing!Undecided
      <4>1. Ruled(issues[i], decisions[i]) /\ decisions[i] # Routing!Asked
        BY <2>1, OwnersDecided
      <4> QED BY <4>1 DEF Ruled, Rules, Routing!Undecided, Routing!Decision
    <3> QED BY <3>1
  <2>3. Routing!NoFailureIsForgotten' /\ Routing!HintReachesWhoMustFix'
    BY <2>1 DEF Routing!NoFailureIsForgotten, Routing!HintReachesWhoMustFix
  <2>4. route' \in {"escalated", "reviseDocuments", "retryCoding", "retryWithHint"}
    BY <2>1
  <2> QED BY <2>1, <2>2, <2>3, <2>4, LeadingStays
<1> QED
  BY <1>1, <1>2, <1>3, <1>4, ResolvingStays, RetriesStays, HintingStays DEF Routing!Next

(* The reports of a Test Run, their Owners and who is told what fit         *)
(* together in every state (issueReports.ts, ownerResolution.ts,            *)
(* ownerJudge.ts, issueRouting.ts).                                         *)
THEOREM RoutingInductive == Spec => [](part = "routing" => RoutingInv)
<1>1. Init => (part = "routing" => RoutingInv)
  BY RoutingStarts DEF Init
<1>2. (part = "routing" => RoutingInv) /\ [Next]_vars => (part = "routing" => RoutingInv)'
  <2>1. SUFFICES ASSUME part = "routing" => RoutingInv, [Next]_vars, part' = "routing"
                 PROVE  RoutingInv'
    OBVIOUS
  <2>2. CASE RoutingStep
    BY <2>1, <2>2, RoutingStays DEF RoutingStep
  <2>3. CASE UNCHANGED <<part, routingState>>
    <3>1. /\ part = "routing" /\ RoutingInv
          /\ UNCHANGED <<documents, builds, failed, issues, decisions, left, route, told, hintTo>>
      BY <2>1, <2>3 DEF routingState
    <3>2. ReportsFit'
      BY <3>1 DEF RoutingInv, ReportsFit, Reported
    <3>3. DecisionsFit'
      BY <3>1
      DEF RoutingInv, DecisionsFit, Ruled, Routing!accepts, Routing!Asked, Routing!Undecided
    <3>4. Routing!NoFailureIsForgotten' /\ Routing!HintReachesWhoMustFix'
      BY <3>1 DEF RoutingInv, Routing!NoFailureIsForgotten, Routing!HintReachesWhoMustFix
    <3> QED BY <3>2, <3>3, <3>4 DEF RoutingInv
  <2> QED
    BY <2>1, <2>2, <2>3
    DEF Next, vars, SystemDesignAgentStep, CodingAgentsStep, ReviewStep, BriefStep
<1> QED BY <1>1, <1>2, PTL DEF Spec

(* Through merging, the judges in any order and the cap, every failure      *)
(* reaches a Coding Agent when coding is retried; Owners follow the rules;  *)
(* and a hint leaves out a side only if no failure points at it             *)
(* (mergeBySignature, routeIssues, codingIssues, sideAtFault).              *)
THEOREM FailuresReachWhoMustFix == Spec => []NoFailureIsForgotten
<1>1. (part = "routing" => RoutingInv) => NoFailureIsForgotten
  <2>1. SUFFICES ASSUME RoutingInv PROVE Routing!OwnersFollowTheRules
    BY DEF NoFailureIsForgotten, RoutingInv
  <2>2. SUFFICES ASSUME route \in {"reviseDocuments", "retryCoding"}, NEW i \in DOMAIN issues
                 PROVE  /\ decisions[i].owner \in Routing!CodingOwners
                              <=> decisions[i].rule = "codeDeviates"
                        /\ decisions[i].owner = "uiDesign" =>
                              issues[i].endpoint # Routing!NoEndpoint
    BY DEF Routing!OwnersFollowTheRules
  <2>3. Ruled(issues[i], decisions[i])
    BY <2>1, <2>2 DEF RoutingInv, DecisionsFit
  <2>4. \/ decisions[i].rule = "codeDeviates" /\ decisions[i].owner \in Routing!CodingOwners
        \/ /\ decisions[i].rule = "documentsContradict"
           /\ decisions[i].owner \in {"systemDesign", "uiDesign"}
           /\ issues[i].endpoint # Routing!NoEndpoint
        \/ decisions[i].rule = "requirementMissing" /\ decisions[i].owner = "systemDesign"
        \/ decisions[i].rule = "undecidable" /\ decisions[i].owner = "human"
    BY <2>3 DEF Ruled, Rules, Routing!accepts, Routing!OwnersByRule
  <2> QED BY <2>4 DEF Routing!CodingOwners
<1> QED BY <1>1, RoutingInductive, PTL

-----------------------------------------------------------------------------
(* The review of a Run.                                                     *)

LEMMA ReviewAscending == \A S : Review!Ascending(S) = Ascending(S)
BY DEF Review!Ascending, Ascending, Review!Cardinality, Cardinality

\* The instance of the review counts as this module does.
LEMMA ReviewCardinality == \A S : Review!Cardinality(S) = Cardinality(S)
BY DEF Review!Cardinality, Cardinality

\* The hunks of the instance have three or four lines.
LEMMA LinesOfHunk == \A hunk \in Review!Hunks : \E m \in {3, 4} : DOMAIN hunk = 1..m
<1>1. ASSUME NEW hunk, hunk = <<"kept", "removed", "added">> PROVE \E m \in {3, 4} : DOMAIN hunk = 1..m
  <2>1. hunk \in Seq({"kept", "removed", "added"}) /\ Len(hunk) = 3
    BY <1>1
  <2>2. DOMAIN hunk = 1..3
    BY <2>1
  <2> QED BY <2>2
<1>2. ASSUME NEW hunk, hunk = <<"removed", "added", "removed", "kept">> PROVE \E m \in {3, 4} : DOMAIN hunk = 1..m
  <2>1. hunk \in Seq({"kept", "removed", "added"}) /\ Len(hunk) = 4
    BY <1>2
  <2>2. DOMAIN hunk = 1..4
    BY <2>1
  <2> QED BY <2>2
<1> QED BY <1>1, <1>2 DEF Review!Hunks

\* The diff shows the lines of the new file by their numbers in it: the number of a
\* line is how many lines that are not removed come up to it.
LEMMA ShownAreNewLines ==
    ASSUME diff \in Review!Hunks
    PROVE  /\ \E c \in Nat : DOMAIN Review!NewLines = 1..c /\ Len(Review!NewLines) = c
           /\ \A n \in DOMAIN Review!NewLines :
                 /\ [line |-> n, text |-> Review!NewLines[n]] \in Review!shownByDiff(diff)
                 /\ Review!NewLines[n] # "none"
           /\ \A s \in Review!shownByDiff(diff) :
                 s.line \in DOMAIN Review!NewLines /\ Review!NewLines[s.line] = s.text
<1> DEFINE texts == [i \in DOMAIN diff |-> IF diff[i] = "removed" THEN "gone" ELSE Review!TextOf(i)]
           P == {i \in DOMAIN texts : texts[i] # "gone"}
           a == Ascending(P)
           new == [k \in DOMAIN a |-> texts[a[k]]]
           c == Cardinality(P)
<1>2. PICK m \in {3, 4} : DOMAIN diff = 1..m
  BY LinesOfHunk
<1>3. \A i \in 1..m : Review!TextOf(i) \in {"text1", "text2", "text3", "text4"}
  <2>1. \A i \in 1..m : i = 1 \/ i = 2 \/ i = 3 \/ i = 4
    BY <1>2
  <2>2. /\ Review!TextOf(1) = "text1" /\ Review!TextOf(2) = "text2"
        /\ Review!TextOf(3) = "text3" /\ Review!TextOf(4) = "text4"
    BY DEF Review!TextOf
  <2> QED BY <2>1, <2>2
<1> DEFINE Texts == {"gone", "text1", "text2", "text3", "text4"}
<1>4. /\ DOMAIN texts = 1..m
      /\ \A i \in 1..m : texts[i] = IF diff[i] = "removed" THEN "gone" ELSE Review!TextOf(i)
      /\ \A i \in 1..m : texts[i] \in Texts
  BY <1>2, <1>3
<1>5. texts \in Seq(Texts)
  <2>1. texts \in [1..m -> Texts] /\ m \in Nat
    BY <1>2, <1>4
  <2> QED BY <2>1
<1>6. P = {i \in 1..m : diff[i] # "removed"} /\ P \in SUBSET (DOMAIN texts)
  BY <1>3, <1>4
<1>7. Review!NewLines = new
  <2>1. Review!NewLines = [k \in DOMAIN Review!Ascending(P) |-> texts[Review!Ascending(P)[k]]]
    BY DEF Review!NewLines, Review!Filter
  <2>2. Review!Ascending(P) = a
    BY ReviewAscending
  <2> HIDE DEF P, texts
  <2> QED BY <2>1, <2>2
<1> HIDE DEF texts, P, Texts
<1>8. /\ c \in Nat /\ DOMAIN new = 1..c /\ Len(new) = c
      /\ \A k \in DOMAIN new : a[k] \in P /\ new[k] = texts[a[k]]
      /\ \A p \in P : \E k \in DOMAIN new : a[k] = p /\ new[k] = texts[p]
  <2>1. P \in SUBSET (DOMAIN texts)
    BY <1>6
  <2>2. /\ Cardinality(P) \in Nat /\ DOMAIN new = 1..Cardinality(P)
        /\ \A k \in DOMAIN new : a[k] \in P /\ new[k] = texts[a[k]]
        /\ \A p \in P : \E k \in DOMAIN new : a[k] = p /\ new[k] = texts[p]
    <3>1. new = At(texts, P)
      BY DEF At
    <3> HIDE DEF new
    <3> QED BY <1>5, <2>1, <3>1, FilteredAt
  <2>3. new = [k \in 1..Cardinality(P) |-> texts[a[k]]]
    BY <2>2
  <2>4. Len(new) = Cardinality(P)
    BY <2>2, <2>3
  <2> QED BY <2>2, <2>4
<1>9. P \in SUBSET Nat /\ IsFiniteSet(P)
  <2>1. IsFiniteSet(1..m) /\ m \in Nat
    BY <1>2, FS_Interval
  <2> QED BY <1>6, <2>1, FS_Subset
<1>10. \A k \in 1..c : Review!LineNumber(diff, a[k]) = k
  <2>1. SUFFICES ASSUME NEW k \in 1..c PROVE Review!LineNumber(diff, a[k]) = k
    OBVIOUS
  <2>2. Cardinality({s \in P : s <= a[k]}) = k
    BY <1>9, PlaceIsCount
  <2>3. a[k] \in 1..m
    BY <1>6, <1>8
  <2>4. {s \in P : s <= a[k]} = {j \in 1..a[k] : diff[j] # "removed"}
    <3> DEFINE upTo == a[k]
    <3> HIDE DEF upTo
    <3>1. m \in Nat /\ upTo \in Nat /\ upTo <= m
      BY <1>2, <2>3 DEF upTo
    <3>2. \A s : (s \in P /\ s <= upTo) <=> (s \in 1..upTo /\ diff[s] # "removed")
      BY <1>6, <3>1
    <3>3. {s \in P : s <= upTo} = {j \in 1..upTo : diff[j] # "removed"}
      BY <3>2
    <3> QED BY <3>3 DEF upTo
  <2>5. Review!LineNumber(diff, a[k]) = Cardinality({j \in 1..a[k] : diff[j] # "removed"})
    BY ReviewCardinality DEF Review!LineNumber
  <2> QED BY <2>2, <2>4, <2>5
<1> HIDE DEF a, new, c
<1>11. \A k \in 1..c : a[k] \in 1..m /\ diff[a[k]] # "removed" /\ new[k] = Review!TextOf(a[k])
  BY <1>4, <1>6, <1>8
<1>12. \A n \in DOMAIN new :
          [line |-> n, text |-> new[n]] \in Review!shownByDiff(diff) /\ new[n] # "none"
  <2>1. SUFFICES ASSUME NEW n \in DOMAIN new
                 PROVE  [line |-> n, text |-> new[n]] \in Review!shownByDiff(diff) /\ new[n] # "none"
    OBVIOUS
  <2>2. a[n] \in 1..m /\ diff[a[n]] # "removed" /\ new[n] = Review!TextOf(a[n])
        /\ Review!LineNumber(diff, a[n]) = n
    BY <1>8, <1>10, <1>11, <2>1
  <2>3. new[n] # "none"
    BY <1>3, <2>2
  <2> QED BY <1>2, <2>2, <2>3 DEF Review!shownByDiff
<1>13. \A s \in Review!shownByDiff(diff) : s.line \in DOMAIN new /\ new[s.line] = s.text
  <2>1. SUFFICES ASSUME NEW s \in Review!shownByDiff(diff)
                 PROVE  s.line \in DOMAIN new /\ new[s.line] = s.text
    OBVIOUS
  <2>2. PICK i \in 1..m : diff[i] # "removed" /\ s = [line |-> Review!LineNumber(diff, i),
                                                text |-> Review!TextOf(i)]
    BY <1>2 DEF Review!shownByDiff
  <2>3. i \in P
    BY <1>6, <2>2
  <2>4. PICK k \in DOMAIN new : a[k] = i
    BY <1>8, <2>3
  <2>5. s.line = k /\ s.text = new[k]
    BY <1>8, <1>10, <1>11, <2>2, <2>4
  <2> QED BY <2>4, <2>5
<1> QED BY <1>7, <1>8, <1>12, <1>13

\* A blocking Finding is shown by the diff exactly if it quotes the new file close
\* to where it says.
LEMMA RealIsShown ==
    ASSUME diff \in Review!Hunks
    PROVE  \A f \in Review!Findings :
              Review!IsReal(f) <=> /\ Review!Severity(f) = "blocking"
                                   /\ Review!whyNotShown(f) = "supported"
<1> TAKE f \in Review!Findings
<1>1. f.line \in {0, 1, 4} /\ f.quote \in {"none", "text2", "text3"}
  BY DEF Review!Findings
<1>2. PICK c \in Nat : DOMAIN Review!NewLines = 1..c /\ Len(Review!NewLines) = c
  BY ShownAreNewLines
<1>3. /\ \A n \in 1..c : [line |-> n, text |-> Review!NewLines[n]] \in Review!shownByDiff(diff)
                         /\ Review!NewLines[n] # "none"
      /\ \A s \in Review!shownByDiff(diff) :
            s.line \in 1..c /\ Review!NewLines[s.line] = s.text
  BY <1>2, ShownAreNewLines
<1> DEFINE Near(n) == f.line = 0 \/ n - f.line \in -Review!LineSlack..Review!LineSlack
<1>4. Review!quoteIsShown(f.line, f.quote)
        <=> \E n \in 1..c : Review!NewLines[n] = f.quote /\ Near(n)
  <2>1. ASSUME Review!quoteIsShown(f.line, f.quote)
        PROVE  \E n \in 1..c : Review!NewLines[n] = f.quote /\ Near(n)
    <3>1. PICK s \in Review!shownByDiff(diff) : s.text = f.quote /\ Near(s.line)
      BY <2>1 DEF Review!quoteIsShown
    <3> HIDE DEF Near
    <3> QED BY <1>3, <3>1
  <2>2. ASSUME NEW n \in 1..c, Review!NewLines[n] = f.quote, Near(n)
        PROVE  Review!quoteIsShown(f.line, f.quote)
    <3> DEFINE s == [line |-> n, text |-> Review!NewLines[n]]
    <3>1. s \in Review!shownByDiff(diff) /\ s.text = f.quote /\ s.line = n
      BY <1>3, <2>2
    <3> HIDE DEF s
    <3> QED BY <2>2, <3>1 DEF Review!quoteIsShown
  <2> QED BY <2>1, <2>2
<1>5. (\A s \in Review!shownByDiff(diff) : s.line # f.line) <=> f.line \notin 1..c
  <2>1. ASSUME f.line \in 1..c
        PROVE  \E s \in Review!shownByDiff(diff) : s.line = f.line
    <3> DEFINE s == [line |-> f.line, text |-> Review!NewLines[f.line]]
    <3>1. s \in Review!shownByDiff(diff) /\ s.line = f.line
      BY <1>3, <2>1
    <3> QED BY <3>1
  <2> QED BY <1>3, <2>1
<1>6. f.line \in 0..c <=> ~(f.line > 0 /\ f.line \notin 1..c)
  BY <1>1
<1>7. Review!IsReal(f) <=>
         /\ Review!Severity(f) = "blocking" /\ f.file = "shown.ts" /\ f.rule \notin Review!isLintRule
         /\ f.line \in 0..c
         /\ \E n \in 1..c : Review!NewLines[n] = f.quote /\ Near(n)
  BY <1>2 DEF Review!IsReal
<1>8. Review!whyNotShown(f) = "supported" /\ Review!Severity(f) = "blocking" <=>
         /\ Review!Severity(f) = "blocking" /\ f.file = "shown.ts" /\ f.rule \notin Review!isLintRule
         /\ ~(f.line > 0 /\ \A s \in Review!shownByDiff(diff) : s.line # f.line)
         /\ f.quote # "none" /\ Review!quoteIsShown(f.line, f.quote)
  BY DEF Review!whyNotShown
<1>9. (\E n \in 1..c : Review!NewLines[n] = f.quote /\ Near(n)) => f.quote # "none"
  BY <1>3
<1> HIDE DEF Near
<1> QED BY <1>4, <1>5, <1>6, <1>7, <1>8, <1>9

\* What was submitted is recorded or refused for a reason, what blocks and is shown
\* is recorded, and only what is shown is.
SubmittedFits ==
    /\ \A f \in submitted : /\ f \in Review!Findings
                            /\ f \in reported \/ \E why : <<f, why>> \in refused
    /\ \A f \in submitted : Review!Severity(f) = "blocking" /\ Review!whyNotShown(f) = "supported"
                               => f \in reported
    /\ \A f \in reported : f \in submitted /\ Review!whyNotShown(f) = "supported"

ReviewInv ==
    /\ diff \in Review!Hunks
    /\ SubmittedFits
    /\ result # "reviewing" => (result = "sentBack" <=> Review!blockingFindings # {})

\* The first state of a review has it: nothing is submitted.
LEMMA ReviewStarts ==
    ASSUME Review!Init
    PROVE  ReviewInv
BY DEF Review!Init, ReviewInv, SubmittedFits

\* Every step of the review keeps it.
LEMMA ReviewStays ==
    ASSUME ReviewInv, Review!Next
    PROVE  ReviewInv'
<1>1. ASSUME NEW f \in Review!Findings, Review!submitFinding(f)
      PROVE  ReviewInv'
  <2> DEFINE why_ == IF Review!whyNotShown(f) # "supported" THEN Review!whyNotShown(f)
                     ELSE IF Review!Capped(f) THEN "enoughRecorded" ELSE "supported"
  <2>1. /\ result = "reviewing" /\ f \notin submitted /\ submitted' = submitted \cup {f}
        /\ UNCHANGED <<standard, diff, fromLinters, result>>
    BY <1>1 DEF Review!submitFinding
  <2>2. IF why_ = "supported"
        THEN reported' = reported \cup {f} /\ UNCHANGED refused
        ELSE refused' = refused \cup {<<f, why_>>} /\ UNCHANGED reported
    BY <1>1 DEF Review!submitFinding
  <2>3. /\ why_ = "supported" => Review!whyNotShown(f) = "supported"
        /\ (Review!Severity(f) = "blocking" /\ Review!whyNotShown(f) = "supported")
              => why_ = "supported"
    BY DEF Review!Capped
  <2> HIDE DEF why_
  <2>4. /\ reported \subseteq reported' /\ refused \subseteq refused'
        /\ f \in reported' \/ <<f, why_>> \in refused'
        /\ \A g \in reported' : g \in reported \/ (g = f /\ why_ = "supported")
    BY <2>2
  <2>5. \A g : /\ (Review!Severity(g) = "blocking")' <=> Review!Severity(g) = "blocking"
               /\ (Review!whyNotShown(g) = "supported")' <=> Review!whyNotShown(g) = "supported"
    BY <2>1 DEF Review!Severity, Review!whyNotShown, Review!quoteIsShown
  <2>6. \A g \in submitted' : /\ g \in Review!Findings
                              /\ g \in reported' \/ \E why : <<g, why>> \in refused'
    BY <2>1, <2>4 DEF ReviewInv, SubmittedFits
  <2>7. \A g \in submitted' :
           Review!Severity(g) = "blocking" /\ Review!whyNotShown(g) = "supported" => g \in reported'
    <3>1. SUFFICES ASSUME NEW g \in submitted', Review!Severity(g) = "blocking",
                          Review!whyNotShown(g) = "supported"
                   PROVE  g \in reported'
      OBVIOUS
    <3>2. CASE g \in submitted
      BY <2>4, <3>1, <3>2 DEF ReviewInv, SubmittedFits
    <3>3. CASE g = f
      BY <2>2, <2>3, <3>1, <3>3
    <3> QED BY <2>1, <3>2, <3>3
  <2>8. \A g \in reported' : g \in submitted' /\ Review!whyNotShown(g) = "supported"
    BY <2>1, <2>3, <2>4 DEF ReviewInv, SubmittedFits
  <2>9. SubmittedFits'
    BY <2>5, <2>6, <2>7, <2>8 DEF SubmittedFits
  <2> QED BY <2>1, <2>9 DEF ReviewInv
<1>2. ASSUME NEW stopReason, Review!ReviewEnds(stopReason)
      PROVE  ReviewInv'
  <2>1. /\ result' = IF Review!blockingFindings # {} THEN "sentBack"
                     ELSE IF stopReason # "answered" THEN "limited" ELSE "delivered"
        /\ UNCHANGED <<standard, diff, fromLinters, submitted, reported, refused>>
    BY <1>2 DEF Review!ReviewEnds
  <2>2. SubmittedFits'
    BY <2>1
    DEF ReviewInv, SubmittedFits, Review!Severity, Review!whyNotShown, Review!quoteIsShown
  <2>3. (Review!blockingFindings # {})' <=> Review!blockingFindings # {}
    BY <2>1
    DEF Review!blockingFindings, Review!AllFindings, Review!findingsFor, Review!Severity
  <2>4. result' = "sentBack" <=> Review!blockingFindings # {}
    BY <2>1
  <2> QED BY <2>1, <2>2, <2>3, <2>4 DEF ReviewInv
<1> QED BY <1>1, <1>2 DEF Review!Next

(* What is submitted to a review, recorded and refused, and what the review *)
(* ends in fit together in every state (codeReviewAgent.ts, #review).       *)
THEOREM ReviewInductive == Spec => [](part = "review" => ReviewInv)
<1>1. Init => (part = "review" => ReviewInv)
  BY ReviewStarts DEF Init
<1>2. (part = "review" => ReviewInv) /\ [Next]_vars => (part = "review" => ReviewInv)'
  <2>1. SUFFICES ASSUME part = "review" => ReviewInv, [Next]_vars, part' = "review"
                 PROVE  ReviewInv'
    OBVIOUS
  <2>2. CASE ReviewStep
    BY <2>1, <2>2, ReviewStays DEF ReviewStep
  <2>3. CASE UNCHANGED <<part, reviewState>>
    <3>1. /\ part = "review" /\ ReviewInv
          /\ UNCHANGED <<standard, diff, fromLinters, submitted, reported, refused, result>>
      BY <2>1, <2>3 DEF reviewState
    <3>2. SubmittedFits'
      BY <3>1
      DEF ReviewInv, SubmittedFits, Review!Severity, Review!whyNotShown, Review!quoteIsShown
    <3>3. (Review!blockingFindings # {})' <=> Review!blockingFindings # {}
      BY <3>1
      DEF Review!blockingFindings, Review!AllFindings, Review!findingsFor, Review!Severity
    <3>4. (result # "reviewing" => (result = "sentBack" <=> Review!blockingFindings # {}))'
      BY <3>1, <3>3 DEF ReviewInv
    <3> QED BY <3>1, <3>2, <3>4 DEF ReviewInv
  <2> QED
    BY <2>1, <2>2, <2>3
    DEF Next, vars, SystemDesignAgentStep, CodingAgentsStep, RoutingStep, BriefStep
<1> QED BY <1>1, <1>2, PTL DEF Spec

(* Code is sent back exactly for what its diff or a linter bears out, and a *)
(* person is told of every Finding (submit, whyNotShown, notRecorded,       *)
(* #review).                                                                *)
THEOREM ReviewsBlockOnWhatIsReal == Spec => []BlocksOnWhatIsReal
<1>1. (part = "review" => ReviewInv) => BlocksOnWhatIsReal
  <2>1. SUFFICES ASSUME ReviewInv
                 PROVE  Review!BlocksOnWhatIsReal /\ Review!EveryFindingIsToldOf
    BY DEF BlocksOnWhatIsReal
  <2>2. Review!blockingFindings # {} <=>
           \/ \E f \in submitted : Review!IsReal(f)
           \/ \E f \in fromLinters : Review!Severity(f) = "blocking"
    <3>1. Review!blockingFindings # {} <=>
             \/ \E f \in reported : Review!Severity(f) = "blocking"
             \/ \E f \in fromLinters : Review!Severity(f) = "blocking"
      BY DEF Review!blockingFindings, Review!AllFindings, Review!findingsFor
    <3>2. \A f \in submitted : Review!IsReal(f) <=>
             Review!Severity(f) = "blocking" /\ Review!whyNotShown(f) = "supported"
      BY <2>1, RealIsShown DEF ReviewInv, SubmittedFits
    <3>3. (\E f \in reported : Review!Severity(f) = "blocking")
             <=> \E f \in submitted : Review!IsReal(f)
      BY <2>1, <3>2 DEF ReviewInv, SubmittedFits
    <3> QED BY <3>1, <3>3
  <2>3. Review!BlocksOnWhatIsReal
    BY <2>1, <2>2 DEF ReviewInv, Review!BlocksOnWhatIsReal
  <2>4. Review!EveryFindingIsToldOf
    <3>1. SUFFICES ASSUME NEW f \in submitted
                   PROVE  \/ f \in Review!AllFindings \/ f.rule \in Review!unknownRuleIds(reported)
                          \/ f \in Review!notRecorded
                          \/ /\ <<f, "enoughRecorded">> \notin refused
                             /\ \E kept \in reported : Review!SamePlace(kept, f)
      BY DEF Review!EveryFindingIsToldOf
    <3>2. CASE f \in reported
      BY <3>2 DEF Review!AllFindings, Review!findingsFor, Review!unknownRuleIds
    <3>3. CASE <<f, "enoughRecorded">> \in refused
      <4> DEFINE r == <<f, "enoughRecorded">>
      <4>1. r \in refused /\ r[1] = f /\ r[2] = "enoughRecorded"
        BY <3>3
      <4> HIDE DEF r
      <4> QED BY <4>1 DEF Review!notRecorded
    <3>4. CASE f \notin reported /\ <<f, "enoughRecorded">> \notin refused
      <4>1. PICK why : <<f, why>> \in refused
        BY <2>1, <3>4 DEF ReviewInv, SubmittedFits
      <4> DEFINE r == <<f, why>>
      <4>2. r \in refused /\ r[1] = f
        BY <4>1
      <4> HIDE DEF r
      <4>3. CASE \A kept \in reported : ~Review!SamePlace(kept, f)
        BY <4>2, <4>3 DEF Review!notRecorded
      <4> QED BY <3>4, <4>3
    <3> QED BY <3>2, <3>3, <3>4
  <2> QED BY <2>3, <2>4
<1> QED BY <1>1, ReviewInductive, PTL
==============================================================================
