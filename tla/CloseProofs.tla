---------------------------- MODULE CloseProofs ----------------------------
(***************************************************************************)
(* No close lifecycle has two orders that can still fill, for any account, *)
(* any number of generations, whatever fails and whichever of the two      *)
(* processes writes.                                                       *)
(***************************************************************************)
EXTENDS CloseLadder, WellFoundedInduction, TLAPS

-----------------------------------------------------------------------------
(***************************************************************************)
(* The inductive invariant, of the broker's records o, the requests w on   *)
(* their way, the journal's fold k and what a process knows r.             *)
(***************************************************************************)
Fillable(o, w, a) == o[a].status = "working" \/ w[a] # NoRequest
Over(o, a) == o[a].status \in TerminalCloseStatus

\* What the fold says of an attempt that may be at the broker.
Pending == {"submitted", "confirmation_unclear", "partially_filled"}

\* Behind the fold there is room for the attempt of an emergency close that left no
\* line, and for one more once the broker has finished with that.
Behind(o, f, s, h) ==
    LET n == nextJournaled(f, s)
    IN  h = n \/ (n \in Generations /\ h = n + 1 /\ Over(o, <<s, n>>))

\* A fold covers a lifecycle: what can fill is pending there, or behind it.
Covers(o, w, f, s) ==
    \A h \in Generations :
        Fillable(o, w, <<s, h>>) => f[<<s, h>>].status \in Pending \/ Behind(o, f, s, h)

\* Generation n is free: an order under its id is the only one that can fill, or a
\* duplicate the broker refuses.
Free(o, w, s, n) ==
    \A h \in Generations : Fillable(o, w, <<s, h>>) => h = n \/ o[<<s, n>>] # NoOrder

\* Two folds agree on a lifecycle.
Agree(f, k, s) == \A g \in Generations : f[<<s, g>>] = k[<<s, g>>]

-----------------------------------------------------------------------------
(***************************************************************************)
(* Of the fold and the plan: the next generation.                          *)
(***************************************************************************)
LEMMA LeastExists ==
    ASSUME NEW U \in SUBSET Nat, U # {}
    PROVE  \E u \in U : \A v \in U : u <= v
<1>. DEFINE R == OpToRel(<, Nat)
<1>1. R = {pair \in Nat \X Nat : pair[1] < pair[2]}
  BY DEF OpToRel
<1>2. PICK u \in U : \A v \in U : <<v, u>> \notin R
  <2>1. IsWellFoundedOn(R, Nat)
    BY NatLessThanWellFounded
  <2>. HIDE DEF R
  <2>. QED
    BY <2>1, WFMin
<1>. HIDE DEF R
<1>3. \A v \in U : u <= v
  <2>. TAKE v \in U
  <2>1. <<v, u>> \notin R /\ v \in Nat /\ u \in Nat
    BY <1>2
  <2>. QED
    BY <1>1, <2>1
<1>. QED
  BY <1>3

LEMMA GreatestExists ==
    ASSUME NEW n \in Nat, NEW S \in SUBSET (0..n), S # {}
    PROVE  \E x \in S : \A y \in S : y <= x
<1>. DEFINE U == {u \in Nat : \A y \in S : y <= u}
<1>1. n \in U /\ U \in SUBSET Nat
  OBVIOUS
<1>2. PICK u \in U : \A v \in U : u <= v
  <2>. HIDE DEF U
  <2>. QED
    BY <1>1, LeastExists
<1>3. u \in S
  <2>. SUFFICES ASSUME u \notin S PROVE FALSE
    OBVIOUS
  <2>1. u \in Nat /\ \A y \in S : y \in Nat /\ y <= u
    BY <1>2
  <2>2. \A y \in S : y <= u - 1
    BY <2>1
  <2>3. u - 1 \in Nat
    <3>1. PICK y \in S : TRUE
      OBVIOUS
    <3>2. y \in Nat /\ y <= u - 1
      BY <2>1, <2>2
    <3>. QED
      BY <2>1, <3>2
  <2>4. u - 1 \in U
    BY <2>2, <2>3
  <2>5. u <= u - 1
    <3>. HIDE DEF U
    <3>. QED
      BY <1>2, <2>4
  <2>. QED
    BY <2>1, <2>5
<1>. QED
  BY <1>2, <1>3

\* The generation behind the last journaled one.
LEMMA NextIsBehind ==
    ASSUME NEW f, NEW s
    PROVE  LET n == nextJournaled(f, s)
           IN  /\ n \in Nat
               /\ \A g \in Generations : f[<<s, g>>].status # "none" => g < n
               /\ n # 0 => n - 1 \in Generations /\ f[<<s, n - 1>>].status # "none"
<1>. DEFINE J == {g \in Generations : f[<<s, g>>].status # "none"}
<1>1. J \in SUBSET (0..MaxGeneration) /\ MaxGeneration \in Nat
  BY GenerationAssumption DEF Generations
<1>2. CASE J = {}
  BY <1>2 DEF nextJournaled
<1>3. CASE J # {}
  <2>. DEFINE m == CHOOSE g \in J : \A h \in J : h <= g
  <2>1. m \in J /\ \A h \in J : h <= m
    <3>. HIDE DEF J
    <3>. QED
      BY <1>1, <1>3, GreatestExists
  <2>2. nextJournaled(f, s) = 1 + m
    BY <1>3 DEF nextJournaled
  <2>3. m \in Nat /\ \A h \in J : h \in Nat
    <3>. HIDE DEF J, m
    <3>. QED
      BY <2>1, <1>1
  <2>. HIDE DEF m
  <2>. QED
    BY <2>1, <2>2, <2>3
<1>. QED
  BY <1>2, <1>3

LEMMA NextIsUnique ==
    ASSUME NEW f, NEW s, NEW n \in Nat,
           \A g \in Generations : f[<<s, g>>].status # "none" => g < n,
           n # 0 => n - 1 \in Generations /\ f[<<s, n - 1>>].status # "none"
    PROVE  nextJournaled(f, s) = n
<1>. DEFINE m == nextJournaled(f, s)
<1>1. /\ m \in Nat
      /\ \A g \in Generations : f[<<s, g>>].status # "none" => g < m
      /\ m # 0 => m - 1 \in Generations /\ f[<<s, m - 1>>].status # "none"
  BY NextIsBehind
<1>2. m # 0 => m - 1 < n
  BY <1>1
<1>3. n # 0 => n - 1 < m
  BY <1>1
<1>. HIDE DEF m
<1>4. m = n
  BY <1>1, <1>2, <1>3
<1>. QED
  BY <1>4 DEF m

LEMMA AgreeingFolds ==
    ASSUME NEW f, NEW k, NEW s, Agree(f, k, s)
    PROVE  nextJournaled(f, s) = nextJournaled(k, s)
<1>. DEFINE m == nextJournaled(k, s)
<1>1. /\ m \in Nat
      /\ \A g \in Generations : k[<<s, g>>].status # "none" => g < m
      /\ m # 0 => m - 1 \in Generations /\ k[<<s, m - 1>>].status # "none"
  BY NextIsBehind
<1>. HIDE DEF m
<1>2. /\ \A g \in Generations : f[<<s, g>>].status # "none" => g < m
      /\ m # 0 => m - 1 \in Generations /\ f[<<s, m - 1>>].status # "none"
  BY <1>1 DEF Agree
<1>3. nextJournaled(f, s) = m
  BY <1>1, <1>2, NextIsUnique
<1>. QED
  BY <1>3 DEF m

\* What a plan says of the attempts it was made from.
LEMMA PlanIs ==
    ASSUME NEW exposure, NEW A, \A a \in A : a.generation \in Generations
    PROVE  LET plan == planCloseLifecycle(exposure, A)
               active == {a \in A : a.state \in ActiveCloseState}
           IN  /\ plan.kind = "SUBMIT" =>
                    /\ active = {}
                    /\ plan.generation \in Nat
                    /\ \A a \in A : a.generation < plan.generation
                    /\ plan.generation # 0 => \E a \in A : a.generation = plan.generation - 1
               /\ plan.kind = "ADOPT" => plan.generation \in Generations
<1>. DEFINE plan == planCloseLifecycle(exposure, A)
<1>. DEFINE active == {a \in A : a.state \in ActiveCloseState}
<1>. DEFINE G == {a.generation : a \in A}
<1>1. G \in SUBSET (0..MaxGeneration) /\ MaxGeneration \in Nat
  BY GenerationAssumption DEF Generations
<1>2. ASSUME plan.kind = "SUBMIT"
      PROVE  /\ active = {}
             /\ plan.generation \in Nat
             /\ \A a \in A : a.generation < plan.generation
             /\ plan.generation # 0 => \E a \in A : a.generation = plan.generation - 1
  <2>1. active = {}
    BY <1>2 DEF planCloseLifecycle
  <2>2. CASE A = {}
    BY <1>2, <2>1, <2>2 DEF planCloseLifecycle
  <2>3. CASE A # {}
    <3>. DEFINE m == CHOOSE n \in G : \A a \in A : a.generation <= n
    <3>1. plan.generation = 1 + m
      BY <1>2, <2>1, <2>3 DEF planCloseLifecycle
    <3>2. \E n \in G : \A y \in G : y <= n
      <4>1. G # {}
        BY <2>3
      <4>. HIDE DEF G
      <4>. QED
        BY <1>1, <4>1, GreatestExists
    <3>3. m \in G /\ \A a \in A : a.generation <= m
      BY <3>2
    <3>4. m \in Nat /\ \A a \in A : a.generation \in Nat
      BY <3>3, <1>1 DEF Generations
    <3>5. \E a \in A : a.generation = m
      BY <3>3
    <3>. HIDE DEF m, plan
    <3>. QED
      BY <2>1, <3>1, <3>3, <3>4, <3>5
  <2>. QED
    BY <2>2, <2>3
<1>3. ASSUME plan.kind = "ADOPT" PROVE plan.generation \in Generations
  <2>1. active # {} /\ plan.generation = (CHOOSE a \in active : TRUE).generation
    BY <1>3 DEF planCloseLifecycle
  <2>2. (CHOOSE a \in active : TRUE) \in active
    BY <2>1
  <2>. QED
    BY <2>1, <2>2, <1>3
<1>. QED
  BY <1>2, <1>3

\* The generations a snapshot shows.
Seen(f, s, records, g) ==
    g <= nextJournaled(f, s) /\ (f[<<s, g>>].status # "none" \/ records[g] # NoOrder)

LEMMA SnapshotIs ==
    ASSUME NEW f, NEW s, NEW records
    PROVE  LET A == closeLifecycleSnapshot(f, s, records)
           IN  /\ \A a \in A : a.generation \in Generations /\ Seen(f, s, records, a.generation)
               /\ \A g \in Generations : Seen(f, s, records, g) =>
                     \E a \in A : a.generation = g /\ a.state = attemptState(f[<<s, g>>], records[g])
<1>. DEFINE A == closeLifecycleSnapshot(f, s, records)
<1>. DEFINE Item(g) == [generation |-> g,
                        requested |-> IF records[g] # NoOrder THEN records[g].quantity
                                      ELSE f[<<s, g>>].quantity,
                        filled |-> IF records[g] # NoOrder THEN records[g].filled
                                   ELSE f[<<s, g>>].filled,
                        state |-> attemptState(f[<<s, g>>], records[g])]
<1>1. A = {Item(g) : g \in {g \in Generations : Seen(f, s, records, g)}}
  BY DEF closeLifecycleSnapshot, Seen
<1>2. \A g : Item(g).generation = g /\ Item(g).state = attemptState(f[<<s, g>>], records[g])
  OBVIOUS
<1>. HIDE DEF A, Item
<1>3. /\ \A a \in A : a.generation \in Generations /\ Seen(f, s, records, a.generation)
      /\ \A g \in Generations : Seen(f, s, records, g) =>
            \E a \in A : a.generation = g /\ a.state = attemptState(f[<<s, g>>], records[g])
  BY <1>1, <1>2
<1>. QED
  BY <1>3 DEF A

\* A plan over what the broker shows, or does not show, aims at a free generation.
LEMMA PlannedIsFree ==
    ASSUME NEW o, NEW w, NEW f, NEW s, NEW records, NEW exposure,
           Covers(o, w, f, s),
           \A g \in Generations : w[<<s, g>>] # NoRequest => o[<<s, g>>] = NoOrder,
           \A g \in Generations : o[<<s, g>>] # NoOrder =>
                o[<<s, g>>].status \in {"working"} \cup TerminalCloseStatus,
           \A g \in Generations : records[g] \in {o[<<s, g>>], NoOrder},
           NEW n, n = planCloseLifecycle(exposure, closeLifecycleSnapshot(f, s, records)).generation,
           planCloseLifecycle(exposure, closeLifecycleSnapshot(f, s, records)).kind = "SUBMIT",
           n \in Generations
    PROVE  Free(o, w, s, n) /\ Behind(o, f, s, n)
<1>. DEFINE A == closeLifecycleSnapshot(f, s, records)
<1>. DEFINE plan == planCloseLifecycle(exposure, A)
<1>. DEFINE m == nextJournaled(f, s)
<1>1. /\ m \in Nat
      /\ \A g \in Generations : f[<<s, g>>].status # "none" => g < m
      /\ m # 0 => m - 1 \in Generations /\ f[<<s, m - 1>>].status # "none"
  BY NextIsBehind
<1>2. \A a \in A : a.generation \in Generations /\ Seen(f, s, records, a.generation)
  BY SnapshotIs
<1>3. \A g \in Generations : Seen(f, s, records, g) =>
         \E a \in A : a.generation = g /\ a.state = attemptState(f[<<s, g>>], records[g])
  BY SnapshotIs
<1>4. /\ \A a \in A : a.state \notin ActiveCloseState
      /\ \A a \in A : a.generation < n
      /\ n # 0 => \E a \in A : a.generation = n - 1
  <2>. HIDE DEF A
  <2>. QED
    BY <1>2, PlanIs DEF A
<1>. HIDE DEF A, plan
<1>5. \A g \in Generations : g <= m /\ (f[<<s, g>>].status # "none" \/ records[g] # NoOrder) =>
         g < n /\ attemptState(f[<<s, g>>], records[g]) \notin ActiveCloseState
  BY <1>3, <1>4 DEF Seen
<1>6. n # 0 => /\ n - 1 \in Generations /\ n - 1 <= m
               /\ f[<<s, n - 1>>].status # "none" \/ records[n - 1] # NoOrder
  BY <1>2, <1>4 DEF Seen
<1>. HIDE DEF m
<1>7. n \in Nat /\ MaxGeneration \in Nat /\ \A g \in Generations : g \in Nat
  BY GenerationAssumption DEF Generations
<1>8. n = m \/ (n = m + 1 /\ m \in Generations /\ records[m] # NoOrder)
  <2>1. m <= n
    BY <1>1, <1>5, <1>7
  <2>2. n <= m + 1
    BY <1>1, <1>6, <1>7
  <2>3. ASSUME n = m + 1 PROVE m \in Generations /\ records[m] # NoOrder
    <3>1. m \in Generations /\ (f[<<s, m>>].status # "none" \/ records[m] # NoOrder)
      BY <1>1, <1>6, <1>7, <2>3
    <3>. QED
      BY <1>1, <3>1
  <2>. QED
    BY <1>1, <1>7, <2>1, <2>2, <2>3
<1>9. \A g \in Generations : g <= m /\ records[g] # NoOrder =>
         records[g] = o[<<s, g>>] /\ Over(o, <<s, g>>)
  <2>. SUFFICES ASSUME NEW g \in Generations, g <= m, records[g] # NoOrder
                PROVE  records[g] = o[<<s, g>>] /\ Over(o, <<s, g>>)
    OBVIOUS
  <2>1. records[g] = o[<<s, g>>] /\ o[<<s, g>>].status \in {"working"} \cup TerminalCloseStatus
    OBVIOUS
  <2>2. closeStateOf(records[g]) \notin ActiveCloseState
    BY <1>5 DEF attemptState
  <2>3. o[<<s, g>>].status # "working"
    BY <2>1, <2>2 DEF closeStateOf, ActiveCloseState
  <2>. QED
    BY <2>1, <2>3 DEF Over
<1>10. Behind(o, f, s, n)
  BY <1>1, <1>8, <1>9 DEF Behind, m
<1>11. Free(o, w, s, n)
  <2>. SUFFICES ASSUME NEW h \in Generations, Fillable(o, w, <<s, h>>), h # n,
                       o[<<s, n>>] = NoOrder
                PROVE  FALSE
    BY DEF Free
  <2>1. ~Over(o, <<s, h>>)
    BY DEF Fillable, Over, TerminalCloseStatus, NoOrder
  <2>2. CASE f[<<s, h>>].status \in Pending
    <3>1. h <= m /\ f[<<s, h>>].status # "none"
      BY <1>1, <1>7, <2>2 DEF Pending
    <3>2. records[h] = NoOrder
      BY <1>9, <2>1, <3>1
    <3>3. attemptState(f[<<s, h>>], records[h]) \in ActiveCloseState
      BY <2>2, <3>2 DEF attemptState, Pending, ActiveCloseState
    <3>. QED
      BY <1>5, <3>1, <3>3
  <2>3. CASE Behind(o, f, s, h)
    <3>1. h = m \/ (m \in Generations /\ h = m + 1 /\ Over(o, <<s, m>>))
      BY <2>3 DEF Behind, m
    <3>2. CASE h = m
      BY <1>8, <1>9, <1>1, <2>1, <3>2
    <3>3. CASE m \in Generations /\ h = m + 1 /\ Over(o, <<s, m>>)
      <4>1. n = m
        BY <1>8, <3>3
      <4>. QED
        BY <3>3, <4>1 DEF Over, NoOrder, TerminalCloseStatus
    <3>. QED
      BY <3>1, <3>2, <3>3
  <2>. QED
    BY <2>2, <2>3 DEF Covers
<1>. QED
  BY <1>10, <1>11

LEMMA AdoptedIsAnAttempt ==
    ASSUME NEW f, NEW s, NEW records, NEW exposure,
           planCloseLifecycle(exposure, closeLifecycleSnapshot(f, s, records)).kind = "ADOPT"
    PROVE  planCloseLifecycle(exposure, closeLifecycleSnapshot(f, s, records)).generation \in Generations
<1>. DEFINE A == closeLifecycleSnapshot(f, s, records)
<1>1. \A a \in A : a.generation \in Generations
  BY SnapshotIs
<1>. HIDE DEF A
<1>. QED
  BY <1>1, PlanIs DEF A

-----------------------------------------------------------------------------
(***************************************************************************)
(* What covers a lifecycle goes on covering it.                            *)
(***************************************************************************)
\* On a lifecycle nothing more can fill, and the broker forgets nothing.
Calm(o, w, o2, w2, s) ==
    \A g \in Generations :
        /\ Fillable(o2, w2, <<s, g>>) => Fillable(o, w, <<s, g>>)
        /\ Over(o, <<s, g>>) => Over(o2, <<s, g>>)
        /\ o[<<s, g>>] # NoOrder => o2[<<s, g>>] # NoOrder

LEMMA CalmKeeps ==
    ASSUME NEW o, NEW w, NEW o2, NEW w2, NEW f, NEW f2, NEW s,
           Calm(o, w, o2, w2, s), Agree(f, f2, s)
    PROVE  /\ Covers(o, w, f, s) => Covers(o2, w2, f2, s)
           /\ \A n \in Generations : Free(o, w, s, n) => Free(o2, w2, s, n)
           /\ \A n \in Generations : Behind(o, f, s, n) => Behind(o2, f2, s, n)
<1>1. nextJournaled(f, s) = nextJournaled(f2, s)
  BY AgreeingFolds
<1>2. \A n \in Generations : Behind(o, f, s, n) => Behind(o2, f2, s, n)
  BY <1>1 DEF Behind, Calm
<1>3. Covers(o, w, f, s) => Covers(o2, w2, f2, s)
  BY <1>2 DEF Covers, Calm, Agree
<1>4. \A n \in Generations : Free(o, w, s, n) => Free(o2, w2, s, n)
  BY DEF Free, Calm
<1>. QED
  BY <1>2, <1>3, <1>4

\* An OUTCOME replaces what the fold said of an attempt.
LEMMA OutcomeCovers ==
    ASSUME NEW o, NEW w, NEW k, NEW k2, NEW s, NEW n \in Generations,
           Covers(o, w, k, s),
           \A g \in Generations \ {n} : k2[<<s, g>>] = k[<<s, g>>],
           k[<<s, n>>].status # "none", k2[<<s, n>>].status # "none",
           Fillable(o, w, <<s, n>>) => k2[<<s, n>>].status \in Pending
    PROVE  Covers(o, w, k2, s)
<1>. DEFINE m == nextJournaled(k, s)
<1>1. /\ m \in Nat
      /\ \A g \in Generations : k[<<s, g>>].status # "none" => g < m
      /\ m # 0 => m - 1 \in Generations /\ k[<<s, m - 1>>].status # "none"
  BY NextIsBehind
<1>. HIDE DEF m
<1>2. \A g \in Generations : k2[<<s, g>>].status # "none" <=> k[<<s, g>>].status # "none"
  OBVIOUS
<1>3. nextJournaled(k2, s) = m
  BY <1>1, <1>2, NextIsUnique
<1>4. \A h \in Generations : Behind(o, k, s, h) => Behind(o, k2, s, h)
  BY <1>3 DEF Behind, m
<1>. QED
  BY <1>4 DEF Covers

\* An INTENT, or an AUDIT_GAP, takes a generation behind the fold.
LEMMA IntentCovers ==
    ASSUME NEW o, NEW w, NEW k, NEW k2, NEW s, NEW n \in Generations,
           Covers(o, w, k, s), Behind(o, k, s, n),
           \A g \in Generations : w[<<s, g>>] # NoRequest => o[<<s, g>>] = NoOrder,
           \A g \in Generations \ {n} : k2[<<s, g>>] = k[<<s, g>>],
           k2[<<s, n>>].status # "none",
           Fillable(o, w, <<s, n>>) => k2[<<s, n>>].status \in Pending
    PROVE  Covers(o, w, k2, s)
<1>. DEFINE m == nextJournaled(k, s)
<1>1. /\ m \in Nat
      /\ \A g \in Generations : k[<<s, g>>].status # "none" => g < m
      /\ m # 0 => m - 1 \in Generations /\ k[<<s, m - 1>>].status # "none"
  BY NextIsBehind
<1>2. n = m \/ (m \in Generations /\ n = m + 1 /\ Over(o, <<s, m>>))
  BY DEF Behind
<1>. HIDE DEF m
<1>3. n \in Nat /\ \A g \in Generations : g \in Nat
  BY GenerationAssumption DEF Generations
<1>4. nextJournaled(k2, s) = n + 1
  <2>1. \A g \in Generations : k2[<<s, g>>].status # "none" => g < n + 1
    <3>. TAKE g \in Generations
    <3>1. m <= n /\ g \in Nat
      BY <1>1, <1>2, <1>3
    <3>2. CASE g = n
      BY <1>3, <3>2
    <3>3. CASE g # n
      <4>1. k2[<<s, g>>] = k[<<s, g>>]
        BY <3>3
      <4>. QED
        BY <1>1, <1>3, <3>1, <4>1
    <3>. QED
      BY <3>2, <3>3
  <2>2. (n + 1) - 1 = n /\ n + 1 \in Nat /\ n + 1 # 0
    BY <1>3
  <2>. QED
    BY <2>1, <2>2, NextIsUnique
<1>5. \A h \in Generations : Over(o, <<s, h>>) => ~Fillable(o, w, <<s, h>>)
  BY DEF Over, Fillable, TerminalCloseStatus, NoOrder
<1>. SUFFICES ASSUME NEW h \in Generations, Fillable(o, w, <<s, h>>), h # n
              PROVE  k2[<<s, h>>].status \in Pending \/ Behind(o, k2, s, h)
  BY DEF Covers
<1>6. CASE k[<<s, h>>].status \in Pending
  BY <1>6
<1>7. CASE Behind(o, k, s, h)
  <2>1. h = m \/ (m \in Generations /\ h = m + 1 /\ Over(o, <<s, m>>))
    BY <1>7 DEF Behind, m
  <2>2. n = m /\ h = n + 1
    BY <1>2, <1>5, <2>1
  <2>. QED
    BY <1>4, <2>2 DEF Behind
<1>. QED
  BY <1>6, <1>7 DEF Covers

\* A submission under a free generation that the fold knows of or that is behind it.
LEMMA SubmissionCovers ==
    ASSUME NEW o, NEW w, NEW o2, NEW w2, NEW k, NEW s, NEW n \in Generations,
           \A g \in Generations : Fillable(o2, w2, <<s, g>>) => g = n,
           \A g \in Generations : Over(o, <<s, g>>) => Over(o2, <<s, g>>),
           k[<<s, n>>].status \in Pending \/ Behind(o, k, s, n)
    PROVE  Covers(o2, w2, k, s)
BY DEF Covers, Behind

-----------------------------------------------------------------------------
(***************************************************************************)
(* What the writer knows, by where it is: r is its run.                    *)
(***************************************************************************)
FoldOk(k) == \A a \in Attempts : k[a].status # "broken"

Aiming == {"intent", "submit", "observe", "cancel", "canceled", "replan"}
Aims(r) ==
    /\ r.pc \in Aiming =>
         /\ \E s \in Subjects, n \in Generations : r.cur = <<s, n>>
         /\ r.cur[1] \in r.todo
    /\ r.pc \in {"cancel", "canceled", "replan"} => r.mode = "ladder"
    /\ r.pc = "cancels" => r.mode \in {"ladder", "kill"}

\* Where nobody reads the journal again, what is known is what it holds.
Knows(k, r) ==
    \A s \in Subjects :
        \/ r.pc = "probe" /\ s \in r.todo
        \/ r.pc = "kill"
        \/ r.mode = "kill" /\ r.pc = "cancels"
        \/ r.mode # "ladder" /\ r.pc = "targets" /\ s \in r.todo
        \/ r.mode # "ladder" /\ r.pc \in {"intent", "submit", "observe"} /\ s \in r.todo \ {r.cur[1]}
        => Agree(r.closes, k, s)

\* What is known covers the targets still to come.
Sees(o, w, r) ==
    \A s \in Subjects :
        \/ r.mode = "ladder" /\ r.pc = "cancels"
        \/ r.pc \in {"targets", "cancel", "canceled", "replan"} /\ s \in r.todo
        \/ r.pc \in {"intent", "submit", "observe"} /\ s \in r.todo \ {r.cur[1]}
        => Covers(o, w, r.closes, s)

\* A fold that was read whole stays whole, for the reader is the writer.
Steady(k, r) ==
    \/ r.pc \in {"kill", "manage"}
    \/ r.mode = "kill" /\ r.pc \in {"cancels", "targets", "intent", "submit", "observe"}
    => FoldOk(k)

\* The generation aimed at.
Ready(o, w, k, r) ==
    /\ r.pc \in {"intent", "submit"} => Free(o, w, r.cur[1], r.cur[2])
    /\ FoldOk(k) =>
         /\ \/ r.pc = "intent"
            \/ r.pc = "submit" /\ ~r.journaled
            => Behind(o, k, r.cur[1], r.cur[2])
         /\ r.pc \in {"submit", "observe"} /\ r.journaled => k[r.cur].status = "submitted"
    /\ r.pc = "observe" /\ r.answer = "rejected" => ~Fillable(o, w, r.cur)

Sound(o, w, k, r) == Aims(r) /\ Knows(k, r) /\ Sees(o, w, r) /\ Steady(k, r) /\ Ready(o, w, k, r)

Fields == {"pc", "mode", "journalFailure", "journaled", "book", "closes", "todo", "cur",
           "exposure", "plan", "answer", "sawHalt"}
BrokerTyped(o, w) ==
    /\ DOMAIN o = Attempts /\ DOMAIN w = Attempts
    /\ \A a \in Attempts :
          /\ DOMAIN o[a] = {"status", "quantity", "filled", "legs"}
          /\ o[a] # NoOrder => o[a].status \in {"working"} \cup TerminalCloseStatus
          /\ w[a] # NoRequest => o[a] = NoOrder
FoldTyped(k) ==
    /\ DOMAIN k = Attempts
    /\ \A a \in Attempts : DOMAIN k[a] = {"status", "quantity", "filled"}
RunTyped(x) == DOMAIN x = Processes /\ \A p \in Processes : DOMAIN x[p] = Fields

OneChild(o, w) ==
    \A s \in Subjects : \A g, h \in Generations :
        Fillable(o, w, <<s, g>>) /\ Fillable(o, w, <<s, h>>) => g = h

FoldCovers(o, w, k) == FoldOk(k) => \A s \in Subjects : Covers(o, w, k, s)

KInv ==
    /\ BrokerTyped(order, onTheWay)
    /\ FoldTyped(rec)
    /\ RunTyped(run)
    /\ writer \in Processes
    /\ OneChild(order, onTheWay)
    /\ FoldCovers(order, onTheWay, rec)
    /\ Sound(order, onTheWay, rec, run[writer])

-----------------------------------------------------------------------------
(***************************************************************************)
(* Of what the writer knows.                                               *)
(***************************************************************************)
LEMMA AtRest ==
    ASSUME NEW o, NEW w, NEW k, NEW r,
           r.pc \notin {"probe", "kill", "cancels", "manage", "targets"} \cup Aiming
    PROVE  Sound(o, w, k, r)
BY DEF Sound, Aims, Knows, Sees, Steady, Ready, Aiming

LEMMA CalmSound ==
    ASSUME NEW o, NEW w, NEW o2, NEW w2, NEW k, NEW r,
           \A s \in Subjects : Calm(o, w, o2, w2, s), Sound(o, w, k, r)
    PROVE  Sound(o2, w2, k, r)
<1>1. \A f : \A s \in Subjects : Agree(f, f, s)
  BY DEF Agree
<1>2. \A f : \A s \in Subjects :
         /\ Covers(o, w, f, s) => Covers(o2, w2, f, s)
         /\ \A n \in Generations : Free(o, w, s, n) => Free(o2, w2, s, n)
         /\ \A n \in Generations : Behind(o, f, s, n) => Behind(o2, f, s, n)
  BY <1>1, CalmKeeps
<1>3. Sees(o2, w2, r)
  BY <1>2 DEF Sound, Sees
<1>4. Ready(o2, w2, k, r)
  <2>1. CASE r.pc \in Aiming
    <3>1. PICK s \in Subjects, n \in Generations : r.cur = <<s, n>>
      BY <2>1 DEF Sound, Aims
    <3>2. r.cur[1] = s /\ r.cur[2] = n
      BY <3>1
    <3>3. Fillable(o2, w2, r.cur) => Fillable(o, w, r.cur)
      BY <3>1 DEF Calm
    <3>. QED
      BY <1>2, <3>2, <3>3 DEF Sound, Ready
  <2>2. CASE r.pc \notin Aiming
    BY <2>2 DEF Ready, Aiming
  <2>. QED
    BY <2>1, <2>2
<1>. QED
  BY <1>3, <1>4 DEF Sound

\* Steps of the broker, or cancels, that change nothing in the journal.
LEMMA CalmMove ==
    ASSUME KInv, UNCHANGED <<rec, writer>>, BrokerTyped(order', onTheWay'), RunTyped(run'),
           \A s \in Subjects : Calm(order, onTheWay, order', onTheWay', s),
           Sound(order', onTheWay', rec, run'[writer])
    PROVE  KInv'
<1>1. OneChild(order', onTheWay')
  BY DEF KInv, OneChild, Calm
<1>2. FoldCovers(order', onTheWay', rec)
  <2>1. \A s \in Subjects : Agree(rec, rec, s)
    BY DEF Agree
  <2>. QED
    BY <2>1, CalmKeeps DEF KInv, FoldCovers
<1>. QED
  BY <1>1, <1>2 DEF KInv

LEMMA CalmStep ==
    ASSUME KInv, UNCHANGED <<rec, writer, run>>, BrokerTyped(order', onTheWay'),
           \A s \in Subjects : Calm(order, onTheWay, order', onTheWay', s)
    PROVE  KInv'
<1>1. Sound(order', onTheWay', rec, run[writer]) /\ RunTyped(run')
  BY CalmSound DEF KInv
<1>. QED
  BY <1>1, CalmMove

LEMMA NoOrderIsNone == NoOrder.status = "none"
BY DEF NoOrder

LEMMA FillKeeps ==
    ASSUME KInv, NEW a \in Attempts, Fill(a)
    PROVE  KInv'
<1>1. /\ order[a].status = "working" /\ order[a] # NoOrder
      /\ DOMAIN order = Attempts /\ DOMAIN order[a] = {"status", "quantity", "filled", "legs"}
  BY NoOrderIsNone DEF KInv, BrokerTyped, Fill, Working
<1>2. /\ order'[a].status \in {"working", "filled"}
      /\ DOMAIN order'[a] = DOMAIN order[a] /\ DOMAIN order' = Attempts
      /\ \A b \in Attempts \ {a} : order'[b] = order[b]
  <2>1. PICK n : order' = [order EXCEPT ![a].filled = @ + n,
                             ![a].status = IF order[a].filled + n = order[a].quantity
                                           THEN "filled" ELSE "working"]
    BY DEF Fill
  <2>. QED
    BY <1>1, <2>1
<1>3. UNCHANGED <<onTheWay, rec, writer, run>>
  BY DEF Fill
<1>4. order'[a] # NoOrder
  BY <1>2, NoOrderIsNone
<1>5. BrokerTyped(order', onTheWay')
  BY <1>1, <1>2, <1>3, <1>4 DEF KInv, BrokerTyped, TerminalCloseStatus
<1>6. \A s \in Subjects : Calm(order, onTheWay, order', onTheWay', s)
  BY <1>1, <1>2, <1>3, <1>4 DEF Calm, Fillable, Over, TerminalCloseStatus, Attempts
<1>. QED
  BY <1>3, <1>5, <1>6, CalmStep

LEMMA ArriveKeeps ==
    ASSUME KInv, NEW a \in Attempts, Arrive(a)
    PROVE  KInv'
<1>1. order[a] = NoOrder /\ onTheWay[a] # NoRequest /\ DOMAIN order = Attempts /\ DOMAIN onTheWay = Attempts
  BY DEF KInv, BrokerTyped, Arrive
<1>2. \/ order' = order
      \/ /\ order'[a].status \in {"working", "rejected"}
         /\ DOMAIN order'[a] = {"status", "quantity", "filled", "legs"} /\ DOMAIN order' = Attempts
         /\ \A b \in Attempts \ {a} : order'[b] = order[b]
  <2>1. CASE \E status \in {"working", "rejected"} :
               order' = [order EXCEPT ![a] = [status |-> status, quantity |-> onTheWay[a].quantity,
                                              filled |-> 0, legs |-> onTheWay[a].legs]]
    BY <1>1, <2>1
  <2>. QED
    BY <2>1 DEF Arrive
<1>3. /\ UNCHANGED <<rec, writer, run>>
      /\ onTheWay'[a] = NoRequest /\ DOMAIN onTheWay' = Attempts
      /\ \A b \in Attempts \ {a} : onTheWay'[b] = onTheWay[b]
  BY <1>1 DEF Arrive
<1>4. order'[a] # NoOrder \/ order' = order
  BY <1>2, NoOrderIsNone
<1>5. BrokerTyped(order', onTheWay')
  BY <1>1, <1>2, <1>3, <1>4 DEF KInv, BrokerTyped, TerminalCloseStatus
<1>6. \A s \in Subjects : Calm(order, onTheWay, order', onTheWay', s)
  BY <1>1, <1>2, <1>3, <1>4, NoOrderIsNone DEF Calm, Fillable, Over, TerminalCloseStatus, Attempts
<1>. QED
  BY <1>3, <1>5, <1>6, CalmStep

\* A working order that is canceled, or one that has expired.
LEMMA CancelsAreCalm ==
    ASSUME KInv, UNCHANGED onTheWay, DOMAIN order' = Attempts,
           \A a \in Attempts :
              \/ order'[a] = order[a]
              \/ order[a].status = "working" /\ order'[a] = [order[a] EXCEPT !.status = "canceled"]
    PROVE  /\ BrokerTyped(order', onTheWay')
           /\ \A s \in Subjects : Calm(order, onTheWay, order', onTheWay', s)
<1>1. \A a \in Attempts :
         \/ order'[a] = order[a]
         \/ /\ order[a].status = "working" /\ order'[a].status = "canceled"
            /\ DOMAIN order'[a] = DOMAIN order[a] /\ order'[a] # NoOrder /\ order[a] # NoOrder
  <2>. TAKE a \in Attempts
  <2>1. DOMAIN order[a] = {"status", "quantity", "filled", "legs"}
    BY DEF KInv, BrokerTyped
  <2>. QED
    BY <2>1, NoOrderIsNone
<1>2. BrokerTyped(order', onTheWay')
  BY <1>1 DEF KInv, BrokerTyped, TerminalCloseStatus
<1>3. \A s \in Subjects : Calm(order, onTheWay, order', onTheWay', s)
  BY <1>1 DEF Calm, Fillable, Over, TerminalCloseStatus, Attempts
<1>. QED
  BY <1>2, <1>3

LEMMA ExpireKeeps ==
    ASSUME KInv, NEW a \in Attempts, Expire(a)
    PROVE  KInv'
<1>1. /\ UNCHANGED <<onTheWay, rec, writer, run>>
      /\ order[a].status = "working" /\ order' = [order EXCEPT ![a].status = "canceled"]
  BY DEF Expire, Working
<1>2. DOMAIN order = Attempts
  BY DEF KInv, BrokerTyped
<1>3. DOMAIN order' = Attempts
  BY <1>1, <1>2
<1>4. \A b \in Attempts : order'[b] = IF b = a THEN [order[a] EXCEPT !.status = "canceled"] ELSE order[b]
  BY <1>1, <1>2
<1>. QED
  BY <1>1, <1>3, <1>4, CancelsAreCalm, CalmStep

-----------------------------------------------------------------------------
(***************************************************************************)
(* Steps that leave the broker and the journal alone.                      *)
(***************************************************************************)
LEMMA RunKeeps ==
    ASSUME KInv, UNCHANGED <<order, onTheWay, rec>>, RunTyped(run'), writer' \in Processes,
           Sound(order, onTheWay, rec, run'[writer'])
    PROVE  KInv'
BY DEF KInv

Resting == {"idle", "acquire", "halt", "book", "reread", "done"}

LEMMA RestKeeps ==
    ASSUME KInv, UNCHANGED <<order, onTheWay, rec>>, RunTyped(run'), writer' \in Processes,
           \/ run'[writer'].pc \in Resting
           \/ writer' = writer /\ run'[writer'] = run[writer]
    PROVE  KInv'
<1>1. Sound(order, onTheWay, rec, run'[writer'])
  <2>1. CASE run'[writer'].pc \in Resting
    BY <2>1, AtRest DEF Resting, Aiming
  <2>2. CASE writer' = writer /\ run'[writer'] = run[writer]
    BY <2>2 DEF KInv
  <2>. QED
    BY <2>1, <2>2
<1>. QED
  BY <1>1, RunKeeps

\* An invocation that ends, crashes, is fenced or was refused.
LEMMA EndsKeep ==
    ASSUME KInv, NEW p \in Processes, Ends(p) \/ Crash(p) \/ Fenced(p) \/ (p = "watchdog" /\ AuthorityRefused)
    PROVE  KInv'
<1>1. UNCHANGED <<order, onTheWay, rec, writer>> /\ Goto(p, Idle)
  BY DEF Ends, Crash, Fenced, AuthorityRefused, broker
<1>2. RunTyped(run') /\ run'[p].pc = "idle" /\ \A q \in Processes \ {p} : run'[q] = run[q]
  BY <1>1 DEF Goto, With, Idle, Fields, KInv, RunTyped
<1>3. run'[writer].pc \in Resting \/ run'[writer] = run[writer]
  BY <1>2 DEF KInv, Resting
<1>4. writer' \in Processes
  BY <1>1 DEF KInv
<1>. QED
  BY <1>1, <1>2, <1>3, <1>4, RestKeeps

LEMMA ManualUnhaltKeeps ==
    ASSUME KInv, ManualUnhalt
    PROVE  KInv'
<1>1. UNCHANGED <<order, onTheWay, rec, writer, run>>
  BY DEF ManualUnhalt, broker
<1>. QED
  BY <1>1 DEF KInv

LEMMA EpochKeeps ==
    ASSUME KInv, RunnerAcquires \/ acquireAuthority \/ ObserveStale
    PROVE  KInv'
<1>1. CASE RunnerAcquires
  <2>1. UNCHANGED <<order, onTheWay, rec, run>> /\ writer' = "runner" /\ run'[writer'].pc \in Resting
    BY <1>1 DEF RunnerAcquires, broker, Resting
  <2>2. RunTyped(run') /\ writer' \in Processes
    BY <2>1 DEF KInv, Processes
  <2>. QED
    BY <2>1, <2>2, RestKeeps
<1>2. CASE acquireAuthority
  <2>1. UNCHANGED <<order, onTheWay, rec>> /\ writer' = "watchdog" /\ Goto("watchdog", [pc |-> "halt"])
    BY <1>2 DEF acquireAuthority, broker
  <2>2. RunTyped(run') /\ run'["watchdog"].pc = "halt"
    BY <2>1 DEF Goto, With, Fields, KInv, RunTyped, Processes
  <2>. QED
    BY <2>1, <2>2, RestKeeps DEF Resting, Processes
<1>3. CASE ObserveStale
  <2>1. /\ UNCHANGED <<order, onTheWay, rec, writer>> /\ writer = "runner"
        /\ Goto("watchdog", [pc |-> "acquire", mode |-> "watchdog", sawHalt |-> halted])
    BY <1>3 DEF ObserveStale, broker
  <2>2. RunTyped(run') /\ run'["runner"] = run["runner"]
    BY <2>1 DEF Goto, With, Fields, KInv, RunTyped, Processes
  <2>. QED
    BY <2>1, <2>2, RestKeeps DEF Processes
<1>. QED
  BY <1>1, <1>2, <1>3

LEMMA WatchdogHaltKeeps ==
    ASSUME KInv, WatchdogHalt
    PROVE  KInv'
<1>1. /\ UNCHANGED <<order, onTheWay, rec, writer>> /\ writer = "watchdog"
      /\ Goto("watchdog", [pc |-> "book"])
  BY DEF WatchdogHalt, At, broker
<1>2. RunTyped(run') /\ run'["watchdog"].pc = "book"
  BY <1>1 DEF Goto, With, Fields, KInv, RunTyped, Processes
<1>. QED
  BY <1>1, <1>2, RestKeeps DEF Resting, Processes

LEMMA ProbesDoneKeeps ==
    ASSUME KInv, ProbesDone
    PROVE  KInv'
<1>1. /\ UNCHANGED <<order, onTheWay, rec, writer>> /\ writer = "runner"
      /\ \E todo : Goto("runner", [pc |-> "reread", todo |-> todo])
  BY DEF ProbesDone, At, broker
<1>2. RunTyped(run') /\ run'["runner"].pc = "reread"
  BY <1>1 DEF Goto, With, Fields, KInv, RunTyped, Processes
<1>. QED
  BY <1>1, <1>2, RestKeeps DEF Resting, Processes

LEMMA DoneKeeps ==
    ASSUME KInv, NEW p \in Processes, UNCHANGED <<order, onTheWay, rec, writer>>, writer = p,
           Goto(p, [pc |-> "done"])
    PROVE  KInv'
<1>1. RunTyped(run') /\ run'[p].pc = "done"
  BY DEF Goto, With, Fields, KInv, RunTyped
<1>. QED
  BY <1>1, RestKeeps DEF Resting

LEMMA StartCycleKeeps ==
    ASSUME KInv, StartCycle
    PROVE  KInv'
<1>1. /\ UNCHANGED <<order, onTheWay, rec, writer>> /\ writer = "runner"
      /\ Goto("runner", [pc |-> "probe", closes |-> rec, todo |-> Structures])
  BY DEF StartCycle, broker
<1>2. RunTyped(run') /\ run'["runner"].pc = "probe" /\ run'["runner"].closes = rec
  BY <1>1 DEF Goto, With, Fields, KInv, RunTyped, Processes
<1>3. Sound(order, onTheWay, rec, run'["runner"])
  BY <1>2 DEF Sound, Aims, Knows, Sees, Steady, Ready, Aiming, Agree
<1>. QED
  BY <1>1, <1>2, <1>3, RunKeeps DEF Processes

LEMMA TakeBookKeeps ==
    ASSUME KInv, TakeBook
    PROVE  KInv'
<1>1. UNCHANGED <<order, onTheWay, rec, writer>> /\ writer = "runner" /\ "runner" \in Processes
  BY DEF TakeBook, At, broker, Processes
<1>2. CASE Goto("runner", [pc |-> "done"])
  BY <1>1, <1>2, DoneKeeps
<1>3. ASSUME foldOk, NEW pc \in {"kill", "done", "manage"},
             Goto("runner", [book |-> held, closes |-> rec, pc |-> pc])
      PROVE  KInv'
  <2>1. RunTyped(run') /\ run'["runner"].pc = pc /\ run'["runner"].closes = rec
    BY <1>1, <1>3 DEF Goto, With, Fields, KInv, RunTyped
  <2>2. Sound(order, onTheWay, rec, run'["runner"])
    BY <1>3, <2>1 DEF Sound, Aims, Knows, Sees, Steady, Ready, Aiming, Agree, foldOk, FoldOk
  <2>. QED
    BY <1>1, <2>1, <2>2, RunKeeps
<1>. QED
  BY <1>2, <1>3 DEF TakeBook

LEMMA WatchdogBookKeeps ==
    ASSUME KInv, WatchdogBook
    PROVE  KInv'
<1>1. UNCHANGED <<order, onTheWay, rec, writer>> /\ writer = "watchdog" /\ "watchdog" \in Processes
  BY DEF WatchdogBook, At, broker, Processes
<1>2. CASE Goto("watchdog", [pc |-> "done"])
  BY <1>1, <1>2, DoneKeeps
<1>3. CASE /\ foldOk
           /\ Goto("watchdog", [pc |-> "targets", book |-> held, closes |-> rec, todo |-> Targets(held)])
  <2>1. RunTyped(run') /\ run'["watchdog"].pc = "targets" /\ run'["watchdog"].closes = rec
    BY <1>1, <1>3 DEF Goto, With, Fields, KInv, RunTyped
  <2>2. FoldOk(rec) /\ \A s \in Subjects : Covers(order, onTheWay, rec, s)
    BY <1>3 DEF foldOk, FoldOk, KInv, FoldCovers
  <2>3. Sound(order, onTheWay, rec, run'["watchdog"])
    BY <2>1, <2>2 DEF Sound, Aims, Knows, Sees, Steady, Ready, Aiming, Agree
  <2>. QED
    BY <1>1, <2>1, <2>3, RunKeeps
<1>. QED
  BY <1>2, <1>3 DEF WatchdogBook

LEMMA KillHaltKeeps ==
    ASSUME KInv, KillHalt
    PROVE  KInv'
<1>1. /\ UNCHANGED <<order, onTheWay, rec, writer>> /\ writer = "runner" /\ "runner" \in Processes
      /\ run["runner"].pc = "kill" /\ DOMAIN run = Processes /\ DOMAIN run["runner"] = Fields
  BY DEF KillHalt, At, broker, Processes, KInv, RunTyped
<1>2. /\ RunTyped(run') /\ run'["runner"].pc = "cancels" /\ run'["runner"].mode = "kill"
      /\ run'["runner"].closes = run["runner"].closes
  BY <1>1 DEF KillHalt, Goto, With, Fields, KInv, RunTyped
<1>3. Sound(order, onTheWay, rec, run["runner"])
  BY <1>1 DEF KInv
<1>4. Sound(order, onTheWay, rec, run'["runner"])
  BY <1>1, <1>2, <1>3 DEF Sound, Aims, Knows, Sees, Steady, Ready, Aiming
<1>. QED
  BY <1>1, <1>2, <1>4, RunKeeps

LEMMA ManageKeeps ==
    ASSUME KInv, NEW pc \in {"targets", "cancels"}, NEW todo, Manage(pc, todo)
    PROVE  KInv'
<1>1. /\ UNCHANGED <<order, onTheWay, rec, writer>> /\ writer = "runner" /\ "runner" \in Processes
      /\ run["runner"].pc = "manage" /\ DOMAIN run = Processes /\ DOMAIN run["runner"] = Fields
  BY DEF Manage, At, broker, Processes, KInv, RunTyped
<1>2. FoldOk(rec) /\ \A s \in Subjects : Covers(order, onTheWay, rec, s)
  BY <1>1 DEF KInv, Sound, Steady, FoldCovers
<1>3. Fold(run["runner"].closes) = rec
  BY <1>2 DEF Fold, foldOk, FoldOk
<1>4. /\ RunTyped(run') /\ run'["runner"].pc = pc /\ run'["runner"].mode = "ladder"
      /\ run'["runner"].closes = rec
  BY <1>1, <1>3 DEF Manage, Goto, With, Fields, KInv, RunTyped
<1>5. Sound(order, onTheWay, rec, run'["runner"])
  BY <1>2, <1>4 DEF Sound, Aims, Knows, Sees, Steady, Ready, Aiming
<1>. QED
  BY <1>1, <1>4, <1>5, RunKeeps

LEMMA ManagementKeeps ==
    ASSUME KInv, ManageExpiries \/ ManageFlatten \/ ManagementBookUnreadable
    PROVE  KInv'
<1>1. CASE ManageExpiries
  <2>1. PICK todo : Manage("targets", todo)
    BY <1>1 DEF ManageExpiries
  <2>. QED
    BY <2>1, ManageKeeps
<1>2. CASE ManageFlatten
  <2>1. PICK todo : Manage("cancels", todo)
    BY <1>2 DEF ManageFlatten
  <2>. QED
    BY <2>1, ManageKeeps
<1>3. CASE ManagementBookUnreadable
  <2>1. /\ UNCHANGED <<order, onTheWay, rec, writer>> /\ writer = "runner" /\ "runner" \in Processes
        /\ Goto("runner", [pc |-> "done"])
    BY <1>3 DEF ManagementBookUnreadable, At, broker, Processes
  <2>. QED
    BY <2>1, DoneKeeps
<1>. QED
  BY <1>1, <1>2, <1>3

LEMMA TargetsDoneKeeps ==
    ASSUME KInv, NEW p \in Processes, TargetsDone(p)
    PROVE  KInv'
<1>1. /\ UNCHANGED <<order, onTheWay, rec, writer>> /\ writer = p
      /\ run[p].pc = "targets" /\ Sound(order, onTheWay, rec, run[p])
  BY DEF TargetsDone, At, broker, KInv
<1>2. /\ RunTyped(run') /\ run'[p].pc \in {"manage", "done"}
      /\ run'[p].pc = "manage" => run[p].mode = "kill"
  BY <1>1 DEF TargetsDone, Goto, With, Fields, KInv, RunTyped
<1>3. Sound(order, onTheWay, rec, run'[p])
  BY <1>1, <1>2 DEF Sound, Aims, Knows, Sees, Steady, Ready, Aiming
<1>. QED
  BY <1>1, <1>2, <1>3, RunKeeps

\* The target is done with, whatever became of the line.
LEMMA NextTargetSound ==
    ASSUME NEW o, NEW w, NEW k, NEW r, NEW r2, r.pc \in Aiming,
           Aims(r), Knows(k, r), Sees(o, w, r), Steady(k, r),
           r2.pc = "targets", r2.mode = r.mode, r2.closes = r.closes,
           r2.todo = r.todo \ {r.cur[1]}
    PROVE  Sound(o, w, k, r2)
<1>1. r.mode = "kill" => FoldOk(k)
  BY DEF Aims, Steady, Aiming
<1>2. \A s \in Subjects : s \in r2.todo =>
         Covers(o, w, r.closes, s) /\ (r.mode # "ladder" => Agree(r.closes, k, s))
  BY DEF Aims, Knows, Sees, Aiming
<1>. QED
  BY <1>1, <1>2 DEF Sound, Aims, Knows, Sees, Steady, Ready, Aiming

LEMMA NextTargetIs ==
    ASSUME RunTyped(run), NEW p \in Processes, NEW failed, NextTarget(p, failed)
    PROVE  /\ RunTyped(run')
           /\ run'[p].pc = "targets" /\ run'[p].mode = run[p].mode
           /\ run'[p].closes = run[p].closes
           /\ run'[p].todo = run[p].todo \ {run[p].cur[1]}
BY DEF NextTarget, Goto, With, Fields, RunTyped

\* What a target's plan is made from covers all targets.
LEMMA KnownCovers ==
    ASSUME KInv, writer \in Processes, run[writer].pc \in {"targets", "replan"},
           NEW f, f = IF run[writer].mode = "ladder" THEN Fold(run[writer].closes) ELSE run[writer].closes,
           NEW s \in Subjects, s \in run[writer].todo
    PROVE  /\ Covers(order, onTheWay, f, s)
           /\ run[writer].mode # "ladder" => Agree(f, rec, s)
           /\ FoldOk(rec) => Agree(f, rec, s)
<1>. DEFINE r == run[writer]
<1>1. Sound(order, onTheWay, rec, r) /\ FoldCovers(order, onTheWay, rec)
  BY DEF KInv
<1>2. Covers(order, onTheWay, r.closes, s) /\ (r.mode # "ladder" => Agree(r.closes, rec, s))
  BY <1>1 DEF Sound, Sees, Knows, Aims
<1>3. CASE r.mode = "ladder" /\ FoldOk(rec)
  <2>1. f = rec
    BY <1>3 DEF Fold, foldOk, FoldOk
  <2>. QED
    BY <1>1, <1>3, <2>1 DEF FoldCovers, Agree
<1>4. CASE r.mode = "ladder" /\ ~FoldOk(rec)
  <2>1. f = r.closes
    BY <1>4 DEF Fold, foldOk, FoldOk
  <2>. QED
    BY <1>2, <1>4, <2>1
<1>5. CASE r.mode # "ladder"
  BY <1>2, <1>5
<1>. QED
  BY <1>3, <1>4, <1>5

LEMMA IntentSound ==
    ASSUME NEW o, NEW w, NEW k, NEW r, NEW r2, NEW f, NEW s \in Subjects, NEW n \in Generations,
           r2.pc = "intent", r2.closes = f, r2.cur = <<s, n>>, r2.todo = r.todo, r2.mode = r.mode,
           s \in r.todo,
           \A t \in Subjects : t \in r.todo =>
                Covers(o, w, f, t) /\ (r.mode # "ladder" => Agree(f, k, t)),
           r.mode = "kill" => FoldOk(k),
           Free(o, w, s, n), FoldOk(k) => Behind(o, k, s, n)
    PROVE  Sound(o, w, k, r2)
<1>1. r2.cur[1] = s /\ r2.cur[2] = n
  OBVIOUS
<1>2. Aims(r2)
  BY <1>1 DEF Aims, Aiming
<1>3. Knows(k, r2) /\ Sees(o, w, r2)
  BY DEF Knows, Sees
<1>4. Steady(k, r2) /\ Ready(o, w, k, r2)
  BY <1>1 DEF Steady, Ready
<1>. QED
  BY <1>2, <1>3, <1>4 DEF Sound

\* The generation a plan of the writer's aims at.
LEMMA PlannedByWriter ==
    ASSUME KInv, writer \in Processes, run[writer].pc \in {"targets", "replan"},
           NEW f, f = IF run[writer].mode = "ladder" THEN Fold(run[writer].closes) ELSE run[writer].closes,
           NEW s \in Subjects, s \in run[writer].todo,
           NEW records, \A g \in Generations : records[g] \in {order[<<s, g>>], NoOrder},
           NEW exposure, NEW n \in Generations,
           planCloseLifecycle(exposure, closeLifecycleSnapshot(f, s, records)).kind = "SUBMIT",
           n = planCloseLifecycle(exposure, closeLifecycleSnapshot(f, s, records)).generation
    PROVE  Free(order, onTheWay, s, n) /\ (FoldOk(rec) => Behind(order, rec, s, n))
<1>1. Covers(order, onTheWay, f, s) /\ (FoldOk(rec) => Agree(f, rec, s))
  BY KnownCovers
<1>2. \A g \in Generations :
         /\ onTheWay[<<s, g>>] # NoRequest => order[<<s, g>>] = NoOrder
         /\ order[<<s, g>>] # NoOrder => order[<<s, g>>].status \in {"working"} \cup TerminalCloseStatus
  BY DEF KInv, BrokerTyped, Attempts
<1>3. Free(order, onTheWay, s, n) /\ Behind(order, f, s, n)
  BY <1>1, <1>2, PlannedIsFree
<1>4. ASSUME FoldOk(rec) PROVE Behind(order, rec, s, n)
  <2>1. nextJournaled(f, s) = nextJournaled(rec, s)
    BY <1>1, <1>4, AgreeingFolds
  <2>. QED
    BY <1>3, <2>1 DEF Behind
<1>. QED
  BY <1>3, <1>4

LEMMA PlanTargetKeeps ==
    ASSUME KInv, NEW p \in Processes, NEW s \in Subjects, PlanTarget(p, s)
    PROVE  KInv'
<1>. DEFINE r == run[p]
<1>. DEFINE f == IF r.mode = "ladder" THEN Fold(r.closes) ELSE r.closes
<1>. DEFINE exposure == exposureOf(s, r.book)
<1>. DEFINE plan(records) == planCloseLifecycle(exposure, closeLifecycleSnapshot(f, s, records))
<1>1. /\ UNCHANGED <<order, onTheWay, rec, writer>> /\ writer = p /\ r.pc = "targets"
      /\ s \in r.todo /\ RunTyped(run)
  BY DEF PlanTarget, At, broker, SubjectsFirst, KInv
<1>2. \A t \in Subjects : t \in r.todo =>
         Covers(order, onTheWay, f, t) /\ (r.mode # "ladder" => Agree(f, rec, t))
  BY <1>1, KnownCovers
<1>3. r.mode = "kill" => FoldOk(rec)
  BY <1>1 DEF KInv, Sound, Steady
<1>4. CASE Goto(p, [pc |-> "done"])
  BY <1>1, <1>4, DoneKeeps
<1>5. ASSUME NEW records, \A g \in Generations : records[g] \in {order[<<s, g>>], NoOrder},
             plan(records).kind = "SUBMIT", plan(records).generation \in Generations,
             Goto(p, [pc |-> "intent", closes |-> f, exposure |-> exposure,
                      cur |-> <<s, plan(records).generation>>, plan |-> plan(records).quantity])
      PROVE  KInv'
  <2>. DEFINE n == plan(records).generation
  <2>1. Free(order, onTheWay, s, n) /\ (FoldOk(rec) => Behind(order, rec, s, n))
    BY <1>1, <1>5, PlannedByWriter
  <2>2. /\ RunTyped(run') /\ run'[p].pc = "intent" /\ run'[p].closes = f /\ run'[p].cur = <<s, n>>
        /\ run'[p].todo = r.todo /\ run'[p].mode = r.mode
    <3>. HIDE DEF f, plan, exposure
    <3>. QED
      BY <1>1, <1>5 DEF Goto, With, Fields, RunTyped
  <2>3. Sound(order, onTheWay, rec, run'[p])
    <3>1. n \in Generations
      BY <1>5
    <3>. HIDE DEF f, n, plan
    <3>. QED
      BY <1>1, <1>2, <1>3, <2>1, <2>2, <3>1, IntentSound
  <2>. QED
    BY <1>1, <2>2, <2>3, RunKeeps
<1>6. ASSUME NEW records, plan(records).kind = "ADOPT", r.mode = "ladder",
             Goto(p, [pc |-> "cancel", closes |-> f, exposure |-> exposure,
                      cur |-> <<s, plan(records).generation>>, plan |-> 0])
      PROVE  KInv'
  <2>. DEFINE n == plan(records).generation
  <2>1. n \in Generations
    BY <1>6, AdoptedIsAnAttempt
  <2>2. /\ RunTyped(run') /\ run'[p].pc = "cancel" /\ run'[p].closes = f /\ run'[p].cur = <<s, n>>
        /\ run'[p].todo = r.todo /\ run'[p].mode = r.mode
    <3>. HIDE DEF f, plan, exposure
    <3>. QED
      BY <1>1, <1>6 DEF Goto, With, Fields, RunTyped
  <2>3. run'[p].cur[1] = s
    BY <2>2
  <2>4. Sound(order, onTheWay, rec, run'[p])
    <3>. HIDE DEF f, n, plan
    <3>1. Aims(run'[p])
      BY <1>1, <1>6, <2>1, <2>2, <2>3 DEF Aims
    <3>2. Knows(rec, run'[p]) /\ Sees(order, onTheWay, run'[p])
      BY <1>2, <1>6, <2>2 DEF Knows, Sees
    <3>3. Steady(rec, run'[p]) /\ Ready(order, onTheWay, rec, run'[p])
      BY <1>6, <2>2 DEF Steady, Ready
    <3>. QED
      BY <3>1, <3>2, <3>3 DEF Sound
  <2>. QED
    BY <1>1, <2>2, <2>4, RunKeeps
<1>7. CASE Goto(p, [todo |-> r.todo \ {s}])
  <2>1. /\ RunTyped(run') /\ run'[p].pc = "targets" /\ run'[p].closes = r.closes
        /\ run'[p].todo = r.todo \ {s} /\ run'[p].mode = r.mode
    BY <1>1, <1>7 DEF Goto, With, Fields, RunTyped
  <2>2. Sound(order, onTheWay, rec, r)
    BY <1>1 DEF KInv
  <2>3. Sound(order, onTheWay, rec, run'[p])
    <3>. HIDE DEF r
    <3>1. Aims(run'[p]) /\ Steady(rec, run'[p]) /\ Ready(order, onTheWay, rec, run'[p])
      BY <1>1, <1>3, <2>1 DEF Aims, Steady, Ready, Aiming
    <3>2. Knows(rec, run'[p]) /\ Sees(order, onTheWay, run'[p])
      BY <1>1, <2>1, <2>2 DEF Sound, Knows, Sees
    <3>. QED
      BY <3>1, <3>2 DEF Sound
  <2>. QED
    BY <1>1, <2>1, <2>3, RunKeeps
<1>8. CASE ~Goto(p, [pc |-> "done"])
  <2>1. PICK records :
           /\ \A g \in Generations : records[g] \in IF p = "watchdog" THEN {order[<<s, g>>]}
                                                    ELSE Lookup(<<s, g>>)
           /\ CASE plan(records).kind = "SUBMIT" /\ plan(records).generation \in Generations ->
                     Goto(p, [pc |-> "intent", closes |-> f, exposure |-> exposure,
                              cur |-> <<s, plan(records).generation>>, plan |-> plan(records).quantity])
                [] plan(records).kind = "ADOPT" /\ r.mode = "ladder"
                      /\ plan(records).generation < MaxGeneration ->
                     Goto(p, [pc |-> "cancel", closes |-> f, exposure |-> exposure,
                              cur |-> <<s, plan(records).generation>>, plan |-> 0])
                [] OTHER -> Goto(p, [todo |-> r.todo \ {s}])
    BY <1>8 DEF PlanTarget
  <2>2. \A g \in Generations : records[g] \in {order[<<s, g>>], NoOrder}
    BY <2>1 DEF Lookup
  <2>. HIDE DEF plan, f, exposure
  <2>. QED
    BY <1>5, <1>6, <1>7, <2>1, <2>2
<1>. QED
  BY <1>4, <1>8

LEMMA PlanAgainKeeps ==
    ASSUME KInv, PlanAgain
    PROVE  KInv'
<1>. DEFINE r == run["runner"]
<1>. DEFINE f == Fold(r.closes)
<1>. DEFINE plan(s, records) == planCloseLifecycle(r.exposure, closeLifecycleSnapshot(f, s, records))
<1>1. /\ UNCHANGED <<order, onTheWay, rec, writer>> /\ writer = "runner" /\ "runner" \in Processes
      /\ r.pc = "replan" /\ RunTyped(run) /\ Sound(order, onTheWay, rec, r)
  BY DEF PlanAgain, At, broker, Processes, KInv
<1>2. r.mode = "ladder" /\ r.cur[1] \in r.todo
  BY <1>1 DEF Sound, Aims, Aiming
<1>3. PICK s \in Subjects : s = r.cur[1]
  <2>1. PICK t \in Subjects, g \in Generations : r.cur = <<t, g>>
    BY <1>1 DEF Sound, Aims, Aiming
  <2>. QED
    BY <2>1
<1>4. \A t \in Subjects : t \in r.todo => Covers(order, onTheWay, f, t)
  BY <1>1, <1>2, KnownCovers
<1>5. CASE NextTarget("runner", FALSE)
  <2>1. /\ RunTyped(run')
        /\ run'["runner"].pc = "targets" /\ run'["runner"].mode = r.mode
        /\ run'["runner"].closes = r.closes /\ run'["runner"].todo = r.todo \ {r.cur[1]}
    BY <1>1, <1>5, NextTargetIs
  <2>2. Sound(order, onTheWay, rec, run'["runner"])
    BY <1>1, <2>1, NextTargetSound DEF Sound, Aiming
  <2>. QED
    BY <1>1, <2>1, <2>2, RunKeeps
<1>6. ASSUME NEW records, \A g \in Generations : records[g] \in {order[<<s, g>>], NoOrder},
             plan(s, records).kind = "SUBMIT", plan(s, records).generation \in Generations,
             Goto("runner", [pc |-> "intent", closes |-> f, plan |-> plan(s, records).quantity,
                             cur |-> <<s, plan(s, records).generation>>])
      PROVE  KInv'
  <2>. DEFINE n == plan(s, records).generation
  <2>1. Free(order, onTheWay, s, n) /\ (FoldOk(rec) => Behind(order, rec, s, n))
    BY <1>1, <1>2, <1>3, <1>6, PlannedByWriter
  <2>2. /\ RunTyped(run') /\ run'["runner"].pc = "intent" /\ run'["runner"].closes = f
        /\ run'["runner"].cur = <<s, n>>
        /\ run'["runner"].todo = r.todo /\ run'["runner"].mode = r.mode
    <3>. HIDE DEF f, plan
    <3>. QED
      BY <1>1, <1>6 DEF Goto, With, Fields, RunTyped
  <2>3. Sound(order, onTheWay, rec, run'["runner"])
    <3>1. n \in Generations
      BY <1>6
    <3>. HIDE DEF f, n, plan
    <3>. QED
      BY <1>1, <1>2, <1>3, <1>4, <2>1, <2>2, <3>1, IntentSound
  <2>. QED
    BY <1>1, <2>2, <2>3, RunKeeps
<1>7. PICK records :
         /\ \A g \in Generations : records[g] \in Lookup(<<s, g>>)
         /\ IF plan(s, records).kind = "SUBMIT" /\ plan(s, records).generation \in Generations
            THEN Goto("runner", [pc |-> "intent", closes |-> f, plan |-> plan(s, records).quantity,
                                 cur |-> <<s, plan(s, records).generation>>])
            ELSE NextTarget("runner", FALSE)
  BY <1>3 DEF PlanAgain
<1>8. \A g \in Generations : records[g] \in {order[<<s, g>>], NoOrder}
  BY <1>7 DEF Lookup
<1>. HIDE DEF plan, f
<1>. QED
  BY <1>5, <1>6, <1>7, <1>8

LEMMA RefuseSubmissionKeeps ==
    ASSUME KInv, NEW p \in Processes, RefuseSubmission(p)
    PROVE  KInv'
<1>1. /\ UNCHANGED <<order, onTheWay, rec, writer>> /\ writer = p /\ run[p].pc = "intent"
      /\ RunTyped(run) /\ NextTarget(p, FALSE) /\ Sound(order, onTheWay, rec, run[p])
  BY DEF RefuseSubmission, At, broker, KInv
<1>2. /\ RunTyped(run')
      /\ run'[p].pc = "targets" /\ run'[p].mode = run[p].mode
      /\ run'[p].closes = run[p].closes /\ run'[p].todo = run[p].todo \ {run[p].cur[1]}
  BY <1>1, NextTargetIs
<1>3. Sound(order, onTheWay, rec, run'[p])
  BY <1>1, <1>2, NextTargetSound DEF Sound, Aiming
<1>. QED
  BY <1>1, <1>2, <1>3, RunKeeps

-----------------------------------------------------------------------------
(***************************************************************************)
(* Cancels.                                                                *)
(***************************************************************************)
LEMMA CancelRestingKeeps ==
    ASSUME KInv, CancelResting
    PROVE  KInv'
<1>. DEFINE a == run["runner"].cur
<1>1. /\ UNCHANGED <<onTheWay, rec, writer>> /\ writer = "runner" /\ "runner" \in Processes
      /\ run["runner"].pc = "cancel" /\ RunTyped(run) /\ Goto("runner", [pc |-> "canceled"])
      /\ order' = IF order[a].status = "working" THEN [order EXCEPT ![a].status = "canceled"] ELSE order
      /\ DOMAIN order = Attempts
  BY DEF CancelResting, At, Processes, KInv, BrokerTyped, Working
<1>2. a \in Attempts
  BY <1>1 DEF KInv, Sound, Aims, Aiming, Attempts
<1>3. /\ DOMAIN order' = Attempts
      /\ \A b \in Attempts :
            \/ order'[b] = order[b]
            \/ order[b].status = "working" /\ order'[b] = [order[b] EXCEPT !.status = "canceled"]
  BY <1>1, <1>2
<1>4. /\ BrokerTyped(order', onTheWay')
      /\ \A s \in Subjects : Calm(order, onTheWay, order', onTheWay', s)
  BY <1>1, <1>3, CancelsAreCalm
<1>5. Sound(order', onTheWay', rec, run["runner"])
  BY <1>1, <1>4, CalmSound DEF KInv
<1>6. /\ RunTyped(run') /\ run'["runner"].pc = "canceled"
      /\ \A x \in {"mode", "closes", "todo", "cur"} : run'["runner"][x] = run["runner"][x]
  BY <1>1 DEF Goto, With, Fields, RunTyped
<1>7. Sound(order', onTheWay', rec, run'["runner"])
  BY <1>1, <1>5, <1>6 DEF Sound, Aims, Knows, Sees, Steady, Ready, Aiming
<1>. QED
  BY <1>1, <1>4, <1>6, <1>7, CalmMove

LEMMA CancelRiskIncreasingKeeps ==
    ASSUME KInv, CancelRiskIncreasing
    PROVE  KInv'
<1>. DEFINE r == run["runner"]
<1>. DEFINE r2 == run'["runner"]
<1>1. /\ UNCHANGED <<onTheWay, rec, writer>> /\ writer = "runner" /\ "runner" \in Processes
      /\ r.pc = "cancels" /\ RunTyped(run) /\ Sound(order, onTheWay, rec, r)
  BY DEF CancelRiskIncreasing, At, Processes, KInv
<1>2. /\ BrokerTyped(order', onTheWay')
      /\ \A s \in Subjects : Calm(order, onTheWay, order', onTheWay', s)
  <2>1. /\ DOMAIN order' = Attempts
        /\ \A b \in Attempts :
              \/ order'[b] = order[b]
              \/ order[b].status = "working" /\ order'[b] = [order[b] EXCEPT !.status = "canceled"]
    BY DEF CancelRiskIncreasing, Working
  <2>. QED
    BY <1>1, <2>1, CancelsAreCalm
<1>3. CASE r.mode = "ladder"
  <2>1. /\ RunTyped(run') /\ r2.pc = "targets" /\ r2.mode = "ladder" /\ r2.closes = r.closes
    BY <1>1, <1>3 DEF CancelRiskIncreasing, Goto, With, Fields, RunTyped
  <2>2. \A s \in Subjects : Covers(order', onTheWay', r.closes, s)
    <3>1. \A s \in Subjects : Agree(r.closes, r.closes, s) /\ Covers(order, onTheWay, r.closes, s)
      BY <1>1, <1>3 DEF Agree, Sound, Sees
    <3>. HIDE DEF r
    <3>. QED
      BY <1>2, <3>1, CalmKeeps
  <2>3. Sound(order', onTheWay', rec, r2)
    BY <2>1, <2>2 DEF Sound, Aims, Knows, Sees, Steady, Ready, Aiming
  <2>. QED
    BY <1>1, <1>2, <2>1, <2>3, CalmMove
<1>4. CASE r.mode # "ladder"
  <2>1. r.mode = "kill" /\ FoldOk(rec)
    BY <1>1, <1>4 DEF Sound, Aims, Steady
  <2>2. \A s \in Subjects : Agree(r.closes, rec, s)
    BY <1>1, <2>1 DEF Sound, Knows
  <2>3. Fold(r.closes) = rec
    BY <2>1 DEF Fold, foldOk, FoldOk
  <2>4. /\ RunTyped(run') /\ r2.pc = "targets" /\ r2.mode = "kill"
        /\ r2.closes \in {r.closes, rec}
    <3>1. PICK book :
             Goto("runner", [pc |-> "targets", book |-> book, todo |-> Targets(book),
                             closes |-> IF r.journaled THEN rec ELSE r.closes])
      BY <1>4, <2>3 DEF CancelRiskIncreasing
    <3>. QED
      BY <1>1, <2>1, <3>1 DEF Goto, With, Fields, RunTyped
  <2>5. \A s \in Subjects : Agree(r2.closes, rec, s) /\ Agree(rec, r2.closes, s)
    BY <2>2, <2>4 DEF Agree
  <2>6. \A s \in Subjects : Covers(order', onTheWay', r2.closes, s)
    <3>1. \A s \in Subjects : Covers(order, onTheWay, rec, s)
      BY <2>1 DEF KInv, FoldCovers
    <3>. HIDE DEF r2
    <3>. QED
      BY <1>2, <2>5, <3>1, CalmKeeps
  <2>7. Sound(order', onTheWay', rec, r2)
    BY <2>1, <2>4, <2>5, <2>6 DEF Sound, Aims, Knows, Sees, Steady, Ready, Aiming
  <2>. QED
    BY <1>1, <1>2, <2>4, <2>7, CalmMove
<1>. QED
  BY <1>3, <1>4

-----------------------------------------------------------------------------
(***************************************************************************)
(* The submission.                                                         *)
(***************************************************************************)
\* An order or a request at the broker that has neither under this id.
LEMMA SubmissionKeeps ==
    ASSUME KInv, NEW p \in Processes, writer = p, UNCHANGED <<rec, writer>>,
           NEW s \in Subjects, NEW n \in Generations, run[p].cur = <<s, n>>,
           run[p].pc = "submit", order[<<s, n>>] = NoOrder,
           \A a \in Attempts \ {<<s, n>>} : order'[a] = order[a] /\ onTheWay'[a] = onTheWay[a],
           BrokerTyped(order', onTheWay'), RunTyped(run'),
           run'[p].pc = "observe", run'[p].answer # "rejected",
           \A x \in {"mode", "journaled", "closes", "todo", "cur"} : run'[p][x] = run[p][x]
    PROVE  KInv'
<1>. DEFINE r == run[p]
<1>. DEFINE r2 == run'[p]
<1>1. Sound(order, onTheWay, rec, r) /\ r.cur[1] = s /\ r.cur[2] = n
  BY DEF KInv
<1>2. \A t \in Subjects \ {s} : Calm(order, onTheWay, order', onTheWay', t)
  BY DEF Calm, Fillable, Over, Attempts
<1>3. \A g \in Generations : Fillable(order', onTheWay', <<s, g>>) => g = n
  <2>. SUFFICES ASSUME NEW g \in Generations, Fillable(order', onTheWay', <<s, g>>), g # n
                PROVE  FALSE
    OBVIOUS
  <2>1. <<s, g>> \in Attempts \ {<<s, n>>}
    BY DEF Attempts
  <2>2. Fillable(order, onTheWay, <<s, g>>)
    BY <2>1 DEF Fillable
  <2>. QED
    BY <1>1, <2>2 DEF Sound, Ready, Free
<1>4. OneChild(order', onTheWay')
  <2>. SUFFICES ASSUME NEW t \in Subjects, NEW g \in Generations, NEW h \in Generations,
                       Fillable(order', onTheWay', <<t, g>>), Fillable(order', onTheWay', <<t, h>>)
                PROVE  g = h
    BY DEF OneChild
  <2>1. CASE t = s
    BY <1>3, <2>1
  <2>2. CASE t # s
    BY <1>2, <2>2 DEF KInv, OneChild, Calm
  <2>. QED
    BY <2>1, <2>2
<1>5. FoldCovers(order', onTheWay', rec)
  <2>. SUFFICES ASSUME FoldOk(rec), NEW t \in Subjects
                PROVE  Covers(order', onTheWay', rec, t)
    BY DEF FoldCovers
  <2>1. CASE t = s
    <3>1. rec[<<s, n>>].status \in Pending \/ Behind(order, rec, s, n)
      BY <1>1 DEF Sound, Ready, Pending
    <3>2. \A g \in Generations : Over(order, <<s, g>>) => Over(order', <<s, g>>)
      BY NoOrderIsNone DEF Over, Attempts, TerminalCloseStatus
    <3>. QED
      BY <1>3, <2>1, <3>1, <3>2, SubmissionCovers
  <2>2. CASE t # s
    <3>1. Covers(order, onTheWay, rec, t) /\ Agree(rec, rec, t)
      BY DEF KInv, FoldCovers, Agree
    <3>. QED
      BY <1>2, <2>2, <3>1, CalmKeeps
  <2>. QED
    BY <2>1, <2>2
<1>6. Sound(order', onTheWay', rec, r2)
  <2>1. r2.mode = r.mode /\ r2.journaled = r.journaled /\ r2.closes = r.closes
        /\ r2.todo = r.todo /\ r2.cur = r.cur
    OBVIOUS
  <2>2. Sees(order', onTheWay', r2)
    <3>. SUFFICES ASSUME NEW t \in Subjects, t \in r.todo \ {s}
                  PROVE  Covers(order', onTheWay', r.closes, t)
      BY <1>1, <2>1 DEF Sees
    <3>1. Covers(order, onTheWay, r.closes, t) /\ Agree(r.closes, r.closes, t)
      BY <1>1 DEF Sound, Sees, Agree
    <3>. HIDE DEF r
    <3>. QED
      BY <1>2, <3>1, CalmKeeps
  <2>3. Aims(r2) /\ Knows(rec, r2) /\ Steady(rec, r2)
    BY <1>1, <2>1 DEF Sound, Aims, Knows, Steady, Aiming
  <2>4. Ready(order', onTheWay', rec, r2)
    BY <1>1, <2>1 DEF Sound, Ready
  <2>. QED
    BY <2>2, <2>3, <2>4 DEF Sound
<1>. QED
  BY <1>4, <1>5, <1>6 DEF KInv

LEMMA SubmitOrderKeeps ==
    ASSUME KInv, NEW p \in Processes, SubmitOrder(p)
    PROVE  KInv'
<1>. DEFINE a == run[p].cur
<1>1. /\ UNCHANGED <<rec, writer>> /\ writer = p /\ run[p].pc = "submit" /\ RunTyped(run)
      /\ Sound(order, onTheWay, rec, run[p])
      /\ DOMAIN order = Attempts /\ DOMAIN onTheWay = Attempts
  BY DEF SubmitOrder, At, KInv, BrokerTyped
<1>2. PICK s \in Subjects, n \in Generations : a = <<s, n>>
  BY <1>1 DEF Sound, Aims, Aiming
<1>3. a \in Attempts
  BY <1>2 DEF Attempts
<1>4. ASSUME NEW answer, Goto(p, [pc |-> "observe", answer |-> answer])
      PROVE  /\ RunTyped(run') /\ run'[p].pc = "observe" /\ run'[p].answer = answer
             /\ \A x \in {"mode", "journaled", "closes", "todo", "cur"} : run'[p][x] = run[p][x]
  BY <1>1, <1>4 DEF Goto, With, Fields, RunTyped
<1>5. CASE /\ order[a] = NoOrder /\ onTheWay[a] = NoRequest
           /\ \E quantity, legs :
                 order' = [order EXCEPT ![a] = [status |-> "working", quantity |-> quantity,
                                                filled |-> 0, legs |-> legs]]
           /\ Goto(p, [pc |-> "observe", answer |-> "acknowledged"])
           /\ UNCHANGED onTheWay
  <2>1. /\ DOMAIN order' = Attempts /\ order'[a].status = "working"
        /\ DOMAIN order'[a] = {"status", "quantity", "filled", "legs"}
        /\ \A b \in Attempts \ {a} : order'[b] = order[b]
    BY <1>1, <1>3, <1>5
  <2>2. order'[a] # NoOrder
    BY <2>1, NoOrderIsNone
  <2>3. BrokerTyped(order', onTheWay')
    BY <1>1, <1>5, <2>1, <2>2 DEF KInv, BrokerTyped
  <2>4. /\ RunTyped(run') /\ run'[p].pc = "observe" /\ run'[p].answer # "rejected"
        /\ \A x \in {"mode", "journaled", "closes", "todo", "cur"} : run'[p][x] = run[p][x]
    BY <1>4, <1>5
  <2>5. /\ order[<<s, n>>] = NoOrder /\ run[p].cur = <<s, n>>
        /\ \A b \in Attempts \ {<<s, n>>} : order'[b] = order[b] /\ onTheWay'[b] = onTheWay[b]
    BY <1>2, <1>5, <2>1
  <2>. QED
    BY <1>1, <2>3, <2>4, <2>5, SubmissionKeeps
<1>6. CASE /\ order[a] = NoOrder
           /\ \E request : onTheWay' = IF onTheWay[a] = NoRequest THEN [onTheWay EXCEPT ![a] = request]
                                       ELSE onTheWay
           /\ Goto(p, [pc |-> "observe", answer |-> "acknowledgement_lost"])
           /\ UNCHANGED order
  <2>1. /\ DOMAIN onTheWay' = Attempts
        /\ \A b \in Attempts \ {a} : onTheWay'[b] = onTheWay[b]
    BY <1>1, <1>3, <1>6
  <2>2. BrokerTyped(order', onTheWay')
    BY <1>1, <1>6, <2>1 DEF KInv, BrokerTyped
  <2>3. /\ RunTyped(run') /\ run'[p].pc = "observe" /\ run'[p].answer # "rejected"
        /\ \A x \in {"mode", "journaled", "closes", "todo", "cur"} : run'[p][x] = run[p][x]
    BY <1>4, <1>6
  <2>4. /\ order[<<s, n>>] = NoOrder /\ run[p].cur = <<s, n>>
        /\ \A b \in Attempts \ {<<s, n>>} : order'[b] = order[b] /\ onTheWay'[b] = onTheWay[b]
    BY <1>2, <1>6, <2>1
  <2>. QED
    BY <1>1, <2>2, <2>3, <2>4, SubmissionKeeps
<1>7. ASSUME NEW answer, Goto(p, [pc |-> "observe", answer |-> answer]), UNCHANGED <<order, onTheWay>>,
             answer = "rejected" => order[a] = NoOrder /\ onTheWay[a] = NoRequest
      PROVE  KInv'
  <2>1. /\ RunTyped(run') /\ run'[p].pc = "observe" /\ run'[p].answer = answer
        /\ \A x \in {"mode", "journaled", "closes", "todo", "cur"} : run'[p][x] = run[p][x]
    BY <1>4, <1>7
  <2>2. run'[p].answer = "rejected" => ~Fillable(order, onTheWay, run'[p].cur)
    BY <1>7, <2>1, NoOrderIsNone DEF Fillable
  <2>3. Sound(order, onTheWay, rec, run'[p])
    BY <1>1, <2>1, <2>2 DEF Sound, Aims, Knows, Sees, Steady, Ready, Aiming
  <2>. QED
    BY <1>1, <1>7, <2>1, <2>3, RunKeeps
<1>. QED
  <2>1. \/ /\ order[a] = NoOrder /\ onTheWay[a] = NoRequest
           /\ \E quantity, legs :
                 order' = [order EXCEPT ![a] = [status |-> "working", quantity |-> quantity,
                                                filled |-> 0, legs |-> legs]]
           /\ Goto(p, [pc |-> "observe", answer |-> "acknowledged"])
           /\ UNCHANGED onTheWay
        \/ /\ order[a] = NoOrder
           /\ \E request : onTheWay' = IF onTheWay[a] = NoRequest THEN [onTheWay EXCEPT ![a] = request]
                                       ELSE onTheWay
           /\ Goto(p, [pc |-> "observe", answer |-> "acknowledgement_lost"])
           /\ UNCHANGED order
        \/ /\ order[a] = NoOrder /\ onTheWay[a] = NoRequest
           /\ Goto(p, [pc |-> "observe", answer |-> "rejected"])
           /\ UNCHANGED <<order, onTheWay>>
        \/ /\ Goto(p, [pc |-> "observe", answer |-> "duplicate"])
           /\ UNCHANGED <<order, onTheWay>>
    BY DEF SubmitOrder
  <2>. QED
    BY <1>5, <1>6, <1>7, <2>1

-----------------------------------------------------------------------------
(***************************************************************************)
(* The lines of the journal.                                               *)
(***************************************************************************)
LEMMA LineKeeps ==
    ASSUME KInv, UNCHANGED <<order, onTheWay, writer>>, FoldTyped(rec'), RunTyped(run'),
           FoldCovers(order, onTheWay, rec'), Sound(order, onTheWay, rec', run'[writer])
    PROVE  KInv'
BY DEF KInv

\* A line about one attempt leaves the other lifecycles as they were.
LEMMA OtherLifecycles ==
    ASSUME KInv, NEW s \in Subjects, NEW n \in Generations,
           \A b \in Attempts \ {<<s, n>>} : rec'[b] = rec[b]
    PROVE  \A t \in Subjects \ {s} :
              /\ \A f : Agree(f, rec, t) => Agree(f, rec', t)
              /\ Covers(order, onTheWay, rec, t) => Covers(order, onTheWay, rec', t)
<1>. TAKE t \in Subjects \ {s}
<1>1. Agree(rec, rec', t)
  BY DEF Agree, Attempts
<1>2. \A f : Agree(f, rec, t) => Agree(f, rec', t)
  BY <1>1 DEF Agree
<1>3. Calm(order, onTheWay, order, onTheWay, t)
  BY DEF Calm
<1>4. Covers(order, onTheWay, rec, t) => Covers(order, onTheWay, rec', t)
  BY <1>1, <1>3, CalmKeeps
<1>. QED
  BY <1>2, <1>4

\* The OUTCOME of an attempt that can still fill leaves it pending.
LEMMA OutcomeKeeps ==
    ASSUME KInv, NEW s \in Subjects, NEW n \in Generations, NEW status, NEW filled,
           foldOutcome(<<s, n>>, status, filled), status \notin {"none", "broken"},
           Fillable(order, onTheWay, <<s, n>>) => status \in Pending
    PROVE  /\ FoldTyped(rec') /\ FoldCovers(order, onTheWay, rec')
           /\ \A b \in Attempts \ {<<s, n>>} : rec'[b] = rec[b]
           /\ FoldOk(rec) /\ rec[<<s, n>>].status # "none" => FoldOk(rec')
<1>. DEFINE a == <<s, n>>
<1>1. a \in Attempts /\ DOMAIN rec = Attempts /\ DOMAIN rec[a] = {"status", "quantity", "filled"}
  BY DEF Attempts, KInv, FoldTyped
<1>2. /\ DOMAIN rec' = Attempts /\ DOMAIN rec'[a] = {"status", "quantity", "filled"}
      /\ rec'[a].status = IF rec[a].status \in {"none", "broken"} THEN "broken" ELSE status
      /\ \A b \in Attempts \ {a} : rec'[b] = rec[b]
  BY <1>1 DEF foldOutcome
<1>. HIDE DEF a
<1>3. FoldTyped(rec')
  BY <1>2 DEF KInv, FoldTyped
<1>4. FoldOk(rec) /\ rec[a].status # "none" => FoldOk(rec')
  BY <1>1, <1>2 DEF FoldOk
<1>5. FoldCovers(order, onTheWay, rec')
  <2>. SUFFICES ASSUME FoldOk(rec'), NEW t \in Subjects
                PROVE  Covers(order, onTheWay, rec', t)
    BY DEF FoldCovers
  <2>1. rec'[a].status = status /\ rec[a].status # "none" /\ FoldOk(rec)
    BY <1>1, <1>2 DEF FoldOk
  <2>2. Covers(order, onTheWay, rec, t)
    BY <2>1 DEF KInv, FoldCovers
  <2>3. CASE t = s
    <3>1. \A g \in Generations \ {n} : rec'[<<s, g>>] = rec[<<s, g>>]
      BY <1>2 DEF a, Attempts
    <3>. QED
      BY <2>1, <2>2, <2>3, <3>1, OutcomeCovers DEF a
  <2>4. CASE t # s
    BY <1>2, <2>2, <2>4, OtherLifecycles DEF a
  <2>. QED
    BY <2>3, <2>4
<1>. QED
  BY <1>2, <1>3, <1>4, <1>5 DEF a

\* What the broker says last of an attempt.
LEMMA TerminalOutcome ==
    ASSUME KInv, NEW a \in Attempts, NEW record, record \in Lookup(a),
           record.status \in TerminalCloseStatus
    PROVE  closeOutcome(record) \notin {"none", "broken"} /\ ~Fillable(order, onTheWay, a)
<1>1. record = order[a] /\ order[a] # NoOrder
  BY NoOrderIsNone DEF Lookup, TerminalCloseStatus
<1>2. ~Fillable(order, onTheWay, a)
  BY <1>1 DEF Fillable, KInv, BrokerTyped, TerminalCloseStatus
<1>3. closeOutcome(record) \notin {"none", "broken"}
  BY DEF closeOutcome, TerminalCloseStatus
<1>. QED
  BY <1>2, <1>3

LEMMA ReconcileKeeps ==
    ASSUME KInv, NEW a \in Attempts, reconcileCloseAttempt(a)
    PROVE  KInv'
<1>1. /\ UNCHANGED <<order, onTheWay, writer>> /\ writer = "runner" /\ "runner" \in Processes
      /\ run["runner"].pc = "reread" /\ RunTyped(run)
  BY DEF reconcileCloseAttempt, At, broker, Processes, KInv
<1>2. RunTyped(run') /\ run'["runner"].pc = "reread"
  BY <1>1 DEF reconcileCloseAttempt, Goto, With, Fields, RunTyped
<1>3. Sound(order, onTheWay, rec', run'["runner"])
  BY <1>2, AtRest DEF Aiming
<1>4. CASE UNCHANGED rec
  BY <1>1, <1>2, <1>3, <1>4, RunKeeps
<1>5. CASE rec' # rec
  <2>1. PICK record \in Lookup(a) : record.status \in TerminalCloseStatus /\ Outcome(a, record)
    BY <1>5 DEF reconcileCloseAttempt
  <2>2. PICK s \in Subjects, n \in Generations : a = <<s, n>>
    BY DEF Attempts
  <2>3. PICK filled : foldOutcome(a, closeOutcome(record), filled)
    BY <2>1 DEF Outcome
  <2>4. closeOutcome(record) \notin {"none", "broken"} /\ ~Fillable(order, onTheWay, a)
    BY <2>1, TerminalOutcome
  <2>5. FoldTyped(rec') /\ FoldCovers(order, onTheWay, rec')
    BY <2>2, <2>3, <2>4, OutcomeKeeps
  <2>. QED
    BY <1>1, <1>2, <1>3, <2>5, LineKeeps
<1>. QED
  BY <1>4, <1>5

LEMMA ReadCanceledKeeps ==
    ASSUME KInv, ReadCanceled
    PROVE  KInv'
<1>. DEFINE r == run["runner"]
<1>. DEFINE r2 == run'["runner"]
<1>1. /\ UNCHANGED <<order, onTheWay, writer>> /\ writer = "runner" /\ "runner" \in Processes
      /\ r.pc = "canceled" /\ RunTyped(run) /\ Sound(order, onTheWay, rec, r)
  BY DEF ReadCanceled, At, broker, Processes, KInv
<1>2. PICK s \in Subjects, n \in Generations : r.cur = <<s, n>>
  BY <1>1 DEF Sound, Aims, Aiming
<1>3. r.mode = "ladder" /\ r.cur[1] \in r.todo /\ r.cur \in Attempts
  BY <1>1, <1>2 DEF Sound, Aims, Aiming, Attempts
<1>4. \/ \E failed : NextTarget("runner", failed)
      \/ \E remaining, failure :
            Goto("runner", [pc |-> "replan", exposure |-> remaining, journalFailure |-> failure])
  BY DEF ReadCanceled
<1>5. RunTyped(run') /\ \A k : Sound(order, onTheWay, k, r2)
  <2>1. CASE \E failed : NextTarget("runner", failed)
    <3>1. PICK failed : NextTarget("runner", failed)
      BY <2>1
    <3>2. /\ RunTyped(run')
          /\ r2.pc = "targets" /\ r2.mode = r.mode /\ r2.closes = r.closes
          /\ r2.todo = r.todo \ {r.cur[1]}
      BY <1>1, <3>1, NextTargetIs
    <3>3. \A k : Knows(k, r) /\ Steady(k, r)
      BY <1>1, <1>3 DEF Knows, Steady
    <3>4. Aims(r) /\ Sees(order, onTheWay, r) /\ r.pc \in Aiming
      BY <1>1 DEF Sound, Aiming
    <3>. HIDE DEF r, r2
    <3>. QED
      BY <3>2, <3>3, <3>4, NextTargetSound
  <2>2. CASE \E remaining, failure :
            Goto("runner", [pc |-> "replan", exposure |-> remaining, journalFailure |-> failure])
    <3>1. /\ RunTyped(run') /\ r2.pc = "replan"
          /\ r2.mode = r.mode /\ r2.closes = r.closes /\ r2.todo = r.todo /\ r2.cur = r.cur
      BY <1>1, <2>2 DEF Goto, With, Fields, RunTyped
    <3>2. \A k : Sound(order, onTheWay, k, r2)
      <4>1. Aims(r2)
        BY <1>2, <1>3, <3>1 DEF Aims
      <4>2. Sees(order, onTheWay, r2)
        BY <1>1, <3>1 DEF Sound, Sees
      <4>3. \A k : Knows(k, r2) /\ Steady(k, r2) /\ Ready(order, onTheWay, k, r2)
        BY <1>3, <3>1 DEF Knows, Steady, Ready
      <4>. QED
        BY <4>1, <4>2, <4>3 DEF Sound
    <3>. QED
      BY <3>1, <3>2
  <2>. QED
    BY <1>4, <2>1, <2>2
<1>6. CASE UNCHANGED rec
  BY <1>1, <1>5, <1>6, RunKeeps
<1>7. CASE rec' # rec
  <2>1. PICK record \in Lookup(r.cur) : record.status \in TerminalCloseStatus /\ Outcome(r.cur, record)
    BY <1>7 DEF ReadCanceled
  <2>2. PICK filled : foldOutcome(r.cur, closeOutcome(record), filled)
    BY <2>1 DEF Outcome
  <2>3. closeOutcome(record) \notin {"none", "broken"} /\ ~Fillable(order, onTheWay, r.cur)
    BY <1>3, <2>1, TerminalOutcome
  <2>4. FoldTyped(rec') /\ FoldCovers(order, onTheWay, rec')
    BY <1>2, <2>2, <2>3, OutcomeKeeps
  <2>. QED
    BY <1>1, <1>5, <2>4, LineKeeps
<1>. QED
  BY <1>6, <1>7

\* A line for an attempt behind the fold.
LEMMA IntentKeeps ==
    ASSUME KInv, NEW s \in Subjects, NEW n \in Generations, NEW entry,
           rec' = [rec EXCEPT ![<<s, n>>] = entry],
           DOMAIN entry = {"status", "quantity", "filled"},
           FoldOk(rec) => Behind(order, rec, s, n),
           entry.status = "broken" <=> rec[<<s, n>>].status = "broken",
           entry.status # "none",
           FoldOk(rec) /\ Fillable(order, onTheWay, <<s, n>>) => entry.status \in Pending
    PROVE  /\ FoldTyped(rec') /\ FoldCovers(order, onTheWay, rec')
           /\ rec'[<<s, n>>] = entry
           /\ \A b \in Attempts \ {<<s, n>>} : rec'[b] = rec[b]
           /\ FoldOk(rec') <=> FoldOk(rec)
<1>. DEFINE a == <<s, n>>
<1>1. a \in Attempts /\ DOMAIN rec = Attempts
  BY DEF Attempts, KInv, FoldTyped
<1>2. /\ DOMAIN rec' = Attempts /\ rec'[a] = entry
      /\ \A b \in Attempts \ {a} : rec'[b] = rec[b]
  BY <1>1
<1>. HIDE DEF a
<1>3. FoldTyped(rec')
  BY <1>2 DEF KInv, FoldTyped
<1>4. FoldOk(rec') <=> FoldOk(rec)
  BY <1>1, <1>2 DEF FoldOk, a
<1>5. FoldCovers(order, onTheWay, rec')
  <2>. SUFFICES ASSUME FoldOk(rec), NEW t \in Subjects
                PROVE  Covers(order, onTheWay, rec', t)
    BY <1>4 DEF FoldCovers
  <2>1. Covers(order, onTheWay, rec, t)
    BY DEF KInv, FoldCovers
  <2>2. CASE t = s
    <3>1. \A g \in Generations \ {n} : rec'[<<s, g>>] = rec[<<s, g>>]
      BY <1>2 DEF a, Attempts
    <3>2. \A g \in Generations : onTheWay[<<s, g>>] # NoRequest => order[<<s, g>>] = NoOrder
      BY DEF KInv, BrokerTyped, Attempts
    <3>3. rec'[<<s, n>>].status # "none"
      BY <1>2 DEF a
    <3>4. Fillable(order, onTheWay, <<s, n>>) => rec'[<<s, n>>].status \in Pending
      BY <1>2 DEF a
    <3>. QED
      BY <2>1, <2>2, <3>1, <3>2, <3>3, <3>4, IntentCovers
  <2>3. CASE t # s
    BY <1>2, <2>1, <2>3, OtherLifecycles DEF a
  <2>. QED
    BY <2>2, <2>3
<1>. QED
  BY <1>2, <1>3, <1>4, <1>5 DEF a

LEMMA ProbeEmergencyKeeps ==
    ASSUME KInv, NEW s \in Structures, ProbeEmergency(s)
    PROVE  KInv'
<1>. DEFINE r == run["runner"]
<1>. DEFINE r2 == run'["runner"]
<1>. DEFINE n == nextJournaled(r.closes, s)
<1>. DEFINE a == <<s, n>>
<1>1. /\ UNCHANGED <<order, onTheWay, writer>> /\ writer = "runner" /\ "runner" \in Processes
      /\ r.pc = "probe" /\ s \in r.todo /\ RunTyped(run) /\ Sound(order, onTheWay, rec, r)
  BY DEF ProbeEmergency, At, broker, Processes, KInv
<1>2. s \in Subjects /\ Agree(r.closes, rec, s) /\ n = nextJournaled(rec, s)
  <2>1. s \in Subjects /\ Agree(r.closes, rec, s)
    BY <1>1 DEF Sound, Knows, Subjects
  <2>. QED
    BY <2>1, AgreeingFolds
<1>3. \/ Goto("runner", [todo |-> r.todo \ {s}])
      \/ Goto("runner", [todo |-> {}, journalFailure |-> TRUE])
  BY DEF ProbeEmergency
<1>4. /\ RunTyped(run') /\ r2.pc = "probe" /\ r2.closes = r.closes
      /\ r2.todo \in {r.todo \ {s}, {}}
  BY <1>1, <1>3 DEF Goto, With, Fields, RunTyped
<1>5. Knows(rec, r2)
  BY <1>1, <1>4 DEF Sound, Knows
<1>6. ASSUME NEW k, Knows(k, r2) PROVE Sound(order, onTheWay, k, r2)
  BY <1>4, <1>6 DEF Sound, Aims, Sees, Steady, Ready, Aiming
<1>7. CASE UNCHANGED rec
  BY <1>1, <1>4, <1>5, <1>6, <1>7, RunKeeps
<1>8. CASE rec' # rec
  <2>. DEFINE entry == [status |-> auditGapStatus(order[a]), quantity |-> order[a].quantity,
                        filled |-> order[a].filled]
  <2>1. a \in Attempts /\ order[a] # NoOrder /\ rec' = [rec EXCEPT ![a] = entry]
    BY <1>8 DEF ProbeEmergency
  <2>2. n \in Generations /\ rec[a].status = "none"
    <3>1. n \in Generations
      BY <2>1 DEF Attempts
    <3>2. n \in Nat /\ \A g \in Generations : rec[<<s, g>>].status # "none" => g < n
      BY <1>2, NextIsBehind
    <3>. QED
      BY <3>1, <3>2
  <2>3. order[a].status \in {"working"} \cup TerminalCloseStatus
    BY <2>1 DEF KInv, BrokerTyped
  <2>4. auditGapStatus(order[a]) \in {"submitted", "partially_filled"} \cup TerminalCloseStatus
    BY <2>3 DEF auditGapStatus, closeStateOf, CloseState, ActiveCloseState, TerminalCloseStatus
  <2>5. Fillable(order, onTheWay, a) => auditGapStatus(order[a]) \in Pending
    <3>1. onTheWay[a] = NoRequest
      BY <2>1 DEF KInv, BrokerTyped
    <3>. QED
      BY <3>1 DEF Fillable, auditGapStatus, closeStateOf, CloseState, ActiveCloseState,
                  TerminalCloseStatus, Pending
  <2>6. /\ DOMAIN entry = {"status", "quantity", "filled"}
        /\ entry.status = auditGapStatus(order[a])
    OBVIOUS
  <2>7. entry.status \notin {"none", "broken"}
    BY <2>4, <2>6 DEF TerminalCloseStatus
  <2>8. Behind(order, rec, s, n)
    BY <1>2 DEF Behind
  <2>9. /\ FoldTyped(rec') /\ FoldCovers(order, onTheWay, rec')
        /\ \A b \in Attempts \ {a} : rec'[b] = rec[b]
    <3>. HIDE DEF entry, n
    <3>1. entry.status = "broken" <=> rec[<<s, n>>].status = "broken"
      BY <2>2, <2>7
    <3>2. Fillable(order, onTheWay, <<s, n>>) => entry.status \in Pending
      BY <2>5, <2>6
    <3>3. entry.status # "none" /\ DOMAIN entry = {"status", "quantity", "filled"}
      BY <2>6, <2>7
    <3>4. rec' = [rec EXCEPT ![<<s, n>>] = entry] /\ s \in Subjects /\ n \in Generations
      BY <1>2, <2>1, <2>2
    <3>. QED
      BY <2>8, <3>1, <3>2, <3>3, <3>4, IntentKeeps
  <2>10. r2.todo \subseteq r.todo \ {s}
    BY <1>4
  <2>11. Knows(rec', r2)
    <3>. SUFFICES ASSUME NEW t \in Subjects, t \in r2.todo
                  PROVE  Agree(r2.closes, rec', t)
      BY <1>4 DEF Knows
    <3>1. t # s /\ Agree(r2.closes, rec, t)
      BY <1>1, <1>4, <2>10 DEF Sound, Knows
    <3>. HIDE DEF n, r2
    <3>. QED
      BY <1>2, <2>2, <2>9, <3>1, OtherLifecycles
  <2>. QED
    BY <1>1, <1>4, <1>6, <2>9, <2>11, LineKeeps
<1>. QED
  BY <1>7, <1>8

LEMMA AppendIntentKeeps ==
    ASSUME KInv, NEW p \in Processes, AppendIntent(p)
    PROVE  KInv'
<1>. DEFINE r == run[p]
<1>. DEFINE r2 == run'[p]
<1>1. /\ UNCHANGED <<order, onTheWay, writer>> /\ writer = p
      /\ r.pc = "intent" /\ RunTyped(run) /\ Sound(order, onTheWay, rec, r)
  BY DEF AppendIntent, At, broker, KInv
<1>2. PICK s \in Subjects, n \in Generations : r.cur = <<s, n>>
  BY <1>1 DEF Sound, Aims, Aiming
<1>3. r.cur[1] = s /\ r.cur[2] = n /\ s \in r.todo
  BY <1>1, <1>2 DEF Sound, Aims, Aiming
<1>4. CASE NextTarget(p, TRUE) /\ UNCHANGED rec
  <2>1. /\ RunTyped(run')
        /\ r2.pc = "targets" /\ r2.mode = r.mode
        /\ r2.closes = r.closes /\ r2.todo = r.todo \ {r.cur[1]}
    BY <1>1, <1>4, NextTargetIs
  <2>2. Sound(order, onTheWay, rec, r2)
    BY <1>1, <2>1, NextTargetSound DEF Sound, Aiming
  <2>. QED
    BY <1>1, <1>4, <2>1, <2>2, RunKeeps
<1>5. ASSUME Goto(p, [pc |-> "submit"])
      PROVE  /\ RunTyped(run') /\ r2.pc = "submit" /\ r2.mode = r.mode /\ r2.closes = r.closes
             /\ r2.todo = r.todo /\ r2.cur = r.cur /\ r2.journaled = r.journaled
  BY <1>1, <1>5 DEF Goto, With, Fields, RunTyped
<1>6. CASE ~r.journaled /\ Goto(p, [pc |-> "submit"]) /\ UNCHANGED rec
  <2>1. Sound(order, onTheWay, rec, r2)
    BY <1>1, <1>5, <1>6 DEF Sound, Aims, Knows, Sees, Steady, Ready, Aiming
  <2>. QED
    BY <1>1, <1>5, <1>6, <2>1, RunKeeps
<1>7. CASE /\ r.journaled
           /\ rec' = [rec EXCEPT ![r.cur] = [status |-> IF @.status = "broken" THEN "broken" ELSE "submitted",
                                             quantity |-> r.plan, filled |-> 0]]
           /\ Goto(p, [pc |-> "submit"])
  <2>. DEFINE entry == [status |-> IF rec[<<s, n>>].status = "broken" THEN "broken" ELSE "submitted",
                        quantity |-> r.plan, filled |-> 0]
  <2>1. rec' = [rec EXCEPT ![<<s, n>>] = entry]
    BY <1>2, <1>7
  <2>2. /\ DOMAIN entry = {"status", "quantity", "filled"}
        /\ entry.status = IF rec[<<s, n>>].status = "broken" THEN "broken" ELSE "submitted"
    OBVIOUS
  <2>3. FoldOk(rec) => rec[<<s, n>>].status # "broken" /\ Behind(order, rec, s, n)
    BY <1>1, <1>3 DEF FoldOk, Attempts, Sound, Ready
  <2>4. /\ FoldTyped(rec') /\ FoldCovers(order, onTheWay, rec')
        /\ rec'[<<s, n>>] = entry
        /\ \A b \in Attempts \ {<<s, n>>} : rec'[b] = rec[b]
        /\ FoldOk(rec') <=> FoldOk(rec)
    <3>. HIDE DEF entry
    <3>. QED
      BY <2>1, <2>2, <2>3, IntentKeeps DEF Pending
  <2>5. Knows(rec', r2)
    <3>. SUFFICES ASSUME NEW t \in Subjects, t \in r.todo \ {s}, r.mode # "ladder"
                  PROVE  Agree(r.closes, rec', t)
      BY <1>3, <1>5, <1>7 DEF Knows
    <3>1. Agree(r.closes, rec, t)
      BY <1>1, <1>3 DEF Sound, Knows
    <3>. HIDE DEF r
    <3>. QED
      BY <2>4, <3>1, OtherLifecycles
  <2>6. Aims(r2) /\ Sees(order, onTheWay, r2) /\ Steady(rec', r2)
    BY <1>1, <1>5, <1>7, <2>4 DEF Sound, Aims, Sees, Steady, Aiming
  <2>7. Ready(order, onTheWay, rec', r2)
    <3>1. FoldOk(rec') => rec'[r2.cur].status = "submitted"
      BY <1>2, <1>5, <1>7, <2>2, <2>3, <2>4
    <3>. QED
      BY <1>1, <1>5, <1>7, <3>1 DEF Sound, Ready
  <2>8. Sound(order, onTheWay, rec', r2)
    BY <2>5, <2>6, <2>7 DEF Sound
  <2>. QED
    BY <1>1, <1>5, <1>7, <2>4, <2>8, LineKeeps
<1>. QED
  BY <1>4, <1>6, <1>7 DEF AppendIntent

LEMMA ObserveSubmitKeeps ==
    ASSUME KInv, NEW p \in Processes, ObserveSubmit(p)
    PROVE  KInv'
<1>. DEFINE r == run[p]
<1>. DEFINE r2 == run'[p]
<1>1. /\ UNCHANGED <<order, onTheWay, writer>> /\ writer = p
      /\ r.pc = "observe" /\ RunTyped(run) /\ Sound(order, onTheWay, rec, r)
  BY DEF ObserveSubmit, At, broker, KInv
<1>2. PICK s \in Subjects, n \in Generations : r.cur = <<s, n>>
  BY <1>1 DEF Sound, Aims, Aiming
<1>3. r.cur[1] = s /\ r.cur[2] = n /\ r.cur \in Attempts
  BY <1>2 DEF Attempts
<1>4. CASE Goto(p, [pc |-> "done"]) /\ UNCHANGED rec
  BY <1>1, <1>4, DoneKeeps
<1>5. ASSUME NEW failed, NextTarget(p, failed)
      PROVE  /\ RunTyped(run')
             /\ r2.pc = "targets" /\ r2.mode = r.mode
             /\ r2.closes = r.closes /\ r2.todo = r.todo \ {r.cur[1]}
  BY <1>1, <1>5, NextTargetIs
<1>6. ASSUME NEW failed, NextTarget(p, failed), UNCHANGED rec
      PROVE  KInv'
  <2>1. Sound(order, onTheWay, rec, r2)
    BY <1>1, <1>5, <1>6, NextTargetSound DEF Sound, Aiming
  <2>. QED
    BY <1>1, <1>5, <1>6, <2>1, RunKeeps
<1>7. ASSUME NEW status, NEW filled, r.journaled, NextTarget(p, FALSE),
             foldOutcome(r.cur, status, filled), status \notin {"none", "broken"},
             Fillable(order, onTheWay, r.cur) => status \in Pending
      PROVE  KInv'
  <2>1. /\ FoldTyped(rec') /\ FoldCovers(order, onTheWay, rec')
        /\ \A b \in Attempts \ {<<s, n>>} : rec'[b] = rec[b]
        /\ FoldOk(rec) /\ rec[<<s, n>>].status # "none" => FoldOk(rec')
    BY <1>2, <1>7, OutcomeKeeps
  <2>2. /\ RunTyped(run')
        /\ r2.pc = "targets" /\ r2.mode = r.mode
        /\ r2.closes = r.closes /\ r2.todo = r.todo \ {r.cur[1]}
    BY <1>5, <1>7
  <2>3. Knows(rec', r)
    <3>. SUFFICES ASSUME NEW t \in Subjects, t \in r.todo \ {s}, r.mode # "ladder"
                  PROVE  Agree(r.closes, rec', t)
      BY <1>1, <1>3 DEF Knows
    <3>1. Agree(r.closes, rec, t)
      BY <1>1, <1>3 DEF Sound, Knows
    <3>. HIDE DEF r
    <3>. QED
      BY <2>1, <3>1, OtherLifecycles
  <2>4. Steady(rec', r)
    <3>1. FoldOk(rec) => FoldOk(rec')
      BY <1>1, <1>2, <1>7, <2>1 DEF Sound, Ready
    <3>. QED
      BY <1>1, <3>1 DEF Sound, Steady
  <2>5. Sound(order, onTheWay, rec', r2)
    BY <1>1, <2>2, <2>3, <2>4, NextTargetSound DEF Sound, Aiming
  <2>. QED
    BY <1>1, <2>1, <2>2, <2>5, LineKeeps
<1>8. ASSUME r.journaled, NextTarget(p, FALSE),
             NEW answer, answer = "rejected" => r.answer = "rejected",
             NEW record \in Lookup(r.cur), outcomeFromSubmit(r.cur, answer, record)
      PROVE  KInv'
  <2>1. record = NoOrder \/ record.status \in {"working"} \cup TerminalCloseStatus
    BY <1>3, <1>8 DEF Lookup, KInv, BrokerTyped
  <2>2. CASE answer = "rejected"
    <3>1. foldOutcome(r.cur, "rejected", 0)
      BY <1>8, <2>2 DEF outcomeFromSubmit
    <3>2. ~Fillable(order, onTheWay, r.cur)
      BY <1>1, <1>8, <2>2 DEF Sound, Ready
    <3>. QED
      BY <1>7, <1>8, <3>1, <3>2
  <2>3. CASE answer # "rejected" /\ record = NoOrder
    <3>1. foldOutcome(r.cur, "confirmation_unclear", 0)
      BY <1>8, <2>3, NoOrderIsNone DEF outcomeFromSubmit, TerminalCloseStatus
    <3>2. "confirmation_unclear" \in Pending /\ "confirmation_unclear" \notin {"none", "broken"}
      BY DEF Pending
    <3>. QED
      BY <1>7, <1>8, <3>1, <3>2
  <2>4. CASE answer # "rejected" /\ record # NoOrder /\ record.status \in TerminalCloseStatus
    <3>1. Outcome(r.cur, record)
      BY <1>8, <2>4 DEF outcomeFromSubmit, TerminalCloseStatus
    <3>2. PICK filled : foldOutcome(r.cur, closeOutcome(record), filled)
      BY <3>1 DEF Outcome
    <3>3. closeOutcome(record) \notin {"none", "broken"} /\ ~Fillable(order, onTheWay, r.cur)
      BY <1>3, <1>8, <2>4, TerminalOutcome
    <3>. QED
      BY <1>7, <1>8, <3>2, <3>3
  <2>5. CASE answer # "rejected" /\ record # NoOrder /\ record.status = "working"
    <3>1. UNCHANGED rec
      BY <1>8, <2>5 DEF outcomeFromSubmit, TerminalCloseStatus
    <3>. QED
      BY <1>6, <1>8, <3>1
  <2>. QED
    BY <2>1, <2>2, <2>3, <2>4, <2>5
<1>9. ASSUME r.journaled, NextTarget(p, FALSE),
             outcomeFromSubmit(r.cur, "acknowledgement_lost", NoOrder)
      PROVE  KInv'
  <2>1. foldOutcome(r.cur, "confirmation_unclear", 0)
    BY <1>9, NoOrderIsNone DEF outcomeFromSubmit, TerminalCloseStatus
  <2>2. "confirmation_unclear" \in Pending /\ "confirmation_unclear" \notin {"none", "broken"}
    BY DEF Pending
  <2>. QED
    BY <1>7, <1>9, <2>1, <2>2
<1>10. CASE r.journaled /\ NextTarget(p, FALSE) /\ ~UNCHANGED rec
  <2>. DEFINE lost == r.answer = "acknowledgement_lost" \/ (p = "watchdog" /\ r.answer # "acknowledged")
  <2>. DEFINE answer == IF lost THEN "acknowledgement_lost" ELSE r.answer
  <2>1. PICK record \in (IF lost THEN {NoOrder} ELSE IF p = "watchdog" THEN {order[r.cur]} ELSE Lookup(r.cur)) :
           outcomeFromSubmit(r.cur, answer, record)
    BY <1>10 DEF ObserveSubmit
  <2>2. CASE lost
    BY <1>9, <1>10, <2>1, <2>2
  <2>3. CASE ~lost
    <3>1. record \in Lookup(r.cur) /\ answer = r.answer
      BY <2>1, <2>3 DEF Lookup
    <3>. QED
      BY <1>8, <1>10, <2>1, <3>1
  <2>. QED
    BY <2>2, <2>3
<1>. QED
  BY <1>4, <1>6, <1>10 DEF ObserveSubmit

-----------------------------------------------------------------------------
(***************************************************************************)
(* The theorem.                                                            *)
(***************************************************************************)
LEMMA InitHolds == Init => KInv
<1>. SUFFICES ASSUME Init PROVE KInv
  OBVIOUS
<1>1. /\ order = [a \in Attempts |-> NoOrder] /\ onTheWay = [a \in Attempts |-> NoRequest]
      /\ rec = [a \in Attempts |-> NoRecord] /\ writer = "runner" /\ run = [p \in Processes |-> Idle]
  BY DEF Init
<1>2. BrokerTyped(order, onTheWay)
  BY <1>1 DEF BrokerTyped, NoOrder
<1>3. FoldTyped(rec)
  BY <1>1 DEF FoldTyped, NoRecord
<1>4. RunTyped(run) /\ writer \in Processes /\ run[writer].pc = "idle"
  BY <1>1 DEF RunTyped, Idle, Fields, Processes
<1>5. \A s \in Subjects, g \in Generations : ~Fillable(order, onTheWay, <<s, g>>)
  BY <1>1 DEF Fillable, NoOrder, Attempts
<1>6. OneChild(order, onTheWay) /\ FoldCovers(order, onTheWay, rec)
  BY <1>5 DEF OneChild, FoldCovers, Covers
<1>7. Sound(order, onTheWay, rec, run[writer])
  BY <1>4, AtRest DEF Aiming
<1>. QED
  BY <1>2, <1>3, <1>4, <1>6, <1>7 DEF KInv

LEMMA StepsKeep == KInv /\ [Next]_vars => KInv'
<1>. SUFFICES ASSUME KInv, [Next]_vars PROVE KInv'
  OBVIOUS
<1>1. CASE UNCHANGED vars
  BY <1>1 DEF KInv, vars
<1>2. CASE \E a \in Attempts : Fill(a) \/ Arrive(a) \/ Expire(a)
  BY <1>2, FillKeeps, ArriveKeeps, ExpireKeeps
<1>3. CASE ManualUnhalt
  BY <1>3, ManualUnhaltKeeps
<1>4. ASSUME NEW p \in Processes, WorkOnTargets(p) PROVE KInv'
  BY <1>4, PlanTargetKeeps, RefuseSubmissionKeeps, AppendIntentKeeps, SubmitOrderKeeps,
     ObserveSubmitKeeps, TargetsDoneKeeps, EndsKeep DEF WorkOnTargets
<1>5. CASE RunnerStep
  <2>1. CASE StartCycle \/ ProbesDone \/ TakeBook \/ KillHalt \/ CancelRiskIncreasing
    BY <2>1, StartCycleKeeps, ProbesDoneKeeps, TakeBookKeeps, KillHaltKeeps, CancelRiskIncreasingKeeps
  <2>2. CASE ManageExpiries \/ ManageFlatten \/ ManagementBookUnreadable
    BY <2>2, ManagementKeeps
  <2>3. CASE \E s \in Structures : ProbeEmergency(s)
    BY <2>3, ProbeEmergencyKeeps
  <2>4. CASE \E a \in Attempts : reconcileCloseAttempt(a)
    BY <2>4, ReconcileKeeps
  <2>5. CASE WorkOnTargets("runner")
    BY <1>4, <2>5 DEF Processes
  <2>6. CASE CancelResting \/ ReadCanceled \/ PlanAgain
    BY <2>6, CancelRestingKeeps, ReadCanceledKeeps, PlanAgainKeeps
  <2>. QED
    BY <1>5, <2>1, <2>2, <2>3, <2>4, <2>5, <2>6 DEF RunnerStep
<1>6. CASE ObserveStale \/ acquireAuthority \/ RunnerAcquires
  BY <1>6, EpochKeeps
<1>7. CASE AuthorityRefused
  BY <1>7, EndsKeep DEF Processes
<1>8. CASE WatchdogHalt \/ WatchdogBook
  BY <1>8, WatchdogHaltKeeps, WatchdogBookKeeps
<1>9. CASE WorkOnTargets("watchdog")
  BY <1>4, <1>9 DEF Processes
<1>10. CASE \E p \in Processes : Crash(p) \/ Fenced(p)
  BY <1>10, EndsKeep
<1>. QED
  BY <1>1, <1>2, <1>3, <1>5, <1>6, <1>7, <1>8, <1>9, <1>10 DEF Next

(***************************************************************************)
(* No close lifecycle ever has two orders that can still fill, although    *)
(* runner and watchdog share its ids and each plans on what it has read.   *)
(***************************************************************************)
THEOREM OneChildAtATime == Spec => []OneChildPerLifecycle
<1>1. KInv => OneChildPerLifecycle
  BY DEF KInv, OneChild, Fillable, OneChildPerLifecycle, Working
<1>. QED
  BY InitHolds, StepsKeep, <1>1, PTL DEF Spec
=============================================================================
