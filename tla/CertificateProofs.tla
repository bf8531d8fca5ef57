------------------------- MODULE CertificateProofs -------------------------
(***************************************************************************)
(* What the supervised certificate run keeps, for any set of entries, any  *)
(* number of cycles and whatever the other processes do to it.             *)
(*                                                                         *)
(* A bracket is sound because of two facts about the journal: an order     *)
(* that may still fill has its INTENT there and no end (Recorded), and an  *)
(* account without open entries stays as it is while the epoch is the      *)
(* run's, for only the writer trades (Bracketed and what follows).         *)
(***************************************************************************)
EXTENDS CertificateRun, SequenceTheorems, FunctionTheorems, FiniteSetTheorems, WellFoundedInduction, TLAPS

-----------------------------------------------------------------------------
(***************************************************************************)
(* The inductive invariant.                                                *)
(***************************************************************************)
Statuses == {"none", "in_flight", "working", "filled", "canceled"}
CertLine == [type : {"INTENT", "HALT", "UNHALT", "CYCLE", "filled", "canceled", "not_at_broker"},
             of : Entries \cup {"none", "MANUAL", "AUTH_FAILURE", "ACCOUNT_BINDING_MISMATCH"}]
RunState ==
    [pc : {"entry", "observe", "last_entry", "flatten", "open", "snapshot", "reopen", "fence",
           "fence_orders", "approval", "unhalt", "certify", "ended", "recover", "recover_snapshot",
           "recover_reopen", "recover_cycle"},
     stage : {"before", "reconcile", "approved", "final"},
     attempt : Nat, startedAt : Nat, resting : [Entries -> Nat], seen : Nat, beforeFence : Nat,
     haltSeq : Nat, unhaltSeq : Nat, flat : BOOLEAN, verdict : {"none", "PASS", "FAIL", "recovered", "unresolved"}]

Typed ==
    /\ lines \in Seq(CertLine)
    /\ entryOrders \in [Entries -> Statuses]
    /\ run \in RunState
    /\ run.startedAt <= Len(lines)

\* An end that is journaled is true at the broker.
EndsAreTrue ==
    \A i \in 1..Len(lines) :
        lines[i].type \in {"filled", "canceled"} =>
            lines[i].of \in Entries /\ entryOrders[lines[i].of] = lines[i].type

\* No order without its INTENT.
IntentsFirst ==
    \A id \in Entries : entryOrders[id] # "none" => \E i \in 1..Len(lines) : lines[i] = IntentOf(id)

Recorded == EndsAreTrue /\ IntentsFirst

\* The phases before the first bracket, and what the recovery's barrier saw.
InPhase ==
    /\ run.pc \in {"entry", "observe", "last_entry", "flatten"} => run.stage = "before"
    /\ run.pc \in {"recover_snapshot", "recover_reopen"} => run.haltSeq # 0

\* The first bracket has been opened, and the run has not ended.
Bracketed ==
    \/ run.pc \in {"snapshot", "reopen", "fence", "fence_orders", "approval", "unhalt", "certify"}
    \/ run.pc = "open" /\ run.stage # "before"

\* Nothing rests and nothing may still arrive.
Settled == \A id \in Entries : entryOrders[id] \notin {"in_flight", "working"}

\* A snapshot has shown that nothing is held.
ShownFlat ==
    \/ Bracketed /\ ~(run.pc = "snapshot" /\ run.stage = "before")
    \/ run.pc = "recover_reopen"

StaysFlat ==
    IsWriter =>
      /\ Bracketed \/ run.pc \in {"recover_snapshot", "recover_reopen"} => Settled
      /\ ShownFlat => position = {} /\ closing = {}

FilledInRun(id) ==
    /\ \E i \in (run.startedAt + 1)..Len(lines) : lines[i] = IntentOf(id)
    /\ \E j \in (run.startedAt + 1)..Len(lines) : lines[j] = LineOf("filled", id)

\* The run still trades only while none of its entries is known to have filled.
NoneFilled == IsWriter /\ run.pc = "entry" => \A id \in Entries : ~FilledInRun(id)

CInv == Typed /\ Recorded /\ InPhase /\ StaysFlat /\ NoneFilled

-----------------------------------------------------------------------------
(***************************************************************************)
(* Of the journal: its last line of a kind, and the lines a cycle adds.    *)
(***************************************************************************)
LEMMA LastIsOne ==
    ASSUME NEW n \in Nat, NEW S \in SUBSET (1..n), S # {}
    PROVE  Last0(S) \in S /\ \A y \in S : y <= Last0(S)
<1>. DEFINE Above(x) == {y \in S : y > x}
<1>. DEFINE T == {Above(x) : x \in S}
<1>1. IsFiniteSet(S)
  <2>1. IsFiniteSet(1..n)
    BY FS_Interval
  <2>. QED
    BY <2>1, FS_Subset
<1>2. T \subseteq FiniteSubsetsOf(S) /\ T # {}
  <2>1. T \subseteq FiniteSubsetsOf(S)
    BY <1>1, FS_FiniteSubsetsOfFinite
  <2>. QED
    BY <2>1
<1>3. PICK t \in T : \A u \in T : ~(<<u, t>> \in StrictSubsetOrdering(S))
  <2>1. IsWellFoundedOn(StrictSubsetOrdering(S), FiniteSubsetsOf(S))
    BY <1>1, FS_StrictSubsetOrderingWellFounded
  <2>. HIDE DEF T
  <2>. QED
    BY <1>2, <2>1, WFMin
<1>4. PICK x \in S : t = Above(x)
  BY <1>3
<1>5. \A y \in S : y <= x
  <2>. SUFFICES ASSUME NEW y \in S, y > x PROVE FALSE
    OBVIOUS
  <2>1. x \in Nat /\ y \in Nat
    OBVIOUS
  <2>2. y \in t /\ y \notin Above(y)
    BY <1>4, <2>1
  <2>3. \A z \in Above(y) : z \in t
    BY <1>4, <2>1
  <2>4. Above(y) \in SUBSET S /\ t \in SUBSET S /\ Above(y) \in T
    BY <1>4
  <2>. HIDE DEF T, Above
  <2>. QED
    BY <1>3, <2>2, <2>3, <2>4 DEF StrictSubsetOrdering
<1>. QED
  BY <1>5 DEF Last0, Max

LEMMA LastIsNat ==
    ASSUME NEW n \in Nat, NEW S \in SUBSET (1..n)
    PROVE  Last0(S) \in Nat /\ (S # {} => Last0(S) \in S)
<1>1. CASE S = {}
  BY <1>1 DEF Last0
<1>2. CASE S # {}
  <2>1. Last0(S) \in S
    BY <1>2, LastIsOne
  <2>2. \A x \in S : x \in Nat
    OBVIOUS
  <2>. QED
    BY <2>1, <2>2
<1>. QED
  BY <1>1, <1>2

LEMMA TransitionSeq ==
    ASSUME NEW js \in Seq(CertLine)
    PROVE  terminalHaltTransitionSeq(js) \in Nat /\ latestHaltSeq(js) \in Nat
<1>1. {i \in DOMAIN js : js[i].type \in {"HALT", "UNHALT"}} \in SUBSET (1..Len(js)) /\ Len(js) \in Nat
  OBVIOUS
<1>. QED
  BY <1>1, LastIsNat DEF terminalHaltTransitionSeq, latestHaltSeq

LEMMA AuthHaltTyped ==
    ASSUME Typed PROVE AuthHalt \in Nat
<1>1. {i \in DOMAIN lines : i > run.beforeFence /\ lines[i] = Halt("AUTH_FAILURE")} \in SUBSET (1..Len(lines))
      /\ Len(lines) \in Nat
  BY DEF Typed
<1>. QED
  BY <1>1, LastIsNat DEF AuthHalt

\* A HALT that was just appended is the one that stands.
LEMMA HaltStands ==
    ASSUME NEW js \in Seq(CertLine), NEW halt \in CertLine, halt.type = "HALT"
    PROVE  latestHaltSeq(Append(js, halt)) = Len(js) + 1
<1>. DEFINE new == Append(js, halt)
            S == {i \in DOMAIN new : new[i].type \in {"HALT", "UNHALT"}}
<1>1. new \in Seq(CertLine) /\ Len(new) = Len(js) + 1 /\ new[Len(js) + 1] = halt /\ Len(js) \in Nat
  BY AppendProperties
<1>. HIDE DEF new
<1>2. S \in SUBSET (1..(Len(js) + 1)) /\ Len(js) + 1 \in S /\ Len(js) + 1 \in Nat
  BY <1>1
<1>3. terminalHaltTransitionSeq(new) = Last0(S)
  BY DEF terminalHaltTransitionSeq
<1>. HIDE DEF S
<1>4. Last0(S) \in S /\ Len(js) + 1 <= Last0(S)
  BY <1>2, LastIsOne
<1>5. Last0(S) = Len(js) + 1
  <2>1. Last0(S) \in 1..(Len(js) + 1)
    BY <1>2, <1>4
  <2>. QED
    BY <2>1, <1>1, <1>4
<1>. QED
  BY <1>1, <1>3, <1>5 DEF latestHaltSeq, Halted, new

\* What a line may be that is no INTENT, and an end that is true now.
Harmless == {line \in CertLine : line.type \in {"HALT", "UNHALT", "CYCLE", "not_at_broker"}}
TrueEnd ==
    {line \in CertLine : /\ line.type \in {"filled", "canceled"}
                         /\ line.of \in Entries
                         /\ entryOrders[line.of] = line.type}

LEMMA ListsTheSet ==
    ASSUME NEW S, IsFiniteSet(S)
    PROVE  /\ SetToSeq(S) \in Seq(S)
           /\ Len(SetToSeq(S)) = Cardinality(S) /\ Cardinality(S) \in Nat
<1>1. Cardinality(S) \in Nat /\ ExistsBijection(1..Cardinality(S), S)
  BY FS_CardinalityType
<1>2. PICK f : f \in Bijection(1..Cardinality(S), S)
  BY <1>1, Fun_ExistsBij
<1>3. f \in [1..Cardinality(S) -> S] /\ \A a, b \in 1..Cardinality(S) : f[a] = f[b] => a = b
  BY <1>2, Fun_BijectionProperties
<1>4. f \in [1..Cardinality(S) -> S] /\ IsInjective(f)
  BY <1>3 DEF IsInjective
<1>5. SetToSeq(S) \in [1..Cardinality(S) -> S]
  BY <1>4 DEF SetToSeq
<1>6. SetToSeq(S) \in Seq(S)
  BY <1>1, <1>5, SeqDef
<1>7. Len(SetToSeq(S)) = Cardinality(S)
  BY <1>1, <1>5, <1>6
<1>. QED
  BY <1>1, <1>6, <1>7

LEMMA OutcomesAreTrue ==
    ASSUME Typed, NEW id \in Entries
    PROVE  OutcomeOf(id) \subseteq Harmless \cup TrueEnd /\ IsFiniteSet(OutcomeOf(id))
<1>1. entryOrders[id] \in {"filled", "canceled"} =>
        LineOf(entryOrders[id], id) \in TrueEnd
  BY DEF LineOf, TrueEnd, CertLine
<1>2. LineOf("not_at_broker", id) \in Harmless
  BY DEF LineOf, Harmless, CertLine
<1>. HIDE DEF TrueEnd, Harmless
<1>3. OutcomeOf(id) \subseteq Harmless \cup TrueEnd
  BY <1>1, <1>2 DEF OutcomeOf
<1>4. OutcomeOf(id) = {} \/ \E line : OutcomeOf(id) = {line}
  BY DEF OutcomeOf
<1>. QED
  BY <1>3, <1>4, FS_EmptySet, FS_Singleton

\* Every end the reconciliation writes is true at the broker.
LEMMA ReconciledLines ==
    ASSUME Typed
    PROVE  \E added \in Seq(Harmless \cup TrueEnd) : CycleReconciles = lines \o added
<1>. DEFINE U == unresolvedEntryIds(lines)
            all == {OutcomeOf(id) : id \in U}
            of == [id \in U |-> OutcomeOf(id)]
<1>1. U \subseteq Entries /\ IsFiniteSet(U)
  <2>1. U \subseteq Entries
    BY DEF unresolvedEntryIds
  <2>. QED
    BY <2>1, EntriesAssumption, FS_Subset
<1>2. IsFiniteSet(all)
  <2>1. of \in Surjection(U, all)
    BY Fun_IsSurj
  <2>. HIDE DEF of, all
  <2>. QED
    BY <2>1, <1>1, FS_Surjection
<1>3. UNION all \subseteq Harmless \cup TrueEnd /\ \A T \in all : IsFiniteSet(T)
  BY <1>1, OutcomesAreTrue
<1>. HIDE DEF all
<1>4. IsFiniteSet(UNION all)
  BY <1>2, <1>3, FS_UNION
<1>5. SetToSeq(UNION all) \in Seq(UNION all)
  BY <1>4, ListsTheSet
<1>6. SetToSeq(UNION all) \in Seq(Harmless \cup TrueEnd)
  <2>. DEFINE S == UNION all
              L == Harmless \cup TrueEnd
  <2>1. S \subseteq L /\ SetToSeq(S) \in Seq(S)
    BY <1>3, <1>5
  <2>. HIDE DEF S, L
  <2>2. SetToSeq(S) \in Seq(L)
    BY <2>1
  <2>. QED
    BY <2>2 DEF S, L
<1>. QED
  BY <1>6 DEF CycleReconciles, all

\* Where every open entry is seen in the journal, none open means that nothing may still fill.
LEMMA ResolvedIsSettled ==
    ASSUME Typed, Recorded, unresolvedEntryIds(lines) = {}
    PROVE  Settled
<1>. SUFFICES ASSUME NEW id \in Entries, entryOrders[id] \in {"in_flight", "working"} PROVE FALSE
  BY DEF Settled
<1>0. DOMAIN lines = 1..Len(lines)
  BY DEF Typed
<1>1. \E i \in DOMAIN lines : lines[i] = IntentOf(id)
  BY <1>0 DEF Recorded, IntentsFirst
<1>2. \E i \in DOMAIN lines : lines[i].type \in {"filled", "canceled"} /\ lines[i].of = id
  BY <1>1 DEF unresolvedEntryIds
<1>. QED
  BY <1>0, <1>2 DEF Recorded, EndsAreTrue

\* The run's window, by the places of its lines.
LEMMA Window ==
    ASSUME Typed
    PROVE  /\ DOMAIN inCurrentWindow(lines) = 1..(Len(lines) - run.startedAt)
           /\ \A i \in 1..(Len(lines) - run.startedAt) :
                inCurrentWindow(lines)[i] = lines[run.startedAt + i]
           /\ run.startedAt \in Nat /\ Len(lines) \in Nat /\ run.startedAt <= Len(lines)
<1>. DEFINE s == run.startedAt
            n == Len(lines)
<1>1. s \in Nat /\ n \in Nat /\ s <= n
  BY DEF Typed, RunState
<1>2. \A i \in 1..n : lines[i] \in CertLine
  BY DEF Typed
<1>. HIDE DEF s, n
<1>3. \A i \in (s + 1)..n : lines[i] \in CertLine
  BY <1>1, <1>2
<1>4. /\ SubSeq(lines, s + 1, n) \in Seq(CertLine)
      /\ Len(SubSeq(lines, s + 1, n)) = IF s + 1 <= n THEN n - (s + 1) + 1 ELSE 0
      /\ \A i \in 1..(n - (s + 1) + 1) : SubSeq(lines, s + 1, n)[i] = lines[s + 1 + i - 1]
  BY <1>1, <1>3, SubSeqProperties
<1>5. inCurrentWindow(lines) = SubSeq(lines, s + 1, n)
  BY DEF inCurrentWindow, s, n
<1>. DEFINE w == inCurrentWindow(lines)
<1>6. w \in Seq(CertLine) /\ Len(w) = n - s
  BY <1>1, <1>4, <1>5
<1>7. \A i \in 1..(n - s) : w[i] = lines[s + i]
  <2>. TAKE i \in 1..(n - s)
  <2>1. i \in 1..(n - (s + 1) + 1) /\ s + 1 + i - 1 = s + i
    BY <1>1
  <2>. QED
    BY <2>1, <1>4, <1>5
<1>8. DOMAIN w = 1..(n - s)
  <2>. HIDE DEF w
  <2>. QED
    BY <1>6
<1>. QED
  BY <1>1, <1>7, <1>8 DEF s, n

LEMMA WindowHolds ==
    ASSUME Typed, NEW line
    PROVE  (\E i \in DOMAIN inCurrentWindow(lines) : inCurrentWindow(lines)[i] = line)
             <=> \E i \in (run.startedAt + 1)..Len(lines) : lines[i] = line
<1>. DEFINE s == run.startedAt
            n == Len(lines)
            w == inCurrentWindow(lines)
<1>1. /\ DOMAIN w = 1..(n - s)
      /\ \A i \in 1..(n - s) : w[i] = lines[s + i]
      /\ s \in Nat /\ n \in Nat /\ s <= n
  BY Window
<1>. HIDE DEF s, n, w
<1>2. ASSUME NEW i \in DOMAIN w, w[i] = line
      PROVE  \E k \in (s + 1)..n : lines[k] = line
  <2>1. s + i \in (s + 1)..n /\ lines[s + i] = line
    BY <1>1, <1>2
  <2>. QED
    BY <2>1
<1>3. ASSUME NEW k \in (s + 1)..n, lines[k] = line
      PROVE  \E i \in DOMAIN w : w[i] = line
  <2>1. k - s \in 1..(n - s) /\ s + (k - s) = k
    BY <1>1
  <2>. QED
    BY <2>1, <1>1, <1>3
<1>. QED
  BY <1>2, <1>3 DEF s, n, w

LEMMA WindowFilled ==
    ASSUME Typed
    PROVE  filledEntryExists(inCurrentWindow(lines)) <=> \E id \in Entries : FilledInRun(id)
<1>1. \A id \in Entries :
        /\ (\E i \in DOMAIN inCurrentWindow(lines) : inCurrentWindow(lines)[i] = IntentOf(id))
             <=> \E i \in (run.startedAt + 1)..Len(lines) : lines[i] = IntentOf(id)
        /\ (\E i \in DOMAIN inCurrentWindow(lines) : inCurrentWindow(lines)[i] = LineOf("filled", id))
             <=> \E i \in (run.startedAt + 1)..Len(lines) : lines[i] = LineOf("filled", id)
  BY WindowHolds
<1>. QED
  BY <1>1 DEF filledEntryExists, FilledInRun

\* An entry the cycle may submit meets no other that is live: the window has no open and no filled one.
LEMMA WindowFree ==
    ASSUME Typed, Recorded, ~unresolvedEntryExists(inCurrentWindow(lines)),
           \A id \in Entries : ~FilledInRun(id)
    PROVE  \A id \in Entries : ~LiveInRun(id)
<1>. SUFFICES ASSUME NEW id \in Entries, LiveInRun(id) PROVE FALSE
  OBVIOUS
<1>. DEFINE s == run.startedAt
            n == Len(lines)
            w == inCurrentWindow(lines)
<1>1. /\ DOMAIN w = 1..(n - s)
      /\ \A i \in 1..(n - s) : w[i] = lines[s + i]
      /\ s \in Nat /\ n \in Nat /\ s <= n
  BY Window
<1>2. \E i \in DOMAIN w : w[i] = IntentOf(id)
  BY WindowHolds DEF LiveInRun
<1>3. PICK i \in DOMAIN w : w[i].type \in {"filled", "canceled"} /\ w[i].of = id
  BY <1>2 DEF unresolvedEntryExists, unresolvedEntryIds
<1>. HIDE DEF s, n, w
<1>4. s + i \in (s + 1)..n /\ s + i \in 1..n /\ lines[s + i] = w[i]
  BY <1>1
<1>5. lines[s + i].type = "filled" /\ lines[s + i].of = id
  <2>1. entryOrders[id] = lines[s + i].type
    BY <1>3, <1>4 DEF Recorded, EndsAreTrue, n
  <2>2. entryOrders[id] # "canceled"
    BY DEF LiveInRun
  <2>. QED
    BY <2>1, <2>2, <1>3, <1>4
<1>6. lines[s + i] = LineOf("filled", id)
  <2>1. lines[s + i] \in CertLine
    BY <1>4 DEF Typed, n
  <2>. QED
    BY <2>1, <1>5 DEF LineOf, CertLine
<1>7. FilledInRun(id)
  BY <1>4, <1>6 DEF FilledInRun, LiveInRun, s, n
<1>. QED
  BY <1>7

-----------------------------------------------------------------------------
(***************************************************************************)
(* What any step does to the journal and to the entry orders.              *)
(***************************************************************************)
Extends(js, S) ==
    /\ js \in Seq(CertLine)
    /\ Len(lines) <= Len(js)
    /\ \A i \in 1..Len(lines) : js[i] = lines[i]
    /\ \A i \in (Len(lines) + 1)..Len(js) : js[i] \in S

\* Orders rest, fill and are canceled; ends are journaled.
Settles ==
    /\ Extends(lines', Harmless \cup TrueEnd)
    /\ entryOrders' \in [Entries -> Statuses]
    /\ \A id \in Entries :
         \/ entryOrders'[id] = entryOrders[id]
         \/ entryOrders[id] = "in_flight" /\ entryOrders'[id] = "working"
         \/ entryOrders[id] = "working" /\ entryOrders'[id] \in {"filled", "canceled"}

\* New entries are submitted, each with its INTENT.
Submits(ids) ==
    /\ Extends(lines', Harmless \cup TrueEnd \cup {IntentOf(id) : id \in ids})
    /\ \A id \in ids : \E i \in 1..Len(lines') : lines'[i] = IntentOf(id)
    /\ entryOrders' \in [Entries -> Statuses]
    /\ \A id \in ids : entryOrders[id] = "none" /\ entryOrders'[id] \in {"in_flight", "working"}
    /\ \A other \in Entries \ ids : entryOrders'[other] = entryOrders[other]

LEMMA ExtendsItself == ASSUME Typed, NEW S PROVE Extends(lines, S)
<1>1. lines \in Seq(CertLine) /\ Len(lines) \in Nat
  BY DEF Typed
<1>. QED
  BY <1>1 DEF Extends

LEMMA ExtendsFurther ==
    ASSUME Typed, NEW S \in SUBSET CertLine, NEW js, Extends(js, S), NEW more \in Seq(S)
    PROVE  Extends(js \o more, S)
<1>. DEFINE new == js \o more
<1>1. js \in Seq(CertLine) /\ more \in Seq(CertLine) /\ more \in Seq(S)
  BY DEF Extends
<1>2. Len(js) \in Nat /\ Len(more) \in Nat /\ Len(lines) \in Nat /\ Len(lines) <= Len(js)
  BY <1>1 DEF Typed, Extends
<1>3. /\ new \in Seq(CertLine)
      /\ Len(new) = Len(js) + Len(more)
      /\ \A i \in 1..(Len(js) + Len(more)) : new[i] = IF i <= Len(js) THEN js[i] ELSE more[i - Len(js)]
  BY <1>1, ConcatProperties
<1>4. \A i \in 1..Len(more) : more[i] \in S
  BY <1>1
<1>5. \A i \in 1..Len(lines) : new[i] = lines[i]
  <2>. HIDE DEF new
  <2>. QED
    BY <1>2, <1>3 DEF Extends
<1>6. \A i \in (Len(lines) + 1)..Len(new) : new[i] \in S
  <2>. HIDE DEF new
  <2>. TAKE i \in (Len(lines) + 1)..Len(new)
  <2>1. CASE i <= Len(js)
    BY <2>1, <1>2, <1>3 DEF Extends
  <2>2. CASE ~(i <= Len(js))
    <3>1. i \in 1..(Len(js) + Len(more)) /\ i - Len(js) \in 1..Len(more)
      BY <2>2, <1>2, <1>3
    <3>2. new[i] = more[i - Len(js)]
      BY <2>2, <1>3, <3>1
    <3>. QED
      BY <3>1, <3>2, <1>4
  <2>. QED
    BY <2>1, <2>2
<1>7. Len(lines) <= Len(new)
  BY <1>2, <1>3
<1>. HIDE DEF new
<1>8. Extends(new, S)
  BY <1>3, <1>5, <1>6, <1>7 DEF Extends
<1>. QED
  BY <1>8 DEF new

LEMMA ExtendsByOne ==
    ASSUME Typed, NEW S \in SUBSET CertLine, NEW js, Extends(js, S), NEW line \in S
    PROVE  Extends(Append(js, line), S)
<1>. DEFINE new == Append(js, line)
<1>1. js \in Seq(CertLine) /\ line \in CertLine
  BY DEF Extends
<1>2. Len(js) \in Nat /\ Len(lines) \in Nat /\ Len(lines) <= Len(js)
  BY <1>1 DEF Typed, Extends
<1>3. /\ new \in Seq(CertLine)
      /\ Len(new) = Len(js) + 1
      /\ \A i \in 1..Len(js) : new[i] = js[i]
      /\ new[Len(js) + 1] = line
  BY <1>1, AppendProperties
<1>. HIDE DEF new
<1>4. \A i \in 1..Len(lines) : new[i] = lines[i]
  BY <1>2, <1>3 DEF Extends
<1>5. \A i \in (Len(lines) + 1)..Len(new) : new[i] \in S
  BY <1>2, <1>3 DEF Extends
<1>6. Len(lines) <= Len(new)
  BY <1>2, <1>3
<1>7. Extends(new, S)
  BY <1>3, <1>4, <1>5, <1>6 DEF Extends
<1>. QED
  BY <1>7 DEF new

LEMMA ExtendsWider ==
    ASSUME NEW S, NEW T, S \subseteq T, NEW js, Extends(js, S)
    PROVE  Extends(js, T)
BY DEF Extends

LEMMA LineKinds ==
    /\ Harmless \subseteq CertLine
    /\ TrueEnd \subseteq CertLine
    /\ CycleLine \in Harmless /\ Unhalt \in Harmless
    /\ \A reason \in {"MANUAL", "AUTH_FAILURE", "ACCOUNT_BINDING_MISMATCH"} : Halt(reason) \in Harmless
    /\ \A id \in Entries : IntentOf(id) \in CertLine
BY DEF Harmless, TrueEnd, CertLine, CycleLine, Unhalt, Halt, IntentOf, LineOf

LEMMA ReconcilesExtends ==
    ASSUME Typed PROVE Extends(CycleReconciles, Harmless \cup TrueEnd)
<1>. DEFINE L == Harmless \cup TrueEnd
<1>1. PICK added \in Seq(L) : CycleReconciles = lines \o added
  BY ReconciledLines
<1>2. L \in SUBSET CertLine
  BY LineKinds
<1>. HIDE DEF L
<1>3. Extends(lines \o added, L)
  BY <1>2, ExtendsItself, ExtendsFurther
<1>. QED
  BY <1>1, <1>3 DEF L

LEMMA CycleExtends ==
    ASSUME Typed, lines' = Append(CycleReconciles, CycleLine)
    PROVE  Extends(lines', Harmless \cup TrueEnd)
<1>. DEFINE L == Harmless \cup TrueEnd
<1>1. L \in SUBSET CertLine /\ CycleLine \in L /\ Extends(CycleReconciles, L)
  BY LineKinds, ReconcilesExtends
<1>. HIDE DEF L
<1>2. Extends(Append(CycleReconciles, CycleLine), L)
  BY <1>1, ExtendsByOne
<1>. QED
  BY <1>2 DEF L

LEMMA LineExtends ==
    ASSUME Typed, NEW line \in Harmless, lines' = Append(lines, line)
    PROVE  Extends(lines', Harmless)
BY LineKinds, ExtendsItself, ExtendsByOne

LEMMA BatchSubmits ==
    ASSUME Typed, SubmitBatch
    PROVE  \E ids \in SUBSET Entries : Submits(ids)
<1>. DEFINE L == Harmless \cup TrueEnd
            js == Append(CycleReconciles, CycleLine)
<1>1. IsFiniteSet(Unused)
  BY EntriesAssumption, FS_Subset DEF Unused
<1>2. PICK n \in 1..Cardinality(Unused), unclear \in BOOLEAN :
        LET batch == SubSeq(SetToSeq(Unused), 1, n)
        IN  /\ entryOrders' = [id \in Entries |->
                 IF id \notin ToSet(batch) THEN entryOrders[id]
                 ELSE IF unclear /\ id = Last(batch) THEN "in_flight" ELSE "working"]
            /\ lines' = js \o [i \in 1..n |-> IntentOf(batch[i])]
  BY DEF SubmitBatch
<1>. DEFINE batch == SubSeq(SetToSeq(Unused), 1, n)
            ids == ToSet(batch)
            intents == [i \in 1..n |-> IntentOf(batch[i])]
            M == L \cup {IntentOf(id) : id \in ids}
<1>3. batch \in Seq(Unused) /\ Len(batch) = n /\ n \in Nat
  <2>. DEFINE all == SetToSeq(Unused)
  <2>1. all \in Seq(Unused) /\ Len(all) = Cardinality(Unused) /\ Cardinality(Unused) \in Nat
    BY <1>1, ListsTheSet
  <2>. HIDE DEF all
  <2>2. \A i \in 1..n : all[i] \in Unused
    BY <2>1
  <2>3. SubSeq(all, 1, n) \in Seq(Unused) /\ Len(SubSeq(all, 1, n)) = n
    BY <2>1, <2>2, SubSeqProperties
  <2>. QED
    BY <2>3 DEF all
<1>4. entryOrders' = [id \in Entries |->
                 IF id \notin ids THEN entryOrders[id]
                 ELSE IF unclear /\ id = Last(batch) THEN "in_flight" ELSE "working"]
      /\ lines' = js \o intents
  BY <1>2
<1>. HIDE DEF batch
<1>5. ids \subseteq Unused /\ (\A i \in 1..n : batch[i] \in ids)
      /\ \A id \in ids : \E i \in 1..n : batch[i] = id
  BY <1>3 DEF ToSet
<1>. HIDE DEF ids
<1>6. ids \subseteq Entries /\ \A id \in ids : entryOrders[id] = "none"
  BY <1>5 DEF Unused
<1>7. L \subseteq M /\ M \in SUBSET CertLine /\ CycleLine \in L
  BY <1>6, LineKinds
<1>8. intents \in Seq(M) /\ Len(intents) = n
  <2>1. intents \in [1..n -> M]
    BY <1>5
  <2>. HIDE DEF intents, M
  <2>. QED
    BY <2>1, <1>3, SeqDef
<1>9. Extends(js, M)
  <2>1. Extends(CycleReconciles, L)
    BY ReconcilesExtends
  <2>2. Extends(CycleReconciles, M)
    <3>. HIDE DEF L, M
    <3>. QED
      BY <2>1, <1>7, ExtendsWider
  <2>3. CycleLine \in M
    BY <1>7
  <2>. HIDE DEF L, M
  <2>. QED
    BY <2>2, <2>3, <1>7, ExtendsByOne
<1>10. Extends(lines', M)
  <2>. HIDE DEF M, intents, js
  <2>. QED
    BY <1>4, <1>7, <1>8, <1>9, ExtendsFurther
<1>11. ASSUME NEW id \in ids PROVE \E i \in 1..Len(lines') : lines'[i] = IntentOf(id)
  <2>1. PICK i \in 1..n : batch[i] = id
    BY <1>5
  <2>2. js \in Seq(CertLine) /\ intents \in Seq(CertLine) /\ intents[i] = IntentOf(id)
    <3>1. intents \in Seq(CertLine)
      <4>. HIDE DEF M, intents
      <4>. QED
        BY <1>7, <1>8
    <3>2. js \in Seq(CertLine)
      <4>. HIDE DEF M, js
      <4>. QED
        BY <1>9 DEF Extends
    <3>. QED
      BY <2>1, <3>1, <3>2
  <2>. HIDE DEF js, intents
  <2>3. /\ Len(js \o intents) = Len(js) + Len(intents)
        /\ \A k \in 1..(Len(js) + Len(intents)) :
             (js \o intents)[k] = IF k <= Len(js) THEN js[k] ELSE intents[k - Len(js)]
    BY <2>2, ConcatProperties
  <2>4. Len(js) \in Nat /\ i \in 1..n
    BY <2>1, <2>2
  <2>5. Len(js) + i \in 1..(Len(js) + Len(intents)) /\ ~(Len(js) + i <= Len(js)) /\ (Len(js) + i) - Len(js) = i
    BY <2>4, <1>3, <1>8
  <2>6. (js \o intents)[Len(js) + i] = IntentOf(id)
    BY <2>2, <2>3, <2>5
  <2>. QED
    BY <2>3, <2>5, <2>6, <1>4
<1>12. /\ entryOrders' \in [Entries -> Statuses]
       /\ \A id \in ids : entryOrders'[id] \in {"in_flight", "working"}
       /\ \A other \in Entries \ ids : entryOrders'[other] = entryOrders[other]
  BY <1>4, <1>6 DEF Typed, Statuses
<1>13. Submits(ids)
  BY <1>6, <1>10, <1>11, <1>12 DEF Submits
<1>. QED
  BY <1>6, <1>13

LEMMA FreshTyped == Fresh \in RunState
BY DEF Fresh, RunState

LEMMA ThrowTyped ==
    ASSUME Typed, Throw
    PROVE  /\ run' \in RunState
           /\ run'.startedAt = run.startedAt
           /\ run'.pc = "recover" /\ run'.stage = "before"
           /\ run'.unhaltSeq = 0 /\ run'.verdict = "none"
BY FreshTyped DEF Throw, Become, Fresh, Typed, RunState

\* The run's record keeps its form and its window, and the epoch is not won back.
LEMMA StepTyped ==
    ASSUME Typed, [CertNext]_certVars
    PROVE  /\ run' \in RunState
           /\ run'.startedAt = run.startedAt
           /\ writer' = writer \/ writer' = "other"
<1>. DEFINE Goal == run' \in RunState /\ run'.startedAt = run.startedAt /\ (writer' = writer \/ writer' = "other")
<1>0. run \in RunState /\ lines \in Seq(CertLine) /\ Fresh \in RunState
  BY FreshTyped DEF Typed
<1>1. CASE Throw /\ UNCHANGED writer
  BY <1>1, ThrowTyped
<1>2. CASE EntryCycle
  <2>a. PICK more \in Nat : more = run.attempt + 1
    BY <1>0 DEF RunState
  <2>b. PICK none \in [Entries -> Nat] : none = Fresh.resting
    BY DEF Fresh
  <2>1. CASE EntryPhaseOver
    <3>1. run' = [run EXCEPT !.pc = "flatten", !.attempt = 0, !.resting = none] /\ UNCHANGED writer
      BY <1>2, <2>b, <2>1 DEF EntryCycle, Become
    <3>. QED
      BY <1>0, <3>1 DEF RunState
  <2>2. CASE run' = [run EXCEPT !.pc = "observe", !.attempt = more] /\ UNCHANGED writer
    BY <1>0, <2>2 DEF RunState
  <2>. QED
    BY <1>1, <1>2, <2>a, <2>1, <2>2 DEF EntryCycle, LiveCycle, Become
<1>3. CASE ObserveOrders
  <2>1. CASE ~IsWriter /\ Throw
    BY <1>1, <1>3, <2>1 DEF ObserveOrders
  <2>2. CASE IsWriter /\ filledEntryExists(inCurrentWindow(lines))
    BY <1>0, <1>3, <2>2 DEF ObserveOrders, Goto, Become, RunState
  <2>3. CASE IsWriter /\ ~filledEntryExists(inCurrentWindow(lines))
    <3>. DEFINE resting == [id \in Entries |-> Resting(id)]
    <3>1. resting \in [Entries -> Nat]
      BY <1>0 DEF Resting, RunState
    <3>2. run' = [run EXCEPT !.pc = "entry", !.resting = resting] /\ writer' = writer
      BY <1>3, <2>3 DEF ObserveOrders, Become
    <3>. HIDE DEF resting
    <3>. QED
      BY <1>0, <3>1, <3>2 DEF RunState
  <2>. QED
    BY <1>3, <2>1, <2>2, <2>3 DEF ObserveOrders
<1>4. CASE LastEntryCycle
  <2>b. PICK none \in [Entries -> Nat] : none = Fresh.resting
    BY DEF Fresh
  <2>1. CASE run' = [run EXCEPT !.pc = "flatten", !.attempt = 0, !.resting = none] /\ UNCHANGED writer
    BY <1>0, <2>1 DEF RunState
  <2>. QED
    BY <1>1, <1>4, <2>b, <2>1 DEF LastEntryCycle, LiveCycle, Become
<1>5. CASE FlattenCycle
  <2>a. PICK more \in Nat : more = run.attempt + 1
    BY <1>0 DEF RunState
  <2>1. CASE run' = [run EXCEPT !.pc = "open", !.attempt = 0] /\ UNCHANGED writer
    BY <1>0, <2>1 DEF RunState
  <2>2. CASE run' = [run EXCEPT !.attempt = more] /\ UNCHANGED writer
    BY <1>0, <2>2 DEF RunState
  <2>. QED
    BY <1>1, <1>5, <2>a, <2>1, <2>2 DEF FlattenCycle, LiveCycle, Become
<1>6. CASE OpenJournal
  <2>a. PICK seen \in Nat : seen = terminalJournalSeq(lines)
    BY DEF Typed, terminalJournalSeq
  <2>b. PICK halt \in Nat : halt = IF run.stage = "reconcile" THEN AuthHalt ELSE run.haltSeq
    BY <1>0, AuthHaltTyped DEF RunState
  <2>1. CASE run' = [run EXCEPT !.pc = "snapshot", !.seen = seen, !.haltSeq = halt] /\ UNCHANGED writer
    BY <1>0, <2>1 DEF RunState
  <2>2. \/ Throw
        \/ run' = [run EXCEPT !.pc = "snapshot", !.seen = seen, !.haltSeq = halt]
    BY <1>6, <2>a, <2>b DEF OpenJournal, Become
  <2>3. UNCHANGED writer
    BY <1>6 DEF OpenJournal
  <2>. QED
    BY <1>1, <2>1, <2>2, <2>3
<1>7. CASE FullSnapshot
  <2>1. ASSUME NEW flat \in BOOLEAN, run' = [run EXCEPT !.pc = "reopen", !.flat = flat], UNCHANGED writer
        PROVE  Goal
    BY <1>0, <2>1 DEF RunState
  <2>2. Throw \/ \E flat \in BOOLEAN : run' = [run EXCEPT !.pc = "reopen", !.flat = flat]
    <3>1. Snapshots \subseteq BOOLEAN
      BY DEF Snapshots, Flat
    <3>. QED
      BY <1>7, <3>1 DEF FullSnapshot, Become
  <2>3. UNCHANGED writer
    BY <1>7 DEF FullSnapshot
  <2>. QED
    BY <1>1, <2>1, <2>2, <2>3
<1>8. CASE ReopenJournal
  <2>a. PICK drill \in Nat : drill = IF run.stage = "before" THEN terminalJournalSeq(lines) ELSE run.beforeFence
    BY <1>0 DEF Typed, terminalJournalSeq, RunState
  <2>b. PICK next \in {"fence", "approval", "unhalt", "certify"} : next = NextOf[run.stage]
    BY <1>0 DEF NextOf, RunState
  <2>1. CASE run' = [run EXCEPT !.pc = next, !.beforeFence = drill] /\ UNCHANGED writer
    BY <1>0, <2>1 DEF RunState
  <2>2. Throw \/ run' = [run EXCEPT !.pc = next, !.beforeFence = drill]
    BY <1>8, <2>a, <2>b DEF ReopenJournal, Become
  <2>3. UNCHANGED writer
    BY <1>8 DEF ReopenJournal
  <2>. QED
    BY <1>1, <2>1, <2>2, <2>3
<1>9. CASE FenceCycle
  BY <1>0, <1>1, <1>9 DEF FenceCycle, LiveCycle, Become, RunState
<1>10. CASE FenceOrders
  BY <1>0, <1>1, <1>10 DEF FenceOrders, Become, RunState
<1>11. CASE AwaitHumanApproval
  BY <1>0, <1>1, <1>11 DEF AwaitHumanApproval, Become, RunState
<1>12. CASE manualUnhalt
  <2>1. ASSUME NEW seq \in Nat, run' = [run EXCEPT !.pc = "open", !.stage = "final", !.unhaltSeq = seq], UNCHANGED writer
        PROVE  Goal
    BY <1>0, <2>1 DEF RunState
  <2>2. Throw \/ \E seq \in Nat : run' = [run EXCEPT !.pc = "open", !.stage = "final", !.unhaltSeq = seq]
    <3>1. lines' = Append(lines, Unhalt) => Len(lines') \in Nat
      BY <1>0, LineKinds, AppendProperties
    <3>. QED
      BY <1>12, <3>1 DEF manualUnhalt, Become
  <2>3. UNCHANGED writer
    BY <1>12 DEF manualUnhalt
  <2>. QED
    BY <1>1, <2>1, <2>2, <2>3
<1>13. CASE BuildCertificate
  BY <1>0, <1>1, <1>13 DEF BuildCertificate, Become, RunState
<1>a. ASSUME NEW pc \in {"recover_snapshot", "recover_reopen", "recover_cycle"},
             run' = [run EXCEPT !.pc = pc], UNCHANGED writer
      PROVE  Goal
  BY <1>0, <1>a DEF RunState
<1>14. CASE RecoveryBarrier
  <2>1. ASSUME NEW pc \in {"recover_snapshot", "recover_cycle"}, NEW halt \in Nat, NEW seen \in Nat,
               run' = [run EXCEPT !.pc = pc, !.haltSeq = halt, !.seen = seen], UNCHANGED writer
        PROVE  Goal
    BY <1>0, <2>1 DEF RunState
  <2>2. CASE IsWriter /\ lines' = IF Halted(lines) THEN lines ELSE Append(lines, Halt("MANUAL"))
    <3>1. lines' \in Seq(CertLine)
      BY <1>0, <2>2, LineKinds, AppendProperties
    <3>2. latestHaltSeq(lines') \in Nat /\ terminalJournalSeq(lines') \in Nat
      BY <3>1, TransitionSeq DEF terminalJournalSeq
    <3>. QED
      BY <1>14, <1>a, <2>1, <3>2 DEF RecoveryBarrier, Become, Goto
  <2>. QED
    BY <1>14, <1>a, <2>2 DEF RecoveryBarrier, Become, Goto
<1>15. CASE RecoverySnapshot
  BY <1>15, <1>a DEF RecoverySnapshot, Goto, Become
<1>16. CASE RecoveryReopen
  <2>1. CASE run' = [run EXCEPT !.pc = "ended", !.verdict = "recovered"] /\ UNCHANGED writer
    BY <1>0, <2>1 DEF RunState
  <2>. QED
    BY <1>16, <1>a, <2>1 DEF RecoveryReopen, Goto, Become
<1>17. CASE RecoveryCycle
  <2>a. PICK more \in Nat : more = run.attempt + 1
    BY <1>0 DEF RunState
  <2>1. CASE run' = [run EXCEPT !.pc = "recover", !.attempt = more] /\ UNCHANGED writer
    BY <1>0, <2>1 DEF RunState
  <2>2. CASE run' = [run EXCEPT !.pc = "ended", !.verdict = "unresolved"] /\ UNCHANGED writer
    BY <1>0, <2>2 DEF RunState
  <2>. QED
    BY <1>17, <2>a, <2>1, <2>2 DEF RecoveryCycle, Become
<1>18. CASE TakeOver \/ OtherTrades \/ OtherAppends \/ HumanUnhalts
  BY <1>0, <1>18 DEF TakeOver, OtherTrades, OtherAppends, HumanUnhalts, OtherLine, Other
<1>19. CASE \E id \in Entries : EntryArrives(id) \/ OrderFills(id) \/ CloseFills(id)
  BY <1>0, <1>19 DEF EntryArrives, OrderFills, CloseFills
<1>20. CASE UNCHANGED certVars
  BY <1>0, <1>20 DEF certVars
<1>. QED
  BY <1>2, <1>3, <1>4, <1>5, <1>6, <1>7, <1>8, <1>9, <1>10, <1>11, <1>12, <1>13, <1>14, <1>15,
     <1>16, <1>17, <1>18, <1>19, <1>20 DEF CertNext

LEMMA LinesKept ==
    ASSUME Typed, UNCHANGED lines
    PROVE  Extends(lines', Harmless) /\ Extends(lines', Harmless \cup TrueEnd)
BY ExtendsItself

LEMMA OrdersKept ==
    ASSUME Typed, UNCHANGED entryOrders,
           Extends(lines', Harmless \cup TrueEnd) \/ Extends(lines', Harmless)
    PROVE  Settles
<1>1. Extends(lines', Harmless \cup TrueEnd)
  BY ExtendsWider
<1>. QED
  BY <1>1 DEF Settles, Typed

LEMMA OrdersCanceled ==
    ASSUME Typed, Extends(lines', Harmless \cup TrueEnd), NEW C \in SUBSET Entries,
           \A id \in C : Working(id),
           entryOrders' = [id \in Entries |-> IF id \in C THEN "canceled" ELSE entryOrders[id]]
    PROVE  Settles
<1>1. entryOrders' \in [Entries -> Statuses]
  BY DEF Typed, Statuses
<1>2. \A id \in Entries : \/ entryOrders'[id] = entryOrders[id]
                          \/ entryOrders[id] = "working" /\ entryOrders'[id] = "canceled"
  BY DEF Working
<1>. QED
  BY <1>1, <1>2 DEF Settles

LEMMA FlattenSettles ==
    ASSUME Typed, Flatten PROVE Settles
<1>. DEFINE C == {id \in Entries : Working(id)}
<1>1. Extends(lines', Harmless \cup TrueEnd)
  BY CycleExtends DEF Flatten
<1>2. entryOrders' = [id \in Entries |-> IF id \in C THEN "canceled" ELSE entryOrders[id]]
  BY DEF Flatten
<1>3. C \in SUBSET Entries /\ \A id \in C : Working(id)
  OBVIOUS
<1>. HIDE DEF C
<1>. QED
  BY <1>1, <1>2, <1>3, OrdersCanceled

LEMMA QuietSettles ==
    ASSUME Typed, Quiet PROVE Settles
<1>1. Extends(lines', Harmless \cup TrueEnd) /\ UNCHANGED entryOrders
  BY CycleExtends DEF Quiet, broker
<1>. QED
  BY <1>1, OrdersKept

\* Every step either submits a batch or settles what is there; as the writer, only the run submits.
LEMMA StepMoves ==
    ASSUME Typed, [CertNext]_certVars
    PROVE  \/ Settles
           \/ /\ SubmitBatch
              /\ \/ ~IsWriter
                 \/ /\ run.pc = "entry" /\ run'.pc = "observe"
                    /\ ~unresolvedEntryExists(inCurrentWindow(lines))
<1>1. CASE UNCHANGED <<lines, entryOrders>>
  BY <1>1, LinesKept, OrdersKept
<1>2. CASE EntryCycle
  <2>1. CASE Quiet
    BY <2>1, QuietSettles
  <2>2. CASE /\ ~unresolvedEntryExists(inCurrentWindow(lines)) /\ SubmitBatch
             /\ run' = [run EXCEPT !.pc = "observe", !.attempt = @ + 1]
    <3>1. run'.pc = "observe" /\ run.pc = "entry"
      BY <1>2, <2>2 DEF EntryCycle, Typed, RunState
    <3>. QED
      BY <2>2, <3>1
  <2>. QED
    BY <1>1, <1>2, <2>1, <2>2 DEF EntryCycle, LiveCycle, Become, broker
<1>3. CASE ObserveOrders
  <2>. DEFINE resting == [id \in Entries |-> Resting(id)]
              C == {id \in Entries : resting[id] # 0 /\ run.attempt - resting[id] >= PatienceCycles}
  <2>1. CASE entryOrders' = [id \in Entries |-> IF id \in C THEN "canceled" ELSE entryOrders[id]]
    <3>1. \A id \in C : Working(id)
      BY DEF Resting
    <3>2. Extends(lines', Harmless \cup TrueEnd)
      BY <1>3, LinesKept DEF ObserveOrders
    <3>. HIDE DEF C
    <3>. QED
      <4>1. C \in SUBSET Entries
        BY DEF C
      <4>. QED
        BY <2>1, <3>1, <3>2, <4>1, OrdersCanceled
  <2>2. CASE UNCHANGED entryOrders
    BY <1>1, <1>3, <2>2 DEF ObserveOrders
  <2>3. UNCHANGED entryOrders
        \/ entryOrders' = [id \in Entries |-> IF id \in C THEN "canceled" ELSE entryOrders[id]]
    BY <1>3 DEF ObserveOrders
  <2>. QED
    BY <2>1, <2>2, <2>3
<1>4. CASE LastEntryCycle
  <2>1. CASE Quiet
    BY <2>1, QuietSettles
  <2>. QED
    BY <1>1, <1>4, <2>1 DEF LastEntryCycle, LiveCycle, broker
<1>5. CASE FlattenCycle
  <2>1. CASE Flatten
    BY <2>1, FlattenSettles
  <2>. QED
    BY <1>1, <1>5, <2>1 DEF FlattenCycle, LiveCycle, broker
<1>6. CASE OpenJournal \/ FullSnapshot \/ ReopenJournal \/ AwaitHumanApproval \/ BuildCertificate
           \/ RecoverySnapshot \/ RecoveryReopen \/ TakeOver
  BY <1>1, <1>6 DEF OpenJournal, FullSnapshot, ReopenJournal, AwaitHumanApproval, BuildCertificate,
     RecoverySnapshot, RecoveryReopen, TakeOver, broker
<1>7. CASE FenceCycle
  <2>1. CASE UNCHANGED broker /\ \E more \in {<<Halt("AUTH_FAILURE"), CycleLine>>, <<CycleLine>>} : lines' = lines \o more
    <3>1. PICK more \in {<<Halt("AUTH_FAILURE"), CycleLine>>, <<CycleLine>>} : lines' = lines \o more
      BY <2>1
    <3>2. more \in Seq(Harmless)
      <4>1. Halt("AUTH_FAILURE") \in Harmless /\ CycleLine \in Harmless
        BY LineKinds
      <4>. QED
        BY <3>1, <4>1
    <3>3. Extends(lines', Harmless)
      BY <3>1, <3>2, LineKinds, ExtendsItself, ExtendsFurther
    <3>. QED
      BY <2>1, <3>3, OrdersKept DEF broker
  <2>2. \/ UNCHANGED <<lines, broker>>
        \/ UNCHANGED broker /\ \E more \in {<<Halt("AUTH_FAILURE"), CycleLine>>, <<CycleLine>>} : lines' = lines \o more
    BY <1>7 DEF FenceCycle, LiveCycle
  <2>. QED
    BY <1>1, <2>1, <2>2 DEF broker
<1>8. CASE FenceOrders
  <2>. DEFINE C == {id \in Entries : Working(id)}
  <2>1. CASE entryOrders' = [id \in Entries |-> IF id \in C THEN "canceled" ELSE entryOrders[id]]
    BY <1>8, <2>1, LinesKept, OrdersCanceled DEF FenceOrders
  <2>2. CASE UNCHANGED entryOrders
    BY <1>1, <1>8, <2>2 DEF FenceOrders
  <2>3. UNCHANGED entryOrders
        \/ entryOrders' = [id \in Entries |-> IF id \in C THEN "canceled" ELSE entryOrders[id]]
    BY <1>8 DEF FenceOrders
  <2>. QED
    BY <2>1, <2>2, <2>3
<1>9. CASE UNCHANGED entryOrders /\ \E line \in Harmless : lines' = Append(lines, line)
  BY <1>9, LineExtends, OrdersKept
<1>10. CASE manualUnhalt
  BY <1>1, <1>9, <1>10, LineKinds DEF manualUnhalt, broker
<1>11. CASE RecoveryBarrier
  BY <1>1, <1>9, <1>11, LineKinds DEF RecoveryBarrier, broker
<1>12. CASE RecoveryCycle
  <2>1. CASE Flatten
    BY <2>1, FlattenSettles
  <2>. QED
    BY <1>1, <1>12, <2>1 DEF RecoveryCycle, broker
<1>13. CASE OtherTrades
  BY <1>13 DEF OtherTrades
<1>14. CASE OtherAppends \/ HumanUnhalts
  BY <1>9, <1>14, LineKinds DEF OtherAppends, HumanUnhalts, OtherLine, broker
<1>15. CASE \E id \in Entries : EntryArrives(id) \/ OrderFills(id)
  <2>1. Extends(lines', Harmless \cup TrueEnd)
    BY <1>15, LinesKept DEF EntryArrives, OrderFills
  <2>. QED
    BY <1>15, <2>1 DEF EntryArrives, OrderFills, Working, Settles, Typed, Statuses
<1>16. CASE \E id \in Entries : CloseFills(id)
  BY <1>1, <1>16 DEF CloseFills
<1>17. CASE UNCHANGED certVars
  BY <1>1, <1>17 DEF certVars
<1>. QED
  BY <1>2, <1>3, <1>4, <1>5, <1>6, <1>7, <1>8, <1>10, <1>11, <1>12, <1>13, <1>14, <1>15, <1>16, <1>17
     DEF CertNext

-----------------------------------------------------------------------------
(***************************************************************************)
(* Typed and Recorded.                                                     *)
(***************************************************************************)
LEMMA TypedKept ==
    ASSUME Typed, [CertNext]_certVars
    PROVE  Typed'
<1>1. run' \in RunState /\ run'.startedAt = run.startedAt
  BY StepTyped
<1>2. /\ lines' \in Seq(CertLine) /\ Len(lines) <= Len(lines')
      /\ entryOrders' \in [Entries -> Statuses]
  <2>1. CASE Settles
    BY <2>1 DEF Settles, Extends
  <2>2. CASE SubmitBatch
    BY <2>2, BatchSubmits DEF Submits, Extends
  <2>. QED
    BY <2>1, <2>2, StepMoves
<1>3. run.startedAt \in Nat /\ Len(lines) \in Nat /\ Len(lines') \in Nat /\ run.startedAt <= Len(lines)
  BY <1>2 DEF Typed, RunState
<1>. QED
  BY <1>1, <1>2, <1>3 DEF Typed

LEMMA RecordedKept ==
    ASSUME Typed, Recorded, [CertNext]_certVars
    PROVE  Recorded'
<1>0. Len(lines) \in Nat
  BY DEF Typed
<1>1. CASE Settles
  <2>1. \A id \in Entries : /\ entryOrders'[id] = "none" <=> entryOrders[id] = "none"
                            /\ entryOrders[id] \in {"filled", "canceled"} => entryOrders'[id] = entryOrders[id]
    BY <1>1 DEF Settles
  <2>2. Extends(lines', Harmless \cup TrueEnd) /\ Len(lines') \in Nat
    BY <1>1 DEF Settles, Extends
  <2>3. EndsAreTrue'
    <3>. SUFFICES ASSUME NEW i \in 1..Len(lines'), lines'[i].type \in {"filled", "canceled"}
                  PROVE  lines'[i].of \in Entries /\ entryOrders'[lines'[i].of] = lines'[i].type
      BY DEF EndsAreTrue
    <3>1. lines'[i].of \in Entries /\ entryOrders[lines'[i].of] = lines'[i].type
      <4>1. CASE i <= Len(lines)
        BY <4>1, <1>0, <2>2 DEF Recorded, EndsAreTrue, Extends
      <4>2. CASE ~(i <= Len(lines))
        <5>1. lines'[i] \in Harmless \cup TrueEnd
          BY <4>2, <1>0, <2>2 DEF Extends
        <5>. QED
          BY <5>1 DEF Harmless, TrueEnd
      <4>. QED
        BY <4>1, <4>2
    <3>. QED
      BY <2>1, <3>1
  <2>4. IntentsFirst'
    <3>. SUFFICES ASSUME NEW id \in Entries, entryOrders'[id] # "none"
                  PROVE  \E i \in 1..Len(lines') : lines'[i] = IntentOf(id)
      BY DEF IntentsFirst, IntentOf, LineOf
    <3>1. PICK i \in 1..Len(lines) : lines[i] = IntentOf(id)
      BY <2>1 DEF Recorded, IntentsFirst
    <3>. QED
      BY <3>1, <1>0, <2>2 DEF Extends
  <2>. QED
    BY <2>3, <2>4 DEF Recorded
<1>2. CASE SubmitBatch
  <2>1. PICK ids \in SUBSET Entries : Submits(ids)
    BY <1>2, BatchSubmits
  <2>2. Submits(ids)
    BY <2>1
  <2>3. Extends(lines', Harmless \cup TrueEnd \cup {IntentOf(id) : id \in ids}) /\ Len(lines') \in Nat
    BY <2>2 DEF Submits, Extends
  <2>4. \A other \in Entries : entryOrders[other] \in {"filled", "canceled"} => entryOrders'[other] = entryOrders[other]
    BY <2>2 DEF Submits
  <2>5. EndsAreTrue'
    <3>. SUFFICES ASSUME NEW i \in 1..Len(lines'), lines'[i].type \in {"filled", "canceled"}
                  PROVE  lines'[i].of \in Entries /\ entryOrders'[lines'[i].of] = lines'[i].type
      BY DEF EndsAreTrue
    <3>1. lines'[i].of \in Entries /\ entryOrders[lines'[i].of] = lines'[i].type
      <4>1. CASE i <= Len(lines)
        BY <4>1, <1>0, <2>3 DEF Recorded, EndsAreTrue, Extends
      <4>2. CASE ~(i <= Len(lines))
        <5>1. lines'[i] \in Harmless \cup TrueEnd \cup {IntentOf(id) : id \in ids}
          BY <4>2, <1>0, <2>3 DEF Extends
        <5>. QED
          BY <5>1 DEF Harmless, TrueEnd, IntentOf, LineOf
      <4>. QED
        BY <4>1, <4>2
    <3>. QED
      BY <2>4, <3>1
  <2>6. IntentsFirst'
    <3>. SUFFICES ASSUME NEW other \in Entries, entryOrders'[other] # "none"
                  PROVE  \E i \in 1..Len(lines') : lines'[i] = IntentOf(other)
      BY DEF IntentsFirst, IntentOf, LineOf
    <3>1. CASE other \in ids
      BY <3>1, <2>2 DEF Submits
    <3>2. CASE other \notin ids
      <4>1. PICK i \in 1..Len(lines) : lines[i] = IntentOf(other)
        BY <3>2, <2>2 DEF Recorded, IntentsFirst, Submits
      <4>. QED
        BY <4>1, <1>0, <2>3 DEF Extends
    <3>. QED
      BY <3>1, <3>2
  <2>. QED
    BY <2>5, <2>6 DEF Recorded
<1>. QED
  BY <1>1, <1>2, StepMoves

-----------------------------------------------------------------------------
(***************************************************************************)
(* The phases.                                                             *)
(***************************************************************************)
Quieted == Bracketed \/ run.pc \in {"recover_snapshot", "recover_reopen"}

LEMMA InPhaseKept ==
    ASSUME Typed, InPhase, [CertNext]_certVars
    PROVE  InPhase'
<1>0. run \in RunState /\ lines \in Seq(CertLine) /\ Len(lines) \in Nat
  BY DEF Typed
<1>1. CASE Throw
  BY <1>1, ThrowTyped DEF InPhase
<1>2. CASE UNCHANGED run
  BY <1>2 DEF InPhase
<1>3. CASE EntryCycle
  BY <1>0, <1>1, <1>3 DEF EntryCycle, LiveCycle, Become, InPhase, RunState
<1>4. CASE ObserveOrders
  <2>1. CASE run' = [run EXCEPT !.pc = "last_entry"]
    BY <1>0, <1>4, <2>1 DEF ObserveOrders, InPhase, RunState
  <2>2. CASE \E r : run' = [run EXCEPT !.pc = "entry", !.resting = r]
    BY <1>0, <1>4, <2>2 DEF ObserveOrders, InPhase, RunState
  <2>. QED
    BY <1>1, <1>4, <2>1, <2>2 DEF ObserveOrders, Goto, Become
<1>5. CASE LastEntryCycle
  BY <1>0, <1>1, <1>5 DEF LastEntryCycle, LiveCycle, Become, InPhase, RunState
<1>6. CASE FlattenCycle
  BY <1>0, <1>1, <1>6 DEF FlattenCycle, LiveCycle, Become, InPhase, RunState
<1>7. CASE OpenJournal
  BY <1>0, <1>1, <1>7 DEF OpenJournal, Become, InPhase, RunState
<1>8. CASE FullSnapshot
  BY <1>0, <1>1, <1>8 DEF FullSnapshot, Become, InPhase, RunState
<1>9. CASE ReopenJournal
  <2>1. NextOf[run.stage] \in {"fence", "approval", "unhalt", "certify"}
    BY <1>0 DEF NextOf, RunState
  <2>. QED
    BY <1>0, <1>1, <1>9, <2>1 DEF ReopenJournal, Become, InPhase, RunState
<1>10. CASE FenceCycle
  BY <1>0, <1>1, <1>10 DEF FenceCycle, LiveCycle, Become, InPhase, RunState
<1>11. CASE FenceOrders
  BY <1>0, <1>1, <1>11 DEF FenceOrders, Become, InPhase, RunState
<1>12. CASE AwaitHumanApproval
  BY <1>0, <1>1, <1>12 DEF AwaitHumanApproval, Become, InPhase, RunState
<1>13. CASE manualUnhalt
  BY <1>0, <1>1, <1>13 DEF manualUnhalt, Become, InPhase, RunState
<1>14. CASE BuildCertificate
  BY <1>0, <1>1, <1>14 DEF BuildCertificate, Become, InPhase, RunState
<1>15. CASE RecoveryBarrier
  <2>1. CASE lines' = IF Halted(lines) THEN lines ELSE Append(lines, Halt("MANUAL"))
    <3>1. latestHaltSeq(lines') # 0
      <4>1. CASE Halted(lines)
        BY <2>1, <4>1 DEF latestHaltSeq, Halted
      <4>2. CASE ~Halted(lines)
        <5>1. Halt("MANUAL") \in CertLine /\ Halt("MANUAL").type = "HALT"
          BY LineKinds DEF Halt, LineOf
        <5>2. latestHaltSeq(lines') = Len(lines) + 1
          BY <1>0, <2>1, <4>2, <5>1, HaltStands
        <5>. QED
          BY <1>0, <5>2
      <4>. QED
        BY <4>1, <4>2
    <3>. QED
      BY <1>0, <1>15, <3>1 DEF RecoveryBarrier, Goto, Become, InPhase, RunState
  <2>2. CASE run' = [run EXCEPT !.pc = "recover_cycle"]
    BY <1>0, <2>2 DEF InPhase, RunState
  <2>. QED
    BY <1>15, <2>1, <2>2 DEF RecoveryBarrier, Goto, Become
<1>16. CASE RecoverySnapshot
  BY <1>0, <1>16 DEF RecoverySnapshot, Goto, Become, InPhase, RunState
<1>17. CASE RecoveryReopen
  BY <1>0, <1>17 DEF RecoveryReopen, Goto, Become, InPhase, RunState
<1>18. CASE RecoveryCycle
  BY <1>0, <1>18 DEF RecoveryCycle, Become, InPhase, RunState
<1>19. CASE TakeOver \/ OtherTrades \/ OtherAppends \/ HumanUnhalts
  BY <1>2, <1>19 DEF TakeOver, OtherTrades, OtherAppends, HumanUnhalts, OtherLine, Other
<1>20. CASE \E id \in Entries : EntryArrives(id) \/ OrderFills(id) \/ CloseFills(id)
  BY <1>2, <1>20 DEF EntryArrives, OrderFills, CloseFills
<1>21. CASE UNCHANGED certVars
  BY <1>2, <1>21 DEF certVars
<1>. QED
  BY <1>3, <1>4, <1>5, <1>6, <1>7, <1>8, <1>9, <1>10, <1>11, <1>12, <1>13, <1>14, <1>15, <1>16,
     <1>17, <1>18, <1>19, <1>20, <1>21 DEF CertNext

\* A snapshot that is believed is of a flat account.
LEMMA SnapshotsAreTrue ==
    ASSUME NEW flat \in Snapshots, flat PROVE position = {} /\ closing = {}
<1>1. flat = Flat \/ flat = FALSE
  BY DEF Snapshots
<1>2. Flat
  BY <1>1
<1>. QED
  BY <1>2 DEF Flat

\* A bracket is entered over a journal without open entries, and passed over a flat account.
LEMMA BracketEntered ==
    ASSUME Typed, InPhase, [CertNext]_certVars
    PROVE  /\ Quieted' => Quieted \/ unresolvedEntryIds(lines) = {}
           /\ ShownFlat' => ShownFlat \/ (position = {} /\ closing = {})
<1>. DEFINE Goal == /\ Quieted' => Quieted \/ unresolvedEntryIds(lines) = {}
                    /\ ShownFlat' => ShownFlat \/ (position = {} /\ closing = {})
<1>. USE DEF Quieted, Bracketed, ShownFlat
<1>0. run \in RunState
  BY DEF Typed
<1>1. CASE Throw
  BY <1>1, ThrowTyped
<1>2. CASE UNCHANGED run
  BY <1>2
<1>3. CASE EntryCycle
  <2>1. CASE run'.pc \in {"flatten", "observe"}
    BY <2>1
  <2>. QED
    BY <1>0, <1>1, <1>3, <2>1 DEF EntryCycle, LiveCycle, Become, RunState
<1>4. CASE ObserveOrders
  <2>1. CASE run' = [run EXCEPT !.pc = "last_entry"]
    BY <1>0, <1>4, <2>1 DEF RunState
  <2>2. CASE \E r : run' = [run EXCEPT !.pc = "entry", !.resting = r]
    BY <1>0, <1>4, <2>2 DEF RunState
  <2>. QED
    BY <1>1, <1>4, <2>1, <2>2 DEF ObserveOrders, Goto, Become
<1>5. CASE LastEntryCycle
  BY <1>0, <1>1, <1>5 DEF LastEntryCycle, LiveCycle, Become, InPhase, RunState
<1>6. CASE FlattenCycle
  BY <1>0, <1>1, <1>6 DEF FlattenCycle, LiveCycle, Become, InPhase, RunState
<1>7. CASE OpenJournal
  <2>1. CASE Throw
    BY <1>1, <2>1
  <2>2. CASE OpensWell(run.stage) /\ run'.pc = "snapshot" /\ run'.stage = run.stage
    BY <1>0, <1>7, <2>2 DEF OpenJournal, OpensWell, RunState
  <2>. QED
    BY <1>0, <1>7, <2>1, <2>2 DEF OpenJournal, Become, RunState
<1>8. CASE FullSnapshot
  <2>1. CASE Throw
    BY <1>1, <2>1
  <2>2. ASSUME NEW flat \in Snapshots, flat, run' = [run EXCEPT !.pc = "reopen", !.flat = flat]
        PROVE  Goal
    BY <1>0, <1>8, <2>2, SnapshotsAreTrue DEF FullSnapshot, RunState
  <2>3. ASSUME NEW flat \in Snapshots, run.stage = "final", run' = [run EXCEPT !.pc = "reopen", !.flat = flat]
        PROVE  Goal
    BY <1>0, <1>8, <2>3 DEF FullSnapshot, RunState
  <2>. QED
    BY <1>8, <2>1, <2>2, <2>3 DEF FullSnapshot, Become
<1>9. CASE ReopenJournal
  BY <1>0, <1>1, <1>9 DEF ReopenJournal, Become
<1>10. CASE FenceCycle
  BY <1>0, <1>1, <1>10 DEF FenceCycle
<1>11. CASE FenceOrders
  BY <1>0, <1>1, <1>11 DEF FenceOrders
<1>12. CASE AwaitHumanApproval
  BY <1>0, <1>1, <1>12 DEF AwaitHumanApproval
<1>13. CASE manualUnhalt
  BY <1>0, <1>1, <1>13 DEF manualUnhalt
<1>14. CASE BuildCertificate
  BY <1>0, <1>1, <1>14 DEF BuildCertificate
<1>15. CASE RecoveryBarrier
  BY <1>0, <1>15 DEF RecoveryBarrier, Goto, Become, RunState
<1>16. CASE RecoverySnapshot
  <2>1. PICK flat \in Snapshots : run' = [run EXCEPT !.pc = IF flat THEN "recover_reopen" ELSE "recover_cycle"]
    BY <1>16 DEF RecoverySnapshot, Goto, Become
  <2>2. CASE flat
    BY <1>0, <1>16, <2>1, <2>2, SnapshotsAreTrue DEF RecoverySnapshot, RunState
  <2>3. CASE ~flat
    BY <1>0, <1>16, <2>1, <2>3 DEF RecoverySnapshot, RunState
  <2>. QED
    BY <2>2, <2>3
<1>17. CASE RecoveryReopen
  BY <1>0, <1>17 DEF RecoveryReopen, Goto, Become, RunState
<1>18. CASE RecoveryCycle
  BY <1>0, <1>18 DEF RecoveryCycle, Become, RunState
<1>19. CASE TakeOver \/ OtherTrades \/ OtherAppends \/ HumanUnhalts
  BY <1>2, <1>19 DEF TakeOver, OtherTrades, OtherAppends, HumanUnhalts, OtherLine, Other
<1>20. CASE \E id \in Entries : EntryArrives(id) \/ OrderFills(id) \/ CloseFills(id)
  BY <1>2, <1>20 DEF EntryArrives, OrderFills, CloseFills
<1>21. CASE UNCHANGED certVars
  BY <1>2, <1>21 DEF certVars
<1>. QED
  BY <1>3, <1>4, <1>5, <1>6, <1>7, <1>8, <1>9, <1>10, <1>11, <1>12, <1>13, <1>14, <1>15, <1>16,
     <1>17, <1>18, <1>19, <1>20, <1>21 DEF CertNext

\* What is flat and settled stays so, whoever steps, unless an entry is submitted.
LEMMA FlatStays ==
    ASSUME [CertNext]_certVars, Settled, position = {}, closing = {}
    PROVE  position' = {} /\ closing' = {}
<1>1. CASE \E id \in Entries : EntryArrives(id) \/ OrderFills(id) \/ CloseFills(id)
  BY <1>1 DEF EntryArrives, OrderFills, CloseFills, Settled, Working
<1>2. CASE UNCHANGED <<position, closing>>
  BY <1>2
<1>3. CASE EntryCycle \/ LastEntryCycle \/ FlattenCycle \/ RecoveryCycle
  BY <1>3 DEF EntryCycle, LastEntryCycle, FlattenCycle, RecoveryCycle, LiveCycle, Quiet, SubmitBatch, Flatten, broker
<1>4. CASE OtherTrades
  BY <1>4 DEF OtherTrades, SubmitBatch
<1>5. CASE ObserveOrders \/ OpenJournal \/ FullSnapshot \/ ReopenJournal \/ FenceCycle \/ FenceOrders
           \/ AwaitHumanApproval \/ manualUnhalt \/ BuildCertificate
  BY <1>5 DEF ObserveOrders, OpenJournal, FullSnapshot, ReopenJournal, FenceCycle, FenceOrders,
     AwaitHumanApproval, manualUnhalt, BuildCertificate, LiveCycle, broker
<1>6. CASE RecoveryBarrier \/ RecoverySnapshot \/ RecoveryReopen \/ TakeOver \/ OtherAppends \/ HumanUnhalts
           \/ UNCHANGED certVars
  BY <1>6 DEF RecoveryBarrier, RecoverySnapshot, RecoveryReopen, TakeOver, OtherAppends, HumanUnhalts, certVars, broker
<1>. QED
  BY <1>1, <1>3, <1>4, <1>5, <1>6 DEF CertNext

LEMMA StaysFlatKept ==
    ASSUME Typed, Recorded, InPhase, StaysFlat, [CertNext]_certVars
    PROVE  StaysFlat'
<1>. SUFFICES ASSUME writer' = "run", Quieted' PROVE Settled' /\ (ShownFlat' => position' = {} /\ closing' = {})
  <2>1. ShownFlat' => Quieted'
    BY DEF ShownFlat, Quieted
  <2>. QED
    BY <2>1 DEF StaysFlat, IsWriter, Quieted
<1>1. IsWriter
  BY StepTyped DEF IsWriter
<1>2. Settled
  <2>1. CASE Quieted
    BY <1>1, <2>1 DEF StaysFlat, Quieted
  <2>2. CASE unresolvedEntryIds(lines) = {}
    BY <2>2, ResolvedIsSettled
  <2>. QED
    BY <2>1, <2>2, BracketEntered
<1>3. Settles
  <2>1. run'.pc # "observe"
    BY DEF Quieted, Bracketed
  <2>. QED
    BY <1>1, <2>1, StepMoves
<1>4. Settled'
  BY <1>2, <1>3 DEF Settles, Settled
<1>5. ASSUME ShownFlat' PROVE position' = {} /\ closing' = {}
  <2>1. position = {} /\ closing = {}
    BY <1>1, <1>5, BracketEntered DEF StaysFlat
  <2>. QED
    BY <1>2, <2>1, FlatStays
<1>. QED
  BY <1>4, <1>5

-----------------------------------------------------------------------------
(***************************************************************************)
(* One batch at a time.                                                    *)
(***************************************************************************)
\* Another entry cycle begins only over a window without a filled entry.
LEMMA EntryPhaseEntered ==
    ASSUME Typed, [CertNext]_certVars, IsWriter, run'.pc = "entry"
    PROVE  /\ Extends(lines', Harmless)
           /\ run.pc = "entry" \/ \A id \in Entries : ~FilledInRun(id)
<1>0. run \in RunState
  BY DEF Typed
<1>1. CASE Throw
  BY <1>1, ThrowTyped
<1>2. CASE EntryCycle
  BY <1>0, <1>1, <1>2 DEF EntryCycle, LiveCycle, Become, RunState
<1>3. CASE ObserveOrders
  <2>1. CASE filledEntryExists(inCurrentWindow(lines))
    BY <1>0, <1>1, <1>3, <2>1 DEF ObserveOrders, Goto, Become, RunState
  <2>2. CASE ~filledEntryExists(inCurrentWindow(lines))
    BY <1>3, <2>2, WindowFilled, LinesKept DEF ObserveOrders
  <2>. QED
    BY <2>1, <2>2
<1>4. CASE LastEntryCycle \/ FlattenCycle \/ FenceCycle
  BY <1>0, <1>1, <1>4 DEF LastEntryCycle, FlattenCycle, FenceCycle, LiveCycle, Become, RunState
<1>5. CASE OpenJournal \/ FenceOrders \/ AwaitHumanApproval \/ manualUnhalt \/ BuildCertificate
  BY <1>0, <1>1, <1>5 DEF OpenJournal, FenceOrders, AwaitHumanApproval, manualUnhalt,
     BuildCertificate, Become, RunState
<1>6. CASE FullSnapshot
  BY <1>0, <1>1, <1>6 DEF FullSnapshot, Become, RunState
<1>7. CASE ReopenJournal
  <2>1. NextOf[run.stage] # "entry"
    BY <1>0 DEF NextOf, RunState
  <2>. QED
    BY <1>0, <1>1, <1>7, <2>1 DEF ReopenJournal, Become, RunState
<1>8. CASE RecoveryBarrier \/ RecoverySnapshot \/ RecoveryReopen \/ RecoveryCycle
  BY <1>0, <1>8 DEF RecoveryBarrier, RecoverySnapshot, RecoveryReopen, RecoveryCycle, Goto, Become, RunState
<1>9. CASE TakeOver
  BY <1>9, LinesKept DEF TakeOver
<1>10. CASE OtherTrades
  BY <1>10 DEF OtherTrades
<1>11. CASE OtherAppends \/ HumanUnhalts
  <2>1. UNCHANGED run /\ \E line \in Harmless : lines' = Append(lines, line)
    BY <1>11, LineKinds DEF OtherAppends, HumanUnhalts, OtherLine, Other
  <2>. QED
    BY <2>1, LineExtends
<1>12. CASE \E id \in Entries : EntryArrives(id) \/ OrderFills(id) \/ CloseFills(id)
  BY <1>12, LinesKept DEF EntryArrives, OrderFills, CloseFills
<1>13. CASE UNCHANGED certVars
  BY <1>13, LinesKept DEF certVars
<1>. QED
  BY <1>2, <1>3, <1>4, <1>5, <1>6, <1>7, <1>8, <1>9, <1>10, <1>11, <1>12, <1>13 DEF CertNext

\* Where a line of the run is after the step, if the step did not write it.
LEMMA FoundBefore ==
    ASSUME Typed, NEW S, Extends(lines', S), run'.startedAt = run.startedAt,
           NEW line, line \notin S,
           \E i \in (run'.startedAt + 1)..Len(lines') : lines'[i] = line
    PROVE  \E i \in (run.startedAt + 1)..Len(lines) : lines[i] = line
<1>1. run.startedAt \in Nat /\ Len(lines) \in Nat /\ Len(lines') \in Nat
  BY DEF Typed, RunState, Extends
<1>2. PICK i \in (run.startedAt + 1)..Len(lines') : lines'[i] = line
  OBVIOUS
<1>3. i <= Len(lines)
  BY <1>1, <1>2 DEF Extends
<1>. QED
  BY <1>1, <1>2, <1>3 DEF Extends

LEMMA NoneFilledKept ==
    ASSUME Typed, NoneFilled, [CertNext]_certVars
    PROVE  NoneFilled'
<1>. SUFFICES ASSUME writer' = "run", run'.pc = "entry", NEW id \in Entries, FilledInRun(id)' PROVE FALSE
  BY DEF NoneFilled, IsWriter
<1>1. IsWriter /\ run'.startedAt = run.startedAt
  BY StepTyped DEF IsWriter
<1>2. Extends(lines', Harmless)
  BY <1>1, EntryPhaseEntered
<1>3. IntentOf(id) \notin Harmless /\ LineOf("filled", id) \notin Harmless
  BY DEF IntentOf, LineOf, Harmless
<1>4. /\ \E i \in (run'.startedAt + 1)..Len(lines') : lines'[i] = IntentOf(id)
      /\ \E i \in (run'.startedAt + 1)..Len(lines') : lines'[i] = LineOf("filled", id)
  BY DEF FilledInRun, IntentOf, LineOf
<1>5. \E i \in (run.startedAt + 1)..Len(lines) : lines[i] = IntentOf(id)
  BY <1>1, <1>2, <1>3, <1>4, FoundBefore
<1>6. \E i \in (run.startedAt + 1)..Len(lines) : lines[i] = LineOf("filled", id)
  BY <1>1, <1>2, <1>3, <1>4, FoundBefore
<1>7. ~FilledInRun(id)
  BY <1>1, EntryPhaseEntered DEF NoneFilled
<1>. QED
  BY <1>5, <1>6, <1>7 DEF FilledInRun

-----------------------------------------------------------------------------
(***************************************************************************)
(* The invariant, and what follows from it.                                *)
(***************************************************************************)
LEMMA CInvInit == ASSUME CertInit PROVE CInv
<1>1. PICK old \in SUBSET {CHOOSE id \in Entries : TRUE} :
        /\ lines = IF old = {} THEN <<>> ELSE <<IntentOf(CHOOSE id \in Entries : TRUE)>>
        /\ entryOrders \in [Entries -> {"none", "in_flight", "working"}]
        /\ \A id \in Entries : entryOrders[id] = "none" <=> id \notin old
        /\ run = [Fresh EXCEPT !.startedAt = Len(lines)]
  BY DEF CertInit
<1>2. PICK first \in Entries : first = CHOOSE id \in Entries : TRUE
  BY EntriesAssumption
<1>3. \/ lines = <<>> /\ old = {}
      \/ lines = <<IntentOf(first)>> /\ old = {first}
  BY <1>1, <1>2
<1>4. lines \in Seq(CertLine) /\ Len(lines) \in Nat
  <2>1. IntentOf(first) \in CertLine
    BY <1>2, LineKinds
  <2>2. <<>> \in Seq(CertLine) /\ <<IntentOf(first)>> \in Seq(CertLine)
    BY <2>1
  <2>3. lines \in Seq(CertLine)
    BY <1>3, <2>2
  <2>. QED
    BY <2>3
<1>5. run \in RunState /\ run.startedAt = Len(lines) /\ run.pc = "entry" /\ run.stage = "before"
  BY <1>1, <1>4, FreshTyped DEF Fresh, RunState
<1>6. Typed
  BY <1>1, <1>4, <1>5 DEF Typed, Statuses
<1>7. EndsAreTrue
  BY <1>3 DEF EndsAreTrue, IntentOf, LineOf
<1>8. IntentsFirst
  <2>1. CASE lines = <<>> /\ old = {}
    BY <1>1, <2>1 DEF IntentsFirst
  <2>2. CASE lines = <<IntentOf(first)>> /\ old = {first}
    <3>1. 1 \in 1..Len(lines) /\ lines[1] = IntentOf(first)
      BY <2>2
    <3>2. \A id \in Entries : entryOrders[id] # "none" => id = first
      BY <1>1, <2>2
    <3>. QED
      BY <3>1, <3>2 DEF IntentsFirst
  <2>. QED
    BY <1>3, <2>1, <2>2
<1>9. InPhase /\ StaysFlat
  BY <1>5 DEF InPhase, StaysFlat, Bracketed, ShownFlat
<1>10. NoneFilled
  BY <1>4, <1>5 DEF NoneFilled, FilledInRun
<1>. QED
  BY <1>6, <1>7, <1>8, <1>9, <1>10 DEF CInv, Recorded

LEMMA CInvKept == ASSUME CInv, [CertNext]_certVars PROVE CInv'
BY TypedKept, RecordedKept, InPhaseKept, StaysFlatKept, NoneFilledKept DEF CInv

LEMMA CInvAlways == CertSpec => []CInv
BY CInvInit, CInvKept, PTL DEF CertSpec

(***************************************************************************)
(* Whatever other processes trade and append, while the epoch is the run's *)
(* a batch is submitted only when no earlier entry of the run rests, may   *)
(* still arrive, or has filled.                                            *)
(***************************************************************************)
THEOREM BatchesOneAtATime == CertSpec => OneBatchAtATime
<1>1. ASSUME CInv, [CertNext]_certVars, IsWriter,
             \E id \in Entries : entryOrders[id] = "none" /\ entryOrders'[id] # "none"
      PROVE  \A id \in Entries : ~LiveInRun(id)
  <2>1. ~Settles
    BY <1>1 DEF Settles
  <2>2. run.pc = "entry" /\ ~unresolvedEntryExists(inCurrentWindow(lines))
    BY <1>1, <2>1, StepMoves DEF CInv
  <2>. QED
    BY <1>1, <2>2, WindowFree DEF CInv, NoneFilled
<1>2. CInv /\ [CertNext]_certVars =>
        [IsWriter /\ (\E id \in Entries : entryOrders[id] = "none" /\ entryOrders'[id] # "none") =>
           \A id \in Entries : ~LiveInRun(id)]_certVars
  BY <1>1
<1>. QED
  BY <1>2, CInvAlways, PTL DEF CertSpec, OneBatchAtATime

LEMMA FlatInBracket ==
    ASSUME CInv, IsWriter, ShownFlat PROVE NothingOpen
<1>1. Settled /\ position = {} /\ closing = {}
  BY DEF CInv, StaysFlat, ShownFlat
<1>. QED
  BY <1>1 DEF NothingOpen, Flat, Settled, Working

(***************************************************************************)
(* The run's un-halt lands only on a flat account over which nothing may   *)
(* still arrive, on the halt the human was shown, and on the journal as it *)
(* was read: for any number of entries and of foreign steps.               *)
(***************************************************************************)
THEOREM UnhaltsAreInformed == CertSpec => UnhaltIsInformed
<1>1. ASSUME CInv, [CertNext]_certVars, run'.unhaltSeq > run.unhaltSeq
      PROVE  /\ NothingOpen
             /\ terminalHaltTransitionSeq(lines) = run.haltSeq
             /\ Len(lines') = run.seen + 1
  <2>0. run \in RunState /\ lines \in Seq(CertLine) /\ run.unhaltSeq \in Nat
    BY <1>1 DEF CInv, Typed, RunState
  <2>1. ~Throw
    BY <1>1, <2>0, ThrowTyped DEF CInv
  <2>2. run'.unhaltSeq # run.unhaltSeq
    BY <1>1, <2>0
  <2>3. manualUnhalt /\ UnhaltAdmits /\ lines' = Append(lines, Unhalt)
    <3>1. CASE manualUnhalt
      BY <2>1, <3>1 DEF manualUnhalt
    <3>2. CASE EntryCycle \/ LastEntryCycle \/ FlattenCycle \/ FenceCycle
      BY <2>0, <2>1, <2>2, <3>2 DEF EntryCycle, LastEntryCycle, FlattenCycle, FenceCycle, LiveCycle, Become, RunState
    <3>3. CASE ObserveOrders
      <4>1. \E r : run' = [run EXCEPT !.pc = "entry", !.resting = r] \/ run' = [run EXCEPT !.pc = "last_entry"]
        BY <2>1, <3>3 DEF ObserveOrders, Goto, Become
      <4>. QED
        BY <2>0, <2>2, <4>1 DEF RunState
    <3>4. CASE OpenJournal \/ ReopenJournal
      BY <2>0, <2>1, <2>2, <3>4 DEF OpenJournal, ReopenJournal, Become, RunState
    <3>5. CASE FullSnapshot
      BY <2>0, <2>1, <2>2, <3>5 DEF FullSnapshot, Become, RunState
    <3>6. CASE FenceOrders \/ AwaitHumanApproval \/ BuildCertificate
      BY <2>0, <2>1, <2>2, <3>6 DEF FenceOrders, AwaitHumanApproval, BuildCertificate, Become, RunState
    <3>7. CASE RecoveryBarrier \/ RecoverySnapshot \/ RecoveryReopen \/ RecoveryCycle
      BY <2>0, <2>2, <3>7 DEF RecoveryBarrier, RecoverySnapshot, RecoveryReopen, RecoveryCycle, Goto, Become, RunState
    <3>8. CASE TakeOver \/ OtherTrades \/ OtherAppends \/ HumanUnhalts \/ UNCHANGED certVars
      BY <2>2, <3>8 DEF TakeOver, OtherTrades, OtherAppends, HumanUnhalts, OtherLine, Other, certVars
    <3>9. CASE \E id \in Entries : EntryArrives(id) \/ OrderFills(id) \/ CloseFills(id)
      BY <2>2, <3>9 DEF EntryArrives, OrderFills, CloseFills
    <3>. QED
      BY <1>1, <3>1, <3>2, <3>3, <3>4, <3>5, <3>6, <3>7, <3>8, <3>9 DEF CertNext
  <2>4. NothingOpen
    BY <1>1, <2>3, FlatInBracket DEF manualUnhalt, UnhaltAdmits, ShownFlat, Bracketed
  <2>5. Len(lines') = Len(lines) + 1
    BY <2>0, <2>3, LineKinds, AppendProperties
  <2>. QED
    BY <2>3, <2>4, <2>5 DEF UnhaltAdmits, DrillHaltStands, terminalJournalSeq
<1>. QED
  BY <1>1, CInvAlways, PTL DEF CertSpec, UnhaltIsInformed

(***************************************************************************)
(* A certificate that may pass is built over an account that is flat when  *)
(* the journal is read for the last time, under the drill's own un-halt.   *)
(***************************************************************************)
THEOREM PassesAreTrue == CertSpec => PassIsTrue
<1>1. ASSUME CInv, [CertNext]_certVars, run.pc = "reopen", run'.pc = "certify"
      PROVE  NothingOpen /\ terminalHaltTransitionSeq(lines) = run.unhaltSeq
  <2>0. run \in RunState
    BY <1>1 DEF CInv, Typed
  <2>1. ~Throw
    BY <1>1, ThrowTyped DEF CInv
  <2>2. run' # run
    BY <1>1
  <2>3. ReopenJournal
    <3>1. CASE TakeOver \/ OtherTrades \/ OtherAppends \/ HumanUnhalts \/ UNCHANGED certVars
      BY <2>2, <3>1 DEF TakeOver, OtherTrades, OtherAppends, HumanUnhalts, OtherLine, Other, certVars
    <3>2. CASE \E id \in Entries : EntryArrives(id) \/ OrderFills(id) \/ CloseFills(id)
      BY <2>2, <3>2 DEF EntryArrives, OrderFills, CloseFills
    <3>. QED
      BY <1>1, <3>1, <3>2 DEF CertNext, EntryCycle, ObserveOrders, LastEntryCycle, FlattenCycle, OpenJournal,
         FullSnapshot, FenceCycle, FenceOrders, AwaitHumanApproval, manualUnhalt, BuildCertificate,
         RecoveryBarrier, RecoverySnapshot, RecoveryReopen, RecoveryCycle
  <2>4. StillAsOpened(run.stage) /\ run'.pc = NextOf[run.stage]
    BY <2>0, <2>1, <2>3 DEF ReopenJournal, Become, RunState
  <2>5. run.stage = "final"
    BY <1>1, <2>0, <2>4 DEF NextOf, RunState
  <2>6. IsWriter /\ terminalHaltTransitionSeq(lines) = run.unhaltSeq
    BY <2>4, <2>5 DEF StillAsOpened
  <2>. QED
    BY <1>1, <2>6, FlatInBracket DEF ShownFlat, Bracketed
<1>. QED
  BY <1>1, CInvAlways, PTL DEF CertSpec, PassIsTrue

(***************************************************************************)
(* A run that failed says recovered only over a flat account, under a      *)
(* standing halt, and as the writer.                                       *)
(***************************************************************************)
THEOREM RecoveriesAreTrue == CertSpec => RecoveredIsTrue
<1>1. ASSUME CInv, [CertNext]_certVars, run'.verdict = "recovered", run.verdict # "recovered"
      PROVE  NothingOpen /\ Halted(lines) /\ IsWriter
  <2>0. run \in RunState /\ lines \in Seq(CertLine)
    BY <1>1 DEF CInv, Typed
  <2>1. ~Throw
    BY <1>1, ThrowTyped DEF CInv
  <2>2. run'.verdict # run.verdict
    BY <1>1
  <2>3. RecoveryReopen
    <3>2. CASE EntryCycle \/ LastEntryCycle \/ FlattenCycle \/ FenceCycle
      BY <2>0, <2>1, <2>2, <3>2 DEF EntryCycle, LastEntryCycle, FlattenCycle, FenceCycle, LiveCycle, Become, RunState
    <3>3. CASE ObserveOrders
      <4>1. \E r : run' = [run EXCEPT !.pc = "entry", !.resting = r] \/ run' = [run EXCEPT !.pc = "last_entry"]
        BY <2>1, <3>3 DEF ObserveOrders, Goto, Become
      <4>. QED
        BY <2>0, <2>2, <4>1 DEF RunState
    <3>4. CASE OpenJournal \/ ReopenJournal
      BY <2>0, <2>1, <2>2, <3>4 DEF OpenJournal, ReopenJournal, Become, RunState
    <3>5. CASE FullSnapshot
      BY <2>0, <2>1, <2>2, <3>5 DEF FullSnapshot, Become, RunState
    <3>6. CASE FenceOrders \/ AwaitHumanApproval \/ manualUnhalt
      BY <2>0, <2>1, <2>2, <3>6 DEF FenceOrders, AwaitHumanApproval, manualUnhalt, Become, RunState
    <3>7. CASE BuildCertificate
      BY <1>1, <2>0, <3>7 DEF BuildCertificate, Become, RunState
    <3>8. CASE RecoveryBarrier \/ RecoverySnapshot
      BY <2>0, <2>2, <3>8 DEF RecoveryBarrier, RecoverySnapshot, Goto, Become, RunState
    <3>9. CASE RecoveryCycle
      BY <1>1, <2>0, <3>9 DEF RecoveryCycle, Become, RunState
    <3>10. CASE TakeOver \/ OtherTrades \/ OtherAppends \/ HumanUnhalts \/ UNCHANGED certVars
      BY <2>2, <3>10 DEF TakeOver, OtherTrades, OtherAppends, HumanUnhalts, OtherLine, Other, certVars
    <3>11. CASE \E id \in Entries : EntryArrives(id) \/ OrderFills(id) \/ CloseFills(id)
      BY <2>2, <3>11 DEF EntryArrives, OrderFills, CloseFills
    <3>. QED
      BY <1>1, <3>2, <3>3, <3>4, <3>5, <3>6, <3>7, <3>8, <3>9, <3>10, <3>11 DEF CertNext
  <2>4. RecoveryProven
    BY <2>0, <2>2, <2>3 DEF RecoveryReopen, Goto, Become, RunState
  <2>5. run.pc = "recover_reopen" /\ run.haltSeq # 0
    BY <1>1, <2>3 DEF RecoveryReopen, CInv, InPhase
  <2>6. Halted(lines)
    BY <2>4, <2>5 DEF RecoveryProven, latestHaltSeq
  <2>. QED
    BY <1>1, <2>4, <2>5, <2>6, FlatInBracket DEF RecoveryProven, ShownFlat
<1>. QED
  BY <1>1, CInvAlways, PTL DEF CertSpec, RecoveredIsTrue
=============================================================================
