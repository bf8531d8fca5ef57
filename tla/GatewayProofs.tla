--------------------------- MODULE GatewayProofs ---------------------------
(***************************************************************************)
(* Theorems about the gateway, for every set of instances, every input,    *)
(* every fault and every bound: halts, fencing, the interlock of orders    *)
(* and halts it implements, and resets of the epoch store.                 *)
(***************************************************************************)
EXTENDS GatewayRefinement, SequenceTheorems, TLAPS

(***************************************************************************)
(* A durable step is any write but the call of the broker.  The plan of    *)
(* every operation but dispatchMutation consists of durable steps.         *)
(***************************************************************************)
DurableStep == [op : {"store"}, store : PresentStore] \cup [op : {"line"}, line : Line]
                 \cup [op : {"own"}, epoch : Epochs] \cup {WriteHolder, WriteFlag}

\* The steps that leave the epoch store and every ownEpoch alone.
PlainStep == [op : {"line"}, line : Line] \cup {WriteHolder, WriteFlag}

LEMMA PlainSteps ==
    /\ PlainStep \subseteq DurableStep
    /\ WriteHolder \in PlainStep
    /\ WriteFlag \in PlainStep
    /\ \A line \in Line : WriteLine(line) \in PlainStep
BY DEF DurableStep, PlainStep, WriteLine

LEMMA DurableSteps ==
    /\ WriteHolder \in DurableStep
    /\ WriteFlag \in DurableStep
    /\ \A s \in PresentStore : WriteStore(s) \in DurableStep
    /\ \A line \in Line : WriteLine(line) \in DurableStep
    /\ \A epoch \in Epochs : SetOwn(epoch) \in DurableStep
BY DEF DurableStep, WriteStore, WriteLine, SetOwn, WriteHolder, WriteFlag

LEMMA DurableIsWrite == DurableStep \subseteq Write
BY DEF DurableStep, Write

LEMMA WriteShape ==
    ASSUME NEW w \in Write
    PROVE  /\ w.op = "store" => w.store \in PresentStore
           /\ w.op = "line" => w.line \in Line
           /\ w.op = "own" => w.epoch \in Epochs
           /\ w.op = "send" => w.kind \in OrderKinds
BY DEF Write, WriteHolder, WriteFlag

LEMMA DurableShape ==
    ASSUME NEW w \in DurableStep
    PROVE  w.op # "send"
BY DEF DurableStep, WriteHolder, WriteFlag

LEMMA FoldKeepsType ==
    ASSUME NEW h \in HaltState, NEW line \in Line
    PROVE  haltStateAfter(h, line) \in HaltState
BY DEF HaltState, Line, haltStateAfter, IsTransition, Halt, notHalted, Reasons, StickyReasons,
       WeakReasons, NoReason, FlagUnreadable, AuthoritativeTypes, WitnessTypes

(***************************************************************************)
(* The lines operations append are lines.                                  *)
(***************************************************************************)
LEMMA LinesAreLines ==
    ASSUME NEW epoch \in 0..MaxEpoch
    PROVE  /\ \A type \in AuthoritativeTypes : Authoritative(type, epoch) \in Line
           /\ \A reason \in Reasons : HaltLine(epoch, reason) \in Line
           /\ \A i \in Instances : WitnessLine(i) \in Line
BY MaxEpochAssumption DEF Line, Authoritative, HaltLine, WitnessLine, AuthoritativeTypes, WitnessTypes, Reasons, NoReason

LEMMA ShortSequences ==
    ASSUME NEW S, NEW a \in S, NEW b \in S
    PROVE  /\ <<a>> \in Seq(S) /\ <<a>> # <<>>
           /\ <<a, b>> \in Seq(S) /\ <<a, b>> # <<>>
OBVIOUS

LEMMA TwoSteps ==
    ASSUME NEW a, NEW b
    PROVE  /\ Head(<<a>> \o <<b>>) = a
           /\ Tail(<<a>> \o <<b>>) = <<b>>
<1>1. <<a>> \in Seq({a, b}) /\ <<b>> \in Seq({a, b}) /\ <<a, b>> \in Seq({a, b})
  BY ShortSequences
<1>2. /\ <<a>> \o <<b>> \in Seq({a, b})
      /\ Len(<<a>> \o <<b>>) = 2
      /\ (<<a>> \o <<b>>)[1] = a
      /\ (<<a>> \o <<b>>)[2] = b
  BY <1>1, ConcatProperties
<1>3. <<a>> \o <<b>> # <<>> /\ Head(<<a>> \o <<b>>) = a
  BY <1>1, <1>2
<1>4. /\ Tail(<<a>> \o <<b>>) \in Seq({a, b})
      /\ Len(Tail(<<a>> \o <<b>>)) = 1
      /\ Tail(<<a>> \o <<b>>)[1] = b
  BY <1>1, <1>2, <1>3, HeadTailProperties
<1>5. \A s, t \in Seq({a, b}) : Len(s) = 1 /\ Len(t) = 1 /\ s[1] = t[1] => s = t
  BY SeqEqual
<1>6. <<b>> \in Seq({a, b}) /\ Len(<<b>>) = 1 /\ <<b>>[1] = b
  BY <1>1
<1>. QED
  BY <1>3, <1>4, <1>5, <1>6

LEMMA ConcatDurable ==
    ASSUME NEW a \in Seq(DurableStep), NEW b \in Seq(DurableStep)
    PROVE  /\ a \o b \in Seq(DurableStep)
           /\ a # <<>> \/ b # <<>> => a \o b # <<>>
BY ConcatProperties, ConcatEqualIffEmpty

LEMMA ConcatPlain ==
    ASSUME NEW a \in Seq(PlainStep), NEW b \in Seq(PlainStep)
    PROVE  /\ a \o b \in Seq(PlainStep)
           /\ a # <<>> \/ b # <<>> => a \o b # <<>>
BY ConcatProperties, ConcatEqualIffEmpty

LEMMA appendLinePlain ==
    ASSUME NEW line \in Line
    PROVE  /\ appendLine(line) \in Seq(PlainStep)
           /\ appendLine(line) \in Seq(DurableStep)
           /\ appendLine(line) # <<>>
BY PlainSteps DEF appendLine

LEMMA repairFlagPlain == repairFlag \in Seq(PlainStep)
BY PlainSteps DEF repairFlag

(***************************************************************************)
(* The plan of an acquisition.                                             *)
(***************************************************************************)
LEMMA PlanShape ==
    ASSUME NEW s \in EpochStoreState, NEW virgin \in BOOLEAN, NEW empty \in BOOLEAN,
           planEpochAcquisition(s, virgin, empty).kind # "REFUSE"
    PROVE  LET plan == planEpochAcquisition(s, virgin, empty)
           IN  /\ plan.epoch \in Epochs
               /\ plan.seedPending \in BOOLEAN
               /\ plan.resetPending \in BOOLEAN
               /\ s.kind = "present" => plan.epoch = s.epoch + 1
               /\ s.kind # "unreadable"
<1>1. CASE s.kind = "unreadable"
  BY <1>1 DEF planEpochAcquisition, Plan
<1>2. CASE s.kind = "absent"
  BY <1>2, MaxEpochAssumption DEF planEpochAcquisition, Plan, Epochs
<1>3. CASE s.kind = "present"
  <2>1. s \in PresentStore
    BY <1>3 DEF EpochStoreState, Blank
  <2>2. planEpochAcquisition(s, virgin, empty) =
          IF s.epoch >= MaxEpoch THEN Plan("REFUSE", 0, FALSE, FALSE)
          ELSE Plan("INCREMENT", s.epoch + 1, s.seedPending, s.resetPending)
    BY <1>3 DEF planEpochAcquisition
  <2>3. ~(s.epoch >= MaxEpoch)
    BY <2>2 DEF Plan
  <2>4. s.epoch + 1 \in Epochs
    BY <2>1, <2>3, MaxEpochAssumption DEF Epochs, PresentStore
  <2>. QED
    BY <1>3, <2>1, <2>2, <2>3, <2>4 DEF Plan, PresentStore
<1>. QED
  BY <1>1, <1>2, <1>3 DEF EpochStoreState, PresentStore, Blank

LEMMA completeResetDurable ==
    ASSUME NEW i \in Instances, NEW epoch \in Epochs
    PROVE  completeReset(i, epoch) \in Seq(DurableStep)
<1>1. /\ WriteStore(Present(epoch, i, FALSE, FALSE)) \in DurableStep
      /\ SetOwn(epoch) \in DurableStep
  BY DurableSteps DEF Present, PresentStore
<1>2. /\ <<WriteStore(Present(epoch, i, FALSE, FALSE)), SetOwn(epoch)>> \in Seq(DurableStep)
      /\ <<WriteFlag>> \in Seq(DurableStep)
  BY <1>1, DurableSteps, ShortSequences
<1>3. /\ Authoritative("GAP", epoch) \in Line
      /\ HaltLine(epoch, "EPOCH_STORE_RESET") \in Line
  BY LinesAreLines, MaxEpochAssumption DEF Epochs, AuthoritativeTypes, Reasons, WeakReasons
<1>4. appendLine(Authoritative("GAP", epoch))
        \o appendLine(HaltLine(epoch, "EPOCH_STORE_RESET")) \in Seq(DurableStep)
  BY <1>3, appendLinePlain, ConcatDurable
<1>5. resetPairPresent(journal) \/ ~resetPairPresent(journal)
  OBVIOUS
<1>. QED
  BY <1>2, <1>4, <1>5, ConcatDurable DEF completeReset

LEMMA acquisitionWritesDurable ==
    ASSUME NEW i \in Instances, NEW plan, plan.epoch \in Epochs,
           plan.seedPending \in BOOLEAN, plan.resetPending \in BOOLEAN
    PROVE  /\ acquisitionWrites(i, plan) \in Seq(DurableStep)
           /\ acquisitionWrites(i, plan) # <<>>
<1>1. Present(plan.epoch, i, plan.seedPending, plan.resetPending) \in PresentStore
  BY DEF Present, PresentStore
<1>2. /\ <<WriteStore(Present(plan.epoch, i, plan.seedPending, plan.resetPending)),
           WriteHolder>> \in Seq(DurableStep)
      /\ <<SetOwn(plan.epoch)>> \in Seq(DurableStep)
  <2>1. /\ WriteStore(Present(plan.epoch, i, plan.seedPending, plan.resetPending)) \in DurableStep
        /\ SetOwn(plan.epoch) \in DurableStep
        /\ WriteHolder \in DurableStep
    BY <1>1, DurableSteps
  <2>. QED
    BY <2>1, ShortSequences
<1>3. completeReset(i, plan.epoch) \in Seq(DurableStep)
  BY completeResetDurable
<1>4. <<WriteStore(Present(plan.epoch, i, plan.seedPending, plan.resetPending)),
        WriteHolder>> # <<>>
  OBVIOUS
<1>. QED
  BY <1>2, <1>3, <1>4, ConcatDurable DEF acquisitionWrites

(***************************************************************************)
(* The inductive invariant.  Lasting speaks of what outlives an operation, *)
(* Pending of the operation in the gateway, Remembered of the rest.        *)
(* FlagsClear: a state that is not halted has no cause either, and without *)
(* a transition in the journal its fold is clear.  SendsChecked: the       *)
(* broker is called last, and an entry only on a clear halt state; as the  *)
(* operation holds the mutex until then, the state it checked is still the *)
(* state when the order leaves.                                            *)
(***************************************************************************)
FlagsClear ==
    /\ halt.halted \/ halt = notHalted
    /\ flag.halted \/ flag = notHalted
    /\ HasTransition(journal) \/ halt = notHalted
    /\ Killed(journal) => halt.sticky

Lasting ==
    /\ store \in EpochStoreState
    /\ holder \in [id : Instances \cup {NoOne}, fresh : BOOLEAN]
    /\ journal \in Seq(Line)
    /\ halt \in HaltState
    /\ flag \in HaltState
    /\ own \in [Instances -> 0..MaxEpoch]
    /\ sent \in Seq(OrderKinds)
    /\ FlagsClear

MayOpenRisk == ~halt.halted /\ (HasTransition(journal) \/ flag = notHalted)

SendsChecked ==
    \/ todo \in Seq(DurableStep)
    \/ \E kind \in OrderKinds : /\ todo = <<Send(kind)>>
                                /\ kind = "entry" => MayOpenRisk

Pending ==
    /\ mutex \in Instances \cup {NoOne}
    /\ (mutex = NoOne) <=> (todo = <<>>)
    /\ SendsChecked

Remembered ==
    /\ observed \in [Instances -> [kind : {"none", "absent", "unreadable", "present"},
                                   epoch : 0..MaxEpoch]]
    /\ gen \in Nat
    /\ life \in [Instances -> Nat]
    /\ claims \subseteq (Nat \X (1..MaxEpoch) \X Instances \X Nat)
    /\ lossAt \in Nat

IInv == Lasting /\ Pending /\ Remembered

\* What the properties of an action ask of a step.
Checked == (sent' # sent /\ sent'[Len(sent')] = "entry") => MayOpenRisk

-----------------------------------------------------------------------------
LEMMA IInvTyped == IInv => TypeOK
<1>. SUFFICES ASSUME IInv PROVE todo \in Seq(Write)
  BY DEF IInv, Lasting, Pending, Remembered, TypeOK
<1>1. CASE todo \in Seq(DurableStep)
  BY <1>1, DurableIsWrite
<1>2. ASSUME NEW kind \in OrderKinds, todo = <<Send(kind)>>
      PROVE  todo \in Seq(Write)
  <2>1. Send(kind) \in Write
    BY DEF Send, Write
  <2>. QED
    BY <1>2, <2>1, ShortSequences
<1>. QED
  BY <1>1, <1>2 DEF IInv, Pending, SendsChecked

LEMMA TransitionAppended ==
    ASSUME NEW line \in Line, journal \in Seq(Line)
    PROVE  HasTransition(Append(journal, line)) <=> HasTransition(journal) \/ IsTransition(line)
<1>1. /\ Len(Append(journal, line)) = Len(journal) + 1
      /\ \A k \in 1..Len(journal) : Append(journal, line)[k] = journal[k]
      /\ Append(journal, line)[Len(journal) + 1] = line
  BY AppendProperties
<1>2. Len(journal) \in Nat
  OBVIOUS
<1>. QED
  BY <1>1, <1>2 DEF HasTransition

LEMMA FoldKeepsClear ==
    ASSUME NEW line \in Line, halt \in HaltState, FlagsClear
    PROVE  LET h == haltStateAfter(halt, line)
           IN  /\ h.halted \/ h = notHalted
               /\ IsTransition(line) \/ h = halt
BY DEF FlagsClear, haltStateAfter, Halt, notHalted, HaltState, IsTransition

\* A KILL is sticky at once, and nothing that follows it changes that.
LEMMA StickyFold ==
    ASSUME NEW line \in Line, journal \in Seq(Line), halt \in HaltState,
           Killed(journal) => halt.sticky
    PROVE  Killed(Append(journal, line)) => haltStateAfter(halt, line).sticky
<1>1. /\ Len(Append(journal, line)) = Len(journal) + 1
      /\ \A k \in 1..Len(journal) : Append(journal, line)[k] = journal[k]
      /\ Append(journal, line)[Len(journal) + 1] = line
  BY AppendProperties
<1>2. Len(journal) \in Nat
  OBVIOUS
<1>3. Killed(Append(journal, line))
        => Killed(journal) \/ (line.type = "HALT" /\ line.reason \in StickyReasons)
  BY <1>1, <1>2 DEF Killed
<1>4. CASE halt.sticky
  BY <1>4 DEF haltStateAfter
<1>5. CASE ~halt.sticky /\ line.type = "HALT" /\ line.reason \in StickyReasons
  BY <1>5 DEF haltStateAfter, IsTransition, Halt
<1>. QED
  BY <1>3, <1>4, <1>5

(***************************************************************************)
(* One durable step.                                                       *)
(***************************************************************************)
LEMMA DurableApplied ==
    ASSUME Lasting, NEW i \in Instances, NEW w \in DurableStep, Apply(i, w)
    PROVE  Lasting' /\ sent' = sent
<1>0. w \in Write /\ w.op # "send"
  BY DurableIsWrite, DurableShape
<1>1. CASE ApplyStore(w)
  BY <1>0, <1>1, WriteShape DEF ApplyStore, Lasting, FlagsClear, EpochStoreState
<1>2. CASE ApplyHolder(i, w)
  BY <1>2 DEF ApplyHolder, Lasting, FlagsClear
<1>3. CASE ApplyLine(w)
  <2>1. w.line \in Line
    BY <1>0, <1>3, WriteShape DEF ApplyLine
  <2>2. journal' \in Seq(Line)
    BY <1>3, <2>1, AppendProperties DEF ApplyLine, Lasting
  <2>3. halt' \in HaltState
    BY <1>3, <2>1, FoldKeepsType DEF ApplyLine, Lasting
  <2>4. HasTransition(journal') <=> HasTransition(journal) \/ IsTransition(w.line)
    BY <1>3, <2>1, TransitionAppended DEF ApplyLine, Lasting
  <2>5. /\ halt'.halted \/ halt' = notHalted
        /\ IsTransition(w.line) \/ halt' = halt
    BY <1>3, <2>1, FoldKeepsClear DEF ApplyLine, Lasting
  <2>6. Killed(journal') => halt'.sticky
    BY <1>3, <2>1, StickyFold DEF ApplyLine, Lasting, FlagsClear
  <2>7. FlagsClear'
    <3>1. flag' = flag
      BY <1>3 DEF ApplyLine
    <3>. QED
      BY <2>4, <2>5, <2>6, <3>1 DEF Lasting, FlagsClear, HasTransition
  <2>. QED
    BY <1>3, <2>2, <2>3, <2>7 DEF ApplyLine, Lasting
<1>4. CASE ApplyFlag(w)
  BY <1>4 DEF ApplyFlag, Lasting, FlagsClear
<1>5. CASE ApplyOwn(i, w)
  <2>1. w.epoch \in 0..MaxEpoch
    BY <1>0, <1>5, WriteShape, MaxEpochAssumption DEF ApplyOwn, Epochs
  <2>. QED
    BY <1>5, <2>1 DEF ApplyOwn, Lasting, FlagsClear, files
<1>. QED
  BY <1>0, <1>1, <1>2, <1>3, <1>4, <1>5 DEF Apply, ApplySend

LEMMA DurableMade ==
    ASSUME Lasting, NEW i \in Instances,
           NEW writes \in Seq(DurableStep), writes # <<>>, Make(i, writes)
    PROVE  Lasting' /\ Pending' /\ sent' = sent
<1>1. Head(writes) \in DurableStep /\ Tail(writes) \in Seq(DurableStep)
  BY HeadTailProperties
<1>2. Lasting' /\ sent' = sent
  BY <1>1, DurableApplied DEF Make
<1>3. Pending'
  BY <1>1, NoOneAssumption DEF Make, Pending, SendsChecked
<1>. QED
  BY <1>2, <1>3

(***************************************************************************)
(* The call of the broker.                                                 *)
(***************************************************************************)
LEMMA SendMade ==
    ASSUME Lasting, NEW i \in Instances, NEW kind \in OrderKinds,
           kind = "entry" => MayOpenRisk, Make(i, <<Send(kind)>>)
    PROVE  Lasting' /\ Pending' /\ Checked
<1>1. Head(<<Send(kind)>>) = Send(kind) /\ Tail(<<Send(kind)>>) = <<>>
  OBVIOUS
<1>2. ApplySend(Send(kind))
  BY <1>1 DEF Make, Apply, ApplyStore, ApplyHolder, ApplyLine, ApplyFlag, ApplyOwn, Send
<1>3. sent' = Append(sent, kind) /\ UNCHANGED <<files, own>>
  BY <1>2 DEF ApplySend, Send
<1>4. sent' \in Seq(OrderKinds) /\ sent'[Len(sent')] = kind
  BY <1>3, AppendProperties DEF Lasting
<1>5. Lasting'
  BY <1>3, <1>4 DEF Lasting, FlagsClear, files
<1>6. Pending'
  BY <1>1 DEF Make, Pending, SendsChecked
<1>. QED
  BY <1>3, <1>4, <1>5, <1>6 DEF Checked, files

LEMMA ContinueStep ==
    ASSUME IInv, Continue
    PROVE  IInv' /\ Checked
<1>1. mutex \in Instances /\ todo # <<>> /\ Make(mutex, todo)
  BY DEF IInv, Pending, Continue
<1>2. Remembered'
  BY DEF IInv, Remembered, Continue, history
<1>3. CASE todo \in Seq(DurableStep)
  BY <1>1, <1>2, <1>3, DurableMade DEF IInv, Checked
<1>4. ASSUME NEW kind \in OrderKinds, todo = <<Send(kind)>>, kind = "entry" => MayOpenRisk
      PROVE  IInv' /\ Checked
  BY <1>1, <1>2, <1>4, SendMade DEF IInv
<1>. QED
  BY <1>3, <1>4 DEF IInv, Pending, SendsChecked

(***************************************************************************)
(* Every operation but dispatchMutation is a plan of durable steps.        *)
(***************************************************************************)
DurableBegin(i) == \E writes \in Seq(DurableStep) : writes # <<>> /\ Begin(i, writes)

PlainBegin(i) == \E writes \in Seq(PlainStep) : writes # <<>> /\ Begin(i, writes)

LEMMA PlainIsDurable ==
    ASSUME NEW i \in Instances, PlainBegin(i)
    PROVE  DurableBegin(i)
<1>1. Seq(PlainStep) \subseteq Seq(DurableStep)
  BY PlainSteps
<1>. QED
  BY <1>1 DEF PlainBegin, DurableBegin

LEMMA DurableBegun ==
    ASSUME Lasting, NEW i \in Instances, DurableBegin(i)
    PROVE  Lasting' /\ Pending' /\ Checked
BY DurableMade DEF DurableBegin, Begin, Checked

LEMMA AcquireStep ==
    ASSUME IInv, NEW i \in Instances, NEW virgin \in VirginEvidence, acquireUnderLock(i, virgin)
    PROVE  DurableBegin(i) /\ Remembered'
<1>. DEFINE plan == planEpochAcquisition(store, virgin, journal = <<>>)
<1>1. virgin \in BOOLEAN /\ store \in EpochStoreState /\ plan.kind # "REFUSE"
  BY InputsAssumption DEF IInv, Lasting, acquireUnderLock
<1>2. plan.epoch \in Epochs /\ plan.seedPending \in BOOLEAN /\ plan.resetPending \in BOOLEAN
  BY <1>1, PlanShape
<1>3. /\ acquisitionWrites(i, plan) \in Seq(DurableStep)
      /\ acquisitionWrites(i, plan) # <<>>
  BY <1>2, acquisitionWritesDurable
<1>4. DurableBegin(i)
  BY <1>3 DEF acquireUnderLock, DurableBegin
<1>5. Remembered'
  BY MaxEpochAssumption DEF IInv, Remembered, acquireUnderLock, history, NothingObserved
<1>. QED
  BY <1>4, <1>5

LEMMA WriterTyped ==
    ASSUME IInv, NEW i \in Instances, IsWriter(i)
    PROVE  /\ store \in PresentStore
           /\ store.epoch = own[i] /\ own[i] \in Epochs /\ own[i] \in 0..MaxEpoch
           /\ store.holderId = i
<1>1. store \in PresentStore
  BY DEF IInv, Lasting, IsWriter, authorizeMutation, EpochStoreState, Blank
<1>. QED
  BY <1>1 DEF IInv, Lasting, IsWriter, authorizeMutation, PresentStore, Epochs

LEMMA ClaimTyped ==
    ASSUME IInv, NEW i \in Instances, IsWriter(i), Claim(i), UNCHANGED <<observed, gen, life, lossAt>>
    PROVE  Remembered'
<1>1. store.epoch \in 1..MaxEpoch
  BY WriterTyped DEF Epochs
<1>. QED
  BY <1>1 DEF IInv, Remembered, Claim

LEMMA WriterLineTyped ==
    ASSUME IInv, NEW i \in Instances, NEW what \in WriterLines, IsWriter(i)
    PROVE  WriterLine(i, what) \in Line
<1>1. CASE what \in AuthoritativeTypes
  BY <1>1, WriterTyped, LinesAreLines DEF WriterLine
<1>2. CASE what \notin AuthoritativeTypes
  <2>1. what \in Reasons
    BY <1>2, InputsAssumption DEF AuthoritativeTypes, Reasons, StickyReasons, WeakReasons
  <2>. QED
    BY <1>2, <2>1, WriterTyped, LinesAreLines DEF WriterLine
<1>. QED
  BY <1>1, <1>2

LEMMA AppendStep ==
    ASSUME IInv, NEW i \in Instances, NEW what \in WriterLines,
           dispatchAppend(i, WriterLine(i, what))
    PROVE  DurableBegin(i) /\ Remembered'
<1>. DEFINE line == WriterLine(i, what)
            promotion == IF store.seedPending
                         THEN <<WriteStore(Present(store.epoch, store.holderId, FALSE, FALSE))>>
                         ELSE <<>>
<1>1. IsWriter(i)
  BY DEF dispatchAppend
<1>2. line \in Line
  BY <1>1, WriterLineTyped
<1>3. promotion \in Seq(DurableStep)
  <2>1. Present(store.epoch, store.holderId, FALSE, FALSE) \in PresentStore
    BY <1>1, WriterTyped DEF Present, PresentStore
  <2>2. WriteStore(Present(store.epoch, store.holderId, FALSE, FALSE)) \in DurableStep
    BY <2>1, DurableSteps
  <2>3. <<WriteStore(Present(store.epoch, store.holderId, FALSE, FALSE))>> \in Seq(DurableStep)
    BY <2>2, ShortSequences
  <2>4. <<>> \in Seq(DurableStep)
    OBVIOUS
  <2>. QED
    BY <2>3, <2>4
<1>4. /\ appendLine(line) \o promotion \in Seq(DurableStep)
      /\ appendLine(line) \o promotion # <<>>
  BY <1>2, <1>3, appendLinePlain, ConcatDurable
<1>5. Begin(i, appendLine(line) \o promotion)
  BY DEF dispatchAppend
<1>6. DurableBegin(i)
  BY <1>4, <1>5 DEF DurableBegin
<1>7. Remembered'
  BY <1>1, ClaimTyped DEF dispatchAppend
<1>. QED
  BY <1>6, <1>7

LEMMA MutationStep ==
    ASSUME IInv, NEW i \in Instances, NEW kind \in OrderKinds, dispatchMutation(i, kind)
    PROVE  IInv' /\ Checked
<1>1. Remembered'
  BY ClaimTyped DEF dispatchMutation, MayAct
<1>2. kind = "entry" => ~reconciledHalt.halted
  BY DEF dispatchMutation
<1>3. Lasting /\ FlagsClear /\ halt \in HaltState /\ flag \in HaltState
  BY DEF IInv, Lasting
<1>4. CASE kind = "entry" /\ flag # reconciledHalt
  <2>. DEFINE writes == <<WriteFlag>> \o <<Send(kind)>>
  <2>1. Make(i, writes)
    BY <1>4 DEF dispatchMutation, Begin, repairFlag
  <2>2. Head(writes) = WriteFlag /\ Tail(writes) = <<Send(kind)>>
    BY TwoSteps
  <2>3. Apply(i, WriteFlag)
    BY <2>1, <2>2 DEF Make
  <2>4. ApplyFlag(WriteFlag)
    BY <2>3 DEF Apply, ApplyStore, ApplyHolder, ApplyLine, ApplyOwn, ApplySend, WriteFlag
  <2>5. Lasting' /\ sent' = sent
    BY <1>3, <2>3, DurableApplied, DurableSteps
  <2>6. HasTransition(journal) /\ ~halt.halted
    BY <1>2, <1>4 DEF reconciledHalt
  <2>7. MayOpenRisk'
    BY <2>4, <2>6 DEF ApplyFlag, MayOpenRisk, HasTransition
  <2>8. todo' = <<Send(kind)>> /\ mutex' = i
    BY <2>1, <2>2 DEF Make
  <2>9. Pending'
    <3>1. todo' # <<>> /\ mutex' # NoOne
      BY <2>8, NoOneAssumption
    <3>. QED
      BY <2>7, <2>8, <3>1 DEF Pending, SendsChecked
  <2>. QED
    BY <1>1, <2>5, <2>9 DEF IInv, Checked
<1>5. CASE ~(kind = "entry" /\ flag # reconciledHalt)
  <2>1. Make(i, <<Send(kind)>>)
    <3>1. <<>> \o <<Send(kind)>> = <<Send(kind)>>
      OBVIOUS
    <3>. QED
      BY <1>5, <3>1 DEF dispatchMutation, Begin, repairFlag
  <2>2. kind = "entry" => MayOpenRisk
    BY <1>2, <1>3, <1>5 DEF reconciledHalt, MayOpenRisk, FlagsClear, notHalted
  <2>. QED
    BY <1>1, <1>3, <2>1, <2>2, SendMade DEF IInv
<1>. QED
  BY <1>4, <1>5

LEMMA BindingStep ==
    ASSUME IInv, NEW i \in Instances, haltForBindingMismatch(i)
    PROVE  PlainBegin(i) /\ Remembered'
<1>1. own[i] \in 0..MaxEpoch
  BY DEF IInv, Lasting
<1>2. appendLine(HaltLine(own[i], "ACCOUNT_BINDING_MISMATCH")) \in Seq(PlainStep)
  BY <1>1, LinesAreLines, appendLinePlain DEF Reasons, WeakReasons
<1>3. <<>> \in Seq(PlainStep)
  OBVIOUS
<1>4. PlainBegin(i)
  BY <1>2, <1>3, repairFlagPlain, ConcatPlain DEF haltForBindingMismatch, PlainBegin
<1>5. Remembered'
  BY ClaimTyped DEF haltForBindingMismatch, MayAct
<1>. QED
  BY <1>4, <1>5

LEMMA WitnessStep ==
    ASSUME IInv, NEW i \in Instances, dispatchWitness(i)
    PROVE  PlainBegin(i) /\ Remembered'
<1>1. WitnessLine(i) \in Line
  BY LinesAreLines, MaxEpochAssumption
<1>2. PlainBegin(i)
  BY <1>1, appendLinePlain DEF dispatchWitness, PlainBegin
<1>3. Remembered'
  BY DEF IInv, Remembered, dispatchWitness, history
<1>. QED
  BY <1>2, <1>3

LEMMA SafetyHaltStep ==
    ASSUME IInv, NEW i \in Instances, NEW reason \in SafetyReasons, dispatchSafetyHalt(i, reason)
    PROVE  PlainBegin(i) /\ Remembered'
<1>1. reason \in Reasons
  BY InputsAssumption DEF Reasons, WeakReasons
<1>2. store.epoch \in 0..MaxEpoch
  <2>1. store \in PresentStore
    BY DEF IInv, Lasting, dispatchSafetyHalt, EpochStoreState, Blank
  <2>. QED
    BY <2>1, MaxEpochAssumption DEF PresentStore, Epochs
<1>3. HaltLine(store.epoch, reason) \in Line
  BY <1>1, <1>2, LinesAreLines
<1>4. <<WriteFlag>> \in Seq(PlainStep) /\ <<WriteFlag>> # <<>>
  BY PlainSteps, ShortSequences
<1>5. PlainBegin(i)
  BY <1>3, <1>4, appendLinePlain DEF dispatchSafetyHalt, PlainBegin
<1>6. Remembered'
  BY DEF IInv, Remembered, dispatchSafetyHalt, history
<1>. QED
  BY <1>5, <1>6

LEMMA UnhaltStep ==
    ASSUME IInv, NEW i \in Instances, dispatchManualUnhalt(i)
    PROVE  PlainBegin(i) /\ Remembered'
<1>1. store.epoch \in 0..MaxEpoch
  <2>1. store \in PresentStore
    BY DEF IInv, Lasting, dispatchManualUnhalt, EpochStoreState, Blank
  <2>. QED
    BY <2>1, MaxEpochAssumption DEF PresentStore, Epochs
<1>2. Authoritative("UNHALT", store.epoch) \in Line
  BY <1>1, LinesAreLines DEF AuthoritativeTypes
<1>3. PlainBegin(i)
  BY <1>2, appendLinePlain, repairFlagPlain, ConcatPlain DEF dispatchManualUnhalt, PlainBegin
<1>4. Remembered'
  BY DEF IInv, Remembered, dispatchManualUnhalt, history
<1>. QED
  BY <1>3, <1>4

LEMMA OpenStep ==
    ASSUME IInv, NEW i \in Instances,
           openJournal(i) \/ openJournalAsWriter(i) \/ heartbeat(i)
    PROVE  PlainBegin(i) /\ Remembered'
<1>1. <<WriteHolder>> \in Seq(PlainStep) /\ <<WriteHolder>> # <<>>
  BY PlainSteps, ShortSequences
<1>2. /\ <<WriteHolder>> \o repairFlag \in Seq(PlainStep)
      /\ <<WriteHolder>> \o repairFlag # <<>>
  BY <1>1, repairFlagPlain, ConcatPlain
<1>3. PlainBegin(i)
  BY <1>1, <1>2, repairFlagPlain DEF openJournal, openJournalAsWriter, heartbeat, PlainBegin
<1>4. Remembered'
  BY DEF IInv, Remembered, openJournal, openJournalAsWriter, heartbeat, history
<1>. QED
  BY <1>3, <1>4

(***************************************************************************)
(* Steps that write no file but, perhaps, the holder record.               *)
(***************************************************************************)
LEMMA QuietStep ==
    ASSUME IInv, NEW i \in Instances,
           ObserveStore(i) \/ AcquisitionDenied(i) \/ releaseHolder(i)
    PROVE  IInv' /\ Checked
<1>1. CASE ObserveStore(i)
  <2>1. Observed(store) \in [kind : {"none", "absent", "unreadable", "present"}, epoch : 0..MaxEpoch]
    BY MaxEpochAssumption DEF IInv, Lasting, Observed, EpochStoreState, PresentStore, Blank, Epochs
  <2>. QED
    BY <1>1, <2>1 DEF ObserveStore, IInv, Lasting, FlagsClear, Pending, SendsChecked, MayOpenRisk,
                      Remembered, files, history, Checked
<1>2. CASE AcquisitionDenied(i)
  BY <1>2, MaxEpochAssumption
     DEF AcquisitionDenied, NothingObserved, IInv, Lasting, FlagsClear, Pending, SendsChecked,
         MayOpenRisk, Remembered, files, history, Checked
<1>3. CASE releaseHolder(i)
  BY <1>3 DEF releaseHolder, NoHolder, IInv, Lasting, FlagsClear, Pending, SendsChecked,
              MayOpenRisk, Remembered, history, Checked
<1>. QED
  BY <1>1, <1>2, <1>3

LEMMA EnvironmentStep ==
    ASSUME IInv, Environment
    PROVE  IInv' /\ Checked
<1>1. CASE HeartbeatExpires
  BY <1>1 DEF HeartbeatExpires, IInv, Lasting, FlagsClear, Pending, SendsChecked, MayOpenRisk,
              Remembered, history, Checked
<1>2. ASSUME NEW i \in Instances, Crash(i)
      PROVE  IInv' /\ Checked
  <2>1. UNCHANGED <<files, sent>> /\ own' \in [Instances -> 0..MaxEpoch]
    BY <1>2, MaxEpochAssumption DEF Crash, IInv, Lasting
  <2>2. Lasting'
    BY <2>1 DEF IInv, Lasting, FlagsClear, files
  <2>3. Pending'
    <3>1. CASE mutex = i
      BY <1>2, <3>1 DEF Crash, LeaveGateway, Pending, SendsChecked
    <3>2. CASE mutex # i
      BY <1>2, <2>1, <3>2 DEF Crash, LeaveGateway, IInv, Pending, SendsChecked, MayOpenRisk,
                              HasTransition, files
    <3>. QED
      BY <3>1, <3>2
  <2>4. Remembered'
    BY <1>2, MaxEpochAssumption DEF Crash, NothingObserved, IInv, Remembered
  <2>. QED
    BY <2>1, <2>2, <2>3, <2>4 DEF IInv, Checked, files
<1>3. CASE WriteFails
  <2>1. UNCHANGED <<files, own, sent, observed, history>> /\ mutex' = NoOne /\ todo' = <<>>
    BY <1>3 DEF WriteFails, LeaveGateway
  <2>2. Pending'
    BY <2>1 DEF Pending, SendsChecked
  <2>. QED
    BY <2>1, <2>2 DEF IInv, Lasting, FlagsClear, Remembered, files, history, Checked
<1>4. ASSUME NEW kind \in {"absent", "unreadable"}, StoreLost(kind)
      PROVE  IInv' /\ Checked
  <2>1. store' \in EpochStoreState
    BY <1>4 DEF StoreLost, EpochStoreState
  <2>2. gen' \in Nat /\ lossAt' \in Nat
    BY <1>4 DEF StoreLost, IInv, Lasting, Remembered
  <2>. QED
    BY <1>4, <2>1, <2>2 DEF StoreLost, IInv, Lasting, FlagsClear, Pending, SendsChecked,
                            MayOpenRisk, Remembered, Checked
<1>5. ASSUME NEW readsAs \in {notHalted, Halt(FlagUnreadable, FALSE)}, FlagDamaged(readsAs)
      PROVE  IInv' /\ Checked
  <2>1. flag' \in HaltState /\ (flag'.halted \/ flag' = notHalted)
    <3>1. notHalted \in HaltState
      BY DEF HaltState, notHalted, Reasons
    <3>2. Halt(FlagUnreadable, FALSE) \in HaltState /\ Halt(FlagUnreadable, FALSE).halted
      BY DEF HaltState, Halt
    <3>. QED
      BY <1>5, <3>1, <3>2 DEF FlagDamaged
  <2>2. Lasting'
    BY <1>5, <2>1 DEF FlagDamaged, IInv, Lasting, FlagsClear
  <2>3. Pending'
    BY <1>5 DEF FlagDamaged, IInv, Pending, SendsChecked
  <2>. QED
    BY <1>5, <2>2, <2>3 DEF FlagDamaged, IInv, Remembered, history, Checked
<1>. QED
  BY <1>1, <1>2, <1>3, <1>4, <1>5 DEF Environment

LEMMA Initially == Init => IInv
<1>. SUFFICES ASSUME Init PROVE IInv
  OBVIOUS
<1>1. Lasting
  BY MaxEpochAssumption, NoOneAssumption
     DEF Init, Lasting, FlagsClear, Killed, EpochStoreState, NoHolder, HaltState, notHalted, NoReason,
         Reasons
<1>2. Pending
  BY DEF Init, Pending, SendsChecked
<1>3. Remembered
  BY MaxEpochAssumption DEF Init, Remembered, NothingObserved
<1>. QED
  BY <1>1, <1>2, <1>3 DEF IInv

(***************************************************************************)
(* Every step keeps the invariant, and checks the halt state before it     *)
(* opens risk.                                                             *)
(***************************************************************************)
LEMMA Stepwise == IInv /\ [Next]_vars => IInv' /\ Checked
<1>. SUFFICES ASSUME IInv, [Next]_vars PROVE IInv' /\ Checked
  OBVIOUS
<1>1. CASE Continue
  BY <1>1, ContinueStep
<1>2. ASSUME NEW i \in Instances, GatewayStep(i)
      PROVE  IInv' /\ Checked
  <2>. DEFINE Planned == DurableBegin(i) /\ Remembered'
  <2>1. Planned => IInv' /\ Checked
    BY DurableBegun DEF IInv
  <2>2. CASE Acquisition(i)
    <3>1. CASE ObserveStore(i) \/ AcquisitionDenied(i)
      BY <3>1, QuietStep
    <3>2. ASSUME NEW virgin \in VirginEvidence, acquireUnderLock(i, virgin)
          PROVE  Planned
      BY <3>2, AcquireStep
    <3>. QED
      BY <2>1, <2>2, <3>1, <3>2 DEF Acquisition
  <2>3. ASSUME NEW what \in WriterLines, dispatchAppend(i, WriterLine(i, what))
        PROVE  Planned
    BY <2>3, AppendStep
  <2>4. ASSUME NEW kind \in OrderKinds, dispatchMutation(i, kind)
        PROVE  IInv' /\ Checked
    BY <2>4, MutationStep
  <2>5. CASE haltForBindingMismatch(i)
    BY <2>1, <2>5, BindingStep, PlainIsDurable
  <2>6. CASE dispatchWitness(i)
    BY <2>1, <2>6, WitnessStep, PlainIsDurable
  <2>7. ASSUME NEW reason \in SafetyReasons, dispatchSafetyHalt(i, reason)
        PROVE  Planned
    BY <2>7, SafetyHaltStep, PlainIsDurable
  <2>8. CASE dispatchManualUnhalt(i)
    BY <2>1, <2>8, UnhaltStep, PlainIsDurable
  <2>9. CASE openJournal(i) \/ openJournalAsWriter(i) \/ heartbeat(i)
    BY <2>1, <2>9, OpenStep, PlainIsDurable
  <2>10. CASE releaseHolder(i)
    BY <2>10, QuietStep
  <2>. QED
    BY <1>2, <2>1, <2>2, <2>3, <2>4, <2>5, <2>6, <2>7, <2>8, <2>9, <2>10 DEF GatewayStep
<1>3. CASE Environment
  BY <1>3, EnvironmentStep
<1>4. CASE UNCHANGED vars
  BY <1>4 DEF vars, files, history, IInv, Lasting, FlagsClear, Pending, SendsChecked,
              MayOpenRisk, Remembered, Checked
<1>. QED
  BY <1>1, <1>2, <1>3, <1>4 DEF Next

-----------------------------------------------------------------------------
(***************************************************************************)
(* The files, the memory of every instance and the plan of the operation   *)
(* in the gateway keep their shape, whatever fails and whoever dies.       *)
(***************************************************************************)
THEOREM TypeCorrect == Spec => []TypeOK
<1>1. IInv /\ [Next]_vars => IInv'
  BY Stepwise
<1>. QED
  BY Initially, <1>1, IInvTyped, PTL DEF Spec

(***************************************************************************)
(* An order that opens risk never leaves under a halt: the check and the   *)
(* call of the broker are separate steps, and nothing that could raise a   *)
(* halt gets in between them.                                              *)
(***************************************************************************)
THEOREM EntriesOnlyUnhalted == Spec => NoEntryUnderHalt
<1>1. IInv /\ [Next]_vars => IInv'
  BY Stepwise
<1>2. IInv /\ [Next]_vars
        => [(sent' # sent /\ sent'[Len(sent')] = "entry")
              => /\ ~halt.halted
                 /\ HasTransition(journal) \/ flag = notHalted]_vars
  BY Stepwise DEF Checked, MayOpenRisk
<1>. QED
  BY Initially, <1>1, <1>2, PTL DEF Spec, NoEntryUnderHalt

(***************************************************************************)
(* After a KILL or a broken provenance no entry order leaves, however long *)
(* the system runs on and whatever is written after it: the fold keeps the *)
(* halt sticky (IInv), and a send checks the fold (Stepwise).              *)
(***************************************************************************)
THEOREM KillsAreFinal == Spec => NoEntryAfterKill
<1>1. IInv /\ [Next]_vars => IInv'
  BY Stepwise
<1>2. IInv /\ [Next]_vars
        => [(sent' # sent /\ sent'[Len(sent')] = "entry") => ~Killed(journal)]_vars
  <2>1. IInv /\ MayOpenRisk => ~Killed(journal)
    BY DEF IInv, Lasting, FlagsClear, MayOpenRisk, notHalted
  <2>. QED
    BY <2>1, Stepwise DEF Checked
<1>. QED
  BY Initially, <1>1, <1>2, PTL DEF Spec, NoEntryAfterKill

(***************************************************************************)
(* One epoch, one process: for every set of instances and every fault, the *)
(* loss of the epoch store in the middle of anything included.             *)
(***************************************************************************)

(***************************************************************************)
(* The inductive invariant.  An epoch nobody else can come to use is one   *)
(* whose store names the claimant, and whose claimant, if it still holds   *)
(* that epoch in memory, is still in the same life: a restart forgets it,  *)
(* and the next acquisition writes a higher one before it is remembered.   *)
(* The last part is about an acquisition under way: what it has still to   *)
(* write names the epoch the store already carries, and the epoch it will  *)
(* remember is one nobody has acted under.                                 *)
(***************************************************************************)
Belongs(c) ==
    c[1] = gen =>
        /\ store.kind = "present"
        /\ c[2] <= store.epoch
        /\ c[2] = store.epoch =>
             /\ c[3] = store.holderId
             /\ own[c[3]] = store.epoch => c[4] = life[c[3]]

ClaimsFit(cs) ==
    /\ cs \subseteq (Nat \X (1..MaxEpoch) \X Instances \X Nat)
    /\ \A c \in cs : c[1] <= gen /\ Belongs(c)
    /\ \A c, d \in cs : (c[1] = d[1] /\ c[2] = d[2]) => c = d

Unclaimed(cs) == \A c \in cs : c[1] = gen => c[2] < store.epoch

ContinuingStep(i, cs) ==
    {w \in Write :
       /\ w.op = "store" => /\ store.kind = "present"
                            /\ w.store.epoch = store.epoch
                            /\ w.store.holderId = store.holderId
       /\ w.op = "own" => /\ store.kind = "present"
                          /\ w.epoch = store.epoch
                          /\ store.holderId = i
                          /\ Unclaimed(cs)}

Fenced == ClaimsFit(claims) /\ todo \in Seq(ContinuingStep(mutex, claims))

FInv == IInv /\ Fenced

-----------------------------------------------------------------------------
LEMMA WiderSequences ==
    ASSUME NEW S, NEW T, S \subseteq T
    PROVE  Seq(S) \subseteq Seq(T)
OBVIOUS

LEMMA EmptyContinues == <<>> \in Seq(ContinuingStep(mutex, claims)')
OBVIOUS

LEMMA EmptySequence == \A S : <<>> \in Seq(S)
OBVIOUS

LEMMA PlainContinues ==
    ASSUME NEW i \in Instances, NEW cs
    PROVE  Seq(PlainStep) \subseteq Seq(ContinuingStep(i, cs))
<1>1. \A w \in PlainStep : w \in Write /\ w.op # "store" /\ w.op # "own"
  BY PlainSteps, DurableIsWrite DEF PlainStep, WriteHolder, WriteFlag
<1>2. PlainStep \subseteq ContinuingStep(i, cs)
  BY <1>1 DEF ContinuingStep
<1>. QED
  BY <1>2, WiderSequences

(***************************************************************************)
(* One write of an operation that continues under the store's epoch.       *)
(***************************************************************************)
LEMMA ContinuingApplied ==
    ASSUME Lasting, NEW i \in Instances, NEW cs, ClaimsFit(cs),
           NEW w \in ContinuingStep(i, cs), Apply(i, w), UNCHANGED <<gen, life>>
    PROVE  /\ ClaimsFit(cs)'
           /\ ContinuingStep(i, cs) \subseteq ContinuingStep(i, cs)'
<1>0. w \in Write
  BY DEF ContinuingStep
<1>1. CASE ApplyStore(w)
  <2>1. /\ store.kind = "present" /\ store'.kind = "present"
        /\ store'.epoch = store.epoch
        /\ store'.holderId = store.holderId
        /\ own' = own
    BY <1>0, <1>1, WriteShape DEF ApplyStore, ContinuingStep, PresentStore
  <2>. QED
    BY <2>1 DEF ClaimsFit, Belongs, ContinuingStep, Unclaimed
<1>2. CASE ApplyHolder(i, w) \/ ApplyLine(w) \/ ApplyFlag(w) \/ ApplySend(w)
  <2>1. store' = store /\ own' = own
    BY <1>2 DEF ApplyHolder, ApplyLine, ApplyFlag, ApplySend, files
  <2>. QED
    BY <2>1 DEF ClaimsFit, Belongs, ContinuingStep, Unclaimed
<1>3. CASE ApplyOwn(i, w)
  <2>1. /\ store' = store /\ own' = [own EXCEPT ![i] = w.epoch]
        /\ Unclaimed(cs)
    BY <1>3 DEF ApplyOwn, files, ContinuingStep
  <2>2. store.kind = "present" => store.epoch \in Nat
    BY MaxEpochAssumption DEF Lasting, EpochStoreState, PresentStore, Blank, Epochs
  <2>3. \A c \in cs : c[2] \in Nat
    BY MaxEpochAssumption DEF ClaimsFit
  <2>4. ClaimsFit(cs)'
    <3>1. ASSUME NEW c \in cs
          PROVE  c[1] <= gen' /\ Belongs(c)'
      BY <2>1, <2>2, <2>3 DEF ClaimsFit, Belongs, Unclaimed
    <3>. QED
      BY <3>1 DEF ClaimsFit
  <2>. QED
    BY <2>1, <2>4 DEF ContinuingStep, Unclaimed
<1>. QED
  BY <1>1, <1>2, <1>3 DEF Apply

LEMMA ContinuingMade ==
    ASSUME Lasting, NEW i \in Instances, NEW cs, ClaimsFit(cs), claims' = cs,
           NEW writes \in Seq(ContinuingStep(i, cs)), writes # <<>>,
           Make(i, writes), UNCHANGED <<gen, life>>
    PROVE  Fenced'
<1>1. /\ Head(writes) \in ContinuingStep(i, cs)
      /\ Tail(writes) \in Seq(ContinuingStep(i, cs))
  BY HeadTailProperties
<1>2. /\ ClaimsFit(cs)'
      /\ ContinuingStep(i, cs) \subseteq ContinuingStep(i, cs)'
  BY <1>1, ContinuingApplied DEF Make
<1>3. ClaimsFit(claims)'
  BY <1>2 DEF ClaimsFit, Belongs
<1>4. ContinuingStep(i, cs)' = ContinuingStep(i, claims)'
  BY DEF ContinuingStep, Unclaimed
<1>5. todo' \in Seq(ContinuingStep(i, claims)')
  BY <1>1, <1>2, <1>4 DEF Make
<1>6. CASE Tail(writes) = <<>>
  BY <1>3, <1>6, EmptyContinues DEF Make, Fenced
<1>7. CASE Tail(writes) # <<>>
  <2>1. mutex' = i
    BY <1>7 DEF Make
  <2>2. ContinuingStep(i, claims)' = ContinuingStep(mutex, claims)'
    BY <2>1 DEF ContinuingStep
  <2>. QED
    BY <1>3, <1>5, <2>2 DEF Fenced
<1>. QED
  BY <1>6, <1>7

LEMMA PlainMade ==
    ASSUME FInv, NEW i \in Instances, PlainBegin(i), UNCHANGED <<claims, gen, life>>
    PROVE  Fenced'
<1>1. PICK writes \in Seq(PlainStep) : writes # <<>> /\ Make(i, writes)
  BY DEF PlainBegin, Begin
<1>2. Seq(PlainStep) \subseteq Seq(ContinuingStep(i, claims))
  BY PlainContinues
<1>3. writes \in Seq(ContinuingStep(i, claims))
  BY <1>2
<1>. QED
  BY <1>1, <1>3, ContinuingMade DEF FInv, Fenced, IInv

(***************************************************************************)
(* A claim: the writer is the only process that ever acted under its epoch.*)
(***************************************************************************)
LEMMA ClaimFits ==
    ASSUME FInv, NEW i \in Instances, IsWriter(i)
    PROVE  ClaimsFit(claims \cup {<<gen, store.epoch, i, life[i]>>})
<1>. DEFINE new == <<gen, store.epoch, i, life[i]>>
<1>1. /\ store \in PresentStore /\ store.kind = "present"
      /\ store.epoch = own[i] /\ store.epoch \in 1..MaxEpoch /\ store.holderId = i
  BY WriterTyped DEF FInv, PresentStore, Epochs
<1>2. new \in Nat \X (1..MaxEpoch) \X Instances \X Nat
  BY <1>1 DEF FInv, IInv, Remembered
<1>3. gen \in Nat /\ MaxEpoch \in Nat /\ life[i] \in Nat
  BY MaxEpochAssumption DEF FInv, IInv, Remembered
<1>4. Belongs(new) /\ new[1] <= gen
  BY <1>1, <1>3 DEF Belongs
<1>5. ASSUME NEW d \in claims, d[1] = gen, d[2] = store.epoch
      PROVE  d = new
  <2>1. d[3] = i /\ d[4] = life[i]
    BY <1>1, <1>5 DEF FInv, Fenced, ClaimsFit, Belongs
  <2>2. d \in Nat \X (1..MaxEpoch) \X Instances \X Nat
    BY DEF FInv, Fenced, ClaimsFit
  <2>3. d = <<d[1], d[2], d[3], d[4]>>
    BY <2>2
  <2>. QED
    BY <1>5, <2>1, <2>3
<1>6. ASSUME NEW c \in claims \cup {new}, NEW d \in claims \cup {new}, c[1] = d[1], c[2] = d[2]
      PROVE  c = d
  <2>1. new[1] = gen /\ new[2] = store.epoch
    OBVIOUS
  <2>2. CASE c \in claims /\ d \in claims
    BY <1>6, <2>2 DEF FInv, Fenced, ClaimsFit
  <2>. QED
    BY <1>5, <1>6, <2>1, <2>2
<1>7. ASSUME NEW c \in claims \cup {new}
      PROVE  c[1] <= gen /\ Belongs(c)
  BY <1>4 DEF FInv, Fenced, ClaimsFit
<1>8. claims \cup {new} \subseteq (Nat \X (1..MaxEpoch) \X Instances \X Nat)
  BY <1>2 DEF FInv, Fenced, ClaimsFit
<1>. QED
  BY <1>6, <1>7, <1>8 DEF ClaimsFit

LEMMA FencedAppend ==
    ASSUME FInv, NEW i \in Instances, NEW what \in WriterLines,
           dispatchAppend(i, WriterLine(i, what))
    PROVE  Fenced'
<1>. DEFINE line == WriterLine(i, what)
            cs == claims \cup {<<gen, store.epoch, i, life[i]>>}
            writes == appendLine(line)
                        \o (IF store.seedPending
                            THEN <<WriteStore(Present(store.epoch, store.holderId, FALSE, FALSE))>>
                            ELSE <<>>)
<1>1. IsWriter(i)
  BY DEF dispatchAppend
<1>2. line \in Line
  BY <1>1, WriterLineTyped DEF FInv
<1>3. Seq(PlainStep) \subseteq Seq(ContinuingStep(i, cs))
  BY PlainContinues
<1>4. appendLine(line) \in Seq(ContinuingStep(i, cs)) /\ appendLine(line) # <<>>
  <2>1. appendLine(line) \in Seq(PlainStep) /\ appendLine(line) # <<>>
    BY <1>2, appendLinePlain
  <2>. QED
    BY <1>3, <2>1
<1>5. WriteStore(Present(store.epoch, store.holderId, FALSE, FALSE)) \in ContinuingStep(i, cs)
  BY <1>1, WriterTyped DEF FInv, WriteStore, Present, PresentStore, Write, ContinuingStep
<1>6. /\ writes \in Seq(ContinuingStep(i, cs))
      /\ writes # <<>>
  <2>1. \A s, t \in Seq(ContinuingStep(i, cs)) :
          s # <<>> => s \o t \in Seq(ContinuingStep(i, cs)) /\ s \o t # <<>>
    BY ConcatProperties, ConcatEqualIffEmpty
  <2>2. (IF store.seedPending
         THEN <<WriteStore(Present(store.epoch, store.holderId, FALSE, FALSE))>>
         ELSE <<>>) \in Seq(ContinuingStep(i, cs))
    <3>. HIDE DEF cs
    <3>1. CASE store.seedPending
      BY <1>5, <3>1, ShortSequences
    <3>2. CASE ~store.seedPending
      BY <3>2, EmptySequence
    <3>. QED
      BY <3>1, <3>2
  <2>. QED
    BY <1>4, <2>1, <2>2
<1>7. ClaimsFit(cs)
  BY <1>1, ClaimFits
<1>8. /\ Make(i, writes) /\ claims' = cs /\ UNCHANGED <<gen, life>>
  BY DEF dispatchAppend, Begin, Claim
<1>. QED
  BY <1>6, <1>7, <1>8, ContinuingMade DEF FInv, IInv

LEMMA FencedMutation ==
    ASSUME FInv, NEW i \in Instances, NEW kind \in OrderKinds, dispatchMutation(i, kind)
    PROVE  Fenced'
<1>. DEFINE cs == claims \cup {<<gen, store.epoch, i, life[i]>>}
            writes == (IF kind = "entry" THEN repairFlag ELSE <<>>) \o <<Send(kind)>>
<1>1. IsWriter(i)
  BY DEF dispatchMutation, MayAct
<1>2. Seq(PlainStep) \subseteq Seq(ContinuingStep(i, cs))
  BY PlainContinues
<1>3. (IF kind = "entry" THEN repairFlag ELSE <<>>) \in Seq(ContinuingStep(i, cs))
  <2>. HIDE DEF cs
  <2>1. repairFlag \in Seq(ContinuingStep(i, cs))
    BY <1>2, repairFlagPlain
  <2>. QED
    BY <2>1, EmptySequence
<1>4. Send(kind) \in ContinuingStep(i, cs)
  BY DEF Send, Write, ContinuingStep
<1>5. /\ <<Send(kind)>> \in Seq(ContinuingStep(i, cs))
      /\ <<Send(kind)>> # <<>>
  BY <1>4, ShortSequences
<1>6. writes \in Seq(ContinuingStep(i, cs)) /\ writes # <<>>
  BY <1>3, <1>5, ConcatProperties, ConcatEqualIffEmpty
<1>7. ClaimsFit(cs)
  BY <1>1, ClaimFits
<1>8. /\ Make(i, writes) /\ claims' = cs /\ UNCHANGED <<gen, life>>
  BY DEF dispatchMutation, Begin, Claim
<1>. QED
  BY <1>6, <1>7, <1>8, ContinuingMade DEF FInv, IInv

LEMMA FencedBinding ==
    ASSUME FInv, NEW i \in Instances, haltForBindingMismatch(i)
    PROVE  Fenced'
<1>. DEFINE cs == claims \cup {<<gen, store.epoch, i, life[i]>>}
<1>1. PlainBegin(i) /\ IsWriter(i)
  BY BindingStep DEF FInv, haltForBindingMismatch, MayAct
<1>2. PICK writes \in Seq(PlainStep) : writes # <<>> /\ Make(i, writes)
  BY <1>1 DEF PlainBegin, Begin
<1>3. Seq(PlainStep) \subseteq Seq(ContinuingStep(i, cs))
  BY PlainContinues
<1>4. writes \in Seq(ContinuingStep(i, cs))
  BY <1>3
<1>5. ClaimsFit(cs)
  BY <1>1, ClaimFits
<1>6. claims' = cs /\ UNCHANGED <<gen, life>>
  BY DEF haltForBindingMismatch, Claim
<1>. QED
  BY <1>2, <1>4, <1>5, <1>6, ContinuingMade DEF FInv, IInv

(***************************************************************************)
(* An acquisition: its first write is the store with the next epoch, under *)
(* which nobody has acted; all it has still to write names that epoch.     *)
(***************************************************************************)
TakingStep(i, epoch) ==
    PlainStep \cup {SetOwn(epoch)}
      \cup {w \in Write : w.op = "store" /\ w.store.epoch = epoch /\ w.store.holderId = i}

LEMMA TakingWrites ==
    ASSUME NEW i \in Instances, NEW plan, plan.epoch \in Epochs,
           plan.seedPending \in BOOLEAN, plan.resetPending \in BOOLEAN
    PROVE  \E rest \in Seq(TakingStep(i, plan.epoch)) :
              /\ rest # <<>>
              /\ acquisitionWrites(i, plan)
                   = <<WriteStore(Present(plan.epoch, i, plan.seedPending, plan.resetPending)),
                       WriteHolder>> \o rest
<1>. DEFINE S == TakingStep(i, plan.epoch)
            pair == appendLine(Authoritative("GAP", plan.epoch))
                      \o appendLine(HaltLine(plan.epoch, "EPOCH_STORE_RESET"))
<1>1. /\ WriteFlag \in S
      /\ SetOwn(plan.epoch) \in S
      /\ WriteStore(Present(plan.epoch, i, FALSE, FALSE)) \in S
      /\ PlainStep \subseteq S
  <2>1. WriteFlag \in S /\ PlainStep \subseteq S
    BY PlainSteps DEF TakingStep
  <2>2. SetOwn(plan.epoch) \in S
    BY DEF TakingStep
  <2>3. WriteStore(Present(plan.epoch, i, FALSE, FALSE)) \in S
    BY DEF TakingStep, Write, WriteStore, Present, PresentStore
  <2>. QED
    BY <2>1, <2>2, <2>3
<1>2. /\ Authoritative("GAP", plan.epoch) \in Line
      /\ HaltLine(plan.epoch, "EPOCH_STORE_RESET") \in Line
  BY LinesAreLines, MaxEpochAssumption DEF Epochs, AuthoritativeTypes, Reasons, WeakReasons
<1>3. pair \in Seq(PlainStep)
  BY <1>2, appendLinePlain, ConcatPlain
<1>4. /\ pair \in Seq(S)
      /\ <<WriteFlag>> \in Seq(S)
      /\ <<SetOwn(plan.epoch)>> \in Seq(S) /\ <<SetOwn(plan.epoch)>> # <<>>
      /\ <<WriteStore(Present(plan.epoch, i, FALSE, FALSE)), SetOwn(plan.epoch)>> \in Seq(S)
      /\ <<WriteStore(Present(plan.epoch, i, FALSE, FALSE)), SetOwn(plan.epoch)>> # <<>>
  <2>1. pair \in Seq(S)
    BY <1>1, <1>3, WiderSequences
  <2>. QED
    BY <1>1, <2>1, ShortSequences
<1>5. completeReset(i, plan.epoch) \in Seq(S) /\ completeReset(i, plan.epoch) # <<>>
  <2>1. (IF resetPairPresent(journal) THEN <<WriteFlag>> ELSE pair) \in Seq(S)
    BY <1>4
  <2>2. \A s, u \in Seq(S) : u # <<>> => s \o u \in Seq(S) /\ s \o u # <<>>
    BY ConcatProperties, ConcatEqualIffEmpty
  <2>3. completeReset(i, plan.epoch)
          = (IF resetPairPresent(journal) THEN <<WriteFlag>> ELSE pair)
              \o <<WriteStore(Present(plan.epoch, i, FALSE, FALSE)), SetOwn(plan.epoch)>>
    BY DEF completeReset
  <2>. HIDE DEF S, pair
  <2>. QED
    BY <1>4, <2>1, <2>2, <2>3
<1>. QED
  BY <1>4, <1>5 DEF acquisitionWrites

LEMMA FencedTaking ==
    ASSUME FInv, NEW i \in Instances, NEW virgin \in VirginEvidence, acquireUnderLock(i, virgin)
    PROVE  Fenced'
<1>. DEFINE plan == planEpochAcquisition(store, virgin, journal = <<>>)
            S == TakingStep(i, plan.epoch)
            first == WriteStore(Present(plan.epoch, i, plan.seedPending, plan.resetPending))
            writes == acquisitionWrites(i, plan)
<1>1. virgin \in BOOLEAN /\ store \in EpochStoreState /\ plan.kind # "REFUSE"
  BY InputsAssumption DEF FInv, IInv, Lasting, acquireUnderLock
<1>2. /\ plan.epoch \in Epochs /\ plan.seedPending \in BOOLEAN /\ plan.resetPending \in BOOLEAN
      /\ store.kind = "present" => plan.epoch = store.epoch + 1
  BY <1>1, PlanShape
<1>3. PICK rest \in Seq(S) : rest # <<>> /\ writes = <<first, WriteHolder>> \o rest
  BY <1>2, TakingWrites
<1>4. WriteHolder \in S /\ first \in S
  BY <1>2, PlainSteps DEF TakingStep, Write, WriteStore, Present, PresentStore
<1>5. Head(writes) = first /\ Tail(writes) \in Seq(S) /\ Tail(writes) # <<>>
  <2>1. /\ writes \in Seq(S) /\ writes # <<>> /\ writes[1] = first
        /\ Len(writes) = 2 + Len(rest) /\ Len(rest) \in Nat
    <3>1. <<first, WriteHolder>> \in Seq(S) /\ Len(<<first, WriteHolder>>) = 2
          /\ <<first, WriteHolder>>[1] = first
      BY <1>4, ShortSequences
    <3>. HIDE DEF S, writes, first
    <3>2. \A s, u \in Seq(S) :
            /\ s \o u \in Seq(S) /\ Len(s \o u) = Len(s) + Len(u)
            /\ Len(s) = 2 => (s \o u)[1] = s[1]
      BY ConcatProperties
    <3>3. Len(writes) = 2 + Len(rest) /\ writes \in Seq(S) /\ writes[1] = first /\ Len(rest) \in Nat
      BY <1>3, <3>1, <3>2
    <3>. QED
      BY <3>3
  <2>. HIDE DEF S, writes, first
  <2>2. /\ Head(writes) = writes[1]
        /\ Tail(writes) \in Seq(S)
        /\ Len(Tail(writes)) = Len(writes) - 1
    BY <2>1, HeadTailProperties
  <2>3. Len(rest) # 0
    BY <1>3, EmptySeq
  <2>4. Len(Tail(writes)) # 0
    BY <2>1, <2>2, <2>3
  <2>5. Len(<<>>) = 0
    OBVIOUS
  <2>. QED
    BY <2>1, <2>2, <2>4, <2>5
<1>6. Make(i, writes) /\ UNCHANGED <<claims, gen, life>>
  BY DEF acquireUnderLock, Begin, history
<1>7. Apply(i, first) /\ todo' = Tail(writes) /\ mutex' = i
  BY <1>5, <1>6 DEF Make
<1>8. store' = Present(plan.epoch, i, plan.seedPending, plan.resetPending) /\ own' = own
  BY <1>7 DEF Apply, ApplyStore, ApplyHolder, ApplyLine, ApplyFlag, ApplyOwn, ApplySend, first,
              WriteStore
<1>9. /\ store'.kind = "present" /\ store'.epoch = plan.epoch /\ store'.holderId = i
  BY <1>8 DEF Present
<1>10. Unclaimed(claims)'
  <2>1. ASSUME NEW c \in claims, c[1] = gen
        PROVE  c[2] < plan.epoch
    <3>1. store.kind = "present" /\ c[2] <= store.epoch /\ c[2] \in Nat
      BY <2>1, MaxEpochAssumption DEF FInv, Fenced, ClaimsFit, Belongs
    <3>2. store.epoch \in Nat
      BY <1>1, <3>1, MaxEpochAssumption DEF EpochStoreState, PresentStore, Blank, Epochs
    <3>. QED
      BY <1>2, <3>1, <3>2
  <2>. QED
    BY <1>6, <1>9, <2>1 DEF Unclaimed
<1>11. ClaimsFit(claims)'
  <2>1. /\ \A c \in claims : c[2] \in Nat
        /\ plan.epoch \in Nat
    BY <1>2, MaxEpochAssumption DEF FInv, Fenced, ClaimsFit, Epochs
  <2>2. ASSUME NEW c \in claims
        PROVE  Belongs(c)'
    BY <1>6, <1>9, <1>10, <2>1, <2>2 DEF Belongs, Unclaimed
  <2>. QED
    BY <1>6, <2>2 DEF FInv, Fenced, ClaimsFit
<1>12. S \subseteq ContinuingStep(mutex, claims)'
  <2>1. PlainStep \subseteq Write
    BY PlainSteps, DurableIsWrite
  <2>2. \A w \in PlainStep : w.op # "store" /\ w.op # "own"
    BY DEF PlainStep, WriteHolder, WriteFlag
  <2>3. SetOwn(plan.epoch) \in ContinuingStep(mutex, claims)'
    BY <1>2, <1>7, <1>9, <1>10 DEF SetOwn, Write, ContinuingStep
  <2>4. ASSUME NEW w \in Write, w.op = "store", w.store.epoch = plan.epoch, w.store.holderId = i
        PROVE  w \in ContinuingStep(mutex, claims)'
    BY <1>9, <2>4 DEF ContinuingStep
  <2>5. PlainStep \subseteq ContinuingStep(mutex, claims)'
    BY <2>1, <2>2 DEF ContinuingStep
  <2>. QED
    BY <2>3, <2>4, <2>5 DEF TakingStep
<1>. QED
  BY <1>5, <1>7, <1>11, <1>12 DEF Fenced

(***************************************************************************)
(* The environment.                                                        *)
(***************************************************************************)
LEMMA SameFenced ==
    ASSUME Fenced, UNCHANGED <<store, own, todo, mutex, gen, life, claims>>
    PROVE  Fenced'
BY DEF Fenced, ClaimsFit, Belongs, ContinuingStep, Unclaimed

LEMMA FencedEnvironment ==
    ASSUME FInv, Environment
    PROVE  Fenced'
<1>1. CASE HeartbeatExpires
  BY <1>1, SameFenced DEF HeartbeatExpires, FInv, history
<1>2. ASSUME NEW i \in Instances, Crash(i)
      PROVE  Fenced'
  <2>1. /\ own' = [own EXCEPT ![i] = 0] /\ life' = [life EXCEPT ![i] = @ + 1]
        /\ UNCHANGED <<store, gen, claims>>
    BY <1>2 DEF Crash, files
  <2>2. /\ own \in [Instances -> 0..MaxEpoch] /\ life \in [Instances -> Nat]
        /\ store \in EpochStoreState
    BY DEF FInv, IInv, Lasting, Remembered
  <2>3. ASSUME NEW c \in claims
        PROVE  Belongs(c)'
    <3>1. c[3] \in Instances /\ Belongs(c)
      BY DEF FInv, Fenced, ClaimsFit
    <3>2. store.kind = "present" => store.epoch # 0
      BY <2>2 DEF EpochStoreState, PresentStore, Blank, Epochs
    <3>3. CASE c[3] = i
      BY <2>1, <2>2, <3>1, <3>2, <3>3 DEF Belongs
    <3>4. CASE c[3] # i
      BY <2>1, <2>2, <3>1, <3>4 DEF Belongs
    <3>. QED
      BY <3>3, <3>4
  <2>4. ClaimsFit(claims)'
    BY <2>1, <2>3 DEF FInv, Fenced, ClaimsFit
  <2>5. ContinuingStep(mutex, claims)' = ContinuingStep(mutex', claims)
    BY <2>1 DEF ContinuingStep, Unclaimed
  <2>6. todo' \in Seq(ContinuingStep(mutex, claims)')
    <3>1. CASE mutex = i
      BY <1>2, <3>1 DEF Crash, LeaveGateway
    <3>2. CASE mutex # i
      BY <1>2, <2>5, <3>2 DEF Crash, LeaveGateway, FInv, Fenced
    <3>. QED
      BY <3>1, <3>2
  <2>. QED
    BY <2>4, <2>6 DEF Fenced
<1>3. CASE WriteFails
  <2>1. UNCHANGED <<store, own, gen, life, claims>> /\ todo' = <<>>
    BY <1>3 DEF WriteFails, LeaveGateway, files, history
  <2>2. ClaimsFit(claims)'
    BY <2>1 DEF FInv, Fenced, ClaimsFit, Belongs
  <2>. QED
    BY <2>1, <2>2, EmptyContinues DEF Fenced
<1>4. ASSUME NEW kind \in {"absent", "unreadable"}, StoreLost(kind)
      PROVE  Fenced'
  <2>1. gen' = gen + 1 /\ claims' = claims /\ gen \in Nat
    BY <1>4 DEF StoreLost, FInv, IInv, Remembered
  <2>2. ASSUME NEW c \in claims
        PROVE  c[1] <= gen' /\ Belongs(c)'
    <3>1. c[1] <= gen /\ c[1] \in Nat
      BY DEF FInv, Fenced, ClaimsFit
    <3>. QED
      BY <2>1, <3>1 DEF Belongs
  <2>3. ClaimsFit(claims)'
    BY <2>1, <2>2 DEF FInv, Fenced, ClaimsFit
  <2>4. todo' = <<>>
    BY <1>4 DEF StoreLost, FInv, IInv, Pending
  <2>. QED
    BY <2>3, <2>4, EmptyContinues DEF Fenced
<1>5. ASSUME NEW readsAs \in {notHalted, Halt(FlagUnreadable, FALSE)}, FlagDamaged(readsAs)
      PROVE  Fenced'
  BY <1>5, SameFenced DEF FlagDamaged, FInv, history
<1>. QED
  BY <1>1, <1>2, <1>3, <1>4, <1>5 DEF Environment

-----------------------------------------------------------------------------
LEMMA FencedInitially == Init => FInv
<1>. SUFFICES ASSUME Init PROVE Fenced
  BY Initially DEF FInv
<1>1. claims = {} /\ todo = <<>>
  BY DEF Init
<1>. QED
  BY <1>1 DEF Fenced, ClaimsFit

LEMMA FencedStep == FInv /\ [Next]_vars => FInv'
<1>. SUFFICES ASSUME FInv, [Next]_vars PROVE Fenced'
  BY Stepwise DEF FInv
<1>1. CASE Continue
  <2>1. /\ mutex \in Instances /\ todo # <<>> /\ Make(mutex, todo)
        /\ UNCHANGED <<claims, gen, life>>
    BY <1>1 DEF Continue, history, FInv, IInv, Pending
  <2>. QED
    BY <2>1, ContinuingMade DEF FInv, IInv, Fenced
<1>2. ASSUME NEW i \in Instances, GatewayStep(i)
      PROVE  Fenced'
  <2>1. CASE ObserveStore(i) \/ AcquisitionDenied(i) \/ releaseHolder(i)
    BY <2>1, SameFenced DEF ObserveStore, AcquisitionDenied, releaseHolder, files, history, FInv
  <2>2. ASSUME NEW virgin \in VirginEvidence, acquireUnderLock(i, virgin)
        PROVE  Fenced'
    BY <2>2, FencedTaking
  <2>3. ASSUME NEW what \in WriterLines, dispatchAppend(i, WriterLine(i, what))
        PROVE  Fenced'
    BY <2>3, FencedAppend
  <2>4. ASSUME NEW kind \in OrderKinds, dispatchMutation(i, kind)
        PROVE  Fenced'
    BY <2>4, FencedMutation
  <2>5. CASE haltForBindingMismatch(i)
    BY <2>5, FencedBinding
  <2>6. CASE dispatchWitness(i)
    BY <2>6, WitnessStep, PlainMade DEF dispatchWitness, history, FInv
  <2>7. ASSUME NEW reason \in SafetyReasons, dispatchSafetyHalt(i, reason)
        PROVE  Fenced'
    BY <2>7, SafetyHaltStep, PlainMade DEF dispatchSafetyHalt, history, FInv
  <2>8. CASE dispatchManualUnhalt(i)
    BY <2>8, UnhaltStep, PlainMade DEF dispatchManualUnhalt, history, FInv
  <2>9. CASE openJournal(i) \/ openJournalAsWriter(i) \/ heartbeat(i)
    BY <2>9, OpenStep, PlainMade DEF openJournal, openJournalAsWriter, heartbeat, history, FInv
  <2>. QED
    BY <1>2, <2>1, <2>2, <2>3, <2>4, <2>5, <2>6, <2>7, <2>8, <2>9 DEF GatewayStep, Acquisition
<1>3. CASE Environment
  BY <1>3, FencedEnvironment
<1>4. CASE UNCHANGED vars
  BY <1>4, SameFenced DEF vars, files, history, FInv
<1>. QED
  BY <1>1, <1>2, <1>3, <1>4 DEF Next

(***************************************************************************)
(* Whoever acted under one epoch of one epoch store is one process: the    *)
(* fencing of the gateway, for any number of instances, crashes, takeovers *)
(* and losses of the store.                                                *)
(***************************************************************************)
THEOREM EpochsAreExclusive == Spec => []OneProcessPerEpoch
<1>1. FInv => OneProcessPerEpoch
  BY DEF FInv, Fenced, ClaimsFit, OneProcessPerEpoch
<1>. QED
  BY FencedInitially, FencedStep, <1>1, PTL DEF Spec

(***************************************************************************)
(* Who may send an order: the gateway implements HaltInterlock as long as  *)
(* the epoch store is kept, and when it is not, nothing that opens risk    *)
(* leaves before a human has un-halted.  For every set of instances, every *)
(* other fault and every bound.                                            *)
(***************************************************************************)

(***************************************************************************)
(* An order waits for nothing but its own operation, and the instance that *)
(* holds the mutex may still act when it leaves.                           *)
(***************************************************************************)
Authorised == \A kind \in OrderKinds : todo = <<Send(kind)>> => MayAct(mutex)

LEMMA ConcatHeadTail ==
    ASSUME NEW S, NEW s \in Seq(S), s # <<>>, NEW t \in Seq(S)
    PROVE  Head(s \o t) = Head(s) /\ Tail(s \o t) = Tail(s) \o t
<1>1. /\ s \o t \in Seq(S) /\ Len(s \o t) = Len(s) + Len(t)
      /\ \A k \in 1..Len(s) + Len(t) : (s \o t)[k] = IF k <= Len(s) THEN s[k] ELSE t[k - Len(s)]
  BY ConcatProperties
<1>2. Len(s) \in Nat \ {0} /\ Len(t) \in Nat
  BY EmptySeq
<1>3. s \o t # <<>> /\ Head(s \o t) = Head(s)
  BY <1>1, <1>2
<1>4. /\ Tail(s) \in Seq(S) /\ Len(Tail(s)) = Len(s) - 1
      /\ \A k \in 1..Len(Tail(s)) : Tail(s)[k] = s[k + 1]
  BY HeadTailProperties
<1>5. /\ Tail(s \o t) \in Seq(S) /\ Len(Tail(s \o t)) = Len(s \o t) - 1
      /\ \A k \in 1..Len(Tail(s \o t)) : Tail(s \o t)[k] = (s \o t)[k + 1]
  BY <1>1, <1>3, HeadTailProperties
<1>6. /\ Tail(s) \o t \in Seq(S) /\ Len(Tail(s) \o t) = Len(Tail(s)) + Len(t)
      /\ \A k \in 1..Len(Tail(s)) + Len(t) :
           (Tail(s) \o t)[k] = IF k <= Len(Tail(s)) THEN Tail(s)[k] ELSE t[k - Len(Tail(s))]
  BY <1>4, ConcatProperties
<1>7. ASSUME NEW k \in 1..Len(Tail(s \o t))
      PROVE  Tail(s \o t)[k] = (Tail(s) \o t)[k]
  <2>1. k + 1 \in 1..Len(s) + Len(t) /\ Tail(s \o t)[k] = (s \o t)[k + 1]
    BY <1>1, <1>2, <1>5
  <2>2. k \in 1..Len(Tail(s)) + Len(t)
    BY <1>1, <1>2, <1>4, <1>5
  <2>3. CASE k + 1 <= Len(s)
    BY <1>1, <1>2, <1>4, <1>6, <2>1, <2>2, <2>3
  <2>4. CASE ~(k + 1 <= Len(s))
    <3>1. k + 1 - Len(s) = k - Len(Tail(s))
      BY <1>2, <1>4
    <3>2. (s \o t)[k + 1] = t[k + 1 - Len(s)]
      BY <1>1, <2>1, <2>4
    <3>3. (Tail(s) \o t)[k] = t[k - Len(Tail(s))]
      BY <1>2, <1>4, <1>6, <2>2, <2>4
    <3>. QED
      BY <2>1, <3>1, <3>2, <3>3
  <2>. QED
    BY <2>3, <2>4
<1>8. Len(Tail(s \o t)) = Len(Tail(s) \o t)
  BY <1>1, <1>2, <1>4, <1>5, <1>6
<1>. QED
  BY <1>3, <1>5, <1>6, <1>7, <1>8, SeqEqual

LEMMA appendLineFirst ==
    ASSUME NEW line \in Line
    PROVE  Head(appendLine(line)) = WriteLine(line)
<1>1. CASE IsTransition(line)
  BY <1>1, TwoSteps DEF appendLine
<1>2. CASE ~IsTransition(line)
  <2>1. <<WriteLine(line)>> \o <<>> = <<WriteLine(line)>>
    OBVIOUS
  <2>. QED
    BY <1>2, <2>1 DEF appendLine
<1>. QED
  BY <1>1, <1>2

LEMMA NoSendAmongDurable ==
    ASSUME NEW s \in Seq(DurableStep), NEW kind
    PROVE  s # <<Send(kind)>>
<1>. SUFFICES ASSUME s = <<Send(kind)>> PROVE FALSE
  OBVIOUS
<1>1. s[1] = Send(kind) /\ Send(kind) \in DurableStep
  OBVIOUS
<1>. QED
  BY <1>1, DurableShape DEF Send

LEMMA AuthorisedWhenDurable ==
    ASSUME NEW i \in Instances, DurableBegin(i)
    PROVE  Authorised'
<1>1. PICK writes \in Seq(DurableStep) : writes # <<>> /\ Make(i, writes)
  BY DEF DurableBegin, Begin
<1>2. todo' \in Seq(DurableStep)
  BY <1>1, HeadTailProperties DEF Make
<1>. QED
  BY <1>2, NoSendAmongDurable DEF Authorised

LEMMA AuthorisedMutation ==
    ASSUME NEW i \in Instances, NEW kind \in OrderKinds, dispatchMutation(i, kind)
    PROVE  Authorised'
<1>1. CASE kind = "entry" /\ flag # reconciledHalt
  <2>. DEFINE writes == <<WriteFlag>> \o <<Send(kind)>>
  <2>1. Make(i, writes) /\ MayAct(i)
    BY <1>1 DEF dispatchMutation, Begin, repairFlag
  <2>2. Head(writes) = WriteFlag /\ Tail(writes) = <<Send(kind)>>
    BY TwoSteps
  <2>3. <<Send(kind)>> # <<>>
    OBVIOUS
  <2>4. ApplyFlag(WriteFlag) /\ mutex' = i
    <3>1. Apply(i, WriteFlag) /\ mutex' = i
      BY <2>1, <2>2, <2>3 DEF Make
    <3>2. ApplyFlag(WriteFlag)
      BY <3>1 DEF Apply, ApplyStore, ApplyHolder, ApplyLine, ApplyOwn, ApplySend, WriteFlag
    <3>. QED
      BY <3>1, <3>2
  <2>5. store' = store /\ own' = own
    BY <2>4 DEF ApplyFlag
  <2>. QED
    BY <2>1, <2>4, <2>5 DEF Authorised, MayAct, IsWriter
<1>2. CASE ~(kind = "entry" /\ flag # reconciledHalt)
  <2>1. <<>> \o <<Send(kind)>> = <<Send(kind)>> /\ Tail(<<Send(kind)>>) = <<>>
    OBVIOUS
  <2>2. todo' = <<>>
    BY <1>2, <2>1 DEF dispatchMutation, Begin, repairFlag, Make
  <2>. QED
    BY <2>2 DEF Authorised
<1>. QED
  BY <1>1, <1>2

LEMMA AuthorisedContinues ==
    ASSUME IInv, Continue
    PROVE  Authorised'
<1>1. todo # <<>> /\ todo' = Tail(todo)
  BY DEF Continue, Make, IInv, Pending
<1>2. CASE todo \in Seq(DurableStep)
  <2>1. todo' \in Seq(DurableStep)
    BY <1>1, <1>2, HeadTailProperties
  <2>. QED
    BY <2>1, NoSendAmongDurable DEF Authorised
<1>3. ASSUME NEW kind \in OrderKinds, todo = <<Send(kind)>>
      PROVE  Authorised'
  BY <1>1, <1>3 DEF Authorised
<1>. QED
  BY <1>2, <1>3 DEF IInv, Pending, SendsChecked

LEMMA AuthorisedEnvironment ==
    ASSUME IInv, Authorised, Environment
    PROVE  Authorised'
<1>1. CASE HeartbeatExpires
  BY <1>1 DEF HeartbeatExpires, Authorised, MayAct, IsWriter
<1>2. ASSUME NEW i \in Instances, Crash(i)
      PROVE  Authorised'
  <2>1. CASE mutex = i
    BY <1>2, <2>1 DEF Crash, LeaveGateway, Authorised
  <2>2. CASE mutex # i
    <3>1. /\ own' = [own EXCEPT ![i] = 0] /\ own \in [Instances -> 0..MaxEpoch]
          /\ UNCHANGED <<store, mutex, todo>>
      BY <1>2, <2>2 DEF Crash, LeaveGateway, files, IInv, Lasting
    <3>2. CASE mutex \in Instances
      <4>1. own'[mutex] = own[mutex]
        BY <2>2, <3>1, <3>2
      <4>. QED
        BY <3>1, <4>1 DEF Authorised, MayAct, IsWriter
    <3>3. CASE mutex = NoOne
      BY <3>1, <3>3 DEF IInv, Pending, Authorised
    <3>. QED
      BY <3>2, <3>3 DEF IInv, Pending
  <2>. QED
    BY <2>1, <2>2
<1>3. CASE WriteFails
  BY <1>3 DEF WriteFails, LeaveGateway, Authorised
<1>4. ASSUME NEW kind \in {"absent", "unreadable"}, StoreLost(kind)
      PROVE  Authorised'
  BY <1>4 DEF StoreLost, IInv, Pending, Authorised
<1>5. ASSUME NEW readsAs \in {notHalted, Halt(FlagUnreadable, FALSE)}, FlagDamaged(readsAs)
      PROVE  Authorised'
  BY <1>5 DEF FlagDamaged, IInv, Pending, Authorised
<1>. QED
  BY <1>1, <1>2, <1>3, <1>4, <1>5 DEF Environment

LEMMA AuthorisedStep ==
    ASSUME IInv, Authorised, [Next]_vars
    PROVE  Authorised'
<1>1. CASE Continue
  BY <1>1, AuthorisedContinues
<1>2. ASSUME NEW i \in Instances, GatewayStep(i)
      PROVE  Authorised'
  <2>1. CASE ObserveStore(i) \/ AcquisitionDenied(i) \/ releaseHolder(i)
    <3>1. UNCHANGED <<store, own, mutex, todo>>
      BY <2>1 DEF ObserveStore, AcquisitionDenied, releaseHolder, files
    <3>. QED
      BY <3>1 DEF Authorised, MayAct, IsWriter
  <2>2. ASSUME NEW virgin \in VirginEvidence, acquireUnderLock(i, virgin)
        PROVE  DurableBegin(i)
    BY <2>2, AcquireStep
  <2>3. ASSUME NEW what \in WriterLines, dispatchAppend(i, WriterLine(i, what))
        PROVE  DurableBegin(i)
    BY <2>3, AppendStep
  <2>4. ASSUME NEW kind \in OrderKinds, dispatchMutation(i, kind)
        PROVE  Authorised'
    BY <2>4, AuthorisedMutation
  <2>5. CASE haltForBindingMismatch(i)
    BY <2>5, BindingStep, PlainIsDurable, AuthorisedWhenDurable
  <2>6. CASE dispatchWitness(i)
    BY <2>6, WitnessStep, PlainIsDurable, AuthorisedWhenDurable
  <2>7. ASSUME NEW reason \in SafetyReasons, dispatchSafetyHalt(i, reason)
        PROVE  Authorised'
    BY <2>7, SafetyHaltStep, PlainIsDurable, AuthorisedWhenDurable
  <2>8. CASE dispatchManualUnhalt(i)
    BY <2>8, UnhaltStep, PlainIsDurable, AuthorisedWhenDurable
  <2>9. CASE openJournal(i) \/ openJournalAsWriter(i) \/ heartbeat(i)
    BY <2>9, OpenStep, PlainIsDurable, AuthorisedWhenDurable
  <2>. QED
    BY <1>2, <2>1, <2>2, <2>3, <2>4, <2>5, <2>6, <2>7, <2>8, <2>9, AuthorisedWhenDurable
       DEF GatewayStep, Acquisition
<1>3. CASE Environment
  BY <1>3, AuthorisedEnvironment
<1>4. CASE UNCHANGED vars
  BY <1>4 DEF vars, files, Authorised, MayAct, IsWriter
<1>. QED
  BY <1>1, <1>2, <1>3, <1>4 DEF Next

-----------------------------------------------------------------------------
(***************************************************************************)
(* The refinement.  The abstract writer is NoOne or the instance the store *)
(* names.  While the store is kept, the store changes the name it carries  *)
(* only together with its epoch, to one that nobody remembers yet (Low):   *)
(* the writer is gone before there is another.                             *)
(***************************************************************************)
StoreIsKept == Faults \cap {"absent", "unreadable"} = {}

Low == \A i \in Instances : own[i] <= store.epoch

RInv == FInv /\ Authorised /\ Low

LEMMA WriterIsNamed ==
    /\ writerOf = NoOne \/ (writerOf = store.holderId /\ writerOf \in Instances)
    /\ writerOf' = NoOne \/ (writerOf' = store'.holderId /\ writerOf' \in Instances)
BY DEF writerOf

LEMMA NoHandover ==
    ASSUME store'.holderId = store.holderId \/ writerOf' = NoOne, UNCHANGED <<halt, sent>>
    PROVE  [Interlock!Next]_Interlock!ilvars
<1>1. CASE writerOf' = writerOf
  BY <1>1 DEF Interlock!ilvars
<1>2. CASE writerOf' = NoOne
  BY <1>2 DEF Interlock!Next, Interlock!Revoke
<1>3. CASE writerOf = NoOne /\ writerOf' \in Instances
  BY <1>3 DEF Interlock!Next, Interlock!Grant
<1>. QED
  BY <1>1, <1>2, <1>3, WriterIsNamed

LEMMA SameWriter ==
    ASSUME UNCHANGED <<store, own>>
    PROVE  writerOf' = writerOf
BY DEF writerOf, MayAct, IsWriter

LEMMA LineFolds ==
    ASSUME NEW line \in Line, halt \in HaltState, halt' = haltStateAfter(halt, line),
           UNCHANGED <<store, own, sent>>
    PROVE  [Interlock!Next]_Interlock!ilvars
<1>1. writerOf' = writerOf
  BY SameWriter
<1>2. CASE halt' = halt
  BY <1>1, <1>2 DEF Interlock!ilvars
<1>3. CASE ~halt.sticky /\ line.type = "HALT"
  <2>1. halt'.halted = TRUE /\ halt'.sticky = (line.reason \in StickyReasons)
    BY <1>3 DEF haltStateAfter, IsTransition, Halt
  <2>2. halt'.sticky \in {halt.sticky, TRUE}
    <3>1. halt.sticky = FALSE /\ halt'.sticky \in BOOLEAN
      BY <1>3, <2>1 DEF HaltState
    <3>. QED
      BY <3>1
  <2>. QED
    BY <1>1, <2>1, <2>2 DEF Interlock!Next, Interlock!RaiseHalt
<1>4. CASE ~halt.sticky /\ line.type = "UNHALT"
  <2>1. halt'.halted = FALSE /\ halt'.sticky = FALSE
    BY <1>4 DEF haltStateAfter, IsTransition, notHalted
  <2>2. halt.sticky = FALSE
    BY <1>4 DEF HaltState
  <2>. QED
    BY <1>1, <2>1, <2>2 DEF Interlock!Next, Interlock!LiftHalt
<1>. QED
  BY <1>2, <1>3, <1>4 DEF haltStateAfter, IsTransition

(***************************************************************************)
(* One write of an operation under way.                                    *)
(***************************************************************************)
LEMMA WriteMapped ==
    ASSUME FInv, Low, NEW i \in Instances, NEW cs, NEW w \in ContinuingStep(i, cs),
           w.op # "send", Apply(i, w)
    PROVE  [Interlock!Next]_Interlock!ilvars /\ Low'
<1>0. w \in Write /\ halt \in HaltState /\ own \in [Instances -> 0..MaxEpoch]
  BY DEF ContinuingStep, FInv, IInv, Lasting
<1>1. CASE ApplyStore(w)
  <2>1. /\ store'.epoch = store.epoch /\ store'.holderId = store.holderId
        /\ UNCHANGED <<own, halt, sent>>
    BY <1>1 DEF ApplyStore, ContinuingStep
  <2>. QED
    BY <2>1, NoHandover DEF Low
<1>2. CASE ApplyHolder(i, w) \/ ApplyFlag(w)
  <2>1. UNCHANGED <<store, own, halt, sent>>
    BY <1>2 DEF ApplyHolder, ApplyFlag
  <2>. QED
    BY <2>1, NoHandover DEF Low
<1>3. CASE ApplyLine(w)
  <2>1. w.line \in Line /\ halt' = haltStateAfter(halt, w.line) /\ UNCHANGED <<store, own, sent>>
    BY <1>0, <1>3, WriteShape DEF ApplyLine
  <2>. QED
    BY <2>1, <1>0, LineFolds DEF Low
<1>4. CASE ApplyOwn(i, w)
  <2>1. /\ own' = [own EXCEPT ![i] = w.epoch] /\ w.epoch = store.epoch
        /\ UNCHANGED <<store, halt, sent>>
    BY <1>4 DEF ApplyOwn, files, ContinuingStep
  <2>2. w.epoch <= store.epoch
    <3>1. w.epoch \in Nat
      BY <1>0, <1>4, WriteShape, MaxEpochAssumption DEF ApplyOwn, Epochs
    <3>. QED
      BY <2>1, <3>1
  <2>. QED
    BY <1>0, <2>1, <2>2, NoHandover DEF Low
<1>. QED
  BY <1>1, <1>2, <1>3, <1>4 DEF Apply, ApplySend

LEMMA PlainMapped ==
    ASSUME FInv, Low, NEW i \in Instances, PlainBegin(i)
    PROVE  [Interlock!Next]_Interlock!ilvars /\ Low'
<1>1. PICK writes \in Seq(PlainStep) : writes # <<>> /\ Make(i, writes)
  BY DEF PlainBegin, Begin
<1>2. Head(writes) \in PlainStep /\ Apply(i, Head(writes))
  BY <1>1, HeadTailProperties DEF Make
<1>3. Head(writes) \in ContinuingStep(i, claims) /\ Head(writes).op # "send"
  <2>1. PlainStep \subseteq ContinuingStep(i, claims)
    <3>1. \A w \in PlainStep : w \in Write /\ w.op # "store" /\ w.op # "own"
      BY PlainSteps, DurableIsWrite DEF PlainStep, WriteHolder, WriteFlag
    <3>. QED
      BY <3>1 DEF ContinuingStep
  <2>. QED
    BY <1>2, <2>1, PlainSteps, DurableShape
<1>. QED
  BY <1>2, <1>3, WriteMapped

(***************************************************************************)
(* The call of the broker.                                                 *)
(***************************************************************************)
LEMMA SendMapped ==
    ASSUME Low, NEW i \in Instances, NEW kind \in OrderKinds, MayAct(i),
           kind = "entry" => MayOpenRisk, Make(i, <<Send(kind)>>)
    PROVE  [Interlock!Next]_Interlock!ilvars /\ Low'
<1>1. Head(<<Send(kind)>>) = Send(kind)
  OBVIOUS
<1>2. Apply(i, Send(kind))
  BY <1>1 DEF Make
<1>3. ApplySend(Send(kind))
  BY <1>2 DEF Apply, ApplyStore, ApplyHolder, ApplyLine, ApplyFlag, ApplyOwn, Send
<1>4. sent' = Append(sent, kind) /\ UNCHANGED <<store, own, halt>>
  BY <1>3 DEF ApplySend, Send, files
<1>5. writerOf' = writerOf /\ writerOf = i /\ i # NoOne
  BY <1>4, SameWriter, NoOneAssumption DEF writerOf, MayAct, IsWriter
<1>6. Interlock!SendOrder(kind)
  BY <1>4, <1>5 DEF Interlock!SendOrder, MayOpenRisk
<1>7. kind \in {"entry", "close"}
  BY DEF OrderKinds
<1>. QED
  BY <1>4, <1>6, <1>7 DEF Interlock!Next, Low

(***************************************************************************)
(* The operations.                                                         *)
(***************************************************************************)
LEMMA AppendMapped ==
    ASSUME FInv, Low, NEW i \in Instances, NEW what \in WriterLines,
           dispatchAppend(i, WriterLine(i, what))
    PROVE  [Interlock!Next]_Interlock!ilvars /\ Low'
<1>. DEFINE line == WriterLine(i, what)
            promotion == IF store.seedPending
                         THEN <<WriteStore(Present(store.epoch, store.holderId, FALSE, FALSE))>>
                         ELSE <<>>
<1>1. IsWriter(i) /\ Begin(i, appendLine(line) \o promotion)
  BY DEF dispatchAppend
<1>2. line \in Line
  BY <1>1, WriterLineTyped DEF FInv
<1>3. promotion \in Seq(DurableStep)
  <2>1. WriteStore(Present(store.epoch, store.holderId, FALSE, FALSE)) \in DurableStep
    BY <1>1, WriterTyped, DurableSteps DEF FInv, Present, PresentStore
  <2>. QED
    BY <2>1, ShortSequences, EmptySequence
<1>4. Head(appendLine(line) \o promotion) = WriteLine(line)
  BY <1>2, <1>3, appendLinePlain, appendLineFirst, ConcatHeadTail
<1>5. Apply(i, WriteLine(line))
  BY <1>1, <1>4 DEF Begin, Make
<1>6. /\ halt' = haltStateAfter(halt, line) /\ UNCHANGED <<store, own, sent>>
  BY <1>5 DEF Apply, ApplyStore, ApplyHolder, ApplyLine, ApplyFlag, ApplyOwn, ApplySend, WriteLine
<1>. QED
  BY <1>2, <1>6, LineFolds DEF Low, FInv, IInv, Lasting

LEMMA MutationMapped ==
    ASSUME FInv, Low, NEW i \in Instances, NEW kind \in OrderKinds, dispatchMutation(i, kind)
    PROVE  [Interlock!Next]_Interlock!ilvars /\ Low'
<1>1. MayAct(i) /\ (kind = "entry" => ~reconciledHalt.halted)
  BY DEF dispatchMutation
<1>2. CASE kind = "entry" /\ flag # reconciledHalt
  <2>1. Make(i, <<WriteFlag>> \o <<Send(kind)>>)
    BY <1>2 DEF dispatchMutation, Begin, repairFlag
  <2>2. Apply(i, WriteFlag)
    BY <2>1, TwoSteps DEF Make
  <2>3. WriteFlag \in ContinuingStep(i, claims) /\ WriteFlag.op # "send"
    BY DEF WriteFlag, Write, ContinuingStep
  <2>. QED
    BY <2>2, <2>3, WriteMapped
<1>3. CASE ~(kind = "entry" /\ flag # reconciledHalt)
  <2>1. Make(i, <<Send(kind)>>)
    <3>1. <<>> \o <<Send(kind)>> = <<Send(kind)>>
      OBVIOUS
    <3>. QED
      BY <1>3, <3>1 DEF dispatchMutation, Begin, repairFlag
  <2>2. kind = "entry" => MayOpenRisk
    BY <1>1, <1>3 DEF reconciledHalt, MayOpenRisk, FlagsClear, notHalted, FInv, IInv, Lasting
  <2>. QED
    BY <1>1, <2>1, <2>2, SendMapped
<1>. QED
  BY <1>2, <1>3

\* The next epoch is nobody's: the writer, if there was one, is fenced by this write.
LEMMA TakingMapped ==
    ASSUME FInv, Low, NEW i \in Instances, NEW virgin \in VirginEvidence,
           acquireUnderLock(i, virgin)
    PROVE  [Interlock!Next]_Interlock!ilvars /\ Low'
<1>. DEFINE plan == planEpochAcquisition(store, virgin, journal = <<>>)
            first == WriteStore(Present(plan.epoch, i, plan.seedPending, plan.resetPending))
<1>1. virgin \in BOOLEAN /\ store \in EpochStoreState /\ plan.kind # "REFUSE"
  BY InputsAssumption DEF FInv, IInv, Lasting, acquireUnderLock
<1>2. /\ plan.epoch \in Epochs /\ plan.seedPending \in BOOLEAN /\ plan.resetPending \in BOOLEAN
      /\ store.kind = "present" => plan.epoch = store.epoch + 1
  BY <1>1, PlanShape
<1>3. Make(i, acquisitionWrites(i, plan))
  BY DEF acquireUnderLock, Begin
<1>4. Head(acquisitionWrites(i, plan)) = first
  <2>1. PICK rest \in Seq(TakingStep(i, plan.epoch)) :
             acquisitionWrites(i, plan) = <<first, WriteHolder>> \o rest
    BY <1>2, TakingWrites
  <2>2. first \in TakingStep(i, plan.epoch) /\ WriteHolder \in TakingStep(i, plan.epoch)
    BY <1>2, PlainSteps DEF TakingStep, Write, WriteStore, Present, PresentStore
  <2>3. /\ <<first, WriteHolder>> \in Seq(TakingStep(i, plan.epoch))
        /\ <<first, WriteHolder>> # <<>> /\ Head(<<first, WriteHolder>>) = first
    BY <2>2, ShortSequences
  <2>. QED
    BY <2>1, <2>3, ConcatHeadTail
<1>5. Apply(i, first)
  BY <1>3, <1>4 DEF Make
<1>6. /\ store' = Present(plan.epoch, i, plan.seedPending, plan.resetPending)
      /\ UNCHANGED <<own, halt, sent>>
  BY <1>5 DEF Apply, ApplyStore, ApplyHolder, ApplyLine, ApplyFlag, ApplyOwn, ApplySend, first,
              WriteStore
<1>7. store'.epoch = plan.epoch
  BY <1>6 DEF Present
<1>8. ASSUME NEW j \in Instances
      PROVE  own'[j] < store'.epoch
  <2>1. own[j] \in Nat /\ own[j] <= store.epoch /\ plan.epoch \in Nat
    BY <1>2, MaxEpochAssumption DEF Low, FInv, IInv, Lasting, Epochs
  <2>2. CASE store.kind = "present"
    <3>1. store.epoch \in Nat
      BY <1>1, <2>2, MaxEpochAssumption DEF EpochStoreState, PresentStore, Blank, Epochs
    <3>. QED
      BY <1>2, <1>6, <1>7, <2>1, <2>2, <3>1
  <2>3. CASE store.kind # "present"
    <3>1. store.epoch = 0 /\ plan.epoch >= 1
      BY <1>1, <1>2, <2>3, MaxEpochAssumption DEF EpochStoreState, PresentStore, Blank, Epochs
    <3>. QED
      BY <1>6, <1>7, <2>1, <3>1
  <2>. QED
    BY <2>2, <2>3
<1>9. \A j \in Instances : own'[j] # store'.epoch /\ own'[j] <= store'.epoch
  <2>1. \A j \in Instances : own'[j] \in Nat /\ store'.epoch \in Nat
    BY <1>2, <1>6, <1>7, MaxEpochAssumption DEF FInv, IInv, Lasting, Epochs
  <2>. QED
    BY <1>8, <2>1
<1>10. writerOf' = NoOne
  BY <1>9 DEF writerOf, MayAct, IsWriter, authorizeMutation
<1>. QED
  BY <1>6, <1>9, <1>10, NoHandover DEF Low

LEMMA EnvironmentMapped ==
    ASSUME StoreIsKept, FInv, Low, Environment
    PROVE  [Interlock!Next]_Interlock!ilvars /\ Low'
<1>1. ASSUME NEW i \in Instances, Crash(i)
      PROVE  [Interlock!Next]_Interlock!ilvars /\ Low'
  <2>1. own' = [own EXCEPT ![i] = 0] /\ UNCHANGED <<store, halt, sent>>
    BY <1>1 DEF Crash, files
  <2>2. own \in [Instances -> 0..MaxEpoch] /\ store.epoch \in Nat
    BY MaxEpochAssumption DEF FInv, IInv, Lasting, EpochStoreState, PresentStore, Blank, Epochs
  <2>3. Low'
    BY <2>1, <2>2 DEF Low
  <2>. QED
    BY <2>1, <2>3, NoHandover
<1>2. CASE HeartbeatExpires \/ WriteFails
           \/ \E readsAs \in {notHalted, Halt(FlagUnreadable, FALSE)} : FlagDamaged(readsAs)
  <2>1. UNCHANGED <<store, own, halt, sent>>
    BY <1>2 DEF HeartbeatExpires, WriteFails, FlagDamaged, files
  <2>. QED
    BY <2>1, NoHandover DEF Low
<1>3. ASSUME NEW kind \in {"absent", "unreadable"}, StoreLost(kind)
      PROVE  FALSE
  BY <1>3 DEF StoreLost, StoreIsKept
<1>. QED
  BY <1>1, <1>2, <1>3 DEF Environment

-----------------------------------------------------------------------------
LEMMA StepMapped ==
    ASSUME StoreIsKept, FInv, Authorised, Low, [Next]_vars
    PROVE  [Interlock!Next]_Interlock!ilvars /\ Low'
<1>1. CASE Continue
  <2>1. mutex \in Instances /\ todo # <<>> /\ Make(mutex, todo)
    BY <1>1 DEF Continue, FInv, IInv, Pending
  <2>2. CASE todo \in Seq(DurableStep)
    <3>1. Head(todo).op # "send" /\ Head(todo) \in ContinuingStep(mutex, claims)
      BY <2>1, <2>2, HeadTailProperties, DurableShape DEF FInv, Fenced
    <3>. QED
      BY <2>1, <3>1, WriteMapped DEF Make
  <2>3. ASSUME NEW kind \in OrderKinds, todo = <<Send(kind)>>, kind = "entry" => MayOpenRisk
        PROVE  [Interlock!Next]_Interlock!ilvars /\ Low'
    BY <2>1, <2>3, SendMapped DEF Authorised
  <2>. QED
    BY <2>2, <2>3 DEF FInv, IInv, Pending, SendsChecked
<1>2. ASSUME NEW i \in Instances, GatewayStep(i)
      PROVE  [Interlock!Next]_Interlock!ilvars /\ Low'
  <2>1. CASE ObserveStore(i) \/ AcquisitionDenied(i) \/ releaseHolder(i)
    <3>1. UNCHANGED <<store, own, halt, sent>>
      BY <2>1 DEF ObserveStore, AcquisitionDenied, releaseHolder, files
    <3>. QED
      BY <3>1, NoHandover DEF Low
  <2>2. ASSUME NEW virgin \in VirginEvidence, acquireUnderLock(i, virgin)
        PROVE  [Interlock!Next]_Interlock!ilvars /\ Low'
    BY <2>2, TakingMapped
  <2>3. ASSUME NEW what \in WriterLines, dispatchAppend(i, WriterLine(i, what))
        PROVE  [Interlock!Next]_Interlock!ilvars /\ Low'
    BY <2>3, AppendMapped
  <2>4. ASSUME NEW kind \in OrderKinds, dispatchMutation(i, kind)
        PROVE  [Interlock!Next]_Interlock!ilvars /\ Low'
    BY <2>4, MutationMapped
  <2>5. CASE haltForBindingMismatch(i)
    BY <2>5, BindingStep, PlainMapped DEF FInv
  <2>6. CASE dispatchWitness(i)
    BY <2>6, WitnessStep, PlainMapped DEF FInv
  <2>7. ASSUME NEW reason \in SafetyReasons, dispatchSafetyHalt(i, reason)
        PROVE  [Interlock!Next]_Interlock!ilvars /\ Low'
    BY <2>7, SafetyHaltStep, PlainMapped DEF FInv
  <2>8. CASE dispatchManualUnhalt(i)
    BY <2>8, UnhaltStep, PlainMapped DEF FInv
  <2>9. CASE openJournal(i) \/ openJournalAsWriter(i) \/ heartbeat(i)
    BY <2>9, OpenStep, PlainMapped DEF FInv
  <2>. QED
    BY <1>2, <2>1, <2>2, <2>3, <2>4, <2>5, <2>6, <2>7, <2>8, <2>9 DEF GatewayStep, Acquisition
<1>3. CASE Environment
  BY <1>3, EnvironmentMapped
<1>4. CASE UNCHANGED vars
  <2>1. UNCHANGED <<store, own, halt, sent>>
    BY <1>4 DEF vars, files
  <2>. QED
    BY <2>1, NoHandover DEF Low
<1>. QED
  BY <1>1, <1>2, <1>3, <1>4 DEF Next

LEMMA MappedInitially == Init => RInv /\ Interlock!Init
<1>. SUFFICES ASSUME Init PROVE RInv /\ Interlock!Init
  OBVIOUS
<1>1. FInv
  BY FencedInitially
<1>2. Authorised /\ Low
  BY DEF Init, Authorised, Low, Blank
<1>3. writerOf = NoOne
  BY NoOneAssumption DEF Init, writerOf, Blank
<1>. QED
  BY <1>1, <1>2, <1>3 DEF RInv, Init, Interlock!Init, notHalted

(***************************************************************************)
(* The gateway implements its abstract specification as long as the epoch  *)
(* store is kept: there is at most one writer, the right to write is taken *)
(* away before it is granted again, orders leave through the writer only   *)
(* and those that open risk only while trading is not halted.              *)
(***************************************************************************)
THEOREM GatewayImplementsInterlock ==
    ASSUME StoreIsKept
    PROVE  Spec => ImplementsInterlock
<1>1. RInv /\ [Next]_vars => RInv'
  BY FencedStep, AuthorisedStep, StepMapped DEF RInv, FInv
<1>2. RInv /\ [Next]_vars => [Interlock!Next]_Interlock!ilvars
  BY StepMapped DEF RInv
<1>. QED
  BY MappedInitially, <1>1, <1>2, PTL DEF Spec, ImplementsInterlock, Interlock!Spec

-----------------------------------------------------------------------------
(***************************************************************************)
(* The loss of the epoch store.  Until a human has un-halted, the fold is  *)
(* halted or the store lets nobody act (HumanHolds).  What is still to be  *)
(* written keeps it so: a write that lifts the reset comes under a halt    *)
(* (Calm), or is part of a completion whose HALT has still to land         *)
(* (Completing).                                                           *)
(***************************************************************************)
HaltIsLast == (journal # <<>> /\ journal[Len(journal)].type = "HALT") => halt.halted

HumanHolds == AwaitsHuman => halt.halted \/ store.kind # "present" \/ store.resetPending

Held == HaltIsLast /\ lossAt <= Len(journal) /\ HumanHolds

Calm ==
    {w \in Write :
       /\ w.op = "store" => /\ store.kind = "present"
                            /\ ~w.store.resetPending
                            /\ store.resetPending => halt.halted
       /\ (w.op = "line" /\ w.line.type = "UNHALT") => ~store.resetPending}

BeforeHalt == {w \in PlainStep : w.op = "line" => w.line.type # "UNHALT"}
AfterHalt == {w \in DurableStep : /\ w.op = "store" => ~w.store.resetPending
                                  /\ w.op = "line" => w.line.type # "UNHALT"}

CompletesWith(writes, pre, post) ==
    /\ writes = pre \o post
    /\ post # <<>>
    /\ Head(post).op = "line"
    /\ Head(post).line.type = "HALT"
    /\ Tail(post) \in Seq(AfterHalt)

Completing ==
    /\ store.kind = "present"
    /\ \E pre \in Seq(BeforeHalt), post \in Seq(AfterHalt) : CompletesWith(todo, pre, post)

MInv == IInv /\ Authorised /\ Held /\ (todo \in Seq(Calm) \/ Completing)

-----------------------------------------------------------------------------
LEMMA HaltHalts ==
    ASSUME NEW line \in Line, halt \in HaltState, FlagsClear
    PROVE  LET h == haltStateAfter(halt, line)
           IN  /\ line.type = "HALT" => h.halted
               /\ line.type # "UNHALT" /\ halt.halted => h.halted
BY DEF FlagsClear, haltStateAfter, IsTransition, Halt, notHalted, HaltState

\* Only the journal, the fold and the store matter.
LEMMA SameHeld ==
    ASSUME Held, UNCHANGED <<store, journal, halt, gen, lossAt>>
    PROVE  Held' /\ Calm' = Calm
BY DEF Held, HaltIsLast, HumanHolds, AwaitsHuman, Calm

LEMMA LineHeld ==
    ASSUME Lasting, Held, NEW line \in Line, lossAt \in Nat,
           line.type = "UNHALT" => ~store.resetPending,
           journal' = Append(journal, line), halt' = haltStateAfter(halt, line),
           UNCHANGED <<store, gen, lossAt>>
    PROVE  /\ Held'
           /\ Calm \subseteq Calm'
           /\ line.type = "HALT" => halt'.halted
<1>1. /\ journal' # <<>> /\ Len(journal') = Len(journal) + 1 /\ Len(journal) \in Nat
      /\ \A k \in 1..Len(journal) : journal'[k] = journal[k]
      /\ journal'[Len(journal')] = line
  BY AppendProperties DEF Lasting
<1>2. /\ line.type = "HALT" => halt'.halted
      /\ line.type # "UNHALT" /\ halt.halted => halt'.halted
  BY HaltHalts DEF Lasting
<1>3. HaltIsLast'
  BY <1>1, <1>2 DEF HaltIsLast
<1>4. lossAt' <= Len(journal')
  BY <1>1 DEF Held
<1>5. AwaitsHuman' => AwaitsHuman /\ line.type # "UNHALT"
  <2>1. ASSUME AwaitsHuman' PROVE AwaitsHuman /\ line.type # "UNHALT"
    <3>1. gen > 0 /\ lossAt > 0 /\ \A k \in (lossAt + 1)..Len(journal') : journal'[k].type # "UNHALT"
      BY <2>1 DEF AwaitsHuman
    <3>2. Len(journal') \in (lossAt + 1)..Len(journal')
      BY <1>1 DEF Held
    <3>3. \A k \in (lossAt + 1)..Len(journal) : k \in (lossAt + 1)..Len(journal') /\ journal'[k] = journal[k]
      BY <1>1
    <3>. QED
      BY <1>1, <3>1, <3>2, <3>3 DEF AwaitsHuman
  <2>. QED
    BY <2>1
<1>6. HumanHolds'
  BY <1>2, <1>5 DEF Held, HumanHolds
<1>7. Calm \subseteq Calm'
  <2>1. store.resetPending /\ halt.halted => halt'.halted
    BY <1>2
  <2>. QED
    BY <2>1 DEF Calm
<1>. QED
  BY <1>2, <1>3, <1>4, <1>6, <1>7 DEF Held

LEMMA CalmApplied ==
    ASSUME Lasting, Held, lossAt \in Nat, NEW i \in Instances, NEW w \in Calm, Apply(i, w),
           UNCHANGED <<gen, lossAt>>
    PROVE  Held' /\ Calm \subseteq Calm'
<1>0. w \in Write
  BY DEF Calm
<1>1. CASE ApplyStore(w)
  <2>1. /\ store'.kind = "present" /\ ~store'.resetPending
        /\ store.kind = "present" /\ (store.resetPending => halt.halted)
        /\ UNCHANGED <<journal, halt>>
    BY <1>0, <1>1, WriteShape DEF ApplyStore, Calm, PresentStore
  <2>2. AwaitsHuman' = AwaitsHuman
    BY <2>1 DEF AwaitsHuman
  <2>3. HumanHolds'
    BY <2>1, <2>2 DEF Held, HumanHolds
  <2>4. HaltIsLast' /\ lossAt' <= Len(journal')
    BY <2>1 DEF Held, HaltIsLast
  <2>5. Calm \subseteq Calm'
    BY <2>1 DEF Calm
  <2>. QED
    BY <2>3, <2>4, <2>5 DEF Held
<1>2. CASE ApplyHolder(i, w) \/ ApplyFlag(w) \/ ApplyOwn(i, w) \/ ApplySend(w)
  <2>1. UNCHANGED <<store, journal, halt>>
    BY <1>2 DEF ApplyHolder, ApplyFlag, ApplyOwn, ApplySend, files
  <2>. QED
    BY <2>1, SameHeld
<1>3. CASE ApplyLine(w)
  <2>1. w.line \in Line /\ (w.line.type = "UNHALT" => ~store.resetPending)
    BY <1>0, <1>3, WriteShape DEF ApplyLine, Calm
  <2>. QED
    BY <1>3, <2>1, LineHeld DEF ApplyLine
<1>. QED
  BY <1>1, <1>2, <1>3 DEF Apply

LEMMA CalmMade ==
    ASSUME Lasting, Held, lossAt \in Nat, NEW i \in Instances,
           NEW writes \in Seq(Calm), writes # <<>>, Make(i, writes), UNCHANGED <<gen, lossAt>>
    PROVE  Held' /\ todo' \in Seq(Calm')
<1>1. Head(writes) \in Calm /\ Tail(writes) \in Seq(Calm)
  BY HeadTailProperties
<1>2. Held' /\ Calm \subseteq Calm'
  BY <1>1, CalmApplied DEF Make
<1>3. Seq(Calm) \subseteq Seq(Calm')
  BY <1>2, WiderSequences
<1>. QED
  BY <1>1, <1>2, <1>3 DEF Make

LEMMA BeforeHaltCalm == BeforeHalt \subseteq Calm
<1>1. \A w \in PlainStep : w \in Write /\ w.op # "store"
  BY PlainSteps, DurableIsWrite DEF PlainStep, WriteHolder, WriteFlag
<1>. QED
  BY <1>1 DEF BeforeHalt, Calm

LEMMA PlainCalm ==
    ASSUME ~store.resetPending
    PROVE  PlainStep \subseteq Calm
<1>1. \A w \in PlainStep : w \in Write /\ w.op # "store"
  BY PlainSteps, DurableIsWrite DEF PlainStep, WriteHolder, WriteFlag
<1>. QED
  BY <1>1 DEF Calm

(***************************************************************************)
(* The completion of a reset, as long as its HALT has not landed.          *)
(***************************************************************************)
LEMMA CompletingMade ==
    ASSUME Lasting, Held, lossAt \in Nat, NEW i \in Instances, store.kind = "present",
           NEW pre \in Seq(BeforeHalt), NEW post \in Seq(AfterHalt), NEW writes,
           CompletesWith(writes, pre, post), Make(i, writes), UNCHANGED <<gen, lossAt>>
    PROVE  Held' /\ (todo' \in Seq(Calm') \/ Completing')
<1>1. CASE pre = <<>>
  <2>1. writes = post
    BY <1>1 DEF CompletesWith
  <2>2. Head(post) \in DurableStep
    BY HeadTailProperties DEF CompletesWith, AfterHalt
  <2>3. /\ Head(post).line \in Line /\ Head(post).line.type = "HALT"
        /\ Apply(i, Head(post)) /\ todo' = Tail(post)
    BY <2>1, <2>2, DurableIsWrite, WriteShape DEF CompletesWith, Make
  <2>4. ApplyLine(Head(post))
    BY <2>3 DEF Apply, ApplyStore, ApplyHolder, ApplyFlag, ApplyOwn, ApplySend, CompletesWith
  <2>5. Held' /\ halt'.halted /\ store' = store
    BY <2>3, <2>4, LineHeld DEF ApplyLine
  <2>6. AfterHalt \subseteq Calm'
    BY <2>5, DurableIsWrite DEF AfterHalt, Calm
  <2>7. Tail(post) \in Seq(Calm')
    BY <2>6, WiderSequences DEF CompletesWith
  <2>. QED
    BY <2>3, <2>5, <2>7
<1>2. CASE pre # <<>>
  <2>1. Head(pre) \in BeforeHalt /\ Tail(pre) \in Seq(BeforeHalt)
    BY <1>2, HeadTailProperties
  <2>2. Head(writes) = Head(pre) /\ Tail(writes) = Tail(pre) \o post
    <3>1. pre \in Seq(DurableStep) /\ post \in Seq(DurableStep)
      BY PlainSteps, WiderSequences DEF BeforeHalt, AfterHalt
    <3>. QED
      BY <1>2, <3>1, ConcatHeadTail DEF CompletesWith
  <2>3. Apply(i, Head(pre)) /\ todo' = Tail(pre) \o post
    BY <2>2 DEF Make
  <2>4. Held'
    BY <2>1, <2>3, BeforeHaltCalm, CalmApplied
  <2>5. store' = store
    <3>1. Head(pre).op \in {"line", "holder", "flag"}
      BY <2>1 DEF BeforeHalt, PlainStep, WriteHolder, WriteFlag
    <3>. QED
      BY <2>3, <3>1 DEF Apply, ApplyStore, ApplyHolder, ApplyLine, ApplyFlag, ApplyOwn, ApplySend, files
  <2>6. CompletesWith(todo', Tail(pre), post)
    BY <2>3 DEF CompletesWith
  <2>7. Completing'
    <3>1. BeforeHalt' = BeforeHalt /\ AfterHalt' = AfterHalt
      BY DEF BeforeHalt, AfterHalt
    <3>. QED
      BY <2>1, <2>5, <2>6, <3>1 DEF Completing, CompletesWith
  <2>. QED
    BY <2>4, <2>7
<1>. QED
  BY <1>1, <1>2

(***************************************************************************)
(* The operations.                                                         *)
(***************************************************************************)
CalmBegin(i) == \E writes \in Seq(Calm) : writes # <<>> /\ Make(i, writes)

LEMMA CalmBegun ==
    ASSUME MInv, NEW i \in Instances, CalmBegin(i), UNCHANGED <<gen, lossAt>>
    PROVE  Held' /\ (todo' \in Seq(Calm') \/ Completing')
BY CalmMade DEF MInv, IInv, Remembered, CalmBegin

LEMMA PlainBegun ==
    ASSUME NEW i \in Instances, PlainBegin(i), ~store.resetPending
    PROVE  CalmBegin(i)
<1>1. Seq(PlainStep) \subseteq Seq(Calm)
  BY PlainCalm, WiderSequences
<1>. QED
  BY <1>1 DEF PlainBegin, Begin, CalmBegin

LEMMA CalmLine ==
    ASSUME NEW line \in Line, line.type # "UNHALT"
    PROVE  /\ appendLine(line) \in Seq(BeforeHalt)
           /\ appendLine(line) # <<>>
           /\ appendLine(line) \in Seq(Calm)
<1>1. WriteLine(line) \in BeforeHalt /\ WriteFlag \in BeforeHalt
  <2>1. WriteFlag.op = "flag" /\ WriteLine(line).line = line
    BY DEF WriteFlag, WriteLine
  <2>. QED
    BY <2>1, PlainSteps DEF BeforeHalt
<1>2. appendLine(line) \in Seq(BeforeHalt)
  BY <1>1 DEF appendLine
<1>3. appendLine(line) # <<>>
  BY appendLinePlain
<1>. QED
  BY <1>2, <1>3, BeforeHaltCalm, WiderSequences

LEMMA QuietWritesCalm ==
    /\ WriteHolder \in Calm /\ WriteFlag \in Calm
    /\ \A kind \in OrderKinds : Send(kind) \in Calm
BY DEF Calm, Write, WriteHolder, WriteFlag, Send

LEMMA repairFlagCalm == repairFlag \in Seq(Calm)
BY QuietWritesCalm DEF repairFlag

LEMMA AppendHeld ==
    ASSUME MInv, NEW i \in Instances, NEW what \in WriterLines,
           dispatchAppend(i, WriterLine(i, what))
    PROVE  CalmBegin(i)
<1>. DEFINE line == WriterLine(i, what)
            promotion == IF store.seedPending
                         THEN <<WriteStore(Present(store.epoch, store.holderId, FALSE, FALSE))>>
                         ELSE <<>>
<1>1. IsWriter(i) /\ Make(i, appendLine(line) \o promotion)
  BY DEF dispatchAppend, Begin
<1>2. line \in Line /\ ~store.resetPending /\ store \in PresentStore /\ store.kind = "present"
  BY <1>1, WriterLineTyped, WriterTyped DEF MInv, IsWriter, authorizeMutation
<1>3. appendLine(line) \in Seq(Calm) /\ appendLine(line) # <<>>
  BY <1>2, appendLinePlain, PlainCalm, WiderSequences
<1>4. promotion \in Seq(Calm)
  <2>1. WriteStore(Present(store.epoch, store.holderId, FALSE, FALSE)) \in Calm
    BY <1>2 DEF Calm, Write, WriteStore, Present, PresentStore
  <2>2. <<WriteStore(Present(store.epoch, store.holderId, FALSE, FALSE))>> \in Seq(Calm)
    BY <2>1, ShortSequences
  <2>. QED
    BY <2>2, EmptySequence
<1>5. /\ appendLine(line) \o promotion \in Seq(Calm)
      /\ appendLine(line) \o promotion # <<>>
  <2>. HIDE DEF line, promotion
  <2>. QED
    BY <1>3, <1>4, ConcatProperties, ConcatEqualIffEmpty
<1>. QED
  BY <1>1, <1>5 DEF CalmBegin

LEMMA MutationHeld ==
    ASSUME NEW i \in Instances, NEW kind \in OrderKinds, dispatchMutation(i, kind)
    PROVE  CalmBegin(i)
<1>. DEFINE repair == IF kind = "entry" THEN repairFlag ELSE <<>>
<1>1. Make(i, repair \o <<Send(kind)>>)
  BY DEF dispatchMutation, Begin
<1>2. repair \in Seq(Calm)
  BY repairFlagCalm, EmptySequence
<1>3. <<Send(kind)>> \in Seq(Calm) /\ <<Send(kind)>> # <<>>
  BY QuietWritesCalm
<1>4. repair \o <<Send(kind)>> \in Seq(Calm) /\ repair \o <<Send(kind)>> # <<>>
  BY <1>2, <1>3, ConcatProperties, ConcatEqualIffEmpty
<1>. QED
  BY <1>1, <1>4 DEF CalmBegin

LEMMA SafetyHaltHeld ==
    ASSUME MInv, NEW i \in Instances, NEW reason \in SafetyReasons, dispatchSafetyHalt(i, reason)
    PROVE  CalmBegin(i)
<1>1. store.epoch \in 0..MaxEpoch
  BY MaxEpochAssumption
     DEF MInv, IInv, Lasting, EpochStoreState, PresentStore, Blank, Epochs
<1>2. HaltLine(store.epoch, reason) \in Line
  BY <1>1, InputsAssumption, LinesAreLines DEF Reasons, WeakReasons
<1>3. HaltLine(store.epoch, reason).type # "UNHALT"
  BY DEF HaltLine
<1>4. /\ appendLine(HaltLine(store.epoch, reason)) \in Seq(Calm)
      /\ appendLine(HaltLine(store.epoch, reason)) # <<>>
  BY <1>2, <1>3, CalmLine
<1>5. <<WriteFlag>> \in Seq(Calm) /\ <<WriteFlag>> # <<>>
  BY QuietWritesCalm
<1>6. Make(i, IF halt.halted /\ halt.reason = reason THEN <<WriteFlag>>
              ELSE appendLine(HaltLine(store.epoch, reason)))
  BY DEF dispatchSafetyHalt, Begin
<1>. QED
  BY <1>4, <1>5, <1>6 DEF CalmBegin

LEMMA WitnessHeld ==
    ASSUME NEW i \in Instances, dispatchWitness(i)
    PROVE  CalmBegin(i)
<1>1. WitnessLine(i) \in Line /\ WitnessLine(i).type # "UNHALT"
  BY LinesAreLines, MaxEpochAssumption DEF WitnessLine
<1>2. appendLine(WitnessLine(i)) \in Seq(Calm) /\ appendLine(WitnessLine(i)) # <<>>
  BY <1>1, CalmLine
<1>. QED
  BY <1>2 DEF dispatchWitness, Begin, CalmBegin

LEMMA OpenHeld ==
    ASSUME NEW i \in Instances,
           openJournal(i) \/ openJournalAsWriter(i) \/ heartbeat(i)
    PROVE  CalmBegin(i)
<1>1. <<WriteHolder>> \in Seq(Calm) /\ <<WriteHolder>> # <<>>
  BY QuietWritesCalm
<1>2. <<WriteHolder>> \o repairFlag \in Seq(Calm) /\ <<WriteHolder>> \o repairFlag # <<>>
  BY <1>1, repairFlagCalm, ConcatProperties, ConcatEqualIffEmpty
<1>. QED
  BY <1>1, <1>2, repairFlagCalm
     DEF openJournal, openJournalAsWriter, heartbeat, Begin, CalmBegin

(***************************************************************************)
(* An acquisition.  Without a store and with lines in the journal it is a  *)
(* reset, and so is one that finds a reset begun; the reset is completed   *)
(* by the pair GAP, HALT or finds it at the end of the journal, where the  *)
(* halt still stands.                                                      *)
(***************************************************************************)
LEMMA CompletionIsSound ==
    ASSUME MInv, NEW i \in Instances, NEW epoch \in Epochs, halt' = halt,
           store'.kind = "present", todo' = <<WriteHolder>> \o completeReset(i, epoch)
    PROVE  todo' \in Seq(Calm') \/ Completing'
<1>. DEFINE gap == Authoritative("GAP", epoch)
            stop == HaltLine(epoch, "EPOCH_STORE_RESET")
            done == <<WriteStore(Present(epoch, i, FALSE, FALSE)), SetOwn(epoch)>>
<1>1. /\ gap \in Line /\ gap.type # "UNHALT"
      /\ stop \in Line /\ stop.type = "HALT"
  <2>1. gap \in Line /\ stop \in Line
    BY LinesAreLines, MaxEpochAssumption DEF Epochs, AuthoritativeTypes, Reasons, WeakReasons
  <2>2. gap.type = "GAP" /\ stop.type = "HALT"
    BY DEF Authoritative, HaltLine
  <2>. QED
    BY <2>1, <2>2
<1>2. /\ WriteStore(Present(epoch, i, FALSE, FALSE)) \in AfterHalt
      /\ SetOwn(epoch) \in AfterHalt
  <2>1. Present(epoch, i, FALSE, FALSE) \in PresentStore /\ ~Present(epoch, i, FALSE, FALSE).resetPending
    BY DEF Present, PresentStore
  <2>2. /\ WriteStore(Present(epoch, i, FALSE, FALSE)) \in DurableStep
        /\ SetOwn(epoch) \in DurableStep
    BY <2>1, DurableSteps
  <2>3. /\ WriteStore(Present(epoch, i, FALSE, FALSE)).op = "store"
        /\ WriteStore(Present(epoch, i, FALSE, FALSE)).store = Present(epoch, i, FALSE, FALSE)
        /\ SetOwn(epoch).op = "own"
    BY DEF WriteStore, SetOwn
  <2>. QED
    BY <2>1, <2>2, <2>3 DEF AfterHalt
<1>3. done \in Seq(AfterHalt)
  BY <1>2, ShortSequences
<1>4. CASE resetPairPresent(journal)
  <2>1. halt.halted
    BY <1>4 DEF resetPairPresent, MInv, Held, HaltIsLast, IInv, Lasting
  <2>2. AfterHalt \subseteq Calm'
    BY <2>1, DurableIsWrite DEF AfterHalt, Calm
  <2>3. WriteHolder \in Calm' /\ WriteFlag \in Calm'
    BY DEF Calm, Write, WriteHolder, WriteFlag
  <2>4. <<WriteHolder>> \in Seq(Calm') /\ <<WriteFlag>> \in Seq(Calm') /\ done \in Seq(Calm')
    <3>1. done \in Seq(Calm')
      <4>. HIDE DEF done
      <4>. QED
        BY <1>3, <2>2, WiderSequences
    <3>. QED
      BY <2>3, <3>1, ShortSequences
  <2>5. todo' = <<WriteHolder>> \o (<<WriteFlag>> \o done)
    BY <1>4 DEF completeReset
  <2>. QED
    BY <2>4, <2>5, ConcatProperties
<1>5. CASE ~resetPairPresent(journal)
  <2>. DEFINE pre == <<WriteHolder>> \o appendLine(gap)
              post == appendLine(stop) \o done
  <2>1. todo' = <<WriteHolder>> \o ((appendLine(gap) \o appendLine(stop)) \o done)
    BY <1>5 DEF completeReset
  <2>2. /\ WriteHolder \in BeforeHalt /\ WriteFlag \in AfterHalt
        /\ WriteLine(stop) \in AfterHalt
    <3>1. /\ WriteHolder.op = "holder" /\ WriteFlag.op = "flag"
          /\ WriteLine(stop).op = "line" /\ WriteLine(stop).line = stop
      BY DEF WriteHolder, WriteFlag, WriteLine
    <3>. QED
      BY <1>1, <3>1, PlainSteps, DurableSteps DEF BeforeHalt, AfterHalt
  <2>3. pre \in Seq(BeforeHalt)
    BY <1>1, <2>2, CalmLine, ConcatProperties
  <2>4. appendLine(stop) \in Seq(AfterHalt) /\ appendLine(stop) # <<>>
    BY <1>1, <2>2, appendLinePlain DEF appendLine
  <2>5. post \in Seq(AfterHalt) /\ post # <<>>
    <3>. HIDE DEF done, stop
    <3>. QED
      BY <1>3, <2>4, ConcatProperties, ConcatEqualIffEmpty
  <2>6. Head(post) = WriteLine(stop) /\ Tail(post) \in Seq(AfterHalt)
    <3>1. Head(post) = Head(appendLine(stop))
      <4>. HIDE DEF done, stop
      <4>. QED
        BY <1>3, <2>4, ConcatHeadTail
    <3>2. Tail(post) \in Seq(AfterHalt)
      <4>. HIDE DEF post
      <4>. QED
        BY <2>5, HeadTailProperties
    <3>. QED
      BY <1>1, <3>1, <3>2, appendLineFirst
  <2>7. todo' = pre \o post
    <3>1. /\ <<WriteHolder>> \in Seq(DurableStep) /\ appendLine(gap) \in Seq(DurableStep)
          /\ appendLine(stop) \in Seq(DurableStep) /\ done \in Seq(DurableStep)
      <4>1. AfterHalt \subseteq DurableStep
        BY DEF AfterHalt
      <4>2. done \in Seq(DurableStep)
        <5>. HIDE DEF done
        <5>. QED
          BY <1>3, <4>1, WiderSequences
      <4>3. <<WriteHolder>> \in Seq(DurableStep)
        BY DurableSteps, ShortSequences
      <4>. QED
        BY <1>1, <4>2, <4>3, appendLinePlain
    <3>. HIDE DEF gap, stop, done
    <3>2. (appendLine(gap) \o appendLine(stop)) \o done = appendLine(gap) \o (appendLine(stop) \o done)
      BY <3>1, ConcatAssociative
    <3>3. appendLine(stop) \o done \in Seq(DurableStep)
      BY <3>1, ConcatProperties
    <3>4. <<WriteHolder>> \o (appendLine(gap) \o (appendLine(stop) \o done))
            = (<<WriteHolder>> \o appendLine(gap)) \o (appendLine(stop) \o done)
      BY <3>1, <3>3, ConcatAssociative
    <3>. QED
      BY <2>1, <3>2, <3>4
  <2>8. CompletesWith(todo', pre, post)
    <3>1. WriteLine(stop).op = "line" /\ WriteLine(stop).line = stop
      BY DEF WriteLine
    <3>. HIDE DEF pre, post
    <3>. QED
      BY <1>1, <2>5, <2>6, <2>7, <3>1 DEF CompletesWith
  <2>9. BeforeHalt' = BeforeHalt /\ AfterHalt' = AfterHalt
    BY DEF BeforeHalt, AfterHalt
  <2>10. Completing'
    <3>. HIDE DEF pre, post
    <3>. QED
      BY <2>3, <2>5, <2>8, <2>9 DEF Completing, CompletesWith
  <2>. QED
    BY <2>10
<1>. QED
  BY <1>4, <1>5

LEMMA TakingHeld ==
    ASSUME MInv, NEW i \in Instances, NEW virgin \in VirginEvidence, acquireUnderLock(i, virgin)
    PROVE  Held' /\ (todo' \in Seq(Calm') \/ Completing')
<1>. DEFINE plan == planEpochAcquisition(store, virgin, journal = <<>>)
            first == WriteStore(Present(plan.epoch, i, plan.seedPending, plan.resetPending))
            rest == IF plan.resetPending THEN completeReset(i, plan.epoch) ELSE <<SetOwn(plan.epoch)>>
<1>1. virgin \in BOOLEAN /\ store \in EpochStoreState /\ plan.kind # "REFUSE"
  BY InputsAssumption DEF MInv, IInv, Lasting, acquireUnderLock
<1>2. /\ plan.epoch \in Epochs /\ plan.seedPending \in BOOLEAN /\ plan.resetPending \in BOOLEAN
      /\ store.kind # "unreadable"
  BY <1>1, PlanShape
<1>3. Make(i, <<first, WriteHolder>> \o rest) /\ UNCHANGED <<gen, lossAt>>
  BY DEF acquireUnderLock, Begin, acquisitionWrites, history
<1>4. /\ Head(<<first, WriteHolder>> \o rest) = first
      /\ Tail(<<first, WriteHolder>> \o rest) = <<WriteHolder>> \o rest
  <2>1. first \in DurableStep /\ WriteHolder \in DurableStep /\ SetOwn(plan.epoch) \in DurableStep
    BY <1>2, DurableSteps DEF Present, PresentStore
  <2>2. rest \in Seq(DurableStep)
    <3>1. <<SetOwn(plan.epoch)>> \in Seq(DurableStep)
      BY <2>1, ShortSequences
    <3>. QED
      BY <1>2, <3>1, completeResetDurable
  <2>. HIDE DEF plan, first, rest
  <2>3. /\ <<first, WriteHolder>> \in Seq(DurableStep)
        /\ <<first, WriteHolder>> # <<>> /\ Head(<<first, WriteHolder>>) = first
        /\ Tail(<<first, WriteHolder>>) = <<WriteHolder>>
    BY <2>1, ShortSequences
  <2>. QED
    BY <2>2, <2>3, ConcatHeadTail
<1>5. Apply(i, first) /\ todo' = <<WriteHolder>> \o rest
  BY <1>3, <1>4 DEF Make
<1>6. /\ store' = Present(plan.epoch, i, plan.seedPending, plan.resetPending)
      /\ UNCHANGED <<journal, halt>>
  BY <1>5 DEF Apply, ApplyStore, ApplyHolder, ApplyLine, ApplyFlag, ApplyOwn, ApplySend, first,
              WriteStore
<1>7. store'.kind = "present" /\ store'.resetPending = plan.resetPending
  BY <1>6 DEF Present
<1>8. AwaitsHuman => halt.halted \/ plan.resetPending
  <2>1. CASE store.kind = "present"
    <3>1. plan.resetPending = store.resetPending
      BY <1>1, <2>1 DEF planEpochAcquisition, Plan
    <3>. QED
      BY <2>1, <3>1 DEF MInv, Held, HumanHolds
  <2>2. CASE store.kind # "present"
    <3>1. store.kind = "absent"
      BY <1>1, <1>2, <2>2 DEF EpochStoreState, PresentStore, Blank
    <3>2. journal # <<>> => plan.resetPending
      BY <3>1 DEF planEpochAcquisition, Plan
    <3>3. AwaitsHuman => journal # <<>>
      <4>1. lossAt \in Nat /\ lossAt <= Len(journal)
        BY DEF MInv, Held, IInv, Remembered
      <4>2. Len(<<>>) = 0
        OBVIOUS
      <4>. QED
        BY <4>1, <4>2 DEF AwaitsHuman
    <3>. QED
      BY <3>2, <3>3
  <2>. QED
    BY <2>1, <2>2
<1>9. Held'
  <2>1. AwaitsHuman' = AwaitsHuman
    BY <1>3, <1>6 DEF AwaitsHuman
  <2>2. HumanHolds'
    BY <1>6, <1>7, <1>8, <2>1 DEF HumanHolds
  <2>. QED
    BY <1>3, <1>6, <2>2 DEF MInv, Held, HaltIsLast
<1>10. CASE plan.resetPending
  <2>1. todo' = <<WriteHolder>> \o completeReset(i, plan.epoch)
    BY <1>5, <1>10
  <2>. HIDE DEF plan
  <2>. QED
    BY <1>2, <1>6, <1>7, <1>9, <2>1, CompletionIsSound
<1>11. CASE ~plan.resetPending
  <2>1. WriteHolder \in Calm' /\ SetOwn(plan.epoch) \in Calm'
    BY <1>2 DEF Calm, Write, WriteHolder, SetOwn
  <2>2. <<WriteHolder>> \in Seq(Calm') /\ <<SetOwn(plan.epoch)>> \in Seq(Calm')
    BY <2>1, ShortSequences
  <2>3. todo' = <<WriteHolder>> \o <<SetOwn(plan.epoch)>>
    BY <1>5, <1>11
  <2>. HIDE DEF plan
  <2>. QED
    BY <1>9, <2>2, <2>3, ConcatProperties
<1>. QED
  BY <1>9, <1>10, <1>11

(***************************************************************************)
(* The environment; a store that is lost lets nobody act.                  *)
(***************************************************************************)
LEMMA QuietHeld ==
    ASSUME MInv, UNCHANGED <<store, journal, halt, gen, lossAt>>,
           todo' = todo \/ todo' = <<>>
    PROVE  Held' /\ (todo' \in Seq(Calm') \/ Completing')
<1>1. Held' /\ Calm' = Calm
  BY SameHeld DEF MInv
<1>2. CASE todo' = <<>>
  BY <1>1, <1>2, EmptySequence
<1>3. CASE todo' = todo
  <2>1. Completing' = Completing
    BY <1>3 DEF Completing, CompletesWith, BeforeHalt, AfterHalt
  <2>. QED
    BY <1>1, <1>3, <2>1 DEF MInv
<1>. QED
  BY <1>2, <1>3

LEMMA EnvironmentHeld ==
    ASSUME MInv, Environment
    PROVE  Held' /\ (todo' \in Seq(Calm') \/ Completing')
<1>1. ASSUME NEW kind \in {"absent", "unreadable"}, StoreLost(kind)
      PROVE  Held' /\ (todo' \in Seq(Calm') \/ Completing')
  <2>1. /\ store' = Blank(kind) /\ lossAt' = Len(journal)
        /\ UNCHANGED <<journal, halt, todo>> /\ todo = <<>>
    BY <1>1 DEF StoreLost, MInv, IInv, Pending
  <2>2. HumanHolds'
    BY <2>1 DEF HumanHolds, Blank
  <2>3. HaltIsLast'
    BY <2>1 DEF MInv, Held, HaltIsLast
  <2>4. lossAt' <= Len(journal')
    <3>1. Len(journal) \in Nat
      BY DEF MInv, IInv, Lasting
    <3>. QED
      BY <2>1, <3>1
  <2>. QED
    BY <2>1, <2>2, <2>3, <2>4, EmptySequence DEF Held
<1>2. CASE HeartbeatExpires \/ (\E i \in Instances : Crash(i)) \/ WriteFails
           \/ \E readsAs \in {notHalted, Halt(FlagUnreadable, FALSE)} : FlagDamaged(readsAs)
  <2>1. UNCHANGED <<store, journal, halt, gen, lossAt>>
    BY <1>2 DEF HeartbeatExpires, Crash, WriteFails, FlagDamaged, files, history
  <2>2. todo' = todo \/ todo' = <<>>
    BY <1>2 DEF HeartbeatExpires, Crash, WriteFails, FlagDamaged, LeaveGateway
  <2>. QED
    BY <2>1, <2>2, QuietHeld
<1>. QED
  BY <1>1, <1>2 DEF Environment

-----------------------------------------------------------------------------
LEMMA HeldInitially == Init => MInv
<1>. SUFFICES ASSUME Init PROVE MInv
  OBVIOUS
<1>1. IInv /\ Authorised
  BY Initially, MappedInitially DEF RInv
<1>2. Held
  BY DEF Init, Held, HaltIsLast, HumanHolds, AwaitsHuman
<1>3. todo \in Seq(Calm)
  BY DEF Init
<1>. QED
  BY <1>1, <1>2, <1>3 DEF MInv

LEMMA HeldStep ==
    ASSUME MInv, [Next]_vars
    PROVE  Held' /\ (todo' \in Seq(Calm') \/ Completing')
<1>1. CASE Continue
  <2>1. /\ mutex \in Instances /\ todo # <<>> /\ Make(mutex, todo)
        /\ UNCHANGED <<gen, lossAt>>
    BY <1>1 DEF Continue, history, MInv, IInv, Pending
  <2>2. CASE todo \in Seq(Calm)
    BY <2>1, <2>2, CalmMade DEF MInv, IInv, Remembered
  <2>3. CASE Completing
    <3>1. PICK pre \in Seq(BeforeHalt), post \in Seq(AfterHalt) : CompletesWith(todo, pre, post)
      BY <2>3 DEF Completing
    <3>. QED
      BY <2>1, <2>3, <3>1, CompletingMade DEF Completing, MInv, IInv, Remembered
  <2>. QED
    BY <2>2, <2>3 DEF MInv
<1>2. ASSUME NEW i \in Instances, GatewayStep(i)
      PROVE  Held' /\ (todo' \in Seq(Calm') \/ Completing')
  <2>1. CASE ObserveStore(i) \/ AcquisitionDenied(i) \/ releaseHolder(i)
    <3>1. UNCHANGED <<store, journal, halt, gen, lossAt, todo>>
      BY <2>1 DEF ObserveStore, AcquisitionDenied, releaseHolder, files, history
    <3>. QED
      BY <3>1, QuietHeld
  <2>2. ASSUME NEW virgin \in VirginEvidence, acquireUnderLock(i, virgin)
        PROVE  Held' /\ (todo' \in Seq(Calm') \/ Completing')
    BY <2>2, TakingHeld
  <2>3. ASSUME NEW what \in WriterLines, dispatchAppend(i, WriterLine(i, what))
        PROVE  CalmBegin(i) /\ UNCHANGED <<gen, lossAt>>
    BY <2>3, AppendHeld DEF dispatchAppend
  <2>4. ASSUME NEW kind \in OrderKinds, dispatchMutation(i, kind)
        PROVE  CalmBegin(i) /\ UNCHANGED <<gen, lossAt>>
    BY <2>4, MutationHeld DEF dispatchMutation
  <2>5. ASSUME haltForBindingMismatch(i)
        PROVE  CalmBegin(i) /\ UNCHANGED <<gen, lossAt>>
    <3>1. PlainBegin(i) /\ ~store.resetPending
      BY <2>5, BindingStep DEF MInv, haltForBindingMismatch, MayAct, IsWriter, authorizeMutation
    <3>. QED
      BY <2>5, <3>1, PlainBegun DEF haltForBindingMismatch
  <2>6. ASSUME dispatchWitness(i)
        PROVE  CalmBegin(i) /\ UNCHANGED <<gen, lossAt>>
    BY <2>6, WitnessHeld DEF dispatchWitness, history
  <2>7. ASSUME NEW reason \in SafetyReasons, dispatchSafetyHalt(i, reason)
        PROVE  CalmBegin(i) /\ UNCHANGED <<gen, lossAt>>
    BY <2>7, SafetyHaltHeld DEF dispatchSafetyHalt, history
  <2>8. ASSUME dispatchManualUnhalt(i)
        PROVE  CalmBegin(i) /\ UNCHANGED <<gen, lossAt>>
    <3>1. PlainBegin(i) /\ ~store.resetPending
      BY <2>8, UnhaltStep DEF MInv, dispatchManualUnhalt
    <3>. QED
      BY <2>8, <3>1, PlainBegun DEF dispatchManualUnhalt, history
  <2>9. ASSUME openJournal(i) \/ openJournalAsWriter(i) \/ heartbeat(i)
        PROVE  CalmBegin(i) /\ UNCHANGED <<gen, lossAt>>
    BY <2>9, OpenHeld DEF openJournal, openJournalAsWriter, heartbeat, history
  <2>. QED
    BY <1>2, <2>1, <2>2, <2>3, <2>4, <2>5, <2>6, <2>7, <2>8, <2>9, CalmBegun
       DEF GatewayStep, Acquisition
<1>3. CASE Environment
  BY <1>3, EnvironmentHeld
<1>4. CASE UNCHANGED vars
  <2>1. UNCHANGED <<store, journal, halt, gen, lossAt, todo>>
    BY <1>4 DEF vars, files, history
  <2>. QED
    BY <2>1, QuietHeld
<1>. QED
  BY <1>1, <1>2, <1>3, <1>4 DEF Next

(***************************************************************************)
(* What leaves, leaves through an instance that may act.                   *)
(***************************************************************************)
LEMMA SendsAuthorised ==
    ASSUME IInv, Authorised, [Next]_vars, sent' # sent
    PROVE  \E i \in Instances : MayAct(i)
<1>1. CASE Continue
  <2>1. mutex \in Instances /\ todo # <<>> /\ Make(mutex, todo)
    BY <1>1 DEF Continue, IInv, Pending
  <2>2. todo \notin Seq(DurableStep)
    BY <2>1, DurableMade DEF IInv
  <2>3. PICK kind \in OrderKinds : todo = <<Send(kind)>>
    BY <2>2 DEF IInv, Pending, SendsChecked
  <2>. QED
    BY <2>1, <2>3 DEF Authorised
<1>2. ASSUME NEW i \in Instances, GatewayStep(i)
      PROVE  MayAct(i)
  <2>1. ~DurableBegin(i)
    BY DurableMade DEF DurableBegin, Begin, IInv
  <2>2. ~PlainBegin(i)
    BY <2>1, PlainIsDurable
  <2>3. ASSUME NEW kind \in OrderKinds, dispatchMutation(i, kind)
        PROVE  MayAct(i)
    BY <2>3 DEF dispatchMutation
  <2>4. ~(ObserveStore(i) \/ AcquisitionDenied(i) \/ releaseHolder(i))
    BY DEF ObserveStore, AcquisitionDenied, releaseHolder
  <2>5. \A virgin \in VirginEvidence : ~acquireUnderLock(i, virgin)
    BY <2>1, AcquireStep
  <2>6. \A what \in WriterLines : ~dispatchAppend(i, WriterLine(i, what))
    BY <2>1, AppendStep
  <2>7. ~haltForBindingMismatch(i) /\ ~dispatchWitness(i) /\ ~dispatchManualUnhalt(i)
    BY <2>2, BindingStep, WitnessStep, UnhaltStep
  <2>8. \A reason \in SafetyReasons : ~dispatchSafetyHalt(i, reason)
    BY <2>2, SafetyHaltStep
  <2>9. ~(openJournal(i) \/ openJournalAsWriter(i) \/ heartbeat(i))
    BY <2>2, OpenStep
  <2>. QED
    BY <1>2, <2>3, <2>4, <2>5, <2>6, <2>7, <2>8, <2>9 DEF GatewayStep, Acquisition
<1>3. ~Environment
  BY DEF Environment, HeartbeatExpires, Crash, WriteFails, StoreLost, FlagDamaged
<1>. QED
  BY <1>1, <1>2, <1>3 DEF Next, vars

(***************************************************************************)
(* After the epoch store was lost under a journal in use, nothing that     *)
(* opens risk leaves before a human has un-halted, whatever is interrupted *)
(* and however often the store is lost again.                              *)
(***************************************************************************)
THEOREM ResetsWaitForAHuman == Spec => ResetNeedsHuman
<1>1. MInv /\ [Next]_vars => MInv'
  <2>. SUFFICES ASSUME MInv, [Next]_vars PROVE MInv'
    OBVIOUS
  <2>1. IInv'
    BY Stepwise DEF MInv
  <2>2. Authorised'
    BY AuthorisedStep DEF MInv
  <2>3. Held' /\ (todo' \in Seq(Calm') \/ Completing')
    BY HeldStep
  <2>. QED
    BY <2>1, <2>2, <2>3 DEF MInv
<1>2. MInv /\ [Next]_vars
        => [(sent' # sent /\ sent'[Len(sent')] = "entry") => ~AwaitsHuman]_vars
  <2>. SUFFICES ASSUME MInv, [Next]_vars, sent' # sent, sent'[Len(sent')] = "entry"
                PROVE  ~AwaitsHuman
    OBVIOUS
  <2>1. MayOpenRisk
    BY Stepwise DEF MInv, Checked
  <2>2. PICK i \in Instances : MayAct(i)
    BY SendsAuthorised DEF MInv
  <2>. QED
    BY <2>1, <2>2 DEF MInv, Held, HumanHolds, MayOpenRisk, MayAct, IsWriter, authorizeMutation
<1>. QED
  BY HeldInitially, <1>1, <1>2, PTL DEF Spec, ResetNeedsHuman
=============================================================================
