--------------------------- MODULE PublishProofs ---------------------------
(***************************************************************************)
(* What the publisher's two files say and what the alias serves, for every *)
(* length of the journal and every fault of the hosting and the process.   *)
(***************************************************************************)
EXTENDS PublishCycle, SequenceTheorems, TLAPS

Receipt == [revision : Nat, url : Nat, accepted : BOOLEAN]
DeploymentState == [stable : Receipt, receipts : Seq(Receipt)]
PushState == [lastPushed : Nat, failures : 0..1]
Pcs == {"idle", "commit", "push", "save", "build", "deploy", "probe", "promote", "verify",
        "rollback", "record"}

Typed ==
    /\ lines \in Nat
    /\ remote \in Nat
    /\ pushState \in PushState
    /\ deployments \in DeploymentState
    /\ pages \in Seq(Nat)
    /\ alias \in Nat
    /\ task \in [pc : Pcs, revision : Nat, push : {"skipped", "pushed", "failed"},
                 pushState : PushState, deployments : DeploymentState, url : Nat]
    /\ drifted \in BOOLEAN

(***************************************************************************)
(* The push: the remote never runs ahead of the journal, and an invocation *)
(* that is still to push holds a revision at least as new as the remote's. *)
(***************************************************************************)
Pushing ==
    /\ remote <= lines
    /\ pushState.lastPushed <= remote
    /\ task.pc # "idle" => task.revision <= lines
    /\ task.pc \in {"commit", "push", "save"} => task.pushState.lastPushed <= remote
    /\ task.pc \in {"commit", "push"} => remote <= task.revision

-----------------------------------------------------------------------------
(***************************************************************************)
(* What one record of the deployments promises: whatever it accepted was   *)
(* probed, and the latest thing it accepted was not taken down.            *)
(***************************************************************************)
Accepted(d) == {k \in DOMAIN d.receipts : d.receipts[k].accepted}

Trusted(d, candidates) == \A k \in Accepted(d) : d.receipts[k].url \in candidates
Standing(d, down) == \A k \in Latest(Accepted(d)) : d.receipts[k].url \notin down
Older(d, url) == \A k \in Accepted(d) : d.receipts[k].url < url

(***************************************************************************)
(* A candidate that is still to be verified is newer than everything that  *)
(* was ever recorded or withdrawn, so what was accepted before it is what  *)
(* a rollback finds.                                                       *)
(***************************************************************************)
Working == task.pc # "idle"
OnTheWay == task.pc \in {"probe", "promote", "verify", "rollback"}

Deploying ==
    /\ alias # 0 => alias \in probed
    /\ probed \subseteq 1..Len(pages)
    /\ withdrawn \subseteq 1..Len(pages)
    /\ Trusted(deployments, probed) /\ Standing(deployments, withdrawn)
    /\ Working => Trusted(task.deployments, probed) /\ Standing(task.deployments, withdrawn)
    /\ OnTheWay => task.url = Len(pages) /\ task.url > 0 /\ task.url \notin withdrawn
    /\ OnTheWay => Older(deployments, task.url)
    /\ task.pc \in {"probe", "promote"} => Older(task.deployments, task.url)
    /\ task.pc \in {"promote", "verify", "rollback"} => task.url \in probed
    /\ task.pc \in {"verify", "rollback"} =>
         /\ alias = task.url
         /\ task.deployments.stable.url = task.url
         /\ \A k \in Latest(Restorable(task.deployments)) :
               task.deployments.receipts[k].url \notin withdrawn

(***************************************************************************)
(* The record and the alias agree unless the model says they drifted.      *)
(***************************************************************************)
Recording ==
    ~drifted =>
        /\ deployments.stable.url = alias \/ task.pc \in {"verify", "rollback", "record"}
        /\ Working => task.deployments.stable.url = alias

PInv == Typed /\ Pushing /\ Deploying /\ Recording

-----------------------------------------------------------------------------
LEMMA Appended ==
    ASSUME NEW S, NEW s \in Seq(S), NEW x \in S
    PROVE  /\ Append(s, x) \in Seq(S)
           /\ Len(s) \in Nat /\ Len(Append(s, x)) = Len(s) + 1
           /\ DOMAIN s = 1..Len(s) /\ DOMAIN Append(s, x) = 1..(Len(s) + 1)
           /\ \A k \in 1..Len(s) : Append(s, x)[k] = s[k]
           /\ Append(s, x)[Len(s) + 1] = x
BY AppendProperties

(***************************************************************************)
(* A receipt more.                                                         *)
(***************************************************************************)
LEMMA RejectedRecorded ==
    ASSUME NEW d \in DeploymentState, NEW r \in Receipt, ~r.accepted,
           NEW candidates, NEW down, Trusted(d, candidates), Standing(d, down)
    PROVE  /\ stateAfterPromotion(d, r) \in DeploymentState
           /\ stateAfterPromotion(d, r).stable = d.stable
           /\ Trusted(stateAfterPromotion(d, r), candidates)
           /\ Standing(stateAfterPromotion(d, r), down)
<1>. DEFINE e == stateAfterPromotion(d, r)
<1>1. e.stable = d.stable /\ e.receipts = Append(d.receipts, r) /\ e \in DeploymentState
  BY Appended DEF stateAfterPromotion, DeploymentState
<1>2. d.receipts \in Seq(Receipt)
  BY DEF DeploymentState
<1>3. /\ Accepted(e) = Accepted(d)
      /\ \A k \in Accepted(d) : e.receipts[k] = d.receipts[k]
  BY <1>1, <1>2, Appended DEF Accepted
<1>4. Latest(Accepted(d)) \subseteq Accepted(d)
  BY DEF Latest
<1>. QED
  BY <1>1, <1>3, <1>4 DEF Trusted, Standing

LEMMA AcceptedRecorded ==
    ASSUME NEW d \in DeploymentState, NEW r \in Receipt, r.accepted, NEW e,
           e.stable = r, e.receipts = Append(d.receipts, r),
           NEW candidates, NEW down, Trusted(d, candidates), r.url \in candidates, r.url \notin down
    PROVE  Trusted(e, candidates) /\ Standing(e, down)
<1>1. d.receipts \in Seq(Receipt)
  BY DEF DeploymentState
<1>2. /\ Accepted(e) = Accepted(d) \cup {Len(d.receipts) + 1}
      /\ \A k \in Accepted(d) : e.receipts[k] = d.receipts[k] /\ k \in Nat /\ k <= Len(d.receipts)
      /\ e.receipts[Len(d.receipts) + 1] = r
      /\ Len(d.receipts) \in Nat
  BY <1>1, Appended DEF Accepted
<1>3. Latest(Accepted(e)) \subseteq {Len(d.receipts) + 1}
  BY <1>2 DEF Latest
<1>. QED
  BY <1>2, <1>3 DEF Trusted, Standing

LEMMA PromotionRecorded ==
    ASSUME NEW d \in DeploymentState, NEW r \in Receipt, r.accepted,
           NEW down, Standing(d, down), Older(d, r.url)
    PROVE  /\ stateAfterPromotion(d, r) \in DeploymentState
           /\ stateAfterPromotion(d, r).stable = r
           /\ stateAfterPromotion(d, r).receipts = Append(d.receipts, r)
           /\ \A k \in Latest(Restorable(stateAfterPromotion(d, r))) :
                 stateAfterPromotion(d, r).receipts[k].url \notin down
<1>. DEFINE e == stateAfterPromotion(d, r)
<1>1. e.stable = r /\ e.receipts = Append(d.receipts, r) /\ e \in DeploymentState
  BY Appended DEF stateAfterPromotion, DeploymentState
<1>2. d.receipts \in Seq(Receipt) /\ r.url \in Nat
  BY DEF DeploymentState, Receipt
<1>3. /\ DOMAIN e.receipts = DOMAIN d.receipts \cup {Len(d.receipts) + 1}
      /\ \A k \in DOMAIN d.receipts : e.receipts[k] = d.receipts[k] /\ d.receipts[k] \in Receipt
      /\ e.receipts[Len(d.receipts) + 1] = r
  BY <1>1, <1>2, Appended
<1>4. \A k \in Accepted(d) : d.receipts[k].url # r.url
  BY <1>2, <1>3 DEF Older, Accepted, Receipt
<1>5. Restorable(e) = Accepted(d)
  BY <1>1, <1>3, <1>4 DEF Restorable, Accepted
<1>6. Latest(Accepted(d)) \subseteq Accepted(d) /\ Accepted(d) \subseteq DOMAIN d.receipts
  BY DEF Latest, Accepted
<1>. QED
  BY <1>1, <1>3, <1>5, <1>6 DEF Standing

-----------------------------------------------------------------------------
\* A call that answered had its effect.
LEMMA OutcomeShape ==
    ASSUME NEW fails, NEW o \in Outcomes(fails)
    PROVE  o.effect \in BOOLEAN /\ o.answer \in BOOLEAN /\ (o.answer => o.effect)
<1>1. \/ o = [effect |-> TRUE, answer |-> TRUE]
      \/ o = [effect |-> FALSE, answer |-> FALSE]
      \/ o = [effect |-> TRUE, answer |-> FALSE]
  BY DEF Outcomes
<1>2. CASE o = [effect |-> TRUE, answer |-> TRUE]
  BY <1>2
<1>3. CASE o = [effect |-> FALSE, answer |-> FALSE]
  BY <1>3
<1>4. CASE o = [effect |-> TRUE, answer |-> FALSE]
  BY <1>4
<1>. QED
  BY <1>1, <1>2, <1>3, <1>4

(***************************************************************************)
(* One step, action by action.                                             *)
(***************************************************************************)
Kept == PInv' /\ (alias' # alias => alias' \notin withdrawn)

LEMMA Quiet ==
    ASSUME PInv, UNCHANGED <<hosting, files, task, probed, withdrawn, drifted>>,
           lines' \in Nat, lines <= lines'
    PROVE  Kept
<1>1. Typed'
  BY DEF PInv, Typed, hosting, files
<1>2. Pushing'
  BY DEF PInv, Typed, Pushing, hosting, files, PushState
<1>3. Deploying' /\ Recording'
  BY DEF PInv, Deploying, Recording, hosting, files, Working, OnTheWay
<1>. QED
  BY <1>1, <1>2, <1>3 DEF Kept, PInv, hosting

\* Between invocations there is nothing to be remembered.
LEMMA IdleTyped ==
    /\ NotRunning \in [pc : Pcs, revision : Nat, push : {"skipped", "pushed", "failed"},
                       pushState : PushState, deployments : DeploymentState, url : Nat]
    /\ emptyPushState \in PushState
    /\ emptyDeploymentState \in DeploymentState
<1>1. NoReceipt \in Receipt /\ emptyPushState \in PushState
  BY DEF NoReceipt, Receipt, emptyPushState, PushState, Null
<1>2. emptyDeploymentState \in DeploymentState
  BY <1>1 DEF emptyDeploymentState, DeploymentState
<1>. QED
  BY <1>1, <1>2 DEF NotRunning, Pcs, Null

LEMMA Starting ==
    ASSUME PInv, StartPublish
    PROVE  Kept
<1>1. task' = [NotRunning EXCEPT !.pc = "commit", !.revision = lines,
                                 !.pushState = pushState, !.deployments = deployments]
      /\ task.pc = "idle"
      /\ UNCHANGED <<lines, hosting, files, probed, withdrawn, drifted>>
  BY DEF StartPublish
<1>2. /\ task'.pc = "commit" /\ task'.revision = lines /\ task'.pushState = pushState
      /\ task'.deployments = deployments
  BY <1>1 DEF NotRunning
<1>3. Typed'
  BY <1>1 DEF PInv, Typed, hosting, files, NotRunning, Pcs, Null
<1>4. Pushing'
  BY <1>1, <1>2 DEF PInv, Typed, Pushing, hosting, files, PushState
<1>5. Deploying' /\ Recording'
  BY <1>1, <1>2 DEF PInv, Deploying, Recording, hosting, files, Working, OnTheWay
<1>. QED
  BY <1>1, <1>3, <1>4, <1>5 DEF Kept, PInv, hosting

\* An invocation that ends, or dies, before it moved the alias or after it drifted.
LEMMA Ending ==
    ASSUME PInv, Ends, UNCHANGED <<lines, hosting, files, probed, withdrawn>>,
           drifted' \in BOOLEAN, drifted => drifted',
           ~drifted' => deployments.stable.url = alias
    PROVE  Kept
<1>1. task' = NotRunning /\ task'.pc = "idle"
  BY DEF Ends, NotRunning
<1>2. Typed'
  BY <1>1, IdleTyped DEF PInv, Typed, hosting, files
<1>3. Pushing' /\ Deploying' /\ Recording'
  BY <1>1 DEF PInv, Pushing, Deploying, Recording, hosting, files, Working, OnTheWay
<1>. QED
  BY <1>2, <1>3 DEF Kept, PInv, hosting

LEMMA NextPush ==
    ASSUME NEW s \in PushState, NEW ok \in BOOLEAN, NEW revision \in Nat
    PROVE  /\ pushStateAfter(s, ok, revision) \in PushState
           /\ pushStateAfter(s, ok, revision).lastPushed = IF ok THEN revision ELSE s.lastPushed
BY DEF pushStateAfter, PushState

LEMMA Committing ==
    ASSUME PInv, Commit
    PROVE  Kept
<1>1. /\ task.pc = "commit"
      /\ UNCHANGED <<lines, hosting, files, probed, withdrawn, drifted>>
  BY DEF Commit
<1>2. CASE task' = [task EXCEPT !.pc = IF planPush(task.pushState, task.revision) = "push"
                                       THEN "push" ELSE "save"]
  <2>1. /\ task'.pc \in {"push", "save"} /\ task'.revision = task.revision
        /\ task'.pushState = task.pushState /\ task'.deployments = task.deployments
    BY <1>2 DEF PInv, Typed
  <2>2. Typed'
    BY <1>1, <1>2 DEF PInv, Typed, hosting, files, Pcs
  <2>3. Pushing'
    BY <1>1, <2>1 DEF PInv, Pushing, hosting, files
  <2>4. Deploying' /\ Recording'
    BY <1>1, <2>1 DEF PInv, Deploying, Recording, hosting, files, Working, OnTheWay
  <2>. QED
    BY <1>1, <2>2, <2>3, <2>4 DEF Kept, PInv, hosting
<1>3. CASE task' = [task EXCEPT !.pc = "save", !.revision = Null,
                                !.pushState = pushStateAfter(@, FALSE, Null)]
  <2>1. /\ task'.pc = "save" /\ task'.revision = 0
        /\ task'.pushState = pushStateAfter(task.pushState, FALSE, 0)
        /\ task'.deployments = task.deployments
    BY <1>3 DEF PInv, Typed, Null
  <2>2. /\ task'.pushState \in PushState
        /\ task'.pushState.lastPushed = task.pushState.lastPushed
    <3>1. task.pushState \in PushState
      BY DEF PInv, Typed
    <3>. QED
      BY <2>1, <3>1 DEF pushStateAfter, PushState
  <2>3. Typed'
    <3>1. task' = [task EXCEPT !.pc = "save", !.revision = 0, !.pushState = task'.pushState]
      BY <1>3 DEF PInv, Typed, Null
    <3>2. 0 \in Nat /\ "save" \in Pcs
      BY DEF Pcs
    <3>3. task' \in [pc : Pcs, revision : Nat, push : {"skipped", "pushed", "failed"},
                     pushState : PushState, deployments : DeploymentState, url : Nat]
      BY <2>2, <3>1, <3>2 DEF PInv, Typed
    <3>. QED
      BY <1>1, <3>3 DEF PInv, Typed, hosting, files
  <2>4. Pushing'
    <3>1. lines \in Nat /\ 0 <= lines
      BY DEF PInv, Typed
    <3>. QED
      BY <1>1, <2>1, <2>2, <3>1 DEF PInv, Pushing, hosting, files
  <2>5. Deploying' /\ Recording'
    BY <1>1, <2>1 DEF PInv, Deploying, Recording, hosting, files, Working, OnTheWay
  <2>. QED
    BY <1>1, <2>3, <2>4, <2>5 DEF Kept, PInv, hosting
<1>. QED
  BY <1>2, <1>3 DEF Commit

LEMMA PushingOut ==
    ASSUME PInv, Push
    PROVE  Kept
<1>1. PICK o \in Outcomes("push_fails") :
        /\ remote' = IF o.effect THEN task.revision ELSE remote
        /\ task' = [task EXCEPT !.pc = "save", !.push = IF o.answer THEN "pushed" ELSE "failed",
                                !.pushState = pushStateAfter(@, o.answer, task.revision)]
  BY DEF Push
<1>2. o.effect \in BOOLEAN /\ o.answer \in BOOLEAN /\ (o.answer => o.effect)
  BY OutcomeShape
<1>3. /\ task.pc = "push"
      /\ UNCHANGED <<lines, pages, alias, files, probed, withdrawn, drifted>>
  BY DEF Push
<1>4. /\ task'.pc = "save" /\ task'.revision = task.revision
      /\ task'.pushState = pushStateAfter(task.pushState, o.answer, task.revision)
      /\ task'.deployments = task.deployments
  BY <1>1 DEF PInv, Typed
<1>5. /\ task'.pushState \in PushState
      /\ task'.pushState.lastPushed
           = IF o.answer THEN task.revision ELSE task.pushState.lastPushed
  <2>1. task.pushState \in PushState /\ task.revision \in Nat
    BY DEF PInv, Typed
  <2>. QED
    BY <1>2, <1>4, <2>1, NextPush
<1>6. Typed'
  <2>1. \/ task' = [task EXCEPT !.pc = "save", !.push = "pushed", !.pushState = task'.pushState]
        \/ task' = [task EXCEPT !.pc = "save", !.push = "failed", !.pushState = task'.pushState]
    BY <1>1, <1>2 DEF PInv, Typed
  <2>2. remote' \in Nat
    BY <1>1 DEF PInv, Typed
  <2>. QED
    BY <1>3, <1>5, <2>1, <2>2 DEF PInv, Typed, files, Pcs
<1>7. Pushing'
  BY <1>1, <1>2, <1>3, <1>4, <1>5 DEF PInv, Typed, Pushing, files, PushState
<1>8. Deploying' /\ Recording'
  BY <1>3, <1>4 DEF PInv, Deploying, Recording, files, Working, OnTheWay
<1>. QED
  BY <1>3, <1>6, <1>7, <1>8 DEF Kept, PInv

LEMMA Saving ==
    ASSUME PInv, SavePushState
    PROVE  Kept
<1>1. /\ task.pc = "save" /\ pushState' = task.pushState
      /\ UNCHANGED <<lines, hosting, deployments, probed, withdrawn, drifted>>
      /\ task' = NotRunning \/ task' = [task EXCEPT !.pc = "build"]
  BY DEF SavePushState, Ends, To
<1>2. task'.pc \in {"idle", "build"}
  BY <1>1 DEF PInv, Typed, NotRunning
<1>3. task'.pc = "build" => /\ task'.revision = task.revision
                            /\ task'.deployments = task.deployments
  BY <1>1 DEF PInv, Typed, NotRunning
<1>4. Typed'
  <2>1. CASE task' = NotRunning
    BY <1>1, <2>1, IdleTyped DEF PInv, Typed, hosting
  <2>2. CASE task' = [task EXCEPT !.pc = "build"]
    BY <1>1, <2>2 DEF PInv, Typed, hosting, Pcs
  <2>. QED
    BY <1>1, <2>1, <2>2
<1>5. Pushing'
  BY <1>1, <1>2, <1>3 DEF PInv, Pushing, hosting
<1>6. Deploying' /\ Recording'
  BY <1>1, <1>2, <1>3 DEF PInv, Deploying, Recording, hosting, Working, OnTheWay
<1>. QED
  BY <1>1, <1>4, <1>5, <1>6 DEF Kept, PInv, hosting

LEMMA Building ==
    ASSUME PInv, Build
    PROVE  Kept
<1>1. /\ task.pc = "build"
      /\ UNCHANGED <<lines, hosting, files, probed, withdrawn, drifted>>
      /\ Ends \/ To("deploy")
  BY DEF Build
<1>2. CASE Ends
  BY <1>1, <1>2, Ending DEF PInv, Typed, Recording
<1>3. CASE To("deploy")
  <2>1. /\ task' = [task EXCEPT !.pc = "deploy"] /\ task'.pc = "deploy"
        /\ task'.revision = task.revision /\ task'.deployments = task.deployments
    BY <1>3 DEF To, PInv, Typed
  <2>2. Typed'
    BY <1>1, <2>1 DEF PInv, Typed, hosting, files, Pcs
  <2>3. Pushing' /\ Deploying' /\ Recording'
    BY <1>1, <2>1 DEF PInv, Pushing, Deploying, Recording, hosting, files, Working, OnTheWay
  <2>. QED
    BY <1>1, <2>2, <2>3 DEF Kept, PInv, hosting
<1>. QED
  BY <1>1, <1>2, <1>3

LEMMA DeployingOne ==
    ASSUME PInv, DeployCandidate
    PROVE  Kept
<1>1. PICK o \in Outcomes("deploy_fails") :
        /\ pages' = IF o.effect THEN Append(pages, task.revision) ELSE pages
        /\ IF o.answer THEN task' = [task EXCEPT !.pc = "probe", !.url = Len(pages')] ELSE Ends
  BY DEF DeployCandidate
<1>2. o.effect \in BOOLEAN /\ o.answer \in BOOLEAN /\ (o.answer => o.effect)
  BY OutcomeShape
<1>3. /\ task.pc = "deploy"
      /\ UNCHANGED <<lines, remote, alias, files, probed, withdrawn, drifted>>
  BY DEF DeployCandidate
<1>4. /\ pages' \in Seq(Nat) /\ Len(pages) \in Nat /\ Len(pages') \in Nat
      /\ Len(pages) <= Len(pages')
      /\ o.effect => Len(pages') = Len(pages) + 1
  <2>1. /\ pages \in Seq(Nat) /\ task.revision \in Nat
    BY DEF PInv, Typed
  <2>. QED
    BY <1>1, <1>2, <2>1, Appended
<1>5. probed \subseteq 1..Len(pages') /\ withdrawn \subseteq 1..Len(pages')
  BY <1>4 DEF PInv, Deploying
<1>6. CASE o.answer
  <2>1. task' = [task EXCEPT !.pc = "probe", !.url = Len(pages')]
    BY <1>1, <1>6
  <2>2. /\ task'.pc = "probe" /\ task'.url = Len(pages') /\ task'.deployments = task.deployments
        /\ task'.revision = task.revision
    BY <2>1 DEF PInv, Typed
  <2>3. Typed'
    BY <1>3, <1>4, <2>1 DEF PInv, Typed, files, Pcs
  <2>4. Pushing' /\ Recording'
    BY <1>3, <2>2 DEF PInv, Pushing, Recording, files, Working
  <2>5. task'.url > Len(pages) /\ task'.url \notin withdrawn
    BY <1>2, <1>4, <1>6, <2>2 DEF PInv, Deploying
  <2>6. Older(task.deployments, task'.url) /\ Older(deployments, task'.url)
    <3>1. /\ Trusted(task.deployments, probed) /\ Trusted(deployments, probed)
          /\ probed \subseteq 1..Len(pages)
      BY <1>3 DEF PInv, Deploying, Working
    <3>2. \A url \in probed : url < task'.url
      BY <1>4, <2>2, <2>5, <3>1
    <3>. QED
      BY <3>1, <3>2 DEF Trusted, Older
  <2>7. Deploying'
    BY <1>3, <1>4, <1>5, <2>2, <2>5, <2>6 DEF PInv, Deploying, files, Working, OnTheWay
  <2>. QED
    BY <1>3, <2>3, <2>4, <2>7 DEF Kept, PInv
<1>7. CASE ~o.answer
  <2>1. task' = NotRunning /\ task'.pc = "idle"
    BY <1>1, <1>7 DEF Ends, NotRunning
  <2>2. Typed'
    BY <1>3, <1>4, <2>1, IdleTyped DEF PInv, Typed, files
  <2>3. Pushing' /\ Recording'
    BY <1>3, <2>1 DEF PInv, Pushing, Recording, files, Working
  <2>4. Deploying'
    BY <1>3, <1>5, <2>1 DEF PInv, Deploying, files, Working, OnTheWay
  <2>. QED
    BY <1>3, <2>2, <2>3, <2>4 DEF Kept, PInv
<1>. QED
  BY <1>2, <1>6, <1>7

LEMMA Probing ==
    ASSUME PInv, ProbeCandidate
    PROVE  Kept
<1>1. \/ /\ probed' = probed \cup {task.url}
         /\ task' = [task EXCEPT !.pc = "promote"]
      \/ /\ probed' = probed
         /\ task' = [task EXCEPT !.pc = "record",
                       !.deployments = stateAfterPromotion(@, planPromotion(task.revision, task.url, FALSE))]
  <2>1. PICK o \in Observations(task.url) :
          LET verdict == verifyProbe(task.revision, o)
              receipt == planPromotion(task.revision, task.url, verdict)
          IN  /\ probed' = IF verdict THEN probed \cup {task.url} ELSE probed
              /\ IF receipt.accepted THEN To("promote")
                 ELSE task' = [task EXCEPT !.pc = "record",
                                           !.deployments = stateAfterPromotion(@, receipt)]
    BY DEF ProbeCandidate
  <2>2. verifyProbe(task.revision, o) \in {TRUE, FALSE}
    BY DEF verifyProbe
  <2>3. CASE verifyProbe(task.revision, o) = TRUE
    BY <2>1, <2>3 DEF planPromotion, To
  <2>4. CASE verifyProbe(task.revision, o) = FALSE
    BY <2>1, <2>4 DEF planPromotion
  <2>. QED
    BY <2>2, <2>3, <2>4
<1>2. /\ task.pc = "probe"
      /\ UNCHANGED <<lines, hosting, files, withdrawn, drifted>>
  BY DEF ProbeCandidate
<1>3. Len(pages) \in Nat
  BY DEF PInv, Typed
<1>4. CASE /\ probed' = probed \cup {task.url}
           /\ task' = [task EXCEPT !.pc = "promote"]
  <2>1. probed' = probed \cup {task.url} /\ task' = [task EXCEPT !.pc = "promote"]
    BY <1>4
  <2>2. /\ task'.pc = "promote" /\ task'.url = task.url /\ task'.deployments = task.deployments
        /\ task'.revision = task.revision
    BY <2>1 DEF PInv, Typed
  <2>3. Typed'
    BY <1>2, <2>1 DEF PInv, Typed, hosting, files, Pcs
  <2>4. Pushing' /\ Recording'
    BY <1>2, <2>2 DEF PInv, Pushing, Recording, hosting, files, Working
  <2>5. Deploying'
    BY <1>2, <1>3, <2>1, <2>2 DEF PInv, Deploying, hosting, files, Working, OnTheWay, Trusted
  <2>. QED
    BY <1>2, <2>3, <2>4, <2>5 DEF Kept, PInv, hosting
<1>5. CASE /\ probed' = probed
           /\ task' = [task EXCEPT !.pc = "record",
                         !.deployments = stateAfterPromotion(@, planPromotion(task.revision, task.url, FALSE))]
  <2>. DEFINE receipt == planPromotion(task.revision, task.url, FALSE)
  <2>1. /\ probed' = probed
        /\ task' = [task EXCEPT !.pc = "record", !.deployments = stateAfterPromotion(@, receipt)]
    BY <1>5
  <2>2. receipt \in Receipt /\ ~receipt.accepted
    BY DEF planPromotion, Receipt, PInv, Typed
  <2>3. /\ task'.pc = "record" /\ task'.deployments = stateAfterPromotion(task.deployments, receipt)
        /\ task'.revision = task.revision
    BY <2>1 DEF PInv, Typed
  <2>4. /\ task'.deployments \in DeploymentState
        /\ task'.deployments.stable = task.deployments.stable
        /\ Trusted(task'.deployments, probed) /\ Standing(task'.deployments, withdrawn)
    <3>1. /\ task.deployments \in DeploymentState
          /\ Trusted(task.deployments, probed) /\ Standing(task.deployments, withdrawn)
      BY <1>2 DEF PInv, Typed, Deploying, Working
    <3>. HIDE DEF receipt
    <3>. QED
      BY <2>2, <2>3, <3>1, RejectedRecorded
  <2>5. Typed'
    <3>1. task' = [task EXCEPT !.pc = "record", !.deployments = task'.deployments]
      BY <2>1 DEF PInv, Typed
    <3>. QED
      BY <1>2, <2>4, <3>1 DEF PInv, Typed, hosting, files, Pcs
  <2>6. Pushing' /\ Recording'
    BY <1>2, <2>3, <2>4 DEF PInv, Pushing, Recording, hosting, files, Working
  <2>7. Deploying'
    BY <1>2, <2>1, <2>3, <2>4 DEF PInv, Deploying, hosting, files, Working, OnTheWay
  <2>. QED
    BY <1>2, <2>5, <2>6, <2>7 DEF Kept, PInv, hosting
<1>. QED
  BY <1>1, <1>4, <1>5

LEMMA Promoting ==
    ASSUME PInv, Promote
    PROVE  Kept
<1>. DEFINE receipt(ok) == [planPromotion(task.revision, task.url, TRUE) EXCEPT !.accepted = ok]
<1>1. PICK o \in Outcomes("promote_fails") :
        /\ alias' = IF o.effect THEN task.url ELSE alias
        /\ drifted' = ((drifted \/ o.effect) /\ ~(o.effect /\ o.answer))
        /\ task' = [task EXCEPT !.pc = IF o.answer THEN "verify" ELSE "record",
                                !.deployments = stateAfterPromotion(@, receipt(o.answer))]
  BY DEF Promote
<1>2. o.effect \in BOOLEAN /\ o.answer \in BOOLEAN /\ (o.answer => o.effect)
  BY OutcomeShape
<1>3. /\ task.pc = "promote"
      /\ UNCHANGED <<lines, remote, pages, files, probed, withdrawn>>
  BY DEF Promote
<1>4. /\ receipt(o.answer) \in Receipt /\ receipt(o.answer).accepted = o.answer
      /\ receipt(o.answer).url = task.url
  BY <1>2 DEF planPromotion, Receipt, PInv, Typed
<1>5. /\ task'.pc = IF o.answer THEN "verify" ELSE "record"
      /\ task'.deployments = stateAfterPromotion(task.deployments, receipt(o.answer))
      /\ task'.url = task.url /\ task'.revision = task.revision
  BY <1>1 DEF PInv, Typed
<1>6. /\ task.deployments \in DeploymentState /\ task.url \in probed /\ task.url \notin withdrawn
      /\ Trusted(task.deployments, probed) /\ Standing(task.deployments, withdrawn)
      /\ Older(task.deployments, task.url)
  BY <1>3 DEF PInv, Typed, Deploying, Working, OnTheWay
<1>7. CASE o.answer
  <2>1. /\ task'.deployments \in DeploymentState /\ task'.deployments.stable.url = task.url
        /\ Trusted(task'.deployments, probed) /\ Standing(task'.deployments, withdrawn)
        /\ \A k \in Latest(Restorable(task'.deployments)) :
              task'.deployments.receipts[k].url \notin withdrawn
    <3>. HIDE DEF receipt
    <3>1. receipt(o.answer).accepted /\ receipt(o.answer).url = task.url
          /\ receipt(o.answer) \in Receipt
      BY <1>4, <1>7
    <3>2. /\ task'.deployments \in DeploymentState
          /\ task'.deployments.stable = receipt(o.answer)
          /\ task'.deployments.receipts = Append(task.deployments.receipts, receipt(o.answer))
          /\ \A k \in Latest(Restorable(task'.deployments)) :
                task'.deployments.receipts[k].url \notin withdrawn
      BY <1>5, <1>6, <3>1, PromotionRecorded
    <3>3. Trusted(task'.deployments, probed) /\ Standing(task'.deployments, withdrawn)
      BY <1>6, <3>1, <3>2, AcceptedRecorded
    <3>. QED
      BY <3>1, <3>2, <3>3
  <2>2. alias' = task.url /\ task'.pc = "verify" /\ ~drifted'
    BY <1>1, <1>2, <1>5, <1>7
  <2>3. Typed'
    <3>1. task' = [task EXCEPT !.pc = "verify", !.deployments = task'.deployments]
      BY <1>1, <1>7 DEF PInv, Typed
    <3>2. drifted' \in BOOLEAN
      BY <1>1 DEF PInv, Typed
    <3>. QED
      BY <1>3, <2>1, <2>2, <3>1, <3>2 DEF PInv, Typed, files, Pcs
  <2>4. Pushing' /\ Recording'
    BY <1>3, <1>5, <2>1, <2>2 DEF PInv, Pushing, Recording, files, Working
  <2>5. Deploying'
    BY <1>3, <1>5, <1>6, <2>1, <2>2 DEF PInv, Deploying, files, Working, OnTheWay
  <2>. QED
    BY <1>6, <2>2, <2>3, <2>4, <2>5 DEF Kept, PInv
<1>8. CASE ~o.answer
  <2>1. /\ task'.deployments \in DeploymentState
        /\ task'.deployments.stable = task.deployments.stable
        /\ Trusted(task'.deployments, probed) /\ Standing(task'.deployments, withdrawn)
    <3>. HIDE DEF receipt
    <3>1. ~receipt(o.answer).accepted /\ receipt(o.answer) \in Receipt
      BY <1>4, <1>8
    <3>. QED
      BY <1>5, <1>6, <3>1, RejectedRecorded
  <2>2. alias' \in {alias, task.url} /\ task'.pc = "record"
    BY <1>1, <1>2, <1>5, <1>8
  <2>3. Typed'
    <3>1. task' = [task EXCEPT !.pc = "record", !.deployments = task'.deployments]
      BY <1>1, <1>8 DEF PInv, Typed
    <3>2. drifted' \in BOOLEAN
      BY <1>1 DEF PInv, Typed
    <3>. QED
      BY <1>3, <2>1, <2>2, <3>1, <3>2 DEF PInv, Typed, files, Pcs
  <2>4. Pushing'
    BY <1>3, <1>5, <2>2 DEF PInv, Pushing, files
  <2>5. Recording'
    BY <1>1, <1>2, <1>3, <1>8, <2>1, <2>2 DEF PInv, Typed, Recording, files, Working
  <2>6. Deploying'
    BY <1>3, <1>6, <2>1, <2>2 DEF PInv, Deploying, files, Working, OnTheWay
  <2>. QED
    BY <1>6, <2>2, <2>3, <2>4, <2>5, <2>6 DEF Kept, PInv
<1>. QED
  BY <1>2, <1>7, <1>8

LEMMA Verifying ==
    ASSUME PInv, VerifyStable
    PROVE  Kept
<1>2. /\ task' = [task EXCEPT !.pc = "rollback"] \/ task' = [task EXCEPT !.pc = "record"]
      /\ task.pc = "verify"
  BY DEF VerifyStable, To
<1>3. /\ task'.pc \in {"rollback", "record"} /\ task'.deployments = task.deployments
      /\ task'.url = task.url /\ task'.revision = task.revision
  BY <1>2 DEF PInv, Typed
<1>4. UNCHANGED <<lines, hosting, files, probed, withdrawn, drifted>>
  BY DEF VerifyStable
<1>5. Typed'
  BY <1>2, <1>4 DEF PInv, Typed, hosting, files, Pcs
<1>6. Pushing' /\ Recording'
  BY <1>2, <1>3, <1>4 DEF PInv, Pushing, Recording, hosting, files, Working
<1>7. Deploying'
  BY <1>2, <1>3, <1>4 DEF PInv, Deploying, hosting, files, Working, OnTheWay
<1>. QED
  BY <1>4, <1>5, <1>6, <1>7 DEF Kept, PInv, hosting

LEMMA RollingBack ==
    ASSUME PInv, Rollback
    PROVE  Kept
<1>1. PICK o \in Outcomes("rollback_fails"), k \in Latest(Restorable(task.deployments)) :
        LET restored == task.deployments.receipts[k]
        IN  /\ alias' = IF o.effect THEN restored.url ELSE alias
            /\ withdrawn' = IF o.effect THEN withdrawn \cup {alias} ELSE withdrawn
            /\ drifted' = (drifted \/ ~o.effect)
            /\ task' = [task EXCEPT !.pc = "record",
                                    !.deployments = stateAfterStableVerification(@, restored)]
  BY DEF Rollback
<1>. DEFINE restored == task.deployments.receipts[k]
<1>2. o.effect \in BOOLEAN
  BY OutcomeShape
<1>3. /\ task.pc = "rollback"
      /\ UNCHANGED <<lines, remote, pages, files, probed>>
  BY DEF Rollback
<1>4. /\ task.deployments \in DeploymentState /\ Trusted(task.deployments, probed)
      /\ alias = task.url /\ task.deployments.stable.url = task.url
      /\ task.url = Len(pages) /\ task.url > 0
      /\ withdrawn \subseteq 1..Len(pages) /\ Len(pages) \in Nat
  BY <1>3 DEF PInv, Typed, Deploying, Working, OnTheWay
<1>5. /\ restored \in Receipt /\ restored.accepted /\ restored.url # task.url
      /\ restored.url \in probed /\ restored.url \notin withdrawn
  <2>1. k \in Restorable(task.deployments)
    BY DEF Latest
  <2>2. k \in Accepted(task.deployments) /\ k \in DOMAIN task.deployments.receipts
        /\ restored.url # task.url
    BY <1>4, <2>1 DEF Restorable, Accepted
  <2>3. restored.url \notin withdrawn
    BY <1>3 DEF PInv, Deploying
  <2>. QED
    BY <1>4, <2>2, <2>3 DEF DeploymentState, Accepted, Trusted
<1>6. restored.url # alias
  BY <1>4, <1>5
<1>. HIDE DEF restored
<1>7. /\ task'.pc = "record"
      /\ task'.deployments = stateAfterStableVerification(task.deployments, restored)
      /\ task'.revision = task.revision
  BY <1>1 DEF PInv, Typed, restored
<1>8. /\ task'.deployments \in DeploymentState /\ task'.deployments.stable = restored
      /\ task'.deployments.receipts = Append(task.deployments.receipts, restored)
  BY <1>4, <1>5, <1>7, Appended DEF stateAfterStableVerification, DeploymentState
<1>9. /\ alias' \in {alias, restored.url}
      /\ withdrawn' \subseteq withdrawn \cup {alias}
      /\ drifted' \in BOOLEAN
      /\ ~drifted' => ~drifted /\ alias' = restored.url
  BY <1>1, <1>2 DEF PInv, Typed, restored
<1>10. restored.url \notin withdrawn' /\ withdrawn' \subseteq 1..Len(pages)
  <2>1. alias \in 1..Len(pages)
    BY <1>4
  <2>. QED
    BY <1>4, <1>5, <1>6, <1>9, <2>1
<1>11. Trusted(task'.deployments, probed) /\ Standing(task'.deployments, withdrawn')
  BY <1>4, <1>5, <1>8, <1>10, AcceptedRecorded
<1>12. Typed'
  <2>1. alias' \in Nat
    BY <1>5, <1>9 DEF PInv, Typed, Receipt
  <2>2. task' = [task EXCEPT !.pc = "record", !.deployments = task'.deployments]
    BY <1>1 DEF PInv, Typed
  <2>. QED
    BY <1>3, <1>8, <1>9, <2>1, <2>2 DEF PInv, Typed, files, Pcs
<1>13. Pushing' /\ Recording'
  BY <1>3, <1>7, <1>8, <1>9 DEF PInv, Pushing, Recording, files, Working
<1>14. Standing(deployments, withdrawn')
  <2>1. Standing(deployments, withdrawn) /\ Older(deployments, alias)
    BY <1>3, <1>4 DEF PInv, Deploying, OnTheWay
  <2>2. \A j \in Latest(Accepted(deployments)) :
          deployments.receipts[j].url \in Nat /\ deployments.receipts[j].url < alias
    <3>1. deployments.receipts \in Seq(Receipt)
      BY DEF PInv, Typed, DeploymentState
    <3>2. \A j \in DOMAIN deployments.receipts : deployments.receipts[j] \in Receipt
      BY <3>1
    <3>3. \A j \in DOMAIN deployments.receipts : deployments.receipts[j].url \in Nat
      BY <3>2 DEF Receipt
    <3>. QED
      BY <2>1, <3>3 DEF Older, Latest, Accepted
  <2>3. alias \in Nat
    BY DEF PInv, Typed
  <2>. QED
    BY <1>9, <2>1, <2>2, <2>3 DEF Standing
<1>15. Deploying'
  BY <1>3, <1>4, <1>5, <1>7, <1>9, <1>10, <1>11, <1>14 DEF PInv, Deploying, files, Working, OnTheWay
<1>. QED
  BY <1>5, <1>9, <1>12, <1>13, <1>15 DEF Kept, PInv

LEMMA RecordingOne ==
    ASSUME PInv, RecordDeployment
    PROVE  Kept
<1>1. /\ task.pc = "record" /\ deployments' = task.deployments /\ task' = NotRunning
      /\ UNCHANGED <<lines, hosting, pushState, probed, withdrawn, drifted>>
  BY DEF RecordDeployment, Ends
<1>2. task'.pc = "idle"
  BY <1>1 DEF NotRunning
<1>3. Typed'
  BY <1>1, IdleTyped DEF PInv, Typed, hosting
<1>4. Pushing' /\ Deploying' /\ Recording'
  BY <1>1, <1>2 DEF PInv, Pushing, Deploying, Recording, hosting, Working, OnTheWay
<1>. QED
  BY <1>1, <1>3, <1>4 DEF Kept, PInv, hosting

LEMMA Dying ==
    ASSUME PInv, PublisherDies
    PROVE  Kept
<1>1. /\ drifted' = (drifted \/ alias # deployments.stable.url) /\ Ends
      /\ UNCHANGED <<lines, hosting, files, probed, withdrawn>>
  BY DEF PublisherDies
<1>2. drifted' \in BOOLEAN /\ (drifted => drifted')
  BY <1>1 DEF PInv, Typed
<1>. QED
  BY <1>1, <1>2, Ending

LEMMA Growing ==
    ASSUME PInv, JournalGrows \/ RefusePush
    PROVE  Kept
<1>1. /\ lines' \in Nat /\ lines <= lines'
      /\ UNCHANGED <<hosting, files, task, probed, withdrawn, drifted>>
  BY DEF JournalGrows, RefusePush, PInv, Typed
<1>. QED
  BY <1>1, Quiet

-----------------------------------------------------------------------------
LEMMA PublishStarts == PublishInit => PInv
<1>. SUFFICES ASSUME PublishInit PROVE PInv
  OBVIOUS
<1>1. task.pc = "idle"
  BY DEF PublishInit, NotRunning
<1>2. Typed
  <2>1. lines \in Nat /\ remote \in Nat /\ alias \in Nat /\ drifted \in BOOLEAN
    BY DEF PublishInit, Null
  <2>2. pages \in Seq(Nat)
    BY EmptySeq DEF PublishInit
  <2>. QED
    BY <2>1, <2>2, IdleTyped DEF PublishInit, Typed
<1>3. Pushing /\ Recording
  BY <1>1 DEF PublishInit, Pushing, Recording, Working, Null, emptyPushState,
              emptyDeploymentState, NoReceipt
<1>4. Accepted(deployments) = {}
  BY DEF PublishInit, Accepted, emptyDeploymentState
<1>5. Deploying
  BY <1>1, <1>4 DEF PublishInit, Deploying, Working, OnTheWay, Trusted, Standing, Latest
<1>. QED
  BY <1>2, <1>3, <1>5 DEF PInv

LEMMA PublishKeeps ==
    ASSUME PInv, [PublishNext]_publishVars
    PROVE  Kept
<1>1. CASE JournalGrows \/ RefusePush
  BY <1>1, Growing
<1>2. CASE StartPublish
  BY <1>2, Starting
<1>3. CASE PublisherDies
  BY <1>3, Dying
<1>4. CASE PublishStep
  BY <1>4, Committing, PushingOut, Saving, Building, DeployingOne, Probing, Promoting,
     Verifying, RollingBack, RecordingOne DEF PublishStep
<1>5. CASE UNCHANGED publishVars
  <2>1. /\ UNCHANGED <<hosting, files, task, probed, withdrawn, drifted>>
        /\ lines' \in Nat /\ lines <= lines'
    BY <1>5 DEF publishVars, hosting, files, PInv, Typed
  <2>. QED
    BY <2>1, Quiet
<1>. QED
  BY <1>1, <1>2, <1>3, <1>4, <1>5 DEF PublishNext

LEMMA PublisherInvariant == PublishSpec => []PInv
<1>1. PInv /\ [PublishNext]_publishVars => PInv'
  BY PublishKeeps DEF Kept
<1>. QED
  BY <1>1, PublishStarts, PTL DEF PublishSpec

(***************************************************************************)
(* What publish-state.json calls pushed really is at the remote: no crash, *)
(* failed commit or lost answer makes planPush skip a revision for good.   *)
(***************************************************************************)
THEOREM PushesAreTrue == PublishSpec => []NoFalsePush
<1>1. PInv => NoFalsePush
  BY DEF PInv, Pushing, NoFalsePush
<1>. QED
  BY <1>1, PublisherInvariant, PTL

(***************************************************************************)
(* Between invocations deployments.json names the candidate the alias      *)
(* serves, but for the drifts the model names.                             *)
(***************************************************************************)
THEOREM RecordIsTrue == PublishSpec => []RecordMatchesAlias
<1>1. PInv => RecordMatchesAlias
  BY DEF PInv, Recording, RecordMatchesAlias
<1>. QED
  BY <1>1, PublisherInvariant, PTL

(***************************************************************************)
(* The stable origin only ever serves a candidate that passed its own      *)
(* anonymous probe.                                                        *)
(***************************************************************************)
THEOREM AliasIsProbed == PublishSpec => []AliasServesProbed
<1>1. PInv => AliasServesProbed
  BY DEF PInv, Deploying, AliasServesProbed
<1>. QED
  BY <1>1, PublisherInvariant, PTL

(***************************************************************************)
(* A candidate a rollback took down never comes back: not as the next      *)
(* rollback's target and not by a later promotion.                         *)
(***************************************************************************)
THEOREM WithdrawnIsFinal == PublishSpec => WithdrawnStaysDown
<1>1. PInv /\ [PublishNext]_publishVars => [alias' # alias => alias' \notin withdrawn]_publishVars
  BY PublishKeeps DEF Kept
<1>. QED
  BY <1>1, PublisherInvariant, PTL DEF PublishSpec, WithdrawnStaysDown
=============================================================================
