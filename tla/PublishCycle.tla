---------------------------- MODULE PublishCycle ----------------------------
(***************************************************************************)
(* The publisher: one invocation commits and pushes the journal, renders   *)
(* the site, deploys an immutable candidate, probes it, moves the stable   *)
(* alias to it, probes again and rolls back (src/src/shell/publisher.ts    *)
(* with the decisions of src/src/core/publish.ts).  Two files carry what   *)
(* the next invocation knows: publish-state.json and deployments.json.     *)
(* The remote branch, the deployments and the alias are the hosting's and  *)
(* change when a call has its effect, whatever the caller hears of it.     *)
(*                                                                         *)
(* A revision is the number of journal lines it holds.  A page is its      *)
(* revision, a candidate's address the number of its deployment.           *)
(***************************************************************************)
EXTENDS Integers, Sequences

CONSTANTS MaxLines,      \* bound: lines the journal grows to
          RequestedRefs, \* input: refs an invocation asks to push to
          HostFaults     \* input: what may go wrong at the hosting and in the process

ASSUME MaxLinesAssumption == MaxLines \in Nat \ {0}
ASSUME HostFaultsAssumption ==
    HostFaults \subseteq {"crash", "commit_fails", "push_fails", "answer_lost", "build_fails",
                          "deploy_fails", "probe_fails", "promote_fails", "rollback_fails"}

VARIABLES
    lines,       \* the journal's length
    remote,      \* the revision the remote journal branch holds
    pushState,   \* publish-state.json
    deployments, \* deployments.json
    pages,       \* the candidates the hosting keeps: the revision of each
    alias,       \* the candidate behind the stable origin, 0 before the first
    task,        \* the invocation
    probed,      \* history: candidates that passed their anonymous probe
    withdrawn,   \* history: candidates a rollback took down
    drifted      \* history: the alias moved, or failed to, and no record could follow

publishVars == <<lines, remote, pushState, deployments, pages, alias, task, probed, withdrawn, drifted>>
hosting == <<remote, pages, alias>>
files == <<pushState, deployments>>

-----------------------------------------------------------------------------
Null == 0
JournalRef == "journal"
NoReceipt == [revision |-> Null, url |-> 0, accepted |-> FALSE]
emptyPushState == [lastPushed |-> Null, failures |-> 0]
emptyDeploymentState == [stable |-> NoReceipt, receipts |-> <<>>]
NotRunning == [pc |-> "idle", revision |-> Null, push |-> "skipped", pushState |-> emptyPushState,
               deployments |-> emptyDeploymentState, url |-> 0]

\* Byte equality with the configured ref.
checkPushTarget(requested) == requested = JournalRef

(***************************************************************************)
(* S-CYC-07: a push is due when the head differs from the last pushed one. *)
(***************************************************************************)
\* Mutant: a revision is tried once.
planPush_once(state, head) ==
    IF head = Null THEN "no_revision"
    ELSE IF state.lastPushed = head \/ state.failures > 0 THEN "already_pushed"
    ELSE "push"

planPush(state, head) ==
    IF head = Null THEN "no_revision"
    ELSE IF state.lastPushed = head THEN "already_pushed"
    ELSE "push"

\* Mutant: a failed attempt is booked like a push.
pushStateAfter_bookFailure(state, ok, revision) ==
    [lastPushed |-> revision, failures |-> IF ok THEN 0 ELSE state.failures + 1]

pushStateAfter(state, ok, revision) ==
    IF ok THEN [lastPushed |-> revision, failures |-> 0]
    ELSE [state EXCEPT !.failures = IF @ = 1 THEN @ ELSE @ + 1] \* bound: failures in a row are one or more

(***************************************************************************)
(* The probe contract: reachable without credentials, HTTP 200, and the    *)
(* page's description of itself is the expected one.                       *)
(***************************************************************************)
verifyProbe(expected, observation) ==
    observation.reachable /\ observation.page = expected

\* Mutant: every deployed candidate is promoted.
planPromotion_always(revision, url, verdict) ==
    [revision |-> revision, url |-> url, accepted |-> TRUE]

planPromotion(revision, url, verdict) ==
    [revision |-> revision, url |-> url, accepted |-> verdict]

\* Mutant: a candidate whose promotion failed still becomes the stable one.
stateAfterPromotion_always(state, receipt) ==
    [stable |-> receipt, receipts |-> Append(state.receipts, receipt)]

stateAfterPromotion(state, receipt) ==
    [stable |-> IF receipt.accepted THEN receipt ELSE state.stable,
     receipts |-> Append(state.receipts, receipt)]

(***************************************************************************)
(* What a rollback may restore: accepted receipts of another candidate     *)
(* than the stable one.  It takes the latest of them.                      *)
(***************************************************************************)
Restorable(state) ==
    {k \in DOMAIN state.receipts : /\ state.receipts[k].accepted
                                   /\ state.receipts[k].url # state.stable.url}
Latest(receipts) == {k \in receipts : \A j \in receipts : j <= k}

planStableVerification(state, verdict) ==
    IF verdict THEN "keep"
    ELSE IF Restorable(state) = {} THEN "no_prior_accepted"
    ELSE "rollback"

\* Mutant: what a rollback restores is not written down as a receipt.
stateAfterStableVerification_noReceipt(state, restored) == [state EXCEPT !.stable = restored]

stateAfterStableVerification(state, restored) ==
    [stable |-> restored, receipts |-> Append(state.receipts, restored)]

-----------------------------------------------------------------------------
Fault(f) == f \in HostFaults
To(pc) == task' = [task EXCEPT !.pc = pc]
Ends == task' = NotRunning
\* A call throws without effect, or has its effect and the answer is lost.
Outcomes(fails) ==
    {[effect |-> TRUE, answer |-> TRUE]}
      \cup (IF Fault(fails) THEN {[effect |-> FALSE, answer |-> FALSE]} ELSE {})
      \cup (IF Fault("answer_lost") THEN {[effect |-> TRUE, answer |-> FALSE]} ELSE {})
Observations(url) ==
    {[reachable |-> TRUE, page |-> pages[url]]}
      \cup (IF Fault("probe_fails") THEN {[reachable |-> FALSE, page |-> Null]} ELSE {})

PublishInit ==
    /\ lines = 1
    /\ remote = Null
    /\ pushState = emptyPushState
    /\ deployments = emptyDeploymentState
    /\ pages = <<>>
    /\ alias = 0
    /\ task = NotRunning
    /\ probed = {}
    /\ withdrawn = {}
    /\ drifted = FALSE

\* The trading processes append.
JournalGrows ==
    /\ lines < MaxLines
    /\ lines' = lines + 1
    /\ UNCHANGED <<hosting, files, task, probed, withdrawn, drifted>>

(***************************************************************************)
(* S-J-08: another ref than the journal's is refused, and the refusal is a *)
(* journal line when the publisher has a gateway.                          *)
(***************************************************************************)
RefusePush ==
    /\ task.pc = "idle"
    /\ \E ref \in RequestedRefs : ~checkPushTarget(ref)
    /\ \E logged \in BOOLEAN :
         /\ logged => lines < MaxLines
         /\ lines' = IF logged THEN lines + 1 ELSE lines
    /\ UNCHANGED <<hosting, files, task, probed, withdrawn, drifted>>

StartPublish ==
    /\ task.pc = "idle"
    /\ \E ref \in RequestedRefs : checkPushTarget(ref)
    /\ task' = [NotRunning EXCEPT !.pc = "commit", !.revision = lines,
                                  !.pushState = pushState, !.deployments = deployments]
    /\ UNCHANGED <<lines, hosting, files, probed, withdrawn, drifted>>

Commit ==
    /\ task.pc = "commit"
    /\ \/ task' = [task EXCEPT !.pc = IF planPush(task.pushState, task.revision) = "push"
                                      THEN "push" ELSE "save"]
       \/ /\ Fault("commit_fails")
          /\ task' = [task EXCEPT !.pc = "save", !.revision = Null,
                                  !.pushState = pushStateAfter(@, FALSE, Null)]
    /\ UNCHANGED <<lines, hosting, files, probed, withdrawn, drifted>>

Push ==
    /\ task.pc = "push"
    /\ \E o \in Outcomes("push_fails") :
         /\ remote' = IF o.effect THEN task.revision ELSE remote
         /\ task' = [task EXCEPT !.pc = "save",
                                 !.push = IF o.answer THEN "pushed" ELSE "failed",
                                 !.pushState = pushStateAfter(@, o.answer, task.revision)]
    /\ UNCHANGED <<lines, pages, alias, files, probed, withdrawn, drifted>>

(***************************************************************************)
(* Whatever came of the push is written before anything is rendered; only  *)
(* an invocation whose own push succeeded deploys a candidate.             *)
(***************************************************************************)
SavePushState ==
    /\ task.pc = "save"
    /\ pushState' = task.pushState
    /\ IF task.revision = Null THEN Ends ELSE To("build")
    /\ UNCHANGED <<lines, hosting, deployments, probed, withdrawn, drifted>>

Build ==
    /\ task.pc = "build"
    /\ \/ IF task.push = "pushed" THEN To("deploy") ELSE Ends
       \/ Fault("build_fails") /\ Ends
    /\ UNCHANGED <<lines, hosting, files, probed, withdrawn, drifted>>

DeployCandidate ==
    /\ task.pc = "deploy"
    /\ \E o \in Outcomes("deploy_fails") :
         /\ pages' = IF o.effect THEN Append(pages, task.revision) ELSE pages
         /\ IF o.answer THEN task' = [task EXCEPT !.pc = "probe", !.url = Len(pages')] ELSE Ends
    /\ UNCHANGED <<lines, remote, alias, files, probed, withdrawn, drifted>>

ProbeCandidate ==
    /\ task.pc = "probe"
    /\ \E o \in Observations(task.url) :
         LET verdict == verifyProbe(task.revision, o)
             receipt == planPromotion(task.revision, task.url, verdict)
         IN  /\ probed' = IF verdict THEN probed \cup {task.url} ELSE probed
             /\ IF receipt.accepted THEN To("promote")
                ELSE task' = [task EXCEPT !.pc = "record",
                                          !.deployments = stateAfterPromotion(@, receipt)]
    /\ UNCHANGED <<lines, hosting, files, withdrawn, drifted>>

(***************************************************************************)
(* A promotion that throws is recorded as rejected, wherever the alias is. *)
(***************************************************************************)
Promote ==
    /\ task.pc = "promote"
    /\ \E o \in Outcomes("promote_fails") :
         LET receipt == [planPromotion(task.revision, task.url, TRUE) EXCEPT !.accepted = o.answer]
         IN  /\ alias' = IF o.effect THEN task.url ELSE alias
             /\ drifted' = ((drifted \/ o.effect) /\ ~(o.effect /\ o.answer))
             /\ task' = [task EXCEPT !.pc = IF o.answer THEN "verify" ELSE "record",
                                     !.deployments = stateAfterPromotion(@, receipt)]
    /\ UNCHANGED <<lines, remote, pages, files, probed, withdrawn>>

VerifyStable ==
    /\ task.pc = "verify"
    /\ \E o \in Observations(alias) :
         LET plan == planStableVerification(task.deployments, verifyProbe(task.revision, o))
         IN  To(IF plan = "rollback" THEN "rollback" ELSE "record")
    /\ UNCHANGED <<lines, hosting, files, probed, withdrawn, drifted>>

(***************************************************************************)
(* The record states the restored receipt whether or not the call threw.   *)
(***************************************************************************)
Rollback ==
    /\ task.pc = "rollback"
    /\ \E o \in Outcomes("rollback_fails"), k \in Latest(Restorable(task.deployments)) :
         LET restored == task.deployments.receipts[k]
         IN  /\ alias' = IF o.effect THEN restored.url ELSE alias
             /\ withdrawn' = IF o.effect THEN withdrawn \cup {alias} ELSE withdrawn
             /\ drifted' = (drifted \/ ~o.effect)
             /\ task' = [task EXCEPT !.pc = "record",
                                     !.deployments = stateAfterStableVerification(@, restored)]
    /\ UNCHANGED <<lines, remote, pages, files, probed>>

RecordDeployment ==
    /\ task.pc = "record"
    /\ deployments' = task.deployments
    /\ Ends
    /\ UNCHANGED <<lines, hosting, pushState, probed, withdrawn, drifted>>

\* Memory is lost; a promotion the file does not know of yet is lost with it.
PublisherDies ==
    /\ Fault("crash")
    /\ task.pc # "idle"
    /\ drifted' = (drifted \/ alias # deployments.stable.url)
    /\ Ends
    /\ UNCHANGED <<lines, hosting, files, probed, withdrawn>>

PublishStep ==
    \/ Commit \/ Push \/ SavePushState \/ Build \/ DeployCandidate
    \/ ProbeCandidate \/ Promote \/ VerifyStable \/ Rollback \/ RecordDeployment

PublishNext ==
    \/ JournalGrows \/ RefusePush \/ StartPublish \/ PublishStep \/ PublisherDies

(***************************************************************************)
(* The scheduler starts the publisher again and again, a started one goes  *)
(* on; a commit and a push that are tried for ever succeed at some point.  *)
(***************************************************************************)
PushSucceeds == Push /\ task'.push = "pushed"
PublishFairness ==
    /\ WF_publishVars(StartPublish)
    /\ WF_publishVars(PublishStep)
    /\ SF_publishVars(Commit /\ task'.revision # Null)
    /\ SF_publishVars(PushSucceeds)
    /\ SF_publishVars(SavePushState)

PublishSpec == PublishInit /\ [][PublishNext]_publishVars /\ PublishFairness

-----------------------------------------------------------------------------
(***************************************************************************)
(* What publish-state.json calls pushed is at the remote, over crashes,    *)
(* failing commits and pushes whose answer was lost (planPush would never  *)
(* try that revision again).                                               *)
(***************************************************************************)
NoFalsePush == pushState.lastPushed <= remote

(***************************************************************************)
(* Between invocations the recorded stable deployment is the one the alias *)
(* serves, unless the process died after moving the alias or the hosting   *)
(* failed a promotion or rollback in a way the publisher could not see.    *)
(***************************************************************************)
RecordMatchesAlias ==
    (task.pc = "idle" /\ ~drifted) => deployments.stable.url = alias

(***************************************************************************)
(* The public never sees a page that failed its own anonymous probe: the   *)
(* alias only ever moves to a candidate that passed it, on promotions and  *)
(* on rollbacks to what some earlier invocation recorded.                  *)
(***************************************************************************)
AliasServesProbed == alias # 0 => alias \in probed

(***************************************************************************)
(* What a rollback took down is not brought back by a later one, although  *)
(* its own receipt still says accepted.                                    *)
(***************************************************************************)
WithdrawnStaysDown == [][alias' # alias => alias' \notin withdrawn]_publishVars

(***************************************************************************)
(* What the journal holds is pushed in the end, whatever fails on the way. *)
(***************************************************************************)
JournalIsPushed == \A n \in 1..MaxLines : lines = n ~> remote >= n
=============================================================================
