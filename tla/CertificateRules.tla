-------------------------- MODULE CertificateRules --------------------------
(***************************************************************************)
(* What a certificate of the live test says and when a deployment arms on  *)
(* it (src/src/core/certificate.ts, src/src/shell/arming-gate.ts): the     *)
(* evidence is drawn from the journal and the orders the driver observed,  *)
(* judged once when the certificate is built and once more, from the       *)
(* certificate alone, when a competition runtime starts.  A drill starts   *)
(* perfect and then deviates.  Instants are numbers, 0 is an absent one;   *)
(* a digest is the material it covers, and empty where it was refused.     *)
(***************************************************************************)
EXTENDS Integers, Sequences, FiniteSets, FiniteSetsExt

CONSTANTS MaxDeviations, \* bound: in how many ways a drill departs from the perfect one
          NoDrill        \* no drill is judged (the other topics of a run)

VARIABLE arming
Nobody == "nobody"
NaN == 0             \* a value without a canonical form

(***************************************************************************)
(* Digests.  Every configuration field has one class and only policy       *)
(* enters the digest; of the tree only what runs or is shown is hashed,    *)
(* text whatever its line endings.  One file or field stands for its kind. *)
(***************************************************************************)
configFieldClassification ==
    [ALPACA_TRADING_ORIGIN |-> "policy", CYCLE_INTERVAL_MS |-> "policy",
     EXPECTED_ACCOUNT_ID |-> "identity", STATE_DIR |-> "deployment"]
classifyConfig(config, class) ==
    LET of == {f \in DOMAIN config \cap DOMAIN configFieldClassification : configFieldClassification[f] = class}
    IN  [f \in of |-> config[f]]
unknownFields(config) == DOMAIN config \ DOMAIN configFieldClassification
containsNonCanonical(material) == \E f \in DOMAIN material : material[f] = NaN
policyDigest(config) ==
    LET policy == classifyConfig(config, "policy")
    IN  IF \/ unknownFields(config) # {} \/ containsNonCanonical(policy)
           \/ "ALPACA_TRADING_ORIGIN" \notin DOMAIN policy \/ policy["ALPACA_TRADING_ORIGIN"] # 1
        THEN <<>> ELSE policy

TextKinds == {"source", "built", "schema", "asset_text"}
CoveredKinds == TextKinds \cup {"asset_image"}
sha256Content(kind, file) == IF kind \in TextKinds THEN file.text ELSE <<file.text, file.crlf>>
enumerateRuntimeFiles(tree) ==
    [kind \in DOMAIN tree \cap CoveredKinds |-> sha256Content(kind, tree[kind])]
runtimeDigest(tree) == enumerateRuntimeFiles(tree)

Tested ==
    [config |-> [f \in DOMAIN configFieldClassification |-> 1],
     tree |-> [kind \in CoveredKinds \cup {"document", "dependency"} |-> [text |-> 1, crlf |-> FALSE]]]

(***************************************************************************)
(* The journal lines a certificate reads.                                  *)
(***************************************************************************)
Blank == [type |-> "", at |-> 0, id |-> Nobody, status |-> "", brokerOrderId |-> 0, filled |-> 0,
          brokerAt |-> 0, legs |-> <<>>, credit |-> FALSE, quantity |-> 0, G1 |-> FALSE, G5 |-> FALSE,
          snapshot |-> FALSE, account |-> "", positions |-> <<>>, quotes |-> <<>>, reason |-> "", actor |-> ""]
SnapshotLine(at, positions, quotes) ==
    [Blank EXCEPT !.type = "CYCLE", !.at = at, !.snapshot = TRUE, !.account = "dev",
                  !.positions = positions, !.quotes = quotes]
IntentLine(at, id, legs) ==
    [Blank EXCEPT !.type = "INTENT", !.at = at, !.id = id, !.legs = legs, !.credit = TRUE,
                  !.quantity = 1, !.G1 = TRUE, !.G5 = TRUE]
Outcome(at, id, status, filled) ==
    [Blank EXCEPT !.type = "OUTCOME", !.at = at, !.id = id, !.status = status, !.brokerOrderId = 1,
                  !.filled = filled, !.brokerAt = at]
Transition(at, type, reason, actor) ==
    [Blank EXCEPT !.type = type, !.at = at, !.reason = reason, !.actor = actor]

Leg(contract, side, right, expiry, ratio) ==
    [contractId |-> contract, side |-> side, right |-> right, expiry |-> expiry, ratio |-> ratio]
TestSpread == <<Leg("P4", "sell", "put", 3, 1), Leg("P2", "buy", "put", 3, 1)>>
Sample(at) == [quotedAt |-> at, brokerQuotedAt |-> at, bidSize |-> 1, askSize |-> 1]
Perfect ==
    [origin |-> TRUE, account |-> "dev", inventory |-> TRUE, start |-> 1, end |-> 9,
     runtimeDigest |-> runtimeDigest(Tested.tree), policyDigest |-> policyDigest(Tested.config), cancels |-> {},
     journal |-> <<SnapshotLine(2, <<>>, [P4 |-> Sample(2), P2 |-> Sample(2)]), IntentLine(3, "A", TestSpread),
                   Outcome(5, "A", "filled", 1), SnapshotLine(6, [P4 |-> -1, P2 |-> 1], <<>>),
                   Transition(7, "HALT", "AUTH_FAILURE", "agent"), Transition(8, "UNHALT", "", "human")>>,
     observations |-> {[id |-> "A", brokerOrderId |-> 1, status |-> "new", submitted |-> 4, asIntended |-> TRUE]},
     fence |-> <<[http |-> 401, haltSeq |-> 5, unhaltSeq |-> 6, working |-> {}, canceled |-> {}]>>,
     final |-> <<[at |-> 9, account |-> "dev", positions |-> 0, working |-> 0, complete |-> TRUE, reads |-> 2]>>]

(***************************************************************************)
(* Reading the evidence.                                                   *)
(***************************************************************************)
outsideWindow(d, instants) == \E t \in instants : t \notin d.start..d.end
\* Only the lines of the test window count; a line's place is its sequence number.
WindowLines(d) == {i \in DOMAIN d.journal : d.journal[i].at \in d.start..d.end}
Latest(S) == IF S = {} THEN 0 ELSE Max(S)
Earliest(S) == IF S = {} THEN 0 ELSE Min(S)

ratioOf(legs, side, rights) ==
    MapThenSumSet(LAMBDA i : legs[i].ratio, {i \in DOMAIN legs : legs[i].side = side /\ legs[i].right \in rights})
definedRiskShape(legs) ==
    /\ Len(legs) >= 2
    /\ ratioOf(legs, "buy", {"put", "call"}) = ratioOf(legs, "sell", {"put", "call"})
    /\ ratioOf(legs, "sell", {"put", "call"}) > 0
    /\ \A i, j \in DOMAIN legs : legs[i].expiry = legs[j].expiry
    /\ \A right \in {"put", "call"} : ratioOf(legs, "sell", {right}) <= ratioOf(legs, "buy", {right})

\* Mutant: the first terminal outcome of an order is taken for its last word.
effectiveOutcomeFor_first(d, intent) ==
    Earliest({i \in WindowLines(d) : i > intent /\ d.journal[i].type = "OUTCOME"
                /\ d.journal[i].id = d.journal[intent].id
                /\ d.journal[i].status \in {"filled", "partially_filled", "rejected", "canceled", "expired"}})

effectiveOutcomeFor(d, intent) ==
    Latest({i \in WindowLines(d) : i > intent /\ d.journal[i].type = "OUTCOME"
                /\ d.journal[i].id = d.journal[intent].id
                /\ d.journal[i].status \in {"filled", "partially_filled", "rejected", "canceled", "expired"}})
StatusOf(d, intent) ==
    LET o == effectiveOutcomeFor(d, intent) IN IF o = 0 THEN "none" ELSE d.journal[o].status
unresolvedIn(d) ==
    {d.journal[i].id : i \in {i \in WindowLines(d) : d.journal[i].type = "INTENT" /\ StatusOf(d, i) = "none"}}

(***************************************************************************)
(* creditAcceptanceFrom: every credit entry of the window must be sound;   *)
(* one that was accepted and ended well is the evidence, a filled one      *)
(* before a canceled one.                                                  *)
(***************************************************************************)
creditIntents(d) == {i \in WindowLines(d) : d.journal[i].type = "INTENT" /\ d.journal[i].credit}
Observed(d, i) == {o \in d.observations : o.id = d.journal[i].id}
positiveAcceptanceStatuses == {"new", "accepted", "open", "pending_new", "partially_filled", "filled"}
AcceptedOrders(d, i) == {o \in Observed(d, i) : o.status \in positiveAcceptanceStatuses}
Ended(d, i) == AcceptedOrders(d, i) # {} /\ StatusOf(d, i) \in {"filled", "canceled"}
Instants(d, i) == {o.submitted : o \in AcceptedOrders(d, i)} \cup {d.journal[effectiveOutcomeFor(d, i)].brokerAt}
Unsound(d, i) ==
    \/ ~definedRiskShape(d.journal[i].legs) \/ ~d.journal[i].G1
    \/ \E o \in Observed(d, i) : ~o.asIntended \/ o.brokerOrderId = 0
    \/ \E o, p \in Observed(d, i) : o.brokerOrderId # p.brokerOrderId \/ o.submitted # p.submitted
    \/ StatusOf(d, i) = "rejected"
    \/ Ended(d, i) /\ \/ StatusOf(d, i) = "canceled" /\ d.journal[i].id \notin d.cancels
                      \/ \E o \in AcceptedOrders(d, i) : o.brokerOrderId # d.journal[effectiveOutcomeFor(d, i)].brokerOrderId
                      \/ 0 \in Instants(d, i)
                      \/ \E o \in AcceptedOrders(d, i) : o.submitted > d.journal[effectiveOutcomeFor(d, i)].brokerAt
                      \/ outsideWindow(d, Instants(d, i))
Selected(d) ==
    LET ended == {i \in creditIntents(d) : Ended(d, i) /\ ~Unsound(d, i)}
        filled == {i \in ended : StatusOf(d, i) = "filled"}
    IN  IF filled # {} THEN Min(filled) ELSE Earliest(ended)
creditAcceptanceFrom(d) ==
    LET i == Selected(d)
        accepted == CHOOSE o \in AcceptedOrders(d, i) : TRUE
        outcome == d.journal[effectiveOutcomeFor(d, i)]
    IN  IF i = 0 THEN <<>>
        ELSE <<[id |-> d.journal[i].id, brokerOrderId |-> accepted.brokerOrderId, intentSeq |-> i,
                outcomeSeq |-> effectiveOutcomeFor(d, i), acceptedStatus |-> accepted.status,
                acceptedAt |-> accepted.submitted, terminalStatus |-> outcome.status,
                terminalAt |-> outcome.brokerAt, harness |-> d.journal[i].id \in d.cancels]>>

(***************************************************************************)
(* The other clauses, each a sequence of at most one piece of evidence.    *)
(***************************************************************************)
expectedPositions(legs) ==
    [c \in {legs[i].contractId : i \in DOMAIN legs} |->
        LET of == {i \in DOMAIN legs : legs[i].contractId = c}
        IN  MapThenSumSet(LAMBDA i : IF legs[i].side = "sell" THEN -legs[i].ratio ELSE legs[i].ratio, of)]
Held(positions) ==
    LET open == {c \in DOMAIN positions : positions[c] # 0} IN [c \in open |-> positions[c]]
fillFrom(d, credit) ==
    IF credit = <<>> THEN <<>>
    ELSE LET intent == d.journal[credit[1].intentSeq]
             fill == d.journal[credit[1].outcomeSeq]
             later == Earliest({i \in WindowLines(d) : i > credit[1].outcomeSeq /\ d.journal[i].snapshot
                                 /\ d.journal[i].account = d.account
                                 /\ Held(d.journal[i].positions) = expectedPositions(intent.legs)})
         IN  IF fill.status = "filled" /\ fill.filled = 1 /\ intent.quantity = 1 /\ later # 0
             THEN <<[id |-> credit[1].id, brokerOrderId |-> fill.brokerOrderId, filled |-> fill.filled,
                     filledAt |-> fill.brokerAt, outcomeSeq |-> credit[1].outcomeSeq, reconciledSeq |-> later]>>
             ELSE <<>>

\* The snapshot before the INTENT carried the quotes its liquidity gate consumed.
liquidityFor(d, credit) ==
    LET before == Latest({i \in WindowLines(d) : i < credit[1].intentSeq /\ d.journal[i].snapshot})
        legs == {leg.contractId : leg \in {d.journal[credit[1].intentSeq].legs[k] :
                                             k \in DOMAIN d.journal[credit[1].intentSeq].legs}}
    IN  IF credit = <<>> \/ before = 0 THEN <<>>
        ELSE [c \in legs \cap DOMAIN d.journal[before].quotes |-> d.journal[before].quotes[c]]
Liquid(d, credit) ==
    LET samples == liquidityFor(d, credit)
    IN  /\ d.journal[credit[1].intentSeq].G5
        /\ DOMAIN samples = DOMAIN expectedPositions(d.journal[credit[1].intentSeq].legs)
        /\ \A c \in DOMAIN samples : /\ samples[c].quotedAt = samples[c].brokerQuotedAt
                                     /\ ~outsideWindow(d, {samples[c].quotedAt})

IsTransition(line) == line.type = "HALT" \/ (line.type = "UNHALT" /\ line.actor = "human")
fenceFrom(d) ==
    IF d.fence = <<>> THEN FALSE
    ELSE LET f == d.fence[1]
         IN  /\ f.http \in {401, 403} /\ f.working \subseteq f.canceled
             /\ {f.haltSeq, f.unhaltSeq} \subseteq WindowLines(d) /\ f.haltSeq < f.unhaltSeq
             /\ d.journal[f.haltSeq].type = "HALT" /\ d.journal[f.haltSeq].reason = "AUTH_FAILURE"
             /\ d.journal[f.unhaltSeq].type = "UNHALT" /\ d.journal[f.unhaltSeq].actor = "human"
             /\ f.unhaltSeq = Latest({i \in WindowLines(d) : IsTransition(d.journal[i])})
finalSnapshotFrom(d) ==
    d.final # <<>> /\ LET s == d.final[1]
                      IN  /\ s.account = d.account /\ ~outsideWindow(d, {s.at}) /\ s.complete
                          /\ s.reads >= 2 /\ s.positions = 0 /\ s.working = 0

(***************************************************************************)
(* buildCertificate, and the gate that reads it again.                     *)
(***************************************************************************)
WellFormed(digest) == digest # <<>>
Passes(d) ==
    /\ d.origin /\ d.account # "" /\ d.inventory /\ d.start < d.end
    /\ WellFormed(d.runtimeDigest) /\ WellFormed(d.policyDigest)
    /\ \A i \in WindowLines(d) : ~(d.journal[i].type = "OUTCOME" /\ d.journal[i].status = "rejected")
    /\ unresolvedIn(d) = {}
    /\ \A i \in creditIntents(d) : ~Unsound(d, i)
    /\ fillFrom(d, creditAcceptanceFrom(d)) # <<>>
    /\ Liquid(d, creditAcceptanceFrom(d))
    /\ fenceFrom(d) /\ finalSnapshotFrom(d)
Sealed(body) == [body |-> body, evidenceDigest |-> body]
buildCertificate(d) ==
    LET credit == creditAcceptanceFrom(d)
    IN  Sealed([verdict |-> IF Passes(d) THEN "PASS" ELSE "FAIL", accountId |-> d.account, origin |-> d.origin,
                start |-> d.start, end |-> d.end, runtimeDigest |-> d.runtimeDigest,
                policyDigest |-> d.policyDigest, inventory |-> d.inventory, creditAcceptance |-> credit,
                fill |-> fillFrom(d, credit), liquidity |-> IF credit = <<>> THEN <<>> ELSE liquidityFor(d, credit),
                fence |-> d.fence, finalSnapshot |-> d.final])

InBody(b, instants) == \A t \in instants : t \in b.start..b.end
clauseViolations(b) ==
    \/ DOMAIN b.liquidity = {} \/ b.creditAcceptance = <<>> \/ b.fill = <<>> \/ b.fence = <<>> \/ b.finalSnapshot = <<>>
    \/ ~InBody(b, {b.liquidity[c].quotedAt : c \in DOMAIN b.liquidity})
    \/ ~InBody(b, {b.creditAcceptance[1].acceptedAt, b.creditAcceptance[1].terminalAt, b.fill[1].filledAt,
                   b.finalSnapshot[1].at})
CreditReads(c) ==
    /\ c.acceptedStatus \in positiveAcceptanceStatuses /\ c.terminalStatus \in {"filled", "canceled"}
    /\ (c.terminalStatus = "canceled" => c.harness)
    /\ c.intentSeq < c.outcomeSeq /\ c.acceptedAt <= c.terminalAt /\ c.id # Nobody /\ c.brokerOrderId # 0
FillReads(f, c) ==
    f.id = c.id /\ f.brokerOrderId = c.brokerOrderId /\ f.filled >= 1 /\ f.outcomeSeq < f.reconciledSeq
FenceReads(f) ==
    f.http \in {401, 403} /\ f.haltSeq < f.unhaltSeq /\ f.working \subseteq f.canceled
FinalReads(s, b) ==
    s.positions = 0 /\ s.working = 0 /\ s.complete /\ s.reads >= 2 /\ s.account = b.accountId
LiquidityReads(q) == q.quotedAt = q.brokerQuotedAt /\ q.bidSize > 0 /\ q.askSize > 0
validateArmingCertificate(certificate, deployment) ==
    LET b == certificate.body
    IN  /\ b.verdict = "PASS" /\ b.origin /\ b.inventory /\ b.accountId # "" /\ b.start < b.end
        /\ b.runtimeDigest = runtimeDigest(deployment.tree)
        /\ b.policyDigest = policyDigest(deployment.config)
        /\ ~clauseViolations(b)
        /\ CreditReads(b.creditAcceptance[1]) /\ FillReads(b.fill[1], b.creditAcceptance[1])
        /\ FenceReads(b.fence[1]) /\ FinalReads(b.finalSnapshot[1], b)
        /\ \A c \in DOMAIN b.liquidity : LiquidityReads(b.liquidity[c])
        /\ certificate.evidenceDigest = b

\* Only a competition runtime reads the file; one it cannot read or parse arms nothing.
evaluateArmingGate(profile, file, certificate, deployment) ==
    \/ profile # "competition"
    \/ file = "document" /\ validateArmingCertificate(certificate, deployment)

Longer(d, lines) == [d EXCEPT !.journal = @ \o lines]
Shape(d, legs) == [d EXCEPT !.journal[2].legs = legs]
Deviations(d) ==
    {[d EXCEPT !.origin = FALSE], [d EXCEPT !.inventory = FALSE], [d EXCEPT !.end = 7], [d EXCEPT !.start = 4],
     [d EXCEPT !.runtimeDigest = <<>>],
     \* the structure, the gates and the quotes
     Shape(d, <<TestSpread[1]>>), Shape(d, <<Leg("C6", "sell", "call", 3, 1), Leg("P2", "buy", "put", 3, 1)>>),
     Shape(d, <<Leg("P4", "sell", "put", 3, 2), Leg("P2", "buy", "put", 3, 1)>>),
     Shape(d, <<Leg("P4", "sell", "put", 4, 1), Leg("P2", "buy", "put", 3, 1)>>),
     [d EXCEPT !.journal[2].G1 = FALSE], [d EXCEPT !.journal[2].G5 = FALSE], [d EXCEPT !.journal[2].quantity = 2],
     [d EXCEPT !.journal[1].quotes = [P4 |-> Sample(2)]],
     [d EXCEPT !.journal[1].quotes = [P4 |-> Sample(2), P2 |-> [Sample(2) EXCEPT !.bidSize = 0]], !.journal[2].G5 = FALSE],
     [d EXCEPT !.journal[1].quotes = [P4 |-> Sample(2), P2 |-> [Sample(2) EXCEPT !.quotedAt = 1]]],
     \* what the broker said of the order
     [d EXCEPT !.observations = {}],
     [d EXCEPT !.observations = @ \cup {[id |-> "A", brokerOrderId |-> 2, status |-> "filled",
                                         submitted |-> 4, asIntended |-> TRUE]}],
     [d EXCEPT !.observations = {[o EXCEPT !.asIntended = FALSE] : o \in @}],
     [d EXCEPT !.observations = {[o EXCEPT !.submitted = 6] : o \in @}],
     [d EXCEPT !.journal[3].status = "canceled", !.journal[3].filled = 0],
     [d EXCEPT !.journal[3].status = "partially_filled"], [d EXCEPT !.journal[3].filled = 2],
     [d EXCEPT !.journal[3].brokerOrderId = 2], [d EXCEPT !.journal[3].brokerAt = 0],
     [d EXCEPT !.cancels = {"A"}],
     \* the book after the fill
     [d EXCEPT !.journal[4].positions = [P4 |-> -1]],
     [d EXCEPT !.journal[4].positions = [P4 |-> -1, P2 |-> 1, C8 |-> 1]],
     [d EXCEPT !.journal[4].account = "other"],
     \* other lifecycles, and later words on this one
     Longer(d, <<IntentLine(8, "B", TestSpread)>>),
     Longer(d, <<IntentLine(8, "B", TestSpread), Outcome(9, "B", "rejected", 0)>>),
     Longer(d, <<Outcome(9, "A", "rejected", 0)>>), Longer(d, <<Outcome(9, "A", "filled", 1)>>),
     Longer(d, <<Outcome(9, "A", "canceled", 0)>>),
     Longer(d, <<SnapshotLine(9, [P4 |-> -1, P2 |-> 1], <<>>)>>),
     \* the fence and the end
     [d EXCEPT !.fence = <<>>], [d EXCEPT !.fence[1].http = 500], [d EXCEPT !.fence[1].working = {"A"}],
     [d EXCEPT !.journal[5].reason = "KILL"], [d EXCEPT !.journal[6].actor = "agent"],
     Longer(d, <<Transition(9, "HALT", "GAP", "agent")>>),
     [d EXCEPT !.final = <<>>], [d EXCEPT !.final[1].positions = 1], [d EXCEPT !.final[1].complete = FALSE],
     [d EXCEPT !.final[1].reads = 1], [d EXCEPT !.final[1].account = "other"]}

ArmingInit ==
    arming = [stage |-> "drill", drill |-> Perfect, deviations |-> 0, certificate |-> <<>>,
              deployment |-> Tested, edited |-> FALSE, armed |-> FALSE]

Deviate ==
    /\ arming.stage = "drill" /\ arming.deviations < MaxDeviations
    /\ arming.drill.fence # <<>> /\ arming.drill.final # <<>>
    /\ \E d \in Deviations(arming.drill) :
        arming' = [arming EXCEPT !.drill = d, !.deviations = @ + 1]
Certify ==
    /\ arming.stage = "drill"
    /\ arming' = [arming EXCEPT !.stage = "certified", !.certificate = buildCertificate(arming.drill)]
\* The file is damaged, or the deployment is not the one that was tested: a covered file or
\* a policy field differs.  Another account, another state directory, a document or the
\* line endings of a text file are no difference.
Drift ==
    /\ arming.stage = "certified" /\ arming.deployment = Tested /\ ~arming.edited
    /\ \/ \E body \in {[arming.certificate.body EXCEPT !.verdict = "PASS", !.inventory = ~@],
                       [arming.certificate.body EXCEPT !.end = 10],
                       [arming.certificate.body EXCEPT !.verdict = "PASS"]} :
            /\ body # arming.certificate.body
            /\ arming' = [arming EXCEPT !.certificate.body = body, !.edited = TRUE]
       \/ \E field \in DOMAIN Tested.config, value \in {NaN, 2} :
            arming' = [arming EXCEPT !.deployment.config[field] = value,
                                     !.edited = field \notin {"EXPECTED_ACCOUNT_ID", "STATE_DIR"}]
       \/ arming' = [arming EXCEPT !.deployment.config = [f \in DOMAIN @ \cup {"NEW_FIELD"} |-> 1], !.edited = TRUE]
       \/ \E kind \in DOMAIN Tested.tree :
            \/ arming' = [arming EXCEPT !.deployment.tree[kind].text = 2,
                                        !.edited = kind \notin {"document", "dependency"}]
            \/ arming' = [arming EXCEPT !.deployment.tree[kind].crlf = TRUE, !.edited = kind = "asset_image"]
Arm ==
    /\ arming.stage = "certified"
    /\ \E file \in {"document", "unreadable", "not_json"} :
        arming' = [arming EXCEPT !.stage = file,
                     !.armed = evaluateArmingGate("competition", file, arming.certificate, arming.deployment)]
ArmingNext == Deviate \/ Certify \/ Drift \/ Arm

(***************************************************************************)
(* Properties                                                              *)
(***************************************************************************)
\* What S-ARM-01 asks of the live test, said of what happened and not of a certificate.
HeldAsIntended(line, legs) ==
    \A c \in DOMAIN line.positions \cup DOMAIN expectedPositions(legs) :
        c \in DOMAIN line.positions /\ c \in DOMAIN expectedPositions(legs)
            /\ line.positions[c] = expectedPositions(legs)[c]
Defined(legs) ==
    /\ Len(legs) >= 2 /\ \A i, j \in DOMAIN legs : legs[i].expiry = legs[j].expiry
    /\ \A right \in {"put", "call"} : ratioOf(legs, "sell", {right}) = ratioOf(legs, "buy", {right})
InTest(d, t) == d.start <= t /\ t <= d.end
Follows(d, i, j) == i < j /\ d.journal[i].at <= d.journal[j].at /\ InTest(d, d.journal[i].at) /\ InTest(d, d.journal[j].at)

\* 1: the liquidity gate consumed quotes of every leg, with sizes and the broker's instants of that day.
QuotesConsumed(d, i) ==
    \E q \in DOMAIN d.journal :
        /\ Follows(d, q, i) /\ d.journal[q].snapshot /\ \A k \in q + 1 .. i - 1 : ~d.journal[k].snapshot
        /\ \A leg \in {d.journal[i].legs[k] : k \in DOMAIN d.journal[i].legs} :
              /\ leg.contractId \in DOMAIN d.journal[q].quotes
              /\ LET sample == d.journal[q].quotes[leg.contractId]
                 IN  sample.quotedAt = sample.brokerQuotedAt /\ InTest(d, sample.brokerQuotedAt)
                       /\ sample.bidSize > 0 /\ sample.askSize > 0
\* 2 and 3: one credit order of a defined risk was accepted as it was meant, and its one lot
\* was filled, booked as the last word of that order and found in the account.
AcceptedFilledAndHeld(d, i) ==
    LET js == d.journal
        seen == {o \in d.observations : o.id = js[i].id}
    IN  /\ js[i].type = "INTENT" /\ js[i].credit /\ js[i].quantity = 1 /\ js[i].G1 /\ js[i].G5 /\ Defined(js[i].legs)
        /\ seen # {} /\ \A o \in seen : o.asIntended
        /\ \E o, s \in DOMAIN js :
             /\ Follows(d, i, o) /\ Follows(d, o, s)
             /\ js[o].id = js[i].id /\ js[o].status = "filled" /\ js[o].filled = 1
             /\ \A b \in seen : b.brokerOrderId = js[o].brokerOrderId /\ b.submitted <= js[o].brokerAt
             /\ \A k \in DOMAIN js : k > o /\ js[k].type = "OUTCOME" /\ js[k].id = js[o].id
                                        => js[k].status \notin {"rejected", "canceled", "partially_filled"}
             /\ js[s].account = d.account /\ HeldAsIntended(js[s], js[i].legs)
\* 4: the broker refused the fenced credentials, what was working was canceled, and after
\* the human's un-halt nothing halted again.
FenceDrilled(d) ==
    \E h, u \in DOMAIN d.journal :
        /\ d.fence # <<>> /\ d.fence[1].http \in {401, 403} /\ d.fence[1].working \ d.fence[1].canceled = {}
        /\ Follows(d, h, u) /\ d.journal[h].reason = "AUTH_FAILURE" /\ d.journal[u].actor = "human"
        /\ \A k \in DOMAIN d.journal : k > u => d.journal[k].type # "HALT"
\* 5: a complete reading of the tested account, made twice, shows nothing left.
EndedFlat(d) ==
    d.final # <<>> /\ LET s == d.final[1]
                      IN  /\ s.account = d.account /\ InTest(d, s.at) /\ s.reads > 1 /\ s.complete
                          /\ s.positions = 0 /\ s.working = 0
Proven(d) ==
    /\ d.origin /\ d.inventory /\ d.start < d.end
    /\ \E i \in DOMAIN d.journal : QuotesConsumed(d, i) /\ AcceptedFilledAndHeld(d, i)
    /\ \A i \in DOMAIN d.journal : d.journal[i].type = "INTENT" /\ d.journal[i].at >= d.start =>
            \E o \in DOMAIN d.journal : o > i /\ d.journal[o].id = d.journal[i].id /\ d.journal[o].status # "rejected"
    /\ FenceDrilled(d) /\ EndedFlat(d)

\* The two judgments of a live test agree, and both are right.  A competition runtime arms
\* only after a drill that happened as S-ARM-01 asks, on an unaltered certificate and for
\* the code and policy that were tested; and a drill that was passed and whose deployment
\* has not changed is not refused by the second reading of its evidence.
ArmsOnlyWhenProven ==
    arming # NoDrill =>
        /\ arming.armed => Proven(arming.drill) /\ ~arming.edited
        /\ arming.stage = "document" /\ ~arming.edited /\ arming.certificate.body.verdict = "PASS" => arming.armed
        /\ arming.stage = "document" /\ ~arming.edited /\ arming.deviations = 0 => arming.armed
=============================================================================
