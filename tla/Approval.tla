------------------------------ MODULE Approval ------------------------------
(***************************************************************************)
(* The approval ledger (approval_ledger.py, approval_guard.py): proposals  *)
(* for one decision of one issue, the review batches that freeze them, the *)
(* owner's decision under a user event, its publication as a comment, the  *)
(* deliveries the recipients claim and acknowledge, revocation, and the    *)
(* guard in front of every approved execution.  GitHub may be edited at    *)
(* any time, and claim_decision fetches outside of its transaction.        *)
(***************************************************************************)
EXTENDS Integers, FiniteSets

CONSTANTS
    Proposals,      \* proposals, numbered as they are first submitted
    Legacy,         \* those written under the first semantic contract
    Recipients,     \* role identities that may take interest
    Planner,        \* the recipient of readiness submissions
    Clearer,        \* the recipient that clears hosted operations
    Decided,        \* the machine outcomes of the options offered
    UserEvents,     \* events of the user interface, numbered as they come
    MaxPublished,   \* bound: decisions published on the issue
    MaxEdits        \* bound: edits and foreign comments on the issue

ASSUME ApprovalAssumption ==
    /\ Proposals \subseteq Nat \ {0} /\ Legacy \subseteq Proposals /\ Planner \in Recipients /\ Clearer \in Recipients
    /\ UserEvents \subseteq Nat /\ MaxEdits \in Nat /\ MaxPublished \in Nat
    /\ Decided \subseteq {"APPROVE", "REJECT", "DEFER", "COURSE_CORRECT"}

VARIABLES
    gh,         \* the issue on GitHub: content, and metadata that comments change
    src,        \* github_current: the last ingested snapshot
    edits,      \* edits and comments by others
    contract,   \* approval_semantic_contract_current: 1 or 2
    current,    \* approval_current
    prop,       \* approval_proposals, _interests, planner notice
    batches,    \* approval_review_batches
    events,     \* approval_user_events
    dec,        \* approval_decisions, their outbox rows, effectivity and revocation
    deliv,      \* approval_deliveries
    parked,     \* the readiness campaign that waits: its proposal
    wakes,      \* approval_delivery_notices: decision, source, message still open
    claim       \* a claim_decision between its transactions

approvalVars == <<gh, src, edits, contract, current, prop, batches, events, dec, deliv,
                  parked, wakes, claim>>

Nobody == "nobody"
NoProposal == 0
Open == {"WAITING_PUBLICATION", "CLAIMED"}
NoClaim == [on |-> FALSE, p |-> NoProposal, r |-> Nobody, seen |-> 0]
NoDecision == [made |-> Nobody, to |-> {}, outbox |-> Nobody, eff |-> {}, revoked |-> FALSE]

ApprovalInit ==
    /\ gh = [c |-> 0, m |-> 0] /\ src = gh /\ edits = 0 /\ contract = 1 /\ current = NoProposal
    /\ prop = [p \in Proposals |-> [known |-> FALSE, base |-> gh, interest |-> {},
                                    notice |-> Nobody]]
    /\ batches = {} /\ events = [e \in UserEvents |-> << >>]
    /\ dec = [p \in Proposals |-> NoDecision]
    /\ deliv = [p \in Proposals |-> [r \in Recipients |-> Nobody]]
    /\ parked = NoProposal /\ wakes = {} /\ claim = NoClaim

-----------------------------------------------------------------------------
(* Guards shared by the operations.                                         *)

\* _source_is_current: the very snapshot the packet names.
SourceIsCurrent(p) == src = prop[p].base

\* Mutant: the second contract quarantines nothing.
NoQuarantine(p) == FALSE

\* _legacy_authority_quarantined
Quarantined(p) == contract = 2 /\ p \in Legacy

\* The deliveries that are neither acknowledged nor held.
OpenDeliveries(p) == {r \in Recipients : deliv[p][r] \in Open}

Published(p) == dec[p].outbox = "COMPLETE"

-----------------------------------------------------------------------------
(* submit_proposal                                                          *)

\* _retire_planner_notice
Retired(notice) == IF notice = "PREPARED" THEN "HOLD" ELSE notice

\* submit_proposal: the same proposal again brings another recipient, until a
\* decision freezes the set.
JoinProposal(p, r) ==
    /\ current = p /\ SourceIsCurrent(p) /\ ~Quarantined(p) /\ r \notin prop[p].interest
    /\ dec[p].made = Nobody
    /\ prop' = [prop EXCEPT ![p].interest = @ \cup {r}]
    /\ parked' = IF r = Planner THEN p ELSE parked
    /\ UNCHANGED <<gh, src, edits, contract, current, batches, events, dec, deliv, wakes, claim>>

\* The proposal takes the place of the current one, whose notice is retired.
MakeCurrent(p, r) ==
    /\ prop' = [q \in Proposals |->
                   IF q = p THEN [known |-> TRUE, base |-> src, interest |-> {r},
                                  notice |-> "PREPARED"]
                   ELSE IF q = current THEN [prop[q] EXCEPT !.notice = Retired(@)]
                   ELSE prop[q]]
    /\ current' = p
    /\ parked' = IF r = Planner THEN p ELSE parked
    /\ UNCHANGED <<gh, src, edits, contract, batches, events, dec, deliv, wakes, claim>>

\* Mutant: a decision that is still being delivered may be superseded.
SupersedeInFlight(p, r) ==
    /\ ~prop[p].known /\ ~Quarantined(p)
    /\ MakeCurrent(p, r)

\* submit_proposal: a proposal never seen becomes the current one, unless the
\* decision it would supersede is in flight.
SubmitProposal(p, r) ==
    /\ ~prop[p].known /\ ~Quarantined(p)
    /\ current # NoProposal => OpenDeliveries(current) = {}
    /\ MakeCurrent(p, r)

-----------------------------------------------------------------------------
(* Review batches and decisions.                                            *)

\* _pending_rows: undecided, current, on an undrifted source.
PendingReview(p) ==
    current = p /\ dec[p].made = Nobody /\ SourceIsCurrent(p) /\ ~Quarantined(p)

\* _proposal_batch_binding: what a batch freezes.
BatchOf(p) == [p |-> p, to |-> prop[p].interest]

\* create_review_batch
CreateReviewBatch(p) ==
    /\ PendingReview(p) /\ BatchOf(p) \notin batches
    /\ batches' = batches \cup {BatchOf(p)}
    /\ UNCHANGED <<gh, src, edits, contract, current, prop, events, dec, deliv, parked, wakes,
                   claim>>

\* Mutant: the recipients are not compared with the batch.
BatchAccepted(b) == b \in batches

\* _load_review_batch: still what the proposal's binding is now.
BatchIsCurrent(b) == b \in batches /\ b = BatchOf(b.p)

\* Mutant: an event may answer several batches.
EventUsable(e, b, d) == TRUE

\* An event answers one batch with one answer map.
EventFits(e, b, d) == events[e] \in {<< >>, <<b, d>>}

\* Mutant: a deferral gets a state of its own.
NamedDeferral(r, d) == IF d = "DEFER" /\ r # Planner THEN "DEFERRED" ELSE "WAITING_PUBLICATION"

\* Only the readiness recipient consumes a deferral.
FirstDelivery(r, d) == IF d = "DEFER" /\ r # Planner THEN "HOLD" ELSE "WAITING_PUBLICATION"

\* record_decision
RecordDecision(b, e, d) ==
    /\ current = b.p /\ dec[b.p].made = Nobody /\ ~Quarantined(b.p) /\ SourceIsCurrent(b.p)
    /\ BatchIsCurrent(b) /\ EventFits(e, b, d)
    /\ events' = [events EXCEPT ![e] = <<b, d>>]
    /\ dec' = [dec EXCEPT ![b.p] = [NoDecision EXCEPT !.made = d, !.to = b.to,
                                                      !.outbox = "PREPARED"]]
    /\ deliv' = [deliv EXCEPT ![b.p] =
                    [r \in Recipients |-> IF r \in b.to THEN FirstDelivery(r, d) ELSE Nobody]]
    /\ prop' = [prop EXCEPT ![b.p].notice = Retired(@)]
    /\ UNCHANGED <<gh, src, edits, contract, current, batches, parked, wakes, claim>>

\* The outbox publishes the decision on the source it is bound to, or holds.
PublishDecision(p) ==
    /\ dec[p].outbox = "PREPARED" /\ Cardinality({q \in Proposals : Published(q)}) < MaxPublished
    /\ IF gh = prop[p].base
       THEN /\ gh' = [gh EXCEPT !.m = @ + 1]
            /\ dec' = [dec EXCEPT ![p].outbox = "COMPLETE"]
       ELSE /\ dec' = [dec EXCEPT ![p].outbox = "HOLD"] /\ UNCHANGED gh
    /\ UNCHANGED <<src, edits, contract, current, prop, batches, events, deliv, parked, wakes,
                   claim>>

\* Mutant: a claimed delivery stays with its recipient.
HeldWaiting(p) ==
    [deliv EXCEPT ![p] = [r \in Recipients |-> IF @[r] = "WAITING_PUBLICATION" THEN "HOLD"
                                               ELSE @[r]]]

HeldDeliveries(p) ==
    [deliv EXCEPT ![p] = [r \in Recipients |-> IF @[r] \in Open THEN "HOLD" ELSE @[r]]]

\* revoke_decision: any decision of the current proposal.
RevokeDecision(p, e) ==
    /\ current = p /\ dec[p].made # Nobody /\ ~dec[p].revoked
    /\ events[e] \in {<< >>, <<"revocation">>}
    /\ events' = [events EXCEPT ![e] = <<"revocation">>]
    /\ dec' = [dec EXCEPT ![p].revoked = TRUE]
    /\ deliv' = HeldDeliveries(p)
    /\ UNCHANGED <<gh, src, edits, contract, current, prop, batches, parked, wakes, claim>>

-----------------------------------------------------------------------------
(* Deliveries.                                                              *)

\* The wakes of a decision are superseded or complete.
Closed(p) == {IF w.p = p THEN [w EXCEPT !.open = FALSE] ELSE w : w \in wakes}

\* Mutant: one wake per decision.
EnqueueOnce(p) ==
    /\ parked = p /\ Published(p) /\ deliv[p][Planner] = "WAITING_PUBLICATION"
    /\ ~Quarantined(p) /\ \A w \in wakes : w.p # p
    /\ wakes' = wakes \cup {[p |-> p, source |-> src, open |-> TRUE]}
    /\ UNCHANGED <<gh, src, edits, contract, current, prop, batches, events, dec, deliv, parked,
                   claim>>

\* enqueue_published_readiness_decision_notices: one wake per observed source,
\* older ones are held; a revoked decision wakes the planner too.
EnqueueNotice(p) ==
    /\ parked = p /\ Published(p) /\ (~Quarantined(p) \/ dec[p].revoked)
    /\ \/ deliv[p][Planner] = "WAITING_PUBLICATION"
       \/ deliv[p][Planner] = "HOLD" /\ dec[p].revoked
    /\ \A w \in wakes : w.p = p => w.source # src
    /\ wakes' = Closed(p) \cup {[p |-> p, source |-> src, open |-> TRUE]}
    /\ UNCHANGED <<gh, src, edits, contract, current, prop, batches, events, dec, deliv, parked,
                   claim>>

\* The first claim fixes the effective source, later ones must agree with it.
Effectivity(p, content) == dec[p].eff \subseteq {content}

Claimed(p, r, state) ==
    /\ deliv' = [deliv EXCEPT ![p][r] = state]
    /\ dec' = [dec EXCEPT ![p].eff = {src'.c}]

\* Mutant: a claim may rest on a decision that was revoked meanwhile.
ClaimableThough(p, r) == current = p /\ Published(p) /\ deliv[p][r] \in Open \cup {"HOLD"}

\* What both claims ask of the rows.
Claimable(p, r) ==
    current = p /\ ~dec[p].revoked /\ Published(p) /\ deliv[p][r] \in Open

\* claim_decision_in_transaction: the batch of the decision and the content, on
\* GitHub, in the cache and as decided.
ClaimableInTransaction(p, r) ==
    /\ Claimable(p, r) /\ ~Quarantined(p) /\ BatchIsCurrent([p |-> p, to |-> dec[p].to])
    /\ gh.c = src.c /\ gh.c = prop[p].base.c /\ Effectivity(p, gh.c)

\* claim_decision_in_transaction followed by acknowledge_decision_in_transaction:
\* hosted_operation_clearance takes delivery and operation in one transaction.
ClearHosted(p) ==
    /\ ClaimableInTransaction(p, Clearer)
    /\ src' = gh
    /\ Claimed(p, Clearer, "ACKNOWLEDGED")
    /\ UNCHANGED <<gh, edits, contract, current, prop, batches, events, parked, wakes, claim>>

WakeFor(p) == {w \in wakes : w.p = p /\ w.open}

Consume(p) ==
    /\ parked' = NoProposal
    /\ wakes' = Closed(p)

\* apply_readiness_decision on the ledger's side: material drift and revocation
\* hold the planner's delivery.
DisposeLost(p) ==
    /\ parked = p /\ WakeFor(p) # {} /\ (gh.c # prop[p].base.c \/ dec[p].revoked)
    /\ deliv' = [deliv EXCEPT ![p][Planner] = IF @ \in Open THEN "HOLD" ELSE @]
    /\ Consume(p)
    /\ UNCHANGED <<gh, src, edits, contract, current, prop, batches, events, dec, claim>>

\* apply_readiness_decision: claimed and acknowledged in its transaction, without
\* moving the planning source.
Dispose(p) ==
    /\ parked = p /\ \E w \in WakeFor(p) : w.source = src
    /\ ClaimableInTransaction(p, Planner)
    /\ Consume(p) /\ UNCHANGED src
    /\ Claimed(p, Planner, "ACKNOWLEDGED")
    /\ UNCHANGED <<gh, edits, contract, current, prop, batches, events, claim>>

\* claim_decision: its preflight, the fetch and the ingestion, which nothing that
\* matters can separate; an edit may follow at once.
StartClaim(p, r) ==
    /\ ~claim.on /\ deliv[p][r] \in Open \cup {"ACKNOWLEDGED"} /\ Published(p)
    /\ ~Quarantined(p)
    /\ src' = gh
    /\ claim' = [on |-> TRUE, p |-> p, r |-> r, seen |-> gh.c]
    /\ UNCHANGED <<gh, edits, contract, current, prop, batches, events, dec, deliv, parked, wakes>>

\* Mutant: the fetched content is not compared with the decided one.
FinishUnchecked ==
    /\ claim.on /\ claim' = NoClaim
    /\ IF Claimable(claim.p, claim.r) /\ deliv[claim.p][claim.r] = "WAITING_PUBLICATION"
       THEN /\ deliv' = [deliv EXCEPT ![claim.p][claim.r] = "CLAIMED"]
            /\ dec' = [dec EXCEPT ![claim.p].eff = {claim.seen}]
       ELSE UNCHANGED <<deliv, dec>>
    /\ UNCHANGED <<gh, src, edits, contract, current, prop, batches, events, parked, wakes>>

\* The claiming transaction, on the payload that was fetched: it raises, holds
\* every open delivery for drift, or claims.
FinishClaim ==
    /\ claim.on /\ claim' = NoClaim
    /\ LET p == claim.p
           r == claim.r
       IN  IF ~Claimable(p, r) THEN UNCHANGED <<deliv, dec>>
           ELSE IF claim.seen # prop[p].base.c THEN deliv' = HeldDeliveries(p) /\ UNCHANGED dec
           ELSE IF deliv[p][r] = "WAITING_PUBLICATION" /\ Effectivity(p, claim.seen)
           THEN /\ deliv' = [deliv EXCEPT ![p][r] = "CLAIMED"]
                /\ dec' = [dec EXCEPT ![p].eff = {claim.seen}]
           ELSE UNCHANGED <<deliv, dec>>
    /\ UNCHANGED <<gh, src, edits, contract, current, prop, batches, events, parked, wakes>>

ClaimerDies ==
    /\ claim.on /\ claim' = NoClaim
    /\ UNCHANGED <<gh, src, edits, contract, current, prop, batches, events, dec, deliv, parked,
                   wakes>>

\* acknowledge_decision_in_transaction
AcknowledgeDecision(p, r) ==
    /\ deliv[p][r] = "CLAIMED" /\ ~Quarantined(p)
    /\ deliv' = [deliv EXCEPT ![p][r] = "ACKNOWLEDGED"]
    /\ UNCHANGED <<gh, src, edits, contract, current, prop, batches, events, dec, parked, wakes,
                   claim>>

\* _activate_semantic_contract_v2_in_transaction: only from the first contract.
PointerAsExpected == contract = 1

\* apply_semantic_contract_v2_activation: once, forwards, on the expected pointer.
ActivateContract ==
    /\ PointerAsExpected /\ contract' = 2
    /\ UNCHANGED <<gh, src, edits, current, prop, batches, events, dec, deliv, parked, wakes,
                   claim>>

-----------------------------------------------------------------------------
(* approval_guard.                                                          *)

\* _require_frozen_batch_decision
FrozenDecision(p) ==
    /\ [p |-> p, to |-> dec[p].to] \in batches
    /\ \E e \in UserEvents : events[e] = <<[p |-> p, to |-> dec[p].to], dec[p].made>>

\* Mutant: the guard trusts the claim for the source.
GuardTrustsClaim(p, r) ==
    /\ current = p /\ r \in prop[p].interest /\ ~dec[p].revoked /\ ~Quarantined(p)
    /\ FrozenDecision(p) /\ dec[p].made = "APPROVE"
    /\ deliv[p][r] \in {"CLAIMED", "ACKNOWLEDGED"} /\ Published(p)

\* require_effective_approval
RequireEffectiveApproval(p, r) ==
    /\ current = p /\ r \in prop[p].interest /\ ~dec[p].revoked /\ ~Quarantined(p)
    /\ FrozenDecision(p) /\ dec[p].made = "APPROVE"
    /\ deliv[p][r] \in {"CLAIMED", "ACKNOWLEDGED"} /\ Published(p) /\ dec[p].eff = {src.c}

-----------------------------------------------------------------------------

Edit(g) ==
    /\ edits < MaxEdits /\ current # NoProposal /\ edits' = edits + 1 /\ gh' = g
    /\ UNCHANGED <<src, contract, current, prop, batches, events, dec, deliv, parked, wakes, claim>>

\* The owner changes the issue, and may change it back; somebody comments.  What
\* happened before the first proposal makes no difference.
EditIssue == Edit([c |-> 1 - gh.c, m |-> gh.m + 1])
Comment == Edit([gh EXCEPT !.m = @ + 1])

\* sync_github_coordination
Sync ==
    /\ src # gh /\ src' = gh
    /\ UNCHANGED <<gh, edits, contract, current, prop, batches, events, dec, deliv, parked, wakes,
                   claim>>

\* The events known so far, and the next one.
Offered == {e \in UserEvents : \A f \in UserEvents : f < e => events[f] # << >>}

\* The proposals submitted so far, and the next one.
Submittable == {p \in Proposals : \A q \in Proposals : q < p => prop[q].known}

LedgerNext ==
    \/ \E p \in Submittable, r \in Recipients : SubmitProposal(p, r) \/ JoinProposal(p, r)
    \/ \E p \in Proposals : CreateReviewBatch(p) \/ PublishDecision(p)
    \/ \E b \in batches, e \in Offered, d \in Decided : RecordDecision(b, e, d)
    \/ \E p \in Proposals, e \in Offered : RevokeDecision(p, e)
    \/ current \in Legacy /\ ActivateContract

DeliveryNext ==
    \/ \E p \in Proposals : EnqueueNotice(p) \/ DisposeLost(p) \/ Dispose(p) \/ ClearHosted(p)
    \/ \E p \in Proposals, r \in Recipients : StartClaim(p, r) \/ AcknowledgeDecision(p, r)
    \/ FinishClaim \/ ClaimerDies

ApprovalNext == LedgerNext \/ DeliveryNext \/ EditIssue \/ Comment \/ Sync

ApprovalSpec ==
    /\ ApprovalInit /\ [][ApprovalNext]_approvalVars
    /\ WF_approvalVars(\E p \in Proposals : EnqueueNotice(p)) /\ WF_approvalVars(Sync)

-----------------------------------------------------------------------------

DeliveryStates == {Nobody, "WAITING_PUBLICATION", "CLAIMED", "ACKNOWLEDGED", "HOLD"}

ApprovalTypeOK ==
    /\ current \in Proposals \cup {NoProposal} /\ parked \in Proposals \cup {NoProposal}
    /\ contract \in {1, 2} /\ edits \in 0..MaxEdits
    /\ deliv \in [Proposals -> [Recipients -> DeliveryStates]]
    /\ \A p \in Proposals : /\ prop[p].interest \subseteq Recipients
                            /\ dec[p].made \in Decided \cup {Nobody}
                            /\ dec[p].outbox \in {Nobody, "PREPARED", "COMPLETE", "HOLD"}
                            /\ Cardinality(dec[p].eff) <= 1

\* A decision is delivered to exactly the recipients the reviewed batch showed,
\* however submissions of the same proposal interleave with review and decision.
RecipientsFrozen ==
    \A p \in Proposals : dec[p].made # Nobody =>
        /\ {r \in Recipients : deliv[p][r] # Nobody} = dec[p].to
        /\ prop[p].interest = dec[p].to

\* A superseded proposal has nothing left to claim or acknowledge, and neither
\* has a revoked one.
ClosedIsClosed ==
    \A p \in Proposals : (prop[p].known /\ (current # p \/ dec[p].revoked)) =>
        OpenDeliveries(p) = {}

\* Every decision answers the batch its user event was given for, so one event
\* never decides two batches and never decides and revokes.
EventDecidesOnce ==
    \A p \in Proposals : dec[p].made # Nobody => FrozenDecision(p)

\* The effective source of a decision is the one it was decided on, for every
\* recipient, and exists only for a published decision.
EffectiveAsDecided ==
    \A p \in Proposals : dec[p].eff # {} => dec[p].eff = {prop[p].base.c} /\ Published(p)

\* What the guard lets pass was approved on the content that is cached now, is
\* published, stands, and is no legacy authority under the second contract, also
\* when the claim straddled the edit, the revocation or the activation.
GuardedIsApproved ==
    \A p \in Proposals, r \in Recipients : RequireEffectiveApproval(p, r) =>
        /\ r \in dec[p].to /\ ~dec[p].revoked /\ src.c = prop[p].base.c
        /\ contract = 2 => p \notin Legacy

\* A delivery never opens again.
DeliveryIsMonotonic ==
    [][(\A p \in Proposals, r \in Recipients :
        /\ deliv[p][r] \in {"ACKNOWLEDGED", "HOLD"} => deliv'[p][r] = deliv[p][r]
        /\ deliv[p][r] = "CLAIMED" => deliv'[p][r] # "WAITING_PUBLICATION")]_approvalVars

\* A published decision the readiness campaign waits for wakes the planner on the
\* source that is current, unless the campaign or the delivery ends first.
PlannerWoken ==
    \A p \in Proposals :
        (parked = p /\ Published(p) /\ deliv[p][Planner] = "WAITING_PUBLICATION" /\ ~Quarantined(p))
            ~> \/ parked # p \/ deliv[p][Planner] # "WAITING_PUBLICATION" \/ Quarantined(p)
               \/ \E w \in wakes : w.p = p /\ w.source = src

\* A decision in the ledger stands for what its owner saw and decided: for those
\* recipients, on that source, by one event, and for nobody once it is superseded,
\* revoked or outdated.
DecisionsStand ==
    /\ ApprovalTypeOK
    /\ RecipientsFrozen /\ ClosedIsClosed /\ EventDecidesOnce
    /\ EffectiveAsDecided /\ GuardedIsApproved

\* Deliveries move on and never back.
DeliveriesMoveOn == DeliveryIsMonotonic /\ PlannerWoken
=============================================================================
