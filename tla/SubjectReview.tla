---------------------------- MODULE SubjectReview ----------------------------
(***************************************************************************)
(* The page on which a subject accepts, rejects or removes a credential,   *)
(* up to the relay of the signed transaction.                              *)
(*                                                                         *)
(* The page reads a world it does not control: the credential at the tuple *)
(* (issuer, account, schema) for each account of the wallet, the trust the *)
(* API reports for the issuer, and the active network profile. Each        *)
(* request sees the world at an instant of its own. (The profiles are of   *)
(* one network, so a tuple does not depend on them.) Controls are disabled *)
(* while a flow runs, so what interleaves with a flow is the world, the    *)
(* wallet (accounts, sessions) and a navigation to another link. The       *)
(* watchers that invalidate the preview run after the change they watch:   *)
(* a continuation of the flow may run in between.                          *)
(*                                                                         *)
(* A URI stands for the bytes its digest fixes, so it decides whether they *)
(* carry valid claims. since is history: the worlds since the signature.   *)
(***************************************************************************)
EXTENDS Integers, FiniteSets

CONSTANTS
    Accounts,       \* accounts the wallet may show
    Profiles,       \* network profiles
    Uris,           \* payload URIs
    ValidUris,      \* the URIs whose bytes are a payload valid for the schema
    Actions,        \* the actions the subject may choose
    MaxGen,         \* bound on credential generations
    MaxChanges,     \* bound on changes of the world
    MaxEvents       \* bound on events of the wallet and the router

NoUri == "no uri"
NoGen == 0
Gens == 1 .. MaxGen
Trusts == {"trusted", "unknown", "untrusted"}
None == [gen |-> NoGen]

Credentials == [gen : Gens, uri : Uris \cup {NoUri}, accepted : BOOLEAN,
                state : {"pending", "active", "expired", "deleted"}]

VARIABLES
    cred,      \* the credential at the tuple of each account
    trust,     \* the issuer's trust
    profile,   \* the active network profile
    budget,    \* how often world and environment have changed
    form,      \* wallet account, action, generation of the link
    dirty,     \* a watcher is queued
    review,    \* review, with reviewProfileId
    consent,   \* payloadConsentToken
    ack,       \* issuerTrustAcknowledgementToken
    tx,        \* transaction, with its prepared profile and wallet session
    flow,      \* the function that runs: buildPreview or submit
    journal,   \* signed operations that were not relayed
    relayed,   \* the last transaction relayed
    grants,    \* the consents the subject has given
    contact    \* the last payload host contacted

world == <<cred, trust, profile>>
page == <<review, consent, ack, tx>>
ghosts == <<grants, contact>>
vars == <<cred, trust, profile, budget, form, dirty, review, consent, ack, tx, flow,
          journal, relayed, grants, contact>>

-----------------------------------------------------------------------------
(* credentialReview.ts                                                     *)

Token(r) == [gen |-> r.gen, uri |-> r.uri]
Acknowledgement(r, p, a) == [profile |-> p, account |-> a, gen |-> r.gen]

\* assertPayloadFetchConsentCurrent
ConsentCurrent(r, token) == r.uri # NoUri /\ token = Token(r)

\* credentialIssuerTrustBlockReason, undefined or not
TrustAllows(r, token, p, a) ==
    \/ r.trust = "trusted" /\ token = None
    \/ r.trust = "unknown" /\ token = Acknowledgement(r, p, a)

\* What the tuple must be for the action, whatever is known of the issuer.
StateAllows(r, action) ==
    CASE action = "accept" -> ~r.accepted /\ r.state = "pending"
      [] action = "reject" -> ~r.accepted /\ r.state \in {"pending", "expired"}
      [] action = "remove" -> r.accepted /\ r.state \in {"active", "expired"}

\* credentialActionBlockReason, undefined or not
ActionAllowed(r, action, token, p, a) ==
    /\ StateAllows(r, action)
    /\ action = "accept" => r.claims /\ TrustAllows(r, token, p, a)

\* assertCredentialAcceptanceReviewCurrent and assertCredentialSubjectMutationReviewCurrent
ReviewCurrent(expected, current, action, expectedProfile, currentProfile, token, a) ==
    /\ currentProfile = expectedProfile
    /\ current.gen = expected.gen
    /\ current.state = expected.state /\ current.accepted = expected.accepted
    /\ StateAllows(current, action)
    /\ action = "accept" => /\ current.trust = expected.trust
                            /\ TrustAllows(current, token, currentProfile, a)

-----------------------------------------------------------------------------
Idle == [pc |-> "idle"]
Busy == flow # Idle
Free == ~Busy /\ ~dirty

SnapshotOf(c, t) == [gen |-> c.gen, state |-> c.state, accepted |-> c.accepted, trust |-> t]
Snapshot(a) == SnapshotOf(cred[a], trust)

\* The worlds a running flow has seen since its signature, after this step.
Aged(f) == IF f # Idle /\ f.stage = "post"
           THEN [f EXCEPT !.since = @ \cup {SnapshotOf(cred'[f.account], trust')}] ELSE f

Init ==
    /\ cred \in [Accounts -> {c \in Credentials :
                                 <<c.accepted, c.state>> \in {<<FALSE, "pending">>, <<TRUE, "active">>}}]
    /\ \E number \in [Accounts -> 1 .. Cardinality(Accounts)] :
          /\ \A a, b \in Accounts : a # b => number[a] # number[b]
          /\ \A a \in Accounts : cred[a].gen = number[a]
    /\ trust \in Trusts
    /\ profile \in Profiles
    /\ budget = [changes |-> MaxChanges, events |-> MaxEvents, gen |-> Cardinality(Accounts)]
    /\ form \in [account : Accounts, action : Actions, link : {NoGen}]
    /\ dirty = FALSE
    /\ review = None /\ consent = None /\ ack = None /\ tx = None
    /\ flow = Idle
    /\ journal = {} /\ relayed = None
    /\ grants = {} /\ contact = None

-----------------------------------------------------------------------------
(* The world.                                                              *)

Changing == budget.changes > 0 /\ budget' = [budget EXCEPT !.changes = @ - 1]

\* The issuer deletes the credential and issues another one.
Reissue(a) ==
    /\ budget.changes > 0 /\ budget.gen < MaxGen
    /\ budget' = [budget EXCEPT !.changes = @ - 1, !.gen = @ + 1]
    /\ \E u \in Uris : cred' = [cred EXCEPT ![a] = [gen |-> budget.gen + 1, uri |-> u,
                                                    accepted |-> FALSE, state |-> "pending"]]
    /\ UNCHANGED <<trust, profile>>

\* It is accepted, expires or is deleted.
Evolve(a) ==
    /\ Changing
    /\ cred[a].state # "deleted"
    /\ \E s \in {"active", "expired", "deleted"} \ {cred[a].state} :
          cred' = [cred EXCEPT ![a].state = s, ![a].accepted = @ \/ s = "active"]
    /\ UNCHANGED <<trust, profile>>

Retrust == Changing /\ trust' \in Trusts \ {trust} /\ UNCHANGED <<cred, profile>>
Reprofile == Changing /\ profile' \in Profiles \ {profile} /\ UNCHANGED <<cred, trust>>

World ==
    /\ \/ \E a \in Accounts : Reissue(a) \/ Evolve(a)
       \/ Retrust
       \/ Reprofile
    /\ flow' = Aged(flow)
    /\ UNCHANGED <<form, dirty, page, journal, relayed, ghosts>>

-----------------------------------------------------------------------------
(* The form and the page.                                                  *)

\* invalidatePreview, run by a watcher
InvalidatePreview ==
    /\ dirty
    /\ dirty' = FALSE
    /\ review' = None /\ consent' = None /\ ack' = None /\ tx' = None
    /\ flow' = IF Busy THEN [flow EXCEPT !.fresh = FALSE] ELSE Idle
    /\ UNCHANGED <<world, budget, form, journal, relayed, ghosts>>

Event == budget.events > 0 /\ budget' = [budget EXCEPT !.events = @ - 1]

\* replaceAccount: a new session of the wallet, with the same account or another.
ReplaceAccount(a) ==
    /\ Event
    /\ form' = [form EXCEPT !.account = a]
    /\ dirty' = (dirty \/ a # form.account)
    /\ tx' = IF tx = None THEN tx ELSE [tx EXCEPT !.session = FALSE]
    /\ UNCHANGED <<world, review, consent, ack, flow, journal, relayed, ghosts>>

\* The router follows a link of this page: action and generation come from it.
Navigate(action, link) ==
    /\ Event
    /\ <<action, link>> # <<form.action, form.link>>
    /\ form' = [form EXCEPT !.action = action, !.link = link]
    /\ dirty' = TRUE
    /\ UNCHANGED <<world, page, flow, journal, relayed, ghosts>>

AcceptanceReview == review # None /\ review.trust # "none"

\* setPayloadConsent
SetPayloadConsent(granted) ==
    /\ Free /\ form.action = "accept" /\ AcceptanceReview
    /\ \/ granted /\ review.uri # NoUri /\ consent = None
          /\ consent' = Token(review) /\ grants' = grants \cup {Token(review)}
          /\ UNCHANGED tx
       \/ ~granted /\ consent # None
          /\ consent' = None /\ tx' = None /\ UNCHANGED grants
    /\ UNCHANGED <<world, budget, form, dirty, review, ack, flow, journal, relayed, contact>>

\* setIssuerTrustAcknowledgement
SetIssuerTrustAcknowledgement(granted) ==
    /\ Free /\ form.action = "accept" /\ AcceptanceReview
    /\ \/ granted /\ review.trust = "unknown" /\ ack = None
          /\ ack' = Acknowledgement(review, review.profile, form.account)
          /\ UNCHANGED tx
       \/ ~granted /\ ack # None /\ ack' = None /\ tx' = None
    /\ UNCHANGED <<world, budget, form, dirty, review, consent, flow, journal, relayed, ghosts>>

-----------------------------------------------------------------------------
(* The flows. A flow begins in its preview or submit stage; after the      *)
(* signature it goes on in stage "post".                                   *)

\* assertCurrent of submit: the same transaction, whatever has become of the wallet's
\* session; signAndSubmit looks at that, and no longer after the signature.
Current == /\ flow.fresh /\ consent = flow.consent /\ ack = flow.ack /\ form = flow.form
           /\ tx # None /\ [tx EXCEPT !.session = flow.tx.session] = flow.tx

\* What a flow that throws leaves of the page. buildPreview has dropped its
\* transaction before; submit keeps the one on display unless it is cleared.
Throw(cleared) ==
    /\ flow' = Idle
    /\ review' = IF "review" \in cleared THEN None ELSE review
    /\ consent' = IF "consent" \in cleared THEN None ELSE consent
    /\ ack' = IF "ack" \in cleared THEN None ELSE ack
    /\ tx' = IF "tx" \in cleared THEN None ELSE tx

Keep == {}
ClearStalePayloadConsent == {"review", "consent", "ack", "tx"}
ClearInvalidIssuerTrustAcknowledgement == {"ack", "tx"}

\* A request fails (the network, a stale indexer, a link that does not fit), or the
\* subject declines to sign.
RequestFails ==
    /\ Throw(Keep)
    /\ UNCHANGED <<world, budget, form, dirty, journal, relayed, ghosts>>

\* buildPreview, up to the active profile; tx is dropped first.
BuildPreview ==
    /\ Free
    /\ tx' = None
    /\ flow' = [pc |-> "reads", stage |-> "preview", fresh |-> TRUE, form |-> form,
                account |-> form.account, action |-> form.action,
                consent |-> IF form.action = "accept" THEN consent ELSE None,
                ack |-> IF form.action = "accept" THEN ack ELSE None,
                tx |-> None, expected |-> None, profile |-> profile, latest |-> profile,
                cred |-> None, report |-> None, loaded |-> None, since |-> {}]
    /\ UNCHANGED <<world, budget, form, dirty, review, consent, ack, journal, relayed, ghosts>>

\* submit, up to the active profile
Submit ==
    /\ Free /\ tx # None /\ review # None
    /\ flow' = [pc |-> "reads", stage |-> "submit", fresh |-> TRUE, form |-> form,
                account |-> form.account, action |-> form.action,
                consent |-> consent, ack |-> ack,
                tx |-> tx, expected |-> review, profile |-> profile, latest |-> profile,
                cred |-> None, report |-> None, loaded |-> None, since |-> {}]
    /\ UNCHANGED <<world, budget, form, dirty, page, journal, relayed, ghosts>>

\* revalidateSubjectActionAfterSignature, up to the active profile
ReadProfile ==
    /\ flow.pc = "profile"
    /\ IF Current THEN flow' = [flow EXCEPT !.pc = "reads", !.latest = profile] /\ UNCHANGED page
       ELSE Throw(Keep)
    /\ UNCHANGED <<world, budget, form, dirty, journal, relayed, ghosts>>

\* getCredential
GetCredential ==
    /\ flow.pc = "reads" /\ flow.cred = None
    /\ flow' = [flow EXCEPT !.cred = cred[flow.account],
                            !.pc = IF flow.action # "accept" THEN "load" ELSE @]
    /\ UNCHANGED <<world, budget, form, dirty, page, journal, relayed, ghosts>>

Report == [gen |-> cred[flow.account].gen, state |-> cred[flow.account].state, trust |-> trust]

\* verify, without the payload; the two requests run side by side.
Verify ==
    /\ flow.pc = "reads" /\ flow.action = "accept" /\ flow.report = None
    /\ flow' = [flow EXCEPT !.report = Report]
    /\ UNCHANGED <<world, budget, form, dirty, page, journal, relayed, ghosts>>

Loaded(c, report, claims) ==
    [gen |-> c.gen, uri |-> c.uri, accepted |-> c.accepted, state |-> c.state,
     trust |-> report.trust, claims |-> claims, profile |-> flow.latest]

LoadedMutation(c) ==
    [gen |-> c.gen, uri |-> c.uri, accepted |-> c.accepted, state |-> c.state,
     trust |-> "none", claims |-> FALSE, profile |-> flow.latest]

\* loadCredentialReview: credential and report speak of one generation and state
Agree(c, report) == c.state = report.state /\ c.gen = report.gen

\* loadCredentialReview and loadCredentialMutationReview on the metadata, then the
\* generation of the link and the consent.
LoadReview ==
    /\ \/ flow.pc = "load"
       \/ flow.pc = "reads" /\ flow.cred # None /\ flow.report # None
    /\ LET r == IF flow.action = "accept" THEN Loaded(flow.cred, flow.report, FALSE)
                ELSE LoadedMutation(flow.cred)
           fetches == flow.action = "accept" /\ flow.consent # None /\ flow.stage # "post"
       IN \/ /\ flow.action = "accept" /\ ~Agree(flow.cred, flow.report)
             /\ Throw(Keep)
          \/ /\ flow.action = "accept" => Agree(flow.cred, flow.report)
             /\ flow.form.link \notin {NoGen, r.gen}
             /\ Throw(ClearInvalidIssuerTrustAcknowledgement)
          \/ /\ flow.action = "accept" => Agree(flow.cred, flow.report)
             /\ flow.form.link \in {NoGen, r.gen}
             /\ IF fetches /\ ~ConsentCurrent(r, flow.consent)
                THEN Throw(ClearStalePayloadConsent)
                ELSE /\ flow' = [flow EXCEPT !.loaded = r, !.pc = IF fetches THEN "fetch" ELSE "reviewed"]
                     /\ UNCHANGED page
    /\ UNCHANGED <<world, budget, form, dirty, journal, relayed, ghosts>>

\* The payload is read from its host; its bytes fit the URI's digest and the schema.
FetchPayload ==
    /\ flow.pc = "fetch"
    /\ contact' = Token(flow.cred)
    /\ IF flow.cred.uri \in ValidUris
       THEN flow' = [flow EXCEPT !.pc = "verify"] /\ UNCHANGED page
       ELSE Throw(Keep)
    /\ UNCHANGED <<world, budget, form, dirty, journal, relayed, grants>>

\* verify with the payload; the report is joined with the credential read before.
VerifyPayload ==
    /\ flow.pc = "verify"
    /\ IF Agree(flow.cred, Report)
       THEN /\ flow' = [flow EXCEPT !.loaded = Loaded(flow.cred, Report, TRUE), !.pc = "reviewed"]
            /\ UNCHANGED page
       ELSE Throw(Keep)
    /\ UNCHANGED <<world, budget, form, dirty, journal, relayed, ghosts>>

\* buildPreview after the review was loaded
ShowReview ==
    /\ flow.pc = "reviewed" /\ flow.stage = "preview"
    /\ LET r == flow.loaded IN
       \/ ~flow.fresh /\ Throw(Keep)
       \/ /\ flow.fresh
          /\ review' = r
          /\ \/ /\ flow.action = "accept" /\ flow.consent = None
                /\ flow' = Idle /\ UNCHANGED <<consent, ack, tx>>
             \/ /\ flow.action = "accept" => flow.consent # None
                /\ ActionAllowed(r, flow.action, flow.ack, r.profile, flow.account)
                /\ flow' = [flow EXCEPT !.pc = "prepare"] /\ UNCHANGED <<consent, ack, tx>>
             \/ /\ flow.action = "accept" => flow.consent # None
                /\ ~ActionAllowed(r, flow.action, flow.ack, r.profile, flow.account)
                /\ flow' = Idle /\ tx' = None /\ UNCHANGED consent
                /\ ack' = IF StateAllows(r, flow.action) THEN None ELSE ack
    /\ UNCHANGED <<world, budget, form, dirty, journal, relayed, ghosts>>

\* Mutant: the transaction is shown although the preview was invalidated.
PrepareStale ==
    /\ flow.pc = "prepare"
    /\ IF form.account = flow.account /\ profile = flow.profile
       THEN /\ tx' = [gen |-> flow.loaded.gen, account |-> flow.account, action |-> flow.action,
                      profile |-> profile, session |-> TRUE]
            /\ flow' = Idle /\ UNCHANGED <<review, consent, ack>>
       ELSE Throw(Keep)
    /\ UNCHANGED <<world, budget, form, dirty, journal, relayed, ghosts>>

\* prepare, and the transaction on display
Prepare ==
    /\ flow.pc = "prepare"
    /\ IF form.account = flow.account /\ profile = flow.profile /\ flow.fresh
       THEN /\ tx' = [gen |-> flow.loaded.gen, account |-> flow.account, action |-> flow.action,
                      profile |-> profile, session |-> TRUE]
            /\ flow' = Idle /\ UNCHANGED <<review, consent, ack>>
       ELSE Throw(Keep)
    /\ UNCHANGED <<world, budget, form, dirty, journal, relayed, ghosts>>

\* submit after the review was loaded again
CheckReview ==
    /\ flow.pc = "reviewed" /\ flow.stage = "submit"
    /\ LET r == flow.loaded IN
       \/ ~Current /\ Throw(Keep)
       \/ /\ Current
          /\ ~ReviewCurrent(flow.expected, r, flow.action, flow.profile, flow.profile, flow.ack, flow.account)
          /\ Throw(ClearInvalidIssuerTrustAcknowledgement)
       \/ /\ Current
          /\ ReviewCurrent(flow.expected, r, flow.action, flow.profile, flow.profile, flow.ack, flow.account)
          /\ review' = r
          /\ IF ActionAllowed(r, flow.action, flow.ack, flow.profile, flow.account)
             THEN flow' = [flow EXCEPT !.pc = "wallet"] /\ UNCHANGED <<consent, ack, tx>>
             ELSE flow' = Idle /\ UNCHANGED <<consent, ack, tx>>
    /\ UNCHANGED <<world, budget, form, dirty, journal, relayed, ghosts>>

\* signAndSubmit up to the wallet: session and account, profile, current preview, and
\* the business lock of the tuple.
OpenWallet ==
    /\ flow.pc = "wallet"
    /\ IF /\ tx # None /\ tx.session /\ form.account = flow.account
          /\ profile = flow.tx.profile /\ Current
          /\ ~\E op \in journal : op.account = flow.account
       THEN flow' = [flow EXCEPT !.pc = "sign"] /\ UNCHANGED page
       ELSE Throw(Keep)
    /\ UNCHANGED <<world, budget, form, dirty, journal, relayed, ghosts>>

\* The signed operation, with what was reviewed of it; via tells who relays it, and
\* worlds are those of which its relay has heard.
Operation(via, worlds) ==
    [via |-> via, gen |-> flow.tx.gen, account |-> flow.account, action |-> flow.action,
     profile |-> flow.tx.profile, uri |-> flow.expected.uri, trust |-> flow.expected.trust,
     ack |-> flow.ack, since |-> worlds]

\* The wallet returns a signature, and the blob is persisted; if it is not relayed, only a
\* retry can.
Sign ==
    /\ flow.pc = "sign"
    /\ flow' = [flow EXCEPT !.stage = "post", !.pc = "generation", !.since = {Snapshot(flow.account)},
                            !.cred = None, !.report = None]
    /\ journal' = journal \cup {Operation("retry", {Snapshot(flow.account)})}
    /\ UNCHANGED <<world, budget, form, dirty, page, relayed, ghosts>>

\* Mutant: the state of the generation is not looked at.
GenerationOnly(op) == cred[op.account].gen = op.gen

\* assertBusinessGenerationCurrent
GenerationCurrent(op) == cred[op.account].gen = op.gen /\ StateAllows(cred[op.account], op.action)

\* beforeSubmit: the generation, before the page looks again.
AssertGeneration ==
    /\ flow.pc = "generation"
    /\ IF Current /\ GenerationCurrent(flow.tx)
       THEN flow' = [flow EXCEPT !.pc = "profile"] /\ UNCHANGED page
       ELSE Throw(IF Current /\ cred[flow.account].gen # flow.tx.gen
                  THEN ClearInvalidIssuerTrustAcknowledgement ELSE Keep)
    /\ UNCHANGED <<world, budget, form, dirty, journal, relayed, ghosts>>

\* revalidateSubjectActionAfterSignature, its comparison
Revalidate ==
    /\ flow.pc = "reviewed" /\ flow.stage = "post"
    /\ LET fits == ReviewCurrent(flow.expected, flow.loaded, flow.action, flow.profile, flow.latest,
                                 flow.ack, flow.account)
       IN \/ ~Current /\ Throw(Keep)
          \/ Current /\ ~fits /\ Throw(ClearInvalidIssuerTrustAcknowledgement)
          \/ Current /\ fits /\ flow' = [flow EXCEPT !.pc = "relay"] /\ UNCHANGED page
    /\ UNCHANGED <<world, budget, form, dirty, journal, relayed, ghosts>>

\* The rest of beforeSubmit, and the submission.
Relay ==
    /\ flow.pc = "relay"
    /\ IF Current /\ profile = flow.tx.profile
       THEN /\ relayed' = Operation("page", flow.since)
            /\ journal' = {op \in journal : op.account # flow.account}
            /\ flow' = Idle /\ tx' = None /\ UNCHANGED <<review, consent, ack>>
       ELSE Throw(Keep) /\ UNCHANGED <<relayed, journal>>
    /\ UNCHANGED <<world, budget, form, dirty, ghosts>>

\* retryOperation, from the page of operations or another tab, between two of its
\* awaits: profile and generation are current, nothing is asked about the issuer.
Retry(op) ==
    /\ profile = op.profile
    /\ GenerationCurrent(op)
    /\ relayed' = [op EXCEPT !.since = {Snapshot(op.account)}]
    /\ journal' = journal \ {op}
    /\ UNCHANGED <<world, budget, form, dirty, page, flow, ghosts>>

-----------------------------------------------------------------------------
Flow == /\ Busy
        /\ \/ ReadProfile \/ GetCredential \/ Verify \/ LoadReview \/ FetchPayload \/ VerifyPayload
           \/ ShowReview \/ Prepare \/ CheckReview \/ OpenWallet \/ Sign
           \/ AssertGeneration \/ Revalidate \/ Relay \/ RequestFails

Next ==
    \/ World
    \/ InvalidatePreview
    \/ \E a \in Accounts : ReplaceAccount(a)
    \/ \E action \in Actions, link \in Gens \cup {NoGen} : Navigate(action, link)
    \/ \E granted \in BOOLEAN : SetPayloadConsent(granted) \/ SetIssuerTrustAcknowledgement(granted)
    \/ BuildPreview
    \/ Submit
    \/ Flow
    \/ \E op \in journal : Retry(op)

Spec == Init /\ [][Next]_vars

-----------------------------------------------------------------------------
Reviews == [gen : Gens, uri : Uris \cup {NoUri}, accepted : BOOLEAN,
            state : {"pending", "active", "expired", "deleted"},
            trust : Trusts \cup {"none"}, claims : BOOLEAN, profile : Profiles]
Tokens == [gen : Gens, uri : Uris]
Transactions == [gen : Gens, account : Accounts, action : Actions, profile : Profiles, session : BOOLEAN]

\* Type invariant: the refs of accept.vue, and the function that runs.
TypeOK ==
    /\ cred \in [Accounts -> Credentials] /\ trust \in Trusts /\ profile \in Profiles
    /\ form \in [account : Accounts, action : Actions, link : Gens \cup {NoGen}]
    /\ dirty \in BOOLEAN
    /\ review \in Reviews \cup {None} /\ consent \in Tokens \cup {None}
    /\ ack \in [profile : Profiles, account : Accounts, gen : Gens] \cup {None}
    /\ tx \in Transactions \cup {None}
    /\ flow = Idle \/ /\ flow.stage \in {"preview", "submit", "post"}
                      /\ flow.stage # "preview" => flow.tx \in Transactions /\ flow.expected \in Reviews
                      /\ flow.pc \in {"reviewed", "prepare", "wallet", "sign", "relay"} => flow.loaded \in Reviews
    /\ \A op \in journal : op.gen \in Gens
    /\ grants \subseteq Tokens /\ contact \in Tokens \cup {None}

\* The browser contacts a payload host only for a generation and URI for which the
\* subject gave consent while they were on display (fetchExactReview with
\* assertPayloadFetchConsentCurrent), however often the tuple is issued again.
HostConsented == contact # None => contact \in grants

\* A transaction on display (once the watchers have run) is for the account, the action
\* and the linked generation on display, and for an acceptance consent and
\* acknowledgement are those of the generation under review (buildPreview, submit and
\* the watchers of accept.vue).
PreviewCoherent ==
    tx # None /\ ~dirty =>
       /\ review # None /\ review.gen = tx.gen
       /\ tx.account = form.account /\ tx.action = form.action
       /\ form.link \in {NoGen, review.gen}
       /\ StateAllows(review, tx.action)
       /\ tx.action = "accept" =>
             /\ review.claims /\ consent = Token(review)
             /\ review.trust # "untrusted"
             /\ review.trust = "unknown" => /\ ack = Acknowledgement(review, tx.profile, form.account)
                                            /\ review.profile = tx.profile

\* The trust in the issuer allows the operation: it is trusted, or unknown and
\* acknowledged for just this profile, account and generation.
IssuerAccepted(reported, op) ==
    \/ reported = "trusted"
    \/ reported = "unknown" /\ op.ack = Acknowledgement(op, op.profile, op.account)

\* Every acceptance that is relayed, by the page or by a retry, is of the generation whose
\* valid claims the subject consented to see and whose issuer was accepted in the review
\* before the signature; and at an instant since the signature (for a retry, at the retry)
\* that generation was current and pending. When the page relays it, its issuer was
\* accepted at that instant too; a retry does not ask again about the issuer (submit,
\* revalidateSubjectActionAfterSignature, retryOperation).
AcceptanceReviewed ==
    relayed # None /\ relayed.action = "accept" =>
       /\ relayed.uri \in ValidUris
       /\ Token(relayed) \in grants
       /\ IssuerAccepted(relayed.trust, relayed)
       /\ \E w \in relayed.since :
             /\ w.gen = relayed.gen /\ StateAllows(w, "accept")
             /\ relayed.via = "page" => IssuerAccepted(w.trust, relayed)

\* A rejection or removal, from the page or as a retry of a stored blob, is relayed only
\* if after the signature the reviewed generation was current in a state that allows it
\* (assertCredentialSubjectMutationReviewCurrent, assertCredentialGenerationCurrent).
MutationReviewed ==
    relayed # None /\ relayed.action # "accept" =>
       \E w \in relayed.since : w.gen = relayed.gen /\ StateAllows(w, relayed.action)

\* web README: "an explicitly `untrusted` issuer is blocked". Of every relayed
\* acceptance, a retry included, the issuer was not untrusted at every instant since
\* the signature (or, for a retry, when it ran).
UntrustedBlocked ==
    relayed # None /\ relayed.action = "accept" => \E w \in relayed.since : w.trust # "untrusted"

\* web README: generation and state are read again "after the wallet returns, before
\* persisting or submitting the signed blob". Of every stored blob the reviewed
\* generation was current, in a state that allows it, after the signature.
BlobRevalidated ==
    \A op \in journal : \E w \in op.since : w.gen = op.gen /\ StateAllows(w, op.action)

=============================================================================
