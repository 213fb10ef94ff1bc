------------------------------ MODULE Issuance ------------------------------
(***************************************************************************)
(* The page that issues a credential, with its form, its preview, its      *)
(* check of the published payload and the store of test payloads that all  *)
(* tabs of a browser share.                                                *)
(*                                                                         *)
(* The page's functions run from one await to the next. Changes of the     *)
(* form, of the wallet's account, of the store and of the payload's host   *)
(* happen in between. Watchers of the form run after the change that       *)
(* triggers them and before the next event of the user, but continuations  *)
(* of other functions may come first.  The store belongs to all tabs, and  *)
(* no lock spans two accesses to it: while a tab publishes, which no other *)
(* code of that tab interrupts, the other tabs go on.                      *)
(*                                                                         *)
(* One field, the terms, stands for the subject, the URL and the           *)
(* expiration. Claims "empty" lack a required field; claims "personal"     *)
(* have a field with a sensitive name. The same claims have two texts, one *)
(* of them formatted as the guided editor does it. A URI holds the digest  *)
(* of a payload, which stands for the payload.                             *)
(***************************************************************************)
EXTENDS Integers, FiniteSets, TLC

CONSTANTS
    MaxEdits,      \* bound on changes by the user and of the account
    MaxOutside,    \* bound on what happens outside of the page
    MaxEntries,    \* LOCAL_PAYLOAD_STORE_MAX_ENTRIES
    Ttl,           \* LOCAL_PAYLOAD_STORE_TTL_MS
    OtherTabs      \* the other tabs of the browser

ASSUME IssuanceConstants ==
    /\ {MaxEdits, MaxOutside} \subseteq Nat /\ MaxEntries \in Nat \ {0} /\ Ttl \in Nat \ {0}
    /\ IsFiniteSet(OtherTabs) /\ "page" \notin OtherTabs

Tabs == OtherTabs \cup {"page"}
Claims == {"empty", "plain", "personal"}
Builds == {1, 2}

VARIABLES
    form,       \* the fields of the form
    account,    \* the account of the connected wallet
    dirty,      \* what has changed since the watchers ran
    revision,   \* previewRevision
    preview,    \* what the page has derived from the form
    build,      \* calls of buildPreview
    load,       \* a call of loadGuidedClaimForm
    sub,        \* a call of submit
    store,      \* the local payload store
    publish,    \* the call of publish that runs in each tab
    host,       \* what the host of the payload serves
    now,        \* the time
    edits, outside

vars == <<form, account, dirty, revision, preview, build, load, sub, store, publish, host, now, edits, outside>>

None == [none |-> TRUE]
NoPreview == [payload |-> None, tx |-> None, proof |-> None, result |-> None, links |-> None]
NoBuild == [pc |-> "idle", revision |-> 0, snap |-> None, disturbed |-> FALSE, error |-> "none"]
NoPublish == [step |-> "none", payload |-> None, record |-> None]
NoLoad == [pc |-> "idle", schema |-> 0]
NoSubmit == [pc |-> "idle", revision |-> 0, preview |-> NoPreview, form |-> None, account |-> 0, read |-> None]

\* guidedClaimsToJson and guidedClaimsToPartialObject: the text of the guided claims
GuidedClaimsToJson(claims) == [claims |-> IF claims = "none" THEN "empty" ELSE claims, pretty |-> TRUE]

\* claimsObjectToGuidedClaims, on the parsed text
ClaimsObjectToGuidedClaims(text) == text.claims

\* guidedClaimsToObject: a required claim is missing
Incomplete(claims) == claims \in {"none", "empty"}

\* encodeCredentialPayload, and the transaction with the payload's URI
Payload(snap) == [account |-> snap.account, schema |-> snap.schema, terms |-> snap.terms, claims |-> snap.claims]
Transaction(snap) == [payload |-> Payload(snap), storage |-> snap.storage]

\* What the form describes, and its acknowledgement.
Described ==
    [account |-> account, schema |-> form.schema, terms |-> form.terms, storage |-> form.storage,
     claims |-> IF form.mode = "guided" THEN form.guided ELSE form.text.claims, ack |-> form.ack]

-----------------------------------------------------------------------------
(* The local payload store. A record is kept by its payload, for the key   *)
(* is the payload's digest.                                                *)

Record(expires, ack) == [expires |-> expires, ack |-> ack, valid |-> TRUE]

\* inspectCanonicalPayload, with findSensitiveFieldPath
InspectCanonicalPayload(payload, ack) == payload.claims = "personal" => ack

\* parseStoredPayload: the record is well formed
ParseStoredPayload(record) == record.valid

\* removeExpired; a record that does not parse goes too
RemoveExpired(s) == [p \in {x \in DOMAIN s : ParseStoredPayload(s[x]) /\ s[x].expires > now} |-> s[p]]

\* Mutant: a full store takes one record more.
QuotaLeftOffByOne(s) == Cardinality(DOMAIN s) <= MaxEntries

\* Room for another record.
QuotaLeft(s) == Cardinality(DOMAIN s) < MaxEntries

\* storeLocalTestPayload up to its setItem: whether it comes so far
Storable(payload, ack) ==
    /\ InspectCanonicalPayload(payload, ack)
    /\ payload \in DOMAIN RemoveExpired(store) \/ QuotaLeft(RemoveExpired(store))

\* and what it has found: a record that needs no change, one that has yet to be
\* acknowledged, or room for a new one
Found(payload, ack) ==
    LET live == RemoveExpired(store) IN
    IF payload \in DOMAIN live /\ (ack => live[payload].ack)
    THEN [step |-> "read", payload |-> payload, record |-> None]
    ELSE [step |-> "write", payload |-> payload,
          record |-> IF payload \in DOMAIN live THEN [live[payload] EXCEPT !.ack = TRUE] ELSE Record(now + Ttl, ack)]

StoreLocalTestPayload(tab, payload, ack) ==
    /\ store' = IF InspectCanonicalPayload(payload, ack) THEN RemoveExpired(store) ELSE store
    /\ publish' = IF Storable(payload, ack) THEN [publish EXCEPT ![tab] = Found(payload, ack)] ELSE publish

\* Its setItem.
SetItem(tab) ==
    /\ publish[tab].step = "write"
    /\ store' = [p \in DOMAIN store \cup {publish[tab].payload} |->
                    IF p = publish[tab].payload THEN publish[tab].record ELSE store[p]]
    /\ publish' = [publish EXCEPT ![tab] = [@ EXCEPT !.step = "read", !.record = None]]

\* readLocalTestPayload: whether it returns the payload
ReadLocalTestPayload(payload) ==
    /\ payload \in DOMAIN store /\ ParseStoredPayload(store[payload])
    /\ store[payload].expires > now
    /\ InspectCanonicalPayload(payload, store[payload].ack)

\* A read removes what it finds expired or invalid.
AfterRead(payload) ==
    IF payload \in DOMAIN store /\ (~ParseStoredPayload(store[payload]) \/ store[payload].expires <= now)
    THEN [p \in DOMAIN store \ {payload} |-> store[p]] ELSE store

\* publish reads back what it has stored, and returns.
ReadBack(tab) ==
    /\ publish[tab].step = "read"
    /\ store' = AfterRead(publish[tab].payload)
    /\ publish' = [publish EXCEPT ![tab] = NoPublish]

-----------------------------------------------------------------------------
(* The form.                                                               *)

Aside == UNCHANGED <<build, load, sub, store, publish, host, now, outside>>
Disturb == [b \in Builds |-> [build[b] EXCEPT !.disturbed = (@ \/ build[b].pc # "idle")]]

\* The page publishes nothing at the moment, so that others of its functions may run.
Idle == publish["page"] = NoPublish

\* The user acts when the watchers have run; fields are disabled during a submission.
Ready == dirty = {} /\ sub.pc = "idle"
Edited(f, what) ==
    /\ form' = f /\ dirty' = dirty \cup what
    /\ edits' = edits + 1
    /\ build' = Disturb
    /\ UNCHANGED <<account, load, sub, store, publish, host, now, outside>>

\* invalidatePreview
InvalidatePreview == revision' = revision + 1 /\ preview' = NoPreview

\* A field is changed.
Edit ==
    /\ Ready /\ edits < MaxEdits
    /\ \/ \E s \in {1, 2} \ {form.schema} : Edited([form EXCEPT !.schema = s], {"form", "schema"})
       \/ \E t \in {1, 2} \ {form.terms} : Edited([form EXCEPT !.terms = t], {"form"})
       \/ \E s \in {"https", "local-test"} \ {form.storage} : Edited([form EXCEPT !.storage = s], {"form"})
       \/ Edited([form EXCEPT !.ack = ~@], {"form"})
       \/ /\ form.mode = "json"
          /\ \E c \in Claims, p \in BOOLEAN :
                /\ [claims |-> c, pretty |-> p] # form.text
                /\ Edited([form EXCEPT !.text = [claims |-> c, pretty |-> p]], {"form"})
       \/ /\ form.mode = "guided" /\ form.guided # "none"
          /\ \E c \in Claims \ {form.guided} : Edited([form EXCEPT !.guided = c], {"guided"})
    /\ UNCHANGED <<revision, preview>>

\* selectClaimsEditorMode. The guided editor needs the schema's form.
SelectClaimsEditorMode ==
    /\ Ready /\ edits < MaxEdits
    /\ IF form.mode = "guided"
       THEN /\ Edited([form EXCEPT !.mode = "json", !.text = GuidedClaimsToJson(form.guided)], {"form"})
            /\ UNCHANGED <<revision, preview>>
       ELSE /\ form.loaded = form.schema /\ form.guided # "none"
            /\ Edited([form EXCEPT !.mode = "guided", !.guided = ClaimsObjectToGuidedClaims(form.text)], {"form", "guided"})
            /\ InvalidatePreview

\* The wallet reports another account, at any time.
AccountChanged ==
    /\ edits < MaxEdits /\ edits' = edits + 1
    /\ account' = 3 - account /\ dirty' = dirty \cup {"form"}
    /\ build' = Disturb
    /\ UNCHANGED <<form, revision, preview, load, sub, store, publish, host, now, outside>>

\* The watcher of the guided claims.
SyncedText(f, changed) == IF changed /\ f.mode = "guided" THEN GuidedClaimsToJson(f.guided) ELSE f.text

\* The watchers run. A schema other than the loaded one clears the guided form.
Flush ==
    /\ dirty # {}
    /\ LET cleared == "schema" \in dirty /\ form.schema # form.loaded
           f == IF cleared THEN [form EXCEPT !.guided = "none", !.loaded = 0] ELSE form
       IN form' = [f EXCEPT !.text = SyncedText(f, "guided" \in dirty \/ f.guided # form.guided)]
    /\ dirty' = {}
    /\ InvalidatePreview
    /\ UNCHANGED <<account, edits>> /\ Aside

\* loadGuidedClaimForm up to its awaits. It may end during a submission.
StartLoad ==
    /\ Ready /\ load.pc = "idle" /\ edits < MaxEdits
    /\ load' = [pc |-> "wait", schema |-> form.schema]
    /\ edits' = edits + 1
    /\ UNCHANGED <<form, account, dirty, revision, preview, build, sub, store, publish, host, now, outside>>

\* The rest of it: the schema is still the requested one, or an error.
FinishLoad ==
    /\ load.pc = "wait" /\ load' = NoLoad
    /\ \/ /\ form.schema = load.schema
          /\ form' = [form EXCEPT !.guided = ClaimsObjectToGuidedClaims(form.text), !.loaded = load.schema, !.mode = "guided"]
          /\ dirty' = dirty \cup {"guided"} \cup (IF form.mode = "json" THEN {"form"} ELSE {})
          /\ InvalidatePreview
          /\ build' = Disturb
       \/ UNCHANGED <<form, dirty, revision, preview, build>>
    /\ UNCHANGED <<account, sub, store, publish, host, now, edits, outside>>

\* clearLocalPayloadStore
ClearLocalPayloadStore ==
    /\ Ready /\ edits < MaxEdits /\ edits' = edits + 1
    /\ store' = << >>
    /\ InvalidatePreview
    /\ build' = Disturb
    /\ UNCHANGED <<form, account, dirty, load, sub, publish, host, now, outside>>

-----------------------------------------------------------------------------
(* buildPreview.                                                           *)

\* A build ends; its error handler removes the transaction, whoever has built it.
FailBuild(b, error) ==
    /\ build' = [build EXCEPT ![b] = [NoBuild EXCEPT !.error = error, !.disturbed = build[b].disturbed]]
    /\ preview' = [preview EXCEPT !.tx = None]

\* The conditions of the storage mode.
StorageReady(snap) == snap.storage = "local-test" => snap.ack

\* Up to the first await: the preview is cleared and the form is read. In guided mode
\* the text follows the guided claims.
StartBuild(b) ==
    /\ Ready /\ build[b].pc = "idle" /\ edits < MaxEdits /\ edits' = edits + 1
    /\ LET snap == Described
           text == IF form.mode = "guided" THEN GuidedClaimsToJson(form.guided) ELSE form.text
           readable == form.mode = "guided" => form.loaded = form.schema /\ ~Incomplete(form.guided)
       IN /\ form' = IF readable THEN [form EXCEPT !.text = text] ELSE form
          /\ dirty' = IF form'.text # form.text THEN {"form"} ELSE {}
          /\ build' = [Disturb EXCEPT ![b] =
                IF readable /\ StorageReady(snap)
                THEN [NoBuild EXCEPT !.pc = "schema", !.revision = revision + 1, !.snap = snap]
                ELSE [NoBuild EXCEPT !.error = "refused"]]
    /\ InvalidatePreview
    /\ UNCHANGED <<account, load, sub, store, publish, host, now, outside>>

\* The profile and the schema are there: the payload and its URI.
EncodePayload(b) ==
    /\ build[b].pc = "schema"
    /\ IF build[b].revision # revision THEN FailBuild(b, "changed")
       ELSE IF Incomplete(build[b].snap.claims) THEN FailBuild(b, "refused")
       ELSE /\ preview' = [preview EXCEPT !.payload = Payload(build[b].snap)]
            /\ build' = [build EXCEPT ![b].pc = "prepare"]
    /\ UNCHANGED <<form, account, dirty, revision, load, sub, store, publish, host, now, edits, outside>>

\* The preview of a build is complete.
ShowBuild(b) ==
    /\ preview' = [preview EXCEPT !.tx = Transaction(build[b].snap)]
    /\ build' = [build EXCEPT ![b] = NoBuild]

\* The transaction is prepared: the preview, and first the publication in the local store.
FinishBuild(b) ==
    /\ build[b].pc = "prepare"
    /\ LET snap == build[b].snap IN
       \/ build[b].revision # revision /\ FailBuild(b, "changed") /\ UNCHANGED <<store, publish>>
       \/ /\ build[b].revision = revision /\ snap.storage = "https"
          /\ ShowBuild(b) /\ UNCHANGED <<store, publish>>
       \/ /\ build[b].revision = revision /\ snap.storage = "local-test"
          /\ StoreLocalTestPayload("page", Payload(snap), snap.ack)
          /\ IF Storable(Payload(snap), snap.ack)
             THEN build' = [build EXCEPT ![b].pc = "publish"] /\ UNCHANGED preview
             ELSE FailBuild(b, "refused")
    /\ UNCHANGED <<form, account, dirty, revision, load, sub, host, now, edits, outside>>

\* The record is written, after whatever other tabs have done since it was looked for.
PublishBuild(b) ==
    /\ build[b].pc = "publish" /\ SetItem("page")
    /\ UNCHANGED <<form, account, dirty, revision, preview, build, load, sub, host, now, edits, outside>>

\* It is read back, which another tab may have made impossible, and shown.
ReadBackBuild(b) ==
    /\ build[b].pc = "publish" /\ ReadBack("page")
    /\ IF ReadLocalTestPayload(Payload(build[b].snap)) THEN ShowBuild(b) ELSE FailBuild(b, "refused")
    /\ UNCHANGED <<form, account, dirty, revision, load, sub, host, now, edits, outside>>

\* A request of a build fails, or an access to the store.
BuildFails(b) ==
    /\ build[b].pc # "idle" /\ (Idle \/ build[b].pc = "publish")
    /\ FailBuild(b, "request")
    /\ publish' = [publish EXCEPT !["page"] = NoPublish]
    /\ UNCHANGED <<form, account, dirty, revision, load, sub, store, host, now, edits, outside>>

-----------------------------------------------------------------------------
(* submit.                                                                 *)

Page == UNCHANGED <<form, account, dirty, revision, build, load, publish, now, edits, outside>>

StartSubmit ==
    /\ Ready /\ preview.tx # None /\ preview.payload # None
    /\ sub' = [NoSubmit EXCEPT !.pc = "check", !.revision = revision, !.preview = preview, !.form = form, !.account = account]
    /\ preview' = [preview EXCEPT !.proof = None]
    /\ Page /\ UNCHANGED <<store, host>>

\* Mutant: the account is not compared.
AssertCurrentAnyAccount ==
    revision = sub.revision /\ preview.tx = sub.preview.tx /\ preview.payload = sub.preview.payload /\ form = sub.form

\* assertCurrent
AssertCurrent ==
    /\ revision = sub.revision
    /\ preview.tx = sub.preview.tx /\ preview.payload = sub.preview.payload
    /\ account = sub.account
    /\ form = sub.form

\* The submission ends with an error.
FailSubmit ==
    /\ sub.pc # "idle"
    /\ sub' = NoSubmit
    /\ Page /\ UNCHANGED <<preview, store, host>>

\* readCanonicalHttpsPayload: what the host serves has the digest of the URI
ReadCanonicalHttpsPayload(uri) == host # None /\ host = uri

\* verifyHttpsPayloadPublication: and it is the payload of the preview, byte for byte
VerifyHttpsPayloadPublication(canonical, uri) == ReadCanonicalHttpsPayload(uri) /\ host = canonical

\* verifyPublication, for the local store
VerifyPublication(canonical, uri) == ReadLocalTestPayload(uri) /\ uri = canonical

\* The publication is verified, and assertCurrent.
CheckPublication ==
    /\ sub.pc = "check"
    /\ LET canonical == sub.preview.payload
           uri == sub.preview.tx.payload
           here == sub.form.storage = "local-test"
       IN /\ IF here THEN VerifyPublication(canonical, uri) ELSE VerifyHttpsPayloadPublication(canonical, uri)
          /\ AssertCurrent
          /\ sub' = [sub EXCEPT !.pc = "wallet", !.read =
                IF ~here THEN host ELSE IF uri \in DOMAIN store /\ store[uri].expires > now THEN uri ELSE None]
          /\ preview' = [preview EXCEPT !.proof = uri]
          /\ store' = IF here THEN AfterRead(uri) ELSE store
    /\ Page /\ UNCHANGED host

\* signAndSubmit up to the wallet: assertCurrent, last, right before it signs
AskWallet ==
    /\ sub.pc = "wallet" /\ AssertCurrent
    /\ sub' = [sub EXCEPT !.pc = "signed"]
    /\ Page /\ UNCHANGED <<preview, store, host>>

\* beforeSubmit: assertCurrent, and the submission
SubmitSigned ==
    /\ sub.pc = "signed" /\ AssertCurrent
    /\ sub' = [sub EXCEPT !.pc = "submitted"]
    /\ Page /\ UNCHANGED <<preview, store, host>>

\* The inputs of the links, as they were when submit began.
LinkInputs == [account |-> sub.account, terms |-> sub.form.terms, schema |-> sub.form.schema]

\* The callback for a validated transaction.
LedgerValidated ==
    /\ sub.pc = "submitted"
    /\ sub' = [sub EXCEPT !.pc = "validated"]
    /\ preview' = [preview EXCEPT !.links = LinkInputs, !.result = sub.preview.tx]
    /\ Page /\ UNCHANGED <<store, host>>

\* signAndSubmit returns.
EndSubmit ==
    /\ sub.pc = "validated"
    /\ sub' = NoSubmit
    /\ preview' = [preview EXCEPT !.result = sub.preview.tx, !.tx = None]
    /\ Page /\ UNCHANGED <<store, host>>

-----------------------------------------------------------------------------
(* Outside of the page.                                                    *)

Others == outside < MaxOutside /\ outside' = outside + 1
          /\ UNCHANGED <<form, account, dirty, revision, preview, build, load, sub, edits>>

\* The host serves the payload of the preview, another one, or nothing.
HostChanges ==
    /\ Others
    /\ \E p \in {None, preview.payload, [account |-> 1, schema |-> 1, terms |-> 1, claims |-> "plain"]} \ {host} : host' = p
    /\ UNCHANGED <<store, publish, now>>

\* Another tab publishes a payload, in the same three steps, or clears the store.
OtherTabStores(tab) ==
    /\ Others /\ publish[tab] = NoPublish
    /\ \E p \in {[account |-> 1, schema |-> s, terms |-> 1, claims |-> "plain"] : s \in {1, 2}} :
          StoreLocalTestPayload(tab, p, TRUE)
    /\ UNCHANGED <<host, now>>

OtherTabGoesOn(tab) ==
    /\ SetItem(tab) \/ ReadBack(tab)
    /\ UNCHANGED <<form, account, dirty, revision, preview, build, load, sub, host, now, edits, outside>>

OtherTabClears == Others /\ store # << >> /\ store' = << >> /\ UNCHANGED <<publish, host, now>>

\* A record is damaged.
Damage ==
    /\ Others
    /\ \E p \in DOMAIN store : store' = [store EXCEPT ![p].valid = FALSE]
    /\ UNCHANGED <<publish, host, now>>

Tick == Others /\ now' = now + 1 /\ UNCHANGED <<host, store, publish>>

-----------------------------------------------------------------------------
Init ==
    /\ form = [schema |-> 1, terms |-> 1, text |-> GuidedClaimsToJson("none"), guided |-> "none", loaded |-> 0,
               mode |-> "guided", storage |-> "https", ack |-> FALSE]
    /\ account = 1 /\ dirty = {} /\ revision = 0 /\ preview = NoPreview
    /\ build = [b \in Builds |-> NoBuild] /\ load = NoLoad /\ sub = NoSubmit
    /\ store = << >> /\ publish = [tab \in Tabs |-> NoPublish] /\ host = None /\ now = 0 /\ edits = 0 /\ outside = 0

PageNext ==
    \/ Edit \/ SelectClaimsEditorMode \/ AccountChanged \/ Flush \/ StartLoad \/ FinishLoad \/ ClearLocalPayloadStore
    \/ \E b \in Builds : StartBuild(b) \/ EncodePayload(b) \/ FinishBuild(b)
    \/ StartSubmit \/ CheckPublication \/ AskWallet \/ SubmitSigned \/ LedgerValidated \/ EndSubmit \/ FailSubmit

Next ==
    \/ Idle /\ PageNext
    \/ \E b \in Builds : PublishBuild(b) \/ ReadBackBuild(b) \/ BuildFails(b)
    \/ \E tab \in OtherTabs : OtherTabStores(tab) \/ OtherTabGoesOn(tab)
    \/ HostChanges \/ OtherTabClears \/ Damage \/ Tick

Spec == Init /\ [][Next]_vars

-----------------------------------------------------------------------------
(* Properties.                                                             *)

\* Type invariant; the store holds nothing that nobody has acknowledged
\* (storeLocalTestPayload, buildPreview).
TypeOK ==
    /\ form.guided \in Claims \cup {"none"} /\ form.text.claims \in Claims /\ form.loaded \in {0, 1, 2}
    /\ dirty \subseteq {"form", "schema", "guided"}
    /\ \A b \in Builds : build[b].pc \in {"idle", "schema", "prepare", "publish"} /\ build[b].revision <= revision
    /\ \A p \in DOMAIN store : store[p].ack /\ store[p].expires <= now + Ttl

\* docs/known-limitations.md says of the store that it "keeps at most 20 canonical
\* payloads". Tabs that count its keys before either of them writes exceed that.
StoreWithinLimit == Cardinality(DOMAIN store) <= MaxEntries

\* However the tabs' publications overlap and whatever expires, is damaged or cleared in
\* between, the store exceeds its limit by at most one record for each of the other tabs,
\* and never adds up to more (storeLocalTestPayload counts the keys, then writes).
StoreBounded == Cardinality(DOMAIN store) <= MaxEntries + Cardinality(OtherTabs)

\* A transaction is submitted only while the form, the editor and the wallet's account
\* still describe exactly that transaction, whatever changed during a build, the check
\* of the payload and the signature (buildPreview, submit, assertCurrent).
SubmittedAsDescribed ==
    [][sub.pc = "signed" /\ sub'.pc = "submitted" => sub.preview.tx = Transaction(Described)]_vars

\* When the wallet is asked, the exact payload of the transaction was read at its URI in
\* this submission, and in the local store its record had not expired
\* (verifyPublication, verifyHttpsPayloadPublication).
PublicationProved ==
    sub.pc \in {"wallet", "signed", "submitted", "validated"} => sub.read = sub.preview.tx.payload

\* A build ends with ISSUANCE_PREVIEW_CHANGED_DURING_BUILD only if something changed
\* while it ran: its own write to the claims text never stops it (buildPreview, the
\* watchers).
BuildUndisturbed == \A b \in Builds : build[b].error = "changed" => build[b].disturbed

\* The links of an issued credential name the issuer, subject and schema of the
\* transaction whose result is shown (submit).
LinksOfResult ==
    preview.links # None /\ preview.result # None =>
        LET p == preview.result.payload IN preview.links = [account |-> p.account, terms |-> p.terms, schema |-> p.schema]

\* When the wallet is asked the payload was read where the transaction says; the local
\* store exceeds its limit by no more than the other tabs can account for, a build stops
\* only for a change that is not its own, and the links of a result name its transaction
\* (buildPreview, submit, storeLocalTestPayload).
IssueConsistent ==
    /\ TypeOK
    /\ StoreBounded
    /\ PublicationProved
    /\ BuildUndisturbed
    /\ LinksOfResult
=============================================================================
