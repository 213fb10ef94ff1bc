---------------------------- MODULE PagesProofs ----------------------------
(***************************************************************************)
(* Proofs about the two pages on which something is signed: the issuer's   *)
(* (Issuance) and, as an instance of PagesSystem, the subject's            *)
(* (SubjectReview).                                                        *)
(*                                                                         *)
(* Issuance: for sessions of any length, stores of any size and any        *)
(* interference, what is submitted is what the form describes, and the     *)
(* page, the store and the host agree on it. A preview outlives a change   *)
(* of the form until the watchers have run, so what ties it to the form is *)
(* the pair of dirty and revision: a preview, and a build whose revision   *)
(* is still the page's, describe the form whenever nothing is dirty        *)
(* (Current), and a change marks every build under way before it can move  *)
(* the revision (BuildsOK). The store is bounded although the tabs count   *)
(* its keys before they write: what bounds it is the records together with *)
(* those that the tabs have found room for and not yet written (Fits).     *)
(*                                                                         *)
(* SubjectReview: for any accounts, profiles and URIs, any number of       *)
(* changes and any interleaving of a flow with them, what is fetched was   *)
(* consented to, what is on display was reviewed, and what is relayed, by  *)
(* the page or by a retry, rests on that review (SignedOK) and was current *)
(* after the signature. A flow reads the world piece by piece;             *)
(* what ties its answers together is that each of them was true of a world *)
(* since the signature (PostOK), and that the two of an acceptance are of  *)
(* one generation and state.                                               *)
(***************************************************************************)
EXTENDS PagesSystem, FiniteSetTheorems, TLAPS

-----------------------------------------------------------------------------
(* The inductive invariant.                                                 *)

Pair == {1, 2}
AnyClaims == Claims \cup {"none"}
Texts == [claims : Claims, pretty : BOOLEAN]
Forms == [schema : Pair, terms : Pair, text : Texts, guided : AnyClaims, loaded : {0, 1, 2},
          mode : {"guided", "json"}, storage : {"https", "local-test"}, ack : BOOLEAN]
Snaps == [account : Pair, schema : Pair, terms : Pair, storage : {"https", "local-test"},
          claims : AnyClaims, ack : BOOLEAN]
Payloads == [account : Pair, schema : Pair, terms : Pair, claims : AnyClaims]
Txs == [payload : Payloads, storage : {"https", "local-test"}]
Links == [account : Pair, terms : Pair, schema : Pair]
Previews == [payload : Payloads \cup {None}, tx : Txs \cup {None}, proof : Payloads \cup {None},
             result : Txs \cup {None}, links : Links \cup {None}]
BuildStates == [pc : {"idle", "schema", "prepare", "publish"}, revision : Nat, snap : Snaps \cup {None},
                disturbed : BOOLEAN, error : {"none", "changed", "refused", "request"}]
Submits == [pc : {"idle", "check", "wallet", "signed", "submitted", "validated"},
            revision : Nat, preview : Previews, form : Forms \cup {None},
            account : {0, 1, 2}, read : Payloads \cup {None}]
Records == [expires : Int, ack : BOOLEAN, valid : BOOLEAN]
Publications == [step : {"none", "write", "read"}, payload : Payloads \cup {None},
                 record : Records \cup {None}]

Types ==
    /\ form \in Forms /\ account \in Pair /\ dirty \subseteq {"form", "schema", "guided"}
    /\ revision \in Nat /\ preview \in Previews
    /\ build \in [Builds -> BuildStates]
    /\ load \in [pc : {"idle", "wait"}, schema : {0, 1, 2}]
    /\ sub \in Submits
    /\ host \in Payloads \cup {None}
    /\ now \in Nat

\* A record of the shared store is acknowledged, and does not last longer than the limit.
RecordOK(r, t) == r \in Records /\ r.ack /\ r.expires <= t + Ttl

\* The payloads that a tab has counted as new, or looked up, but has yet to write.
Writers(p) == {tab \in Tabs : p[tab].step = "write"}
Pending(p) == {p[tab].payload : tab \in Writers(p)}

\* The records, and what the tabs are about to write: a tab counts fewer records than the
\* limit, while each of the others has at most one more to come.
Limit == MaxEntries + Cardinality(OtherTabs)
Sound(s, t) == s = [p \in DOMAIN s |-> s[p]] /\ \A p \in DOMAIN s : RecordOK(s[p], t)
PublishOK(p, t) == p \in [Tabs -> Publications] /\ \A tab \in Writers(p) : RecordOK(p[tab].record, t)
Fits(D, p) == IsFiniteSet(D) /\ Cardinality(D \cup Pending(p)) <= Limit
StoreOK == Sound(store, now) /\ PublishOK(publish, now) /\ Fits(DOMAIN store, publish)

\* In guided mode the text follows the guided claims, but for a watcher that
\* has yet to run.
TextSynced ==
    form.mode = "guided" /\ "guided" \notin dirty => form.text = GuidedClaimsToJson(form.guided)

\* A build that what it read no longer describes has been disturbed.
BuildsOK ==
    \A b \in Builds :
        /\ build[b].revision <= revision
        /\ build[b].error = "changed" => build[b].disturbed
        /\ build[b].pc # "idle" =>
              /\ build[b].snap \in Snaps /\ StorageReady(build[b].snap)
              /\ build[b].revision # revision \/ dirty # {} => build[b].disturbed

\* Where nothing is dirty, the preview and the builds of this revision describe
\* the form.
Current ==
    dirty = {} =>
        /\ preview.tx # None => preview.tx = Transaction(Described)
        /\ \A b \in Builds : build[b].pc # "idle" /\ build[b].revision = revision =>
              Transaction(build[b].snap) = Transaction(Described)

\* What a form and an account describe.
DescribedBy(f, a) ==
    [account |-> a, schema |-> f.schema, terms |-> f.terms, storage |-> f.storage,
     claims |-> IF f.mode = "guided" THEN f.guided ELSE f.text.claims, ack |-> f.ack]

\* A submission goes on with the form, the account and the transaction it began with.
SubmitOK ==
    /\ sub.pc # "idle" =>
          /\ sub.form \in Forms /\ sub.account \in Pair
          /\ sub.preview.tx = Transaction(DescribedBy(sub.form, sub.account))
    /\ PublicationProved
    /\ sub.pc = "validated" /\ preview.links # None => preview.links = LinkInputs
    /\ LinksOfResult

\* While a build publishes, nothing else of the page runs: it is the only one, and its
\* revision stays the page's.
PublishingOK ==
    \A b \in Builds : build[b].pc = "publish" =>
        /\ publish["page"].step # "none" /\ build[b].revision = revision
        /\ \A c \in Builds : build[c].pc = "publish" => c = b

IssueInv == Types /\ StoreOK /\ TextSynced /\ BuildsOK /\ Current /\ SubmitOK

-----------------------------------------------------------------------------
(* What every step keeps.                                                   *)

LEMMA Constants ==
    /\ MaxEntries \in Nat /\ MaxEntries >= 1 /\ Ttl \in Nat
    /\ IsFiniteSet(OtherTabs) /\ "page" \notin OtherTabs
    /\ Cardinality(OtherTabs) \in Nat /\ Limit \in Nat
BY IssuanceConstants, FS_CardinalityType DEF Limit

\* What buildPreview reads of the form.
LEMMA DescribedTyped == ASSUME Types PROVE Described \in Snaps
BY DEF Types, Described, Forms, Snaps, Texts, AnyClaims

\* A change of the form marks the builds under way.
LEMMA DisturbTyped ==
    ASSUME Types
    PROVE  /\ Disturb \in [Builds -> BuildStates]
           /\ \A b \in Builds : /\ Disturb[b].pc = build[b].pc
                                /\ Disturb[b].revision = build[b].revision
                                /\ Disturb[b].snap = build[b].snap
                                /\ Disturb[b].error = build[b].error
                                /\ build[b].disturbed => Disturb[b].disturbed
                                /\ build[b].pc # "idle" => Disturb[b].disturbed
<1> SUFFICES ASSUME NEW b \in Builds
             PROVE  /\ [build[b] EXCEPT !.disturbed = (@ \/ build[b].pc # "idle")] \in BuildStates
                    /\ Disturb[b].pc = build[b].pc
                    /\ Disturb[b].revision = build[b].revision
                    /\ Disturb[b].snap = build[b].snap
                    /\ Disturb[b].error = build[b].error
                    /\ build[b].disturbed => Disturb[b].disturbed
                    /\ build[b].pc # "idle" => Disturb[b].disturbed
  BY Zenon DEF Disturb
<1> DEFINE d == build[b].disturbed \/ build[b].pc # "idle"
<1>1. build[b] \in BuildStates /\ d \in BOOLEAN
  BY DEF Types
<1>2. Disturb[b] = [build[b] EXCEPT !.disturbed = d]
  BY Zenon DEF Disturb
<1>3. d <=> build[b].disturbed \/ build[b].pc # "idle"
  OBVIOUS
<1> HIDE DEF d
<1>4. [build[b] EXCEPT !.disturbed = d] \in BuildStates
  BY <1>1 DEF BuildStates
<1>5. /\ Disturb[b].pc = build[b].pc /\ Disturb[b].revision = build[b].revision
      /\ Disturb[b].snap = build[b].snap /\ Disturb[b].error = build[b].error
      /\ Disturb[b].disturbed = d
  BY <1>1, <1>2 DEF BuildStates
<1> QED
  BY <1>3, <1>4, <1>5 DEF d

LEMMA DisturbKeeps ==
    ASSUME Types, BuildsOK, build' = Disturb, revision' \in {revision, revision + 1}
    PROVE  BuildsOK'
<1> SUFFICES ASSUME NEW b \in Builds
             PROVE  /\ build'[b].revision <= revision'
                    /\ build'[b].error = "changed" => build'[b].disturbed
                    /\ build'[b].pc # "idle" =>
                          /\ build'[b].snap \in Snaps /\ StorageReady(build'[b].snap)
                          /\ build'[b].revision # revision' \/ dirty' # {} => build'[b].disturbed
  BY DEF BuildsOK, StorageReady
<1>1. build[b].revision \in Nat /\ revision \in Nat
  BY DEF Types, BuildStates
<1>2. build[b].revision <= revision'
  BY <1>1 DEF BuildsOK
<1> QED
  BY <1>2, DisturbTyped DEF BuildsOK

\* What nobody has touched of a submission.
LEMMA SubmitRests ==
    ASSUME SubmitOK, UNCHANGED sub,
           \/ preview'.links = preview.links /\ preview'.result = preview.result
           \/ preview'.links = None
    PROVE  SubmitOK'
BY DEF SubmitOK, PublicationProved, LinksOfResult, LinkInputs

LEMMA NoPreviewTyped ==
    NoPreview \in Previews /\ NoPreview.links = None /\ NoPreview.tx = None /\ NoPreview.result = None
BY DEF NoPreview, Previews

\* A change of the form whose watchers have yet to run.
LEMMA EditedKeeps ==
    ASSUME IssueInv, NEW f \in Forms, NEW what \in SUBSET {"form", "schema", "guided"},
           what # {}, Edited(f, what),
           (UNCHANGED <<revision, preview>>) \/ InvalidatePreview,
           f.mode = "guided" /\ "guided" \notin dirty \cup what =>
               f.text = GuidedClaimsToJson(f.guided)
    PROVE  IssueInv'
<1>0. UNCHANGED <<sub, store, publish, now>>
  BY DEF Edited
<1>1. Types'
  <2>1. preview' \in Previews /\ revision' \in Nat
    BY NoPreviewTyped DEF IssueInv, Types, InvalidatePreview
  <2>2. build' \in [Builds -> BuildStates] /\ form' \in Forms /\ dirty' \subseteq {"form", "schema", "guided"}
        /\ UNCHANGED <<account, load, sub, host, now>>
    BY DisturbTyped DEF IssueInv, Types, Edited
  <2> QED
    BY <2>1, <2>2 DEF IssueInv, Types
<1>2. StoreOK'
  BY <1>0 DEF IssueInv, StoreOK
<1>3. TextSynced'
  BY DEF TextSynced, Edited
<1>4. BuildsOK'
  BY DisturbKeeps DEF IssueInv, Edited, InvalidatePreview
<1>5. Current'
  BY DEF Current, Edited
<1>6. SubmitOK'
  BY <1>0, SubmitRests, NoPreviewTyped DEF IssueInv, InvalidatePreview
<1> QED
  BY <1>1, <1>2, <1>3, <1>4, <1>5, <1>6 DEF IssueInv

-----------------------------------------------------------------------------
(* The form.                                                                *)

LEMMA TextTyped ==
    ASSUME NEW c \in AnyClaims
    PROVE  GuidedClaimsToJson(c) \in Texts
BY DEF GuidedClaimsToJson, AnyClaims, Claims, Texts

LEMMA EditKeeps == ASSUME IssueInv, Edit PROVE IssueInv'
<1> USE DEF IssueInv
<1>0. dirty = {} /\ form \in Forms
  BY DEF Edit, Ready, Types
<1>1. CASE \E s \in Pair \ {form.schema} : Edited([form EXCEPT !.schema = s], {"form", "schema"})
  <2> PICK s \in Pair \ {form.schema} : Edited([form EXCEPT !.schema = s], {"form", "schema"})
    BY <1>1
  <2> DEFINE f == [form EXCEPT !.schema = s]
  <2>1. f \in Forms /\ f.mode = form.mode /\ f.text = form.text /\ f.guided = form.guided
    BY <1>0 DEF Forms
  <2> QED
    BY <1>0, <2>1, EditedKeeps DEF Edit, TextSynced
<1>2. CASE \E t \in Pair \ {form.terms} : Edited([form EXCEPT !.terms = t], {"form"})
  <2> PICK t \in Pair \ {form.terms} : Edited([form EXCEPT !.terms = t], {"form"})
    BY <1>2
  <2> DEFINE f == [form EXCEPT !.terms = t]
  <2>1. f \in Forms /\ f.mode = form.mode /\ f.text = form.text /\ f.guided = form.guided
    BY <1>0 DEF Forms
  <2> QED
    BY <1>0, <2>1, EditedKeeps DEF Edit, TextSynced
<1>3. CASE \E s \in {"https", "local-test"} \ {form.storage} :
              Edited([form EXCEPT !.storage = s], {"form"})
  <2> PICK s \in {"https", "local-test"} \ {form.storage} :
              Edited([form EXCEPT !.storage = s], {"form"})
    BY <1>3
  <2> DEFINE f == [form EXCEPT !.storage = s]
  <2>1. f \in Forms /\ f.mode = form.mode /\ f.text = form.text /\ f.guided = form.guided
    BY <1>0 DEF Forms
  <2> QED
    BY <1>0, <2>1, EditedKeeps DEF Edit, TextSynced
<1>4. CASE Edited([form EXCEPT !.ack = ~@], {"form"})
  <2> DEFINE f == [form EXCEPT !.ack = ~@]
  <2>1. f \in Forms /\ f.mode = form.mode /\ f.text = form.text /\ f.guided = form.guided
    BY <1>0 DEF Forms
  <2> QED
    BY <1>0, <1>4, <2>1, EditedKeeps DEF Edit, TextSynced
<1>5. CASE /\ form.mode = "json"
           /\ \E c \in Claims, p \in BOOLEAN :
                 Edited([form EXCEPT !.text = [claims |-> c, pretty |-> p]], {"form"})
  <2> PICK c \in Claims, p \in BOOLEAN :
              Edited([form EXCEPT !.text = [claims |-> c, pretty |-> p]], {"form"})
    BY <1>5
  <2> DEFINE f == [form EXCEPT !.text = [claims |-> c, pretty |-> p]]
  <2>1. f \in Forms /\ f.mode = "json"
    BY <1>0, <1>5 DEF Forms, Texts
  <2> QED
    BY <2>1, EditedKeeps DEF Edit
<1>6. CASE \E c \in Claims \ {form.guided} : Edited([form EXCEPT !.guided = c], {"guided"})
  <2> PICK c \in Claims \ {form.guided} : Edited([form EXCEPT !.guided = c], {"guided"})
    BY <1>6
  <2> DEFINE f == [form EXCEPT !.guided = c]
  <2>1. f \in Forms
    BY <1>0 DEF Forms, AnyClaims
  <2> QED
    BY <2>1, EditedKeeps DEF Edit
<1> QED
  BY <1>1, <1>2, <1>3, <1>4, <1>5, <1>6 DEF Edit, Pair

LEMMA SelectKeeps == ASSUME IssueInv, SelectClaimsEditorMode PROVE IssueInv'
<1>0. form \in Forms
  BY DEF IssueInv, Types
<1>1. CASE form.mode = "guided"
  <2> DEFINE f == [form EXCEPT !.mode = "json", !.text = GuidedClaimsToJson(form.guided)]
  <2>1. f \in Forms /\ f.mode = "json"
    BY <1>0, TextTyped DEF Forms
  <2>2. Edited(f, {"form"}) /\ UNCHANGED <<revision, preview>>
    BY <1>1 DEF SelectClaimsEditorMode
  <2> QED
    BY <2>1, <2>2, EditedKeeps
<1>2. CASE form.mode # "guided"
  <2> DEFINE f == [form EXCEPT !.mode = "guided", !.guided = ClaimsObjectToGuidedClaims(form.text)]
  <2>1. f \in Forms
    BY <1>0 DEF Forms, ClaimsObjectToGuidedClaims, Texts, AnyClaims
  <2>2. Edited(f, {"form", "guided"}) /\ InvalidatePreview
    BY <1>2 DEF SelectClaimsEditorMode
  <2> QED
    BY <2>1, <2>2, EditedKeeps
<1> QED
  BY <1>1, <1>2

\* The wallet reports another account.
LEMMA AccountKeeps == ASSUME IssueInv, AccountChanged PROVE IssueInv'
<1>1. Types' /\ UNCHANGED <<sub, store, publish, now, preview, form>> /\ dirty' # {} /\ "form" \in dirty'
  BY DisturbTyped DEF IssueInv, Types, AccountChanged, Pair
<1>2. StoreOK'
  BY <1>1 DEF IssueInv, StoreOK
<1>3. TextSynced'
  BY <1>1 DEF IssueInv, TextSynced, AccountChanged
<1>4. BuildsOK'
  BY DisturbKeeps DEF IssueInv, AccountChanged
<1>5. Current'
  BY <1>1 DEF Current
<1>6. SubmitOK'
  BY <1>1, SubmitRests DEF IssueInv
<1> QED
  BY <1>1, <1>2, <1>3, <1>4, <1>5, <1>6 DEF IssueInv

\* The watchers run: the builds they stop were disturbed by what made them run.
LEMMA FlushKeeps == ASSUME IssueInv, Flush PROVE IssueInv'
<1> DEFINE cleared == "schema" \in dirty /\ form.schema # form.loaded
           f == IF cleared THEN [form EXCEPT !.guided = "none", !.loaded = 0] ELSE form
           changed == "guided" \in dirty \/ f.guided # form.guided
<1>0. form \in Forms /\ revision \in Nat /\ dirty # {}
  BY DEF IssueInv, Types, Flush
<1>1. f \in Forms /\ f.mode = form.mode /\ f.text = form.text
  BY <1>0 DEF Forms, AnyClaims
<1>2. form' = [f EXCEPT !.text = SyncedText(f, changed)] /\ dirty' = {}
      /\ revision' = revision + 1 /\ preview' = NoPreview
      /\ UNCHANGED <<account, build, load, sub, store, publish, host, now>>
  BY DEF Flush, Aside, InvalidatePreview
<1>3. SyncedText(f, changed) \in Texts
  <2>1. GuidedClaimsToJson(f.guided) \in Texts
    BY <1>1, TextTyped DEF Forms
  <2> QED
    BY <1>1, <2>1 DEF SyncedText, Forms
<1>4. form' \in Forms /\ form'.mode = f.mode /\ form'.guided = f.guided
      /\ form'.text = SyncedText(f, changed)
  <2> HIDE DEF f, changed
  <2> QED
    BY <1>1, <1>2, <1>3 DEF Forms
<1>5. Types'
  BY <1>0, <1>2, <1>4, NoPreviewTyped DEF IssueInv, Types
<1>6. StoreOK'
  BY <1>2 DEF IssueInv, StoreOK
<1>7. TextSynced'
  <2> SUFFICES ASSUME f.mode = "guided"
               PROVE  SyncedText(f, changed) = GuidedClaimsToJson(f.guided)
    BY <1>4 DEF TextSynced
  <2>1. CASE changed
    BY <2>1 DEF SyncedText
  <2>2. CASE ~changed
    BY <2>2, <1>1 DEF SyncedText, IssueInv, TextSynced
  <2> QED
    BY <2>1, <2>2
<1>8. BuildsOK'
  <2> SUFFICES ASSUME NEW b \in Builds
               PROVE  build[b].revision <= revision + 1 /\ (build[b].pc # "idle" => build[b].disturbed)
    BY <1>2 DEF IssueInv, BuildsOK, StorageReady
  <2>1. build[b].revision \in Nat
    BY DEF IssueInv, Types, BuildStates
  <2> QED
    BY <2>1, <1>0 DEF IssueInv, BuildsOK
<1>9. Current'
  <2> SUFFICES ASSUME NEW b \in Builds PROVE build[b].revision # revision + 1
    BY <1>2, NoPreviewTyped DEF Current
  <2>1. build[b].revision \in Nat
    BY DEF IssueInv, Types, BuildStates
  <2> QED
    BY <2>1, <1>0 DEF IssueInv, BuildsOK
<1>10. SubmitOK'
  BY <1>2, SubmitRests, NoPreviewTyped DEF IssueInv
<1> QED
  BY <1>5, <1>6, <1>7, <1>8, <1>9, <1>10 DEF IssueInv

\* The guided form of the schema is loaded, also into a form that a submission has read.
LEMMA LoadKeeps == ASSUME IssueInv, StartLoad \/ FinishLoad PROVE IssueInv'
<1>0. form \in Forms /\ load \in [pc : {"idle", "wait"}, schema : {0, 1, 2}]
  BY DEF IssueInv, Types
<1>1. CASE StartLoad
  <2>1. Types'
    BY <1>0, <1>1 DEF StartLoad, IssueInv, Types, Forms, Pair
  <2> QED
    BY <1>1, <2>1 DEF StartLoad, IssueInv, StoreOK, TextSynced, BuildsOK, StorageReady, Current,
       Described, Transaction, Payload, SubmitOK, PublicationProved, LinkInputs, LinksOfResult
<1>2. CASE FinishLoad /\ UNCHANGED <<form, dirty, revision, preview, build>>
  <2>1. Types'
    BY <1>2 DEF FinishLoad, NoLoad, IssueInv, Types
  <2> QED
    BY <1>2, <2>1 DEF FinishLoad, IssueInv, StoreOK, TextSynced, BuildsOK, StorageReady, Current,
       Described, Transaction, Payload, SubmitOK, PublicationProved, LinkInputs, LinksOfResult
<1>3. CASE FinishLoad /\ ~UNCHANGED <<form, dirty, revision, preview, build>>
  <2> DEFINE f == [form EXCEPT !.guided = ClaimsObjectToGuidedClaims(form.text),
                               !.loaded = load.schema, !.mode = "guided"]
  <2>1. f \in Forms
    BY <1>0 DEF Forms, ClaimsObjectToGuidedClaims, Texts, AnyClaims
  <2>2. form' = f /\ build' = Disturb /\ InvalidatePreview /\ load' = NoLoad
        /\ dirty' = dirty \cup {"guided"} \cup (IF form.mode = "json" THEN {"form"} ELSE {})
        /\ UNCHANGED <<account, sub, store, publish, host, now>>
    BY <1>3 DEF FinishLoad
  <2>3. "guided" \in dirty' /\ dirty' \subseteq {"form", "schema", "guided"}
    BY <2>2 DEF IssueInv, Types
  <2>4. Types'
    BY <2>1, <2>2, <2>3, DisturbTyped, NoPreviewTyped DEF IssueInv, Types, InvalidatePreview, NoLoad
  <2>5. StoreOK' /\ TextSynced' /\ Current'
    BY <2>2, <2>3 DEF IssueInv, StoreOK, TextSynced, Current
  <2>6. BuildsOK'
    BY <2>2, DisturbKeeps DEF IssueInv, InvalidatePreview
  <2>7. SubmitOK'
    BY <2>2, SubmitRests, NoPreviewTyped DEF IssueInv, InvalidatePreview
  <2> QED
    BY <2>4, <2>5, <2>6, <2>7 DEF IssueInv
<1> QED
  BY <1>1, <1>2, <1>3

-----------------------------------------------------------------------------
(* The store.                                                               *)

\* What the tabs are about to write is finite; the others have at most one record each.
LEMMA PendingFinite ==
    ASSUME NEW p, NEW W \in SUBSET Tabs
    PROVE  LET I == {p[tab].payload : tab \in W}
           IN  IsFiniteSet(W) /\ IsFiniteSet(I) /\ Cardinality(I) <= Cardinality(W)
               /\ Cardinality(I) \in Nat /\ Cardinality(W) \in Nat
<1> DEFINE I == {p[tab].payload : tab \in W}
           f == [tab \in W |-> p[tab].payload]
<1>1. IsFiniteSet(Tabs)
  BY Constants, FS_AddElement DEF Tabs
<1>2. IsFiniteSet(W)
  BY <1>1, FS_Subset
<1>3. f \in Surjection(W, I)
  BY DEF Surjection
<1>4. IsFiniteSet(I) /\ Cardinality(I) <= Cardinality(W)
  <2> HIDE DEF f, I
  <2> QED
    BY <1>2, <1>3, FS_Surjection
<1> QED
  BY <1>2, <1>4, FS_CardinalityType

LEMMA TabsButOne ==
    ASSUME NEW tab \in Tabs
    PROVE  Cardinality(Tabs \ {tab}) = Cardinality(OtherTabs)
<1>1. IsFiniteSet(Tabs) /\ Cardinality(Tabs) = Cardinality(OtherTabs) + 1
  BY Constants, FS_AddElement DEF Tabs
<1>2. Cardinality(Tabs \ {tab}) = Cardinality(Tabs) - 1
  BY <1>1, FS_RemoveElement
<1> QED
  BY <1>1, <1>2, Constants

\* Records and plans that are a part of the former ones fit too.
LEMMA PartFits ==
    ASSUME NEW D, NEW p, Fits(D, p), NEW E, NEW q, IsFiniteSet(E),
           E \cup Pending(q) \subseteq D \cup Pending(p)
    PROVE  Fits(E, q)
<1>1. IsFiniteSet(Pending(p))
  BY PendingFinite DEF Pending, Writers
<1>2. IsFiniteSet(D \cup Pending(p))
  BY <1>1, FS_Union DEF Fits
<1> DEFINE A == D \cup Pending(p)
           B == E \cup Pending(q)
<1>3. Cardinality(B) <= Cardinality(A) /\ Cardinality(A) \in Nat /\ Cardinality(B) \in Nat
  <2>1. IsFiniteSet(A) /\ B \in SUBSET A
    BY <1>2
  <2> HIDE DEF A, B
  <2> QED
    BY <2>1, FS_Subset, FS_CardinalityType
<1>4. Cardinality(A) <= Limit
  BY DEF Fits
<1>5. Cardinality(B) <= Limit
  <2> HIDE DEF A, B
  <2> QED
    BY <1>3, <1>4, Constants
<1> QED
  BY <1>5 DEF Fits

LEMMA StoreFits == ASSUME StoreOK PROVE Cardinality(DOMAIN store) <= Limit
<1>1. IsFiniteSet(DOMAIN store) /\ Fits(DOMAIN store, publish)
  BY DEF StoreOK, Fits
<1> DEFINE none == [tab \in Tabs |-> NoPublish]
<1>2. Pending(none) = {}
  BY DEF Pending, Writers, NoPublish
<1> HIDE DEF none
<1>3. Fits(DOMAIN store, none)
  BY <1>1, <1>2, PartFits
<1>4. DOMAIN store \cup Pending(none) = DOMAIN store
  BY <1>2
<1> QED
  BY <1>3, <1>4 DEF Fits

\* Nobody writes: records go, and time goes on.
LEMMA PartKeeps ==
    ASSUME StoreOK, now \in Nat, now' \in Nat, now <= now', publish' = publish,
           NEW D \in SUBSET (DOMAIN store), store' = [p \in D |-> store[p]]
    PROVE  StoreOK'
<1>1. DOMAIN store' = D /\ store' = [p \in DOMAIN store' |-> store'[p]]
      /\ \A p \in D : store'[p] = store[p]
  OBVIOUS
<1>2. ASSUME NEW r, RecordOK(r, now) PROVE RecordOK(r, now')
  <2>1. r.expires \in Int
    BY <1>2 DEF RecordOK, Records
  <2> QED
    BY <1>2, <2>1, Constants DEF RecordOK
<1>3. Sound(store', now')
  BY <1>1, <1>2 DEF StoreOK, Sound
<1>4. PublishOK(publish', now')
  BY <1>2 DEF StoreOK, PublishOK
<1>5. IsFiniteSet(D)
  BY FS_Subset DEF StoreOK, Fits
<1>6. Fits(D, publish)
  BY <1>5, PartFits DEF StoreOK
<1> QED
  BY <1>1, <1>3, <1>4, <1>6 DEF StoreOK

LEMMA EmptyKeeps ==
    ASSUME StoreOK, now \in Nat, store' = << >>, UNCHANGED <<publish, now>>
    PROVE  StoreOK'
<1>1. << >> = [p \in {} |-> store[p]]
  OBVIOUS
<1> QED
  BY <1>1, PartKeeps, SMTT(30)

\* removeExpired.
LEMMA RemovedIsPart ==
    LET D == {x \in DOMAIN store : ParseStoredPayload(store[x]) /\ store[x].expires > now}
    IN  RemoveExpired(store) = [p \in D |-> store[p]] /\ DOMAIN RemoveExpired(store) = D
BY DEF RemoveExpired

\* storeLocalTestPayload up to its setItem. A tab that finds room counts fewer records than
\* the limit, and one that finds the record is about to write no other one.
LEMMA FoundKeeps ==
    ASSUME StoreOK, now \in Nat, UNCHANGED now, NEW tab \in Tabs, NEW payload \in Payloads,
           StoreLocalTestPayload(tab, payload, TRUE)
    PROVE  StoreOK'
<1> DEFINE live == RemoveExpired(store)
           D == DOMAIN live
           found == Found(payload, TRUE)
<1>1. store' = live
  BY DEF StoreLocalTestPayload, InspectCanonicalPayload
<1>2. D \subseteq DOMAIN store /\ live = [p \in D |-> store[p]]
      /\ \A p \in D : live[p] = store[p]
  BY RemovedIsPart
<1>3. CASE ~Storable(payload, TRUE)
  <2>1. publish' = publish /\ now' \in Nat /\ now <= now'
    BY <1>3 DEF StoreLocalTestPayload
  <2> HIDE DEF live
  <2>2. D \in SUBSET (DOMAIN store) /\ store' = [p \in D |-> store[p]]
    BY <1>1, <1>2
  <2> HIDE DEF D
  <2> QED
    BY <2>1, <2>2, PartKeeps
<1>4. CASE Storable(payload, TRUE)
  <2>1. publish' = [publish EXCEPT ![tab] = found]
    BY <1>4 DEF StoreLocalTestPayload
  <2>2. payload \in D \/ Cardinality(D) < MaxEntries
    BY <1>4 DEF Storable, QuotaLeft
  <2>3. \A p \in D : RecordOK(live[p], now)
    BY <1>2 DEF StoreOK, Sound
  <2>4. /\ found \in Publications /\ found.payload = payload
        /\ found.step = "write" => RecordOK(found.record, now)
    <3>1. CASE payload \in D /\ live[payload].ack
      BY <3>1 DEF Found, Publications
    <3>2. CASE payload \in D /\ ~live[payload].ack
      BY <3>2, <2>3 DEF RecordOK
    <3>3. CASE payload \notin D
      <4>1. RecordOK(Record(now + Ttl, TRUE), now)
        BY Constants DEF Record, Records, RecordOK
      <4>2. found = [step |-> "write", payload |-> payload, record |-> Record(now + Ttl, TRUE)]
        BY <3>3 DEF Found
      <4> HIDE DEF found
      <4>3. /\ found.step = "write" /\ found.payload = payload
            /\ found.record = Record(now + Ttl, TRUE)
        BY <4>2
      <4>4. Record(now + Ttl, TRUE) \in Records
        BY <4>1 DEF RecordOK
      <4>5. found \in Publications
        BY <4>2, <4>4 DEF Publications
      <4> QED
        BY <4>1, <4>3, <4>5
    <3> QED
      BY <3>1, <3>2, <3>3
  <2> HIDE DEF found
  <2>5. publish' \in [Tabs -> Publications] /\ publish'[tab] = found
        /\ \A t \in Tabs \ {tab} : publish'[t] = publish[t]
    BY <2>1, <2>4 DEF StoreOK, PublishOK
  <2>6. Sound(store', now')
    BY <1>1, <1>2, <2>3 DEF Sound
  <2>7. PublishOK(publish', now')
    BY <2>4, <2>5 DEF StoreOK, PublishOK, Writers
  <2>8. IsFiniteSet(D)
    BY <1>2, FS_Subset DEF StoreOK, Fits
  <2>9. Fits(D, publish')
    <3>1. CASE payload \in D
      <4>1. Pending(publish') \subseteq Pending(publish) \cup {payload}
        BY <2>4, <2>5 DEF Pending, Writers
      <4> HIDE DEF D
      <4>2. D \cup Pending(publish') \subseteq DOMAIN store \cup Pending(publish)
        BY <3>1, <4>1, <1>2
      <4> QED
        BY <2>8, <4>2, PartFits DEF StoreOK
    <3>2. CASE Cardinality(D) < MaxEntries
      <4> DEFINE W == Writers(publish) \ {tab}
                 I == {publish[t].payload : t \in W}
                 A == D \cup {payload}
      <4>1. Pending(publish') \subseteq I \cup {payload}
        BY <2>4, <2>5 DEF Pending, Writers
      <4>2. W \in SUBSET (Tabs \ {tab})
        BY DEF Writers
      <4>3. IsFiniteSet(I) /\ Cardinality(I) \in Nat /\ Cardinality(I) <= Cardinality(OtherTabs)
        <5>1. IsFiniteSet(W) /\ IsFiniteSet(I) /\ Cardinality(I) <= Cardinality(W)
              /\ Cardinality(I) \in Nat /\ Cardinality(W) \in Nat
          BY <4>2, PendingFinite
        <5>2. IsFiniteSet(Tabs \ {tab})
          BY Constants, FS_AddElement, FS_RemoveElement DEF Tabs
        <5>3. Cardinality(W) <= Cardinality(Tabs \ {tab})
          <6> HIDE DEF W
          <6> QED
            BY <4>2, <5>2, FS_Subset
        <5>4. Cardinality(W) <= Cardinality(OtherTabs)
          BY <5>3, TabsButOne
        <5> HIDE DEF I, W
        <5> QED
          BY <5>1, <5>4, Constants
      <4>4. IsFiniteSet(A) /\ Cardinality(A) \in Nat /\ Cardinality(A) <= MaxEntries
        <5> HIDE DEF D
        <5>1. Cardinality(D) \in Nat
          BY <2>8, FS_CardinalityType
        <5>2. IsFiniteSet(A) /\ Cardinality(A) = IF payload \in D THEN Cardinality(D) ELSE Cardinality(D) + 1
          BY <2>8, FS_AddElement
        <5> HIDE DEF A
        <5> QED
          BY <5>1, <5>2, <3>2, Constants
      <4> HIDE DEF I, A
      <4>5. IsFiniteSet(A \cup I) /\ Cardinality(A \cup I) <= Limit /\ Cardinality(A \cup I) \in Nat
        <5>1. /\ IsFiniteSet(A \cup I)
              /\ Cardinality(A \cup I) = Cardinality(A) + Cardinality(I) - Cardinality(A \cap I)
          BY <4>3, <4>4, FS_Union
        <5>2. Cardinality(A \cap I) \in Nat
          <6>1. IsFiniteSet(A \cap I)
            BY <4>4, FS_Subset
          <6> QED
            BY <6>1, FS_CardinalityType
        <5>3. Cardinality(A \cup I) \in Nat
          BY <5>1, FS_CardinalityType
        <5> QED
          BY <5>1, <5>2, <5>3, <4>3, <4>4, Constants DEF Limit
      <4>6. (D \cup Pending(publish')) \in SUBSET (A \cup I)
        BY <4>1 DEF A
      <4> DEFINE B == D \cup Pending(publish')
      <4>7. Cardinality(B) <= Cardinality(A \cup I) /\ Cardinality(B) \in Nat
        <5> HIDE DEF B
        <5> QED
          BY <4>5, <4>6, FS_Subset, FS_CardinalityType DEF B
      <4>8. Cardinality(B) <= Limit
        <5> HIDE DEF B
        <5> QED
          BY <4>5, <4>7, Constants
      <4> QED
        BY <2>8, <4>8 DEF Fits
    <3> QED
      BY <2>2, <3>1, <3>2
  <2> QED
    BY <1>1, <2>6, <2>7, <2>9 DEF StoreOK
<1> QED
  BY <1>3, <1>4

\* A tab goes on to another step of its publication.
LEMMA StepTyped ==
    ASSUME StoreOK, NEW tab \in Tabs, NEW n \in Publications, n.step # "write",
           publish' = [publish EXCEPT ![tab] = n], UNCHANGED now
    PROVE  PublishOK(publish', now') /\ Writers(publish') = Writers(publish) \ {tab}
           /\ \A t \in Writers(publish') : publish'[t] = publish[t]
<1>1. publish' \in [Tabs -> Publications] /\ publish'[tab] = n
      /\ \A t \in Tabs \ {tab} : publish'[t] = publish[t]
  BY DEF StoreOK, PublishOK
<1> QED
  BY <1>1 DEF StoreOK, PublishOK, Writers

\* Its setItem writes what was counted, whatever is there by now.
LEMMA SetItemKeeps ==
    ASSUME StoreOK, now \in Nat, UNCHANGED now, NEW tab \in Tabs, SetItem(tab)
    PROVE  StoreOK'
<1> DEFINE payload == publish[tab].payload
           r == publish[tab].record
           n == [publish[tab] EXCEPT !.step = "read", !.record = None]
           E == DOMAIN store \cup {payload}
<1>1. /\ publish[tab] \in Publications /\ publish[tab].step = "write" /\ tab \in Writers(publish)
      /\ store' = [p \in E |-> IF p = payload THEN r ELSE store[p]]
      /\ publish' = [publish EXCEPT ![tab] = n]
  BY DEF SetItem, StoreOK, PublishOK, Writers
<1>2. n \in Publications /\ n.step = "read"
  BY <1>1 DEF Publications
<1> HIDE DEF n
<1>3. /\ PublishOK(publish', now') /\ Writers(publish') = Writers(publish) \ {tab}
      /\ \A t \in Writers(publish') : publish'[t] = publish[t]
  BY <1>1, <1>2, StepTyped
<1>4. RecordOK(r, now)
  BY <1>1 DEF StoreOK, PublishOK
<1>5. DOMAIN store' = E /\ store' = [p \in DOMAIN store' |-> store'[p]]
      /\ \A p \in E : store'[p] = IF p = payload THEN r ELSE store[p]
  <2> HIDE DEF r, payload, E
  <2> QED
    BY <1>1
<1>6. Sound(store', now')
  <2> HIDE DEF r
  <2> QED
    BY <1>4, <1>5 DEF StoreOK, Sound
<1>7. IsFiniteSet(E)
  BY FS_AddElement DEF StoreOK, Fits
<1>8. E \cup Pending(publish') \subseteq DOMAIN store \cup Pending(publish)
  BY <1>1, <1>3, ZenonT(40) DEF Pending
<1>9. Fits(E, publish')
  BY <1>7, <1>8, PartFits DEF StoreOK
<1> QED
  BY <1>3, <1>5, <1>6, <1>9 DEF StoreOK

LEMMA NoPublishTyped == NoPublish \in Publications /\ NoPublish.step = "none"
BY DEF NoPublish, Publications

\* A tab's publication ends, or has not begun.
LEMMA ReturnKeeps ==
    ASSUME StoreOK, now \in Nat, UNCHANGED now, NEW tab \in Tabs,
           publish' = [publish EXCEPT ![tab] = NoPublish],
           NEW D \in SUBSET (DOMAIN store), store' = [p \in D |-> store[p]]
    PROVE  StoreOK'
<1>1. /\ PublishOK(publish', now') /\ Writers(publish') = Writers(publish) \ {tab}
      /\ \A t \in Writers(publish') : publish'[t] = publish[t]
  BY NoPublishTyped, StepTyped
<1>2. DOMAIN store' = D /\ store' = [p \in DOMAIN store' |-> store'[p]]
      /\ \A p \in D : store'[p] = store[p]
  OBVIOUS
<1>3. Sound(store', now')
  BY <1>2 DEF StoreOK, Sound
<1>4. IsFiniteSet(D)
  BY FS_Subset DEF StoreOK, Fits
<1>5. D \cup Pending(publish') \subseteq DOMAIN store \cup Pending(publish)
  BY <1>1 DEF Pending
<1>6. Fits(D, publish')
  BY <1>4, <1>5, PartFits DEF StoreOK
<1> QED
  BY <1>1, <1>2, <1>3, <1>6 DEF StoreOK

\* readLocalTestPayload.
LEMMA ReadIsPart ==
    ASSUME NEW payload, StoreOK
    PROVE  \E D \in SUBSET (DOMAIN store) : AfterRead(payload) = [p \in D |-> store[p]]
<1>1. store = [p \in DOMAIN store |-> store[p]]
  BY DEF StoreOK, Sound
<1>2. CASE AfterRead(payload) = store
  BY <1>1, <1>2
<1>3. CASE AfterRead(payload) = [p \in DOMAIN store \ {payload} |-> store[p]]
  BY <1>3
<1> QED
  BY <1>2, <1>3 DEF AfterRead

LEMMA ReadBackKeeps ==
    ASSUME StoreOK, now \in Nat, UNCHANGED now, NEW tab \in Tabs, ReadBack(tab)
    PROVE  StoreOK'
<1> PICK D \in SUBSET (DOMAIN store) : AfterRead(publish[tab].payload) = [p \in D |-> store[p]]
  BY ReadIsPart
<1> QED
  BY ReturnKeeps DEF ReadBack

\* Only the store has changed, or the world around it.
LEMMA StoreKeeps ==
    ASSUME IssueInv, UNCHANGED <<form, account, dirty, revision, preview, build, load, sub>>,
           host' \in Payloads \cup {None}, now' \in Nat, StoreOK'
    PROVE  IssueInv'
<1>1. Types' /\ StoreOK'
  BY DEF IssueInv, Types
<1> QED
  BY <1>1 DEF IssueInv, TextSynced, BuildsOK, StorageReady, Current, Described, Transaction,
     Payload, SubmitOK, PublicationProved, LinkInputs, LinksOfResult

LEMMA ClearKeeps == ASSUME IssueInv, ClearLocalPayloadStore PROVE IssueInv'
<1>1. /\ store' = << >> /\ build' = Disturb /\ revision' = revision + 1 /\ preview' = NoPreview
      /\ UNCHANGED <<form, account, dirty, load, sub, publish, host, now>> /\ dirty = {}
  BY DEF ClearLocalPayloadStore, InvalidatePreview, Ready
<1>2. Types'
  BY <1>1, DisturbTyped, NoPreviewTyped DEF IssueInv, Types
<1>3. StoreOK'
  BY <1>1, EmptyKeeps DEF IssueInv, Types
<1>4. TextSynced'
  BY <1>1 DEF IssueInv, TextSynced
<1>5. BuildsOK'
  BY <1>1, DisturbKeeps DEF IssueInv
<1>6. Current'
  <2> SUFFICES ASSUME NEW b \in Builds PROVE build'[b].revision # revision + 1
    BY <1>1, NoPreviewTyped DEF Current
  <2>1. build[b].revision \in Nat /\ revision \in Nat
    BY DEF IssueInv, Types, BuildStates
  <2>2. build[b].revision <= revision /\ build'[b].revision = build[b].revision
    BY <1>1, DisturbTyped DEF IssueInv, BuildsOK
  <2> QED
    BY <2>1, <2>2
<1>7. SubmitOK'
  BY <1>1, SubmitRests, NoPreviewTyped DEF IssueInv
<1> QED
  BY <1>2, <1>3, <1>4, <1>5, <1>6, <1>7 DEF IssueInv

\* The records of the other tabs are those that the page might publish.
LEMMA OtherTabKeeps ==
    ASSUME IssueInv, NEW tab \in OtherTabs, OtherTabStores(tab) \/ OtherTabGoesOn(tab)
    PROVE  IssueInv'
<1>0. /\ Types /\ now \in Nat /\ StoreOK /\ tab \in Tabs
      /\ UNCHANGED <<form, account, dirty, revision, preview, build, load, sub, host, now>>
  BY DEF IssueInv, Types, OtherTabStores, OtherTabGoesOn, Others, Tabs
<1>1. StoreOK'
  <2>1. CASE OtherTabStores(tab)
    <3> PICK p \in {[account |-> 1, schema |-> s, terms |-> 1, claims |-> "plain"] : s \in Pair} :
                StoreLocalTestPayload(tab, p, TRUE)
      BY <2>1 DEF OtherTabStores, Pair
    <3>1. p \in Payloads
      BY DEF Payloads, Pair, AnyClaims, Claims
    <3> QED
      BY <1>0, <3>1, FoundKeeps
  <2>2. CASE OtherTabGoesOn(tab)
    BY <1>0, <2>2, SetItemKeeps, ReadBackKeeps DEF OtherTabGoesOn
  <2> QED
    BY <2>1, <2>2
<1> QED
  BY <1>0, <1>1, StoreKeeps DEF Types

LEMMA OutsideKeeps ==
    ASSUME IssueInv, HostChanges \/ OtherTabClears \/ Damage \/ Tick
    PROVE  IssueInv'
<1>0. /\ Types /\ now \in Nat /\ StoreOK /\ preview \in Previews
      /\ UNCHANGED <<form, account, dirty, revision, preview, build, load, sub>>
  BY DEF IssueInv, Types, HostChanges, OtherTabClears, Damage, Tick, Others
<1>1. CASE HostChanges
  <2>1. preview.payload \in Payloads \cup {None}
    BY <1>0 DEF Previews
  <2>2. [account |-> 1, schema |-> 1, terms |-> 1, claims |-> "plain"] \in Payloads
    BY DEF Payloads, Pair, AnyClaims, Claims
  <2>3. host' \in Payloads \cup {None} /\ UNCHANGED <<store, publish, now>>
    BY <1>1, <2>1, <2>2 DEF HostChanges
  <2> QED
    BY <1>0, <2>3, StoreKeeps DEF StoreOK
<1>2. CASE OtherTabClears
  BY <1>0, <1>2, EmptyKeeps, StoreKeeps DEF OtherTabClears, Types
<1>3. CASE Damage
  <2> PICK p \in DOMAIN store : store' = [store EXCEPT ![p].valid = FALSE]
    BY <1>3 DEF Damage
  <2> DEFINE r == [store[p] EXCEPT !.valid = FALSE]
  <2>1. RecordOK(store[p], now)
    BY <1>0 DEF StoreOK, Sound
  <2>2. RecordOK(r, now)
    BY <2>1 DEF Records, RecordOK
  <2>3. store' = [store EXCEPT ![p] = r]
    OBVIOUS
  <2> HIDE DEF r
  <2>4. store' = [q \in DOMAIN store |-> IF q = p THEN r ELSE store[q]]
    BY <2>3
  <2>5. DOMAIN store' = DOMAIN store /\ store' = [q \in DOMAIN store' |-> store'[q]]
        /\ \A q \in DOMAIN store' : store'[q] = IF q = p THEN r ELSE store[q]
    BY <2>4
  <2>6. StoreOK'
    BY <1>0, <1>3, <2>2, <2>5 DEF StoreOK, Sound, Damage
  <2> QED
    BY <1>0, <1>3, <2>6, StoreKeeps DEF Damage, Types
<1>4. CASE Tick
  <2>1. now' = now + 1 /\ UNCHANGED <<host, store, publish>>
    BY <1>4 DEF Tick
  <2>2. [p \in DOMAIN store |-> store[p]] = store
    BY <1>0 DEF StoreOK, Sound
  <2>3. StoreOK'
    BY <1>0, <2>1, <2>2, PartKeeps
  <2> QED
    BY <1>0, <2>1, <2>3, StoreKeeps DEF Types
<1> QED
  BY <1>1, <1>2, <1>3, <1>4

-----------------------------------------------------------------------------
(* buildPreview.                                                            *)

\* A build is settled one way or another; the preview it may have written loses its
\* transaction.
LEMMA FailKeeps ==
    ASSUME IssueInv, NEW b \in Builds, NEW error \in {"changed", "refused", "request"},
           FailBuild(b, error), build[b].pc # "idle",
           error = "changed" => build[b].revision # revision,
           UNCHANGED <<form, account, dirty, revision, load, sub, host, now>>, StoreOK'
    PROVE  IssueInv'
<1> DEFINE n == [NoBuild EXCEPT !.error = error, !.disturbed = build[b].disturbed]
<1>0. build \in [Builds -> BuildStates] /\ preview \in Previews /\ revision \in Nat
  BY DEF IssueInv, Types
<1>1. build' = [build EXCEPT ![b] = n] /\ preview' = [preview EXCEPT !.tx = None]
  BY DEF FailBuild
<1>2. n \in BuildStates /\ n.pc = "idle" /\ n.revision = 0 /\ n.error = error
      /\ n.disturbed = build[b].disturbed
  <2>1. build[b].disturbed \in BOOLEAN
    BY <1>0 DEF BuildStates
  <2> QED
    BY <2>1 DEF NoBuild, BuildStates
<1>3. build' \in [Builds -> BuildStates] /\ build'[b] = n
      /\ \A c \in Builds \ {b} : build'[c] = build[c]
  <2> HIDE DEF n
  <2> QED
    BY <1>0, <1>1, <1>2
<1> HIDE DEF n
<1>4. preview' \in Previews /\ preview'.tx = None /\ preview'.links = preview.links
      /\ preview'.result = preview.result
  BY <1>0, <1>1 DEF Previews
<1>5. Types'
  BY <1>3, <1>4 DEF IssueInv, Types
<1>6. TextSynced'
  BY DEF IssueInv, TextSynced
<1>7. BuildsOK'
  BY <1>0, <1>2, <1>3 DEF IssueInv, BuildsOK, StorageReady
<1>8. Current'
  <2>1. Transaction(Described)' = Transaction(Described)
    BY DEF Transaction, Described, Payload
  <2>2. \A c \in Builds : build'[c].pc # "idle" => build'[c] = build[c]
    BY <1>2, <1>3
  <2> QED
    BY <1>4, <2>1, <2>2 DEF IssueInv, Current, Transaction, Payload
<1>9. SubmitOK'
  BY <1>4, SubmitRests DEF IssueInv
<1> QED
  BY <1>5, <1>6, <1>7, <1>8, <1>9 DEF IssueInv

LEMMA BuildBegun ==
    ASSUME NEW r \in Nat, NEW s \in Snaps
    PROVE  LET n == [NoBuild EXCEPT !.pc = "schema", !.revision = r, !.snap = s]
           IN n \in BuildStates /\ n.error = "none" /\ n.revision = r /\ n.snap = s
<1>1. NoBuild \in BuildStates /\ NoBuild.error = "none"
  BY DEF NoBuild, BuildStates
<1> QED
  BY <1>1 DEF BuildStates

\* A build begins. In guided mode the text is already the one it writes, so nothing
\* becomes dirty.
LEMMA StartBuildKeeps == ASSUME IssueInv, NEW b \in Builds, StartBuild(b) PROVE IssueInv'
<1> DEFINE text == IF form.mode = "guided" THEN GuidedClaimsToJson(form.guided) ELSE form.text
           readable == form.mode = "guided" =>
                          form.loaded = form.schema /\ ~Incomplete(form.guided)
           going == readable /\ StorageReady(Described)
           started == [NoBuild EXCEPT !.pc = "schema", !.revision = revision + 1,
                                      !.snap = Described]
           refused == [NoBuild EXCEPT !.error = "refused"]
           n == IF going THEN started ELSE refused
<1>0. form \in Forms /\ revision \in Nat /\ dirty = {} /\ Types
  BY DEF IssueInv, Types, StartBuild, Ready
<1>1. text = form.text
  BY <1>0 DEF IssueInv, TextSynced
<1>2. form' = form
  <2>1. form' = IF readable THEN [form EXCEPT !.text = text] ELSE form
    BY DEF StartBuild
  <2>2. [form EXCEPT !.text = form.text] = form
    BY <1>0 DEF Forms
  <2> HIDE DEF text, readable
  <2> QED
    BY <1>1, <2>1, <2>2
<1>3. dirty' = {}
  BY <1>2 DEF StartBuild
<1>4. build' = [Disturb EXCEPT ![b] = n] /\ revision' = revision + 1 /\ preview' = NoPreview
      /\ UNCHANGED <<account, load, sub, store, publish, host, now>>
  BY DEF StartBuild, InvalidatePreview
<1>5. /\ n \in BuildStates /\ n.error # "changed" /\ n.revision <= revision + 1
      /\ n.pc # "idle" => n.snap = Described /\ StorageReady(Described)
                          /\ n.revision = revision + 1
  <2>1. Described \in Snaps
    BY <1>0, DescribedTyped
  <2>2. /\ started \in BuildStates /\ started.error = "none"
        /\ started.revision = revision + 1 /\ started.snap = Described
    <3>1. revision + 1 \in Nat
      BY <1>0 DEF Types
    <3> QED
      BY <2>1, <3>1, BuildBegun
  <2>3. refused \in BuildStates /\ refused.error = "refused" /\ refused.revision = 0
        /\ refused.pc = "idle"
    BY DEF NoBuild, BuildStates
  <2> HIDE DEF started, refused, readable
  <2> QED
    BY <1>0, <2>2, <2>3
<1> HIDE DEF n
<1>6. build' \in [Builds -> BuildStates] /\ build'[b] = n
      /\ \A c \in Builds \ {b} : build'[c] = Disturb[c]
  BY <1>0, <1>4, <1>5, DisturbTyped
<1>7. Types'
  BY <1>0, <1>2, <1>3, <1>4, <1>6, NoPreviewTyped DEF Types
<1>8. StoreOK' /\ TextSynced'
  BY <1>2, <1>3, <1>4, <1>0 DEF IssueInv, StoreOK, TextSynced
<1>9. BuildsOK'
  <2> SUFFICES ASSUME NEW c \in Builds
               PROVE  /\ build'[c].revision <= revision + 1
                      /\ build'[c].error = "changed" => build'[c].disturbed
                      /\ build'[c].pc # "idle" =>
                            /\ build'[c].snap \in Snaps /\ StorageReady(build'[c].snap)
                            /\ build'[c].revision # revision + 1 => build'[c].disturbed
    BY <1>3, <1>4 DEF BuildsOK, StorageReady
  <2>1. CASE c = b
    BY <2>1, <1>0, <1>5, <1>6, DescribedTyped
  <2>2. CASE c # b
    <3>1. build[c].revision \in Nat /\ build[c].revision <= revision + 1
      BY <1>0 DEF IssueInv, BuildsOK, Types, BuildStates
    <3> QED
      BY <2>2, <3>1, <1>0, <1>6, DisturbTyped DEF IssueInv, BuildsOK
  <2> QED
    BY <2>1, <2>2
<1>10. Current'
  <2>1. Described' = Described
    BY <1>2, <1>4 DEF Described
  <2>2. ASSUME NEW c \in Builds, build'[c].pc # "idle", build'[c].revision = revision + 1
        PROVE  build'[c].snap = Described
    <3>1. build[c].revision \in Nat /\ build[c].revision <= revision
      BY <1>0 DEF IssueInv, BuildsOK, Types, BuildStates
    <3>2. c = b
      BY <2>2, <3>1, <1>0, <1>6, DisturbTyped
    <3> QED
      BY <2>2, <3>2, <1>5, <1>6
  <2> QED
    BY <1>4, <2>1, <2>2, NoPreviewTyped DEF Current, Transaction, Payload
<1>11. SubmitOK'
  BY <1>4, SubmitRests, NoPreviewTyped DEF IssueInv
<1> QED
  BY <1>7, <1>8, <1>9, <1>10, <1>11 DEF IssueInv

LEMMA PayloadTyped ==
    ASSUME NEW snap \in Snaps
    PROVE  Payload(snap) \in Payloads /\ Transaction(snap) \in Txs
           /\ Transaction(snap).payload = Payload(snap)
BY DEF Snaps, Payload, Payloads, Transaction, Txs

\* A build goes on to its next await.
LEMMA BuildMoves ==
    ASSUME IssueInv, NEW b \in Builds, NEW p \in {"prepare", "publish"}, build[b].pc # "idle",
           build' = [build EXCEPT ![b].pc = p],
           preview' \in Previews, preview'.tx = preview.tx, preview'.links = preview.links,
           preview'.result = preview.result,
           UNCHANGED <<form, account, dirty, revision, load, sub, host, now>>, StoreOK'
    PROVE  IssueInv'
<1>1. build \in [Builds -> BuildStates]
  BY DEF IssueInv, Types
<1>2. build' \in [Builds -> BuildStates]
      /\ \A c \in Builds : /\ build'[c].revision = build[c].revision
                           /\ build'[c].snap = build[c].snap
                           /\ build'[c].disturbed = build[c].disturbed
                           /\ build'[c].error = build[c].error
                           /\ build'[c].pc # "idle" => build[c].pc # "idle"
  <2> DEFINE n == [build[b] EXCEPT !.pc = p]
  <2>1. n \in BuildStates /\ n.revision = build[b].revision /\ n.snap = build[b].snap
        /\ n.disturbed = build[b].disturbed /\ n.error = build[b].error
    BY <1>1 DEF BuildStates
  <2>2. build' = [build EXCEPT ![b] = n]
    OBVIOUS
  <2> HIDE DEF n
  <2> QED
    BY <1>1, <2>1, <2>2
<1>3. Types' /\ TextSynced'
  BY <1>2 DEF IssueInv, Types, TextSynced
<1>4. BuildsOK'
  BY <1>2 DEF IssueInv, BuildsOK, StorageReady
<1>5. Current'
  BY <1>2 DEF IssueInv, Current, Transaction, Payload, Described
<1>6. SubmitOK'
  BY SubmitRests DEF IssueInv
<1> QED
  BY <1>3, <1>4, <1>5, <1>6 DEF IssueInv

LEMMA EncodeKeeps == ASSUME IssueInv, NEW b \in Builds, EncodePayload(b) PROVE IssueInv'
<1>0. build[b].pc = "schema" /\ build[b].pc # "idle"
      /\ UNCHANGED <<form, account, dirty, revision, load, sub, store, publish, host, now>>
  BY DEF EncodePayload
<1>1. StoreOK'
  BY <1>0 DEF IssueInv, StoreOK
<1>2. CASE build[b].revision # revision
  BY <1>0, <1>1, <1>2, FailKeeps DEF EncodePayload
<1>3. CASE build[b].revision = revision /\ Incomplete(build[b].snap.claims)
  BY <1>0, <1>1, <1>3, FailKeeps DEF EncodePayload
<1>4. CASE build[b].revision = revision /\ ~Incomplete(build[b].snap.claims)
  <2>1. preview' = [preview EXCEPT !.payload = Payload(build[b].snap)]
        /\ build' = [build EXCEPT ![b].pc = "prepare"]
    BY <1>4 DEF EncodePayload
  <2>2. preview \in Previews /\ Payload(build[b].snap) \in Payloads
    BY <1>0, PayloadTyped DEF IssueInv, Types, BuildsOK
  <2>3. preview' \in Previews /\ preview'.tx = preview.tx /\ preview'.links = preview.links
        /\ preview'.result = preview.result
    BY <2>1, <2>2 DEF Previews
  <2> QED
    BY <1>0, <1>1, <2>1, <2>3, BuildMoves
<1> QED
  BY <1>2, <1>3, <1>4

\* A transaction is shown only by a build of the present revision.
LEMMA ShowBuildKeeps ==
    ASSUME IssueInv, NEW b \in Builds, ShowBuild(b), build[b].pc # "idle",
           build[b].revision = revision,
           UNCHANGED <<form, account, dirty, revision, load, sub, host, now>>, StoreOK'
    PROVE  IssueInv'
<1> DEFINE snap == build[b].snap
<1>1. snap \in Snaps
  BY DEF IssueInv, BuildsOK
<1>2. build \in [Builds -> BuildStates] /\ preview \in Previews /\ revision \in Nat
  BY DEF IssueInv, Types
<1>3. preview' \in Previews /\ preview'.tx = Transaction(snap)
      /\ preview'.links = preview.links /\ preview'.result = preview.result
  BY <1>1, <1>2, PayloadTyped DEF Previews, ShowBuild
<1>4. /\ build' \in [Builds -> BuildStates] /\ build'[b] = NoBuild
      /\ \A c \in Builds \ {b} : build'[c] = build[c]
      /\ NoBuild.pc = "idle" /\ NoBuild.revision = 0 /\ NoBuild.error = "none"
  BY <1>2 DEF NoBuild, BuildStates, ShowBuild
<1>5. Types' /\ TextSynced'
  BY <1>3, <1>4 DEF IssueInv, Types, TextSynced
<1>6. BuildsOK'
  BY <1>2, <1>4 DEF IssueInv, BuildsOK, StorageReady
<1>7. Current'
  <2>1. Transaction(Described)' = Transaction(Described)
    BY DEF Transaction, Described, Payload
  <2>2. dirty = {} => Transaction(snap) = Transaction(Described)
    BY DEF IssueInv, Current
  <2>3. \A c \in Builds : build'[c].pc # "idle" => build'[c] = build[c]
    BY <1>4
  <2> HIDE DEF snap
  <2> QED
    BY <1>3, <2>1, <2>2, <2>3 DEF IssueInv, Current, Transaction, Payload
<1>8. SubmitOK'
  BY <1>3, SubmitRests DEF IssueInv
<1> QED
  BY <1>5, <1>6, <1>7, <1>8 DEF IssueInv

LEMMA FinishBuildKeeps == ASSUME IssueInv, NEW b \in Builds, FinishBuild(b) PROVE IssueInv'
<1> DEFINE snap == build[b].snap
<1>0. /\ build[b].pc # "idle" /\ now \in Nat /\ preview \in Previews
      /\ UNCHANGED <<form, account, dirty, revision, load, sub, host, now>>
  BY DEF FinishBuild, IssueInv, Types
<1>1. CASE build[b].revision # revision /\ FailBuild(b, "changed") /\ UNCHANGED <<store, publish>>
  <2>1. StoreOK'
    BY <1>0, <1>1 DEF IssueInv, StoreOK
  <2> QED
    BY <1>0, <1>1, <2>1, FailKeeps
<1>2. CASE build[b].revision = revision /\ ShowBuild(b) /\ UNCHANGED <<store, publish>>
  <2>1. StoreOK'
    BY <1>0, <1>2 DEF IssueInv, StoreOK
  <2> QED
    BY <1>0, <1>2, <2>1, ShowBuildKeeps
<1>3. CASE /\ build[b].revision = revision /\ snap.storage = "local-test"
           /\ StoreLocalTestPayload("page", Payload(snap), snap.ack)
           /\ IF Storable(Payload(snap), snap.ack)
              THEN build' = [build EXCEPT ![b].pc = "publish"] /\ UNCHANGED preview
              ELSE FailBuild(b, "refused")
  <2>1. snap \in Snaps /\ snap.ack = TRUE /\ Payload(snap) \in Payloads
    <3>1. snap \in Snaps /\ StorageReady(snap)
      BY <1>0 DEF IssueInv, BuildsOK
    <3> QED
      BY <1>3, <3>1, PayloadTyped DEF StorageReady, Snaps
  <2>2. StoreOK'
    BY <1>0, <1>3, <2>1, FoundKeeps DEF IssueInv, Tabs
  <2>3. CASE build' = [build EXCEPT ![b].pc = "publish"] /\ UNCHANGED preview
    BY <1>0, <2>2, <2>3, BuildMoves
  <2>4. CASE FailBuild(b, "refused")
    BY <1>0, <2>2, <2>4, FailKeeps
  <2> QED
    BY <1>3, <2>3, <2>4
<1> QED
  BY <1>1, <1>2, <1>3 DEF FinishBuild

LEMMA PublishBuildKeeps == ASSUME IssueInv, NEW b \in Builds, PublishBuild(b) PROVE IssueInv'
<1>0. /\ now \in Nat /\ host \in Payloads \cup {None} /\ SetItem("page") /\ "page" \in Tabs
      /\ UNCHANGED <<form, account, dirty, revision, preview, build, load, sub, host, now>>
  BY DEF PublishBuild, IssueInv, Types, Tabs
<1>1. StoreOK'
  BY <1>0, SetItemKeeps DEF IssueInv
<1> QED
  BY <1>0, <1>1, StoreKeeps

\* No revision was made while the build published.
LEMMA ReadBackBuildKeeps ==
    ASSUME IssueInv, PublishingOK, NEW b \in Builds, ReadBackBuild(b)
    PROVE  IssueInv'
<1>0. /\ build[b].pc # "idle" /\ build[b].revision = revision /\ now \in Nat
      /\ ReadBack("page") /\ "page" \in Tabs
      /\ UNCHANGED <<form, account, dirty, revision, load, sub, host, now>>
  BY DEF ReadBackBuild, PublishingOK, IssueInv, Types, Tabs
<1>1. StoreOK'
  BY <1>0, ReadBackKeeps DEF IssueInv
<1>2. CASE ShowBuild(b)
  BY <1>0, <1>1, <1>2, ShowBuildKeeps
<1>3. CASE FailBuild(b, "refused")
  BY <1>0, <1>1, <1>3, FailKeeps
<1> QED
  BY <1>2, <1>3 DEF ReadBackBuild

LEMMA BuildFailsKeeps == ASSUME IssueInv, NEW b \in Builds, BuildFails(b) PROVE IssueInv'
<1>0. /\ build[b].pc # "idle" /\ FailBuild(b, "request") /\ now \in Nat /\ "page" \in Tabs
      /\ publish' = [publish EXCEPT !["page"] = NoPublish] /\ store' = store
      /\ UNCHANGED <<form, account, dirty, revision, load, sub, host, now>>
  BY DEF BuildFails, IssueInv, Types, Tabs
<1>1. store' = [p \in DOMAIN store |-> store[p]]
  BY <1>0 DEF IssueInv, StoreOK, Sound
<1>2. StoreOK'
  BY <1>0, <1>1, ReturnKeeps DEF IssueInv
<1> QED
  BY <1>0, <1>2, FailKeeps

-----------------------------------------------------------------------------
(* submit.                                                                  *)

\* Only the submission moves, and what its own steps write of the preview and the
\* store.
LEMMA SubmitKeeps ==
    ASSUME IssueInv, Page, UNCHANGED host, sub' \in Submits, preview' \in Previews,
           preview'.tx \in {preview.tx, None}, StoreOK', SubmitOK'
    PROVE  IssueInv'
<1>1. UNCHANGED <<form, account, dirty, revision, build, load, host, now>>
  BY DEF Page
<1>2. Types'
  BY <1>1 DEF IssueInv, Types
<1> QED
  BY <1>1, <1>2 DEF IssueInv, TextSynced, BuildsOK, StorageReady, Current, Described, Transaction,
     Payload

\* Ready, so that the preview on display describes the form.
LEMMA StartSubmitKeeps == ASSUME IssueInv, StartSubmit PROVE IssueInv'
<1>0. /\ form \in Forms /\ account \in Pair /\ revision \in Nat /\ preview \in Previews
      /\ sub \in Submits /\ dirty = {} /\ preview.tx # None
      /\ Page /\ UNCHANGED <<host, store>>
  BY DEF IssueInv, Types, StartSubmit, Ready
<1>1. sub' = [NoSubmit EXCEPT !.pc = "check", !.revision = revision, !.preview = preview,
                              !.form = form, !.account = account]
      /\ preview' = [preview EXCEPT !.proof = None]
  BY DEF StartSubmit
<1>2. /\ sub' \in Submits /\ sub'.pc = "check" /\ sub'.preview = preview
      /\ sub'.form = form /\ sub'.account = account
  BY <1>0, <1>1 DEF NoSubmit, Submits, Pair
<1>3. preview' \in Previews /\ preview'.tx = preview.tx /\ preview'.links = preview.links
      /\ preview'.result = preview.result
  BY <1>0, <1>1 DEF Previews
<1>4. preview.tx = Transaction(DescribedBy(form, account))
  BY <1>0 DEF IssueInv, Current, Described, DescribedBy
<1>5. SubmitOK'
  BY <1>0, <1>2, <1>3, <1>4 DEF IssueInv, SubmitOK, PublicationProved, LinksOfResult
<1> QED
  BY <1>0, <1>2, <1>3, <1>5, SubmitKeeps DEF IssueInv, StoreOK, Page

\* What a submission read is what its transaction names.
LEMMA CheckKeeps == ASSUME IssueInv, CheckPublication PROVE IssueInv'
<1> DEFINE uri == sub.preview.tx.payload
           here == sub.form.storage = "local-test"
           read == IF ~here THEN host
                   ELSE IF uri \in DOMAIN store /\ store[uri].expires > now THEN uri ELSE None
<1>0. /\ sub \in Submits /\ preview \in Previews /\ now \in Nat /\ StoreOK /\ sub.pc = "check"
      /\ Page /\ UNCHANGED host
  BY DEF IssueInv, Types, CheckPublication
<1>1. /\ sub' = [sub EXCEPT !.pc = "wallet", !.read = read]
      /\ preview' = [preview EXCEPT !.proof = uri]
      /\ store' = IF here THEN AfterRead(uri) ELSE store
  BY DEF CheckPublication
<1>2. uri \in Payloads
  <2>1. sub.form \in Forms /\ sub.account \in Pair
        /\ sub.preview.tx = Transaction(DescribedBy(sub.form, sub.account))
    BY <1>0 DEF IssueInv, SubmitOK
  <2>2. DescribedBy(sub.form, sub.account) \in Snaps
    BY <2>1 DEF DescribedBy, Forms, Snaps, Texts, AnyClaims
  <2> QED
    BY <2>1, <2>2, PayloadTyped
<1>3. read = uri
  <2>1. CASE here
    BY <2>1 DEF CheckPublication, VerifyPublication, ReadLocalTestPayload
  <2>2. CASE ~here
    BY <2>2 DEF CheckPublication, VerifyHttpsPayloadPublication, ReadCanonicalHttpsPayload
  <2> QED
    BY <2>1, <2>2
<1>4. StoreOK'
  <2> PICK D \in SUBSET (DOMAIN store) : store' = [p \in D |-> store[p]]
    <3>1. store = [p \in DOMAIN store |-> store[p]]
      BY <1>0 DEF StoreOK, Sound
    <3>2. \E D \in SUBSET (DOMAIN store) : AfterRead(uri) = [p \in D |-> store[p]]
      BY <1>0, ReadIsPart
    <3> QED
      BY <1>1, <3>1, <3>2
  <2> QED
    BY <1>0, PartKeeps DEF Page
<1> HIDE DEF read
<1>5. /\ sub' \in Submits /\ sub'.pc = "wallet" /\ sub'.read = read /\ sub'.preview = sub.preview
      /\ sub'.form = sub.form /\ sub'.account = sub.account
  BY <1>0, <1>1, <1>2, <1>3 DEF Submits
<1>6. /\ preview' \in Previews /\ preview'.tx = preview.tx /\ preview'.links = preview.links
      /\ preview'.result = preview.result
  <2> HIDE DEF uri
  <2> QED
    BY <1>0, <1>1, <1>2 DEF Previews
<1>7. SubmitOK'
  BY <1>0, <1>3, <1>5, <1>6 DEF IssueInv, SubmitOK, PublicationProved, LinksOfResult
<1> QED
  BY <1>0, <1>4, <1>5, <1>6, <1>7, SubmitKeeps

LEMMA AskKeeps == ASSUME IssueInv, AskWallet \/ SubmitSigned PROVE IssueInv'
<1>0. sub \in Submits /\ preview \in Previews
      /\ Page /\ UNCHANGED <<preview, store, host>> /\ sub.pc \in {"wallet", "signed"}
  BY DEF IssueInv, Types, AskWallet, SubmitSigned
<1>1. \E p \in {"signed", "submitted"} : sub' = [sub EXCEPT !.pc = p]
  BY DEF AskWallet, SubmitSigned
<1>2. /\ sub' \in Submits /\ sub'.pc \in {"signed", "submitted"} /\ sub'.read = sub.read
      /\ sub'.preview = sub.preview /\ sub'.form = sub.form /\ sub'.account = sub.account
  BY <1>0, <1>1 DEF Submits
<1>3. SubmitOK'
  BY <1>0, <1>2 DEF IssueInv, SubmitOK, PublicationProved, LinksOfResult
<1> QED
  BY <1>0, <1>2, <1>3, SubmitKeeps DEF IssueInv, StoreOK, Page

LEMMA FailSubmitKeeps == ASSUME IssueInv, FailSubmit PROVE IssueInv'
<1>0. sub' = NoSubmit /\ preview \in Previews /\ Page /\ UNCHANGED <<preview, store, host>>
  BY DEF IssueInv, Types, FailSubmit
<1>1. NoSubmit \in Submits /\ NoSubmit.pc = "idle"
  BY NoPreviewTyped DEF NoSubmit, Submits
<1>2. SubmitOK'
  BY <1>0, <1>1 DEF IssueInv, SubmitOK, PublicationProved, LinksOfResult
<1> QED
  BY <1>0, <1>1, <1>2, SubmitKeeps DEF IssueInv, StoreOK, Page

\* The inputs of the links are those of the transaction.
LEMMA LinksDescribed ==
    ASSUME IssueInv, sub.pc # "idle"
    PROVE  /\ LinkInputs \in Links /\ sub.preview.tx \in Txs
           /\ LinkInputs = [account |-> sub.preview.tx.payload.account,
                            terms |-> sub.preview.tx.payload.terms,
                            schema |-> sub.preview.tx.payload.schema]
<1>1. sub.form \in Forms /\ sub.account \in Pair
      /\ sub.preview.tx = Transaction(DescribedBy(sub.form, sub.account))
  BY DEF IssueInv, SubmitOK
<1>2. DescribedBy(sub.form, sub.account) \in Snaps
  BY <1>1 DEF DescribedBy, Forms, Snaps, Texts, AnyClaims
<1>3. sub.preview.tx \in Txs
      /\ sub.preview.tx.payload = Payload(DescribedBy(sub.form, sub.account))
  BY <1>1, <1>2, PayloadTyped
<1> QED
  BY <1>1, <1>3 DEF LinkInputs, Links, Payload, DescribedBy, Forms

LEMMA ValidatedKeeps == ASSUME IssueInv, LedgerValidated PROVE IssueInv'
<1>0. /\ sub \in Submits /\ preview \in Previews /\ sub.pc = "submitted"
      /\ Page /\ UNCHANGED <<store, host>>
  BY DEF IssueInv, Types, LedgerValidated
<1>1. sub' = [sub EXCEPT !.pc = "validated"]
      /\ preview' = [preview EXCEPT !.links = LinkInputs, !.result = sub.preview.tx]
  BY DEF LedgerValidated
<1>2. /\ sub' \in Submits /\ sub'.pc = "validated" /\ sub'.read = sub.read
      /\ sub'.preview = sub.preview /\ sub'.form = sub.form /\ sub'.account = sub.account
  BY <1>0, <1>1 DEF Submits
<1>3. /\ LinkInputs \in Links /\ sub.preview.tx \in Txs
      /\ LinkInputs = [account |-> sub.preview.tx.payload.account,
                       terms |-> sub.preview.tx.payload.terms,
                       schema |-> sub.preview.tx.payload.schema]
  BY SMTT(30), <1>0, LinksDescribed
<1>4. /\ preview' \in Previews /\ preview'.tx = preview.tx /\ preview'.links = LinkInputs
      /\ preview'.result = sub.preview.tx
  BY <1>0, <1>1, <1>3 DEF Previews
<1>5. LinkInputs' = LinkInputs
  BY <1>2 DEF LinkInputs
<1>6. SubmitOK'
  BY <1>0, <1>2, <1>3, <1>4, <1>5 DEF IssueInv, SubmitOK, PublicationProved, LinksOfResult
<1> QED
  BY <1>0, <1>2, <1>4, <1>6, SubmitKeeps DEF IssueInv, StoreOK, Page

LEMMA EndSubmitKeeps == ASSUME IssueInv, EndSubmit PROVE IssueInv'
<1>0. /\ sub \in Submits /\ preview \in Previews /\ sub.pc = "validated" /\ sub' = NoSubmit
      /\ Page /\ UNCHANGED <<store, host>>
      /\ preview' = [preview EXCEPT !.result = sub.preview.tx, !.tx = None]
  BY DEF IssueInv, Types, EndSubmit
<1>1. NoSubmit \in Submits /\ NoSubmit.pc = "idle"
  BY NoPreviewTyped DEF NoSubmit, Submits
<1>2. /\ LinkInputs \in Links /\ sub.preview.tx \in Txs
      /\ LinkInputs = [account |-> sub.preview.tx.payload.account,
                       terms |-> sub.preview.tx.payload.terms,
                       schema |-> sub.preview.tx.payload.schema]
  BY <1>0, LinksDescribed
<1>3. /\ preview' \in Previews /\ preview'.tx = None /\ preview'.links = preview.links
      /\ preview'.result = sub.preview.tx
  BY <1>0, <1>2 DEF Previews
<1>4. SubmitOK'
  BY <1>0, <1>1, <1>2, <1>3 DEF IssueInv, SubmitOK, PublicationProved, LinksOfResult
<1> QED
  BY <1>0, <1>1, <1>3, <1>4, SubmitKeeps DEF IssueInv, StoreOK, Page

-----------------------------------------------------------------------------
(* The theorems.                                                            *)

LEMMA InitInv == Init => IssueInv /\ PublishingOK
<1> SUFFICES ASSUME Init PROVE IssueInv /\ PublishingOK
  OBVIOUS
<1>1. form = [schema |-> 1, terms |-> 1, text |-> GuidedClaimsToJson("none"), guided |-> "none",
              loaded |-> 0, mode |-> "guided", storage |-> "https", ack |-> FALSE]
  BY DEF Init
<1>2. form \in Forms
  BY <1>1, TextTyped DEF Forms, AnyClaims, Pair
<1>3. NoBuild \in BuildStates /\ NoBuild.pc = "idle" /\ NoBuild.revision = 0
      /\ NoBuild.error = "none"
  BY DEF NoBuild, BuildStates
<1>4. NoSubmit \in Submits /\ NoSubmit.pc = "idle"
  BY NoPreviewTyped DEF NoSubmit, Submits
<1>5. build = [b \in Builds |-> NoBuild]
  BY DEF Init
<1>6. Types
  BY <1>2, <1>3, <1>4, <1>5, NoPreviewTyped DEF Init, Types, NoLoad, Pair
<1>7. StoreOK
  <2>1. /\ store = << >> /\ DOMAIN store = {} /\ now \in Nat
        /\ publish = [tab \in Tabs |-> NoPublish]
    BY DEF Init
  <2>2. Writers(publish) = {} /\ PublishOK(publish, now)
    BY <2>1, NoPublishTyped DEF Writers, PublishOK
  <2>3. Fits(DOMAIN store, publish)
    <3>1. DOMAIN store \cup Pending(publish) = {}
      BY <2>1, <2>2 DEF Pending
    <3>2. IsFiniteSet({}) /\ Cardinality({}) = 0 /\ 0 <= Limit
      BY FS_EmptySet, Constants
    <3> QED
      BY <2>1, <3>1, <3>2 DEF Fits
  <2>4. << >> = [p \in DOMAIN << >> |-> << >>[p]]
    OBVIOUS
  <2> QED
    BY <2>1, <2>2, <2>3, <2>4 DEF StoreOK, Sound
<1>8. TextSynced
  BY <1>1 DEF TextSynced
<1>9. BuildsOK /\ Current
  BY <1>3, <1>5, NoPreviewTyped DEF Init, BuildsOK, Current
<1>10. SubmitOK
  BY <1>4, NoPreviewTyped DEF Init, SubmitOK, PublicationProved, LinksOfResult
<1> QED
  BY <1>3, <1>5, <1>6, <1>7, <1>8, <1>9, <1>10 DEF IssueInv, PublishingOK

LEMMA NextInv == IssueInv /\ PublishingOK /\ [Next]_vars => IssueInv'
<1> SUFFICES ASSUME IssueInv, PublishingOK, [Next]_vars PROVE IssueInv'
  OBVIOUS
<1>1. CASE Edit \/ SelectClaimsEditorMode \/ AccountChanged \/ Flush \/ StartLoad \/ FinishLoad
           \/ ClearLocalPayloadStore
  BY <1>1, EditKeeps, SelectKeeps, AccountKeeps, FlushKeeps, LoadKeeps, ClearKeeps
<1>2. CASE \E b \in Builds : \/ StartBuild(b) \/ EncodePayload(b) \/ FinishBuild(b)
                             \/ PublishBuild(b) \/ ReadBackBuild(b) \/ BuildFails(b)
  BY <1>2, StartBuildKeeps, EncodeKeeps, FinishBuildKeeps, PublishBuildKeeps, ReadBackBuildKeeps,
     BuildFailsKeeps
<1>3. CASE StartSubmit \/ CheckPublication \/ AskWallet \/ SubmitSigned \/ LedgerValidated
           \/ EndSubmit \/ FailSubmit
  BY <1>3, StartSubmitKeeps, CheckKeeps, AskKeeps, ValidatedKeeps, EndSubmitKeeps, FailSubmitKeeps
<1>4. CASE HostChanges \/ OtherTabClears \/ Damage \/ Tick
  BY <1>4, OutsideKeeps
<1>5. CASE \E tab \in OtherTabs : OtherTabStores(tab) \/ OtherTabGoesOn(tab)
  BY <1>5, OtherTabKeeps
<1>6. CASE UNCHANGED vars
  <2>1. UNCHANGED <<form, account, dirty, revision, preview, build, load, sub, store, publish, host, now>>
    BY <1>6 DEF vars
  <2>2. StoreOK'
    BY <2>1 DEF IssueInv, StoreOK
  <2> QED
    BY <2>1, <2>2, StoreKeeps DEF IssueInv, Types
<1> QED
  BY <1>1, <1>2, <1>3, <1>4, <1>5, <1>6 DEF Next, PageNext

\* A build publishes alone: nothing else of the page starts while it does.
LEMMA NextPublishing == IssueInv /\ PublishingOK /\ [Next]_vars => PublishingOK'
<1> SUFFICES ASSUME IssueInv, PublishingOK, [Next]_vars PROVE PublishingOK'
  OBVIOUS
<1> USE DEF Tabs
<1>0. /\ build \in [Builds -> BuildStates] /\ publish \in [Tabs -> Publications]
      /\ NoPublish.step = "none" /\ NoBuild.pc = "idle"
  BY NoPublishTyped DEF IssueInv, Types, StoreOK, PublishOK, NoBuild
<1>1. ASSUME UNCHANGED <<build, publish, revision>> PROVE PublishingOK'
  BY <1>1 DEF PublishingOK
<1>2. ASSUME \A b \in Builds : build'[b].pc # "publish" PROVE PublishingOK'
  BY <1>2 DEF PublishingOK
<1>3. ASSUME Idle PROVE \A b \in Builds : build[b].pc # "publish"
  BY <1>0, <1>3 DEF PublishingOK, Idle
<1>4. ASSUME NEW b \in Builds, NEW n, n.pc # "publish", build' = [build EXCEPT ![b] = n],
             \/ Idle
             \/ build[b].pc = "publish"
      PROVE  PublishingOK'
  <2>1. \A c \in Builds \ {b} : build'[c].pc # "publish"
    BY <1>0, <1>3, <1>4 DEF PublishingOK
  <2>2. build'[b].pc # "publish"
    BY <1>0, <1>4
  <2> QED
    BY <1>2, <2>1, <2>2
<1>5. ASSUME NEW b \in Builds, NEW error, FailBuild(b, error),
             \/ Idle
             \/ build[b].pc = "publish"
      PROVE  PublishingOK'
  <2>1. [NoBuild EXCEPT !.error = error, !.disturbed = build[b].disturbed].pc = "idle"
    BY DEF NoBuild
  <2> QED
    BY <1>4, <1>5, <2>1 DEF FailBuild
<1>6. ASSUME NEW b \in Builds, ShowBuild(b),
             \/ Idle
             \/ build[b].pc = "publish"
      PROVE  PublishingOK'
  BY <1>0, <1>4, <1>6 DEF ShowBuild
<1>7. ASSUME Idle, build' = Disturb PROVE PublishingOK'
  BY <1>2, <1>3, <1>7, DisturbTyped DEF IssueInv
<1>8. CASE Idle /\ (Edit \/ SelectClaimsEditorMode \/ AccountChanged \/ ClearLocalPayloadStore)
  BY <1>7, <1>8 DEF Edit, SelectClaimsEditorMode, AccountChanged, ClearLocalPayloadStore, Edited
<1>9. CASE Idle /\ (Flush \/ StartLoad \/ FinishLoad)
  BY <1>2, <1>3, <1>7, <1>9 DEF Flush, Aside, StartLoad, FinishLoad
<1>10. ASSUME Idle, NEW b \in Builds, StartBuild(b) PROVE PublishingOK'
  <2>1. \E n : n.pc # "publish" /\ build' = [Disturb EXCEPT ![b] = n]
    <3>1. [NoBuild EXCEPT !.error = "refused"].pc = "idle"
          /\ \A x, y : [NoBuild EXCEPT !.pc = "schema", !.revision = x, !.snap = y].pc = "schema"
      BY DEF NoBuild
    <3> QED
      BY <1>10, <3>1 DEF StartBuild
  <2> PICK n : n.pc # "publish" /\ build' = [Disturb EXCEPT ![b] = n]
    BY <2>1
  <2>2. \A c \in Builds : build'[c].pc # "publish"
    BY <1>3, <1>10, DisturbTyped DEF IssueInv
  <2> QED
    BY <1>2, <2>2
<1>11. ASSUME Idle, NEW b \in Builds, EncodePayload(b) PROVE PublishingOK'
  <2>1. CASE build' = [build EXCEPT ![b].pc = "prepare"]
    <3>1. build[b] \in BuildStates
      BY <1>0
    <3>2. [build[b] EXCEPT !.pc = "prepare"].pc = "prepare"
      BY <3>1 DEF BuildStates
    <3> QED
      BY <1>4, <1>11, <2>1, <3>2
  <2> QED
    BY <1>5, <1>11, <2>1 DEF EncodePayload
<1>12. ASSUME Idle, NEW b \in Builds, FinishBuild(b) PROVE PublishingOK'
  <2>1. CASE /\ build' = [build EXCEPT ![b].pc = "publish"] /\ build[b].revision = revision
             /\ publish' = [publish EXCEPT !["page"] = Found(Payload(build[b].snap), build[b].snap.ack)]
    <3>1. /\ build'[b].revision = revision
          /\ \A c \in Builds \ {b} : build'[c].pc # "publish"
      <4>1. build[b] \in BuildStates
        BY <1>0
      <4>2. [build[b] EXCEPT !.pc = "publish"].revision = build[b].revision
        BY <4>1 DEF BuildStates
      <4>3. build'[b] = [build[b] EXCEPT !.pc = "publish"] /\ \A c \in Builds \ {b} : build'[c] = build[c]
        BY <1>0, <2>1
      <4> QED
        BY <1>3, <1>12, <2>1, <4>2, <4>3
    <3>2. publish'["page"].step # "none"
      BY <1>0, <2>1 DEF Found
    <3>3. revision' = revision
      BY <1>12 DEF FinishBuild
    <3> QED
      BY <3>1, <3>2, <3>3 DEF PublishingOK
  <2> QED
    BY <1>5, <1>6, <1>12, <2>1 DEF FinishBuild, StoreLocalTestPayload
<1>13. ASSUME NEW b \in Builds, PublishBuild(b) PROVE PublishingOK'
  <2>1. publish["page"] \in Publications
        /\ publish' = [publish EXCEPT !["page"] = [@ EXCEPT !.step = "read", !.record = None]]
        /\ UNCHANGED <<build, revision>>
    BY <1>0, <1>13 DEF PublishBuild, SetItem
  <2>2. publish'["page"].step = "read"
    BY <1>0, <2>1 DEF Publications
  <2> QED
    BY <2>1, <2>2 DEF PublishingOK
<1>14. ASSUME NEW b \in Builds, ReadBackBuild(b) \/ BuildFails(b) PROVE PublishingOK'
  BY <1>5, <1>6, <1>14 DEF ReadBackBuild, BuildFails
<1>15. CASE StartSubmit \/ CheckPublication \/ AskWallet \/ SubmitSigned \/ LedgerValidated
            \/ EndSubmit \/ FailSubmit
  BY <1>1, <1>15 DEF StartSubmit, CheckPublication, AskWallet, SubmitSigned, LedgerValidated,
     EndSubmit, FailSubmit, Page
<1>16. CASE HostChanges \/ OtherTabClears \/ Damage \/ Tick
  BY <1>1, <1>16 DEF HostChanges, OtherTabClears, Damage, Tick, Others
<1>17. ASSUME NEW tab \in OtherTabs, OtherTabStores(tab) \/ OtherTabGoesOn(tab) PROVE PublishingOK'
  <2>1. UNCHANGED <<build, revision>> /\ tab # "page"
    BY <1>17, Constants DEF OtherTabStores, OtherTabGoesOn, Others
  <2>2. publish'["page"] = publish["page"]
    BY <1>0, <1>17, <2>1 DEF OtherTabStores, OtherTabGoesOn, StoreLocalTestPayload, SetItem, ReadBack
  <2> QED
    BY <2>1, <2>2 DEF PublishingOK
<1>18. CASE UNCHANGED vars
  BY <1>1, <1>18 DEF vars
<1> QED
  BY <1>8, <1>9, <1>10, <1>11, <1>12, <1>13, <1>14, <1>15, <1>16, <1>17, <1>18 DEF Next, PageNext

LEMMA Invariance == Spec => []IssueInv
<1>1. Init => IssueInv /\ PublishingOK
  BY InitInv
<1>2. IssueInv /\ PublishingOK /\ [Next]_vars => IssueInv' /\ PublishingOK'
  BY NextInv, NextPublishing
<1> QED
  BY <1>1, <1>2, PTL DEF Spec

\* The page, the store that all tabs write to and the host agree: however the tabs'
\* publications overlap, the store exceeds its limit by at most one record for each of the
\* other tabs and holds nothing unacknowledged, a payload was read where the transaction
\* says before the wallet is asked, a build stops only for a change that is not its own,
\* and the links of a result name its transaction, however long the session.
THEOREM IssueIsConsistent == Spec => []IssueConsistent
<1>1. IssueInv => IssueConsistent
  <2> SUFFICES ASSUME IssueInv PROVE IssueConsistent
    OBVIOUS
  <2>1. TypeOK
    <3>1. form.guided \in Claims \cup {"none"} /\ form.text.claims \in Claims
          /\ form.loaded \in {0, 1, 2} /\ dirty \subseteq {"form", "schema", "guided"}
      BY DEF IssueInv, Types, Forms, Texts, AnyClaims
    <3>2. \A b \in Builds : build[b].pc \in {"idle", "schema", "prepare", "publish"}
                            /\ build[b].revision <= revision
      BY DEF IssueInv, Types, BuildStates, BuildsOK
    <3>3. \A p \in DOMAIN store : store[p].ack /\ store[p].expires <= now + Ttl
      BY DEF IssueInv, StoreOK, Sound, RecordOK
    <3> QED
      BY <3>1, <3>2, <3>3 DEF TypeOK
  <2>2. StoreBounded
    BY StoreFits DEF IssueInv, StoreBounded, Limit
  <2>3. PublicationProved /\ LinksOfResult
    BY DEF IssueInv, SubmitOK
  <2>4. BuildUndisturbed
    BY DEF IssueInv, BuildsOK, BuildUndisturbed
  <2> QED
    BY <2>1, <2>2, <2>3, <2>4 DEF IssueConsistent
<1> QED
  BY <1>1, Invariance, PTL

\* What is submitted is what the form, the editor and the wallet's account describe at
\* that moment, whatever changed during the build, the check of the payload and the
\* signature.
THEOREM SubmitsAsDescribed == Spec => SubmittedAsDescribed
<1>1. IssueInv /\ [Next]_vars =>
        [sub.pc = "signed" /\ sub'.pc = "submitted" =>
            sub.preview.tx = Transaction(Described)]_vars
  <2> SUFFICES ASSUME IssueInv, Next, sub.pc = "signed", sub'.pc = "submitted"
               PROVE  sub.preview.tx = Transaction(Described)
    OBVIOUS
  <2>1. sub \in Submits
    BY DEF IssueInv, Types
  <2>2. SubmitSigned
    <3>1. NoSubmit.pc = "idle"
      BY DEF NoSubmit
    <3>2. ~StartSubmit /\ ~CheckPublication /\ ~AskWallet /\ ~LedgerValidated /\ ~EndSubmit
      BY DEF StartSubmit, Ready, CheckPublication, AskWallet, LedgerValidated, EndSubmit
    <3>3. ~FailSubmit
      BY <3>1 DEF FailSubmit
    <3>4. ASSUME UNCHANGED sub PROVE FALSE
      BY <3>4
    <3>5. ~(Edit \/ SelectClaimsEditorMode \/ AccountChanged \/ Flush \/ StartLoad \/ FinishLoad
            \/ ClearLocalPayloadStore)
      BY <3>4 DEF Edit, Edited, SelectClaimsEditorMode, AccountChanged, Flush, Aside, StartLoad,
         FinishLoad, ClearLocalPayloadStore
    <3>6. \A b \in Builds : ~(StartBuild(b) \/ EncodePayload(b) \/ FinishBuild(b) \/ PublishBuild(b)
                               \/ ReadBackBuild(b) \/ BuildFails(b))
      BY <3>4 DEF StartBuild, EncodePayload, FinishBuild, PublishBuild, ReadBackBuild, BuildFails
    <3>7. ~(HostChanges \/ OtherTabClears \/ Damage \/ Tick)
      BY <3>4 DEF HostChanges, OtherTabClears, Damage, Tick, Others
    <3>8. \A tab \in OtherTabs : ~(OtherTabStores(tab) \/ OtherTabGoesOn(tab))
      BY <3>4 DEF OtherTabStores, OtherTabGoesOn, Others
    <3> QED
      BY <3>2, <3>3, <3>5, <3>6, <3>7, <3>8 DEF Next, PageNext
  <2>3. form = sub.form /\ account = sub.account
    BY <2>2 DEF SubmitSigned, AssertCurrent
  <2>4. sub.preview.tx = Transaction(DescribedBy(sub.form, sub.account))
    BY DEF IssueInv, SubmitOK
  <2> QED
    BY <2>3, <2>4 DEF Described, DescribedBy
<1> QED
  BY <1>1, Invariance, PTL DEF Spec, SubmittedAsDescribed

-----------------------------------------------------------------------------
(* The subject's page: the inductive invariant.                            *)

States == {"pending", "active", "expired", "deleted"}
ReviewForms == [account : Accounts, action : Actions, link : S!Gens \cup {S!NoGen}]
Acks == [profile : Profiles, account : Accounts, gen : S!Gens]

\* A pending credential is not accepted.
Consistent(c) == c.state = "pending" => ~c.accepted
Snapshots == {w \in [gen : S!Gens, state : States, accepted : BOOLEAN, trust : S!Trusts] : Consistent(w)}

Reports == [gen : S!Gens, state : States, trust : S!Trusts]
Blobs == [via : {"retry"}, gen : S!Gens, account : Accounts, action : Actions, profile : Profiles,
          uri : Uris \cup {S!NoUri}, trust : S!Trusts \cup {"none"}, ack : Acks \cup {S!None},
          since : SUBSET Snapshots]
FlowPcs == {"reads", "load", "fetch", "verify", "reviewed", "prepare", "wallet", "sign",
            "generation", "profile", "relay"}
Flows == [pc : FlowPcs, stage : {"preview", "submit", "post"}, fresh : BOOLEAN, form : ReviewForms,
          account : Accounts, action : Actions, consent : S!Tokens \cup {S!None}, ack : Acks \cup {S!None},
          tx : S!Transactions \cup {S!None}, expected : S!Reviews \cup {S!None}, profile : Profiles,
          latest : Profiles, cred : S!Credentials \cup {S!None}, report : Reports \cup {S!None},
          loaded : S!Reviews \cup {S!None}, since : SUBSET Snapshots]

\* What the submission reviewed: a transaction and the review of its generation, and for an
\* acceptance valid claims of which the subject consented to see just these, and what was
\* acknowledged of an issuer of whom nothing is known, for the transaction's profile.
ReviewedOK(f) ==
    /\ f.tx # S!None /\ f.expected # S!None
    /\ f.tx.gen = f.expected.gen /\ f.tx.account = f.account /\ f.tx.action = f.action
    /\ f.action = "accept" =>
          /\ f.expected.uri \in ValidUris /\ f.consent = S!Token(f.expected)
          /\ f.expected.trust = "unknown" => f.ack = S!Acknowledgement(f.expected, f.tx.profile, f.account)

\* A loaded review is of the linked generation; the claims it shows are valid, and of the
\* content that was consented to.
LoadedOK(f) ==
    /\ f.loaded # S!None /\ f.loaded.profile = f.latest
    /\ f.form.link \in {S!NoGen, f.loaded.gen}
    /\ f.loaded.claims => f.loaded.uri \in ValidUris
    /\ f.loaded.trust = "none" <=> f.action # "accept"
    /\ f.action = "accept" /\ f.consent # S!None /\ f.stage # "post" =>
          f.loaded.claims /\ f.consent = S!Token(f.loaded)

\* A world since the signature that tells what a later answer told.
SawCredential(f, c) == \E w \in f.since : w.gen = c.gen /\ w.state = c.state /\ w.accepted = c.accepted
SawReport(f, r) == \E w \in f.since : w.gen = r.gen /\ w.state = r.state /\ w.trust = r.trust

\* What the place of a flow in its program tells of its memory.
FlowOK(f) ==
    /\ f \in Flows
    /\ f.account = f.form.account /\ f.action = f.form.action
    /\ f.stage = "preview" => f.pc \in {"reads", "load", "fetch", "verify", "reviewed", "prepare"}
    /\ f.stage = "submit" => f.pc \in {"reads", "load", "fetch", "verify", "reviewed", "wallet", "sign"}
    /\ f.stage = "post" => f.pc \in {"generation", "profile", "reads", "load", "reviewed", "relay"}
    /\ f.stage # "preview" => ReviewedOK(f)
    /\ f.stage # "post" => f.latest = f.profile
    /\ f.consent # S!None => f.consent \in grants
    /\ f.cred # S!None => Consistent(f.cred)
    /\ f.report # S!None => f.action = "accept"
    /\ f.pc \in {"load", "fetch", "verify"} => f.cred # S!None
    /\ f.pc = "load" => f.action # "accept"
    /\ f.pc \in {"generation", "profile"} => f.cred = S!None /\ f.report = S!None
    /\ f.pc = "reads" /\ f.cred # S!None => f.action = "accept"
    /\ f.pc \in {"fetch", "verify"} =>
          /\ f.action = "accept" /\ f.consent = S!Token(f.cred)
          /\ f.form.link \in {S!NoGen, f.cred.gen}
    /\ f.pc = "verify" => f.cred.uri \in ValidUris
    /\ f.pc \in {"reviewed", "prepare", "wallet", "sign", "relay"} => LoadedOK(f)
    /\ f.pc = "prepare" =>
          /\ f.action = "accept" => f.consent # S!None
          /\ S!ActionAllowed(f.loaded, f.action, f.ack, f.loaded.profile, f.account)
    /\ f.pc \in {"wallet", "sign", "relay"} =>
          S!ReviewCurrent(f.expected, f.loaded, f.action, f.profile, f.latest, f.ack, f.account)

\* After the signature every answer was true of a world since.
PostOK(f) ==
    f.stage = "post" =>
       /\ f.cred # S!None => SawCredential(f, f.cred)
       /\ f.report # S!None => SawReport(f, f.report)
       /\ f.pc \in {"reviewed", "relay"} =>
             IF f.action = "accept" THEN SawReport(f, f.loaded) ELSE SawCredential(f, f.loaded)

\* How a flow stands to the page, as long as its preview is fresh, and to the world.
PageFits(f) ==
    /\ f.fresh /\ ~queued => choice = f.form
    /\ f.stage = "preview" => tx = S!None
    /\ f.fresh /\ f.stage = "preview" /\ f.action = "accept" => consent = f.consent /\ ack = f.ack
    /\ f.fresh /\ f.pc = "prepare" => review = f.loaded

\* What a signed acceptance rests on, with which a retry relays it.
SignedOK(op) ==
    op.action = "accept" =>
        op.uri \in ValidUris /\ S!Token(op) \in grants /\ S!IssuerAccepted(op.trust, op)
JournalOK == journal \subseteq Blobs /\ \A op \in journal : SignedOK(op)

WorldSeen(f) == f.stage = "post" => S!Snapshot(f.account) \in f.since

WorldOK ==
    /\ cred \in [Accounts -> S!Credentials] /\ \A a \in Accounts : Consistent(cred[a])
    /\ trust \in S!Trusts /\ profile \in Profiles /\ budget.gen \in Nat

PageOK ==
    /\ choice \in ReviewForms /\ queued \in BOOLEAN
    /\ review \in S!Reviews \cup {S!None} /\ consent \in S!Tokens \cup {S!None}
    /\ ack \in Acks \cup {S!None} /\ tx \in S!Transactions \cup {S!None}
    /\ review # S!None /\ review.claims => review.uri \in ValidUris
    /\ consent # S!None => consent \in grants

FlowInv == flow = S!Idle \/ (FlowOK(flow) /\ PostOK(flow) /\ PageFits(flow) /\ WorldSeen(flow))

GhostsOK == grants \subseteq S!Tokens /\ contact \in S!Tokens \cup {S!None} /\ S!HostConsented

SubjectInv ==
    /\ SubjectAssumption /\ WorldOK /\ PageOK /\ S!PreviewCoherent /\ FlowInv
    /\ JournalOK /\ GhostsOK
    /\ S!AcceptanceReviewed /\ S!MutationReviewed
-----------------------------------------------------------------------------
(* Records.                                                                *)

\* No data is None, and no flow is Idle.
LEMMA SomethingIsNotNone ==
    /\ \A r \in S!Reviews : r # S!None
    /\ \A t \in S!Transactions : t # S!None
    /\ \A c \in S!Credentials : c # S!None
    /\ \A t \in S!Tokens : t # S!None
    /\ \A r \in Reports : r # S!None
    /\ \A a \in Acks : a # S!None
    /\ \A f \in Flows : f # S!Idle
<1>1. \A x \in S!Gens : x # 0
  BY DEF S!Gens
<1>2. S!None.gen = 0 /\ S!Idle.pc = "idle"
  BY DEF S!None, S!NoGen, S!Idle
<1>3. \A f \in Flows : f # S!Idle
  BY <1>2 DEF Flows, FlowPcs
<1>4. \A r \in S!Reviews : r # S!None
  BY <1>1, <1>2 DEF S!Reviews
<1>5. \A r \in S!Transactions : r # S!None
  BY <1>1, <1>2 DEF S!Transactions
<1>6. \A r \in S!Credentials : r # S!None
  BY <1>1, <1>2 DEF S!Credentials
<1>7. \A r \in S!Tokens : r # S!None
  BY <1>1, <1>2 DEF S!Tokens
<1>8. \A r \in Reports : r # S!None
  BY <1>1, <1>2 DEF Reports
<1>9. \A r \in Acks : r # S!None
  BY <1>1, <1>2 DEF Acks
<1> QED BY <1>3, <1>4, <1>5, <1>6, <1>7, <1>8, <1>9

\* What no step of the flow changes but its own fields.
Quiet == UNCHANGED <<S!world, budget, choice, queued, journal, relayed, grants>>

\* What a flow was begun with.
Begun(g, f) == /\ g.form = f.form /\ g.account = f.account /\ g.action = f.action
               /\ g.consent = f.consent /\ g.ack = f.ack /\ g.tx = f.tx
               /\ g.expected = f.expected /\ g.profile = f.profile

\* A running flow is described by the invariant.
LEMMA Running ==
    ASSUME SubjectInv, flow # S!Idle
    PROVE  flow \in Flows /\ FlowOK(flow) /\ PostOK(flow) /\ PageFits(flow) /\ WorldSeen(flow)
BY DEF SubjectInv, FlowInv, FlowOK

\* What was relayed was reviewed, and stays so while nothing is relayed.
LEMMA RelayedStays ==
    ASSUME S!AcceptanceReviewed, S!MutationReviewed, JournalOK, UNCHANGED relayed,
           journal' \subseteq journal, grants \subseteq grants'
    PROVE  S!AcceptanceReviewed' /\ S!MutationReviewed' /\ JournalOK'
<1>1. S!AcceptanceReviewed' /\ S!MutationReviewed'
  BY DEF S!AcceptanceReviewed, S!MutationReviewed, S!IssuerAccepted
<1>2. JournalOK'
  BY DEF JournalOK, SignedOK, S!IssuerAccepted
<1> QED BY <1>1, <1>2

\* The transaction on display is that of the submission, but for the wallet's session.
LEMMA CurrentSame ==
    ASSUME SubjectInv, flow # S!Idle, flow.stage # "preview", S!Current
    PROVE  /\ choice = flow.form /\ consent = flow.consent /\ ack = flow.ack
           /\ tx \in S!Transactions /\ flow.tx \in S!Transactions
           /\ tx.gen = flow.tx.gen /\ tx.account = flow.tx.account
           /\ tx.action = flow.tx.action /\ tx.profile = flow.tx.profile
<1>1. tx \in S!Transactions /\ flow.tx \in S!Transactions
  BY Running DEF SubjectInv, PageOK, S!Current, FlowOK, ReviewedOK, Flows
<1>2. /\ choice = flow.form /\ consent = flow.consent /\ ack = flow.ack
  BY DEF S!Current
<1> DEFINE same == [tx EXCEPT !.session = flow.tx.session]
<1>3. same.gen = tx.gen /\ same.account = tx.account /\ same.action = tx.action /\ same.profile = tx.profile
  BY <1>1 DEF S!Transactions
<1>4. same = flow.tx
  BY DEF S!Current
<1> HIDE DEF same
<1> QED BY <1>1, <1>2, <1>3, <1>4

\* A flow throws: the page keeps what it shows, or loses what is stale.
LEMMA ThrowStep ==
    ASSUME SubjectInv, NEW cleared,
           cleared \in {S!Keep, S!ClearStalePayloadConsent, S!ClearInvalidIssuerTrustAcknowledgement},
           S!Throw(cleared), Quiet, contact' = contact \/ GhostsOK'
    PROVE  SubjectInv'
<1>1. /\ review' \in {review, S!None} /\ consent' \in {consent, S!None} /\ ack' \in {ack, S!None}
      /\ tx' \in {tx, S!None}
      /\ tx' # S!None => review' = review /\ consent' = consent /\ ack' = ack /\ tx' = tx
  BY DEF S!Throw, S!Keep, S!ClearStalePayloadConsent, S!ClearInvalidIssuerTrustAcknowledgement
<1>2. WorldOK'
  BY DEF Quiet, S!world, SubjectInv, WorldOK
<1>3. PageOK'
  BY <1>1 DEF Quiet, SubjectInv, PageOK
<1>4. S!PreviewCoherent'
  BY <1>1 DEF Quiet, SubjectInv, S!PreviewCoherent
<1>5. FlowInv'
  BY DEF S!Throw, FlowInv, S!Idle
<1>6. GhostsOK'
  BY DEF Quiet, SubjectInv, GhostsOK, S!HostConsented
<1>7. S!AcceptanceReviewed' /\ S!MutationReviewed' /\ JournalOK'
  BY RelayedStays DEF Quiet, SubjectInv
<1> QED BY <1>2, <1>3, <1>4, <1>5, <1>6, <1>7 DEF SubjectInv, SubjectAssumption, Quiet

\* A flow goes on without changing the page.
LEMMA AdvanceStep ==
    ASSUME SubjectInv, flow # S!Idle, FlowOK(flow'), PostOK(flow'), Begun(flow', flow),
           flow'.fresh = flow.fresh, flow'.stage = flow.stage, flow'.pc # "prepare",
           flow.stage = "post" => flow'.since = flow.since,
           Quiet, UNCHANGED S!page, contact' = contact \/ GhostsOK'
    PROVE  SubjectInv'
<1>0. FlowOK(flow) /\ PageFits(flow) /\ WorldSeen(flow)
  BY Running
<1>1. WorldOK'
  BY DEF Quiet, S!world, SubjectInv, WorldOK
<1>2. PageOK' /\ S!PreviewCoherent'
  BY DEF Quiet, S!page, SubjectInv, PageOK, S!PreviewCoherent
<1>3. PageFits(flow)'
  BY <1>0 DEF Quiet, S!page, PageFits, Begun
<1>4. WorldSeen(flow)'
  BY <1>0 DEF Quiet, S!world, WorldSeen, S!Snapshot, Begun
<1>5. FlowOK(flow)' /\ PostOK(flow)'
  BY DEF Quiet, FlowOK, PostOK
<1>6. GhostsOK'
  BY DEF Quiet, SubjectInv, GhostsOK, S!HostConsented
<1>7. S!AcceptanceReviewed' /\ S!MutationReviewed' /\ JournalOK'
  BY RelayedStays DEF Quiet, SubjectInv
<1> QED BY <1>1, <1>2, <1>3, <1>4, <1>5, <1>6, <1>7 DEF SubjectInv, SubjectAssumption, Quiet, FlowInv
-----------------------------------------------------------------------------
(* The steps of a flow.                                                    *)

\* The active profile is read again after the signature.
LEMMA ReadProfileStep ==
    ASSUME SubjectInv, flow # S!Idle, S!ReadProfile
    PROVE  SubjectInv'
<1>0. Quiet /\ contact' = contact
  BY DEF S!ReadProfile, Quiet, S!ghosts
<1>1. CASE S!Throw(S!Keep)
  BY <1>0, <1>1, ThrowStep
<1>2. CASE flow' = [flow EXCEPT !.pc = "reads", !.latest = profile] /\ UNCHANGED S!page
  <2>1. /\ flow \in Flows /\ FlowOK(flow) /\ PostOK(flow) /\ flow.pc = "profile" /\ profile \in Profiles
    BY Running DEF S!ReadProfile, SubjectInv, WorldOK
  <2>2. flow.stage = "post"
    BY <2>1 DEF FlowOK, Flows
  <2>3. /\ flow' \in Flows /\ Begun(flow', flow) /\ flow'.fresh = flow.fresh /\ flow'.stage = flow.stage
        /\ flow'.since = flow.since /\ flow'.pc = "reads"
        /\ flow'.cred = flow.cred /\ flow'.report = flow.report
    BY ZenonT(40), <1>2, <2>1 DEF Flows, FlowPcs, Begun
  <2>4. FlowOK(flow')
    BY <2>1, <2>2, <2>3 DEF FlowOK, Begun, ReviewedOK
  <2>5. PostOK(flow')
    BY <2>1, <2>2, <2>3 DEF PostOK, FlowOK
  <2> QED BY <1>0, <1>2, <2>3, <2>4, <2>5, AdvanceStep
<1> QED BY <1>1, <1>2 DEF S!ReadProfile

\* The credential is read.
LEMMA GetCredentialStep ==
    ASSUME SubjectInv, flow # S!Idle, S!GetCredential
    PROVE  SubjectInv'
<1>0. Quiet /\ contact' = contact /\ UNCHANGED S!page
  BY DEF S!GetCredential, Quiet, S!ghosts
<1>1. /\ flow \in Flows /\ FlowOK(flow) /\ PostOK(flow) /\ WorldSeen(flow)
      /\ flow.pc = "reads" /\ flow.account \in Accounts
  BY Running DEF S!GetCredential, Flows
<1>2. cred[flow.account] \in S!Credentials /\ Consistent(cred[flow.account])
  BY <1>1 DEF SubjectInv, WorldOK
<1>3. /\ flow' \in Flows /\ Begun(flow', flow) /\ flow'.fresh = flow.fresh /\ flow'.stage = flow.stage
      /\ flow'.since = flow.since /\ flow'.cred = cred[flow.account]
      /\ flow'.report = flow.report /\ flow'.latest = flow.latest
      /\ flow'.pc = IF flow.action # "accept" THEN "load" ELSE "reads"
  <2> DEFINE pc == IF flow.action # "accept" THEN "load" ELSE "reads"
  <2>1. flow' = [flow EXCEPT !.cred = cred[flow.account], !.pc = pc] /\ pc \in FlowPcs
    BY <1>1 DEF S!GetCredential, FlowPcs
  <2> HIDE DEF pc
  <2>2. /\ flow' \in Flows /\ Begun(flow', flow) /\ flow'.fresh = flow.fresh /\ flow'.stage = flow.stage
        /\ flow'.since = flow.since /\ flow'.cred = cred[flow.account]
        /\ flow'.report = flow.report /\ flow'.latest = flow.latest /\ flow'.pc = pc
    BY ZenonT(40), <1>1, <1>2, <2>1 DEF Flows, Begun
  <2> QED BY <2>2 DEF pc
<1>4. FlowOK(flow')
  BY <1>1, <1>2, <1>3, SomethingIsNotNone DEF FlowOK, Begun, ReviewedOK
<1>5. flow.stage = "post" => SawCredential(flow', flow'.cred)
  BY <1>1, <1>2, <1>3 DEF WorldSeen, SawCredential, S!Snapshot, S!SnapshotOf
<1>6. PostOK(flow')
  BY <1>1, <1>3, <1>5 DEF PostOK, SawReport
<1> QED BY <1>0, <1>3, <1>4, <1>6, AdvanceStep

\* The issuer's trust and the credential's state are read.
LEMMA VerifyStep ==
    ASSUME SubjectInv, flow # S!Idle, S!Verify
    PROVE  SubjectInv'
<1>0. Quiet /\ contact' = contact /\ UNCHANGED S!page
  BY DEF S!Verify, Quiet, S!ghosts
<1>1. /\ flow \in Flows /\ FlowOK(flow) /\ PostOK(flow) /\ WorldSeen(flow)
      /\ flow.pc = "reads" /\ flow.account \in Accounts /\ flow.action = "accept"
  BY Running DEF S!Verify, Flows
<1>2. cred[flow.account] \in S!Credentials /\ trust \in S!Trusts
  BY <1>1 DEF SubjectInv, WorldOK
<1>3. S!Report \in Reports
  BY <1>2 DEF S!Report, Reports, S!Credentials, States
<1>4. /\ flow' \in Flows /\ Begun(flow', flow) /\ flow'.fresh = flow.fresh /\ flow'.stage = flow.stage
      /\ flow'.since = flow.since /\ flow'.cred = flow.cred /\ flow'.pc = "reads"
      /\ flow'.report = S!Report /\ flow'.latest = flow.latest
  BY <1>1, <1>3 DEF S!Verify, Flows, FlowPcs, Begun
<1>5. FlowOK(flow')
  BY ZenonT(40), <1>1, <1>4, SomethingIsNotNone DEF FlowOK, Begun, ReviewedOK
<1>6. flow.stage = "post" => SawReport(flow', flow'.report)
  BY <1>1, <1>4 DEF WorldSeen, SawReport, S!Snapshot, S!SnapshotOf, S!Report
<1>7. PostOK(flow')
  BY <1>1, <1>4, <1>6 DEF PostOK, SawCredential
<1> QED BY <1>0, <1>4, <1>5, <1>7, AdvanceStep

\* What the two answers load is a review.
LEMMA LoadedIsReview ==
    ASSUME NEW f \in Flows, NEW c \in S!Credentials, NEW p \in Profiles,
           NEW t \in S!Trusts \cup {"none"}, NEW b \in BOOLEAN
    PROVE  [gen |-> c.gen, uri |-> c.uri, accepted |-> c.accepted, state |-> c.state,
            trust |-> t, claims |-> b, profile |-> p] \in S!Reviews
BY DEF S!Credentials, S!Reviews

\* The review is loaded, or does not fit the link, the consent or itself.
LEMMA LoadReviewStep ==
    ASSUME SubjectInv, flow # S!Idle, S!LoadReview
    PROVE  SubjectInv'
<1> DEFINE r == IF flow.action = "accept" THEN S!Loaded(flow.cred, flow.report, FALSE)
                ELSE S!LoadedMutation(flow.cred)
           fetches == flow.action = "accept" /\ flow.consent # S!None /\ flow.stage # "post"
<1>0. Quiet /\ contact' = contact
  BY DEF S!LoadReview, Quiet, S!ghosts
<1>1. CASE \E cleared \in {S!Keep, S!ClearStalePayloadConsent, S!ClearInvalidIssuerTrustAcknowledgement} :
              S!Throw(cleared)
  BY <1>0, <1>1, ThrowStep
<1>2. CASE /\ flow.action = "accept" => S!Agree(flow.cred, flow.report)
           /\ flow.form.link \in {S!NoGen, r.gen}
           /\ fetches => S!ConsentCurrent(r, flow.consent)
           /\ flow' = [flow EXCEPT !.loaded = r, !.pc = IF fetches THEN "fetch" ELSE "reviewed"]
           /\ UNCHANGED S!page
  <2>1. /\ flow \in Flows /\ FlowOK(flow) /\ PostOK(flow)
        /\ flow.pc = "load" \/ (flow.pc = "reads" /\ flow.cred # S!None /\ flow.report # S!None)
    BY Running DEF S!LoadReview
  <2>2. /\ flow.cred \in S!Credentials /\ flow.latest \in Profiles
        /\ flow.action = "accept" => flow.report \in Reports
    BY <2>1 DEF FlowOK, Flows
  <2>3. /\ r \in S!Reviews /\ r # S!None
        /\ r.gen = flow.cred.gen /\ r.uri = flow.cred.uri /\ r.accepted = flow.cred.accepted
        /\ r.state = flow.cred.state /\ r.profile = flow.latest /\ r.claims = FALSE
        /\ flow.action = "accept" => r.trust = flow.report.trust /\ r.trust # "none"
        /\ flow.action # "accept" => r.trust = "none"
    <3>1. CASE flow.action = "accept"
      <4>1. flow.report.trust \in S!Trusts /\ r = S!Loaded(flow.cred, flow.report, FALSE)
        BY <2>2, <3>1 DEF Reports
      <4>2. r \in S!Reviews
        BY <2>1, <2>2, <4>1, LoadedIsReview DEF S!Loaded
      <4> QED BY <3>1, <4>1, <4>2, SomethingIsNotNone DEF S!Loaded, S!Trusts
    <3>2. CASE flow.action # "accept"
      <4>1. r = S!LoadedMutation(flow.cred)
        BY <3>2
      <4>2. r \in S!Reviews
        BY <2>1, <2>2, <4>1, LoadedIsReview DEF S!LoadedMutation
      <4> QED BY <3>2, <4>1, <4>2, SomethingIsNotNone DEF S!LoadedMutation
    <3> QED BY <3>1, <3>2
  <2> HIDE DEF r
  <2>4. /\ flow' \in Flows /\ Begun(flow', flow) /\ flow'.fresh = flow.fresh /\ flow'.stage = flow.stage
        /\ flow'.since = flow.since /\ flow'.cred = flow.cred /\ flow'.report = flow.report
        /\ flow'.latest = flow.latest /\ flow'.loaded = r
        /\ flow'.pc = IF fetches THEN "fetch" ELSE "reviewed"
    <3> DEFINE pc == IF fetches THEN "fetch" ELSE "reviewed"
    <3>1. flow' = [flow EXCEPT !.loaded = r, !.pc = pc] /\ pc \in FlowPcs
      BY <1>2 DEF FlowPcs
    <3> HIDE DEF pc
    <3>2. /\ flow' \in Flows /\ Begun(flow', flow) /\ flow'.fresh = flow.fresh /\ flow'.stage = flow.stage
          /\ flow'.since = flow.since /\ flow'.cred = flow.cred /\ flow'.report = flow.report
          /\ flow'.latest = flow.latest /\ flow'.loaded = r /\ flow'.pc = pc
      BY ZenonT(40), <2>1, <2>3, <3>1 DEF Flows, Begun
    <3> QED BY <3>2 DEF pc
  <2>5. CASE fetches
    <3>1. flow.consent = S!Token(flow.cred)
      BY <1>2, <2>3, <2>5 DEF S!ConsentCurrent, S!Token
    <3>0. /\ flow'.pc = "fetch" /\ flow.form.link \in {S!NoGen, flow.cred.gen} /\ flow.cred # S!None
          /\ flow.action = "accept" /\ flow.stage # "post"
      BY <1>2, <2>2, <2>3, <2>4, <2>5, SomethingIsNotNone
    <3>2. FlowOK(flow')
      BY <2>1, <2>4, <3>0, <3>1 DEF FlowOK, Begun, ReviewedOK
    <3>3. PostOK(flow')
      BY <2>4, <2>5 DEF PostOK
    <3> QED BY <1>0, <1>2, <2>4, <2>5, <3>2, <3>3, AdvanceStep
  <2>6. CASE ~fetches
    <3>1. LoadedOK(flow')
      BY <1>2, <2>1, <2>3, <2>4, <2>6 DEF LoadedOK, Begun
    <3>2. FlowOK(flow')
      BY <1>2, <2>1, <2>2, <2>4, <2>6, <3>1, SomethingIsNotNone DEF FlowOK, Begun, ReviewedOK
    <3>3. ASSUME flow.stage = "post", flow.action = "accept" PROVE SawReport(flow', r)
      <4>1. PICK w \in flow.since : w.gen = flow.report.gen /\ w.state = flow.report.state
                                    /\ w.trust = flow.report.trust
        BY <2>1, <2>2, <3>3, SomethingIsNotNone DEF PostOK, SawReport
      <4> QED BY <1>2, <2>3, <2>4, <3>3, <4>1 DEF SawReport, S!Agree
    <3>4. ASSUME flow.stage = "post", flow.action # "accept" PROVE SawCredential(flow', r)
      BY <2>1, <2>2, <2>3, <2>4, <3>4, SomethingIsNotNone DEF PostOK, SawCredential
    <3>5. PostOK(flow')
      BY <2>1, <2>4, <2>6, <3>3, <3>4 DEF PostOK, Begun, SawCredential, SawReport
    <3> QED BY <1>0, <1>2, <2>4, <2>6, <3>2, <3>5, AdvanceStep
  <2> QED BY <2>5, <2>6
<1> QED BY <1>1, <1>2 DEF S!LoadReview

\* The payload is fetched from the host that was consented to.
LEMMA FetchPayloadStep ==
    ASSUME SubjectInv, flow # S!Idle, S!FetchPayload
    PROVE  SubjectInv'
<1>1. /\ flow \in Flows /\ FlowOK(flow) /\ PostOK(flow) /\ flow.pc = "fetch"
  BY Running DEF S!FetchPayload
<1>2. /\ flow.consent = S!Token(flow.cred) /\ flow.consent \in grants
      /\ flow.stage # "post" /\ flow.cred \in S!Credentials
  <2>1. flow.cred \in S!Credentials /\ flow.consent = S!Token(flow.cred) /\ flow.stage # "post"
    BY <1>1 DEF FlowOK, Flows
  <2>2. \A c \in S!Credentials : S!Token(c) # S!None
    <3>1. \A c \in S!Credentials : S!Token(c).gen \in 1 .. MaxGen
      BY DEF S!Credentials, S!Token, S!Gens
    <3>2. S!None.gen = 0
      BY DEF S!None, S!NoGen
    <3> QED BY <3>1, <3>2
  <2> QED BY <1>1, <2>1, <2>2 DEF FlowOK
<1>3. contact' = S!Token(flow.cred) /\ Quiet
  BY DEF S!FetchPayload, Quiet
<1>4. GhostsOK'
  BY <1>2, <1>3 DEF SubjectInv, GhostsOK, S!HostConsented, Quiet
<1>5. CASE S!Throw(S!Keep)
  BY <1>3, <1>4, <1>5, ThrowStep
<1>6. CASE /\ flow.cred.uri \in ValidUris
           /\ flow' = [flow EXCEPT !.pc = "verify"] /\ UNCHANGED S!page
  <2>1. /\ flow' \in Flows /\ Begun(flow', flow) /\ flow'.fresh = flow.fresh /\ flow'.stage = flow.stage
        /\ flow'.since = flow.since /\ flow'.cred = flow.cred /\ flow'.report = flow.report
        /\ flow'.latest = flow.latest /\ flow'.pc = "verify"
    BY <1>1, <1>6 DEF Flows, FlowPcs, Begun
  <2>2. FlowOK(flow')
    BY <1>1, <1>2, <1>6, <2>1 DEF FlowOK, Begun, ReviewedOK
  <2>3. PostOK(flow')
    BY <1>2, <2>1 DEF PostOK
  <2> QED BY <1>3, <1>4, <1>6, <2>1, <2>2, <2>3, AdvanceStep
<1> QED BY <1>5, <1>6 DEF S!FetchPayload

\* The report with the payload is joined with the credential read before.
LEMMA VerifyPayloadStep ==
    ASSUME SubjectInv, flow # S!Idle, S!VerifyPayload
    PROVE  SubjectInv'
<1>0. Quiet /\ contact' = contact
  BY DEF S!VerifyPayload, Quiet, S!ghosts
<1>1. CASE S!Throw(S!Keep)
  BY <1>0, <1>1, ThrowStep
<1>2. CASE /\ flow' = [flow EXCEPT !.loaded = S!Loaded(flow.cred, S!Report, TRUE), !.pc = "reviewed"]
           /\ UNCHANGED S!page
  <2>1. /\ flow \in Flows /\ FlowOK(flow) /\ flow.pc = "verify" /\ trust \in S!Trusts
    BY Running DEF S!VerifyPayload, SubjectInv, WorldOK
  <2>2. flow.cred \in S!Credentials /\ flow.latest \in Profiles /\ flow.stage # "post"
    BY <2>1 DEF FlowOK, Flows
  <2>3. PICK r \in S!Reviews :
           /\ r = S!Loaded(flow.cred, S!Report, TRUE) /\ r.gen = flow.cred.gen /\ r.uri = flow.cred.uri
           /\ r.profile = flow.latest /\ r.claims /\ r.trust # "none"
    <3>1. S!Report.trust = trust /\ trust # "none"
      BY <2>1 DEF S!Report, S!Trusts
    <3>2. S!Loaded(flow.cred, S!Report, TRUE) \in S!Reviews
      BY <2>1, <2>2, <3>1, LoadedIsReview DEF S!Loaded
    <3> QED BY <3>1, <3>2 DEF S!Loaded
  <2>4. /\ flow' \in Flows /\ Begun(flow', flow) /\ flow'.fresh = flow.fresh /\ flow'.stage = flow.stage
        /\ flow'.since = flow.since /\ flow'.cred = flow.cred /\ flow'.report = flow.report
        /\ flow'.latest = flow.latest /\ flow'.pc = "reviewed" /\ flow'.loaded = r
    BY ZenonT(40), <1>2, <2>1, <2>3 DEF Flows, FlowPcs, Begun
  <2>5. LoadedOK(flow')
    <3>1. /\ r # S!None /\ flow.action = "accept" /\ flow.consent = S!Token(flow.cred)
          /\ flow.form.link \in {S!NoGen, flow.cred.gen} /\ flow.cred.uri \in ValidUris
      BY <2>1, <2>3, SomethingIsNotNone DEF FlowOK
    <3>2. flow.consent = S!Token(r)
      BY <2>3, <3>1 DEF S!Token
    <3> QED BY <2>3, <2>4, <3>1, <3>2 DEF LoadedOK, Begun
  <2>6. FlowOK(flow')
    BY <2>1, <2>2, <2>4, <2>5 DEF FlowOK, Begun, ReviewedOK
  <2>7. PostOK(flow')
    BY <2>2, <2>4 DEF PostOK
  <2> QED BY <1>0, <1>2, <2>4, <2>6, <2>7, AdvanceStep
<1> QED BY <1>1, <1>2 DEF S!VerifyPayload
\* The review is shown; without a block, the transaction is prepared next.
LEMMA ShowReviewStep ==
    ASSUME SubjectInv, flow # S!Idle, S!ShowReview
    PROVE  SubjectInv'
<1>0. Quiet /\ contact' = contact
  BY DEF S!ShowReview, Quiet, S!ghosts
<1>1. CASE S!Throw(S!Keep)
  BY <1>0, <1>1, ThrowStep
<1>2. ASSUME flow.fresh, review' = flow.loaded, UNCHANGED consent, ack' \in {ack, S!None}, tx' \in {tx, S!None},
             \/ flow' = S!Idle
             \/ /\ flow.action = "accept" => flow.consent # S!None
                /\ S!ActionAllowed(flow.loaded, flow.action, flow.ack, flow.loaded.profile, flow.account)
                /\ flow' = [flow EXCEPT !.pc = "prepare"] /\ UNCHANGED ack
      PROVE  SubjectInv'
  <2>1. /\ flow \in Flows /\ FlowOK(flow) /\ PageFits(flow) /\ flow.pc = "reviewed" /\ flow.stage = "preview"
    BY Running DEF S!ShowReview
  <2>2. LoadedOK(flow) /\ flow.loaded \in S!Reviews /\ tx = S!None
    BY <2>1 DEF FlowOK, Flows, LoadedOK, PageFits
  <2>3. WorldOK'
    BY <1>0 DEF Quiet, S!world, SubjectInv, WorldOK
  <2>4. PageOK'
    BY <1>0, <1>2, <2>2 DEF Quiet, SubjectInv, PageOK, LoadedOK
  <2>5. S!PreviewCoherent'
    BY <1>2, <2>2 DEF S!PreviewCoherent
  <2>6. FlowInv'
    <3>1. CASE flow' = S!Idle
      BY <3>1 DEF FlowInv, S!Idle
    <3>2. CASE /\ flow.action = "accept" => flow.consent # S!None
               /\ S!ActionAllowed(flow.loaded, flow.action, flow.ack, flow.loaded.profile, flow.account)
               /\ flow' = [flow EXCEPT !.pc = "prepare"] /\ UNCHANGED ack
      <4>1. /\ flow' \in Flows /\ Begun(flow', flow) /\ flow'.fresh = flow.fresh /\ flow'.stage = flow.stage
            /\ flow'.since = flow.since /\ flow'.cred = flow.cred /\ flow'.report = flow.report
            /\ flow'.latest = flow.latest /\ flow'.loaded = flow.loaded /\ flow'.pc = "prepare"
        BY <2>1, <3>2 DEF Flows, FlowPcs, Begun
      <4>2. LoadedOK(flow')
        BY <2>2, <4>1 DEF LoadedOK, Begun
      <4>3. FlowOK(flow')
        BY <2>1, <3>2, <4>1, <4>2 DEF FlowOK, Begun
      <4>4. FlowOK(flow)' /\ PostOK(flow)' /\ WorldSeen(flow)'
        BY <1>0, <2>1, <4>1, <4>3 DEF FlowOK, PostOK, WorldSeen, Quiet
      <4>5. PageFits(flow)'
        BY <1>0, <1>2, <2>1, <2>2, <3>2, <4>1 DEF PageFits, Begun, Quiet
      <4> QED BY <4>4, <4>5 DEF FlowInv
    <3> QED BY <1>2, <3>1, <3>2
  <2>7. GhostsOK'
    BY <1>0 DEF Quiet, SubjectInv, GhostsOK, S!HostConsented
  <2>8. S!AcceptanceReviewed' /\ S!MutationReviewed' /\ JournalOK'
    BY <1>0, RelayedStays DEF Quiet, SubjectInv
  <2> QED BY <1>0, <2>3, <2>4, <2>5, <2>6, <2>7, <2>8 DEF SubjectInv, SubjectAssumption, Quiet
<1> QED BY <1>1, <1>2 DEF S!ShowReview

\* The transaction on display fits the review on display.
LEMMA PrepareStep ==
    ASSUME SubjectInv, flow # S!Idle, S!Prepare
    PROVE  SubjectInv'
<1>0. Quiet /\ contact' = contact
  BY DEF S!Prepare, Quiet, S!ghosts
<1>1. CASE S!Throw(S!Keep)
  BY <1>0, <1>1, ThrowStep
<1>2. CASE /\ choice.account = flow.account /\ profile = flow.profile /\ flow.fresh
           /\ tx' = [gen |-> flow.loaded.gen, account |-> flow.account, action |-> flow.action,
                      profile |-> profile, session |-> TRUE]
           /\ flow' = S!Idle /\ UNCHANGED <<review, consent, ack>>
  <2>1. /\ flow \in Flows /\ FlowOK(flow) /\ PageFits(flow) /\ flow.pc = "prepare"
    BY Running DEF S!Prepare
  <2>2. /\ LoadedOK(flow) /\ flow.loaded \in S!Reviews /\ flow.stage = "preview" /\ review = flow.loaded
        /\ flow.account = flow.form.account /\ flow.action = flow.form.action
        /\ flow.action = "accept" => flow.consent # S!None
        /\ S!ActionAllowed(flow.loaded, flow.action, flow.ack, flow.loaded.profile, flow.account)
    BY <1>2, <2>1 DEF FlowOK, Flows, LoadedOK, PageFits
  <2>3. WorldOK'
    BY <1>0 DEF Quiet, S!world, SubjectInv, WorldOK
  <2>4. tx' \in S!Transactions
    BY <1>2, <2>1, <2>2 DEF S!Transactions, S!Reviews, Flows, SubjectInv, WorldOK
  <2>5. PageOK'
    BY <1>0, <1>2, <2>4 DEF Quiet, SubjectInv, PageOK
  <2>6. S!PreviewCoherent'
    <3> SUFFICES ASSUME ~queued PROVE S!PreviewCoherent'
      BY <1>0 DEF S!PreviewCoherent, Quiet
    <3>1. choice = flow.form /\ choice' = choice /\ review' = flow.loaded /\ review' # S!None
      BY <1>0, <1>2, <2>1, <2>2 DEF PageFits, Quiet, LoadedOK
    <3>2. /\ tx'.gen = flow.loaded.gen /\ tx'.account = choice.account /\ tx'.action = choice.action
          /\ tx'.action = flow.action
      BY <1>2, <2>2, <3>1
    <3>3. choice.link \in {S!NoGen, flow.loaded.gen} /\ S!StateAllows(flow.loaded, flow.action)
      BY <2>2, <3>1 DEF LoadedOK, S!ActionAllowed
    <3>4. ASSUME flow.action = "accept"
          PROVE  /\ flow.loaded.claims /\ consent' = S!Token(flow.loaded)
                 /\ flow.loaded.trust # "untrusted"
                 /\ flow.loaded.trust = "unknown" =>
                       /\ ack' = S!Acknowledgement(flow.loaded, tx'.profile, choice.account)
                       /\ flow.loaded.profile = tx'.profile
      <4>1. consent' = flow.consent /\ ack' = flow.ack
        BY <1>2, <2>1, <2>2, <3>4 DEF PageFits
      <4>2. S!TrustAllows(flow.loaded, flow.ack, flow.loaded.profile, flow.account)
        BY <2>2, <3>4 DEF S!ActionAllowed
      <4>3. tx'.profile = flow.loaded.profile /\ choice.account = flow.account
        BY <1>2, <2>1, <2>2 DEF LoadedOK, FlowOK
      <4> QED BY <2>2, <3>4, <4>1, <4>2, <4>3 DEF LoadedOK, S!TrustAllows
    <3>5. S!StateAllows(review', tx'.action)
      BY <3>1, <3>2, <3>3
    <3> QED BY <3>1, <3>2, <3>3, <3>4, <3>5 DEF S!PreviewCoherent, S!StateAllows, S!Token, S!Acknowledgement
  <2>7. FlowInv'
    BY <1>2 DEF FlowInv, S!Idle
  <2>8. GhostsOK'
    BY <1>0 DEF Quiet, SubjectInv, GhostsOK, S!HostConsented
  <2>9. S!AcceptanceReviewed' /\ S!MutationReviewed' /\ JournalOK'
    BY <1>0, RelayedStays DEF Quiet, SubjectInv
  <2> QED BY <1>0, <2>3, <2>5, <2>6, <2>7, <2>8, <2>9 DEF SubjectInv, SubjectAssumption, Quiet
<1> QED BY <1>1, <1>2 DEF S!Prepare

\* The submission goes on only with a review that says what was reviewed.
LEMMA CheckReviewStep ==
    ASSUME SubjectInv, flow # S!Idle, S!CheckReview
    PROVE  SubjectInv'
<1>0. Quiet /\ contact' = contact
  BY DEF S!CheckReview, Quiet, S!ghosts
<1>1. CASE S!Throw(S!Keep) \/ S!Throw(S!ClearInvalidIssuerTrustAcknowledgement)
  BY <1>0, <1>1, ThrowStep
<1>2. CASE /\ S!Current /\ review' = flow.loaded /\ UNCHANGED <<consent, ack, tx>>
           /\ S!ReviewCurrent(flow.expected, flow.loaded, flow.action, flow.profile, flow.profile,
                            flow.ack, flow.account)
           /\ flow' \in {[flow EXCEPT !.pc = "wallet"], S!Idle}
  <2>1. /\ flow \in Flows /\ FlowOK(flow) /\ PageFits(flow) /\ flow.pc = "reviewed" /\ flow.stage = "submit"
    BY Running DEF S!CheckReview
  <2>2. /\ LoadedOK(flow) /\ ReviewedOK(flow) /\ flow.loaded \in S!Reviews /\ flow.expected \in S!Reviews
        /\ flow.account = flow.form.account /\ flow.action = flow.form.action
        /\ flow.latest = flow.profile
    BY <2>1 DEF FlowOK, Flows, LoadedOK, ReviewedOK
  <2>3. WorldOK'
    BY <1>0 DEF Quiet, S!world, SubjectInv, WorldOK
  <2>4. PageOK'
    BY <1>0, <1>2, <2>2 DEF Quiet, SubjectInv, PageOK, LoadedOK
  <2>5. S!PreviewCoherent'
    <3>1. /\ choice' = flow.form /\ review' = flow.loaded /\ review' # S!None
          /\ tx' # S!None /\ tx'.gen = flow.tx.gen /\ tx'.account = flow.tx.account
          /\ tx'.action = flow.tx.action /\ tx'.profile = flow.tx.profile
          /\ consent' = flow.consent /\ ack' = flow.ack
      BY <1>0, <1>2, <2>1, <2>2, CurrentSame, SomethingIsNotNone DEF Quiet, LoadedOK
    <3>2. /\ flow.tx.gen = flow.loaded.gen /\ flow.tx.account = flow.form.account
          /\ flow.tx.action = flow.form.action /\ flow.tx.action = flow.action
          /\ flow.form.link \in {S!NoGen, flow.loaded.gen} /\ S!StateAllows(flow.loaded, flow.action)
      BY <1>2, <2>2 DEF LoadedOK, ReviewedOK, S!ReviewCurrent
    <3>3. ASSUME flow.action = "accept"
          PROVE  /\ flow.loaded.claims /\ flow.consent = S!Token(flow.loaded)
                 /\ flow.loaded.trust # "untrusted"
                 /\ flow.loaded.trust = "unknown" =>
                       /\ flow.ack = S!Acknowledgement(flow.loaded, flow.tx.profile, flow.form.account)
                       /\ flow.loaded.profile = flow.tx.profile
      <4>1. flow.consent # S!None
        <5>1. flow.consent = S!Token(flow.expected) /\ flow.expected.gen \in S!Gens
          BY <2>2, <3>3 DEF ReviewedOK, S!Reviews
        <5>2. S!None.gen = 0 /\ flow.consent.gen \in 1 .. MaxGen
          BY <5>1 DEF S!None, S!NoGen, S!Token, S!Gens
        <5> QED BY <5>2
      <4>2. S!TrustAllows(flow.loaded, flow.ack, flow.profile, flow.account)
            /\ flow.expected.trust = flow.loaded.trust /\ flow.expected.gen = flow.loaded.gen
        BY <1>2, <3>3 DEF S!ReviewCurrent
      <4>3. flow.loaded.trust = "unknown" =>
               /\ flow.ack = S!Acknowledgement(flow.loaded, flow.profile, flow.account)
               /\ flow.ack = S!Acknowledgement(flow.expected, flow.tx.profile, flow.account)
        BY <2>2, <3>3, <4>2 DEF S!TrustAllows, ReviewedOK
      <4>4. flow.loaded.trust # "untrusted" /\ flow.loaded.profile = flow.profile
            /\ flow.loaded.claims /\ flow.consent = S!Token(flow.loaded)
        BY <2>1, <2>2, <3>3, <4>1, <4>2 DEF LoadedOK, S!TrustAllows
      <4> QED BY <2>2, <4>2, <4>3, <4>4 DEF S!Acknowledgement
    <3>4. S!StateAllows(review', tx'.action)
      BY <3>1, <3>2
    <3> QED BY <3>1, <3>2, <3>3, <3>4 DEF S!PreviewCoherent, S!StateAllows, S!Token, S!Acknowledgement
  <2>6. FlowInv'
    <3>1. CASE flow' = S!Idle
      BY <3>1 DEF FlowInv, S!Idle
    <3>2. CASE flow' = [flow EXCEPT !.pc = "wallet"]
      <4>1. /\ flow' \in Flows /\ Begun(flow', flow) /\ flow'.fresh = flow.fresh /\ flow'.stage = flow.stage
            /\ flow'.since = flow.since /\ flow'.cred = flow.cred /\ flow'.report = flow.report
            /\ flow'.latest = flow.latest /\ flow'.loaded = flow.loaded /\ flow'.pc = "wallet"
        BY <2>1, <3>2 DEF Flows, FlowPcs, Begun
      <4>2. LoadedOK(flow')
        BY <2>2, <4>1 DEF LoadedOK, Begun
      <4>3. FlowOK(flow')
        BY <1>2, <2>1, <2>2, <4>1, <4>2 DEF FlowOK, Begun, ReviewedOK
      <4>4. FlowOK(flow)' /\ PostOK(flow)' /\ WorldSeen(flow)'
        BY <1>0, <2>1, <4>1, <4>3 DEF FlowOK, PostOK, WorldSeen, Quiet
      <4>5. PageFits(flow)'
        BY <1>0, <2>1, <4>1 DEF PageFits, Begun, Quiet
      <4> QED BY <4>4, <4>5 DEF FlowInv
    <3> QED BY <1>2, <3>1, <3>2
  <2>7. GhostsOK'
    BY <1>0 DEF Quiet, SubjectInv, GhostsOK, S!HostConsented
  <2>8. S!AcceptanceReviewed' /\ S!MutationReviewed' /\ JournalOK'
    BY <1>0, RelayedStays DEF Quiet, SubjectInv
  <2> QED BY <1>0, <2>3, <2>4, <2>5, <2>6, <2>7, <2>8 DEF SubjectInv, SubjectAssumption, Quiet
<1> QED BY <1>1, <1>2 DEF S!CheckReview
\* The wallet is opened.
LEMMA OpenWalletStep ==
    ASSUME SubjectInv, flow # S!Idle, S!OpenWallet
    PROVE  SubjectInv'
<1>0. Quiet /\ contact' = contact
  BY DEF S!OpenWallet, Quiet, S!ghosts
<1>1. CASE S!Throw(S!Keep)
  BY <1>0, <1>1, ThrowStep
<1>2. CASE flow' = [flow EXCEPT !.pc = "sign"] /\ UNCHANGED S!page
  <2>1. /\ flow \in Flows /\ FlowOK(flow) /\ flow.pc = "wallet"
    BY Running DEF S!OpenWallet
  <2>2. flow.stage = "submit" /\ LoadedOK(flow)
    BY <2>1 DEF FlowOK, Flows
  <2>3. /\ flow' \in Flows /\ Begun(flow', flow) /\ flow'.fresh = flow.fresh /\ flow'.stage = flow.stage
        /\ flow'.since = flow.since /\ flow'.cred = flow.cred /\ flow'.report = flow.report
        /\ flow'.latest = flow.latest /\ flow'.loaded = flow.loaded /\ flow'.pc = "sign"
    BY <1>2, <2>1 DEF Flows, FlowPcs, Begun
  <2>4. LoadedOK(flow')
    BY <2>2, <2>3 DEF LoadedOK, Begun
  <2>5. FlowOK(flow')
    BY <2>1, <2>2, <2>3, <2>4 DEF FlowOK, Begun, ReviewedOK
  <2>6. PostOK(flow')
    BY <2>2, <2>3 DEF PostOK
  <2> QED BY <1>0, <1>2, <2>3, <2>5, <2>6, AdvanceStep
<1> QED BY <1>1, <1>2 DEF S!OpenWallet

\* What the tuple of an account and the issuer's trust are now.
LEMMA SnapshotTyped ==
    ASSUME WorldOK, NEW a \in Accounts
    PROVE  S!Snapshot(a) \in Snapshots
<1>1. cred[a] \in S!Credentials /\ Consistent(cred[a]) /\ trust \in S!Trusts
  BY DEF WorldOK
<1>2. S!Snapshot(a) \in [gen : S!Gens, state : States, accepted : BOOLEAN, trust : S!Trusts]
  BY <1>1 DEF S!Snapshot, S!SnapshotOf, S!Credentials, States
<1> QED BY <1>1, <1>2 DEF Snapshots, Consistent, S!Snapshot, S!SnapshotOf

\* What the wallet signs rests on the review: the flow has compared the last review before
\* it with the one on display.
LEMMA SignedReviewed ==
    ASSUME flow \in Flows, FlowOK(flow), ReviewedOK(flow), flow.pc \in {"wallet", "sign", "relay"},
           NEW via, NEW worlds
    PROVE  SignedOK(S!Operation(via, worlds))
<1> DEFINE op == S!Operation(via, worlds)
<1>1. /\ op.gen = flow.tx.gen /\ op.account = flow.account /\ op.action = flow.action
      /\ op.profile = flow.tx.profile /\ op.uri = flow.expected.uri
      /\ op.trust = flow.expected.trust /\ op.ack = flow.ack
  BY DEF S!Operation
<1> HIDE DEF op
<1> SUFFICES ASSUME flow.action = "accept"
             PROVE  op.uri \in ValidUris /\ S!Token(op) \in grants /\ S!IssuerAccepted(op.trust, op)
  BY <1>1 DEF SignedOK, op
<1>2. /\ flow.expected.uri \in ValidUris /\ flow.consent = S!Token(flow.expected)
      /\ flow.expected \in S!Reviews /\ flow.tx.gen = flow.expected.gen
      /\ flow.expected.trust = "unknown" =>
            flow.ack = S!Acknowledgement(flow.expected, flow.tx.profile, flow.account)
  BY DEF ReviewedOK, Flows
<1>3. flow.consent \in grants
  <2>1. flow.consent.gen \in 1 .. MaxGen /\ S!None.gen = 0
    BY <1>2 DEF S!Token, S!Reviews, S!Gens, S!None, S!NoGen
  <2> QED BY <2>1 DEF FlowOK
<1>4. S!Token(op) \in grants
  BY <1>1, <1>2, <1>3 DEF S!Token
<1>5. flow.expected.trust \in {"trusted", "unknown"}
  BY DEF FlowOK, S!ReviewCurrent, S!TrustAllows
<1>6. S!IssuerAccepted(op.trust, op)
  BY <1>1, <1>2, <1>5 DEF S!IssuerAccepted, S!Acknowledgement
<1> QED BY <1>1, <1>2, <1>4, <1>6

\* The blob is persisted, and the page begins to look again.
LEMMA SignStep ==
    ASSUME SubjectInv, flow # S!Idle, S!Sign
    PROVE  SubjectInv'
<1>1. /\ flow \in Flows /\ FlowOK(flow) /\ PageFits(flow) /\ flow.pc = "sign" /\ flow.account \in Accounts
  BY Running DEF S!Sign, Flows
<1>2. flow.stage = "submit" /\ LoadedOK(flow) /\ ReviewedOK(flow)
  BY <1>1 DEF FlowOK, Flows
<1>3. S!Snapshot(flow.account) \in Snapshots
  BY <1>1, SnapshotTyped DEF SubjectInv
<1>4. /\ flow' \in Flows /\ Begun(flow', flow) /\ flow'.fresh = flow.fresh /\ flow'.stage = "post"
      /\ flow'.since = {S!Snapshot(flow.account)} /\ flow'.cred = S!None /\ flow'.report = S!None
      /\ flow'.pc = "generation"
  <2> DEFINE snap == S!Snapshot(flow.account)
  <2>1. flow' = [flow EXCEPT !.stage = "post", !.pc = "generation", !.since = {snap},
                             !.cred = S!None, !.report = S!None]
    BY DEF S!Sign
  <2>2. snap \in Snapshots
    BY <1>3
  <2> HIDE DEF snap
  <2>3. /\ flow' \in Flows /\ Begun(flow', flow) /\ flow'.fresh = flow.fresh /\ flow'.stage = "post"
        /\ flow'.since = {snap} /\ flow'.cred = S!None /\ flow'.report = S!None
        /\ flow'.pc = "generation"
    BY ZenonT(40), <1>1, <2>1, <2>2 DEF Flows, FlowPcs, Begun
  <2> QED BY <2>3 DEF snap
<1>5. /\ UNCHANGED <<S!world, budget, choice, queued, relayed, grants, contact>> /\ UNCHANGED S!page
  BY DEF S!Sign, S!ghosts
<1>6. WorldOK' /\ PageOK' /\ S!PreviewCoherent' /\ GhostsOK'
  BY <1>5 DEF S!world, S!page, SubjectInv, WorldOK, PageOK, S!PreviewCoherent, GhostsOK, S!HostConsented
<1>7. FlowInv'
  <2>1. FlowOK(flow')
    BY <1>1, <1>2, <1>4 DEF FlowOK, Begun, ReviewedOK
  <2>2. FlowOK(flow)' /\ PostOK(flow)'
    BY <1>4, <1>5, <2>1 DEF FlowOK, PostOK
  <2>3. PageFits(flow)'
    BY <1>1, <1>4, <1>5 DEF PageFits, Begun, S!page
  <2>4. WorldSeen(flow)'
    BY <1>4, <1>5 DEF WorldSeen, S!Snapshot, S!world, Begun
  <2> QED BY <2>2, <2>3, <2>4 DEF FlowInv
<1>8. JournalOK'
  <2> DEFINE op == S!Operation("retry", {S!Snapshot(flow.account)})
  <2>1. flow.tx \in S!Transactions /\ flow.expected \in S!Reviews
    BY <1>1, <1>2 DEF Flows, ReviewedOK
  <2>2. op \in Blobs
    <3> DEFINE worlds == {S!Snapshot(flow.account)}
    <3>1. worlds \in SUBSET Snapshots
      BY <1>3
    <3> HIDE DEF worlds
    <3>2. S!Operation("retry", worlds) \in Blobs
      BY <1>1, <2>1, <3>1 DEF S!Operation, Blobs, S!Reviews, S!Transactions, Flows
    <3> QED BY <3>2 DEF worlds
  <2>3. SignedOK(op)
    BY <1>1, <1>2, <2>1, SignedReviewed DEF FlowOK
  <2>4. journal' = journal \cup {op} /\ grants' = grants
    BY <1>5 DEF S!Sign
  <2> HIDE DEF op
  <2> QED BY <2>2, <2>3, <2>4 DEF SubjectInv, JournalOK, SignedOK, S!IssuerAccepted
<1>9. S!AcceptanceReviewed' /\ S!MutationReviewed'
  BY <1>5 DEF SubjectInv, S!AcceptanceReviewed, S!MutationReviewed, S!IssuerAccepted
<1> QED BY <1>6, <1>7, <1>8, <1>9 DEF SubjectInv, SubjectAssumption

\* The generation is looked at before the review is loaded for the last time.
LEMMA AssertGenerationStep ==
    ASSUME SubjectInv, flow # S!Idle, S!AssertGeneration
    PROVE  SubjectInv'
<1>0. Quiet /\ contact' = contact
  BY DEF S!AssertGeneration, Quiet, S!ghosts
<1>1. CASE S!Throw(S!Keep) \/ S!Throw(S!ClearInvalidIssuerTrustAcknowledgement)
  BY <1>0, <1>1, ThrowStep
<1>2. CASE flow' = [flow EXCEPT !.pc = "profile"] /\ UNCHANGED S!page
  <2>1. /\ flow \in Flows /\ FlowOK(flow) /\ flow.pc = "generation"
    BY Running DEF S!AssertGeneration
  <2>2. flow.stage = "post"
    BY <2>1 DEF FlowOK, Flows
  <2>3. /\ flow' \in Flows /\ Begun(flow', flow) /\ flow'.fresh = flow.fresh /\ flow'.stage = flow.stage
        /\ flow'.since = flow.since /\ flow'.cred = flow.cred /\ flow'.report = flow.report
        /\ flow'.latest = flow.latest /\ flow'.pc = "profile"
    BY <1>2, <2>1 DEF Flows, FlowPcs, Begun
  <2>4. FlowOK(flow')
    BY <2>1, <2>2, <2>3 DEF FlowOK, Begun, ReviewedOK
  <2>5. PostOK(flow')
    BY <2>1, <2>3 DEF PostOK, FlowOK
  <2> QED BY <1>0, <1>2, <2>3, <2>4, <2>5, AdvanceStep
<1> QED BY <1>1, <1>2 DEF S!AssertGeneration

\* What was loaded after the signature is compared with what was reviewed.
LEMMA RevalidateStep ==
    ASSUME SubjectInv, flow # S!Idle, S!Revalidate
    PROVE  SubjectInv'
<1>0. Quiet /\ contact' = contact
  BY DEF S!Revalidate, Quiet, S!ghosts
<1>1. CASE S!Throw(S!Keep) \/ S!Throw(S!ClearInvalidIssuerTrustAcknowledgement)
  BY <1>0, <1>1, ThrowStep
<1>2. CASE /\ S!ReviewCurrent(flow.expected, flow.loaded, flow.action, flow.profile, flow.latest,
                            flow.ack, flow.account)
           /\ flow' = [flow EXCEPT !.pc = "relay"] /\ UNCHANGED S!page
  <2>1. /\ flow \in Flows /\ FlowOK(flow) /\ PostOK(flow) /\ flow.pc = "reviewed" /\ flow.stage = "post"
    BY Running DEF S!Revalidate
  <2>2. LoadedOK(flow)
    BY <2>1 DEF FlowOK
  <2>3. /\ flow' \in Flows /\ Begun(flow', flow) /\ flow'.fresh = flow.fresh /\ flow'.stage = flow.stage
        /\ flow'.since = flow.since /\ flow'.cred = flow.cred /\ flow'.report = flow.report
        /\ flow'.latest = flow.latest /\ flow'.loaded = flow.loaded /\ flow'.pc = "relay"
    BY <1>2, <2>1 DEF Flows, FlowPcs, Begun
  <2>4. LoadedOK(flow')
    BY <2>2, <2>3 DEF LoadedOK, Begun
  <2>5. FlowOK(flow')
    BY <1>2, <2>1, <2>3, <2>4 DEF FlowOK, Begun, ReviewedOK
  <2>6. PostOK(flow')
    BY <2>1, <2>3 DEF PostOK, Begun, SawReport, SawCredential
  <2> QED BY <1>0, <1>2, <2>3, <2>5, <2>6, AdvanceStep
<1> QED BY <1>1, <1>2 DEF S!Revalidate

\* What is relayed was reviewed, and was still so after the signature.
LEMMA RelayStep ==
    ASSUME SubjectInv, flow # S!Idle, S!Relay
    PROVE  SubjectInv'
<1>1. CASE S!Throw(S!Keep) /\ UNCHANGED <<relayed, journal>>
  <2>1. Quiet /\ contact' = contact
    BY <1>1 DEF S!Relay, Quiet, S!ghosts
  <2> QED BY <1>1, <2>1, ThrowStep
<1>2. CASE /\ relayed' = S!Operation("page", flow.since)
           /\ journal' = {op \in journal : op.account # flow.account}
           /\ flow' = S!Idle /\ tx' = S!None /\ UNCHANGED <<review, consent, ack>>
  <2>1. /\ flow \in Flows /\ FlowOK(flow) /\ PostOK(flow) /\ flow.pc = "relay"
    BY Running DEF S!Relay
  <2>2. /\ flow.stage = "post" /\ LoadedOK(flow) /\ ReviewedOK(flow)
        /\ S!ReviewCurrent(flow.expected, flow.loaded, flow.action, flow.profile, flow.latest,
                         flow.ack, flow.account)
    BY <2>1 DEF FlowOK, Flows
  <2>3. UNCHANGED <<S!world, budget, choice, queued, grants, contact>>
    BY DEF S!Relay, S!ghosts
  <2>4. WorldOK' /\ PageOK' /\ S!PreviewCoherent' /\ GhostsOK'
    BY <1>2, <2>3 DEF S!world, SubjectInv, WorldOK, PageOK, S!PreviewCoherent, GhostsOK, S!HostConsented
  <2>5. FlowInv' /\ JournalOK'
    BY <1>2, <2>3 DEF FlowInv, S!Idle, SubjectInv, JournalOK, SignedOK, S!IssuerAccepted
  <2>6. flow.loaded.gen = flow.tx.gen /\ S!StateAllows(flow.loaded, flow.action)
    BY <2>2 DEF ReviewedOK, S!ReviewCurrent
  <2> DEFINE op == S!Operation("page", flow.since)
  <2>7. /\ op.via = "page" /\ op.gen = flow.tx.gen /\ op.action = flow.action /\ op.since = flow.since
        /\ op.trust = flow.expected.trust /\ relayed' = op
    BY <1>2 DEF S!Operation
  <2> HIDE DEF op
  <2>8. SignedOK(op)
    BY <2>1, <2>2, SignedReviewed DEF op
  <2>9. S!AcceptanceReviewed'
    <3> SUFFICES ASSUME flow.action = "accept"
                 PROVE  \E w \in flow.since : /\ w.gen = op.gen /\ S!StateAllows(w, "accept")
                                              /\ S!IssuerAccepted(w.trust, op)
      BY <2>3, <2>7, <2>8 DEF S!AcceptanceReviewed, SignedOK, S!IssuerAccepted, S!Token
    <3>1. PICK w \in flow.since : /\ w.gen = flow.loaded.gen /\ w.state = flow.loaded.state
                                  /\ w.trust = flow.loaded.trust
      BY <2>1, <2>2 DEF PostOK, SawReport
    <3>2. w.gen = op.gen /\ S!StateAllows(w, "accept")
      <4>1. Consistent(w)
        BY <2>1 DEF Flows, Snapshots
      <4>2. ~flow.loaded.accepted /\ flow.loaded.state = "pending"
        BY <2>6 DEF S!StateAllows
      <4> QED BY <2>6, <2>7, <3>1, <4>1, <4>2 DEF S!StateAllows, Consistent
    <3>3. w.trust = op.trust
      BY <2>2, <2>7, <3>1 DEF S!ReviewCurrent
    <3> QED BY <2>7, <2>8, <3>2, <3>3 DEF SignedOK
  <2>10. S!MutationReviewed'
    <3>1. ASSUME flow.action # "accept"
          PROVE  \E w \in flow.since : w.gen = flow.tx.gen /\ S!StateAllows(w, flow.action)
      <4>1. PICK w \in flow.since : /\ w.gen = flow.loaded.gen /\ w.state = flow.loaded.state
                                    /\ w.accepted = flow.loaded.accepted
        BY <2>1, <2>2, <3>1 DEF PostOK, SawCredential
      <4> QED BY <2>6, <4>1 DEF S!StateAllows
    <3> QED BY <2>7, <3>1 DEF S!MutationReviewed
  <2> QED BY <2>4, <2>5, <2>9, <2>10 DEF SubjectInv, SubjectAssumption
<1> QED BY <1>1, <1>2 DEF S!Relay

\* Every step of a flow preserves the invariant.
LEMMA FlowStep ==
    ASSUME SubjectInv, S!Flow
    PROVE  SubjectInv'
<1>1. flow # S!Idle
  BY DEF S!Flow, S!Busy
<1>2. CASE S!RequestFails
  <2>1. S!Throw(S!Keep) /\ Quiet /\ contact' = contact
    BY <1>2 DEF S!RequestFails, Quiet, S!ghosts
  <2> QED BY <2>1, ThrowStep
<1> QED BY <1>1, <1>2, ReadProfileStep, GetCredentialStep, VerifyStep, LoadReviewStep, FetchPayloadStep,
           VerifyPayloadStep, ShowReviewStep, PrepareStep, CheckReviewStep, OpenWalletStep, SignStep,
           AssertGenerationStep, RevalidateStep, RelayStep DEF S!Flow

-----------------------------------------------------------------------------
(* The world, the form and the beginning of a flow.                        *)

\* The world changes; a flow past its signature has seen it.
LEMMA WorldStep ==
    ASSUME SubjectInv, S!World
    PROVE  SubjectInv'
<1>1. UNCHANGED <<choice, queued, S!page, journal, relayed, grants, contact>> /\ flow' = S!Aged(flow)
  BY DEF S!World, S!ghosts
<1>2. WorldOK'
  <2>1. ASSUME NEW a \in Accounts, S!Reissue(a) PROVE WorldOK'
    <3>1. PICK u \in Uris : cred' = [cred EXCEPT ![a] = [gen |-> budget.gen + 1, uri |-> u,
                                                         accepted |-> FALSE, state |-> "pending"]]
      BY <2>1 DEF S!Reissue
    <3>2. budget.gen \in Nat /\ budget.gen < MaxGen /\ MaxGen \in Nat
      BY <2>1 DEF S!Reissue, SubjectInv, WorldOK, SubjectAssumption
    <3>3. [gen |-> budget.gen + 1, uri |-> u, accepted |-> FALSE, state |-> "pending"] \in S!Credentials
      BY <3>2 DEF S!Credentials, S!Gens
    <3>4. budget'.gen \in Nat
      BY <2>1, <3>2 DEF S!Reissue
    <3> QED BY <2>1, <3>1, <3>3, <3>4 DEF S!Reissue, SubjectInv, WorldOK, Consistent
  <2>2. ASSUME NEW a \in Accounts, S!Evolve(a) PROVE WorldOK'
    <3>1. PICK s \in {"active", "expired", "deleted"} :
             cred' = [cred EXCEPT ![a].state = s, ![a].accepted = @ \/ s = "active"]
      BY <2>2 DEF S!Evolve
    <3>2. cred[a] \in S!Credentials
      BY DEF SubjectInv, WorldOK
    <3>3. \A c \in S!Credentials : [c EXCEPT !.state = s, !.accepted = @ \/ s = "active"] \in S!Credentials
                                 /\ [c EXCEPT !.state = s, !.accepted = @ \/ s = "active"].state = s
      BY DEF S!Credentials
    <3>4. PICK c : c = [cred[a] EXCEPT !.state = s, !.accepted = @ \/ s = "active"]
      OBVIOUS
    <3>5. cred' = [cred EXCEPT ![a] = c] /\ c \in S!Credentials /\ c.state # "pending"
      BY <3>1, <3>2, <3>3, <3>4
    <3>6. /\ cred' \in [Accounts -> S!Credentials] /\ \A b \in Accounts : Consistent(cred'[b])
      BY <3>5 DEF SubjectInv, WorldOK, Consistent
    <3> QED BY <2>2, <3>6 DEF S!Evolve, S!Changing, SubjectInv, WorldOK, Consistent
  <2>3. ASSUME S!Retrust \/ S!Reprofile PROVE WorldOK'
    <3>1. /\ cred' = cred /\ trust' \in S!Trusts /\ profile' \in Profiles /\ budget'.gen = budget.gen
      <4>1. trust \in S!Trusts /\ profile \in Profiles
        BY DEF SubjectInv, WorldOK
      <4>2. budget' = [budget EXCEPT !.changes = @ - 1]
        BY <2>3 DEF S!Retrust, S!Reprofile, S!Changing
      <4>3. budget'.gen = budget.gen
        BY <4>2
      <4> QED BY <2>3, <4>1, <4>3 DEF S!Retrust, S!Reprofile
    <3> QED BY <3>1 DEF SubjectInv, WorldOK
  <2> QED BY <2>1, <2>2, <2>3 DEF S!World
<1>3. PageOK' /\ S!PreviewCoherent' /\ GhostsOK'
  BY <1>1 DEF S!page, SubjectInv, PageOK, S!PreviewCoherent, GhostsOK, S!HostConsented
<1>4. FlowInv'
  <2>1. CASE flow = S!Idle \/ flow.stage # "post"
    <3>1. flow' = flow
      BY <1>1, <2>1 DEF S!Aged
    <3> QED BY <1>1, <2>1, <3>1 DEF S!page, SubjectInv, FlowInv, FlowOK, PostOK, PageFits, WorldSeen, S!Idle
  <2>2. CASE flow # S!Idle /\ flow.stage = "post"
    <3> DEFINE snap == S!SnapshotOf(cred'[flow.account], trust')
    <3>1. flow \in Flows /\ FlowOK(flow) /\ PostOK(flow) /\ PageFits(flow) /\ flow.account \in Accounts
      BY <2>2, Running DEF Flows
    <3>2. flow' = [flow EXCEPT !.since = @ \cup {snap}]
      BY <1>1, <2>2 DEF S!Aged
    <3>3. snap \in Snapshots
      <4>1. cred'[flow.account] \in S!Credentials /\ Consistent(cred'[flow.account]) /\ trust' \in S!Trusts
        BY <1>2, <3>1 DEF WorldOK, Consistent
      <4>2. snap \in [gen : S!Gens, state : States, accepted : BOOLEAN, trust : S!Trusts]
        BY <4>1 DEF S!SnapshotOf, S!Credentials, States
      <4> QED BY <4>1, <4>2 DEF Snapshots, Consistent, S!SnapshotOf
    <3>4. snap = S!SnapshotOf(cred'[flow.account], trust')
      OBVIOUS
    <3> HIDE DEF snap
    <3>5. /\ flow' \in Flows /\ Begun(flow', flow) /\ flow'.fresh = flow.fresh /\ flow'.stage = flow.stage
          /\ flow'.since = flow.since \cup {snap} /\ flow'.cred = flow.cred /\ flow'.report = flow.report
          /\ flow'.latest = flow.latest /\ flow'.loaded = flow.loaded /\ flow'.pc = flow.pc
      BY <3>1, <3>2, <3>3 DEF Flows, Begun
    <3>6. FlowOK(flow')
      BY <3>1, <3>5 DEF FlowOK, Begun, ReviewedOK, LoadedOK
    <3>7. PostOK(flow')
      BY <3>1, <3>5 DEF PostOK, Begun, SawReport, SawCredential
    <3>8. FlowOK(flow)' /\ PostOK(flow)'
      BY <1>1, <3>6, <3>7 DEF FlowOK, PostOK
    <3>9. PageFits(flow)' /\ WorldSeen(flow)'
      BY <1>1, <3>1, <3>4, <3>5 DEF PageFits, WorldSeen, S!Snapshot, Begun, S!page
    <3> QED BY <3>8, <3>9 DEF FlowInv
  <2> QED BY <2>1, <2>2
<1>5. S!AcceptanceReviewed' /\ S!MutationReviewed' /\ JournalOK'
  BY <1>1, RelayedStays DEF SubjectInv
<1> QED BY <1>1, <1>2, <1>3, <1>4, <1>5 DEF SubjectInv, SubjectAssumption

\* What no step of the page or the form changes.
Outside == UNCHANGED <<cred, trust, profile, journal, relayed, contact>> /\ budget'.gen = budget.gen

\* A change of the page while no flow runs, or of which every flow is told.
LEMMA PageStep ==
    ASSUME SubjectInv, Outside, PageOK', S!PreviewCoherent', FlowInv', grants \subseteq grants',
           grants' \subseteq S!Tokens
    PROVE  SubjectInv'
<1>1. WorldOK'
  BY DEF Outside, SubjectInv, WorldOK
<1>2. GhostsOK'
  BY DEF Outside, SubjectInv, GhostsOK, S!HostConsented
<1>3. S!AcceptanceReviewed' /\ S!MutationReviewed' /\ JournalOK'
  BY RelayedStays DEF Outside, SubjectInv
<1> QED BY <1>1, <1>2, <1>3 DEF SubjectInv, SubjectAssumption, Outside

\* The watchers drop the preview, and a running flow learns of it.
LEMMA InvalidateStep ==
    ASSUME SubjectInv, S!InvalidatePreview
    PROVE  SubjectInv'
<1>1. /\ Outside /\ choice' = choice /\ grants' = grants /\ queued' = FALSE
      /\ review' = S!None /\ consent' = S!None /\ ack' = S!None /\ tx' = S!None
  BY DEF S!InvalidatePreview, Outside, S!world, S!ghosts
<1>2. PageOK' /\ S!PreviewCoherent'
  BY <1>1 DEF SubjectInv, PageOK, S!PreviewCoherent
<1>3. FlowInv'
  <2>1. CASE flow = S!Idle
    BY <2>1 DEF S!InvalidatePreview, S!Busy, FlowInv, S!Idle
  <2>2. CASE flow # S!Idle
    <3>1. flow \in Flows /\ FlowOK(flow) /\ PostOK(flow) /\ WorldSeen(flow)
      BY <2>2, Running
    <3>2. /\ flow' \in Flows /\ Begun(flow', flow) /\ flow'.fresh = FALSE /\ flow'.stage = flow.stage
          /\ flow'.since = flow.since /\ flow'.cred = flow.cred /\ flow'.report = flow.report
          /\ flow'.latest = flow.latest /\ flow'.loaded = flow.loaded /\ flow'.pc = flow.pc
      BY ZenonT(40), <2>2, <3>1 DEF S!InvalidatePreview, S!Busy, Flows, Begun
    <3>3. FlowOK(flow')
      BY <3>1, <3>2 DEF FlowOK, Begun, ReviewedOK, LoadedOK
    <3>4. PostOK(flow')
      BY <3>1, <3>2 DEF PostOK, Begun, SawReport, SawCredential
    <3>5. FlowOK(flow)' /\ PostOK(flow)'
      BY <1>1, <3>3, <3>4 DEF FlowOK, PostOK
    <3>6. PageFits(flow)' /\ WorldSeen(flow)'
      BY <1>1, <3>1, <3>2 DEF PageFits, WorldSeen, S!Snapshot, Begun, Outside
    <3> QED BY <3>5, <3>6 DEF FlowInv
  <2> QED BY <2>1, <2>2
<1> QED BY <1>1, <1>2, <1>3, PageStep DEF SubjectInv, GhostsOK

\* A wallet session with another account, or another link, makes the preview dirty.
LEMMA FormStep ==
    ASSUME SubjectInv, Outside, choice' \in ReviewForms, queued' \in BOOLEAN, ~queued' => choice' = choice /\ ~queued,
           UNCHANGED <<review, consent, ack, flow, grants>>, tx' \in S!Transactions \cup {S!None},
           tx = S!None <=> tx' = S!None,
           tx # S!None => /\ tx'.gen = tx.gen /\ tx'.account = tx.account
                          /\ tx'.action = tx.action /\ tx'.profile = tx.profile
    PROVE  SubjectInv'
<1>1. PageOK'
  BY DEF SubjectInv, PageOK
<1>2. S!PreviewCoherent'
  BY DEF SubjectInv, S!PreviewCoherent
<1>3. FlowInv'
  BY DEF SubjectInv, FlowInv, FlowOK, PostOK, PageFits, WorldSeen, S!Snapshot, Outside, S!Idle
<1> QED BY <1>1, <1>2, <1>3, PageStep DEF SubjectInv, GhostsOK

LEMMA ReplaceAccountStep ==
    ASSUME SubjectInv, NEW a \in Accounts, S!ReplaceAccount(a)
    PROVE  SubjectInv'
<1>1. Outside /\ UNCHANGED <<review, consent, ack, flow, grants>>
  BY DEF S!ReplaceAccount, S!Event, Outside, S!world, S!ghosts
<1>2. choice \in ReviewForms /\ queued \in BOOLEAN /\ tx \in S!Transactions \cup {S!None}
  BY DEF SubjectInv, PageOK
<1>3. choice' \in ReviewForms /\ queued' \in BOOLEAN /\ (~queued' => choice' = choice /\ ~queued)
  <2>1. choice' = [choice EXCEPT !.account = a] /\ queued' = (queued \/ a # choice.account)
    BY DEF S!ReplaceAccount
  <2>2. \A f \in ReviewForms : [f EXCEPT !.account = a] \in ReviewForms
                               /\ (a = f.account => [f EXCEPT !.account = a] = f)
    BY DEF ReviewForms
  <2> QED BY <1>2, <2>1, <2>2
<1>4. CASE tx = S!None
  BY <1>1, <1>3, <1>4, FormStep DEF S!ReplaceAccount
<1>5. CASE tx # S!None
  <2>1. tx \in S!Transactions /\ tx' = [tx EXCEPT !.session = FALSE]
    BY <1>2, <1>5 DEF S!ReplaceAccount
  <2>2. /\ tx' \in S!Transactions
        /\ tx'.gen = tx.gen /\ tx'.account = tx.account /\ tx'.action = tx.action
        /\ tx'.profile = tx.profile
    BY <2>1 DEF S!Transactions
  <2> QED BY <1>1, <1>3, <1>5, <2>2, FormStep, SomethingIsNotNone
<1> QED BY <1>4, <1>5

LEMMA NavigateStep ==
    ASSUME SubjectInv, NEW action \in Actions, NEW link \in S!Gens \cup {S!NoGen}, S!Navigate(action, link)
    PROVE  SubjectInv'
<1>1. Outside /\ UNCHANGED <<review, consent, ack, flow, grants, tx>> /\ queued' = TRUE
  BY DEF S!Navigate, S!Event, Outside, S!world, S!ghosts, S!page
<1>2. choice \in ReviewForms /\ tx \in S!Transactions \cup {S!None}
  BY DEF SubjectInv, PageOK
<1>3. choice' \in ReviewForms
  BY <1>2 DEF S!Navigate, ReviewForms
<1> QED BY <1>1, <1>2, <1>3, FormStep

\* No transaction is on display for an acceptance without consent or a due acknowledgement.
LEMMA NothingOnDisplay ==
    ASSUME SubjectInv, S!Free, choice.action = "accept", S!AcceptanceReview,
           (consent = S!None) \/ (review.trust = "unknown" /\ ack = S!None)
    PROVE  tx = S!None
<1>1. S!None.gen = 0
  BY DEF S!None, S!NoGen
<1>2. review \in S!Reviews
  BY DEF S!AcceptanceReview, SubjectInv, PageOK
<1>3. review.gen \in 1 .. MaxGen
  BY <1>2 DEF S!Reviews, S!Gens
<1>4. ASSUME tx # S!None PROVE FALSE
  <2>1. /\ consent = S!Token(review) /\ (review.trust = "unknown" => ack.gen = review.gen)
    BY <1>4 DEF SubjectInv, S!PreviewCoherent, S!Free, S!Acknowledgement
  <2> QED BY <1>1, <1>3, <2>1 DEF S!Token
<1> QED BY <1>4

\* The subject gives or withdraws the consent to contact the payload's host.
LEMMA ConsentStep ==
    ASSUME SubjectInv, NEW granted \in BOOLEAN, S!SetPayloadConsent(granted)
    PROVE  SubjectInv'
<1>1. /\ Outside /\ UNCHANGED <<choice, queued, review, ack, flow>> /\ flow = S!Idle /\ ~queued
  BY DEF S!SetPayloadConsent, Outside, S!world, S!Free, S!Busy
<1>2. FlowInv'
  BY <1>1 DEF FlowInv, S!Idle
<1>3. CASE /\ review.uri # S!NoUri /\ consent = S!None /\ consent' = S!Token(review)
           /\ grants' = grants \cup {S!Token(review)} /\ UNCHANGED tx
  <2>1. tx = S!None
    BY <1>3, NothingOnDisplay DEF S!SetPayloadConsent
  <2>2. review \in S!Reviews
    BY DEF S!SetPayloadConsent, S!AcceptanceReview, SubjectInv, PageOK
  <2>3. S!Token(review) \in S!Tokens
    BY <1>3, <2>2 DEF S!Token, S!Tokens, S!Reviews
  <2>4. PageOK' /\ S!PreviewCoherent' /\ grants' \subseteq S!Tokens
    BY <1>1, <1>3, <2>1, <2>3 DEF SubjectInv, PageOK, S!PreviewCoherent, GhostsOK
  <2> QED BY <1>1, <1>2, <1>3, <2>4, PageStep
<1>4. CASE consent' = S!None /\ tx' = S!None /\ UNCHANGED grants
  <2>1. PageOK' /\ S!PreviewCoherent' /\ grants' \subseteq S!Tokens
    BY <1>1, <1>4 DEF SubjectInv, PageOK, S!PreviewCoherent, GhostsOK
  <2> QED BY <1>1, <1>2, <1>4, <2>1, PageStep
<1> QED BY <1>3, <1>4 DEF S!SetPayloadConsent

\* The subject acknowledges that nothing is known of the issuer, or takes it back.
LEMMA AcknowledgementStep ==
    ASSUME SubjectInv, NEW granted \in BOOLEAN, S!SetIssuerTrustAcknowledgement(granted)
    PROVE  SubjectInv'
<1>1. /\ Outside /\ UNCHANGED <<choice, queued, review, consent, flow, grants>> /\ flow = S!Idle /\ ~queued
  BY DEF S!SetIssuerTrustAcknowledgement, Outside, S!world, S!ghosts, S!Free, S!Busy
<1>2. FlowInv' /\ grants' \subseteq S!Tokens
  BY <1>1 DEF FlowInv, S!Idle, SubjectInv, GhostsOK
<1>3. CASE /\ review.trust = "unknown" /\ ack = S!None
           /\ ack' = S!Acknowledgement(review, review.profile, choice.account) /\ UNCHANGED tx
  <2>1. tx = S!None
    BY <1>3, NothingOnDisplay DEF S!SetIssuerTrustAcknowledgement
  <2>2. review \in S!Reviews /\ choice \in ReviewForms
    BY DEF S!SetIssuerTrustAcknowledgement, S!AcceptanceReview, SubjectInv, PageOK
  <2>3. S!Acknowledgement(review, review.profile, choice.account) \in Acks
    BY <2>2 DEF S!Acknowledgement, Acks, S!Reviews, ReviewForms
  <2>4. PageOK' /\ S!PreviewCoherent'
    BY <1>1, <1>3, <2>1, <2>3 DEF SubjectInv, PageOK, S!PreviewCoherent
  <2> QED BY <1>1, <1>2, <2>4, PageStep
<1>4. CASE ack' = S!None /\ tx' = S!None
  <2>1. PageOK' /\ S!PreviewCoherent'
    BY <1>1, <1>4 DEF SubjectInv, PageOK, S!PreviewCoherent
  <2> QED BY <1>1, <1>2, <2>1, PageStep
<1> QED BY <1>3, <1>4 DEF S!SetIssuerTrustAcknowledgement
\* A preview or a submission begins, with what the page shows.
LEMMA BuildPreviewStep ==
    ASSUME SubjectInv, S!BuildPreview
    PROVE  SubjectInv'
<1>1. /\ Outside /\ UNCHANGED <<choice, queued, review, consent, ack, grants>> /\ tx' = S!None
  BY DEF S!BuildPreview, Outside, S!world, S!ghosts
<1>2. PageOK' /\ S!PreviewCoherent' /\ grants' \subseteq S!Tokens
  BY <1>1 DEF SubjectInv, PageOK, S!PreviewCoherent, GhostsOK
<1>3. /\ choice \in ReviewForms /\ profile \in Profiles
      /\ consent \in S!Tokens \cup {S!None} /\ ack \in Acks \cup {S!None}
      /\ consent # S!None => consent \in grants
  BY DEF SubjectInv, PageOK, WorldOK
<1>4. /\ flow' \in Flows /\ flow'.form = choice /\ flow'.account = choice.account /\ flow'.action = choice.action
      /\ flow'.pc = "reads" /\ flow'.stage = "preview" /\ flow'.latest = flow'.profile
      /\ flow'.cred = S!None /\ flow'.report = S!None
      /\ flow'.consent = IF choice.action = "accept" THEN consent ELSE S!None
      /\ flow'.ack = IF choice.action = "accept" THEN ack ELSE S!None
  <2> DEFINE c == IF choice.action = "accept" THEN consent ELSE S!None
             k == IF choice.action = "accept" THEN ack ELSE S!None
  <2>1. /\ c \in S!Tokens \cup {S!None} /\ k \in Acks \cup {S!None}
    BY <1>3
  <2>2. flow' = [pc |-> "reads", stage |-> "preview", fresh |-> TRUE, form |-> choice,
                 account |-> choice.account, action |-> choice.action, consent |-> c, ack |-> k,
                 tx |-> S!None, expected |-> S!None, profile |-> profile, latest |-> profile,
                 cred |-> S!None, report |-> S!None, loaded |-> S!None, since |-> {}]
    BY DEF S!BuildPreview
  <2> HIDE DEF c, k
  <2>3. choice.account \in Accounts /\ choice.action \in Actions
    BY <1>3 DEF ReviewForms
  <2>4. flow' \in Flows
    BY <1>3, <2>1, <2>2, <2>3 DEF Flows, FlowPcs
  <2>5. /\ flow'.form = choice /\ flow'.account = choice.account /\ flow'.action = choice.action
        /\ flow'.pc = "reads" /\ flow'.stage = "preview" /\ flow'.latest = flow'.profile
        /\ flow'.cred = S!None /\ flow'.report = S!None /\ flow'.consent = c /\ flow'.ack = k
    BY <2>2
  <2> QED BY <2>4, <2>5 DEF c, k
<1>5. FlowOK(flow')
  BY <1>3, <1>4 DEF FlowOK
<1>6. FlowOK(flow)' /\ PostOK(flow)' /\ WorldSeen(flow)'
  BY <1>1, <1>4, <1>5 DEF FlowOK, PostOK, WorldSeen
<1>7. PageFits(flow)'
  BY <1>1, <1>4 DEF PageFits
<1>8. FlowInv'
  BY <1>6, <1>7 DEF FlowInv
<1> QED BY <1>1, <1>2, <1>8, PageStep

LEMMA SubmitReviewStep ==
    ASSUME SubjectInv, S!Submit
    PROVE  SubjectInv'
<1>1. /\ Outside /\ UNCHANGED <<choice, queued, review, consent, ack, tx, grants>> /\ ~queued
      /\ tx # S!None /\ review # S!None
  BY DEF S!Submit, Outside, S!world, S!ghosts, S!page, S!Free
<1>2. PageOK' /\ S!PreviewCoherent' /\ grants' \subseteq S!Tokens
  BY <1>1 DEF SubjectInv, PageOK, S!PreviewCoherent, GhostsOK
<1>3. /\ choice \in ReviewForms /\ profile \in Profiles
      /\ consent \in S!Tokens \cup {S!None} /\ ack \in Acks \cup {S!None}
      /\ consent # S!None => consent \in grants
      /\ tx \in S!Transactions /\ review \in S!Reviews
      /\ review.claims => review.uri \in ValidUris
  BY <1>1 DEF SubjectInv, PageOK, WorldOK
<1>4. /\ flow' \in Flows /\ flow'.form = choice /\ flow'.account = choice.account /\ flow'.action = choice.action
      /\ flow'.pc = "reads" /\ flow'.stage = "submit" /\ flow'.latest = flow'.profile
      /\ flow'.cred = S!None /\ flow'.report = S!None /\ flow'.consent = consent /\ flow'.ack = ack
      /\ flow'.tx = tx /\ flow'.expected = review
  <2>1. flow' = [pc |-> "reads", stage |-> "submit", fresh |-> TRUE, form |-> choice,
                 account |-> choice.account, action |-> choice.action, consent |-> consent, ack |-> ack,
                 tx |-> tx, expected |-> review, profile |-> profile, latest |-> profile,
                 cred |-> S!None, report |-> S!None, loaded |-> S!None, since |-> {}]
    BY DEF S!Submit
  <2>2. choice.account \in Accounts /\ choice.action \in Actions
    BY <1>3 DEF ReviewForms
  <2>3. flow' \in Flows
    BY <1>3, <2>1, <2>2 DEF Flows, FlowPcs
  <2> QED BY <2>1, <2>3
<1>5. ReviewedOK(flow')
  BY <1>1, <1>3, <1>4 DEF SubjectInv, S!PreviewCoherent, ReviewedOK
<1>6. FlowOK(flow')
  BY <1>3, <1>4, <1>5 DEF FlowOK
<1>7. FlowOK(flow)' /\ PostOK(flow)' /\ WorldSeen(flow)'
  BY <1>1, <1>4, <1>6 DEF FlowOK, PostOK, WorldSeen
<1>8. PageFits(flow)'
  BY <1>1, <1>4 DEF PageFits
<1>9. FlowInv'
  BY <1>7, <1>8 DEF FlowInv
<1> QED BY <1>1, <1>2, <1>9, PageStep

\* A stored blob is relayed if its generation is current.
LEMMA RetryStep ==
    ASSUME SubjectInv, NEW op \in journal, S!Retry(op)
    PROVE  SubjectInv'
<1>1. /\ UNCHANGED <<S!world, budget, choice, queued, flow, grants, contact>> /\ UNCHANGED S!page
      /\ journal' \subseteq journal
  BY DEF S!Retry, S!ghosts
<1>2. WorldOK' /\ PageOK' /\ S!PreviewCoherent' /\ GhostsOK' /\ JournalOK'
  BY <1>1 DEF S!world, S!page, SubjectInv, WorldOK, PageOK, S!PreviewCoherent, GhostsOK, S!HostConsented,
              JournalOK, SignedOK, S!IssuerAccepted
<1>3. FlowInv'
  BY <1>1 DEF S!world, S!page, SubjectInv, FlowInv, FlowOK, PostOK, PageFits, WorldSeen, S!Snapshot
<1>4. op \in Blobs /\ SignedOK(op)
  BY DEF SubjectInv, JournalOK
<1>5. PICK r : /\ r = relayed' /\ r.via = "retry" /\ r.gen = op.gen /\ r.action = op.action
               /\ r.account = op.account /\ r.profile = op.profile /\ r.uri = op.uri /\ r.trust = op.trust
               /\ r.ack = op.ack /\ r.since = {S!Snapshot(op.account)}
  BY <1>4 DEF S!Retry, Blobs
<1>6. S!Snapshot(op.account).gen = op.gen /\ S!StateAllows(S!Snapshot(op.account), op.action)
  BY DEF S!Retry, S!GenerationCurrent, S!Snapshot, S!SnapshotOf, S!StateAllows
<1>7. S!AcceptanceReviewed'
  <2> SUFFICES ASSUME r.action = "accept"
               PROVE  /\ r.uri \in ValidUris /\ S!Token(r) \in grants /\ S!IssuerAccepted(r.trust, r)
                      /\ \E w \in r.since : w.gen = r.gen /\ S!StateAllows(w, "accept")
    BY <1>1, <1>5 DEF S!AcceptanceReviewed, S!IssuerAccepted, S!Token
  <2>1. r.uri \in ValidUris /\ S!Token(r) \in grants /\ S!IssuerAccepted(r.trust, r)
    BY <1>4, <1>5 DEF SignedOK, S!Token, S!IssuerAccepted, S!Acknowledgement
  <2>2. \E w \in r.since : w.gen = r.gen /\ S!StateAllows(w, "accept")
    BY <1>5, <1>6
  <2> QED BY <2>1, <2>2
<1>8. S!MutationReviewed'
  BY <1>5, <1>6 DEF S!MutationReviewed
<1> QED BY <1>2, <1>3, <1>7, <1>8 DEF SubjectInv, SubjectAssumption

-----------------------------------------------------------------------------
(* The theorems.                                                           *)

\* The invariant holds initially.
LEMMA SubjectInit ==
    ASSUME SubjectAssumption, S!Init
    PROVE  SubjectInv
<1>1. WorldOK
  <2>1. \A a \in Accounts : Consistent(cred[a])
    BY DEF S!Init, Consistent
  <2>2. cred \in [Accounts -> S!Credentials]
    BY DEF S!Init
  <2>3. budget.gen \in Nat
    <3>1. Cardinality(Accounts) \in Nat
      BY FS_CardinalityType DEF SubjectAssumption
    <3>2. S!Cardinality(Accounts) = Cardinality(Accounts)
      BY DEF S!Cardinality, Cardinality
    <3> QED BY <3>1, <3>2 DEF S!Init
  <2> QED BY <2>1, <2>2, <2>3 DEF S!Init, WorldOK
<1>2. PageOK
  BY DEF S!Init, PageOK, ReviewForms
<1>3. S!PreviewCoherent /\ FlowInv /\ JournalOK
  BY DEF S!Init, S!PreviewCoherent, FlowInv, JournalOK
<1>4. GhostsOK /\ S!AcceptanceReviewed /\ S!MutationReviewed
  BY DEF S!Init, GhostsOK, S!HostConsented, S!AcceptanceReviewed, S!MutationReviewed
<1> QED BY <1>1, <1>2, <1>3, <1>4 DEF SubjectInv

\* Every step preserves it.
LEMMA SubjectNext ==
    ASSUME SubjectInv, [S!Next]_(S!vars)
    PROVE  SubjectInv'
<1>1. CASE UNCHANGED S!vars
  <2>1. /\ WorldOK' /\ PageOK' /\ S!PreviewCoherent' /\ GhostsOK'
        /\ JournalOK' /\ S!AcceptanceReviewed' /\ S!MutationReviewed'
    BY <1>1, RelayedStays DEF S!vars, SubjectInv, WorldOK, PageOK, S!PreviewCoherent, GhostsOK,
                              S!HostConsented
  <2>2. FlowInv'
    BY <1>1 DEF S!vars, SubjectInv, FlowInv, FlowOK, PostOK, PageFits, WorldSeen, S!Snapshot
  <2> QED BY <2>1, <2>2 DEF SubjectInv, SubjectAssumption
<1> QED BY <1>1, WorldStep, InvalidateStep, ReplaceAccountStep, NavigateStep, ConsentStep, AcknowledgementStep,
           BuildPreviewStep, SubmitReviewStep, FlowStep, RetryStep DEF S!Next

-----------------------------------------------------------------------------
(* The two pages.  A step of one leaves the other as it is, so that each   *)
(* of them keeps its own invariant, and what is known of the issuer's      *)
(* alone holds of the two.                                                 *)

\* Every step of the pages is a step of the subject's or leaves it alone.
LEMMA SubjectPart ==
    ASSUME [PagesNext /\ UNCHANGED part]_allVars
    PROVE  [S!Next]_(S!vars)
<1>1. subjectVars' = subjectVars => UNCHANGED S!vars
  BY DEF subjectVars, S!vars
<1>2. vars' = vars /\ S!Next => S!Next
  OBVIOUS
<1> QED BY <1>1, <1>2 DEF PagesNext, allVars

\* A behaviour of the pages is one of the issuer's page.
LEMMA IssuePart == PagesSpec => Spec
<1>1. PagesInit => Init
  BY DEF PagesInit
<1>2. [PagesNext /\ UNCHANGED part]_allVars => [Next]_vars
  BY DEF PagesNext, allVars
<1> QED BY <1>1, <1>2, PTL DEF PagesSpec, Spec

\* The invariant of the subject's page holds in every reachable state.
THEOREM SubjectInvariant == PagesSpec => []SubjectInv
<1>1. PagesInit => SubjectInv
  BY SubjectInit, SubjectAssumption DEF PagesInit
<1>2. SubjectInv /\ [PagesNext /\ UNCHANGED part]_allVars => SubjectInv'
  BY SubjectPart, SubjectNext
<1> QED BY <1>1, <1>2, PTL DEF PagesSpec

\* The refs of the page and of the function that runs have their types (accept.vue).
LEMMA SubjectTyped == SubjectInv => S!TypeOK
<1> SUFFICES ASSUME SubjectInv PROVE S!TypeOK
  OBVIOUS
<1>1. flow # S!Idle =>
         /\ flow.stage \in {"preview", "submit", "post"}
         /\ flow.stage # "preview" => flow.tx \in S!Transactions /\ flow.expected \in S!Reviews
         /\ flow.pc \in {"reviewed", "prepare", "wallet", "sign", "relay"} => flow.loaded \in S!Reviews
  BY DEF SubjectInv, FlowInv, FlowOK, ReviewedOK, LoadedOK, Flows
<1>2. \A op \in journal : op.gen \in S!Gens
  BY DEF SubjectInv, JournalOK, Blobs
<1> QED BY <1>1, <1>2 DEF SubjectInv, WorldOK, PageOK, GhostsOK, S!TypeOK, ReviewForms, Acks

\* A payload host is contacted only for a generation and URI of which the subject has
\* consented to just that (assertPayloadFetchConsentCurrent), and the transaction on display
\* is of the account, the action and the generation on display (buildPreview, submit).
THEOREM PreviewIsReviewed == PagesSpec => []PreviewReviewed
<1>1. SubjectInv => PreviewReviewed
  BY SubjectTyped DEF SubjectInv, GhostsOK, PreviewReviewed
<1> QED BY <1>1, SubjectInvariant, PTL

\* Every operation that is relayed, by the page or as a retry of a stored blob, was of the
\* reviewed generation, and that generation was current in a state that allows it at an
\* instant since the signature (for a retry, when it ran). An acceptance, a retried one
\* too, is of valid claims that the subject consented to see and of an issuer accepted in
\* that review; one that the page relays, also of an issuer accepted at that instant, which
\* a retry does not ask about (revalidateSubjectActionAfterSignature, retryOperation).
THEOREM RelayedIsReviewed == PagesSpec => []RelayedReviewed
<1>1. SubjectInv => RelayedReviewed
  BY DEF SubjectInv, RelayedReviewed
<1> QED BY <1>1, SubjectInvariant, PTL

\* On the issuer's page, with the subject's beside it and other tabs that publish at the
\* same time, the store exceeds its limit by at most one record for each of those tabs, and
\* links and proof of publication agree with what was submitted (issue.vue,
\* localPayloadStore.ts).
THEOREM PagesAreConsistent == PagesSpec => []IssueConsistent
BY IssuePart, IssueIsConsistent

\* What the issuer's page submits is what the form describes, with the subject's page
\* beside it (submit of issue.vue).
THEOREM PagesSubmitAsDescribed == PagesSpec => SubmittedAsDescribed
BY IssuePart, SubmitsAsDescribed
=============================================================================
