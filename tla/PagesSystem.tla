----------------------------- MODULE PagesSystem -----------------------------
(***************************************************************************)
(* The two pages on which something is signed: the issuer's, which this    *)
(* module extends, and the subject's.  They share no state, so they are    *)
(* not interleaved: part says which of them a behaviour is about, and the  *)
(* other rests in an initial state.                                        *)
(***************************************************************************)
EXTENDS Issuance

CONSTANTS
    Accounts, Profiles, Uris, ValidUris, Actions,
    MaxGen, MaxChanges, MaxEvents

\* The wallet shows finitely many accounts, and the page has three actions.
ASSUME SubjectAssumption ==
    /\ IsFiniteSet(Accounts) /\ MaxGen \in Nat
    /\ Actions \subseteq {"accept", "reject", "remove"}

VARIABLES
    part,
    cred, trust, profile, budget, choice, queued, review, consent, ack, tx, flow,
    journal, relayed, grants, contact      \* SubjectReview

subjectVars == <<cred, trust, profile, budget, choice, queued, review, consent, ack, tx,
                 flow, journal, relayed, grants, contact>>
allVars == <<part, vars, subjectVars>>

\* S: SubjectReview, with names that Issuance has not taken.
S == INSTANCE SubjectReview WITH form <- choice, dirty <- queued

PagesInit == part \in {"issue", "subject"} /\ Init /\ S!Init

PagesNext ==
    \/ part = "issue" /\ Next /\ UNCHANGED subjectVars
    \/ part = "subject" /\ S!Next /\ UNCHANGED vars

PagesSpec == PagesInit /\ [][PagesNext /\ UNCHANGED part]_allVars

-----------------------------------------------------------------------------
(* The properties of the subject's page, as conjunctions of the properties *)
(* that SubjectReview states and explains; those of Issuance are           *)
(* inherited.                                                              *)

\* SubjectReview: a payload host is contacted only with the consent for just that
\* generation, and the transaction on display is of the account, action and generation on
\* display, whatever changes while the preview is built.
PreviewReviewed == S!TypeOK /\ S!HostConsented /\ S!PreviewCoherent

\* SubjectReview: whatever is relayed, by the page or by a retry, is an operation that was
\* reviewed, of a generation that was current and in a state that allows it at an instant
\* after the signature; at that instant the issuer of an acceptance was accepted too,
\* unless a retry relayed it.
RelayedReviewed == S!AcceptanceReviewed /\ S!MutationReviewed
=============================================================================
