------------------------ MODULE PayloadVerification ------------------------
(***************************************************************************)
(* From a payload file to a verdict.  The command line client builds and   *)
(* checks payloads (`xcs payload build`, `xcs payload check`, packages/cli *)
(* over packages/core), an issuer puts the URI on the ledger, and `xcs     *)
(* verify` asks the API, which judges the payload it is sent or fetches it *)
(* itself (server/xcs/verification.ts, payload-resolver.ts).               *)
(*                                                                         *)
(* Bytes are kept apart by what the code tells apart: the credential tuple *)
(* they name, whether their claims fit the registered schema, whether they *)
(* are in canonical form and whether they exceed 1 MiB.  SHA-256 is taken  *)
(* as injective: the digest in a URI is the content it was computed from.  *)
(* DNS answers, redirects, bodies and delays are chosen by the world, and  *)
(* the file may be rewritten between any two steps.                        *)
(***************************************************************************)
EXTENDS Naturals

CONSTANTS
    Modes,        \* how verify is called: without payload, with one, resolving
    Kinds,        \* the kinds of payload URI: https and ipfs
    Tuples,       \* issuer, subject and schema UID of a credential
    Contents,     \* the contents the file and the servers may hold
    Names,        \* host names
    Public,       \* the public addresses
    Private,      \* the addresses of any other range
    MaxRedirects, \* payload-resolver.ts MAX_REDIRECTS
    Limit         \* MAX_PAYLOAD_BYTES, in chunks

Addresses == Public \cup Private

VARIABLES
    disk,     \* the payload file: what it holds
    printed,  \* the URI that payload build has printed last
    passed,   \* what payload check has accepted last: file, URI and tuple
    cred,     \* the credential on the ledger, or NoCredential
    known,    \* the API knows the schema
    v,        \* the verify command and the request it makes
    f         \* the fetch the API makes for it

vars == <<disk, printed, passed, cred, known, v, f>>

NoContent == [tuple |-> "none", fits |-> FALSE, canonical |-> FALSE, large |-> FALSE]

\* What parsePayloadUri tells apart; a digest is the content it names.
Uris == [kind : Kinds, digest : Contents]
NoUri == [kind |-> "none", digest |-> NoContent]
NoPass == [file |-> NoContent, uri |-> NoUri, tuple |-> "none", lax |-> FALSE]
NoCredential == [tuple |-> "none", uri |-> NoUri, state |-> "not_found"]
States == {"pending", "active", "expired"}

\* A URL the fetch may be sent to: safe is HTTPS without credentials, the host
\* a name or an address literal.
Urls == [safe : BOOLEAN, host : Names \cup Addresses]

Hosts == Names \cup Addresses
NoFetch == [pc |-> "idle", hop |-> 0, safe |-> TRUE, host |-> "none",
            pinned |-> "none", contacted |-> {}, body |-> NoContent, got |-> 0,
            late |-> FALSE]
NoVerify == [pc |-> "idle", mode |-> "none", tuple |-> "none", given |-> NoContent,
             seen |-> NoCredential, schema |-> FALSE, payload |-> "none",
             code |-> 0]

Init ==
    /\ disk = NoContent
    /\ printed = NoUri
    /\ passed = NoPass
    /\ cred = NoCredential
    /\ known = FALSE
    /\ v = NoVerify
    /\ f = NoFetch

-----------------------------------------------------------------------------
(* packages/core.                                                           *)

\* canonicalJson of the parsed content.
CanonicalJson(c) == [c EXCEPT !.canonical = TRUE]

\* payloadBytes and payloadDigest: too large is refused.
PayloadBytes(c) == ~c.large

\* verifyPayloadIntegrity.
VerifyPayloadIntegrity(c, uri) == uri.digest = c

\* parseClaims: against the registered fields, or those of the schema file at
\* hand, which may allow more.
ParseClaims(c, lax) == c.fits \/ lax

\* parseCredentialPayload: canonical bytes, the tuple, the claims.
ParseCredentialPayload(c, t, lax) ==
    PayloadBytes(c) /\ c.canonical /\ c.tuple = t /\ ParseClaims(c, lax)

\* A mutant of VerifyCredentialPayload: the payload is read without the tuple
\* of the request.
VerifyCredentialPayloadAnyTuple(c, uri, t) ==
    IF ~PayloadBytes(c) THEN "invalid"
    ELSE IF ~VerifyPayloadIntegrity(c, uri) THEN "tampered"
    ELSE IF ParseCredentialPayload(c, c.tuple, FALSE) THEN "valid" ELSE "invalid"

\* verifyCredentialPayload of retrieved content.
VerifyCredentialPayload(c, uri, t) ==
    IF ~PayloadBytes(c) THEN "invalid"
    ELSE IF ~VerifyPayloadIntegrity(c, uri) THEN "tampered"
    ELSE IF ParseCredentialPayload(c, t, FALSE) THEN "valid" ELSE "invalid"

-----------------------------------------------------------------------------
(* The commands that need no server.                                        *)

\* payload build: encodeCredentialPayload refuses claims that do not fit and
\* content over the limit; what is left is canonical.  The file is written
\* before the URI is printed.
PayloadBuild(c, kind, output, lax) ==
    /\ ParseCredentialPayload(c, c.tuple, lax)
    /\ disk' = IF output THEN c ELSE disk
    /\ printed' = [kind |-> kind, digest |-> c]
    /\ UNCHANGED <<passed, cred, known, v, f>>

\* payload check: exit 5 when the digest differs, 2 when the content does not
\* parse; only a pass leaves a trace.
PayloadCheck(uri, t, lax) ==
    /\ disk # NoContent
    /\ PayloadBytes(disk)
    /\ VerifyPayloadIntegrity(disk, uri)
    /\ ParseCredentialPayload(disk, t, lax)
    /\ passed' = [file |-> disk, uri |-> uri, tuple |-> t, lax |-> lax]
    /\ UNCHANGED <<disk, printed, cred, known, v, f>>

\* Anything else writes the file.
EditFile(c) ==
    /\ disk' = c
    /\ UNCHANGED <<printed, passed, cred, known, v, f>>

\* credential issue, signed and submitted: any URI that parses.  The ledger
\* holds one credential of a tuple at a time.
CredentialIssue(uri, t) ==
    /\ cred = NoCredential /\ uri # NoUri
    /\ cred' = [tuple |-> t, uri |-> uri, state |-> "pending"]
    /\ UNCHANGED <<disk, printed, passed, known, v, f>>

\* credential accept, or the credential expires.
CredentialMoves(s) ==
    /\ cred # NoCredential /\ cred.state # "expired"
    /\ s \in {"active", "expired"} /\ cred.state # s
    /\ cred' = [cred EXCEPT !.state = s]
    /\ UNCHANGED <<disk, printed, passed, known, v, f>>

\* credential delete.
CredentialDelete ==
    /\ cred # NoCredential
    /\ cred' = NoCredential
    /\ UNCHANGED <<disk, printed, passed, known, v, f>>

\* The indexer projects the schema.
SchemaProjected ==
    /\ ~known
    /\ known' = TRUE
    /\ UNCHANGED <<disk, printed, passed, cred, v, f>>

-----------------------------------------------------------------------------
(* xcs verify and POST /v1/verify.                                          *)

others == <<disk, printed, passed, cred, known>>

\* --payload is read when the command starts; with --resolve-payload too the
\* command is refused.  A file that is not JSON ends the command too.
VerifyStart(t, mode) ==
    /\ v.pc = "idle"
    /\ mode = "local" => disk # NoContent
    /\ v' = [v EXCEPT !.pc = "request", !.mode = mode, !.tuple = t,
                      !.given = IF mode = "local" THEN disk ELSE NoContent]
    /\ UNCHANGED <<others, f>>

\* verifyCredential: credential and schema from one snapshot.
VerifySnapshot ==
    /\ v.pc = "request"
    /\ v' = [v EXCEPT !.pc = "payload", !.schema = known,
                      !.seen = IF cred.tuple = v.tuple THEN cred ELSE NoCredential]
    /\ UNCHANGED <<others, f>>

\* requestJson: unreachable, redirected, over 10 seconds or 1 MiB, not JSON, or
\* an HTTP error; the request may have been answered or not.
RequestFails ==
    /\ v.pc \in {"request", "payload", "resolve", "report"}
    /\ v' = [NoVerify EXCEPT !.pc = "exited", !.code = 3]
    /\ f' = NoFetch
    /\ UNCHANGED others

Judge(status) == v' = [v EXCEPT !.pc = "report", !.payload = status]

\* payloadStatus without a fetch: the JSON that was sent is put in canonical
\* form before it is judged.
PayloadStatus ==
    /\ v.pc = "payload"
    /\ v.mode # "resolve" \/ v.seen = NoCredential \/ ~v.schema
    /\ Judge(IF v.mode = "none" THEN "not_checked"
             ELSE IF v.seen = NoCredential \/ ~v.schema THEN "invalid"
             ELSE VerifyCredentialPayload(CanonicalJson(v.given), v.seen.uri, v.tuple))
    /\ UNCHANGED <<others, f>>

\* DisabledPayloadResolver, the default.
ResolveDisabled ==
    /\ v.pc = "payload"
    /\ v.mode = "resolve" /\ v.seen # NoCredential /\ v.schema
    /\ Judge("unavailable")
    /\ UNCHANGED <<others, f>>

-----------------------------------------------------------------------------
(* SafePayloadResolver.                                                     *)

\* An HTTPS URI is fetched from the host it names, an IPFS one from the
\* configured gateway, which is trusted to be where it is but not in what it
\* returns.
ResolveStart(host) ==
    /\ v.pc = "payload"
    /\ v.mode = "resolve" /\ v.seen # NoCredential /\ v.schema
    /\ v' = [v EXCEPT !.pc = "resolve"]
    /\ f' = IF v.seen.uri.kind = "https"
            THEN [NoFetch EXCEPT !.pc = "url", !.host = host]
            ELSE [NoFetch EXCEPT !.pc = "gateway"]
    /\ UNCHANGED others

\* PayloadUnavailableError, and PayloadInvalidError.
Unavailable == Judge("unavailable") /\ f' = [f EXCEPT !.pc = "done"]
Invalid == Judge("invalid") /\ f' = [f EXCEPT !.pc = "done"]

\* assertSafeHttpsPayloadUrl, and an address literal is its own answer.
CheckUrl ==
    /\ f.pc = "url"
    /\ IF ~f.safe \/ f.host \in Private THEN Unavailable
       ELSE /\ f' = IF f.host \in Public
                    THEN [f EXCEPT !.pc = "fetch", !.pinned = f.host]
                    ELSE [f EXCEPT !.pc = "lookup"]
            /\ UNCHANGED v
    /\ UNCHANGED others

\* A mutant of ResolvePublicAddress: one public answer is enough.
ResolvePublicAddressAny(answers) ==
    /\ f.pc = "lookup"
    /\ IF answers \cap Public = {} THEN Unavailable
       ELSE /\ \E a \in answers : f' = [f EXCEPT !.pc = "fetch", !.pinned = a]
            /\ UNCHANGED v
    /\ UNCHANGED others

\* resolvePublicAddress: every answer must be public, the first is pinned.
ResolvePublicAddress(answers) ==
    /\ f.pc = "lookup"
    /\ IF answers = {} \/ ~(answers \subseteq Public) THEN Unavailable
       ELSE /\ \E a \in answers : f' = [f EXCEPT !.pc = "fetch", !.pinned = a]
            /\ UNCHANGED v
    /\ UNCHANGED others

\* The agent connects to the pinned address whatever the name resolves to now.
Contacted == f.contacted \cup {f.pinned}

\* A redirect: the next hop is checked, looked up and pinned again.
FetchRedirect(url) ==
    /\ f.pc = "fetch"
    /\ IF f.hop = MaxRedirects THEN Judge("unavailable") ELSE UNCHANGED v
    /\ f' = [f EXCEPT !.contacted = Contacted, !.hop = @ + 1,
                      !.pc = IF f.hop = MaxRedirects THEN "done" ELSE "url",
                      !.safe = url.safe, !.host = url.host]
    /\ UNCHANGED others

\* A redirect without a location, an HTTP error, a connection that fails.
FetchFails ==
    /\ f.pc = "fetch"
    /\ Judge("unavailable")
    /\ f' = [f EXCEPT !.pc = "done", !.contacted = Contacted]
    /\ UNCHANGED others

\* The body begins.
FetchAnswers(c) ==
    /\ f.pc = "fetch"
    /\ f' = [f EXCEPT !.pc = "body", !.contacted = Contacted, !.body = c]
    /\ UNCHANGED <<others, v>>

\* fetchConfiguredGateway: no redirects.
GatewayAnswers(c) ==
    /\ f.pc = "gateway"
    /\ f' = [f EXCEPT !.pc = "body", !.body = c]
    /\ UNCHANGED <<others, v>>

GatewayFails ==
    /\ f.pc = "gateway"
    /\ Unavailable
    /\ UNCHANGED others

\* Chunks a body consists of: a permitted one may fill the limit exactly.
Size(c) == IF c.large THEN Limit + 1 ELSE Limit

\* readLimited: the observed bytes count, not what a header says.
ReadChunk ==
    /\ f.pc = "body" /\ f.got < Size(f.body)
    /\ IF f.got + 1 > Limit THEN Invalid
       ELSE f' = [f EXCEPT !.got = @ + 1] /\ UNCHANGED v
    /\ UNCHANGED others

\* The end of the stream: the content is judged as it was received.
ReadEnd ==
    /\ f.pc = "body" /\ f.got = Size(f.body)
    /\ Judge(VerifyCredentialPayload(f.body, v.seen.uri, v.tuple))
    /\ f' = [f EXCEPT !.pc = "done"]
    /\ UNCHANGED others

\* The connection breaks in the middle of the body.
ReadBreaks ==
    /\ f.pc = "body"
    /\ Unavailable
    /\ UNCHANGED others

\* The five seconds of the retrieval pass.
DeadlinePasses ==
    /\ f.pc \in {"lookup", "fetch", "gateway", "body"} /\ ~f.late
    /\ f' = [f EXCEPT !.late = TRUE]
    /\ UNCHANGED <<others, v>>

\* beforeDeadline, remainingTimeout and the abort signal: one deadline bounds
\* lookups, requests and bodies of all hops.
TimedOut == f.pc \in {"lookup", "fetch", "gateway", "body"} /\ f.late

Timeout ==
    /\ TimedOut
    /\ Unavailable
    /\ UNCHANGED others

\* isSuccessfulVerification and the exit code.
VerifyReport ==
    /\ v.pc = "report"
    /\ v' = [v EXCEPT !.pc = "exited",
                      !.code = IF /\ v.seen.state = "active"
                                  /\ v.schema
                                  /\ v.payload = "valid" THEN 0 ELSE 5]
    /\ UNCHANGED <<others, f>>

Artifacts ==
    \/ \E c \in Contents, k \in Kinds, o, lax \in BOOLEAN : PayloadBuild(c, k, o, lax)
    \/ \E t \in Tuples, lax \in BOOLEAN : PayloadCheck(printed, t, lax)
    \/ \E c \in Contents : EditFile(c)
    \/ \E t \in Tuples : CredentialIssue(printed, t)
    \/ \E s \in States : CredentialMoves(s)
    \/ CredentialDelete
    \/ SchemaProjected

Fetch ==
    \/ \E h \in Hosts : ResolveStart(h)
    \/ CheckUrl
    \/ \E answers \in SUBSET Addresses : ResolvePublicAddress(answers)
    \/ \E u \in Urls : FetchRedirect(u)
    \/ FetchFails
    \/ \E c \in Contents : FetchAnswers(c)
    \/ \E c \in Contents : GatewayAnswers(c)
    \/ GatewayFails
    \/ ReadChunk
    \/ ReadEnd
    \/ ReadBreaks
    \/ DeadlinePasses
    \/ Timeout

Next ==
    \/ Artifacts
    \/ \E t \in Tuples, mode \in Modes : VerifyStart(t, mode)
    \/ VerifySnapshot
    \/ RequestFails
    \/ PayloadStatus
    \/ ResolveDisabled
    \/ Fetch
    \/ VerifyReport

Spec == Init /\ [][Next]_vars

\* The API process keeps running and its timers fire.  Nothing is assumed of
\* name servers, hosts and gateways: they may never answer.
Fairness ==
    /\ WF_vars(DeadlinePasses)
    /\ WF_vars(Timeout)
    /\ WF_vars(CheckUrl)
    /\ WF_vars(ReadEnd)

FairSpec == Spec /\ Fairness

-----------------------------------------------------------------------------
(* Properties.                                                              *)

Statuses == {"none", "not_checked", "valid", "unavailable", "tampered", "invalid"}

\* The state has its type; a fetch makes at most MaxRedirects + 1 requests and
\* keeps at most Limit chunks.
TypeOK ==
    /\ disk \in Contents \cup {NoContent}
    /\ printed \in Uris \cup {NoUri}
    /\ passed \in [file : Contents, uri : Uris, tuple : Tuples, lax : BOOLEAN] \cup {NoPass}
    /\ cred \in [tuple : Tuples, uri : Uris, state : States] \cup {NoCredential}
    /\ known \in BOOLEAN
    /\ v.mode \in Modes \cup {"none"} /\ v.payload \in Statuses /\ v.code \in {0, 3, 5}
    /\ v.given \in Contents \cup {NoContent}
    /\ f.hop \in 0..(MaxRedirects + 1) /\ f.got \in 0..Limit
    /\ f.pinned \in Addresses \cup {"none"}

\* `xcs verify` exits with 0 only for a credential that was active under a
\* known schema, whose payload names this very tuple, fits the schema and is
\* what the URI on the ledger binds, however the file, the credential and the
\* servers changed around the request (program.ts verify, verification.ts).
VerifiedMeansBound ==
    v.pc = "exited" /\ v.code = 0 =>
        LET c == IF v.mode = "local" THEN CanonicalJson(v.given) ELSE f.body
        IN  /\ v.seen.state = "active" /\ v.schema
            /\ v.seen.tuple = v.tuple
            /\ c = v.seen.uri.digest
            /\ c.tuple = v.tuple /\ c.fits /\ ~c.large

\* What a server could not deliver is unavailable, never a statement about the
\* payload: only a body that was received to its end is called tampered or
\* valid, and tampered only if it really differs from what the URI binds
\* (payload-resolver.ts readLimited, verification.ts payloadStatus).
JudgedWhole ==
    v.mode = "resolve" /\ v.payload \in {"tampered", "valid"} =>
        /\ f.pc = "done" /\ f.got = Size(f.body) /\ f.got <= Limit
        /\ (v.payload = "tampered") = (f.body # v.seen.uri.digest)

\* The API connects only to public addresses, at most once per hop, although
\* names may resolve differently at every lookup and servers redirect anywhere
\* (payload-resolver.ts fetchPinned).
ContactsOnlyPublic ==
    /\ f.contacted \subseteq Public
    /\ f.pc = "fetch" => f.pinned \in Public /\ f.hop <= MaxRedirects

\* A file that `xcs payload check` accepted for the URI and the tuple of the
\* credential, under the registered schema, is never rejected by the API:
\* the two judge the same bytes by the same rules, one from the file and one
\* from the JSON it was sent.
CheckPredictsVerify ==
    /\ v.mode = "local" /\ v.payload # "none"
    /\ passed # NoPass /\ ~passed.lax
    /\ passed.file = v.given /\ passed.tuple = v.tuple
    /\ v.seen # NoCredential /\ v.schema /\ v.seen.uri.digest = passed.uri.digest
    => v.payload = "valid"

\* A fetch ends although name servers and hosts may never answer.
FetchEnds == f.pc \notin {"idle", "done"} ~> f.pc \in {"idle", "done"}
=============================================================================
