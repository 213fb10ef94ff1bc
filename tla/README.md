# A TLA+ verification of XCS

XCS registers schemas on the XRP Ledger, issues native XRPL Credentials under them, indexes both
into PostgreSQL, and serves the result to a web application. This directory holds TLA+ models of
its stateful parts, the TLC configurations that check them on small instances, and proofs that
TLAPS checks for every value of the constants. `PROJECT.json` maps every definition to the source
lines it models, and lists runs, mutants, findings, hazards and theorems.

Run a configuration with `tlc -config MCWallet.cfg MCWallet`, the proofs with
`tlapm IndexerProofs.tla`. All modules stand in this directory.

## 1. Inventory

The parts, the state each keeps, its operations, and what makes it correct.

| Part (source) | State | Operations | What must hold |
| --- | --- | --- | --- |
| Writer lease and status (`apps/indexer/src/lib/db/indexer-fencing.ts`) | one row of `indexer_status`: writer, epoch, lease expiry, state, tips, last agreed ledger; `indexer_incidents` | acquire, renew, update status, release, halt, lock inside a transaction | one writer at a time, epochs only grow, the status never runs ahead of the checkpoints, one incident per epoch |
| Indexer worker (`worker.ts`, `continuity.ts`, `main.ts`) | the lease token, last tips, last agreed ledger, the variables of a round | `start()`, `runOnce()`, `stop()` | each ledger is projected once, in order, against exactly the earlier registrations; some worker gets to `ready` |
| Quorum source (`quorum-ledger-source.ts`, `xrpl-source.ts`) | two WebSocket clients | tips, ledgers, both compared | only what both sources serve alike is used; a tip that regresses or a fork stops the indexer |
| Checkpoint repository (`repository.ts`) | `ledger_checkpoints` and the projection tables | `persistLedger` in one fenced transaction | an append-only, parent-linked chain |
| Projection (`project-ledger.ts`, `credential-mutations.ts`) | `credential_generations`, `credential_events` | AffectedNodes to mutations to rows | live generations mirror the ledger's objects; no ledger makes the indexer throw for ever |
| Schema registration and resolution (`registration.ts`, `lib/xcs/schema-*.ts`, `schema-projection.ts`) | `schemas`, `schema_events` | interpret a registration, resolve inheritance and supersession, serve, export, page | the API shows what the chain defines and refuses nothing the indexer accepts; pages have no gaps |
| Replay, rebuild (`maintenance.ts`, `replay-target.ts`) | none of their own | empty check, target, worker | stops at its target, never `ready`, only into an empty projection |
| Demo pinning (`apps/web/server/xcs/pinning*.ts`, `kubo.ts`) | `pin_challenges`, `demo_pins`, the Kubo node | challenge, pin, hourly janitor | a challenge is spent once, quotas hold, content is retained until it expires and removed after |
| Serializable transactions (`lib/db/transactions.ts`, two copies) | one call: attempt, error | begin, unit, commit, catch, sleep | a call with its retries is one atomic step |
| API reads (`indexer-status.ts`, `ledger-freshness.ts`, `handlers.ts`) | none, one database snapshot per request | readiness, lookups of every kind, verification | an answer is the truth of one checkpoint that was ready and fresh |
| Credential endpoints (`repository.ts`, `credential-generation-evidence.ts`, `presenters.ts`) | none | generation, tuple, event, transaction, search, statistics | they serve all that was written, agree with each other and show no unproved state |
| Rate limiter and dispatch (`rate-limit.ts`, `01-rate-limit.ts`, `dispatch.ts`, `clientAddress.ts`, `http.ts`) | fixed windows, at most 5,000 clients; a request | count, make room; address, body, validation, handler, error mapping | nobody within a budget is refused, a client does not choose its bucket, every reply has its headers |
| Payloads (`packages/core`, `packages/cli`, `verification.ts`, `payload-resolver.ts`) | a file, a URI, a request, a fetch | build, check, verify; resolve, connect, redirect, read | "verified" means bound by the URI on the ledger; only public addresses are contacted; the fetch ends |
| Acceptance page (`accept.vue`, `credentialReview.ts`) | review, consent, acknowledgement, prepared transaction | build the preview, submit, retry | nothing is relayed that was not reviewed; no host is contacted without consent |
| Issuance page (`issue.vue`, `localPayloadStore.ts`, `payloadPublication.ts`) | form, preview, store in localStorage, shared by tabs | edit, load, build, submit; publish: look for room, write, read back | what is submitted is what the form describes, with its payload published |
| Command line client (`program.ts`, `journal.ts`, `packages/sdk/src/submission.ts`) | a process, a journal file | `tx submit`, `tx status` | exit codes and journal are true; a relayed blob is journalled first; every command ends |
| Registry ceremony and preflight (`ceremony*.ts`, `profile-preflight.ts`) | the registry account, a profile file | the stages | what is published is sealed for ever |
| Fixture bundles (`fixture-bundle.ts`, `fixture-replay.ts`) | an output directory | capture, publish, roll back, replay | a manifest marks a complete bundle; a replay projects the captured chain or nothing |
| Operation journal and business lock (`operationJournal.ts`) | one IndexedDB store, shared by all tabs | create, persistSigned, append, setBusinessConfirmation, abandon | one operation under way per business key; settled records are final |
| Wallet calls and reliable submission (`useWallet.ts`, `walletSubmission.ts`, `lib/xcs/sdk/submission.ts`) | one call per tab | sign and submit, retry, status by hash, re-confirm | whatever the network may still apply can be recovered; records say what the ledger says |
| Business confirmation (`businessConfirmation.ts`) | none | poll the indexer, inspect | exact evidence or none |
| Digest, settings, provisioning, wallet adapters, other pages, HTTP schemas | | | see section 7 |

How they interact: workers share only the database; the API reads it in snapshots; the browser
talks to the API, to an XRPL server and to a wallet extension; tabs share IndexedDB, whose
transactions exclude each other, and the localStorage that holds the test payloads, where no lock
spans two accesses; the janitor shares `demo_pins` and the Kubo node with the calls of `pin()`.

What is hard: two workers around a lease that runs out in the middle of a transaction; a commit
whose acknowledgement is lost; sources that fork; several mutations of one Credential in one
ledger, or a schema registered after a Credential that names it; calls and janitors between whose
awaits anything may happen; a submission whose answer is lost; two tabs that poll, retry and
confirm the same operation; requests that straddle a lease that runs out; pages whose watchers run
after the change they watch and before the continuation that relied on it; captures and operators
that race for one file; names that resolve differently at every lookup. The full list, line by line, is
under "hazards" in `PROJECT.json`.

## 2. Modules

| Module | Models | State | Actions |
| --- | --- | --- | --- |
| `IndexerFencing` | the lease row, as the functions of `indexer-fencing.ts` | `row`, `rowLock`, `incidents` | operators that `IndexerWorker` composes into its steps |
| `IndexerWorker` | workers over it, the sources and the checkpoint table | `checkpoints`, `pc`, `token`, a worker's fields | one per database call of `start()` and `runOnce()`, and the faults: a failed call, a lost acknowledgement, a crash, a stop, a missed renewal |
| `CheckpointChain` | abstract specification of `ledger_checkpoints` | `chain` | `Append` |
| `CredentialProjection` | ledger objects, the projection of a transaction, what the API answers | `object`, `known`, `generation`, `events` | one per kind of transaction the code distinguishes |
| `Pinning` | calls of `pin()`, janitors, Kubo | `challenge`, `pin`, `call`, `janitor`, `store`, `now` | one per await |
| `WalletOperations` | tabs, journal, ledger, indexer's answer | `row`, `tab`, `txn`, `relayed`, `ledger`, `indexed`, `open`, `validated` | one per await; every journal operation is one IndexedDB transaction |
| `SerializableRetry` | the retry loop of `runSerializableTransaction` over an external database | `log`, `call` | one per await, with conflicts and lost answers |
| `AtomicTransactions` | abstract specification of a transaction | `log`, `out`, `value` | `Call`, `Apply`, `Return`, `Throw` |
| `AuthoritativeReads` | requests against the tables of a running indexer | `clock`, `db`, `mentions`, `req`, `served` | one per query outside the snapshot, one for the reads inside it; the indexer's writes |
| `SchemaCatalog` | registrations, their projection, the schema endpoints | `ledger`, `events`, `schemas`, `corrupt`, `page` | registrations, one fault, a client that pages |
| `CredentialReads` | the credential endpoints, as operators on the tables of `CredentialProjection` | `log` besides those | those of `CredentialProjection` |
| `ProjectionSystem` | `CredentialReads` and `SchemaCatalog` together: what the indexer projects and the API reads back | theirs | theirs |
| `RateLimiter` | the limiter, entry by entry | `clock`, `windows`, `lastPrune`, `log` | `Hit`, the clock |
| `ApiGateway` | a request through middleware, dispatcher and handler; composes `RateLimiter` | `req` besides those | one per stage |
| `PayloadVerification` | `payload build`, `payload check`, `verify`, the API's judgement and its fetch | `disk`, `printed`, `passed`, `cred`, `known`, `v`, `f` | one per step of the client and per hop of the fetch |
| `SubjectReview` | the acceptance page up to the relay | the page's refs, the world it reads, `journal`, `relayed` | one per request, watchers, changes of the world |
| `Issuance` | the issuance page and the shared store | the page's refs, `store`, `publish` (of each tab), `host` | one per await, watchers, other tabs, the host; a publication in three steps |
| `CliSubmission` | `tx submit` and `tx status` in several terminals | `run`, `file`, the ledger | one per await, failures, kills |
| `ProfilePreflight` | the checks of a profile and of the registry account | none | operators |
| `Ceremony` | the stages of the ceremony; uses `ProfilePreflight` | `ledgers`, `pool`, `own`, `run`, `file`, `verified`, `lastOwn` | one per step of a stage, the key holder, interruptions |
| `FixtureBundle` | captures, publication, replay | `out`, `exists`, `cap`, `reader`, `printed`, `faults` | one per file operation, kills, storage faults |
| `ApiSystem` | the API server: `AuthoritativeReads`, with `RateLimiter`, `ApiGateway` and `PayloadVerification` as instances | theirs and `part` | theirs |
| `PagesSystem` | the two pages: `Issuance`, with `SubjectReview` as an instance | theirs and `part` | theirs |
| `ToolsSystem` | the operators' tools: `CliSubmission`, with `FixtureBundle` and `Ceremony` as instances | theirs and `part` | theirs |
| `IndexerProofs`, `ProjectionProofs`, `PinningProofs`, `WalletProofs`, `RetryProofs`, `ApiProofs`, `PagesProofs`, `ToolsProofs` | theorems about `IndexerWorker`, `ProjectionSystem`, `Pinning`, `WalletOperations`, `SerializableRetry`, `ApiSystem`, `PagesSystem`, `ToolsSystem` | | |
| `MC*` | instances for TLC | | |

`IndexerWorker` extends `IndexerFencing` and implements `CheckpointChain` through
`INSTANCE ... WITH` (`ImplementsChain`). `CredentialProjection` relies on what `IndexerWorker`
establishes: that a ledger is projected once, in order and against a complete catalog.
`CredentialReads` extends `CredentialProjection`, `ApiGateway` extends `RateLimiter`, `Ceremony`
extends `ProfilePreflight`. `SerializableRetry` implements `AtomicTransactions`
(`ImplementsAtomic`), which is what `IndexerWorker` and `Pinning` assume when they take a
transaction for one step.

Abstractions worth knowing:

* *Lease time.* The wall clock is reduced to whether the lease is live (`LeaseExpires`,
  `RunOut`). A lease can run out between any two steps of its owner.
* *Catalog.* A ledger's projection is a function of the ledger and the schema catalog, so a
  checkpoint row records the set of ledgers whose registrations the catalog held.
* *Ledger ids.* A Credential object's ledger id is a hash of issuer, subject and type, and is
  represented by them. A transaction is represented by its number.
* *Pinning.* A transaction of PostgreSQL is one step (`reservePin` is SERIALIZABLE; see
  `SerializableRetry` for its retries). A call takes at most
  `RequestTime`, which is less than the lifetime of a pin: Kubo requests end after 10 s.
* *Wallet.* Engine results are `tes` and `other`. `confirmed` and `rejected` are both exact
  evidence and are merged. A transaction is prepared right before `create()`, so the time a user
  needs for the review passes between `Create` and `Sign`. Xaman may renew `LastLedgerSequence`
  when it signs; the other wallets may not, which is one of the choices of `Sign`. The network may
  validate a relayed transaction in any ledger up to its `LastLedgerSequence`, or never. The
  indexer shows one verdict for a transaction and keeps it. Every operation has a business key.
* *Retry.* The unit of work is the smallest that conflicts: read a log, refuse when it is full,
  append. A transaction commits only if nobody has committed since its snapshot. An error is its
  code and the number of errors without a code around it, so `databaseErrorCode` may overlook it.
* *Reads.* The tables are the status row, the checkpoints and the ledgers that mention the entity
  asked for; `CURRENT_TIMESTAMP` is that of BEGIN and the snapshot that of the first query.
* *Schemas.* A transaction's position stands for its index, hash and UID; of a definition the
  field names and the two relations are kept.
* *Limiter.* A tick is a fraction of a second, so that `retry-after` is rounded as in the code.
* *Payloads.* SHA-256 is injective. Of bytes the model keeps the tuple they name, whether the claims
  fit, whether they are canonical and whether they exceed the limit. Whether an address is public
  is a set; which address a name resolves to is chosen anew at every lookup. A credential without a
  URI, or with one that does not parse (`verification.ts:72`), is left out: with a payload or a
  fetch it can only be answered with `invalid`.
* *Pages.* Vue watchers are queued by a change and run later; a continuation of an await may run
  first, an event of the user may not. Busy flags disable the controls. `assertCurrent` of the
  acceptance page compares the transaction and the address, not the wallet's session: a session that
  is replaced by one of the same account stops a submission before the signature and not after it.
* *Test payloads.* A tab is one thread, but nothing holds localStorage from one access to the next
  when tabs run in processes of their own. A publication is therefore three steps: remove what
  has expired, look for the key and count (`StoreLocalTestPayload`); write (`SetItem`); read back
  (`ReadBack`). Other tabs may act between them, the other functions of the same tab may not (`Idle`).
  The accesses within a step, the loop over the keys included, are not taken apart.
* *Command line.* Operation identifiers are random, so a journal file is a set of operations.
* *Ceremony.* Whoever holds the keys may send transactions of his own; answers come from nodes that
  may be behind. A hash stands for its ledger.
* *Fixtures.* A digest stands for what it is the digest of; one content has several compressed
  forms.
* *Unreachable code.* `CHECKPOINT_EVIDENCE_MISSING` needs a checkpoint without a transaction
  root, which the column's NOT NULL excludes; `already_processed` needs a second writer of one
  ledger, which the lease excludes. The theorem `NeverRefused` shows the latter.

## 3. Runs

A question to the system is a run. Parts that share no state are put into one run and not
interleaved: in `ProjectionSystem`, `ApiSystem`, `PagesSystem`, `ToolsSystem` and `MCProgress` the
variable `part`, chosen at the start, says which of them a behaviour is about, and the others rest.
The state space is then the sum of those of the parts. `MCFencing` chooses the writers of a behaviour
in the same way. A property of a run is one that a module states,
or a conjunction of those that the modules state and explain one by one. The conjunction stands in the
module itself (`PinsAuthorised`, `AnswerAuthoritative`, `IssueConsistent`, `CliTruthful`) or in the module
that composes the parts, for any constants, so that run and theorem speak of one formula; only those of
`progress`, which are about liveness, stand in its MC module. Type invariants are among the conjuncts;
those of `IndexerWorker` and `WalletOperations` are proved instead.

The other MC modules give constants their values and may restrict what TLC explores: a run's next state
relation is then the specification's and one more condition (`Bounded` of `MCApi` and `MCPages`,
`Single` and `Double` of `MCTools`, `InScene` of `MCFencing`), so every behaviour of a run is one of the
specification that the theorems are about.

| Run | Instances | Distinct states | Shows |
| --- | --- | --- | --- |
| `indexer_fencing` | 2 writers, ledgers 1..2 with a fork and an orphan, 3 epochs, 2 faults; a replay to ledger 1 beside a service, over honest sources of 2 ledgers; symmetry | 871,995 | one writer, ordered epochs, complete catalogs, truthful status, one incident per epoch, no refused status, a replay within its target, refinement of `CheckpointChain` |
| `projection` | 2 accounts, 1 schema and a foreign type, 2 ledgers, 4 transactions, history and timeline of 3 rows, pages of 1; 3 registrations of 2 publishers with 2 field names, lineages of 2, 1 odd transaction, 1 faulty row; symmetry | 353,211 | the projection never halts and mirrors the ledger; causes and histories agree; the endpoints serve what was written, agree and show no unproved state; schemas are those the chain defines, catalogs and pages are complete |
| `pinning_service` | 2 calls, 2 janitors, 2 of each requester and content, 4 time units, 1 fault, symmetry | 937,097 | challenges, quotas, no orphaned content |
| `wallet_operations` | 2 tabs, 2 operations on one key, 3 ledgers, window 1, lag 2, symmetry | 2,089,740 | one operation per key, recoverable, truthful and final records |
| `api` | 1 profile with requests of every kind, 2 ledgers, 2 time units; 3 addresses, 2 scopes, room for 2 windows; 2 clients behind 2 proxies; 2 tuples with a file; 1 tuple with HTTPS and IPFS, 1 redirect, 2 chunks; symmetry | 1,493,794 | answers are true, due and fresh; the limiter is fair; a client does not choose its bucket and every reply has its headers; "verified" means bound; a fetch contacts only public addresses and judges only whole bodies |
| `pages` | issuance: 2 builds, 1 load, a store of 1 record, 1 other tab, 1 change from outside, a second one to the store while one build publishes; the subject's page in 3 scenes: acceptance with 2 generations, 2 profiles and 2 changes, acceptance with 2 accounts, rejection and removal; symmetry | 1,479,964 | what is signed, submitted, relayed or retried is what the form describes and what was reviewed; no host without consent |
| `tools` | 2 runs of the command line; 2 captures and a replay of 1 to 3 ledgers in chunks of 2, 2 faults; the ceremony with one operator, 5 ledgers and a transaction of his own or a history with gaps, and with two operators and 4 ledgers; symmetry | 1,852,099 | exit codes and journals are true; bundles are whole and replays genuine; what is published is sealed, once |
| `progress` | 2 calls for 1 place with 3 attempts; 2 pins, 1 janitor, 2 faults; 1 command; 1 fetch; 2 service writers, 3 ledgers, 5 epochs, 2 faults; fairness | 149,607 | refinement of `AtomicTransactions`; calls, pins, commands and fetches end; some worker becomes and stays `ready` |
| `indexer_replay_create_only` | the replay of `indexer_fencing` | violation | finding 1 |
| `pinning_retention` | 2 calls, 1 janitor, no fault | violation | finding 2 |
| `wallet_expiry` | as `wallet_operations` | violation | finding 3 |
| `wallet_confirmation` | as `wallet_operations` | violation | finding 4 |

Every property of a passing run has a mutant in `PROJECT.json`: a plausible bug in a mapped
definition (written next to it, marked *Mutant*) that makes TLC find the property violated.

Why the bounds are enough to meet the interesting cases:

* *Indexer.* Two writers are what a takeover needs, and three epochs allow a writer to lose the
  lease and get it back. The forked instance has two ledgers at index 2 that share a parent and a
  third that does not descend from ledger 1, which both sources may serve alike or not. Two
  faults allow a lost acknowledgement followed by a crash. The tips of the replay's sources move
  past its target, and both a replay that lost its lease and the service may go on from there.
* *Credentials.* Four transactions are what create, accept, delete, create again need, and two
  ledgers allow each of them in the same or in a later ledger, before and after the registration.
* *Pinning.* Two expired pins of one CID, two calls with one challenge, a quota of one and a quota
  shared by wallet or by address all occur with two of each. The fault may be a lost answer.
* *Wallet.* Window 1 and three ledgers let an operation be validated, expire, or be looked up
  exactly at the boundary; lag 2 is the open ledger on top of a closed ledger that is not yet
  validated. Two operations on one key are what a competition for the lock needs, and the second
  can be created once the first is settled or abandoned.
* *Retry.* Two callers conflict with each other; three attempts let a call conflict, succeed on a
  later one, or run out; depth 1 distinguishes a code that is found from one that is hidden.
* *Reads.* Lease, age limit and skew are one time unit each, so every comparison is met on both
  sides of its boundary; two ledgers let the indexer commit while a request runs.
* *Schemas.* Three registrations are a parent, a child and a successor; the limits are reached. At
  most one transaction is odd (no candidate, or naming a schema nobody knows): it leaves no schema
  that another could refer to. Clients page where nothing is superseded.
* *Limiter.* Two places for three clients make room necessary; times up to 6 allow two windows
  and the time after which entries are forgotten.
* *Payloads.* Two tuples let a payload name the wrong credential. Redirects and chunks reach their
  limit and exceed it.
* *Pages.* Each scene allows a change between any two requests of a flow. For issuance, a second
  build can start and the form change and change back.
* *Command line.* A run may look one ledger before, at and after the last ledger.
* *Ceremony.* Five ledgers hold all stages and a delay; with a transaction of his own the key
  holder interferes once, of any kind, between any two steps; without it, the server's history may have
  gaps. Two operators need no delay to meet.
* *Fixtures.* One to three ledgers in chunks of two make chunks that are full, partial and exact.

`CHECK_DEADLOCK FALSE` stands where the bounds on time, transactions or ledgers end a behaviour:
all of an instance's operations may be used up and settled.

## 4. Fairness

* `IndexerWorker!Fairness`: every worker takes its next step when it can, and a lease that nobody
  renews runs out. A process that died is started again (`restart: unless-stopped` in
  `docker-compose.yml`), an open call ends by its own timeout, and time passes. Faults are not
  fair; they are finitely many (`MaxFaults`), since no indexer becomes ready while every call fails.
* `Pinning!FairSpec`: the clock advances, a call that is under way takes its next step (or dies,
  as a fault), and the janitor runs again: an hourly timer calls it, whatever the
  earlier runs did, and every Kubo request is limited to 10 s.
* `SerializableRetry!Fairness`: a call under way takes its next step. Statements end, timers fire.
* `CliSubmission!Fairness`: a process that is not killed goes on and its clock advances. Nothing is
  assumed of the network.
* `PayloadVerification!Fairness`: the API's own steps and timers. Name servers and hosts may never
  answer.
* `WalletOperations` has no liveness property: recovery from a closed tab needs its user.

## 5. Proofs

All theorems hold for every value of the constants that satisfies the `ASSUME` of the module:
bounds are naturals, batch sizes and windows positive, the sources serve ledgers, a pin outlives
a call. Bounds such as `MaxLedger` cap the state for TLC; the proofs do not use their values.

A part of a composed system is proved on its own first, about its module or the instance of it (`V`,
`L`, `Gate`, `S`, `F`, `C`), and then for the system: a step of one part leaves the variables of the others
as they are, so a behaviour of the system is one of each part (`PartsOf`, `IssuePart`, `CliPart`, `FixturePart`,
`CeremonyPart`), or the invariants of the parts are one invariant of the system (`ApiInvariance`,
`SubjectInvariant`), where two parts share the limiter or an instance needs the assumptions of the whole.

*Indexer* (`IndexerProofs`). The safety properties are not inductive: that no stale writer commits
rests on what a worker remembers. `IndInv` adds to them
that tokens are unique and not newer than the row (`TokensInv`), that the row lock belongs to the
worker between `BeginPersist` and `CommitPersist` (`LockInv`), that a fetched ledger came from
both sources and continues `previous` (`FetchedInv`), and, centrally, `ViewInv`: while a
worker's token is in the row, its `previous` is the last checkpoint and its catalog is complete.
A worker whose token is no longer in the row may remember anything, and is refused by the fence.
From it follow `TypeCorrect`, `SingleWriter`, `NoStaleWrite`, `DeterministicProjection`,
`StatusIsPersisted`, `ReadyIsCaughtUp`, `OneIncident`, `NeverRefused`, `ReplayStaysInTarget` and `Refinement`
(`Spec => Chain!Spec`: a commit maps to `Append`, every other step to a stutter). The existence of
a largest checkpoint uses well-founded induction of the library.

*Credentials* (`ProjectionProofs`). `IndInv` says where a row's generation stands with respect to
the object that its transaction created: every conforming object of a known schema has exactly one
live row (`ForwardInv`) and every live row its object (`BackwardInv`). The lemmas describe what
`persistLedger` does with the nodes of a transaction, one per node kind. From it follow
`TypeCorrect`, `IndexerNeverHalts`, `ProjectionMirrorsLedger` and `DeletionCausesTruthful`. That the
events tell the row (`EventsTellTheRow`) needs `HistoryInv` besides: every event belongs to a row and
to an earlier transaction, and row and events agree (`TellsRow`), so that the transaction that
accepts or ends a generation writes its first such event, later than the others. That the newest row
of a tuple describes the ledger (`ReportedIsOnLedger`) needs that rows are numbered in the order of
the API's `ORDER BY` (`OrderInv`) and that no row of a tuple whose credential exists is newer than
the one its creator made (`CreatorNewest`); that there is a newest row is well-founded induction.

*Reads* (`ProjectionProofs`, about `CredentialReads`). What the endpoints serve rests on the log of
events, whose rows carry columns that no row of a generation has. `LogInv` says that every row of the
log has a place of its own in the order of the ledger and stands for one event (`LogPlaced`), that it
fits the row of its generation (`LogFits`), that a generation is dated by its first and its last event
(`RowsDated`), and that between two states of a generation stands the event that led from one to the
other (`Succession`). It is inductive together with the invariants of the projection, by one lemma for
each kind of transaction about the rows it adds (`StepTells`). That a list sorted by place has every row
once and in order is shown by a bijection to 1..n (`EventRows`), since induction over sequences is out of
reach; that the pages of a transaction follow one another without a gap, by a least counterexample to
the recursion. Because every attribute of the row of a generation is determined by its timeline
(`RowDetermined`), one with a fault is refused (`OtherRowRefused`, `OnlyTheTrueRow`), and because every
event is needed for that, so is a timeline that has lost one or has one changed (`LossRefused`,
`ChangeRefused`). From it follows `ReadsAreTrue`: served, refused when faulty, consistent and complete.
Assumed is that the limits are positive and that a timeline may hold an event of each type.

*Schemas* (`ProjectionProofs`, about `SchemaCatalog`). `Resolve` is recursive, and induction over its calls
is out of reach. Instead: in a catalog whose every row keeps the merge of its definition with the stored
resolution of an older parent (`Sound`), a table that answers every call with what is stored satisfies
the equation of the recursion (`CallIs`), and by a least counterexample there is only one that does
(`AncestorsAre`); so a resolution is one merge (`ResolveIs`). In the same way the schemas of the chain,
replayed (`Replayed`), are determined by its transactions (`ReplayedIs`), and one more transaction adds at
most one row (`GoodGrows`). `TablesInv` says that these schemas are a good catalog, in which the lineage of
a row is the line of its ancestors with all their fields (`LineTrue`), and that the tables hold just them,
and true events, until a fault; after it only that a row still has its UID and can be parsed. From it
follow `SchemasAreTrue` - a row with the evidence of its registration has the definition that the chain
has at its UID (`EvidenceBinds`), and a line of such rows the fields and lineage (`LineAgrees`), whatever
has become of any of them -, `AcceptedAreServed` and the first part of `CollectionsAreComplete`, for which
the closure of a schema contains the lines of its members (`ClosureHoldsLines`), so that the bundle is a
sound catalog too (`BundleIsSound`). `PageInv` says that a client has seen every row up to its cursor,
or down to it, in order: the second part. A list sorted by position has every row once by a bijection to
1..n, as for events. Assumed is that depth and page limits are positive (`SchemaConstants`).

*Wallet* (`WalletProofs`). `RowInv` and `RelayInv` relate a row to the transaction, the ledger and
the indexer; `CallInv` says what a call may rely on at each await whatever other tabs have done
since: before it has persisted its signature its row is absent or a draft, afterwards it is
neither, and an answer it carries was true when given and stays true, because ledgers only grow.
`OwnerInv` says that one call owns an operation until its signature is persisted. Every action is
an instance of one of three lemmas (a tab moves, a row changes, an entry is appended) or has one of
its own. From it follow `TypeCorrect`, `OneOperationPerKey`, `LiveTransactionsRecoverable`,
`RecordsTruthful` and `SettledIsFinal`.

*Pinning* (`PinningProofs`). `IndInv` says that the row of a call past `reservePin` is the one it
made, which nobody else has settled, and that the call is younger than `RequestTime` (`CallInv`);
that the rows a janitor works on had expired when it began and none has failed (`JanitorInv`); and
that content still in the store while a janitor is about to mark its row unpinned has another row,
one that failed or one that is active and expires later (`MarkSafe`). Without `MarkSafe`, `NoOrphan`
is not inductive: the janitor marks long after it has asked. That no janitor ever holds the row of a
call in flight rests on `RequestTime < PinTtl`, which the 10 s limit of a Kubo request and the 90
days of a pin give. `QuotaHolds` counts rows that are committed out of the order of their times, so
`QuotaInv` bounds every window and not only those that start with a pin, with lemmas on the
cardinality of the rows that a reservation adds to. From it follow `PinsAreAuthorised` and
`StoreIsAccounted`, and, as an action property, `RowsOnlySettle`: nothing of a row ever changes but
its status.

*Retry* (`RetryProofs`). `IndInv` says that whoever is in the log has committed and will not run
again, because only a lost connection leads from there to the catch block and that is not retried
(`LogSettled`); that a unit about to commit has read a log with room (`SnapshotFits`); and that a
committed call has the place it will return (`PlaceTaken`). From it follows `Refinement`
(`Spec => Atomic!Spec`): a commit maps to `Apply`, its acknowledgement to `Return`, the catch block
to `Throw` or, like every other step, to a stutter. `Bounded` adds that only a call with an attempt
left goes to sleep, and that an error is followed no deeper than the code does; with `SnapshotFits`
it yields `TypeCorrect`: attempts are bounded and the log stays within the quota. Both assume a
positive number of attempts and nothing of the depth or of the number of callers.

*Reads* (`ApiProofs`). A request's view is a past state of the tables. `ReadInv` says that the
chain grows only above the head of a view, whose rows are complete up to it (`ViewTrue`), and that
what would pass a request's checks, in the tables or in its view, was served at some instant since
it began, although the lease may be gone by the time of its snapshot (`Due`). `Due` is inductive
because a row can begin to pass only by a write of a worker whose lease is live. From it follows
`AnswersAreAuthoritative`. Of the time limits only a positive lease is assumed.

*Payloads* (`ApiProofs`, as the instance `V`). `PayloadInv` says what the files and the commands'
records came from (`ArtifactsOK`); that a fetch past its address check holds a public address, and
that it has followed no more redirects and received no more chunks than the limits allow
(`FetchOK`); and that a verdict is the judgement of one content against the credential that the
API read, whichever way the content came (`VerdictOK`). From it follow `VerdictsAreBound` and
`FetchesAreContained`. Assumed is that the limits are naturals
and the contents records of the modelled kind.

*Limiter* (`ApiProofs`, as the instance `L`). Entries are dropped for others and made again, so an
entry says nothing of its bucket before it was opened. `LimiterInv` ties each entry to the decision
that opened it: since then the bucket has been granted what the entry counts, up to the budget, and
who was refused was told to wait for the end of the window (`Opened`). From it follow
that refusals are fair and that the Map keeps its bound. That budgets are kept needs `BudgetInv` besides:
while every bucket has room there are for each one the decisions that began its current window and the one
before it, of which neither has granted more than the budget (`Phases`): an interval of the length
of a window meets no third. What is left after forgetting is defined by position (`Nth`), since the
library's filter of a sequence is opaque to the provers; that the k-th position exists is an
induction by a least element. `LimitsAreFair` states all of it, also for requests that come through
`ApiGateway`, which count in the same limiter (`NextGateway` of `ApiInvariance`). Assumed is that a
window does not outlast the hour after which it is forgotten.

*Requests* (`ApiProofs`, as the instance `Gate`). `AddressResolved` is about the walk back along
`x-forwarded-for`: whatever a client writes and whichever proxies it passes, the last entry that is
no proxy is the client's own, or the list is ignored and the peer counts. With it `GatewayInv` is
inductive, and `RequestsAreSafe` follows. Assumed is that no client's address is that of a proxy.

*Issuance* (`PagesProofs`). A preview outlives a change of the form until the watchers have run,
so `SubmittedAsDescribed` is not a matter of one step. `IssueInv` ties the preview to the form by
the pair of `dirty` and `revision`: a preview, and a build of the present revision, describe the form
whenever nothing is dirty (`Current`); a change marks every build under way before it can move the
revision (`BuildsOK`); in guided mode the text follows the guided claims but for a watcher that has
yet to run (`TextSynced`), which is why a build's own write of the text is none; a submission goes
on with the form, account and transaction it began with (`SubmitOK`). From it follow
`PagesSubmitAsDescribed` (an action property) and `PagesAreConsistent`. The bound of the store needs
an invariant of its own, since a tab counts the records and writes later (`StoreOK`). The page and
each other tab may hold a record that it has found room for and not yet written. One that finds room
finds fewer records than the limit, and at most the other tabs are still to write; so records and
pending writes together are at most the limit and one for each other tab (`Fits`). A
write moves its record from the one to the other, and to overwrite, expire or clear takes away. That
nothing unacknowledged is held comes with it: what a tab is about to write is sound
(`PublishOK`). Assumed is that the limits are positive, the other tabs finitely many and the
page's tab none of them.

*Acceptance* (`PagesProofs`, as the instance `S`). A flow reads the world piece by piece, and the world
does not wait. `SubjectInv` says at each place of a flow what it has read, and of which generation
(`FlowOK`, `LoadedOK`); that a submission goes on with a transaction and a review of one generation
and, for an acceptance, with valid claims of which the subject consented to see just these
(`ReviewedOK`); how a flow that is still fresh stands to the page (`PageFits`: with no watcher queued,
the form is the one it began with); and that each answer after the signature was true of a world
since (`PostOK`), so that the two answers of an acceptance, which are of one generation and state,
describe one instant: a pending credential is not accepted (`Consistent`). What the review
established of a signed transaction stays with it (`SignedOK`), in the journal too (`JournalOK`),
so a retry days later still is of claims the subject consented to see and of an issuer accepted in
that review. Of the issuer at the time of a retry nothing follows, for `retryOperation` asks about
profile and generation only; `RelayedReviewed` claims an accepted issuer at an instant since the
signature for what the page itself relays. From it follow
`PreviewIsReviewed` and `RelayedIsReviewed`. Assumed is that there are finitely many
accounts and that the actions are the three of the page.

*Command line* (`ToolsProofs`). `CliInv` says for each run what its place in the program implies of its
memory, its file and the ledger (`LogOK`, `EntryTrue`, `ControlOK`, `VerdictOK`, `ExitOK`), and of
the network that a malformed blob is never relayed (`NetOK`). Other terminals share nothing but the
network, and that only grows: the lemma `NetworkGrows` turns this into non-interference, so each
action is proved for its own run only. From it follow `ToolsAreTruthful` and, as an action property,
`VerdictsStand`: once a run has printed `validated`, no later look answers otherwise. Together with
`PublishedStays` of the ceremony this is `ReportsAreFinal`.

*Ceremony* (`ToolsProofs`, as the instance `C`). `LedgersOK` says of the account that once it is
blackholed it stays so, and that only a transaction of the key holder's own can undo what
`disable-master-key` relies on; this needs that every transaction the tool submits is gentle
(`PoolOK`), also one that a stage started long before still has under way. `Waits` says that
a stage's transaction under way is the one the stage waits for, and `StageOK` what a stage has read,
submitted and checked at its place. A report and a file speak of a sealed account (`ReportsOK`), and
sealed is for ever (`SealedStays`). From it follow
`PublishedIsSealed`, `NobodyIsStranded`, `TestnetOnly` and `CeremonyTyped`. `CoverageIsExact` rests on what
the check of a server's history computes. `ParseCompleteLedgers` sorts and merges; both are written so
that they can be reasoned about, a choice of the order and a recursive function. `HistoryInv` says that
what a stage keeps of its server has one first ledger from which on nothing is missing, and is
established where a stage connects (`ReportedIsHeld`), for a history of one range, of two that are apart,
and of two that touch or overlap, in the order a server may write them (`ParseOne`, `ParseTwo`). What
the function returns for any number of ranges would need induction over sequences; a server of the model
reports at most two. Together these are `RegistryIsSealed`. Assumed is only that the
operators are not called as the key holder and nobody are, and that the key holder's transactions
are bounded by a natural number.

*Fixtures* (`ToolsProofs`, as the instance `F`), in four layers. `FixtureInv` says that what a capture
collects is of the chain (`CaptureOK`), so every printed manifest is; and that a replay works with the
manifest of its digest and trusts an entry only if the digest vouches for it (`ReaderOK`, `CacheOK`,
with the lemma `GetLedgerOK`): `ReplaysAreGenuine`, whatever the directory holds. `PublicationInv` is
about who may change the directory: what is staged is a complete and valid bundle (`StagedOK`), at
most one capture owns the directory, which then holds exactly the entries it has linked, in the
order of the plan, and nothing is printed before it is done (`OwnerOK`, `LinkedOK`); the manifest is
the last entry of a plan and no other (`PlanIs`). From it follows `BundlesStayWhole`. `SteadyInv` says
of a replay that no fault has met since it began that its cached chunk is what the directory holds
and that every ledger it will read again was served before: `ReplaysAreWhole`. `ServedInv` says that
chunk k of a capture holds the ledgers from From + (k - 1) PerChunk on, each in its place (`TiledOK`),
hence that the division in `getLedger` finds it (`StoredIsServed`, `ChunkMore`): `ReplaysAreServed`.
`FixtureTyped` needs, of the two first layers, that what is pending is less than a chunk. Together these
are `BundlesAreGenuine`. Assumed is that the activation index, the tip and the bound of faults are natural
numbers and the size of a chunk a positive one.

Before they were proved, `HistoryInv`, `LogInv`, `ReadInv`, `PayloadInv`, `LimiterInv`, `BudgetInv` (with
its times and positions bounded), `GatewayInv`, `IssueInv`, `SubjectInv`, `CliInv` and `PublicationInv`
were checked by TLC with the constants of the run that checks the property.

Only model-checked:

* the liveness properties `EventuallyReady`, `Settled` and `CallsEnd`, which are out of the
  prover's reach;
* the properties of the runs that expect a violation, which are false.

Every invariant and every safety property of the passing runs is thus stated by a theorem, by the name it
has in the run.

## 6. Findings

1. *Replay is not create-only* (`indexer_replay_create_only`). `runReplay` counts the rows of the
   projection before the worker takes the lease; a service that starts in between writes
   checkpoints that the replay then extends. The runbook says a replay refuses a projection that
   has rows.
2. *A fresh pin can lose its content* (`pinning_retention`). The janitor asks whether another
   active pin of the CID exists and then unpins; a pin made in between is answered with an expiry
   90 days ahead and has no content.
3. *A transaction recorded as expired can be applied* (`wallet_expiry`). `getTransactionStatus`
   looks the transaction up and then compares the *open* ledger with `LastLedgerSequence`. A
   transaction validated between the two requests, or in a ledger that is closed and not yet
   validated, is journalled as expired for good. The proved property `LiveIsRecoverable` states
   exactly what remains true: this is the only way a live transaction leaves the journal.
4. *Stored evidence can be replaced by a timeout* (`wallet_confirmation`). Whether an operation
   may be re-confirmed is checked before a poll of up to 30 s, and the write after it does not look
   at what another tab has stored meanwhile. The operation then holds its business lock again.

Five more disagreements were met that have no run of their own. The modules state the documented
property, and checking it instead of a run's properties gives a counterexample:

* `RateLimiter!DeadEntriesGoFirst`. `makeRoom` keeps entries for an hour although a window lasts a
  minute, and setting a key again does not move it in a `Map`: a client that has just opened a new
  window may lose it while ended ones are kept. The comment at `rate-limit.ts:62` says that entries
  that can no longer deny anything go first.
* `Issuance!StoreWithinLimit`. `docs/known-limitations.md:226` says that the store keeps at most 20
  payloads. `storeLocalTestPayload` counts the keys and then writes: two tabs that both count 19 leave
  21. What remains true is `StoreBounded`: one record too many for each other tab, and no more.
* `SubjectReview!UntrustedBlocked`. An acceptance that was not relayed because the issuer had become
  untrusted stays in the journal as signed, and `retryOperation` does not read trust. The web README
  says that an untrusted issuer is blocked.
* `SubjectReview!BlobRevalidated`. The web README and a comment say that generation and state are
  read again before the blob is persisted; `signAndSubmit` persists it first.
* `Ceremony!DisabledMeansStranded`. `CEREMONY_MASTER_KEY_ALREADY_DISABLED` is also raised for an
  account that is properly blackholed, where the runbook says to discard it.

## 7. Not modelled

* *Formats and interface*: HTTP schemas, OpenAPI, metrics, translations, components, and the pages
  that only display what the API answers.
* *Settings, database provisioning, grants, migrations*: constants and DDL; the constraints the
  models rely on are modelled where they are used.
* *Third-party wrappers and I/O*: wallet adapters, the WebSocket client and metadata decoding of
  `xrpl-source.ts`, argument handling of the command lines.
* *Pure data checks*: the builders and validators of transactions in the SDK, limits on numbers
  and strings, base32 and CID encoding, the classification of an IP address, the validation of
  network profiles. Their verdicts are inputs of the models.
* *Projection digest*: a hash over ordered rows without state of its own.
* *Code without a caller in the programs*: `prepareSignAndSubmit`, `assertTransactionNotExpired`.

Cryptography (hashes, signatures, canonical JSON) is taken as collision-free and unforgeable.

## 8. Plan

The components that keep state are modelled, and the safety properties of every run are theorems. What
remains:

1. The liveness properties stay with TLC: fairness and ENABLED are beyond the prover. What their
   arguments rest on is proved (`TypeCorrect`, `StoreIsAccounted`, `Refinement`).
2. The projection digest, as a pure operator over ordered rows, if the order of the queries turns out to
   matter.
3. The builders and validators of the SDK, whose verdict is an input of the submission models.
