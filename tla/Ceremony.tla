------------------------------ MODULE Ceremony ------------------------------
(***************************************************************************)
(* The registry ceremony: an operator runs the stages of ceremony-cli, in  *)
(* any order, again, or two at a time, against a ledger on which whoever   *)
(* holds the registry's keys may submit transactions of his own.           *)
(*                                                                         *)
(* A stage reads the account at a validated ledger, decides, submits and   *)
(* waits; each answer may come from a node that is behind. A stage may be  *)
(* interrupted at any point, and a transaction it has submitted is then    *)
(* validated or lost without it.                                           *)
(***************************************************************************)
EXTENDS ProfilePreflight, FiniteSets

CONSTANTS
    Runs,         \* processes of the operator
    MaxLedger,    \* bound on validated ledgers
    MaxOwn,       \* bound on transactions of the key holder's own
    OwnKinds,     \* the settings he changes
    Gaps          \* servers may lack ledgers

VARIABLES
    ledgers,    \* the registry account in each validated ledger
    pool,       \* transactions submitted and not yet validated
    own,        \* transactions the key holder has submitted himself
    run,        \* the stages
    file,       \* the profile file
    verified,   \* activation ledgers that verify has reported
    lastOwn     \* the ledger of the key holder's last transaction

vars == <<ledgers, pool, own, run, file, verified, lastOwn>>

tip == Len(ledgers)
NoFile == [id |-> "none"]
Absent ==
    [exists |-> FALSE, masterDisabled |-> FALSE, depositAuth |-> FALSE, destTag |-> FALSE,
     regularKey |-> "unset", signerList |-> FALSE, delegate |-> FALSE]
NoStatus == [networkId |-> 1, validated |-> 0, ranges |-> <<>>]
Idle == [pc |-> "idle", stage |-> "none", result |-> "none", activation |-> 0, status |-> NoStatus, held |-> {},
         readAt |-> 0, boundary |-> 0]

-----------------------------------------------------------------------------
(* The ledger.                                                             *)

\* Somebody can sign for the account.
Controllable(account) ==
    account.exists /\ (~account.masterDisabled \/ account.regularKey = "other" \/ account.signerList \/ account.delegate)

\* What a validated transaction does. A registry that is blackholed accepts payments only.
Apply(account, kind) ==
    CASE kind = "fund" -> [account EXCEPT !.exists = TRUE]
      [] kind = "setRegularKey" -> [account EXCEPT !.regularKey = "ACCOUNT_ZERO"]
      [] kind = "disableMaster" -> [account EXCEPT !.masterDisabled = TRUE]
      [] kind = "keyOther" -> [account EXCEPT !.regularKey = "other"]
      [] kind = "depositAuth" -> [account EXCEPT !.depositAuth = ~@]
      [] kind = "destTag" -> [account EXCEPT !.destTag = ~@]
      [] kind = "signerList" -> [account EXCEPT !.signerList = ~@]
      [] kind = "delegate" -> [account EXCEPT !.delegate = ~@]
      [] OTHER -> account

\* The stages sign with the master key. The ledger refuses to disable it without
\* another way to sign.
Accepted(account, kind) ==
    CASE kind = "fund" -> ~account.exists
      [] kind = "setRegularKey" -> account.exists /\ ~account.masterDisabled
      [] kind = "disableMaster" -> /\ account.exists /\ ~account.masterDisabled
                                   /\ account.regularKey # "unset" \/ account.signerList
      [] kind = "payment" -> AssertRegistryReceivable(account)
      [] OTHER -> Controllable(account)

\* A ledger with no transaction, or with one of the pool, which it applies or refuses;
\* a stage that waits for it learns the result.
Close ==
    /\ tip < MaxLedger
    /\ \/ /\ ledgers' = Append(ledgers, ledgers[tip])
          /\ UNCHANGED <<pool, run, lastOwn>>
       \/ \E tx \in pool :
             LET ok == tx.network = 1 /\ Accepted(ledgers[tip], tx.kind) IN
             /\ ledgers' = Append(ledgers, IF ok THEN Apply(ledgers[tip], tx.kind) ELSE ledgers[tip])
             /\ pool' = pool \ {tx}
             /\ run' = [p \in Runs |->
                   IF p # tx.by THEN run[p]
                   ELSE IF ok THEN [run[p] EXCEPT !.pc = "validated", !.boundary = tip + 2]
                   ELSE Idle]
             /\ lastOwn' = IF ok /\ tx.by = "owner" THEN tip + 1 ELSE lastOwn
    /\ UNCHANGED <<own, file, verified>>

\* The key holder submits a transaction himself.
Own ==
    /\ own < MaxOwn
    /\ \E k \in OwnKinds : pool' = pool \cup {[by |-> "owner", kind |-> k, network |-> 1]}
    /\ own' = own + 1
    /\ UNCHANGED <<ledgers, run, file, verified, lastOwn>>

\* An answer about ledger n from a node that is at most one ledger behind; its open
\* ledger is not validated.
Answer(n, at) == [validated |-> n <= at, index |-> n, account |-> IF n <= at THEN ledgers[n] ELSE ledgers[at]]
Nodes == {n \in tip - 1 .. tip : n >= 1}

-----------------------------------------------------------------------------
(* The decisions of ceremony.ts.                                           *)

\* resolveCeremonyNetworkId
ResolveCeremonyNetworkId(requested) == requested = 1

\* assertConnectedNetwork
AssertConnectedNetwork(expected, actual) == actual # 0 /\ actual = expected

\* assertProfileIdAllowed
AssertProfileIdAllowed(id) == id \notin {"example", "pilot"}

\* summarizeAccountState
SummarizeAccountState(account) ==
    [account EXCEPT !.regularKey = IF @ \in {"ACCOUNT_ZERO", "unset"} THEN @ ELSE "other"]

\* assertReadyToSetRegularKey
AssertReadyToSetRegularKey(state) == ~state.masterDisabled

\* Mutant: the order of the stages is left to the operator.
AssertReadyToDisableMasterKeyAnyOrder(state) ==
    ~state.masterDisabled /\ ~state.depositAuth /\ ~state.destTag

\* assertReadyToDisableMasterKey
AssertReadyToDisableMasterKey(state) ==
    ~state.masterDisabled /\ state.regularKey = "ACCOUNT_ZERO" /\ ~state.depositAuth /\ ~state.destTag

\* buildCeremonyProfile, and serializeProfileFile
BuildCeremonyProfile(id, activation) == [id |-> id, networkId |-> 1, activation |-> activation]

-----------------------------------------------------------------------------
(* The stages of ceremony-cli.ts.                                          *)

Stages == {"create-account", "status", "set-regular-key", "disable-master-key", "verify", "emit-profile"}

End(p) == run' = [run EXCEPT ![p] = Idle]
Goto(p, pc) == run' = [run EXCEPT ![p].pc = pc]
Offline == UNCHANGED <<ledgers, own, lastOwn>>

\* What a node may report of its history: it holds its validated ledger, and possibly
\* has a gap. The ranges come in any order, and may touch or overlap.
Reported(at) ==
    LET r(a, b) == [min |-> a, max |-> b]
    IN IF Gaps THEN {<<r(at, at)>>} \cup {<<r(at, at), r(1, b)>> : b \in {n \in at - 2 .. at : n >= 1}}
       ELSE {<<r(1, at)>>}

\* connect: the server's status, once, for the whole stage.
Connect(p, stage, activation) ==
    \E network \in {0, 1}, at \in Nodes :
    \E ranges \in IF activation > 0 THEN Reported(at) ELSE {<<[min |-> 1, max |-> at]>>} :
       /\ AssertConnectedNetwork(1, network)
       /\ run' = [run EXCEPT ![p] =
             [Idle EXCEPT !.pc = "read", !.stage = stage, !.activation = activation,
                !.status = NormalizeServerInfo([networkId |-> network, validated |-> at, ranges |-> ranges]),
                !.held = UNION {ranges[k].min .. ranges[k].max : k \in DOMAIN ranges}]]

\* main, what a stage checks before it connects, and the connection. The operator may
\* give any ledger as the activation ledger. create-account is run once: another run
\* makes another account.
StartStage(p) ==
    /\ run[p].pc = "idle"
    /\ \E requested \in {0, 1, 2} : ResolveCeremonyNetworkId(requested)
    /\ \E stage \in Stages :
          /\ stage = "create-account" => ~ledgers[tip].exists /\ pool = {}
          /\ stage = "emit-profile" => file = NoFile /\ \E id \in {"public", "example", "pilot"} : AssertProfileIdAllowed(id)
          /\ \E a \in IF stage \in {"verify", "emit-profile"} THEN 1 .. tip + 1 ELSE {0} : Connect(p, stage, a)
    /\ Offline /\ UNCHANGED <<pool, file, verified>>

\* readAccount at the validated ledger of a node; an account that does not exist fails.
\* runStatus prints it; the other two stages decide on it.
ReadAccount(p) ==
    /\ run[p].pc = "read" /\ run[p].stage \in {"status", "set-regular-key", "disable-master-key"}
    /\ \E at \in Nodes :
          LET state == SummarizeAccountState(ledgers[at]) IN
          IF ~state.exists THEN End(p)
          ELSE CASE run[p].stage = "status" -> End(p)
                 [] run[p].stage = "set-regular-key" ->
                      IF ~AssertReadyToSetRegularKey(state) THEN run' = [run EXCEPT ![p] = [Idle EXCEPT !.result = "CEREMONY_MASTER_KEY_ALREADY_DISABLED"]]
                      ELSE IF state.regularKey = "ACCOUNT_ZERO" THEN End(p)
                      ELSE run' = [run EXCEPT ![p].pc = "submit", ![p].readAt = at]
                 [] OTHER ->
                      IF ~AssertReadyToDisableMasterKey(state) THEN End(p)
                      ELSE run' = [run EXCEPT ![p].pc = "submit", ![p].readAt = at]
    /\ Offline /\ UNCHANGED <<pool, file, verified>>

\* submit, and the faucet's funding of a new account
Submit(p) ==
    /\ run[p].pc = "submit" \/ (run[p].pc = "read" /\ run[p].stage = "create-account")
    /\ pool' = pool \cup {[by |-> p, network |-> run[p].status.networkId,
                           kind |-> CASE run[p].stage = "create-account" -> "fund"
                                      [] run[p].stage = "set-regular-key" -> "setRegularKey"
                                      [] run[p].stage = "disable-master-key" -> "disableMaster"
                                      [] run[p].stage = "verify" -> "payment"]}
    /\ Goto(p, "wait")
    /\ Offline /\ UNCHANGED <<file, verified>>

\* firstValidatedLedgerAfter: the loop ends when a node has validated the ledger
FirstValidatedLedgerAfter(at, boundary) == at >= boundary

\* The rest of a stage whose transaction succeeded. disable-master-key prints the
\* activation boundary.
Validated(p) ==
    /\ run[p].pc = "validated"
    /\ IF run[p].stage = "disable-master-key"
       THEN /\ \E at \in Nodes : FirstValidatedLedgerAfter(at, run[p].boundary)
            /\ run' = [run EXCEPT ![p].pc = "idle", ![p].result = "boundary"]
       ELSE End(p)
    /\ verified' = IF run[p].stage = "verify" THEN verified \cup {run[p].activation} ELSE verified
    /\ Offline /\ UNCHANGED <<pool, file>>

\* ledgerHashAt: the ledger must be validated
LedgerHashAt(a) == \E at \in Nodes : a <= at

\* assertBlackholedAtActivation: two answers, possibly of two nodes
AssertBlackholedAtActivation(a, info, objects) ==
    /\ RegistryAccountRoot(info, a) /\ NormalizeAccountObjectsPage(objects, a)
    /\ AssertRegistryBlackholed([info.account EXCEPT !.delegate = objects.account.delegate])
    /\ AssertRegistryReceivable(info.account)

Assertions(p) ==
    \E x, y \in Nodes :
       AssertBlackholedAtActivation(run[p].activation, Answer(run[p].activation, x), Answer(run[p].activation, y))

Covers(p) == AssertSourceCoversProfile(run[p].status, 1, run[p].activation)

\* The assertions of runVerify, before its payment, and of runEmitProfile, before
\* it writes.
AssertRegistry(p) ==
    /\ run[p].pc = "read" /\ run[p].activation > 0
    /\ \/ /\ LedgerHashAt(run[p].activation) /\ Assertions(p) /\ Covers(p)
          /\ Goto(p, IF run[p].stage = "verify" THEN "submit" ELSE "absent")
       \/ End(p)
    /\ Offline /\ UNCHANGED <<pool, file, verified>>

\* assertProfileFileAbsent, again
ProfileFileAbsent(p) ==
    /\ run[p].pc = "absent"
    /\ IF file = NoFile THEN Goto(p, "write") ELSE End(p)
    /\ Offline /\ UNCHANGED <<pool, file, verified>>

\* writeFile with the flag wx
WriteProfile(p) ==
    /\ run[p].pc = "write"
    /\ IF file = NoFile
       THEN file' = BuildCeremonyProfile("public", run[p].activation) /\ Goto(p, "gate")
       ELSE UNCHANGED file /\ End(p)
    /\ Offline /\ UNCHANGED <<pool, verified>>

\* The final gate on the bytes written, with the registry policy of the environment.
FinalGate(p) ==
    /\ run[p].pc = "gate"
    /\ \E policy \in {"blackholed", "controlled-testnet-pilot"} :
          LET profile == BuildCeremonyProfile("public", run[p].activation) IN
          \/ /\ ResolveRegistryPolicy(profile, [policy |-> policy, ack |-> TRUE]) # "refused"
             /\ Assertions(p) /\ Covers(p)
             /\ End(p)
          \/ End(p)
    /\ Offline /\ UNCHANGED <<pool, file, verified>>

\* A request fails, the wait ends without an answer, or the operator interrupts the
\* stage. Its transaction, if it has sent one, is lost or may still be validated; one
\* such transaction is followed at a time.
Abort(p) ==
    /\ run[p].pc # "idle"
    /\ \E lost \in BOOLEAN :
          /\ ~lost => \A tx \in pool : tx.by # "nobody"
          /\ pool' = IF lost THEN {tx \in pool : tx.by # p} ELSE {[tx EXCEPT !.by = IF @ = p THEN "nobody" ELSE @] : tx \in pool}
    /\ End(p)
    /\ Offline /\ UNCHANGED <<file, verified>>

\* A transaction passes its last ledger.
Expire ==
    /\ \E tx \in pool : tx.by = "nobody" /\ pool' = pool \ {tx}
    /\ Offline /\ UNCHANGED <<run, file, verified>>

-----------------------------------------------------------------------------
Init ==
    /\ ledgers = <<Absent>> /\ pool = {} /\ own = 0 /\ lastOwn = 0
    /\ run = [p \in Runs |-> Idle] /\ file = NoFile /\ verified = {}

Step(p) ==
    \/ StartStage(p) \/ ReadAccount(p) \/ Submit(p) \/ Validated(p)
    \/ AssertRegistry(p) \/ ProfileFileAbsent(p) \/ WriteProfile(p) \/ FinalGate(p)
    \/ Abort(p)

Next == Close \/ Own \/ Expire \/ \E p \in Runs : Step(p)

Spec == Init /\ [][Next]_vars

-----------------------------------------------------------------------------
(* Properties.                                                             *)

\* Type invariant; a boundary that was printed is that of a validated ledger
\* (firstValidatedLedgerAfter).
TypeOK ==
    /\ \A n \in DOMAIN ledgers : ledgers[n] \in Accounts
    /\ \A tx \in pool : tx.by \in Runs \cup {"owner", "nobody"} /\ tx.network \in {0, 1}
    /\ own \in 0 .. MaxOwn /\ lastOwn \in 0 .. tip
    /\ \A p \in Runs : run[p].result = "boundary" => run[p].boundary \in 1 .. tip
    /\ verified \subseteq 1 .. tip
    /\ file # NoFile => file.activation \in 1 .. tip

\* From the activation ledger on the registry is blackholed and receivable for ever.
Sealed(a) == \A n \in a .. tip : AssertRegistryBlackholed(ledgers[n]) /\ ~Controllable(ledgers[n])

\* A profile is only ever published, and a registry only reported as verified, when
\* nobody can change the account in any ledger from the activation ledger on, however
\* the stages were interleaved, repeated or interrupted, whatever the key holder did,
\* and whichever node answered (runVerify, runEmitProfile, assertRegistryBlackholed).
PublishedSealed == (file # NoFile => Sealed(file.activation)) /\ \A a \in verified : Sealed(a)

\* A published profile file is never replaced, also when two emit-profile stages run at
\* the same time (runEmitProfile).
PublishedOnce == [][file # NoFile => file' = file]_file

\* The stage that disabled the master key leaves an account with the key ACCOUNT_ZERO
\* that can receive payments, if the key holder sent nothing of his own after the ledger
\* that the stage had read, however far other stages had come (assertReadyToDisableMasterKey).
NotStranded ==
    \A p \in Runs :
        run[p].stage = "disable-master-key" /\ run[p].boundary > 0 /\ lastOwn <= run[p].readAt
        => LET account == ledgers[run[p].boundary - 1]
           IN account.masterDisabled /\ account.regularKey = "ACCOUNT_ZERO" /\ AssertRegistryReceivable(account)

\* No stage submits a transaction to a network other than Testnet, whatever the operator
\* configured and whichever server he is connected to (resolveCeremonyNetworkId,
\* assertConnectedNetwork).
OnlyTestnet == \A tx \in pool : tx.network = 1

\* The check of a server's history agrees with the ledgers that the server reports, one
\* by one, however it writes the ranges (parseCompleteLedgers, assertSourceCoversProfile).
CoversExactly ==
    \A p \in Runs : run[p].status # NoStatus =>
        \A a \in 1 .. tip :
           AssertSourceCoversProfile(run[p].status, run[p].status.networkId, a)
           <=> a <= run[p].status.validated /\ a .. run[p].status.validated \subseteq run[p].held

\* set-regular-key reports CEREMONY_MASTER_KEY_ALREADY_DISABLED only for an account whose
\* regular key is not ACCOUNT_ZERO, as the runbook says of this error.
DisabledMeansStranded ==
    \A p \in Runs : run[p].result = "CEREMONY_MASTER_KEY_ALREADY_DISABLED" => ledgers[tip].regularKey # "ACCOUNT_ZERO"
=============================================================================
