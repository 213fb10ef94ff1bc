-------------------------- MODULE ProfilePreflight --------------------------
(***************************************************************************)
(* The checks of a network profile against a server and against the        *)
(* registry account, as operators. The indexer runs them when it starts,   *)
(* the ceremony before it publishes a profile.                             *)
(*                                                                         *)
(* An account is a record of what the checks read in its AccountRoot and   *)
(* its objects. A ledger's hash stands for its index: one chain is         *)
(* considered.                                                             *)
(***************************************************************************)
EXTENDS Integers, Sequences, SequencesExt

Keys == {"unset", "ACCOUNT_ZERO", "ACCOUNT_ONE", "other"}

\* An AccountRoot with its signer lists and the delegates it has authorised.
Accounts ==
    [exists : BOOLEAN, masterDisabled : BOOLEAN, depositAuth : BOOLEAN, destTag : BOOLEAN,
     regularKey : Keys, signerList : BOOLEAN, delegate : BOOLEAN]

\* One range, in order: it extends the last one, or follows after a gap.
MergeRange(merged, range) ==
    IF merged = <<>> \/ range.min > Last(merged).max + 1
    THEN Append(merged, range)
    ELSE [merged EXCEPT ![Len(merged)].max = IF range.max > @ THEN range.max ELSE @]

\* The ranges by their minimum, then by their maximum; equal ones keep their order.
Sorted(ranges) ==
    LET Places == DOMAIN ranges
        Before(i, j) == \/ ranges[i].min < ranges[j].min
                        \/ /\ ranges[i].min = ranges[j].min
                           /\ ranges[i].max < ranges[j].max \/ (ranges[i].max = ranges[j].max /\ i < j)
        order == CHOOSE p \in [Places -> Places] : \A j, k \in Places : j < k => Before(p[j], p[k])
    IN [k \in Places |-> ranges[order[k]]]

\* parseCompleteLedgers; empty if it refuses
ParseCompleteLedgers(ranges) ==
    LET sorted == Sorted(ranges)
        merged[k \in 0 .. Len(ranges)] == IF k = 0 THEN <<>> ELSE MergeRange(merged[k - 1], sorted[k])
    IN IF \E k \in DOMAIN ranges : ranges[k].min > ranges[k].max THEN <<>> ELSE merged[Len(ranges)]

\* normalizeServerInfo; a server that reports no ledgers is refused
NormalizeServerInfo(info) ==
    [networkId |-> info.networkId, validated |-> info.validated, ranges |-> ParseCompleteLedgers(info.ranges)]

\* assertSourceCoversProfile
AssertSourceCoversProfile(status, networkId, activation) ==
    /\ status.networkId = networkId
    /\ status.validated >= activation
    /\ \E k \in DOMAIN status.ranges : status.ranges[k].min <= activation /\ status.ranges[k].max >= status.validated

\* assertRegistryBlackholed, on the account at the activation ledger
AssertRegistryBlackholed(account) ==
    /\ account.exists
    /\ account.masterDisabled
    /\ ~account.depositAuth /\ ~account.destTag
    /\ account.regularKey \in {"ACCOUNT_ZERO", "ACCOUNT_ONE"}
    /\ ~account.signerList
    /\ ~account.delegate

\* assertRegistryReceivable
AssertRegistryReceivable(account) == account.exists /\ ~account.depositAuth /\ ~account.destTag

\* registryAccountRoot: a validated answer from the activation ledger
RegistryAccountRoot(answer, activation) == answer.validated /\ answer.index = activation

\* normalizeAccountObjectsPage: a validated page from the activation ledger
NormalizeAccountObjectsPage(answer, activation) == answer.validated /\ answer.index = activation

\* resolveRegistryPolicy, for the profile and the environment of a process
ResolveRegistryPolicy(profile, env) ==
    IF env.policy = "blackholed"
    THEN IF profile.id = "pilot" THEN "refused" ELSE "blackholed"
    ELSE IF env.ack /\ profile.networkId = 1 /\ profile.id = "pilot" THEN "controlled-testnet-pilot" ELSE "refused"

=============================================================================
