----------------------------- MODULE ToolsSystem -----------------------------
(***************************************************************************)
(* The operators' tools: the submission of a signed blob (which this       *)
(* module extends), fixture bundles and the registry ceremony.  They share *)
(* no state, so they are not interleaved: part says which of them a        *)
(* behaviour is about, and the others rest in an initial state.            *)
(***************************************************************************)
EXTENDS CliSubmission

CONSTANTS
    Captures, From, Tip, PerChunk, MaxFaults,       \* FixtureBundle
    Operators, LastLedger, MaxOwn, OwnKinds, Gaps   \* Ceremony

\* The ledgers of a bundle begin with the activation of the profile.
FixtureAssumption == From \in Nat /\ PerChunk \in Nat \ {0} /\ Tip \in Nat /\ MaxFaults \in Nat

\* The key holder and a transaction nobody waits for are not stages.
OperatorsAssumption == "owner" \notin Operators /\ "nobody" \notin Operators /\ MaxOwn \in Nat

ASSUME ToolsConstants == FixtureAssumption /\ OperatorsAssumption

VARIABLES
    part,
    out, exists, cap, reader, printed, faults,                    \* FixtureBundle
    ledgers, pool, own, stages, profileFile, verified, lastOwn    \* Ceremony

fixtureVars == <<out, exists, cap, reader, printed, faults>>
ceremonyVars == <<ledgers, pool, own, stages, profileFile, verified, lastOwn>>
allVars == <<part, vars, fixtureVars, ceremonyVars>>

\* F: FixtureBundle.
F == INSTANCE FixtureBundle

\* C: Ceremony, with names that CliSubmission has not taken.
C == INSTANCE Ceremony WITH
    Runs <- Operators, MaxLedger <- LastLedger, run <- stages, file <- profileFile

ToolsInit == part \in {"cli", "fixtures", "ceremony"} /\ Init /\ F!Init /\ C!Init

ToolsNext ==
    \/ part = "cli" /\ Next /\ UNCHANGED <<fixtureVars, ceremonyVars>>
    \/ part = "fixtures" /\ F!Next /\ UNCHANGED <<vars, ceremonyVars>>
    \/ part = "ceremony" /\ C!Next /\ UNCHANGED <<vars, fixtureVars>>

ToolsSpec == ToolsInit /\ [][ToolsNext /\ UNCHANGED part]_allVars

-----------------------------------------------------------------------------
(* The properties of the parts, as conjunctions of the properties that     *)
(* their modules state and explain; CliTruthful is inherited.              *)

\* FixtureBundle: a published bundle stays intact and only a complete one has a manifest,
\* whatever other captures do; a replay projects the ledgers of the chain in order, stops
\* before its first write when the bundle was damaged, and is served when it was not.
BundlesGenuine ==
    part = "fixtures" =>
        /\ F!TypeOK
        /\ F!PublishedIntact
        /\ F!ManifestCompletes
        /\ F!ReplayedGenuine
        /\ F!NoPartialReplay
        /\ F!ReplayServed

\* Ceremony: what is verified or published is sealed for ever, the tool alone strands no
\* account and sends nothing to another network, and a server's history is judged exactly.
RegistrySealed ==
    part = "ceremony" =>
        /\ C!TypeOK
        /\ C!PublishedSealed
        /\ C!NotStranded
        /\ C!OnlyTestnet
        /\ C!CoversExactly

\* What a tool has told its operator stays so: a verdict 'validated' is not retracted by a
\* later look (CliSubmission), a published profile is not replaced (Ceremony).
ReportsFinal == VerdictNotRetracted /\ C!PublishedOnce
=============================================================================
