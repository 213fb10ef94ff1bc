---------------------------- MODULE ToolsProofs ----------------------------
(***************************************************************************)
(* Proofs about the operators' tools.                                      *)
(*                                                                         *)
(* CliSubmission: for any number of runs of the command, any last ledger   *)
(* and any length of the chain, exit codes, journal lines and printed      *)
(* verdicts are true of the ledger. The inductive invariant has a part per *)
(* run (RunOK) and one about the network (NetOK). A run's part speaks of   *)
(* its own process and its own file, and of the network only through facts *)
(* that stay true once they are (NetworkGrows), so a step of one run, or   *)
(* of the network, leaves the parts of the other runs alone (OthersKeep):  *)
(* what remains is one step per action for the run that takes it.          *)
(*                                                                         *)
(* Ceremony, the instance C of ToolsSystem: for any number of stages at a time, any *)
(* number of ledgers and any transactions of the key holder's own, what is *)
(* published or reported as verified is sealed for ever. A stage's part of *)
(* the invariant (StageOK) speaks of its own record and of the ledgers; a  *)
(* closed ledger keeps it because nothing changes a blackholed account and *)
(* only the key holder undoes what a stage relies on (LedgersOK).          *)
(*                                                                         *)
(* FixtureBundle, the instance F: for any captures, lengths and sizes of a *)
(* chunk, what a replay projects is the chain (FixtureInv: what a capture  *)
(* collects is of the chain, and a replay takes only what its digest       *)
(* vouches for); what is published stays whole (PublicationInv: one        *)
(* capture owns the directory, which holds exactly what it has linked, the *)
(* manifest last); a replay that stops after it has projected a ledger has *)
(* met a new fault (SteadyInv); and without a fault every ledger is found  *)
(* in the chunk where it is looked for (ServedInv).                        *)
(***************************************************************************)
EXTENDS ToolsSystem, FiniteSetTheorems, SequenceTheorems, TLAPS

-----------------------------------------------------------------------------
(* The inductive invariant.                                                 *)

\* How many entries a process at pc has recorded at most.
Entries(pc) ==
    CASE pc \in {"idle", "input", "connect", "checked", "signed"} -> 0
      [] pc \in {"submit", "submitted"} -> 1
      [] pc = "malformed" -> 2
      [] pc = "lost" -> 3
      [] pc \in {"lookup", "current", "delay", "final"} -> 4
      [] OTHER -> 5

\* Before the first append, and after it while the process runs.
Preparing == {"idle", "input", "connect", "checked", "signed"}
Recorded == {"submit", "submitted", "malformed", "lost", "lookup", "current",
             "delay", "final"}
SubmitOnly == {"signed", "submit", "submitted", "malformed", "lost", "final"}

\* The file of an operation against the memory of its process: a subset in
\* order of position, that starts with the recovery identifiers.
LogOK(m, f) ==
    /\ m \in Seq(Stages)
    /\ f \in Seq(Stages)
    /\ Len(f) <= Len(m)
    /\ \A i \in 1..Len(f) : \E j \in i..Len(m) : m[j] = f[i]
    /\ f # <<>> => f[1] = "signed"

\* What an entry, or a verdict, says of the network is so.
EntryTrue(e) ==
    /\ e = "validated" => applied # 0
    /\ e = "expired" => validated + 1 >= LastLedgerSequence
    /\ e = "failed" => malformed

\* The control state of a process against its file.
ControlOK(r) ==
    /\ run[r].pc # "idle" => run[r].opt \in Commands
    /\ run[r].pc \in SubmitOnly => run[r].opt.cmd = "submit"
    /\ Len(run[r].memory) <= Entries(run[r].pc)
    /\ run[r].pc \in Preparing => file[r] = <<>> /\ ~run[r].sent
    /\ run[r].opt.journal /\ (run[r].pc \in Recorded \/ run[r].sent) => file[r] # <<>>
    /\ run[r].pc = "malformed" => malformed

\* The verdict of a process, and what it printed of it.
VerdictOK(r) ==
    /\ run[r].pc = "final" => /\ run[r].status \in {"validated", "pending", "expired"}
                              /\ EntryTrue(run[r].status)
                              /\ run[r].status = "validated" => run[r].txResult = result
    /\ run[r].printed # "none" => run[r].pc = "exited"
    /\ run[r].printed = "validated" => applied # 0

\* The end of a process.
ExitOK(r) ==
    run[r].pc = "exited" =>
        /\ run[r].code = 0 /\ run[r].opt.cmd = "submit" =>
              applied # 0 /\ result = "tesSUCCESS"
        /\ run[r].code = 2 => ~run[r].sent /\ file[r] = <<>>
        /\ run[r].code = 4 =>
              ~(run[r].printed = "validated" /\ run[r].txResult = "tesSUCCESS")
        /\ run[r].opt.journal /\ run[r].printed # "none" =>
              Last(file[r]) = Last(run[r].memory)

RunOK(r) ==
    /\ run[r] \in RunStates
    /\ LogOK(run[r].memory, file[r])
    /\ \A i \in 1..Len(file[r]) : EntryTrue(file[r][i])
    /\ ControlOK(r)
    /\ VerdictOK(r)
    /\ ExitOK(r)

NetOK ==
    /\ validated \in 1..MaxLedger
    /\ applied \in 0..MaxLedger
    /\ result \in Results
    /\ relayed \in BOOLEAN
    /\ malformed \in BOOLEAN
    /\ malformed => ~relayed

CliInv ==
    /\ run \in [Runs -> RunStates]
    /\ file \in [Runs -> Seq(Stages)]
    /\ NetOK
    /\ \A r \in Runs : RunOK(r)

-----------------------------------------------------------------------------
(* The network only grows, and journals only get longer.                    *)

NetworkGrows ==
    /\ validated' \in Nat /\ validated' >= validated
    /\ applied # 0 => applied' = applied
    /\ result' = result
    /\ malformed' = malformed

\* A run that neither moves nor writes keeps its part of the invariant,
\* whatever the others and the network do.
LEMMA Kept ==
    ASSUME NetOK, NetworkGrows, NEW s \in Runs, RunOK(s),
           run'[s] = run[s], file'[s] = file[s]
    PROVE  RunOK(s)'
<1>1. validated \in Nat /\ applied \in Nat /\ validated + 1 \in Nat
  BY CliAssumption DEF NetOK
<1>2. /\ (validated + 1 >= LastLedgerSequence => validated' + 1 >= LastLedgerSequence)
      /\ (applied # 0 => applied' # 0)
  <2>1. LastLedgerSequence \in Nat /\ validated' \in Nat /\ validated' >= validated
    BY CliAssumption DEF NetworkGrows
  <2>2. applied # 0 => applied' # 0
    BY DEF NetworkGrows
  <2>3. validated + 1 >= LastLedgerSequence => validated' + 1 >= LastLedgerSequence
    <3>1. \A w \in Nat : w >= validated /\ validated + 1 >= LastLedgerSequence
                           => w + 1 >= LastLedgerSequence
      BY <1>1, <2>1
    <3> QED
      BY <2>1, <3>1
  <2> QED
    BY <2>2, <2>3
<1>3. \A i \in 1..Len(file[s]) : EntryTrue(file[s][i])'
  BY <1>2 DEF RunOK, EntryTrue, NetworkGrows
<1>4. VerdictOK(s)'
  BY <1>2 DEF RunOK, VerdictOK, EntryTrue, NetworkGrows
<1>5. ExitOK(s)'
  BY <1>2 DEF RunOK, ExitOK, NetworkGrows
<1>6. ControlOK(s)'
  BY DEF RunOK, ControlOK, NetworkGrows
<1> QED
  BY <1>3, <1>4, <1>5, <1>6 DEF RunOK

\* An entry appended to the memory alone, and to both.
LEMMA LogMemory ==
    ASSUME NEW m, NEW f, LogOK(m, f), NEW e \in Stages
    PROVE  /\ LogOK(Append(m, e), f)
           /\ Len(Append(m, e)) = Len(m) + 1
<1>1. /\ Append(m, e) \in Seq(Stages)
      /\ Len(Append(m, e)) = Len(m) + 1
      /\ \A j \in 1..Len(m) : Append(m, e)[j] = m[j]
  BY AppendProperties DEF LogOK
<1>2. Len(m) \in Nat /\ Len(f) \in Nat
  BY LenProperties DEF LogOK
<1>3. ASSUME NEW i \in 1..Len(f)
      PROVE  \E j \in i..Len(Append(m, e)) : Append(m, e)[j] = f[i]
  <2>1. PICK j \in i..Len(m) : m[j] = f[i]
    BY DEF LogOK
  <2>2. j \in i..Len(Append(m, e)) /\ Append(m, e)[j] = f[i]
    BY <1>1, <1>2, <2>1
  <2> QED
    BY <2>2
<1>4. Len(f) <= Len(Append(m, e))
  BY <1>1, <1>2 DEF LogOK
<1> QED
  BY <1>1, <1>3, <1>4 DEF LogOK

LEMMA LogBoth ==
    ASSUME NEW m, NEW f, LogOK(m, f), NEW e \in Stages, f = <<>> => e = "signed"
    PROVE  /\ LogOK(Append(m, e), Append(f, e))
           /\ Len(Append(m, e)) = Len(m) + 1
           /\ Append(f, e) # <<>>
           /\ Last(Append(f, e)) = e
           /\ Last(Append(m, e)) = e
           /\ Len(Append(f, e)) = Len(f) + 1
           /\ \A i \in 1..Len(f) : Append(f, e)[i] = f[i]
           /\ Append(f, e)[Len(f) + 1] = e
<1>1. /\ Append(m, e) \in Seq(Stages)
      /\ Len(Append(m, e)) = Len(m) + 1
      /\ \A j \in 1..Len(m) : Append(m, e)[j] = m[j]
      /\ Append(m, e)[Len(m) + 1] = e
  BY AppendProperties DEF LogOK
<1>2. /\ Append(f, e) \in Seq(Stages)
      /\ Append(f, e) # <<>>
      /\ Len(Append(f, e)) = Len(f) + 1
      /\ \A j \in 1..Len(f) : Append(f, e)[j] = f[j]
      /\ Append(f, e)[Len(f) + 1] = e
  BY AppendProperties DEF LogOK
<1>3. Len(m) \in Nat /\ Len(f) \in Nat
  BY LenProperties DEF LogOK
<1>4. ASSUME NEW i \in 1..Len(Append(f, e))
      PROVE  \E j \in i..Len(Append(m, e)) : Append(m, e)[j] = Append(f, e)[i]
  <2>1. CASE i = Len(f) + 1
    <3>1. Len(m) + 1 \in i..Len(Append(m, e))
      BY <1>1, <1>3, <2>1 DEF LogOK
    <3> QED
      BY <1>1, <1>2, <2>1, <3>1
  <2>2. CASE i # Len(f) + 1
    <3>1. i \in 1..Len(f)
      BY <1>2, <1>3, <2>2
    <3>2. PICK j \in i..Len(m) : m[j] = f[i]
      BY <3>1 DEF LogOK
    <3>3. j \in i..Len(Append(m, e)) /\ Append(m, e)[j] = Append(f, e)[i]
      BY <1>1, <1>2, <1>3, <3>1, <3>2
    <3> QED
      BY <3>3
  <2> QED
    BY <2>1, <2>2
<1>5. Append(f, e)[1] = "signed"
  <2>1. CASE f = <<>>
    BY <1>2, <2>1
  <2>2. CASE f # <<>>
    <3>1. 1 \in 1..Len(f)
      BY <1>3, <2>2, EmptySeq DEF LogOK
    <3> QED
      BY <1>2, <2>2, <3>1 DEF LogOK
  <2> QED
    BY <2>1, <2>2
<1>6. Len(Append(f, e)) <= Len(Append(m, e))
  BY <1>1, <1>2, <1>3 DEF LogOK
<1>7. LogOK(Append(m, e), Append(f, e))
  BY <1>1, <1>2, <1>4, <1>5, <1>6 DEF LogOK
<1>8. Last(Append(f, e)) = e /\ Last(Append(m, e)) = e
  BY <1>1, <1>2 DEF Last
<1> QED
  BY <1>1, <1>2, <1>7, <1>8

-----------------------------------------------------------------------------
(* The run that takes a step.                                               *)

\* The network is the same.
LEMMA NetworkSame ==
    ASSUME NetOK, UNCHANGED network
    PROVE  NetworkGrows /\ NetOK'
<1>1. validated \in Nat /\ validated' = validated
  BY DEF NetOK, network
<1>2. NetOK'
  BY DEF NetOK, network
<1>3. validated' >= validated /\ validated' \in Nat
  BY <1>1
<1> QED
  BY <1>2, <1>3 DEF NetworkGrows, network

\* A step that records nothing: only control, verdict and exit are at stake.
LEMMA MoveKeeps ==
    ASSUME NetOK, NetworkGrows, NEW r \in Runs, RunOK(r), run'[r] \in RunStates,
           run'[r].memory = run[r].memory, file'[r] = file[r],
           ControlOK(r)', VerdictOK(r)', ExitOK(r)'
    PROVE  RunOK(r)'
<1>1. validated \in Nat
  BY CliAssumption DEF NetOK
<1>2. validated + 1 >= LastLedgerSequence => validated' + 1 >= LastLedgerSequence
  <2>1. LastLedgerSequence \in Nat /\ validated' \in Nat /\ validated' >= validated
    BY CliAssumption DEF NetworkGrows
  <2>2. \A w \in Nat : w >= validated /\ validated + 1 >= LastLedgerSequence
                         => w + 1 >= LastLedgerSequence
    BY <1>1, <2>1
  <2> QED
    BY <2>1, <2>2
<1>3. \A i \in 1..Len(file[r]) : EntryTrue(file[r][i])'
  BY <1>2 DEF RunOK, EntryTrue, NetworkGrows
<1> QED
  BY <1>3 DEF RunOK

\* A step that records an entry in the memory, or in the memory and the file.
LEMMA RecordKeeps ==
    ASSUME NetOK, UNCHANGED network, NEW r \in Runs, RunOK(r), NEW e \in Stages,
           run'[r] \in RunStates, run'[r].memory = Append(run[r].memory, e),
           \/ file'[r] = file[r]
           \/ /\ file'[r] = Append(file[r], e)
              /\ EntryTrue(e)
              /\ file[r] = <<>> => e = "signed",
           ControlOK(r)', VerdictOK(r)', ExitOK(r)'
    PROVE  RunOK(r)'
<1>1. LogOK(run[r].memory, file[r]) /\ \A i \in 1..Len(file[r]) : EntryTrue(file[r][i])
  BY DEF RunOK
<1>2. CASE file'[r] = file[r]
  <2>1. LogOK(run[r].memory, file[r])'
    BY <1>1, <1>2, LogMemory
  <2>2. \A i \in 1..Len(file[r])' : EntryTrue(file[r][i])'
    BY <1>1, <1>2 DEF EntryTrue, network
  <2> QED
    BY <2>1, <2>2 DEF RunOK
<1>3. CASE /\ file'[r] = Append(file[r], e)
           /\ EntryTrue(e)
           /\ file[r] = <<>> => e = "signed"
  <2>1. /\ LogOK(run[r].memory, file[r])'
        /\ Len(Append(file[r], e)) = Len(file[r]) + 1
        /\ \A i \in 1..Len(file[r]) : Append(file[r], e)[i] = file[r][i]
        /\ Append(file[r], e)[Len(file[r]) + 1] = e
    BY <1>1, <1>3, LogBoth
  <2>2. ASSUME NEW i \in 1..Len(Append(file[r], e))
        PROVE  EntryTrue(Append(file[r], e)[i])
    <3>1. Len(file[r]) \in Nat
      BY <1>1, LenProperties DEF LogOK
    <3>2. i = Len(file[r]) + 1 \/ i \in 1..Len(file[r])
      BY <2>1, <3>1
    <3> QED
      BY <1>1, <1>3, <2>1, <3>2
  <2>3. \A i \in 1..Len(file[r])' : EntryTrue(file[r][i])'
    BY <1>3, <2>2 DEF EntryTrue, network
  <2> QED
    BY <2>1, <2>3 DEF RunOK
<1> QED
  BY <1>2, <1>3
\* The fields of a run, and how many entries it has recorded.
LEMMA Fields ==
    ASSUME CliInv, NEW r \in Runs
    PROVE  /\ run[r] \in RunStates /\ run[r].pc \in Pcs
           /\ run[r].opt \in Commands \cup {NoCommand}
           /\ run[r].opt.journal \in BOOLEAN /\ run[r].sent \in BOOLEAN
           /\ run[r].memory \in Seq(Stages) /\ Len(run[r].memory) \in Nat
           /\ RunOK(r) /\ ControlOK(r) /\ VerdictOK(r) /\ ExitOK(r)
<1>1. run[r] \in RunStates /\ RunOK(r)
  BY DEF CliInv
<1>2. /\ run[r].pc \in Pcs /\ run[r].opt \in Commands \cup {NoCommand}
      /\ run[r].sent \in BOOLEAN /\ run[r].memory \in Seq(Stages)
  BY <1>1 DEF RunStates
<1>3. run[r].opt.journal \in BOOLEAN
  <2>1. \A o \in Commands : o.journal = TRUE \/ o.journal = FALSE
    BY DEF Commands
  <2>2. NoCommand.journal = FALSE
    BY DEF NoCommand
  <2> QED
    BY <1>2, <2>1, <2>2
<1> QED
  BY <1>1, <1>2, <1>3, LenProperties DEF RunOK

\* A run goes on to another await.
LEMMA GotoKeeps ==
    ASSUME CliInv, NEW r \in Runs, NEW p \in Pcs \ {"idle", "exited", "final", "malformed"},
           Goto(r, p), UNCHANGED <<file, network>>,
           run[r].pc \notin {"idle", "exited"},
           p \in SubmitOnly => run[r].opt.cmd = "submit",
           Entries(run[r].pc) <= Entries(p),
           p \in Preparing => run[r].pc \in Preparing,
           p \in Recorded => run[r].pc \in Recorded \/ ~run[r].opt.journal
    PROVE  RunOK(r)'
<1>1. run'[r] = [run[r] EXCEPT !.pc = p] /\ file'[r] = file[r] /\ UNCHANGED network
  BY DEF CliInv, Goto
<1>2. /\ run'[r] \in RunStates /\ run'[r].pc = p /\ run'[r].opt = run[r].opt
      /\ run'[r].memory = run[r].memory /\ run'[r].sent = run[r].sent
      /\ run'[r].printed = run[r].printed
  BY <1>1, Fields DEF RunStates
<1>3. Entries(run[r].pc) \in Nat /\ Entries(p) \in Nat
  BY DEF Entries
<1>4. Len(run[r].memory) <= Entries(p)
  BY <1>3, Fields DEF ControlOK
<1>5. ControlOK(r)'
  BY <1>1, <1>2, <1>4, Fields DEF ControlOK
<1>6. run[r].printed = "none"
  BY Fields DEF VerdictOK
<1>7. VerdictOK(r)'
  BY <1>2, <1>6 DEF VerdictOK
<1>8. ExitOK(r)'
  BY <1>2 DEF ExitOK
<1> QED
  BY <1>1, <1>2, <1>5, <1>7, <1>8, Fields, NetworkSame, MoveKeeps DEF CliInv

\* A run ends without a verdict: on a wrong argument, before it has recorded
\* anything, or on a request or an append that failed.
LEMMA ExitKeeps ==
    ASSUME CliInv, NEW r \in Runs, NEW c \in {2, 3},
           Exit(r, c), UNCHANGED <<file, network>>,
           run[r].pc \notin {"idle", "exited"},
           c = 2 => run[r].pc \in Preparing
    PROVE  RunOK(r)'
<1>1. run'[r] = [run[r] EXCEPT !.pc = "exited", !.code = c]
      /\ file'[r] = file[r] /\ UNCHANGED network
  BY DEF CliInv, Exit
<1>2. /\ run'[r] \in RunStates /\ run'[r].pc = "exited" /\ run'[r].opt = run[r].opt
      /\ run'[r].memory = run[r].memory /\ run'[r].sent = run[r].sent
      /\ run'[r].printed = run[r].printed /\ run'[r].code = c
  BY ZenonT(40), <1>1, Fields DEF RunStates, Pcs, Codes
<1>3. Entries(run[r].pc) \in Nat /\ Entries(run[r].pc) <= 5 /\ Entries("exited") = 5
  BY DEF Entries
<1>4. Len(run[r].memory) <= Entries("exited")
  BY <1>3, Fields DEF ControlOK
<1>5. ControlOK(r)'
  BY <1>1, <1>2, <1>4, Fields DEF ControlOK, Preparing, Recorded, SubmitOnly
<1>6. run[r].printed = "none"
  BY Fields DEF VerdictOK
<1>7. VerdictOK(r)'
  BY <1>2, <1>6 DEF VerdictOK
<1>8. ExitOK(r)'
  BY <1>1, <1>2, <1>6, Fields DEF ExitOK, ControlOK
<1> QED
  BY <1>1, <1>2, <1>5, <1>7, <1>8, Fields, NetworkSame, MoveKeeps DEF CliInv

\* A step of a run that records nothing keeps its part.
LEMMA MoveSteps ==
    ASSUME CliInv, NEW r \in Runs,
           \/ \E c \in Commands : Start(r, c)
           \/ ReadInput(r) \/ Connect(r) \/ ConnectFails(r) \/ CheckArguments(r)
           \/ Disconnected(r) \/ Delay(r) \/ RequestFails(r) \/ Deadline(r) \/ Kill(r)
    PROVE  RunOK(r)'
<1>1. CASE \E c \in Commands : Start(r, c)
  <2>1. PICK c \in Commands : Start(r, c)
    BY <1>1
  <2>2. run'[r] = [run[r] EXCEPT !.pc = "input", !.opt = c]
        /\ run[r].pc = "idle" /\ file'[r] = file[r] /\ UNCHANGED network
    BY <2>1 DEF CliInv, Start
  <2>3. /\ run'[r] \in RunStates /\ run'[r].pc = "input" /\ run'[r].opt = c
        /\ run'[r].memory = run[r].memory /\ run'[r].sent = run[r].sent
        /\ run'[r].printed = run[r].printed
    BY <2>2, Fields DEF RunStates, Pcs
  <2>4. ControlOK(r)'
    BY <2>2, <2>3, Fields DEF ControlOK, Entries, Preparing, Recorded, SubmitOnly
  <2>5. VerdictOK(r)' /\ ExitOK(r)'
    BY <2>2, <2>3, Fields DEF VerdictOK, ExitOK
  <2> QED
    BY <2>2, <2>3, <2>4, <2>5, Fields, NetworkSame, MoveKeeps DEF CliInv
<1>2. CASE ReadInput(r)
  <2>1. run[r].pc = "input" /\ UNCHANGED <<file, network>>
        /\ (Exit(r, 2) \/ Goto(r, "connect"))
    BY <1>2 DEF ReadInput
  <2>2. Entries("input") <= Entries("connect")
    BY DEF Entries
  <2> QED
    BY <2>1, <2>2, ExitKeeps, GotoKeeps DEF Preparing, Recorded, SubmitOnly, Pcs
<1>3. CASE Connect(r)
  <2>1. Entries("connect") <= Entries("checked")
    BY DEF Entries
  <2> QED
    BY <1>3, <2>1, GotoKeeps DEF Connect, Preparing, Recorded, SubmitOnly, Pcs
<1>4. CASE ConnectFails(r)
  BY <1>4, ExitKeeps DEF ConnectFails, ExitService
<1>5. CASE CheckArguments(r)
  <2>1. /\ run[r].pc = "checked" /\ UNCHANGED <<file, network>>
        /\ \/ Exit(r, 2)
           \/ Goto(r, "signed") /\ run[r].opt.cmd = "submit"
           \/ Goto(r, "lookup") /\ run[r].opt.cmd # "submit"
    BY <1>5 DEF CheckArguments
  <2>2. Entries("checked") <= Entries("signed") /\ Entries("checked") <= Entries("lookup")
    BY DEF Entries
  <2>3. run[r].opt.cmd # "submit" => ~run[r].opt.journal
    BY <2>1, Fields DEF ControlOK, Commands
  <2> QED
    BY <2>1, <2>2, <2>3, ExitKeeps, GotoKeeps DEF Preparing, Recorded, SubmitOnly, Pcs
<1>6. CASE Disconnected(r)
  BY <1>6, ExitKeeps DEF Disconnected, ExitService
<1>7. CASE Delay(r)
  <2>1. Entries("delay") <= Entries("lookup")
    BY DEF Entries
  <2> QED
    BY <1>7, <2>1, GotoKeeps DEF Delay, Preparing, Recorded, SubmitOnly, Pcs
<1>8. CASE RequestFails(r)
  BY <1>8, ExitKeeps DEF RequestFails, ExitService
<1>9. CASE Deadline(r)
  <2>1. run'[r] = [run[r] EXCEPT !.late = TRUE]
        /\ run[r].pc \in {"lookup", "current", "delay"}
        /\ file'[r] = file[r] /\ UNCHANGED network
    BY <1>9 DEF CliInv, Deadline
  <2>2. /\ run'[r] \in RunStates /\ run'[r].pc = run[r].pc /\ run'[r].opt = run[r].opt
        /\ run'[r].memory = run[r].memory /\ run'[r].sent = run[r].sent
        /\ run'[r].printed = run[r].printed
    BY <2>1, Fields DEF RunStates
  <2>3. ControlOK(r)'
    BY <2>1, <2>2, Fields DEF ControlOK, network
  <2>4. VerdictOK(r)' /\ ExitOK(r)'
    BY <2>1, <2>2, Fields DEF VerdictOK, ExitOK
  <2> QED
    BY <2>1, <2>2, <2>3, <2>4, Fields, NetworkSame, MoveKeeps DEF CliInv
<1>10. CASE Kill(r)
  <2>1. Entries(run[r].pc) <= Entries("killed")
    BY SMTT(30) DEF Entries
  <2> QED
    BY <1>10, <2>1, GotoKeeps DEF Kill, Preparing, Recorded, SubmitOnly, Pcs
<1> QED
  BY <1>1, <1>2, <1>3, <1>4, <1>5, <1>6, <1>7, <1>8, <1>9, <1>10
\* A run that appends an entry and goes on, whether the file took it or not.
LEMMA AppendKeeps ==
    ASSUME CliInv, NEW r \in Runs, NEW e \in {"signed", "submitted", "failed", "pending"},
           NEW p \in {"submit", "malformed", "lost", "lookup"},
           \/ Appended(r, e, p) /\ e # "failed"
           \/ AppendRejects(r, e, p) /\ run[r].pc # "signed",
           run[r].pc \in {"signed", "submitted", "malformed", "lost"},
           run[r].pc = "signed" => e = "signed",
           Entries(run[r].pc) + 1 <= Entries(p),
           p = "malformed" => malformed
    PROVE  RunOK(r)'
<1>1. /\ run'[r] = [run[r] EXCEPT !.pc = p, !.memory = Append(@, e)]
      /\ UNCHANGED network
      /\ \/ run[r].opt.journal /\ file'[r] = Append(file[r], e) /\ e # "failed"
         \/ ~run[r].opt.journal /\ file'[r] = file[r]
         \/ run[r].pc # "signed" /\ file'[r] = file[r]
  BY DEF CliInv, Appended, AppendRejects
<1>2. LogOK(run[r].memory, file[r]) /\ e \in Stages
  BY Fields DEF RunOK, Stages
<1>3. /\ Append(run[r].memory, e) \in Seq(Stages)
      /\ Len(Append(run[r].memory, e)) = Len(run[r].memory) + 1
  BY <1>2, LogMemory DEF LogOK
<1>4. /\ run'[r] \in RunStates /\ run'[r].pc = p /\ run'[r].opt = run[r].opt
      /\ run'[r].memory = Append(run[r].memory, e) /\ run'[r].sent = run[r].sent
      /\ run'[r].printed = run[r].printed
  BY ZenonT(40), <1>1, <1>3, Fields DEF RunStates, Pcs
<1>5. run[r].opt.journal /\ run[r].pc # "signed" => file[r] # <<>>
  BY Fields DEF ControlOK, Recorded
<1>6. file'[r] = Append(file[r], e) => file'[r] # <<>>
  BY <1>2, AppendProperties DEF LogOK
<1>7. Len(run'[r].memory) <= Entries(p)
  <2>1. Entries(run[r].pc) \in Nat /\ Entries(p) \in Nat
    BY DEF Entries
  <2>2. Len(run[r].memory) <= Entries(run[r].pc) /\ Len(run[r].memory) \in Nat
    BY Fields DEF ControlOK
  <2>3. Len(run[r].memory) + 1 <= Entries(p)
    BY <2>1, <2>2
  <2> QED
    BY <1>3, <1>4, <2>3
<1>8. run[r].opt \in Commands /\ run[r].opt.cmd = "submit" /\ run[r].printed = "none"
  BY Fields DEF ControlOK, VerdictOK, SubmitOnly
<1>9. ControlOK(r)'
  BY <1>1, <1>4, <1>5, <1>6, <1>7, <1>8 DEF ControlOK, Preparing, network
<1>10. VerdictOK(r)' /\ ExitOK(r)'
  BY <1>4, <1>8 DEF VerdictOK, ExitOK
<1>11. EntryTrue(e) \/ e = "failed"
  BY DEF EntryTrue
<1>12. \/ file'[r] = file[r]
       \/ /\ file'[r] = Append(file[r], e)
          /\ EntryTrue(e)
          /\ file[r] = <<>> => e = "signed"
  BY <1>1, <1>5, <1>11
<1> QED
  BY <1>1, <1>2, <1>4, <1>9, <1>10, <1>12, Fields, RecordKeeps DEF CliInv

\* The appends after which the operation goes on.
LEMMA AppendSteps ==
    ASSUME CliInv, NEW r \in Runs, AppendSigned(r) \/ AppendSubmitted(r) \/ AppendLost(r)
    PROVE  RunOK(r)'
<1>1. CASE AppendSigned(r)
  <2>1. run[r].pc = "signed" /\ (Appended(r, "signed", "submit") \/ ExitService(r))
    BY <1>1 DEF AppendSigned
  <2>2. Entries("signed") + 1 <= Entries("submit")
    BY DEF Entries
  <2>3. CASE Appended(r, "signed", "submit")
    BY <2>1, <2>2, <2>3, AppendKeeps
  <2> QED
    BY <2>1, <2>3, ExitKeeps DEF ExitService
<1>2. CASE AppendSubmitted(r)
  <2>1. /\ run[r].pc = "submitted"
        /\ \/ Appended(r, "submitted", "malformed") /\ malformed
           \/ Appended(r, "submitted", "lookup")
           \/ AppendRejects(r, "submitted", "lost")
    BY <1>2 DEF AppendSubmitted
  <2>2. /\ Entries("submitted") + 1 <= Entries("malformed")
        /\ Entries("submitted") + 1 <= Entries("lookup")
        /\ Entries("submitted") + 1 <= Entries("lost")
    BY DEF Entries
  <2> QED
    BY <2>1, <2>2, AppendKeeps
<1>3. CASE AppendLost(r)
  <2>1. run[r].pc = "lost" /\ (Appended(r, "pending", "lookup") \/ ExitService(r))
    BY <1>3 DEF AppendLost
  <2>2. Entries("lost") + 1 <= Entries("lookup")
    BY DEF Entries
  <2>3. CASE Appended(r, "pending", "lookup")
    BY SMTT(30), <2>1, <2>2, <2>3, AppendKeeps
  <2> QED
    BY <2>1, <2>3, ExitKeeps DEF ExitService
<1> QED
  BY <1>1, <1>2, <1>3

\* The append that ends an operation: the entry is the verdict, and the run
\* prints it once the file has taken it.
LEMMA LastEntryKeeps ==
    ASSUME CliInv, NEW r \in Runs, NEW e \in Stages, NEW c \in {0, 4}, NEW v \in Verdicts,
           run'[r] = [run[r] EXCEPT !.memory = Append(@, e), !.pc = "exited",
                                    !.code = c, !.printed = v],
           \/ run[r].opt.journal /\ file'[r] = Append(file[r], e)
           \/ ~run[r].opt.journal /\ file'[r] = file[r],
           UNCHANGED network,
           run[r].pc \in {"malformed", "final"},
           EntryTrue(e),
           v = "validated" => applied # 0,
           c = 0 => applied # 0 /\ result = "tesSUCCESS",
           c = 4 => ~(v = "validated" /\ run[r].txResult = "tesSUCCESS")
    PROVE  RunOK(r)'
<1>1. LogOK(run[r].memory, file[r])
  BY Fields DEF RunOK
<1>2. file[r] \in Seq(Stages)
  BY <1>1 DEF LogOK
<1>3. /\ Append(run[r].memory, e) \in Seq(Stages)
      /\ Len(Append(run[r].memory, e)) = Len(run[r].memory) + 1
  BY <1>1, LogMemory DEF LogOK
<1>4. /\ run'[r] \in RunStates /\ run'[r].pc = "exited" /\ run'[r].opt = run[r].opt
      /\ run'[r].memory = Append(run[r].memory, e) /\ run'[r].sent = run[r].sent
      /\ run'[r].printed = v /\ run'[r].code = c /\ run'[r].txResult = run[r].txResult
  BY ZenonT(40), <1>3, Fields DEF RunStates, Pcs, Codes
<1>5. run[r].opt.journal => file[r] # <<>>
  BY Fields DEF ControlOK, Recorded
<1>6. file'[r] = Append(file[r], e) => file'[r] # <<>>
  BY <1>2, AppendProperties
<1>7. Len(run'[r].memory) <= Entries("exited")
  <2>1. Entries(run[r].pc) \in Nat /\ Entries(run[r].pc) <= 4 /\ Entries("exited") = 5
    BY DEF Entries
  <2>2. Len(run[r].memory) <= Entries(run[r].pc) /\ Len(run[r].memory) \in Nat
    BY Fields DEF ControlOK
  <2>3. Len(run[r].memory) + 1 <= Entries("exited")
    BY <2>1, <2>2
  <2> QED
    BY <1>3, <1>4, <2>3
<1>8. run[r].opt \in Commands /\ run[r].opt.cmd = "submit"
  BY Fields DEF ControlOK, SubmitOnly
<1>9. ControlOK(r)'
  BY <1>4, <1>5, <1>6, <1>7, <1>8 DEF ControlOK, Preparing, Recorded, SubmitOnly, network
<1>10. VerdictOK(r)'
  BY <1>4 DEF VerdictOK, network
<1>11. run[r].opt.journal => Last(file'[r]) = Last(run'[r].memory)
  <2>1. run[r].opt.journal =>
            Last(Append(file[r], e)) = e /\ Last(Append(run[r].memory, e)) = e
    BY <1>1, <1>5, LogBoth
  <2>2. run[r].opt.journal => file'[r] = Append(file[r], e)
    OBVIOUS
  <2>3. run'[r].memory = Append(run[r].memory, e)
    BY <1>4
  <2> QED
    BY ONLY <2>1, <2>2, <2>3
<1>12. ExitOK(r)'
  BY <1>4, <1>11 DEF ExitOK, network
<1>13. \/ file'[r] = file[r]
       \/ /\ file'[r] = Append(file[r], e)
          /\ EntryTrue(e)
          /\ file[r] = <<>> => e = "signed"
  BY <1>5
<1> QED
  BY <1>4, <1>9, <1>10, <1>12, <1>13, Fields, RecordKeeps DEF CliInv

LEMMA LastSteps ==
    ASSUME CliInv, NEW r \in Runs, AppendFailed(r) \/ AppendFinal(r)
    PROVE  RunOK(r)'
<1>1. CASE AppendFailed(r)
  <2>1. run[r].pc = "malformed" /\ malformed
    BY <1>1, Fields DEF AppendFailed, ControlOK
  <2>2. CASE AppendRejects(r, "failed", "lost")
    <3>1. Entries("malformed") + 1 <= Entries("lost")
      BY DEF Entries
    <3> QED
      BY <2>1, <2>2, <3>1, AppendKeeps
  <2>3. CASE ~AppendRejects(r, "failed", "lost")
    <3>1. /\ run'[r] = [run[r] EXCEPT !.memory = Append(@, "failed"), !.pc = "exited",
                                      !.code = 4, !.printed = "not_found"]
          /\ \/ run[r].opt.journal /\ file'[r] = Append(file[r], "failed")
             \/ ~run[r].opt.journal /\ file'[r] = file[r]
          /\ UNCHANGED network
      BY <1>1, <2>3 DEF CliInv, AppendFailed
    <3>2. EntryTrue("failed")
      BY <2>1 DEF EntryTrue
    <3>3. "failed" \in Stages /\ "not_found" \in Verdicts
      BY DEF Stages, Verdicts
    <3>4. 4 \in {0, 4} /\ 4 # 0 /\ "not_found" # "validated"
      OBVIOUS
    <3> QED
      BY <2>1, <3>1, <3>2, <3>3, <3>4, LastEntryKeeps, Zenon
  <2> QED
    BY SMTT(30), <2>2, <2>3
<1>2. CASE AppendFinal(r)
  <2>1. /\ run[r].pc = "final"
        /\ run[r].status \in {"validated", "pending", "expired"}
        /\ EntryTrue(run[r].status)
        /\ run[r].status = "validated" => run[r].txResult = result
    BY <1>2, Fields DEF AppendFinal, VerdictOK
  <2>2. CASE ExitService(r)
    BY SMTT(30), <2>1, <2>2, ExitKeeps DEF ExitService
  <2>3. CASE ~ExitService(r)
    <3>1. /\ run'[r] = [run[r] EXCEPT !.memory = Append(@, run[r].status), !.pc = "exited",
                                      !.code = SubmitCode(r), !.printed = run[r].status]
          /\ \/ run[r].opt.journal /\ file'[r] = Append(file[r], run[r].status)
             \/ ~run[r].opt.journal /\ file'[r] = file[r]
          /\ UNCHANGED network
      BY <1>2, <2>3 DEF CliInv, AppendFinal
    <3>2. run[r].status \in Stages /\ run[r].status \in Verdicts
      BY <2>1 DEF Stages, Verdicts
    <3>3. /\ SubmitCode(r) \in {0, 4}
          /\ SubmitCode(r) = 0 => applied # 0 /\ result = "tesSUCCESS"
          /\ SubmitCode(r) = 4 =>
                ~(run[r].status = "validated" /\ run[r].txResult = "tesSUCCESS")
      BY <2>1 DEF SubmitCode, EntryTrue
    <3>4. run[r].status = "validated" => applied # 0
      BY <2>1 DEF EntryTrue
    <3>5. PICK e \in Stages : e = run[r].status
      BY <3>2
    <3>6. PICK c \in {0, 4} : c = SubmitCode(r)
      BY <3>3
    <3>7. PICK v \in Verdicts : v = run[r].status
      BY <3>2
    <3>8. /\ run'[r] = [run[r] EXCEPT !.memory = Append(@, e), !.pc = "exited",
                                      !.code = c, !.printed = v]
          /\ \/ run[r].opt.journal /\ file'[r] = Append(file[r], e)
             \/ ~run[r].opt.journal /\ file'[r] = file[r]
      BY <3>1, <3>5, <3>6, <3>7
    <3>9. EntryTrue(e)
      BY <2>1, <3>5
    <3> QED
      BY ZenonT(40), <2>1, <3>1, <3>3, <3>4, <3>6, <3>7, <3>8, <3>9, LastEntryKeeps
  <2> QED
    BY SMTT(30), <2>2, <2>3
<1> QED
  BY <1>1, <1>2
\* The request itself: it may make the network hold the blob, but not one
\* that rippled calls malformed.
LEMMA SubmitStep ==
    ASSUME CliInv, NEW r \in Runs, Submit(r)
    PROVE  RunOK(r)' /\ NetOK' /\ NetworkGrows
<1>1. PICK engine \in Engines, arrives \in BOOLEAN, answered \in BOOLEAN :
          /\ answered => arrives
          /\ relayed' = (relayed \/ (arrives /\ Relays(r, engine)))
          /\ run' = [run EXCEPT ![r].pc = IF answered THEN "submitted" ELSE "lost",
                                ![r].sent = TRUE]
  BY DEF Submit
<1>2. run[r].pc = "submit" /\ UNCHANGED <<file, validated, applied, result, malformed>>
  BY DEF Submit
<1>3. NetOK'
  <2>1. malformed => ~Relays(r, engine)
    BY <1>1 DEF Engines, Relays
  <2>2. relayed' \in BOOLEAN /\ (malformed => ~relayed')
    BY <1>1, <2>1 DEF CliInv, NetOK
  <2> QED
    BY <1>2, <2>2 DEF CliInv, NetOK
<1>4. NetworkGrows
  <2>1. validated \in Nat /\ validated >= validated
    BY CliAssumption DEF CliInv, NetOK
  <2> QED
    BY <1>2, <2>1 DEF NetworkGrows
<1>5. PICK p \in {"submitted", "lost"} : run'[r] = [run[r] EXCEPT !.pc = p, !.sent = TRUE]
  BY <1>1 DEF CliInv
<1>6. /\ run'[r] \in RunStates /\ run'[r].pc = p /\ run'[r].opt = run[r].opt
      /\ run'[r].memory = run[r].memory /\ run'[r].printed = run[r].printed
  BY ZenonT(40), <1>5, Fields DEF RunStates, Pcs
<1>7. run[r].printed = "none" /\ run[r].opt \in Commands /\ run[r].opt.cmd = "submit"
      /\ (run[r].opt.journal => file[r] # <<>>)
  BY <1>2, Fields DEF VerdictOK, ControlOK, SubmitOnly, Recorded
<1>8. Len(run[r].memory) <= Entries(p)
  BY <1>2, Fields DEF ControlOK, Entries
<1>9. ControlOK(r)'
  BY <1>2, <1>6, <1>7, <1>8 DEF ControlOK, Preparing
<1>10. VerdictOK(r)' /\ ExitOK(r)'
  BY <1>6, <1>7 DEF VerdictOK, ExitOK
<1>11. file'[r] = file[r]
  BY <1>2
<1> QED
  BY <1>3, <1>4, <1>6, <1>9, <1>10, <1>11, Fields, MoveKeeps DEF CliInv

\* The status of a look, printed or passed on.
LEMMA AnswerKeeps ==
    ASSUME CliInv, NEW r \in Runs, UNCHANGED <<file, network>>,
           run[r].pc \in {"lookup", "current"},
           NEW s \in {"validated", "pending", "expired", "not_found"},
           NEW t \in Results \cup {"none"}, Answer(r, s, t),
           s = "not_found" => run[r].opt.cmd = "status",
           EntryTrue(s),
           s = "validated" => t = result
    PROVE  RunOK(r)'
<1>1. UNCHANGED network /\ file'[r] = file[r] /\ s \in Verdicts
  BY DEF Verdicts
<1>2. run[r].opt \in Commands /\ run[r].printed = "none"
  BY Fields DEF ControlOK, VerdictOK
<1>3. Entries(run[r].pc) = 4 /\ Entries("exited") = 5 /\ Entries("final") = 4
  BY DEF Entries
<1>4. Len(run[r].memory) <= 4 /\ Len(run[r].memory) <= 5
  BY <1>3, Fields DEF ControlOK
<1>5. CASE run[r].opt.cmd = "status"
  <2>1. run'[r] = [run[r] EXCEPT !.pc = "exited", !.code = 0, !.status = s,
                                 !.printed = s, !.txResult = t]
    BY <1>5 DEF CliInv, Answer
  <2>2. /\ run'[r] \in RunStates /\ run'[r].pc = "exited" /\ run'[r].opt = run[r].opt
        /\ run'[r].memory = run[r].memory /\ run'[r].printed = s
        /\ run'[r].sent = run[r].sent /\ run'[r].code = 0
    BY ZenonT(40), <1>1, <2>1, Fields DEF RunStates, Pcs, Codes
  <2>3. run[r].opt.journal = FALSE
    <3>1. \A o \in Commands : o.cmd = "status" => o.journal = FALSE
      BY DEF Commands
    <3> QED
      BY <1>2, <1>5, <3>1
  <2>4. ControlOK(r)'
    BY <1>1, <1>2, <1>3, <1>4, <2>2, <2>3 DEF ControlOK, SubmitOnly, Preparing
  <2>5. VerdictOK(r)'
    BY <1>1, <2>2 DEF VerdictOK, EntryTrue, network
  <2>6. ExitOK(r)'
    BY <1>5, <2>2, <2>3 DEF ExitOK
  <2> QED
    BY <1>1, <2>2, <2>4, <2>5, <2>6, Fields, NetworkSame, MoveKeeps DEF CliInv
<1>6. CASE run[r].opt.cmd # "status"
  <2>1. run'[r] = [run[r] EXCEPT !.pc = "final", !.status = s, !.txResult = t]
    BY <1>6 DEF CliInv, Answer
  <2>2. /\ run'[r] \in RunStates /\ run'[r].pc = "final" /\ run'[r].opt = run[r].opt
        /\ run'[r].memory = run[r].memory /\ run'[r].printed = run[r].printed
        /\ run'[r].sent = run[r].sent /\ run'[r].status = s /\ run'[r].txResult = t
    BY ZenonT(40), <1>1, <2>1, Fields DEF RunStates, Pcs
  <2>3. run[r].opt.cmd = "submit"
    <3>1. \A o \in Commands : o.cmd = "status" \/ o.cmd = "submit"
      BY DEF Commands
    <3> QED
      BY <1>2, <1>6, <3>1
  <2>4. run[r].opt.journal => file[r] # <<>>
    BY Fields DEF ControlOK, Recorded
  <2>5. ControlOK(r)'
    BY <1>1, <1>2, <1>3, <1>4, <2>2, <2>3, <2>4 DEF ControlOK, Preparing
  <2>6. VerdictOK(r)' /\ ExitOK(r)'
    BY <1>1, <1>2, <1>6, <2>2 DEF VerdictOK, ExitOK, EntryTrue, network
  <2> QED
    BY <1>1, <2>2, <2>5, <2>6, Fields, NetworkSame, MoveKeeps DEF CliInv
<1> QED
  BY <1>5, <1>6

\* A look: what is validated, or past its last ledger, is so in the network.
LEMMA LookSteps ==
    ASSUME CliInv, NEW r \in Runs, Lookup(r) \/ CurrentLedger(r)
    PROVE  RunOK(r)'
<1>1. run[r].pc \in {"lookup", "current"} /\ UNCHANGED <<file, network>>
  BY DEF Lookup, CurrentLedger
<1>2. run[r].opt \in Commands
  BY <1>1, Fields DEF ControlOK
<1>3. EntryTrue("pending") /\ EntryTrue("not_found") /\ "none" \in Results \cup {"none"}
  BY DEF EntryTrue
<1>4. ASSUME Goto(r, "current") \/ Goto(r, "delay")
      PROVE  RunOK(r)'
  <2>1. Entries(run[r].pc) <= Entries("current") /\ Entries(run[r].pc) <= Entries("delay")
    BY <1>1 DEF Entries
  <2> QED
    BY <1>1, <1>4, <2>1, GotoKeeps DEF Preparing, Recorded, SubmitOnly, Pcs
<1>5. ASSUME NEW s \in {"pending", "not_found"}, Undecided(r, s)
      PROVE  RunOK(r)'
  <2>1. \/ run[r].opt.cmd = "status" /\ Answer(r, s, "none")
        \/ Answer(r, "pending", "none")
        \/ Goto(r, "delay")
    BY <1>5 DEF Undecided
  <2>2. s # "validated" /\ "pending" # "validated" /\ "pending" # "not_found" /\ EntryTrue(s)
    BY <1>3
  <2> QED
    BY <1>1, <1>3, <1>4, <2>1, <2>2, AnswerKeeps
<1>6. ASSUME applied # 0, Answer(r, "validated", result)
      PROVE  RunOK(r)'
  <2>1. EntryTrue("validated") /\ result \in Results \cup {"none"}
    BY <1>6 DEF EntryTrue, CliInv, NetOK
  <2>2. "validated" # "not_found"
    OBVIOUS
  <2> QED
    BY <1>1, <1>6, <2>1, <2>2, AnswerKeeps
<1>7. ASSUME NEW open \in OpenLedgers, open > LastLedgerSequence, Answer(r, "expired", "none")
      PROVE  RunOK(r)'
  <2>1. validated + 1 >= LastLedgerSequence
    BY <1>7, CliAssumption DEF OpenLedgers, CliInv, NetOK
  <2>2. EntryTrue("expired")
    BY <2>1 DEF EntryTrue
  <2>3. "expired" # "not_found" /\ "expired" # "validated"
    OBVIOUS
  <2> QED
    BY <1>1, <1>3, <1>7, <2>2, <2>3, AnswerKeeps
<1>8. CASE Lookup(r)
  BY <1>4, <1>5, <1>6, <1>8 DEF Lookup
<1>9. CASE CurrentLedger(r)
  BY <1>5, <1>7, <1>9 DEF CurrentLedger
<1> QED
  BY <1>8, <1>9

-----------------------------------------------------------------------------
(* The whole next-state relation.                                           *)

RunStep(r) ==
    \/ \E c \in Commands : Start(r, c)
    \/ Step(r)
    \/ Deadline(r)
    \/ Kill(r)

\* A step of a run leaves the other processes and files alone, and only a
\* request touches the network.
LEMMA OthersKeep ==
    ASSUME CliInv, NEW r \in Runs, RunStep(r)
    PROVE  /\ Submit(r) \/ UNCHANGED network
           /\ \E x, y : /\ run' = [run EXCEPT ![r] = x]
                        /\ file' = [file EXCEPT ![r] = y]
<1>1. /\ Submit(r) \/ UNCHANGED network
      /\ \E x : run' = [run EXCEPT ![r] = x]
      /\ file' = file \/ \E y : file' = [file EXCEPT ![r] = y]
  BY ZenonT(40) DEF RunStep, Start, Step, ReadInput, Connect, ConnectFails, CheckArguments,
         Disconnected, AppendSigned, Submit, AppendSubmitted, AppendFailed, AppendLost,
         Lookup, CurrentLedger, Delay, RequestFails, AppendFinal, Deadline, Kill,
         Goto, Exit, ExitService, Appended, AppendRejects, Answer, Undecided
<1>2. file = [file EXCEPT ![r] = file[r]]
  BY DEF CliInv
<1> QED
  BY <1>1, <1>2

\* The step of a run, for that run and for the others.
LEMMA RunStepKeeps ==
    ASSUME CliInv, NEW r \in Runs, RunStep(r)
    PROVE  CliInv'
<1>1. RunOK(r)' /\ NetOK' /\ NetworkGrows
  <2>1. CASE Submit(r)
    BY <2>1, SubmitStep
  <2>2. CASE ~Submit(r)
    <3>1. RunOK(r)'
      BY <2>2, MoveSteps, AppendSteps, LastSteps, LookSteps DEF RunStep, Step
    <3>2. UNCHANGED network
      BY <2>2, OthersKeep
    <3> QED
      BY <3>1, <3>2, NetworkSame DEF CliInv
  <2> QED
    BY <2>1, <2>2
<1>2. PICK x, y : /\ run' = [run EXCEPT ![r] = x]
                  /\ file' = [file EXCEPT ![r] = y]
  BY OthersKeep
<1>3. ASSUME NEW s \in Runs, s # r
      PROVE  RunOK(s)'
  <2>1. run'[s] = run[s] /\ file'[s] = file[s]
    BY <1>2, <1>3 DEF CliInv
  <2> QED
    BY <1>1, <2>1, Kept DEF CliInv
<1>4. \A s \in Runs : RunOK(s)'
  BY <1>1, <1>3
<1>5. \A s \in Runs : run'[s] \in RunStates /\ file'[s] \in Seq(Stages)
  BY <1>4 DEF RunOK, LogOK
<1>6. run' \in [Runs -> RunStates] /\ file' \in [Runs -> Seq(Stages)]
  BY <1>2, <1>5 DEF CliInv
<1> QED
  BY <1>1, <1>4, <1>6 DEF CliInv

\* A ledger more, with the transaction or without.
LEMMA LedgerKeeps ==
    ASSUME CliInv, ValidateLedger
    PROVE  CliInv'
<1>1. /\ validated \in 1..MaxLedger /\ validated < MaxLedger /\ validated' = validated + 1
      /\ applied \in 0..MaxLedger
      /\ applied' = applied \/ (applied = 0 /\ applied' = validated')
      /\ UNCHANGED <<run, file, result, relayed, malformed>>
  BY DEF ValidateLedger, CliInv, NetOK
<1>2. validated' \in 1..MaxLedger /\ applied' \in 0..MaxLedger
      /\ validated' \in Nat /\ validated' >= validated
  BY <1>1, CliAssumption
<1>3. NetOK'
  BY <1>1, <1>2 DEF CliInv, NetOK
<1>4. NetworkGrows
  BY <1>1, <1>2 DEF NetworkGrows
<1>5. \A s \in Runs : RunOK(s)'
  BY <1>1, <1>4, Kept DEF CliInv
<1> QED
  BY <1>1, <1>3, <1>5 DEF CliInv

LEMMA InitInv == Init => CliInv
<1> SUFFICES ASSUME Init PROVE CliInv
  OBVIOUS
<1>1. <<>> \in Seq(Stages) /\ Len(<<>>) = 0
  OBVIOUS
<1>2. Unstarted \in RunStates
  BY <1>1 DEF Unstarted, RunStates, Pcs, Verdicts, Codes
<1>3. NetOK
  <2>1. validated \in 1..MaxLedger /\ applied \in 0..MaxLedger
    BY CliAssumption DEF Init
  <2>2. relayed = FALSE /\ malformed \in BOOLEAN /\ result \in Results
    BY DEF Init
  <2> QED
    BY <2>1, <2>2 DEF NetOK
<1>4. ASSUME NEW r \in Runs
      PROVE  RunOK(r)
  <2>1. run[r] = Unstarted /\ file[r] = <<>>
    BY DEF Init
  <2>2. LogOK(run[r].memory, file[r]) /\ \A i \in 1..Len(file[r]) : EntryTrue(file[r][i])
    BY <1>1, <2>1 DEF LogOK, Unstarted
  <2>3. Entries("idle") = 0
    BY DEF Entries
  <2>4. ControlOK(r)
    BY <1>1, <2>1, <2>3 DEF ControlOK, Unstarted, SubmitOnly, Recorded, NoCommand
  <2>5. VerdictOK(r) /\ ExitOK(r)
    BY <2>1 DEF VerdictOK, ExitOK, Unstarted
  <2> QED
    BY <1>2, <2>1, <2>2, <2>4, <2>5 DEF RunOK
<1> QED
  BY <1>1, <1>2, <1>3, <1>4 DEF Init, CliInv

LEMMA NextInv == CliInv /\ [Next]_vars => CliInv'
<1> SUFFICES ASSUME CliInv, [Next]_vars PROVE CliInv'
  OBVIOUS
<1>1. CASE \E r \in Runs : RunStep(r)
  BY <1>1, RunStepKeeps
<1>2. CASE ValidateLedger
  BY <1>2, LedgerKeeps
<1>3. CASE UNCHANGED vars
  <2>1. UNCHANGED <<run, file, network>>
    BY <1>3 DEF vars, network
  <2>2. NetOK' /\ NetworkGrows
    BY <2>1, NetworkSame DEF CliInv
  <2>3. \A s \in Runs : RunOK(s)'
    BY <2>1, <2>2, Kept DEF CliInv
  <2> QED
    BY <2>1, <2>2, <2>3 DEF CliInv
<1> QED
  BY <1>1, <1>2, <1>3 DEF Next, RunStep

THEOREM Invariance == Spec => []CliInv
BY InitInv, NextInv, PTL DEF Spec

-----------------------------------------------------------------------------
(* What the commands promise.                                               *)

\* The exit code of tx submit and the lines of its journal are true of the
\* ledger, and a blob is journalled before it can be relayed, in any number
\* of terminals, however requests and appends fail and processes die.
THEOREM CliIsTruthful == Spec => []CliTruthful
<1>1. CliInv => CliTruthful
  <2> SUFFICES ASSUME CliInv PROVE CliTruthful
    OBVIOUS
  <2>1. ASSUME NEW r \in Runs
        PROVE  Len(run[r].memory) <= 5
    <3>1. Entries(run[r].pc) \in 0..5
      BY DEF Entries
    <3> QED
      BY <3>1, Fields DEF ControlOK
  <2>2. TypeOK
    BY <2>1 DEF TypeOK, CliInv, NetOK
  <2>3. ExitCodeTruthful
    BY Fields DEF ExitCodeTruthful, ExitOK
  <2>4. RelayedIsJournalled
    <3> SUFFICES ASSUME NEW r \in Runs, run[r].sent, run[r].opt.journal
                 PROVE  file[r] # <<>> /\ Head(file[r]) = "signed"
      BY DEF RelayedIsJournalled
    <3>1. file[r] # <<>>
      BY Fields DEF ControlOK
    <3>2. file[r] \in Seq(Stages) /\ file[r][1] = "signed"
      BY <3>1, Fields DEF RunOK, LogOK
    <3>3. Head(file[r]) = file[r][1]
      BY <3>1, <3>2
    <3> QED
      BY <3>1, <3>2, <3>3
  <2>5. JournalTruthful
    <3> SUFFICES ASSUME NEW r \in Runs
                 PROVE  /\ \A i \in 1..Len(file[r]) :
                              /\ \E j \in i..Len(run[r].memory) : run[r].memory[j] = file[r][i]
                              /\ file[r][i] = "validated" => applied # 0
                              /\ file[r][i] = "expired" => validated + 1 >= LastLedgerSequence
                              /\ file[r][i] = "failed" => ~relayed
                        /\ run[r].opt.journal /\ run[r].printed # "none" =>
                              Last(file[r]) = Last(run[r].memory)
      BY DEF JournalTruthful
    <3>1. malformed => ~relayed
      BY DEF CliInv, NetOK
    <3>2. LogOK(run[r].memory, file[r]) /\ \A i \in 1..Len(file[r]) : EntryTrue(file[r][i])
      BY Fields DEF RunOK
    <3>3. run[r].printed # "none" => run[r].pc = "exited"
      BY Fields DEF VerdictOK
    <3>4. run[r].opt.journal /\ run[r].printed # "none" =>
              Last(file[r]) = Last(run[r].memory)
      BY <3>3, Fields DEF ExitOK
    <3> QED
      BY <3>1, <3>2, <3>4 DEF LogOK, EntryTrue
  <2> QED
    BY <2>2, <2>3, <2>4, <2>5 DEF CliTruthful
<1> QED
  BY <1>1, Invariance, PTL

\* Once a run has printed 'validated', no look that begins later, in any
\* terminal, answers otherwise (getTransactionStatus asks for the validated
\* transaction first).
THEOREM VerdictsStand == Spec => VerdictNotRetracted
<1>1. CliInv /\ [Next]_vars =>
          [\A r \in Runs :
              Settled /\ run[r].pc = "lookup" /\ run'[r].pc # "lookup"
                 => run'[r].status = "validated" \/ run'[r].pc = "killed"
                    \/ run'[r].code = 3]_vars
  <2> SUFFICES ASSUME CliInv, Next, NEW r \in Runs,
                      Settled, run[r].pc = "lookup", run'[r].pc # "lookup"
               PROVE  run'[r].status = "validated" \/ run'[r].pc = "killed"
                      \/ run'[r].code = 3
    OBVIOUS
  <2>1. applied # 0
    BY Fields DEF Settled, VerdictOK
  <2>2. PICK s \in Runs : RunStep(s)
    BY DEF Next, RunStep, ValidateLedger
  <2>3. s = r
    <3>1. PICK x : run' = [run EXCEPT ![s] = x]
      BY <2>2, OthersKeep
    <3> QED
      BY <3>1 DEF CliInv
  <2>4. run[r] \in RunStates
    BY SMTT(30), Fields
  <2>5. Lookup(r) \/ RequestFails(r) \/ Deadline(r) \/ Kill(r)
    BY <2>2, <2>3 DEF RunStep, Start, Step, ReadInput, Connect, ConnectFails,
       CheckArguments, Disconnected, AppendSigned, Submit, AppendSubmitted, AppendFailed,
       AppendLost, CurrentLedger, Delay, AppendFinal
  <2>6. CASE Lookup(r)
    <3>1. Answer(r, "validated", result)
      BY <2>1, <2>6 DEF Lookup
    <3>2. run'[r].status = "validated"
      BY <3>1, <2>4 DEF Answer, CliInv, RunStates
    <3> QED
      BY <3>2
  <2>7. CASE RequestFails(r)
    BY <2>4, <2>7 DEF RequestFails, ExitService, Exit, CliInv, RunStates
  <2>8. CASE Deadline(r)
    BY <2>4, <2>8 DEF Deadline, CliInv, RunStates
  <2>9. CASE Kill(r)
    BY <2>4, <2>9 DEF Kill, Goto, CliInv, RunStates
  <2> QED
    BY <2>5, <2>6, <2>7, <2>8, <2>9
<1> QED
  BY <1>1, Invariance, PTL DEF Spec, VerdictNotRetracted

-----------------------------------------------------------------------------
(* The registry ceremony: the inductive invariant.                         *)

StagePcs == {"idle", "read", "submit", "wait", "validated", "absent", "write", "gate"}
StageKinds == {"fund", "setRegularKey", "disableMaster", "payment"}
StageResults == {"none", "boundary", "CEREMONY_MASTER_KEY_ALREADY_DISABLED"}

\* What a stage knows of its server.
Statuses ==
    {C!NoStatus} \cup
    [networkId : {1}, validated : Nat,
     ranges : {C!ParseCompleteLedgers(r) : r \in Seq([min : Nat, max : Nat])}]

StageRecords ==
    [pc : StagePcs, stage : C!Stages \cup {"none"}, result : StageResults, activation : Nat,
     status : Statuses, held : SUBSET Int, readAt : Nat, boundary : Nat]

Txs == [by : Operators \cup {"owner", "nobody"}, kind : StageKinds \cup OwnKinds, network : {1}]

\* Account b is a, as far as a stage that disables the master key relies on it.
Gentle(a, b) ==
    /\ a.exists => b.exists
    /\ a.regularKey = "ACCOUNT_ZERO" => b.regularKey = "ACCOUNT_ZERO"
    /\ b.depositAuth = a.depositAuth /\ b.destTag = a.destTag

\* A registry that is blackholed stays so, and only the key holder undoes what
\* disable-master-key relies on.
LedgersOK ==
    /\ ledgers \in Seq(C!Accounts) /\ C!tip >= 1 /\ lastOwn \in 0 .. C!tip
    /\ \A m, n \in 1 .. C!tip :
         m <= n /\ C!AssertRegistryBlackholed(ledgers[m]) => C!AssertRegistryBlackholed(ledgers[n])
    /\ \A n \in 1 .. C!tip - 1 : lastOwn <= n => Gentle(ledgers[n], ledgers[n + 1])

SealedAt(a) == a \in 1 .. C!tip /\ C!AssertRegistryBlackholed(ledgers[a])

\* The account can lose its master key.
Ready(account) ==
    account.exists /\ account.regularKey = "ACCOUNT_ZERO" /\ ~account.depositAuth /\ ~account.destTag

\* What is true of a stage in state r.
StageOK(r) ==
    /\ r.pc = "submit" => r.stage \in {"set-regular-key", "disable-master-key", "verify"}
    /\ r.pc = "read" => (r.activation > 0 <=> r.stage \in {"verify", "emit-profile"})
    /\ r.pc \notin {"idle", "read"} /\ r.stage \in {"verify", "emit-profile"} => SealedAt(r.activation)
    /\ r.pc \in {"absent", "write", "gate"} => r.stage = "emit-profile"
    /\ r.pc \in {"submit", "wait"} /\ r.stage = "disable-master-key" =>
          /\ r.readAt <= C!tip
          /\ lastOwn <= r.readAt => Ready(ledgers[C!tip])
    /\ r.boundary <= C!tip + 1
    /\ r.boundary # 0 => r.boundary >= 2
    /\ r.stage = "disable-master-key" /\ r.boundary > 0 /\ lastOwn <= r.readAt =>
          Ready(ledgers[r.boundary - 1]) /\ ledgers[r.boundary - 1].masterDisabled
    /\ r.boundary > 0 => r.pc \in {"idle", "validated"}
    /\ r.pc = "validated" => r.boundary > 0
    /\ r.result # "none" => r.pc = "idle"
    /\ r.result = "boundary" => r.boundary \in 1 .. C!tip

\* A stage waits for the transaction it has submitted, and only stages and the key
\* holder submit any.
Waits(r, tx) == r.pc = "wait" /\ (r.stage = "disable-master-key" => tx.kind = "disableMaster")

PoolOK ==
    /\ \A tx \in pool :
         /\ tx \in Txs
         /\ tx.by # "owner" => tx.kind \in StageKinds
         /\ tx.by \in Operators => Waits(stages[tx.by], tx)
    /\ \A tx, ty \in pool : tx.by \in Operators /\ ty.by = tx.by => ty = tx

\* Only what is sealed is published or reported.
ReportsOK ==
    /\ profileFile # C!NoFile => SealedAt(profileFile.activation)
    /\ \A a \in verified : SealedAt(a)

CeremonyInv ==
    /\ OperatorsAssumption /\ own \in 0 .. MaxOwn /\ LedgersOK
    /\ stages \in [Operators -> StageRecords] /\ \A p \in Operators : StageOK(stages[p])
    /\ PoolOK /\ ReportsOK

-----------------------------------------------------------------------------
(* The ledger.                                                             *)

\* What is published or reported stays sealed.
LEMMA SealedStays ==
    ASSUME LedgersOK, NEW a, SealedAt(a)
    PROVE  C!Sealed(a)
<1> SUFFICES ASSUME NEW n \in a .. C!tip
             PROVE  C!AssertRegistryBlackholed(ledgers[n]) /\ ~C!Controllable(ledgers[n])
  BY DEF C!Sealed
<1>1. C!tip \in Nat /\ a \in 1 .. C!tip /\ n \in 1 .. C!tip /\ a <= n
  BY DEF LedgersOK, SealedAt, C!tip
<1>2. C!AssertRegistryBlackholed(ledgers[n])
  BY <1>1 DEF LedgersOK, SealedAt
<1> QED BY <1>2 DEF C!Controllable, C!AssertRegistryBlackholed

\* A transaction leaves an account an account.
LEMMA ApplyTyped ==
    ASSUME NEW account \in C!Accounts, NEW kind
    PROVE  C!Apply(account, kind) \in C!Accounts
BY ZenonT(40) DEF C!Apply, C!Accounts, C!Keys

\* Nothing changes an account that is blackholed.
LEMMA BlackholedAccepts ==
    ASSUME NEW account \in C!Accounts, C!AssertRegistryBlackholed(account), NEW kind,
           C!Accepted(account, kind)
    PROVE  C!Apply(account, kind) = account
<1>1. ~C!Controllable(account)
  BY DEF C!Controllable, C!AssertRegistryBlackholed
<1>2. kind = "payment"
  BY <1>1 DEF C!Accepted, C!AssertRegistryBlackholed
<1> QED BY <1>2 DEF C!Apply

\* What a stage submits is gentle.
LEMMA StagesAreGentle ==
    ASSUME NEW account \in C!Accounts, NEW kind \in StageKinds
    PROVE  Gentle(account, C!Apply(account, kind))
BY DEF Gentle, C!Apply, StageKinds, C!Accounts, C!Keys

\* An account stays ready through a gentle change.
LEMMA GentleIsReady ==
    ASSUME NEW a, NEW b, Gentle(a, b), Ready(a), a \in C!Accounts, b \in C!Accounts
    PROVE  Ready(b)
BY DEF Gentle, Ready, C!Accounts

\* The ledgers after a close.
LEMMA CloseLedgers ==
    ASSUME CeremonyInv, NEW new \in C!Accounts, ledgers' = Append(ledgers, new),
           C!AssertRegistryBlackholed(ledgers[C!tip]) => C!AssertRegistryBlackholed(new),
           \/ lastOwn' = lastOwn /\ Gentle(ledgers[C!tip], new)
           \/ lastOwn' = C!tip + 1
    PROVE  /\ LedgersOK'
           /\ C!tip' = C!tip + 1 /\ C!tip \in Nat /\ ledgers'[C!tip + 1] = new
           /\ \A n \in 1 .. C!tip : ledgers'[n] = ledgers[n]
           /\ \A a : SealedAt(a) => SealedAt(a)'
<1>1. /\ C!tip \in Nat /\ C!tip >= 1 /\ lastOwn \in Nat /\ lastOwn <= C!tip
      /\ ledgers \in Seq(C!Accounts)
  BY DEF CeremonyInv, LedgersOK, C!tip
<1>2. ledgers'[C!tip + 1] = new /\ \A n \in 1 .. C!tip : ledgers'[n] = ledgers[n]
  BY <1>1 DEF C!tip
<1>0. ledgers' \in Seq(C!Accounts) /\ C!tip' = C!tip + 1
  BY <1>1 DEF C!tip
<1>3. lastOwn' \in 0 .. C!tip + 1
  BY <1>1
<1>4. ASSUME NEW m \in 1 .. C!tip + 1, NEW n \in 1 .. C!tip + 1, m <= n,
             C!AssertRegistryBlackholed(ledgers'[m])
      PROVE  C!AssertRegistryBlackholed(ledgers'[n])
  <2>0. /\ n \in 1 .. C!tip \/ n = C!tip + 1
        /\ m \in 1 .. C!tip \/ (m = C!tip + 1 /\ n = C!tip + 1)
        /\ C!tip \in 1 .. C!tip
    BY <1>1, <1>4
  <2>1. CASE m \in 1 .. C!tip /\ n \in 1 .. C!tip
    <3>1. C!AssertRegistryBlackholed(ledgers[m])
      BY <1>2, <1>4, <2>1
    <3>2. C!AssertRegistryBlackholed(ledgers[n])
      BY <1>4, <2>1, <3>1 DEF CeremonyInv, LedgersOK
    <3> QED BY <1>2, <2>1, <3>2
  <2>2. CASE m \in 1 .. C!tip /\ n = C!tip + 1
    <3>1. C!AssertRegistryBlackholed(ledgers[m])
      BY <1>2, <1>4, <2>2
    <3>2. m <= C!tip
      BY <1>1, <2>2
    <3>3. C!AssertRegistryBlackholed(ledgers[C!tip])
      BY <2>0, <2>2, <3>1, <3>2 DEF CeremonyInv, LedgersOK
    <3> QED BY <1>2, <2>2, <3>3
  <2>3. CASE m = C!tip + 1 /\ n = C!tip + 1
    BY <1>4, <2>3
  <2> QED BY <2>0, <2>1, <2>2, <2>3
<1>5. ASSUME NEW n \in 1 .. (C!tip + 1) - 1, lastOwn' <= n
      PROVE  Gentle(ledgers'[n], ledgers'[n + 1])
  <2>1. n \in 1 .. C!tip /\ lastOwn' = lastOwn /\ Gentle(ledgers[C!tip], new)
    BY <1>1, <1>2, <1>5
  <2>2. CASE n = C!tip
    BY <1>2, <2>1, <2>2
  <2>3. CASE n # C!tip
    <3>1. n \in 1 .. C!tip - 1 /\ n + 1 \in 1 .. C!tip
      BY <1>1, <2>1, <2>3
    <3> QED BY <1>2, <1>5, <2>1, <3>1 DEF CeremonyInv, LedgersOK
  <2> QED BY <2>2, <2>3
<1>6. ASSUME NEW a, SealedAt(a)
      PROVE  a \in 1 .. C!tip + 1 /\ C!AssertRegistryBlackholed(ledgers'[a])
  <2>1. a \in 1 .. C!tip /\ C!AssertRegistryBlackholed(ledgers[a])
    BY <1>6 DEF SealedAt
  <2>2. ledgers'[a] = ledgers[a]
    BY <1>2, <2>1
  <2>3. a \in 1 .. C!tip + 1
    BY <1>1, <2>1
  <2>4. C!AssertRegistryBlackholed(ledgers'[a])
    BY <2>1, <2>2
  <2> QED BY <2>3, <2>4
<1>7. LedgersOK'
  <2>1. C!tip + 1 >= 1
    BY <1>1
  <2> QED BY <1>0, <1>3, <1>4, <1>5, <2>1 DEF LedgersOK
<1>8. \A a : SealedAt(a) => SealedAt(a)'
  BY <1>0, <1>2, <1>6 DEF SealedAt
<1> QED BY <1>0, <1>1, <1>2, <1>7, <1>8

\* What is true of a stage stays true of it when a ledger closes.
LEMMA StageStays ==
    ASSUME CeremonyInv, NEW new \in C!Accounts, ledgers' = Append(ledgers, new),
           C!AssertRegistryBlackholed(ledgers[C!tip]) => C!AssertRegistryBlackholed(new),
           \/ lastOwn' = lastOwn /\ Gentle(ledgers[C!tip], new)
           \/ lastOwn' = C!tip + 1,
           NEW r \in StageRecords, StageOK(r)
    PROVE  StageOK(r)'
<1>1. /\ C!tip' = C!tip + 1 /\ ledgers'[C!tip + 1] = new
      /\ \A a : SealedAt(a) => SealedAt(a)'
  BY CloseLedgers
<1>2. C!tip \in Nat /\ \A n \in 1 .. C!tip : ledgers'[n] = ledgers[n]
  BY CloseLedgers
<1>3. lastOwn \in Nat /\ lastOwn <= C!tip /\ r.readAt \in Nat /\ r.boundary \in Nat
  BY <1>2 DEF CeremonyInv, LedgersOK, StageRecords
<1>4. r.pc \in {"submit", "wait"} /\ r.stage = "disable-master-key" =>
         /\ r.readAt <= C!tip + 1
         /\ lastOwn' <= r.readAt => Ready(new)
  <2> SUFFICES ASSUME r.pc \in {"submit", "wait"}, r.stage = "disable-master-key"
               PROVE  /\ r.readAt <= C!tip + 1
                      /\ lastOwn' <= r.readAt => Ready(new)
    OBVIOUS
  <2>1. r.readAt <= C!tip /\ (lastOwn <= r.readAt => Ready(ledgers[C!tip]))
    BY DEF StageOK
  <2>2. CASE lastOwn' = C!tip + 1
    BY <1>2, <1>3, <2>1, <2>2
  <2>3. CASE lastOwn' = lastOwn /\ Gentle(ledgers[C!tip], new)
    <3>1. ledgers[C!tip] \in C!Accounts
      BY DEF CeremonyInv, LedgersOK, C!tip
    <3>2. Ready(ledgers[C!tip]) => Ready(new)
      BY <2>3, <3>1, GentleIsReady
    <3>3. r.readAt <= C!tip + 1
      BY <1>2, <1>3, <2>1
    <3> QED BY <2>1, <2>3, <3>2, <3>3
  <2> QED BY <2>2, <2>3
<1>5. r.boundary <= C!tip + 2
  BY <1>2, <1>3 DEF StageOK
<1>6. r.stage = "disable-master-key" /\ r.boundary > 0 /\ lastOwn' <= r.readAt =>
         Ready(ledgers'[r.boundary - 1]) /\ ledgers'[r.boundary - 1].masterDisabled
  <2> SUFFICES ASSUME r.stage = "disable-master-key", r.boundary > 0, lastOwn' <= r.readAt
               PROVE  Ready(ledgers'[r.boundary - 1]) /\ ledgers'[r.boundary - 1].masterDisabled
    OBVIOUS
  <2>1. r.boundary - 1 \in 1 .. C!tip
    BY SMTT(30), <1>2, <1>3 DEF StageOK
  <2>2. lastOwn <= r.readAt
    BY <1>2, <1>3
  <2>3. Ready(ledgers[r.boundary - 1]) /\ ledgers[r.boundary - 1].masterDisabled
    BY <2>2 DEF StageOK
  <2> QED BY <1>2, <2>1, <2>3
<1>7. r.result = "boundary" => r.boundary \in 1 .. C!tip + 1
  BY <1>2, <1>3 DEF StageOK
<1>8. C!tip' + 1 = C!tip + 2
  BY <1>1, <1>2
<1>9. r.pc \notin {"idle", "read"} /\ r.stage \in {"verify", "emit-profile"} => SealedAt(r.activation)'
  BY <1>1 DEF StageOK
<1>10. /\ r.pc = "submit" => r.stage \in {"set-regular-key", "disable-master-key", "verify"}
       /\ r.pc = "read" => (r.activation > 0 <=> r.stage \in {"verify", "emit-profile"})
       /\ r.pc \in {"absent", "write", "gate"} => r.stage = "emit-profile"
       /\ r.boundary # 0 => r.boundary >= 2
       /\ r.boundary > 0 => r.pc \in {"idle", "validated"}
       /\ r.pc = "validated" => r.boundary > 0
       /\ r.result # "none" => r.pc = "idle"
  BY DEF StageOK
<1> QED BY <1>1, <1>4, <1>5, <1>6, <1>7, <1>8, <1>9, <1>10 DEF StageOK

\* Nothing is the matter with a stage that has ended.
LEMMA IdleOK ==
    ASSUME CeremonyInv
    PROVE  C!Idle \in StageRecords /\ StageOK(C!Idle)
<1>1. C!tip \in Nat
  BY DEF CeremonyInv, LedgersOK, C!tip
<1> QED BY <1>1 DEF C!Idle, StageRecords, StageOK, StagePcs, C!Stages, StageResults, Statuses

-----------------------------------------------------------------------------
(* The steps.                                                              *)

\* A step of one stage leaves the others and the ledger alone.
LEMMA OfflineStep ==
    ASSUME CeremonyInv, C!Offline, NEW p \in Operators,
           stages' \in [Operators -> StageRecords], StageOK(stages'[p]),
           \A q \in Operators : q # p => stages'[q] = stages[q],
           \A tx \in pool' : /\ tx \in Txs /\ (tx.by # "owner" => tx.kind \in StageKinds)
                             /\ IF tx.by = p THEN Waits(stages'[p], tx)
                                ELSE tx \in pool \/ tx.by = "nobody",
           \A tx, ty \in pool' : tx.by = p /\ ty.by = p => ty = tx,
           profileFile' # C!NoFile => profileFile' = profileFile \/ SealedAt(profileFile'.activation),
           \A a \in verified' : a \in verified \/ SealedAt(a)
    PROVE  CeremonyInv'
<1>1. C!tip' = C!tip
  BY DEF C!Offline, C!tip
<1>2. LedgersOK' /\ OperatorsAssumption' /\ (own \in 0 .. MaxOwn)'
  BY <1>1 DEF CeremonyInv, LedgersOK, C!Offline, OperatorsAssumption
<1>3. \A q \in Operators : StageOK(stages'[q])
  BY DEF CeremonyInv
<1>4. \A q \in Operators : StageOK(stages[q])'
  BY <1>1, <1>3 DEF StageOK, SealedAt, C!Offline
<1>5. PoolOK'
  <2>1. ASSUME NEW tx \in pool', tx.by \in Operators PROVE Waits(stages'[tx.by], tx)
    <3>1. CASE tx.by = p
      BY <3>1
    <3>2. CASE tx.by # p
      <4>1. tx \in pool
        BY <2>1, <3>2 DEF CeremonyInv, OperatorsAssumption
      <4>2. Waits(stages[tx.by], tx)
        BY <2>1, <4>1 DEF CeremonyInv, PoolOK
      <4> QED BY <2>1, <3>2, <4>2
    <3> QED BY <3>1, <3>2
  <2>2. ASSUME NEW tx \in pool', NEW ty \in pool', tx.by \in Operators, ty.by = tx.by PROVE ty = tx
    <3>1. CASE tx.by = p
      BY <2>2, <3>1
    <3>2. CASE tx.by # p
      <4>1. tx \in pool /\ ty \in pool
        BY <2>2, <3>2 DEF CeremonyInv, OperatorsAssumption
      <4> QED BY <2>2, <4>1 DEF CeremonyInv, PoolOK
    <3> QED BY <3>1, <3>2
  <2> QED BY <2>1, <2>2 DEF PoolOK, Waits, Txs
<1>6. \A a : SealedAt(a) => SealedAt(a)'
  BY <1>1 DEF SealedAt, C!Offline
<1>7. ReportsOK'
  BY <1>6 DEF CeremonyInv, ReportsOK
<1> QED BY <1>2, <1>4, <1>5, <1>7 DEF CeremonyInv

\* What does not change is as it was.
LEMMA Unchanging ==
    ASSUME CeremonyInv, NEW p \in Operators, NEW r
    PROVE  /\ pool' = pool /\ stages[p].pc # "wait" =>
                 /\ \A tx \in pool' : /\ tx \in Txs /\ (tx.by # "owner" => tx.kind \in StageKinds)
                                      /\ IF tx.by = p THEN Waits(r, tx)
                                         ELSE tx \in pool \/ tx.by = "nobody"
                 /\ \A tx, ty \in pool' : tx.by = p /\ ty.by = p => ty = tx
           /\ profileFile' = profileFile =>
                 (profileFile' # C!NoFile => profileFile' = profileFile \/ SealedAt(profileFile'.activation))
           /\ verified' = verified => \A a \in verified' : a \in verified \/ SealedAt(a)
BY DEF CeremonyInv, PoolOK, Waits

\* run with another record for one stage.
LEMMA StageSet ==
    ASSUME stages \in [Operators -> StageRecords], NEW p \in Operators, NEW r \in StageRecords,
           stages' = [stages EXCEPT ![p] = r]
    PROVE  /\ stages' \in [Operators -> StageRecords] /\ stages'[p] = r
           /\ \A q \in Operators : q # p => stages'[q] = stages[q]
OBVIOUS

\* A stage that ends, without a transaction.
LEMMA EndStep ==
    ASSUME CeremonyInv, NEW p \in Operators, C!End(p), C!Offline,
           UNCHANGED <<pool, profileFile, verified>>, stages[p].pc # "wait"
    PROVE  CeremonyInv'
<1>1. stages \in [Operators -> StageRecords] /\ C!Idle \in StageRecords /\ StageOK(C!Idle)
  BY IdleOK DEF CeremonyInv
<1>2. /\ stages' \in [Operators -> StageRecords] /\ stages'[p] = C!Idle
      /\ \A q \in Operators : q # p => stages'[q] = stages[q]
  BY <1>1, StageSet DEF C!End
<1> QED BY <1>1, <1>2, OfflineStep, Unchanging

\* A stage that goes on with pc.
LEMMA GotoStep ==
    ASSUME CeremonyInv, NEW p \in Operators, NEW pc \in StagePcs, C!Goto(p, pc), C!Offline,
           UNCHANGED <<pool, profileFile, verified>>, stages[p].pc # "wait",
           StageOK([stages[p] EXCEPT !.pc = pc])
    PROVE  CeremonyInv'
<1> DEFINE r == [stages[p] EXCEPT !.pc = pc]
<1>1. stages \in [Operators -> StageRecords] /\ r \in StageRecords /\ StageOK(r)
  BY DEF CeremonyInv, StageRecords
<1>2. stages' = [stages EXCEPT ![p] = r]
  BY DEF C!Goto
<1> HIDE DEF r
<1>3. /\ stages' \in [Operators -> StageRecords] /\ stages'[p] = r
      /\ \A q \in Operators : q # p => stages'[q] = stages[q]
  BY <1>1, <1>2, StageSet
<1>4. /\ \A tx \in pool' : /\ tx \in Txs /\ (tx.by # "owner" => tx.kind \in StageKinds)
                           /\ IF tx.by = p THEN Waits(r, tx) ELSE tx \in pool \/ tx.by = "nobody"
      /\ \A tx, ty \in pool' : tx.by = p /\ ty.by = p => ty = tx
      /\ profileFile' # C!NoFile => profileFile' = profileFile \/ SealedAt(profileFile'.activation)
      /\ \A a \in verified' : a \in verified \/ SealedAt(a)
  BY Unchanging
<1> QED BY <1>1, <1>3, <1>4, OfflineStep

\* The fields of a stage that goes on.
LEMMA GotoFields ==
    ASSUME NEW r \in StageRecords, NEW pc \in StagePcs
    PROVE  LET s == [r EXCEPT !.pc = pc] IN
           /\ s \in StageRecords /\ s.pc = pc /\ s.stage = r.stage /\ s.result = r.result
           /\ s.activation = r.activation /\ s.readAt = r.readAt /\ s.boundary = r.boundary
BY DEF StageRecords

\* Ledgers that a node may answer about.
LEMMA NodesAre ==
    ASSUME CeremonyInv
    PROVE  /\ C!tip \in Nat
           /\ \A at \in C!Nodes : /\ at \in 1 .. C!tip
                                  /\ at = C!tip \/ (at = C!tip - 1 /\ at \in 1 .. C!tip - 1)
<1>1. C!tip \in Nat /\ C!tip >= 1
  BY DEF CeremonyInv, LedgersOK, C!tip
<1> QED BY <1>1 DEF C!Nodes

\* A stage begins: nothing is known yet but the server's status.
LEMMA StartStep ==
    ASSUME CeremonyInv, NEW p \in Operators, C!StartStage(p)
    PROVE  CeremonyInv'
<1>1. PICK stage \in C!Stages, a \in Nat :
        /\ C!Connect(p, stage, a) /\ (a > 0 <=> stage \in {"verify", "emit-profile"})
  <2>1. PICK stage \in C!Stages :
          \E a \in IF stage \in {"verify", "emit-profile"} THEN 1 .. C!tip + 1 ELSE {0} :
             C!Connect(p, stage, a)
    BY DEF C!StartStage
  <2>2. C!tip \in Nat
    BY NodesAre
  <2> QED BY <2>1, <2>2
<1>2. PICK net \in {0, 1}, at \in C!Nodes :
        \E ranges \in IF a > 0 THEN C!Reported(at) ELSE {<<[min |-> 1, max |-> at]>>} :
           /\ C!AssertConnectedNetwork(1, net)
           /\ stages' = [stages EXCEPT ![p] =
                 [C!Idle EXCEPT !.pc = "read", !.stage = stage, !.activation = a,
                    !.status = C!NormalizeServerInfo([networkId |-> net, validated |-> at,
                                                      ranges |-> ranges]),
                    !.held = UNION {ranges[k].min .. ranges[k].max : k \in DOMAIN ranges}]]
  BY <1>1 DEF C!Connect
<1>3. PICK ranges \in IF a > 0 THEN C!Reported(at) ELSE {<<[min |-> 1, max |-> at]>>} :
           /\ C!AssertConnectedNetwork(1, net)
           /\ stages' = [stages EXCEPT ![p] =
                 [C!Idle EXCEPT !.pc = "read", !.stage = stage, !.activation = a,
                    !.status = C!NormalizeServerInfo([networkId |-> net, validated |-> at,
                                                      ranges |-> ranges]),
                    !.held = UNION {ranges[k].min .. ranges[k].max : k \in DOMAIN ranges}]]
  BY <1>2
<1>4. at \in Nat /\ at >= 1 /\ net = 1 /\ C!tip \in Nat
  BY <1>3, NodesAre DEF C!AssertConnectedNetwork
<1>5. ranges \in Seq([min : Nat, max : Nat])
  <2>1. \A x, y \in Nat : [min |-> x, max |-> y] \in [min : Nat, max : Nat]
    OBVIOUS
  <2>2. \A x \in [min : Nat, max : Nat] : <<x>> \in Seq([min : Nat, max : Nat])
    OBVIOUS
  <2>3. \A x, y \in [min : Nat, max : Nat] : <<x, y>> \in Seq([min : Nat, max : Nat])
    OBVIOUS
  <2>4. CASE a > 0
    <3>1. \/ ranges = <<[min |-> at, max |-> at]>>
          \/ \E b \in at - 2 .. at : b >= 1 /\ ranges = <<[min |-> at, max |-> at], [min |-> 1, max |-> b]>>
          \/ ranges = <<[min |-> 1, max |-> at]>>
      BY <1>3, <2>4 DEF C!Reported
    <3>2. \A b \in at - 2 .. at : b >= 1 => b \in Nat
      BY <1>4
    <3>3. CASE \E b \in at - 2 .. at : b >= 1 /\ ranges = <<[min |-> at, max |-> at], [min |-> 1, max |-> b]>>
      <4>1. PICK b \in at - 2 .. at : b >= 1 /\ ranges = <<[min |-> at, max |-> at], [min |-> 1, max |-> b]>>
        BY <3>3
      <4>2. b \in Nat
        BY <3>2, <4>1
      <4> QED BY <1>4, <2>1, <2>3, <4>1, <4>2
    <3> QED BY <1>4, <2>1, <2>2, <3>1, <3>3
  <2>5. CASE ~(a > 0)
    BY <1>3, <1>4, <2>1, <2>2, <2>5
  <2> QED BY <2>4, <2>5
<1> DEFINE status == C!NormalizeServerInfo([networkId |-> net, validated |-> at, ranges |-> ranges])
           held == UNION {ranges[k].min .. ranges[k].max : k \in DOMAIN ranges}
           r == [C!Idle EXCEPT !.pc = "read", !.stage = stage, !.activation = a,
                               !.status = status, !.held = held]
<1>6. status \in Statuses
  BY <1>4, <1>5 DEF C!NormalizeServerInfo, Statuses
<1>7. held \in SUBSET Int
  OBVIOUS
<1>8. stages' = [stages EXCEPT ![p] = r]
  BY <1>3
<1> HIDE DEF status, held
<1>9. /\ r \in StageRecords /\ r.pc = "read" /\ r.stage = stage /\ r.activation = a
      /\ r.boundary = 0 /\ r.result = "none"
  BY <1>6, <1>7, IdleOK DEF StageRecords, StagePcs, C!Idle
<1> HIDE DEF r
<1>10. StageOK(r)
  BY <1>1, <1>4, <1>9 DEF StageOK
<1>11. /\ stages' \in [Operators -> StageRecords] /\ stages'[p] = r
       /\ \A q \in Operators : q # p => stages'[q] = stages[q]
  BY <1>8, <1>9, StageSet DEF CeremonyInv
<1>12. UNCHANGED <<pool, profileFile, verified>> /\ C!Offline /\ stages[p].pc # "wait"
  BY DEF C!StartStage
<1> QED BY <1>10, <1>11, <1>12, OfflineStep, Unchanging

\* The account that a stage reads is ready in the last ledger too, unless the key holder
\* has changed it since.
LEMMA ReadReady ==
    ASSUME CeremonyInv, NEW at \in C!Nodes, Ready(ledgers[at]), lastOwn <= at
    PROVE  Ready(ledgers[C!tip])
<1>0. /\ C!tip \in Nat /\ at \in 1 .. C!tip
      /\ (at = C!tip \/ (at = C!tip - 1 /\ at \in 1 .. C!tip - 1))
  BY NodesAre
<1>3. at = C!tip - 1 => at + 1 = C!tip
  BY <1>0
<1>1. at = C!tip \/ (at \in 1 .. C!tip - 1 /\ at + 1 = C!tip)
  BY <1>0, <1>3
<1>2. ASSUME at \in 1 .. C!tip - 1, at + 1 = C!tip
      PROVE  Ready(ledgers[C!tip])
  <2>1. Gentle(ledgers[at], ledgers[C!tip])
    BY <1>2 DEF CeremonyInv, LedgersOK
  <2>2. ledgers[at] \in C!Accounts /\ ledgers[C!tip] \in C!Accounts
    <3>1. at \in 1 .. C!tip /\ C!tip \in 1 .. C!tip
      BY <1>2, NodesAre
    <3> QED BY <3>1 DEF CeremonyInv, LedgersOK, C!tip
  <2> QED BY <2>1, <2>2, GentleIsReady
<1> QED BY <1>1, <1>2

\* A stage reads the account and decides to submit, to end or to report an error.
LEMMA ReadStep ==
    ASSUME CeremonyInv, NEW p \in Operators, C!ReadAccount(p)
    PROVE  CeremonyInv'
<1>1. /\ stages[p].pc = "read" /\ stages[p].stage \in {"status", "set-regular-key", "disable-master-key"}
      /\ C!Offline /\ UNCHANGED <<pool, profileFile, verified>>
  BY DEF C!ReadAccount
<1>2. stages[p] \in StageRecords /\ StageOK(stages[p])
  BY DEF CeremonyInv
<1>3. PICK at \in C!Nodes :
        \/ C!End(p)
        \/ stages' = [stages EXCEPT ![p] = [C!Idle EXCEPT !.result = "CEREMONY_MASTER_KEY_ALREADY_DISABLED"]]
        \/ /\ stages' = [stages EXCEPT ![p].pc = "submit", ![p].readAt = at]
           /\ stages[p].stage = "set-regular-key"
              \/ /\ stages[p].stage = "disable-master-key"
                 /\ C!SummarizeAccountState(ledgers[at]).exists
                 /\ C!AssertReadyToDisableMasterKey(C!SummarizeAccountState(ledgers[at]))
  <2>1. PICK at \in C!Nodes :
          LET state == C!SummarizeAccountState(ledgers[at]) IN
          IF ~state.exists THEN C!End(p)
          ELSE CASE stages[p].stage = "status" -> C!End(p)
                 [] stages[p].stage = "set-regular-key" ->
                      IF ~C!AssertReadyToSetRegularKey(state)
                      THEN stages' = [stages EXCEPT ![p] = [C!Idle EXCEPT !.result = "CEREMONY_MASTER_KEY_ALREADY_DISABLED"]]
                      ELSE IF state.regularKey = "ACCOUNT_ZERO" THEN C!End(p)
                      ELSE stages' = [stages EXCEPT ![p].pc = "submit", ![p].readAt = at]
                 [] OTHER ->
                      IF ~C!AssertReadyToDisableMasterKey(state) THEN C!End(p)
                      ELSE stages' = [stages EXCEPT ![p].pc = "submit", ![p].readAt = at]
    BY DEF C!ReadAccount
  <2>2. CASE stages[p].stage = "status"
    BY <2>1, <2>2
  <2>3. CASE stages[p].stage = "set-regular-key"
    BY <2>1, <2>3
  <2>4. CASE stages[p].stage = "disable-master-key"
    BY <2>1, <2>4
  <2> QED BY <1>1, <2>2, <2>3, <2>4
<1>4. CASE C!End(p)
  BY <1>1, <1>4, EndStep
<1>5. CASE stages' = [stages EXCEPT ![p] = [C!Idle EXCEPT !.result = "CEREMONY_MASTER_KEY_ALREADY_DISABLED"]]
  <2> DEFINE r == [C!Idle EXCEPT !.result = "CEREMONY_MASTER_KEY_ALREADY_DISABLED"]
  <2>1. r \in StageRecords /\ r.pc = "idle" /\ r.stage = "none" /\ r.boundary = 0
        /\ r.result = "CEREMONY_MASTER_KEY_ALREADY_DISABLED"
    BY IdleOK DEF StageRecords, StageResults, C!Idle
  <2> HIDE DEF r
  <2>2. StageOK(r)
    BY <2>1, NodesAre DEF StageOK
  <2>3. /\ stages' \in [Operators -> StageRecords] /\ stages'[p] = r
        /\ \A q \in Operators : q # p => stages'[q] = stages[q]
    BY <1>5, <2>1, StageSet DEF CeremonyInv, r
  <2> QED BY <1>1, <2>2, <2>3, OfflineStep, Unchanging
<1>6. CASE /\ stages' = [stages EXCEPT ![p].pc = "submit", ![p].readAt = at]
           /\ stages[p].stage = "set-regular-key"
              \/ /\ stages[p].stage = "disable-master-key"
                 /\ C!SummarizeAccountState(ledgers[at]).exists
                 /\ C!AssertReadyToDisableMasterKey(C!SummarizeAccountState(ledgers[at]))
  <2> DEFINE r == [stages[p] EXCEPT !.pc = "submit", !.readAt = at]
  <2>0. at \in 1 .. C!tip /\ C!tip \in Nat /\ at \in Nat
    BY NodesAre
  <2>1. /\ r \in StageRecords /\ r.pc = "submit" /\ r.stage = stages[p].stage /\ r.readAt = at
        /\ r.activation = stages[p].activation /\ r.boundary = stages[p].boundary /\ r.result = stages[p].result
    BY <1>2, <2>0 DEF StageRecords, StagePcs
  <2>2. stages' = [stages EXCEPT ![p] = r]
    BY <1>6
  <2> HIDE DEF r
  <2>3. r.stage = "disable-master-key" => Ready(ledgers[at])
    <3>1. ledgers[at] \in C!Accounts
      BY <2>0 DEF CeremonyInv, LedgersOK, C!tip
    <3>2. r.stage = "disable-master-key" =>
            /\ C!SummarizeAccountState(ledgers[at]).exists
            /\ C!AssertReadyToDisableMasterKey(C!SummarizeAccountState(ledgers[at]))
      BY <1>6, <2>1
    <3> QED BY <3>1, <3>2 DEF C!AssertReadyToDisableMasterKey, C!SummarizeAccountState, Ready,
          C!Accounts, C!Keys
  <2>4. r.stage = "disable-master-key" =>
           r.readAt <= C!tip /\ (lastOwn <= r.readAt => Ready(ledgers[C!tip]))
    BY <2>0, <2>1, <2>3, ReadReady
  <2>5. r.boundary = 0 /\ r.result = "none"
    BY <1>1, <1>2, <2>1 DEF StageOK, StageRecords
  <2>6. StageOK(r)
    BY <1>1, <1>6, <2>0, <2>1, <2>4, <2>5 DEF StageOK
  <2>7. /\ stages' \in [Operators -> StageRecords] /\ stages'[p] = r
        /\ \A q \in Operators : q # p => stages'[q] = stages[q]
    BY <2>1, <2>2, StageSet DEF CeremonyInv
  <2> QED BY <1>1, <2>6, <2>7, OfflineStep, Unchanging
<1> QED BY <1>3, <1>4, <1>5, <1>6

\* A stage submits, to Testnet, and waits.
LEMMA StageSubmitStep ==
    ASSUME CeremonyInv, NEW p \in Operators, C!Submit(p)
    PROVE  CeremonyInv'
<1> DEFINE r == [stages[p] EXCEPT !.pc = "wait"]
           kind == CASE stages[p].stage = "create-account" -> "fund"
                     [] stages[p].stage = "set-regular-key" -> "setRegularKey"
                     [] stages[p].stage = "disable-master-key" -> "disableMaster"
                     [] stages[p].stage = "verify" -> "payment"
           new == [by |-> p, network |-> stages[p].status.networkId, kind |-> kind]
<1>1. stages[p] \in StageRecords /\ StageOK(stages[p])
  BY DEF CeremonyInv
<1>2. /\ stages[p].pc = "submit" \/ (stages[p].pc = "read" /\ stages[p].stage = "create-account")
      /\ pool' = pool \cup {new} /\ stages' = [stages EXCEPT ![p] = r]
      /\ C!Offline /\ UNCHANGED <<profileFile, verified>>
  BY DEF C!Submit, C!Goto
<1>3. /\ r \in StageRecords /\ r.pc = "wait" /\ r.stage = stages[p].stage /\ r.result = stages[p].result
      /\ r.activation = stages[p].activation /\ r.readAt = stages[p].readAt /\ r.boundary = stages[p].boundary
  BY <1>1, GotoFields DEF StagePcs
<1>4. stages[p].stage \in {"create-account", "set-regular-key", "disable-master-key", "verify"}
  BY <1>1, <1>2 DEF StageOK
<1>5. kind \in StageKinds /\ (stages[p].stage = "disable-master-key" => kind = "disableMaster")
  <2>1. CASE stages[p].stage = "create-account"
    BY <2>1 DEF StageKinds
  <2>2. CASE stages[p].stage = "set-regular-key"
    BY <2>2 DEF StageKinds
  <2>3. CASE stages[p].stage = "disable-master-key"
    BY <2>3 DEF StageKinds
  <2>4. CASE stages[p].stage = "verify"
    BY <2>4 DEF StageKinds
  <2> QED BY <1>4, <2>1, <2>2, <2>3, <2>4
<1>6. stages[p].status.networkId = 1
  <2>1. stages[p].status \in Statuses
    BY <1>1 DEF StageRecords
  <2> QED BY <2>1 DEF Statuses, C!NoStatus
<1> HIDE DEF r, kind
<1>7. StageOK(r)
  BY <1>1, <1>2, <1>3 DEF StageOK
<1>8. new \in Txs /\ new.by = p /\ new.kind = kind
  BY <1>5, <1>6 DEF Txs
<1> HIDE DEF new
<1>9. Waits(r, new)
  BY <1>3, <1>5, <1>8 DEF Waits
<1>10. \A tx \in pool : tx.by # p
  BY <1>2 DEF CeremonyInv, PoolOK, Waits
<1>11. /\ stages' \in [Operators -> StageRecords] /\ stages'[p] = r
       /\ \A q \in Operators : q # p => stages'[q] = stages[q]
  BY <1>2, <1>3, StageSet DEF CeremonyInv
<1>12. \A tx \in pool' : /\ tx \in Txs /\ (tx.by # "owner" => tx.kind \in StageKinds)
                         /\ IF tx.by = p THEN Waits(r, tx) ELSE tx \in pool \/ tx.by = "nobody"
  BY <1>2, <1>5, <1>8, <1>9, <1>10 DEF CeremonyInv, PoolOK
<1>13. \A tx, ty \in pool' : tx.by = p /\ ty.by = p => ty = tx
  BY <1>2, <1>10
<1> QED BY <1>2, <1>7, <1>11, <1>12, <1>13, OfflineStep, Unchanging

\* A stage whose transaction succeeded ends; verify reports what is sealed.
LEMMA ValidatedStep ==
    ASSUME CeremonyInv, NEW p \in Operators, C!Validated(p)
    PROVE  CeremonyInv'
<1>1. stages[p] \in StageRecords /\ StageOK(stages[p]) /\ stages[p].pc = "validated"
  BY DEF CeremonyInv, C!Validated
<1>2. C!Offline /\ UNCHANGED <<pool, profileFile>>
  BY DEF C!Validated
<1>3. \A a \in verified' : a \in verified \/ SealedAt(a)
  <2>1. stages[p].stage = "verify" => SealedAt(stages[p].activation)
    BY <1>1 DEF StageOK
  <2> QED BY <2>1 DEF C!Validated
<1>4. CASE stages[p].stage = "disable-master-key"
  <2> DEFINE r == [stages[p] EXCEPT !.pc = "idle", !.result = "boundary"]
  <2>1. /\ stages' = [stages EXCEPT ![p] = r] /\ \E at \in C!Nodes : at >= stages[p].boundary
    BY <1>4 DEF C!Validated, C!FirstValidatedLedgerAfter
  <2>2. /\ r \in StageRecords /\ r.pc = "idle" /\ r.stage = stages[p].stage /\ r.result = "boundary"
        /\ r.activation = stages[p].activation /\ r.readAt = stages[p].readAt /\ r.boundary = stages[p].boundary
    BY <1>1 DEF StageRecords, StagePcs, StageResults
  <2> HIDE DEF r
  <2>3. stages[p].boundary \in Nat /\ stages[p].boundary <= C!tip
    <3>1. PICK at \in C!Nodes : at >= stages[p].boundary
      BY <2>1
    <3>2. at \in 1 .. C!tip /\ C!tip \in Nat
      BY NodesAre
    <3> QED BY <1>1, <3>1, <3>2 DEF StageRecords
  <2>4. stages[p].boundary # 0
    BY <1>1 DEF StageOK, StageRecords
  <2>5. StageOK(r)
    BY <1>1, <1>4, <2>2, <2>3, <2>4, NodesAre DEF StageOK
  <2>6. /\ stages' \in [Operators -> StageRecords] /\ stages'[p] = r
        /\ \A q \in Operators : q # p => stages'[q] = stages[q]
    BY <2>1, <2>2, StageSet DEF CeremonyInv
  <2> QED BY <1>1, <1>2, <1>3, <2>5, <2>6, OfflineStep, Unchanging
<1>5. CASE stages[p].stage # "disable-master-key"
  <2>1. C!End(p)
    BY <1>5 DEF C!Validated
  <2>2. /\ stages' \in [Operators -> StageRecords] /\ stages'[p] = C!Idle /\ StageOK(C!Idle)
        /\ \A q \in Operators : q # p => stages'[q] = stages[q]
    BY <2>1, IdleOK, StageSet DEF CeremonyInv, C!End
  <2> QED BY <1>1, <1>2, <1>3, <2>2, OfflineStep, Unchanging
<1> QED BY <1>4, <1>5

\* The assertions hold of the account at the activation ledger, whichever node answers.
LEMMA AssertionsSeal ==
    ASSUME CeremonyInv, NEW p \in Operators, stages[p].activation > 0, C!Assertions(p)
    PROVE  SealedAt(stages[p].activation)
<1> DEFINE a == stages[p].activation
<1>1. PICK x \in C!Nodes, y \in C!Nodes :
        C!AssertBlackholedAtActivation(a, C!Answer(a, x), C!Answer(a, y))
  BY DEF C!Assertions
<1>2. a \in Nat /\ C!tip \in Nat /\ x \in 1 .. C!tip /\ y \in 1 .. C!tip
  BY NodesAre DEF CeremonyInv, StageRecords
<1>3. a <= x /\ a <= y
  BY <1>1 DEF C!AssertBlackholedAtActivation, C!RegistryAccountRoot, C!NormalizeAccountObjectsPage, C!Answer
<1>4. a \in 1 .. C!tip
  BY <1>2, <1>3
<1>5. ledgers[a] \in C!Accounts
  BY <1>4 DEF CeremonyInv, LedgersOK, C!tip
<1>6. C!AssertRegistryBlackholed([ledgers[a] EXCEPT !.delegate = ledgers[a].delegate])
  BY <1>1, <1>3 DEF C!AssertBlackholedAtActivation, C!Answer
<1>7. [ledgers[a] EXCEPT !.delegate = ledgers[a].delegate] = ledgers[a]
  BY <1>5 DEF C!Accounts
<1> QED BY <1>4, <1>6, <1>7 DEF SealedAt

\* verify and emit-profile go on only for a registry that is sealed.
LEMMA AssertStep ==
    ASSUME CeremonyInv, NEW p \in Operators, C!AssertRegistry(p)
    PROVE  CeremonyInv'
<1>1. /\ stages[p].pc = "read" /\ stages[p].activation > 0 /\ stages[p] \in StageRecords /\ StageOK(stages[p])
      /\ C!Offline /\ UNCHANGED <<pool, profileFile, verified>>
  BY DEF CeremonyInv, C!AssertRegistry
<1>2. stages[p].stage \in {"verify", "emit-profile"}
  BY <1>1 DEF StageOK
<1>3. CASE C!End(p)
  BY <1>1, <1>3, EndStep
<1>4. CASE C!Assertions(p) /\ C!Goto(p, IF stages[p].stage = "verify" THEN "submit" ELSE "absent")
  <2> DEFINE pc == IF stages[p].stage = "verify" THEN "submit" ELSE "absent"
             r == [stages[p] EXCEPT !.pc = pc]
  <2>1. SealedAt(stages[p].activation)
    BY <1>1, <1>4, AssertionsSeal
  <2>2. pc \in StagePcs
    BY DEF StagePcs
  <2>3. /\ r.pc = pc /\ r.stage = stages[p].stage /\ r.result = stages[p].result
        /\ r.activation = stages[p].activation /\ r.readAt = stages[p].readAt /\ r.boundary = stages[p].boundary
    BY <1>1, <2>2, GotoFields
  <2>4. stages[p].boundary = 0 /\ stages[p].result = "none"
    BY <1>1 DEF StageOK, StageRecords
  <2> HIDE DEF r
  <2>5. StageOK(r)
    BY <1>1, <1>2, <2>1, <2>3, <2>4, NodesAre DEF StageOK
  <2> QED BY <1>1, <1>4, <2>2, <2>5, GotoStep DEF r
<1> QED BY <1>3, <1>4 DEF C!AssertRegistry

\* emit-profile looks once more whether the file exists.
LEMMA AbsentStep ==
    ASSUME CeremonyInv, NEW p \in Operators, C!ProfileFileAbsent(p)
    PROVE  CeremonyInv'
<1>1. /\ stages[p].pc = "absent" /\ stages[p] \in StageRecords /\ StageOK(stages[p])
      /\ C!Offline /\ UNCHANGED <<pool, profileFile, verified>>
  BY DEF CeremonyInv, C!ProfileFileAbsent
<1>2. CASE C!End(p)
  BY <1>1, <1>2, EndStep
<1>3. CASE C!Goto(p, "write")
  <2> DEFINE r == [stages[p] EXCEPT !.pc = "write"]
  <2>1. /\ r.pc = "write" /\ r.stage = stages[p].stage /\ r.result = stages[p].result
        /\ r.activation = stages[p].activation /\ r.readAt = stages[p].readAt /\ r.boundary = stages[p].boundary
    BY <1>1, GotoFields DEF StagePcs
  <2> HIDE DEF r
  <2>2. StageOK(r)
    BY <1>1, <2>1 DEF StageOK
  <2> QED BY <1>1, <1>3, <2>2, GotoStep DEF r, StagePcs
<1> QED BY <1>2, <1>3 DEF C!ProfileFileAbsent

\* What is published is sealed.
LEMMA WriteStep ==
    ASSUME CeremonyInv, NEW p \in Operators, C!WriteProfile(p)
    PROVE  CeremonyInv'
<1>1. /\ stages[p].pc = "write" /\ stages[p] \in StageRecords /\ StageOK(stages[p])
      /\ C!Offline /\ UNCHANGED <<pool, verified>>
  BY DEF CeremonyInv, C!WriteProfile
<1>2. CASE UNCHANGED profileFile /\ C!End(p)
  BY <1>1, <1>2, EndStep
<1>3. CASE profileFile' = C!BuildCeremonyProfile("public", stages[p].activation) /\ C!Goto(p, "gate")
  <2> DEFINE r == [stages[p] EXCEPT !.pc = "gate"]
  <2>1. /\ r \in StageRecords /\ r.pc = "gate" /\ r.stage = stages[p].stage /\ r.result = stages[p].result
        /\ r.activation = stages[p].activation /\ r.readAt = stages[p].readAt /\ r.boundary = stages[p].boundary
    BY <1>1, GotoFields DEF StagePcs
  <2>2. stages' = [stages EXCEPT ![p] = r]
    BY <1>3 DEF C!Goto
  <2> HIDE DEF r
  <2>3. StageOK(r)
    BY <1>1, <2>1 DEF StageOK
  <2>4. /\ stages' \in [Operators -> StageRecords] /\ stages'[p] = r
        /\ \A q \in Operators : q # p => stages'[q] = stages[q]
    BY <2>1, <2>2, StageSet DEF CeremonyInv
  <2>5. SealedAt(profileFile'.activation)
    <3>1. SealedAt(stages[p].activation)
      BY <1>1 DEF StageOK
    <3> QED BY <1>3, <3>1 DEF C!BuildCeremonyProfile
  <2> QED BY SMTT(30), <1>1, <2>3, <2>4, <2>5, OfflineStep, Unchanging
<1> QED BY <1>2, <1>3 DEF C!WriteProfile

\* The final gate changes nothing but its own stage.
LEMMA GateStep ==
    ASSUME CeremonyInv, NEW p \in Operators, C!FinalGate(p)
    PROVE  CeremonyInv'
BY EndStep DEF C!FinalGate

\* A stage that is interrupted ends; nobody waits for its transaction.
LEMMA AbortStep ==
    ASSUME CeremonyInv, NEW p \in Operators, C!Abort(p)
    PROVE  CeremonyInv'
<1>1. PICK lost \in BOOLEAN :
        pool' = IF lost THEN {tx \in pool : tx.by # p}
                ELSE {[tx EXCEPT !.by = IF @ = p THEN "nobody" ELSE @] : tx \in pool}
  BY DEF C!Abort
<1>2. C!End(p) /\ C!Offline /\ UNCHANGED <<profileFile, verified>>
  BY DEF C!Abort
<1>3. /\ stages' \in [Operators -> StageRecords] /\ stages'[p] = C!Idle /\ StageOK(C!Idle)
      /\ \A q \in Operators : q # p => stages'[q] = stages[q]
  BY <1>2, IdleOK, StageSet DEF CeremonyInv, C!End
<1>4. p # "nobody" /\ p # "owner"
  BY DEF CeremonyInv, OperatorsAssumption
<1>5. \A tx \in pool : tx \in Txs /\ (tx.by # "owner" => tx.kind \in StageKinds)
  BY DEF CeremonyInv, PoolOK
<1>6. \A tx \in pool' : /\ tx \in Txs /\ (tx.by # "owner" => tx.kind \in StageKinds)
                        /\ tx.by # p /\ (tx \in pool \/ tx.by = "nobody")
  <2>1. CASE lost
    BY <1>1, <1>5, <2>1
  <2>2. CASE ~lost
    <3> SUFFICES ASSUME NEW tx \in pool
                 PROVE  LET u == [tx EXCEPT !.by = IF @ = p THEN "nobody" ELSE @] IN
                        /\ u \in Txs /\ (u.by # "owner" => u.kind \in StageKinds)
                        /\ u.by # p /\ (u \in pool \/ u.by = "nobody")
      BY <1>1, <2>2
    <3>1. tx \in Txs /\ (tx.by # "owner" => tx.kind \in StageKinds)
      BY <1>5
    <3>2. CASE tx.by = p
      BY <1>4, <3>1, <3>2 DEF Txs
    <3>3. CASE tx.by # p
      <4>1. [tx EXCEPT !.by = IF @ = p THEN "nobody" ELSE @] = tx
        BY <3>1, <3>3 DEF Txs
      <4> QED BY <3>1, <3>3, <4>1
    <3> QED BY <3>2, <3>3
  <2> QED BY <2>1, <2>2
<1> QED BY <1>2, <1>3, <1>6, OfflineStep, Unchanging

\* The pool alone changes.
LEMMA PoolStep ==
    ASSUME CeremonyInv, UNCHANGED <<ledgers, stages, profileFile, verified, lastOwn>>, own' \in 0 .. MaxOwn,
           \A tx \in pool' : tx \in pool \/ (tx \in Txs /\ tx.by = "owner")
    PROVE  CeremonyInv'
<1>1. C!tip' = C!tip /\ OperatorsAssumption'
  BY DEF C!tip, CeremonyInv, OperatorsAssumption
<1>2. LedgersOK' /\ ReportsOK'
  BY <1>1 DEF CeremonyInv, LedgersOK, ReportsOK, SealedAt
<1>3. \A q \in Operators : StageOK(stages[q])'
  BY <1>1 DEF CeremonyInv, StageOK, SealedAt
<1>4. PoolOK'
  BY DEF CeremonyInv, PoolOK, Waits, OperatorsAssumption
<1> QED BY <1>1, <1>2, <1>3, <1>4 DEF CeremonyInv

\* The key holder's transactions may be of any kind.
LEMMA OwnStep ==
    ASSUME CeremonyInv, C!Own
    PROVE  CeremonyInv'
<1>1. PICK k \in OwnKinds : pool' = pool \cup {[by |-> "owner", kind |-> k, network |-> 1]}
  BY DEF C!Own
<1>2. [by |-> "owner", kind |-> k, network |-> 1] \in Txs
  BY DEF Txs
<1>3. own' \in 0 .. MaxOwn
  BY DEF C!Own, CeremonyInv, OperatorsAssumption
<1> QED BY <1>1, <1>2, <1>3, PoolStep DEF C!Own

\* A transaction that nobody waits for passes its last ledger.
LEMMA ExpireStep ==
    ASSUME CeremonyInv, C!Expire
    PROVE  CeremonyInv'
BY PoolStep DEF C!Expire, C!Offline, CeremonyInv

\* A ledger closes without a transaction, or without effect.
LEMMA CloseEmpty ==
    ASSUME CeremonyInv
    PROVE  ledgers[C!tip] \in C!Accounts /\ Gentle(ledgers[C!tip], ledgers[C!tip])
BY SMTT(30) DEF CeremonyInv, LedgersOK, C!tip, Gentle

\* A validated ledger, with at most one transaction.
LEMMA CloseStep ==
    ASSUME CeremonyInv, C!Close
    PROVE  CeremonyInv'
<1>0. UNCHANGED <<own, profileFile, verified>> /\ OperatorsAssumption' /\ own' \in 0 .. MaxOwn
  BY DEF C!Close, CeremonyInv, OperatorsAssumption
<1>1. CASE ledgers' = Append(ledgers, ledgers[C!tip]) /\ UNCHANGED <<pool, stages, lastOwn>>
  <2>1. LedgersOK' /\ \A a : SealedAt(a) => SealedAt(a)'
    BY <1>1, CloseEmpty, CloseLedgers
  <2>2. ASSUME NEW q \in Operators PROVE StageOK(stages[q])'
    <3>1. stages[q] \in StageRecords /\ StageOK(stages[q]) /\ stages'[q] = stages[q]
      BY <1>1 DEF CeremonyInv
    <3>2. \A r \in StageRecords : StageOK(r) => StageOK(r)'
      BY <1>1, CloseEmpty, StageStays
    <3> QED BY <1>1, <3>1, <3>2 DEF StageOK, SealedAt
  <2>3. PoolOK' /\ ReportsOK'
    BY <1>0, <1>1, <2>1 DEF CeremonyInv, PoolOK, Waits, ReportsOK
  <2> QED BY <1>0, <1>1, <2>1, <2>2, <2>3 DEF CeremonyInv
<1>2. ASSUME NEW tx \in pool, NEW ok \in BOOLEAN,
             ok <=> tx.network = 1 /\ C!Accepted(ledgers[C!tip], tx.kind),
             ledgers' = Append(ledgers, IF ok THEN C!Apply(ledgers[C!tip], tx.kind) ELSE ledgers[C!tip]),
             pool' = pool \ {tx},
             stages' = [q \in Operators |->
                IF q # tx.by THEN stages[q]
                ELSE IF ok THEN [stages[q] EXCEPT !.pc = "validated", !.boundary = C!tip + 2]
                ELSE C!Idle],
             lastOwn' = IF ok /\ tx.by = "owner" THEN C!tip + 1 ELSE lastOwn
      PROVE  CeremonyInv'
  <2> DEFINE new == IF ok THEN C!Apply(ledgers[C!tip], tx.kind) ELSE ledgers[C!tip]
  <2>1. /\ tx \in Txs /\ (tx.by # "owner" => tx.kind \in StageKinds)
        /\ (tx.by \in Operators => Waits(stages[tx.by], tx))
    BY DEF CeremonyInv, PoolOK
  <2>2. new \in C!Accounts
    BY CloseEmpty, ApplyTyped
  <2>3. C!AssertRegistryBlackholed(ledgers[C!tip]) => C!AssertRegistryBlackholed(new)
    BY <1>2, CloseEmpty, BlackholedAccepts
  <2>4. \/ lastOwn' = lastOwn /\ Gentle(ledgers[C!tip], new)
        \/ lastOwn' = C!tip + 1
    BY <1>2, <2>1, CloseEmpty, StagesAreGentle
  <2>5. ledgers' = Append(ledgers, new)
    BY <1>2
  <2> HIDE DEF new
  <2>6. LedgersOK' /\ (\A a : SealedAt(a) => SealedAt(a)') /\ C!tip' = C!tip + 1
    BY <2>2, <2>3, <2>4, <2>5, CloseLedgers
  <2>7. C!tip \in Nat /\ ledgers'[C!tip + 1] = new
    BY <2>2, <2>3, <2>4, <2>5, CloseLedgers
  <2>8. \A r \in StageRecords : StageOK(r) => StageOK(r)'
    BY <2>2, <2>3, <2>4, <2>5, StageStays
  <2>9. C!Idle \in StageRecords /\ StageOK(C!Idle)
    BY IdleOK
  <2>10. ASSUME NEW q \in Operators, q # tx.by
         PROVE  stages'[q] = stages[q] /\ stages'[q] \in StageRecords /\ StageOK(stages[q])'
    <3>1. stages[q] \in StageRecords /\ StageOK(stages[q]) /\ stages'[q] = stages[q]
      BY <1>2, <2>10 DEF CeremonyInv
    <3> QED BY <2>8, <3>1 DEF StageOK, SealedAt
  <2>11. ASSUME NEW q \in Operators, q = tx.by
         PROVE  stages'[q] \in StageRecords /\ StageOK(stages[q])'
    <3>1. CASE ~ok
      <4>1. stages'[q] = C!Idle
        BY <1>2, <2>11, <3>1
      <4> QED BY <2>8, <2>9, <4>1 DEF StageOK, SealedAt
    <3>2. CASE ok
      <4>1. stages[q] \in StageRecords /\ StageOK(stages[q]) /\ stages[q].pc = "wait"
        BY <2>1, <2>11 DEF CeremonyInv, Waits
      <4>2. PICK b \in Nat : b = C!tip + 2
        BY <2>7
      <4>3. PICK r \in StageRecords :
              /\ r = stages'[q] /\ r.pc = "validated" /\ r.stage = stages[q].stage /\ r.result = stages[q].result
              /\ r.activation = stages[q].activation /\ r.readAt = stages[q].readAt /\ r.boundary = b
        <5> DEFINE r == [stages[q] EXCEPT !.pc = "validated", !.boundary = b]
        <5>1. /\ r \in StageRecords /\ r.pc = "validated" /\ r.stage = stages[q].stage /\ r.result = stages[q].result
              /\ r.activation = stages[q].activation /\ r.readAt = stages[q].readAt /\ r.boundary = b
          BY <4>1 DEF StageRecords, StagePcs
        <5>2. stages'[q] = r
          BY <1>2, <2>11, <3>2, <4>2
        <5> HIDE DEF r
        <5> QED BY <5>1, <5>2
      <4>4. r.stage \in {"verify", "emit-profile"} => SealedAt(r.activation)'
        BY <2>6, <4>1, <4>3 DEF StageOK
      <4>5. r.stage = "disable-master-key" /\ lastOwn' <= r.readAt => Ready(new) /\ new.masterDisabled
        <5> SUFFICES ASSUME r.stage = "disable-master-key", lastOwn' <= r.readAt
                     PROVE  Ready(new) /\ new.masterDisabled
          OBVIOUS
        <5>1. tx.kind = "disableMaster" /\ tx.by # "owner"
          BY <2>1, <2>11, <4>3 DEF Waits, CeremonyInv, OperatorsAssumption
        <5>2. lastOwn <= r.readAt
          BY <1>2, <5>1
        <5>3. Ready(ledgers[C!tip])
          BY <4>1, <4>3, <5>2 DEF StageOK
        <5>4. new = [ledgers[C!tip] EXCEPT !.masterDisabled = TRUE]
          BY <3>2, <5>1 DEF new, C!Apply
        <5> QED BY <5>3, <5>4, CloseEmpty DEF Ready, C!Accounts
      <4>6. r.result = "none"
        BY <4>1, <4>3 DEF StageOK
      <4>7. ledgers'[b - 1] = new /\ b >= 2 /\ b <= C!tip + 2
        BY <2>7, <4>2
      <4>8. StageOK(r)'
        BY SMTT(30), <2>6, <2>7, <4>3, <4>4, <4>5, <4>6, <4>7 DEF StageOK
      <4> QED BY <4>3, <4>8 DEF StageOK, SealedAt
    <3> QED BY <3>1, <3>2
  <2>12. stages' \in [Operators -> StageRecords] /\ \A q \in Operators : StageOK(stages[q])'
    <3>1. \A q \in Operators : stages'[q] \in StageRecords /\ StageOK(stages[q])'
      BY <2>10, <2>11
    <3> QED BY <1>2, <3>1
  <2>13. ReportsOK'
    BY SMTT(30), <1>0, <2>6 DEF CeremonyInv, ReportsOK
  <2>14. PoolOK'
    <3>1. ASSUME NEW u \in pool', u.by \in Operators PROVE u \in pool /\ u.by # tx.by
      BY <1>2, <3>1 DEF CeremonyInv, PoolOK
    <3>2. ASSUME NEW u \in pool', u.by \in Operators PROVE Waits(stages'[u.by], u)
      <4>1. u \in pool /\ stages'[u.by] = stages[u.by]
        BY <2>10, <3>1, <3>2
      <4> QED BY <3>2, <4>1 DEF CeremonyInv, PoolOK
    <3> QED BY ZenonT(40), <1>2, <3>2 DEF CeremonyInv, PoolOK, Waits, Txs
  <2> QED BY <1>0, <2>6, <2>12, <2>13, <2>14 DEF CeremonyInv
<1> QED BY <1>1, <1>2 DEF C!Close

\* The invariant holds initially.
LEMMA CeremonyInit ==
    ASSUME OperatorsAssumption, C!Init
    PROVE  CeremonyInv
<1>1. C!Absent \in C!Accounts
  BY DEF C!Absent, C!Accounts, C!Keys
<1>2. C!tip = 1 /\ ledgers \in Seq(C!Accounts)
  BY <1>1 DEF C!Init, C!tip
<1>3. LedgersOK
  BY <1>2 DEF C!Init, LedgersOK
<1>4. C!Idle \in StageRecords /\ StageOK(C!Idle)
  BY <1>2 DEF C!Idle, StageRecords, StageOK, StagePcs, C!Stages, StageResults, Statuses
<1> QED BY <1>3, <1>4 DEF C!Init, CeremonyInv, OperatorsAssumption, PoolOK, ReportsOK

\* Every step preserves the invariant.
LEMMA CeremonyNext ==
    ASSUME CeremonyInv, [C!Next]_(C!vars)
    PROVE  CeremonyInv'
<1>1. CASE UNCHANGED C!vars
  BY <1>1, PoolStep DEF C!vars, CeremonyInv
<1>2. ASSUME NEW p \in Operators, C!Step(p) PROVE CeremonyInv'
  BY <1>2, StartStep, ReadStep, StageSubmitStep, ValidatedStep, AssertStep, AbsentStep, WriteStep, GateStep,
     AbortStep DEF C!Step
<1> QED BY <1>1, <1>2, CloseStep, OwnStep, ExpireStep DEF C!Next

\* The invariant holds in every reachable state of the ceremony.
THEOREM CeremonyInvariant ==
    ASSUME OperatorsAssumption
    PROVE  C!Spec => []CeremonyInv
<1>1. C!Init => CeremonyInv
  BY CeremonyInit
<1>2. CeremonyInv /\ [C!Next]_(C!vars) => CeremonyInv'
  BY CeremonyNext
<1> QED BY <1>1, <1>2, PTL DEF C!Spec

\* The ledgers hold accounts, and a boundary that was printed, a report and a published
\* profile speak of validated ledgers (firstValidatedLedgerAfter).
THEOREM CeremonyTyped ==
    ASSUME OperatorsAssumption
    PROVE  C!Spec => []C!TypeOK
<1>1. CeremonyInv => C!TypeOK
  <2> SUFFICES ASSUME CeremonyInv PROVE C!TypeOK
    OBVIOUS
  <2>1. \A n \in DOMAIN ledgers : ledgers[n] \in C!Accounts
    BY DEF CeremonyInv, LedgersOK
  <2>2. \A tx \in pool : tx.by \in Operators \cup {"owner", "nobody"} /\ tx.network \in {0, 1}
    BY DEF CeremonyInv, PoolOK, Txs
  <2>3. \A p \in Operators : stages[p].result = "boundary" => stages[p].boundary \in 1 .. C!tip
    BY DEF CeremonyInv, StageOK
  <2>4. /\ verified \subseteq 1 .. C!tip
        /\ (profileFile # C!NoFile => profileFile.activation \in 1 .. C!tip)
    BY DEF CeremonyInv, ReportsOK, SealedAt
  <2> QED BY <2>1, <2>2, <2>3, <2>4 DEF CeremonyInv, LedgersOK, C!TypeOK
<1> QED BY <1>1, CeremonyInvariant, PTL

\* A profile is only ever published, and a registry only reported as verified, when from
\* the activation ledger on nobody can change the account, for ever: however many stages
\* run at a time, are repeated or interrupted, whatever transactions the key holder sends,
\* and whichever nodes answer (assertBlackholedAtActivation, runVerify, runEmitProfile).
THEOREM PublishedIsSealed ==
    ASSUME OperatorsAssumption
    PROVE  C!Spec => []C!PublishedSealed
<1>1. CeremonyInv => C!PublishedSealed
  BY SealedStays DEF CeremonyInv, ReportsOK, C!PublishedSealed
<1> QED BY <1>1, CeremonyInvariant, PTL

\* The stage that disables the master key leaves an account with the key ACCOUNT_ZERO that
\* can receive payments, unless the key holder sent something after the ledger that the
\* stage had read (assertReadyToDisableMasterKey).
THEOREM NobodyIsStranded ==
    ASSUME OperatorsAssumption
    PROVE  C!Spec => []C!NotStranded
<1>1. CeremonyInv => C!NotStranded
  BY DEF CeremonyInv, StageOK, C!NotStranded, Ready, C!AssertRegistryReceivable
<1> QED BY <1>1, CeremonyInvariant, PTL

\* No stage submits to a network other than Testnet (resolveCeremonyNetworkId,
\* assertConnectedNetwork).
THEOREM TestnetOnly ==
    ASSUME OperatorsAssumption
    PROVE  C!Spec => []C!OnlyTestnet
<1>1. CeremonyInv => C!OnlyTestnet
  BY DEF CeremonyInv, PoolOK, C!OnlyTestnet, Txs
<1> QED BY <1>1, CeremonyInvariant, PTL

-----------------------------------------------------------------------------
(* Fixture bundles: the inductive invariant.                               *)

GenuineLedgers == {F!Genuine(i) : i \in Int}
GenuineEntries == {F!Entry(l) : l \in GenuineLedgers}
GenuineChunks == [from : Int, to : Int, digest : Seq(GenuineEntries)]

CaptureFields == {"pc", "to", "tmp", "previous", "pending", "chunks", "created", "linked"}

\* What a capture has collected is of the chain: each ledger names the one before it, and the
\* first is on the activated branch.
CaptureOK(s) ==
    /\ DOMAIN s = CaptureFields
    /\ s.previous = <<>> \/ \E l \in GenuineLedgers : s.previous = <<l>>
    /\ s.pending \in Seq(GenuineEntries)
    /\ s.chunks \in Seq(GenuineChunks)
    /\ IsFiniteSet(DOMAIN s.tmp)

ReaderFields == {"pc", "pin", "manifest", "at", "chunk", "entries", "previous", "written", "before"}

\* The cached entries are those of the chunk in the manifest, each at its place.
CacheOK(r) ==
    /\ r.entries \in Seq(GenuineEntries)
    /\ r.chunk \in DOMAIN r.pin.chunks =>
          \A k \in DOMAIN r.entries : r.entries[k].ledger.index = r.pin.chunks[r.chunk].from + k - 1

\* A replay works with the manifest of the digest that was printed, and what it has written
\* is the chain from activation to where it stands.
ReaderOK(r) ==
    /\ DOMAIN r = ReaderFields
    /\ r.pin.chunks \in Seq(GenuineChunks) /\ r.pin.to \in Int /\ r.pin.from \in Int /\ r.manifest = r.pin
    /\ r.at \in Int
    /\ CacheOK(r)
    /\ r.written \in Seq(GenuineLedgers)
    /\ \A k \in DOMAIN r.written : r.written[k] = F!Genuine(From + k - 1)
    /\ r.pc \in {"inspect", "check", "open", "target", "preflight"} => r.written = <<>>
    /\ r.pc \in {"target", "preflight"} => r.at = From
    /\ r.pc = "replay" => r.at = From + Len(r.written)

FixtureInv ==
    /\ FixtureAssumption
    /\ DOMAIN cap = Captures /\ \A c \in Captures : CaptureOK(cap[c]) /\ cap[c].to \in Int
    /\ \A m \in printed : m.chunks \in Seq(GenuineChunks) /\ m.to \in Int /\ m.from \in Int
    /\ reader = F!NoReader \/ ReaderOK(reader)

-----------------------------------------------------------------------------
(* A capture.                                                              *)

\* The instance of FixtureBundle counts with the operator of FiniteSets.
LEMMA SameCardinality == \A S : F!Cardinality(S) = Cardinality(S)
BY DEF Cardinality, F!Cardinality

LEMMA GenuineIs ==
    ASSUME NEW l \in GenuineLedgers
    PROVE  l.branch = 0 /\ l.parent = 0 /\ l.index \in Int /\ l = F!Genuine(l.index)
BY DEF GenuineLedgers, F!Genuine, F!Ledger

LEMMA EntryIs ==
    ASSUME NEW e \in GenuineEntries
    PROVE  e.ledger \in GenuineLedgers
BY DEF GenuineEntries, F!Entry

LEMMA ChunkOK ==
    ASSUME NEW es \in Seq(GenuineEntries), es # <<>>
    PROVE  F!Chunk(es) \in GenuineChunks
<1>1. Len(es) \in Nat /\ 1 \in DOMAIN es /\ Len(es) \in DOMAIN es
  OBVIOUS
<1>2. es[1] \in GenuineEntries /\ es[Len(es)] \in GenuineEntries
  BY <1>1
<1>3. es[1].ledger.index \in Int /\ es[Len(es)].ledger.index \in Int
  BY <1>2, EntryIs, GenuineIs
<1> QED BY <1>3 DEF F!Chunk, GenuineChunks

LEMMA WithFinite ==
    ASSUME NEW files, NEW f, NEW content, IsFiniteSet(DOMAIN files)
    PROVE  IsFiniteSet(DOMAIN F!With(files, f, content))
<1>1. DOMAIN F!With(files, f, content) = DOMAIN files \cup {f}
  BY DEF F!With
<1> QED BY <1>1, FS_AddElement

\* A capture that is over, or has not begun, has collected nothing.
LEMMA UnstartedOK ==
    /\ CaptureOK(F!Unstarted) /\ F!Unstarted.to \in Int
    /\ \A pc : CaptureOK([F!Unstarted EXCEPT !.pc = pc]) /\ [F!Unstarted EXCEPT !.pc = pc].to \in Int
<1>1. IsFiniteSet(DOMAIN F!NoFiles)
  <2>1. DOMAIN F!NoFiles = {}
    BY DEF F!NoFiles
  <2> QED BY <2>1, FS_EmptySet
<1>2. <<>> \in Seq(GenuineEntries) /\ <<>> \in Seq(GenuineChunks)
  OBVIOUS
<1>3. CaptureOK(F!Unstarted) /\ F!Unstarted.to \in Int
  BY <1>1, <1>2 DEF F!Unstarted, CaptureOK, CaptureFields
<1>4. ASSUME NEW pc PROVE CaptureOK([F!Unstarted EXCEPT !.pc = pc]) /\ [F!Unstarted EXCEPT !.pc = pc].to \in Int
  BY <1>1, <1>2 DEF F!Unstarted, CaptureOK, CaptureFields
<1> QED BY <1>3, <1>4

\* A step of one capture that prints nothing.
LEMMA CaptureStep ==
    ASSUME FixtureInv, NEW c \in Captures, NEW s, cap' = [cap EXCEPT ![c] = s],
           CaptureOK(s), s.to \in Int, printed' = printed, reader' = reader
    PROVE  FixtureInv'
<1>1. DOMAIN cap' = Captures /\ \A d \in Captures : cap'[d] = IF d = c THEN s ELSE cap[d]
  BY DEF FixtureInv
<1>2. \A d \in Captures : CaptureOK(cap'[d]) /\ cap'[d].to \in Int
  BY <1>1 DEF FixtureInv
<1> QED BY <1>1, <1>2 DEF FixtureInv, FixtureAssumption

\* A capture moves in its program; what it has collected stays.
LEMMA MoveStep ==
    ASSUME FixtureInv, NEW c \in Captures, NEW s, cap' = [cap EXCEPT ![c] = s],
           DOMAIN s = CaptureFields, IsFiniteSet(DOMAIN s.tmp), s.to \in Int,
           s.previous = cap[c].previous, s.pending = cap[c].pending, s.chunks = cap[c].chunks,
           printed' = printed, reader' = reader
    PROVE  FixtureInv'
<1>1. CaptureOK(s)
  BY DEF FixtureInv, CaptureOK
<1> QED BY <1>1, CaptureStep

LEMMA BeginStep ==
    ASSUME FixtureInv, NEW c \in Captures, F!Begin(c)
    PROVE  FixtureInv'
<1>1. CaptureOK(cap[c]) /\ DOMAIN cap = Captures
  BY DEF FixtureInv
<1>2. PICK to \in From .. Tip :
         cap' = [cap EXCEPT ![c].pc = "capture", ![c].to = to,
                            ![c].tmp = F!With(F!With(F!NoFiles, F!Ledgers, 0), F!Indexes, 0)]
  BY DEF F!Begin
<1> DEFINE tmp == F!With(F!With(F!NoFiles, F!Ledgers, 0), F!Indexes, 0)
           s == [cap[c] EXCEPT !.pc = "capture", !.to = to, !.tmp = tmp]
<1>3. IsFiniteSet(DOMAIN tmp)
  <2>1. IsFiniteSet(DOMAIN F!NoFiles)
    <3>1. DOMAIN F!NoFiles = {}
      BY DEF F!NoFiles
    <3> QED BY <3>1, FS_EmptySet
  <2> QED BY <2>1, WithFinite
<1> HIDE DEF tmp
<1>4. cap' = [cap EXCEPT ![c] = s]
  BY <1>1, <1>2 DEF tmp, CaptureOK
<1>5. /\ DOMAIN s = CaptureFields /\ s.tmp = tmp /\ s.to = to
      /\ s.previous = cap[c].previous /\ s.pending = cap[c].pending /\ s.chunks = cap[c].chunks
  BY <1>1 DEF CaptureOK, CaptureFields
<1>6. to \in Int
  BY DEF FixtureInv, FixtureAssumption
<1>7. printed' = printed /\ reader' = reader
  BY DEF F!Begin, F!Elsewhere
<1> HIDE DEF s
<1> QED BY <1>3, <1>4, <1>5, <1>6, <1>7, MoveStep

\* The ledger that a capture accepts is that of the chain.
LEMMA AcceptedIsGenuine ==
    ASSUME NEW i \in Int, NEW l \in {F!Genuine(i), F!Ledger(i, 1, 1)}, NEW previous,
           previous = <<>> \/ \E p \in GenuineLedgers : previous = <<p>>, F!Continuous(previous, l)
    PROVE  l = F!Genuine(i) /\ l \in GenuineLedgers
<1>1. l = F!Genuine(i)
  <2>1. CASE previous = <<>>
    BY <2>1 DEF F!Continuous, F!Genuine, F!Ledger
  <2>2. ASSUME NEW p \in GenuineLedgers, previous = <<p>> PROVE l = F!Genuine(i)
    <3>1. p.branch = 0 /\ previous # <<>> /\ previous[1] = p
      BY <2>2, GenuineIs
    <3>2. l.parent = 0
      BY <3>1 DEF F!Continuous
    <3> QED BY <3>2 DEF F!Genuine, F!Ledger
  <2> QED BY <2>1, <2>2
<1> QED BY <1>1 DEF GenuineLedgers

LEMMA CaptureLedgerStep ==
    ASSUME FixtureInv, NEW c \in Captures, F!CaptureLedger(c)
    PROVE  FixtureInv'
<1> DEFINE s == cap[c]
           i == From + Cardinality(F!OfKind(s.tmp, "ledger"))
<1>1. CaptureOK(s) /\ DOMAIN cap = Captures /\ s.to \in Int
  BY DEF FixtureInv
<1>2. i \in Int
  <2>1. IsFiniteSet(DOMAIN s.tmp) /\ F!OfKind(s.tmp, "ledger") \in SUBSET DOMAIN s.tmp
    BY <1>1 DEF CaptureOK, F!OfKind
  <2>2. Cardinality(F!OfKind(s.tmp, "ledger")) \in Nat
    BY <2>1, FS_Subset, FS_CardinalityType
  <2> QED BY <2>2 DEF FixtureInv, FixtureAssumption
<1>3. PICK l \in {F!Genuine(i), F!Ledger(i, 1, 1)} :
         LET pending == Append(s.pending, F!Entry(l))
             full == F!Full(pending, i = s.to)
             tmp == F!With(s.tmp, F!LedgerFile(i), F!Packed(l))
         IN cap' = [cap EXCEPT ![c] =
               IF ~F!Continuous(s.previous, l) THEN [F!Unstarted EXCEPT !.pc = "failed"]
               ELSE [s EXCEPT !.previous = <<l>>,
                              !.pending = IF full THEN <<>> ELSE pending,
                              !.chunks = IF full THEN Append(@, F!Chunk(pending)) ELSE @,
                              !.tmp = IF full THEN F!With(tmp, F!IndexChunkFile(F!Chunk(pending)), pending) ELSE tmp]]
  BY SameCardinality DEF F!CaptureLedger
<1>4. printed' = printed /\ reader' = reader
  BY DEF F!CaptureLedger, F!Elsewhere
<1> HIDE DEF i
<1>5. CASE ~F!Continuous(s.previous, l)
  <2>1. cap' = [cap EXCEPT ![c] = [F!Unstarted EXCEPT !.pc = "failed"]]
    BY <1>3, <1>5
  <2> QED BY <1>4, <2>1, UnstartedOK, CaptureStep
<1>6. CASE F!Continuous(s.previous, l)
  <2> DEFINE pending == Append(s.pending, F!Entry(l))
             full == F!Full(pending, i = s.to)
             tmp == F!With(s.tmp, F!LedgerFile(i), F!Packed(l))
             newPending == IF full THEN <<>> ELSE pending
             newChunks == IF full THEN Append(s.chunks, F!Chunk(pending)) ELSE s.chunks
             newTmp == IF full THEN F!With(tmp, F!IndexChunkFile(F!Chunk(pending)), pending) ELSE tmp
             new == [s EXCEPT !.previous = <<l>>, !.pending = newPending, !.chunks = newChunks, !.tmp = newTmp]
  <2>1. l \in GenuineLedgers
    BY <1>1, <1>2, <1>6, AcceptedIsGenuine DEF CaptureOK
  <2>2. F!Entry(l) \in GenuineEntries
    BY <2>1 DEF GenuineEntries
  <2>3. pending \in Seq(GenuineEntries) /\ pending # <<>>
    <3>1. s.pending \in Seq(GenuineEntries)
      BY <1>1 DEF CaptureOK
    <3> QED BY <2>2, <3>1
  <2>4. IsFiniteSet(DOMAIN tmp)
    BY <1>1, WithFinite DEF CaptureOK
  <2> HIDE DEF pending, tmp
  <2>5. F!Chunk(pending) \in GenuineChunks
    BY <2>3, ChunkOK
  <2>6. IsFiniteSet(DOMAIN F!With(tmp, F!IndexChunkFile(F!Chunk(pending)), pending))
    BY <2>4, WithFinite
  <2> HIDE DEF full
  <2>7. newPending \in Seq(GenuineEntries)
    BY <2>3
  <2>8. newChunks \in Seq(GenuineChunks)
    <3>1. s.chunks \in Seq(GenuineChunks)
      BY <1>1 DEF CaptureOK
    <3>2. Append(s.chunks, F!Chunk(pending)) \in Seq(GenuineChunks)
      BY <2>5, <3>1
    <3> QED BY <3>1, <3>2
  <2>9. IsFiniteSet(DOMAIN newTmp)
    BY <2>4, <2>6
  <2>10. cap' = [cap EXCEPT ![c] = new]
    BY <1>1, <1>3, <1>6 DEF pending, tmp, full, CaptureOK, CaptureFields
  <2> HIDE DEF newPending, newChunks, newTmp
  <2>11. /\ DOMAIN new = CaptureFields /\ new.previous = <<l>> /\ new.pending = newPending
         /\ new.chunks = newChunks /\ new.tmp = newTmp /\ new.to = s.to
    BY <1>1 DEF CaptureOK, CaptureFields
  <2> HIDE DEF new
  <2>12. CaptureOK(new)
    BY <2>1, <2>7, <2>8, <2>9, <2>11 DEF CaptureOK
  <2> QED BY <1>1, <1>4, <2>10, <2>11, <2>12, CaptureStep
<1> QED BY <1>5, <1>6

LEMMA WriteManifestStep ==
    ASSUME FixtureInv, NEW c \in Captures, F!WriteManifest(c)
    PROVE  FixtureInv'
<1> DEFINE s == cap[c]
           tmp == F!With(s.tmp, F!ManifestFile, F!Manifest(c))
           new == [s EXCEPT !.pc = "mkdir", !.tmp = tmp]
<1>1. CaptureOK(s) /\ DOMAIN cap = Captures /\ s.to \in Int
  BY DEF FixtureInv
<1>2. printed' = printed /\ reader' = reader
  BY DEF F!WriteManifest, F!Elsewhere
<1>3. IsFiniteSet(DOMAIN tmp)
  BY <1>1, WithFinite DEF CaptureOK
<1>4. cap' = [cap EXCEPT ![c] = new] \/ cap' = [cap EXCEPT ![c] = [F!Unstarted EXCEPT !.pc = "failed"]]
  BY <1>1, SameCardinality DEF F!WriteManifest
<1> HIDE DEF tmp
<1>5. /\ DOMAIN new = CaptureFields /\ new.previous = s.previous /\ new.pending = s.pending
      /\ new.chunks = s.chunks /\ new.tmp = tmp /\ new.to = s.to
  BY <1>1 DEF CaptureOK, CaptureFields
<1> HIDE DEF new
<1>6. CASE cap' = [cap EXCEPT ![c] = new]
  BY <1>1, <1>2, <1>3, <1>5, <1>6, MoveStep
<1>7. CASE cap' = [cap EXCEPT ![c] = [F!Unstarted EXCEPT !.pc = "failed"]]
  BY <1>2, <1>7, UnstartedOK, CaptureStep
<1> QED BY <1>4, <1>6, <1>7

\* A step of the publication changes the place of the capture, or ends it.
LEMMA PublishStep ==
    ASSUME FixtureInv, NEW c \in Captures,
           F!CreateOutput(c) \/ F!Link(c) \/ F!LinkFails(c) \/ F!Rollback(c) \/ F!Kill(c)
    PROVE  FixtureInv'
<1> DEFINE s == cap[c]
<1>1. CaptureOK(s) /\ DOMAIN cap = Captures /\ s.to \in Int /\ IsFiniteSet(DOMAIN s.tmp)
  BY DEF FixtureInv, CaptureOK
<1>2. printed' = printed /\ reader' = reader
  BY DEF F!CreateOutput, F!Link, F!LinkFails, F!Rollback, F!Kill, F!Elsewhere
<1>3. ASSUME NEW pc, NEW created, cap' = [cap EXCEPT ![c].pc = pc, ![c].created = created] PROVE FixtureInv'
  <2> DEFINE new == [s EXCEPT !.pc = pc, !.created = created]
  <2>1. cap' = [cap EXCEPT ![c] = new]
    BY <1>1, <1>3
  <2>2. /\ DOMAIN new = CaptureFields /\ new.previous = s.previous /\ new.pending = s.pending
        /\ new.chunks = s.chunks /\ new.tmp = s.tmp /\ new.to = s.to
    BY <1>1 DEF CaptureOK, CaptureFields
  <2> HIDE DEF new
  <2> QED BY <1>1, <1>2, <2>1, <2>2, MoveStep
<1>4. ASSUME NEW pc, cap' = [cap EXCEPT ![c].pc = pc] PROVE FixtureInv'
  <2> DEFINE new == [s EXCEPT !.pc = pc]
  <2>1. cap' = [cap EXCEPT ![c] = new]
    BY <1>1, <1>4
  <2>2. /\ DOMAIN new = CaptureFields /\ new.previous = s.previous /\ new.pending = s.pending
        /\ new.chunks = s.chunks /\ new.tmp = s.tmp /\ new.to = s.to
    BY <1>1 DEF CaptureOK, CaptureFields
  <2> HIDE DEF new
  <2> QED BY <1>1, <1>2, <2>1, <2>2, MoveStep
<1>5. ASSUME NEW linked, cap' = [cap EXCEPT ![c].linked = linked] PROVE FixtureInv'
  <2> DEFINE new == [s EXCEPT !.linked = linked]
  <2>1. cap' = [cap EXCEPT ![c] = new]
    BY <1>1, <1>5
  <2>2. /\ DOMAIN new = CaptureFields /\ new.previous = s.previous /\ new.pending = s.pending
        /\ new.chunks = s.chunks /\ new.tmp = s.tmp /\ new.to = s.to
    BY <1>1 DEF CaptureOK, CaptureFields
  <2> HIDE DEF new
  <2> QED BY <1>1, <1>2, <2>1, <2>2, MoveStep
<1>6. ASSUME NEW pc, cap' = [cap EXCEPT ![c] = [F!Unstarted EXCEPT !.pc = pc]] PROVE FixtureInv'
  BY <1>2, <1>6, UnstartedOK, CaptureStep
<1>7. CASE F!CreateOutput(c)
  BY <1>3, <1>7 DEF F!CreateOutput
<1>8. CASE F!Link(c)
  <2>1. \/ cap' = [cap EXCEPT ![c].pc = "rollback"]
        \/ cap' = [cap EXCEPT ![c].linked = @ + 1]
    BY <1>8 DEF F!Link
  <2>2. CASE cap' = [cap EXCEPT ![c].linked = @ + 1]
    <3> DEFINE linked == s.linked + 1
    <3>1. cap' = [cap EXCEPT ![c].linked = linked]
      BY <1>1, <2>2
    <3> HIDE DEF linked
    <3> QED BY <1>5, <3>1
  <2> QED BY <1>4, <2>1, <2>2
<1>9. CASE F!LinkFails(c)
  BY <1>4, <1>9 DEF F!LinkFails
<1>10. CASE F!Rollback(c)
  <2>1. \/ cap' = [cap EXCEPT ![c].linked = @ - 1]
        \/ cap' = [cap EXCEPT ![c] = [F!Unstarted EXCEPT !.pc = "failed"]]
    BY <1>10 DEF F!Rollback
  <2>2. CASE cap' = [cap EXCEPT ![c].linked = @ - 1]
    <3> DEFINE linked == s.linked - 1
    <3>1. cap' = [cap EXCEPT ![c].linked = linked]
      BY <1>1, <2>2
    <3> HIDE DEF linked
    <3> QED BY <1>5, <3>1
  <2> QED BY <1>6, <2>1, <2>2
<1>11. CASE F!Kill(c)
  BY <1>6, <1>11 DEF F!Kill
<1> QED BY <1>7, <1>8, <1>9, <1>10, <1>11

\* The manifest whose digest is printed lists what the capture has collected.
LEMMA FinishStep ==
    ASSUME FixtureInv, NEW c \in Captures, F!Finish(c)
    PROVE  FixtureInv'
<1> DEFINE s == cap[c]
           new == [s EXCEPT !.pc = "done", !.tmp = F!NoFiles]
           m == F!Manifest(c)
<1>1. CaptureOK(s) /\ DOMAIN cap = Captures /\ s.to \in Int
  BY DEF FixtureInv
<1>2. printed' = printed \cup {m} /\ reader' = reader
  BY DEF F!Finish, F!Elsewhere
<1>3. m.chunks = s.chunks /\ m.to = s.to /\ m.from = From
  BY DEF F!Manifest
<1>4. IsFiniteSet(DOMAIN F!NoFiles)
  <2>1. DOMAIN F!NoFiles = {}
    BY DEF F!NoFiles
  <2> QED BY <2>1, FS_EmptySet
<1>5. cap' = [cap EXCEPT ![c] = new]
  BY <1>1 DEF F!Finish
<1>6. /\ DOMAIN new = CaptureFields /\ new.previous = s.previous /\ new.pending = s.pending
      /\ new.chunks = s.chunks /\ new.tmp = F!NoFiles /\ new.to = s.to
  BY <1>1 DEF CaptureOK, CaptureFields
<1> HIDE DEF new, m
<1>7. CaptureOK(new)
  BY <1>1, <1>4, <1>6 DEF CaptureOK
<1>8. DOMAIN cap' = Captures /\ \A d \in Captures : CaptureOK(cap'[d]) /\ cap'[d].to \in Int
  <2>1. DOMAIN cap' = Captures /\ \A d \in Captures : cap'[d] = IF d = c THEN new ELSE cap[d]
    BY <1>1, <1>5
  <2> QED BY <1>1, <1>6, <1>7, <2>1 DEF FixtureInv
<1>9. \A q \in printed' : q.chunks \in Seq(GenuineChunks) /\ q.to \in Int /\ q.from \in Int
  <2>1. m.chunks \in Seq(GenuineChunks) /\ m.to \in Int /\ m.from \in Int
    BY <1>1, <1>3 DEF CaptureOK, FixtureInv, FixtureAssumption
  <2> QED BY <1>2, <2>1 DEF FixtureInv
<1> QED BY <1>2, <1>8, <1>9 DEF FixtureInv, FixtureAssumption

-----------------------------------------------------------------------------
(* A replay.                                                               *)

\* A step of the replay.
LEMMA ReaderStep ==
    ASSUME FixtureInv, ReaderOK(reader'), cap' = cap, printed' = printed
    PROVE  FixtureInv'
BY DEF FixtureInv, FixtureAssumption

LEMMA FailedOK ==
    ASSUME ReaderOK(reader)
    PROVE  ReaderOK(F!Fail)
<1>1. /\ DOMAIN F!Fail = ReaderFields /\ F!Fail.pc = "failed" /\ F!Fail.pin = reader.pin
      /\ F!Fail.manifest = reader.manifest /\ F!Fail.at = reader.at /\ F!Fail.chunk = reader.chunk
      /\ F!Fail.entries = reader.entries /\ F!Fail.written = reader.written
  BY DEF F!Fail, ReaderOK, ReaderFields
<1> QED BY <1>1 DEF ReaderOK, CacheOK

\* The fields of a replay that a read of the bundle leaves alone.
Elsewise(r) ==
    /\ DOMAIN r = ReaderFields /\ r.pc = reader.pc /\ r.pin = reader.pin /\ r.manifest = reader.manifest
    /\ r.at = reader.at /\ r.written = reader.written /\ r.before = reader.before

\* What getLedger returns is the ledger of the chain with that index, whatever the directory
\* holds at the time.
LEMMA GetLedgerOK ==
    ASSUME FixtureInv, ReaderOK(reader), reader.pc # "failed", NEW i \in Int, F!GetLedger(i).pc # "failed"
    PROVE  LET r == F!GetLedger(i) IN Elsewise(r) /\ CacheOK(r) /\ r.previous = <<F!Genuine(i)>>
<1> DEFINE manifest == reader.manifest
           position == F!ChunkPosition(manifest, i)
           chunk == manifest.chunks[position]
           entries == IF reader.chunk = position THEN reader.entries ELSE F!ReadIndexChunk(out, chunk)
           j == i - chunk.from + 1
           entry == entries[j]
           r == [reader EXCEPT !.chunk = position, !.entries = entries, !.previous = <<entry.ledger>>]
<1>1. F!Fail.pc = "failed"
  BY SMTT(30) DEF F!Fail, ReaderOK, ReaderFields
<1>2. /\ F!GetLedger(i) = r /\ position \in DOMAIN manifest.chunks /\ j \in DOMAIN entries
  <2>1. ~(\/ position \notin DOMAIN manifest.chunks
          \/ i \notin chunk.from .. chunk.to
          \/ j \notin DOMAIN entries
          \/ ~F!ReadLedger(out, entry))
    BY SMTT(30), <1>1 DEF F!GetLedger
  <2> QED BY SMTT(30), <2>1 DEF F!GetLedger
<1> HIDE DEF position
<1>3. chunk \in GenuineChunks /\ manifest = reader.pin
  BY SMTT(30), <1>2 DEF ReaderOK
<1> HIDE DEF chunk
<1>4. /\ entries \in Seq(GenuineEntries)
      /\ \A k \in DOMAIN entries : entries[k].ledger.index = chunk.from + k - 1
  <2>1. CASE reader.chunk = position
    BY <1>2, <1>3, <2>1 DEF ReaderOK, CacheOK, chunk
  <2>2. CASE reader.chunk # position
    <3>1. entries = F!ReadIndexChunk(out, chunk)
      BY <2>2
    <3> HIDE DEF entries
    <3>2. CASE entries = <<>>
      BY <3>2
    <3>3. CASE entries # <<>>
      <4>1. /\ entries = chunk.digest
            /\ \A k \in DOMAIN entries : entries[k].ledger.index = chunk.from + k - 1
        BY <3>1, <3>3 DEF F!ReadIndexChunk
      <4> QED BY <1>3, <4>1 DEF GenuineChunks
    <3> QED BY <3>2, <3>3
  <2> HIDE DEF entries
  <2> QED BY ONLY <2>1, <2>2
<1> HIDE DEF entries
<1>5. entry.ledger = F!Genuine(i)
  <2>1. entry \in GenuineEntries /\ j \in Int /\ entry.ledger.index = chunk.from + j - 1
    BY <1>2, <1>4
  <2>2. chunk.from \in Int
    BY <1>3 DEF GenuineChunks
  <2>3. chunk.from + j - 1 = i
    BY <2>2
  <2> HIDE DEF j, entry
  <2>4. entry.ledger = F!Genuine(entry.ledger.index)
    BY <2>1, EntryIs, GenuineIs
  <2> QED BY <2>1, <2>3, <2>4
<1> HIDE DEF entry
<1>6. /\ Elsewise(r) /\ r.chunk = position /\ r.entries = entries /\ r.previous = <<entry.ledger>>
  BY DEF ReaderOK, ReaderFields, Elsewise
<1> HIDE DEF r
<1>7. CacheOK(r)
  BY <1>3, <1>4, <1>6 DEF CacheOK, Elsewise, chunk
<1> QED BY <1>2, <1>5, <1>6, <1>7

\* A replay goes on with what it has written.
LEMMA GoOn ==
    ASSUME ReaderOK(reader), NEW r, DOMAIN r = ReaderFields, r.pin = reader.pin, r.manifest = reader.pin,
           CacheOK(r), r.written = reader.written, r.at \in Int,
           \/ r.written = <<>> /\ r.pc \in {"inspect", "check", "open"}
           \/ r.written = <<>> /\ r.pc \in {"target", "preflight", "replay"} /\ r.at = From,
           FixtureAssumption
    PROVE  ReaderOK(r)
<1>1. r.written = <<>> => Len(r.written) = 0
  OBVIOUS
<1>2. r.pc = "replay" => r.at = From + Len(r.written)
  BY <1>1 DEF FixtureAssumption
<1> QED BY <1>2 DEF ReaderOK

LEMMA StartReplayStep ==
    ASSUME FixtureInv, F!StartReplay
    PROVE  FixtureInv'
<1>1. PICK m \in printed :
         reader' = [pc |-> "inspect", pin |-> m, manifest |-> m, at |-> From, chunk |-> 0, entries |-> <<>>,
                    previous |-> <<>>, written |-> <<>>, before |-> faults]
  BY DEF F!StartReplay
<1>2. m.chunks \in Seq(GenuineChunks) /\ m.to \in Int /\ m.from \in Int /\ From \in Int
  BY DEF FixtureInv, FixtureAssumption
<1>3. <<>> \in Seq(GenuineEntries) /\ <<>> \in Seq(GenuineLedgers) /\ DOMAIN <<>> = {}
  OBVIOUS
<1>4. /\ DOMAIN reader' = ReaderFields /\ reader'.pc = "inspect" /\ reader'.pin = m /\ reader'.manifest = m
      /\ reader'.at = From /\ reader'.chunk = 0 /\ reader'.entries = <<>> /\ reader'.written = <<>>
  BY <1>1 DEF ReaderFields
<1>5. ReaderOK(reader')
  BY <1>2, <1>3, <1>4 DEF ReaderOK, CacheOK
<1>6. cap' = cap /\ printed' = printed
  BY DEF F!StartReplay, F!Reading
<1> QED BY <1>5, <1>6, ReaderStep

\* What an inspection accepts has the manifest of the digest.
LEMMA InspectedIsPinned ==
    ASSUME NEW m, F!Inspect(out, <<m>>)
    PROVE  out[F!ManifestFile] = m
<1>1. <<m>> # <<>> /\ <<m>>[1] = m
  OBVIOUS
<1> QED BY <1>1 DEF F!Inspect

LEMMA InspectStep ==
    ASSUME FixtureInv, F!InspectBundle \/ F!Open
    PROVE  FixtureInv'
<1>1. ReaderOK(reader) /\ reader # F!NoReader /\ FixtureAssumption
  <2>1. F!NoReader.pc = "none"
    BY DEF F!NoReader
  <2> QED BY <2>1 DEF FixtureInv, F!InspectBundle, F!Open
<1>2. cap' = cap /\ printed' = printed
  BY DEF F!InspectBundle, F!Open, F!Reading
<1>3. CASE reader' = F!Fail
  BY <1>1, <1>2, <1>3, FailedOK, ReaderStep
<1>4. CASE F!InspectBundle /\ reader' # F!Fail
  <2> DEFINE r == [reader EXCEPT !.pc = "check", !.manifest = reader.pin]
  <2>1. out[F!ManifestFile] = reader.pin /\ reader.pc = "inspect"
    BY <1>4, InspectedIsPinned DEF F!InspectBundle
  <2>2. reader' = r
    BY <1>4, <2>1 DEF F!InspectBundle
  <2>3. /\ DOMAIN r = ReaderFields /\ r.pc = "check" /\ r.pin = reader.pin /\ r.manifest = reader.pin
        /\ r.at = reader.at /\ r.chunk = reader.chunk /\ r.entries = reader.entries /\ r.written = reader.written
    BY <1>1 DEF ReaderOK, ReaderFields
  <2> HIDE DEF r
  <2>4. ReaderOK(r)
    BY <1>1, <2>1, <2>3 DEF ReaderOK, CacheOK
  <2> QED BY <1>2, <2>2, <2>4, ReaderStep
<1>5. CASE F!Open /\ reader' # F!Fail
  <2> DEFINE r == [reader EXCEPT !.pc = "target", !.manifest = reader.pin, !.at = From, !.chunk = 0, !.entries = <<>>]
  <2>1. out[F!ManifestFile] = reader.pin /\ reader.pc = "open"
    BY <1>5, InspectedIsPinned DEF F!Open
  <2>2. reader' = r
    BY <1>5, <2>1 DEF F!Open
  <2>3. /\ DOMAIN r = ReaderFields /\ r.pc = "target" /\ r.pin = reader.pin /\ r.manifest = reader.pin
        /\ r.at = From /\ r.chunk = 0 /\ r.entries = <<>> /\ r.written = reader.written
    BY <1>1 DEF ReaderOK, ReaderFields
  <2> HIDE DEF r
  <2>4. CacheOK(r)
    BY <2>3 DEF CacheOK
  <2>5. r.written = <<>> /\ r.at \in Int
    BY <1>1, <2>1, <2>3 DEF ReaderOK, FixtureAssumption
  <2>6. ReaderOK(r)
    BY <1>1, <2>3, <2>4, <2>5, GoOn
  <2> QED BY <1>2, <2>2, <2>6, ReaderStep
<1> QED BY <1>3, <1>4, <1>5

LEMMA CheckLedgerStep ==
    ASSUME FixtureInv, F!CheckLedger
    PROVE  FixtureInv'
<1> DEFINE next == F!GetLedger(reader.at)
           opened == [next EXCEPT !.pc = "open"]
           at == reader.at + 1
           more == [next EXCEPT !.at = at]
<1>1. ReaderOK(reader) /\ reader.pc = "check" /\ reader.at \in Int /\ reader.written = <<>> /\ FixtureAssumption
  <2>1. F!NoReader.pc = "none"
    BY DEF F!NoReader
  <2> QED BY <2>1 DEF FixtureInv, F!CheckLedger, ReaderOK
<1>2. cap' = cap /\ printed' = printed
  BY DEF F!CheckLedger, F!Reading
<1>3. CASE reader' = F!Fail
  BY <1>1, <1>2, <1>3, FailedOK, ReaderStep
<1>4. CASE reader' # F!Fail
  <2>1. next.pc # "failed"
    BY <1>4 DEF F!CheckLedger
  <2>2. Elsewise(next) /\ CacheOK(next)
    BY <1>1, <2>1, GetLedgerOK
  <2> HIDE DEF next
  <2>3. reader' = opened \/ reader' = [next EXCEPT !.at = @ + 1]
    BY <1>4 DEF F!CheckLedger, next
  <2>4. [next EXCEPT !.at = @ + 1] = more
    BY <2>2 DEF Elsewise
  <2>5. at \in Int
    BY <1>1
  <2> HIDE DEF at
  <2>6. /\ DOMAIN opened = ReaderFields /\ opened.pc = "open" /\ opened.pin = reader.pin
        /\ opened.manifest = reader.manifest /\ opened.at = reader.at /\ opened.chunk = next.chunk
        /\ opened.entries = next.entries /\ opened.written = reader.written
    BY <2>2 DEF Elsewise, ReaderFields
  <2>7. /\ DOMAIN more = ReaderFields /\ more.pc = "check" /\ more.pin = reader.pin
        /\ more.manifest = reader.manifest /\ more.at = at /\ more.chunk = next.chunk
        /\ more.entries = next.entries /\ more.written = reader.written
    BY <1>1, <2>2 DEF Elsewise, ReaderFields
  <2> HIDE DEF opened, more
  <2>8. CacheOK(opened) /\ CacheOK(more)
    BY <2>2, <2>6, <2>7 DEF CacheOK, Elsewise
  <2>9. reader.manifest = reader.pin
    BY <1>1 DEF ReaderOK
  <2>10. ReaderOK(opened)
    BY <1>1, <2>6, <2>8, <2>9, GoOn
  <2>11. ReaderOK(more)
    BY <1>1, <2>5, <2>7, <2>8, <2>9, GoOn
  <2> QED BY <1>2, <2>3, <2>4, <2>10, <2>11, ReaderStep
<1> QED BY <1>3, <1>4

\* The reads of the boundary and of the activation ledger.
LEMMA BoundaryStep ==
    ASSUME FixtureInv, F!ReadTarget \/ F!Preflight
    PROVE  FixtureInv'
<1>1. /\ ReaderOK(reader) /\ reader.pc \in {"target", "preflight"} /\ reader.at = From /\ From \in Int
      /\ reader.written = <<>> /\ FixtureAssumption /\ reader.manifest = reader.pin /\ reader.manifest.to \in Int
  <2>1. F!NoReader.pc = "none"
    BY DEF F!NoReader
  <2> QED BY <2>1 DEF FixtureInv, FixtureAssumption, F!ReadTarget, F!Preflight, ReaderOK
<1>2. cap' = cap /\ printed' = printed
  BY DEF F!ReadTarget, F!Preflight, F!Reading
<1>3. CASE reader' = F!Fail
  BY <1>1, <1>2, <1>3, FailedOK, ReaderStep
<1>4. CASE F!ReadTarget /\ reader' # F!Fail
  <2> DEFINE next == F!GetLedger(reader.manifest.to)
             r == [next EXCEPT !.pc = "preflight"]
  <2>1. next.pc # "failed" /\ reader' = r
    BY <1>4 DEF F!ReadTarget
  <2>2. Elsewise(next) /\ CacheOK(next)
    BY <1>1, <2>1, GetLedgerOK
  <2> HIDE DEF next
  <2>3. /\ DOMAIN r = ReaderFields /\ r.pc = "preflight" /\ r.pin = reader.pin
        /\ r.manifest = reader.manifest /\ r.at = reader.at /\ r.chunk = next.chunk
        /\ r.entries = next.entries /\ r.written = reader.written
    BY <2>2 DEF Elsewise, ReaderFields
  <2>4. reader' = r
    BY <2>1
  <2> HIDE DEF r
  <2>5. CacheOK(r)
    BY <2>2, <2>3 DEF CacheOK, Elsewise
  <2>6. ReaderOK(r)
    BY <1>1, <2>3, <2>5, GoOn
  <2> QED BY <1>2, <2>4, <2>6, ReaderStep
<1>5. CASE F!Preflight /\ reader' # F!Fail
  <2> DEFINE next == F!GetLedger(From)
             r == [next EXCEPT !.pc = "replay", !.previous = <<>>]
  <2>1. next.pc # "failed" /\ reader' = r
    BY <1>5 DEF F!Preflight
  <2>2. Elsewise(next) /\ CacheOK(next)
    BY <1>1, <2>1, GetLedgerOK
  <2> HIDE DEF next
  <2>3. /\ DOMAIN r = ReaderFields /\ r.pc = "replay" /\ r.pin = reader.pin
        /\ r.manifest = reader.manifest /\ r.at = reader.at /\ r.chunk = next.chunk
        /\ r.entries = next.entries /\ r.written = reader.written
    BY <2>2 DEF Elsewise, ReaderFields
  <2>4. reader' = r
    BY <2>1
  <2> HIDE DEF r
  <2>5. CacheOK(r)
    BY <2>2, <2>3 DEF CacheOK, Elsewise
  <2>6. ReaderOK(r)
    BY <1>1, <2>3, <2>5, GoOn
  <2> QED BY <1>2, <2>4, <2>6, ReaderStep
<1> QED BY <1>3, <1>4, <1>5

\* A ledger is projected.
LEMMA ReplayLedgerStep ==
    ASSUME FixtureInv, F!ReplayLedger
    PROVE  FixtureInv'
<1> DEFINE next == F!GetLedger(reader.at)
           at == reader.at + 1
           written == Append(reader.written, F!Genuine(reader.at))
           pc == IF reader.at = reader.manifest.to THEN "done" ELSE "replay"
           r == [next EXCEPT !.written = written, !.at = at, !.pc = pc]
<1>1. /\ ReaderOK(reader) /\ reader.pc = "replay" /\ reader.at = From + Len(reader.written) /\ From \in Int
      /\ reader.written \in Seq(GenuineLedgers) /\ Len(reader.written) \in Nat
  <2>1. F!NoReader.pc = "none"
    BY DEF F!NoReader
  <2>2. ReaderOK(reader) /\ reader.pc = "replay" /\ From \in Int
    BY <2>1 DEF FixtureInv, FixtureAssumption, F!ReplayLedger
  <2> QED BY <2>2 DEF ReaderOK
<1>2. cap' = cap /\ printed' = printed
  BY DEF F!ReplayLedger, F!Reading
<1>3. CASE reader' = F!Fail
  BY <1>1, <1>2, <1>3, FailedOK, ReaderStep
<1>4. CASE reader' # F!Fail
  <2>1. next.pc # "failed"
    BY <1>4 DEF F!ReplayLedger
  <2>2. Elsewise(next) /\ CacheOK(next) /\ next.previous = <<F!Genuine(reader.at)>>
    <3>1. reader.at \in Int
      BY <1>1
    <3> QED BY <1>1, <2>1, <3>1, GetLedgerOK
  <2> HIDE DEF next
  <2>3. reader' = [next EXCEPT !.written = Append(@, next.previous[1]), !.at = @ + 1,
                               !.pc = IF reader.at = reader.manifest.to THEN "done" ELSE @]
    BY <1>4 DEF F!ReplayLedger, next
  <2>4. next.previous[1] = F!Genuine(reader.at) /\ next.written = reader.written /\ next.at = reader.at /\ next.pc = "replay"
    BY <1>1, <2>2 DEF Elsewise
  <2>5. reader' = r
    BY <2>2, <2>3, <2>4 DEF Elsewise, ReaderFields
  <2>6. pc \in {"done", "replay"}
    OBVIOUS
  <2>7. /\ at \in Int /\ at = From + Len(reader.written) + 1
        /\ F!Genuine(reader.at) = F!Genuine(From + Len(reader.written)) /\ F!Genuine(reader.at) \in GenuineLedgers
    BY <1>1 DEF GenuineLedgers
  <2>8. /\ written \in Seq(GenuineLedgers) /\ Len(written) = Len(reader.written) + 1
        /\ \A k \in DOMAIN written : written[k] = F!Genuine(From + k - 1)
    <3>1. /\ written \in Seq(GenuineLedgers) /\ Len(written) = Len(reader.written) + 1
          /\ DOMAIN written = 1 .. (Len(reader.written) + 1)
          /\ \A k \in 1 .. Len(reader.written) : written[k] = reader.written[k]
          /\ written[Len(reader.written) + 1] = F!Genuine(reader.at)
      BY <1>1, <2>7
    <3>2. \A k \in 1 .. Len(reader.written) : reader.written[k] = F!Genuine(From + k - 1)
      BY <1>1 DEF ReaderOK
    <3>3. From + (Len(reader.written) + 1) - 1 = reader.at
      BY <1>1
    <3> HIDE DEF written
    <3>4. ASSUME NEW k \in DOMAIN written PROVE written[k] = F!Genuine(From + k - 1)
      <4>1. CASE k = Len(reader.written) + 1
        BY <3>1, <3>3, <4>1
      <4>2. CASE k # Len(reader.written) + 1
        <5>1. k \in 1 .. Len(reader.written)
          BY <1>1, <3>1, <4>2
        <5> QED BY <3>1, <3>2, <5>1
      <4> QED BY <4>1, <4>2
    <3> QED BY <3>1, <3>4
  <2> HIDE DEF pc, at, written
  <2>9. /\ DOMAIN r = ReaderFields /\ r.pc = pc /\ r.pin = reader.pin /\ r.manifest = reader.manifest
        /\ r.at = at /\ r.chunk = next.chunk /\ r.entries = next.entries /\ r.written = written
    BY <2>2 DEF Elsewise, ReaderFields
  <2> HIDE DEF r
  <2>10. CacheOK(r)
    BY <2>2, <2>9 DEF CacheOK, Elsewise
  <2>11. r.at = From + Len(r.written)
    <3>1. Len(r.written) = Len(reader.written) + 1
      BY <2>8, <2>9
    <3>2. r.at = From + Len(reader.written) + 1
      BY <2>7, <2>9
    <3> QED BY <1>1, <3>1, <3>2
  <2>12. ReaderOK(r)
    BY <1>1, <2>6, <2>7, <2>8, <2>9, <2>10, <2>11 DEF ReaderOK
  <2> QED BY <1>2, <2>5, <2>12, ReaderStep
<1> QED BY <1>3, <1>4

\* What the captures have collected and what a replay reads stays of the chain.
THEOREM FixtureInvariant ==
    ASSUME FixtureAssumption
    PROVE  F!Spec => []FixtureInv
<1>1. F!Init => FixtureInv
  <2> SUFFICES ASSUME F!Init PROVE FixtureInv
    OBVIOUS
  <2>1. DOMAIN cap = Captures /\ \A c \in Captures : cap[c] = F!Unstarted
    BY DEF F!Init
  <2> QED BY <2>1, UnstartedOK DEF F!Init, FixtureInv
<1>2. FixtureInv /\ [F!Next]_(F!vars) => FixtureInv'
  <2>1. ASSUME FixtureInv, UNCHANGED F!vars \/ F!Fault PROVE FixtureInv'
    BY <2>1 DEF F!vars, F!Fault, FixtureInv, FixtureAssumption
  <2> QED BY <2>1, BeginStep, CaptureLedgerStep, WriteManifestStep, PublishStep, FinishStep, StartReplayStep,
             InspectStep, CheckLedgerStep, BoundaryStep, ReplayLedgerStep DEF F!Next
<1> QED BY <1>1, <1>2, PTL DEF F!Spec

\* A replay projects only ledgers of the chain, in order from activation and without a gap,
\* whatever captures run, are rolled back or killed, and whatever becomes of the directory
\* before and while it is read (readIndexChunk, readLedger, the digest of the manifest).
THEOREM ReplaysAreGenuine ==
    ASSUME FixtureAssumption
    PROVE  F!Spec => []F!ReplayedGenuine
<1>1. FixtureInv => F!ReplayedGenuine
  BY DEF FixtureInv, ReaderOK, F!ReplayedGenuine
<1> QED BY <1>1, FixtureInvariant, PTL

-----------------------------------------------------------------------------
(* The publication.                                                        *)

\* The directory of a capture that has written n ledgers and these chunks.
Collected(n, chunks) ==
    {F!Indexes, F!Ledgers} \cup {F!LedgerFile(j) : j \in From .. From + n - 1}
        \cup {F!IndexChunkFile(chunks[k]) : k \in DOMAIN chunks}

ManifestOf(c, s) == [by |-> c, from |-> From, to |-> s.to, tip |-> Tip, chunks |-> s.chunks]

IsFunction(files) == files = [f \in DOMAIN files |-> files[f]]

\* A capture that is at work.
Working == {"capture", "mkdir", "link", "rollback"}

\* It has linked nothing before it has made the output directory.
WorkingOK(s) ==
    /\ s.pc = "unstarted" => s = F!Unstarted
    /\ s.pc \in Working => s.to \in Int /\ s.to >= From
    /\ s.pc \in {"capture", "mkdir"} => s.created = FALSE /\ s.linked = 0
    /\ s.pc = "link" => s.created = TRUE
    /\ s.pc = "rollback" => s.created \in BOOLEAN /\ (s.created = FALSE => s.linked = 0)
    /\ s.pc = "capture" =>
          IsFunction(s.tmp) /\ DOMAIN s.tmp = Collected(Cardinality(F!OfKind(s.tmp, "ledger")), s.chunks)

\* What it is about to publish is a complete and valid bundle.
StagedOK(c, s) ==
    s.pc \in {"mkdir", "link", "rollback"} =>
        /\ IsFunction(s.tmp) /\ DOMAIN s.tmp = F!ToSet(F!Plan(ManifestOf(c, s)))
        /\ s.tmp[F!ManifestFile] = ManifestOf(c, s) /\ F!Validate(s.tmp, <<>>)

\* The output directory is that of this capture.
Owns(s) == s.pc \in {"link", "rollback"} /\ s.created = TRUE

\* The directory of an owner holds exactly what it has linked, each entry once.
LinkedOK(c, s, files) ==
    LET plan == F!Plan(ManifestOf(c, s))
    IN /\ s.linked \in 0 .. Len(plan)
       /\ DOMAIN files = {plan[j] : j \in 1 .. s.linked}
       /\ \A j \in 1 .. s.linked : files[plan[j]] = s.tmp[plan[j]]
       /\ \A j, k \in 1 .. s.linked : plan[j] = plan[k] => j = k

\* There is one owner, before anything is printed; without one, a directory that does not
\* exist is empty.
OwnerOK ==
    /\ \A a, b \in Captures : Owns(cap[a]) /\ Owns(cap[b]) => a = b
    /\ \A c \in Captures : Owns(cap[c]) => exists = TRUE /\ printed = {} /\ LinkedOK(c, cap[c], out)
    /\ exists = FALSE => DOMAIN out = {} /\ printed = {}

OutputOK ==
    /\ exists \in BOOLEAN /\ faults \in Nat
    /\ faults # 0 => printed # {}
    /\ faults = 0 => DOMAIN out = {} \/ IsFunction(out)
    /\ F!PublishedIntact /\ F!ManifestCompletes

PublicationInv ==
    /\ FixtureInv
    /\ \A c \in Captures : WorkingOK(cap[c]) /\ StagedOK(c, cap[c])
    /\ OwnerOK /\ OutputOK

-----------------------------------------------------------------------------
(* The order of publication.                                               *)

LEMMA RangeConcat ==
    ASSUME NEW S, NEW s \in Seq(S), NEW t \in Seq(S)
    PROVE  s \o t \in Seq(S) /\ F!ToSet(s \o t) = F!ToSet(s) \cup F!ToSet(t)
<1>1. /\ s \o t \in Seq(S) /\ DOMAIN (s \o t) = 1 .. (Len(s) + Len(t))
      /\ \A i \in 1 .. (Len(s) + Len(t)) : (s \o t)[i] = IF i <= Len(s) THEN s[i] ELSE t[i - Len(s)]
      /\ Len(s) \in Nat /\ Len(t) \in Nat /\ DOMAIN s = 1 .. Len(s) /\ DOMAIN t = 1 .. Len(t)
  OBVIOUS
<1> DEFINE u == s \o t
<1>2. /\ DOMAIN u = 1 .. (Len(s) + Len(t))
      /\ \A i \in 1 .. (Len(s) + Len(t)) : u[i] = IF i <= Len(s) THEN s[i] ELSE t[i - Len(s)]
  BY <1>1
<1> HIDE DEF u
<1>3. \A i \in DOMAIN u : u[i] \in F!ToSet(s) \cup F!ToSet(t)
  <2> SUFFICES ASSUME NEW i \in DOMAIN u PROVE u[i] \in F!ToSet(s) \cup F!ToSet(t)
    OBVIOUS
  <2>1. CASE i <= Len(s)
    BY <1>1, <1>2, <2>1 DEF F!ToSet
  <2>2. CASE ~(i <= Len(s))
    <3>1. i - Len(s) \in 1 .. Len(t) /\ u[i] = t[i - Len(s)]
      BY <1>1, <1>2, <2>2
    <3> QED BY <1>1, <3>1 DEF F!ToSet
  <2> QED BY <2>1, <2>2
<1>4. \A i \in DOMAIN s : s[i] \in F!ToSet(u)
  BY <1>1, <1>2 DEF F!ToSet
<1>5. \A i \in DOMAIN t : t[i] \in F!ToSet(u)
  <2> SUFFICES ASSUME NEW i \in DOMAIN t PROVE t[i] \in F!ToSet(u)
    OBVIOUS
  <2>1. Len(s) + i \in DOMAIN u /\ u[Len(s) + i] = t[i]
    BY <1>1, <1>2
  <2> QED BY <2>1 DEF F!ToSet
<1>6. F!ToSet(u) = F!ToSet(s) \cup F!ToSet(t)
  BY SMTT(30), <1>3, <1>4, <1>5 DEF F!ToSet
<1> QED BY <1>1, <1>6 DEF u

\* The manifest is the last entry of a plan, and only that.
LEMMA PlanIs ==
    ASSUME FixtureAssumption, NEW c, NEW s, s.chunks \in Seq(GenuineChunks), s.to \in Int, s.to >= From
    PROVE  LET plan == F!Plan(ManifestOf(c, s))
           IN  /\ Len(plan) \in Nat /\ Len(plan) >= 1 /\ DOMAIN plan = 1 .. Len(plan)
               /\ plan[Len(plan)] = F!ManifestFile
               /\ \A j \in 1 .. Len(plan) : plan[j] = F!ManifestFile => j = Len(plan)
               /\ F!ToSet(plan) = Collected(s.to - From + 1, s.chunks) \cup {F!ManifestFile}
<1> DEFINE n == s.to - From + 1
           Others == {F!Indexes, F!Ledgers} \cup {F!LedgerFile(j) : j \in Int} \cup {F!IndexChunkFile(ch) : ch \in GenuineChunks}
           a == <<F!Indexes, F!Ledgers>>
           b == [k \in DOMAIN s.chunks |-> F!IndexChunkFile(s.chunks[k])]
           d == [k \in 1 .. n |-> F!LedgerFile(From + k - 1)]
           p == (a \o b) \o d
           plan == p \o <<F!ManifestFile>>
<1>1. n \in Nat /\ From \in Int
  BY DEF FixtureAssumption
<1>2. F!Plan(ManifestOf(c, s)) = plan
  <2> DEFINE m == ManifestOf(c, s)
  <2>1. m.chunks = s.chunks /\ m.from = From /\ m.to = s.to
    BY DEF ManifestOf
  <2> HIDE DEF m
  <2>2. F!Plan(m) = plan
    BY <2>1 DEF F!Plan
  <2> QED BY <2>2 DEF m
<1>3. a \in Seq(Others) /\ F!ToSet(a) = {F!Indexes, F!Ledgers}
  BY DEF F!ToSet
<1>4. b \in Seq(Others) /\ F!ToSet(b) = {F!IndexChunkFile(s.chunks[k]) : k \in DOMAIN s.chunks}
  <2>1. DOMAIN s.chunks = 1 .. Len(s.chunks) /\ Len(s.chunks) \in Nat /\ \A k \in DOMAIN s.chunks : s.chunks[k] \in GenuineChunks
    OBVIOUS
  <2>2. \A k \in DOMAIN s.chunks : F!IndexChunkFile(s.chunks[k]) \in Others
    BY <2>1
  <2> HIDE DEF Others
  <2>3. b \in Seq(Others)
    BY <2>1, <2>2
  <2>4. DOMAIN b = DOMAIN s.chunks /\ \A k \in DOMAIN s.chunks : b[k] = F!IndexChunkFile(s.chunks[k])
    OBVIOUS
  <2> HIDE DEF b
  <2> QED BY <2>3, <2>4 DEF F!ToSet
<1>5. d \in Seq(Others) /\ F!ToSet(d) = {F!LedgerFile(j) : j \in From .. From + n - 1}
  <2>1. \A k \in 1 .. n : From + k - 1 \in From .. From + n - 1
    BY <1>1
  <2>2. \A k \in 1 .. n : F!LedgerFile(From + k - 1) \in Others
    BY <1>1
  <2>3. \A j \in From .. From + n - 1 : j - From + 1 \in 1 .. n /\ From + (j - From + 1) - 1 = j
    BY <1>1
  <2> HIDE DEF Others, n
  <2>4. d \in Seq(Others)
    BY <1>1, <2>2
  <2>5. \A j \in From .. From + n - 1 : \E k \in 1 .. n : From + k - 1 = j
    BY <2>3
  <2>6. F!ToSet(d) = {F!LedgerFile(From + k - 1) : k \in 1 .. n}
    BY DEF F!ToSet
  <2> QED BY <2>1, <2>4, <2>5, <2>6
<1>6. p \in Seq(Others) /\ F!ToSet(p) = Collected(n, s.chunks)
  <2> HIDE DEF Others, a, b, d, n
  <2>1. a \o b \in Seq(Others) /\ F!ToSet(a \o b) = F!ToSet(a) \cup F!ToSet(b)
    BY <1>3, <1>4, RangeConcat
  <2> DEFINE ab == a \o b
  <2>2. ab \in Seq(Others) /\ F!ToSet(ab) = F!ToSet(a) \cup F!ToSet(b)
    BY <2>1
  <2>3. F!ToSet(ab) \cup F!ToSet(d) = Collected(n, s.chunks)
    BY <1>3, <1>4, <1>5, <2>2 DEF Collected
  <2> HIDE DEF ab
  <2>4. ab \o d \in Seq(Others) /\ F!ToSet(ab \o d) = F!ToSet(ab) \cup F!ToSet(d)
    BY <1>5, <2>2, RangeConcat
  <2>5. p = ab \o d
    BY DEF ab
  <2> QED BY <2>3, <2>4, <2>5
<1>7. F!ManifestFile \notin Others
  BY DEF F!ManifestFile, F!Indexes, F!Ledgers, F!LedgerFile, F!IndexChunkFile
<1> HIDE DEF Others, a, b, d, p, n
<1>8. /\ Len(plan) = Len(p) + 1 /\ Len(p) \in Nat /\ DOMAIN plan = 1 .. (Len(p) + 1)
      /\ plan[Len(p) + 1] = F!ManifestFile /\ \A j \in 1 .. Len(p) : plan[j] = p[j]
      /\ DOMAIN p = 1 .. Len(p)
  <2>1. p \in Seq(Others \cup {F!ManifestFile}) /\ <<F!ManifestFile>> \in Seq(Others \cup {F!ManifestFile})
    BY <1>6
  <2>2. Len(<<F!ManifestFile>>) = 1 /\ <<F!ManifestFile>>[1] = F!ManifestFile
    OBVIOUS
  <2> QED BY <2>1, <2>2, ConcatProperties
<1>9. \A j \in 1 .. Len(p) : plan[j] # F!ManifestFile
  BY <1>6, <1>7, <1>8
<1>10. F!ToSet(plan) = F!ToSet(p) \cup {F!ManifestFile}
  <2>1. \A j \in DOMAIN plan : plan[j] \in F!ToSet(p) \cup {F!ManifestFile}
    BY <1>8 DEF F!ToSet
  <2>2. \A j \in DOMAIN p : p[j] \in F!ToSet(plan)
    BY <1>8 DEF F!ToSet
  <2>3. F!ManifestFile \in F!ToSet(plan)
    BY SMTT(30), <1>8 DEF F!ToSet
  <2> HIDE DEF plan
  <2> QED BY <2>1, <2>2, <2>3 DEF F!ToSet
<1> HIDE DEF plan
<1>11. /\ Len(plan) \in Nat /\ Len(plan) >= 1 /\ DOMAIN plan = 1 .. Len(plan)
       /\ plan[Len(plan)] = F!ManifestFile
       /\ \A j \in 1 .. Len(plan) : plan[j] = F!ManifestFile => j = Len(plan)
  <2>1. Len(p) \in Nat /\ Len(plan) = Len(p) + 1
    BY <1>8
  <2>2. \A j \in 1 .. Len(plan) : j # Len(plan) => j \in 1 .. Len(p)
    BY <2>1
  <2> QED BY <1>8, <1>9, <2>1, <2>2
<1> QED BY <1>2, <1>6, <1>10, <1>11 DEF n

-----------------------------------------------------------------------------
(* The steps.                                                              *)

LEMMA ManifestIs ==
    ASSUME NEW c
    PROVE  F!Manifest(c) = ManifestOf(c, cap[c])
BY DEF F!Manifest, ManifestOf

\* A step of one capture, which leaves the output as it is and does not take it.
LEMMA LocalStep ==
    ASSUME PublicationInv, FixtureInv', NEW c \in Captures, NEW s, cap' = [cap EXCEPT ![c] = s],
           WorkingOK(s), StagedOK(c, s), Owns(s) => Owns(cap[c]) /\ LinkedOK(c, s, out),
           out' = out, exists' = exists, printed' = printed, faults' = faults
    PROVE  PublicationInv'
<1>1. \A d \in Captures : cap'[d] = IF d = c THEN s ELSE cap[d]
  BY DEF PublicationInv, FixtureInv
<1>2. \A d \in Captures : WorkingOK(cap'[d]) /\ StagedOK(d, cap'[d])
  BY <1>1 DEF PublicationInv
<1>3. \A d \in Captures : Owns(cap'[d]) => Owns(cap[d]) /\ LinkedOK(d, cap'[d], out)
  BY <1>1 DEF PublicationInv, OwnerOK
<1>4. OwnerOK'
  BY <1>3 DEF PublicationInv, OwnerOK
<1>5. OutputOK'
  BY DEF PublicationInv, OutputOK, F!PublishedIntact, F!ManifestCompletes
<1> QED BY <1>2, <1>4, <1>5 DEF PublicationInv

\* A capture that is over.
LEMMA OverOK ==
    ASSUME NEW c, NEW pc \in {"failed", "killed"}
    PROVE  LET s == [F!Unstarted EXCEPT !.pc = pc]
           IN  WorkingOK(s) /\ StagedOK(c, s) /\ ~Owns(s)
<1> DEFINE s == [F!Unstarted EXCEPT !.pc = pc]
<1>1. s.pc = pc
  BY DEF F!Unstarted
<1> HIDE DEF s
<1>2. s.pc \notin {"unstarted", "capture", "mkdir", "link", "rollback"}
  BY <1>1
<1>3. WorkingOK(s) /\ StagedOK(c, s) /\ ~Owns(s)
  BY <1>2 DEF WorkingOK, StagedOK, Owns, Working
<1> QED BY <1>3 DEF s

LEMMA BeginPublication ==
    ASSUME PublicationInv, FixtureInv', NEW c \in Captures, F!Begin(c)
    PROVE  PublicationInv'
<1>1. /\ cap[c] = F!Unstarted /\ DOMAIN cap = Captures /\ FixtureAssumption
      /\ out' = out /\ exists' = exists /\ printed' = printed /\ faults' = faults
  BY DEF PublicationInv, FixtureInv, WorkingOK, F!Begin, F!Elsewhere
<1>2. PICK to \in From .. Tip :
         cap' = [cap EXCEPT ![c].pc = "capture", ![c].to = to,
                            ![c].tmp = F!With(F!With(F!NoFiles, F!Ledgers, 0), F!Indexes, 0)]
  BY DEF F!Begin
<1> DEFINE tmp == F!With(F!With(F!NoFiles, F!Ledgers, 0), F!Indexes, 0)
           s == [cap[c] EXCEPT !.pc = "capture", !.to = to, !.tmp = tmp]
<1>3. IsFunction(tmp) /\ DOMAIN tmp = {F!Indexes, F!Ledgers}
  BY DEF F!With, F!NoFiles, IsFunction
<1>4. F!OfKind(tmp, "ledger") = {}
  BY <1>3 DEF F!OfKind, F!Indexes, F!Ledgers
<1>5. Cardinality(F!OfKind(tmp, "ledger")) = 0
  BY <1>4, FS_EmptySet
<1> HIDE DEF tmp
<1>6. cap' = [cap EXCEPT ![c] = s]
  BY <1>1, <1>2 DEF tmp, F!Unstarted
<1>7. s.pc = "capture" /\ s.to = to /\ s.tmp = tmp /\ s.chunks = <<>> /\ s.created = FALSE /\ s.linked = 0
  BY <1>1 DEF F!Unstarted
<1> HIDE DEF s
<1>8. to \in Int /\ to >= From
  BY <1>1 DEF FixtureAssumption
<1>9. Collected(0, <<>>) = {F!Indexes, F!Ledgers}
  <2>1. From .. From + 0 - 1 = {} /\ DOMAIN <<>> = {}
    BY <1>1 DEF FixtureAssumption
  <2> QED BY <2>1 DEF Collected
<1>10. WorkingOK(s)
  BY <1>3, <1>5, <1>7, <1>8, <1>9 DEF WorkingOK
<1>11. StagedOK(c, s) /\ ~Owns(s)
  BY <1>7 DEF StagedOK, Owns
<1> QED BY <1>1, <1>6, <1>10, <1>11, LocalStep

LEMMA CaptureLedgerPublication ==
    ASSUME PublicationInv, FixtureInv', NEW c \in Captures, F!CaptureLedger(c)
    PROVE  PublicationInv'
<1> DEFINE s == cap[c]
           n == Cardinality(F!OfKind(s.tmp, "ledger"))
           i == From + n
<1>1. /\ CaptureOK(s) /\ DOMAIN cap = Captures /\ s.to \in Int /\ s.to >= From /\ FixtureAssumption
      /\ s.pc = "capture" /\ s.created = FALSE /\ s.linked = 0
      /\ IsFunction(s.tmp) /\ DOMAIN s.tmp = Collected(n, s.chunks)
  BY SameCardinality DEF PublicationInv, FixtureInv, WorkingOK, F!CaptureLedger, Working
<1>2. out' = out /\ exists' = exists /\ printed' = printed /\ faults' = faults
  BY DEF F!CaptureLedger, F!Elsewhere
<1>3. IsFiniteSet(F!OfKind(s.tmp, "ledger")) /\ n \in Nat /\ i \in Int
  <2>1. IsFiniteSet(DOMAIN s.tmp) /\ F!OfKind(s.tmp, "ledger") \in SUBSET DOMAIN s.tmp
    BY <1>1 DEF CaptureOK, F!OfKind
  <2>2. IsFiniteSet(F!OfKind(s.tmp, "ledger")) /\ n \in Nat
    BY <2>1, FS_Subset, FS_CardinalityType
  <2> QED BY <1>1, <2>2 DEF FixtureAssumption
<1>4. PICK l \in {F!Genuine(i), F!Ledger(i, 1, 1)} :
         LET pending == Append(s.pending, F!Entry(l))
             full == F!Full(pending, i = s.to)
             tmp == F!With(s.tmp, F!LedgerFile(i), F!Packed(l))
         IN cap' = [cap EXCEPT ![c] =
               IF ~F!Continuous(s.previous, l) THEN [F!Unstarted EXCEPT !.pc = "failed"]
               ELSE [s EXCEPT !.previous = <<l>>,
                              !.pending = IF full THEN <<>> ELSE pending,
                              !.chunks = IF full THEN Append(@, F!Chunk(pending)) ELSE @,
                              !.tmp = IF full THEN F!With(tmp, F!IndexChunkFile(F!Chunk(pending)), pending) ELSE tmp]]
  BY SameCardinality DEF F!CaptureLedger
<1>5. CASE ~F!Continuous(s.previous, l)
  <2>1. cap' = [cap EXCEPT ![c] = [F!Unstarted EXCEPT !.pc = "failed"]]
    BY <1>4, <1>5
  <2> QED BY <1>2, <2>1, OverOK, LocalStep
<1>6. CASE F!Continuous(s.previous, l)
  <2> DEFINE pending == Append(s.pending, F!Entry(l))
             full == F!Full(pending, i = s.to)
             tmp == F!With(s.tmp, F!LedgerFile(i), F!Packed(l))
             newPending == IF full THEN <<>> ELSE pending
             newChunks == IF full THEN Append(s.chunks, F!Chunk(pending)) ELSE s.chunks
             newTmp == IF full THEN F!With(tmp, F!IndexChunkFile(F!Chunk(pending)), pending) ELSE tmp
             new == [s EXCEPT !.previous = <<l>>, !.pending = newPending, !.chunks = newChunks, !.tmp = newTmp]
  <2>1. IsFunction(tmp) /\ DOMAIN tmp = DOMAIN s.tmp \cup {F!LedgerFile(i)}
    BY DEF F!With, IsFunction
  <2>2. cap' = [cap EXCEPT ![c] = new]
    BY <1>1, <1>4, <1>6 DEF CaptureOK, CaptureFields
  <2> HIDE DEF pending, tmp, full, n
  <2>3. IsFunction(newTmp) /\ DOMAIN newTmp = IF full THEN DOMAIN tmp \cup {F!IndexChunkFile(F!Chunk(pending))} ELSE DOMAIN tmp
    BY <2>1 DEF F!With, IsFunction
  <2>4. F!OfKind(newTmp, "ledger") = F!OfKind(s.tmp, "ledger") \cup {F!LedgerFile(i)}
    BY <2>1, <2>3 DEF F!OfKind, F!LedgerFile, F!IndexChunkFile
  <2>5. F!LedgerFile(i) \notin F!OfKind(s.tmp, "ledger")
    <3>1. \A j \in From .. From + n - 1 : F!LedgerFile(j) # F!LedgerFile(i)
      BY <1>1, <1>3 DEF F!LedgerFile, FixtureAssumption
    <3>2. F!LedgerFile(i) \notin Collected(n, s.chunks)
      BY <3>1 DEF Collected, F!LedgerFile, F!IndexChunkFile, F!Indexes, F!Ledgers
    <3> QED BY <1>1, <3>2 DEF F!OfKind
  <2>6. Cardinality(F!OfKind(newTmp, "ledger")) = n + 1
    BY <1>3, <2>4, <2>5, FS_AddElement DEF n
  <2>7. DOMAIN newTmp = Collected(n + 1, newChunks)
    <3>1. From .. From + (n + 1) - 1 = (From .. From + n - 1) \cup {i}
      <4>1. From \in Nat /\ n \in Nat /\ i = From + n
        BY <1>1, <1>3 DEF FixtureAssumption
      <4> HIDE DEF i
      <4> QED BY ONLY <4>1
    <3>2. {F!LedgerFile(j) : j \in From .. From + (n + 1) - 1} = {F!LedgerFile(j) : j \in From .. From + n - 1} \cup {F!LedgerFile(i)}
      BY <3>1
    <3>3. /\ s.chunks \in Seq(GenuineChunks)
          /\ {F!IndexChunkFile(Append(s.chunks, F!Chunk(pending))[k]) : k \in DOMAIN Append(s.chunks, F!Chunk(pending))}
              = {F!IndexChunkFile(s.chunks[k]) : k \in DOMAIN s.chunks} \cup {F!IndexChunkFile(F!Chunk(pending))}
      <4>1. s.chunks \in Seq(GenuineChunks)
        BY <1>1 DEF CaptureOK
      <4> DEFINE cs == s.chunks
                 e == F!Chunk(pending)
                 as == Append(cs, e)
      <4>2. /\ DOMAIN as = 1 .. Len(cs) + 1 /\ DOMAIN cs = 1 .. Len(cs) /\ Len(cs) \in Nat
            /\ as[Len(cs) + 1] = e /\ \A k \in 1 .. Len(cs) : as[k] = cs[k]
        BY <4>1
      <4> HIDE DEF as, cs, e
      <4>3. {F!IndexChunkFile(as[k]) : k \in DOMAIN as} = {F!IndexChunkFile(cs[k]) : k \in DOMAIN cs} \cup {F!IndexChunkFile(e)}
        <5>1. DOMAIN as = DOMAIN cs \cup {Len(cs) + 1}
          BY <4>2
        <5>2. \A k \in DOMAIN cs : as[k] = cs[k]
          BY <4>2
        <5> QED BY ZenonT(40), <4>2, <5>1, <5>2
      <4> QED BY <4>1, <4>3 DEF as, cs, e
    <3>4. DOMAIN tmp = Collected(n, s.chunks) \cup {F!LedgerFile(i)}
      BY <1>1, <2>1
    <3>5. CASE full
      <4> DEFINE as == Append(s.chunks, F!Chunk(pending))
      <4>1. newChunks = as
        BY <3>5
      <4>2. DOMAIN newTmp = Collected(n, s.chunks) \cup {F!LedgerFile(i)} \cup {F!IndexChunkFile(F!Chunk(pending))}
        BY <2>3, <3>4, <3>5
      <4>3. {F!IndexChunkFile(as[k]) : k \in DOMAIN as}
              = {F!IndexChunkFile(s.chunks[k]) : k \in DOMAIN s.chunks} \cup {F!IndexChunkFile(F!Chunk(pending))}
        BY <3>3
      <4> HIDE DEF as, newTmp, newChunks
      <4>4. Collected(n + 1, as) = Collected(n, s.chunks) \cup {F!LedgerFile(i)} \cup {F!IndexChunkFile(F!Chunk(pending))}
        BY <3>2, <4>3 DEF Collected
      <4> QED BY <4>1, <4>2, <4>4
    <3>6. CASE ~full
      BY <2>3, <3>2, <3>4, <3>6 DEF Collected
    <3> QED BY <3>5, <3>6
  <2> HIDE DEF newPending, newChunks, newTmp
  <2>8. /\ new.pc = "capture" /\ new.to = s.to /\ new.created = FALSE /\ new.linked = 0
        /\ new.chunks = newChunks /\ new.tmp = newTmp
    BY <1>1 DEF CaptureOK, CaptureFields
  <2> HIDE DEF new
  <2>9. WorkingOK(new)
    BY <1>1, <2>3, <2>6, <2>7, <2>8 DEF WorkingOK
  <2>10. StagedOK(c, new) /\ ~Owns(new)
    BY <2>8 DEF StagedOK, Owns
  <2> QED BY <1>2, <2>2, <2>9, <2>10, LocalStep
<1> QED BY <1>5, <1>6

LEMMA WriteManifestPublication ==
    ASSUME PublicationInv, FixtureInv', NEW c \in Captures, F!WriteManifest(c)
    PROVE  PublicationInv'
<1> DEFINE s == cap[c]
           n == Cardinality(F!OfKind(s.tmp, "ledger"))
           m == ManifestOf(c, s)
           tmp == F!With(s.tmp, F!ManifestFile, m)
           new == [s EXCEPT !.pc = "mkdir", !.tmp = tmp]
<1>1. /\ CaptureOK(s) /\ DOMAIN cap = Captures /\ s.to \in Int /\ s.to >= From /\ FixtureAssumption
      /\ s.pc = "capture" /\ s.created = FALSE /\ s.linked = 0
      /\ IsFunction(s.tmp) /\ DOMAIN s.tmp = Collected(n, s.chunks)
  BY SameCardinality DEF PublicationInv, FixtureInv, WorkingOK, F!WriteManifest, Working
<1>2. out' = out /\ exists' = exists /\ printed' = printed /\ faults' = faults
  BY DEF F!WriteManifest, F!Elsewhere
<1>3. n = s.to - From + 1 /\ F!Manifest(c) = m
  BY ManifestIs, SameCardinality DEF F!WriteManifest
<1>4. \/ cap' = [cap EXCEPT ![c] = [F!Unstarted EXCEPT !.pc = "failed"]]
      \/ cap' = [cap EXCEPT ![c] = new] /\ F!Validate(tmp, <<>>)
  BY <1>1, <1>3, SameCardinality DEF F!WriteManifest
<1>5. CASE cap' = [cap EXCEPT ![c] = [F!Unstarted EXCEPT !.pc = "failed"]]
  BY <1>2, <1>5, OverOK, LocalStep
<1>6. CASE cap' = [cap EXCEPT ![c] = new] /\ F!Validate(tmp, <<>>)
  <2>1. IsFunction(tmp) /\ DOMAIN tmp = DOMAIN s.tmp \cup {F!ManifestFile} /\ tmp[F!ManifestFile] = m
    BY DEF F!With, IsFunction
  <2>2. F!ToSet(F!Plan(m)) = Collected(s.to - From + 1, s.chunks) \cup {F!ManifestFile}
    <3>1. s.chunks \in Seq(GenuineChunks)
      BY <1>1 DEF CaptureOK
    <3> QED BY <1>1, <3>1, PlanIs
  <2>3. DOMAIN tmp = F!ToSet(F!Plan(m))
    BY <1>1, <1>3, <2>1, <2>2
  <2> HIDE DEF tmp, n
  <2>4. /\ new.pc = "mkdir" /\ new.to = s.to /\ new.created = FALSE /\ new.linked = 0
        /\ new.chunks = s.chunks /\ new.tmp = tmp
    BY <1>1 DEF CaptureOK, CaptureFields
  <2> HIDE DEF new
  <2>5. ManifestOf(c, new) = m
    BY <2>4 DEF ManifestOf
  <2> HIDE DEF m
  <2>6. WorkingOK(new)
    BY <1>1, <2>4 DEF WorkingOK
  <2>7. StagedOK(c, new) /\ ~Owns(new)
    BY <1>6, <2>1, <2>3, <2>4, <2>5 DEF StagedOK, Owns
  <2> QED BY <1>2, <1>6, <2>6, <2>7, LocalStep
<1> QED BY <1>4, <1>5, <1>6

\* A capture that publishes moves without linking anything.
LEMMA MoveOK ==
    ASSUME PublicationInv, NEW c \in Captures, NEW s, NEW pc \in {"link", "rollback"},
           cap[c].pc \in {"mkdir", "link", "rollback"},
           s.pc = pc, s.to = cap[c].to, s.tmp = cap[c].tmp, s.chunks = cap[c].chunks,
           s.linked = cap[c].linked, s.created \in BOOLEAN, s.created = FALSE => s.linked = 0,
           pc = "link" => s.created = TRUE
    PROVE  /\ WorkingOK(s) /\ StagedOK(c, s) /\ ManifestOf(c, s) = ManifestOf(c, cap[c])
           /\ \A files : LinkedOK(c, cap[c], files) => LinkedOK(c, s, files)
<1>1. WorkingOK(cap[c]) /\ StagedOK(c, cap[c])
  BY DEF PublicationInv
<1>2. ManifestOf(c, s) = ManifestOf(c, cap[c])
  BY DEF ManifestOf
<1>3. cap[c].to \in Int /\ cap[c].to >= From
  BY <1>1 DEF WorkingOK, Working
<1>4. WorkingOK(s)
  BY <1>3 DEF WorkingOK
<1>5. StagedOK(c, s)
  BY <1>1, <1>2 DEF StagedOK
<1>6. \A files : LinkedOK(c, cap[c], files) => LinkedOK(c, s, files)
  BY <1>2 DEF LinkedOK
<1> QED BY <1>2, <1>4, <1>5, <1>6

LEMMA CreateOutputPublication ==
    ASSUME PublicationInv, FixtureInv', NEW c \in Captures, F!CreateOutput(c)
    PROVE  PublicationInv'
<1> DEFINE s == cap[c]
<1>1. /\ CaptureOK(s) /\ DOMAIN cap = Captures /\ s.pc = "mkdir" /\ s.created = FALSE /\ s.linked = 0
      /\ exists \in BOOLEAN
  BY DEF PublicationInv, FixtureInv, WorkingOK, F!CreateOutput, OutputOK
<1>2. out' = out /\ exists' = TRUE /\ printed' = printed /\ faults' = faults
  BY DEF F!CreateOutput, F!Elsewhere
<1>3. CASE exists = TRUE
  <2> DEFINE new == [s EXCEPT !.pc = "rollback", !.created = FALSE]
  <2>1. cap' = [cap EXCEPT ![c].pc = "rollback", ![c].created = FALSE]
    BY <1>3 DEF F!CreateOutput
  <2>2. cap' = [cap EXCEPT ![c] = new]
    BY <1>1, <2>1
  <2>3. /\ new.pc = "rollback" /\ new.to = s.to /\ new.created = FALSE /\ new.linked = s.linked
        /\ new.chunks = s.chunks /\ new.tmp = s.tmp
    BY <1>1 DEF CaptureOK, CaptureFields
  <2> HIDE DEF new
  <2>4. WorkingOK(new) /\ StagedOK(c, new) /\ ~Owns(new)
    BY <1>1, <2>3, MoveOK DEF Owns
  <2> QED BY <1>2, <1>3, <2>2, <2>4, LocalStep
<1>4. CASE exists = FALSE
  <2> DEFINE new == [s EXCEPT !.pc = "link", !.created = TRUE]
  <2>1. cap' = [cap EXCEPT ![c].pc = "link", ![c].created = TRUE]
    BY <1>4 DEF F!CreateOutput
  <2>2. cap' = [cap EXCEPT ![c] = new]
    BY <1>1, <2>1
  <2>3. /\ new.pc = "link" /\ new.to = s.to /\ new.created = TRUE /\ new.linked = 0
        /\ new.chunks = s.chunks /\ new.tmp = s.tmp
    BY <1>1 DEF CaptureOK, CaptureFields
  <2> HIDE DEF new
  <2>4. WorkingOK(new) /\ StagedOK(c, new)
    BY <1>1, <2>3, MoveOK
  <2>5. DOMAIN out = {} /\ printed = {} /\ \A d \in Captures : ~Owns(cap[d])
    BY <1>4 DEF PublicationInv, OwnerOK
  <2>6. LinkedOK(c, new, out)
    <3>1. Len(F!Plan(ManifestOf(c, new))) \in Nat
      <4>1. s.chunks \in Seq(GenuineChunks) /\ s.to \in Int /\ s.to >= From /\ FixtureAssumption
        BY <1>1 DEF PublicationInv, FixtureInv, WorkingOK, Working, CaptureOK
      <4>2. ManifestOf(c, new) = ManifestOf(c, s)
        BY <2>3 DEF ManifestOf
      <4>3. Len(F!Plan(ManifestOf(c, s))) \in Nat
        BY <4>1, PlanIs
      <4> QED BY <4>2, <4>3
    <3>2. 1 .. 0 = {} /\ 0 \in 0 .. Len(F!Plan(ManifestOf(c, new)))
      BY <3>1
    <3> QED BY <2>3, <2>5, <3>2 DEF LinkedOK
  <2>7. \A d \in Captures : cap'[d] = IF d = c THEN new ELSE cap[d]
    BY <1>1, <2>2
  <2>8. \A d \in Captures : WorkingOK(cap'[d]) /\ StagedOK(d, cap'[d])
    BY <2>4, <2>7 DEF PublicationInv
  <2>9. OwnerOK'
    BY <1>2, <2>5, <2>6, <2>7 DEF OwnerOK
  <2>10. OutputOK'
    BY <1>2 DEF PublicationInv, OutputOK, F!PublishedIntact, F!ManifestCompletes
  <2> QED BY <2>8, <2>9, <2>10 DEF PublicationInv
<1> QED BY <1>1, <1>3, <1>4

LEMMA LinkFailsPublication ==
    ASSUME PublicationInv, FixtureInv', NEW c \in Captures, cap[c].pc = "link", cap' = [cap EXCEPT ![c].pc = "rollback"],
           out' = out, exists' = exists, printed' = printed, faults' = faults
    PROVE  PublicationInv'
<1> DEFINE s == cap[c]
           new == [s EXCEPT !.pc = "rollback"]
<1>1. /\ CaptureOK(s) /\ DOMAIN cap = Captures /\ s.pc = "link" /\ s.created = TRUE
      /\ Owns(s) /\ LinkedOK(c, s, out)
  BY DEF PublicationInv, FixtureInv, WorkingOK, OwnerOK, Owns
<1>2. cap' = [cap EXCEPT ![c] = new]
  BY <1>1
<1>3. /\ new.pc = "rollback" /\ new.to = s.to /\ new.created = TRUE /\ new.linked = s.linked
      /\ new.chunks = s.chunks /\ new.tmp = s.tmp
  BY <1>1 DEF CaptureOK, CaptureFields
<1> HIDE DEF new
<1>4. WorkingOK(new) /\ StagedOK(c, new) /\ LinkedOK(c, new, out)
  BY <1>1, <1>3, MoveOK
<1> QED BY <1>1, <1>2, <1>4, LocalStep

\* The directory of an owner has a manifest only when it has everything else.
LEMMA ManifestLast ==
    ASSUME FixtureAssumption, NEW c, NEW s, NEW files, s.chunks \in Seq(GenuineChunks), s.to \in Int, s.to >= From,
           s.pc \in {"link", "rollback"}, StagedOK(c, s), LinkedOK(c, s, files), IsFunction(files)
    PROVE  LET plan == F!Plan(ManifestOf(c, s))
           IN  /\ F!ManifestFile \in DOMAIN files => s.linked = Len(plan)
               /\ s.linked = Len(plan) => files = s.tmp /\ F!ManifestFile \in DOMAIN files
<1> DEFINE plan == F!Plan(ManifestOf(c, s))
           len == Len(plan)
<1>1. /\ len \in Nat /\ len >= 1 /\ DOMAIN plan = 1 .. len
      /\ plan[len] = F!ManifestFile
      /\ \A j \in 1 .. len : plan[j] = F!ManifestFile => j = len
  BY PlanIs
<1>2. IsFunction(s.tmp) /\ DOMAIN s.tmp = F!ToSet(plan)
  BY DEF StagedOK
<1>3. /\ s.linked \in 0 .. len /\ DOMAIN files = {plan[j] : j \in 1 .. s.linked}
      /\ \A j \in 1 .. s.linked : files[plan[j]] = s.tmp[plan[j]]
  BY DEF LinkedOK
<1> HIDE DEF plan, len
<1>4. F!ManifestFile \in DOMAIN files => s.linked = len
  <2> SUFFICES ASSUME F!ManifestFile \in DOMAIN files PROVE s.linked = len
    OBVIOUS
  <2>1. PICK j \in 1 .. s.linked : plan[j] = F!ManifestFile
    BY <1>3
  <2>2. j \in 1 .. len /\ j <= s.linked /\ s.linked <= len /\ s.linked \in Int
    BY <1>1, <1>3
  <2>3. j = len
    BY <1>1, <2>1, <2>2
  <2> QED BY <1>1, <2>2, <2>3
<1>5. ASSUME s.linked = len PROVE files = s.tmp /\ F!ManifestFile \in DOMAIN files
  <2>1. DOMAIN files = {plan[j] : j \in DOMAIN plan}
    BY <1>1, <1>3, <1>5
  <2>2. DOMAIN files = DOMAIN s.tmp
    BY <1>2, <2>1 DEF F!ToSet
  <2>3. \A f \in DOMAIN files : files[f] = s.tmp[f]
    BY <1>1, <1>3, <1>5, <2>1
  <2>4. files = s.tmp
    BY <1>2, <2>2, <2>3 DEF IsFunction
  <2>5. len \in DOMAIN plan
    BY <1>1
  <2> QED BY <1>1, <2>1, <2>4, <2>5
<1>6. /\ F!ManifestFile \in DOMAIN files => s.linked = len
      /\ s.linked = len => files = s.tmp /\ F!ManifestFile \in DOMAIN files
  BY <1>4, <1>5
<1> QED BY <1>6 DEF plan, len

\* The owner of the output directory, before anything is printed.
LEMMA OwnerIs ==
    ASSUME PublicationInv, NEW c \in Captures, Owns(cap[c])
    PROVE  /\ CaptureOK(cap[c]) /\ DOMAIN cap = Captures /\ FixtureAssumption
           /\ cap[c].chunks \in Seq(GenuineChunks) /\ cap[c].to \in Int /\ cap[c].to >= From
           /\ StagedOK(c, cap[c]) /\ LinkedOK(c, cap[c], out)
           /\ exists = TRUE /\ printed = {} /\ faults = 0
           /\ \A d \in Captures \ {c} : ~Owns(cap[d])
           /\ cap[c].pc \in {"link", "rollback"} /\ cap[c].created = TRUE
           /\ DOMAIN out = {} \/ IsFunction(out)
<1>1. /\ CaptureOK(cap[c]) /\ DOMAIN cap = Captures /\ FixtureAssumption
      /\ WorkingOK(cap[c]) /\ StagedOK(c, cap[c]) /\ OwnerOK /\ OutputOK
  BY DEF PublicationInv, FixtureInv
<1>2. cap[c].pc \in {"link", "rollback"} /\ cap[c].created = TRUE
  BY DEF Owns
<1>3. cap[c].chunks \in Seq(GenuineChunks) /\ cap[c].to \in Int /\ cap[c].to >= From
  BY <1>1, <1>2 DEF CaptureOK, WorkingOK, Working
<1>4. LinkedOK(c, cap[c], out) /\ exists = TRUE /\ printed = {} /\ \A d \in Captures \ {c} : ~Owns(cap[d])
  BY <1>1 DEF OwnerOK
<1>5. faults = 0 /\ (DOMAIN out = {} \/ IsFunction(out))
  BY <1>1, <1>4 DEF OutputOK
<1> QED BY <1>1, <1>2, <1>3, <1>4, <1>5

\* The owner moves, and with it the directory.
LEMMA OwnerStep ==
    ASSUME PublicationInv, FixtureInv', NEW c \in Captures, Owns(cap[c]), NEW s, cap' = [cap EXCEPT ![c] = s],
           WorkingOK(s), StagedOK(c, s), Owns(s), LinkedOK(c, s, out'),
           IsFunction(out'), F!ManifestFile \in DOMAIN out' => F!Validate(out', <<>>),
           exists' = exists, printed' = printed, faults' = faults
    PROVE  PublicationInv'
<1>1. /\ DOMAIN cap = Captures /\ exists = TRUE /\ printed = {} /\ faults = 0
      /\ \A d \in Captures \ {c} : ~Owns(cap[d])
  BY OwnerIs
<1>2. \A d \in Captures : cap'[d] = IF d = c THEN s ELSE cap[d]
  BY <1>1
<1>3. \A d \in Captures : WorkingOK(cap'[d]) /\ StagedOK(d, cap'[d])
  BY <1>2 DEF PublicationInv
<1>4. OwnerOK'
  BY <1>1, <1>2 DEF OwnerOK
<1>5. OutputOK'
  BY <1>1 DEF OutputOK, F!PublishedIntact, F!ManifestCompletes
<1> QED BY <1>3, <1>4, <1>5 DEF PublicationInv

LEMMA LinkPublication ==
    ASSUME PublicationInv, FixtureInv', NEW c \in Captures, F!Link(c)
    PROVE  PublicationInv'
<1> DEFINE s == cap[c]
           plan == F!Plan(ManifestOf(c, s))
           k == s.linked + 1
           next == plan[k]
           new == [s EXCEPT !.linked = k]
<1>1. /\ Owns(s) /\ s.pc = "link" /\ s.created = TRUE
  BY DEF PublicationInv, WorkingOK, F!Link, Owns
<1>2. F!Manifest(c) = ManifestOf(c, s)
  BY ManifestIs
<1>3. exists' = exists /\ printed' = printed /\ faults' = faults /\ s.linked < Len(plan)
  BY <1>2 DEF F!Link, F!Elsewhere
<1>4. CASE cap' = [cap EXCEPT ![c].pc = "rollback"] /\ out' = out
  BY <1>1, <1>3, <1>4, LinkFailsPublication
<1>5. CASE /\ next \notin DOMAIN out /\ out' = F!With(out, next, s.tmp[next])
           /\ cap' = [cap EXCEPT ![c].linked = @ + 1]
  <2>1. /\ CaptureOK(s) /\ DOMAIN cap = Captures /\ FixtureAssumption
        /\ s.chunks \in Seq(GenuineChunks) /\ s.to \in Int /\ s.to >= From
        /\ StagedOK(c, s) /\ LinkedOK(c, s, out)
    BY <1>1, OwnerIs
  <2>2. cap' = [cap EXCEPT ![c] = new]
    BY <1>5, <2>1
  <2>3. Len(plan) \in Nat /\ DOMAIN plan = 1 .. Len(plan)
    BY <2>1, PlanIs
  <2>4. /\ s.linked \in 0 .. Len(plan) /\ DOMAIN out = {plan[j] : j \in 1 .. s.linked}
        /\ \A j \in 1 .. s.linked : out[plan[j]] = s.tmp[plan[j]]
        /\ \A j, i \in 1 .. s.linked : plan[j] = plan[i] => j = i
    BY <2>1 DEF LinkedOK
  <2> HIDE DEF plan
  <2>5. k \in 1 .. Len(plan) /\ 1 .. k = (1 .. s.linked) \cup {k} /\ k \notin 1 .. s.linked
    BY <1>3, <2>3, <2>4
  <2> HIDE DEF k
  <2>6. IsFunction(out') /\ DOMAIN out' = DOMAIN out \cup {next} /\ out'[next] = s.tmp[next]
        /\ \A f \in DOMAIN out : f # next => out'[f] = out[f]
    BY <1>5 DEF F!With, IsFunction
  <2>7. /\ DOMAIN out' = {plan[j] : j \in 1 .. k}
        /\ \A j \in 1 .. k : out'[plan[j]] = s.tmp[plan[j]]
        /\ \A j, i \in 1 .. k : plan[j] = plan[i] => j = i
    <3>1. \A j \in 1 .. s.linked : plan[j] \in DOMAIN out /\ plan[j] # next
      BY <1>5, <2>4
    <3>2. DOMAIN out' = {plan[j] : j \in 1 .. k}
      BY SMTT(30), <2>4, <2>5, <2>6
    <3>3. \A j \in 1 .. k : out'[plan[j]] = s.tmp[plan[j]]
      BY <2>4, <2>5, <2>6, <3>1
    <3>4. \A j, i \in 1 .. k : plan[j] = plan[i] => j = i
      BY <2>4, <2>5, <3>1
    <3> QED BY <3>2, <3>3, <3>4
  <2>8. /\ new.pc = "link" /\ new.to = s.to /\ new.created = TRUE /\ new.linked = k
        /\ new.chunks = s.chunks /\ new.tmp = s.tmp
    BY <1>1, <2>1 DEF CaptureOK, CaptureFields
  <2> HIDE DEF new, next
  <2>9. ManifestOf(c, new) = ManifestOf(c, s)
    BY <2>8 DEF ManifestOf
  <2>10. WorkingOK(new)
    BY <2>1, <2>8 DEF WorkingOK
  <2>11. StagedOK(c, new) /\ Owns(new) /\ F!Validate(new.tmp, <<>>)
    BY <1>1, <2>1, <2>8, <2>9 DEF StagedOK, Owns
  <2>12. LinkedOK(c, new, out')
    <3>1. F!Plan(ManifestOf(c, new)) = plan /\ k \in 0 .. Len(plan)
      BY <2>3, <2>5, <2>9 DEF plan
    <3> QED BY <2>7, <2>8, <3>1 DEF LinkedOK
  <2>13. F!ManifestFile \in DOMAIN out' => F!Validate(out', <<>>)
    <3> DEFINE files == out'
    <3>1. IsFunction(files) /\ LinkedOK(c, new, files)
      BY <2>6, <2>12
    <3>2. new.chunks \in Seq(GenuineChunks) /\ new.to \in Int /\ new.to >= From /\ new.pc \in {"link", "rollback"}
      BY <2>1, <2>8
    <3> HIDE DEF files
    <3>3. F!ManifestFile \in DOMAIN files => files = new.tmp
      BY <2>1, <2>11, <3>1, <3>2, ManifestLast
    <3> QED BY <2>11, <3>3 DEF files
  <2> QED BY <1>1, <1>3, <2>2, <2>6, <2>10, <2>11, <2>12, <2>13, OwnerStep
<1> QED BY <1>2, <1>4, <1>5 DEF F!Link

LEMMA RollbackPublication ==
    ASSUME PublicationInv, FixtureInv', NEW c \in Captures, F!Rollback(c)
    PROVE  PublicationInv'
<1> DEFINE s == cap[c]
           plan == F!Plan(ManifestOf(c, s))
           k == s.linked - 1
           last == plan[s.linked]
           new == [s EXCEPT !.linked = k]
           over == [F!Unstarted EXCEPT !.pc = "failed"]
<1>1. /\ s.pc = "rollback" /\ s.created \in BOOLEAN /\ (s.created = FALSE => s.linked = 0)
      /\ exists \in BOOLEAN /\ DOMAIN cap = Captures
  BY DEF PublicationInv, FixtureInv, WorkingOK, OutputOK, F!Rollback
<1>2. printed' = printed /\ faults' = faults
  BY DEF F!Rollback, F!Elsewhere
<1>3. CASE s.linked > 0
  <2>1. s.created = TRUE /\ Owns(s)
    BY <1>1, <1>3 DEF Owns
  <2>2. /\ CaptureOK(s) /\ DOMAIN cap = Captures /\ FixtureAssumption
        /\ s.chunks \in Seq(GenuineChunks) /\ s.to \in Int /\ s.to >= From
        /\ StagedOK(c, s) /\ LinkedOK(c, s, out)
    BY <2>1, OwnerIs
  <2>3. /\ out' = F!Without(out, last) /\ exists' = exists /\ cap' = [cap EXCEPT ![c].linked = @ - 1]
    BY <1>3, ManifestIs DEF F!Rollback
  <2>4. cap' = [cap EXCEPT ![c] = new]
    BY <2>2, <2>3
  <2>5. Len(plan) \in Nat /\ DOMAIN plan = 1 .. Len(plan)
    BY <2>2, PlanIs
  <2>6. /\ s.linked \in 0 .. Len(plan) /\ DOMAIN out = {plan[j] : j \in 1 .. s.linked}
        /\ \A j \in 1 .. s.linked : out[plan[j]] = s.tmp[plan[j]]
        /\ \A j, i \in 1 .. s.linked : plan[j] = plan[i] => j = i
    BY <2>2 DEF LinkedOK
  <2> HIDE DEF plan
  <2>7. k \in 0 .. Len(plan) /\ k # Len(plan) /\ 1 .. s.linked = (1 .. k) \cup {s.linked} /\ s.linked \notin 1 .. k
    BY <1>3, <2>5, <2>6
  <2> HIDE DEF k
  <2>8. IsFunction(out') /\ DOMAIN out' = DOMAIN out \ {last} /\ \A f \in DOMAIN out' : out'[f] = out[f]
    BY <2>3 DEF F!Without, IsFunction
  <2>9. /\ DOMAIN out' = {plan[j] : j \in 1 .. k}
        /\ \A j \in 1 .. k : out'[plan[j]] = s.tmp[plan[j]]
        /\ \A j, i \in 1 .. k : plan[j] = plan[i] => j = i
    <3>1. \A j \in 1 .. k : j \in 1 .. s.linked /\ plan[j] # last
      BY <2>6, <2>7
    <3>2. DOMAIN out' = {plan[j] : j \in 1 .. k}
      BY SMTT(30), <2>6, <2>7, <2>8, <3>1
    <3>3. \A j \in 1 .. k : out'[plan[j]] = s.tmp[plan[j]]
      BY <2>6, <2>8, <3>1, <3>2
    <3>4. \A j, i \in 1 .. k : plan[j] = plan[i] => j = i
      BY <2>6, <3>1
    <3> QED BY <3>2, <3>3, <3>4
  <2>10. /\ new.pc = "rollback" /\ new.to = s.to /\ new.created = TRUE /\ new.linked = k
         /\ new.chunks = s.chunks /\ new.tmp = s.tmp
    BY <1>1, <2>1, <2>2 DEF CaptureOK, CaptureFields
  <2> HIDE DEF new, last
  <2>11. ManifestOf(c, new) = ManifestOf(c, s)
    BY <2>10 DEF ManifestOf
  <2>12. WorkingOK(new)
    BY <2>2, <2>10 DEF WorkingOK
  <2>13. StagedOK(c, new) /\ Owns(new)
    BY <1>1, <2>2, <2>10, <2>11 DEF StagedOK, Owns
  <2>14. LinkedOK(c, new, out') /\ F!Plan(ManifestOf(c, new)) = plan
    <3>1. F!Plan(ManifestOf(c, new)) = plan
      BY <2>11 DEF plan
    <3> QED BY <2>7, <2>9, <2>10, <3>1 DEF LinkedOK
  <2>15. F!ManifestFile \notin DOMAIN out'
    <3> DEFINE files == out'
    <3>1. IsFunction(files) /\ LinkedOK(c, new, files)
      BY <2>8, <2>14
    <3>2. new.chunks \in Seq(GenuineChunks) /\ new.to \in Int /\ new.to >= From /\ new.pc \in {"link", "rollback"}
      BY <2>2, <2>10
    <3>3. new.linked # Len(plan)
      BY <2>7, <2>10
    <3> HIDE DEF files
    <3>4. F!ManifestFile \in DOMAIN files => new.linked = Len(F!Plan(ManifestOf(c, new)))
      BY <2>2, <2>13, <3>1, <3>2, ManifestLast
    <3> QED BY <2>14, <3>3, <3>4 DEF files
  <2> QED BY <1>2, <2>1, <2>3, <2>4, <2>8, <2>12, <2>13, <2>14, <2>15, OwnerStep
<1>4. CASE ~(s.linked > 0)
  <2>1. /\ out' = out /\ cap' = [cap EXCEPT ![c] = over]
        /\ exists' = (exists /\ (s.created => DOMAIN out # {}))
    BY <1>4 DEF F!Rollback
  <2>2. WorkingOK(over) /\ StagedOK(c, over) /\ ~Owns(over)
    BY OverOK
  <2> HIDE DEF over
  <2>3. CASE s.created = FALSE
    <3>1. exists' = exists
      BY <1>1, <2>1, <2>3
    <3> QED BY <1>2, <2>1, <2>2, <3>1, LocalStep
  <2>4. CASE s.created = TRUE
    <3>1. Owns(s)
      BY <1>1, <2>4 DEF Owns
    <3>2. /\ exists = TRUE /\ printed = {} /\ faults = 0 /\ FixtureAssumption /\ LinkedOK(c, s, out)
          /\ \A d \in Captures \ {c} : ~Owns(cap[d])
      BY <3>1, OwnerIs
    <3>3. DOMAIN out = {}
      <4>1. s.chunks \in Seq(GenuineChunks) /\ s.to \in Int /\ s.to >= From
        BY <3>1, OwnerIs
      <4>2. Len(plan) \in Nat
        BY <3>2, <4>1, PlanIs
      <4>3. s.linked \in 0 .. Len(plan) /\ DOMAIN out = {plan[j] : j \in 1 .. s.linked}
        BY <3>2 DEF LinkedOK
      <4> HIDE DEF plan
      <4>4. s.linked = 0
        BY <1>4, <4>2, <4>3
      <4> QED BY <4>3, <4>4
    <3>4. exists' = FALSE
      BY <2>1, <2>4, <3>3
    <3>5. \A d \in Captures : cap'[d] = IF d = c THEN over ELSE cap[d]
      BY <1>1, <2>1
    <3>6. \A d \in Captures : WorkingOK(cap'[d]) /\ StagedOK(d, cap'[d]) /\ ~Owns(cap'[d])
      BY <2>2, <3>2, <3>5 DEF PublicationInv
    <3>7. OwnerOK'
      BY <1>2, <2>1, <3>2, <3>3, <3>6 DEF OwnerOK
    <3>8. OutputOK'
      BY <1>2, <2>1, <3>2, <3>3, <3>4 DEF OutputOK, F!PublishedIntact, F!ManifestCompletes
    <3> QED BY <3>6, <3>7, <3>8 DEF PublicationInv
  <2> QED BY <1>1, <2>3, <2>4
<1> QED BY <1>3, <1>4

LEMMA FinishPublication ==
    ASSUME PublicationInv, FixtureInv', NEW c \in Captures, F!Finish(c)
    PROVE  PublicationInv'
<1> DEFINE s == cap[c]
           m == ManifestOf(c, s)
           new == [s EXCEPT !.pc = "done", !.tmp = F!NoFiles]
<1>1. s.pc = "link" /\ s.created = TRUE /\ Owns(s)
  BY DEF PublicationInv, WorkingOK, F!Finish, Owns
<1>2. /\ CaptureOK(s) /\ DOMAIN cap = Captures /\ FixtureAssumption
      /\ s.chunks \in Seq(GenuineChunks) /\ s.to \in Int /\ s.to >= From
      /\ StagedOK(c, s) /\ LinkedOK(c, s, out)
      /\ exists = TRUE /\ printed = {} /\ faults = 0
      /\ \A d \in Captures \ {c} : ~Owns(cap[d])
      /\ DOMAIN out = {} \/ IsFunction(out)
  BY <1>1, OwnerIs
<1>3. /\ s.linked = Len(F!Plan(m)) /\ printed' = printed \cup {m} /\ out' = out /\ exists' = exists /\ faults' = faults
      /\ cap' = [cap EXCEPT ![c].pc = "done", ![c].tmp = F!NoFiles]
  BY ManifestIs DEF F!Finish, F!Elsewhere
<1>4. IsFunction(out)
  <2> DEFINE plan == F!Plan(m)
             len == Len(plan)
  <2>1. len \in Nat /\ len >= 1
    BY <1>2, PlanIs
  <2>2. s.linked = len /\ DOMAIN out = {plan[j] : j \in 1 .. s.linked}
    BY <1>2, <1>3 DEF LinkedOK
  <2> HIDE DEF plan, len
  <2>3. 1 \in 1 .. s.linked
    BY <2>1, <2>2
  <2>4. DOMAIN out # {}
    BY <2>2, <2>3
  <2> QED BY <1>2, <2>4
<1>5. out = s.tmp /\ F!ManifestFile \in DOMAIN out
  BY <1>1, <1>2, <1>3, <1>4, ManifestLast
<1>6. DOMAIN out = F!ToSet(F!Plan(m)) /\ out[F!ManifestFile] = m /\ F!Validate(out, <<>>)
  BY <1>1, <1>2, <1>5 DEF StagedOK
<1>7. F!Validate(out, <<m>>)
  <2>1. <<m>>[1] = m
    OBVIOUS
  <2> HIDE DEF m
  <2>2. F!Inspect(out, <<>>) => F!Inspect(out, <<m>>)
    BY <1>6, <2>1 DEF F!Inspect
  <2> QED BY <1>6, <2>2 DEF F!Validate
<1>8. cap' = [cap EXCEPT ![c] = new]
  BY <1>2, <1>3
<1>9. new.pc = "done"
  BY <1>2 DEF CaptureOK, CaptureFields
<1> HIDE DEF new, m
<1>10. WorkingOK(new) /\ StagedOK(c, new) /\ ~Owns(new)
  BY <1>9 DEF WorkingOK, StagedOK, Owns, Working
<1>11. \A d \in Captures : cap'[d] = IF d = c THEN new ELSE cap[d]
  BY <1>2, <1>8
<1>12. \A d \in Captures : WorkingOK(cap'[d]) /\ StagedOK(d, cap'[d]) /\ ~Owns(cap'[d])
  BY <1>2, <1>10, <1>11 DEF PublicationInv
<1>13. OwnerOK'
  BY <1>2, <1>3, <1>12 DEF OwnerOK
<1>14. printed' = {m}
  BY <1>2, <1>3
<1>15. F!PublishedIntact' /\ F!ManifestCompletes'
  BY <1>3, <1>6, <1>7, <1>14 DEF F!PublishedIntact, F!ManifestCompletes
<1>16. OutputOK'
  BY <1>2, <1>3, <1>4, <1>14, <1>15 DEF OutputOK
<1> QED BY <1>12, <1>13, <1>16 DEF PublicationInv

LEMMA KillPublication ==
    ASSUME PublicationInv, FixtureInv', NEW c \in Captures, F!Kill(c)
    PROVE  PublicationInv'
BY OverOK, LocalStep DEF F!Kill, F!Elsewhere

\* The storage fails only after a digest is printed, and then no capture owns the directory.
LEMMA FaultPublication ==
    ASSUME PublicationInv, FixtureInv', F!Fault
    PROVE  PublicationInv'
<1>1. printed # {} /\ faults' = faults + 1 /\ exists' = exists /\ cap' = cap /\ printed' = printed /\ faults \in Nat
  BY DEF F!Fault, PublicationInv, OutputOK
<1>2. exists = TRUE /\ \A c \in Captures : ~Owns(cap[c])
  BY <1>1 DEF PublicationInv, OwnerOK, OutputOK
<1>3. OwnerOK'
  BY <1>1, <1>2 DEF OwnerOK
<1>4. faults' \in Nat /\ faults' # 0
  BY <1>1
<1>5. OutputOK'
  BY <1>1, <1>2, <1>4 DEF OutputOK, F!PublishedIntact, F!ManifestCompletes
<1> QED BY <1>1, <1>3, <1>5 DEF PublicationInv

\* The publication, at every step of every capture.
THEOREM PublicationInvariant ==
    ASSUME FixtureAssumption
    PROVE  F!Spec => []PublicationInv
<1>1. F!Init /\ FixtureInv => PublicationInv
  <2> SUFFICES ASSUME F!Init, FixtureInv PROVE PublicationInv
    OBVIOUS
  <2>1. \A c \in Captures : cap[c] = F!Unstarted /\ cap[c].pc = "unstarted"
    BY DEF F!Init, F!Unstarted
  <2>2. \A c \in Captures : WorkingOK(cap[c]) /\ StagedOK(c, cap[c]) /\ ~Owns(cap[c])
    BY <2>1 DEF WorkingOK, StagedOK, Owns, Working
  <2>3. DOMAIN out = {} /\ exists = FALSE /\ printed = {} /\ faults = 0
    BY DEF F!Init, F!NoFiles
  <2> QED BY <2>2, <2>3 DEF PublicationInv, OwnerOK, OutputOK, F!PublishedIntact, F!ManifestCompletes
<1>2. PublicationInv /\ FixtureInv' /\ [F!Next]_(F!vars) => PublicationInv'
  <2> SUFFICES ASSUME PublicationInv, FixtureInv', [F!Next]_(F!vars) PROVE PublicationInv'
    OBVIOUS
  <2>1. ASSUME UNCHANGED <<out, exists, cap, printed, faults>> PROVE PublicationInv'
    BY <2>1 DEF PublicationInv, OwnerOK, OutputOK, F!PublishedIntact, F!ManifestCompletes
  <2>2. ASSUME \/ F!StartReplay \/ F!InspectBundle \/ F!CheckLedger \/ F!Open \/ F!ReadTarget \/ F!Preflight \/ F!ReplayLedger
               \/ UNCHANGED F!vars
        PROVE  UNCHANGED <<out, exists, cap, printed, faults>>
    BY <2>2 DEF F!StartReplay, F!InspectBundle, F!CheckLedger, F!Open, F!ReadTarget, F!Preflight, F!ReplayLedger, F!Reading, F!vars
  <2>3. ASSUME NEW c \in Captures, F!LinkFails(c) PROVE PublicationInv'
    BY <2>3, LinkFailsPublication DEF F!LinkFails, F!Elsewhere
  <2> QED BY <2>1, <2>2, <2>3, BeginPublication, CaptureLedgerPublication, WriteManifestPublication,
             CreateOutputPublication, LinkPublication, RollbackPublication, FinishPublication,
             KillPublication, FaultPublication DEF F!Next
<1>3. F!Spec => []FixtureInv
  BY FixtureInvariant
<1>4. F!Spec => []PublicationInv
  BY <1>1, <1>2, <1>3, PTL DEF F!Spec
<1> QED BY <1>4

\* Whatever other captures do with the same output directory, their rollbacks and their ends
\* included, the directory of a capture that has returned holds exactly its bundle, and a
\* directory with a manifest is complete and valid at every step, as long as the storage does
\* not fail (publishBundleNoClobber).
THEOREM BundlesStayWhole ==
    ASSUME FixtureAssumption
    PROVE  F!Spec => [](F!PublishedIntact /\ F!ManifestCompletes)
<1>1. PublicationInv => F!PublishedIntact /\ F!ManifestCompletes
  BY DEF PublicationInv, OutputOK
<1> QED BY <1>1, PublicationInvariant, PTL

-----------------------------------------------------------------------------
(* Types.                                                                  *)

\* What is pending is less than a chunk, and nothing is after the last ledger.
CaptureTyped(s) ==
    /\ s.pc \in {"unstarted", "capture", "mkdir", "link", "rollback", "done", "failed", "killed"}
    /\ s.pc \in Working => s.to \in From .. Tip
    /\ Len(s.pending) < PerChunk
    /\ s.pc \in {"mkdir", "link", "rollback", "done"} => s.pending = <<>>
    /\ s.pc = "capture" /\ Cardinality(F!OfKind(s.tmp, "ledger")) = s.to - From + 1 => s.pending = <<>>

TypedInv ==
    /\ PublicationInv
    /\ \A c \in Captures : CaptureTyped(cap[c])
    /\ \A m \in printed : m.to \in From .. Tip

LEMMA TypedStep ==
    ASSUME TypedInv, PublicationInv', NEW c \in Captures, NEW s, cap' = [cap EXCEPT ![c] = s], CaptureTyped(s),
           \A m \in printed' : m \in printed \/ m.to \in From .. Tip
    PROVE  TypedInv'
<1>1. \A d \in Captures : cap'[d] = IF d = c THEN s ELSE cap[d]
  BY DEF TypedInv, PublicationInv, FixtureInv
<1> QED BY <1>1 DEF TypedInv

\* A capture that is over has nothing pending.
LEMMA OverTyped ==
    ASSUME FixtureAssumption, NEW pc \in {"failed", "killed"}
    PROVE  CaptureTyped([F!Unstarted EXCEPT !.pc = pc])
<1> DEFINE s == [F!Unstarted EXCEPT !.pc = pc]
<1>1. s.pc = pc /\ s.pending = <<>>
  BY DEF F!Unstarted
<1> HIDE DEF s
<1>2. Len(s.pending) = 0
  BY <1>1
<1>3. 0 < PerChunk
  BY DEF FixtureAssumption
<1>4. CaptureTyped(s)
  BY <1>1, <1>2, <1>3 DEF CaptureTyped, Working
<1> QED BY <1>4 DEF s

LEMMA BeginTyped ==
    ASSUME TypedInv, PublicationInv', NEW c \in Captures, F!Begin(c)
    PROVE  TypedInv'
<1>1. cap[c] = F!Unstarted /\ DOMAIN cap = Captures /\ FixtureAssumption /\ printed' = printed
  BY DEF TypedInv, PublicationInv, FixtureInv, WorkingOK, F!Begin, F!Elsewhere
<1>2. PICK to \in From .. Tip :
         cap' = [cap EXCEPT ![c].pc = "capture", ![c].to = to,
                            ![c].tmp = F!With(F!With(F!NoFiles, F!Ledgers, 0), F!Indexes, 0)]
  BY DEF F!Begin
<1> DEFINE tmp == F!With(F!With(F!NoFiles, F!Ledgers, 0), F!Indexes, 0)
           s == [cap[c] EXCEPT !.pc = "capture", !.to = to, !.tmp = tmp]
<1> HIDE DEF tmp
<1>3. cap' = [cap EXCEPT ![c] = s]
  BY <1>1, <1>2 DEF tmp, F!Unstarted
<1>4. s.pc = "capture" /\ s.to = to /\ s.pending = <<>>
  BY <1>1 DEF F!Unstarted
<1> HIDE DEF s
<1>5. Len(s.pending) = 0 /\ 0 < PerChunk
  BY <1>1, <1>4 DEF FixtureAssumption
<1>6. CaptureTyped(s)
  BY SMTT(30), <1>4, <1>5 DEF CaptureTyped
<1> QED BY <1>1, <1>3, <1>6, TypedStep

LEMMA CaptureLedgerTyped ==
    ASSUME TypedInv, PublicationInv', NEW c \in Captures, F!CaptureLedger(c)
    PROVE  TypedInv'
<1> DEFINE s == cap[c]
           n == Cardinality(F!OfKind(s.tmp, "ledger"))
           i == From + n
<1>1. /\ CaptureOK(s) /\ DOMAIN cap = Captures /\ s.to \in From .. Tip /\ FixtureAssumption
      /\ s.pc = "capture" /\ IsFunction(s.tmp) /\ DOMAIN s.tmp = Collected(n, s.chunks)
      /\ Len(s.pending) < PerChunk /\ i <= s.to
  BY SameCardinality DEF TypedInv, CaptureTyped, PublicationInv, FixtureInv, WorkingOK, F!CaptureLedger, Working
<1>2. printed' = printed
  BY DEF F!CaptureLedger, F!Elsewhere
<1>3. IsFiniteSet(F!OfKind(s.tmp, "ledger")) /\ n \in Nat /\ i \in Int
  <2>1. IsFiniteSet(DOMAIN s.tmp) /\ F!OfKind(s.tmp, "ledger") \in SUBSET DOMAIN s.tmp
    BY <1>1 DEF CaptureOK, F!OfKind
  <2>2. IsFiniteSet(F!OfKind(s.tmp, "ledger")) /\ n \in Nat
    BY <2>1, FS_Subset, FS_CardinalityType
  <2> QED BY <1>1, <2>2 DEF FixtureAssumption
<1>4. PICK l \in {F!Genuine(i), F!Ledger(i, 1, 1)} :
         LET pending == Append(s.pending, F!Entry(l))
             full == F!Full(pending, i = s.to)
             tmp == F!With(s.tmp, F!LedgerFile(i), F!Packed(l))
         IN cap' = [cap EXCEPT ![c] =
               IF ~F!Continuous(s.previous, l) THEN [F!Unstarted EXCEPT !.pc = "failed"]
               ELSE [s EXCEPT !.previous = <<l>>,
                              !.pending = IF full THEN <<>> ELSE pending,
                              !.chunks = IF full THEN Append(@, F!Chunk(pending)) ELSE @,
                              !.tmp = IF full THEN F!With(tmp, F!IndexChunkFile(F!Chunk(pending)), pending) ELSE tmp]]
  BY SameCardinality DEF F!CaptureLedger
<1>5. CASE ~F!Continuous(s.previous, l)
  <2>1. cap' = [cap EXCEPT ![c] = [F!Unstarted EXCEPT !.pc = "failed"]]
    BY <1>4, <1>5
  <2> QED BY <1>1, <1>2, <2>1, OverTyped, TypedStep
<1>6. CASE F!Continuous(s.previous, l)
  <2> DEFINE pending == Append(s.pending, F!Entry(l))
             full == F!Full(pending, i = s.to)
             tmp == F!With(s.tmp, F!LedgerFile(i), F!Packed(l))
             newPending == IF full THEN <<>> ELSE pending
             newChunks == IF full THEN Append(s.chunks, F!Chunk(pending)) ELSE s.chunks
             newTmp == IF full THEN F!With(tmp, F!IndexChunkFile(F!Chunk(pending)), pending) ELSE tmp
             new == [s EXCEPT !.previous = <<l>>, !.pending = newPending, !.chunks = newChunks, !.tmp = newTmp]
  <2>1. DOMAIN tmp = DOMAIN s.tmp \cup {F!LedgerFile(i)}
    BY DEF F!With
  <2>2. cap' = [cap EXCEPT ![c] = new]
    BY <1>1, <1>4, <1>6 DEF CaptureOK, CaptureFields
  <2>3. Len(pending) = Len(s.pending) + 1 /\ Len(s.pending) \in Nat
    BY <1>1 DEF CaptureOK
  <2>4. ~full => Len(pending) # PerChunk /\ i # s.to
    BY DEF F!Full
  <2> HIDE DEF pending, tmp, full, n
  <2>5. DOMAIN newTmp = IF full THEN DOMAIN tmp \cup {F!IndexChunkFile(F!Chunk(pending))} ELSE DOMAIN tmp
    BY DEF F!With
  <2>6. F!OfKind(newTmp, "ledger") = F!OfKind(s.tmp, "ledger") \cup {F!LedgerFile(i)}
    BY <2>1, <2>5 DEF F!OfKind, F!LedgerFile, F!IndexChunkFile
  <2>7. F!LedgerFile(i) \notin F!OfKind(s.tmp, "ledger")
    <3>1. \A j \in From .. From + n - 1 : F!LedgerFile(j) # F!LedgerFile(i)
      BY <1>1, <1>3 DEF F!LedgerFile, FixtureAssumption
    <3>2. F!LedgerFile(i) \notin Collected(n, s.chunks)
      BY <3>1 DEF Collected, F!LedgerFile, F!IndexChunkFile, F!Indexes, F!Ledgers
    <3> QED BY <1>1, <3>2 DEF F!OfKind
  <2>8. Cardinality(F!OfKind(newTmp, "ledger")) = n + 1
    BY <1>3, <2>6, <2>7, FS_AddElement DEF n
  <2>9. Len(newPending) < PerChunk
    <3>1. Len(<<>>) = 0 /\ 0 < PerChunk
      BY <1>1 DEF FixtureAssumption
    <3>2. PerChunk \in Nat
      BY <1>1 DEF FixtureAssumption
    <3> QED BY <1>1, <2>3, <2>4, <3>1, <3>2
  <2>10. n + 1 = s.to - From + 1 => newPending = <<>>
    <3>1. n + 1 = s.to - From + 1 => i = s.to
      BY SMTT(30), <1>1, <1>3 DEF FixtureAssumption
    <3> QED BY <2>4, <3>1
  <2> HIDE DEF newPending, newChunks, newTmp
  <2>11. new.pc = "capture" /\ new.to = s.to /\ new.pending = newPending /\ new.tmp = newTmp
    BY <1>1 DEF CaptureOK, CaptureFields
  <2> HIDE DEF new
  <2>12. CaptureTyped(new)
    BY <1>1, <2>8, <2>9, <2>10, <2>11 DEF CaptureTyped
  <2> QED BY <1>2, <2>2, <2>12, TypedStep
<1> QED BY <1>5, <1>6

\* The rest of the publication works on what has been collected.
LEMMA PublishTyped ==
    ASSUME TypedInv, PublicationInv', NEW c \in Captures,
           F!WriteManifest(c) \/ F!CreateOutput(c) \/ F!Link(c) \/ F!LinkFails(c) \/ F!Rollback(c) \/ F!Finish(c) \/ F!Kill(c)
    PROVE  TypedInv'
<1> DEFINE s == cap[c]
<1>1. /\ CaptureOK(s) /\ DOMAIN cap = Captures /\ FixtureAssumption /\ CaptureTyped(s)
      /\ s.pc \in Working /\ s.to \in From .. Tip
  BY DEF TypedInv, PublicationInv, FixtureInv, CaptureTyped, Working, F!WriteManifest, F!CreateOutput, F!Link, F!LinkFails,
         F!Rollback, F!Finish, F!Kill
<1>2. ASSUME NEW new, cap' = [cap EXCEPT ![c] = new], new.pc \in {"mkdir", "link", "rollback", "done"},
             new.to = s.to, new.pending = s.pending, s.pending = <<>>,
             \A m \in printed' : m \in printed \/ m.to \in From .. Tip
      PROVE  TypedInv'
  <2>1. CaptureTyped(new)
    BY <1>1, <1>2 DEF CaptureTyped
  <2> QED BY <1>2, <2>1, TypedStep
<1>3. ASSUME NEW pc \in {"failed", "killed"}, cap' = [cap EXCEPT ![c] = [F!Unstarted EXCEPT !.pc = pc]], printed' = printed
      PROVE  TypedInv'
  BY <1>1, <1>3, OverTyped, TypedStep
<1>4. CASE F!WriteManifest(c)
  <2> DEFINE tmp == F!With(s.tmp, F!ManifestFile, F!Manifest(c))
             new == [s EXCEPT !.pc = "mkdir", !.tmp = tmp]
  <2>1. s.pending = <<>> /\ printed' = printed
    BY <1>1, <1>4, SameCardinality DEF CaptureTyped, F!WriteManifest
  <2>2. cap' = [cap EXCEPT ![c] = new] \/ cap' = [cap EXCEPT ![c] = [F!Unstarted EXCEPT !.pc = "failed"]]
    BY <1>1, <1>4, SameCardinality DEF F!WriteManifest
  <2> HIDE DEF tmp
  <2>3. new.pc = "mkdir" /\ new.to = s.to /\ new.pending = s.pending
    BY <1>1 DEF CaptureOK, CaptureFields
  <2> HIDE DEF new
  <2> QED BY <1>2, <1>3, <2>1, <2>2, <2>3
<1>5. ASSUME s.pc = "mkdir", printed' = printed,
             \E pc \in {"link", "rollback"}, created \in BOOLEAN : cap' = [cap EXCEPT ![c].pc = pc, ![c].created = created]
      PROVE  TypedInv'
  <2> PICK pc \in {"link", "rollback"}, created \in BOOLEAN : cap' = [cap EXCEPT ![c].pc = pc, ![c].created = created]
    BY <1>5
  <2> DEFINE new == [s EXCEPT !.pc = pc, !.created = created]
  <2>1. cap' = [cap EXCEPT ![c] = new]
    BY <1>1, <1>5
  <2>2. new.pc = pc /\ new.to = s.to /\ new.pending = s.pending
    BY <1>1 DEF CaptureOK, CaptureFields
  <2> HIDE DEF new
  <2>3. s.pending = <<>>
    BY <1>1, <1>5 DEF CaptureTyped
  <2> QED BY <1>2, <1>5, <2>1, <2>2, <2>3
<1>6. CASE F!CreateOutput(c)
  <2>1. s.pc = "mkdir" /\ printed' = printed
    BY <1>6 DEF F!CreateOutput
  <2>2. cap' = [cap EXCEPT ![c].pc = IF exists THEN "rollback" ELSE "link", ![c].created = ~exists]
    BY <1>6 DEF F!CreateOutput
  <2>3. exists \in BOOLEAN
    BY DEF TypedInv, PublicationInv, OutputOK
  <2>4. \E pc \in {"link", "rollback"}, created \in BOOLEAN : cap' = [cap EXCEPT ![c].pc = pc, ![c].created = created]
    <3>1. CASE exists = TRUE
      <4>1. cap' = [cap EXCEPT ![c].pc = "rollback", ![c].created = FALSE]
        BY <2>2, <3>1
      <4> QED BY <4>1
    <3>2. CASE exists = FALSE
      <4>1. cap' = [cap EXCEPT ![c].pc = "link", ![c].created = TRUE]
        BY <2>2, <3>2
      <4> QED BY <4>1
    <3> QED BY <2>3, <3>1, <3>2
  <2> HIDE DEF s
  <2> QED BY <1>5, <2>1, <2>4
<1>7. ASSUME s.pc = "link", cap' = [cap EXCEPT ![c].pc = "rollback"], printed' = printed PROVE TypedInv'
  <2> DEFINE new == [s EXCEPT !.pc = "rollback"]
  <2>1. cap' = [cap EXCEPT ![c] = new]
    BY <1>1, <1>7
  <2>2. new.pc = "rollback" /\ new.to = s.to /\ new.pending = s.pending
    BY <1>1 DEF CaptureOK, CaptureFields
  <2> HIDE DEF new
  <2>3. s.pending = <<>>
    BY <1>1, <1>7 DEF CaptureTyped
  <2> QED BY <1>2, <1>7, <2>1, <2>2, <2>3
<1>8. ASSUME s.pc \in {"link", "rollback"}, printed' = printed, \E linked : cap' = [cap EXCEPT ![c].linked = linked]
      PROVE  TypedInv'
  <2> PICK linked : cap' = [cap EXCEPT ![c].linked = linked]
    BY <1>8
  <2> DEFINE new == [s EXCEPT !.linked = linked]
  <2>1. cap' = [cap EXCEPT ![c] = new]
    BY <1>1, <1>8
  <2>2. new.pc = s.pc /\ new.to = s.to /\ new.pending = s.pending
    BY <1>1 DEF CaptureOK, CaptureFields
  <2> HIDE DEF new
  <2>3. s.pending = <<>>
    BY <1>1, <1>8 DEF CaptureTyped
  <2> QED BY <1>2, <1>8, <2>1, <2>2, <2>3
<1>9. CASE F!Link(c)
  <2>1. s.pc = "link" /\ s.pc \in {"link", "rollback"} /\ printed' = printed
    BY <1>9 DEF F!Link
  <2>2. \/ cap' = [cap EXCEPT ![c].pc = "rollback"]
        \/ cap' = [cap EXCEPT ![c].linked = @ + 1]
    BY <1>9 DEF F!Link
  <2>3. CASE cap' = [cap EXCEPT ![c].linked = @ + 1]
    <3> DEFINE linked == s.linked + 1
    <3>1. cap' = [cap EXCEPT ![c].linked = linked]
      BY <1>1, <2>3
    <3>2. \E x : cap' = [cap EXCEPT ![c].linked = x]
      BY <3>1
    <3> HIDE DEF linked, s
    <3> QED BY <1>8, <2>1, <3>2
  <2> QED BY <1>7, <2>1, <2>2, <2>3
<1>10. CASE F!LinkFails(c)
  BY <1>7, <1>10 DEF F!LinkFails
<1>11. CASE F!Rollback(c)
  <2>1. s.pc = "rollback" /\ s.pc \in {"link", "rollback"} /\ printed' = printed
    BY <1>11 DEF F!Rollback
  <2>2. \/ cap' = [cap EXCEPT ![c].linked = @ - 1]
        \/ cap' = [cap EXCEPT ![c] = [F!Unstarted EXCEPT !.pc = "failed"]]
    BY <1>11 DEF F!Rollback
  <2>3. CASE cap' = [cap EXCEPT ![c].linked = @ - 1]
    <3> DEFINE linked == s.linked - 1
    <3>1. cap' = [cap EXCEPT ![c].linked = linked]
      BY <1>1, <2>3
    <3>2. \E x : cap' = [cap EXCEPT ![c].linked = x]
      BY <3>1
    <3> HIDE DEF linked, s
    <3> QED BY <1>8, <2>1, <3>2
  <2> QED BY <1>3, <2>1, <2>2, <2>3
<1>12. CASE F!Finish(c)
  <2> DEFINE new == [s EXCEPT !.pc = "done", !.tmp = F!NoFiles]
             m == F!Manifest(c)
  <2>1. s.pc = "link" /\ printed' = printed \cup {m}
    BY <1>12 DEF F!Finish
  <2>2. cap' = [cap EXCEPT ![c] = new]
    BY <1>1, <1>12 DEF F!Finish
  <2>3. m.to = s.to
    BY DEF F!Manifest
  <2>4. new.pc = "done" /\ new.to = s.to /\ new.pending = s.pending
    BY <1>1 DEF CaptureOK, CaptureFields
  <2> HIDE DEF new, m
  <2>5. s.pending = <<>>
    BY <1>1, <2>1 DEF CaptureTyped
  <2> QED BY <1>1, <1>2, <2>1, <2>2, <2>3, <2>4, <2>5
<1>13. CASE F!Kill(c)
  BY <1>3, <1>13 DEF F!Kill
<1> QED BY <1>4, <1>6, <1>9, <1>10, <1>11, <1>12, <1>13

LEMMA TypedInvariant ==
    ASSUME FixtureAssumption
    PROVE  F!Spec => []TypedInv
<1>1. F!Init /\ PublicationInv => TypedInv
  <2> SUFFICES ASSUME F!Init, PublicationInv PROVE TypedInv
    OBVIOUS
  <2>1. \A c \in Captures : cap[c] = F!Unstarted
    BY DEF F!Init
  <2>2. F!Unstarted.pc = "unstarted" /\ F!Unstarted.pending = <<>>
    BY DEF F!Unstarted
  <2>3. Len(F!Unstarted.pending) < PerChunk
    <3>1. Len(<<>>) = 0
      OBVIOUS
    <3> QED BY <2>2, <3>1 DEF FixtureAssumption
  <2>4. CaptureTyped(F!Unstarted)
    BY <2>2, <2>3 DEF CaptureTyped, Working
  <2> QED BY <2>1, <2>4 DEF F!Init, TypedInv
<1>2. TypedInv /\ PublicationInv' /\ [F!Next]_(F!vars) => TypedInv'
  <2> SUFFICES ASSUME TypedInv, PublicationInv', [F!Next]_(F!vars) PROVE TypedInv'
    OBVIOUS
  <2>1. ASSUME UNCHANGED <<cap, printed>> PROVE TypedInv'
    BY <2>1 DEF TypedInv
  <2>2. ASSUME \/ F!StartReplay \/ F!InspectBundle \/ F!CheckLedger \/ F!Open \/ F!ReadTarget \/ F!Preflight \/ F!ReplayLedger
               \/ F!Fault \/ UNCHANGED F!vars
        PROVE  UNCHANGED <<cap, printed>>
    BY <2>2 DEF F!StartReplay, F!InspectBundle, F!CheckLedger, F!Open, F!ReadTarget, F!Preflight, F!ReplayLedger, F!Reading, F!Fault, F!vars
  <2> QED BY <2>1, <2>2, BeginTyped, CaptureLedgerTyped, PublishTyped DEF F!Next
<1>3. F!Spec => []PublicationInv
  BY PublicationInvariant
<1>4. F!Spec => []TypedInv
  BY <1>1, <1>2, <1>3, PTL DEF F!Spec
<1> QED BY <1>4

-----------------------------------------------------------------------------
(* A replay of a bundle that stays as it is.                               *)

\* A read of ledger i of this manifest succeeds.
Served(files, m, i) ==
    LET position == F!ChunkPosition(m, i)
        chunk == m.chunks[position]
        entries == F!ReadIndexChunk(files, chunk)
        j == i - chunk.from + 1
    IN /\ position \in DOMAIN m.chunks /\ i \in chunk.from .. chunk.to
       /\ j \in DOMAIN entries /\ F!ReadLedger(files, entries[j])

\* The cached chunk is what the directory holds.
Fresh(r) == r.chunk \in DOMAIN r.pin.chunks => r.entries = F!ReadIndexChunk(out, r.pin.chunks[r.chunk])

PlaceOK(r) ==
    /\ r.pin \in printed
    /\ r.chunk \in 0 .. Len(r.pin.chunks)
    /\ r.at \in From .. r.pin.to + 1
    /\ r.pc \in {"inspect", "check", "open", "target", "preflight", "replay"} => r.at \in From .. r.pin.to
    /\ r.pc = "inspect" => r.at = From
    /\ r.before \in Nat /\ r.before <= faults

\* As long as no fault has happened since it began, a replay has read every ledger that it
\* will read again.
SteadyOK(r) ==
    r.before = faults =>
        /\ Fresh(r)
        /\ r.pc = "check" => \A i \in From .. r.at - 1 : Served(out, r.pin, i)
        /\ r.pc \in {"open", "target", "preflight", "replay"} => \A i \in From .. r.pin.to : Served(out, r.pin, i)
        /\ r.pc = "replay" => r.previous = IF r.written = <<>> THEN <<>> ELSE <<F!Genuine(r.at - 1)>>
        /\ r.pc = "failed" => r.written = <<>>

SteadyInv ==
    /\ TypedInv
    /\ reader = F!NoReader \/ (PlaceOK(reader) /\ SteadyOK(reader))

\* What is known of a replay that is reading.
LEMMA ReadingIs ==
    ASSUME SteadyInv, reader # F!NoReader
    PROVE  /\ FixtureInv /\ FixtureAssumption /\ ReaderOK(reader) /\ PlaceOK(reader) /\ SteadyOK(reader)
           /\ reader.pin.chunks \in Seq(GenuineChunks) /\ reader.pin.to \in From .. Tip /\ From \in Nat
<1>1. /\ FixtureInv /\ FixtureAssumption /\ ReaderOK(reader) /\ PlaceOK(reader) /\ SteadyOK(reader)
      /\ \A m \in printed : m.to \in From .. Tip
  BY DEF SteadyInv, TypedInv, PublicationInv, FixtureInv
<1>2. reader.pin.chunks \in Seq(GenuineChunks) /\ reader.pin.to \in From .. Tip
  BY <1>1 DEF ReaderOK, PlaceOK
<1> QED BY <1>1, <1>2 DEF FixtureAssumption

\* A read succeeds just when the directory serves the ledger.
LEMMA ReadIs ==
    ASSUME ReaderOK(reader), reader.pc # "failed", NEW i \in Int
    PROVE  LET r == F!GetLedger(i)
           IN  /\ r.pc # "failed" => Elsewise(r) /\ r.chunk \in DOMAIN reader.pin.chunks
               /\ Fresh(reader) => (r.pc # "failed" <=> Served(out, reader.pin, i))
               /\ Fresh(reader) /\ r.pc # "failed" => Fresh(r)
<1> DEFINE m == reader.pin
           position == F!ChunkPosition(m, i)
           chunk == m.chunks[position]
           entries == IF reader.chunk = position THEN reader.entries ELSE F!ReadIndexChunk(out, chunk)
           stored == F!ReadIndexChunk(out, chunk)
           j == i - chunk.from + 1
           previous == <<entries[j].ledger>>
           got == [reader EXCEPT !.chunk = position, !.entries = entries, !.previous = previous]
           r == F!GetLedger(i)
           good == position \in DOMAIN m.chunks /\ i \in chunk.from .. chunk.to /\ j \in DOMAIN entries /\ F!ReadLedger(out, entries[j])
<1>1. reader.manifest = m /\ DOMAIN reader = ReaderFields
  BY DEF ReaderOK
<1>2. F!Fail.pc = "failed"
  BY SMTT(30), <1>1 DEF F!Fail, ReaderFields
<1>3. (good /\ r = got) \/ (~good /\ r = F!Fail)
  <2>1. F!GetLedger(i) =
          IF \/ position \notin DOMAIN m.chunks
             \/ i \notin chunk.from .. chunk.to
             \/ j \notin DOMAIN entries
             \/ ~F!ReadLedger(out, entries[j])
          THEN F!Fail ELSE got
    BY <1>1 DEF F!GetLedger
  <2>2. CASE good
    <3>1. ~(\/ position \notin DOMAIN m.chunks
            \/ i \notin chunk.from .. chunk.to
            \/ j \notin DOMAIN entries
            \/ ~F!ReadLedger(out, entries[j]))
      BY <2>2
    <3> HIDE DEF m, position, chunk, entries, j, got, good
    <3> QED BY SMTT(30), <2>1, <2>2, <3>1
  <2>3. CASE ~good
    <3>1. \/ position \notin DOMAIN m.chunks
          \/ i \notin chunk.from .. chunk.to
          \/ j \notin DOMAIN entries
          \/ ~F!ReadLedger(out, entries[j])
      BY <2>3
    <3> HIDE DEF m, position, chunk, entries, j, got, good
    <3> QED BY SMTT(30), <2>1, <2>3, <3>1
  <2> QED BY <2>2, <2>3
<1>4. Served(out, m, i) <=>
        position \in DOMAIN m.chunks /\ i \in chunk.from .. chunk.to /\ j \in DOMAIN stored /\ F!ReadLedger(out, stored[j])
  BY DEF Served
<1>5. Fresh(reader) /\ position \in DOMAIN m.chunks => entries = stored
  BY DEF Fresh
<1> HIDE DEF r, position, entries, previous
<1>6. /\ DOMAIN got = ReaderFields /\ got.pc = reader.pc /\ got.pin = m /\ got.manifest = reader.manifest
      /\ got.at = reader.at /\ got.written = reader.written /\ got.before = reader.before
      /\ got.chunk = position /\ got.entries = entries
  BY <1>1 DEF ReaderFields
<1>7. good => position \in DOMAIN m.chunks
  OBVIOUS
<1>8. Fresh(reader) => (good <=> Served(out, m, i))
  BY <1>4, <1>5
<1> HIDE DEF got, good, chunk, stored, j
<1>9. r.pc # "failed" <=> good
  BY <1>2, <1>3, <1>6
<1>10. r.pc # "failed" => Elsewise(r) /\ r.chunk \in DOMAIN m.chunks
  BY <1>3, <1>6, <1>7, <1>9 DEF Elsewise
<1>11. Fresh(reader) /\ r.pc # "failed" => Fresh(r)
  BY <1>3, <1>5, <1>6, <1>7, <1>9 DEF Fresh, chunk, stored
<1> QED BY <1>8, <1>9, <1>10, <1>11 DEF r

\* A step of the replay, in a directory that stays as it is.
LEMMA ReaderSteady ==
    ASSUME SteadyInv, TypedInv', PlaceOK(reader'), SteadyOK(reader'),
           out' = out, printed' = printed, faults' = faults
    PROVE  SteadyInv'
BY DEF SteadyInv, PlaceOK, SteadyOK, Fresh

\* A replay that fails has projected nothing, unless a fault has happened.
LEMMA FailSteady ==
    ASSUME SteadyInv, TypedInv', reader # F!NoReader, reader' = F!Fail,
           reader.before = faults => reader.written = <<>>,
           out' = out, printed' = printed, faults' = faults
    PROVE  SteadyInv'
<1>1. ReaderOK(reader) /\ PlaceOK(reader) /\ SteadyOK(reader)
  BY ReadingIs
<1>2. /\ F!Fail.pc = "failed" /\ F!Fail.pin = reader.pin /\ F!Fail.at = reader.at /\ F!Fail.chunk = reader.chunk
      /\ F!Fail.entries = reader.entries /\ F!Fail.written = reader.written /\ F!Fail.before = reader.before
  BY <1>1 DEF F!Fail, ReaderOK, ReaderFields
<1>3. PlaceOK(reader')
  BY <1>1, <1>2 DEF PlaceOK
<1>4. SteadyOK(reader')
  BY <1>1, <1>2 DEF SteadyOK, Fresh
<1> QED BY <1>3, <1>4, ReaderSteady

LEMMA StartSteady ==
    ASSUME SteadyInv, TypedInv', F!StartReplay
    PROVE  SteadyInv'
<1>1. PICK m \in printed :
         reader' = [pc |-> "inspect", pin |-> m, manifest |-> m, at |-> From, chunk |-> 0, entries |-> <<>>,
                    previous |-> <<>>, written |-> <<>>, before |-> faults]
  BY DEF F!StartReplay
<1>2. /\ m.chunks \in Seq(GenuineChunks) /\ m.to \in From .. Tip /\ From \in Nat /\ faults \in Nat
  BY DEF SteadyInv, TypedInv, PublicationInv, FixtureInv, FixtureAssumption, OutputOK
<1>3. /\ reader'.pc = "inspect" /\ reader'.pin = m /\ reader'.at = From /\ reader'.chunk = 0
      /\ reader'.before = faults /\ reader'.written = <<>>
  BY <1>1
<1>4. PlaceOK(reader')
  <2>1. 0 \in 0 .. Len(m.chunks)
    BY <1>2
  <2>2. From \in From .. m.to + 1 /\ From \in From .. m.to
    BY <1>2
  <2> QED BY <1>2, <1>3, <2>1, <2>2 DEF PlaceOK
<1>5. SteadyOK(reader')
  <2>1. 0 \notin DOMAIN m.chunks
    BY <1>2
  <2> QED BY <1>3, <2>1 DEF SteadyOK, Fresh
<1>6. out' = out /\ printed' = printed /\ faults' = faults
  BY DEF F!StartReplay, F!Reading
<1> QED BY <1>4, <1>5, <1>6, ReaderSteady

LEMMA InspectSteady ==
    ASSUME SteadyInv, TypedInv', F!InspectBundle \/ F!Open
    PROVE  SteadyInv'
<1>1. reader # F!NoReader /\ reader.pc \in {"inspect", "open"}
  <2>1. F!NoReader.pc = "none"
    BY DEF F!NoReader
  <2> QED BY <2>1 DEF F!InspectBundle, F!Open
<1>2. /\ ReaderOK(reader) /\ PlaceOK(reader) /\ SteadyOK(reader) /\ reader.written = <<>> /\ From \in Nat
      /\ reader.pin.to \in From .. Tip /\ reader.pin.chunks \in Seq(GenuineChunks)
  <2>1. ReaderOK(reader) /\ PlaceOK(reader) /\ SteadyOK(reader) /\ From \in Nat
        /\ reader.pin.to \in From .. Tip /\ reader.pin.chunks \in Seq(GenuineChunks)
    BY <1>1, ReadingIs
  <2> QED BY <1>1, <2>1 DEF ReaderOK
<1>3. out' = out /\ printed' = printed /\ faults' = faults
  BY DEF F!InspectBundle, F!Open, F!Reading
<1>4. CASE reader' = F!Fail
  BY <1>1, <1>2, <1>3, <1>4, FailSteady
<1>5. CASE F!InspectBundle /\ reader' # F!Fail
  <2> DEFINE r == [reader EXCEPT !.pc = "check", !.manifest = out[F!ManifestFile]]
  <2>1. reader' = r /\ reader.pc = "inspect"
    BY <1>5 DEF F!InspectBundle
  <2>2. /\ r.pc = "check" /\ r.pin = reader.pin /\ r.at = reader.at /\ r.chunk = reader.chunk
        /\ r.entries = reader.entries /\ r.written = reader.written /\ r.before = reader.before
    BY <1>2 DEF ReaderOK, ReaderFields
  <2> HIDE DEF r
  <2>3. PlaceOK(r)
    BY <1>2, <2>1, <2>2 DEF PlaceOK
  <2>4. reader.at = From
    BY <1>2, <2>1 DEF PlaceOK
  <2>6. From .. From - 1 = {}
    BY <1>2
  <2>5. SteadyOK(r)
    BY <1>2, <2>1, <2>2, <2>4, <2>6 DEF SteadyOK, Fresh
  <2> QED BY <1>3, <2>1, <2>3, <2>5, ReaderSteady
<1>6. CASE F!Open /\ reader' # F!Fail
  <2> DEFINE r == [reader EXCEPT !.pc = "target", !.manifest = out[F!ManifestFile], !.at = From, !.chunk = 0, !.entries = <<>>]
  <2>1. reader' = r /\ reader.pc = "open"
    BY <1>6 DEF F!Open
  <2>2. /\ r.pc = "target" /\ r.pin = reader.pin /\ r.at = From /\ r.chunk = 0
        /\ r.written = reader.written /\ r.before = reader.before
    BY <1>2 DEF ReaderOK, ReaderFields
  <2> HIDE DEF r
  <2>3. PlaceOK(r)
    <3>1. 0 \in 0 .. Len(reader.pin.chunks)
      BY <1>2
    <3>2. From \in From .. reader.pin.to + 1 /\ From \in From .. reader.pin.to
      BY <1>2
    <3> QED BY <1>2, <2>2, <3>1, <3>2 DEF PlaceOK
  <2>4. 0 \notin DOMAIN reader.pin.chunks
    BY <1>2
  <2>5. SteadyOK(r)
    BY <1>2, <2>1, <2>2, <2>4 DEF SteadyOK, Fresh
  <2> QED BY <1>3, <2>1, <2>3, <2>5, ReaderSteady
<1> QED BY <1>4, <1>5, <1>6

LEMMA CheckLedgerSteady ==
    ASSUME SteadyInv, TypedInv', F!CheckLedger
    PROVE  SteadyInv'
<1> DEFINE i == reader.at
           next == F!GetLedger(i)
           at == i + 1
           opened == [next EXCEPT !.pc = "open"]
           more == [next EXCEPT !.at = at]
<1>1. reader # F!NoReader /\ reader.pc = "check"
  <2>1. F!NoReader.pc = "none"
    BY DEF F!NoReader
  <2> QED BY <2>1 DEF F!CheckLedger
<1>2. /\ ReaderOK(reader) /\ PlaceOK(reader) /\ SteadyOK(reader) /\ reader.written = <<>> /\ From \in Nat
      /\ reader.manifest = reader.pin /\ reader.pin.to \in From .. Tip /\ i \in From .. reader.pin.to
      /\ reader.pin.chunks \in Seq(GenuineChunks)
  <2>1. ReaderOK(reader) /\ PlaceOK(reader) /\ SteadyOK(reader) /\ From \in Nat /\ reader.pin.to \in From .. Tip
        /\ reader.pin.chunks \in Seq(GenuineChunks)
    BY <1>1, ReadingIs
  <2> QED BY <1>1, <2>1 DEF ReaderOK, PlaceOK
<1>3. out' = out /\ printed' = printed /\ faults' = faults
  BY DEF F!CheckLedger, F!Reading
<1>4. CASE reader' = F!Fail
  BY <1>1, <1>2, <1>3, <1>4, FailSteady
<1>5. CASE reader' # F!Fail
  <2>1. next.pc # "failed" /\ i \in Int
    BY <1>2, <1>5 DEF F!CheckLedger
  <2> HIDE DEF i
  <2>2. /\ Elsewise(next) /\ next.chunk \in DOMAIN reader.pin.chunks
        /\ Fresh(reader) => Served(out, reader.pin, i) /\ Fresh(next)
    BY <1>1, <1>2, <2>1, ReadIs
  <2> HIDE DEF next
  <2>3. IF i = reader.pin.to THEN reader' = opened ELSE reader' = [next EXCEPT !.at = @ + 1]
    BY <1>2, <1>5 DEF F!CheckLedger, next, i
  <2>4. [next EXCEPT !.at = @ + 1] = more
    BY <2>2 DEF Elsewise, i
  <2>5. at \in Int /\ at - 1 = i
    BY <2>1
  <2> HIDE DEF at
  <2>6. /\ opened.pc = "open" /\ opened.pin = reader.pin /\ opened.at = i /\ opened.chunk = next.chunk
        /\ opened.entries = next.entries /\ opened.written = reader.written /\ opened.before = reader.before
    BY <2>2 DEF Elsewise, ReaderFields, i
  <2>7. /\ more.pc = "check" /\ more.pin = reader.pin /\ more.at = at /\ more.chunk = next.chunk
        /\ more.entries = next.entries /\ more.written = reader.written /\ more.before = reader.before
    BY <1>1, <2>2 DEF Elsewise, ReaderFields
  <2> HIDE DEF opened, more
  <2>8. next.chunk \in 0 .. Len(reader.pin.chunks)
    BY <1>2, <2>2
  <2>9. reader.before = faults => Fresh(reader) /\ \A j \in From .. i - 1 : Served(out, reader.pin, j)
    BY <1>1, <1>2 DEF SteadyOK, i
  <2>10. reader.before = faults => \A j \in From .. i : Served(out, reader.pin, j)
    <3>1. \A j \in From .. i : j = i \/ j \in From .. i - 1
      BY <1>2, <2>1
    <3> QED BY <2>2, <2>9, <3>1
  <2>11. next.pin = reader.pin
    BY <2>2 DEF Elsewise
  <2>12. CASE i = reader.pin.to
    <3>1. PlaceOK(opened)
      BY <1>2, <2>6, <2>8 DEF PlaceOK, i
    <3>2. SteadyOK(opened)
      BY <2>2, <2>6, <2>9, <2>10, <2>11, <2>12 DEF SteadyOK, Fresh
    <3> QED BY <1>3, <2>3, <2>12, <3>1, <3>2, ReaderSteady
  <2>13. CASE i # reader.pin.to
    <3>1. at \in From .. reader.pin.to
      BY <1>2, <2>5, <2>13
    <3>2. PlaceOK(more)
      <4>1. at \in From .. reader.pin.to + 1
        BY <1>2, <3>1
      <4> QED BY <1>2, <2>7, <2>8, <3>1, <4>1 DEF PlaceOK
    <3>3. SteadyOK(more)
      BY <2>2, <2>5, <2>7, <2>9, <2>10, <2>11 DEF SteadyOK, Fresh
    <3> QED BY <1>3, <2>3, <2>4, <2>13, <3>2, <3>3, ReaderSteady
  <2> QED BY <2>12, <2>13
<1> QED BY <1>4, <1>5

LEMMA BoundarySteady ==
    ASSUME SteadyInv, TypedInv', F!ReadTarget \/ F!Preflight
    PROVE  SteadyInv'
<1> DEFINE i == IF F!ReadTarget THEN reader.manifest.to ELSE From
           next == F!GetLedger(i)
           target == [next EXCEPT !.pc = "preflight"]
           first == [next EXCEPT !.pc = "replay", !.previous = <<>>]
<1>1. reader # F!NoReader /\ reader.pc \in {"target", "preflight"}
  <2>1. F!NoReader.pc = "none"
    BY DEF F!NoReader
  <2> QED BY <2>1 DEF F!ReadTarget, F!Preflight
<1>2. /\ ReaderOK(reader) /\ PlaceOK(reader) /\ SteadyOK(reader) /\ reader.written = <<>> /\ From \in Nat
      /\ reader.manifest = reader.pin /\ reader.pin.to \in From .. Tip /\ reader.pin.chunks \in Seq(GenuineChunks)
  <2>1. ReaderOK(reader) /\ PlaceOK(reader) /\ SteadyOK(reader) /\ From \in Nat /\ reader.pin.to \in From .. Tip
        /\ reader.pin.chunks \in Seq(GenuineChunks)
    BY <1>1, ReadingIs
  <2> QED BY <1>1, <2>1 DEF ReaderOK
<1>3. out' = out /\ printed' = printed /\ faults' = faults
  BY DEF F!ReadTarget, F!Preflight, F!Reading
<1>4. CASE reader' = F!Fail
  BY <1>1, <1>2, <1>3, <1>4, FailSteady
<1>5. CASE reader' # F!Fail
  <2>1. i \in Int
    BY <1>2
  <2>2. ~F!ReadTarget \/ ~F!Preflight
    BY DEF F!ReadTarget, F!Preflight
  <2>3. CASE F!ReadTarget
    <3>1. i = reader.manifest.to
      BY <2>3
    <3>2. next.pc # "failed" /\ reader' = target
      BY <1>5, <2>3, <3>1 DEF F!ReadTarget
    <3> HIDE DEF i
    <3>3. Elsewise(next) /\ next.chunk \in DOMAIN reader.pin.chunks /\ (Fresh(reader) => Fresh(next))
      BY <1>1, <1>2, <2>1, <3>2, ReadIs
    <3> HIDE DEF next
    <3>4. /\ target.pc = "preflight" /\ target.pin = reader.pin /\ target.at = reader.at /\ target.chunk = next.chunk
          /\ target.entries = next.entries /\ target.written = reader.written /\ target.before = reader.before
          /\ next.pin = reader.pin
      BY <3>3 DEF Elsewise, ReaderFields
    <3> HIDE DEF target
    <3>5. next.chunk \in 0 .. Len(reader.pin.chunks)
      BY <1>2, <3>3
    <3>6. PlaceOK(target)
      BY <1>1, <1>2, <3>4, <3>5 DEF PlaceOK
    <3>7. SteadyOK(target)
      BY <1>1, <1>2, <3>3, <3>4 DEF SteadyOK, Fresh
    <3> QED BY <1>3, <3>2, <3>6, <3>7, ReaderSteady
  <2>4. CASE F!Preflight
    <3>1. i = From
      BY <2>2, <2>4
    <3>2. next.pc # "failed" /\ reader' = first
      BY <1>5, <2>4, <3>1 DEF F!Preflight
    <3> HIDE DEF i
    <3>3. Elsewise(next) /\ next.chunk \in DOMAIN reader.pin.chunks /\ (Fresh(reader) => Fresh(next))
      BY <1>1, <1>2, <2>1, <3>2, ReadIs
    <3>4. DOMAIN next = ReaderFields
      BY <3>3 DEF Elsewise
    <3> HIDE DEF next
    <3>5. /\ first.pc = "replay" /\ first.pin = reader.pin /\ first.at = reader.at /\ first.chunk = next.chunk
          /\ first.entries = next.entries /\ first.written = reader.written /\ first.before = reader.before
          /\ first.previous = <<>> /\ next.pin = reader.pin
      BY <3>3, <3>4 DEF Elsewise, ReaderFields
    <3> HIDE DEF first
    <3>6. next.chunk \in 0 .. Len(reader.pin.chunks)
      BY <1>2, <3>3
    <3>7. PlaceOK(first)
      BY <1>1, <1>2, <3>5, <3>6 DEF PlaceOK
    <3>8. SteadyOK(first)
      BY <1>1, <1>2, <3>3, <3>5 DEF SteadyOK, Fresh
    <3> QED BY <1>3, <3>2, <3>7, <3>8, ReaderSteady
  <2> QED BY <2>3, <2>4
<1> QED BY <1>4, <1>5

LEMMA ReplayLedgerSteady ==
    ASSUME SteadyInv, TypedInv', F!ReplayLedger
    PROVE  SteadyInv'
<1> DEFINE i == reader.at
           next == F!GetLedger(i)
           at == i + 1
           written == Append(reader.written, F!Genuine(i))
           pc == IF i = reader.pin.to THEN "done" ELSE "replay"
           r == [next EXCEPT !.written = written, !.at = at, !.pc = pc]
<1>1. reader # F!NoReader /\ reader.pc = "replay"
  <2>1. F!NoReader.pc = "none"
    BY DEF F!NoReader
  <2> QED BY <2>1 DEF F!ReplayLedger
<1>2. /\ FixtureInv /\ ReaderOK(reader) /\ PlaceOK(reader) /\ SteadyOK(reader) /\ From \in Nat
      /\ reader.manifest = reader.pin /\ reader.pin.to \in From .. Tip /\ i \in From .. reader.pin.to
      /\ reader.pin.chunks \in Seq(GenuineChunks) /\ reader.written \in Seq(GenuineLedgers)
      /\ i = From + Len(reader.written)
  <2>1. FixtureInv /\ ReaderOK(reader) /\ PlaceOK(reader) /\ SteadyOK(reader) /\ From \in Nat /\ reader.pin.to \in From .. Tip
        /\ reader.pin.chunks \in Seq(GenuineChunks)
    BY <1>1, ReadingIs
  <2> QED BY <1>1, <2>1 DEF ReaderOK, PlaceOK
<1>3. out' = out /\ printed' = printed /\ faults' = faults
  BY DEF F!ReplayLedger, F!Reading
<1>4. i \in Int /\ reader.pc # "failed"
  BY <1>1, <1>2
<1>5. /\ next.pc # "failed" => Elsewise(next) /\ next.chunk \in DOMAIN reader.pin.chunks /\ next.previous = <<F!Genuine(i)>>
      /\ Fresh(reader) => (next.pc # "failed" <=> Served(out, reader.pin, i))
      /\ Fresh(reader) /\ next.pc # "failed" => Fresh(next)
  <2>1. next.pc # "failed" => next.previous = <<F!Genuine(i)>>
    BY <1>2, <1>4, GetLedgerOK
  <2> HIDE DEF i
  <2>2. /\ next.pc # "failed" => Elsewise(next) /\ next.chunk \in DOMAIN reader.pin.chunks
        /\ Fresh(reader) => (next.pc # "failed" <=> Served(out, reader.pin, i))
        /\ Fresh(reader) /\ next.pc # "failed" => Fresh(next)
    BY <1>2, <1>4, ReadIs
  <2> QED BY <2>1, <2>2
<1>6. \/ reader' = F!Fail /\ (next.pc = "failed" \/ ~F!Continuous(reader.previous, next.previous[1]))
      \/ /\ next.pc # "failed"
         /\ reader' = [next EXCEPT !.written = Append(@, next.previous[1]), !.at = @ + 1,
                                   !.pc = IF i = reader.pin.to THEN "done" ELSE @]
  BY <1>2 DEF F!ReplayLedger
<1>7. CASE reader' = F!Fail /\ (next.pc = "failed" \/ ~F!Continuous(reader.previous, next.previous[1]))
  <2>1. reader.before # faults
    <3> SUFFICES ASSUME reader.before = faults PROVE FALSE
      OBVIOUS
    <3>1. /\ Fresh(reader) /\ \A j \in From .. reader.pin.to : Served(out, reader.pin, j)
          /\ reader.previous = IF reader.written = <<>> THEN <<>> ELSE <<F!Genuine(i - 1)>>
      BY <1>1, <1>2 DEF SteadyOK
    <3>2. next.pc # "failed"
      BY <1>2, <1>5, <3>1
    <3>3. next.previous[1] = F!Genuine(i)
      BY <1>5, <3>2
    <3>4. F!Continuous(reader.previous, F!Genuine(i))
      <4>1. CASE reader.written = <<>>
        <5>1. i = From /\ reader.previous = <<>>
          BY <1>2, <3>1, <4>1
        <5> QED BY <5>1 DEF F!Continuous, F!Genuine, F!Ledger
      <4>2. CASE reader.written # <<>>
        <5>1. reader.previous = <<F!Genuine(i - 1)>>
          BY <3>1, <4>2
        <5>2. reader.previous # <<>> /\ reader.previous[1] = F!Genuine(i - 1)
          BY <5>1
        <5>3. (i - 1) + 1 = i
          BY <1>4
        <5> HIDE DEF i
        <5> QED BY <5>2, <5>3 DEF F!Continuous, F!Genuine, F!Ledger
      <4> QED BY <4>1, <4>2
    <3> QED BY <1>7, <3>2, <3>3, <3>4
  <2> QED BY <1>1, <1>3, <1>7, <2>1, FailSteady
<1>8. CASE /\ next.pc # "failed"
           /\ reader' = [next EXCEPT !.written = Append(@, next.previous[1]), !.at = @ + 1,
                                     !.pc = IF i = reader.pin.to THEN "done" ELSE @]
  <2>1. /\ Elsewise(next) /\ next.chunk \in DOMAIN reader.pin.chunks /\ next.previous[1] = F!Genuine(i)
        /\ Fresh(reader) => Fresh(next)
    BY <1>5, <1>8
  <2>2. next.written = reader.written /\ next.at = i /\ next.pc = "replay" /\ next.pin = reader.pin
    BY <1>1, <2>1 DEF Elsewise
  <2> HIDE DEF next
  <2>3. reader' = r
    BY <1>8, <2>1, <2>2 DEF Elsewise
  <2>4. next.previous = <<F!Genuine(i)>>
    BY <1>5, <1>8
  <2>5. at \in Int /\ at - 1 = i /\ at \in From .. reader.pin.to + 1
    BY SMTT(30), <1>2
  <2>6. written # <<>>
    <3>1. F!Genuine(i) \in GenuineLedgers
      BY <1>4 DEF GenuineLedgers
    <3> QED BY <1>2, <3>1
  <2>7. pc = "done" \/ (pc = "replay" /\ at \in From .. reader.pin.to)
    BY SMTT(30), <1>2
  <2> HIDE DEF pc, at, written
  <2>8. /\ r.pc = pc /\ r.pin = reader.pin /\ r.at = at /\ r.chunk = next.chunk /\ r.previous = <<F!Genuine(i)>>
        /\ r.entries = next.entries /\ r.written = written /\ r.before = reader.before
    BY <2>1, <2>2, <2>4 DEF Elsewise, ReaderFields
  <2> HIDE DEF r, i
  <2>9. next.chunk \in 0 .. Len(reader.pin.chunks)
    BY <1>2, <2>1
  <2>10. PlaceOK(r)
    BY <1>2, <2>5, <2>7, <2>8, <2>9 DEF PlaceOK
  <2>11. SteadyOK(r)
    BY <1>1, <1>2, <2>1, <2>2, <2>5, <2>6, <2>7, <2>8 DEF SteadyOK, Fresh
  <2> QED BY <1>3, <2>3, <2>10, <2>11, ReaderSteady
<1> QED BY <1>6, <1>7, <1>8

\* Once a digest is printed, only a fault changes the directory.
LEMMA OutStays ==
    ASSUME PublicationInv, NEW c \in Captures, printed # {},
           \/ F!Begin(c) \/ F!CaptureLedger(c) \/ F!WriteManifest(c) \/ F!CreateOutput(c)
           \/ F!Link(c) \/ F!LinkFails(c) \/ F!Rollback(c) \/ F!Finish(c) \/ F!Kill(c)
    PROVE  out' = out
<1>1. WorkingOK(cap[c]) /\ ~Owns(cap[c])
  BY DEF PublicationInv, OwnerOK
<1>2. ~F!Link(c)
  BY <1>1 DEF WorkingOK, Owns, F!Link
<1>3. F!Rollback(c) => ~(cap[c].linked > 0)
  BY <1>1 DEF WorkingOK, Owns, F!Rollback
<1> QED BY <1>2, <1>3 DEF F!Begin, F!CaptureLedger, F!WriteManifest, F!CreateOutput, F!LinkFails, F!Rollback, F!Finish, F!Kill

LEMMA CaptureSteady ==
    ASSUME SteadyInv, TypedInv', NEW c \in Captures,
           \/ F!Begin(c) \/ F!CaptureLedger(c) \/ F!WriteManifest(c) \/ F!CreateOutput(c)
           \/ F!Link(c) \/ F!LinkFails(c) \/ F!Rollback(c) \/ F!Finish(c) \/ F!Kill(c)
    PROVE  SteadyInv'
<1>1. reader' = reader /\ faults' = faults /\ printed \subseteq printed'
  BY DEF F!Begin, F!CaptureLedger, F!WriteManifest, F!CreateOutput, F!Link, F!LinkFails, F!Rollback, F!Finish, F!Kill, F!Elsewhere
<1>2. CASE reader = F!NoReader
  BY <1>1, <1>2 DEF SteadyInv
<1>3. CASE reader # F!NoReader
  <2>1. PlaceOK(reader) /\ SteadyOK(reader) /\ PublicationInv
    BY <1>3 DEF SteadyInv, TypedInv
  <2>2. out' = out
    BY <2>1, OutStays DEF PlaceOK
  <2> QED BY <1>1, <2>1, <2>2 DEF SteadyInv, PlaceOK, SteadyOK, Fresh
<1> QED BY SMTT(30), <1>2, <1>3

LEMMA FaultSteady ==
    ASSUME SteadyInv, TypedInv', F!Fault
    PROVE  SteadyInv'
<1>1. reader' = reader /\ faults' = faults + 1 /\ printed' = printed /\ faults \in Nat
  BY DEF F!Fault, SteadyInv, TypedInv, PublicationInv, OutputOK
<1>2. CASE reader = F!NoReader
  BY <1>1, <1>2 DEF SteadyInv
<1>3. CASE reader # F!NoReader
  <2>1. PlaceOK(reader)
    BY <1>3 DEF SteadyInv
  <2>2. reader.before <= faults' /\ reader.before # faults'
    BY <1>1, <2>1 DEF PlaceOK
  <2> QED BY <1>1, <2>1, <2>2 DEF SteadyInv, PlaceOK, SteadyOK
<1> QED BY <1>2, <1>3

LEMMA SteadyInvariant ==
    ASSUME FixtureAssumption
    PROVE  F!Spec => []SteadyInv
<1>1. F!Init /\ TypedInv => SteadyInv
  BY DEF F!Init, SteadyInv
<1>2. SteadyInv /\ TypedInv' /\ [F!Next]_(F!vars) => SteadyInv'
  <2> SUFFICES ASSUME SteadyInv, TypedInv', [F!Next]_(F!vars) PROVE SteadyInv'
    OBVIOUS
  <2>1. ASSUME UNCHANGED F!vars PROVE SteadyInv'
    BY <2>1 DEF F!vars, SteadyInv, PlaceOK, SteadyOK, Fresh
  <2> QED BY <2>1, CaptureSteady, FaultSteady, StartSteady, InspectSteady, CheckLedgerSteady, BoundarySteady,
             ReplayLedgerSteady DEF F!Next
<1>3. F!Spec => []TypedInv
  BY TypedInvariant
<1>4. F!Spec => []SteadyInv
  BY <1>1, <1>2, <1>3, PTL DEF F!Spec
<1> QED BY <1>4

\* A replay that stops after its first ledger was projected has met a fault that happened
\* after it began, for any lengths and chunk sizes: the validation, the boundary and the
\* replay walk through the same chunks (prepareFixtureReplay).
THEOREM ReplaysAreWhole ==
    ASSUME FixtureAssumption
    PROVE  F!Spec => []F!NoPartialReplay
<1>1. SteadyInv => F!NoPartialReplay
  <2> SUFFICES ASSUME SteadyInv, reader # F!NoReader, reader.pc = "failed", reader.written # <<>> PROVE faults > reader.before
    BY DEF F!NoPartialReplay
  <2>1. PlaceOK(reader) /\ SteadyOK(reader) /\ faults \in Nat
    BY DEF SteadyInv, TypedInv, PublicationInv, OutputOK
  <2>2. reader.before # faults /\ reader.before \in Nat /\ reader.before <= faults
    BY <2>1 DEF PlaceOK, SteadyOK
  <2> QED BY <2>1, <2>2
<1> QED BY <1>1, SteadyInvariant, PTL

\* The faults that have happened are within their bound.
FaultsOK == faults \in 0 .. MaxFaults

\* The type invariant of the captures and of the replay.
THEOREM FixtureTyped ==
    ASSUME FixtureAssumption
    PROVE  F!Spec => []F!TypeOK
<1>1. F!Init => FaultsOK
  BY DEF F!Init, FaultsOK, FixtureAssumption
<1>2. FaultsOK /\ [F!Next]_(F!vars) => FaultsOK'
  <2> SUFFICES ASSUME faults \in 0 .. MaxFaults, [F!Next]_(F!vars) PROVE faults' \in 0 .. MaxFaults
    BY DEF FaultsOK
  <2>1. ASSUME F!Fault PROVE faults' \in 0 .. MaxFaults
    BY SMTT(30), <2>1 DEF F!Fault, FixtureAssumption
  <2>2. ASSUME NEW c \in Captures,
               \/ F!Begin(c) \/ F!CaptureLedger(c) \/ F!WriteManifest(c) \/ F!CreateOutput(c)
               \/ F!Link(c) \/ F!LinkFails(c) \/ F!Rollback(c) \/ F!Finish(c) \/ F!Kill(c)
        PROVE  faults' \in 0 .. MaxFaults
    BY <2>2 DEF F!Begin, F!CaptureLedger, F!WriteManifest, F!CreateOutput, F!Link, F!LinkFails, F!Rollback, F!Finish, F!Kill, F!Elsewhere
  <2>3. ASSUME \/ F!StartReplay \/ F!InspectBundle \/ F!CheckLedger \/ F!Open \/ F!ReadTarget \/ F!Preflight \/ F!ReplayLedger
               \/ UNCHANGED F!vars
        PROVE  faults' \in 0 .. MaxFaults
    BY <2>3 DEF F!StartReplay, F!InspectBundle, F!CheckLedger, F!Open, F!ReadTarget, F!Preflight, F!ReplayLedger, F!Reading, F!vars
  <2> QED BY <2>1, <2>2, <2>3 DEF F!Next
<1>3. SteadyInv /\ FaultsOK => F!TypeOK
  <2> SUFFICES ASSUME SteadyInv, faults \in 0 .. MaxFaults PROVE F!TypeOK
    BY DEF FaultsOK
  <2>1. exists \in BOOLEAN /\ \A c \in Captures : CaptureTyped(cap[c])
    BY DEF SteadyInv, TypedInv, PublicationInv, OutputOK
  <2>2. reader # F!NoReader => reader.at \in From .. Tip + 1 /\ reader.chunk \in 0 .. Len(reader.manifest.chunks)
    <3> SUFFICES ASSUME reader # F!NoReader
                 PROVE  reader.at \in From .. Tip + 1 /\ reader.chunk \in 0 .. Len(reader.manifest.chunks)
      OBVIOUS
    <3>1. ReaderOK(reader) /\ PlaceOK(reader) /\ reader.pin.to \in From .. Tip /\ From \in Nat
      BY ReadingIs
    <3>2. reader.at \in From .. reader.pin.to + 1 /\ reader.chunk \in 0 .. Len(reader.pin.chunks) /\ reader.manifest = reader.pin
      BY <3>1 DEF PlaceOK, ReaderOK
    <3>3. reader.at \in From .. Tip + 1
      BY <3>1, <3>2 DEF FixtureAssumption
    <3> QED BY <3>2, <3>3
  <2> QED BY <2>1, <2>2 DEF F!TypeOK, CaptureTyped
<1>4. F!Spec => []SteadyInv
  BY SteadyInvariant
<1>5. F!Spec => []F!TypeOK
  BY <1>1, <1>2, <1>3, <1>4, PTL DEF F!Spec
<1> QED BY <1>5

-----------------------------------------------------------------------------
(* The chunks of a bundle, and where a ledger is found in them.            *)

LEMMA Quotient ==
    ASSUME NEW p \in Nat \ {0}, NEW q \in Nat, NEW x \in Int, q * p <= x, x < q * p + p
    PROVE  x \div p = q
OBVIOUS

LEMMA Apart ==
    ASSUME NEW p \in Nat \ {0}, NEW k \in Nat, NEW l \in Nat, k < l
    PROVE  k * p + p <= l * p
OBVIOUS

\* The entries of the ledgers of the chain from ledger i.
EntriesFrom(es, i) == \A j \in DOMAIN es : es[j] = F!Entry(F!Genuine(i + j - 1))

\* Chunk k, as a capture makes it.
Tile(ch, k) ==
    /\ ch.from = From + (k - 1) * PerChunk /\ ch.to = ch.from + Len(ch.digest) - 1
    /\ EntriesFrom(ch.digest, ch.from)

\* Ledger i is in its chunk.
Placed(chunks, i) ==
    LET k == ((i - From) \div PerChunk) + 1
    IN  k \in DOMAIN chunks /\ i \in chunks[k].from .. chunks[k].to

\* The chunks and the files of a capture that has written n ledgers.
Stored(files, n, chunks) ==
    /\ \A i \in From .. From + n - 1 : F!LedgerFile(i) \in DOMAIN files /\ files[F!LedgerFile(i)] = F!Packed(F!Genuine(i))
    /\ \A k \in DOMAIN chunks :
          /\ Tile(chunks[k], k)
          /\ F!IndexChunkFile(chunks[k]) \in DOMAIN files /\ files[F!IndexChunkFile(chunks[k])] = chunks[k].digest

TiledOK(s) ==
    LET n == Cardinality(F!OfKind(s.tmp, "ledger"))
    IN  /\ n <= s.to - From + 1
        /\ Stored(s.tmp, n, s.chunks)
        /\ EntriesFrom(s.pending, From + n - Len(s.pending))
        /\ \A i \in From .. From + n - Len(s.pending) - 1 : Placed(s.chunks, i)
        /\ n < s.to - From + 1 => n = Len(s.chunks) * PerChunk + Len(s.pending)

\* A ledger that is placed in a chunk that is stored is served.
LEMMA StoredIsServed ==
    ASSUME FixtureAssumption, NEW files, NEW m, NEW n \in Nat, m.from = From, m.chunks \in Seq(GenuineChunks),
           Stored(files, n, m.chunks), NEW i \in From .. From + n - 1, Placed(m.chunks, i)
    PROVE  Served(files, m, i)
<1> DEFINE k == ((i - From) \div PerChunk) + 1
           ch == m.chunks[k]
           es == F!ReadIndexChunk(files, ch)
           j == i - ch.from + 1
<1>1. k \in DOMAIN m.chunks /\ i \in ch.from .. ch.to /\ F!ChunkPosition(m, i) = k
  BY DEF Placed, F!ChunkPosition
<1> HIDE DEF k
<1>2. ch \in GenuineChunks /\ Tile(ch, k) /\ F!IndexChunkFile(ch) \in DOMAIN files /\ files[F!IndexChunkFile(ch)] = ch.digest
  BY <1>1 DEF Stored
<1> HIDE DEF ch
<1>3. /\ ch.from \in Int /\ ch.digest \in Seq(GenuineEntries) /\ ch.to = ch.from + Len(ch.digest) - 1
      /\ \A x \in DOMAIN ch.digest : ch.digest[x] = F!Entry(F!Genuine(ch.from + x - 1))
      /\ DOMAIN ch.digest = 1 .. Len(ch.digest) /\ Len(ch.digest) \in Nat
  BY <1>2 DEF GenuineChunks, Tile, EntriesFrom
<1>4. es = ch.digest
  <2>1. Len(ch.digest) = ch.to - ch.from + 1
    <3>1. ch.from \in Int /\ Len(ch.digest) \in Nat /\ ch.to = ch.from + Len(ch.digest) - 1
      BY ZenonT(40), <1>3
    <3> QED BY ONLY <3>1
  <2>2. \A x : F!Entry(F!Genuine(x)).ledger.index = x
    BY DEF F!Entry, F!Genuine, F!Ledger
  <2>3. \A x \in DOMAIN ch.digest : ch.digest[x].ledger.index = ch.from + x - 1
    BY <1>3, <2>2
  <2> QED BY <1>2, <2>1, <2>3 DEF F!ReadIndexChunk, F!ReadFileBounded
<1>5. i \in Int /\ j \in DOMAIN ch.digest /\ ch.from + j - 1 = i
  <2> DEFINE a == ch.from
             b == ch.to
             len == Len(ch.digest)
  <2>1. i \in Int
    BY DEF FixtureAssumption
  <2>2. a \in Int /\ len \in Nat /\ b = a + len - 1 /\ i \in a .. b /\ DOMAIN ch.digest = 1 .. len /\ j = i - a + 1
    BY <1>1, <1>3
  <2> HIDE DEF a, b, len, j
  <2>3. j \in DOMAIN ch.digest /\ a + j - 1 = i
    BY <2>1, <2>2
  <2> QED BY <2>1, <2>3 DEF a
<1>6. ch.digest[j] = F!Entry(F!Genuine(i))
  BY <1>3, <1>5
<1>7. F!ReadLedger(files, F!Entry(F!Genuine(i)))
  <2>1. F!LedgerFile(i) \in DOMAIN files /\ files[F!LedgerFile(i)] = F!Packed(F!Genuine(i))
    BY DEF Stored
  <2>2. F!Genuine(i).index = i
    BY DEF F!Genuine, F!Ledger
  <2> QED BY <2>1, <2>2 DEF F!ReadLedger, F!ReadFileBounded, F!Entry, F!Packed
<1> HIDE DEF es, j
<1>8. j \in DOMAIN es /\ F!ReadLedger(files, es[j])
  BY <1>4, <1>5, <1>6, <1>7
<1> QED BY <1>1, <1>8 DEF Served, ch, es, j

\* What a chunk of these entries is.
LEMMA ChunkIs ==
    ASSUME FixtureAssumption, NEW es \in Seq(GenuineEntries), NEW i \in Int, es # <<>>, EntriesFrom(es, i)
    PROVE  F!Chunk(es).from = i /\ F!Chunk(es).to = i + Len(es) - 1 /\ F!Chunk(es).digest = es
<1>1. Len(es) \in Nat /\ Len(es) >= 1 /\ 1 \in DOMAIN es /\ Len(es) \in DOMAIN es
  OBVIOUS
<1>2. es[1] = F!Entry(F!Genuine(i + 1 - 1)) /\ es[Len(es)] = F!Entry(F!Genuine(i + Len(es) - 1))
  BY <1>1 DEF EntriesFrom
<1>3. es[1].ledger.index = i + 1 - 1 /\ es[Len(es)].ledger.index = i + Len(es) - 1
  BY <1>2 DEF F!Entry, F!Genuine, F!Ledger
<1> QED BY <1>3 DEF F!Chunk

\* One more ledger, pending.
LEMMA PendOne ==
    ASSUME FixtureAssumption, NEW es \in Seq(GenuineEntries), NEW i \in Int, EntriesFrom(es, i - Len(es))
    PROVE  LET new == Append(es, F!Entry(F!Genuine(i)))
           IN  new \in Seq(GenuineEntries) /\ Len(new) = Len(es) + 1 /\ EntriesFrom(new, i - Len(es))
<1> DEFINE new == Append(es, F!Entry(F!Genuine(i)))
<1>1. F!Entry(F!Genuine(i)) \in GenuineEntries
  BY DEF GenuineEntries, GenuineLedgers
<1>2. /\ new \in Seq(GenuineEntries) /\ Len(new) = Len(es) + 1 /\ DOMAIN new = 1 .. Len(es) + 1 /\ DOMAIN es = 1 .. Len(es)
      /\ new[Len(es) + 1] = F!Entry(F!Genuine(i)) /\ (\A j \in 1 .. Len(es) : new[j] = es[j]) /\ Len(es) \in Nat
  BY <1>1
<1> HIDE DEF new
<1>3. ASSUME NEW j \in DOMAIN new PROVE new[j] = F!Entry(F!Genuine((i - Len(es)) + j - 1))
  <2>1. CASE j = Len(es) + 1
    <3>1. (i - Len(es)) + j - 1 = i
      BY <1>2, <2>1
    <3> QED BY <1>2, <2>1, <3>1
  <2>2. CASE j # Len(es) + 1
    <3>1. j \in DOMAIN es
      BY <1>2, <2>2
    <3> QED BY <1>2, <3>1 DEF EntriesFrom
  <2> QED BY <2>1, <2>2
<1>4. new \in Seq(GenuineEntries) /\ Len(new) = Len(es) + 1 /\ EntriesFrom(new, i - Len(es))
  BY <1>2, <1>3 DEF EntriesFrom
<1> QED BY <1>4 DEF new

LEMMA Ends ==
    ASSUME NEW f \in Nat, NEW p \in Nat, NEW e \in Nat, NEW n, n = p + e
    PROVE  f + p \in Int /\ f + n - e = f + p /\ f + n - 1 = f + p + e - 1
OBVIOUS

LEMMA Wider ==
    ASSUME NEW n \in Nat
    PROVE  (n + 1) - 1 = n /\ \A k \in 1 .. n : k \in 1 .. n + 1
OBVIOUS

\* One more chunk: it is the one that its ledgers are looked for in.
LEMMA ChunkMore ==
    ASSUME FixtureAssumption, NEW cs \in Seq(GenuineChunks), NEW es \in Seq(GenuineEntries), NEW n \in Nat,
           es # <<>>, Len(es) <= PerChunk, n = Len(cs) * PerChunk + Len(es), EntriesFrom(es, From + n - Len(es)),
           \A k \in DOMAIN cs : Tile(cs[k], k), \A i \in From .. From + n - Len(es) - 1 : Placed(cs, i)
    PROVE  LET new == Append(cs, F!Chunk(es))
           IN  /\ \A k \in DOMAIN new : Tile(new[k], k)
               /\ \A i \in From .. From + n - 1 : Placed(new, i)
               /\ \A k \in DOMAIN cs : F!IndexChunkFile(cs[k]) # F!IndexChunkFile(F!Chunk(es))
<1> DEFINE l == Len(cs)
           lp == l * PerChunk
           len == Len(es)
           first == From + lp
           ch == F!Chunk(es)
           new == Append(cs, ch)
<1>1. /\ l \in Nat /\ lp \in Nat /\ len \in Nat /\ PerChunk \in Nat \ {0} /\ From \in Nat
      /\ n = lp + len /\ len >= 1 /\ len <= PerChunk
  <2>1. l \in Nat /\ PerChunk \in Nat \ {0} /\ From \in Nat /\ len \in Nat /\ len >= 1
    BY DEF FixtureAssumption
  <2>2. lp \in Nat
    BY <2>1
  <2> QED BY <2>1, <2>2
<1>2. EntriesFrom(es, From + n - len) /\ \A i \in From .. From + n - len - 1 : Placed(cs, i)
  OBVIOUS
<1> HIDE DEF lp, len
<1>3. first \in Int /\ From + n - len = first /\ From + n - 1 = first + len - 1
  <2>1. From \in Nat /\ lp \in Nat /\ len \in Nat /\ n = lp + len
    BY <1>1
  <2>2. From + lp \in Int /\ From + n - len = From + lp /\ From + n - 1 = From + lp + len - 1
    BY ONLY <2>1, Ends
  <2> QED BY ONLY <2>2
<1> HIDE DEF first
<1>4. ch.from = first /\ ch.to = first + len - 1 /\ ch.digest = es /\ ch \in GenuineChunks
  BY <1>2, <1>3, ChunkIs, ChunkOK DEF len
<1> HIDE DEF ch
<1>5. /\ DOMAIN new = 1 .. l + 1 /\ DOMAIN cs = 1 .. l /\ new[l + 1] = ch /\ \A k \in 1 .. l : new[k] = cs[k]
  BY <1>4
<1> HIDE DEF l, new
<1>6. \A k \in DOMAIN new : Tile(new[k], k)
  <2>1. (l + 1) - 1 = l /\ EntriesFrom(es, first)
    BY <1>1, <1>2, <1>3, Wider
  <2>2. Tile(ch, l + 1)
    BY <1>4, <2>1 DEF Tile, first, lp, len
  <2> QED BY <1>1, <1>5, <2>2
<1>7. ASSUME NEW i \in From .. From + n - 1 PROVE Placed(new, i)
  <2> DEFINE k == ((i - From) \div PerChunk) + 1
  <2>1. i \in Int /\ i <= first + len - 1 /\ From <= i
    BY <1>1, <1>3
  <2>2. CASE i < first
    <3>1. i \in From .. From + n - len - 1
      BY <1>1, <1>3, <2>1, <2>2
    <3>2. k \in DOMAIN cs /\ i \in cs[k].from .. cs[k].to
      BY <1>2, <3>1 DEF Placed
    <3> HIDE DEF k
    <3>3. k \in DOMAIN new /\ new[k] = cs[k]
      BY <1>1, <1>5, <3>2, Wider
    <3> QED BY <3>2, <3>3 DEF Placed, k
  <2>3. CASE ~(i < first)
    <3>1. lp <= i - From /\ i - From < lp + PerChunk /\ i - From \in Int
      BY <1>1, <1>3, <2>1, <2>3 DEF first
    <3>2. (i - From) \div PerChunk = l
      BY <1>1, <3>1, Quotient DEF lp
    <3>3. i \in ch.from .. ch.to
      BY <1>3, <1>4, <2>1, <2>3, <1>1
    <3> QED BY SMTT(30), <1>1, <1>5, <3>2, <3>3 DEF Placed
  <2> QED BY <2>2, <2>3
<1>8. ASSUME NEW k \in DOMAIN cs PROVE F!IndexChunkFile(cs[k]) # F!IndexChunkFile(ch)
  <2>1. k - 1 \in Nat /\ k - 1 < l
    BY SMTT(30), <1>1, <1>5
  <2>2. (k - 1) * PerChunk + PerChunk <= lp
    BY <1>1, <2>1, Apart DEF lp
  <2>3. (k - 1) * PerChunk \in Nat
    BY <1>1, <2>1
  <2>4. cs[k].from = From + (k - 1) * PerChunk
    BY DEF Tile
  <2>5. cs[k].from # ch.from
    BY SMTT(30), <1>1, <1>4, <2>2, <2>3, <2>4 DEF first
  <2>6. <<cs[k].from, cs[k].to>> # <<ch.from, ch.to>>
    BY <2>5
  <2> QED BY <2>6 DEF F!IndexChunkFile
<1> QED BY <1>3, <1>6, <1>7, <1>8 DEF new, ch

-----------------------------------------------------------------------------
(* A replay of an undamaged bundle.                                        *)

\* As long as no fault has happened, a replay has not failed.
UnbrokenOK(r) ==
    /\ r.pc # "failed"
    /\ r.pc = "inspect" => r.previous = <<>>
    /\ r.pc = "check" => r.previous = IF r.at = From THEN <<>> ELSE <<F!Genuine(r.at - 1)>>

\* What a capture has collected, and what it publishes.
HeldOK(c, s) ==
    /\ s.pc = "capture" => TiledOK(s)
    /\ s.pc \in {"mkdir", "link", "rollback"} => \A i \in From .. s.to : Served(s.tmp, ManifestOf(c, s), i)

ServedInv ==
    /\ SteadyInv
    /\ \A c \in Captures : HeldOK(c, cap[c])
    /\ faults = 0 => \A m \in printed : \A i \in From .. m.to : Served(out, m, i)
    /\ faults = 0 /\ reader # F!NoReader => UnbrokenOK(reader)

\* A step of a capture that prints nothing.
LEMMA HeldStep ==
    ASSUME ServedInv, SteadyInv', NEW c \in Captures, NEW s, cap' = [cap EXCEPT ![c] = s], HeldOK(c, s),
           printed' = printed, faults' = faults, reader' = reader, printed # {} => out' = out
    PROVE  ServedInv'
<1>1. \A d \in Captures : cap'[d] = IF d = c THEN s ELSE cap[d]
  BY DEF ServedInv, SteadyInv, TypedInv, PublicationInv, FixtureInv
<1>2. \A d \in Captures : HeldOK(d, cap'[d])
  BY <1>1 DEF ServedInv
<1> QED BY <1>2 DEF ServedInv

LEMMA OverHeld ==
    ASSUME NEW c, NEW pc \in {"failed", "killed"}
    PROVE  HeldOK(c, [F!Unstarted EXCEPT !.pc = pc])
<1> DEFINE s == [F!Unstarted EXCEPT !.pc = pc]
<1>1. s.pc = pc
  BY DEF F!Unstarted
<1> HIDE DEF s
<1>2. HeldOK(c, s)
  BY <1>1 DEF HeldOK
<1> QED BY <1>2 DEF s

LEMMA BeginHeld ==
    ASSUME ServedInv, SteadyInv', NEW c \in Captures, F!Begin(c)
    PROVE  ServedInv'
<1>1. cap[c] = F!Unstarted /\ DOMAIN cap = Captures /\ FixtureAssumption
  BY DEF ServedInv, SteadyInv, TypedInv, PublicationInv, FixtureInv, WorkingOK, F!Begin
<1>2. PICK to \in From .. Tip :
         cap' = [cap EXCEPT ![c].pc = "capture", ![c].to = to,
                            ![c].tmp = F!With(F!With(F!NoFiles, F!Ledgers, 0), F!Indexes, 0)]
  BY DEF F!Begin
<1> DEFINE tmp == F!With(F!With(F!NoFiles, F!Ledgers, 0), F!Indexes, 0)
           s == [cap[c] EXCEPT !.pc = "capture", !.to = to, !.tmp = tmp]
<1>3. Cardinality(F!OfKind(tmp, "ledger")) = 0
  <2>1. DOMAIN tmp = {F!Indexes, F!Ledgers}
    BY DEF F!With, F!NoFiles
  <2>2. F!OfKind(tmp, "ledger") = {}
    BY <2>1 DEF F!OfKind, F!Indexes, F!Ledgers
  <2> QED BY <2>2, FS_EmptySet
<1> HIDE DEF tmp
<1>4. cap' = [cap EXCEPT ![c] = s]
  BY <1>1, <1>2 DEF tmp, F!Unstarted
<1>5. s.pc = "capture" /\ s.to = to /\ s.tmp = tmp /\ s.chunks = <<>> /\ s.pending = <<>>
  BY <1>1 DEF F!Unstarted
<1> HIDE DEF s
<1>6. Stored(tmp, 0, <<>>)
  <2>1. From .. From + 0 - 1 = {} /\ DOMAIN <<>> = {}
    BY <1>1 DEF FixtureAssumption
  <2> QED BY <2>1 DEF Stored
<1>7. TiledOK(s)
  <2>1. Len(s.pending) = 0 /\ Len(s.chunks) = 0 /\ DOMAIN s.pending = {}
    BY <1>5
  <2>2. 0 <= to - From + 1 /\ From .. From + 0 - 0 - 1 = {} /\ 0 = 0 * PerChunk + 0
    BY <1>1 DEF FixtureAssumption
  <2>3. EntriesFrom(s.pending, From + 0 - Len(s.pending))
    BY <2>1 DEF EntriesFrom
  <2> QED BY <1>3, <1>5, <1>6, <2>1, <2>2, <2>3 DEF TiledOK
<1>8. HeldOK(c, s)
  BY <1>5, <1>7 DEF HeldOK
<1>9. out' = out /\ printed' = printed /\ faults' = faults /\ reader' = reader
  BY DEF F!Begin, F!Elsewhere
<1> QED BY <1>4, <1>8, <1>9, HeldStep

\* One more file, which is not a file that is there.
LEMMA StoreLedger ==
    ASSUME FixtureAssumption, NEW files, NEW n \in Nat, NEW chunks, Stored(files, n, chunks)
    PROVE  Stored(F!With(files, F!LedgerFile(From + n), F!Packed(F!Genuine(From + n))), n + 1, chunks)
<1> DEFINE f == F!LedgerFile(From + n)
           new == F!With(files, f, F!Packed(F!Genuine(From + n)))
<1>1. DOMAIN new = DOMAIN files \cup {f} /\ new[f] = F!Packed(F!Genuine(From + n)) /\ \A x \in DOMAIN files : x # f => new[x] = files[x]
  BY DEF F!With
<1> HIDE DEF new
<1>2. ASSUME NEW i \in From .. From + (n + 1) - 1
      PROVE  F!LedgerFile(i) \in DOMAIN new /\ new[F!LedgerFile(i)] = F!Packed(F!Genuine(i))
  <2>1. i = From + n \/ i \in From .. From + n - 1
    BY DEF FixtureAssumption
  <2>2. CASE i = From + n
    BY <1>1, <2>2
  <2>3. CASE i # From + n
    <3>1. F!LedgerFile(i) # f
      BY <2>3 DEF F!LedgerFile
    <3> QED BY <1>1, <2>1, <2>3, <3>1 DEF Stored
  <2> QED BY <2>2, <2>3
<1>3. ASSUME NEW k \in DOMAIN chunks
      PROVE  /\ Tile(chunks[k], k)
             /\ F!IndexChunkFile(chunks[k]) \in DOMAIN new /\ new[F!IndexChunkFile(chunks[k])] = chunks[k].digest
  <2>1. F!IndexChunkFile(chunks[k]) # f
    BY DEF F!IndexChunkFile, F!LedgerFile
  <2> QED BY <1>1, <2>1 DEF Stored
<1>4. Stored(new, n + 1, chunks)
  BY <1>2, <1>3 DEF Stored
<1> QED BY <1>4 DEF new

LEMMA StoreChunk ==
    ASSUME NEW files, NEW n, NEW chunks \in Seq(GenuineChunks), NEW ch \in GenuineChunks, Stored(files, n, chunks),
           \A k \in DOMAIN Append(chunks, ch) : Tile(Append(chunks, ch)[k], k),
           \A k \in DOMAIN chunks : F!IndexChunkFile(chunks[k]) # F!IndexChunkFile(ch)
    PROVE  Stored(F!With(files, F!IndexChunkFile(ch), ch.digest), n, Append(chunks, ch))
<1> DEFINE f == F!IndexChunkFile(ch)
           new == F!With(files, f, ch.digest)
           more == Append(chunks, ch)
<1>1. DOMAIN new = DOMAIN files \cup {f} /\ new[f] = ch.digest /\ \A x \in DOMAIN files : x # f => new[x] = files[x]
  BY DEF F!With
<1>2. /\ DOMAIN more = 1 .. Len(chunks) + 1 /\ DOMAIN chunks = 1 .. Len(chunks) /\ Len(chunks) \in Nat
      /\ more[Len(chunks) + 1] = ch /\ \A k \in 1 .. Len(chunks) : more[k] = chunks[k]
  OBVIOUS
<1>3. \A k \in DOMAIN more : Tile(more[k], k)
  OBVIOUS
<1> HIDE DEF new, more
<1>4. ASSUME NEW i \in From .. From + n - 1
      PROVE  F!LedgerFile(i) \in DOMAIN new /\ new[F!LedgerFile(i)] = F!Packed(F!Genuine(i))
  <2>1. F!LedgerFile(i) # f
    BY DEF F!IndexChunkFile, F!LedgerFile
  <2> QED BY <1>1, <2>1 DEF Stored
<1>5. ASSUME NEW k \in DOMAIN more
      PROVE  /\ Tile(more[k], k)
             /\ F!IndexChunkFile(more[k]) \in DOMAIN new /\ new[F!IndexChunkFile(more[k])] = more[k].digest
  <2>1. CASE k = Len(chunks) + 1
    BY <1>1, <1>2, <1>3, <2>1
  <2>2. CASE k # Len(chunks) + 1
    <3>1. k \in DOMAIN chunks /\ more[k] = chunks[k]
      BY <1>2, <2>2
    <3>2. F!IndexChunkFile(chunks[k]) \in DOMAIN files /\ files[F!IndexChunkFile(chunks[k])] = chunks[k].digest
      BY <3>1 DEF Stored
    <3>3. F!IndexChunkFile(chunks[k]) # f
      BY <3>1
    <3> HIDE DEF f
    <3> QED BY <1>1, <1>3, <3>1, <3>2, <3>3
  <2> QED BY <2>1, <2>2
<1>6. Stored(new, n, more)
  BY SMTT(30), <1>4, <1>5 DEF Stored
<1> QED BY <1>6 DEF new, more

LEMMA CaptureLedgerHeld ==
    ASSUME ServedInv, SteadyInv', NEW c \in Captures, F!CaptureLedger(c)
    PROVE  ServedInv'
<1> DEFINE s == cap[c]
           n == Cardinality(F!OfKind(s.tmp, "ledger"))
           i == From + n
<1>1. /\ CaptureOK(s) /\ DOMAIN cap = Captures /\ s.to \in From .. Tip /\ FixtureAssumption
      /\ s.pc = "capture" /\ IsFunction(s.tmp) /\ DOMAIN s.tmp = Collected(n, s.chunks)
      /\ Len(s.pending) < PerChunk /\ i <= s.to /\ TiledOK(s)
  BY SameCardinality DEF ServedInv, HeldOK, SteadyInv, TypedInv, CaptureTyped, PublicationInv, FixtureInv, WorkingOK, F!CaptureLedger, Working
<1>2. printed' = printed /\ out' = out /\ faults' = faults /\ reader' = reader
  BY DEF F!CaptureLedger, F!Elsewhere
<1>3. IsFiniteSet(F!OfKind(s.tmp, "ledger")) /\ n \in Nat /\ i \in Int
  <2>1. IsFiniteSet(DOMAIN s.tmp) /\ F!OfKind(s.tmp, "ledger") \in SUBSET DOMAIN s.tmp
    BY <1>1 DEF CaptureOK, F!OfKind
  <2>2. IsFiniteSet(F!OfKind(s.tmp, "ledger")) /\ n \in Nat
    BY <2>1, FS_Subset, FS_CardinalityType
  <2> QED BY <1>1, <2>2 DEF FixtureAssumption
<1>4. PICK l \in {F!Genuine(i), F!Ledger(i, 1, 1)} :
         LET pending == Append(s.pending, F!Entry(l))
             full == F!Full(pending, i = s.to)
             tmp == F!With(s.tmp, F!LedgerFile(i), F!Packed(l))
         IN cap' = [cap EXCEPT ![c] =
               IF ~F!Continuous(s.previous, l) THEN [F!Unstarted EXCEPT !.pc = "failed"]
               ELSE [s EXCEPT !.previous = <<l>>,
                              !.pending = IF full THEN <<>> ELSE pending,
                              !.chunks = IF full THEN Append(@, F!Chunk(pending)) ELSE @,
                              !.tmp = IF full THEN F!With(tmp, F!IndexChunkFile(F!Chunk(pending)), pending) ELSE tmp]]
  BY SameCardinality DEF F!CaptureLedger
<1>5. CASE ~F!Continuous(s.previous, l)
  <2>1. cap' = [cap EXCEPT ![c] = [F!Unstarted EXCEPT !.pc = "failed"]]
    BY <1>4, <1>5
  <2> QED BY <1>2, <2>1, OverHeld, HeldStep
<1>6. CASE F!Continuous(s.previous, l)
  <2> DEFINE pending == Append(s.pending, F!Entry(F!Genuine(i)))
             full == F!Full(pending, i = s.to)
             tmp == F!With(s.tmp, F!LedgerFile(i), F!Packed(F!Genuine(i)))
             newPending == IF full THEN <<>> ELSE pending
             newChunks == IF full THEN Append(s.chunks, F!Chunk(pending)) ELSE s.chunks
             newTmp == IF full THEN F!With(tmp, F!IndexChunkFile(F!Chunk(pending)), pending) ELSE tmp
             new == [s EXCEPT !.previous = <<l>>, !.pending = newPending, !.chunks = newChunks, !.tmp = newTmp]
             total == s.to - From + 1
  <2>1. l = F!Genuine(i)
    BY <1>1, <1>3, <1>6, AcceptedIsGenuine DEF CaptureOK
  <2>2. cap' = [cap EXCEPT ![c] = new]
    BY <1>1, <1>4, <1>6, <2>1 DEF CaptureOK, CaptureFields
  <2>3. /\ s.pending \in Seq(GenuineEntries) /\ s.chunks \in Seq(GenuineChunks)
        /\ Stored(s.tmp, n, s.chunks) /\ EntriesFrom(s.pending, i - Len(s.pending))
        /\ \A j \in From .. From + n - Len(s.pending) - 1 : Placed(s.chunks, j)
        /\ n < total => n = Len(s.chunks) * PerChunk + Len(s.pending)
    <3>1. s.pending \in Seq(GenuineEntries) /\ s.chunks \in Seq(GenuineChunks)
      BY <1>1 DEF CaptureOK
    <3>2. TiledOK(s)
      BY <1>1
    <3> HIDE DEF s
    <3>3. /\ Stored(s.tmp, n, s.chunks) /\ EntriesFrom(s.pending, i - Len(s.pending))
          /\ \A j \in From .. From + n - Len(s.pending) - 1 : Placed(s.chunks, j)
          /\ n < total => n = Len(s.chunks) * PerChunk + Len(s.pending)
      <4>1. Stored(s.tmp, n, s.chunks)
        BY ONLY <3>2 DEF TiledOK
      <4>2. EntriesFrom(s.pending, i - Len(s.pending))
        <5> DEFINE len == Len(s.pending)
        <5>1. EntriesFrom(s.pending, From + n - len)
          BY ONLY <3>2 DEF TiledOK
        <5>2. n \in Nat /\ From \in Nat /\ len \in Nat
          BY <1>1, <1>3, <3>1 DEF FixtureAssumption
        <5> HIDE DEF n, len
        <5>3. From + n - len = i - len
          BY ONLY <5>2
        <5> HIDE DEF i
        <5> QED BY ONLY <5>1, <5>3 DEF len
      <4>3. \A j \in From .. From + n - Len(s.pending) - 1 : Placed(s.chunks, j)
        BY ONLY <3>2 DEF TiledOK
      <4>4. n < total => n = Len(s.chunks) * PerChunk + Len(s.pending)
        BY ONLY <3>2 DEF TiledOK
      <4> QED BY ONLY <4>1, <4>2, <4>3, <4>4
    <3> QED BY <3>1, <3>3
  <2>4. pending \in Seq(GenuineEntries) /\ Len(pending) = Len(s.pending) + 1 /\ EntriesFrom(pending, i - Len(s.pending))
    BY <1>1, <1>3, <2>3, PendOne
  <2>5. Stored(tmp, n + 1, s.chunks)
    BY <1>1, <1>3, <2>3, StoreLedger
  <2>6. (~full => Len(pending) # PerChunk /\ i # s.to) /\ (full => Len(pending) = PerChunk \/ i = s.to)
    BY DEF F!Full
  <2> DEFINE len == Len(s.pending)
             l0 == Len(s.chunks)
  <2>7. /\ n \in Nat /\ len \in Nat /\ l0 \in Nat /\ From \in Nat /\ PerChunk \in Nat \ {0} /\ s.to \in Int
        /\ len < PerChunk /\ From + n <= s.to
    <3>1. len \in Nat /\ l0 \in Nat
      BY <2>3
    <3>2. n \in Nat /\ From \in Nat /\ PerChunk \in Nat \ {0} /\ len < PerChunk /\ From + n <= s.to
      BY <1>1, <1>3 DEF FixtureAssumption
    <3>3. s.to \in Int
      BY <1>1, <3>2
    <3> QED BY <3>1, <3>2, <3>3
  <2> HIDE DEF pending, tmp, full, n, len, l0, total
  <2>8. i = From + n
    OBVIOUS
  <2>9. /\ n < total /\ n + 1 <= total /\ (n + 1 < total => i # s.to) /\ total = s.to - From + 1
    BY ONLY <2>7, <2>8 DEF total
  <2>10. /\ n = l0 * PerChunk + len /\ Len(pending) = len + 1
    BY <2>3, <2>4, <2>9 DEF l0, len
  <2>11. i - len = From + (n + 1) - Len(pending) /\ From + n - len - 1 = From + (n + 1) - Len(pending) - 1
    <3>1. n \in Nat /\ len \in Nat /\ From \in Nat
      BY ONLY <2>7
    <3>2. Len(pending) = len + 1
      BY ONLY <2>10
    <3> HIDE DEF i
    <3> QED BY ONLY <2>8, <3>1, <3>2
  <2>12. /\ EntriesFrom(pending, From + (n + 1) - Len(pending))
         /\ \A j \in From .. From + (n + 1) - Len(pending) - 1 : Placed(s.chunks, j)
    <3>1. EntriesFrom(pending, i - len) /\ \A j \in From .. From + n - len - 1 : Placed(s.chunks, j)
      BY <2>3, <2>4 DEF len
    <3> HIDE DEF i
    <3> QED BY ONLY <2>11, <3>1
  <2>13. DOMAIN tmp = DOMAIN s.tmp \cup {F!LedgerFile(i)}
    BY DEF F!With, tmp
  <2>14. DOMAIN newTmp = IF full THEN DOMAIN tmp \cup {F!IndexChunkFile(F!Chunk(pending))} ELSE DOMAIN tmp
    BY DEF F!With
  <2>15. Cardinality(F!OfKind(newTmp, "ledger")) = n + 1
    <3>1. F!OfKind(newTmp, "ledger") = F!OfKind(s.tmp, "ledger") \cup {F!LedgerFile(i)}
      BY <2>13, <2>14 DEF F!OfKind, F!LedgerFile, F!IndexChunkFile
    <3>2. F!LedgerFile(i) \notin F!OfKind(s.tmp, "ledger")
      <4>1. \A j \in From .. From + n - 1 : F!LedgerFile(j) # F!LedgerFile(i)
        BY <1>1, <1>3 DEF F!LedgerFile, FixtureAssumption
      <4>2. F!LedgerFile(i) \notin Collected(n, s.chunks)
        BY <4>1 DEF Collected, F!LedgerFile, F!IndexChunkFile, F!Indexes, F!Ledgers
      <4> QED BY <1>1, <4>2 DEF F!OfKind
    <3> QED BY <1>3, <3>1, <3>2, FS_AddElement DEF n
  <2>16. /\ Stored(newTmp, n + 1, newChunks)
         /\ EntriesFrom(newPending, From + (n + 1) - Len(newPending))
         /\ \A j \in From .. From + (n + 1) - Len(newPending) - 1 : Placed(newChunks, j)
         /\ n + 1 < total => n + 1 = Len(newChunks) * PerChunk + Len(newPending)
    <3>1. CASE full
      <4> DEFINE ch == F!Chunk(pending)
                 more == Append(s.chunks, ch)
      <4>1. pending # <<>> /\ Len(pending) <= PerChunk
        <5>1. Len(pending) # 0
          BY ONLY <2>7, <2>10
        <5>2. Len(pending) <= PerChunk
          BY ONLY <2>7, <2>10
        <5> QED BY <5>1, <5>2
      <4>2. n + 1 = Len(s.chunks) * PerChunk + Len(pending)
        <5>1. l0 * PerChunk \in Nat
          BY ONLY <2>7
        <5> DEFINE lp == l0 * PerChunk
        <5>2. lp \in Nat /\ n = lp + len
          BY <2>10, <5>1
        <5> HIDE DEF lp
        <5>3. n + 1 = lp + Len(pending)
          BY ONLY <2>7, <2>10, <5>2
        <5> QED BY <5>3 DEF lp, l0
      <4>3. n + 1 \in Nat
        BY <2>7
      <4>4. \A k \in DOMAIN s.chunks : Tile(s.chunks[k], k)
        BY <2>3 DEF Stored
      <4>5. /\ \A k \in DOMAIN more : Tile(more[k], k)
            /\ \A j \in From .. From + (n + 1) - 1 : Placed(more, j)
            /\ \A k \in DOMAIN s.chunks : F!IndexChunkFile(s.chunks[k]) # F!IndexChunkFile(ch)
        BY <1>1, <2>3, <2>4, <2>12, <4>1, <4>2, <4>3, <4>4, ChunkMore
      <4>6. ch \in GenuineChunks /\ ch.digest = pending
        BY <2>4, <4>1, ChunkOK DEF F!Chunk
      <4> HIDE DEF ch
      <4>7. Stored(F!With(tmp, F!IndexChunkFile(ch), pending), n + 1, more)
        BY <2>3, <2>5, <4>5, <4>6, StoreChunk
      <4>8. Len(more) = l0 + 1
        BY <2>3, <4>6 DEF l0
      <4>9. newPending = <<>> /\ newChunks = more /\ newTmp = F!With(tmp, F!IndexChunkFile(ch), pending)
        BY <3>1 DEF ch
      <4> HIDE DEF more, newPending, newChunks, newTmp
      <4>10. Len(newPending) = 0 /\ DOMAIN newPending = {}
        BY <4>9
      <4>11. EntriesFrom(newPending, From + (n + 1) - Len(newPending))
        BY <4>10 DEF EntriesFrom
      <4>12. From + (n + 1) - 0 - 1 = From + (n + 1) - 1
        BY ONLY <2>7
      <4>13. ASSUME n + 1 < total PROVE n + 1 = Len(newChunks) * PerChunk + Len(newPending)
        <5>1. Len(pending) = PerChunk
          BY <2>6, <2>9, <3>1, <4>13
        <5>2. (l0 + 1) * PerChunk + 0 = l0 * PerChunk + PerChunk
          BY ONLY <2>7
        <5>3. n + 1 = l0 * PerChunk + PerChunk
          BY <4>2, <5>1 DEF l0
        <5> QED BY ONLY <4>8, <4>9, <4>10, <5>2, <5>3
      <4> QED BY <4>5, <4>7, <4>9, <4>10, <4>11, <4>12, <4>13
    <3>2. CASE ~full
      <4>1. newPending = pending /\ newChunks = s.chunks /\ newTmp = tmp
        BY <3>2
      <4>2. n + 1 = l0 * PerChunk + Len(pending)
        <5> DEFINE lp == l0 * PerChunk
        <5>1. lp \in Nat /\ n = lp + len
          <6>1. l0 * PerChunk \in Nat
            BY ONLY <2>7
          <6> QED BY <2>10, <6>1
        <5> HIDE DEF lp
        <5>2. n + 1 = lp + Len(pending)
          BY ONLY <2>7, <2>10, <5>1
        <5> QED BY <5>2 DEF lp
      <4> QED BY <2>5, <2>12, <4>1, <4>2 DEF l0
    <3> QED BY <3>1, <3>2
  <2> HIDE DEF newPending, newChunks, newTmp
  <2>17. new.pc = "capture" /\ new.to = s.to /\ new.pending = newPending /\ new.chunks = newChunks /\ new.tmp = newTmp
    BY <1>1 DEF CaptureOK, CaptureFields
  <2> HIDE DEF new
  <2>18. TiledOK(new)
    BY <2>9, <2>15, <2>16, <2>17 DEF TiledOK
  <2>19. HeldOK(c, new)
    BY <2>17, <2>18 DEF HeldOK
  <2> QED BY <1>2, <2>2, <2>19, HeldStep
<1> QED BY <1>5, <1>6

LEMMA WriteManifestHeld ==
    ASSUME ServedInv, SteadyInv', NEW c \in Captures, F!WriteManifest(c)
    PROVE  ServedInv'
<1> DEFINE s == cap[c]
           n == Cardinality(F!OfKind(s.tmp, "ledger"))
           m == ManifestOf(c, s)
           tmp == F!With(s.tmp, F!ManifestFile, m)
           new == [s EXCEPT !.pc = "mkdir", !.tmp = tmp]
<1>1. /\ CaptureOK(s) /\ DOMAIN cap = Captures /\ s.to \in From .. Tip /\ FixtureAssumption
      /\ s.pc = "capture" /\ CaptureTyped(s) /\ TiledOK(s)
  BY SameCardinality DEF ServedInv, HeldOK, SteadyInv, TypedInv, CaptureTyped, PublicationInv, FixtureInv, F!WriteManifest, Working
<1>2. printed' = printed /\ out' = out /\ faults' = faults /\ reader' = reader
  BY DEF F!WriteManifest, F!Elsewhere
<1>3. n = s.to - From + 1 /\ F!Manifest(c) = m
  BY ManifestIs, SameCardinality DEF F!WriteManifest
<1>4. cap' = [cap EXCEPT ![c] = [F!Unstarted EXCEPT !.pc = "failed"]] \/ cap' = [cap EXCEPT ![c] = new]
  BY <1>1, <1>3, SameCardinality DEF F!WriteManifest
<1>5. CASE cap' = [cap EXCEPT ![c] = [F!Unstarted EXCEPT !.pc = "failed"]]
  BY <1>2, <1>5, OverHeld, HeldStep
<1>6. CASE cap' = [cap EXCEPT ![c] = new]
  <2>1. /\ DOMAIN tmp = DOMAIN s.tmp \cup {F!ManifestFile} /\ \A x \in DOMAIN s.tmp : x # F!ManifestFile => tmp[x] = s.tmp[x]
    BY DEF F!With
  <2>2. s.pending = <<>> /\ Stored(s.tmp, n, s.chunks)
    BY <1>1, <1>3 DEF CaptureTyped, TiledOK
  <2>3. n \in Nat /\ From + n - 1 = s.to /\ From + n - 0 - 1 = s.to
    BY <1>1, <1>3 DEF FixtureAssumption
  <2>4. \A i \in From .. s.to : Placed(s.chunks, i)
    <3>1. Len(s.pending) = 0
      BY <2>2
    <3>2. \A i \in From .. From + n - Len(s.pending) - 1 : Placed(s.chunks, i)
      BY <1>1 DEF TiledOK
    <3> HIDE DEF n
    <3> QED BY <2>3, <3>1, <3>2
  <2> HIDE DEF tmp, n
  <2>5. new.pc = "mkdir" /\ new.to = s.to /\ new.chunks = s.chunks /\ new.tmp = tmp
    BY <1>1 DEF CaptureOK, CaptureFields
  <2> HIDE DEF new
  <2>6. ManifestOf(c, new) = m /\ m.from = From /\ m.chunks = s.chunks /\ s.chunks \in Seq(GenuineChunks)
    BY <1>1, <2>5 DEF ManifestOf, CaptureOK
  <2> HIDE DEF m
  <2>7. Stored(tmp, n, s.chunks)
    <3>1. \A i : F!LedgerFile(i) # F!ManifestFile
      BY DEF F!LedgerFile, F!ManifestFile
    <3>2. \A chunk : F!IndexChunkFile(chunk) # F!ManifestFile
      BY DEF F!IndexChunkFile, F!ManifestFile
    <3> QED BY <2>1, <2>2, <3>1, <3>2 DEF Stored
  <2>8. \A i \in From .. s.to : Served(tmp, m, i)
    <3>1. ASSUME NEW i \in From .. s.to PROVE Served(tmp, m, i)
      <4>1. i \in From .. From + n - 1 /\ Placed(m.chunks, i) /\ Stored(tmp, n, m.chunks) /\ m.chunks \in Seq(GenuineChunks)
        BY <2>3, <2>4, <2>6, <2>7
      <4> QED BY <1>1, <2>3, <2>6, <4>1, StoredIsServed
    <3> QED BY <3>1
  <2>9. HeldOK(c, new)
    BY <2>5, <2>6, <2>8 DEF HeldOK
  <2> QED BY <1>2, <1>6, <2>9, HeldStep
<1> QED BY SMTT(30), <1>4, <1>5, <1>6

\* The steps of a publication, which leave what is to be published as it is.
LEMMA PublishHeld ==
    ASSUME ServedInv, SteadyInv', NEW c \in Captures,
           F!CreateOutput(c) \/ F!Link(c) \/ F!LinkFails(c) \/ F!Rollback(c) \/ F!Kill(c)
    PROVE  ServedInv'
<1> DEFINE s == cap[c]
<1>1. CaptureOK(s) /\ DOMAIN cap = Captures /\ HeldOK(c, s) /\ exists \in BOOLEAN
  BY DEF ServedInv, SteadyInv, TypedInv, PublicationInv, FixtureInv, OutputOK
<1>2. printed' = printed /\ faults' = faults /\ reader' = reader
  BY DEF F!CreateOutput, F!Link, F!LinkFails, F!Rollback, F!Kill, F!Elsewhere
<1>3. printed # {} => out' = out
  BY OutStays DEF ServedInv, SteadyInv, TypedInv
<1>4. ASSUME NEW new, cap' = [cap EXCEPT ![c] = new], s.pc \in {"mkdir", "link", "rollback"}, new.pc \in {"link", "rollback"},
             new.to = s.to, new.tmp = s.tmp, new.chunks = s.chunks
      PROVE  ServedInv'
  <2>1. ManifestOf(c, new) = ManifestOf(c, s)
    BY <1>4 DEF ManifestOf
  <2>2. HeldOK(c, new)
    BY <1>1, <1>4, <2>1 DEF HeldOK
  <2> QED BY <1>2, <1>3, <1>4, <2>2, HeldStep
<1>5. ASSUME NEW pc \in {"failed", "killed"}, cap' = [cap EXCEPT ![c] = [F!Unstarted EXCEPT !.pc = pc]] PROVE ServedInv'
  BY <1>2, <1>3, <1>5, OverHeld, HeldStep
<1>6. CASE F!CreateOutput(c)
  <2>1. s.pc = "mkdir" /\ cap' = [cap EXCEPT ![c].pc = IF exists THEN "rollback" ELSE "link", ![c].created = ~exists]
    BY <1>6 DEF F!CreateOutput
  <2>2. \E pc \in {"link", "rollback"}, created \in BOOLEAN : cap' = [cap EXCEPT ![c].pc = pc, ![c].created = created]
    <3>1. CASE exists = TRUE
      <4>1. cap' = [cap EXCEPT ![c].pc = "rollback", ![c].created = FALSE]
        BY <2>1, <3>1
      <4> QED BY <4>1
    <3>2. CASE exists = FALSE
      <4>1. cap' = [cap EXCEPT ![c].pc = "link", ![c].created = TRUE]
        BY <2>1, <3>2
      <4> QED BY <4>1
    <3> QED BY <1>1, <3>1, <3>2
  <2> PICK pc \in {"link", "rollback"}, created \in BOOLEAN : cap' = [cap EXCEPT ![c].pc = pc, ![c].created = created]
    BY <2>2
  <2> DEFINE new == [s EXCEPT !.pc = pc, !.created = created]
  <2>3. cap' = [cap EXCEPT ![c] = new]
    BY <1>1
  <2>4. new.pc = pc /\ new.to = s.to /\ new.tmp = s.tmp /\ new.chunks = s.chunks
    BY <1>1 DEF CaptureOK, CaptureFields
  <2> HIDE DEF new
  <2> QED BY <1>4, <2>1, <2>3, <2>4
<1>7. ASSUME s.pc = "link", cap' = [cap EXCEPT ![c].pc = "rollback"] PROVE ServedInv'
  <2> DEFINE new == [s EXCEPT !.pc = "rollback"]
  <2>1. cap' = [cap EXCEPT ![c] = new]
    BY <1>1, <1>7
  <2>2. new.pc = "rollback" /\ new.to = s.to /\ new.tmp = s.tmp /\ new.chunks = s.chunks
    BY <1>1 DEF CaptureOK, CaptureFields
  <2> HIDE DEF new
  <2> QED BY <1>4, <1>7, <2>1, <2>2
<1>8. ASSUME s.pc \in {"link", "rollback"}, \E linked : cap' = [cap EXCEPT ![c].linked = linked] PROVE ServedInv'
  <2> PICK linked : cap' = [cap EXCEPT ![c].linked = linked]
    BY <1>8
  <2> DEFINE new == [s EXCEPT !.linked = linked]
  <2>1. cap' = [cap EXCEPT ![c] = new]
    BY <1>1
  <2>2. new.pc = s.pc /\ new.to = s.to /\ new.tmp = s.tmp /\ new.chunks = s.chunks
    BY <1>1 DEF CaptureOK, CaptureFields
  <2> HIDE DEF new
  <2> QED BY <1>4, <1>8, <2>1, <2>2
<1>9. CASE F!Link(c)
  <2>1. s.pc = "link" /\ s.pc \in {"link", "rollback"}
    BY <1>9 DEF F!Link
  <2>2. cap' = [cap EXCEPT ![c].pc = "rollback"] \/ cap' = [cap EXCEPT ![c].linked = @ + 1]
    BY <1>9 DEF F!Link
  <2>3. CASE cap' = [cap EXCEPT ![c].linked = @ + 1]
    <3> DEFINE linked == s.linked + 1
    <3>1. cap' = [cap EXCEPT ![c].linked = linked]
      BY <1>1, <2>3
    <3>2. \E x : cap' = [cap EXCEPT ![c].linked = x]
      BY <3>1
    <3> HIDE DEF linked, s
    <3> QED BY <1>8, <2>1, <3>2
  <2> QED BY <1>7, <2>1, <2>2, <2>3
<1>10. CASE F!LinkFails(c)
  BY <1>7, <1>10 DEF F!LinkFails
<1>11. CASE F!Rollback(c)
  <2>1. s.pc = "rollback" /\ s.pc \in {"link", "rollback"}
    BY <1>11 DEF F!Rollback
  <2>2. cap' = [cap EXCEPT ![c].linked = @ - 1] \/ cap' = [cap EXCEPT ![c] = [F!Unstarted EXCEPT !.pc = "failed"]]
    BY <1>11 DEF F!Rollback
  <2>3. CASE cap' = [cap EXCEPT ![c].linked = @ - 1]
    <3> DEFINE linked == s.linked - 1
    <3>1. cap' = [cap EXCEPT ![c].linked = linked]
      BY <1>1, <2>3
    <3>2. \E x : cap' = [cap EXCEPT ![c].linked = x]
      BY <3>1
    <3> HIDE DEF linked, s
    <3> QED BY <1>8, <2>1, <3>2
  <2> QED BY <1>5, <2>1, <2>2, <2>3
<1>12. CASE F!Kill(c)
  BY <1>5, <1>12 DEF F!Kill
<1> QED BY SMTT(30), <1>6, <1>9, <1>10, <1>11, <1>12

\* A bundle is printed: it is what its capture has staged, and no replay has begun.
LEMMA FinishHeld ==
    ASSUME ServedInv, SteadyInv', NEW c \in Captures, F!Finish(c)
    PROVE  ServedInv'
<1> DEFINE s == cap[c]
           m == ManifestOf(c, s)
           new == [s EXCEPT !.pc = "done", !.tmp = F!NoFiles]
<1>1. PublicationInv /\ s.pc = "link" /\ s.created = TRUE /\ Owns(s) /\ HeldOK(c, s)
  BY DEF ServedInv, SteadyInv, TypedInv, PublicationInv, WorkingOK, F!Finish, Owns
<1>2. /\ CaptureOK(s) /\ DOMAIN cap = Captures /\ FixtureAssumption
      /\ s.chunks \in Seq(GenuineChunks) /\ s.to \in Int /\ s.to >= From
      /\ StagedOK(c, s) /\ LinkedOK(c, s, out) /\ printed = {}
      /\ DOMAIN out = {} \/ IsFunction(out)
  BY <1>1, OwnerIs
<1>3. /\ s.linked = Len(F!Plan(m)) /\ printed' = printed \cup {m} /\ out' = out /\ faults' = faults /\ reader' = reader
      /\ cap' = [cap EXCEPT ![c].pc = "done", ![c].tmp = F!NoFiles]
  BY ManifestIs DEF F!Finish, F!Elsewhere
<1>4. IsFunction(out)
  <2> DEFINE plan == F!Plan(m)
             len == Len(plan)
  <2>1. len \in Nat /\ len >= 1
    BY <1>2, PlanIs
  <2>2. s.linked = len /\ DOMAIN out = {plan[j] : j \in 1 .. s.linked}
    BY <1>2, <1>3 DEF LinkedOK
  <2> HIDE DEF plan, len
  <2>3. 1 \in 1 .. s.linked
    BY <2>1, <2>2
  <2>4. DOMAIN out # {}
    BY <2>2, <2>3
  <2> QED BY <1>2, <2>4
<1>5. out = s.tmp
  BY <1>1, <1>2, <1>3, <1>4, ManifestLast
<1>6. \A i \in From .. s.to : Served(out, m, i)
  BY <1>1, <1>5 DEF HeldOK
<1>7. cap' = [cap EXCEPT ![c] = new]
  BY <1>2, <1>3
<1>8. new.pc = "done"
  BY <1>2 DEF CaptureOK, CaptureFields
<1>9. m.to = s.to
  BY DEF ManifestOf
<1> HIDE DEF new, m
<1>10. HeldOK(c, new)
  BY <1>8 DEF HeldOK
<1>11. \A d \in Captures : cap'[d] = IF d = c THEN new ELSE cap[d]
  BY <1>2, <1>7
<1>12. \A d \in Captures : HeldOK(d, cap'[d])
  BY <1>10, <1>11 DEF ServedInv
<1>13. reader = F!NoReader
  BY <1>2 DEF ServedInv, SteadyInv, PlaceOK
<1>14. printed' = {m}
  BY <1>2, <1>3
<1>15. \A x \in printed' : \A i \in From .. x.to : Served(out', x, i)
  BY <1>3, <1>6, <1>9, <1>14
<1> QED BY <1>3, <1>12, <1>13, <1>15 DEF ServedInv

LEMMA FaultHeld ==
    ASSUME ServedInv, SteadyInv', F!Fault
    PROVE  ServedInv'
<1>1. faults' = faults + 1 /\ cap' = cap /\ faults \in Nat
  BY DEF F!Fault, ServedInv, SteadyInv, TypedInv, PublicationInv, OutputOK
<1>2. faults' # 0
  BY <1>1
<1> QED BY <1>1, <1>2 DEF ServedInv

\* A step of the replay.
LEMMA ReaderHeld ==
    ASSUME ServedInv, SteadyInv', F!Reading, faults = 0 => UnbrokenOK(reader')
    PROVE  ServedInv'
BY DEF ServedInv, F!Reading, HeldOK

\* What a replay meets as long as no fault has happened.
LEMMA Undamaged ==
    ASSUME ServedInv, faults = 0, reader # F!NoReader
    PROVE  /\ UnbrokenOK(reader) /\ ReaderOK(reader) /\ PlaceOK(reader) /\ SteadyOK(reader) /\ FixtureInv
           /\ reader.before = faults /\ Fresh(reader)
           /\ From \in Nat /\ reader.pin.to \in From .. Tip /\ reader.manifest = reader.pin
           /\ F!Inspect(out, <<reader.pin>>)
           /\ \A i \in From .. reader.pin.to : Served(out, reader.pin, i)
<1>1. /\ SteadyInv /\ UnbrokenOK(reader) /\ F!PublishedIntact
  BY DEF ServedInv, SteadyInv, TypedInv, PublicationInv, OutputOK
<1>2. /\ ReaderOK(reader) /\ PlaceOK(reader) /\ SteadyOK(reader) /\ FixtureInv
      /\ From \in Nat /\ reader.pin.to \in From .. Tip
  BY <1>1, ReadingIs
<1>3. reader.before = faults
  BY <1>2 DEF PlaceOK
<1>4. Fresh(reader)
  BY <1>2, <1>3 DEF SteadyOK
<1>5. reader.pin \in printed /\ reader.manifest = reader.pin
  BY <1>2 DEF PlaceOK, ReaderOK
<1>6. F!Inspect(out, <<reader.pin>>)
  BY <1>1, <1>5 DEF F!PublishedIntact, F!Validate
<1>7. \A i \in From .. reader.pin.to : Served(out, reader.pin, i)
  BY <1>5 DEF ServedInv
<1> QED BY <1>1, <1>2, <1>3, <1>4, <1>5, <1>6, <1>7

\* A read of the bundle returns the ledger.
LEMMA ReadServed ==
    ASSUME ServedInv, faults = 0, reader # F!NoReader, NEW i \in From .. reader.pin.to
    PROVE  LET r == F!GetLedger(i) IN r.pc # "failed" /\ Elsewise(r) /\ r.previous = <<F!Genuine(i)>>
<1>1. /\ ReaderOK(reader) /\ reader.pc # "failed" /\ i \in Int /\ FixtureInv /\ Fresh(reader) /\ Served(out, reader.pin, i)
  BY Undamaged DEF UnbrokenOK
<1> DEFINE r == F!GetLedger(i)
<1>2. r.pc # "failed"
  BY <1>1, ReadIs
<1>3. Elsewise(r) /\ r.previous = <<F!Genuine(i)>>
  BY <1>1, <1>2, GetLedgerOK
<1> QED BY <1>2, <1>3

\* A ledger of the chain continues the one before it.
LEMMA Continues ==
    ASSUME NEW i \in Int, NEW previous, previous = IF i = From THEN <<>> ELSE <<F!Genuine(i - 1)>>
    PROVE  F!Continuous(previous, F!Genuine(i))
<1>1. CASE i = From
  BY <1>1 DEF F!Continuous, F!Genuine, F!Ledger
<1>2. CASE i # From
  <2>1. previous # <<>> /\ previous[1] = F!Genuine(i - 1)
    BY <1>2
  <2>2. (i - 1) + 1 = i
    OBVIOUS
  <2>3. F!Genuine(i).index = i /\ F!Genuine(i).parent = 0 /\ F!Genuine(i - 1).index = i - 1 /\ F!Genuine(i - 1).branch = 0
    BY DEF F!Genuine, F!Ledger
  <2> QED BY <2>1, <2>2, <2>3 DEF F!Continuous
<1> QED BY <1>1, <1>2

LEMMA StartHeld ==
    ASSUME ServedInv, SteadyInv', F!StartReplay
    PROVE  ServedInv'
<1>1. F!Reading /\ reader'.pc = "inspect" /\ reader'.previous = <<>>
  BY DEF F!StartReplay
<1>2. UnbrokenOK(reader')
  BY <1>1 DEF UnbrokenOK
<1> QED BY <1>1, <1>2, ReaderHeld

LEMMA InspectHeld ==
    ASSUME ServedInv, SteadyInv', F!InspectBundle \/ F!Open
    PROVE  ServedInv'
<1>1. reader # F!NoReader /\ F!Reading
  <2>1. F!NoReader.pc = "none"
    BY DEF F!NoReader
  <2> QED BY <2>1 DEF F!InspectBundle, F!Open
<1>2. ASSUME faults = 0 PROVE UnbrokenOK(reader')
  <2>1. /\ UnbrokenOK(reader) /\ DOMAIN reader = ReaderFields /\ F!Inspect(out, <<reader.pin>>) /\ PlaceOK(reader)
    BY <1>1, <1>2, Undamaged DEF ReaderOK
  <2>2. CASE F!InspectBundle
    <3>1. reader'.pc = "check" /\ reader'.previous = reader.previous /\ reader'.at = reader.at /\ reader.pc = "inspect"
      BY <2>1, <2>2 DEF F!InspectBundle, ReaderFields
    <3>2. reader.previous = <<>> /\ reader.at = From
      BY <2>1, <3>1 DEF UnbrokenOK, PlaceOK
    <3> QED BY <3>1, <3>2 DEF UnbrokenOK
  <2>3. CASE F!Open
    <3>1. reader'.pc = "target"
      BY <2>1, <2>3 DEF F!Open, ReaderFields
    <3> QED BY <3>1 DEF UnbrokenOK
  <2> QED BY <2>2, <2>3
<1> QED BY <1>1, <1>2, ReaderHeld

LEMMA CheckLedgerHeld ==
    ASSUME ServedInv, SteadyInv', F!CheckLedger
    PROVE  ServedInv'
<1> DEFINE i == reader.at
           next == F!GetLedger(i)
           at == i + 1
           opened == [next EXCEPT !.pc = "open"]
           more == [next EXCEPT !.at = at]
<1>1. reader # F!NoReader /\ F!Reading /\ reader.pc = "check"
  <2>1. F!NoReader.pc = "none"
    BY DEF F!NoReader
  <2> QED BY <2>1 DEF F!CheckLedger
<1>2. ASSUME faults = 0 PROVE UnbrokenOK(reader')
  <2>1. UnbrokenOK(reader) /\ PlaceOK(reader) /\ From \in Nat /\ reader.pin.to \in From .. Tip /\ reader.manifest = reader.pin
    BY <1>1, <1>2, Undamaged
  <2>2. i \in From .. reader.pin.to /\ i \in Int /\ reader.previous = IF i = From THEN <<>> ELSE <<F!Genuine(i - 1)>>
    BY <1>1, <2>1 DEF PlaceOK, UnbrokenOK
  <2>3. next.pc # "failed" /\ Elsewise(next) /\ next.previous = <<F!Genuine(i)>>
    BY <1>1, <1>2, <2>2, ReadServed
  <2>4. next.previous[1] = F!Genuine(i)
    BY <2>3
  <2>5. F!Continuous(reader.previous, F!Genuine(i))
    BY <2>2, Continues
  <2>6. reader' = opened \/ reader' = [next EXCEPT !.at = @ + 1]
    BY <2>3, <2>4, <2>5 DEF F!CheckLedger
  <2> HIDE DEF next
  <2>7. [next EXCEPT !.at = @ + 1] = more
    BY <2>3 DEF Elsewise
  <2>8. at # From /\ at - 1 = i
    BY <2>1, <2>2
  <2> HIDE DEF at, i
  <2>9. opened.pc = "open" /\ more.pc = "check" /\ more.at = at /\ more.previous = <<F!Genuine(i)>>
    BY <1>1, <2>3 DEF Elsewise, ReaderFields
  <2> HIDE DEF opened, more
  <2>10. UnbrokenOK(opened) /\ UnbrokenOK(more)
    BY <2>8, <2>9 DEF UnbrokenOK
  <2> QED BY <2>6, <2>7, <2>10
<1> QED BY <1>1, <1>2, ReaderHeld

LEMMA BoundaryHeld ==
    ASSUME ServedInv, SteadyInv', F!ReadTarget \/ F!Preflight
    PROVE  ServedInv'
<1>1. reader # F!NoReader /\ F!Reading
  <2>1. F!NoReader.pc = "none"
    BY DEF F!NoReader
  <2> QED BY <2>1 DEF F!ReadTarget, F!Preflight
<1>2. ASSUME faults = 0 PROVE UnbrokenOK(reader')
  <2>1. From \in Nat /\ reader.pin.to \in From .. Tip /\ reader.manifest = reader.pin
    BY <1>1, <1>2, Undamaged
  <2>2. CASE F!ReadTarget
    <3> DEFINE next == F!GetLedger(reader.manifest.to)
    <3>1. next.pc # "failed" /\ Elsewise(next)
      <4>1. reader.manifest.to \in From .. reader.pin.to
        BY <2>1
      <4> QED BY <1>1, <1>2, <4>1, ReadServed
    <3>2. reader' = [next EXCEPT !.pc = "preflight"]
      BY <2>2, <3>1 DEF F!ReadTarget
    <3> HIDE DEF next
    <3>3. reader'.pc = "preflight"
      BY <3>1, <3>2 DEF Elsewise, ReaderFields
    <3> QED BY <3>3 DEF UnbrokenOK
  <2>3. CASE F!Preflight
    <3> DEFINE next == F!GetLedger(From)
    <3>1. next.pc # "failed" /\ Elsewise(next)
      <4>1. From \in From .. reader.pin.to
        BY <2>1
      <4> QED BY <1>1, <1>2, <4>1, ReadServed
    <3>2. reader' = [next EXCEPT !.pc = "replay", !.previous = <<>>]
      BY <2>3, <3>1 DEF F!Preflight
    <3> HIDE DEF next
    <3>3. reader'.pc = "replay"
      BY <3>1, <3>2 DEF Elsewise, ReaderFields
    <3> QED BY <3>3 DEF UnbrokenOK
  <2> QED BY <2>2, <2>3
<1> QED BY <1>1, <1>2, ReaderHeld

LEMMA ReplayLedgerHeld ==
    ASSUME ServedInv, SteadyInv', F!ReplayLedger
    PROVE  ServedInv'
<1> DEFINE i == reader.at
           next == F!GetLedger(i)
<1>1. reader # F!NoReader /\ F!Reading /\ reader.pc = "replay"
  <2>1. F!NoReader.pc = "none"
    BY DEF F!NoReader
  <2> QED BY <2>1 DEF F!ReplayLedger
<1>2. ASSUME faults = 0 PROVE UnbrokenOK(reader')
  <2>1. /\ PlaceOK(reader) /\ SteadyOK(reader) /\ ReaderOK(reader) /\ reader.before = faults /\ From \in Nat
        /\ reader.pin.to \in From .. Tip /\ reader.manifest = reader.pin
    BY <1>1, <1>2, Undamaged
  <2>2. /\ i \in From .. reader.pin.to /\ i \in Int
        /\ reader.previous = IF reader.written = <<>> THEN <<>> ELSE <<F!Genuine(i - 1)>>
    BY <1>1, <2>1 DEF PlaceOK, SteadyOK
  <2>3. i = From <=> reader.written = <<>>
    <3>1. reader.written \in Seq(GenuineLedgers) /\ i = From + Len(reader.written)
      BY <1>1, <2>1 DEF ReaderOK
    <3>2. Len(reader.written) \in Nat /\ (Len(reader.written) = 0 <=> reader.written = <<>>)
      BY <3>1
    <3> QED BY <2>1, <3>1, <3>2
  <2>4. next.pc # "failed" /\ Elsewise(next) /\ next.previous = <<F!Genuine(i)>>
    BY <1>1, <1>2, <2>2, ReadServed
  <2>5. next.previous[1] = F!Genuine(i)
    BY <2>4
  <2>6. F!Continuous(reader.previous, F!Genuine(i))
    BY <2>2, <2>3, Continues
  <2>7. reader' = [next EXCEPT !.written = Append(@, next.previous[1]), !.at = @ + 1,
                               !.pc = IF i = reader.manifest.to THEN "done" ELSE @]
    BY <2>4, <2>5, <2>6 DEF F!ReplayLedger
  <2> HIDE DEF next, i
  <2>8. reader'.pc \in {"done", "replay"}
    BY <1>1, <2>4, <2>7 DEF Elsewise, ReaderFields
  <2> QED BY <2>8 DEF UnbrokenOK
<1> QED BY <1>1, <1>2, ReaderHeld

LEMMA ServedInvariant ==
    ASSUME FixtureAssumption
    PROVE  F!Spec => []ServedInv
<1>1. F!Init /\ SteadyInv => ServedInv
  <2> SUFFICES ASSUME F!Init, SteadyInv PROVE ServedInv
    OBVIOUS
  <2>1. \A c \in Captures : cap[c] = F!Unstarted
    BY DEF F!Init
  <2>2. F!Unstarted.pc = "unstarted"
    BY DEF F!Unstarted
  <2>3. \A c \in Captures : HeldOK(c, cap[c])
    BY <2>1, <2>2 DEF HeldOK
  <2> QED BY <2>3 DEF F!Init, ServedInv
<1>2. ServedInv /\ SteadyInv' /\ [F!Next]_(F!vars) => ServedInv'
  <2> SUFFICES ASSUME ServedInv, SteadyInv', [F!Next]_(F!vars) PROVE ServedInv'
    OBVIOUS
  <2>1. ASSUME UNCHANGED F!vars PROVE ServedInv'
    BY <2>1 DEF F!vars, ServedInv, HeldOK, UnbrokenOK
  <2> QED BY <2>1, BeginHeld, CaptureLedgerHeld, WriteManifestHeld, PublishHeld, FinishHeld, FaultHeld,
             StartHeld, InspectHeld, CheckLedgerHeld, BoundaryHeld, ReplayLedgerHeld DEF F!Next
<1>3. F!Spec => []SteadyInv
  BY SteadyInvariant
<1>4. F!Spec => []ServedInv
  BY <1>1, <1>2, <1>3, PTL DEF F!Spec
<1> QED BY <1>4

\* Without a fault of the storage no step of a replay refuses the bundle, for every length of
\* the chain and every size of a chunk: each ledger is in the chunk that the arithmetic of
\* getLedger finds, at the place it expects (writeIndexChunk, LedgerFixtureBundleSource).
THEOREM ReplaysAreServed ==
    ASSUME FixtureAssumption
    PROVE  F!Spec => []F!ReplayServed
<1>1. ServedInv => F!ReplayServed
  <2> SUFFICES ASSUME ServedInv, reader # F!NoReader, reader.pc = "failed" PROVE faults > 0
    BY DEF F!ReplayServed
  <2>1. faults \in Nat /\ faults # 0
    BY DEF ServedInv, SteadyInv, TypedInv, PublicationInv, OutputOK, UnbrokenOK
  <2> QED BY SMTT(30), <2>1
<1> QED BY <1>1, ServedInvariant, PTL

-----------------------------------------------------------------------------
(* The history of a server.                                                *)

\* What a capture of parseCompleteLedgers returns: the recursion as a choice.
MergedUpTo(ranges, f) ==
    [k \in 0 .. Len(ranges) |-> IF k = 0 THEN <<>> ELSE C!MergeRange(f[k - 1], C!Sorted(ranges)[k])]

Merges(ranges, f) == f = MergedUpTo(ranges, f)

Merged(ranges) == CHOOSE f : f = MergedUpTo(ranges, f)

\* The definition of parseCompleteLedgers, in these words.
LEMMA ParseIs ==
    ASSUME NEW ranges
    PROVE  C!ParseCompleteLedgers(ranges) =
             IF \E k \in DOMAIN ranges : ranges[k].min > ranges[k].max THEN <<>>
             ELSE Merged(ranges)[Len(ranges)]
BY Zenon DEF C!ParseCompleteLedgers, Merged, MergedUpTo

\* A function that merges the ranges one by one is the one that was chosen.
LEMMA MergedIs ==
    ASSUME NEW ranges, NEW f, Merges(ranges, f)
    PROVE  Merges(ranges, Merged(ranges))
BY Zenon DEF Merged, Merges

\* The order of two ranges that are given with the later one first.
LEMMA OrderIs ==
    ASSUME NEW at \in Nat \ {0}, NEW b \in Nat \ {0}, b <= at
    PROVE  LET x == [min |-> at, max |-> at]
               y == [min |-> 1, max |-> b]
           IN C!Sorted(<<x, y>>) = <<y, x>>
<1> DEFINE x == [min |-> at, max |-> at]
           y == [min |-> 1, max |-> b]
           ranges == <<x, y>>
           Before(i, j) == \/ ranges[i].min < ranges[j].min
                           \/ /\ ranges[i].min = ranges[j].min
                              /\ ranges[i].max < ranges[j].max \/ (ranges[i].max = ranges[j].max /\ i < j)
           Orders(p) == \A j, k \in DOMAIN ranges : j < k => Before(p[j], p[k])
           order == CHOOSE p \in [DOMAIN ranges -> DOMAIN ranges] : Orders(p)
<1>1. C!Sorted(ranges) = [k \in DOMAIN ranges |-> ranges[order[k]]]
  BY DEF C!Sorted
<1>2. DOMAIN ranges = {1, 2} /\ ranges[1] = x /\ ranges[2] = y
  OBVIOUS
<1>3. x.min = at /\ x.max = at /\ y.min = 1 /\ y.max = b
  OBVIOUS
<1> HIDE DEF x, y, ranges
<1>4. \E p \in [DOMAIN ranges -> DOMAIN ranges] : Orders(p)
  <2> DEFINE p == [k \in {1, 2} |-> IF at = 1 THEN k ELSE 3 - k]
  <2>1. p \in [DOMAIN ranges -> DOMAIN ranges]
    BY <1>2
  <2>2. Orders(p)
    <3>1. CASE at = 1
      BY <1>2, <1>3, <3>1
    <3>2. CASE at # 1
      BY <1>2, <1>3, <3>2
    <3> QED BY <3>1, <3>2
  <2> QED BY <2>1, <2>2
<1> HIDE DEF Orders
<1>5. order \in [DOMAIN ranges -> DOMAIN ranges] /\ Orders(order)
  BY <1>4, Zenon
<1> HIDE DEF order
<1> USE DEF Orders
<1>6. Before(order[1], order[2]) /\ order[1] \in {1, 2} /\ order[2] \in {1, 2}
  BY <1>2, <1>5
<1>7. ranges[order[1]] = y /\ ranges[order[2]] = x
  <2>1. CASE at = 1
    <3>1. x = y
      BY <2>1 DEF x, y
    <3> QED BY <1>2, <1>6, <3>1
  <2>2. CASE at # 1
    <3>1. order[1] = 2 /\ order[2] = 1
      BY <1>2, <1>3, <1>6, <2>2
    <3> QED BY <1>2, <3>1
  <2> QED BY <2>1, <2>2
<1>8. [k \in DOMAIN ranges |-> ranges[order[k]]] = <<y, x>>
  BY <1>2, <1>7
<1> QED BY <1>1, <1>8 DEF ranges, x, y

\* One range is in order.
LEMMA OrderOne ==
    ASSUME NEW x \in [min : Nat, max : Nat]
    PROVE  C!Sorted(<<x>>) = <<x>>
<1> DEFINE ranges == <<x>>
           Before(i, j) == \/ ranges[i].min < ranges[j].min
                           \/ /\ ranges[i].min = ranges[j].min
                              /\ ranges[i].max < ranges[j].max \/ (ranges[i].max = ranges[j].max /\ i < j)
           Orders(p) == \A j, k \in DOMAIN ranges : j < k => Before(p[j], p[k])
           order == CHOOSE p \in [DOMAIN ranges -> DOMAIN ranges] : Orders(p)
<1>1. C!Sorted(ranges) = [k \in DOMAIN ranges |-> ranges[order[k]]]
  BY DEF C!Sorted
<1>2. DOMAIN ranges = {1} /\ ranges[1] = x
  OBVIOUS
<1> HIDE DEF ranges
<1>3. \E p \in [DOMAIN ranges -> DOMAIN ranges] : Orders(p)
  <2>1. [k \in {1} |-> 1] \in [DOMAIN ranges -> DOMAIN ranges]
    BY <1>2
  <2>2. \A p : Orders(p)
    BY <1>2
  <2> QED BY <2>1, <2>2
<1>4. order \in [DOMAIN ranges -> DOMAIN ranges]
  BY <1>3
<1> HIDE DEF order
<1>5. order[1] = 1
  BY <1>2, <1>4
<1>6. [k \in DOMAIN ranges |-> ranges[order[k]]] = <<x>>
  BY <1>2, <1>5
<1> QED BY <1>1, <1>6 DEF ranges

\* One range is returned as it is.
LEMMA ParseOne ==
    ASSUME NEW x \in [min : Nat, max : Nat], x.min <= x.max
    PROVE  C!ParseCompleteLedgers(<<x>>) = <<x>>
<1> DEFINE ranges == <<x>>
           f == [k \in 0 .. 1 |-> IF k = 0 THEN <<>> ELSE <<x>>]
           g == Merged(ranges)
<1>1. Len(ranges) = 1 /\ DOMAIN ranges = {1} /\ ranges[1] = x
  OBVIOUS
<1>2. C!Sorted(ranges) = <<x>>
  BY OrderOne
<1>3. C!MergeRange(<<>>, x) = <<x>>
  BY DEF C!MergeRange
<1> HIDE DEF ranges
<1>4. Merges(ranges, f)
  BY <1>1, <1>2, <1>3 DEF Merges, MergedUpTo
<1>5. Merges(ranges, g)
  BY <1>4, MergedIs
<1> HIDE DEF f, g
<1>6. g[0] = <<>>
  BY <1>1, <1>5 DEF Merges, MergedUpTo
<1>7. g[1] = C!MergeRange(g[1 - 1], C!Sorted(ranges)[1])
  BY <1>1, <1>5 DEF Merges, MergedUpTo
<1>8. g[1] = <<x>>
  BY <1>2, <1>3, <1>6, <1>7
<1>9. ~ \E k \in DOMAIN ranges : ranges[k].min > ranges[k].max
  BY <1>1
<1>10. C!ParseCompleteLedgers(ranges) = g[1]
  BY <1>1, <1>9, ParseIs DEF g
<1> QED BY <1>8, <1>10 DEF ranges

\* Two elements are one and one.
LEMMA AppendOne ==
    ASSUME NEW u, NEW v
    PROVE  Append(<<u>>, v) = <<u, v>>
<1>1. <<u>> \in Seq({u, v}) /\ v \in {u, v} /\ <<u, v>> \in Seq({u, v})
  OBVIOUS
<1> DEFINE s == Append(<<u>>, v)
<1>2. s \in Seq({u, v}) /\ Len(s) = 2
  BY <1>1
<1>3. s[1] = u /\ s[2] = v
  BY <1>1
<1> HIDE DEF s
<1>4. s = <<u, v>>
  BY <1>1, <1>2, <1>3
<1> QED BY <1>4 DEF s

\* Two ranges with no ledger between them are one.
LEMMA ParseTwo ==
    ASSUME NEW at \in Nat \ {0}, NEW b \in Nat \ {0}, b <= at
    PROVE  LET x == [min |-> at, max |-> at]
               y == [min |-> 1, max |-> b]
           IN C!ParseCompleteLedgers(<<x, y>>) =
                IF at > b + 1 THEN <<y, x>> ELSE <<[min |-> 1, max |-> at]>>
<1> DEFINE x == [min |-> at, max |-> at]
           y == [min |-> 1, max |-> b]
           ranges == <<x, y>>
           last == IF at > b + 1 THEN <<y, x>> ELSE <<[min |-> 1, max |-> at]>>
           f == [k \in 0 .. 2 |-> IF k = 0 THEN <<>> ELSE IF k = 1 THEN <<y>> ELSE last]
           g == Merged(ranges)
<1>1. Len(ranges) = 2 /\ DOMAIN ranges = {1, 2} /\ ranges[1] = x /\ ranges[2] = y
  OBVIOUS
<1>2. C!Sorted(ranges) = <<y, x>>
  BY OrderIs
<1>3. C!MergeRange(<<>>, y) = <<y>>
  BY DEF C!MergeRange
<1>4. C!MergeRange(<<y>>, x) = last
  <2>1. <<y>> # <<>> /\ C!Last(<<y>>) = y /\ Len(<<y>>) = 1
    BY DEF C!Last
  <2>2. CASE at > b + 1
    <3>1. x.min > y.max + 1
      BY <2>2
    <3>2. Append(<<y>>, x) = <<y, x>>
      BY AppendOne
    <3>3. C!MergeRange(<<y>>, x) = Append(<<y>>, x)
      BY <2>1, <3>1 DEF C!MergeRange
    <3> QED BY <2>2, <3>2, <3>3
  <2>3. CASE ~(at > b + 1)
    <3>1. [<<y>> EXCEPT ![1].max = IF x.max > @ THEN x.max ELSE @] = <<[min |-> 1, max |-> at]>>
      OBVIOUS
    <3> QED BY <2>1, <2>3, <3>1 DEF C!MergeRange
  <2> QED BY <2>2, <2>3
<1>5. x.min <= x.max /\ y.min <= y.max
  OBVIOUS
<1> HIDE DEF ranges, last, x, y
<1>6. Merges(ranges, f)
  BY <1>1, <1>2, <1>3, <1>4 DEF Merges, MergedUpTo
<1>7. Merges(ranges, g)
  BY <1>6, MergedIs
<1> HIDE DEF f, g
<1>8. g[0] = <<>>
  BY <1>1, <1>7 DEF Merges, MergedUpTo
<1>9. g[1] = C!MergeRange(g[1 - 1], C!Sorted(ranges)[1])
  BY <1>1, <1>7 DEF Merges, MergedUpTo
<1>10. g[2] = C!MergeRange(g[2 - 1], C!Sorted(ranges)[2])
  BY <1>1, <1>7 DEF Merges, MergedUpTo
<1>11. g[1] = <<y>>
  BY <1>2, <1>3, <1>8, <1>9
<1>12. g[2] = last
  BY <1>2, <1>4, <1>10, <1>11
<1>13. ~ \E k \in DOMAIN ranges : ranges[k].min > ranges[k].max
  BY <1>1, <1>5 DEF x, y
<1>14. C!ParseCompleteLedgers(ranges) = g[2]
  BY <1>1, <1>13, ParseIs DEF g
<1> QED BY <1>12, <1>14 DEF ranges, last, x, y

\* What a stage knows of the history of its server agrees with the ledgers that the server
\* holds: the last one is at, and lo is the first one from which on it lacks none.
HistoryOK(status, held) ==
    \E at, lo \in Nat \ {0} :
       /\ status.validated = at /\ lo <= at
       /\ \A a \in Nat \ {0} :
            (\E k \in DOMAIN status.ranges : status.ranges[k].min <= a /\ status.ranges[k].max >= at) <=> lo <= a
       /\ lo .. at \subseteq held /\ (lo > 1 => lo - 1 \notin held)

KnowsOK(r) == r.status = C!NoStatus \/ HistoryOK(r.status, r.held)

HistoryInv == CeremonyInv /\ \A p \in Operators : KnowsOK(stages[p])

\* The history of a server that reports one range up to its last ledger.
LEMMA HistoryOne ==
    ASSUME NEW at \in Nat \ {0}, NEW lo \in 1 .. at, NEW status, NEW held,
           status.validated = at, status.ranges = <<[min |-> lo, max |-> at]>>, held = lo .. at
    PROVE  HistoryOK(status, held)
<1> DEFINE ranges == <<[min |-> lo, max |-> at]>>
<1>1. DOMAIN ranges = {1} /\ ranges[1].min = lo /\ ranges[1].max = at
  OBVIOUS
<1> HIDE DEF ranges
<1>2. \A a \in Nat \ {0} : (\E k \in DOMAIN ranges : ranges[k].min <= a /\ ranges[k].max >= at) <=> lo <= a
  BY <1>1
<1>3. status.ranges = ranges
  BY DEF ranges
<1>4. lo .. at \subseteq held /\ (lo > 1 => lo - 1 \notin held)
  OBVIOUS
<1> QED BY <1>2, <1>3, <1>4 DEF HistoryOK

\* The history of a server that lacks a ledger before its last one.
LEMMA HistoryTwo ==
    ASSUME NEW at \in Nat \ {0}, NEW b \in Nat \ {0}, NEW status, NEW held, b + 1 < at,
           status.validated = at,
           status.ranges = <<[min |-> 1, max |-> b], [min |-> at, max |-> at]>>,
           held = (1 .. b) \cup (at .. at)
    PROVE  HistoryOK(status, held)
<1> DEFINE ranges == <<[min |-> 1, max |-> b], [min |-> at, max |-> at]>>
<1>1. /\ DOMAIN ranges = {1, 2} /\ ranges[1].min = 1 /\ ranges[1].max = b
      /\ ranges[2].min = at /\ ranges[2].max = at
  OBVIOUS
<1> HIDE DEF ranges
<1>2. \A a \in Nat \ {0} : (\E k \in DOMAIN ranges : ranges[k].min <= a /\ ranges[k].max >= at) <=> at <= a
  BY <1>1
<1>3. status.ranges = ranges
  BY DEF ranges
<1>4. at .. at \subseteq held /\ (at > 1 => at - 1 \notin held)
  OBVIOUS
<1>5. at \in 1 .. at
  OBVIOUS
<1> QED BY <1>2, <1>3, <1>4, <1>5 DEF HistoryOK

\* What a server reports when a stage connects.
LEMMA ReportedIsHeld ==
    ASSUME NEW at \in Nat \ {0}, NEW ranges \in C!Reported(at) \cup {<<[min |-> 1, max |-> at]>>}, NEW net
    PROVE  HistoryOK(C!NormalizeServerInfo([networkId |-> net, validated |-> at, ranges |-> ranges]),
                     UNION {ranges[k].min .. ranges[k].max : k \in DOMAIN ranges})
<1> DEFINE status == C!NormalizeServerInfo([networkId |-> net, validated |-> at, ranges |-> ranges])
           held == UNION {ranges[k].min .. ranges[k].max : k \in DOMAIN ranges}
<1>1. status.validated = at /\ status.ranges = C!ParseCompleteLedgers(ranges)
  BY DEF C!NormalizeServerInfo
<1>2. \/ ranges = <<[min |-> at, max |-> at]>>
      \/ \E b \in at - 2 .. at : b >= 1 /\ ranges = <<[min |-> at, max |-> at], [min |-> 1, max |-> b]>>
      \/ ranges = <<[min |-> 1, max |-> at]>>
  BY DEF C!Reported
<1>3. ASSUME NEW lo \in 1 .. at, ranges = <<[min |-> lo, max |-> at]>>
      PROVE  HistoryOK(status, held)
  <2> DEFINE x == [min |-> lo, max |-> at]
  <2>1. x \in [min : Nat, max : Nat] /\ x.min <= x.max /\ x.min = lo /\ x.max = at
    OBVIOUS
  <2>2. DOMAIN ranges = {1} /\ ranges[1] = x /\ ranges = <<x>>
    BY <1>3
  <2> HIDE DEF x
  <2>3. status.ranges = <<x>>
    BY <1>1, <2>1, <2>2, ParseOne
  <2>4. held = lo .. at
    BY <2>1, <2>2
  <2> HIDE DEF status, held
  <2> QED BY <1>1, <2>3, <2>4, HistoryOne DEF x
<1>4. ASSUME NEW b \in at - 2 .. at, b >= 1,
             ranges = <<[min |-> at, max |-> at], [min |-> 1, max |-> b]>>
      PROVE  HistoryOK(status, held)
  <2> DEFINE x == [min |-> at, max |-> at]
             y == [min |-> 1, max |-> b]
  <2>1. b \in Nat \ {0} /\ b <= at
    BY <1>4
  <2>2. x.min = at /\ x.max = at /\ y.min = 1 /\ y.max = b
    OBVIOUS
  <2>3. DOMAIN ranges = {1, 2} /\ ranges[1] = x /\ ranges[2] = y
    BY <1>4
  <2>4. C!ParseCompleteLedgers(ranges) = IF at > b + 1 THEN <<y, x>> ELSE <<[min |-> 1, max |-> at]>>
    BY <1>4, <2>1, ParseTwo
  <2> HIDE DEF x, y
  <2>5. held = (1 .. b) \cup (at .. at)
    BY <2>2, <2>3
  <2> HIDE DEF held, status
  <2>6. CASE at > b + 1
    <3>1. b + 1 < at
      BY <2>1, <2>6
    <3>2. status.ranges = <<[min |-> 1, max |-> b], [min |-> at, max |-> at]>>
      BY <1>1, <2>4, <2>6 DEF x, y
    <3> QED BY <1>1, <2>1, <2>5, <3>1, <3>2, HistoryTwo
  <2>7. CASE ~(at > b + 1)
    <3>1. held = 1 .. at
      BY <2>1, <2>5, <2>7
    <3>2. status.ranges = <<[min |-> 1, max |-> at]>>
      BY <1>1, <2>4, <2>7
    <3>3. 1 \in 1 .. at
      OBVIOUS
    <3> QED BY <1>1, <3>1, <3>2, <3>3, HistoryOne
  <2> QED BY <2>6, <2>7
<1>5. at \in 1 .. at /\ 1 \in 1 .. at
  OBVIOUS
<1> HIDE DEF status, held
<1>6. HistoryOK(status, held)
  BY <1>2, <1>3, <1>4, <1>5
<1> QED BY <1>6 DEF status, held

\* A stage that starts learns the history of its server.
LEMMA StartKnows ==
    ASSUME CeremonyInv, NEW p \in Operators, C!StartStage(p)
    PROVE  KnowsOK(stages'[p])
<1>1. PICK stage \in C!Stages, a \in Nat : C!Connect(p, stage, a)
  <2>1. PICK stage \in C!Stages :
          \E a \in IF stage \in {"verify", "emit-profile"} THEN 1 .. C!tip + 1 ELSE {0} :
             C!Connect(p, stage, a)
    BY DEF C!StartStage
  <2>2. C!tip \in Nat
    BY NodesAre
  <2> QED BY SMTT(30), <2>1, <2>2
<1>2. PICK net \in {0, 1}, at \in C!Nodes :
        \E ranges \in IF a > 0 THEN C!Reported(at) ELSE {<<[min |-> 1, max |-> at]>>} :
           /\ C!AssertConnectedNetwork(1, net)
           /\ stages' = [stages EXCEPT ![p] =
                 [C!Idle EXCEPT !.pc = "read", !.stage = stage, !.activation = a,
                    !.status = C!NormalizeServerInfo([networkId |-> net, validated |-> at,
                                                      ranges |-> ranges]),
                    !.held = UNION {ranges[k].min .. ranges[k].max : k \in DOMAIN ranges}]]
  BY ZenonT(40), <1>1 DEF C!Connect
<1>3. PICK ranges \in IF a > 0 THEN C!Reported(at) ELSE {<<[min |-> 1, max |-> at]>>} :
           /\ C!AssertConnectedNetwork(1, net)
           /\ stages' = [stages EXCEPT ![p] =
                 [C!Idle EXCEPT !.pc = "read", !.stage = stage, !.activation = a,
                    !.status = C!NormalizeServerInfo([networkId |-> net, validated |-> at,
                                                      ranges |-> ranges]),
                    !.held = UNION {ranges[k].min .. ranges[k].max : k \in DOMAIN ranges}]]
  BY <1>2
<1>4. at \in Nat \ {0}
  BY NodesAre
<1>5. ranges \in C!Reported(at) \cup {<<[min |-> 1, max |-> at]>>}
  BY <1>3
<1> DEFINE status == C!NormalizeServerInfo([networkId |-> net, validated |-> at, ranges |-> ranges])
           held == UNION {ranges[k].min .. ranges[k].max : k \in DOMAIN ranges}
<1>6. HistoryOK(status, held)
  BY <1>4, <1>5, ReportedIsHeld
<1>7. stages' = [stages EXCEPT ![p] =
                   [C!Idle EXCEPT !.pc = "read", !.stage = stage, !.activation = a,
                                  !.status = status, !.held = held]]
  BY <1>3
<1> HIDE DEF status, held
<1>8. stages \in [Operators -> StageRecords]
  BY DEF CeremonyInv
<1>9. stages'[p].status = status /\ stages'[p].held = held
  BY <1>7, <1>8 DEF C!Idle
<1> QED BY <1>6, <1>9 DEF KnowsOK

\* A stage keeps what it knows of its server until it ends.
Keeps(p) ==
    \/ stages'[p].status = C!NoStatus
    \/ stages'[p].status = stages[p].status /\ stages'[p].held = stages[p].held

LEMMA StagesKnow ==
    ASSUME CeremonyInv, [C!Next]_(C!vars), NEW p \in Operators
    PROVE  Keeps(p) \/ C!StartStage(p)
<1>1. stages \in [Operators -> StageRecords] /\ stages[p] \in StageRecords
  BY DEF CeremonyInv
<1>2. C!Idle.status = C!NoStatus
  BY DEF C!Idle
<1>3. ASSUME NEW q \in Operators, C!End(q) PROVE Keeps(p)
  BY <1>1, <1>2, <1>3 DEF C!End, Keeps
<1>4. ASSUME NEW q \in Operators, NEW pc, C!Goto(q, pc) PROVE Keeps(p)
  BY <1>1, <1>4 DEF C!Goto, Keeps, StageRecords
<1>5. CASE UNCHANGED stages
  BY SMTT(30), <1>5 DEF Keeps
<1>6. CASE C!Close
  <2>1. ASSUME NEW tx \in pool, NEW ok \in BOOLEAN,
               ok <=> tx.network = 1 /\ C!Accepted(ledgers[C!tip], tx.kind),
               ledgers' = Append(ledgers, IF ok THEN C!Apply(ledgers[C!tip], tx.kind) ELSE ledgers[C!tip]),
               pool' = pool \ {tx},
               stages' = [q \in Operators |->
                   IF q # tx.by THEN stages[q]
                   ELSE IF ok THEN [stages[q] EXCEPT !.pc = "validated", !.boundary = C!tip + 2]
                   ELSE C!Idle],
               lastOwn' = IF ok /\ tx.by = "owner" THEN C!tip + 1 ELSE lastOwn
        PROVE  Keeps(p)
    <3>1. CASE p # tx.by
      BY <2>1, <3>1 DEF Keeps
    <3>2. CASE p = tx.by /\ ok
      <4>1. stages'[p] = [stages[p] EXCEPT !.pc = "validated", !.boundary = C!tip + 2]
        BY <2>1, <3>2
      <4> QED BY <1>1, <4>1 DEF Keeps, StageRecords
    <3>3. CASE p = tx.by /\ ~ok
      <4>1. stages'[p] = C!Idle
        BY <2>1, <3>3
      <4> QED BY <1>2, <4>1 DEF Keeps
    <3> QED BY <3>1, <3>2, <3>3
  <2>2. CASE ledgers' = Append(ledgers, ledgers[C!tip]) /\ UNCHANGED <<pool, stages, lastOwn>>
    BY <1>5, <2>2
  <2> QED BY ZenonT(40), <1>6, <2>1, <2>2 DEF C!Close
<1>7. CASE C!Own \/ C!Expire \/ UNCHANGED C!vars
  BY <1>5, <1>7 DEF C!Own, C!Expire, C!vars
<1>8. ASSUME NEW q \in Operators, C!Step(q) PROVE Keeps(p) \/ C!StartStage(p)
  <2>1. CASE C!StartStage(q)
    <3>1. q # p => stages'[p] = stages[p]
      BY <1>1, <2>1 DEF C!StartStage, C!Connect
    <3> QED BY <2>1, <3>1 DEF Keeps
  <2>2. CASE C!ReadAccount(q)
    <3>1. \/ C!End(q)
          \/ stages' = [stages EXCEPT ![q] = [C!Idle EXCEPT !.result = "CEREMONY_MASTER_KEY_ALREADY_DISABLED"]]
          \/ \E at \in C!Nodes : stages' = [stages EXCEPT ![q].pc = "submit", ![q].readAt = at]
      BY <2>2 DEF C!ReadAccount
    <3>2. [C!Idle EXCEPT !.result = "CEREMONY_MASTER_KEY_ALREADY_DISABLED"].status = C!NoStatus
      BY DEF C!Idle
    <3>3. ASSUME stages' = [stages EXCEPT ![q] = [C!Idle EXCEPT !.result = "CEREMONY_MASTER_KEY_ALREADY_DISABLED"]]
          PROVE  Keeps(p)
      BY <1>1, <3>2, <3>3 DEF Keeps
    <3>4. ASSUME NEW at \in C!Nodes, stages' = [stages EXCEPT ![q].pc = "submit", ![q].readAt = at]
          PROVE  Keeps(p)
      BY <1>1, <3>4 DEF Keeps, StageRecords
    <3> QED BY <1>3, <3>1, <3>3, <3>4
  <2>3. CASE C!Validated(q)
    <3>1. C!End(q) \/ stages' = [stages EXCEPT ![q].pc = "idle", ![q].result = "boundary"]
      BY <2>3 DEF C!Validated
    <3>2. ASSUME stages' = [stages EXCEPT ![q].pc = "idle", ![q].result = "boundary"] PROVE Keeps(p)
      BY <1>1, <3>2 DEF Keeps, StageRecords
    <3> QED BY <1>3, <3>1, <3>2
  <2>4. CASE C!Submit(q) \/ C!AssertRegistry(q) \/ C!ProfileFileAbsent(q) \/ C!WriteProfile(q)
             \/ C!FinalGate(q) \/ C!Abort(q)
    BY <1>3, <1>4, <2>4 DEF C!Submit, C!AssertRegistry, C!ProfileFileAbsent, C!WriteProfile, C!FinalGate, C!Abort
  <2> QED BY <1>8, <2>1, <2>2, <2>3, <2>4 DEF C!Step
<1> QED BY <1>6, <1>7, <1>8 DEF C!Next

\* What every stage knows of its server is true of it.
LEMMA HistoryInvariant ==
    ASSUME OperatorsAssumption
    PROVE  C!Spec => []HistoryInv
<1>1. C!Init => HistoryInv
  <2>1. C!Idle.status = C!NoStatus
    BY DEF C!Idle
  <2> QED BY <2>1, CeremonyInit DEF C!Init, HistoryInv, KnowsOK
<1>2. HistoryInv /\ [C!Next]_(C!vars) => HistoryInv'
  <2> SUFFICES ASSUME HistoryInv, [C!Next]_(C!vars) PROVE HistoryInv'
    OBVIOUS
  <2>1. CeremonyInv /\ CeremonyInv'
    BY CeremonyNext DEF HistoryInv
  <2>2. ASSUME NEW p \in Operators PROVE KnowsOK(stages'[p])
    <3>1. CASE C!StartStage(p)
      BY <2>1, <3>1, StartKnows
    <3>2. CASE Keeps(p)
      <4>1. KnowsOK(stages[p])
        BY DEF HistoryInv
      <4> QED BY <3>2, <4>1 DEF Keeps, KnowsOK
    <3> QED BY <2>1, <3>1, <3>2, StagesKnow
  <2>3. \A p \in Operators : KnowsOK(stages[p])'
    BY <2>2 DEF KnowsOK, HistoryOK
  <2> QED BY <2>1, <2>3 DEF HistoryInv
<1> QED BY <1>1, <1>2, PTL DEF C!Spec

\* The check of a server's history agrees with the ledgers that the server reports, one by
\* one, in whatever order it writes the ranges and however they touch or overlap, for every
\* activation ledger (parseCompleteLedgers, assertSourceCoversProfile).
THEOREM CoverageIsExact ==
    ASSUME OperatorsAssumption
    PROVE  C!Spec => []C!CoversExactly
<1>1. HistoryInv => C!CoversExactly
  <2> SUFFICES ASSUME HistoryInv, NEW p \in Operators, stages[p].status # C!NoStatus, NEW a \in 1 .. C!tip
               PROVE  C!AssertSourceCoversProfile(stages[p].status, stages[p].status.networkId, a)
                      <=> a <= stages[p].status.validated /\ a .. stages[p].status.validated \subseteq stages[p].held
    BY DEF C!CoversExactly
  <2> DEFINE status == stages[p].status
             held == stages[p].held
  <2>1. HistoryOK(status, held)
    BY DEF HistoryInv, KnowsOK
  <2>2. a \in Nat \ {0}
    BY DEF HistoryInv, CeremonyInv, LedgersOK, C!tip
  <2> HIDE DEF status, held
  <2>3. PICK at \in Nat \ {0}, lo \in Nat \ {0} :
          /\ status.validated = at /\ lo <= at
          /\ \A b \in Nat \ {0} :
               (\E k \in DOMAIN status.ranges : status.ranges[k].min <= b /\ status.ranges[k].max >= at) <=> lo <= b
          /\ lo .. at \subseteq held /\ (lo > 1 => lo - 1 \notin held)
    BY <2>1 DEF HistoryOK
  <2>4. C!AssertSourceCoversProfile(status, status.networkId, a) <=> at >= a /\ lo <= a
    BY <2>2, <2>3 DEF C!AssertSourceCoversProfile
  <2>5. a <= at => (a .. at \subseteq held <=> lo <= a)
    <3>1. CASE lo <= a
      BY <2>2, <2>3, <3>1
    <3>2. CASE a < lo
      <4>1. lo - 1 \notin held /\ (a <= at => lo - 1 \in a .. at)
        BY <2>2, <2>3, <3>2
      <4> QED BY <2>2, <3>2, <4>1
    <3> QED BY <2>2, <3>1, <3>2
  <2>6. C!AssertSourceCoversProfile(status, status.networkId, a)
        <=> a <= status.validated /\ a .. status.validated \subseteq held
    BY <2>2, <2>3, <2>4, <2>5
  <2> QED BY <2>6 DEF status, held
<1> QED BY <1>1, HistoryInvariant, PTL

\* A published profile file is never replaced, also when two emit-profile stages run at the
\* same time (runEmitProfile writes with the flag wx).
THEOREM PublishedStays == C!Spec => C!PublishedOnce
<1>1. [C!Next]_(C!vars) => [profileFile # C!NoFile => profileFile' = profileFile]_profileFile
  <2> SUFFICES ASSUME C!Next, profileFile # C!NoFile PROVE profileFile' = profileFile
    BY SMTT(30) DEF C!vars
  <2>1. ASSUME NEW p \in Operators, C!Step(p) PROVE profileFile' = profileFile
    BY SMTT(30), <2>1 DEF C!Step, C!StartStage, C!ReadAccount, C!Submit, C!Validated, C!AssertRegistry, C!ProfileFileAbsent,
       C!WriteProfile, C!FinalGate, C!Abort
  <2>2. C!Close => profileFile' = profileFile
    BY DEF C!Close
  <2>3. C!Own \/ C!Expire => profileFile' = profileFile
    BY DEF C!Own, C!Expire
  <2> QED BY <2>1, <2>2, <2>3 DEF C!Next
<1> QED BY <1>1, PTL DEF C!Spec, C!PublishedOnce

-----------------------------------------------------------------------------
(* The three tools.  A step of one leaves the others as they are, so that  *)
(* what is known of each alone holds of the three.                         *)

\* A behaviour of the tools is one of the command line.
LEMMA CliPart == ToolsSpec => Spec
<1>1. ToolsInit => Init
  BY DEF ToolsInit
<1>2. [ToolsNext /\ UNCHANGED part]_allVars => [Next]_vars
  BY DEF ToolsNext, allVars
<1> QED BY <1>1, <1>2, PTL DEF ToolsSpec, Spec

\* A behaviour of the tools is one of the captures and of the replay.
LEMMA FixturePart == ToolsSpec => F!Spec
<1>1. ToolsInit => F!Init
  BY DEF ToolsInit
<1>2. [ToolsNext /\ UNCHANGED part]_allVars => [F!Next]_(F!vars)
  <2>1. fixtureVars' = fixtureVars => UNCHANGED F!vars
    BY DEF fixtureVars, F!vars
  <2> QED BY <2>1 DEF ToolsNext, allVars
<1> QED BY <1>1, <1>2, PTL DEF ToolsSpec, F!Spec

\* A behaviour of the tools is one of the ceremony.
LEMMA CeremonyPart == ToolsSpec => C!Spec
<1>1. ToolsInit => C!Init
  BY DEF ToolsInit
<1>2. [ToolsNext /\ UNCHANGED part]_allVars => [C!Next]_(C!vars)
  <2>1. ceremonyVars' = ceremonyVars => UNCHANGED C!vars
    BY DEF ceremonyVars, C!vars
  <2> QED BY <2>1 DEF ToolsNext, allVars
<1> QED BY <1>1, <1>2, PTL DEF ToolsSpec, C!Spec

\* A published bundle stays whole, and a replay projects the chain of it, stops before its
\* first write when it was damaged, and is served when it was not (publishBundleNoClobber,
\* prepareFixtureReplay).
THEOREM BundlesAreGenuine == ToolsSpec => []BundlesGenuine
<1>1. FixtureAssumption
  BY ToolsConstants
<1>2. F!Spec => []F!TypeOK
  BY <1>1, FixtureTyped
<1>3. F!Spec => [](F!PublishedIntact /\ F!ManifestCompletes)
  BY <1>1, BundlesStayWhole
<1>4. F!Spec => []F!ReplayedGenuine
  BY <1>1, ReplaysAreGenuine
<1>5. F!Spec => []F!NoPartialReplay
  BY <1>1, ReplaysAreWhole
<1>6. F!Spec => []F!ReplayServed
  BY <1>1, ReplaysAreServed
<1>7. F!TypeOK /\ (F!PublishedIntact /\ F!ManifestCompletes) /\ F!ReplayedGenuine /\ F!NoPartialReplay
      /\ F!ReplayServed => BundlesGenuine
  BY DEF BundlesGenuine
<1> QED BY <1>2, <1>3, <1>4, <1>5, <1>6, <1>7, FixturePart, PTL

\* What the ceremony verifies or publishes is sealed for ever, no account is stranded, no
\* other network is written to, and a server's history is judged exactly.
THEOREM RegistryIsSealed == ToolsSpec => []RegistrySealed
<1>1. OperatorsAssumption
  BY ToolsConstants
<1>2. C!Spec => []C!TypeOK
  BY <1>1, CeremonyTyped
<1>3. C!Spec => []C!PublishedSealed
  BY <1>1, PublishedIsSealed
<1>4. C!Spec => []C!NotStranded
  BY <1>1, NobodyIsStranded
<1>5. C!Spec => []C!OnlyTestnet
  BY <1>1, TestnetOnly
<1>6. C!Spec => []C!CoversExactly
  BY <1>1, CoverageIsExact
<1>7. C!TypeOK /\ C!PublishedSealed /\ C!NotStranded /\ C!OnlyTestnet /\ C!CoversExactly => RegistrySealed
  BY DEF RegistrySealed
<1> QED BY <1>2, <1>3, <1>4, <1>5, <1>6, <1>7, CeremonyPart, PTL

\* A verdict that the command line has printed and a profile that the ceremony has published
\* stay what they were (getTransactionStatus, runEmitProfile).
THEOREM ReportsAreFinal == ToolsSpec => ReportsFinal
<1>1. ToolsSpec => VerdictNotRetracted
  BY CliPart, VerdictsStand
<1>2. ToolsSpec => C!PublishedOnce
  BY CeremonyPart, PublishedStays
<1> QED BY <1>1, <1>2 DEF ReportsFinal

\* The exit codes and journals of the command line are true of the ledger, with the other
\* tools beside it.
THEOREM ToolsAreTruthful == ToolsSpec => []CliTruthful
BY CliPart, CliIsTruthful
=============================================================================
