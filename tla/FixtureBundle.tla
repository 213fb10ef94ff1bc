---------------------------- MODULE FixtureBundle ----------------------------
(***************************************************************************)
(* Fixture bundles: the capture of a range of ledgers into a directory,    *)
(* its publication, and a replay that reads it back.                       *)
(*                                                                         *)
(* Several captures may be started for one output directory. A capture     *)
(* collects its files in a temporary directory of its own, validates them, *)
(* creates the output directory and links the files into it one by one,    *)
(* the manifest last; if a step fails it unlinks what it has linked. It    *)
(* may be killed at any point. A replay reads the directory step by step,  *)
(* and a fault of the storage may change the directory at any time.        *)
(*                                                                         *)
(* A digest stands for what it is the digest of. A ledger has an index and *)
(* names its own branch and its parent's; branch 0 is the one the profile  *)
(* activates. Compression is kept only as far as one content has several   *)
(* compressed forms.                                                       *)
(***************************************************************************)
EXTENDS Integers, Sequences, SequencesExt, FiniteSets

CONSTANTS
    Captures,    \* capture processes
    From,        \* activationLedgerIndex
    Tip,         \* effective tip of the sources
    PerChunk,    \* LEDGER_FIXTURE_INDEX_ENTRIES_PER_CHUNK
    MaxFaults    \* bound on faults of the storage

VARIABLES
    out,      \* the output directory: its entries with their contents
    exists,   \* the output directory exists
    cap,      \* the capture processes
    reader,   \* a replay
    printed,  \* the manifests whose digest a capture has printed
    faults    \* faults that have happened

vars == <<out, exists, cap, reader, printed, faults>>

NoFiles == << >>
Ledger(i, branch, parent) == [index |-> i, branch |-> branch, parent |-> parent]
Genuine(i) == Ledger(i, 0, 0)

\* Entries of the directory.
Indexes == [kind |-> "dir", key |-> 1]
Ledgers == [kind |-> "dir", key |-> 2]
ManifestFile == [kind |-> "manifest", key |-> 0]
LedgerFile(i) == [kind |-> "ledger", key |-> i]
IndexChunkFile(chunk) == [kind |-> "index", key |-> <<chunk.from, chunk.to>>]
Stray == [kind |-> "stray", key |-> 0]

With(files, f, content) == [x \in DOMAIN files \cup {f} |-> IF x = f THEN content ELSE files[x]]
Without(files, f) == [x \in DOMAIN files \ {f} |-> files[x]]
OfKind(files, k) == {f \in DOMAIN files : f.kind = k}

-----------------------------------------------------------------------------
(* Writing and reading a bundle.                                           *)

\* writeLedger: the file, and its entry in the index
Packed(l) == [ledger |-> l, packing |-> 0]
Entry(l) == [ledger |-> l, content |-> l, compressed |-> Packed(l)]

\* writeIndexChunk
Chunk(entries) == [from |-> entries[1].ledger.index, to |-> entries[Len(entries)].ledger.index, digest |-> entries]

\* assertLedgerContinuity
Continuous(previous, l) ==
    IF previous = <<>> THEN l.index = From /\ l.branch = 0
    ELSE l.index = previous[1].index + 1 /\ l.parent = previous[1].branch

\* assertBundleRootShape
AssertBundleRootShape(files) ==
    {Indexes, Ledgers, ManifestFile} \subseteq DOMAIN files /\ Stray \notin DOMAIN files

\* assertExactLedgerInventory
AssertExactLedgerInventory(files, manifest) ==
    /\ \A f \in OfKind(files, "ledger") : f.key \in manifest.from .. manifest.to
    /\ Cardinality(OfKind(files, "ledger")) = manifest.to - manifest.from + 1
    /\ OfKind(files, "index") = {IndexChunkFile(manifest.chunks[k]) : k \in DOMAIN manifest.chunks}

\* parseIndexChunk
ParseIndexChunk(chunk) == chunk.from # 0 /\ chunk.to >= chunk.from /\ chunk.to - chunk.from < PerChunk

\* parseManifest: chunks aligned, contiguous and covering the range; the range from
\* activation to no later than the tip
ParseManifest(manifest) ==
    /\ manifest.from = From /\ manifest.to >= manifest.from
    /\ manifest.chunks # <<>>
    /\ \A k \in DOMAIN manifest.chunks : ParseIndexChunk(manifest.chunks[k])
    /\ \A k \in DOMAIN manifest.chunks :
          LET first == IF k = 1 THEN manifest.from ELSE manifest.chunks[k - 1].to + 1
              last == first + PerChunk - 1
          IN /\ manifest.chunks[k].from = first
             /\ manifest.chunks[k].to = IF last < manifest.to THEN last ELSE manifest.to
    /\ manifest.chunks[Len(manifest.chunks)].to = manifest.to
    /\ manifest.tip >= manifest.to

\* inspectLedgerFixtureBundle; pin is empty, or the manifest with the expected digest
Inspect(files, pin) ==
    /\ AssertBundleRootShape(files)
    /\ ParseManifest(files[ManifestFile])
    /\ pin = <<>> \/ files[ManifestFile] = pin[1]
    /\ AssertExactLedgerInventory(files, files[ManifestFile])

\* readFileBounded: a regular file that does not change while it is read
ReadFileBounded(files, f) == f \in DOMAIN files

\* readIndexChunk, with no entries for a chunk it refuses
ReadIndexChunk(files, chunk) ==
    IF /\ ReadFileBounded(files, IndexChunkFile(chunk))
       /\ LET entries == files[IndexChunkFile(chunk)] IN
          /\ entries = chunk.digest
          /\ Len(entries) = chunk.to - chunk.from + 1
          /\ \A k \in DOMAIN entries : entries[k].ledger.index = chunk.from + k - 1
    THEN files[IndexChunkFile(chunk)] ELSE <<>>

\* readLedger, true if it returns the ledger of the entry
ReadLedger(files, entry) ==
    /\ ReadFileBounded(files, LedgerFile(entry.ledger.index))
    /\ LET file == files[LedgerFile(entry.ledger.index)] IN
       /\ file = entry.compressed
       /\ file.ledger = entry.content
       /\ file.ledger = entry.ledger

\* validateLedgerFixtureBundle, at one instant
Validate(files, pin) ==
    /\ Inspect(files, pin)
    /\ LET manifest == files[ManifestFile]
           entries == FlattenSeq([k \in DOMAIN manifest.chunks |-> ReadIndexChunk(files, manifest.chunks[k])])
       IN /\ Len(entries) = manifest.to - manifest.from + 1
          /\ \A k \in DOMAIN entries :
                /\ ReadLedger(files, entries[k])
                /\ Continuous(IF k = 1 THEN <<>> ELSE <<entries[k - 1].ledger>>, entries[k].ledger)

-----------------------------------------------------------------------------
(* A capture.                                                              *)

Unstarted == [pc |-> "unstarted", to |-> 0, tmp |-> NoFiles, previous |-> <<>>, pending |-> <<>>,
              chunks |-> <<>>, created |-> FALSE, linked |-> 0]

\* The order of publication.
Plan(manifest) ==
    <<Indexes, Ledgers>>
    \o [k \in DOMAIN manifest.chunks |-> IndexChunkFile(manifest.chunks[k])]
    \o [k \in 1 .. manifest.to - manifest.from + 1 |-> LedgerFile(manifest.from + k - 1)]
    \o <<ManifestFile>>

Manifest(c) == [by |-> c, from |-> From, to |-> cap[c].to, tip |-> Tip, chunks |-> cap[c].chunks]

Elsewhere == UNCHANGED <<reader, faults>>

\* captureLedgerFixtureBundle up to the first ledger. A target beyond the tip, and an
\* output that exists, are refused.
Begin(c) ==
    /\ cap[c].pc = "unstarted"
    /\ ~exists
    /\ \E to \in From .. Tip : cap' = [cap EXCEPT ![c].pc = "capture", ![c].to = to,
                                         ![c].tmp = With(With(NoFiles, Ledgers, 0), Indexes, 0)]
    /\ UNCHANGED <<out, exists, printed>> /\ Elsewhere

\* Whether the entries that are pending make a chunk.
Full(pending, last) == Len(pending) = PerChunk \/ last

\* One ledger: continuity, its file, its entry, and the chunk it completes. The source
\* may answer with a ledger of another branch.
CaptureLedger(c) ==
    LET s == cap[c]
        i == From + Cardinality(OfKind(s.tmp, "ledger"))
    IN /\ s.pc = "capture" /\ i <= s.to
       /\ \E l \in {Genuine(i), Ledger(i, 1, 1)} :
             LET pending == Append(s.pending, Entry(l))
                 full == Full(pending, i = s.to)
                 tmp == With(s.tmp, LedgerFile(i), Packed(l))
             IN cap' = [cap EXCEPT ![c] =
                   IF ~Continuous(s.previous, l) THEN [Unstarted EXCEPT !.pc = "failed"]
                   ELSE [s EXCEPT !.previous = <<l>>,
                                  !.pending = IF full THEN <<>> ELSE pending,
                                  !.chunks = IF full THEN Append(@, Chunk(pending)) ELSE @,
                                  !.tmp = IF full THEN With(tmp, IndexChunkFile(Chunk(pending)), pending) ELSE tmp]]
       /\ UNCHANGED <<out, exists, printed>> /\ Elsewhere

\* The manifest, and the validation of the temporary directory.
WriteManifest(c) ==
    /\ cap[c].pc = "capture"
    /\ Cardinality(OfKind(cap[c].tmp, "ledger")) = cap[c].to - From + 1
    /\ LET tmp == With(cap[c].tmp, ManifestFile, Manifest(c))
       IN cap' = [cap EXCEPT ![c] = IF Validate(tmp, <<>>) THEN [@ EXCEPT !.pc = "mkdir", !.tmp = tmp]
                                    ELSE [Unstarted EXCEPT !.pc = "failed"]]
    /\ UNCHANGED <<out, exists, printed>> /\ Elsewhere

\* publishBundleNoClobber: mkdir of the output directory
CreateOutput(c) ==
    /\ cap[c].pc = "mkdir"
    /\ exists' = TRUE
    /\ cap' = [cap EXCEPT ![c].pc = IF exists THEN "rollback" ELSE "link", ![c].created = ~exists]
    /\ UNCHANGED <<out, printed>> /\ Elsewhere

\* The next mkdir or link; it fails if the entry exists.
Link(c) ==
    LET plan == Plan(Manifest(c))
        next == plan[cap[c].linked + 1]
    IN /\ cap[c].pc = "link" /\ cap[c].linked < Len(plan)
       /\ IF next \in DOMAIN out \/ ~exists
          THEN cap' = [cap EXCEPT ![c].pc = "rollback"] /\ UNCHANGED out
          ELSE /\ out' = With(out, next, cap[c].tmp[next])
               /\ cap' = [cap EXCEPT ![c].linked = @ + 1]
       /\ UNCHANGED <<exists, printed>> /\ Elsewhere

\* A link, or one of the chmods after the last, fails.
LinkFails(c) ==
    /\ cap[c].pc = "link"
    /\ cap' = [cap EXCEPT ![c].pc = "rollback"]
    /\ UNCHANGED <<out, exists, printed>> /\ Elsewhere

\* Mutant: the rollback removes the files of the bundle, linked or not.
RollbackEverything(c) ==
    /\ cap[c].pc = "rollback"
    /\ out' = [f \in DOMAIN out \ ToSet(Plan(Manifest(c))) |-> out[f]]
    /\ exists' = (DOMAIN out' # {})
    /\ cap' = [cap EXCEPT ![c] = [Unstarted EXCEPT !.pc = "failed"]]
    /\ UNCHANGED printed /\ Elsewhere

\* The rollback unlinks one entry, from the last linked, and at the end
\* the directory, if this capture has created it; what is not empty stays.
Rollback(c) ==
    /\ cap[c].pc = "rollback"
    /\ IF cap[c].linked > 0
       THEN /\ out' = Without(out, Plan(Manifest(c))[cap[c].linked])
            /\ cap' = [cap EXCEPT ![c].linked = @ - 1]
            /\ UNCHANGED exists
       ELSE /\ exists' = (exists /\ (cap[c].created => DOMAIN out # {}))
            /\ cap' = [cap EXCEPT ![c] = [Unstarted EXCEPT !.pc = "failed"]]
            /\ UNCHANGED out
    /\ UNCHANGED printed /\ Elsewhere

\* The capture returns, and the digest of the manifest is printed.
Finish(c) ==
    /\ cap[c].pc = "link" /\ cap[c].linked = Len(Plan(Manifest(c)))
    /\ printed' = printed \cup {Manifest(c)}
    /\ cap' = [cap EXCEPT ![c].pc = "done", ![c].tmp = NoFiles]
    /\ UNCHANGED <<out, exists>> /\ Elsewhere

\* The process is killed.
Kill(c) ==
    /\ cap[c].pc \in {"capture", "mkdir", "link", "rollback"}
    /\ cap' = [cap EXCEPT ![c] = [Unstarted EXCEPT !.pc = "killed"]]
    /\ UNCHANGED <<out, exists, printed>> /\ Elsewhere

-----------------------------------------------------------------------------
(* The storage.                                                            *)

\* A bundle of another branch, consistent in itself.
Forged(manifest) ==
    LET ledger(i) == IF i = From THEN Genuine(i) ELSE Ledger(i, 1, IF i = From + 1 THEN 0 ELSE 1)
        chunks == [k \in DOMAIN manifest.chunks |->
                     LET chunk == manifest.chunks[k]
                     IN Chunk([j \in 1 .. chunk.to - chunk.from + 1 |-> Entry(ledger(chunk.from + j - 1))])]
        forged == [manifest EXCEPT !.chunks = chunks]
        content(f) == CASE f.kind = "ledger" -> Packed(ledger(f.key))
                        [] f.kind = "index" -> chunks[CHOOSE k \in DOMAIN chunks : IndexChunkFile(chunks[k]) = f].digest
                        [] f.kind = "manifest" -> forged
                        [] OTHER -> 0
    IN [f \in ToSet(Plan(forged)) |-> content(f)]

Fault ==
    /\ faults < MaxFaults /\ printed # {}
    /\ faults' = faults + 1
    /\ \/ \E f \in DOMAIN out : out' = Without(out, f)
       \/ \E f \in {Stray, LedgerFile(Tip + 1)} \ DOMAIN out : out' = With(out, f, 0)
       \/ \E f \in OfKind(out, "ledger") :
             \E file \in {[ledger |-> Ledger(f.key, 1, 0), packing |-> 0], [ledger |-> Genuine(f.key), packing |-> 1]} :
                out' = With(out, f, file)
       \/ \E f \in OfKind(out, "index") :
             out' = With(out, f, [out[f] EXCEPT ![1] = Entry(Ledger(@.ledger.index, 1, 0))])
       \/ \E m \in printed : out' = Forged(m)
    /\ UNCHANGED <<exists, cap, reader, printed>>

-----------------------------------------------------------------------------
(* A replay of a bundle, with the digest an operator has recorded.         *)

NoReader == [pc |-> "none"]
Fail == [reader EXCEPT !.pc = "failed"]
Reading == UNCHANGED <<out, exists, cap, printed, faults>>

\* prepareFixtureReplay begins with a complete validation.
StartReplay ==
    /\ reader = NoReader
    /\ \E m \in printed :
          reader' = [pc |-> "inspect", pin |-> m, manifest |-> m, at |-> From, chunk |-> 0, entries |-> <<>>,
                     previous |-> <<>>, written |-> <<>>, before |-> faults]
    /\ Reading

\* validateLedgerFixtureBundle: inspectLedgerFixtureBundle
InspectBundle ==
    /\ reader.pc = "inspect"
    /\ reader' = IF Inspect(out, <<reader.pin>>) THEN [reader EXCEPT !.pc = "check", !.manifest = out[ManifestFile]] ELSE Fail
    /\ Reading

\* The position of the chunk of a ledger, counted from 1.
ChunkPosition(manifest, i) == ((i - manifest.from) \div PerChunk) + 1

\* The source's manifest is the one that open has read.
\* LedgerFixtureBundleSource.getLedger, with its cached chunk; also how the validation
\* walks through the chunks. The reader after it, or Fail.
GetLedger(i) ==
    LET position == ChunkPosition(reader.manifest, i)
        chunk == reader.manifest.chunks[position]
        entries == IF reader.chunk = position THEN reader.entries ELSE ReadIndexChunk(out, chunk)
        entry == entries[i - chunk.from + 1]
    IN IF \/ position \notin DOMAIN reader.manifest.chunks
          \/ i \notin chunk.from .. chunk.to
          \/ i - chunk.from + 1 \notin DOMAIN entries
          \/ ~ReadLedger(out, entry)
       THEN Fail
       ELSE [reader EXCEPT !.chunk = position, !.entries = entries, !.previous = <<entry.ledger>>]

\* One ledger of the validation.
CheckLedger ==
    /\ reader.pc = "check"
    /\ LET next == GetLedger(reader.at) IN
       reader' = IF next.pc = "failed" \/ ~Continuous(reader.previous, next.previous[1]) THEN Fail
                 ELSE IF reader.at = reader.manifest.to THEN [next EXCEPT !.pc = "open"]
                 ELSE [next EXCEPT !.at = @ + 1]
    /\ Reading

\* LedgerFixtureBundleSource.open, a new object without a cached chunk
Open ==
    /\ reader.pc = "open"
    /\ reader' = IF Inspect(out, <<reader.pin>>)
                 THEN [reader EXCEPT !.pc = "target", !.manifest = out[ManifestFile], !.at = From, !.chunk = 0, !.entries = <<>>]
                 ELSE Fail
    /\ Reading

\* The boundary: the last ledger is the target of the replay.
ReadTarget ==
    /\ reader.pc = "target"
    /\ LET next == GetLedger(reader.manifest.to)
       IN reader' = IF next.pc = "failed" THEN Fail ELSE [next EXCEPT !.pc = "preflight"]
    /\ Reading

\* LedgerFixtureBundleSource.preflight reads the activation ledger.
Preflight ==
    /\ reader.pc = "preflight"
    /\ LET next == GetLedger(From)
       IN reader' = IF next.pc = "failed" THEN Fail ELSE [next EXCEPT !.pc = "replay", !.previous = <<>>]
    /\ Reading

\* The worker projects one ledger of the source.
ReplayLedger ==
    /\ reader.pc = "replay"
    /\ LET next == GetLedger(reader.at) IN
       reader' = IF next.pc = "failed" \/ ~Continuous(reader.previous, next.previous[1]) THEN Fail
                 ELSE [next EXCEPT !.written = Append(@, next.previous[1]), !.at = @ + 1,
                                   !.pc = IF reader.at = reader.manifest.to THEN "done" ELSE @]
    /\ Reading

-----------------------------------------------------------------------------
Init ==
    /\ out = NoFiles /\ exists = FALSE
    /\ cap = [c \in Captures |-> Unstarted]
    /\ reader = NoReader /\ printed = {} /\ faults = 0

Next ==
    \/ \E c \in Captures : \/ Begin(c) \/ CaptureLedger(c) \/ WriteManifest(c) \/ CreateOutput(c)
                           \/ Link(c) \/ LinkFails(c) \/ Rollback(c) \/ Finish(c) \/ Kill(c)
    \/ Fault
    \/ StartReplay
    \/ InspectBundle \/ CheckLedger \/ Open \/ ReadTarget \/ Preflight \/ ReplayLedger

Spec == Init /\ [][Next]_vars

-----------------------------------------------------------------------------
(* Properties.                                                             *)

\* Type invariant of captures and of the replay.
TypeOK ==
    /\ exists \in BOOLEAN /\ faults \in 0 .. MaxFaults
    /\ \A c \in Captures :
          /\ cap[c].pc \in {"unstarted", "capture", "mkdir", "link", "rollback", "done", "failed", "killed"}
          /\ Len(cap[c].pending) < PerChunk
          /\ cap[c].pc \in {"mkdir", "link", "rollback", "done"} => cap[c].pending = <<>>
    /\ reader # NoReader => reader.at \in From .. Tip + 1 /\ reader.chunk \in 0 .. Len(reader.manifest.chunks)

\* Whatever other captures do with the same output directory, their rollbacks included,
\* the directory of a capture that has returned holds exactly its bundle, as long as the
\* storage does not fail (publishBundleNoClobber).
PublishedIntact ==
    faults = 0 => \A m \in printed : DOMAIN out = ToSet(Plan(m)) /\ out[ManifestFile] = m /\ Validate(out, <<m>>)

\* A directory with a manifest is a complete and valid bundle, at every step of a
\* publication or a rollback and after a kill: the manifest is the completion marker
\* (publishBundleNoClobber).
ManifestCompletes == faults = 0 /\ ManifestFile \in DOMAIN out => Validate(out, <<>>)

\* A replay projects only the ledgers of the chain, in order from activation, whatever
\* happens to the directory before or during it (readIndexChunk, readLedger, the digest).
ReplayedGenuine ==
    reader # NoReader => \A k \in DOMAIN reader.written : reader.written[k] = Genuine(From + k - 1)

\* A replay that stops after its first ledger was projected has met a fault that happened
\* after it began: damage that was there before never leaves a partial projection
\* (prepareFixtureReplay).
NoPartialReplay ==
    reader # NoReader /\ reader.pc = "failed" /\ reader.written # <<>> => faults > reader.before

\* Without a fault no step of a replay refuses the bundle, whatever its length in relation
\* to the size of a chunk.
ReplayServed == reader # NoReader /\ reader.pc = "failed" => faults > 0

=============================================================================
