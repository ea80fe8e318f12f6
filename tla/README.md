# A TLA+ verification of EvidenTrail

EvidenTrail collects logs from local files and connected providers, keeps them
encrypted on one machine, and answers questions about them from a command line
and from an MCP server. This directory holds TLA+ modules that model the parts
of the program that keep state, the TLC configurations that check them on small
instances, and TLAPS proofs for every instance. `PROJECT.json` maps every
definition to the source lines it translates.

To repeat the checks: `tlc -config X.cfg M` for the pairs in the table of runs
below, `tlapm M.tla` for the modules whose name ends in `Proofs` and for
`DurableRepositorySteps`.

## The system and its modules

| Part of the program | Source | Module |
|---|---|---|
| What a history sync promises | `full_history.rs` (contract) | `HistoryReplica` |
| History synchronization | `full_history.rs`, `connected_cli.rs`, corpus rows | `HistorySync`, `HistorySyncLive` |
| Source catalog, connect, disconnect, query | `connected_cli.rs`, `mcp.rs` | `ConnectedCatalog` |
| Datadog credential rotation | `connected_cli.rs` | `DatadogRotation` |
| Corpus tables and their migration | `evidentrail-corpus` | `CorpusIndex` |
| Feedback policy and learning routes | `evidentrail-corpus` | `CorpusLearning` (extends `CorpusIndex`) |
| Durable result repository (V2) and Keychain authority | `durable_repository_v2.rs`, `macos_keychain_authority_v2.rs`, `lifecycle.rs` | `DurableRepository` |
| Packed result repository (V3), same authority | `durable_packed_v3.rs` | `PackedRepository` |
| Acquisition of a local file | `evidentrail-local-file` | `LocalAcquisition` |
| Event ledger builder | `evidentrail-core/ledger.rs` | `EventLedger` (used by `LocalAcquisition`) |

How they meet. A watcher process copies each connected source into its corpus
(`HistorySync`), under the catalog lock that every command takes
(`ConnectedCatalog`); a rotation of Datadog credentials is one long command under
that lock (`DatadogRotation`). Opening a corpus brings its derived tables up to
date (`CorpusIndex`); ratings and labels then change what a search prefers
(`CorpusLearning`). A local file is streamed into an event ledger
(`LocalAcquisition`, `EventLedger`). What is to be kept of an answer goes into
one of two encrypted repositories, whose keys, states and nonce counters are in
the Keychain (`DurableRepository`, `PackedRepository`).

`MC*` modules give the constants their values. `MCRepositories` puts the two
repositories side by side: the initial state says which one a result is in.
`PageSequences` has the operators on sequences that the corpus and the packed
repository use. They mean what they mean in `SequencesExt`, which is not extended
there because its many definitions slow every step of a proof down.

### HistorySync

State: the corpus rows (`stored`, `checkpoint`, the sweep's `cursor`,
`sweepWidth` and `lastCycle`, the two receipts), the local variables of a running
pass, and the provider's listing. A pass is a chain of actions: the forward
scan, the lookback and the sweep, page by page, with the halving of a partition
that is too dense, the page budgets and the receipt at the end. A page and its
commit are one step; every other durable write is a step of its own. Crashes,
failing pages, records that appear late or expire, and a clock that also steps
back come between any two. `owed` and `late` are history variables: what the
running scan was bound to return, and what no scan was. `HistorySyncLive` adds
fairness and `left`, the faults and changes at the provider still to come.

`HistoryReplica` is the promise: a corpus that claims a horizon, and moves its
checkpoint there only when all it owed is stored. `HistorySyncProofs` maps
the first to the second.

### ConnectedCatalog

State: the lock, Keychain entries, credentials, corpus files, write-ahead logs,
and for each process where it is in which command. Connect and disconnect are
call by call (reserve, open, store, revoke, discard, roll back), each with its
failure path. A query registers what it reads, releases the lock while the model
ranks, takes it again, verifies and delivers; an MCP server answers after that.
The sync of a source is the sequence of its pages. Opening a corpus may write to
its write-ahead log too, migrations and backfills that nothing holds against the
limit of the log (`Rebuild`); `loose` is how much of the log is from opens.

### DatadogRotation

State: for each tier the credential and the corpus files, for each file what is
at its active path, what this command renamed away and what earlier commands
left. The actions are the renames, Keychain calls, restores, new corpora and
purges of `rotate_datadog`, its recovery and `disconnect`; each may fail, a failed
Keychain call may have been applied, and the process may die after any.

### CorpusIndex and CorpusLearning

`CorpusIndex` has the derived tables as a record `db`. A page of records and its
index rows are one transaction. `open` is one action per transaction: clear the
tables of an old version, then fill page by page, from a stored cursor or from
the start. The initial states are the databases earlier programs can have left:
any records, in any order of their arrival, under any of the versions, with or
without each of the later tables. Groups and edges in them are those that the
parser and the extractor of that program made (`ParserOf`, `ExtractorOf`): an old
graph may join other services, have edges that there are not, or miss some.
`CorpusLearning` adds ratings, promotions with their versions and rollbacks,
labels with their revocation, and routes in their states.

### DurableRepository

State: the Keychain entry, the staging and the final directory with what is
synced in them, quarantine names, the two file locks, and for each process its
place in `begin`, `commit_batch`, `commit_data`, `seal`, `publish`, `recover`,
`expand` or `destroy`. Every Keychain call, write, sync and rename is a step. The
owner either gives a result up when a call fails (`Client = "product"`) or
repeats calls, with the same bytes or others (`"retrying"`).

### PackedRepository

State: the Keychain record, the result's directory, the store object of the
running process, and `plan`, the steps its call has still to make. Records
gather into pages and pages into packs with the limits of the code; a pack is
written in five steps (reserve nonces, write a temporary, rename, sync,
acknowledge). `finish_acquisition` adds the two indexes, the manifest and the last
checkpoint before the data commit; `publish` the aliases, the seal, the
generation, the rename and the publication. `Resume` rebuilds the store from the
packs, acknowledges a pending reservation whose pack is installed, and takes a
committed result on to publication. The chain of commitments and each digest is
the sequence of what it commits to, so digests never collide.

### LocalAcquisition and EventLedger

State: two files and the path between them, the planned bytes, the retained
descriptor, the record being gathered, the flags of the outcome, the ledger
behind the sink and the completion. Preflight opens twice; execution reads byte
by byte, cuts records at newlines and caps, sends them, checks the descriptor
again and completes; the caller seals. Another process writes or replaces the
file, reads are interrupted or fail, the sink refuses or misanswers, the caller
cancels and the deadline passes.

## Runs

| Run | Module, configuration | What it checks |
|---|---|---|
| `history_sync` | `MCHistorySync`, `HistorySync.cfg` | checkpoint, sweep cursor and receipts stay honest (`CheckpointSound`, `SweepCursorBehind`, `ReceiptsBackedByCheckpoint`), no row moves back (`Monotone`), the promise is kept (`ImplementsReplica`), and what stays listed is stored (`EventuallyStored`) |
| `catalog` | `MCConnectedCatalog`, `ConnectedCatalog.cfg` | a query delivers from the registrations and coverage it read (`DeliversCurrentSources`, `CoverageMatchesSnapshot`), no corpus without its key (`CorpusOpens`), no credential without its entry (`CredentialListed`), and commands end (`CommandsEnd`) |
| `rotation` | `MCDatadogRotation`, `DatadogRotation.cfg` | nothing of an old scope is served (`ScopeCurrent`, `MixedServesNothing`), an undone update loses nothing (`RestoredWhole`), the report is true (`ReportTrue`) |
| `repository_client` | `MCDurableRepository`, `DurableRepositoryClient.cfg` | a client that repeats calls: `NoncesUnique`, `CommittedWhole`, `AcksSurvive`, `PublishedVisible`, `RecordFixed` |
| `repositories` | `MCRepositories`, `Repositories.cfg` | packed: `PackedNoncesUnique`, `ResumeFindsAll`, and a pack is refused only for the sake of one that a restart forms again, or of a checkpoint (`RefusedForOnePack`); segments, with the product as client: `AcksSynced`, `NeverCorrupt`, `KeyFirst`, `ExpiredErased` |
| `corpus` | `MCCorpus`, `Corpus.cfg` | derived tables state exactly the stored records (`TablesExact`, `ReadyComplete`), open returns (`OpenReturns`), rejected evidence stays out (`RejectedNotPromoted`), versions and routes keep their lineage (`ActiveSnapshot`, `RouteLineage`, `MemoryAsEvaluated`) |
| `local_acquisition` | `MCLocalAcquisition`, `LocalAcquisition.cfg` | records tile what was read (`RecordsTile`), a verified completion is of the planned bytes (`CompletionHonest`), adapter and ledger agree (`AccountsAgree`), reasons account for what is missing (`ReasonsAccount`), it stops promptly (`StopsPromptly`) and ends (`Terminates`) |
| `history_sync_stall` | `MCHistorySync`, `HistorySyncStall.cfg` | violated: `BackfillAdvances` |
| `catalog_answer` | `MCConnectedCatalog`, `ConnectedCatalogAnswer.cfg` | violated: `AnswersCurrentSources` |
| `repository_recovery` | `MCDurableRepository`, `DurableRepositoryRecovery.cfg` | violated: `RecoveryConverges` |
| `repositories_restart` | `MCRepositories`, `RepositoriesRestart.cfg` | violated: `RestartCompletesNonces` |
| `corpus_revocation` | `MCCorpus`, `CorpusRevocation.cfg` | violated: `RevokedStopsRoute` |

Every property of a passing run has a mutant in `PROJECT.json`: a definition of
the model with a plausible slip in it, under which TLC finds that property
violated. The mutated definitions are in the modules, marked "mutant".

Deadlock is checked wherever the system goes on; `HistorySync`, `DatadogRotation`
and the corpus may stop (the clock reaches its bound, the connection is gone, a
workload is used up) and say so in their configurations.

### Bounds, and why they are enough

- `history_sync`: two records, pages of one record and one page a partition, so
  that a partition of width 4 is too dense when both are listed and is halved, by
  the forward scan and by the sweep; 5 pages a pass, 2 a sweep, a clock from 4 to
  6 at which both records are history. Three faults or changes at the provider,
  at any time until the system settles: a record can appear behind the checkpoint,
  the lookback and the sweep cursor, and be the last that happens, and a crash or
  failure can come on top of it. The safety properties are proved for all values.
- `history_sync_stall`: two records and a width of 16, the least that needs more
  halvings than a pass has budget for.
- `catalog`: two loads. Queries: one source, two processes of which one is an MCP
  server, three keys (connected, replaced, replaced while a query has no lock), two
  pages, one page written by opens, one failing call. Registrations: three
  sources, one Sentry and two tiers of one Datadog connection, one process, two
  failing calls, an error and a failing undo. A process changes no other's state
  and sources only share the lock. The safety properties are proved for all values.
- `rotation`: two tiers, three generations of credentials (found, given, given in
  the recovery), with symmetry of the tiers. Proved for all values.
- `repository_client`: two processes, two bodies (symmetric), one batch, two keys,
  two process deaths: one in a call, one in the recovery of it.
- `repositories`: packed with three records of one or two bytes, pages of 2 bytes
  or 2 records, packs of 2 bytes, 2 frames or 3 records, and checkpoints every 2
  records or 4 bytes, so that a page is closed when it is full and by a record
  that does not fit, a pack by its bytes, and a checkpoint falls inside and at the end of the stream;
  two deaths. Segments as in `repository_client` with one body and one key.
- `corpus`: four records in three groups (four under the earlier parsers), of which
  the first parser knew one service not at all and one wrongly, and the first
  extractor missed a peer and saw one that there is not; pages of 1, 2 and 2, three
  nonces, two cases. Syncing, ratings and routes are explored
  as separate workloads, since no statement joins them.
- `local_acquisition`: every text of up to three bytes over newline and one other,
  two texts with carriage returns, four settings of the caps, one write and one
  replacement during the run.

The larger state spaces have 787,131 (`rotation`), 715,312
(`local_acquisition`), 532,243 (`repository_client`), 458,475 (`history_sync`),
224,913 (`corpus`), 224,578 (`catalog`) and 94,384 (`repositories`) distinct states.

### Fairness

- `history_sync`: the watcher starts a pass after every delay for as long as it
  runs (`watch_sources`, `watch_cycle_delay`), so a pass that can take a step takes
  one (`WF` on `PassRuns`), and completes one between two ticks, which are days
  (`SF` on `DayPasses`). Faults and provider changes come at any step, are finitely
  many and stop (`left`, `WF` on `Settles`): an unbroken run of crashes stores nothing.
- `catalog`: a process that holds the lock, or can take it, goes on
  (`WF` on `Runs(p)`). Nothing makes a process start a command.
- `repositories`, segments: calls go on, and recovery runs again and again: the
  MCP server calls `reconcile_startup` when it starts and `cleanup_expired` before
  every tool call. The packed repository is checked for safety only: no product
  code resumes a packed result.
- `corpus`: an open goes on until it returns or its process ends.
- `local_acquisition`: calls return and time passes, so that the deadline comes.

## Proofs

Proved by TLAPS for every value of the constants that satisfies the named
assumptions (41 theorems; their lemmas are in the same modules).

- `HistorySyncProofs`: `TypeCorrect`, `CheckpointNeverAhead`, `CursorStaysBehind`,
  `CompletionNeverRefused`, `ReceiptsHonest`, `BudgetKept`. From `RecordsAssumption`
  and `LimitsAssumption`. `CheckpointSound` is not inductive: it needs what the
  running scan owes (`ScanInv`: a record of the partition is stored, pending, or
  late), where a forward scan starts (`ForwardInv`), and the places of the cursor
  and the receipts relative to the checkpoint (`SweepInv`, `ReceiptInv`).
  `MonotoneHolds` and `SyncImplementsReplica` rest on the same invariant: every step
  of a pass is a step of `HistoryReplica` or a stutter, and a checkpoint is moved
  only when nothing is owed.
- `ConnectedCatalogProofs`: `CatalogTypeCorrect`, `CorporaOpen`, `CredentialsListed`,
  `DeliveriesCurrent`, `CoverageTrue`, `WalKept`. From `SourcesAssumption` and
  `BoundsAssumption`. `WalKept` is what the code keeps of the limit of a write-ahead
  log: it is passed by at most one page, beside what opens wrote since the log was
  last truncated (`OpenWrites`), which is whatever they had to rebuild;
  `src/docs/LOG_ONLY_PRODUCT_PLAN.md:197` says so too. The invariant says at each step of a registration what is
  there and what is not yet (`RegisterInv`), and that a view that was verified
  under the lock is current as long as the lock is held (`ViewInv`). The steps are
  sorted by what they do to the process and to the catalog, so that preservation is
  proved once for each sort.
- `DatadogRotationProofs`: `RotationTypeCorrect`, `ScopeStaysCurrent`,
  `MixedStaysGated`, `UndoneWithoutLoss`, `ReportsTrue`. From `GensAssumption`. The
  invariant describes the three ways a command leaves: undoing, finishing and
  disconnecting, and ties a mixed connection to its gate.
- `CorpusLearningProofs`, the tables: `TablesAlwaysExact` and `ReadyIsComplete`. From
  `RecordsAssumption`, `GraphAssumption` and `LearningAssumption`. The first says
  that the records are finitely many, since `version` counts them, and gives the
  types of what the parsers return and positive page sizes. The second is what the
  comment in `open` relies on when it keeps "the independently versioned graph" of
  parsers 2 to 5: these parsers and the current one agree on the service of a
  record that names a peer. The code does not ensure it. Version 6 calls a Sentry
  record without a service `sentry-project-<id>` (`evidentrail-log-model`,
  `src/lib.rs:111`), where earlier ones said `unknown`; such a record with a peer field at its
  top level, which the form of Sentry's events does not have, would be missing in a
  graph that is kept. Of the first parser and the first extractor nothing is
  assumed, as their graphs are dropped. Neither property is
  inductive. `DbOk` says of a database that its groups and edges are one row for
  each key and state their records exactly (`TableOf`), under the parser that it
  names. `DataOk` adds what each mark promises: summaries of the groups up to the saved
  position (`SevereExact`), all terms, all edges. `GraphOk` says that a graph that `open` does not clear has the edges of the
  current parser and extractor (`Keyed`), also when an earlier parser made it
  (`OldEdges`, the one use of `GraphAssumption`). `DataOk` holds of what an
  earlier program left, and when a process dies. `StepInv` says how far an open has come: which
  backfills are complete, and that records up to the cursor have their groups or
  edges. A row is followed through an upsert (`UpsertTable`, `SevereNew`,
  `SevereUpdate`), a record through `index_new_record` and `index_new_edge`
  (`IndexKeeps`, `EdgeKeeps`), and a page through its loop (`CommitLoop`,
  `MissingLoop`, `EdgeLoop`, `SummariseLoop`). A loop is a `FoldLeft`; that it is the
  chain of its turns (`TurnSteps`) is proved once for all five loops, by induction
  over the length of a page (`IteratesExists`, `NatInductive`). `Summaries`, which TLC compares the
  summaries with, is a definition of its own; `SevereSummaries` shows them equal.
- `CorpusLearningProofs`, the rest: `RejectedStaysOut`, `SnapshotInForce`,
  `RoutesFormALineage`, `EffectiveAsEvaluated`. From the same assumptions. The two copies of the promoted records are kept equal and
  free of rejected groups together; what a route favours is a function of its
  fingerprint (`BonusOfFingerprint`).
- `DurableRepositorySteps` and `DurableRepositoryProofs`: `NoncesAlwaysUnique`,
  `AcksAlwaysSurvive`, `CommittedAlwaysWhole`, `PublishedAlwaysVisible` and
  `RecordAlwaysFixed` for both clients, `RecoveryNeverCorrupt`, `AcksAlwaysSynced` and
  `KeyAlwaysFirst` for the product (`ASSUME Client = "product"`: TLC shows each of
  the three broken by a client that repeats calls, which no product code does; the run
  `repositories` checks the same definitions through its instance). From `DurableAssumption` and
  `AbsenceAssumption`, which says that the value for "nothing there" is none of the
  values stored. None of the properties is inductive. The invariant is built in
  layers, each of which is preserved given the ones before it. `ControlInv`: who is
  at which step of which call with which lock. `PlacesInv`: which of record and
  directories exist at that step; it is what lets recovery in one process and the
  owner in another be taken apart. `FilesInv`: a directory holds segments of slots
  the owner has come to, each chained to those before it. `FramesInv`: nonces from
  the counter on are unused, and those of the last reservation sealed only what it
  was made for. `CommitInv`: the acknowledged bytes and the committed chain are where
  the record says. `PublicationInv`: how far the commitment and the rename are when
  the record moves. Their conjunction is `RepositoryInv`. For the product,
  `ProductInv` lists the states a recovery can meet, and `SyncedInv` the files that
  may still be unsynced at each step.
- `PackedRepositoryProofs`: `NoncesNeverShared`, `ResumeAlwaysFindsAll`,
  `RefusedForOnePackOnly` (of packs other than checkpoints, whose reservation a
  restart may leave for good: `repositories_restart`). The first needs no assumption on the constants. Its
  invariant: nonces below the first of the last reservation are
  never handed out again; a frame sealed with one of the last reservation is a
  frame of the pack it is bound to (`Reservation`); a pack about to be sealed is
  the bound one (`Bound`); and only a destroy makes a step without a record
  (`PlanInv`, `Working`). The other two are from `PackedAssumption`, on the limits, and
  from `AbsenceAssumption`: the value for "nothing there" is no record and no
  directory. They need `ChainInv`. `Disk`: the packs are a chain that resume accepts
  (`Chain`), whatever step anybody has come to. `Ledger`: the Keychain record is
  behind the disk by at most the pack of its pending reservation, and what it
  committed to is there. `Stored` and `Located`: the store has the records on disk,
  then the pages being filled. `Placed`: what is left of the plan of the running call
  says which packs are still missing, for every plan of append, finish, publish and
  resume. That one more pack adds its records after all the others
  (`FlattenAppend`) is by induction over the packs.
- `LocalAcquisitionProofs`: `RecordsAlwaysTile`, `AccountsAlwaysAgree`,
  `CompletionAlwaysHonest`, `ReasonsAlwaysAccount` and `AlwaysStopsPromptly`. From
  `AcquisitionAssumption`. All rest on `Shape`: which
  record may be in hand at each step of the loop, within which caps. `Tiling` adds
  that the ledger and the record in hand end where the reads do, `Counting` that the
  two accounts are equal until the sink fails and that a record's number is its
  place, so no two identities are equal. `Hand` and `Reading` say that what was read
  is what was planned as long as the stamp of the planned file is the planned one;
  no write takes a stamp back, so the one check after the last read covers all of
  them. `Stated` ties each flag to where the stream stopped; a flag-free end is at
  the high-water mark.

Only model-checked: all liveness (`EventuallyStored`, `CommandsEnd`, `OpenReturns`,
`Terminates`, `ExpiredErased`), which is out of the prover's reach. Every invariant
and action property that a passing run checks is proved.

## Where code and documents disagree

Five runs show it; the lines are quoted in `PROJECT.json`.

- `history_sync_stall`: the narrower partition a pass finds is not stored, so a
  backlog dense enough is fetched again by every pass and the checkpoint never
  moves, where the comments promise bounded progress.
- `catalog_answer`: an MCP server releases the catalog lock before the answer is
  written; the plan says the lock is held through delivery.
- `repository_recovery`: a death while the commitment file is written, or after a
  generation was reserved, makes recovery of the sealed result fail every time;
  ADR 0004 says recovery converges after a second run.
- `repositories_restart`: a process that dies after reserving nonces for an
  intermediate checkpoint of a packed result leaves them reserved. `resume` counts
  that checkpoint as passed and never writes it again, so every later pack of
  the result is refused; `src/docs/STREAMING_PRODUCT_V3.md` says that a restart
  completes interrupted nonce transitions.
- `corpus_revocation`: revoking the label of a held-out record leaves the active
  route in effect; the comment says the old route stops applying.

Met while modelling, and not stated as runs:

- Packed repository: after a death between `authority.destroy` and the removal of
  the directory, `resume` answers `NotFound` and the directory stays; its key is
  gone.
- Packed repository: `resume` publishes a result that was already renamed without
  syncing the rename, as does recovery of segments (`durable_repository_v2.rs:1486`;
  ADR 0004:846). A process death keeps a rename, a power failure may not.
- Packed repository: a failed `begin` leaves its key in the Keychain. The product
  never resumes or expires packed results.
- Durable repository: a repeated `commit_batch` is acknowledged without a sync
  (`durable_repository_v2.rs:688`; ADR 0004:862), which `AcksSynced` does not see,
  as it is about the product, which never repeats that call; a `begin` repeated after publication
  makes a second directory (line 598; ADR 0004:849); an exact retry of a batch that
  is not the last is refused (`macos_keychain_authority_v2.rs:354`); `destroy` takes
  its two locks in the opposite order (line 1580), which only two threads of one
  process could meet.
- Corpus: a migration of the parser can regroup records, so that ratings made
  under old groups disagree with promotions; the service graph is versioned
  independently of the parser.
- MCP: an expansion opens the registration as it is now (`mcp.rs:1340`), not as it
  was when the query was answered.
- Local files: the branch for the source byte cap is unreachable, since preflight
  has refused longer files.
- Local files: `src/docs/FILE_ADAPTER_RELEASE_PLAN.md:274` asks that the path, the
  root and the registry be validated again after the last read. The code looks at
  the retained descriptors only (`execution.rs:147`). Their link count and change
  time move when the file itself is renamed, replaced or removed; that a directory
  above it now leads elsewhere is not seen.

## Limits of the models

- A crash is the death of a process. What was written and not synced survives it;
  power failures are outside ADR 0004's tests and outside these models. `soft` and
  `moving` record what is not yet synced.
- Digests are injective. Ciphertext is modelled by what it seals.
- `LocalAcquisition` assumes that every change of a file moves its time stamps. Its
  path changes during preflight only, as no later step of the code resolves it
  again: what happens to the path during the reads, and to the directories above
  the file, is outside the model. Registries and host certification, whose leases are held throughout, are one
  step. Elapsed times and the largest record are not modelled.
- `PackedRepository` begins a result again only while it has no packs, and never
  after its key was destroyed: result identifiers are fresh. A store whose call
  failed is dropped or destroyed, never used again, as in the CLI. There is one
  lane, and headers have no size. That the last checkpoint names the index
  digest is not modelled.
- `DurableRepository` has one result. The hand-over of publication generations
  between results, and `recover_all` stopping at the first result that fails, need
  several, and multiply the states beyond what TLC finishes.
- `CorpusLearning` follows one task; what a search finds by itself is a constant.

## Not modelled

- Framing, selection, candidate scoring, compilation, evidence rendering, incident
  analysis and compaction are pure functions of text: they keep no state, and
  what they return is wording and layout.
- The readers of the ledger, discovery and certification of local files,
  authorities and bindings answer questions and change nothing.
- The provider adapters translate one JSON form into another; their pages are the
  provider of `HistorySync`. Hosted ranking is a request whose duration is in
  `ConnectedCatalog`.
- The V1 encrypted repository was replaced by V2 and is written once; in-memory
  retention lives behind one exclusive reference in one process.
- Of the packed repository, `recover` on a live store (it checks what `resume`
  checks), the scans, and the removal of obsolete results.
- Codecs of frames, indexes, manifests and JSON forms are canonical encodings
  without state; the background service writes one launchd file; benchmarks are
  not part of the product.
