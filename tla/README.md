# mg-brief: TLA+ models, TLC checks and TLAPS proofs

mg-brief is a local-first catalog of feeds, CVE records and assets.  It is a Rust
library with a command line; a daemon (mg-feedr) polls feeds through the same
library.  Everything is kept in one SQLite database (WAL mode) and in artifact
files named by their SHA-256.  There is no server: each process opens the files
itself, and each operation opens a connection of its own.

Paths below are those of the repository: `src/lib.rs`, `src/recovery.rs`, ...
(`PROJECT.json` prefixes them with the directory the repository is kept in).

## 1. Inventory

### The parts, their state, and what makes them correct

| Part | State | Operations | Correct means |
|---|---|---|---|
| Artifact store (`lib.rs`: `fetch_inner`, `ingest_cve`, `atomic_write_verified`, `cleanup_installed_cve_artifacts`, `reconcile_cve_commit`) | files under the artifact root; tables `artifacts`, `artifact_owners` (who claims an artifact, and under which locator); the write lock | install a file, insert its row, commit, clean up after a failure, reconcile a commit whose outcome is unknown | a row always has its intact file; a failure leaves nothing behind unless something else failed too; the answer is true |
| CVE history (`lib.rs`: `ingest_cve`, `cve_history`) | `cve_versions`, `cve_version_provenance`, `cve_current` | store a version, decide what is current, page through the history | current is the newest stored version; versions never change; a client that pages sees each version it began below once |
| Feeds (`lib.rs`: `register`, `set_enabled`, `set_ticker`, `due_ticker_sources`, `fetch`, `recover_stale_runs`) | `sources` with schedule and HTTP validators, `fetch_runs` | edit a source, poll what is due, fetch conditionally, close abandoned runs | a 304 is believed only for content that is stored; each run ends and tells what was stored; a due source is asked |
| Feed items (`lib.rs`: `fetch_inner`, `items`, `set_ticker`) | `feed_items`, `provenance`, the ticker mark of `sources` | insert items once per identity, list newest or after a cursor, put a source on the ticker or take it off | an item is stored once; a consumer that keeps a cursor misses nothing |
| Interop export (`lib.rs`: `export_interop_snapshot`) | none (reads eight tables) | export records and links | links lead to exported records |
| Recovery (`recovery.rs`) | the catalog's files, a snapshot, a candidate, staging and quarantine directories | snapshot, rebuild, compare, apply, read back, restore | the original survives every failure; only an unchanged catalog is replaced; what is left opens |
| Assets (`asset.rs`: `import_assets`, `list_assets`, `inspect_asset`) | `asset_records`, `asset_observations` | import a document, list assets, inspect one | what was corrected is not effective; an import can be repeated; an answer read in several statements still holds together |
| Opening and migrations (`lib.rs`: `open_inner`, `migrate`) | schema, `schema_migrations`; the write lock | check the recorded versions, backfill checksums, apply what is missing | each migration runs once, whoever comes first; a build that opens the catalog finds its own schema |
| Privacy (`secure_db.rs`), downloads, network guard, parsing (`feed.rs`, `cve.rs`), `integrity.rs`, `main.rs` | none shared | checks, pure functions, input and output | |

### How they interact

Processes meet in three places: SQLite's write lock (`BEGIN IMMEDIATE`, with a
5 second busy timeout), the artifact files (shared by content, written outside
SQLite), and, during a recovery, the names of the catalog's files.  A fetch or an
ingest installs a file *while it holds the write lock* and commits afterwards.  A
fetch is three transactions (insert the run, stamp the source, store the outcome)
around a network request that holds no lock.  Opening the catalog first
brings its schema to that of the build that opens it (the command line, mg-feedr and
mg-streamr link the library separately, so builds of different age meet), and then
closes runs older than an hour, whoever's they are and whether or not their process is at work.  The export and the asset commands
read committed state with no transaction around their statements.  The recovery assumes that other processes are
stopped, asks systemd only about mg-feedr, and defends itself against the others by
looking at the files again.

### What is hard

* files and rows cannot be committed together, several processes share the files,
  and a COMMIT can fail without saying whether it took effect;
* a process can die between any two steps, and nothing is there to resume its call;
* a fetch works on a copy of its source row while others edit the row, or fetch
  the same source;
* CVE versions arrive in any order and are paged through while they grow, and so are
  feed items, by clients that keep nothing but the last id;
* builds of different age open one catalog, some of them at the same moment;
* observations of assets, corrections of them and corrections of corrections are
  imported in any order, more than once, while they are read;
* a catalog is several files that are exchanged one at a time, with every step
  able to fail, and so can each step that undoes it.

`PROJECT.json` lists each such place with the line where it bites, and either the
properties that cover it or the reason why none does yet.

## 2. The modules

    ContentStore                      abstract: what fetch and ingest promise together
      ^ implemented by
    ArtifactCatalog                   files, rows, lock, commit, cleanup, crashes
      MCArtifactCatalog               instance for TLC
      ArtifactCatalogProofs           theorems
    CveHistory   MCCveHistory   CveHistoryProofs
    FeedTicker   MCFeedTicker   FeedTickerProofs
    CatalogSnapshot   CatalogSnapshotProofs
    CandidateBuild    MCCandidateBuild    CandidateBuildProofs
    CatalogRecovery   MCCatalogRecovery   CatalogRecoveryProofs
    InteropExport     InteropExportProofs
    CatalogOpening                    opening and migrating
      FeedItems                       items of feeds, by processes that have opened
      AssetInventory                  assets, by builds that know them
        CatalogSessions               the three together
          MCCatalogSessions           instance for TLC
          CatalogSessionsProofs       theorems: opening, items, assets, the whole

A definition whose comment begins with "Mutant of X" is not part of the
specification.  It is X with a plausible programming error, kept beside X to show
that the property which guards against the error would notice it
(`PROJECT.json`, "mutants").  No specification uses one.

### ArtifactCatalog and ContentStore

`file` is the directory tree (per digest: absent, good or damaged), `rows`, `owned`
and `docs` are the committed tables, `lock` is SQLite's write lock, and the
functions over `Proc` are the local variables of each running call: `given` the claims
that it supplies artifacts for, `want` and
`todo` their digests, `fresh` the files it has itself created (`installed_paths`),
`pend` its uncommitted rows.  One call of `fetch` or `ingest_cve` is `StartFetch` or
`StartIngest`, `Begin` (or `Busy`), one `Install...` per artifact following the four
outcomes of `atomic_write_verified_unix`, `Record` or `Refuse`, and `Commit` or one of
the failing commits.  `Fail` may happen at any statement.  A call that will not commit
goes through `Unlink` and `Rollback` *in this order*: the lock is held until the
files are gone.  An ingest whose commit failed goes to `doubt` and is settled by one of
the `Probe...` actions, whose guards are `decide_cve_commit_state` on what the probe
reads.  `Crash` forgets everything a process held in memory; SQLite rolls back.

A claim, like a row of `artifact_owners`, is a `Place` (a source id with a locator) and a
digest.  One content may be claimed from several places: that a file and its row are
there does not make them a reference's own, and `Verified` asks for both, as the join in
`verify_cve_artifact` does.

The initial states contain files without rows, good or damaged: what a call that
died earlier leaves.  Damage to a file that already has a row is not modelled: no
code under test causes it and `verify_cve_artifact` exists to report it.

`ContentStore` has only rows, documents and answers.  A call takes effect in one
step or not at all, and an ingest's answer agrees with it.  `ArtifactCatalog` implements it under
`Store == INSTANCE ContentStore WITH ...`; the property is `ImplementsContentStore`.

### CveHistory

Here an ingest is one step (ArtifactCatalog shows that it may be taken as one), and
the subject is which version is current and what a paging client sees.  `Older` is
the code's order: modification time, then revision, then version id.  `Ingest`, `Reject`, `LoseCommit` and `Probe` are the
outcomes of `ingest_cve`; `claim` is the answer computed before the commit.
`FirstPage` and `NextPage` are `cve_history`, with `AfterCursor` for its WHERE clause
and `FirstOf` for ORDER BY and LIMIT.  `base` and `seen` are history variables.

Revisions are compared by an abstract order.  The code compares them as text, so
that "10" comes before "9"; nothing in the repository promises otherwise, and all
uses compare in the same way.

### FeedTicker

`source` and `run` are the two tables, `call` is each process's copy of the source row
and what it knows of the answer, `serving` is the version each address serves.  `Poll` is
the daemon finding a source due; it fetches it by name afterwards, and `Read` (or `Refuse`, if the source
was disabled meanwhile) is `fetch`'s own reading of the row.  `InsertRun`, `Stamp`, `Answer`, then `Store`,
`StoreInDoubt` or `NotModified`, and after
an error `FetchFails` and `RecordFailure`, are the other steps of `fetch`; each writes what one of its
transactions writes.  `Abandon` is the process dying, and equally an error of one of
the statements that `fetch` passes to its caller at once.  `Open` is
`recover_stale_runs`.  Dates are replaced by ages, which grow with `Tick`, so the
state space is finite without a bound on time.  `Tick` waits for nobody: a call lasts as
long as it likes, as `fetch` takes any timeout, and a run may be declared interrupted
under it.  The call closes the run itself in the end, so that its status becomes true again, but one that
succeeds after this keeps `error='fetch interrupted'` (`lib.rs:1234`), a column that no property is about; the test
at `lib.rs:3169`, "... without_interrupting_active_runs", uses a young run.  `outcome` is a history variable, what the call of each run did to the catalog; `RunsTellTheTruth`
compares `fetch_runs` with it.

A validator is a Last-Modified date, and the server is as HTTP describes it: it
answers 304 when what it serves is not newer.  An ETag behaves the same for the
properties here, as long as one server does not use a tag twice.

### CatalogSnapshot

`snapshot_catalog` against a process that was not stopped and goes on to commit,
checkpoint, restart its log, remove it and create it.  `List`, `Open`, `Read`, `Copied`,
`CheckSet` and `CheckVersion` are the steps of the code, one block per `Read`; `Refuse` is each of
its comparisons finding a difference.  The writer is SQLite in WAL mode (external):
what a reader sees is `Overlay(log, database)`, page by page.  Every write is
taken to change the file's `FileVersion`; on a file system whose timestamps are
coarser than two writes, the comparison is weaker than that.  `-shm` is rebuilt from
the log, and `-journal` does not exist in WAL mode: both are left out.

### CandidateBuild

`recover_with_seed_manifest` as a pipeline: `Recover`, `Restore`, `Prune`, `Open`, `Judge`,
`Install`, `ReadBack` or `RollBack`.  A database is its rows, each kept, altered or missing;
sources are modelled in full, because the seed manifest changes them.  `Recover` may lose
any rows and sources, alter some and add some: SQLite's `.recover` promises nothing except that
the unique keys hold, since its output is loaded into a table that has them.  `Spoiled` are the contents that a source may come
back with.  `UseSource` is a process that was not stopped and edits a source of the installed catalog.  `Matches`, `Bound`, `Keeps` and
`NewName` are `build_source_transform`, written as what the loops arrive at: every
feed is matched on its own, so their order only decides which error is
reported.  An alias of more than 512 characters is refused (`recovery.rs:1899`); names are short in
the model, and `DoNotRestore` stands for this error as for the others.  `Exact`, `StateValid`, `Approved` and `IsValid` are `compare_counts`,
`record_state_matches_policy`, the gate and `InstalledReadback::is_valid`.  The
exchange of the files between gate and read-back is one step here; CatalogRecovery
takes it apart.

Three things the model shows that an operator should know, none of which
contradicts a promise of the repository except perhaps the last:

* A catalog with an unfinished run older than an hour, or with an older schema, cannot be
  recovered into place, even with `--allow-record-loss`: opening the candidate
  changes a row before the comparison, and a changed row is not a lost one.
  `CompleteIsApproved` states that nothing else stops a complete recovery of a catalog whose
  schema is current.
* With a manifest that cannot be applied to the snapshot, but whose feeds the
  catalog already has, an exact candidate passes the gate, is installed, and is rolled
  back by the read-back, which insists on the manifest (`recovery.rs:2360`, but
  not 731).  `RollBackIsExplained` has this as its only exception.
* README says that the command "refuses installation if any baseline table cannot be read
  or differs"; `--allow-record-loss`, which it does not mention, installs a candidate
  whose sources, runs, artifacts or provenance are a strict part of the baseline.

### CatalogRecovery

`live` is what is at the catalog's paths; a file is named by the catalog it belongs to
(original, candidate, restored, or foreign for one that somebody else created there).
`archived`, `staged` and `aside` are the recovery and restore directories; `twice` is
the set of paths whose file has a second name.  Each loop of the code over files is a
loop here, with one rename, link or unlink per step: `todo` and `done` are the sets of files
before and behind it, and `First` and `Last` say which file is next, in the order of
`Order` or, where the code undoes, from its end.  Every step has
its failing twin, and the undo loops can fail at each file as well.  `Write` and
`Create` are other processes that were not stopped.  A write that the code cannot notice
(after its second look, or once files are being moved) sets `late`; the properties
about such a write's catalog exclude it, and say so.  `ReadBack` looks at the database
and not at what lies beside it, as the code does, and `Clean` ends as `unsynced` when the
files are back but a directory could not be synced, which the code reports as a failed restore.

The database with two sidecars is checked (the code's list also has `-journal`, which
a WAL catalog does not have; the code treats all in the same way).

### InteropExport

The eight tables as sets of rows, one commit action per kind of write, and `Read`,
which runs the next SELECT of `Selects`.  A record is its identity; the links of each
SELECT are derived from its rows as in the code.  `quiet` is a history variable: nobody
has committed since the export began.

### CatalogOpening, FeedItems, AssetInventory and CatalogSessions

The three components share SQLite's write lock and the open `Store`, and CatalogSessions
composes them: a step of one leaves the variables of the others alone.

*CatalogOpening.*  `ledger` is `schema_migrations`, the checksum of each version or
`None` where a build from before checksums left none; `schema` is the set of tables.  A
*build* is the sequence of migrations a binary was compiled with, and a process runs
one of them from `Begin` on, any one each time it opens.  `Begin`, `Look`, `Apply` (one migration
at a time), `CommitMigrations` and `Finish` are `migrate` and the rest of `open_inner`; `Leave` is an error,
a refusal or the end of the process, with SQLite's rollback.  `Verified` is the check of
the recorded versions, `Backfilled` the checksums that it fills in.  A migration is
the set of tables that it creates, and fails when one of them exists.  The code
checks the tables of a version only if no checksum is recorded for it: a ledger that
records a checksum is believed, so `OpeningAssumption` says that the checksums of a catalog
that was found belong to statements that were run.

*FeedItems.*  `items` is `feed_items` in the order of the row ids: ids are assigned one
above the highest, inside the transaction that holds the lock, and no code deletes a row.
`BeginStore`, `Insert` (once per entry) and `CommitStore` or `RollBack` are the loop over the entries in `fetch_inner` and
the transaction around it.  `Newest` and `Since` are the two SELECTs of `items`, with the WHERE clause in `Shown`
and `Matching`; `SetTicker` is `set_ticker`, whose column `ticker_only` looks at.  `base`, `got` and `steady` are history variables.
Left out are the columns that the queries do not look at, and `unread_only` and `saved_only`: no
code of the repository writes `read_at` or `saved_at`, and the command line passes false for both.

A limit that an operator should know: `items --ticker` asks whether a source is on the ticker
*now* (`lib.rs:1314`).  A client that keeps its last id ("the last id is the next cursor", `lib.rs:1305`)
passes the items of a source that is off, and when the source comes back they
lie below the cursor and are never given.  `NothingMissed` therefore promises a ticker client only the items of the sources that
stayed on the ticker since it first asked (`steady`); a client that asks without `--ticker` is given everything.

*AssetInventory.*  `Import` is `import_assets`.  It is one step: the code
validates and inserts within one immediate transaction, which nobody else can look
into.  `AssetsBefore` and `ObservationsBefore` are what each entry is compared with, earlier entries
of the same document included.  The readers are not one step: `reader` is what they asked and how far
they are, `answer` is what their statements have returned, and imports may commit between
any two.  `Ranks` and `Newer` are the two ORDER BY clauses.  Times are stored in one
text format, whose order is that of the times, and are numbers here.
`inventory_status` is a pure function of an observation and a moment and is left out.

## 3. What is checked

| Run | Shows | States |
|---|---|---|
| `catalog` | rows have files, references resolve, versions are immutable, answers are honest, no file is left without a reason, ContentStore is implemented, and every call returns | 353 thousand |
| `sessions` | an opened catalog fits its build, no migration runs twice, a corrected observation is never effective, an import can be repeated, answers hold together, and a client of the ticker that pages by its last id misses nothing of the sources that stay on it | 1.2 million |
| `cve_history` | current is newest, a client that pages gets each version once, reconciled answers are true | 60 thousand |
| `feed_validators` | a 304 is believed only for stored content (source not moved), a closed run says what was stored | 764 thousand |
| `feed_schedule` | every run ends, a due source is asked | 51 thousand |
| `feed_moved` | violated: finding 1 | |
| `recovery` | whole catalogs at the end, a changed catalog is kept, sidecars survive, nothing is overwritten, the result opens | 31 thousand |
| `recovery_opens` | violated: finding 2 | |
| `snapshot` | an accepted snapshot is the catalog of one moment | 170 thousand |
| `candidate` | nothing is lost unasked, sources are restored soundly, refusals and rollbacks have a reason | 3.4 million |
| `export` | what still holds of the links of an export taken while others commit | 422 thousand |
| `export_links` | violated: finding 3 | |

Bounds, and why they are enough:

* *Two processes.*  The interference in the code is between a call and *some*
  other call: every guard reads shared state, never a count of processes.  The
  theorems of section 5 hold for any number.
* *Two digests, two places, three documents* (one of them a rival of another, which has the same content
  from another place; one with two references): one call can share one file and own another, partial installation and
  partial cleanup happen, and a conflict can be between a stored and a new document.
  `EveryCallReturns` is checked on the same instance, which therefore uses no symmetry.
* *Six versions of two CVEs, page size 1.*  They contain equal times, equal
  revisions with different bodies and equal ids; a page size of 1 makes
  every version a cursor.
* *One source, one address, three versions, two overlapping fetches* for the validators, with calls
  that last as long as they like and `StaleAge = 0`, so that any run may be closed under its call.
  The second address is in `feed_moved`, and any number of them in the theorem.  The schedule run has a
  version that does not change, since no step of the schedule depends on it.  `Run` has as many
  rows as calls: a closed row that nobody works on may be used again, since the code never
  reads old rows.
* *Two uses by other processes* during a recovery: one before and one after
  any step.  `recovery_opens` needs none.
* *Two pages, five writes* for a snapshot: opening the log, a commit of both pages, half a
  checkpoint, a removal and a new log fit between any two blocks read.  The theorem
  has no bound.
* *Fifteen pairs of saved sources and manifest* for a candidate, one for each way that
  `build_source_transform` goes on or stops; one row in each other table, any of which may be
  lost; one row at most comes back altered, or one source with a name or an address from
  elsewhere, in the place of one that was there or of none.
* *Three builds, four catalogs, two processes* for sessions: an old build, the present one, and
  one whose second migration was edited after it was released; an empty catalog, and what
  builds without checksums leave, with and without the tables they claim.  Two sources share a key, a
  fetched body repeats known keys, both sources go on and off the ticker, and the client of the ticker asks
  for pages of one.
* *Eight documents of one or two entries, limit 2* for assets: a correction before and
  after what it corrects, a correction of a correction, one of the same time, one of another
  asset, a second content for a known id; three observations of one asset exceed the limit.
* *Deadlock* is checked except where the system really stops: a recovery ends, a
  snapshot is taken or refused, and an export over full tables has nothing left to do.

## 4. Fairness

* `ArtifactCatalog!FairSpec`: weak fairness of each process's steps.  A call is
  straight-line code; its wait for the lock is bounded by the busy timeout, after
  which `Busy` returns an error.  No fairness of obtaining the lock is assumed.
* `FeedTicker!FairSpec`: weak fairness of a call's steps and of
  opening the catalog (commands and the daemon do it all the time).  Strong fairness of
  `Poll`, the daemon's `Read`, `InsertRun` and `Stamp`: the daemon comes back to a due source, and is not
  killed at the same statements each time; and of time, which passes however busy the processes are.  `OnTime`
  says that a call stamps its source less than an interval after it recorded its run: the two are
  statements with a busy timeout of 5 seconds (`lib.rs:268`), and no interval is shorter than 30
  (`lib.rs:34`).  It bounds nothing else of a call.  Without the last, "Every attempt,
  failed or not, counts toward a ticker source's interval" (README) fails trivially.
  Nothing is assumed about the success of requests.

## 5. What is proved

TLAPS checks these for every value of the constants that satisfies the stated
assumptions (`CatalogAssumption`, `TickerAssumption`, `OpeningAssumption`, `ItemsAssumption`,
`AssetAssumption`, and those of the other modules).  They are about constants only.

* `ArtifactCatalogProofs`: `TypeCorrect`, `RowsHaveFiles`, `ReferencesResolve`,
  `VersionsImmutable`, `AnswersHonest`, `CatalogImplementsStore`.  No invariant of
  the list is inductive by itself.  What makes them so is the discipline of the lock: a process in a
  `Locked` phase *is* the lock's holder, only such a process has uncommitted rows or files to remove,
  the files behind its uncommitted rows are intact, and a file that it created and may remove is in no committed row.
  The last part is why a call must clean up before it gives the lock back, and
  why the probe must look its files up before it removes them.
  `OrphansAreExplained` adds `FreshInv`: the files that a call created are among its uncommitted rows,
  and once its commit is in doubt among the artifacts that it was asked to store.  This is why
  a probe that finds the document complete may forget them: `Verified` has found each of them
  in a committed row.  References are about owners: a document is stored only if each of its claims is an
  owner's row, and no row of that table is without its artifact's.
* `CveHistoryProofs`: `NewestIsCurrent`, `ReconciledAnswersCurrent`.  The invariant adds that a CVE with a stored
  version has a current one, among them; the argument is that `Older` is a strict total
  order of the versions of a CVE that do not conflict.
  `TypeCorrect` and `HistoriesAreComplete` are about the pages.  `PageOfChain` says of one request, for any
  finite chain of versions, that a page is its newest part, that the rest is older than the
  version the cursor names, and that without a cursor there is no rest; it rests on
  `FirstOfChain` (the first n of a chain are all of it or n, and what follows is older) and `Ends`.
  `Reading` says of each reader that its pages are in order and that what it is still owed is older
  than its cursor, which later ingests cannot change.
* `FeedTickerProofs`: `TypeCorrect`, `NotModifiedHolds`, `RunsAreTruthful`.  The
  invariant is in four parts: the shape of each call (which run it has, that nobody shares it), that a
  source that was not moved has one address in all of its copies, that every
  validator, in the table or in a call's copy, is not newer than the server and belongs
  to content that is stored, and that a run which is still open has stored nothing.  An opening that marks such a run
  failed therefore says what is true, until its call stores, which marks it succeeded in the same transaction.
  Nothing is assumed of how long a call lasts.
* `CatalogSnapshotProofs`: `TypeCorrect`, `SnapshotsAreMoments`.  Stamps only grow, so a
  file whose stamp is still that of its copy has not been written since; what was read
  of it is what it holds.  When all stamps are found unchanged one after
  the other, the earlier ones may have changed again, but at the moment when
  the set of files was compared they had not: that moment is the one that the snapshot shows.
* `CatalogSessionsProofs`: `OpenedAlwaysFits`, `NothingIsCreatedTwice`, `ClientMissesNothing`, from
  `SessionsInvariant`.  `OpeningInv` says of a process that is migrating that it has the lock, that its uncommitted
  ledger is a prefix of its build and keeps every checksum that was recorded, and that the tables
  of that ledger are there or made by it, while those of later versions, of any build, are
  not; this is why no migration can meet a table that exists.  A
  process that has opened keeps its match because a ledger with all checksums recorded is only
  ever extended.  `ItemsInv` says that an uncommitted batch extends the committed items, so
  that no id below the highest is ever given out; it is this, and the lock around the
  batch, that makes a cursor safe.  `ClientMissesNothing` is about any client, and for one of the
  ticker about the sources that stayed on it: their items matched each of its queries.
  The same module proves `SessionsType`, `EffectiveIsNeverCorrected`, `StoredIsAlwaysAccepted`,
  `AnswersAlwaysHoldTogether`, from `AssetsInvariant`, which adds `StoredInv` (ids are unique, what a
  correction corrects is stored, of the same asset and older; every asset has an observation),
  `ReaderInv` (what a reader has returned so far against what is stored now) and
  `TablesInv`.  A correction is newer than what it corrects and corrections rank before
  others, so what was corrected is outranked.  Two lemmas about finite sets carry the orders: a
  finite set has a greatest element in a strict total order, and the elements with fewer than k above
  them are all of them, or at least k.
* `InteropExportProofs`: `RowsResolve`, `QuietLinksAlwaysResolve`, `CurrentRevisionsResolve`.  `ExportInv` is
  `InteropExport!TypeOK` (the foreign keys of the committed rows), that the rows exported while it was
  quiet are those of the tables as they are, and that the versions of exported current rows are
  stored.  The last works because the SELECT of the current rows comes before that of the versions, and
  versions are not removed.

* `CatalogRecoveryProofs`: `TypeCorrect`, `SidecarsSurvive`, `ChangedCatalogSurvives`, `GoodEndsAreWhole`,
  `GoodEndsOpen`, `CreatedCatalogSurvives`.  The invariant says for each phase where each file is, in two
  layers.  `DatabaseInv` and `SecondNames` hold whatever other processes do: which catalog's database is at the
  path or aside, and that only the link loop and its undoing leave second names, exactly on the
  files in `done` or `todo`.  `BeforeInv` and `AfterInv` place the sidecars.  The second is claimed only as
  long as no write came after the last look (`late`); a database that somebody creates at the
  vacated path is part of it (`Vacated`), since the links must then fail.  That the database is handled first and
  put back last (`DbPrecedes`) is what lets each loop be described by what is in `todo`.
* `CandidateBuildProofs`: `TypeCorrect`, `NothingIsLostUnasked`, `SourcesAreReseededSoundly`,
  `RollBacksAreExplained`, `CompleteRecoveriesAreApproved`.  The first half are facts about databases: the transformed
  sources are the sources that there were with distinct names and URLs (`TransformedType`,
  `TransformedKeys`, `TransformedUrls`), list every feed (`TransformedLists`), and are unchanged without a manifest
  (`NoManifest`); a database that compares as exact is the snapshot (`ExactIsSaved`); one that the policy
  accepts has only lost rows of tolerant tables (`ValidIsReduced`); the read-back's own rule
  for sources follows from the policy (`ValidSources`).  The second half is what each
  phase knows: a restored candidate has the transformed sources, an opened one
  would not change if opened again before a run grows stale, what is installed was approved, and a
  complete recovery of a sound catalog arrives at the judgement with every row.
  `CandidateAssumption` says what the code guarantees of its input: ids are numbers and finitely many, provenance
  does not refer to sources, and a manifest has distinct names and URLs (`validate_seed_manifest`).

Every safety property that a passing run checks is proved.  Only model-checked: liveness
(`EveryCallReturns`, `EveryRunEnds`, `EveryDueSourceIsAsked`), which is outside the prover's reach.  The
violated properties of section 6 are refuted by their runs.

## 6. Findings

1. **A moved source keeps its validators** (`feed_moved`, `lib.rs:289`).  `register`
   with a known name and another URL leaves `etag` and `last_modified`.  The new
   server may answer 304 to them; the run is recorded `not_modified`, and nothing
   of the new address is ever stored, until that server publishes.
2. **Restored, but it does not open** (`recovery_opens`, `recovery.rs:2612`).  Two of the errors that
   say that the original was restored leave the restored files with a second
   hard link, which `secure_db.rs:187` refuses.
3. **An export is not a snapshot** (`export_links`, `lib.rs:769`).  Eight SELECTs without a
   transaction: a commit in between leaves links to records that are not there.
   What does hold is in `export`: links never point to rows that do not exist, and
   the current revision of an exported CVE is always exported.

## 7. What is not modelled

* Pure functions over text or addresses: feed parsing, CVE validation and adaptation,
  identity keys, the network guard, `inventory_status`.  Their results are model values.
* `download_url`: it writes a private part file and renames it over the destination, and shares no
  state with the catalog.  `integrity.rs` and `migration_status` only read.
* Owner and mode of files (`secure_db.rs`), except for the refusal of a second hard link.
* How bytes reach a file (temporary names, modes, symbolic links): the outcome only.
* Power loss.  A crash is a process that dies; what the kernel has not yet
  written is not lost.
* Output, logging and argument parsing.

## 8. Plan

Done, in this order: `ArtifactCatalog` with `ContentStore`; `CveHistory`; `FeedTicker`; `CatalogRecovery`; `InteropExport`;
`CatalogSnapshot` and `CandidateBuild`; `CatalogOpening`, `FeedItems` and `AssetInventory`, composed in
`CatalogSessions`; proofs for all of these, the recovery modules last.

Left:

1. A variant of `ArtifactCatalog` in which a directory entry is durable only after the
   directory was synced, for the missing sync of a shard's parent (`lib.rs:2612`).
2. An abstract specification of what a recovery promises (the catalog is the original, the
   candidate or the restored snapshot, and is reported as such), implemented by `CatalogRecovery`.
