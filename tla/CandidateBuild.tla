--------------------------- MODULE CandidateBuild ---------------------------
(***************************************************************************)
(* recover_with_seed_manifest: from the snapshot of a damaged catalog to   *)
(* a candidate (SQLite's .recover, the sources restored from the snapshot, *)
(* orphaned provenance pruned, the application's own opening), the         *)
(* comparison with the snapshot that decides whether the candidate may be  *)
(* installed, and the read-back that decides whether it may stay.          *)
(*                                                                         *)
(* How the snapshot is copied is CatalogSnapshot's subject, how files are  *)
(* exchanged CatalogRecovery's: here both are one step.  A database is its *)
(* rows; a row is kept, altered or missing, and a row of sources has its   *)
(* columns.  Of the tables, one protected table stands for all, and the    *)
(* migration ledger for the schema.                                        *)
(***************************************************************************)
EXTENDS Integers, Sequences, FiniteSets, Functions

CONSTANTS Id,      \* ids of sources
          Word,    \* what names are made of: names of feeds, and ids
          Url,     \* addresses
          Row,     \* rows of the other tables
          Kind,    \* the table of each row
          Needs,   \* its foreign keys: rows and ids of sources
          Running, \* fetch runs that were not finished
          Case,    \* sources, their provenance and seed manifests to consider
          Spoiled, \* what a row of sources may become instead of what it was
          None,
          MaxAltered \* bound: how many rows .recover brings back altered,
                     \* rows of no table and changes of the schema included

(* A row of sources.  A name is a sequence: the name itself, then the ids  *)
(* that were appended to it.                                               *)
Source == [name : Seq(Word), integer : BOOLEAN, url : Url, scheduled : BOOLEAN]

(* An entry of a seed manifest.                                            *)
Feed == [name : Word, url : Url]

(* Provenance belongs to runs, artifacts and items, not to sources; and    *)
(* validate_seed_manifest refuses a name or a URL that is listed twice.    *)
ASSUME CandidateAssumption ==
  /\ Id \subseteq Nat \cap Word /\ IsFiniteSet(Id)
  /\ None \notin Source /\ Spoiled \subseteq Source
  /\ Kind \in [Row -> {"fetch_runs", "artifacts", "provenance", "feed_items"}]
  /\ Needs \in [Row -> SUBSET (Row \cup Id)]
  /\ \A r \in Row : Kind[r] = "provenance" => Needs[r] \subseteq Row
  /\ Running \subseteq {r \in Row : Kind[r] = "fetch_runs"}
  /\ Case \subseteq [source : [Id -> Source \cup {None}],
                    manifest : SUBSET Feed, trail : [Url -> SUBSET Id]]
  /\ \A c \in Case : \A f, g \in c.manifest : f.name = g.name \/ f.url = g.url => f = g

VARIABLES
  case,       \* the sources of the snapshot, and the seed manifest
  mode,       \* "build", "apply", or "loss": --apply --allow-record-loss
  unreadable, \* tables of the snapshot that cannot be read
  saved,      \* the snapshot
  candidate,  \* the candidate
  live,       \* the catalog
  pc,         \* where the command is, and how it ended
  healthy,    \* the candidate passes SQLite's integrity check
  restored,   \* source_rows_reconstructed
  opened,     \* application_opened_candidate, the manifest's sources listed
  pruned,     \* provenance_pruning_succeeded
  stale,      \* the unfinished runs are older than STALE_RUN_AGE
  complete,   \* history: .recover found everything
  slip,       \* history: a step failed that need not have
  meddled     \* history: the runs aged, or the catalog was used, after the
              \* candidate was compared

inputs  == <<case, mode, unreadable, saved>>
report  == <<healthy, restored, opened, pruned>>
history == <<complete, slip, meddled>>
vars    == <<inputs, candidate, live, pc, report, stale, history>>

Tolerant == {"sources", "fetch_runs", "artifacts", "provenance"}
Table    == Tolerant \cup {"feed_items", "schema_migrations"}
Done     == {"failed", "review", "ready", "ready_with_loss", "installed",
             "installed_with_loss", "rolled_back"}
Phase    == {"recover", "restore", "prune", "open", "judge", "install", "readback"}
              \cup Done

-----------------------------------------------------------------------------
(* Databases *)

Present(source) == {i \in Id : source[i] # None}
Rows(db)        == {r \in Row : db.row[r] # "none"}

Records(db, table) ==
  CASE table = "sources"           -> {<<i, db.source[i]>> : i \in Present(db.source)}
    [] table = "schema_migrations" -> {db.schema = "old"}
    [] OTHER -> {<<r, db.row[r]>> : r \in {q \in Rows(db) : Kind[q] = table}}

ReferencesHold(db) ==
  \A r \in Rows(db) : Needs[r] \subseteq Rows(db) \cup Present(db.source)

Names(source) == [i \in Present(source) |-> source[i].name]
Urls(source)  == [i \in Present(source) |-> source[i].url]

(* UNIQUE(name) and UNIQUE(url).                                           *)
KeysHold(source) == IsInjective(Names(source)) /\ IsInjective(Urls(source))

(* A source whose name is stored as an integer cannot be listed.           *)
Listed(db) == \A i \in Present(db.source) : ~db.source[i].integer

ListsManifest(db) ==
  /\ Listed(db)
  /\ \A feed \in case.manifest : \E i \in Present(db.source) :
       /\ db.source[i].name = <<feed.name>> /\ db.source[i].url = feed.url
       /\ db.source[i].scheduled

(* Mutant of Opened: every unfinished run is closed.                       *)
OpenedAllRuns(db) ==
  [db EXCEPT !.schema = IF @ = "old" THEN "current" ELSE @,
             !.row = [r \in Row |-> IF r \in Running /\ @[r] = "saved"
                                    THEN "altered" ELSE @[r]]]

(* Store::open migrates the schema and closes the runs that are stale.     *)
Opened(db) ==
  [db EXCEPT !.schema = IF @ = "old" THEN "current" ELSE @,
             !.row = [r \in Row |-> IF stale /\ r \in Running /\ @[r] = "saved"
                                    THEN "altered" ELSE @[r]]]

-----------------------------------------------------------------------------
(* build_source_transform: which source each feed of the manifest is.      *)

HasUrl(url) == {i \in Present(saved.source) : saved.source[i].url = url}
Named(name) == {i \in Present(saved.source) : saved.source[i].name = <<name>>}

(* The sources whose runs recorded provenance from the URL, their own row  *)
(* present or not.                                                         *)
ProvenanceIds(url) == case.trail[url]

(* Mutant of Matches: the name goes first.                                 *)
MatchesByName(feed) ==
  IF Named(feed.name) # {} THEN Named(feed.name)
  ELSE IF HasUrl(feed.url) # {} THEN HasUrl(feed.url) ELSE ProvenanceIds(feed.url)

(* By its URL, by the provenance of that URL, by its name, in this order.  *)
Matches(feed) ==
  IF HasUrl(feed.url) # {} THEN HasUrl(feed.url)
  ELSE IF ProvenanceIds(feed.url) # {} THEN ProvenanceIds(feed.url)
  ELSE Named(feed.name)

Bound(feed) == CHOOSE i \in Matches(feed) : TRUE
Feeds(i)    == {feed \in case.manifest : Bound(feed) = i}

Desired(i) ==
  IF Feeds(i) = {} THEN saved.source[i].name
                   ELSE <<(CHOOSE feed \in Feeds(i) : TRUE).name>>

(* Of the sources that want one name, the manifest's or the first keeps it. *)
Keeps(i) ==
  LET same  == {j \in Present(saved.source) : Desired(j) = Desired(i)}
      seeds == {j \in same : Feeds(j) # {}}
  IN  IF seeds # {} THEN i \in seeds ELSE \A j \in same : i <= j

(* The others' aliases.  Names are short here: an alias of more than 512   *)
(* characters is refused, see DoNotRestore.                                *)
NewName(i) == IF Keeps(i) THEN Desired(i) ELSE Append(Desired(i), i)

(* The sources with the manifest applied, under their new names.           *)
Renamed(name) ==
  [i \in Id |->
    IF saved.source[i] = None THEN None
    ELSE LET own == saved.source[i] IN
         [name |-> name[i], integer |-> FALSE,
          url |-> IF Feeds(i) = {} THEN own.url ELSE (CHOOSE f \in Feeds(i) : TRUE).url,
          scheduled |-> own.scheduled \/ Feeds(i) # {}]]

(* Mutant of Transformed: names are not told apart.                        *)
TransformedNamesakes == Renamed([i \in Present(saved.source) |-> Desired(i)])

Transformed == Renamed([i \in Present(saved.source) |-> NewName(i)])

(* With a manifest: every feed is one source, and no source two feeds.     *)
Buildable ==
  /\ IsInjective(Urls(saved.source))
  /\ \A feed \in case.manifest :
       /\ Cardinality(Matches(feed)) = 1
       /\ Matches(feed) \subseteq Present(saved.source)
       /\ ProvenanceIds(feed.url) \subseteq Matches(feed)
  /\ \A feed, other \in case.manifest : Bound(feed) = Bound(other) => feed = other
  /\ IsInjective([i \in Present(saved.source) |-> NewName(i)])

(* Without one, the sources must already be as they should.                *)
Restorable ==
  /\ "sources" \notin unreadable
  /\ IsInjective(Urls(saved.source))
  /\ IF case.manifest = {} THEN Listed(saved) /\ IsInjective(Names(saved.source))
                           ELSE Buildable

-----------------------------------------------------------------------------
(* The comparison with the snapshot *)

Same(db, table) ==
  table \notin unreadable /\ Records(db, table) = Records(saved, table)

Exact(db) == \A table \in Table : Same(db, table)

(* source_rows_match_manifest_transform; an error counts as FALSE here.    *)
Reseeded(db) == case.manifest # {} /\ Buildable /\ db.source = Transformed

(* Mutant of Reduced: the rows are only counted.                           *)
ReducedByCount(db, table) ==
  Cardinality(Records(db, table)) < Cardinality(Records(saved, table))

(* table_records_are_subset                                                *)
Reduced(db, table) ==
  /\ Records(db, table) \subseteq Records(saved, table)
  /\ Records(db, table) # Records(saved, table)

HasNoUnmappedRows(db) == ~db.stray
SchemaMatches(db)     == db.schema = saved.schema

(* unlisted_table_records_match looks at every table that is not tolerant. *)
OthersMatch(db) ==
  \A table \in Table \ Tolerant : Records(db, table) = Records(saved, table)

(* record_state_matches_policy: what may differ is fewer rows in a         *)
(* tolerant table, and the sources as the manifest wants them.  A manifest *)
(* that cannot be applied is an error if anything differs.                 *)
StateValid(db) ==
  /\ HasNoUnmappedRows(db) /\ SchemaMatches(db) /\ OthersMatch(db)
  /\ unreadable = {}
  /\ \/ Exact(db)
     \/ /\ case.manifest = {} \/ Buildable
        /\ \A table \in Table :
             \/ Same(db, table)
             \/ table = "sources" /\ Reseeded(db)
             \/ table \in Tolerant /\ Reduced(db, table)

Valid(db) == StateValid(db) /\ ReferencesHold(db)

-----------------------------------------------------------------------------

(* Of the tables that cannot be read, sources has consequences of its own; *)
(* any other would be refused by StateValid alone.                         *)
Init ==
  /\ case \in Case
  /\ mode \in {"build", "apply", "loss"}
  /\ unreadable \in {{}, {"sources"}}
  /\ \E schema \in {"old", "current"} :
       saved = [source |-> case.source, row |-> [r \in Row |-> "saved"],
                schema |-> schema, stray |-> FALSE]
  /\ candidate = None /\ live = saved
  /\ pc = "recover"
  /\ healthy = FALSE /\ restored = FALSE /\ opened = FALSE /\ pruned = TRUE
  /\ stale \in BOOLEAN
  /\ complete = FALSE /\ slip = FALSE /\ meddled = FALSE

(* An error that recover_with_seed_manifest returns.                       *)
Fail ==
  /\ pc \in {"recover", "restore", "open", "judge", "install"}
  /\ pc' = "failed"
  /\ UNCHANGED <<inputs, candidate, live, report, stale, history>>

(* run_recover and import_recovered_sql: some rows are lost, some come     *)
(* back altered, sources that were never there included, some belong to no *)
(* table, and the schema may suffer.  The import skips a row that violates *)
(* a UNIQUE constraint.                                                    *)
Recover ==
  /\ pc = "recover" /\ pc' = "restore"
  /\ \E lost \in SUBSET (Row \cup Id), altered \in SUBSET (Row \cup Id),
       damage \in {"none", "stray", "schema"} :
       /\ altered \cap lost = {}
       /\ Cardinality(altered) + (IF damage = "none" THEN 0 ELSE 1) <= MaxAltered
       /\ \E spoiled \in [altered \cap Id -> Spoiled] : candidate' =
            [source |-> [i \in Id |-> IF i \in lost THEN None
                                     ELSE IF i \in altered THEN spoiled[i]
                                     ELSE saved.source[i]],
             row    |-> [r \in Row |-> IF r \in lost THEN "none"
                                      ELSE IF r \in altered THEN "altered" ELSE "saved"],
             schema |-> IF damage = "schema" THEN "other" ELSE saved.schema,
             stray  |-> damage = "stray"]
       /\ KeysHold(candidate'.source)
       /\ complete' = (candidate' = saved)
  /\ healthy' \in BOOLEAN
  /\ UNCHANGED <<inputs, live, restored, opened, pruned, stale, slip, meddled>>

(* restore_source_rows_from_snapshot_with_manifest, in one transaction.    *)
Restore ==
  /\ pc = "restore" /\ pc' = "prune"
  /\ healthy /\ Restorable
  /\ candidate' = [candidate EXCEPT !.source = Transformed]
  /\ restored' = TRUE
  /\ UNCHANGED <<inputs, live, healthy, opened, pruned, stale, history>>

(* It is refused (the manifest cannot be applied, or an alias gets too     *)
(* long), or fails and is rolled back.                                     *)
DoNotRestore ==
  /\ pc = "restore" /\ pc' = "prune"
  /\ slip' = (healthy /\ Restorable)
  /\ UNCHANGED <<inputs, candidate, live, report, stale, complete, meddled>>

(* prune_orphan_provenance                                                 *)
Prune ==
  /\ pc = "prune" /\ pc' = "open"
  /\ restored /\ case.manifest # {}
  /\ candidate' = [candidate EXCEPT !.row = [r \in Row |->
       IF Kind[r] = "provenance" /\ ~(Needs[r] \subseteq Rows(candidate)) THEN "none"
       ELSE @[r]]]
  /\ UNCHANGED <<inputs, live, report, stale, history>>

PruneFails ==
  /\ pc = "prune" /\ pc' = "open"
  /\ restored /\ case.manifest # {}
  /\ pruned' = FALSE /\ slip' = TRUE
  /\ UNCHANGED <<inputs, candidate, live, healthy, restored, opened, stale, complete, meddled>>

DoNotPrune ==
  /\ pc = "prune" /\ pc' = "open"
  /\ ~(restored /\ case.manifest # {})
  /\ UNCHANGED <<inputs, candidate, live, report, stale, history>>

(* The application opens the candidate and lists its sources.              *)
Open ==
  /\ pc = "open" /\ pc' = "judge"
  /\ healthy
  /\ candidate' = Opened(candidate)
  /\ opened' = ListsManifest(candidate)
  /\ UNCHANGED <<inputs, live, healthy, restored, pruned, stale, history>>

DoNotOpen ==
  /\ pc = "open" /\ pc' = "judge"
  /\ slip' = (slip \/ healthy)
  /\ UNCHANGED <<inputs, candidate, live, report, stale, complete, meddled>>

(* candidate_valid                                                         *)
CandidateValid == healthy /\ opened /\ pruned /\ Valid(candidate)

(* Mutant of Approved: consent is not asked for.                           *)
ApprovedAnyway == CandidateValid

Approved == CandidateValid /\ (Exact(candidate) \/ mode = "loss")

Judge ==
  /\ pc = "judge"
  /\ pc' = IF mode # "build" /\ Approved THEN "install"
           ELSE IF ~CandidateValid THEN "review"
           ELSE IF Exact(candidate) THEN "ready" ELSE "ready_with_loss"
  /\ UNCHANGED <<inputs, candidate, live, report, stale, history>>

(* install_candidate                                                       *)
Install ==
  /\ pc = "install" /\ pc' = "readback"
  /\ live' = candidate
  /\ UNCHANGED <<inputs, candidate, report, stale, history>>

-----------------------------------------------------------------------------
(* read_installed_candidate_with_manifest and InstalledReadback::is_valid  *)

SourcesReduced(db) == Cardinality(Present(db.source)) < Cardinality(Present(saved.source))

SourcesAccepted(db) ==
  \/ Same(db, "sources") \/ Reseeded(db)
  \/ mode = "loss" /\ StateValid(db) /\ SourcesReduced(db)

IsValid(db) ==
  /\ ListsManifest(db)
  /\ case.manifest = {} \/ Buildable
  /\ Valid(db)
  /\ Exact(db) \/ mode = "loss"
  /\ SourcesAccepted(db)

ReadBack ==
  /\ pc = "readback"
  /\ live' = Opened(live)
  /\ IsValid(live')
  /\ pc' = IF Exact(live') THEN "installed" ELSE "installed_with_loss"
  /\ UNCHANGED <<inputs, candidate, report, stale, history>>

RollBack ==
  /\ pc = "readback" /\ ~IsValid(Opened(live))
  /\ live' = saved /\ pc' = "rolled_back"
  /\ UNCHANGED <<inputs, candidate, report, stale, history>>

(* The read-back itself fails.                                             *)
ReadBackFails ==
  /\ pc = "readback"
  /\ live' = saved /\ pc' = "rolled_back" /\ slip' = TRUE
  /\ UNCHANGED <<inputs, candidate, report, stale, complete, meddled>>

-----------------------------------------------------------------------------
(* Meanwhile *)

(* (Growing stale before the candidate is opened is being stale at first.) *)
Age ==
  /\ ~stale /\ pc \in {"judge", "install", "readback"}
  /\ stale' = TRUE /\ meddled' = TRUE
  /\ UNCHANGED <<inputs, candidate, live, pc, report, complete, slip>>

(* Another process changes a row of the installed catalog,                 *)
Use(r) ==
  /\ pc = "readback" /\ live.row[r] # "altered"
  /\ live' = [live EXCEPT !.row[r] = "altered"]
  /\ meddled' = TRUE
  /\ UNCHANGED <<inputs, candidate, pc, report, stale, complete, slip>>

(* or a source of it, or adds one.                                         *)
UseSource(i) ==
  /\ pc = "readback"
  /\ \E source \in Spoiled : live' = [live EXCEPT !.source[i] = source]
  /\ KeysHold(live'.source)
  /\ meddled' = TRUE
  /\ UNCHANGED <<inputs, candidate, pc, report, stale, complete, slip>>

Next ==
  \/ Recover \/ Restore \/ DoNotRestore \/ Prune \/ PruneFails \/ DoNotPrune
  \/ Open \/ DoNotOpen \/ Judge \/ Install
  \/ ReadBack \/ RollBack \/ ReadBackFails \/ Fail \/ Age
  \/ \E r \in Row : Use(r)
  \/ \E i \in Id : UseSource(i)

Spec == Init /\ [][Next]_vars

-----------------------------------------------------------------------------
(* Properties *)

(* The variables have their types, and no database holds two sources with  *)
(* one name or one URL that its UNIQUE constraints forbid.                 *)
TypeOK ==
  /\ pc \in Phase
  /\ \A flag \in {healthy, restored, opened, pruned, stale, complete, slip, meddled} :
       flag \in BOOLEAN
  /\ \A db \in {saved, candidate, live} \ {None} :
       /\ db.source \in [Id -> Source \cup {None}]
       /\ db.row \in [Row -> {"none", "saved", "altered"}]
       /\ db.schema \in {"old", "current", "other"}
       /\ db.stray \in BOOLEAN
  /\ candidate # None => KeysHold(candidate.source)

(* A catalog that was installed is the snapshot, row for row; or loss was  *)
(* allowed, and then every remaining row is as it was, nothing protected   *)
(* is gone, and the sources are the snapshot's, fewer of them, or exactly  *)
(* those with the manifest applied.                                        *)
NothingLostUnasked ==
  /\ pc = "installed" => live = saved
  /\ pc = "installed_with_loss" =>
       /\ mode = "loss" /\ live.schema = saved.schema
       /\ \A r \in Row : /\ live.row[r] \in {"none", "saved"}
                          /\ Kind[r] = "feed_items" => live.row[r] = "saved"
       /\ \/ \A i \in Id : live.source[i] \in {saved.source[i], None}
          \/ case.manifest # {} /\ Buildable /\ live.source = Transformed
       /\ ReferencesHold(live)

(* Restoring the sources with a manifest keeps every source and its id,    *)
(* gives each feed a source with its name and URL, and changes a URL only  *)
(* to one of the manifest's that no source had.                            *)
ReseededSoundly ==
  restored =>
    /\ Present(candidate.source) = Present(saved.source)
    /\ ListsManifest(candidate)
    /\ \A i \in Present(saved.source) :
         \/ candidate.source[i].url = saved.source[i].url
         \/ \E feed \in case.manifest :
              candidate.source[i].url = feed.url /\ HasUrl(feed.url) = {}

(* What was approved is rolled back only because the read-back failed, a   *)
(* run grew stale or somebody used the catalog, or because the manifest    *)
(* cannot be applied to the snapshot, which only the read-back insists on. *)
RollBackIsExplained ==
  pc = "rolled_back" =>
    slip \/ meddled \/ (case.manifest # {} /\ ~Buildable)

(* A complete recovery of a sound catalog whose schema is current is sent  *)
(* to review only because an unfinished run was stale when the candidate   *)
(* was opened.  (Opening migrates an older schema, and then the candidate  *)
(* is not the snapshot.)                                                   *)
CompleteIsApproved ==
  /\ pc = "review" /\ complete /\ healthy /\ ~slip
  /\ unreadable = {} /\ saved.schema = "current"
  /\ ReferencesHold(saved) /\ Restorable
  => stale /\ \E r \in Running : candidate.row[r] = "altered"

=============================================================================
