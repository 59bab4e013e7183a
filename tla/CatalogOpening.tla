-------------------------- MODULE CatalogOpening --------------------------
(***************************************************************************)
(* Store::open and migrate, run by several processes at once and by        *)
(* several builds of the library: mg-feedr, mg-streamr and the command     *)
(* line link it separately, so an older build may open a catalog that a    *)
(* newer one has upgraded, and a migration may have been edited after a    *)
(* build that contained it was used.  A migration is named by its          *)
(* checksum; the schema is the set of tables.  An error returns the        *)
(* process to "idle", from where it may open again.                        *)
(***************************************************************************)
EXTENDS Naturals, Sequences

CONSTANTS Proc,     \* processes
          Build,    \* builds of the library: sequences of migrations
          Tables,   \* the tables each migration creates
          Legacy,   \* catalogs that may be found, as [ledger, schema]
          Free,     \* nobody has SQLite's write lock
          None      \* no checksum is recorded; nothing was found

VARIABLES
  lock,     \* the process whose transaction has the write lock
  ledger,   \* schema_migrations: the checksum of each version, or None
  schema,   \* the tables in the catalog
  phase,    \* where each process is in Store::open
  build,    \* the build it runs while it opens and has opened
  work      \* its uncommitted ledger and the tables it has created

openingVars == <<lock, ledger, schema, phase, build, work>>

Migration == UNION {{b[v] : v \in DOMAIN b} : b \in Build}
NoWork    == [ledger |-> <<>>, made |-> {}]
Phase     == {"idle", "look", "apply", "migrated", "open", "broken"}

(* No two versions create the same table, a catalog that was found has no  *)
(* table of a version it does not record, and the checksums it records are *)
(* those of statements that were run.                                      *)
ASSUME OpeningAssumption ==
  /\ Free \notin Proc
  /\ None \notin Migration
  /\ \A b \in Build : b \in Seq(Migration)
  /\ \A b \in Build, c \in Build : \A v \in DOMAIN b, w \in DOMAIN c :
       v # w => Tables[b[v]] \cap Tables[c[w]] = {}
  /\ \A l \in Legacy :
       /\ l.ledger \in Seq(Migration \cup {None})
       /\ \A v \in DOMAIN l.ledger :
            l.ledger[v] # None => Tables[l.ledger[v]] \subseteq l.schema
       /\ \A b \in Build : \A v \in DOMAIN b :
            v > Len(l.ledger) => Tables[b[v]] \cap l.schema = {}

OpeningInit ==
  /\ lock = Free
  /\ \E l \in Legacy : ledger = l.ledger /\ schema = l.schema
  /\ phase = [p \in Proc |-> "idle"]
  /\ build = [p \in Proc |-> <<>>]
  /\ work = [p \in Proc |-> NoWork]

Goto(p, from, to) == phase[p] = from /\ phase' = [phase EXCEPT ![p] = to]

(* Mutant of Begin: BEGIN DEFERRED, so the ledger is read without the lock *)
(* and the first statement that writes takes it.                           *)
BeginDeferred(p) ==
  /\ Goto(p, "idle", "look")
  /\ \E b \in Build : build' = [build EXCEPT ![p] = b]
  /\ UNCHANGED <<lock, ledger, schema, work>>

(* BEGIN IMMEDIATE.  While another process has the lock, the busy timeout  *)
(* is an error and leaves everything as it is.                             *)
Begin(p) ==
  /\ lock = Free /\ lock' = p
  /\ Goto(p, "idle", "look")
  /\ \E b \in Build : build' = [build EXCEPT ![p] = b]
  /\ UNCHANGED <<ledger, schema, work>>

(* Mutant of Verified: only the tables are looked at.                      *)
VerifiedByTables(b) ==
  \A v \in DOMAIN ledger : v \in DOMAIN b /\ Tables[b[v]] \subseteq schema

(* Every recorded version is one of the build's.  Its checksum is the      *)
(* build's, or none was recorded and the tables are there.                 *)
Verified(b) ==
  \A v \in DOMAIN ledger :
    /\ v \in DOMAIN b
    /\ \/ ledger[v] = b[v]
       \/ ledger[v] = None /\ Tables[b[v]] \subseteq schema

(* The ledger with the missing checksums filled in.                        *)
Backfilled(b) ==
  [v \in DOMAIN ledger |-> IF ledger[v] = None THEN b[v] ELSE ledger[v]]

Look(p) ==
  /\ Goto(p, "look", "apply")
  /\ Verified(build[p])
  /\ work' = [work EXCEPT ![p] = [ledger |-> Backfilled(build[p]), made |-> {}]]
  /\ UNCHANGED <<lock, ledger, schema, build>>

(* The next migration of the build; executing it takes the lock if the     *)
(* transaction does not have it yet.                                       *)
Pending(p) ==
  /\ phase[p] = "apply"
  /\ Len(work[p].ledger) < Len(build[p])
  /\ lock \in {Free, p}

NextMigration(p) == build[p][Len(work[p].ledger) + 1]
CanCreate(p) == Tables[NextMigration(p)] \cap (schema \cup work[p].made) = {}

Release(p) == lock' = IF lock = p THEN Free ELSE lock

(* A table that exists already is an error of the statement.               *)
Apply(p) ==
  /\ Pending(p)
  /\ IF CanCreate(p)
     THEN /\ lock' = p
          /\ work' = [work EXCEPT ![p] =
               [ledger |-> Append(@.ledger, NextMigration(p)),
                made   |-> @.made \cup Tables[NextMigration(p)]]]
          /\ UNCHANGED phase
     ELSE /\ Release(p)
          /\ work' = [work EXCEPT ![p] = NoWork]
          /\ phase' = [phase EXCEPT ![p] = "broken"]
  /\ UNCHANGED <<ledger, schema, build>>

CommitMigrations(p) ==
  /\ Goto(p, "apply", "migrated")
  /\ Len(work[p].ledger) = Len(build[p])
  /\ lock \in {Free, p} /\ lock' = Free
  /\ ledger' = work[p].ledger
  /\ schema' = schema \cup work[p].made
  /\ work' = [work EXCEPT ![p] = NoWork]
  /\ UNCHANGED build

(* WAL mode, the privacy of the sidecars, stale runs: none is undone when  *)
(* a later one fails, and the migrations stay committed.                   *)
Finish(p) ==
  /\ Goto(p, "migrated", "open")
  /\ UNCHANGED <<lock, ledger, schema, build, work>>

(* A refusal, an error of any statement, the end of the process, or the    *)
(* Store being dropped: SQLite rolls back what was not committed.          *)
Leave(p) ==
  /\ phase[p] \in {"look", "apply", "migrated", "open"}
  /\ phase' = [phase EXCEPT ![p] = "idle"]
  /\ build' = [build EXCEPT ![p] = <<>>]
  /\ work' = [work EXCEPT ![p] = NoWork]
  /\ Release(p)
  /\ UNCHANGED <<ledger, schema>>

OpenStep(p) ==
  Begin(p) \/ Look(p) \/ Apply(p) \/ CommitMigrations(p) \/ Finish(p)

-----------------------------------------------------------------------------
(* Properties *)

OpeningTypeOK ==
  /\ lock \in Proc \cup {Free}
  /\ ledger \in Seq(Migration \cup {None})
  /\ phase \in [Proc -> Phase]
  /\ \A p \in Proc :
       build[p] \in Build \cup {<<>>} /\ (phase[p] # "idle" => build[p] \in Build)

Migrated(p) == phase[p] \in {"migrated", "open"}

(* A process that got through migrate finds the catalog of its build: the  *)
(* ledger records its migrations with their checksums, and their tables    *)
(* are there, whatever other builds have opened the catalog before or      *)
(* since: "a rewritten migration must be refused"                          *)
(* (tests/migration_contract.rs).                                          *)
OpenedFits ==
  \A p \in Proc : Migrated(p) =>
    \A v \in DOMAIN build[p] :
      /\ v \in DOMAIN ledger /\ ledger[v] = build[p][v]
      /\ Tables[build[p][v]] \subseteq schema

(* No migration meets a table that is already there: two opens of one      *)
(* catalog never both run it ("two first-time opens could otherwise both   *)
(* observe an empty ledger and race", src/lib.rs:1957).                    *)
NothingCreatedTwice == \A p \in Proc : phase[p] # "broken"

=============================================================================
