-------------------------- MODULE CatalogRecovery --------------------------
(***************************************************************************)
(* Installing a recovered catalog: install_candidate, the read-back of     *)
(* what was installed, and restore_snapshot when the read-back is refused. *)
(* A catalog is several files, a database and its SQLite sidecars, which   *)
(* have to be exchanged one rename or link at a time; every one of them    *)
(* can fail, the process can die in between, and a process that the        *)
(* operator forgot to stop can open the catalog at any moment.             *)
(*                                                                         *)
(* A file is named by the catalog it belongs to; a sidecar beside a        *)
(* database it does not belong to is what SQLite must never open.          *)
(***************************************************************************)
EXTENDS Naturals, Sequences

CONSTANTS Order,      \* the catalog's files: the database, then the sidecars
          None,       \* no file
          MaxWrites   \* bound: how often other processes open the catalog

Name    == {Order[i] : i \in DOMAIN Order}
Sidecar == Name \ {"db"}
Catalog == {"original", "candidate", "restored", "foreign"}
File    == Catalog \cup {None}

ASSUME RecoveryAssumption ==
  /\ Order \in Seq(STRING) /\ Order # <<>> /\ Order[1] = "db"
  /\ \A i, j \in DOMAIN Order : Order[i] = Order[j] => i = j
  /\ None \notin Catalog
  /\ MaxWrites \in Nat

VARIABLES
  pc,        \* where the recovery is
  snap,      \* the sidecars that the snapshot holds (and the original had)
  live,      \* the files at the catalog's path
  archived,  \* sidecars in the recovery directory (active-sidecar-N)
  staged,    \* copies of the snapshot in the restore directory
  aside,     \* files moved into the restore directory (previous-N)
  twice,     \* paths of live whose file has a second name there
  todo,      \* files the current loop has yet to handle
  done,      \* files it has handled
  failed,    \* some step of an undo loop failed
  edited,    \* catalogs whose database another process has written to
  writes,    \* number of such writes so far
  late       \* history: one was made when the code could not notice it

disk  == <<live, archived, staged, aside, twice>>
loop  == <<todo, done, failed>>
world == <<edited, writes, late>>
vars  == <<pc, snap, live, archived, staged, aside, twice, todo, done, failed,
           edited, writes, late>>

(* How a recovery ends.  "unsynced" is a snapshot put back whose last sync *)
(* failed, which is reported as a restore that failed.                     *)
Good == {"refused", "installed", "restored", "unrestored"}
Over == Good \cup {"incomplete", "unconfirmed", "uncleaned", "unsynced", "dead"}

Present(files) == {n \in Name : files[n] # None}
Nothing        == [n \in Name |-> None]

(* The snapshot is taken, the candidate is built, verified and approved.   *)
Init ==
  /\ pc = "check"
  /\ snap \in SUBSET Sidecar
  /\ live = [n \in Name |-> IF n = "db" \/ n \in snap THEN "original" ELSE None]
  /\ archived = Nothing /\ staged = Nothing /\ aside = Nothing /\ twice = {}
  /\ todo = {} /\ done = {} /\ failed = FALSE
  /\ edited = {} /\ writes = 0 /\ late = FALSE

Goto(phase) == pc' = phase

(* A loop that does something goes through the files in their order, one   *)
(* that undoes something goes backwards.                                   *)
Precedes(n, m) == \E i, j \in DOMAIN Order : i < j /\ n = Order[i] /\ m = Order[j]
First(n) == n \in todo /\ \A m \in todo : ~Precedes(m, n)
Last(n)  == n \in todo /\ \A m \in todo : ~Precedes(n, m)

(* The loop at hand has dealt with n.                                      *)
Handled(n) == todo' = todo \ {n} /\ done' = done \cup {n}

(* A loop over ns begins.                                                  *)
LoopOver(ns) == todo' = ns /\ done' = {}

-----------------------------------------------------------------------------
(* install_candidate *)

BundleMatches ==
  /\ live = [n \in Name |-> IF n = "db" \/ n \in snap THEN "original" ELSE None]
  /\ edited = {}

Check ==
  /\ pc = "check" /\ BundleMatches
  /\ Goto("archive")
  /\ LoopOver(Present(live) \ {"db"})
  /\ UNCHANGED <<snap, disk, failed, world>>

(* The live files differ from the snapshot, or cannot be read.             *)
CheckRefuses ==
  /\ pc = "check"
  /\ Goto("refused")
  /\ UNCHANGED <<snap, disk, loop, world>>

(* Mutant of Archive: sidecars are deleted.                                *)
ArchiveDrops(n) ==
  /\ pc = "archive" /\ First(n)
  /\ live' = [live EXCEPT ![n] = None]
  /\ Handled(n)
  /\ UNCHANGED <<pc, snap, archived, staged, aside, twice, failed, world>>

Archive(n) ==
  /\ pc = "archive" /\ First(n)
  /\ live[n] # None
  /\ archived' = [archived EXCEPT ![n] = live[n]]
  /\ live' = [live EXCEPT ![n] = None]
  /\ Handled(n)
  /\ UNCHANGED <<pc, snap, staged, aside, twice, failed, world>>

(* Mutant of QuiescedMatches: the second look is left out.                 *)
CandidateFits == live["db"] # None

(* The files are looked at once more, where they are now.                  *)
QuiescedMatches ==
  /\ live = [Nothing EXCEPT !["db"] = "original"]
  /\ edited = {}
  /\ \A n \in Sidecar : archived[n] # None <=> n \in snap

Recheck ==
  /\ pc = "archive" /\ todo = {}
  /\ QuiescedMatches
  /\ Goto("install")
  /\ UNCHANGED <<snap, disk, loop, world>>

(* One rename replaces the database.                                       *)
Install ==
  /\ pc = "install"
  /\ live' = [live EXCEPT !["db"] = "candidate"]
  /\ Goto("readback")
  /\ UNCHANGED <<snap, archived, staged, aside, twice, loop, world>>

(* Mutant of InstallationError: archived sidecars are not put back.        *)
LeaveArchived ==
  /\ pc \in {"archive", "install"}
  /\ Goto("refused")
  /\ UNCHANGED <<snap, disk, loop, world>>

(* A rename failed, or the second look found a difference or failed:       *)
(* installation_error puts back what was archived.                         *)
InstallationError ==
  /\ pc \in {"archive", "install"}
  /\ Goto("unarchive")
  /\ LoopOver(done)
  /\ UNCHANGED <<snap, disk, failed, world>>

-----------------------------------------------------------------------------
(* restore_moved_sidecars and restore_quarantined: a file goes back by a   *)
(* hard link, which never replaces anything, and then loses its other name *)

PutBack(n, from, after) ==
  /\ live[n] = None
  /\ live' = [live EXCEPT ![n] = from[n]]
  /\ \/ after = [from EXCEPT ![n] = None] /\ UNCHANGED <<twice, failed>>
     \/ after = from /\ twice' = twice \cup {n} /\ failed' = TRUE

(* The link fails, because the path is taken or for another reason.        *)
PutBackFails(from, after) ==
  failed' = TRUE /\ after = from /\ UNCHANGED <<live, twice>>

Unarchive(n) ==
  /\ pc = "unarchive" /\ Last(n)
  /\ \/ PutBack(n, archived, archived')
     \/ PutBackFails(archived, archived')
  /\ Handled(n)
  /\ UNCHANGED <<pc, snap, staged, aside, world>>

Unarchived ==
  /\ pc = "unarchive" /\ todo = {}
  /\ Goto(IF failed THEN "incomplete" ELSE "refused")
  /\ UNCHANGED <<snap, disk, loop, world>>

-----------------------------------------------------------------------------
(* Read-back: the installed catalog is opened and compared once more; a    *)
(* catalog that cannot be checkpointed keeps the sidecars this leaves.     *)

ReadBack ==
  /\ pc = "readback"
  /\ \E left \in {{}, Sidecar} : live' =
       [n \in Name |-> IF n \in left /\ live[n] = None THEN live["db"] ELSE live[n]]
  /\ Goto("installed") \/ Goto("stage")
  /\ UNCHANGED <<snap, archived, staged, aside, twice, loop, world>>

(* restore_snapshot: the snapshot is copied beside the catalog, and the    *)
(* files to move out of its way are listed.                                *)
Stage ==
  /\ pc = "stage" /\ live["db"] # None
  /\ staged' = [n \in Name |-> IF n = "db" \/ n \in snap THEN "restored" ELSE None]
  /\ Goto("quarantine")
  /\ LoopOver(Present(live))
  /\ UNCHANGED <<snap, live, archived, aside, twice, failed, world>>

(* Nothing has been moved yet.                                             *)
StageFails ==
  /\ pc = "stage"
  /\ Goto("unrestored")
  /\ UNCHANGED <<snap, disk, loop, world>>

(* Mutant of Quarantine: the quarantine is where the sidecars are          *)
(* archived.                                                               *)
QuarantineInArchive(n) ==
  /\ pc = "quarantine" /\ First(n)
  /\ live[n] # None
  /\ archived' = [archived EXCEPT ![n] = live[n]]
  /\ live' = [live EXCEPT ![n] = None]
  /\ Handled(n)
  /\ UNCHANGED <<pc, snap, aside, staged, twice, failed, world>>

Quarantine(n) ==
  /\ pc = "quarantine" /\ First(n)
  /\ live[n] # None
  /\ aside' = [aside EXCEPT ![n] = live[n]]
  /\ live' = [live EXCEPT ![n] = None]
  /\ Handled(n)
  /\ UNCHANGED <<pc, snap, archived, staged, twice, failed, world>>

Quarantined ==
  /\ pc = "quarantine" /\ todo = {}
  /\ Goto("link")
  /\ LoopOver(Present(staged))
  /\ UNCHANGED <<snap, disk, failed, world>>

QuarantineFails ==
  /\ pc = "quarantine" /\ todo # {}
  /\ Goto("unquarantine")
  /\ LoopOver(done)
  /\ UNCHANGED <<snap, disk, failed, world>>

(* Mutant of Link: the copy replaces what is at the path.                  *)
LinkOver(n) ==
  /\ pc = "link" /\ First(n)
  /\ live' = [live EXCEPT ![n] = "restored"]
  /\ twice' = twice \cup {n}
  /\ Handled(n)
  /\ UNCHANGED <<pc, snap, archived, staged, aside, failed, world>>

(* The copies are linked, not renamed, to the catalog's path.              *)
Link(n) ==
  /\ pc = "link" /\ First(n)
  /\ live[n] = None
  /\ live' = [live EXCEPT ![n] = "restored"]
  /\ twice' = twice \cup {n}
  /\ Handled(n)
  /\ UNCHANGED <<pc, snap, archived, staged, aside, failed, world>>

LinkFails ==
  /\ pc = "link" /\ todo # {}
  /\ Goto("unlink")
  /\ LoopOver(done)
  /\ UNCHANGED <<snap, disk, failed, world>>

(* remove_restored_links: only what still is the staged file is removed.   *)
Unlink(n) ==
  /\ pc = "unlink" /\ Last(n)
  /\ \/ /\ live[n] = "restored"
        /\ live' = [live EXCEPT ![n] = None]
        /\ twice' = twice \ {n}
        /\ UNCHANGED failed
     \/ failed' = TRUE /\ UNCHANGED <<live, twice>>
  /\ Handled(n)
  /\ UNCHANGED <<pc, snap, archived, staged, aside, world>>

Unlinked ==
  /\ pc = "unlink" /\ todo = {}
  /\ Goto("unquarantine")
  /\ LoopOver(Present(aside))
  /\ UNCHANGED <<snap, disk, failed, world>>

Unquarantine(n) ==
  /\ pc = "unquarantine" /\ Last(n)
  /\ \/ PutBack(n, aside, aside')
     \/ PutBackFails(aside, aside')
  /\ Handled(n)
  /\ UNCHANGED <<pc, snap, archived, staged, world>>

(* All is as it was before the restore, and its directory is removed.      *)
Unquarantined ==
  /\ pc = "unquarantine" /\ todo = {}
  /\ IF failed THEN Goto("incomplete") /\ UNCHANGED staged
     ELSE Goto("unrestored") /\ staged' = Nothing
  /\ UNCHANGED <<snap, live, archived, aside, twice, loop, world>>

Sync ==
  /\ pc = "link" /\ todo = {}
  /\ Goto("clean") \/ Goto("unconfirmed")
  /\ UNCHANGED <<snap, disk, loop, world>>

(* Mutant of Clean: the restore directory is kept.                         *)
SkipClean ==
  /\ pc = "clean"
  /\ Goto("restored")
  /\ UNCHANGED <<snap, disk, loop, world>>

(* remove_dir_all on the restore directory, and the last two syncs.        *)
Clean ==
  /\ pc = "clean"
  /\ staged' = Nothing /\ aside' = Nothing /\ twice' = {}
  /\ Goto("restored") \/ Goto("unsynced")
  /\ UNCHANGED <<snap, live, archived, loop, world>>

CleanFails ==
  /\ pc = "clean"
  /\ \E kept \in SUBSET Name :
       /\ staged' = [n \in Name |-> IF n \in kept THEN staged[n] ELSE None]
       /\ twice' = twice \cap kept
  /\ Goto("uncleaned")
  /\ UNCHANGED <<snap, live, archived, aside, loop, world>>

-----------------------------------------------------------------------------
(* What else happens *)

Crash ==
  /\ pc \notin Over
  /\ Goto("dead")
  /\ UNCHANGED <<snap, disk, loop, world>>

(* secure_db refuses files that have a second name.                        *)
Openable == twice = {}

(* The database has the sidecars it needs and none of another catalog.     *)
(* (Writing to a database moves its sidecar's content along.)              *)
Whole ==
  /\ \A n \in Sidecar : live[n] \in {None, live["db"]}
  /\ live["db"] = "original" /\ edited = {} => \A n \in snap : live[n] # None
  /\ live["db"] = "restored" /\ "restored" \notin edited =>
       \A n \in snap : live[n] # None

(* Another process opens the catalog and writes to it; closing it may      *)
(* remove its sidecars or leave some behind.                               *)
Write ==
  /\ writes < MaxWrites
  /\ live["db"] # None /\ Openable
  /\ edited' = edited \cup {live["db"]}
  /\ writes' = writes + 1
  /\ late' = (late \/ ~Whole \/ pc \in {"install", "readback", "stage", "quarantine"})
  /\ \E left \in SUBSET Sidecar : live' =
       [n \in Name |-> CASE n = "db" -> live[n]
                         [] n \in left -> IF live[n] # None THEN live[n] ELSE live["db"]
                         [] OTHER -> None]
  /\ UNCHANGED <<pc, snap, archived, staged, aside, twice, loop>>

(* Opening a catalog that is not there creates an empty one.               *)
Create ==
  /\ writes < MaxWrites
  /\ live["db"] = None
  /\ live' = [live EXCEPT !["db"] = "foreign"]
  /\ writes' = writes + 1
  /\ UNCHANGED <<pc, snap, archived, staged, aside, twice, loop, edited, late>>

Next ==
  \/ Check \/ CheckRefuses \/ Recheck \/ Install
  \/ InstallationError \/ Unarchived
  \/ ReadBack \/ Stage \/ StageFails
  \/ Quarantined \/ QuarantineFails
  \/ LinkFails \/ Unlinked \/ Unquarantined
  \/ \E n \in Name : \/ Archive(n) \/ Unarchive(n) \/ Quarantine(n)
                      \/ Link(n) \/ Unlink(n) \/ Unquarantine(n)
  \/ Sync \/ Clean \/ CleanFails
  \/ Crash \/ Write \/ Create

Spec == Init /\ [][Next]_vars

-----------------------------------------------------------------------------
(* Properties *)

(* The variables have their types.                                         *)
TypeOK ==
  /\ pc \in Over \cup {"check", "archive", "install", "unarchive", "readback",
                       "stage", "quarantine", "link", "unlink", "unquarantine",
                       "clean"}
  /\ snap \subseteq Sidecar
  /\ live \in [Name -> File]
  /\ archived \in [Name -> {"original", None}]
  /\ staged \in [Name -> {"restored", None}]
  /\ aside \in [Name -> File]
  /\ twice \subseteq Name
  /\ todo \subseteq Name /\ done \subseteq Name
  /\ failed \in BOOLEAN
  /\ edited \subseteq Catalog
  /\ writes \in 0 .. MaxWrites
  /\ late \in BOOLEAN

(* A recovery that ends in one of the good ways leaves a database with     *)
(* exactly its own sidecars, whatever failed on the way and was undone.    *)
WholeWhenDone == pc \in Good /\ ~late => Whole

(* A catalog that another process has written to since the snapshot is     *)
(* never replaced by the candidate, if the write came before the first     *)
(* sidecar was moved.                                                      *)
ChangedCatalogIsKept == "original" \in edited /\ ~late => live["db"] = "original"

(* While the original database is in place, each of its sidecars is beside *)
(* it or in the recovery directory, even when the process dies.            *)
SidecarsAreKept ==
  live["db"] = "original" /\ edited = {} =>
    \A n \in snap : "original" \in {live[n], archived[n]}

(* A catalog that another process creates at the path while the original   *)
(* is being put back is not overwritten.                                   *)
NothingOverwritten ==
  [][live["db"] = "foreign" => live'["db"] = "foreign"]_live

(* After a good end the catalog can be opened: secure_db refuses a file    *)
(* that has a second name.                                                 *)
OpensWhenDone == pc \in Good => Openable

(* The catalog can be opened whenever the error message says that the      *)
(* original snapshot was restored.                                         *)
RestoredOpens == pc \in {"restored", "unconfirmed", "uncleaned"} => Openable

=============================================================================
