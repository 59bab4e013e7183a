-------------------------- MODULE CatalogSnapshot --------------------------
(***************************************************************************)
(* snapshot_catalog: copying a catalog, its database and its write-ahead   *)
(* log, file by file and block by block, while a process that was not      *)
(* stopped may be writing to it.  The copy is accepted when no file has    *)
(* changed in the end.  The question is whether an accepted copy always    *)
(* holds what the catalog held at one moment.                              *)
(*                                                                         *)
(* The writer is SQLite in WAL mode: a commit appends pages to the log, a  *)
(* checkpoint copies them to the database one at a time, and the last      *)
(* process to close removes the log.  (-shm is rebuilt from the log and    *)
(* -journal is not used in WAL mode.)  A file's stamp stands for its       *)
(* FileVersion: length, times and inode.                                   *)
(***************************************************************************)
EXTENDS Naturals

CONSTANTS Page,      \* pages of the database
          None,      \* no file, no page in the log, no stamp
          MaxWrites  \* bound: how often a file is written

ASSUME SnapshotAssumption ==
  /\ None \notin Nat
  /\ None \notin [stamp : Nat, pages : [Page -> Nat \cup {None}]]
  /\ MaxWrites \in Nat

VARIABLES
  file,    \* the live files "db" and "wal"
  clock,   \* number of writes so far; the last one's stamp
  pc,      \* where snapshot_catalog is
  now,     \* the file it is at
  listed,  \* a log was there when it began
  left,    \* blocks of that file it has yet to read
  copy,    \* what it has copied
  stamp,   \* copied_sources: the stamp of each file as copied
  seen     \* history: what the catalog held since it began

disk     == <<file, clock>>
snapshot == <<pc, now, listed, left, copy, stamp>>
vars     == <<file, clock, pc, now, listed, left, copy, stamp, seen>>

File    == {"db", "wal"}
Pages   == [Page -> Nat \cup {None}]
Version == [stamp : Nat, pages : Pages]
Phase   == {"list", "open", "read", "set", "check", "taken", "refused", "failed"}

Blank == [p \in Page |-> None]

(* What SQLite reads: a page in the log counts before the database's.      *)
Overlay(log, base) == [p \in Page |-> IF log[p] # None THEN log[p] ELSE base[p]]

Content(f) ==
  Overlay(IF f["wal"] = None THEN Blank ELSE f["wal"].pages, f["db"].pages)

Init ==
  /\ file = [f \in File |->
       IF f = "db" THEN [stamp |-> 0, pages |-> [p \in Page |-> 0]] ELSE None]
  /\ clock = 0
  /\ pc = "list" /\ now = "db" /\ listed = FALSE /\ left = {}
  /\ copy = [f \in File |-> Blank]
  /\ stamp = [f \in File |-> None]
  /\ seen = {Content(file)}

-----------------------------------------------------------------------------
(* The writer *)

Write(f, pages) ==
  /\ clock < MaxWrites
  /\ clock' = clock + 1
  /\ file' = [file EXCEPT ![f] = [stamp |-> clock + 1, pages |-> pages]]
  /\ seen' = seen \cup {Content(file')}
  /\ UNCHANGED snapshot

OpenLog == file["wal"] = None /\ Write("wal", Blank)

Checkpointed ==
  \A p \in Page : file["wal"].pages[p] \in {None, file["db"].pages[p]}

(* A transaction changes the pages ps.  When all of the log has been       *)
(* checkpointed, it is written from its start again.                       *)
Commit(ps) ==
  /\ file["wal"] # None
  /\ \E start \in BOOLEAN :
       /\ start => Checkpointed
       /\ Write("wal", [p \in Page |-> IF p \in ps THEN clock + 1
                                       ELSE IF start THEN None
                                       ELSE file["wal"].pages[p]])

Checkpoint(p) ==
  /\ file["wal"] # None
  /\ file["wal"].pages[p] \notin {None, file["db"].pages[p]}
  /\ Write("db", [file["db"].pages EXCEPT ![p] = file["wal"].pages[p]])

(* The log is removed.                                                     *)
Close ==
  /\ file["wal"] # None /\ Checkpointed
  /\ file' = [file EXCEPT !["wal"] = None]
  /\ seen' = seen \cup {Content(file')}
  /\ UNCHANGED <<clock, snapshot>>

-----------------------------------------------------------------------------
(* snapshot_catalog *)

List ==
  /\ pc = "list"
  /\ pc' = "open" /\ now' = "db" /\ listed' = (file["wal"] # None)
  /\ seen' = {Content(file)}
  /\ UNCHANGED <<disk, left, copy, stamp>>

(* copy_private_file_bounded opens its source and notes its version ...    *)
Open ==
  /\ pc = "open" /\ file[now] # None
  /\ pc' = "read" /\ left' = Page
  /\ stamp' = [stamp EXCEPT ![now] = file[now].stamp]
  /\ UNCHANGED <<disk, now, listed, copy, seen>>

(* ... reads it block by block ...                                         *)
Read(p) ==
  /\ pc = "read" /\ p \in left
  /\ file[now] # None
  /\ copy' = [copy EXCEPT ![now][p] = file[now].pages[p]]
  /\ left' = left \ {p}
  /\ UNCHANGED <<disk, pc, now, listed, stamp, seen>>

Unchanged(f) == file[f] # None /\ file[f].stamp = stamp[f]

(* The file that comes after the one at hand.                              *)
GoOn(again, after) ==
  IF now = "db" /\ listed THEN pc' = again /\ now' = "wal"
                          ELSE pc' = after /\ now' = "db"

(* Mutant of Copied: the length of the copy is not compared.               *)
CopiedShort ==
  /\ pc = "read"
  /\ Unchanged(now)
  /\ GoOn("open", "set")
  /\ UNCHANGED <<disk, listed, left, copy, stamp, seen>>

(* ... and looks at its version again.                                     *)
Copied ==
  /\ pc = "read" /\ left = {}
  /\ Unchanged(now)
  /\ GoOn("open", "set")
  /\ UNCHANGED <<disk, listed, left, copy, stamp, seen>>

SameSet == (file["wal"] # None) = listed

(* Mutant of CheckSet: only the files that were copied are looked at.      *)
SkipSet ==
  /\ pc = "set"
  /\ pc' = "check" /\ now' = "db"
  /\ UNCHANGED <<disk, listed, left, copy, stamp, seen>>

CheckSet ==
  /\ pc = "set" /\ SameSet
  /\ pc' = "check" /\ now' = "db"
  /\ UNCHANGED <<disk, listed, left, copy, stamp, seen>>

CheckVersion ==
  /\ pc = "check" /\ Unchanged(now)
  /\ GoOn("check", "taken")
  /\ UNCHANGED <<disk, listed, left, copy, stamp, seen>>

(* One of the comparisons finds a difference.                              *)
Refuse ==
  /\ \/ pc = "open" /\ file[now] = None
     \/ pc \in {"read", "check"} /\ ~Unchanged(now)
     \/ pc = "set" /\ ~SameSet
  /\ pc' = "refused"
  /\ UNCHANGED <<disk, now, listed, left, copy, stamp, seen>>

(* A file is too large, or cannot be read or written.                      *)
Fail ==
  /\ pc \in {"open", "read", "set", "check"}
  /\ pc' = "failed"
  /\ UNCHANGED <<disk, now, listed, left, copy, stamp, seen>>

-----------------------------------------------------------------------------

Next ==
  \/ OpenLog \/ Close
  \/ \E ps \in SUBSET Page \ {{}} : Commit(ps)
  \/ \E p \in Page : Checkpoint(p) \/ Read(p)
  \/ List \/ Open \/ Copied \/ CheckSet \/ CheckVersion \/ Refuse \/ Fail

Spec == Init /\ [][Next]_vars

-----------------------------------------------------------------------------
(* Properties *)

(* The variables have their types; what was read entirely carries a stamp. *)
TypeOK ==
  /\ file \in [File -> Version \cup {None}] /\ file["db"] # None
  /\ clock \in Nat
  /\ pc \in Phase
  /\ now \in File
  /\ listed \in BOOLEAN
  /\ left \subseteq Page
  /\ copy \in [File -> Pages]
  /\ stamp \in [File -> Nat \cup {None}]
  /\ seen \subseteq Pages
  /\ pc \in {"set", "check", "taken"} =>
       left = {} /\ stamp["db"] # None /\ (listed => stamp["wal"] # None)

(* An accepted snapshot holds what the catalog held at one moment while it *)
(* was taken, even though a checkpoint may have been half way and the log  *)
(* may have come, been restarted or gone meanwhile.                        *)
Snapshot == Overlay(IF listed THEN copy["wal"] ELSE Blank, copy["db"])

SnapshotIsOneMoment == pc = "taken" => Snapshot \in seen

=============================================================================
