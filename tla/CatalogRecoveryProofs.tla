----------------------- MODULE CatalogRecoveryProofs -----------------------
(***************************************************************************)
(* Installing a recovered catalog, for any number of sidecars and of uses  *)
(* by other processes.  The invariant says for each phase where each file  *)
(* is: first the database, which holds whatever others do, then the        *)
(* sidecars, as long as every write was one that the code could notice.    *)
(***************************************************************************)
EXTENDS CatalogRecovery, TLAPS

(* The original database has not been replaced.                            *)
Before == {"check", "archive", "install", "unarchive", "refused"}

(* The recovery ended half way, before or after that.                      *)
HalfWay == {"incomplete", "dead"}

Undoing == {"unarchive", "unlink", "unquarantine"}
Linking == {"link", "clean", "unlink", "unconfirmed", "uncleaned"}

(* Files have a second name while the copies are linked, and after an undo *)
(* loop that failed.                                                       *)
SecondNames ==
  /\ pc \notin Undoing \cup HalfWay => ~failed
  /\ pc \in {"link", "clean"} => twice = done
  /\ pc = "unlink" /\ ~failed => twice = todo
  /\ pc \notin Linking \cup HalfWay /\ ~failed => twice = {}

(* Where the database is.                                                  *)
DatabaseInv ==
  /\ pc \in Before => live["db"] = "original" /\ "db" \notin todo \cup done
  /\ pc \in {"readback", "stage", "installed"} => live["db"] = "candidate"
  /\ pc = "quarantine" =>
       \/ "db" \in todo /\ done = {} /\ live["db"] = "candidate"
       \/ "db" \notin todo /\ aside["db"] = "candidate"
  /\ pc \in {"link", "unlink"} => aside["db"] = "candidate"
  /\ pc = "unquarantine" /\ "db" \in todo => aside["db"] = "candidate"
  /\ aside["db"] \in {None, "candidate"}
  /\ pc \notin Before \cup HalfWay => live["db"] # "original"

(* A write to the original that could be noticed was noticed.              *)
EditedInv ==
  "original" \in edited /\ ~late =>
    pc \in (Before \ {"install"}) \cup HalfWay /\ live["db"] = "original"

(* The database is where it was; its sidecars are on their way to the      *)
(* recovery directory or back.                                             *)
BeforeInv ==
  /\ pc \in Before => \A n \in Sidecar : live[n] \in {"original", None}
  /\ pc \in {"check", "refused"} /\ edited = {} => \A n \in snap : live[n] # None
  /\ pc \in {"archive", "install"} /\ edited = {} =>
       \A n \in snap : live[n] # None \/ n \in done
  /\ pc = "unarchive" /\ ~failed /\ edited = {} =>
       \A n \in snap : live[n] # None \/ n \in todo
  /\ pc = "install" /\ ~late => edited = {} /\ \A n \in Sidecar : live[n] = None

Restored == {"db"} \cup snap

(* Nothing but copies of the snapshot, or what somebody created meanwhile. *)
Vacated == live["db"] = "foreign" \/ live = Nothing

Linked(names) ==
  /\ "db" \in names
  /\ live = [n \in Name |-> IF n \in names THEN "restored" ELSE None]

CandidateWhole ==
  live["db"] = "candidate" /\ \A n \in Sidecar : live[n] \in {None, "candidate"}

(* The candidate is there, or is moved aside and back.                     *)
AfterInv ==
  /\ pc = "readback" => live = [Nothing EXCEPT !["db"] = "candidate"]
  /\ pc = "stage" => CandidateWhole
  /\ pc = "quarantine" =>
       /\ "db" \in todo => todo = Present(live) /\ CandidateWhole
       /\ "db" \notin todo => "db" \in done /\ live["db"] \in {None, "foreign"}
       /\ \A n \in Sidecar : live[n] \in {None, "candidate"} /\ (live[n] # None => n \in todo)
       /\ Present(staged) = Restored
  /\ \A n \in Name : aside[n] \in {None, "candidate"}
  /\ pc = "link" =>
       /\ todo \cup done = Restored /\ todo \cap done = {}
       /\ (done = {} /\ Vacated) \/ Linked(done)
  /\ pc = "clean" => Linked(Restored) /\ done = Restored
  /\ pc = "unlink" /\ ~failed => (todo = {} /\ Vacated) \/ Linked(todo)
  /\ pc = "unquarantine" /\ ~failed =>
       \/ "db" \in todo /\ live["db"] = "foreign"
       \/ /\ "db" \in todo /\ live["db"] = None
          /\ \A n \in Sidecar : live[n] \in {None, "candidate"}
       \/ todo = {} /\ CandidateWhole
  /\ pc \in Good => Whole /\ live["db"] # None

Inv ==
  /\ TypeOK
  /\ SecondNames
  /\ DatabaseInv
  /\ EditedInv
  /\ SidecarsAreKept
  /\ BeforeInv
  /\ (~late => AfterInv)

-----------------------------------------------------------------------------
(* The database is one of the files.                                       *)
LEMMA DbName == "db" \in Name /\ None \notin Catalog
<1>1. 1 \in DOMAIN Order  BY RecoveryAssumption
<1>. QED  BY <1>1, RecoveryAssumption DEF Name

(* It comes first.                                                         *)
LEMMA DbPrecedes == ASSUME NEW n \in Sidecar PROVE Precedes("db", n)
<1>1. PICK i \in DOMAIN Order : n = Order[i]  BY DEF Sidecar, Name
<1>2. 1 \in DOMAIN Order /\ i # 1 /\ i \in Nat \ {0}
  BY <1>1, RecoveryAssumption DEF Sidecar
<1>. QED  BY <1>1, <1>2, RecoveryAssumption DEF Precedes

(* Loops that do something begin with the database, and loops that undo    *)
(* something end with it.                                                  *)
LEMMA DbFirst ==
  ASSUME NEW n \in Name, First(n), "db" \in todo PROVE n = "db"
  BY DbPrecedes DEF First, Sidecar

LEMMA DbLast ==
  ASSUME Last("db"), todo \subseteq Name PROVE todo = {"db"}
  BY DbPrecedes DEF Last, Sidecar

(* The variables keep their types.                                         *)
LEMMA TypeStep == TypeOK /\ DatabaseInv /\ BeforeInv /\ [Next]_vars => TypeOK'
<1>. SUFFICES ASSUME TypeOK, DatabaseInv, BeforeInv, [Next]_vars PROVE TypeOK'  OBVIOUS
<1>. USE DbName, RecoveryAssumption DEF TypeOK, Good, Over, Present, Nothing, File, Catalog, Sidecar, disk, loop, world, Goto, LoopOver, Handled, First, Last
<1>1. CASE Check  BY <1>1 DEF Check
<1>2. CASE CheckRefuses  BY <1>2 DEF CheckRefuses
<1>3. ASSUME NEW n \in Name, Archive(n) PROVE TypeOK'
  <2>1. live[n] = "original"  BY <1>3 DEF Archive, DatabaseInv, BeforeInv, Before
  <2>. QED  BY <1>3, <2>1 DEF Archive
<1>4. CASE Recheck  BY <1>4 DEF Recheck
<1>5. CASE Install  BY <1>5 DEF Install
<1>6. CASE InstallationError  BY <1>6 DEF InstallationError
<1>7. ASSUME NEW n \in Name, Unarchive(n) PROVE TypeOK'
  <2>1. archived[n] \in {"original", None}  OBVIOUS
  <2>2. CASE PutBack(n, archived, archived')  BY <1>7, <2>1, <2>2 DEF Unarchive, PutBack
  <2>3. CASE PutBackFails(archived, archived')  BY <1>7, <2>3 DEF Unarchive, PutBackFails
  <2>. QED  BY <1>7, <2>2, <2>3 DEF Unarchive
<1>8. CASE Unarchived  BY <1>8 DEF Unarchived
<1>9. CASE ReadBack  BY <1>9 DEF ReadBack
<1>10. CASE Stage  BY <1>10 DEF Stage
<1>11. CASE StageFails  BY <1>11 DEF StageFails
<1>12. ASSUME NEW n \in Name, Quarantine(n) PROVE TypeOK'
  BY <1>12 DEF Quarantine
<1>13. CASE Quarantined  BY <1>13 DEF Quarantined
<1>14. CASE QuarantineFails  BY <1>14 DEF QuarantineFails
<1>15. ASSUME NEW n \in Name, Link(n) PROVE TypeOK'
  BY <1>15 DEF Link
<1>16. CASE LinkFails  BY <1>16 DEF LinkFails
<1>17. ASSUME NEW n \in Name, Unlink(n) PROVE TypeOK'
  BY <1>17 DEF Unlink
<1>18. CASE Unlinked  BY <1>18 DEF Unlinked
<1>19. ASSUME NEW n \in Name, Unquarantine(n) PROVE TypeOK'
  BY <1>19 DEF Unquarantine, PutBack, PutBackFails
<1>20. CASE Unquarantined  BY <1>20 DEF Unquarantined
<1>21. CASE Sync  BY <1>21 DEF Sync
<1>22. CASE Clean  BY <1>22 DEF Clean
<1>23. CASE CleanFails  BY <1>23 DEF CleanFails
<1>24. CASE Crash  BY <1>24 DEF Crash
<1>25. CASE Write  BY <1>25 DEF Write
<1>26. CASE Create  BY <1>26 DEF Create
<1>27. CASE UNCHANGED vars  BY <1>27 DEF vars
<1>. QED
  BY <1>1, <1>2, <1>3, <1>4, <1>5, <1>6, <1>7, <1>8, <1>9, <1>10, <1>11, <1>12, <1>13, <1>14, <1>15, <1>16, <1>17, <1>18, <1>19, <1>20, <1>21, <1>22, <1>23, <1>24, <1>25, <1>26, <1>27 DEF Next

(* Second names come and go with the links.                                *)
LEMMA SecondNamesStep == Inv /\ [Next]_vars => SecondNames'
<1>. SUFFICES ASSUME Inv, [Next]_vars PROVE SecondNames'  OBVIOUS
<1>. USE DEF Inv, TypeOK, SecondNames, First, Last, Good, Before, HalfWay, Undoing, Linking, Goto, LoopOver, Handled, disk, loop, world
<1>1. CASE Check  BY <1>1 DEF Check
<1>2. CASE CheckRefuses  BY <1>2 DEF CheckRefuses
<1>3. ASSUME NEW n \in Name, Archive(n) PROVE SecondNames'
  BY <1>3 DEF Archive
<1>4. CASE Recheck  BY <1>4 DEF Recheck
<1>5. CASE Install  BY <1>5 DEF Install
<1>6. CASE InstallationError  BY <1>6 DEF InstallationError
<1>7. ASSUME NEW n \in Name, Unarchive(n) PROVE SecondNames'
  BY <1>7 DEF Unarchive, PutBack, PutBackFails
<1>8. CASE Unarchived  BY <1>8 DEF Unarchived
<1>9. CASE ReadBack  BY <1>9 DEF ReadBack
<1>10. CASE Stage  BY <1>10 DEF Stage
<1>11. CASE StageFails  BY <1>11 DEF StageFails
<1>12. ASSUME NEW n \in Name, Quarantine(n) PROVE SecondNames'
  BY <1>12 DEF Quarantine
<1>13. CASE Quarantined  BY <1>13 DEF Quarantined
<1>14. CASE QuarantineFails  BY <1>14 DEF QuarantineFails
<1>15. ASSUME NEW n \in Name, Link(n) PROVE SecondNames'
  BY <1>15 DEF Link
<1>16. CASE LinkFails  BY <1>16 DEF LinkFails
<1>17. ASSUME NEW n \in Name, Unlink(n) PROVE SecondNames'
  BY <1>17 DEF Unlink
<1>18. CASE Unlinked  BY <1>18 DEF Unlinked
<1>19. ASSUME NEW n \in Name, Unquarantine(n) PROVE SecondNames'
  BY <1>19 DEF Unquarantine, PutBack, PutBackFails
<1>20. CASE Unquarantined  BY <1>20 DEF Unquarantined
<1>21. CASE Sync  BY <1>21 DEF Sync
<1>22. CASE Clean  BY <1>22 DEF Clean
<1>23. CASE CleanFails  BY <1>23 DEF CleanFails
<1>24. CASE Crash  BY <1>24 DEF Crash
<1>25. CASE Write  BY <1>25 DEF Write
<1>26. CASE Create  BY <1>26 DEF Create
<1>27. CASE UNCHANGED vars  BY <1>27 DEF vars
<1>. QED
  BY <1>1, <1>2, <1>3, <1>4, <1>5, <1>6, <1>7, <1>8, <1>9, <1>10, <1>11, <1>12, <1>13, <1>14, <1>15, <1>16, <1>17, <1>18, <1>19, <1>20, <1>21, <1>22, <1>23, <1>24, <1>25, <1>26, <1>27 DEF Next

(* The database goes where it should.                                      *)
LEMMA DatabaseStep == Inv /\ [Next]_vars => DatabaseInv'
<1>. SUFFICES ASSUME Inv, [Next]_vars PROVE DatabaseInv'  OBVIOUS
<1>. USE DbName DEF Inv, TypeOK, DatabaseInv, Nothing, Catalog, Sidecar, Present, First, Last, Good, Before, HalfWay, Undoing, Linking, Goto, LoopOver, Handled, disk, loop, world
<1>1. CASE Check  BY <1>1 DEF Check
<1>2. CASE CheckRefuses  BY <1>2 DEF CheckRefuses
<1>3. ASSUME NEW n \in Name, Archive(n) PROVE DatabaseInv'
  BY <1>3 DEF Archive
<1>4. CASE Recheck  BY <1>4 DEF Recheck
<1>5. CASE Install  BY <1>5 DEF Install
<1>6. CASE InstallationError  BY <1>6 DEF InstallationError
<1>7. ASSUME NEW n \in Name, Unarchive(n) PROVE DatabaseInv'
  BY <1>7 DEF Unarchive, PutBack, PutBackFails
<1>8. CASE Unarchived  BY <1>8 DEF Unarchived
<1>9. CASE ReadBack  BY <1>9 DEF ReadBack
<1>10. CASE Stage  BY <1>10 DEF Stage
<1>11. CASE StageFails  BY <1>11 DEF StageFails
<1>12. ASSUME NEW n \in Name, Quarantine(n) PROVE DatabaseInv'
  BY <1>12, DbFirst DEF Quarantine
<1>13. CASE Quarantined  BY <1>13 DEF Quarantined
<1>14. CASE QuarantineFails  BY <1>14 DEF QuarantineFails
<1>15. ASSUME NEW n \in Name, Link(n) PROVE DatabaseInv'
  BY <1>15 DEF Link
<1>16. CASE LinkFails  BY <1>16 DEF LinkFails
<1>17. ASSUME NEW n \in Name, Unlink(n) PROVE DatabaseInv'
  BY <1>17 DEF Unlink
<1>18. CASE Unlinked  BY <1>18 DEF Unlinked
<1>19. ASSUME NEW n \in Name, Unquarantine(n) PROVE DatabaseInv'
  BY <1>19 DEF Unquarantine, PutBack, PutBackFails
<1>20. CASE Unquarantined  BY <1>20 DEF Unquarantined
<1>21. CASE Sync  BY <1>21 DEF Sync
<1>22. CASE Clean  BY <1>22 DEF Clean
<1>23. CASE CleanFails  BY <1>23 DEF CleanFails
<1>24. CASE Crash  BY <1>24 DEF Crash
<1>25. CASE Write  BY <1>25 DEF Write
<1>26. CASE Create  BY <1>26 DEF Create
<1>27. CASE UNCHANGED vars  BY <1>27 DEF vars
<1>. QED
  BY <1>1, <1>2, <1>3, <1>4, <1>5, <1>6, <1>7, <1>8, <1>9, <1>10, <1>11, <1>12, <1>13, <1>14, <1>15, <1>16, <1>17, <1>18, <1>19, <1>20, <1>21, <1>22, <1>23, <1>24, <1>25, <1>26, <1>27 DEF Next

(* A write that can be noticed keeps the candidate out.                    *)
LEMMA EditedStep == Inv /\ [Next]_vars => EditedInv'
<1>. SUFFICES ASSUME Inv, [Next]_vars PROVE EditedInv'  OBVIOUS
<1>. USE DbName DEF Inv, TypeOK, DatabaseInv, EditedInv, Catalog, Sidecar, Good, Before, HalfWay, Undoing, Linking, Goto, LoopOver, Handled, disk, loop, world
<1>1. CASE Check  BY <1>1 DEF Check
<1>2. CASE CheckRefuses  BY <1>2 DEF CheckRefuses
<1>3. ASSUME NEW n \in Name, Archive(n) PROVE EditedInv'
  BY <1>3 DEF Archive, First
<1>4. CASE Recheck  BY <1>4 DEF Recheck, QuiescedMatches
<1>5. CASE Install  BY <1>5 DEF Install
<1>6. CASE InstallationError  BY <1>6 DEF InstallationError
<1>7. ASSUME NEW n \in Name, Unarchive(n) PROVE EditedInv'
  BY <1>7 DEF Unarchive, PutBack, PutBackFails
<1>8. CASE Unarchived  BY <1>8 DEF Unarchived
<1>9. CASE ReadBack  BY <1>9 DEF ReadBack
<1>10. CASE Stage  BY <1>10 DEF Stage
<1>11. CASE StageFails  BY <1>11 DEF StageFails
<1>12. ASSUME NEW n \in Name, Quarantine(n) PROVE EditedInv'
  BY <1>12 DEF Quarantine
<1>13. CASE Quarantined  BY <1>13 DEF Quarantined
<1>14. CASE QuarantineFails  BY <1>14 DEF QuarantineFails
<1>15. ASSUME NEW n \in Name, Link(n) PROVE EditedInv'
  BY <1>15 DEF Link
<1>16. CASE LinkFails  BY <1>16 DEF LinkFails
<1>17. ASSUME NEW n \in Name, Unlink(n) PROVE EditedInv'
  BY <1>17 DEF Unlink
<1>18. CASE Unlinked  BY <1>18 DEF Unlinked
<1>19. ASSUME NEW n \in Name, Unquarantine(n) PROVE EditedInv'
  BY <1>19 DEF Unquarantine, PutBack, PutBackFails
<1>20. CASE Unquarantined  BY <1>20 DEF Unquarantined
<1>21. CASE Sync  BY <1>21 DEF Sync
<1>22. CASE Clean  BY <1>22 DEF Clean
<1>23. CASE CleanFails  BY <1>23 DEF CleanFails
<1>24. CASE Crash  BY <1>24 DEF Crash
<1>25. CASE Write  BY <1>25 DEF Write
<1>26. CASE Create  BY <1>26 DEF Create
<1>27. CASE UNCHANGED vars  BY <1>27 DEF vars
<1>. QED
  BY <1>1, <1>2, <1>3, <1>4, <1>5, <1>6, <1>7, <1>8, <1>9, <1>10, <1>11, <1>12, <1>13, <1>14, <1>15, <1>16, <1>17, <1>18, <1>19, <1>20, <1>21, <1>22, <1>23, <1>24, <1>25, <1>26, <1>27 DEF Next

(* Sidecars of the original are not lost.                                  *)
LEMMA SidecarsStep == Inv /\ [Next]_vars => SidecarsAreKept'
<1>. SUFFICES ASSUME Inv, [Next]_vars PROVE SidecarsAreKept'  OBVIOUS
<1>. USE DbName DEF Inv, TypeOK, DatabaseInv, SidecarsAreKept, Catalog, Sidecar, Good, Before, HalfWay, Undoing, Linking, Goto, LoopOver, Handled, disk, loop, world
<1>1. CASE Check  BY <1>1 DEF Check
<1>2. CASE CheckRefuses  BY <1>2 DEF CheckRefuses
<1>3. ASSUME NEW n \in Name, Archive(n) PROVE SidecarsAreKept'
  BY <1>3 DEF Archive, First, BeforeInv
<1>4. CASE Recheck  BY <1>4 DEF Recheck
<1>5. CASE Install  BY <1>5 DEF Install
<1>6. CASE InstallationError  BY <1>6 DEF InstallationError
<1>7. ASSUME NEW n \in Name, Unarchive(n) PROVE SidecarsAreKept'
  BY <1>7 DEF Unarchive, PutBack, PutBackFails
<1>8. CASE Unarchived  BY <1>8 DEF Unarchived
<1>9. CASE ReadBack  BY <1>9 DEF ReadBack
<1>10. CASE Stage  BY <1>10 DEF Stage
<1>11. CASE StageFails  BY <1>11 DEF StageFails
<1>12. ASSUME NEW n \in Name, Quarantine(n) PROVE SidecarsAreKept'
  BY <1>12 DEF Quarantine
<1>13. CASE Quarantined  BY <1>13 DEF Quarantined
<1>14. CASE QuarantineFails  BY <1>14 DEF QuarantineFails
<1>15. ASSUME NEW n \in Name, Link(n) PROVE SidecarsAreKept'
  BY <1>15 DEF Link
<1>16. CASE LinkFails  BY <1>16 DEF LinkFails
<1>17. ASSUME NEW n \in Name, Unlink(n) PROVE SidecarsAreKept'
  BY <1>17 DEF Unlink
<1>18. CASE Unlinked  BY <1>18 DEF Unlinked
<1>19. ASSUME NEW n \in Name, Unquarantine(n) PROVE SidecarsAreKept'
  BY <1>19 DEF Unquarantine, PutBack, PutBackFails
<1>20. CASE Unquarantined  BY <1>20 DEF Unquarantined
<1>21. CASE Sync  BY <1>21 DEF Sync
<1>22. CASE Clean  BY <1>22 DEF Clean
<1>23. CASE CleanFails  BY <1>23 DEF CleanFails
<1>24. CASE Crash  BY <1>24 DEF Crash
<1>25. CASE Write  BY <1>25 DEF Write
<1>26. CASE Create  BY <1>26 DEF Create
<1>27. CASE UNCHANGED vars  BY <1>27 DEF vars
<1>. QED
  BY <1>1, <1>2, <1>3, <1>4, <1>5, <1>6, <1>7, <1>8, <1>9, <1>10, <1>11, <1>12, <1>13, <1>14, <1>15, <1>16, <1>17, <1>18, <1>19, <1>20, <1>21, <1>22, <1>23, <1>24, <1>25, <1>26, <1>27 DEF Next

(* Nor are they in the wrong place.                                        *)
LEMMA BeforeStep == Inv /\ [Next]_vars => BeforeInv'
<1>. SUFFICES ASSUME Inv, [Next]_vars PROVE BeforeInv'  OBVIOUS
<1>. USE DbName DEF Inv, TypeOK, DatabaseInv, BeforeInv, Nothing, Catalog, Sidecar, Good, Before, HalfWay, Undoing, Linking, Goto, LoopOver, Handled, disk, loop, world
<1>1. CASE Check  BY <1>1 DEF Check
<1>2. CASE CheckRefuses  BY <1>2 DEF CheckRefuses
<1>3. ASSUME NEW n \in Name, Archive(n) PROVE BeforeInv'
  BY <1>3 DEF Archive
<1>4. CASE Recheck  BY <1>4 DEF Recheck, QuiescedMatches
<1>5. CASE Install  BY <1>5 DEF Install
<1>6. CASE InstallationError  BY <1>6 DEF InstallationError
<1>7. ASSUME NEW n \in Name, Unarchive(n) PROVE BeforeInv'
  BY <1>7, RecoveryAssumption DEF Unarchive, PutBack, PutBackFails, Last, SidecarsAreKept
<1>8. CASE Unarchived  BY <1>8 DEF Unarchived
<1>9. CASE ReadBack  BY <1>9 DEF ReadBack
<1>10. CASE Stage  BY <1>10 DEF Stage
<1>11. CASE StageFails  BY <1>11 DEF StageFails
<1>12. ASSUME NEW n \in Name, Quarantine(n) PROVE BeforeInv'
  BY <1>12 DEF Quarantine
<1>13. CASE Quarantined  BY <1>13 DEF Quarantined
<1>14. CASE QuarantineFails  BY <1>14 DEF QuarantineFails
<1>15. ASSUME NEW n \in Name, Link(n) PROVE BeforeInv'
  BY <1>15 DEF Link
<1>16. CASE LinkFails  BY <1>16 DEF LinkFails
<1>17. ASSUME NEW n \in Name, Unlink(n) PROVE BeforeInv'
  BY <1>17 DEF Unlink
<1>18. CASE Unlinked  BY <1>18 DEF Unlinked
<1>19. ASSUME NEW n \in Name, Unquarantine(n) PROVE BeforeInv'
  BY <1>19 DEF Unquarantine, PutBack, PutBackFails
<1>20. CASE Unquarantined  BY <1>20 DEF Unquarantined
<1>21. CASE Sync  BY <1>21 DEF Sync
<1>22. CASE Clean  BY <1>22 DEF Clean
<1>23. CASE CleanFails  BY <1>23 DEF CleanFails
<1>24. CASE Crash  BY <1>24 DEF Crash
<1>25. CASE Write  BY <1>25 DEF Write
<1>26. CASE Create  BY <1>26 DEF Create
<1>27. CASE UNCHANGED vars  BY <1>27 DEF vars
<1>. QED
  BY <1>1, <1>2, <1>3, <1>4, <1>5, <1>6, <1>7, <1>8, <1>9, <1>10, <1>11, <1>12, <1>13, <1>14, <1>15, <1>16, <1>17, <1>18, <1>19, <1>20, <1>21, <1>22, <1>23, <1>24, <1>25, <1>26, <1>27 DEF Next

(* What nobody disturbed is where it should be.                            *)
LEMMA AfterStep == Inv /\ ~late' /\ [Next]_vars => AfterInv'
<1>. SUFFICES ASSUME Inv, ~late', [Next]_vars PROVE AfterInv'  OBVIOUS
<1>. USE DbName DEF Inv, AfterInv, TypeOK, DatabaseInv, BeforeInv, Restored, Vacated, Linked, CandidateWhole, Whole, Nothing, Catalog, Sidecar, Good, Before, HalfWay, Undoing, Linking, Goto, LoopOver, Handled, disk, loop, world
<1>1. CASE Check  BY <1>1 DEF Check
<1>2. CASE CheckRefuses  BY <1>2 DEF CheckRefuses
<1>3. ASSUME NEW n \in Name, Archive(n) PROVE AfterInv'
  BY <1>3 DEF Archive
<1>4. CASE Recheck  BY <1>4 DEF Recheck
<1>5. CASE Install
  <2>1. \A n \in Name : live'[n] = IF n = "db" THEN "candidate" ELSE None
    BY <1>5 DEF Install
  <2>2. live' = [Nothing EXCEPT !["db"] = "candidate"]
    BY <1>5, <2>1 DEF Install
  <2>. QED  BY <1>5, <2>2 DEF Install
<1>6. CASE InstallationError  BY <1>6 DEF InstallationError
<1>7. ASSUME NEW n \in Name, Unarchive(n) PROVE AfterInv'
  BY <1>7 DEF Unarchive, PutBack, PutBackFails
<1>8. CASE Unarchived  BY <1>8 DEF Unarchived
<1>9. CASE ReadBack
  <2>1. live'["db"] = "candidate" /\ \A n \in Sidecar : live'[n] \in {None, "candidate"}
    BY <1>9 DEF ReadBack
  <2>. QED  BY <1>9, <2>1, RecoveryAssumption DEF ReadBack
<1>10. CASE Stage
  <2>1. Present(staged)' = Restored
    BY <1>10, RecoveryAssumption DEF Stage, Present
  <2>2. "db" \in todo' /\ todo' = Present(live)'
    BY <1>10, RecoveryAssumption DEF Stage, Present
  <2>. QED  BY <1>10, <2>1, <2>2 DEF Stage, Present
<1>11. CASE StageFails  BY <1>11 DEF StageFails
<1>12. ASSUME NEW n \in Name, Quarantine(n) PROVE AfterInv'
  <2>. USE <1>12 DEF Quarantine
  <2>1. "db" \in todo => n = "db"  BY DbFirst
  <2>2. pc' = "quarantine" /\ staged' = staged /\ Present(staged)' = Present(staged)
    BY DEF Present
  <2>3. \A m \in Name : live'[m] = (IF m = n THEN None ELSE live[m])
                        /\ aside'[m] = (IF m = n THEN live[n] ELSE aside[m])
    OBVIOUS
  <2>4. "db" \notin todo' /\ "db" \in done'  BY <2>1
  <2>5. live'["db"] \in {None, "foreign"}  BY <2>1, <2>3
  <2>6. \A m \in Sidecar : live'[m] \in {None, "candidate"} /\ (live'[m] # None => m \in todo')
    BY <2>1, <2>3 DEF Present
  <2>7. live[n] \in {None, "candidate"}  BY <2>1 DEF First
  <2>8. \A m \in Name : aside'[m] \in {None, "candidate"}  BY <2>3, <2>7
  <2>. QED  BY <2>2, <2>4, <2>5, <2>6, <2>8
<1>13. CASE Quarantined  BY <1>13 DEF Quarantined
<1>14. CASE QuarantineFails
  <2>. USE <1>14 DEF QuarantineFails
  <2>1. CASE "db" \in todo  BY <2>1
  <2>2. CASE "db" \notin todo
    <3>1. "db" \in done  BY <2>2
    <3>. QED  BY <2>2, <3>1
  <2>. QED  BY <2>1, <2>2
<1>15. ASSUME NEW n \in Name, Link(n) PROVE AfterInv'
  <2>. USE <1>15 DEF Link
  <2>1. pc' = "link" /\ todo' = todo \ {n} /\ done' = done \cup {n} /\ aside' = aside
    OBVIOUS
  <2>2. \A m \in Name : live'[m] = IF m = n THEN "restored" ELSE live[m]
    OBVIOUS
  <2>3. n \in todo  BY DEF First
  <2>4. CASE done = {} /\ Vacated
    <3>1. n = "db"  BY <2>4, DbFirst
    <3>2. live = Nothing  BY <2>4, <3>1
    <3>3. \A m \in Name : live'[m] = IF m \in done' THEN "restored" ELSE None
      BY <2>1, <2>2, <2>4, <3>1, <3>2
    <3>4. live' = [m \in Name |-> IF m \in done' THEN "restored" ELSE None]  BY <3>3
    <3>5. "db" \in done'  BY <2>1, <3>1
    <3>6. todo' \cup done' = Restored /\ todo' \cap done' = {}  BY <2>1, <2>3, <2>4
    <3>. QED  BY <2>1, <3>4, <3>5, <3>6
  <2>5. CASE Linked(done)
    <3>1. \A m \in Name : live'[m] = IF m \in done' THEN "restored" ELSE None
      BY <2>1, <2>2, <2>5
    <3>2. live' = [m \in Name |-> IF m \in done' THEN "restored" ELSE None]  BY <3>1
    <3>. QED  BY <2>1, <2>3, <2>5, <3>2
  <2>. QED  BY <2>4, <2>5
<1>16. CASE LinkFails  BY <1>16 DEF LinkFails
<1>17. ASSUME NEW n \in Name, Unlink(n) PROVE AfterInv'
  <2>. USE <1>17 DEF Unlink
  <2>1. pc' = "unlink" /\ todo' = todo \ {n} /\ aside' = aside /\ n \in todo
    BY DEF Last
  <2>2. CASE failed'  BY <2>1, <2>2
  <2>3. CASE ~failed'
    <3>1. Linked(todo) /\ ~failed  BY <2>1, <2>3
    <3>2. \A m \in Name : live'[m] = IF m \in todo' THEN "restored" ELSE None
      BY <2>1, <2>3, <3>1
    <3>3. live' = [m \in Name |-> IF m \in todo' THEN "restored" ELSE None]
      BY <2>3, <3>2
    <3>4. CASE n = "db"
      <4>1. todo = {"db"}  BY <3>4, DbLast
      <4>. QED  BY <2>1, <3>2, <3>3, <4>1
    <3>5. CASE n # "db"  BY <2>1, <3>1, <3>3, <3>5
    <3>. QED  BY <3>4, <3>5
  <2>. QED  BY <2>2, <2>3
<1>18. CASE Unlinked
  <2>. USE <1>18, RecoveryAssumption DEF Unlinked, Present
  <2>1. "db" \in todo'  OBVIOUS
  <2>2. ~failed => Vacated  OBVIOUS
  <2>. QED  BY <2>1, <2>2
<1>19. ASSUME NEW n \in Name, Unquarantine(n) PROVE AfterInv'
  <2>. USE <1>19 DEF Unquarantine
  <2>1. pc' = "unquarantine" /\ todo' = todo \ {n} /\ n \in todo  BY DEF Last
  <2>2. \A m \in Name : aside'[m] \in {None, "candidate"}  BY DEF PutBack, PutBackFails
  <2>3. CASE failed'  BY <2>1, <2>2, <2>3
  <2>4. CASE ~failed'
    <3>1. /\ ~failed /\ live[n] = None /\ live' = [live EXCEPT ![n] = aside[n]]
      BY <2>4 DEF PutBack, PutBackFails
    <3>2. CASE n = "db"
      <4>1. todo = {"db"}  BY <3>2, DbLast
      <4>2. live["db"] = None /\ aside["db"] = "candidate"  BY <3>1, <3>2, <4>1
      <4>. QED  BY <2>1, <2>2, <3>1, <3>2, <4>1, <4>2
    <3>3. CASE n # "db"  BY <2>1, <2>2, <3>1, <3>3
    <3>. QED  BY <3>2, <3>3
  <2>. QED  BY <2>3, <2>4
<1>20. CASE Unquarantined  BY <1>20 DEF Unquarantined
<1>21. CASE Sync  BY <1>21 DEF Sync
<1>22. CASE Clean  BY <1>22 DEF Clean
<1>23. CASE CleanFails  BY <1>23 DEF CleanFails
<1>24. CASE Crash  BY <1>24 DEF Crash
<1>25. CASE Write
  <2>. USE <1>25 DEF Write, Openable
  <2>1. /\ live["db"] # None /\ Whole /\ live'["db"] = live["db"] /\ AfterInv
        /\ pc' = pc /\ pc \notin {"install", "readback", "stage", "quarantine"}
        /\ live["db"] \in edited' /\ twice = {}
        /\ UNCHANGED <<snap, todo, done, staged, aside, failed>>
    OBVIOUS
  <2>2. \A n \in Sidecar : live'[n] \in {None, live["db"]}  BY <2>1
  <2>3. Whole'  BY <2>1, <2>2
  <2>4. pc = "link" => live["db"] = "foreign" /\ done = {}
    BY <2>1 DEF SecondNames
  <2>5. pc = "unlink" /\ ~failed => live["db"] = "foreign" /\ todo = {}
    BY <2>1 DEF SecondNames
  <2>6. pc # "clean"  BY <2>1 DEF SecondNames
  <2>. QED  BY <2>1, <2>2, <2>3, <2>4, <2>5, <2>6
<1>26. CASE Create  BY <1>26 DEF Create
<1>27. CASE UNCHANGED vars  BY <1>27 DEF vars
<1>. QED
  BY <1>1, <1>2, <1>3, <1>4, <1>5, <1>6, <1>7, <1>8, <1>9, <1>10, <1>11, <1>12, <1>13, <1>14, <1>15, <1>16, <1>17, <1>18, <1>19, <1>20, <1>21, <1>22, <1>23, <1>24, <1>25, <1>26, <1>27 DEF Next

(* A recovery begins with the catalog that was found.                      *)
LEMMA InitInv == Init => Inv
<1>. SUFFICES ASSUME Init PROVE Inv  OBVIOUS
<1>. USE DbName, RecoveryAssumption DEF Init
<1>1. TypeOK
  <2>1. live \in [Name -> File]  BY DEF File, Catalog
  <2>2. archived \in [Name -> {"original", None}] /\ staged \in [Name -> {"restored", None}]
    BY DEF Nothing
  <2>3. aside \in [Name -> File]  BY DEF Nothing, File
  <2>4. 0 \in 0 .. MaxWrites  OBVIOUS
  <2>. QED  BY <2>1, <2>2, <2>3, <2>4 DEF TypeOK
<1>2. SecondNames /\ EditedInv
  BY DEF SecondNames, EditedInv, Undoing, HalfWay, Linking
<1>3. DatabaseInv
  BY DEF DatabaseInv, Before, HalfWay, Nothing
<1>4. SidecarsAreKept
  BY DEF SidecarsAreKept, Sidecar
<1>5. BeforeInv
  BY DEF BeforeInv, Before, Sidecar, Catalog
<1>6. AfterInv
  BY DEF AfterInv, Good, Nothing
<1>. QED  BY <1>1, <1>2, <1>3, <1>4, <1>5, <1>6 DEF Inv

(* Every step preserves the invariant.                                     *)
LEMMA InvStep == Inv /\ [Next]_vars => Inv'
<1>. SUFFICES ASSUME Inv, [Next]_vars PROVE Inv'  OBVIOUS
<1>1. TypeOK'  BY TypeStep DEF Inv
<1>2. SecondNames' /\ DatabaseInv' /\ EditedInv'
  BY SecondNamesStep, DatabaseStep, EditedStep
<1>3. SidecarsAreKept' /\ BeforeInv'  BY SidecarsStep, BeforeStep
<1>4. ~late' => AfterInv'  BY AfterStep
<1>. QED  BY <1>1, <1>2, <1>3, <1>4 DEF Inv

(* The invariant holds throughout.                                         *)
LEMMA Invariance == Spec => []Inv
  BY InitInv, InvStep, PTL DEF Spec

-----------------------------------------------------------------------------

(* The variables keep their types; in the recovery directory are only      *)
(* sidecars of the original, and staged are only copies of the snapshot.   *)
THEOREM TypeCorrect == Spec => []TypeOK
<1>1. Inv => TypeOK  BY DEF Inv
<1>. QED  BY <1>1, Invariance, PTL

(* While the original database is in place, its sidecars are beside it or  *)
(* in the recovery directory, wherever install_candidate stops or dies.    *)
THEOREM SidecarsSurvive == Spec => []SidecarsAreKept
<1>1. Inv => SidecarsAreKept  BY DEF Inv
<1>. QED  BY <1>1, Invariance, PTL

(* install_candidate never replaces a catalog that was written to before   *)
(* it looked for the last time.                                            *)
THEOREM ChangedCatalogSurvives == Spec => []ChangedCatalogIsKept
<1>1. Inv => ChangedCatalogIsKept  BY DEF Inv, EditedInv, ChangedCatalogIsKept
<1>. QED  BY <1>1, Invariance, PTL

(* Whatever was undone on the way, a recovery that says that the catalog   *)
(* is installed, restored or untouched leaves it with its own sidecars.    *)
THEOREM GoodEndsAreWhole == Spec => []WholeWhenDone
<1>1. Inv => WholeWhenDone  BY DEF Inv, AfterInv, WholeWhenDone
<1>. QED  BY <1>1, Invariance, PTL

(* And what it leaves has one name only, so that secure_db opens it.       *)
THEOREM GoodEndsOpen == Spec => []OpensWhenDone
<1>1. Inv => OpensWhenDone
  BY DEF Inv, SecondNames, OpensWhenDone, Openable, Good, Undoing, Linking, HalfWay
<1>. QED  BY <1>1, Invariance, PTL

(* No rename or link of the recovery replaces a database that another      *)
(* process created at the catalog's path.                                  *)
THEOREM CreatedCatalogSurvives == Spec => NothingOverwritten
<1>. DEFINE Kept == live["db"] = "foreign" => live'["db"] = "foreign"
<1>1. Inv /\ [Next]_vars => [Kept]_live
  <2>. SUFFICES ASSUME Inv, Next, live["db"] = "foreign", live' # live
                PROVE  live'["db"] = "foreign"
    BY DEF vars
  <2>. USE DbName DEF Inv, TypeOK, DatabaseInv, disk, Before, Sidecar, Catalog
  <2>1. ASSUME NEW n \in Name, Archive(n) PROVE live'["db"] = "foreign"
    BY <2>1 DEF Archive, First
  <2>2. CASE Install  BY <2>2 DEF Install
  <2>3. ASSUME NEW n \in Name, Unarchive(n) \/ Unquarantine(n)
        PROVE  live'["db"] = "foreign"
    BY <2>3 DEF Unarchive, Unquarantine, PutBack, PutBackFails
  <2>4. CASE ReadBack  BY <2>4 DEF ReadBack
  <2>5. ASSUME NEW n \in Name, Quarantine(n) PROVE live'["db"] = "foreign"
    BY <2>5 DEF Quarantine, First
  <2>6. ASSUME NEW n \in Name, Link(n) \/ Unlink(n) PROVE live'["db"] = "foreign"
    BY <2>6 DEF Link, Unlink
  <2>7. CASE Write  BY <2>7 DEF Write
  <2>8. CASE Create  BY <2>8 DEF Create
  <2>. QED
    BY <2>1, <2>2, <2>3, <2>4, <2>5, <2>6, <2>7, <2>8
    DEF Next, Check, CheckRefuses, Recheck, InstallationError, Unarchived, Stage,
        StageFails, Quarantined, QuarantineFails, LinkFails, Unlinked, Unquarantined,
        Sync, Clean, CleanFails, Crash
<1>. QED  BY <1>1, Invariance, PTL DEF Spec, NothingOverwritten

=============================================================================
