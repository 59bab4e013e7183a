----------------------- MODULE CatalogSnapshotProofs -----------------------
(***************************************************************************)
(* An accepted snapshot is the catalog at one moment, for any number of    *)
(* pages and writes.  The argument: a file whose stamp is unchanged has    *)
(* the pages that were read; a file whose stamp has changed never gets the *)
(* old one back; so at the moment when the set of files is compared,       *)
(* either the copies are what is there, or the comparison of the stamps    *)
(* that follows is bound to fail.                                          *)
(***************************************************************************)
EXTENDS CatalogSnapshot, TLAPS

(* Stamps are given out in order.                                          *)
StampInv ==
  \A f \in File :
    /\ file[f] # None => file[f].stamp <= clock
    /\ stamp[f] # None => stamp[f] <= clock

(* The log is copied after the database.                                   *)
OrderInv == pc \in {"open", "read"} /\ now = "wal" => stamp["db"] # None

Unread(f) == IF pc = "read" /\ now = f THEN left ELSE {}

(* What was read of a file that has not changed is what the file holds.    *)
CopyInv ==
  pc \notin {"refused", "failed"} =>
    \A f \in File : Unchanged(f) =>
      \A p \in Page \ Unread(f) : copy[f][p] = file[f].pages[p]

(* Once the set of files has been compared, the snapshot is good or one of *)
(* the comparisons still to come will refuse it.                           *)
MomentInv ==
  /\ Content(file) \in seen
  /\ pc = "check" /\ now = "db" =>
       \/ Snapshot \in seen
       \/ ~Unchanged("db")
       \/ listed /\ ~Unchanged("wal")
  /\ pc = "check" /\ now = "wal" => Snapshot \in seen \/ ~Unchanged("wal")
  /\ pc = "taken" => Snapshot \in seen

Inv == TypeOK /\ StampInv /\ OrderInv /\ CopyInv /\ MomentInv

-----------------------------------------------------------------------------
(* Pages over pages are pages.                                             *)
LEMMA OverlayType ==
  ASSUME NEW log \in Pages, NEW base \in Pages PROVE Overlay(log, base) \in Pages
  BY DEF Overlay, Pages

(* No page at all is a log that is empty.                                  *)
LEMMA BlankType == Blank \in Pages
  BY DEF Blank, Pages

(* What a catalog holds is pages.                                          *)
LEMMA ContentType ==
  ASSUME NEW f \in [File -> Version \cup {None}], f["db"] # None
  PROVE  Content(f) \in Pages
<1>1. f["db"].pages \in Pages  BY DEF File, Version
<1>2. f["wal"] # None => f["wal"].pages \in Pages  BY DEF File, Version
<1>. QED  BY <1>1, <1>2, OverlayType, BlankType DEF Content

(* Writing a file keeps the files files.                                   *)
LEMMA WriteType ==
  ASSUME TypeOK, NEW f \in File, NEW pages \in Pages, Write(f, pages)
  PROVE  /\ file' \in [File -> Version \cup {None}] /\ file'["db"] # None
         /\ file'[f] = [stamp |-> clock + 1, pages |-> pages]
         /\ \A g \in File : g # f => file'[g] = file[g]
         /\ clock' \in Nat
<1>1. [stamp |-> clock + 1, pages |-> pages] \in Version
  BY DEF TypeOK, Version
<1>2. [stamp |-> clock + 1, pages |-> pages] # None
  BY <1>1, SnapshotAssumption DEF Version, Pages
<1>. QED  BY <1>1, <1>2 DEF TypeOK, Write, File

(* Nothing is copied when the program starts.                              *)
LEMMA InitInv == Init => Inv
<1>. SUFFICES ASSUME Init PROVE Inv  OBVIOUS
<1>1. /\ file \in [File -> Version \cup {None}] /\ file["db"] # None
      /\ file["db"].stamp = 0 /\ file["wal"] = None
  <2>1. [stamp |-> 0, pages |-> [p \in Page |-> 0]] \in Version
    BY DEF Version, Pages
  <2>2. [stamp |-> 0, pages |-> [p \in Page |-> 0]] # None
    BY <2>1, SnapshotAssumption DEF Version, Pages
  <2>. QED  BY <2>1, <2>2 DEF Init, File
<1>2. TypeOK
  BY <1>1, ContentType, BlankType DEF Init, TypeOK, Phase, File
<1>3. StampInv
  <2>1. \A f \in File : stamp[f] = None /\ (file[f] # None => file[f].stamp = 0)
    BY <1>1 DEF Init, File
  <2>2. clock = 0  BY DEF Init
  <2>. QED  BY <2>1, <2>2 DEF StampInv
<1>4. OrderInv  BY DEF Init, OrderInv
<1>5. CopyInv
  <2>1. stamp["db"] = None /\ stamp["wal"] = None  BY DEF Init, File
  <2>2. None # 0  BY SnapshotAssumption
  <2>. QED  BY <1>1, <2>1, <2>2 DEF CopyInv, Unchanged, File
<1>6. MomentInv  BY DEF Init, MomentInv
<1>. QED  BY <1>2, <1>3, <1>4, <1>5, <1>6 DEF Inv

(* A write gives its file a stamp that no copy carries.                    *)
LEMMA WriteStep ==
  ASSUME Inv, NEW f \in File, NEW pages \in Pages, Write(f, pages)
  PROVE  Inv'
<1>. USE DEF Inv
<1>1. /\ file' \in [File -> Version \cup {None}] /\ file'["db"] # None
      /\ file'[f] = [stamp |-> clock + 1, pages |-> pages]
      /\ \A g \in File : g # f => file'[g] = file[g]
      /\ clock' \in Nat
  BY WriteType
<1>2. Content(file') \in Pages  BY <1>1, ContentType
<1>3. TypeOK'  BY <1>1, <1>2 DEF TypeOK, Write, snapshot
<1>4. clock \in Nat /\ clock' = clock + 1  BY DEF TypeOK, Write
<1>5. StampInv'
  BY <1>1, <1>4 DEF StampInv, TypeOK, Write, snapshot, Version
<1>6. OrderInv'  BY DEF OrderInv, Write, snapshot
<1>7. ~Unchanged(f)'
  BY <1>1, <1>4, SnapshotAssumption DEF Unchanged, StampInv, TypeOK, Write, snapshot
<1>8. \A g \in File : Unchanged(g)' => Unchanged(g) /\ g # f
  BY <1>1, <1>7 DEF Unchanged, Write, snapshot
<1>9. CopyInv'
  BY <1>1, <1>8 DEF CopyInv, Unread, Write, snapshot
<1>10. MomentInv'
  <2>1. Snapshot' = Snapshot  BY DEF Snapshot, Write, snapshot
  <2>2. seen \subseteq seen' /\ Content(file)' \in seen'  BY DEF Write, Content, Overlay
  <2>. QED  BY <2>1, <2>2, <1>8 DEF MomentInv, Write, snapshot, File
<1>. QED  BY <1>3, <1>5, <1>6, <1>9, <1>10

(* The log goes: its copy is no longer unchanged, the rest is as it was.   *)
LEMMA CloseStep == Inv /\ Close => Inv'
<1>. SUFFICES ASSUME Inv, Close PROVE Inv'  OBVIOUS
<1>. USE DEF Inv
<1>1. /\ file' \in [File -> Version \cup {None}] /\ file'["db"] # None
      /\ file'["wal"] = None /\ file'["db"] = file["db"]
  BY DEF TypeOK, Close, File
<1>2. Content(file') \in Pages  BY <1>1, ContentType
<1>3. TypeOK'  BY <1>1, <1>2 DEF TypeOK, Close, snapshot
<1>4. StampInv'  BY <1>1 DEF StampInv, Close, snapshot, File
<1>5. OrderInv'  BY DEF OrderInv, Close, snapshot
<1>6. \A g \in File : Unchanged(g)' => Unchanged(g) /\ file'[g] = file[g]
  BY <1>1 DEF Unchanged, Close, snapshot, File
<1>7. CopyInv'  BY <1>6 DEF CopyInv, Unread, Close, snapshot
<1>8. MomentInv'
  <2>1. Snapshot' = Snapshot  BY DEF Snapshot, Close, snapshot
  <2>2. seen \subseteq seen' /\ Content(file)' \in seen'  BY DEF Close, Content, Overlay
  <2>. QED  BY <2>1, <2>2, <1>6 DEF MomentInv, Close, snapshot, File
<1>. QED  BY <1>3, <1>4, <1>5, <1>7, <1>8

(* The writer's steps.                                                     *)
LEMMA WriterStep ==
  ASSUME Inv,
         \/ OpenLog \/ Close
         \/ \E ps \in SUBSET Page \ {{}} : Commit(ps)
         \/ \E p \in Page : Checkpoint(p)
  PROVE  Inv'
<1>. USE DEF Inv
<1>1. \A f \in File : file[f] # None => file[f].pages \in Pages
  BY DEF TypeOK, Version
<1>2. CASE OpenLog  BY <1>2, BlankType, WriteStep DEF OpenLog, File
<1>3. CASE Close  BY <1>3, CloseStep
<1>4. ASSUME NEW ps \in SUBSET Page, Commit(ps) PROVE Inv'
  <2>1. file["wal"].pages \in Pages  BY <1>1, <1>4 DEF Commit, File
  <2>2. PICK start \in BOOLEAN :
          Write("wal", [p \in Page |-> IF p \in ps THEN clock + 1
                                       ELSE IF start THEN None
                                       ELSE file["wal"].pages[p]])
    BY <1>4 DEF Commit
  <2>3. [p \in Page |-> IF p \in ps THEN clock + 1
                        ELSE IF start THEN None
                        ELSE file["wal"].pages[p]] \in Pages
    BY <2>1 DEF Pages, TypeOK
  <2>. QED  BY <2>2, <2>3, WriteStep DEF File
<1>5. ASSUME NEW p \in Page, Checkpoint(p) PROVE Inv'
  <2>1. file["wal"].pages \in Pages /\ file["db"].pages \in Pages
    BY <1>1, <1>5 DEF Checkpoint, File, TypeOK
  <2>2. [file["db"].pages EXCEPT ![p] = file["wal"].pages[p]] \in Pages
    BY <2>1 DEF Pages
  <2>. QED  BY <1>5, <2>2, WriteStep DEF Checkpoint, File
<1>. QED  BY <1>2, <1>3, <1>4, <1>5

(* At the comparison of the set of files, unchanged stamps mean that the   *)
(* snapshot is what the catalog holds.                                     *)
LEMMA SetMoment ==
  ASSUME Inv, pc = "set", SameSet, Unchanged("db"), listed => Unchanged("wal")
  PROVE  Snapshot \in seen
<1>. USE DEF Inv
<1>1. copy["db"] = file["db"].pages
  <2>1. \A p \in Page : copy["db"][p] = file["db"].pages[p]
    BY DEF CopyInv, Unread, File
  <2>2. copy["db"] \in Pages /\ file["db"].pages \in Pages
    BY DEF TypeOK, File, Version
  <2>. QED  BY <2>1, <2>2 DEF Pages
<1>2. listed => copy["wal"] = file["wal"].pages
  <2>1. listed => \A p \in Page : copy["wal"][p] = file["wal"].pages[p]
    BY DEF CopyInv, Unread, File
  <2>2. listed => copy["wal"] \in Pages /\ file["wal"].pages \in Pages
    BY DEF TypeOK, File, Version, SameSet
  <2>. QED  BY <2>1, <2>2 DEF Pages
<1>3. Snapshot = Content(file)
  BY <1>1, <1>2 DEF Snapshot, Content, SameSet, TypeOK
<1>. QED  BY <1>3 DEF MomentInv

(* The steps of snapshot_catalog.                                          *)
LEMMA CopierStep ==
  ASSUME Inv,
         \/ List \/ Open \/ Copied \/ CheckSet \/ CheckVersion \/ Refuse \/ Fail
         \/ \E p \in Page : Read(p)
  PROVE  Inv'
<1>. USE DEF Inv
<1>1. CASE List
  <2>1. Content(file) \in Pages  BY ContentType DEF TypeOK
  <2>2. TypeOK'  BY <1>1, <2>1 DEF TypeOK, List, disk, Phase, File
  <2>. QED  BY <1>1, <2>2
    DEF StampInv, OrderInv, CopyInv, MomentInv, List, disk, Unread, Unchanged, Content
<1>2. CASE Open
  <2>1. file[now].stamp \in Nat /\ now \in File
    BY <1>2 DEF Open, TypeOK, Version
  <2>2. TypeOK'  BY <1>2, <2>1 DEF TypeOK, Open, disk, Phase
  <2>3. StampInv'  BY <1>2, <2>1 DEF StampInv, TypeOK, Open, disk
  <2>4. OrderInv'  BY <1>2, <2>1, SnapshotAssumption DEF OrderInv, TypeOK, Open, disk
  <2>5. CopyInv'
    BY <1>2, <2>1 DEF CopyInv, TypeOK, Open, disk, Unread, Unchanged
  <2>6. MomentInv'  BY <1>2 DEF MomentInv, Open, disk, Content
  <2>. QED  BY <2>2, <2>3, <2>4, <2>5, <2>6
<1>3. ASSUME NEW p \in Page, Read(p) PROVE Inv'
  <2>1. file[now].pages \in Pages /\ now \in File
    BY <1>3 DEF Read, TypeOK, Version
  <2>2. TypeOK'  BY <1>3, <2>1 DEF TypeOK, Read, disk, Phase, Pages
  <2>3. StampInv' /\ OrderInv'  BY <1>3 DEF StampInv, OrderInv, Read, disk
  <2>4. CopyInv'
    BY <1>3, <2>1 DEF CopyInv, TypeOK, Pages, Read, disk, Unread, Unchanged
  <2>5. MomentInv'  BY <1>3 DEF MomentInv, Read, disk, Content
  <2>. QED  BY <2>2, <2>3, <2>4, <2>5
<1>4. CASE Copied
  <2>1. now \in File /\ stamp[now] # None
    BY <1>4, SnapshotAssumption DEF Copied, Unchanged, TypeOK, Version
  <2>2. TypeOK'
    BY <1>4, <2>1 DEF TypeOK, OrderInv, Copied, GoOn, disk, Phase, File
  <2>3. StampInv' /\ OrderInv'
    BY <1>4, <2>1 DEF StampInv, OrderInv, Copied, GoOn, disk
  <2>4. CopyInv'
    BY <1>4 DEF CopyInv, Copied, GoOn, disk, Unread, Unchanged
  <2>5. MomentInv'  BY <1>4 DEF MomentInv, Copied, GoOn, disk, Content
  <2>. QED  BY <2>2, <2>3, <2>4, <2>5
<1>5. CASE CheckSet
  <2>1. TypeOK'  BY <1>5 DEF TypeOK, CheckSet, disk, Phase, File
  <2>2. StampInv' /\ OrderInv'  BY <1>5 DEF StampInv, OrderInv, CheckSet, disk
  <2>3. CopyInv'  BY <1>5 DEF CopyInv, CheckSet, disk, Unread, Unchanged
  <2>4. MomentInv'
    BY <1>5, SetMoment DEF MomentInv, CheckSet, disk, Unchanged, Snapshot, Content
  <2>. QED  BY <2>1, <2>2, <2>3, <2>4
<1>6. CASE CheckVersion
  <2>1. TypeOK'  BY <1>6 DEF TypeOK, CheckVersion, GoOn, disk, Phase, File
  <2>2. StampInv' /\ OrderInv'
    BY <1>6 DEF StampInv, OrderInv, CheckVersion, GoOn, disk
  <2>3. CopyInv'  BY <1>6 DEF CopyInv, CheckVersion, GoOn, disk, Unread, Unchanged
  <2>4. MomentInv'
    BY <1>6 DEF MomentInv, TypeOK, File, CheckVersion, GoOn, disk, Unchanged,
                Snapshot, Content
  <2>. QED  BY <2>1, <2>2, <2>3, <2>4
<1>7. CASE Refuse \/ Fail
  BY <1>7 DEF Refuse, Fail, disk, TypeOK, Phase, StampInv, OrderInv, CopyInv,
              MomentInv, Content
<1>. QED  BY <1>1, <1>2, <1>3, <1>4, <1>5, <1>6, <1>7

(* Every step preserves the invariant.                                     *)
LEMMA StepInv == Inv /\ [Next]_vars => Inv'
<1>1. Inv /\ Next => Inv'
  BY WriterStep, CopierStep DEF Next
<1>2. Inv /\ UNCHANGED vars => Inv'
  BY DEF vars, Inv, TypeOK, StampInv, OrderInv, CopyInv, MomentInv, Unread,
         Unchanged, Snapshot, Content
<1>. QED  BY <1>1, <1>2

(* The variables keep their types.                                         *)
THEOREM TypeCorrect == Spec => []TypeOK
<1>1. Inv => TypeOK  BY DEF Inv
<1>. QED  BY InitInv, StepInv, <1>1, PTL DEF Spec

(* snapshot_catalog: whatever it accepts is what the catalog held at one   *)
(* moment while the copy was made.                                         *)
THEOREM SnapshotsAreMoments == Spec => []SnapshotIsOneMoment
<1>1. Inv => SnapshotIsOneMoment  BY DEF Inv, MomentInv, SnapshotIsOneMoment
<1>. QED  BY InitInv, StepInv, <1>1, PTL DEF Spec

=============================================================================
