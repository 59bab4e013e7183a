------------------------ MODULE ArtifactCatalogProofs ------------------------
(* What ArtifactCatalog's safety rests on, for any number of processes,    *)
(* digests and documents.                                                  *)
EXTENDS ArtifactCatalog, TLAPS

-----------------------------------------------------------------------------
(* The inductive invariant *)

(* The phases that hold the write lock are those of its one holder.        *)
LockInv == \A p \in Proc : pc[p] \in Locked <=> lock = p

(* A call that holds no lock has no rows pending; one that has not begun   *)
(* has created no file.                                                    *)
LocalInv ==
  \A p \in Proc :
    /\ pc[p] \notin Locked => pend[p] = {}
    /\ pc[p] \in {"idle", "queued"} => fresh[p] = {}

(* Pending rows have their files; the files that a lock holder may remove  *)
(* have no rows.                                                           *)
FileInv ==
  /\ NoDanglingArtifact
  /\ \A p \in Proc :
       /\ pc[p] \in {"writing", "ready"} => \A h \in pend[p] : file[h] = "good"
       /\ pc[p] \in Locked => fresh[p] \cap rows = {}

(* Stored documents resolve and have no rivals; a document about to be     *)
(* committed will resolve and has no stored rival.                         *)
DocInv ==
  /\ \A c \in owned : c[2] \in rows
  /\ \A d \in docs : RefsOf[d] \subseteq owned
  /\ ImmutableVersions
  /\ \A p \in Proc : pc[p] = "ready" /\ doc[p] # NoDoc =>
       /\ RefsOf[doc[p]] \subseteq owned \cup Owners(p)
       /\ ~RivalStored(p)

(* What a call still has to do, together with what it has done, is what it *)
(* was asked to do; whether it landed is in the catalog.                   *)
CallInv ==
  \A p \in Proc :
    /\ pc[p] # "idle" => reply[p] = "none"
    /\ pc[p] = "queued" => todo[p] = want[p]
    /\ pc[p] = "writing" => want[p] = todo[p] \cup pend[p]
    /\ pc[p] = "ready" => want[p] = pend[p]
    /\ pc[p] = "doubt" => doc[p] # NoDoc /\ (landed[p] => doc[p] \in docs)
    /\ pc[p] \notin {"idle", "doubt"} => ~landed[p]

Inv == TypeOK /\ LockInv /\ LocalInv /\ FileInv /\ DocInv /\ CallInv /\ HonestReply

-----------------------------------------------------------------------------

(* Claims speak of digests, those of the claims that a set of them has.    *)
LEMMA ClaimedDigests ==
  ASSUME NEW claims \in SUBSET Claim
  PROVE  Digests(claims) \in SUBSET Hash /\ \A c \in claims : c[2] \in Digests(claims)
  BY DEF Digests, Claim

(* The catalog starts empty, whatever files lie about.                     *)
LEMMA InitInv == Init => Inv
  BY CatalogAssumption DEF Init, Inv, TypeOK, LockInv, LocalInv, FileInv, DocInv, CallInv,
     HonestReply, NoDanglingArtifact, ImmutableVersions, Locked, Phase, Reply

(* The variables keep their types, and a call's artifacts stay those its   *)
(* document claims.                                                        *)
LEMMA TypeStep == TypeOK /\ [Next]_vars => TypeOK'
<1> SUFFICES ASSUME TypeOK, [Next]_vars PROVE TypeOK'
  OBVIOUS
<1> USE CatalogAssumption DEF TypeOK, Phase, Reply, shared, calls
<1>1. ASSUME NEW p \in Proc, Start(p) PROVE TypeOK'
  <2>1. ASSUME NEW d \in Doc \cup {NoDoc}, NEW claims \in SUBSET Claim, NEW hs \in SUBSET Hash,
               d # NoDoc => claims \subseteq RefsOf[d] /\ hs = Digests(claims),
               Call(p, d, claims, hs)
        PROVE TypeOK'
    BY <2>1 DEF Call
  <2>2. ASSUME NEW h \in Hash, StartFetch(p, h) PROVE TypeOK'
    <3>1. {} \in SUBSET Claim /\ {h} \in SUBSET Hash /\ Call(p, NoDoc, {}, {h})
      BY <2>2 DEF StartFetch
    <3>2. NoDoc \in Doc \cup {NoDoc} /\ ~(NoDoc # NoDoc)
      OBVIOUS
    <3> HIDE DEF TypeOK, CallInv
    <3> QED
      BY ONLY <2>1, <3>1, <3>2
  <2>3. ASSUME NEW d \in Doc, NEW claims \in SUBSET Claim, StartIngest(p, d, claims) PROVE TypeOK'
    BY <2>1, <2>3, ClaimedDigests DEF StartIngest
  <2> QED
    BY <1>1, <2>2, <2>3 DEF Start
<1>2. ASSUME NEW p \in Proc, Step(p) PROVE TypeOK'
  <2>1. CASE Begin(p) \/ Busy(p)
    BY <2>1 DEF Begin, Busy, Return, Goto
  <2>2. ASSUME NEW h \in Hash,
               \/ InstallNew(p, h) \/ InstallFound(p, h)
               \/ InstallRefused(p, h) \/ InstallUnsynced(p, h) \/ Unlink(p, h)
        PROVE TypeOK'
    BY <2>2 DEF InstallNew, InstallFound, InstallRefused, InstallUnsynced, Unlink, Goto
  <2>3. CASE Record(p) \/ Refuse(p) \/ Fail(p)
    BY <2>3 DEF Record, Refuse, Fail, Goto
  <2>4. CASE Commit(p) \/ FetchCommitFails(p) \/ IngestCommitFails(p)
    BY <2>4 DEF Commit, FetchCommitFails, IngestCommitFails, Land, NothingLands, Owners, Return, Goto
  <2>5. CASE ProbeComplete(p) \/ ProbeAbsent(p) \/ ProbeIndeterminate(p) \/ ProbeFails(p)
    BY <2>5 DEF ProbeComplete, ProbeAbsent, ProbeIndeterminate, ProbeFails, Return, Goto
  <2>6. CASE UnlinkFails(p) \/ Rollback(p)
    BY <2>6 DEF UnlinkFails, Rollback, CleanupVerdict, Return
  <2> QED
    BY <1>2, <2>1, <2>2, <2>3, <2>4, <2>5, <2>6 DEF Step
<1>3. ASSUME NEW p \in Proc, Crash(p) PROVE TypeOK'
  BY <1>3 DEF Crash, Return
<1>4. CASE UNCHANGED vars
  BY <1>4 DEF vars
<1> QED
  BY <1>1, <1>2, <1>3, <1>4 DEF Next

(* Only Begin and ProbeAbsent take the lock, and only when it is free.     *)
LEMMA LockStep == TypeOK /\ LockInv /\ [Next]_vars => LockInv'
<1> SUFFICES ASSUME TypeOK, LockInv, [Next]_vars PROVE LockInv'
  OBVIOUS
<1> USE CatalogAssumption DEF TypeOK, Phase, Locked, shared, calls, LockInv
<1>1. ASSUME NEW p \in Proc, Start(p) PROVE LockInv'
  BY <1>1 DEF Start, StartFetch, StartIngest, Call
<1>2. ASSUME NEW p \in Proc, Step(p) \/ Crash(p) PROVE LockInv'
  <2>1. CASE Begin(p)
    BY <2>1 DEF Begin, Goto
  <2>2. CASE Busy(p)
    BY <2>2 DEF Busy, Return
  <2>3. CASE \E h \in Hash : InstallNew(p, h)
    BY <2>3 DEF InstallNew
  <2>4. CASE \E h \in Hash : InstallFound(p, h)
    BY <2>4 DEF InstallFound
  <2>5. CASE \E h \in Hash : InstallRefused(p, h)
    BY <2>5 DEF InstallRefused, Goto
  <2>6. CASE \E h \in Hash : InstallUnsynced(p, h)
    BY <2>6 DEF InstallUnsynced, Goto
  <2>7. CASE Record(p)
    BY <2>7 DEF Record, Goto
  <2>8. CASE Refuse(p) \/ Fail(p)
    BY <2>8 DEF Refuse, Fail, Goto
  <2>9. CASE Commit(p)
    BY <2>9 DEF Commit, Land, Return
  <2>10. CASE FetchCommitFails(p)
    BY <2>10 DEF FetchCommitFails, Land, NothingLands, Return
  <2>11. CASE IngestCommitFails(p)
    BY <2>11 DEF IngestCommitFails, Land, NothingLands, Goto
  <2>12. CASE ProbeComplete(p)
    BY <2>12 DEF ProbeComplete, Complete, Verified, Return
  <2>13. CASE ProbeAbsent(p)
    BY <2>13 DEF ProbeAbsent, Absent, Goto
  <2>14. CASE ProbeIndeterminate(p) \/ ProbeFails(p)
    BY <2>14 DEF ProbeIndeterminate, ProbeFails, Return
  <2>15. CASE \E h \in Hash : Unlink(p, h)
    BY <2>15 DEF Unlink
  <2>16. CASE UnlinkFails(p) \/ Rollback(p)
    BY <2>16 DEF UnlinkFails, Rollback, CleanupVerdict, Return
  <2>17. CASE Crash(p)
    BY <2>17 DEF Crash, Return
  <2> QED
    BY <1>2, <2>1, <2>2, <2>3, <2>4, <2>5, <2>6, <2>7, <2>8, <2>9, <2>10, <2>11, <2>12, <2>13, <2>14, <2>15, <2>16, <2>17 DEF Step
<1>3. CASE UNCHANGED vars
  BY <1>3 DEF vars
<1> QED
  BY <1>1, <1>2, <1>3 DEF Next

(* Pending rows and created files belong to calls under way.               *)
LEMMA LocalStep == TypeOK /\ LocalInv /\ [Next]_vars => LocalInv'
<1> SUFFICES ASSUME TypeOK, LocalInv, [Next]_vars PROVE LocalInv'
  OBVIOUS
<1> USE CatalogAssumption DEF TypeOK, Phase, Locked, shared, calls, LocalInv
<1>1. ASSUME NEW p \in Proc, Start(p) PROVE LocalInv'
  BY <1>1 DEF Start, StartFetch, StartIngest, Call
<1>2. ASSUME NEW p \in Proc, Step(p) \/ Crash(p) PROVE LocalInv'
  <2>1. CASE Begin(p)
    BY <2>1 DEF Begin, Goto
  <2>2. CASE Busy(p)
    BY <2>2 DEF Busy, Return
  <2>3. CASE \E h \in Hash : InstallNew(p, h)
    BY <2>3 DEF InstallNew
  <2>4. CASE \E h \in Hash : InstallFound(p, h)
    BY <2>4 DEF InstallFound
  <2>5. CASE \E h \in Hash : InstallRefused(p, h)
    BY <2>5 DEF InstallRefused, Goto
  <2>6. CASE \E h \in Hash : InstallUnsynced(p, h)
    BY <2>6 DEF InstallUnsynced, Goto
  <2>7. CASE Record(p)
    BY <2>7 DEF Record, Goto
  <2>8. CASE Refuse(p) \/ Fail(p)
    BY <2>8 DEF Refuse, Fail, Goto
  <2>9. CASE Commit(p)
    BY <2>9 DEF Commit, Land, Return
  <2>10. CASE FetchCommitFails(p)
    BY <2>10 DEF FetchCommitFails, Land, NothingLands, Return
  <2>11. CASE IngestCommitFails(p)
    BY <2>11 DEF IngestCommitFails, Land, NothingLands, Goto
  <2>12. CASE ProbeComplete(p)
    BY <2>12 DEF ProbeComplete, Complete, Verified, Return
  <2>13. CASE ProbeAbsent(p)
    BY <2>13 DEF ProbeAbsent, Absent, Goto
  <2>14. CASE ProbeIndeterminate(p) \/ ProbeFails(p)
    BY <2>14 DEF ProbeIndeterminate, ProbeFails, Return
  <2>15. CASE \E h \in Hash : Unlink(p, h)
    BY <2>15 DEF Unlink
  <2>16. CASE UnlinkFails(p) \/ Rollback(p)
    BY <2>16 DEF UnlinkFails, Rollback, CleanupVerdict, Return
  <2>17. CASE Crash(p)
    BY <2>17 DEF Crash, Return
  <2> QED
    BY <1>2, <2>1, <2>2, <2>3, <2>4, <2>5, <2>6, <2>7, <2>8, <2>9, <2>10, <2>11, <2>12, <2>13, <2>14, <2>15, <2>16, <2>17 DEF Step
<1>3. CASE UNCHANGED vars
  BY <1>3 DEF vars
<1> QED
  BY <1>1, <1>2, <1>3 DEF Next

(* Files and rows change only under the lock, and agree.                   *)
LEMMA FileStep == TypeOK /\ LockInv /\ LocalInv /\ FileInv /\ [Next]_vars => FileInv'
<1> SUFFICES ASSUME TypeOK, LockInv, LocalInv, FileInv, [Next]_vars PROVE FileInv'
  OBVIOUS
<1> USE CatalogAssumption DEF TypeOK, Phase, Locked, shared, calls, LockInv, LocalInv, FileInv, NoDanglingArtifact
<1>1. ASSUME NEW p \in Proc, Start(p) PROVE FileInv'
  BY <1>1 DEF Start, StartFetch, StartIngest, Call
<1>2. ASSUME NEW p \in Proc, Step(p) \/ Crash(p) PROVE FileInv'
  <2>1. CASE Begin(p)
    BY <2>1 DEF Begin, Goto
  <2>2. CASE Busy(p)
    BY <2>2 DEF Busy, Return
  <2>3. CASE \E h \in Hash : InstallNew(p, h)
    BY <2>3 DEF InstallNew
  <2>4. CASE \E h \in Hash : InstallFound(p, h)
    BY <2>4 DEF InstallFound
  <2>5. CASE \E h \in Hash : InstallRefused(p, h)
    BY <2>5 DEF InstallRefused, Goto
  <2>6. CASE \E h \in Hash : InstallUnsynced(p, h)
    BY <2>6 DEF InstallUnsynced, Goto
  <2>7. CASE Record(p)
    BY <2>7 DEF Record, Goto
  <2>8. CASE Refuse(p) \/ Fail(p)
    BY <2>8 DEF Refuse, Fail, Goto
  <2>9. CASE Commit(p)
    BY <2>9 DEF Commit, Land, Return
  <2>10. CASE FetchCommitFails(p)
    BY <2>10 DEF FetchCommitFails, Land, NothingLands, Return
  <2>11. CASE IngestCommitFails(p)
    BY <2>11 DEF IngestCommitFails, Land, NothingLands, Goto
  <2>12. CASE ProbeComplete(p)
    BY <2>12 DEF ProbeComplete, Complete, Verified, Return
  <2>13. CASE ProbeAbsent(p)
    BY <2>13 DEF ProbeAbsent, Absent, Goto
  <2>14. CASE ProbeIndeterminate(p) \/ ProbeFails(p)
    BY <2>14 DEF ProbeIndeterminate, ProbeFails, Return
  <2>15. CASE \E h \in Hash : Unlink(p, h)
    BY <2>15 DEF Unlink
  <2>16. CASE UnlinkFails(p) \/ Rollback(p)
    BY <2>16 DEF UnlinkFails, Rollback, CleanupVerdict, Return
  <2>17. CASE Crash(p)
    BY <2>17 DEF Crash, Return
  <2> QED
    BY <1>2, <2>1, <2>2, <2>3, <2>4, <2>5, <2>6, <2>7, <2>8, <2>9, <2>10, <2>11, <2>12, <2>13, <2>14, <2>15, <2>16, <2>17 DEF Step
<1>3. CASE UNCHANGED vars
  BY <1>3 DEF vars
<1> QED
  BY <1>1, <1>2, <1>3 DEF Next

(* A document is checked and committed under one hold of the lock: no step *)
(* but a landing commit touches what DocInv speaks of.                     *)
LEMMA DocStep == TypeOK /\ LockInv /\ LocalInv /\ DocInv /\ [Next]_vars => DocInv'
<1> SUFFICES ASSUME TypeOK, LockInv, LocalInv, DocInv, [Next]_vars PROVE DocInv'
  OBVIOUS
<1> DEFINE Quiet ==
      /\ UNCHANGED <<docs, rows, owned>>
      /\ \A q \in Proc : pc'[q] = "ready" =>
           /\ pc[q] = "ready"
           /\ pend'[q] = pend[q] /\ doc'[q] = doc[q] /\ given'[q] = given[q]
<1>1. Quiet => DocInv'
  BY DEF DocInv, RivalStored, ImmutableVersions, Owners
<1>2. ASSUME NEW p \in Proc, Start(p) PROVE Quiet
  BY <1>2 DEF Start, StartFetch, StartIngest, Call, TypeOK, shared
<1>3. ASSUME NEW p \in Proc, Record(p) PROVE DocInv'
  <2>1. UNCHANGED <<docs, rows, owned, pend, doc, given>>
    BY <1>3 DEF Record, shared, calls
  <2>2. \A q \in Proc : pc'[q] = "ready" => q = p \/ pc[q] = "ready"
    BY <1>3 DEF Record, Goto, TypeOK
  <2>3. doc[p] # NoDoc => RefsOf[doc[p]] \subseteq owned \cup Owners(p) /\ ~RivalStored(p)
    BY <1>3, CatalogAssumption DEF Record, Verified, TypeOK
  <2> QED
    BY <2>1, <2>2, <2>3 DEF DocInv, RivalStored, ImmutableVersions, Owners
<1>4. ASSUME NEW p \in Proc, pc[p] = "ready", Land(p),
             \A q \in Proc : pc'[q] = "ready" => q # p /\ pc[q] = "ready"
      PROVE DocInv'
  <2>1. \A q \in Proc : pc'[q] # "ready"
    BY <1>4 DEF LockInv, Locked
  <2>2. \A c \in owned' : c[2] \in rows'
    BY <1>4 DEF Land, DocInv, Owners
  <2>3. \A d \in docs' : RefsOf[d] \subseteq owned'
    BY <1>4 DEF Land, DocInv
  <2>4. \A d, e \in docs' : <<d, e>> \notin Rivals
    <3> SUFFICES ASSUME NEW d \in docs', NEW e \in docs' PROVE <<d, e>> \notin Rivals
      OBVIOUS
    <3>1. docs' \subseteq Doc /\ docs' \subseteq docs \cup {doc[p]}
      BY <1>4 DEF Land, TypeOK
    <3>2. CASE d \in docs /\ e \in docs
      BY <3>2 DEF DocInv, ImmutableVersions
    <3>3. CASE d = doc[p] \/ e = doc[p]
      <4>1. doc[p] # NoDoc
        BY <3>1, <3>3, CatalogAssumption
      <4>2. \A x \in docs : <<x, doc[p]>> \notin Rivals
        BY <1>4, <4>1 DEF DocInv, RivalStored
      <4> QED
        BY <3>1, <3>3, <4>2, CatalogAssumption
    <3> QED
      BY <3>1, <3>2, <3>3
  <2> QED
    BY <2>1, <2>2, <2>3, <2>4 DEF DocInv, ImmutableVersions
<1>5. ASSUME NEW p \in Proc, Commit(p) \/ FetchCommitFails(p) \/ IngestCommitFails(p)
      PROVE DocInv'
  <2>1. pc[p] = "ready" /\ (\A q \in Proc : pc'[q] = "ready" => q # p /\ pc[q] = "ready")
    BY <1>5 DEF Commit, FetchCommitFails, IngestCommitFails, Return, Goto, TypeOK
  <2>2. CASE Land(p)
    BY <1>4, <2>1, <2>2
  <2>3. CASE NothingLands
    <3>1. Quiet
      BY <1>5, <2>1, <2>3 DEF Commit, FetchCommitFails, IngestCommitFails, NothingLands,
         Return, Goto, TypeOK
    <3> QED
      BY <1>1, <3>1
  <2> QED
    BY <1>5, <2>2, <2>3 DEF Commit, FetchCommitFails, IngestCommitFails
<1>6. ASSUME NEW p \in Proc, NEW h \in Hash,
             \/ InstallNew(p, h) \/ InstallFound(p, h)
             \/ InstallRefused(p, h) \/ InstallUnsynced(p, h) \/ Unlink(p, h)
      PROVE Quiet
  BY <1>6 DEF InstallNew, InstallFound, InstallRefused, InstallUnsynced, Unlink, Goto,
     TypeOK, shared, calls
<1>7. ASSUME NEW p \in Proc, Begin(p) \/ Busy(p) \/ Refuse(p) \/ Fail(p) PROVE Quiet
  BY <1>7 DEF Begin, Busy, Refuse, Fail, Return, Goto, TypeOK, shared, calls
<1>8. ASSUME NEW p \in Proc,
             ProbeComplete(p) \/ ProbeAbsent(p) \/ ProbeIndeterminate(p) \/ ProbeFails(p)
      PROVE Quiet
  BY <1>8 DEF ProbeComplete, ProbeAbsent, ProbeIndeterminate, ProbeFails, Return, Goto,
     TypeOK, shared, calls
<1>9. ASSUME NEW p \in Proc, UnlinkFails(p) \/ Rollback(p) \/ Crash(p) PROVE Quiet
  BY <1>9 DEF UnlinkFails, Rollback, Crash, Return, TypeOK, shared
<1>10. CASE UNCHANGED vars
  BY <1>1, <1>10 DEF vars
<1> QED
  BY <1>1, <1>2, <1>3, <1>5, <1>6, <1>7, <1>8, <1>9, <1>10 DEF Next, Step

(* A call does all it was asked to do, or tells.                           *)
LEMMA CallStep == TypeOK /\ LockInv /\ LocalInv /\ CallInv /\ [Next]_vars => CallInv'
<1> SUFFICES ASSUME TypeOK, LockInv, LocalInv, CallInv, [Next]_vars PROVE CallInv'
  OBVIOUS
<1> USE CatalogAssumption DEF TypeOK, Phase, Locked, shared, calls, LockInv, LocalInv, CallInv
<1>1. ASSUME NEW p \in Proc, Start(p) PROVE CallInv'
  <2>1. ASSUME NEW d \in Doc \cup {NoDoc}, NEW claims \in SUBSET Claim, NEW hs \in SUBSET Hash,
               Call(p, d, claims, hs)
        PROVE CallInv'
    <3>1. /\ pc'[p] = "queued" /\ reply'[p] = "none" /\ ~landed'[p]
          /\ todo'[p] = want'[p]
      BY <2>1 DEF Call
    <3>2. \A q \in Proc \ {p} :
            /\ pc'[q] = pc[q] /\ doc'[q] = doc[q] /\ want'[q] = want[q]
            /\ todo'[q] = todo[q] /\ reply'[q] = reply[q] /\ (landed'[q] => landed[q])
      BY <2>1 DEF Call
    <3>3. UNCHANGED <<docs, pend>>
      BY <2>1 DEF Call
    <3> SUFFICES ASSUME NEW q \in Proc
                 PROVE /\ pc'[q] # "idle" => reply'[q] = "none"
                       /\ pc'[q] = "queued" => todo'[q] = want'[q]
                       /\ pc'[q] = "writing" => want'[q] = todo'[q] \cup pend'[q]
                       /\ pc'[q] = "ready" => want'[q] = pend'[q]
                       /\ pc'[q] = "doubt" =>
                            doc'[q] # NoDoc /\ (landed'[q] => doc'[q] \in docs')
                       /\ pc'[q] \notin {"idle", "doubt"} => ~landed'[q]
      OBVIOUS
    <3>4. CASE q = p
      BY ONLY <3>1, <3>4
    <3>5. CASE q # p
      <4>1. /\ pc[q] # "idle" => reply[q] = "none"
            /\ pc[q] = "queued" => todo[q] = want[q]
            /\ pc[q] = "writing" => want[q] = todo[q] \cup pend[q]
            /\ pc[q] = "ready" => want[q] = pend[q]
            /\ pc[q] = "doubt" => doc[q] # NoDoc /\ (landed[q] => doc[q] \in docs)
            /\ pc[q] \notin {"idle", "doubt"} => ~landed[q]
        BY DEF CallInv
      <4>2. q \in Proc \ {p}
        BY <3>5
      <4>3. /\ pc'[q] = pc[q] /\ doc'[q] = doc[q] /\ want'[q] = want[q]
            /\ todo'[q] = todo[q] /\ reply'[q] = reply[q]
            /\ pend' = pend /\ docs' = docs
        BY <3>2, <3>3, <4>2
      <4>5. landed'[q] => landed[q]
        BY <3>2, <3>3, <4>2
      <4>6. pc'[q] \notin {"idle", "doubt"} => ~landed'[q]
        BY ONLY <4>1, <4>3, <4>5
      <4>7. pc'[q] = "doubt" => doc'[q] # NoDoc /\ (landed'[q] => doc'[q] \in docs')
        BY ONLY <4>1, <4>3, <4>5
      <4>8. pc'[q] = "writing" => want'[q] = todo'[q] \cup pend'[q]
        BY ONLY <4>1, <4>3, Zenon
      <4> QED
        BY ONLY <4>1, <4>3, <4>6, <4>7, <4>8
    <3> QED
      BY <3>4, <3>5
  <2>2. ASSUME NEW h \in Hash, StartFetch(p, h) PROVE CallInv'
    <3>1. {} \in SUBSET Claim /\ {h} \in SUBSET Hash /\ Call(p, NoDoc, {}, {h})
      BY <2>2 DEF StartFetch
    <3>2. NoDoc \in Doc \cup {NoDoc} /\ ~(NoDoc # NoDoc)
      OBVIOUS
    <3> HIDE DEF TypeOK, CallInv
    <3> QED
      BY ONLY <2>1, <3>1, <3>2
  <2>3. ASSUME NEW d \in Doc, NEW claims \in SUBSET Claim, StartIngest(p, d, claims) PROVE CallInv'
    BY <2>1, <2>3, ClaimedDigests DEF StartIngest
  <2> QED
    BY <1>1, <2>2, <2>3 DEF Start
<1>2. ASSUME NEW p \in Proc, Step(p) \/ Crash(p) PROVE CallInv'
  <2>1. CASE Begin(p)
    BY <2>1 DEF Begin, Goto
  <2>2. CASE Busy(p)
    BY <2>2 DEF Busy, Return
  <2>3. CASE \E h \in Hash : InstallNew(p, h)
    BY <2>3 DEF InstallNew
  <2>4. CASE \E h \in Hash : InstallFound(p, h)
    BY <2>4 DEF InstallFound
  <2>5. CASE \E h \in Hash : InstallRefused(p, h)
    BY <2>5 DEF InstallRefused, Goto
  <2>6. CASE \E h \in Hash : InstallUnsynced(p, h)
    BY <2>6 DEF InstallUnsynced, Goto
  <2>7. CASE Record(p)
    <3>1. want[p] = pend[p]
      <4>1. want[p] = todo[p] \cup pend[p] /\ todo[p] = {}
        BY <2>7 DEF Record
      <4> QED
        BY <4>1, Zenon
    <3> QED
      BY <2>7, <3>1 DEF Record, Goto
  <2>8. CASE Refuse(p) \/ Fail(p)
    BY <2>8 DEF Refuse, Fail, Goto
  <2>9. CASE Commit(p)
    BY <2>9 DEF Commit, Land, Return
  <2>10. CASE FetchCommitFails(p)
    BY <2>10 DEF FetchCommitFails, Land, NothingLands, Return
  <2>11. CASE IngestCommitFails(p)
    BY <2>11 DEF IngestCommitFails, Land, NothingLands, Goto
  <2>12. CASE ProbeComplete(p)
    BY <2>12 DEF ProbeComplete, Complete, Verified, Return
  <2>13. CASE ProbeAbsent(p)
    BY <2>13 DEF ProbeAbsent, Absent, Goto
  <2>14. CASE ProbeIndeterminate(p) \/ ProbeFails(p)
    BY <2>14 DEF ProbeIndeterminate, ProbeFails, Return
  <2>15. CASE \E h \in Hash : Unlink(p, h)
    BY <2>15 DEF Unlink
  <2>16. CASE UnlinkFails(p) \/ Rollback(p)
    BY <2>16 DEF UnlinkFails, Rollback, CleanupVerdict, Return
  <2>17. CASE Crash(p)
    BY <2>17 DEF Crash, Return
  <2> QED
    BY <1>2, <2>1, <2>2, <2>3, <2>4, <2>5, <2>6, <2>7, <2>8, <2>9, <2>10, <2>11, <2>12, <2>13, <2>14, <2>15, <2>16, <2>17 DEF Step
<1>3. CASE UNCHANGED vars
  BY <1>3 DEF vars
<1> QED
  BY <1>1, <1>2, <1>3 DEF Next

(* Answers are true when given, and stay true.                             *)
LEMMA ReplyStep == TypeOK /\ LockInv /\ LocalInv /\ FileInv /\ DocInv /\ CallInv /\ HonestReply /\ [Next]_vars => HonestReply'
<1> SUFFICES ASSUME TypeOK, LockInv, LocalInv, FileInv, DocInv, CallInv, HonestReply, [Next]_vars PROVE HonestReply'
  OBVIOUS
<1> USE CatalogAssumption DEF TypeOK, Phase, Locked, shared, calls, CallInv, HonestReply
<1>1. ASSUME NEW p \in Proc, Start(p) PROVE HonestReply'
  BY <1>1 DEF Start, StartFetch, StartIngest, Call
<1>2. ASSUME NEW p \in Proc, Step(p) \/ Crash(p) PROVE HonestReply'
  <2>1. CASE Begin(p)
    BY <2>1 DEF Begin, Goto
  <2>2. CASE Busy(p)
    BY <2>2 DEF Busy, Return
  <2>3. CASE \E h \in Hash : InstallNew(p, h)
    BY <2>3 DEF InstallNew
  <2>4. CASE \E h \in Hash : InstallFound(p, h)
    BY <2>4 DEF InstallFound
  <2>5. CASE \E h \in Hash : InstallRefused(p, h)
    BY <2>5 DEF InstallRefused, Goto
  <2>6. CASE \E h \in Hash : InstallUnsynced(p, h)
    BY <2>6 DEF InstallUnsynced, Goto
  <2>7. CASE Record(p)
    BY <2>7 DEF Record, Goto
  <2>8. CASE Refuse(p) \/ Fail(p)
    BY <2>8 DEF Refuse, Fail, Goto
  <2>9. CASE Commit(p)
    BY <2>9 DEF Commit, Land, Return
  <2>10. CASE FetchCommitFails(p)
    BY <2>10 DEF FetchCommitFails, Land, NothingLands, Return
  <2>11. CASE IngestCommitFails(p)
    BY <2>11 DEF IngestCommitFails, Land, NothingLands, Goto
  <2>12. CASE ProbeComplete(p)
    <3>1. doc[p] \in docs /\ want[p] = Digests(given[p]) /\ given[p] \subseteq RefsOf[doc[p]]
      BY <2>12 DEF ProbeComplete, Complete
    <3>2. \A c \in given[p] : c[2] \in rows
      BY <3>1 DEF DocInv
    <3>3. want[p] \subseteq rows
      BY <3>1, <3>2 DEF Digests
    <3> QED
      BY <2>12, <3>1, <3>3 DEF ProbeComplete, Return
  <2>13. CASE ProbeAbsent(p)
    BY <2>13 DEF ProbeAbsent, Absent, Goto
  <2>14. CASE ProbeIndeterminate(p) \/ ProbeFails(p)
    BY <2>14 DEF ProbeIndeterminate, ProbeFails, Return
  <2>15. CASE \E h \in Hash : Unlink(p, h)
    BY <2>15 DEF Unlink
  <2>16. CASE UnlinkFails(p) \/ Rollback(p)
    BY <2>16 DEF UnlinkFails, Rollback, CleanupVerdict, Return
  <2>17. CASE Crash(p)
    BY <2>17 DEF Crash, Return
  <2> QED
    BY <1>2, <2>1, <2>2, <2>3, <2>4, <2>5, <2>6, <2>7, <2>8, <2>9, <2>10, <2>11, <2>12, <2>13, <2>14, <2>15, <2>16, <2>17 DEF Step
<1>3. CASE UNCHANGED vars
  BY <1>3 DEF vars
<1> QED
  BY <1>1, <1>2, <1>3 DEF Next

(* Steps preserve the invariant.                                           *)
LEMMA InvStep == Inv /\ [Next]_vars => Inv'
  BY TypeStep, LockStep, LocalStep, FileStep, DocStep, CallStep, ReplyStep DEF Inv

(* TypeOK holds in every reachable state.                                  *)
THEOREM TypeCorrect == Spec => []TypeOK
  BY InitInv, InvStep, PTL DEF Spec, Inv

(* The invariant holds in every behaviour.                                 *)
LEMMA Invariance == Spec => []Inv
  BY InitInv, InvStep, PTL DEF Spec

-----------------------------------------------------------------------------
(* The results *)

(* No catalog row ever points at a missing or damaged file, for any number *)
(* of overlapping, failing and dying fetches and ingests.                  *)
THEOREM RowsHaveFiles == Spec => []NoDanglingArtifact
  BY Invariance, PTL DEF Inv, FileInv

(* Every reference of every stored CVE version resolves to readable,       *)
(* cataloged bytes owned by the source that claimed them.                  *)
THEOREM ReferencesResolve == Spec => []ProvenanceResolves
<1>1. Inv => ProvenanceResolves
  BY CatalogAssumption DEF Inv, TypeOK, FileInv, DocInv, NoDanglingArtifact, ProvenanceResolves
<1> QED
  BY <1>1, Invariance, PTL

(* A version id and a revision of a CVE name one document, forever.        *)
THEOREM VersionsImmutable == Spec => []ImmutableVersions
  BY Invariance, PTL DEF Inv, DocInv

(* An answer "ok" is true, and a failed ingest did not take effect.        *)
THEOREM AnswersHonest == Spec => []HonestReply
  BY Invariance, PTL DEF Inv

-----------------------------------------------------------------------------
(* Files without a row *)

(* The files a call created are those of rows it inserted, or, once the    *)
(* commit is in doubt, of artifacts it was asked to store.                 *)
FreshInv ==
  \A p \in Proc :
    /\ pc[p] \in {"writing", "ready"} => fresh[p] \subseteq pend[p]
    /\ pc[p] = "doubt" => fresh[p] \subseteq want[p]

(* Installing tracks a file with its row; a commit in doubt forgets the    *)
(* rows, but they were all that the call was asked for.                    *)
LEMMA FreshStep == Inv /\ FreshInv /\ [Next]_vars => FreshInv'
<1> SUFFICES ASSUME Inv, FreshInv, [Next]_vars PROVE FreshInv'
  OBVIOUS
<1> DEFINE Calm(p) ==
      /\ pc'[p] \notin {"writing", "ready", "doubt"}
      /\ \A q \in Proc \ {p} : /\ pc'[q] = pc[q] /\ fresh'[q] = fresh[q]
                               /\ pend'[q] = pend[q] /\ want'[q] = want[q]
<1> USE DEF Inv, TypeOK, shared, calls
<1>1. ASSUME NEW p \in Proc, Calm(p) PROVE FreshInv'
  BY <1>1 DEF FreshInv
<1>2. ASSUME NEW p \in Proc, Start(p) PROVE Calm(p)
  BY <1>2 DEF Start, StartFetch, StartIngest, Call
<1>3. ASSUME NEW p \in Proc, Begin(p) PROVE FreshInv'
  BY <1>3 DEF Begin, Goto, FreshInv, LocalInv
<1>4. ASSUME NEW p \in Proc, NEW h \in Hash, InstallNew(p, h) \/ InstallFound(p, h)
      PROVE FreshInv'
  BY <1>4 DEF InstallNew, InstallFound, FreshInv
<1>5. ASSUME NEW p \in Proc, NEW h \in Hash,
             InstallRefused(p, h) \/ InstallUnsynced(p, h) \/ Unlink(p, h)
      PROVE Calm(p)
  BY <1>5 DEF InstallRefused, InstallUnsynced, Unlink, Goto
<1>6. ASSUME NEW p \in Proc, Record(p) PROVE FreshInv'
  BY <1>6 DEF Record, Goto, FreshInv
<1>7. ASSUME NEW p \in Proc, IngestCommitFails(p) PROVE FreshInv'
  <2>1. /\ pc[p] = "ready" /\ pc'[p] = "doubt" /\ UNCHANGED <<fresh, want>>
        /\ \A q \in Proc \ {p} : pc'[q] = pc[q] /\ pend'[q] = pend[q]
    BY <1>7 DEF IngestCommitFails, Goto
  <2>2. fresh[p] \subseteq pend[p] /\ want[p] = pend[p]
    BY <2>1 DEF FreshInv, CallInv
  <2> QED
    BY <2>1, <2>2 DEF FreshInv
<1>8. ASSUME NEW p \in Proc, Refuse(p) \/ Fail(p) \/ ProbeAbsent(p) PROVE Calm(p)
  BY <1>8 DEF Refuse, Fail, ProbeAbsent, Goto
<1>9. ASSUME NEW p \in Proc,
             \/ Busy(p) \/ Commit(p) \/ FetchCommitFails(p) \/ ProbeComplete(p)
             \/ ProbeIndeterminate(p) \/ ProbeFails(p) \/ UnlinkFails(p)
             \/ Rollback(p) \/ Crash(p)
      PROVE Calm(p)
  BY <1>9 DEF Busy, Commit, FetchCommitFails, ProbeComplete, ProbeIndeterminate,
     ProbeFails, UnlinkFails, Rollback, Crash, Return
<1>10. CASE UNCHANGED vars
  BY <1>10 DEF vars, FreshInv
<1> QED
  BY <1>1, <1>2, <1>3, <1>4, <1>5, <1>6, <1>7, <1>8, <1>9, <1>10 DEF Next, Step

(* An orphan stays explained if whatever a step stops tracking was removed *)
(* or has a row or an excuse.                                              *)
LEMMA StaysExplained ==
  ASSUME TypeOK, NoUnexplainedOrphan, rows \subseteq rows', excused \subseteq excused',
         \A h \in Hash : file'[h] = "good" =>
           \/ file[h] = "good"
           \/ h \in excused' \/ (\E q \in Proc : h \in fresh'[q]),
         \A q \in Proc : \A h \in fresh[q] :
           \/ h \in fresh'[q] \/ h \in rows' \/ h \in excused' \/ file'[h] # "good"
  PROVE  NoUnexplainedOrphan'
<1> SUFFICES ASSUME NEW h \in Hash, file'[h] = "good",
                    h \notin rows', h \notin excused'
             PROVE  \E q \in Proc : h \in fresh'[q]
  BY DEF NoUnexplainedOrphan
<1>1. CASE file[h] = "good"
  <2>1. PICK q \in Proc : h \in fresh[q]
    BY <1>1 DEF NoUnexplainedOrphan
  <2> QED
    BY <2>1
<1>2. CASE file[h] # "good"
  BY <1>2
<1> QED
  BY <1>1, <1>2

(* A call that fails without an excuse removes the files it created.       *)
LEMMA OrphanStep ==
  Inv /\ FreshInv /\ NoUnexplainedOrphan /\ [Next]_vars => NoUnexplainedOrphan'
<1> SUFFICES ASSUME Inv, FreshInv, NoUnexplainedOrphan, [Next]_vars
             PROVE  NoUnexplainedOrphan'
  OBVIOUS
<1> DEFINE Tracked(p) ==
      /\ file' = file /\ rows \subseteq rows' /\ excused \subseteq excused'
      /\ \A q \in Proc \ {p} : fresh'[q] = fresh[q]
      /\ fresh[p] \subseteq fresh'[p] \cup rows' \cup excused'
<1> USE DEF Inv, TypeOK, shared, calls
<1>1. ASSUME NEW p \in Proc, Tracked(p) PROVE NoUnexplainedOrphan'
  <2>1. \A q \in Proc : \A h \in fresh[q] :
          h \in fresh'[q] \/ h \in rows' \/ h \in excused'
    BY <1>1
  <2> QED
    BY <1>1, <2>1, StaysExplained
<1>2. ASSUME NEW p \in Proc, Start(p) PROVE Tracked(p)
  BY <1>2 DEF Start, StartFetch, StartIngest, Call
<1>3. ASSUME NEW p \in Proc,
             Begin(p) \/ Record(p) \/ Refuse(p) \/ Fail(p) \/ ProbeAbsent(p)
      PROVE Tracked(p)
  BY <1>3 DEF Begin, Record, Refuse, Fail, ProbeAbsent
<1>4. ASSUME NEW p \in Proc, NEW h \in Hash, InstallFound(p, h) \/ InstallRefused(p, h)
      PROVE Tracked(p)
  BY <1>4 DEF InstallFound, InstallRefused
<1>5. ASSUME NEW p \in Proc, NEW h \in Hash, InstallNew(p, h) PROVE NoUnexplainedOrphan'
  <2>1. /\ file' = [file EXCEPT ![h] = "good"] /\ fresh' = [fresh EXCEPT ![p] = @ \cup {h}]
        /\ UNCHANGED <<rows, excused>>
    BY <1>5 DEF InstallNew
  <2>2. \A q \in Proc : fresh[q] \subseteq fresh'[q]
    BY <2>1
  <2>3. h \in fresh'[p] /\ \A g \in Hash \ {h} : file'[g] = file[g]
    BY <2>1
  <2> QED
    BY <2>1, <2>2, <2>3, StaysExplained
<1>6. ASSUME NEW p \in Proc, NEW h \in Hash, InstallUnsynced(p, h) PROVE NoUnexplainedOrphan'
  <2>1. /\ UNCHANGED <<rows, fresh>> /\ excused \subseteq excused'
        /\ \A g \in Hash : file'[g] = "good" => file[g] = "good" \/ g \in excused'
    BY <1>6 DEF InstallUnsynced
  <2> QED
    BY <2>1, StaysExplained
<1>7. ASSUME NEW p \in Proc, NEW h \in Hash, Unlink(p, h) PROVE NoUnexplainedOrphan'
  <2>1. /\ UNCHANGED <<rows, excused>> /\ file'[h] # "good"
        /\ \A g \in Hash : file'[g] = "good" => file[g] = "good"
        /\ \A q \in Proc : fresh[q] \subseteq fresh'[q] \cup {h}
    BY <1>7 DEF Unlink
  <2> QED
    BY <2>1, StaysExplained
<1>8. ASSUME NEW p \in Proc, Busy(p) \/ Rollback(p) PROVE Tracked(p)
  BY <1>8 DEF Busy, Rollback, Return, LocalInv
<1>9. ASSUME NEW p \in Proc, Commit(p) PROVE Tracked(p)
  BY <1>9 DEF Commit, Land, Return, FreshInv
<1>10. ASSUME NEW p \in Proc, IngestCommitFails(p) PROVE Tracked(p)
  BY <1>10 DEF IngestCommitFails, Land, NothingLands
<1>11. ASSUME NEW p \in Proc, ProbeComplete(p) PROVE Tracked(p)
  <2>1. pc[p] = "doubt" /\ Verified(p)
    BY <1>11 DEF ProbeComplete, Complete
  <2>2. doc[p] # NoDoc /\ pend[p] = {} /\ fresh[p] \subseteq want[p]
    BY <2>1 DEF CallInv, LocalInv, Locked, FreshInv
  <2>3. RefsOf[doc[p]] \subseteq owned
    BY <1>11 DEF ProbeComplete, Complete, DocInv
  <2>4. fresh[p] \subseteq rows
    BY <2>2, <2>3 DEF DocInv, Digests
  <2> QED
    BY <1>11, <2>4 DEF ProbeComplete, Return
<1>12. ASSUME NEW p \in Proc,
              FetchCommitFails(p) \/ ProbeIndeterminate(p) \/ ProbeFails(p)
              \/ UnlinkFails(p) \/ Crash(p)
       PROVE Tracked(p)
  BY <1>12 DEF FetchCommitFails, Land, NothingLands, ProbeIndeterminate, ProbeFails,
     UnlinkFails, Crash, Return
<1>13. CASE UNCHANGED vars
  BY <1>13 DEF vars, NoUnexplainedOrphan
<1> QED
  BY <1>1, <1>2, <1>3, <1>4, <1>5, <1>6, <1>7, <1>8, <1>9, <1>10, <1>11, <1>12, <1>13
  DEF Next, Step

(* A readable file without a row was there before, or is explained by a    *)
(* crash, a removal that failed, or a commit whose outcome was not known.  *)
THEOREM OrphansAreExplained == Spec => []NoUnexplainedOrphan
<1>1. Init => FreshInv /\ NoUnexplainedOrphan
  BY DEF Init, FreshInv, NoUnexplainedOrphan
<1>2. Inv /\ FreshInv /\ NoUnexplainedOrphan /\ [Next]_vars
        => FreshInv' /\ NoUnexplainedOrphan'
  BY FreshStep, OrphanStep
<1> QED
  BY <1>1, <1>2, Invariance, PTL DEF Spec

-----------------------------------------------------------------------------
(* Refinement *)

(* What is cataloged can be read.                                          *)
LEMMA ReadableIsRows == Inv => Readable = rows
  BY DEF Inv, TypeOK, FileInv, NoDanglingArtifact, Readable

(* A commit that takes effect publishes exactly what its call carries.     *)
LEMMA LandingPublishes ==
  ASSUME Inv, Inv', NEW p \in Proc, pc[p] = "ready", Land(p),
         NEW r \in {"none", "ok", "failed"}, reply' = [reply EXCEPT ![p] = r],
         UNCHANGED <<want, doc>>
  PROVE  Store!Publish(p)
<1>1. Readable = rows /\ Readable' = rows'
  BY ReadableIsRows DEF Readable, Inv, TypeOK, FileInv, NoDanglingArtifact
<1>2. reply[p] = "none" /\ want[p] = pend[p]
  BY DEF Inv, CallInv
<1>3. rows' = rows \cup want[p] /\ docs' = docs \cup Store!DocOf(p)
  BY <1>2 DEF Land, Store!DocOf
<1>4. \A d \in Store!DocOf(p) : [e \in Doc |-> Digests(RefsOf[e])][d] \subseteq rows'
  <2> SUFFICES ASSUME NEW d \in Store!DocOf(p) PROVE d \in Doc /\ Digests(RefsOf[d]) \subseteq rows'
    OBVIOUS
  <2>1. d \in docs' /\ d \in Doc
    BY <1>3 DEF Inv, TypeOK, Store!DocOf
  <2> QED
    BY <2>1 DEF Inv, DocInv, Digests
<1> QED
  BY <1>1, <1>2, <1>3, <1>4 DEF Store!Publish

(* Any other answer to a running call is one the store may give.           *)
LEMMA ReturnAnswers ==
  ASSUME Inv, Inv', NEW p \in Proc, pc[p] # "idle",
         NEW r \in {"ok", "failed", "unknown"}, reply' = [reply EXCEPT ![p] = r],
         UNCHANGED <<rows, docs, want, doc>>
  PROVE  Store!Answer(p)
<1>1. Readable = rows /\ Readable' = rows'
  BY ReadableIsRows DEF Readable, Inv, TypeOK, FileInv, NoDanglingArtifact
<1>2. reply[p] = "none"
  BY DEF Inv, CallInv
<1>3. reply'[p] = r
  BY DEF Inv, TypeOK
<1>4. r = "ok" => want[p] \subseteq rows /\ Store!DocOf(p) \subseteq docs
  BY <1>3 DEF Inv, HonestReply, Store!DocOf
<1> QED
  BY <1>1, <1>2, <1>4 DEF Store!Answer, Store!Verdict

(* Every step is a step of the content store, or changes nothing of it.    *)
LEMMA RefinementStep == Inv /\ Inv' /\ [Next]_vars => [Store!Next]_(Store!vars)
<1> SUFFICES ASSUME Inv, Inv', [Next]_vars PROVE [Store!Next]_(Store!vars)
  OBVIOUS
<1>1. Readable = rows /\ Readable' = rows'
  BY ReadableIsRows DEF Readable, Inv, TypeOK, FileInv, NoDanglingArtifact
<1>2. ASSUME UNCHANGED <<rows, docs, calls>> PROVE UNCHANGED Store!vars
  BY <1>1, <1>2 DEF calls, Store!vars
<1>3. ASSUME NEW p \in Proc, NEW d \in Doc \cup {NoDoc}, NEW hs \in SUBSET Hash,
             UNCHANGED <<rows, docs>>, doc' = [doc EXCEPT ![p] = d],
             want' = [want EXCEPT ![p] = hs], reply' = [reply EXCEPT ![p] = "none"]
      PROVE Store!Ask(p)
  BY <1>1, <1>3 DEF Store!Ask
<1>4. ASSUME NEW p \in Proc, Start(p) PROVE Store!Next
  <2>1. ASSUME NEW d \in Doc \cup {NoDoc}, NEW claims \in SUBSET Claim, NEW hs \in SUBSET Hash,
               Call(p, d, claims, hs)
        PROVE Store!Ask(p)
    BY <2>1, <1>3 DEF Call, shared
  <2>2. ASSUME NEW h \in Hash, StartFetch(p, h) PROVE Store!Ask(p)
    BY <2>1, <2>2 DEF StartFetch
  <2>3. ASSUME NEW d \in Doc, NEW claims \in SUBSET Claim, StartIngest(p, d, claims)
        PROVE Store!Ask(p)
    BY <2>1, <2>3, ClaimedDigests DEF StartIngest
  <2> QED
    BY <1>4, <2>2, <2>3 DEF Start, Store!Next
<1>5. ASSUME NEW p \in Proc, Commit(p) PROVE Store!Publish(p)
  BY <1>5, LandingPublishes DEF Commit, Return
<1>6. ASSUME NEW p \in Proc, FetchCommitFails(p) PROVE Store!Next
  <2>1. CASE Land(p)
    BY <1>6, <2>1, LandingPublishes DEF FetchCommitFails, Return, Store!Next
  <2>2. CASE NothingLands
    BY <1>6, <2>2, ReturnAnswers DEF FetchCommitFails, NothingLands, Return, Store!Next
  <2> QED
    BY <1>6, <2>1, <2>2 DEF FetchCommitFails
<1>7. ASSUME NEW p \in Proc, IngestCommitFails(p) PROVE [Store!Next]_(Store!vars)
  <2>1. CASE Land(p)
    <3>1. reply' = [reply EXCEPT ![p] = "none"]
      BY <1>7 DEF IngestCommitFails, Inv, TypeOK, CallInv
    <3> QED
      BY <1>7, <2>1, <3>1, LandingPublishes DEF IngestCommitFails, Store!Next
  <2>2. CASE NothingLands
    BY <1>1, <1>7, <2>2 DEF IngestCommitFails, NothingLands, Store!vars
  <2> QED
    BY <1>7, <2>1, <2>2 DEF IngestCommitFails
<1>8. ASSUME NEW p \in Proc,
             \/ Busy(p) \/ ProbeComplete(p) \/ ProbeIndeterminate(p) \/ ProbeFails(p)
             \/ UnlinkFails(p) \/ Rollback(p)
      PROVE Store!Answer(p)
  <2>1. pc[p] # "idle" /\ UNCHANGED <<rows, docs, want, doc>>
    BY <1>8 DEF Busy, ProbeComplete, ProbeIndeterminate, ProbeFails, UnlinkFails, Rollback,
       shared
  <2>2. \E r \in {"ok", "failed", "unknown"} : reply' = [reply EXCEPT ![p] = r]
    BY <1>8 DEF Busy, ProbeComplete, ProbeIndeterminate, ProbeFails, UnlinkFails, Rollback,
       CleanupVerdict, Return
  <2> QED
    BY <2>1, <2>2, ReturnAnswers
<1>9. ASSUME NEW p \in Proc, Crash(p) PROVE Store!Ask(p)
  <2>1. /\ UNCHANGED <<rows, docs>>
        /\ doc' = [doc EXCEPT ![p] = NoDoc]
        /\ want' = [want EXCEPT ![p] = {}]
        /\ reply' = [reply EXCEPT ![p] = "none"]
    BY <1>9 DEF Crash, Return, shared
  <2>2. NoDoc \in Doc \cup {NoDoc} /\ {} \in SUBSET Hash
    OBVIOUS
  <2> QED
    BY <1>1, <2>1, <2>2 DEF Store!Ask
<1>10. ASSUME NEW p \in Proc, NEW h \in Hash,
              \/ InstallNew(p, h) \/ InstallFound(p, h)
              \/ InstallRefused(p, h) \/ InstallUnsynced(p, h) \/ Unlink(p, h)
       PROVE UNCHANGED Store!vars
  BY <1>2, <1>10 DEF InstallNew, InstallFound, InstallRefused, InstallUnsynced, Unlink, shared
<1>11. ASSUME NEW p \in Proc,
              Begin(p) \/ Record(p) \/ Refuse(p) \/ Fail(p) \/ ProbeAbsent(p)
       PROVE UNCHANGED Store!vars
  BY <1>2, <1>11 DEF Begin, Record, Refuse, Fail, ProbeAbsent, shared
<1>12. CASE UNCHANGED vars
  BY <1>2, <1>12 DEF vars, calls
<1> QED
  BY <1>4, <1>5, <1>6, <1>7, <1>8, <1>9, <1>10, <1>11, <1>12 DEF Next, Step, Store!Next

(* The catalog and its files implement the content store: content appears  *)
(* all at once with its document, never disappears, and answers are true.  *)
THEOREM CatalogImplementsStore == Spec => ImplementsContentStore
<1>1. Init => Store!Init
  BY DEF Init, Store!Init, Readable
<1> QED
  BY <1>1, Invariance, RefinementStep, PTL DEF Spec, ImplementsContentStore, Store!Spec
=============================================================================
