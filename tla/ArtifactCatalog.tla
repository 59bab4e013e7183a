--------------------------- MODULE ArtifactCatalog ---------------------------
(***************************************************************************)
(* Store::fetch and Store::ingest_cve writing content-addressed artifact   *)
(* files and the catalog rows that refer to them.  Files and rows live in  *)
(* two places that cannot be committed together: a file is installed with  *)
(* a rename while the SQLite write lock (BEGIN IMMEDIATE) is held, its row *)
(* becomes visible at COMMIT, and a failed call removes the files it has   *)
(* itself installed.  Any number of processes do this at once, any of them *)
(* may die between two steps, and a COMMIT may fail without saying whether *)
(* it took effect.                                                         *)
(***************************************************************************)

CONSTANTS Proc,     \* processes sharing the catalog and the artifact root
          Hash,     \* content digests; a file's name is its digest
          Place,    \* where content is said to come from: a source id, a locator
          Doc,      \* CVE version documents (record and version JSON)
          NoDoc,    \* "no document": the call is a feed fetch
          Free,     \* the write lock's holder when nobody holds it
          RefsOf,   \* what a document's provenance claims: <<place, digest>>
          Rivals    \* pairs of documents that claim one version id, or one
                    \* (CVE, revision), and differ

Claim == Place \X Hash

ASSUME CatalogAssumption ==
  /\ Free \notin Proc
  /\ NoDoc \notin Doc
  /\ RefsOf \in [Doc -> SUBSET Claim]
  /\ Rivals \subseteq Doc \X Doc
  /\ \A d, e \in Doc : <<d, e>> \in Rivals => <<e, d>> \in Rivals
  /\ \A d \in Doc : <<d, d>> \notin Rivals

VARIABLES
  file,     \* content under each digest's final name: "absent", "good", "bad"
  rows,     \* committed rows of table artifacts
  owned,    \* committed rows of artifact_owners
  docs,     \* committed cve_versions rows, with their provenance rows
  lock,     \* holder of the SQLite write lock
  pc,       \* where each process is in its call
  doc,      \* document of its current or last call
  given,    \* the claims whose artifacts that call supplies
  want,     \* the digests that it supplies
  todo,     \* digests not yet installed and inserted
  fresh,    \* installed_paths / installed: files this call itself created
  pend,     \* rows inserted in the open transaction
  reply,    \* answer of the last call, "none" while it runs
  landed,   \* history: the call's transaction was committed
  excused   \* history: digests whose file may remain without a row

shared == <<file, rows, owned, docs>>
calls  == <<doc, given, want, reply, landed>>
vars   == <<file, rows, owned, docs, lock, pc, doc, given, want, todo, fresh, pend,
            reply, landed, excused>>

Digests(claims) == {c[2] : c \in claims}

Phase == {"idle", "queued", "writing", "ready", "undo", "doubt", "scrub"}
Reply == {"none", "ok", "failed", "unknown"}

(* Phases in which the process holds the write lock.                       *)
Locked == {"writing", "ready", "undo", "scrub"}

(* A file left by a call that died long ago may be complete, or damaged.   *)
Init ==
  /\ file \in [Hash -> {"absent", "good", "bad"}]
  /\ rows = {} /\ owned = {} /\ docs = {}
  /\ lock = Free
  /\ pc = [p \in Proc |-> "idle"]
  /\ doc = [p \in Proc |-> NoDoc]
  /\ given = [p \in Proc |-> {}]
  /\ want = [p \in Proc |-> {}]
  /\ todo = [p \in Proc |-> {}]
  /\ fresh = [p \in Proc |-> {}]
  /\ pend = [p \in Proc |-> {}]
  /\ reply = [p \in Proc |-> "none"]
  /\ landed = [p \in Proc |-> FALSE]
  /\ excused = {h \in Hash : file[h] # "absent"}

-----------------------------------------------------------------------------
(* Calls *)

Call(p, d, claims, hs) ==
  /\ pc[p] = "idle"
  /\ pc' = [pc EXCEPT ![p] = "queued"]
  /\ doc' = [doc EXCEPT ![p] = d]
  /\ given' = [given EXCEPT ![p] = claims]
  /\ want' = [want EXCEPT ![p] = hs]
  /\ todo' = [todo EXCEPT ![p] = hs]
  /\ reply' = [reply EXCEPT ![p] = "none"]
  /\ landed' = [landed EXCEPT ![p] = FALSE]
  /\ UNCHANGED <<shared, lock, fresh, pend, excused>>

(* fetch has read and parsed a body with digest h.                         *)
StartFetch(p, h) == Call(p, NoDoc, {}, {h})

(* Mutant of StartIngest: supplied artifacts are not compared with the     *)
(* references.                                                             *)
IngestAnyArtifacts(p, d, claims) == Call(p, d, claims, Digests(claims))

(* ingest_cve has checked its arguments: every supplied artifact is        *)
(* claimed by one of the document's references.                            *)
StartIngest(p, d, claims) ==
  /\ claims \subseteq RefsOf[d]
  /\ Call(p, d, claims, Digests(claims))

(* The call returns: answer r, and whatever it still tracked is forgotten. *)
Return(p, r) ==
  /\ pc' = [pc EXCEPT ![p] = "idle"]
  /\ reply' = [reply EXCEPT ![p] = r]
  /\ todo' = [todo EXCEPT ![p] = {}]
  /\ fresh' = [fresh EXCEPT ![p] = {}]
  /\ pend' = [pend EXCEPT ![p] = {}]

Goto(p, phase) == pc' = [pc EXCEPT ![p] = phase]

(* BEGIN IMMEDIATE: one writer at a time.                                  *)
Begin(p) ==
  /\ pc[p] = "queued"
  /\ lock = Free
  /\ lock' = p
  /\ Goto(p, "writing")
  /\ UNCHANGED <<shared, calls, todo, fresh, pend, excused>>

(* Mutant of Busy: waiting for the lock has no end.                        *)
NoTimeout(p) ==
  /\ pc[p] = "queued"
  /\ lock = p
  /\ Return(p, "failed")
  /\ UNCHANGED <<shared, lock, doc, given, want, landed, excused>>

(* The lock stayed taken for the whole busy timeout.                       *)
Busy(p) ==
  /\ pc[p] = "queued"
  /\ lock # Free
  /\ Return(p, "failed")
  /\ UNCHANGED <<shared, lock, doc, given, want, landed, excused>>

-----------------------------------------------------------------------------
(* Inside the transaction *)

(* atomic_write_verified found no file: the body is written to a temporary *)
(* name, synced and renamed, and the rows are inserted.                    *)
InstallNew(p, h) ==
  /\ pc[p] = "writing" /\ h \in todo[p]
  /\ file[h] = "absent"
  /\ file' = [file EXCEPT ![h] = "good"]
  /\ fresh' = [fresh EXCEPT ![p] = @ \cup {h}]
  /\ pend' = [pend EXCEPT ![p] = @ \cup {h}]
  /\ todo' = [todo EXCEPT ![p] = @ \ {h}]
  /\ UNCHANGED <<rows, owned, docs, calls, lock, pc, excused>>

(* The file is there and has the right digest: it is shared.               *)
InstallFound(p, h) ==
  /\ pc[p] = "writing" /\ h \in todo[p]
  /\ file[h] = "good"
  /\ pend' = [pend EXCEPT ![p] = @ \cup {h}]
  /\ todo' = [todo EXCEPT ![p] = @ \ {h}]
  /\ UNCHANGED <<shared, calls, lock, pc, fresh, excused>>

(* The file is there and is damaged: the call fails, the file stays.       *)
InstallRefused(p, h) ==
  /\ pc[p] = "writing" /\ h \in todo[p]
  /\ file[h] = "bad"
  /\ Goto(p, "undo")
  /\ UNCHANGED <<shared, calls, lock, todo, fresh, pend, excused>>

(* Renamed, but the directory could not be synced: the file is unlinked,   *)
(* the result of the unlink is ignored, and the call fails.                *)
InstallUnsynced(p, h) ==
  /\ pc[p] = "writing" /\ h \in todo[p]
  /\ file[h] = "absent"
  /\ \/ UNCHANGED <<file, excused>>
     \/ /\ file' = [file EXCEPT ![h] = "good"]
        /\ excused' = excused \cup {h}
  /\ Goto(p, "undo")
  /\ UNCHANGED <<rows, owned, docs, calls, lock, todo, fresh, pend>>

(* The owners that the open transaction has inserted.                      *)
Owners(p) == {c \in given[p] : c[2] \in pend[p]}

(* Mutant of Verified: only what the call itself supplies is verified.     *)
OnlySuppliedVerified(p) == \A h \in want[p] : file[h] = "good"

(* Every reference names an artifact that its source owns under its        *)
(* locator and whose bytes still have the digest, as this transaction sees *)
(* the catalog.                                                            *)
Verified(p) ==
  \A c \in RefsOf[doc[p]] : c \in owned \cup Owners(p) /\ file[c[2]] = "good"

(* Mutant of RivalStored: the conflict checks are left out.                *)
NeverRival(p) == FALSE

(* The stored versions hold the same id, or the same revision of the CVE,  *)
(* with another document.                                                  *)
RivalStored(p) == \E d \in docs : <<d, doc[p]>> \in Rivals

(* All rows are in: a document already stored is a replay, one not stored  *)
(* is inserted with its provenance rows.                                   *)
Record(p) ==
  /\ pc[p] = "writing" /\ todo[p] = {}
  /\ doc[p] # NoDoc => Verified(p) /\ ~RivalStored(p)
  /\ Goto(p, "ready")
  /\ UNCHANGED <<shared, calls, lock, todo, fresh, pend, excused>>

Refuse(p) ==
  /\ pc[p] = "writing" /\ todo[p] = {}
  /\ doc[p] # NoDoc
  /\ ~Verified(p) \/ RivalStored(p)
  /\ Goto(p, "undo")
  /\ UNCHANGED <<shared, calls, lock, todo, fresh, pend, excused>>

(* Mutant of Fail: the lock is given back before the cleanup.              *)
FailAfterRelease(p) ==
  /\ pc[p] = "writing"
  /\ lock' = Free
  /\ Goto(p, "undo")
  /\ UNCHANGED <<shared, calls, todo, fresh, pend, excused>>

(* Any statement or file operation may fail.                               *)
Fail(p) ==
  /\ pc[p] = "writing"
  /\ Goto(p, "undo")
  /\ UNCHANGED <<shared, calls, lock, todo, fresh, pend, excused>>

-----------------------------------------------------------------------------
(* Commit *)

Land(p) ==
  /\ rows' = rows \cup pend[p]
  /\ owned' = owned \cup Owners(p)
  /\ docs' = docs \cup ({doc[p]} \ {NoDoc})
  /\ landed' = [landed EXCEPT ![p] = TRUE]

NothingLands == UNCHANGED <<rows, owned, docs, landed>>

Commit(p) ==
  /\ pc[p] = "ready"
  /\ Land(p)
  /\ lock' = Free
  /\ Return(p, "ok")
  /\ UNCHANGED <<file, doc, given, want, excused>>

(* fetch: the commit failed, perhaps after it took effect.  The file is    *)
(* retained and the call reports a failed run.                             *)
FetchCommitFails(p) ==
  /\ pc[p] = "ready" /\ doc[p] = NoDoc
  /\ Land(p) \/ NothingLands
  /\ lock' = Free
  /\ excused' = excused \cup fresh[p]
  /\ Return(p, "failed")
  /\ UNCHANGED <<file, doc, given, want>>

(* Mutant of IngestCommitFails: a failed commit counts as rolled back.     *)
IngestFailsUnprobed(p) ==
  /\ pc[p] = "ready" /\ doc[p] # NoDoc
  /\ Land(p) \/ NothingLands
  /\ lock' = Free
  /\ excused' = excused \cup fresh[p]
  /\ Return(p, "failed")
  /\ UNCHANGED <<file, doc, given, want>>

(* ingest_cve: the transaction is gone and so is the lock; the outcome is  *)
(* settled by reconcile_cve_commit under a lock of its own.                *)
IngestCommitFails(p) ==
  /\ pc[p] = "ready" /\ doc[p] # NoDoc
  /\ Land(p) \/ NothingLands
  /\ lock' = Free
  /\ Goto(p, "doubt")
  /\ pend' = [pend EXCEPT ![p] = {}]
  /\ UNCHANGED <<file, doc, given, want, reply, todo, fresh, excused>>

(* The document is stored, its provenance rows and files are intact.       *)
Complete(p) == doc[p] \in docs /\ Verified(p)

(* Mutant of Absent: installed files are not looked up in the catalog.     *)
AbsentUnlessRival(p) == doc[p] \notin docs /\ ~RivalStored(p)

(* decide_cve_commit_state on what the probe read.                         *)
Absent(p) ==
  /\ doc[p] \notin docs
  /\ ~RivalStored(p)
  /\ fresh[p] \cap rows = {}

ProbeComplete(p) ==
  /\ pc[p] = "doubt" /\ lock = Free
  /\ Complete(p)
  /\ Return(p, "ok")
  /\ UNCHANGED <<shared, lock, doc, given, want, landed, excused>>

(* The call's own files are removed before the probe gives its lock back.  *)
ProbeAbsent(p) ==
  /\ pc[p] = "doubt" /\ lock = Free
  /\ Absent(p)
  /\ lock' = p
  /\ Goto(p, "scrub")
  /\ UNCHANGED <<shared, calls, todo, fresh, pend, excused>>

ProbeIndeterminate(p) ==
  /\ pc[p] = "doubt" /\ lock = Free
  /\ ~Complete(p) /\ ~Absent(p)
  /\ excused' = excused \cup fresh[p]
  /\ Return(p, "unknown")
  /\ UNCHANGED <<shared, lock, doc, given, want, landed>>

(* The probe could not be opened, got no lock, or a read of it failed.     *)
ProbeFails(p) ==
  /\ pc[p] = "doubt"
  /\ excused' = excused \cup fresh[p]
  /\ Return(p, "unknown")
  /\ UNCHANGED <<shared, lock, doc, given, want, landed>>

-----------------------------------------------------------------------------
(* Cleaning up after a call that will not commit, the lock still held *)

Unlink(p, h) ==
  /\ pc[p] \in {"undo", "scrub"} /\ h \in fresh[p]
  /\ file' = [file EXCEPT ![h] = "absent"]
  /\ fresh' = [fresh EXCEPT ![p] = @ \ {h}]
  /\ UNCHANGED <<rows, owned, docs, calls, lock, pc, todo, pend, excused>>

CleanupVerdict(p) == IF pc[p] = "undo" THEN "failed" ELSE "unknown"

(* A file cannot be removed: cleanup stops there and the rest stays.  (A   *)
(* fetch, which ignores the error, has one file.)                          *)
UnlinkFails(p) ==
  /\ pc[p] \in {"undo", "scrub"} /\ fresh[p] # {}
  /\ lock' = Free
  /\ excused' = excused \cup fresh[p]
  /\ Return(p, CleanupVerdict(p))
  /\ UNCHANGED <<shared, doc, given, want, landed>>

(* Mutant of Rollback: the transaction is dropped without a cleanup.       *)
RollbackFirst(p) ==
  /\ pc[p] \in {"undo", "scrub"}
  /\ lock' = Free
  /\ Return(p, "failed")
  /\ UNCHANGED <<shared, doc, given, want, landed, excused>>

(* Everything removed: the transaction is dropped.                         *)
Rollback(p) ==
  /\ pc[p] \in {"undo", "scrub"} /\ fresh[p] = {}
  /\ lock' = Free
  /\ Return(p, "failed")
  /\ UNCHANGED <<shared, doc, given, want, landed, excused>>

(* The process dies: SQLite rolls its transaction back, its files stay.    *)
(* A process that starts again knows nothing of the call.                  *)
Crash(p) ==
  /\ pc[p] # "idle"
  /\ lock' = IF lock = p THEN Free ELSE lock
  /\ excused' = excused \cup fresh[p]
  /\ Return(p, "none")
  /\ doc' = [doc EXCEPT ![p] = NoDoc]
  /\ given' = [given EXCEPT ![p] = {}]
  /\ want' = [want EXCEPT ![p] = {}]
  /\ landed' = [landed EXCEPT ![p] = FALSE]
  /\ UNCHANGED shared

-----------------------------------------------------------------------------

Start(p) ==
  \/ \E h \in Hash : StartFetch(p, h)
  \/ \E d \in Doc, claims \in SUBSET Claim : StartIngest(p, d, claims)

(* What a running call does next.                                          *)
Step(p) ==
  \/ Begin(p) \/ Busy(p)
  \/ \E h \in Hash :
       \/ InstallNew(p, h) \/ InstallFound(p, h)
       \/ InstallRefused(p, h) \/ InstallUnsynced(p, h)
       \/ Unlink(p, h)
  \/ Record(p) \/ Refuse(p) \/ Fail(p)
  \/ Commit(p) \/ FetchCommitFails(p) \/ IngestCommitFails(p)
  \/ ProbeComplete(p) \/ ProbeAbsent(p) \/ ProbeIndeterminate(p) \/ ProbeFails(p)
  \/ UnlinkFails(p) \/ Rollback(p)

Next == \E p \in Proc : Start(p) \/ Step(p) \/ Crash(p)

Spec == Init /\ [][Next]_vars

(* A call is straight-line code: it goes on until it returns.  Waiting for *)
(* the lock is bounded by the busy timeout.                                *)
FairSpec == Spec /\ \A p \in Proc : WF_vars(Step(p))

-----------------------------------------------------------------------------
(* Properties *)

(* The variables have their types, and a call only ever handles artifacts  *)
(* that its document's references claim (ingest_cve refuses the others).   *)
TypeOK ==
  /\ file \in [Hash -> {"absent", "good", "bad"}]
  /\ rows \subseteq Hash /\ owned \subseteq Claim /\ docs \subseteq Doc
  /\ lock \in Proc \cup {Free}
  /\ pc \in [Proc -> Phase]
  /\ doc \in [Proc -> Doc \cup {NoDoc}]
  /\ given \in [Proc -> SUBSET Claim]
  /\ want \in [Proc -> SUBSET Hash]
  /\ todo \in [Proc -> SUBSET Hash]
  /\ fresh \in [Proc -> SUBSET Hash]
  /\ pend \in [Proc -> SUBSET Hash]
  /\ reply \in [Proc -> Reply]
  /\ landed \in [Proc -> BOOLEAN]
  /\ excused \subseteq Hash
  /\ \A p \in Proc : doc[p] # NoDoc =>
       given[p] \subseteq RefsOf[doc[p]] /\ want[p] = Digests(given[p])

(* A catalog row never points at a missing or damaged file, whatever dies, *)
(* fails or overlaps: cleanup never removes a file another call has        *)
(* cataloged, and nothing is cataloged before its file is in place.        *)
NoDanglingArtifact == \A h \in rows : file[h] = "good"

(* Every reference of a stored CVE version resolves: its artifact is       *)
(* cataloged, owned by the source that claimed it under that locator, and  *)
(* readable.                                                               *)
ProvenanceResolves ==
  \A d \in docs : \A c \in RefsOf[d] :
    c \in owned /\ c[2] \in rows /\ file[c[2]] = "good"

(* Two different documents never end up under one version id, or as one    *)
(* revision of a CVE, however their ingests overlap.                       *)
ImmutableVersions == \A d, e \in docs : <<d, e>> \notin Rivals

(* A call is answered "ok" only when what it carries is stored, and        *)
(* ingest_cve reports a plain failure only when its transaction did not    *)
(* take effect, even after a commit whose outcome was not known.  (A fetch *)
(* whose commit failed after taking effect does report a failure.)         *)
HonestReply ==
  \A p \in Proc :
    /\ reply[p] = "ok" =>
         want[p] \subseteq rows /\ (doc[p] # NoDoc => doc[p] \in docs)
    /\ reply[p] = "failed" /\ doc[p] # NoDoc => ~landed[p]

(* A file without a row is explained by a crash, a failed removal, or a    *)
(* commit whose outcome was not known: a call that merely fails cleans up. *)
NoUnexplainedOrphan ==
  \A h \in Hash : file[h] = "good" =>
    h \in rows \cup excused \cup UNION {fresh[p] : p \in Proc}

(* Every call returns or dies with its process: nobody waits forever.      *)
EveryCallReturns == \A p \in Proc : pc[p] # "idle" ~> pc[p] = "idle"

(* The catalog implements the content store.                               *)
Readable == {h \in rows : file[h] = "good"}

Store == INSTANCE ContentStore WITH
  Client <- Proc, RefsOf <- [d \in Doc |-> Digests(RefsOf[d])],
  available <- Readable, recorded <- docs

ImplementsContentStore == Store!Spec

=============================================================================
