----------------------------- MODULE CveHistory -----------------------------
(***************************************************************************)
(* The version history of CVEs: Store::ingest_cve adding immutable         *)
(* versions in whatever order sources deliver them, the current version it *)
(* maintains, the settling of a commit whose outcome was not known, and    *)
(* Store::cve_history paging through the history while it grows.           *)
(*                                                                         *)
(* The transaction of one ingest is one step here: it runs under the       *)
(* write lock from its first read to its commit.  ArtifactCatalog opens it *)
(* up, for the artifact files.                                             *)
(***************************************************************************)
EXTENDS Naturals, FiniteSets

CONSTANTS Writer,   \* processes that ingest
          Reader,   \* clients that page through a history
          Cve,      \* CVE identifiers
          Body,     \* everything else a version's JSON says
          Input,    \* the versions sources deliver
          None,     \* no version
          Limit     \* the page size, 1..100 in the code

(* modified_at, revision and id are numbers that order as the texts do.    *)
Version == [cve : Cve, id : Nat, rev : Nat, mod : Nat, body : Body]

ASSUME HistoryAssumption ==
  /\ Input \subseteq Version
  /\ None \notin Version
  /\ Limit \in Nat \ {0}

VARIABLES
  stored,   \* table cve_versions
  current,  \* table cve_current
  doubtful, \* the version each writer's unsettled commit carried, or None
  claim,    \* the "current" its transaction had computed
  answer,   \* the answer to each writer's last call
  cve,      \* the CVE each reader reads, None before its first request
  base,     \* history: what that CVE's history held at its first request
  seen,     \* history: what earlier pages held
  page,     \* the last page
  cursor,   \* the version next_cursor names, None when there is none
  more      \* the last page came with a cursor

catalog == <<stored, current>>
writers == <<doubtful, claim, answer>>
readers == <<cve, base, seen, page, cursor, more>>
vars    == <<stored, current, doubtful, claim, answer,
             cve, base, seen, page, cursor, more>>

Answer == {"none", "current", "superseded", "error"}

(* Mutant of Older: ties in modified_at are not broken.                    *)
OlderByTime(u, v) == u.mod < v.mod

(* (modified_at, revision, version_id), lexicographically.  The same order *)
(* decides what is current and how cve_history sorts.                      *)
Older(u, v) ==
  \/ u.mod < v.mod
  \/ u.mod = v.mod /\ u.rev < v.rev
  \/ u.mod = v.mod /\ u.rev = v.rev /\ u.id < v.id

Init ==
  /\ stored = {}
  /\ current = [c \in Cve |-> None]
  /\ doubtful = [w \in Writer |-> None]
  /\ claim = [w \in Writer |-> FALSE]
  /\ answer = [w \in Writer |-> "none"]
  /\ cve = [r \in Reader |-> None]
  /\ base = [r \in Reader |-> {}]
  /\ seen = [r \in Reader |-> {}]
  /\ page = [r \in Reader |-> {}]
  /\ cursor = [r \in Reader |-> None]
  /\ more = [r \in Reader |-> FALSE]

-----------------------------------------------------------------------------
(* Ingest *)

(* The id, or the revision of that CVE, is taken by another document.      *)
Conflicts(v) ==
  \E u \in stored : u # v /\ (u.id = v.id \/ (u.cve = v.cve /\ u.rev = v.rev))

(* Mutant of Newest: the last version delivered becomes current.           *)
AlwaysNewest(v) == TRUE

(* make_current: nothing is current yet, or v is strictly newer.           *)
Newest(v) == current[v.cve] = None \/ Older(current[v.cve], v)

(* The effect of the transaction: a version already stored is a replay.    *)
Store(v) ==
  IF v \in stored
  THEN UNCHANGED catalog
  ELSE /\ stored' = stored \cup {v}
       /\ current' = IF Newest(v) THEN [current EXCEPT ![v.cve] = v] ELSE current

(* Whether v is current once it is stored.                                 *)
IsCurrentAfter(v) == IF v \in stored THEN current[v.cve] = v ELSE Newest(v)

Told(is) == IF is THEN "current" ELSE "superseded"

Ingest(w, v) ==
  /\ doubtful[w] = None
  /\ ~Conflicts(v)
  /\ Store(v)
  /\ answer' = [answer EXCEPT ![w] = Told(IsCurrentAfter(v))]
  /\ UNCHANGED <<doubtful, claim, readers>>

Reject(w, v) ==
  /\ doubtful[w] = None
  /\ Conflicts(v)
  /\ answer' = [answer EXCEPT ![w] = "error"]
  /\ UNCHANGED <<catalog, doubtful, claim, readers>>

(* The commit failed, after taking effect or not.                          *)
LoseCommit(w, v) ==
  /\ doubtful[w] = None
  /\ ~Conflicts(v)
  /\ Store(v) \/ UNCHANGED catalog
  /\ doubtful' = [doubtful EXCEPT ![w] = v]
  /\ claim' = [claim EXCEPT ![w] = IsCurrentAfter(v)]
  /\ answer' = [answer EXCEPT ![w] = "none"]
  /\ UNCHANGED readers

(* Mutant of Probe: the lost transaction's answer is repeated.             *)
ProbeKeepsClaim(w) ==
  /\ doubtful[w] # None
  /\ answer' = [answer EXCEPT ![w] =
       IF doubtful[w] \in stored THEN Told(claim[w]) ELSE "error"]
  /\ doubtful' = [doubtful EXCEPT ![w] = None]
  /\ claim' = [claim EXCEPT ![w] = FALSE]
  /\ UNCHANGED <<catalog, readers>>

(* reconcile_cve_commit: other ingests may have run in between, so what is *)
(* current is read again.                                                  *)
Probe(w) ==
  LET v == doubtful[w] IN
  /\ v # None
  /\ answer' = [answer EXCEPT ![w] =
       IF v \in stored THEN Told(current[v.cve] = v) ELSE "error"]
  /\ doubtful' = [doubtful EXCEPT ![w] = None]
  /\ claim' = [claim EXCEPT ![w] = FALSE]
  /\ UNCHANGED <<catalog, readers>>

-----------------------------------------------------------------------------
(* Reading the history *)

History(c) == {v \in stored : v.cve = c}

(* Mutant of AfterCursor: the cursor is a time only.                       *)
AfterCursorByTime(c, from) ==
  {v \in History(c) : from = None \/ v.mod < from.mod}

(* What the query's WHERE clause lets through.                             *)
AfterCursor(c, from) == {v \in History(c) : from = None \/ Older(v, from)}

(* ORDER BY ... DESC LIMIT n: those with fewer than n newer ones.          *)
FirstOf(n, rows) == {v \in rows : Cardinality({u \in rows : Older(v, u)}) < n}

Oldest(rows) == CHOOSE v \in rows : \A u \in rows : ~Older(u, v)

Fetch(r, c, from) ==
  LET rows   == FirstOf(Limit + 1, AfterCursor(c, from))
      chosen == FirstOf(Limit, rows)
  IN  /\ page' = [page EXCEPT ![r] = chosen]
      /\ more' = [more EXCEPT ![r] = Cardinality(rows) > Limit]
      /\ cursor' = [cursor EXCEPT ![r] =
           IF Cardinality(rows) > Limit THEN Oldest(chosen) ELSE None]

(* A request without a cursor; the reader may start over at any time.      *)
FirstPage(r, c) ==
  /\ Fetch(r, c, None)
  /\ cve' = [cve EXCEPT ![r] = c]
  /\ base' = [base EXCEPT ![r] = History(c)]
  /\ seen' = [seen EXCEPT ![r] = {}]
  /\ UNCHANGED <<catalog, writers>>

NextPage(r) ==
  /\ more[r]
  /\ Fetch(r, cve[r], cursor[r])
  /\ seen' = [seen EXCEPT ![r] = @ \cup page[r]]
  /\ UNCHANGED <<catalog, writers, cve, base>>

-----------------------------------------------------------------------------

Next ==
  \/ \E w \in Writer, v \in Input : Ingest(w, v) \/ Reject(w, v) \/ LoseCommit(w, v)
  \/ \E w \in Writer : Probe(w)
  \/ \E r \in Reader, c \in Cve : FirstPage(r, c)
  \/ \E r \in Reader : NextPage(r)

Spec == Init /\ [][Next]_vars

-----------------------------------------------------------------------------
(* Properties *)

(* The variables have their types; a page is at most Limit versions of the *)
(* reader's CVE, and a cursor accompanies a page that is followed by more. *)
TypeOK ==
  /\ stored \subseteq Version
  /\ current \in [Cve -> Version \cup {None}]
  /\ doubtful \in [Writer -> Version \cup {None}]
  /\ claim \in [Writer -> BOOLEAN]
  /\ answer \in [Writer -> Answer]
  /\ cve \in [Reader -> Cve \cup {None}]
  /\ base \in [Reader -> SUBSET Version]
  /\ seen \in [Reader -> SUBSET Version]
  /\ page \in [Reader -> SUBSET Version]
  /\ cursor \in [Reader -> Version \cup {None}]
  /\ more \in [Reader -> BOOLEAN]
  /\ \A r \in Reader : Cardinality(page[r]) <= Limit /\ (more[r] <=> cursor[r] # None)

(* The current version is the newest of the stored ones, whatever the      *)
(* order of delivery, the conflicts, replays and lost commits.             *)
CurrentIsNewest ==
  \A v \in stored :
    /\ current[v.cve] \in History(v.cve)
    /\ ~Older(current[v.cve], v)

(* An ingest that answers "current" is right when it does, even after its  *)
(* commit was in doubt and another ingest got in between.                  *)
AnswersAreCurrent ==
  [][\A w \in Writer :
       answer'[w] = "current" /\ doubtful[w] # None /\ doubtful'[w] = None =>
         current'[doubtful[w].cve] = doubtful[w]]_vars

(* A reader is given versions newest first, none of them twice, and when   *)
(* it has reached the last page, every version that the history held when  *)
(* it started, however the history grew meanwhile.                         *)
EachVersionOnce ==
  \A r \in Reader :
    /\ \A u \in page[r], v \in seen[r] : Older(u, v)
    /\ ~more[r] => base[r] \subseteq seen[r] \cup page[r]

=============================================================================
