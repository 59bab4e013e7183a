--------------------------- MODULE InteropExport ---------------------------
(***************************************************************************)
(* Store::export_interop_snapshot, which reads table after table while     *)
(* other processes commit.  Each SELECT sees the catalog as it then is:    *)
(* the export has no transaction around all of them.  A link is exported   *)
(* with the row it was derived from, whether or not the record at its      *)
(* other end was read.                                                     *)
(***************************************************************************)
EXTENDS Naturals, Sequences

CONSTANTS Source, Run, Hash, Item, Cve,   \* identities of the rows
          None,                           \* no current version
          MaxRevision                     \* bound: versions per CVE

ASSUME ExportAssumption == None \notin Nat /\ MaxRevision \in Nat

VARIABLES
  sources,    \* rows of sources
  runs,       \* fetch_runs, as <<run, source>>
  artifacts,  \* rows of artifacts
  items,      \* feed_items, as <<item, source>>
  provenance, \* provenance, as <<run, artifact, item>>
  current,    \* cve_current: the current revision of each CVE
  versions,   \* cve_versions, as <<cve, revision>>
  refs,       \* cve_version_provenance, as <<version, artifact>>
  stage,      \* the table the export reads next, 0 before the first
  records,    \* what has been exported, as <<kind, id>>
  links,      \* the links exported, as <<from, to>>
  quiet       \* history: nothing was committed since the export began

tables == <<sources, runs, artifacts, items, provenance, current, versions, refs>>
export == <<stage, records, links>>
vars   == <<sources, runs, artifacts, items, provenance, current, versions,
            refs, stage, records, links, quiet>>

Init ==
  /\ sources = {} /\ runs = {} /\ artifacts = {} /\ items = {}
  /\ provenance = {} /\ versions = {} /\ refs = {}
  /\ current = [c \in Cve |-> None]
  /\ stage = 0 /\ records = {} /\ links = {} /\ quiet = TRUE

-----------------------------------------------------------------------------
(* What other processes commit *)

Register(s) ==
  /\ s \notin sources
  /\ sources' = sources \cup {s}
  /\ quiet' = FALSE
  /\ UNCHANGED <<runs, artifacts, items, provenance, current, versions, refs, export>>

StartRun(r, s) ==
  /\ s \in sources
  /\ \A t \in Source : <<r, t>> \notin runs
  /\ runs' = runs \cup {<<r, s>>}
  /\ quiet' = FALSE
  /\ UNCHANGED <<sources, artifacts, items, provenance, current, versions, refs, export>>

(* A fetch stores the artifact, an item and its provenance in one commit.  *)
(* Another source's item of the same identity is an item of its own.       *)
StoreBody(r, s, h, i) ==
  /\ <<r, s>> \in runs
  /\ \A t \in Source \ {s} : <<i, t>> \notin items
  /\ artifacts' = artifacts \cup {h}
  /\ items' = items \cup {<<i, s>>}
  /\ provenance' = provenance \cup {<<r, h, i>>}
  /\ quiet' = FALSE
  /\ UNCHANGED <<sources, runs, current, versions, refs, export>>

(* ingest_cve stores a revision, its artifact, and what is current now.    *)
Ingest(c, v, h) ==
  /\ <<c, v>> \notin versions
  /\ artifacts' = artifacts \cup {h}
  /\ versions' = versions \cup {<<c, v>>}
  /\ refs' = refs \cup {<<<<c, v>>, h>>}
  /\ current' = [current EXCEPT ![c] = IF @ = None \/ @ < v THEN v ELSE @]
  /\ quiet' = FALSE
  /\ UNCHANGED <<sources, runs, items, provenance, export>>

-----------------------------------------------------------------------------
(* The export *)

Node(kind, ids) == {<<kind, i>> : i \in ids}

(* What the SELECTs yield, in the order in which they are run.             *)
FromSources    == [nodes |-> Node("source", sources), edges |-> {}]
FromRuns       == [nodes |-> Node("run", {x[1] : x \in runs}),
                   edges |-> {<<<<"source", x[2]>>, <<"run", x[1]>>>> : x \in runs}]

(* Mutant of FromArtifacts: only feed artifacts are read.                  *)
FromArtifactsOfFeeds ==
  [nodes |-> Node("artifact", {x[2] : x \in provenance}), edges |-> {}]

FromArtifacts  == [nodes |-> Node("artifact", artifacts), edges |-> {}]
FromItems      == [nodes |-> Node("item", {x[1] : x \in items}), edges |-> {}]
FromProvenance ==
  [nodes |-> Node("provenance", provenance),
   edges |->
     {<<<<"run", x[1]>>, <<"artifact", x[2]>>>> : x \in provenance} \cup
     {<<<<"run", x[1]>>, <<"item", x[3]>>>> : x \in provenance} \cup
     {<<<<"source", y[2]>>, <<"item", y[1]>>>> :
        y \in {z \in items : \E x \in provenance : x[3] = z[1]}} \cup
     {<<<<"provenance", x>>, <<"run", x[1]>>>> : x \in provenance} \cup
     {<<<<"provenance", x>>, <<"artifact", x[2]>>>> : x \in provenance}]
FromCurrent ==
  LET known == {c \in Cve : current[c] # None} IN
  [nodes |-> Node("cve", known),
   edges |-> {<<<<"cve", c>>, <<"revision", <<c, current[c]>>>>>> : c \in known}]
FromVersions ==
  [nodes |-> Node("revision", versions),
   edges |-> {<<<<"cve", x[1]>>, <<"revision", x>>>> : x \in versions}]
FromRefs ==
  [nodes |-> Node("reference", refs),
   edges |-> {<<<<"revision", x[1]>>, <<"reference", x>>>> : x \in refs} \cup
             {<<<<"reference", x>>, <<"artifact", x[2]>>>> : x \in refs}]

(* Mutant of Selects: versions are read before what is current.            *)
SelectsSwapped ==
  <<FromSources, FromRuns, FromArtifacts, FromItems, FromProvenance,
    FromVersions, FromCurrent, FromRefs>>

Selects ==
  <<FromSources, FromRuns, FromArtifacts, FromItems, FromProvenance,
    FromCurrent, FromVersions, FromRefs>>

Begin ==
  /\ stage = 0
  /\ stage' = 1
  /\ records' = {} /\ links' = {} /\ quiet' = TRUE
  /\ UNCHANGED tables

Read ==
  /\ stage \in DOMAIN Selects
  /\ records' = records \cup Selects[stage].nodes
  /\ links' = links \cup Selects[stage].edges
  /\ stage' = stage + 1
  /\ UNCHANGED <<tables, quiet>>

Next ==
  \/ \E s \in Source :
       \/ Register(s)
       \/ \E r \in Run : StartRun(r, s) \/ \E h \in Hash, i \in Item : StoreBody(r, s, h, i)
  \/ \E c \in Cve, v \in 1 .. MaxRevision, h \in Hash : Ingest(c, v, h)
  \/ Begin \/ Read

Spec == Init /\ [][Next]_vars

-----------------------------------------------------------------------------
(* Properties *)

(* The variables have their types, and every row's foreign keys resolve.   *)
TypeOK ==
  /\ sources \subseteq Source
  /\ runs \subseteq Run \X sources
  /\ artifacts \subseteq Hash
  /\ items \subseteq Item \X sources
  /\ \A x \in provenance :
       /\ \E s \in sources : <<x[1], s>> \in runs /\ <<x[3], s>> \in items
       /\ x[2] \in artifacts
  /\ versions \subseteq Cve \X (1 .. MaxRevision)
  /\ current \in [Cve -> Nat \cup {None}]
  /\ \A c \in Cve : current[c] # None <=> \E x \in versions : x[1] = c
  /\ \A c \in Cve : current[c] = None \/ <<c, current[c]>> \in versions
  /\ refs \subseteq versions \X artifacts
  /\ stage \in 0 .. 9
  /\ quiet \in BOOLEAN

Complete == stage = 9

Resolves(l) == l[1] \in records /\ l[2] \in records

(* Every link of a finished export leads from one exported record to       *)
(* another: "Export a deterministic, read-only interoperability snapshot." *)
LinksResolve == Complete => \A l \in links : Resolves(l)

(* They do when nothing was committed between its first and last SELECT.   *)
QuietLinksResolve == Complete /\ quiet => \A l \in links : Resolves(l)

(* Whatever is committed meanwhile, the current revision of every exported *)
(* CVE is exported as well: current versions are read before the versions. *)
CurrentRevisionResolves ==
  Complete => \A l \in links :
    l[1][1] = "cve" /\ l[1] \in records => l[2] \in records

=============================================================================
