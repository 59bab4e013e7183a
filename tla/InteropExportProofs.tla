------------------------ MODULE InteropExportProofs ------------------------
(***************************************************************************)
(* What the links of an export promise, for any number of rows: all of     *)
(* them when nothing is committed meanwhile, and the current revisions     *)
(* whatever is.                                                            *)
(***************************************************************************)
EXTENDS InteropExport, TLAPS

(* While nothing is committed, records and links are what the SELECTs done *)
(* so far would still yield.                                               *)
QuietInv ==
  quiet =>
    /\ \A k \in 1 .. stage - 1 : Selects[k].nodes \subseteq records
    /\ \A l \in links : \E k \in 1 .. stage - 1 : l \in Selects[k].edges

(* A current revision that was exported is a version, and is read next.    *)
CurrentInv ==
  \A l \in links : l[1][1] = "cve" =>
    l[2] \in records \/ (stage = 7 /\ \E x \in versions : l[2] = <<"revision", x>>)

ExportInv == TypeOK /\ QuietInv /\ CurrentInv

Commit ==
  \/ \E s \in Source :
       \/ Register(s)
       \/ \E r \in Run : StartRun(r, s) \/ \E h \in Hash, i \in Item : StoreBody(r, s, h, i)
  \/ \E c \in Cve, v \in 1 .. MaxRevision, h \in Hash : Ingest(c, v, h)

(* The foreign keys of every row resolve, whatever is committed.           *)
LEMMA TypeStep ==
  ASSUME TypeOK, [Next]_vars
  PROVE  TypeOK'
<1>. USE DEF TypeOK
<1>1. ASSUME NEW s \in Source, Register(s)  PROVE TypeOK'
  BY <1>1 DEF Register, export
<1>2. ASSUME NEW s \in Source, NEW r \in Run, StartRun(r, s)  PROVE TypeOK'
  <2>1. runs \subseteq runs' /\ runs' \subseteq Run \X sources  BY <1>2 DEF StartRun
  <2>2. \A x \in provenance :
          /\ \E t \in sources : <<x[1], t>> \in runs' /\ <<x[3], t>> \in items
          /\ x[2] \in artifacts
    BY <2>1
  <2>. QED  BY <1>2, <2>1, <2>2 DEF StartRun, export
<1>3. ASSUME NEW s \in Source, NEW r \in Run, NEW h \in Hash, NEW i \in Item,
             StoreBody(r, s, h, i)
      PROVE  TypeOK'
  <2>1. s \in sources /\ <<r, s>> \in runs' /\ <<i, s>> \in items' /\ h \in artifacts'
    BY <1>3 DEF StoreBody
  <2>2. \A x \in provenance' :
          /\ \E t \in sources' : <<x[1], t>> \in runs' /\ <<x[3], t>> \in items'
          /\ x[2] \in artifacts'
    BY <1>3, <2>1 DEF StoreBody
  <2>3. artifacts' \subseteq Hash /\ items' \subseteq Item \X sources'
        /\ refs' \subseteq versions' \X artifacts'
    BY <1>3, <2>1 DEF StoreBody
  <2>. QED  BY <1>3, <2>2, <2>3 DEF StoreBody, export
<1>4. ASSUME NEW c \in Cve, NEW v \in 1 .. MaxRevision, NEW h \in Hash, Ingest(c, v, h)
      PROVE  TypeOK'
  <2>1. /\ versions' \subseteq Cve \X (1 .. MaxRevision)
        /\ refs' \subseteq versions' \X artifacts' /\ artifacts' \subseteq Hash
    BY <1>4 DEF Ingest
  <2>2. \A d \in Cve : current'[d] \in {None, current[d], v} /\ (d # c => current'[d] = current[d])
    BY <1>4 DEF Ingest
  <2>3. \A d \in Cve : current'[d] = None \/ <<d, current'[d]>> \in versions'
    BY <1>4, <2>2 DEF Ingest
  <2>4. current' \in [Cve -> Nat \cup {None}] /\ current'[c] # None
    BY <1>4, ExportAssumption DEF Ingest
  <2>5. \A d \in Cve : current'[d] # None <=> \E x \in versions' : x[1] = d
    BY <1>4, <2>2, <2>4 DEF Ingest
  <2>6. \A x \in provenance' :
          /\ \E t \in sources' : <<x[1], t>> \in runs' /\ <<x[3], t>> \in items'
          /\ x[2] \in artifacts'
    BY <1>4 DEF Ingest
  <2>. QED  BY <1>4, <2>1, <2>3, <2>4, <2>5, <2>6 DEF Ingest, export
<1>5. CASE Begin  BY <1>5 DEF Begin, tables
<1>6. CASE Read
  <2>1. DOMAIN Selects = 1 .. 8  BY DEF Selects
  <2>. QED  BY <1>6, <2>1 DEF Read, tables
<1>7. CASE UNCHANGED vars  BY <1>7 DEF vars
<1>. QED  BY <1>1, <1>2, <1>3, <1>4, <1>5, <1>6, <1>7 DEF Next

(* The tables decide what the SELECTs yield.                               *)
LEMMA SameSelects ==
  ASSUME UNCHANGED tables
  PROVE  Selects' = Selects
BY DEF tables, Selects, FromSources, FromRuns, FromArtifacts, FromItems, FromProvenance,
       FromCurrent, FromVersions, FromRefs, Node

(* There are eight SELECTs.                                                *)
LEMMA EightSelects ==
  /\ DOMAIN Selects = 1 .. 8
  /\ Selects[1] = FromSources /\ Selects[2] = FromRuns /\ Selects[3] = FromArtifacts
  /\ Selects[4] = FromItems /\ Selects[5] = FromProvenance /\ Selects[6] = FromCurrent
  /\ Selects[7] = FromVersions /\ Selects[8] = FromRefs
BY DEF Selects

(* A commit ends the quiet, and only adds versions.                        *)
LEMMA CommitStep ==
  ASSUME Commit
  PROVE  /\ quiet' = FALSE /\ UNCHANGED <<stage, records, links>>
         /\ versions \subseteq versions'
BY DEF Commit, Register, StartRun, StoreBody, Ingest, export

(* Only the current versions and the versions have links from a CVE.       *)
LEMMA CveLinks ==
  ASSUME TypeOK, NEW k \in 1 .. 8, NEW l \in Selects[k].edges, l[1][1] = "cve"
  PROVE  /\ k \in {6, 7}
         /\ \E x \in versions : l[2] = <<"revision", x>>
<1>1. CASE k \in 1 .. 5
  BY <1>1, EightSelects
  DEF FromSources, FromRuns, FromArtifacts, FromItems, FromProvenance
<1>2. CASE k = 6
  BY <1>2, EightSelects DEF FromCurrent, TypeOK
<1>3. CASE k = 7
  BY <1>3, EightSelects DEF FromVersions
<1>4. CASE k = 8
  BY <1>4, EightSelects DEF FromRefs
<1>. QED  BY <1>1, <1>2, <1>3, <1>4

(* The export and the commits keep what is known of the records and links. *)
LEMMA ExportStep ==
  ASSUME ExportInv, [Next]_vars
  PROVE  ExportInv'
<1>1. TypeOK /\ TypeOK' /\ stage \in 0 .. 9  BY TypeStep DEF ExportInv, TypeOK
<1>2. CASE Commit
  <2>1. QuietInv'  BY <1>2, CommitStep DEF QuietInv
  <2>2. CurrentInv'  BY <1>2, CommitStep DEF ExportInv, CurrentInv
  <2>. QED  BY <1>1, <2>1, <2>2 DEF ExportInv
<1>3. CASE Begin
  BY <1>1, <1>3 DEF Begin, ExportInv, QuietInv, CurrentInv
<1>4. CASE Read
  <2>1. /\ stage \in 1 .. 8 /\ stage' = stage + 1
        /\ records' = records \cup Selects[stage].nodes
        /\ links' = links \cup Selects[stage].edges
        /\ UNCHANGED <<tables, quiet>>
    BY <1>4, EightSelects DEF Read
  <2>2. Selects' = Selects /\ versions' = versions  BY <2>1, SameSelects DEF tables
  <2>3. QuietInv'
    <3>. SUFFICES ASSUME quiet
                  PROVE  /\ \A k \in 1 .. stage : Selects[k].nodes \subseteq records'
                         /\ \A l \in links' : \E k \in 1 .. stage : l \in Selects[k].edges
      BY <2>1, <2>2 DEF QuietInv
    <3>1. /\ \A k \in 1 .. stage - 1 : Selects[k].nodes \subseteq records
          /\ \A l \in links : \E k \in 1 .. stage - 1 : l \in Selects[k].edges
      BY DEF ExportInv, QuietInv
    <3>2. \A k \in 1 .. stage : k = stage \/ k \in 1 .. stage - 1  BY <2>1
    <3>3. stage \in 1 .. stage /\ \A k \in 1 .. stage - 1 : k \in 1 .. stage  BY <2>1
    <3>. QED  BY <3>1, <3>2, <3>3, <2>1
  <2>4. CurrentInv'
    <3>. SUFFICES ASSUME NEW l \in links', l[1][1] = "cve"
                  PROVE  \/ l[2] \in records'
                         \/ stage = 6 /\ \E x \in versions : l[2] = <<"revision", x>>
      BY <2>1, <2>2 DEF CurrentInv
    <3>1. CASE stage = 7
      <4>1. (\E x \in versions : l[2] = <<"revision", x>>) \/ l[2] \in records
        BY <2>1, <1>1, CveLinks DEF ExportInv, CurrentInv
      <4>2. \A x \in versions : <<"revision", x>> \in records'
        BY <2>1, <3>1, EightSelects DEF FromVersions, Node
      <4>. QED  BY <4>1, <4>2, <2>1
    <3>2. CASE stage # 7
      BY <3>2, <2>1, <1>1, CveLinks DEF ExportInv, CurrentInv
    <3>. QED  BY <3>1, <3>2
  <2>. QED  BY <1>1, <2>3, <2>4 DEF ExportInv
<1>5. CASE UNCHANGED vars
  <2>1. Selects' = Selects  BY <1>5, SameSelects DEF vars, tables
  <2>. QED  BY <1>1, <1>5, <2>1 DEF vars, ExportInv, QuietInv, CurrentInv
<1>. QED  BY <1>2, <1>3, <1>4, <1>5 DEF Next, Commit

(* In the beginning nothing is stored and nothing exported.                *)
LEMMA InitExport == Init => ExportInv
BY DEF Init, ExportInv, TypeOK, QuietInv, CurrentInv

(* What is known of the export holds always.                               *)
THEOREM ExportInvariant == Spec => []ExportInv
BY InitExport, ExportStep, PTL DEF Spec

(* The foreign keys of every row resolve.                                  *)
THEOREM RowsResolve == Spec => []TypeOK
<1>1. ExportInv => TypeOK  BY DEF ExportInv
<1>. QED  BY <1>1, ExportInvariant, PTL

(* The current revision of every exported CVE is exported, whatever is     *)
(* committed meanwhile: the order of two SELECTs sees to it.               *)
THEOREM CurrentRevisionsResolve == Spec => []CurrentRevisionResolves
<1>1. ExportInv => CurrentRevisionResolves
  BY DEF ExportInv, CurrentInv, CurrentRevisionResolves, Complete
<1>. QED  BY <1>1, ExportInvariant, PTL

(* What the eight SELECTs yield of one catalog has no loose link.          *)
LEMMA OneCatalogResolves ==
  ASSUME TypeOK, NEW k \in 1 .. 8, NEW l \in Selects[k].edges
  PROVE  \E i \in 1 .. 8, j \in 1 .. 8 : l[1] \in Selects[i].nodes /\ l[2] \in Selects[j].nodes
<1>. USE EightSelects DEF Node
<1>1. CASE k \in {1, 3, 4}
  BY <1>1 DEF FromSources, FromArtifacts, FromItems
<1>2. CASE k = 2
  <2>1. l[1] \in Selects[1].nodes /\ l[2] \in Selects[2].nodes
    BY <1>2 DEF FromRuns, FromSources, TypeOK
  <2>. QED  BY <2>1
<1>3. CASE k = 5
  <2>1. ASSUME NEW x \in provenance
        PROVE  /\ <<"run", x[1]>> \in Selects[2].nodes
               /\ <<"artifact", x[2]>> \in Selects[3].nodes
               /\ <<"item", x[3]>> \in Selects[4].nodes
               /\ <<"provenance", x>> \in Selects[5].nodes
    <3>1. PICK t \in sources : <<x[1], t>> \in runs /\ <<x[3], t>> \in items
      BY DEF TypeOK
    <3>2. x[1] \in {y[1] : y \in runs} /\ x[3] \in {y[1] : y \in items}  BY <3>1
    <3>3. x[2] \in artifacts  BY DEF TypeOK
    <3>. QED  BY <3>2, <3>3 DEF FromRuns, FromArtifacts, FromItems, FromProvenance
  <2>2. \A y \in items :
          <<"source", y[2]>> \in Selects[1].nodes /\ <<"item", y[1]>> \in Selects[4].nodes
    BY DEF FromSources, FromItems, TypeOK
  <2>3. l \in FromProvenance.edges  BY <1>3
  <2>4. \/ \E x \in provenance :
             \/ l = <<<<"run", x[1]>>, <<"artifact", x[2]>>>>
             \/ l = <<<<"run", x[1]>>, <<"item", x[3]>>>>
             \/ l = <<<<"provenance", x>>, <<"run", x[1]>>>>
             \/ l = <<<<"provenance", x>>, <<"artifact", x[2]>>>>
        \/ \E y \in items : l = <<<<"source", y[2]>>, <<"item", y[1]>>>>
    BY <2>3 DEF FromProvenance
  <2>5. \E i \in {1, 2, 5}, j \in {2, 3, 4} :
          l[1] \in Selects[i].nodes /\ l[2] \in Selects[j].nodes
    <3>. HIDE EightSelects
    <3>1. ASSUME NEW x \in provenance,
                 \/ l = <<<<"run", x[1]>>, <<"artifact", x[2]>>>>
                 \/ l = <<<<"run", x[1]>>, <<"item", x[3]>>>>
                 \/ l = <<<<"provenance", x>>, <<"run", x[1]>>>>
                 \/ l = <<<<"provenance", x>>, <<"artifact", x[2]>>>>
          PROVE  \E i \in {1, 2, 5}, j \in {2, 3, 4} :
                   l[1] \in Selects[i].nodes /\ l[2] \in Selects[j].nodes
      <4>. HIDE DEF Node
      <4>1. /\ l[1] = <<"run", x[1]>> \/ l[1] = <<"provenance", x>>
            /\ \/ l[2] = <<"run", x[1]>> \/ l[2] = <<"artifact", x[2]>>
               \/ l[2] = <<"item", x[3]>>
        BY <3>1
      <4>2. /\ l[1] \in Selects[2].nodes \/ l[1] \in Selects[5].nodes
            /\ \/ l[2] \in Selects[2].nodes \/ l[2] \in Selects[3].nodes
               \/ l[2] \in Selects[4].nodes
        BY <2>1, <4>1
      <4>. QED  BY <4>2
    <3>2. ASSUME NEW y \in items, l = <<<<"source", y[2]>>, <<"item", y[1]>>>>
          PROVE  l[1] \in Selects[1].nodes /\ l[2] \in Selects[4].nodes
      BY <2>2, <3>2
    <3>. QED  BY <2>4, <3>1, <3>2
  <2>. QED  BY <2>5
<1>4. CASE k = 6
  <2>1. l[1] \in Selects[6].nodes /\ l[2] \in Selects[7].nodes
    BY <1>4 DEF FromCurrent, FromVersions, TypeOK
  <2>. QED  BY <2>1
<1>5. CASE k = 7
  <2>1. PICK x \in versions : l = <<<<"cve", x[1]>>, <<"revision", x>>>>
    BY <1>5 DEF FromVersions
  <2>2. x[1] \in {c \in Cve : current[c] # None}  BY DEF TypeOK
  <2>3. <<"cve", x[1]>> \in Selects[6].nodes /\ <<"revision", x>> \in Selects[7].nodes
    BY <2>2 DEF FromCurrent, FromVersions
  <2>. QED  BY <2>1, <2>3
<1>6. CASE k = 8
  <2>1. ASSUME NEW x \in refs
        PROVE  /\ <<"revision", x[1]>> \in Selects[7].nodes
               /\ <<"artifact", x[2]>> \in Selects[3].nodes
               /\ <<"reference", x>> \in Selects[8].nodes
    BY DEF FromVersions, FromArtifacts, FromRefs, TypeOK
  <2>2. PICK x \in refs : \/ l = <<<<"revision", x[1]>>, <<"reference", x>>>>
                          \/ l = <<<<"reference", x>>, <<"artifact", x[2]>>>>
    BY <1>6 DEF FromRefs
  <2>3. CASE l = <<<<"revision", x[1]>>, <<"reference", x>>>>
    <3>1. l[1] \in Selects[7].nodes /\ l[2] \in Selects[8].nodes  BY <2>1, <2>3
    <3>. QED  BY <3>1
  <2>4. CASE l = <<<<"reference", x>>, <<"artifact", x[2]>>>>
    <3>1. l[1] \in Selects[8].nodes /\ l[2] \in Selects[3].nodes  BY <2>1, <2>4
    <3>. QED  BY <3>1
  <2>. QED  BY <2>2, <2>3, <2>4
<1>. QED  BY <1>1, <1>2, <1>3, <1>4, <1>5, <1>6

(* An export during which nothing is committed has no loose link.          *)
THEOREM QuietLinksAlwaysResolve == Spec => []QuietLinksResolve
<1>1. ExportInv => QuietLinksResolve
  <2>. SUFFICES ASSUME ExportInv, stage = 9, quiet, NEW l \in links
                PROVE  l[1] \in records /\ l[2] \in records
    BY DEF QuietLinksResolve, Complete, Resolves
  <2>1. /\ \A k \in 1 .. 8 : Selects[k].nodes \subseteq records
        /\ \E k \in 1 .. 8 : l \in Selects[k].edges
    BY DEF ExportInv, QuietInv
  <2>. QED  BY <2>1, OneCatalogResolves DEF ExportInv
<1>. QED  BY <1>1, ExportInvariant, PTL

=============================================================================
