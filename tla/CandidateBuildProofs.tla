------------------------ MODULE CandidateBuildProofs ------------------------
(***************************************************************************)
(* Building, judging and reading back a candidate, for any catalog and any *)
(* seed manifest.  First what the comparison with the snapshot and the     *)
(* transformation of the sources imply, which are facts about databases;   *)
(* then what each phase of the command knows of its candidate.             *)
(***************************************************************************)
EXTENDS CandidateBuild, FiniteSetTheorems, TLAPS

Database ==
  [source : [Id -> Source \cup {None}], row : [Row -> {"none", "saved", "altered"}],
   schema : {"old", "current", "other"}, stray : BOOLEAN]

(* What the command started from.                                          *)
InputInv ==
  /\ case \in Case /\ mode \in {"build", "apply", "loss"}
  /\ unreadable \in {{}, {"sources"}}
  /\ saved \in Database /\ saved.source = case.source
  /\ saved.row = [r \in Row |-> "saved"]
  /\ saved.schema \in {"old", "current"} /\ saved.stray = FALSE

-----------------------------------------------------------------------------
(* The sources with the manifest applied *)

(* A feed of a manifest that can be applied is one source of the snapshot. *)
LEMMA FeedIsBound ==
  ASSUME Buildable, NEW feed \in case.manifest
  PROVE  /\ Matches(feed) = {Bound(feed)}
         /\ Bound(feed) \in Present(saved.source)
         /\ Feeds(Bound(feed)) = {feed}
<1>1. Cardinality(Matches(feed)) = 1 /\ Matches(feed) \subseteq Present(saved.source)
  BY DEF Buildable
<1>2. IsFiniteSet(Matches(feed))
  BY <1>1, CandidateAssumption, FS_Subset DEF Present
<1>3. PICK i : Matches(feed) = {i}  BY <1>1, <1>2, FS_Singleton
<1>4. Bound(feed) = i  BY <1>3 DEF Bound
<1>5. Feeds(Bound(feed)) = {feed}  BY DEF Buildable, Feeds
<1>. QED  BY <1>1, <1>3, <1>4, <1>5

(* What the transformation makes of a source that is no feed,              *)
LEMMA PlainSource ==
  ASSUME InputInv, NEW i \in Present(saved.source), Feeds(i) = {}
  PROVE  /\ saved.source[i] \in Source
         /\ Transformed[i] = [name |-> NewName(i), integer |-> FALSE,
                              url |-> saved.source[i].url,
                              scheduled |-> saved.source[i].scheduled]
         /\ Transformed[i].name = NewName(i) /\ Transformed[i].url = saved.source[i].url
<1>1. i \in Id /\ saved.source[i] # None  BY DEF Present
<1>2. saved.source[i] \in Source  BY <1>1 DEF InputInv, Database
<1>3. saved.source[i].scheduled \in BOOLEAN  BY <1>2 DEF Source
<1>4. Transformed[i] = [name |-> NewName(i), integer |-> FALSE,
                        url |-> saved.source[i].url,
                        scheduled |-> saved.source[i].scheduled]
  BY <1>1, <1>3 DEF Transformed, Renamed
<1>. QED  BY <1>2, <1>4

(* and of one that is.                                                     *)
LEMMA SeedSource ==
  ASSUME InputInv, Restorable, NEW i \in Present(saved.source), NEW feed \in Feeds(i)
  PROVE  /\ feed \in case.manifest /\ Bound(feed) = i /\ Feeds(i) = {feed}
         /\ Transformed[i] = [name |-> <<feed.name>>, integer |-> FALSE,
                              url |-> feed.url, scheduled |-> TRUE]
         /\ Transformed[i].name = <<feed.name>> /\ Transformed[i].url = feed.url
         /\ Transformed[i].scheduled /\ NewName(i) = <<feed.name>>
<1>1. feed \in case.manifest /\ Bound(feed) = i  BY DEF Feeds
<1>2. Buildable  BY <1>1 DEF Restorable
<1>3. Feeds(i) = {feed}  BY <1>1, <1>2, FeedIsBound
<1>4. (CHOOSE f \in Feeds(i) : TRUE) = feed  BY <1>3
<1>5. Desired(i) = <<feed.name>>  BY <1>3, <1>4 DEF Desired
<1>6. Keeps(i)  BY <1>3 DEF Keeps
<1>7. NewName(i) = <<feed.name>>  BY <1>5, <1>6 DEF NewName
<1>8. i \in Id /\ saved.source[i] # None  BY DEF Present
<1>9. Transformed[i] = [name |-> <<feed.name>>, integer |-> FALSE,
                        url |-> feed.url, scheduled |-> TRUE]
  BY <1>3, <1>4, <1>7, <1>8 DEF Transformed, Renamed
<1>. QED  BY <1>1, <1>3, <1>7, <1>9

(* Without a manifest nothing changes.                                     *)
LEMMA NoManifest ==
  ASSUME InputInv, Restorable, case.manifest = {}
  PROVE  Transformed = saved.source
<1>1. ASSUME NEW i \in Present(saved.source) PROVE Transformed[i] = saved.source[i]
  <2>1. \A j : Feeds(j) = {} /\ Desired(j) = saved.source[j].name
    BY DEF Feeds, Desired
  <2>2. \A j \in Present(saved.source) : Desired(j) = Desired(i) => j = i
    BY <2>1 DEF Restorable, IsInjective, Names
  <2>3. i \in Nat  BY CandidateAssumption DEF Present
  <2>4. Keeps(i)  BY <2>1, <2>2, <2>3 DEF Keeps
  <2>5. NewName(i) = saved.source[i].name  BY <2>1, <2>4 DEF NewName
  <2>6. saved.source[i] \in Source /\ saved.source[i].integer = FALSE
    BY <2>1, PlainSource DEF Restorable, Listed, Source
  <2>7. Transformed[i] = [name |-> saved.source[i].name, integer |-> FALSE,
                          url |-> saved.source[i].url,
                          scheduled |-> saved.source[i].scheduled]
    BY <2>1, <2>5, PlainSource
  <2>. QED  BY <2>6, <2>7 DEF Source
<1>2. ASSUME NEW i \in Id \ Present(saved.source) PROVE Transformed[i] = saved.source[i]
  BY DEF Present, Transformed, Renamed
<1>3. \A i \in Id : Transformed[i] = saved.source[i]  BY <1>1, <1>2
<1>4. Transformed = [i \in Id |-> Transformed[i]]  BY DEF Transformed, Renamed
<1>5. saved.source = [i \in Id |-> saved.source[i]]  BY DEF InputInv, Database
<1>. QED  BY <1>3, <1>4, <1>5

(* A new name is a name.                                                   *)
LEMMA NewNameType ==
  ASSUME InputInv, NEW i \in Present(saved.source)
  PROVE  NewName(i) \in Seq(Word)
<1>1. i \in Id /\ saved.source[i] # None  BY DEF Present
<1>2. saved.source[i] \in Source  BY <1>1 DEF InputInv, Database
<1>3. case.manifest \subseteq Feed  BY CandidateAssumption DEF InputInv
<1>4. Desired(i) \in Seq(Word)
  <2>1. CASE Feeds(i) = {}  BY <1>2, <2>1 DEF Desired, Source
  <2>2. CASE Feeds(i) # {}
    <3>1. (CHOOSE feed \in Feeds(i) : TRUE) \in Feed  BY <1>3, <2>2 DEF Feeds
    <3>. QED  BY <2>2, <3>1 DEF Desired, Feed
  <2>. QED  BY <2>1, <2>2
<1>5. Append(Desired(i), i) \in Seq(Word)  BY <1>1, <1>4, CandidateAssumption
<1>. QED  BY <1>4, <1>5 DEF NewName

(* The transformed sources are sources, with the ids that there were.      *)
LEMMA TransformedType ==
  ASSUME InputInv, Restorable
  PROVE  /\ Transformed \in [Id -> Source \cup {None}]
         /\ Present(Transformed) = Present(saved.source)
<1>1. ASSUME NEW i \in Present(saved.source) PROVE Transformed[i] \in Source
  <2>1. NewName(i) \in Seq(Word)  BY NewNameType
  <2>2. CASE Feeds(i) = {}
    <3>1. Transformed[i] = [name |-> NewName(i), integer |-> FALSE,
                            url |-> saved.source[i].url,
                            scheduled |-> saved.source[i].scheduled]
      BY <2>2, PlainSource
    <3>2. saved.source[i].url \in Url /\ saved.source[i].scheduled \in BOOLEAN
      BY <2>2, PlainSource DEF Source
    <3>. QED  BY <2>1, <3>1, <3>2 DEF Source
  <2>3. ASSUME NEW feed \in Feeds(i) PROVE Transformed[i] \in Source
    <3>1. feed \in Feed /\ <<feed.name>> = NewName(i)
      BY SeedSource, CandidateAssumption DEF InputInv
    <3>2. Transformed[i] = [name |-> <<feed.name>>, integer |-> FALSE,
                            url |-> feed.url, scheduled |-> TRUE]
      BY SeedSource
    <3>. QED  BY <2>1, <3>1, <3>2 DEF Source, Feed
  <2>. QED  BY <2>2, <2>3
<1>2. ASSUME NEW i \in Id \ Present(saved.source) PROVE Transformed[i] = None
  BY DEF Present, Transformed, Renamed
<1>3. Transformed = [i \in Id |-> Transformed[i]]  BY DEF Transformed, Renamed
<1>4. \A i \in Id : Transformed[i] \in Source \cup {None}  BY <1>1, <1>2
<1>5. Present(Transformed) = Present(saved.source)
  BY <1>1, <1>2, CandidateAssumption DEF Present
<1>. QED  BY <1>3, <1>4, <1>5

(* No two of them have one name, or one URL.                               *)
LEMMA TransformedKeys ==
  ASSUME InputInv, Restorable
  PROVE  KeysHold(Transformed)
<1>1. Present(Transformed) = Present(saved.source)  BY TransformedType
<1>2. CASE case.manifest = {}
  <2>1. Transformed = saved.source  BY <1>2, NoManifest
  <2>. QED  BY <1>2, <2>1 DEF Restorable, KeysHold
<1>3. CASE case.manifest # {}
  <2>. DEFINE Own == Present(saved.source)
  <2>1. Buildable  BY <1>3 DEF Restorable
  <2>2. \A i \in Own : Transformed[i].name = NewName(i)
    BY DEF Transformed, Renamed, Present
  <2>3. \A i, j \in Own : NewName(i) = NewName(j) => i = j
    BY <2>1 DEF Buildable, IsInjective
  <2>4. IsInjective(Names(Transformed))
    BY <1>1, <2>2, <2>3 DEF IsInjective, Names
  <2>5. ASSUME NEW i \in Own, NEW j \in Own, NEW feed \in Feeds(i), Feeds(j) = {}
        PROVE  Transformed[i].url # Transformed[j].url
    <3>1. Transformed[i].url = feed.url /\ Bound(feed) = i /\ feed \in case.manifest
      BY SeedSource
    <3>2. Transformed[j].url = saved.source[j].url  BY <2>5, PlainSource
    <3>3. ASSUME saved.source[j].url = feed.url PROVE FALSE
      <4>1. j \in HasUrl(feed.url)  BY <3>3 DEF HasUrl
      <4>2. Bound(feed) \in HasUrl(feed.url)
        BY <2>1, <3>1, <4>1, FeedIsBound DEF Matches
      <4>3. i = j
        BY <3>1, <4>1, <4>2 DEF HasUrl, Restorable, IsInjective, Urls
      <4>. QED  BY <2>5, <4>3
    <3>. QED  BY <3>1, <3>2, <3>3
  <2>6. ASSUME NEW i \in Own, NEW j \in Own, Transformed[i].url = Transformed[j].url
        PROVE  i = j
    <3>1. CASE Feeds(i) = {} /\ Feeds(j) = {}
      BY <2>6, <3>1, PlainSource DEF Restorable, IsInjective, Urls
    <3>2. ASSUME NEW f \in Feeds(i), NEW g \in Feeds(j) PROVE i = j
      <4>1. f.url = g.url /\ f \in case.manifest /\ g \in case.manifest
            /\ Bound(f) = i /\ Bound(g) = j
        BY <2>6, SeedSource
      <4>. QED  BY <4>1, CandidateAssumption DEF InputInv
    <3>. QED  BY <2>5, <2>6, <3>1, <3>2
  <2>7. IsInjective(Urls(Transformed))
    BY <1>1, <2>6 DEF IsInjective, Urls
  <2>. QED  BY <2>4, <2>7 DEF KeysHold
<1>. QED  BY <1>2, <1>3

(* Every feed is listed.                                                   *)
LEMMA TransformedLists ==
  ASSUME InputInv, Restorable, NEW db, db.source = Transformed
  PROVE  ListsManifest(db)
<1>1. Present(Transformed) = Present(saved.source)  BY TransformedType
<1>2. \A i \in Present(saved.source) : Transformed[i].integer = FALSE
  BY DEF Transformed, Renamed, Present
<1>3. ASSUME NEW feed \in case.manifest
      PROVE  \E i \in Present(Transformed) :
               /\ Transformed[i].name = <<feed.name>> /\ Transformed[i].url = feed.url
               /\ Transformed[i].scheduled
  <2>1. Buildable  BY DEF Restorable
  <2>2. Bound(feed) \in Present(saved.source) /\ feed \in Feeds(Bound(feed))
    BY <2>1, FeedIsBound
  <2>3. /\ Transformed[Bound(feed)].name = <<feed.name>>
        /\ Transformed[Bound(feed)].url = feed.url /\ Transformed[Bound(feed)].scheduled
    BY <2>2, SeedSource
  <2>. QED  BY <1>1, <2>2, <2>3
<1>. QED  BY <1>1, <1>2, <1>3 DEF ListsManifest, Listed

(* A URL changes only to one that no source had.                           *)
LEMMA TransformedUrls ==
  ASSUME InputInv, Restorable, NEW i \in Present(saved.source)
  PROVE  \/ Transformed[i].url = saved.source[i].url
         \/ \E feed \in case.manifest :
              Transformed[i].url = feed.url /\ HasUrl(feed.url) = {}
<1>1. CASE Feeds(i) = {}  BY <1>1, PlainSource
<1>2. ASSUME NEW feed \in Feeds(i), HasUrl(feed.url) # {}
      PROVE  Transformed[i].url = saved.source[i].url
  <2>1. feed \in case.manifest /\ Bound(feed) = i /\ Transformed[i].url = feed.url
    BY SeedSource
  <2>2. Buildable  BY <2>1 DEF Restorable
  <2>3. i \in HasUrl(feed.url)  BY <1>2, <2>1, <2>2, FeedIsBound DEF Matches
  <2>. QED  BY <2>1, <2>3 DEF HasUrl
<1>3. \A feed \in Feeds(i) : feed \in case.manifest /\ Transformed[i].url = feed.url
  BY SeedSource
<1>. QED  BY <1>1, <1>2, <1>3

-----------------------------------------------------------------------------
(* The comparison with the snapshot *)

(* Rows that are among those of the snapshot are as they were.             *)
LEMMA RowsKept ==
  ASSUME InputInv, NEW db, db \in Database, NEW r \in Row,
         Records(db, Kind[r]) \subseteq Records(saved, Kind[r])
  PROVE  db.row[r] \in {"none", "saved"}
<1>1. Kind[r] \in {"fetch_runs", "artifacts", "provenance", "feed_items"}
  BY CandidateAssumption
<1>2. \A d : Records(d, Kind[r]) = {<<q, d.row[q]>> : q \in {p \in Rows(d) : Kind[p] = Kind[r]}}
  BY <1>1 DEF Records
<1>3. CASE db.row[r] = "none"  BY <1>3
<1>4. CASE db.row[r] # "none"
  <2>1. <<r, db.row[r]>> \in Records(db, Kind[r])  BY <1>2, <1>4 DEF Rows
  <2>2. <<r, db.row[r]>> \in Records(saved, Kind[r])  BY <2>1
  <2>3. db.row[r] = saved.row[r]  BY <1>2, <2>2
  <2>. QED  BY <2>3 DEF InputInv
<1>. QED  BY <1>3, <1>4

(* And if the table is the same, they are all there.                       *)
LEMMA RowsSame ==
  ASSUME InputInv, NEW db, db \in Database, NEW r \in Row, Same(db, Kind[r])
  PROVE  db.row[r] = "saved"
<1>1. Kind[r] \in {"fetch_runs", "artifacts", "provenance", "feed_items"}
  BY CandidateAssumption
<1>2. \A d : Records(d, Kind[r]) = {<<q, d.row[q]>> : q \in {p \in Rows(d) : Kind[p] = Kind[r]}}
  BY <1>1 DEF Records
<1>3. saved.row[r] = "saved"  BY DEF InputInv
<1>4. <<r, "saved">> \in Records(saved, Kind[r])  BY <1>2, <1>3 DEF Rows
<1>5. <<r, "saved">> \in Records(db, Kind[r])  BY <1>4 DEF Same
<1>. QED  BY <1>2, <1>5

(* The same for sources.                                                   *)
LEMMA SourcesKept ==
  ASSUME InputInv, NEW db, db \in Database,
         Records(db, "sources") \subseteq Records(saved, "sources"), NEW i \in Id
  PROVE  db.source[i] \in {saved.source[i], None}
<1>1. \A d : Records(d, "sources") = {<<j, d.source[j]>> : j \in Present(d.source)}
  BY DEF Records
<1>2. CASE db.source[i] = None  BY <1>2
<1>3. CASE db.source[i] # None
  <2>1. <<i, db.source[i]>> \in Records(saved, "sources")  BY <1>1, <1>3 DEF Present
  <2>. QED  BY <1>1, <2>1
<1>. QED  BY <1>2, <1>3

(* The sources of a table that is the same are the sources.                *)
LEMMA SourcesSame ==
  ASSUME InputInv, NEW db, db \in Database, Same(db, "sources")
  PROVE  db.source = saved.source
<1>1. \A d : Records(d, "sources") = {<<j, d.source[j]>> : j \in Present(d.source)}
  BY DEF Records
<1>2. ASSUME NEW i \in Id PROVE db.source[i] = saved.source[i]
  <2>1. db.source[i] \in {saved.source[i], None}  BY SourcesKept DEF Same
  <2>2. CASE saved.source[i] = None  BY <2>1, <2>2
  <2>3. CASE saved.source[i] # None
    <3>1. <<i, saved.source[i]>> \in Records(db, "sources")
      BY <1>1, <2>3 DEF Same, Present
    <3>. QED  BY <1>1, <3>1
  <2>. QED  BY <2>2, <2>3
<1>3. /\ db.source = [i \in Id |-> db.source[i]]
      /\ saved.source = [i \in Id |-> saved.source[i]]
  BY DEF InputInv, Database
<1>. QED  BY <1>2, <1>3

(* A catalog that is the same in every table is the snapshot.              *)
LEMMA ExactIsSaved ==
  ASSUME InputInv, NEW db, db \in Database, StateValid(db), Exact(db)
  PROVE  db = saved
<1>1. db.source = saved.source  BY SourcesSame DEF Exact, Table, Tolerant
<1>2. db.row = saved.row
  <2>1. \A r \in Row : Kind[r] \in Table  BY CandidateAssumption DEF Table, Tolerant
  <2>2. \A r \in Row : db.row[r] = "saved"  BY <2>1, RowsSame DEF Exact
  <2>. QED  BY <2>2 DEF InputInv, Database
<1>3. db.schema = saved.schema /\ db.stray = saved.stray
  BY DEF StateValid, SchemaMatches, HasNoUnmappedRows, Database, InputInv
<1>. QED  BY <1>1, <1>2, <1>3 DEF Database, InputInv

(* What the policy accepts has lost nothing but rows, of the tables that   *)
(* may lose rows, unless its sources are those that the manifest wants.    *)
LEMMA ValidIsReduced ==
  ASSUME InputInv, NEW db, db \in Database, StateValid(db)
  PROVE  /\ db.schema = saved.schema
         /\ \A r \in Row : /\ db.row[r] \in {"none", "saved"}
                           /\ Kind[r] = "feed_items" => db.row[r] = "saved"
         /\ \/ \A i \in Id : db.source[i] \in {saved.source[i], None}
            \/ Reseeded(db)
<1>1. db.schema = saved.schema  BY DEF StateValid, SchemaMatches
<1>2. \A table \in Table :
        \/ Records(db, table) \subseteq Records(saved, table)
        \/ table = "sources" /\ Reseeded(db)
  BY DEF StateValid, Exact, Same, Reduced
<1>3. ASSUME NEW r \in Row
      PROVE  /\ db.row[r] \in {"none", "saved"}
             /\ Kind[r] = "feed_items" => db.row[r] = "saved"
  <2>1. Kind[r] \in Table \ {"sources"}  BY CandidateAssumption DEF Table, Tolerant
  <2>2. db.row[r] \in {"none", "saved"}  BY <1>2, <2>1, RowsKept
  <2>3. ASSUME Kind[r] = "feed_items" PROVE db.row[r] = "saved"
    <3>1. Same(db, Kind[r])
      BY <2>3 DEF StateValid, OthersMatch, Same, Table, Tolerant
    <3>. QED  BY <3>1, RowsSame
  <2>. QED  BY <2>2, <2>3
<1>4. \/ \A i \in Id : db.source[i] \in {saved.source[i], None}
      \/ Reseeded(db)
  BY <1>2, SourcesKept DEF Table, Tolerant
<1>. QED  BY <1>1, <1>3, <1>4

(* The read-back accepts the sources of a candidate that was approved.     *)
LEMMA ValidSources ==
  ASSUME InputInv, NEW db, db \in Database, StateValid(db), Exact(db) \/ mode = "loss"
  PROVE  SourcesAccepted(db)
<1>1. CASE Exact(db)  BY <1>1 DEF Exact, Table, Tolerant, SourcesAccepted
<1>2. CASE Same(db, "sources") \/ Reseeded(db)  BY <1>2 DEF SourcesAccepted
<1>3. CASE mode = "loss" /\ Reduced(db, "sources")
  <2>1. \A i \in Id : db.source[i] \in {saved.source[i], None}
    BY <1>3, SourcesKept DEF Reduced
  <2>2. Present(db.source) \subseteq Present(saved.source)  BY <2>1 DEF Present
  <2>3. ASSUME Present(db.source) = Present(saved.source) PROVE FALSE
    <3>1. \A i \in Present(db.source) : db.source[i] = saved.source[i]
      BY <2>1 DEF Present
    <3>2. Records(db, "sources") = Records(saved, "sources")
      BY <2>3, <3>1 DEF Records
    <3>. QED  BY <1>3, <3>2 DEF Reduced
  <2>4. IsFiniteSet(Present(saved.source))
    BY CandidateAssumption, FS_Subset DEF Present
  <2>5. /\ Cardinality(Present(db.source)) \in Nat
        /\ Cardinality(Present(saved.source)) \in Nat
        /\ Cardinality(Present(db.source)) <= Cardinality(Present(saved.source))
        /\ Cardinality(Present(db.source)) # Cardinality(Present(saved.source))
    BY <2>2, <2>3, <2>4, FS_Subset, FS_CardinalityType
  <2>6. SourcesReduced(db)  BY <2>5 DEF SourcesReduced
  <2>. QED  BY <1>3, <2>6 DEF SourcesAccepted
<1>. QED  BY <1>1, <1>2, <1>3 DEF StateValid, Table, Tolerant

-----------------------------------------------------------------------------
(* What the command started from does not change, nor does what depends on *)
(* nothing else.                                                           *)
LEMMA ManifestKept ==
  ASSUME UNCHANGED inputs
  PROVE  /\ (Buildable' <=> Buildable) /\ (Restorable' <=> Restorable)
         /\ Transformed' = Transformed
<1>. USE DEF inputs
<1>1. \A feed : Matches(feed)' = Matches(feed)
  BY DEF Matches, HasUrl, ProvenanceIds, Named, Present
<1>2. \A feed : Bound(feed)' = Bound(feed)  BY <1>1 DEF Bound
<1>3. \A i : Feeds(i)' = Feeds(i)  BY <1>2 DEF Feeds
<1>4. ASSUME NEW i PROVE Desired(i)' = Desired(i)
  <2>1. Feeds(i)' = Feeds(i)  BY <1>3
  <2>2. (CHOOSE feed \in Feeds(i) : TRUE)' = CHOOSE feed \in Feeds(i) : TRUE
    BY ONLY <2>1
  <2>. QED  BY <2>1, <2>2 DEF Desired
<1>5. \A i : Keeps(i)' <=> Keeps(i)  BY <1>3, <1>4 DEF Keeps, Present
<1>6. \A i : NewName(i)' = NewName(i)  BY <1>4, <1>5 DEF NewName
<1>7. Transformed' = Transformed  BY <1>3, <1>6 DEF Transformed, Renamed, Present
<1>8. Buildable' <=> Buildable
  <2>1. Present(saved.source)' = Present(saved.source)  BY DEF Present
  <2>2. Urls(saved.source)' = Urls(saved.source)  BY DEF Urls, Present
  <2>3. [i \in Present(saved.source) |-> NewName(i)]'
          = [i \in Present(saved.source) |-> NewName(i)]
    BY <1>6, <2>1
  <2>4. \A feed : ProvenanceIds(feed.url)' = ProvenanceIds(feed.url)  BY DEF ProvenanceIds
  <2>. QED  BY <1>1, <1>2, <2>1, <2>2, <2>3, <2>4 DEF Buildable, IsInjective
<1>. QED  BY <1>7, <1>8 DEF Restorable, Listed, Present, IsInjective, Urls, Names

(* Nor does what a comparison says of a candidate that does not change.    *)
LEMMA ComparisonKept ==
  ASSUME UNCHANGED <<inputs, candidate>>
  PROVE  /\ ListsManifest(candidate)' <=> ListsManifest(candidate)
         /\ Exact(candidate)' <=> Exact(candidate)
         /\ StateValid(candidate)' <=> StateValid(candidate)
         /\ ReferencesHold(candidate)' <=> ReferencesHold(candidate)
<1>. USE DEF inputs
<1>1. \A table : Records(candidate, table)' = Records(candidate, table)
                 /\ Records(saved, table)' = Records(saved, table)
  BY DEF Records, Present, Rows
<1>2. \A table : Same(candidate, table)' <=> Same(candidate, table)  BY <1>1 DEF Same
<1>3. \A table : Reduced(candidate, table)' <=> Reduced(candidate, table)
  BY <1>1 DEF Reduced
<1>4. Exact(candidate)' <=> Exact(candidate)  BY <1>2 DEF Exact
<1>5. (Buildable' <=> Buildable) /\ Transformed' = Transformed  BY ManifestKept
<1>6. Reseeded(candidate)' <=> Reseeded(candidate)  BY <1>5 DEF Reseeded
<1>7. StateValid(candidate)' <=> StateValid(candidate)
  BY <1>1, <1>2, <1>3, <1>4, <1>5, <1>6
  DEF StateValid, HasNoUnmappedRows, SchemaMatches, OthersMatch
<1>8. ReferencesHold(candidate)' <=> ReferencesHold(candidate)
  BY DEF ReferencesHold, Rows, Present
<1>9. ListsManifest(candidate)' <=> ListsManifest(candidate)
  BY DEF ListsManifest, Listed, Present
<1>. QED  BY <1>4, <1>7, <1>8, <1>9

-----------------------------------------------------------------------------
(* What each phase knows *)

TypeInv ==
  /\ pc \in Phase
  /\ healthy \in BOOLEAN /\ restored \in BOOLEAN /\ opened \in BOOLEAN
  /\ pruned \in BOOLEAN /\ stale \in BOOLEAN
  /\ complete \in BOOLEAN /\ slip \in BOOLEAN /\ meddled \in BOOLEAN
  /\ live \in Database
  /\ \/ candidate = None /\ pc \in {"recover", "failed"}
     \/ candidate \in Database /\ KeysHold(candidate.source)

(* Sources are restored all or not at all, and stay so.                    *)
RestoredInv ==
  /\ pc \in {"recover", "restore"} => ~restored
  /\ pc \in {"recover", "restore", "prune"} => pruned
  /\ restored => candidate \in Database /\ Restorable /\ candidate.source = Transformed

(* Opening the candidate again would not change it, as long as no run      *)
(* grows stale.                                                            *)
OpenedInv ==
  /\ pc \in {"recover", "restore", "prune", "open"} => ~opened
  /\ opened /\ pc \in {"judge", "install", "readback"} =>
       /\ ListsManifest(candidate)
       /\ ~meddled => Opened(candidate) = candidate

(* What is installed was approved, and is the candidate until it is used.  *)
ApprovedInv ==
  /\ pc \in {"install", "readback"} =>
       /\ opened /\ StateValid(candidate) /\ ReferencesHold(candidate)
       /\ Exact(candidate) \/ mode = "loss"
  /\ pc = "readback" /\ ~meddled => live = candidate

(* A sound catalog, of which .recover has found everything.                *)
Sound ==
  /\ unreadable = {} /\ saved.schema = "current"
  /\ ReferencesHold(saved) /\ Restorable

CompleteInv ==
  Sound /\ complete /\ healthy /\ ~slip =>
    /\ pc = "restore" => candidate = saved
    /\ pc \in {"prune", "open"} =>
         restored /\ pruned /\ candidate = [saved EXCEPT !.source = Transformed]
    /\ pc = "judge" =>
         /\ restored /\ pruned /\ opened
         /\ candidate.schema = saved.schema /\ candidate.stray = FALSE
         /\ \A r \in Row : \/ candidate.row[r] = "saved"
                           \/ r \in Running /\ stale /\ candidate.row[r] = "altered"

Inv ==
  /\ InputInv /\ TypeInv
  /\ RestoredInv /\ OpenedInv /\ ApprovedInv /\ CompleteInv
  /\ NothingLostUnasked /\ RollBackIsExplained /\ CompleteIsApproved

-----------------------------------------------------------------------------
(* What the actions do to the candidate *)

(* The inputs are only read.                                               *)
LEMMA InputsKept == [Next]_vars => UNCHANGED inputs
  BY DEF Next, Recover, Restore, DoNotRestore, Prune, PruneFails, DoNotPrune, Open,
         DoNotOpen, Judge, Install, ReadBack, RollBack, ReadBackFails, Fail, Age, Use,
         UseSource, vars, inputs

(* What .recover and the import leave is a database that keeps its keys.   *)
LEMMA RecoverEffect ==
  ASSUME InputInv, Recover
  PROVE  candidate' \in Database /\ KeysHold(candidate'.source)
<1>0. PICK lost \in SUBSET (Row \cup Id), altered \in SUBSET (Row \cup Id),
           damage \in {"none", "stray", "schema"} :
        /\ \E spoiled \in [altered \cap Id -> Spoiled] : candidate' =
             [source |-> [i \in Id |-> IF i \in lost THEN None
                                      ELSE IF i \in altered THEN spoiled[i]
                                      ELSE saved.source[i]],
              row    |-> [r \in Row |-> IF r \in lost THEN "none"
                                        ELSE IF r \in altered THEN "altered" ELSE "saved"],
              schema |-> IF damage = "schema" THEN "other" ELSE saved.schema,
              stray  |-> damage = "stray"]
        /\ KeysHold(candidate'.source)
  BY DEF Recover
<1>1. PICK spoiled \in [altered \cap Id -> Spoiled] : candidate' =
             [source |-> [i \in Id |-> IF i \in lost THEN None
                                      ELSE IF i \in altered THEN spoiled[i]
                                      ELSE saved.source[i]],
              row    |-> [r \in Row |-> IF r \in lost THEN "none"
                                        ELSE IF r \in altered THEN "altered" ELSE "saved"],
              schema |-> IF damage = "schema" THEN "other" ELSE saved.schema,
              stray  |-> damage = "stray"]
  BY <1>0
<1>2. [i \in Id |-> IF i \in lost THEN None
                    ELSE IF i \in altered THEN spoiled[i] ELSE saved.source[i]]
        \in [Id -> Source \cup {None}]
  BY CandidateAssumption DEF InputInv, Database
<1>3. (IF damage = "schema" THEN "other" ELSE saved.schema) \in {"old", "current", "other"}
  BY DEF InputInv
<1>4. [r \in Row |-> IF r \in lost THEN "none"
                     ELSE IF r \in altered THEN "altered" ELSE "saved"]
        \in [Row -> {"none", "saved", "altered"}]
  OBVIOUS
<1>. QED  BY <1>0, <1>1, <1>2, <1>3, <1>4 DEF Database

(* Restoring the sources changes nothing else.                             *)
LEMMA RestoreEffect ==
  ASSUME InputInv, candidate \in Database, Restore
  PROVE  /\ candidate' \in Database /\ KeysHold(candidate'.source)
         /\ candidate'.source = Transformed
         /\ candidate' = [source |-> Transformed, row |-> candidate.row,
                          schema |-> candidate.schema, stray |-> candidate.stray]
<1>1. Restorable  BY DEF Restore
<1>2. candidate' = [source |-> Transformed, row |-> candidate.row,
                    schema |-> candidate.schema, stray |-> candidate.stray]
  BY DEF Restore, Database
<1>3. Transformed \in [Id -> Source \cup {None}] /\ KeysHold(Transformed)
  BY <1>1, TransformedType, TransformedKeys
<1>. QED  BY <1>2, <1>3 DEF Database

(* Pruning takes rows away, and none if every row is there.                *)
LEMMA PruneEffect ==
  ASSUME candidate \in Database, Prune
  PROVE  /\ candidate' \in Database /\ candidate'.source = candidate.source
         /\ Rows(candidate) = Row => candidate' = candidate
<1>. DEFINE row == [r \in Row |->
       IF Kind[r] = "provenance" /\ ~(Needs[r] \subseteq Rows(candidate)) THEN "none"
       ELSE candidate.row[r]]
<1>1. candidate' = [source |-> candidate.source, row |-> row,
                    schema |-> candidate.schema, stray |-> candidate.stray]
  BY DEF Prune, Database
<1>2. row \in [Row -> {"none", "saved", "altered"}]  BY DEF Database
<1>3. ASSUME Rows(candidate) = Row PROVE row = candidate.row
  BY <1>3, CandidateAssumption DEF Database
<1>4. candidate = [source |-> candidate.source, row |-> candidate.row,
                   schema |-> candidate.schema, stray |-> candidate.stray]
  BY DEF Database
<1>. HIDE DEF row
<1>. QED  BY <1>1, <1>2, <1>3, <1>4 DEF Database

(* Opening writes two fields of the record.                                *)
LEMMA TwoFields ==
  ASSUME NEW db \in Database, NEW schema, NEW row
  PROVE  [db EXCEPT !.schema = schema, !.row = row]
           = [source |-> db.source, row |-> row, schema |-> schema, stray |-> db.stray]
<1>. DEFINE first == [db EXCEPT !.schema = schema]
<1>1. first = [source |-> db.source, row |-> db.row, schema |-> schema, stray |-> db.stray]
  BY DEF Database
<1>2. [db EXCEPT !.schema = schema, !.row = row] = [first EXCEPT !.row = row]
  BY DEF Database
<1>. HIDE DEF first
<1>3. [first EXCEPT !.row = row]
        = [source |-> db.source, row |-> row, schema |-> schema, stray |-> db.stray]
  BY <1>1
<1>. QED  BY <1>2, <1>3

(* Opening a database leaves its sources, and once is enough.              *)
LEMMA OpenedEffect ==
  ASSUME NEW db \in Database
  PROVE  /\ Opened(db) \in Database /\ Opened(db).source = db.source
         /\ Opened(db).stray = db.stray
         /\ db.schema = "current" => Opened(db).schema = "current"
         /\ \A r \in Row : \/ Opened(db).row[r] = db.row[r]
                           \/ r \in Running /\ stale /\ Opened(db).row[r] = "altered"
         /\ Opened(Opened(db)) = Opened(db)
<1>. DEFINE Row1(d) == [r \in Row |-> IF stale /\ r \in Running /\ d.row[r] = "saved"
                                      THEN "altered" ELSE d.row[r]]
            Schema1(d) == IF d.schema = "old" THEN "current" ELSE d.schema
<1>1. ASSUME NEW d \in Database
      PROVE  /\ Opened(d) = [source |-> d.source, row |-> Row1(d),
                             schema |-> Schema1(d), stray |-> d.stray]
             /\ Opened(d) \in Database
  <2>1. Opened(d) = [d EXCEPT !.schema = Schema1(d), !.row = Row1(d)]  BY DEF Opened
  <2>2. Row1(d) \in [Row -> {"none", "saved", "altered"}]  BY DEF Database
  <2>3. Schema1(d) \in {"old", "current", "other"}  BY DEF Database
  <2>. HIDE DEF Row1, Schema1
  <2>4. Opened(d) = [source |-> d.source, row |-> Row1(d),
                     schema |-> Schema1(d), stray |-> d.stray]
    BY <2>1, TwoFields
  <2>. QED  BY <2>2, <2>3, <2>4 DEF Database
<1>2. Opened(db).row = Row1(db) /\ Opened(db).schema = Schema1(db)
  BY <1>1
<1>3. Row1(Opened(db)) = Row1(db)  BY <1>2
<1>4. Schema1(Opened(db)) = Schema1(db)  BY <1>2
<1>5. \A r \in Row : \/ Row1(db)[r] = db.row[r]
                     \/ r \in Running /\ stale /\ Row1(db)[r] = "altered"
  OBVIOUS
<1>6. db.schema = "current" => Schema1(db) = "current"  OBVIOUS
<1>. HIDE DEF Row1, Schema1
<1>. QED  BY <1>1, <1>2, <1>3, <1>4, <1>5, <1>6

(* How a database is opened depends on the time alone.                     *)
LEMMA OpeningKept ==
  ASSUME UNCHANGED <<stale, candidate>>
  PROVE  Opened(candidate)' = Opened(candidate)
  BY DEF Opened

-----------------------------------------------------------------------------
(* The invariant is kept *)

(* What the command started from stays what it was.                        *)
LEMMA InputStep == InputInv /\ [Next]_vars => InputInv'
  BY InputsKept DEF InputInv, inputs

(* The variables keep their types, and the candidate its keys.             *)
LEMMA TypeStep == Inv /\ [Next]_vars => TypeInv'
<1>. SUFFICES ASSUME Inv, [Next]_vars PROVE TypeInv'  OBVIOUS
<1>. USE DEF Inv, TypeInv, report, history, Phase, Done
<1>0. saved \in Database  BY DEF InputInv
<1>1. CASE Recover  BY <1>1, RecoverEffect DEF Recover
<1>2. CASE Restore
  <2>1. candidate \in Database  BY <1>2 DEF Restore
  <2>2. candidate' \in Database /\ KeysHold(candidate'.source)
    BY <1>2, <2>1, RestoreEffect
  <2>. QED  BY <1>2, <2>2 DEF Restore
<1>3. CASE Prune
  <2>1. candidate \in Database  BY <1>3 DEF Prune
  <2>2. candidate' \in Database /\ candidate'.source = candidate.source
    BY <1>3, <2>1, PruneEffect
  <2>. QED  BY <1>3, <2>2 DEF Prune
<1>4. CASE Open
  <2>1. candidate \in Database  BY <1>4 DEF Open
  <2>2. candidate' \in Database /\ candidate'.source = candidate.source
    BY <1>4, <2>1, OpenedEffect DEF Open
  <2>3. opened' \in BOOLEAN  BY <1>4 DEF Open, ListsManifest
  <2>. QED  BY <1>4, <2>2, <2>3 DEF Open
<1>5. CASE DoNotRestore \/ PruneFails \/ DoNotPrune \/ DoNotOpen \/ Judge \/ Fail \/ Age
  <2>1. CASE DoNotRestore  BY <2>1 DEF DoNotRestore
  <2>2. CASE PruneFails \/ DoNotPrune  BY <2>2 DEF PruneFails, DoNotPrune
  <2>3. CASE DoNotOpen  BY <2>3 DEF DoNotOpen
  <2>4. CASE Judge \/ Fail \/ Age  BY <2>4 DEF Judge, Fail, Age
  <2>. QED  BY <1>5, <2>1, <2>2, <2>3, <2>4
<1>6. CASE Install  BY <1>6 DEF Install
<1>7. CASE ReadBack
  <2>1. live' \in Database  BY <1>7, OpenedEffect DEF ReadBack
  <2>. QED  BY <1>7, <2>1 DEF ReadBack
<1>8. CASE RollBack \/ ReadBackFails
  BY <1>0, <1>8 DEF RollBack, ReadBackFails
<1>9. ASSUME NEW r \in Row, Use(r) PROVE TypeInv'
  <2>1. live' = [source |-> live.source, row |-> [live.row EXCEPT ![r] = "altered"],
                 schema |-> live.schema, stray |-> live.stray]
    BY <1>9 DEF Use, Database
  <2>2. live' \in Database  BY <2>1 DEF Database
  <2>. QED  BY <1>9, <2>2 DEF Use
<1>10. ASSUME NEW i \in Id, UseSource(i) PROVE TypeInv'
  <2>1. PICK source \in Spoiled : live' = [live EXCEPT !.source[i] = source]
    BY <1>10 DEF UseSource
  <2>2. live' = [source |-> [live.source EXCEPT ![i] = source], row |-> live.row,
                 schema |-> live.schema, stray |-> live.stray]
    BY <2>1 DEF Database
  <2>3. [live.source EXCEPT ![i] = source] \in [Id -> Source \cup {None}]
    BY CandidateAssumption DEF Database
  <2>4. live' \in Database  BY <2>2, <2>3 DEF Database
  <2>. QED  BY <1>10, <2>4 DEF UseSource
<1>11. CASE UNCHANGED vars  BY <1>11 DEF vars
<1>. QED
  BY <1>1, <1>2, <1>3, <1>4, <1>5, <1>6, <1>7, <1>8, <1>9, <1>10, <1>11 DEF Next

(* Only rows change after the sources were restored.                       *)
LEMMA RestoredStep == Inv /\ [Next]_vars => RestoredInv'
<1>. SUFFICES ASSUME Inv, [Next]_vars PROVE RestoredInv'  OBVIOUS
<1>0. (Restorable' <=> Restorable) /\ Transformed' = Transformed
  BY InputsKept, ManifestKept
<1>. USE <1>0 DEF Inv, TypeInv, RestoredInv, report, history, Phase, Done
<1>1. CASE Recover  BY <1>1 DEF Recover
<1>2. CASE Restore
  <2>1. candidate \in Database  BY <1>2 DEF Restore
  <2>2. candidate' \in Database /\ candidate'.source = Transformed /\ Restorable
    BY <1>2, <2>1, RestoreEffect DEF Restore
  <2>. QED  BY <1>2, <2>2 DEF Restore
<1>3. CASE Prune
  <2>1. candidate' \in Database /\ candidate'.source = candidate.source
    BY <1>3, PruneEffect DEF Prune
  <2>. QED  BY <1>3, <2>1 DEF Prune
<1>4. CASE Open
  <2>1. candidate \in Database  BY <1>4 DEF Open
  <2>2. candidate' \in Database /\ candidate'.source = candidate.source
    BY <1>4, <2>1, OpenedEffect DEF Open
  <2>. QED  BY <1>4, <2>2 DEF Open
<1>5. CASE DoNotRestore \/ PruneFails \/ DoNotPrune \/ DoNotOpen
  BY <1>5 DEF DoNotRestore, PruneFails, DoNotPrune, DoNotOpen
<1>6. CASE Judge \/ Fail \/ Age \/ Install
  BY <1>6 DEF Judge, Fail, Age, Install
<1>7. CASE ReadBack \/ RollBack \/ ReadBackFails
  BY <1>7 DEF ReadBack, RollBack, ReadBackFails
<1>8. CASE (\E r \in Row : Use(r)) \/ (\E i \in Id : UseSource(i))
  BY <1>8 DEF Use, UseSource
<1>9. CASE UNCHANGED vars  BY <1>9 DEF vars
<1>. QED
  BY <1>1, <1>2, <1>3, <1>4, <1>5, <1>6, <1>7, <1>8, <1>9 DEF Next

(* The flag says what the candidate is.                                    *)
LEMMA OpenedStep == Inv /\ [Next]_vars => OpenedInv'
<1>. SUFFICES ASSUME Inv, [Next]_vars PROVE OpenedInv'  OBVIOUS
<1>0. UNCHANGED inputs  BY InputsKept
<1>. USE DEF Inv, TypeInv, OpenedInv, report, history, Phase, Done
<1>1. CASE Recover \/ Restore \/ DoNotRestore \/ Prune \/ PruneFails \/ DoNotPrune
  BY <1>1 DEF Recover, Restore, DoNotRestore, Prune, PruneFails, DoNotPrune
<1>2. CASE Open
  <2>1. candidate \in Database  BY <1>2 DEF Open
  <2>2. candidate' = Opened(candidate) /\ UNCHANGED <<stale, inputs>>
    BY <1>2 DEF Open
  <2>3. candidate'.source = candidate.source /\ Opened(candidate') = candidate'
    BY <2>1, <2>2, OpenedEffect
  <2>4. Opened(candidate)' = candidate'  BY <2>2, <2>3 DEF Opened
  <2>5. ListsManifest(candidate) => ListsManifest(candidate)'
    BY <2>2, <2>3 DEF ListsManifest, Listed, Present, inputs
  <2>. QED  BY <1>2, <2>4, <2>5 DEF Open
<1>3. CASE DoNotOpen  BY <1>3 DEF DoNotOpen
<1>4. CASE Judge
  BY <1>0, <1>4, ComparisonKept, OpeningKept DEF Judge
<1>5. CASE Install
  BY <1>0, <1>5, ComparisonKept, OpeningKept DEF Install
<1>6. CASE Age  BY <1>0, <1>6, ComparisonKept DEF Age
<1>7. CASE (\E r \in Row : Use(r)) \/ (\E i \in Id : UseSource(i))
  BY <1>0, <1>7, ComparisonKept DEF Use, UseSource
<1>8. CASE ReadBack \/ RollBack \/ ReadBackFails \/ Fail
  BY <1>8 DEF ReadBack, RollBack, ReadBackFails, Fail
<1>9. CASE UNCHANGED vars
  BY <1>0, <1>9, ComparisonKept, OpeningKept DEF vars
<1>. QED
  BY <1>1, <1>2, <1>3, <1>4, <1>5, <1>6, <1>7, <1>8, <1>9 DEF Next

(* Only what was approved is installed.                                    *)
LEMMA ApprovedStep == Inv /\ [Next]_vars => ApprovedInv'
<1>. SUFFICES ASSUME Inv, [Next]_vars PROVE ApprovedInv'  OBVIOUS
<1>0. UNCHANGED inputs  BY InputsKept
<1>. USE <1>0 DEF Inv, ApprovedInv, report, history, inputs
<1>1. CASE Recover \/ Restore \/ DoNotRestore \/ Prune \/ PruneFails \/ DoNotPrune
  BY <1>1 DEF Recover, Restore, DoNotRestore, Prune, PruneFails, DoNotPrune
<1>2. CASE Open \/ DoNotOpen  BY <1>2 DEF Open, DoNotOpen
<1>3. CASE Judge
  <2>1. ASSUME pc' \in {"install", "readback"} PROVE pc' = "install" /\ Approved
    BY <1>3, <2>1 DEF Judge
  <2>2. UNCHANGED <<candidate, opened, mode>>  BY <1>3 DEF Judge
  <2>. QED
    BY <2>1, <2>2, ComparisonKept DEF Approved, CandidateValid, Valid
<1>4. CASE Install  BY <1>4, ComparisonKept DEF Install
<1>5. CASE Age  BY <1>5, ComparisonKept DEF Age
<1>6. CASE (\E r \in Row : Use(r)) \/ (\E i \in Id : UseSource(i))
  BY <1>6, ComparisonKept DEF Use, UseSource
<1>7. CASE ReadBack \/ RollBack \/ ReadBackFails \/ Fail
  BY <1>7 DEF ReadBack, RollBack, ReadBackFails, Fail
<1>8. CASE UNCHANGED vars  BY <1>8, ComparisonKept DEF vars
<1>. QED
  BY <1>1, <1>2, <1>3, <1>4, <1>5, <1>6, <1>7, <1>8 DEF Next

(* A sound catalog stays sound.                                            *)
LEMMA SoundKept ==
  ASSUME UNCHANGED inputs
  PROVE  /\ Sound' <=> Sound
         /\ ReferencesHold(saved)' <=> ReferencesHold(saved)
<1>1. ReferencesHold(saved)' <=> ReferencesHold(saved)
  BY DEF ReferencesHold, Rows, Present, inputs
<1>. QED  BY <1>1, ManifestKept DEF Sound, inputs

(* A complete recovery goes the straight way.                              *)
LEMMA CompleteStep == Inv /\ [Next]_vars => CompleteInv'
<1>. SUFFICES ASSUME Inv, [Next]_vars PROVE CompleteInv'  OBVIOUS
<1>0. UNCHANGED inputs /\ (Sound' <=> Sound) /\ Transformed' = Transformed
  BY InputsKept, ManifestKept, SoundKept
<1>. USE <1>0 DEF Inv, RestoredInv, OpenedInv, CompleteInv, report, history, inputs
<1>1. CASE Recover
  <2>1. pc' = "restore" /\ complete' = (candidate' = saved)  BY <1>1 DEF Recover
  <2>. QED  BY <2>1
<1>2. CASE Restore
  <2>1. pc' = "prune" /\ pc = "restore" /\ restored'  BY <1>2 DEF Restore
  <2>2. UNCHANGED <<healthy, complete, slip, pruned>>  BY <1>2 DEF Restore
  <2>3. ASSUME Sound, complete, healthy, ~slip
        PROVE  candidate' = [saved EXCEPT !.source = Transformed]
    BY <2>1, <2>3, <1>2 DEF Restore
  <2>. QED  BY <2>1, <2>2, <2>3
<1>3. CASE DoNotRestore  BY <1>3 DEF DoNotRestore, Sound
<1>4. CASE Prune
  <2>1. pc' = "open" /\ pc = "prune"  BY <1>4 DEF Prune
  <2>2. UNCHANGED <<healthy, complete, slip, pruned, restored>>  BY <1>4 DEF Prune
  <2>3. ASSUME Sound, complete, healthy, ~slip
        PROVE  candidate' = candidate
    <3>1. candidate = [saved EXCEPT !.source = Transformed]  BY <2>1, <2>3
    <3>2. candidate \in Database  BY <1>4, <2>1 DEF Prune, TypeInv
    <3>3. candidate.row = [r \in Row |-> "saved"]  BY <3>1 DEF InputInv, Database
    <3>4. Rows(candidate) = Row  BY <3>3 DEF Rows
    <3>. QED  BY <1>4, <3>2, <3>4, PruneEffect
  <2>. QED  BY <2>1, <2>2, <2>3
<1>5. CASE PruneFails  BY <1>5 DEF PruneFails
<1>6. CASE DoNotPrune  BY <1>6 DEF DoNotPrune
<1>7. CASE Open
  <2>1. pc' = "judge" /\ pc = "open"  BY <1>7 DEF Open
  <2>2. UNCHANGED <<healthy, complete, slip, pruned, restored, stale>>  BY <1>7 DEF Open
  <2>3. candidate' = Opened(candidate) /\ opened' = ListsManifest(candidate)
    BY <1>7 DEF Open
  <2>4. ASSUME Sound, complete, healthy, ~slip
        PROVE  /\ opened' /\ restored /\ pruned
               /\ candidate'.schema = saved.schema /\ candidate'.stray = FALSE
               /\ \A r \in Row : \/ candidate'.row[r] = "saved"
                                 \/ r \in Running /\ stale /\ candidate'.row[r] = "altered"
    <3>1. candidate = [saved EXCEPT !.source = Transformed] /\ restored /\ pruned
      BY <2>1, <2>4
    <3>2. candidate \in Database /\ candidate.source = Transformed /\ Restorable
      BY <3>1
    <3>3. opened'  BY <2>3, <3>2, TransformedLists
    <3>4. /\ candidate.schema = "current" /\ candidate.stray = FALSE
          /\ saved.schema = "current"
          /\ \A r \in Row : candidate.row[r] = "saved"
      BY <2>4, <3>1 DEF InputInv, Database, Sound
    <3>5. /\ candidate'.schema = "current" /\ candidate'.stray = FALSE
          /\ \A r \in Row : \/ candidate'.row[r] = candidate.row[r]
                            \/ r \in Running /\ stale /\ candidate'.row[r] = "altered"
      BY ONLY <2>3, <3>2, <3>4, OpenedEffect
    <3>. QED  BY ONLY <3>1, <3>3, <3>4, <3>5
  <2>. QED  BY <2>1, <2>2, <2>4
<1>8. CASE DoNotOpen  BY <1>8 DEF DoNotOpen
<1>9. CASE Judge \/ Install \/ Fail  BY <1>9 DEF Judge, Install, Fail
<1>10. CASE ReadBack \/ RollBack \/ ReadBackFails
  BY <1>10 DEF ReadBack, RollBack, ReadBackFails
<1>11. CASE Age  BY <1>11 DEF Age
<1>12. CASE (\E r \in Row : Use(r)) \/ (\E i \in Id : UseSource(i))
  BY <1>12 DEF Use, UseSource
<1>13. CASE UNCHANGED vars  BY <1>13 DEF vars
<1>. QED
  BY <1>1, <1>2, <1>3, <1>4, <1>5, <1>6, <1>7, <1>8, <1>9, <1>10, <1>11, <1>12, <1>13
  DEF Next

(* What is installed for good was compared with the snapshot.              *)
LEMMA NothingLostStep == Inv /\ [Next]_vars => NothingLostUnasked'
<1>. SUFFICES ASSUME Inv, [Next]_vars PROVE NothingLostUnasked'  OBVIOUS
<1>0. /\ UNCHANGED inputs /\ (Buildable' <=> Buildable) /\ Transformed' = Transformed
  BY InputsKept, ManifestKept
<1>. USE <1>0 DEF Inv, inputs, report, history, NothingLostUnasked
<1>1. CASE ReadBack
  <2>1. /\ live' \in Database /\ IsValid(live')
        /\ pc' = IF Exact(live') THEN "installed" ELSE "installed_with_loss"
    BY <1>1, OpenedEffect DEF ReadBack, TypeInv
  <2>2. StateValid(live') /\ ReferencesHold(live') /\ (Exact(live') \/ mode = "loss")
    BY <2>1 DEF IsValid, Valid
  <2>3. CASE Exact(live')
    <3>1. live' = saved  BY <2>1, <2>2, <2>3, ExactIsSaved
    <3>. QED  BY <2>1, <2>3, <3>1
  <2>4. CASE ~Exact(live')
    <3>1. /\ live'.schema = saved.schema
          /\ \A r \in Row : /\ live'.row[r] \in {"none", "saved"}
                            /\ Kind[r] = "feed_items" => live'.row[r] = "saved"
          /\ \/ \A i \in Id : live'.source[i] \in {saved.source[i], None}
             \/ Reseeded(live')
      BY <2>1, <2>2, ValidIsReduced
    <3>2. ReferencesHold(live)'  BY <2>2 DEF ReferencesHold, Rows, Present
    <3>. QED  BY <2>1, <2>2, <2>4, <3>1, <3>2 DEF Reseeded
  <2>. QED  BY <2>3, <2>4
<1>2. CASE Recover \/ Restore \/ DoNotRestore \/ Prune \/ PruneFails \/ DoNotPrune
  BY <1>2 DEF Recover, Restore, DoNotRestore, Prune, PruneFails, DoNotPrune
<1>3. CASE Open \/ DoNotOpen \/ Judge \/ Install \/ Fail
  BY <1>3 DEF Open, DoNotOpen, Judge, Install, Fail
<1>4. CASE RollBack \/ ReadBackFails  BY <1>4 DEF RollBack, ReadBackFails
<1>5. CASE Age  BY <1>5 DEF Age
<1>6. CASE (\E r \in Row : Use(r)) \/ (\E i \in Id : UseSource(i))
  BY <1>6 DEF Use, UseSource
<1>7. CASE UNCHANGED vars
  <2>1. ReferencesHold(live)' <=> ReferencesHold(live)
    BY <1>7 DEF vars, ReferencesHold, Rows, Present
  <2>. QED  BY <1>7, <2>1 DEF vars
<1>. QED  BY <1>1, <1>2, <1>3, <1>4, <1>5, <1>6, <1>7 DEF Next

(* The read-back asks nothing new of a candidate that nobody touched,      *)
(* except that the manifest can be applied.                                *)
LEMMA RollBackStep == Inv /\ [Next]_vars => RollBackIsExplained'
<1>. SUFFICES ASSUME Inv, [Next]_vars PROVE RollBackIsExplained'  OBVIOUS
<1>0. UNCHANGED inputs /\ (Buildable' <=> Buildable)  BY InputsKept, ManifestKept
<1>. USE <1>0 DEF Inv, inputs, report, history, RollBackIsExplained
<1>1. CASE RollBack
  <2>1. pc = "readback" /\ ~IsValid(Opened(live)) /\ UNCHANGED <<slip, meddled>>
    BY <1>1 DEF RollBack
  <2>2. SUFFICES ASSUME ~slip, ~meddled, case.manifest = {} \/ Buildable PROVE FALSE
    BY <2>1
  <2>3. candidate \in Database  BY <2>1 DEF TypeInv
  <2>4. /\ opened /\ StateValid(candidate) /\ ReferencesHold(candidate)
        /\ Exact(candidate) \/ mode = "loss"
        /\ live = candidate
    BY <2>1, <2>2 DEF ApprovedInv
  <2>5. ListsManifest(candidate) /\ Opened(candidate) = candidate
    BY <2>1, <2>2, <2>4 DEF OpenedInv
  <2>6. SourcesAccepted(candidate)  BY <2>3, <2>4, ValidSources
  <2>7. IsValid(candidate)  BY <2>2, <2>4, <2>5, <2>6 DEF IsValid, Valid
  <2>. QED  BY <2>1, <2>4, <2>5, <2>7
<1>2. CASE Recover \/ Restore \/ DoNotRestore \/ Prune \/ PruneFails \/ DoNotPrune
  BY <1>2 DEF Recover, Restore, DoNotRestore, Prune, PruneFails, DoNotPrune
<1>3. CASE Open \/ DoNotOpen \/ Judge \/ Install \/ Fail
  BY <1>3 DEF Open, DoNotOpen, Judge, Install, Fail
<1>4. CASE ReadBack \/ ReadBackFails  BY <1>4 DEF ReadBack, ReadBackFails
<1>5. CASE Age  BY <1>5 DEF Age
<1>6. CASE (\E r \in Row : Use(r)) \/ (\E i \in Id : UseSource(i))
  BY <1>6 DEF Use, UseSource
<1>7. CASE UNCHANGED vars  BY <1>7 DEF vars
<1>. QED  BY <1>1, <1>2, <1>3, <1>4, <1>5, <1>6, <1>7 DEF Next

(* A database with every row of a sound snapshot, and its sources with the *)
(* manifest applied, is what the policy wants.                             *)
LEMMA SoundIsValid ==
  ASSUME InputInv, Sound, NEW db \in Database, db.source = Transformed,
         db.schema = saved.schema, db.stray = FALSE, \A r \in Row : db.row[r] = "saved"
  PROVE  Valid(db)
<1>1. db.row = saved.row  BY DEF InputInv, Database
<1>2. Restorable /\ unreadable = {}  BY DEF Sound
<1>3. Rows(db) = Rows(saved)  BY <1>1 DEF Rows
<1>4. Present(db.source) = Present(saved.source)  BY <1>2, TransformedType
<1>5. ASSUME NEW table \in Table \ {"sources"}
      PROVE  Records(db, table) = Records(saved, table)
  BY <1>1, <1>3 DEF Records, Table, Tolerant
<1>6. Reseeded(db) \/ Records(db, "sources") = Records(saved, "sources")
  <2>1. CASE case.manifest = {}
    <3>1. db.source = saved.source  BY <1>2, <2>1, NoManifest
    <3>. QED  BY <3>1 DEF Records
  <2>2. CASE case.manifest # {}  BY <1>2, <2>2 DEF Reseeded, Restorable
  <2>. QED  BY <2>1, <2>2
<1>7. \A table \in Table : Same(db, table) \/ (table = "sources" /\ Reseeded(db))
  BY <1>2, <1>5, <1>6 DEF Same
<1>8. OthersMatch(db)  BY <1>5 DEF OthersMatch, Table, Tolerant
<1>9. case.manifest = {} \/ Buildable  BY <1>2 DEF Restorable
<1>10. StateValid(db)
  BY <1>2, <1>7, <1>8, <1>9 DEF StateValid, HasNoUnmappedRows, SchemaMatches
<1>11. ReferencesHold(db)  BY <1>3, <1>4 DEF ReferencesHold, Sound
<1>. QED  BY <1>10, <1>11 DEF Valid

(* Only a stale run stands in its way.                                     *)
LEMMA CompleteApprovedStep == Inv /\ [Next]_vars => CompleteIsApproved'
<1>. SUFFICES ASSUME Inv, [Next]_vars PROVE CompleteIsApproved'  OBVIOUS
<1>0. /\ UNCHANGED inputs /\ (Restorable' <=> Restorable)
      /\ ReferencesHold(saved)' <=> ReferencesHold(saved)
  BY InputsKept, ManifestKept, SoundKept
<1>. USE <1>0 DEF Inv, inputs, report, history, CompleteIsApproved
<1>1. CASE Judge
  <2>1. /\ pc = "judge" /\ UNCHANGED <<candidate, stale, complete, healthy, slip>>
        /\ pc' = "review" => ~CandidateValid
    BY <1>1 DEF Judge, Approved
  <2>2. SUFFICES ASSUME pc' = "review", Sound, complete, healthy, ~slip,
                        ~(stale /\ \E r \in Running : candidate.row[r] = "altered")
                 PROVE  FALSE
    BY <2>1 DEF Sound
  <2>3. /\ restored /\ pruned /\ opened
        /\ candidate.schema = saved.schema /\ candidate.stray = FALSE
        /\ \A r \in Row : \/ candidate.row[r] = "saved"
                          \/ r \in Running /\ stale /\ candidate.row[r] = "altered"
    BY <2>1, <2>2 DEF CompleteInv
  <2>4. \A r \in Row : candidate.row[r] = "saved"  BY <2>2, <2>3
  <2>5. candidate \in Database /\ candidate.source = Transformed
    BY <2>3 DEF RestoredInv
  <2>6. Valid(candidate)  BY <2>2, <2>3, <2>4, <2>5, SoundIsValid
  <2>. QED  BY <2>1, <2>2, <2>3, <2>6 DEF CandidateValid
<1>2. CASE Recover \/ Restore \/ DoNotRestore \/ Prune \/ PruneFails \/ DoNotPrune
  BY <1>2 DEF Recover, Restore, DoNotRestore, Prune, PruneFails, DoNotPrune
<1>3. CASE Open \/ DoNotOpen \/ Install \/ Fail
  BY <1>3 DEF Open, DoNotOpen, Install, Fail
<1>4. CASE ReadBack \/ RollBack \/ ReadBackFails
  BY <1>4 DEF ReadBack, RollBack, ReadBackFails
<1>5. CASE Age  BY <1>5 DEF Age
<1>6. CASE (\E r \in Row : Use(r)) \/ (\E i \in Id : UseSource(i))
  BY <1>6 DEF Use, UseSource
<1>7. CASE UNCHANGED vars  BY <1>7 DEF vars
<1>. QED  BY <1>1, <1>2, <1>3, <1>4, <1>5, <1>6, <1>7 DEF Next

-----------------------------------------------------------------------------

(* It holds at first.                                                      *)
LEMMA InitInv == Init => Inv
<1>. SUFFICES ASSUME Init PROVE Inv  OBVIOUS
<1>1. PICK schema \in {"old", "current"} :
        saved = [source |-> case.source, row |-> [r \in Row |-> "saved"],
                 schema |-> schema, stray |-> FALSE]
  BY DEF Init
<1>2. case.source \in [Id -> Source \cup {None}]  BY CandidateAssumption DEF Init
<1>3. InputInv  BY <1>1, <1>2 DEF Init, InputInv, Database
<1>4. TypeInv  BY <1>3 DEF Init, InputInv, TypeInv, Phase
<1>. QED
  BY <1>3, <1>4
  DEF Init, Inv, RestoredInv, OpenedInv, ApprovedInv, CompleteInv, NothingLostUnasked,
      RollBackIsExplained, CompleteIsApproved

(* And always.                                                             *)
LEMMA Invariance == Spec => []Inv
<1>1. Inv /\ [Next]_vars => Inv'
  BY InputStep, TypeStep, RestoredStep, OpenedStep, ApprovedStep, CompleteStep,
     NothingLostStep, RollBackStep, CompleteApprovedStep DEF Inv
<1>. QED  BY InitInv, <1>1, PTL DEF Spec

(* The variables have their types, and the candidate holds no two sources  *)
(* that the UNIQUE constraints of the table forbid.                        *)
THEOREM TypeCorrect == Spec => []TypeOK
<1>1. Inv => TypeOK
  BY DEF Inv, InputInv, TypeInv, TypeOK, Database
<1>. QED  BY Invariance, <1>1, PTL

(* A catalog that was installed is the snapshot; or loss was allowed, and  *)
(* what is left is as it was.                                              *)
THEOREM NothingIsLostUnasked == Spec => []NothingLostUnasked
<1>1. Inv => NothingLostUnasked  BY DEF Inv
<1>. QED  BY Invariance, <1>1, PTL

(* Sources restored with a manifest are the sources there were, every feed *)
(* among them, and no URL was taken from one.                              *)
THEOREM SourcesAreReseededSoundly == Spec => []ReseededSoundly
<1>1. Inv => ReseededSoundly
  <2>. SUFFICES ASSUME Inv, restored PROVE ReseededSoundly  BY DEF ReseededSoundly
  <2>1. InputInv /\ Restorable /\ candidate.source = Transformed
    BY DEF Inv, RestoredInv
  <2>2. Present(Transformed) = Present(saved.source)  BY <2>1, TransformedType
  <2>3. ListsManifest(candidate)  BY <2>1, TransformedLists
  <2>4. \A i \in Present(saved.source) :
          \/ Transformed[i].url = saved.source[i].url
          \/ \E feed \in case.manifest :
               Transformed[i].url = feed.url /\ HasUrl(feed.url) = {}
    BY <2>1, TransformedUrls
  <2>. QED  BY <2>1, <2>2, <2>3, <2>4 DEF ReseededSoundly
<1>. QED  BY Invariance, <1>1, PTL

(* What was approved is rolled back for a reason.                          *)
THEOREM RollBacksAreExplained == Spec => []RollBackIsExplained
<1>1. Inv => RollBackIsExplained  BY DEF Inv
<1>. QED  BY Invariance, <1>1, PTL

(* A complete recovery of a sound catalog needs no review, unless a run    *)
(* that was not finished was stale.                                        *)
THEOREM CompleteRecoveriesAreApproved == Spec => []CompleteIsApproved
<1>1. Inv => CompleteIsApproved  BY DEF Inv
<1>. QED  BY Invariance, <1>1, PTL

=============================================================================
