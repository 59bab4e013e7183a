--------------------------- MODULE AssetInventory ---------------------------
(***************************************************************************)
(* Assets and what was observed of them: import_assets, one transaction,   *)
(* and the readers list_assets and inspect_asset, which take one SELECT    *)
(* after the other without a transaction, while imports commit.  Ids and   *)
(* times are numbers; the code compares both as text, which for its fixed  *)
(* format is the order of the times.                                       *)
(***************************************************************************)
EXTENDS CatalogOpening, FiniteSets

CONSTANTS AssetTables,  \* the tables these operations use
          Document,     \* import documents: sequences of entries
          AsOf,         \* the moments a reader may ask about
          Limit         \* the reader's limit, for assets and for observations

VARIABLES
  assets,        \* asset_records, as [id, form]
  observations,  \* asset_observations, as entries hold them
  reader,        \* what a reader asked, and how many statements are done
  answer         \* what these statements have returned

assetVars == <<assets, observations, reader, answer>>

Entry == UNION {{d[k] : k \in DOMAIN d} : d \in Document}

(* What deserialisation lets through: Asset::validate and                  *)
(* AssetObservation::validate.                                             *)
Valid(e) ==
  LET o == e.observation IN
  /\ o.corrects # o.id
  /\ (o.origin = "user_correction") <=> (o.corrects # None)
  /\ o.stale # None => o.stale > o.at

ASSUME AssetAssumption ==
  /\ Limit \in Nat \ {0} /\ AsOf \subseteq Nat
  /\ None \notin Nat
  /\ \A d \in Document : d \in Seq(Entry)
  /\ \A e \in Entry :
       /\ e.asset.id \in Nat
       /\ e.observation.id \in Nat /\ e.observation.at \in Nat
       /\ e.observation.corrects \in Nat \cup {None}
       /\ e.observation.stale \in Nat \cup {None}

NoReader == [op |-> "none", asset |-> None, asOf |-> None, rest |-> {}, done |-> 0]
NoAnswer == [effective |-> None, count |-> 0, recent |-> {}]

AssetInit ==
  assets = {} /\ observations = {} /\ reader = NoReader /\ answer = NoAnswer

-----------------------------------------------------------------------------
(* Importing *)

(* What the tables hold when the k-th entry is reached.                    *)
AssetsBefore(d, k) == assets \cup {d[i].asset : i \in 1 .. k - 1}
ObservationsBefore(d, k) == observations \cup {d[i].observation : i \in 1 .. k - 1}

(* An id that is known names the same content.                             *)
Agrees(rows, row) == \A r \in rows : r.id = row.id => r = row

(* Mutant of Corrects: a correction may be as old as what it corrects.     *)
CorrectsSameTime(rows, o) ==
  o.corrects # None =>
    \E r \in rows : r.id = o.corrects /\ r.asset = o.asset /\ o.at >= r.at

(* Mutant of Corrects: what has been corrected is not corrected again.     *)
CorrectsOnce(rows, o) ==
  o.corrects # None =>
    \E r \in rows :
      /\ r.id = o.corrects /\ r.asset = o.asset /\ o.at > r.at
      /\ \A c \in rows : c.corrects # r.id

(* What an observation corrects is known, of the same asset, and older.    *)
Corrects(rows, o) ==
  o.corrects # None =>
    \E r \in rows : r.id = o.corrects /\ r.asset = o.asset /\ o.at > r.at

Accepted(d) ==
  \A k \in DOMAIN d :
    /\ Valid(d[k]) /\ d[k].asset.id = d[k].observation.asset
    /\ Agrees(AssetsBefore(d, k), d[k].asset)
    /\ Corrects(ObservationsBefore(d, k), d[k].observation)
    /\ Agrees(ObservationsBefore(d, k), d[k].observation)

(* Mutant of HasAssets: opening is enough, whatever the build.             *)
HasStore(p) == phase[p] = "open"

(* The build has the commands, and opening has seen to its tables.         *)
HasAssets(p) ==
  /\ phase[p] = "open"
  /\ AssetTables \subseteq UNION {Tables[build[p][v]] : v \in DOMAIN build[p]}

(* One immediate transaction: all of the document, or an error and nothing.*)
Import(p, d) ==
  /\ HasAssets(p) /\ lock = Free
  /\ Accepted(d)
  /\ assets' = assets \cup {d[k].asset : k \in DOMAIN d}
  /\ observations' = observations \cup {d[k].observation : k \in DOMAIN d}
  /\ UNCHANGED <<openingVars, reader, answer>>

-----------------------------------------------------------------------------
(* Reading *)

Of(a) == {o \in observations : o.asset = a}

Newer(o, r) == o.at > r.at \/ (o.at = r.at /\ o.id > r.id)

(* The order of the effective observation: corrections before others, then *)
(* the newest, then the highest id.                                        *)
Ranks(o, r) ==
  \/ o.corrects # None /\ r.corrects = None
  \/ /\ (o.corrects = None) <=> (r.corrects = None)
     /\ Newer(o, r)

Candidates(a, t) == {o \in Of(a) : o.at <= t}

Effective(a, t) ==
  IF Candidates(a, t) = {} THEN None
  ELSE CHOOSE o \in Candidates(a, t) : \A r \in Candidates(a, t) \ {o} : Ranks(o, r)

Recent(a) == {o \in Of(a) : Cardinality({r \in Of(a) : Newer(r, o)}) < Limit}

AssetIds == {r.id : r \in assets}
Smallest(S) == CHOOSE a \in S : \A b \in S : a <= b
FirstAssets == {a \in AssetIds : Cardinality({b \in AssetIds : b < a}) < Limit}

(* inspect_asset finds the asset; what follows are statements of their own.*)
StartInspect(a, t) ==
  /\ reader.op = "none"
  /\ a \in AssetIds
  /\ reader' = [op |-> "inspect", asset |-> a, asOf |-> t, rest |-> {}, done |-> 0]
  /\ UNCHANGED <<openingVars, assets, observations, answer>>

(* list_assets begins with the assets and then looks at each in turn.      *)
Listing(ids, t) ==
  [op |-> "list", asset |-> Smallest(ids), asOf |-> t, rest |-> ids \ {Smallest(ids)},
   done |-> 0]

StartList(t) ==
  /\ reader.op = "none"
  /\ FirstAssets # {} /\ reader' = Listing(FirstAssets, t)
  /\ UNCHANGED <<openingVars, assets, observations, answer>>

(* Mutant of Statements: the observations are read before the others.      *)
StatementsRecentFirst(op) ==
  IF op = "list" THEN <<"effective", "count">> ELSE <<"recent", "effective", "count">>

Statements(op) ==
  IF op = "list" THEN <<"effective", "count">> ELSE <<"effective", "count", "recent">>

At(column) ==
  /\ reader.op # "none"
  /\ reader.done < Len(Statements(reader.op))
  /\ Statements(reader.op)[reader.done + 1] = column

Select ==
  /\ \/ /\ At("effective")
        /\ answer' = [answer EXCEPT !.effective = Effective(reader.asset, reader.asOf)]
     \/ At("count") /\ answer' = [answer EXCEPT !.count = Cardinality(Of(reader.asset))]
     \/ At("recent") /\ answer' = [answer EXCEPT !.recent = Recent(reader.asset)]
  /\ reader' = [reader EXCEPT !.done = @ + 1]
  /\ UNCHANGED <<openingVars, assets, observations>>

Complete == reader.op # "none" /\ reader.done = Len(Statements(reader.op))

(* The listing goes on with the next asset.                                *)
ListNext ==
  /\ Complete
  /\ reader.rest # {} /\ reader' = Listing(reader.rest, reader.asOf)
  /\ UNCHANGED <<openingVars, assets, observations, answer>>

Answer ==
  /\ Complete /\ reader.rest = {}
  /\ reader' = NoReader /\ answer' = NoAnswer
  /\ UNCHANGED <<openingVars, assets, observations>>

ReadAssets ==
  \/ \E t \in AsOf : StartList(t) \/ \E a \in AssetIds : StartInspect(a, t)
  \/ Select \/ ListNext \/ Answer

-----------------------------------------------------------------------------
(* Properties *)

(* An id names one asset or observation, and observations are of assets.   *)
AssetTypeOK ==
  /\ assets \subseteq {e.asset : e \in Entry}
  /\ observations \subseteq {e.observation : e \in Entry}
  /\ \A r \in assets : Agrees(assets, r)
  /\ \A o \in observations : Agrees(observations, o) /\ o.asset \in AssetIds

(* The effective observation of an asset, at any moment asked about, is    *)
(* not one that somebody has corrected by then, in whatever order          *)
(* observations, corrections and corrections of corrections are imported   *)
(* ("Asset observations preserve freshness and correction history.",       *)
(* README.md:90).                                                          *)
EffectiveIsUncorrected ==
  \A a \in AssetIds, t \in AsOf :
    LET e == Effective(a, t) IN
    e # None => ~ \E o \in observations : o.corrects = e.id /\ o.at <= t

(* A document whose rows are all stored is accepted when it is imported    *)
(* again, whatever was imported since: an import that is repeated because  *)
(* its answer was lost cannot be refused as a conflict.                    *)
StoredIsAccepted ==
  \A d \in Document :
    (\A k \in DOMAIN d :
       /\ d[k].asset \in assets /\ d[k].observation \in observations
       /\ d[k].asset.id = d[k].observation.asset) => Accepted(d)

(* What the statements of one answer still promise when imports commit     *)
(* between them: it lists as many observations as it counts, up to the     *)
(* limit; if it lists fewer than the limit, the effective one is among     *)
(* them; and no asset is listed without an observation.                    *)
AnswersHoldTogether ==
  Complete =>
    /\ answer.count > 0
    /\ reader.op = "inspect" =>
         /\ Cardinality(answer.recent) >= (IF answer.count < Limit THEN answer.count ELSE Limit)
         /\ Cardinality(answer.recent) < Limit =>
              answer.effective = None \/ answer.effective \in answer.recent

=============================================================================
