-------------------------- MODULE CatalogSessions --------------------------
(***************************************************************************)
(* Processes that open one catalog and then use it: they migrate it, store *)
(* the items of feeds and import assets, one write transaction at a time,  *)
(* while a client pages through the items and a reader inspects assets.    *)
(***************************************************************************)
EXTENDS FeedItems, AssetInventory

vars == <<openingVars, itemsVars, assetVars>>

Init == OpeningInit /\ ItemsInit /\ AssetInit

(* What one process does with its Store. *)
Use(p) ==
  \/ Store(p) /\ UNCHANGED assetVars
  \/ \E d \in Document : Import(p, d) /\ UNCHANGED itemsVars

Next ==
  \/ \E p \in Proc :
       \/ OpenStep(p) /\ UNCHANGED <<itemsVars, assetVars>>
       \/ Close(p) /\ UNCHANGED assetVars
       \/ Use(p)
  \/ (Newest \/ Since) /\ UNCHANGED assetVars
  \/ ReadAssets /\ UNCHANGED itemsVars

Spec == Init /\ [][Next]_vars

-----------------------------------------------------------------------------
(* Properties *)

(* The variables have their types, an item is stored once, and an asset is *)
(* only there when its tables are.                                         *)
TypeOK ==
  /\ OpeningTypeOK /\ ItemsTypeOK /\ AssetTypeOK
  /\ assets # {} => AssetTables \subseteq schema

=============================================================================
