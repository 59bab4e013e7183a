------------------------- MODULE MCCatalogSessions -------------------------
(* Three builds: an old one, the present one, and one in which the second  *)
(* migration was edited later.                                             *)
EXTENDS CatalogSessions, TLC

CONSTANTS m1, m2, m2edited, k1, k2, s1, s2

MCBuild  == {<<m1>>, <<m1, m2>>, <<m1, m2edited>>}
MCTables == (m1 :> {"feed_items"}) @@ (m2 :> {"asset_records", "asset_observations"})
            @@ (m2edited :> {"asset_records"})

(* Nothing yet; and what builds without checksums have left.               *)
MCLegacy ==
  {[ledger |-> <<>>, schema |-> {}],
   [ledger |-> <<None>>, schema |-> {"feed_items"}],
   [ledger |-> <<None, None>>, schema |-> {"feed_items", "asset_records"}],
   [ledger |-> <<None, None>>,
    schema |-> {"feed_items", "asset_records", "asset_observations"}]}

MCAssetTables == {"asset_records", "asset_observations"}
MCBodies == (s1 :> {<<k2, k1>>}) @@ (s2 :> {<<k1>>})

Seen(id, asset, at, target, stale, coverage) ==
  [id |-> id, asset |-> asset, at |-> at, corrects |-> target, stale |-> stale,
   coverage |-> coverage,
   origin |-> IF target = None THEN "collector" ELSE "user_correction"]

One == [id |-> 1, form |-> "one"]
Two == [id |-> 2, form |-> "two"]

E(asset, observation) == [asset |-> asset, observation |-> observation]

First1     == E(One, Seen(1, 1, 1, None, None, "incomplete"))
Changed1   == E(One, Seen(1, 1, 2, None, None, "unknown"))
Correction == E(One, Seen(2, 1, 2, 1, 4, "complete"))
Second     == E(One, Seen(4, 1, 3, 2, None, "complete"))
Later      == E(One, Seen(3, 1, 3, None, None, "complete"))
SameTime   == E(One, Seen(0, 1, 2, 2, None, "complete"))
OtherAsset == E(Two, Seen(5, 2, 2, 1, None, "complete"))
Other      == E(Two, Seen(6, 2, 1, None, None, "unknown"))
OtherForm  == E([One EXCEPT !.form = "two"], Seen(7, 1, 3, None, None, "complete"))

MCDocument ==
  {<<First1>>, <<Changed1>>, <<Correction, First1>>, <<Correction, Later>>,
   <<Second, Other>>, <<SameTime>>, <<OtherAsset>>, <<Other, OtherForm>>}

ProcSymmetry == Permutations(Proc)
=============================================================================
