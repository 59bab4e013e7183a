-------------------------- MODULE MCCandidateBuild --------------------------
(* Three sources, and of the first a run, its artifact, its item and the   *)
(* item's provenance.  A trail may also come from runs left out here.      *)
EXTENDS CandidateBuild

CONSTANTS run, artifact, item, link, x, y, z

MCId   == 1..3
MCWord == {x, y, z} \cup MCId
MCUrl  == {"u", "v", "w"}
MCRow == {run, artifact, item, link}
MCKind == [r \in MCRow |->
  CASE r = run -> "fetch_runs" [] r = artifact -> "artifacts"
    [] r = item -> "feed_items" [] r = link -> "provenance"]
MCNeeds == [r \in MCRow |->
  CASE r = link -> {run, artifact, item} [] r = artifact -> {} [] OTHER -> {1}]
MCRunning == {run}

Src(name, url) == [name |-> name, integer |-> FALSE, url |-> url, scheduled |-> FALSE]
Entry(name, url) == [name |-> name, url |-> url]

Plain == <<Src(<<x>>, "u"), Src(<<y>>, "v"), None>>
(* Two sources with one name, and a third that has the second's new name.  *)
Namesakes == <<Src(<<x>>, "u"), Src(<<x>>, "v"), None>>
Taken     == <<Src(<<x>>, "u"), Src(<<x>>, "v"), Src(<<x, 2>>, "w")>>
SameUrl   == <<Src(<<x>>, "u"), Src(<<y>>, "u"), None>>
Integer   == <<[Src(<<x>>, "u") EXCEPT !.integer = TRUE], Src(<<y>>, "v"), None>>
Missing   == <<None, Src(<<y>>, "v"), None>>
Scheduled == <<[Src(<<x>>, "u") EXCEPT !.scheduled = TRUE], Src(<<y>>, "v"), None>>

(* .recover takes a name from elsewhere, or an address.                    *)
MCSpoiled == {Src(<<z>>, "u"), Src(<<y>>, "w")}

Trail(url, ids) == [u \in MCUrl |-> IF u = url THEN ids ELSE {}]
NoTrail         == Trail("u", {})

Make(source, manifest, trail) ==
  [source |-> source, manifest |-> manifest, trail |-> trail]

MCCase == {
  Make(Plain, {}, NoTrail), Make(Namesakes, {}, NoTrail),
  Make(Integer, {}, NoTrail), Make(Missing, {}, NoTrail),
  Make(SameUrl, {Entry(x, "u")}, NoTrail),
  Make(Integer, {Entry(y, "v")}, NoTrail),
  Make(Namesakes, {Entry(x, "v")}, NoTrail),
  Make(Taken, {Entry(x, "u")}, NoTrail),
  Make(Plain, {Entry(y, "u")}, Trail("u", {1})),
  Make(Plain, {Entry(z, "w")}, Trail("w", {1})),
  Make(Plain, {Entry(y, "u"), Entry(x, "w")}, NoTrail),
  Make(Plain, {Entry(y, "w")}, NoTrail),
  Make(Missing, {Entry(x, "w")}, Trail("w", {1})),
  Make(Scheduled, {Entry(x, "u")}, Trail("u", {1})),
  Make(Scheduled, {Entry(x, "u")}, Trail("u", {1, 2}))}

=============================================================================
