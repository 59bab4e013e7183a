-------------------------- MODULE MCArtifactCatalog --------------------------
(* Two digests and two places; d1 and d2 make one claim in common, and d3  *)
(* has the same content from another place.  It claims the same revision   *)
(* as d2.                                                                  *)
EXTENDS ArtifactCatalog, TLC

CONSTANTS h1, h2, a, b, d1, d2, d3

MCRefsOf == (d1 :> {<<a, h1>>}) @@ (d2 :> {<<a, h1>>, <<b, h2>>}) @@ (d3 :> {<<b, h1>>})

MCRivals == {<<d2, d3>>, <<d3, d2>>}
=============================================================================
