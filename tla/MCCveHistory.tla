---------------------------- MODULE MCCveHistory ----------------------------
(* One CVE delivered as five versions by two sources (equal times, equal   *)
(* revisions, one revision and one id in conflict), and another CVE whose  *)
(* version takes an id of the first.                                       *)
EXTENDS CveHistory

CONSTANTS c1, c2, x, y

V(c, i, r, m, b) == [cve |-> c, id |-> i, rev |-> r, mod |-> m, body |-> b]

MCInput ==
  { V(c1, 1, 1, 1, x), V(c1, 2, 2, 1, x), V(c1, 4, 3, 1, x), V(c1, 3, 4, 2, x),
    V(c1, 5, 3, 2, y),     \* the revision of version 4
    V(c2, 3, 1, 1, x) }    \* the id of version 3
=============================================================================
