-------------------------- MODULE CveHistoryProofs --------------------------
(***************************************************************************)
(* What ingest_cve maintains, for any number of writers, readers and       *)
(* versions delivered: the current version is the newest one.  And what    *)
(* cve_history's pages add up to, for any page size: the history is        *)
(* totally ordered, a page is its newest part after the cursor, and the    *)
(* cursor divides what a reader was given from what is still to come.      *)
(***************************************************************************)
EXTENDS CveHistory, FiniteSetTheorems, WellFoundedInduction, TLAPS

(* What is current is stored and belongs to the CVE it is current for.     *)
CurrentIsStored ==
  \A c \in Cve : current[c] # None => current[c] \in stored /\ current[c].cve = c

(* Version ids, and the revisions of a CVE, are each given once: with this *)
(* the order below is total and the cursor divides the history.            *)
OneDocumentEach ==
  \A u, v \in stored :
    u.id = v.id \/ (u.cve = v.cve /\ u.rev = v.rev) => u = v

Inv ==
  /\ stored \subseteq Version
  /\ current \in [Cve -> Version \cup {None}]
  /\ CurrentIsStored
  /\ CurrentIsNewest
  /\ OneDocumentEach

-----------------------------------------------------------------------------
(* The order of versions is a strict one: what is not older than the       *)
(* current version stays so when a newer one becomes current.              *)
LEMMA OlderChain ==
  ASSUME NEW u \in Version, NEW v \in Version, NEW w \in Version,
         ~Older(u, v), Older(u, w)
  PROVE  ~Older(w, v)
<1>1. /\ u.mod \in Nat /\ v.mod \in Nat /\ w.mod \in Nat
      /\ u.rev \in Nat /\ v.rev \in Nat /\ w.rev \in Nat
      /\ u.id \in Nat /\ v.id \in Nat /\ w.id \in Nat
  BY DEF Version
<1>. QED  BY <1>1 DEF Older

(* No version is older than itself.                                        *)
LEMMA OlderIrreflexive == ASSUME NEW v \in Version PROVE ~Older(v, v)
  BY DEF Older, Version

(* An empty catalog satisfies the invariant.                               *)
LEMMA InitInv == Init => Inv
  BY DEF Init, Inv, CurrentIsStored, CurrentIsNewest, OneDocumentEach, History

(* The transaction of an ingest that meets no conflict preserves it.       *)
LEMMA StoreStep ==
  ASSUME Inv, NEW v \in Version, ~Conflicts(v), Store(v)
  PROVE  Inv'
<1>. USE HistoryAssumption
<1>1. CASE v \in stored
  BY <1>1 DEF Store, catalog, Inv, CurrentIsStored, CurrentIsNewest, OneDocumentEach,
              History
<1>2. CASE v \notin stored
  <2>. DEFINE c == v.cve
  <2>1. /\ stored' = stored \cup {v}
        /\ current' = IF Newest(v) THEN [current EXCEPT ![c] = v] ELSE current
    BY <1>2 DEF Store
  <2>2. c \in Cve /\ v # None  BY DEF Version
  <2>3. stored' \subseteq Version /\ current' \in [Cve -> Version \cup {None}]
    BY <2>1, <2>2 DEF Inv
  <2>4. OneDocumentEach'
    <3>. SUFFICES ASSUME NEW x \in stored', NEW y \in stored',
                         x.id = y.id \/ (x.cve = y.cve /\ x.rev = y.rev)
                  PROVE  x = y
      BY DEF OneDocumentEach
    <3>1. CASE x \in stored /\ y \in stored  BY <3>1 DEF Inv, OneDocumentEach
    <3>2. CASE x = v \/ y = v  BY <3>2, <2>1 DEF Conflicts
    <3>. QED  BY <2>1, <3>1, <3>2
  <2>5. CASE Newest(v)
    <3>1. current' = [current EXCEPT ![c] = v]  BY <2>1, <2>5
    <3>2. current'[c] = v /\ \A d \in Cve \ {c} : current'[d] = current[d]
      BY <3>1, <2>2 DEF Inv
    <3>3. CurrentIsStored'  BY <3>2, <2>1, <2>2 DEF Inv, CurrentIsStored
    <3>4. CurrentIsNewest'
      <4>. SUFFICES ASSUME NEW u \in stored'
                    PROVE  /\ current'[u.cve] \in {x \in stored' : x.cve = u.cve}
                           /\ ~Older(current'[u.cve], u)
        BY DEF CurrentIsNewest, History
      <4>1. u \in Version /\ u.cve \in Cve  BY <2>3 DEF Version
      <4>2. CASE u.cve # c
        <5>1. u \in stored  BY <4>2, <2>1
        <5>. QED  BY <5>1, <4>1, <4>2, <3>2, <2>1 DEF Inv, CurrentIsNewest, History
      <4>3. CASE u = v
        BY <4>3, <3>2, <2>1, OlderIrreflexive
      <4>4. CASE u.cve = c /\ u # v
        <5>1. u \in stored  BY <4>4, <2>1
        <5>2. current[c] \in stored /\ ~Older(current[c], u)
          BY <5>1, <4>4 DEF Inv, CurrentIsNewest, History
        <5>3. current[c] \in Version /\ current[c] # None  BY <5>2 DEF Inv
        <5>4. Older(current[c], v)  BY <5>3, <2>5 DEF Newest
        <5>5. ~Older(v, u)  BY <5>2, <5>3, <5>4, <4>1, OlderChain
        <5>. QED  BY <5>5, <4>4, <3>2, <2>1
      <4>. QED  BY <4>2, <4>3, <4>4
    <3>. QED  BY <2>3, <2>4, <3>3, <3>4 DEF Inv
  <2>6. CASE ~Newest(v)
    <3>1. current' = current  BY <2>1, <2>6
    <3>2. current[c] # None /\ ~Older(current[c], v)  BY <2>6 DEF Newest
    <3>3. CurrentIsStored'  BY <3>1, <2>1 DEF Inv, CurrentIsStored
    <3>4. CurrentIsNewest'
      <4>. SUFFICES ASSUME NEW u \in stored'
                    PROVE  /\ current[u.cve] \in {x \in stored' : x.cve = u.cve}
                           /\ ~Older(current[u.cve], u)
        BY <3>1 DEF CurrentIsNewest, History
      <4>1. CASE u = v
        BY <4>1, <3>2, <2>1, <2>2 DEF Inv, CurrentIsStored
      <4>2. CASE u \in stored
        BY <4>2, <2>1 DEF Inv, CurrentIsNewest, History
      <4>. QED  BY <4>1, <4>2, <2>1
    <3>. QED  BY <2>3, <2>4, <3>3, <3>4 DEF Inv
  <2>. QED  BY <2>5, <2>6
<1>. QED  BY <1>1, <1>2

(* Nothing else touches the catalog.                                       *)
LEMMA ElseStep == ASSUME Inv, UNCHANGED catalog PROVE Inv'
  BY DEF Inv, catalog, CurrentIsStored, CurrentIsNewest, OneDocumentEach, History

(* Every step preserves the invariant.                                     *)
LEMMA InvStep == Inv /\ [Next]_vars => Inv'
<1>. SUFFICES ASSUME Inv, [Next]_vars PROVE Inv'  OBVIOUS
<1>1. ASSUME NEW w \in Writer, NEW v \in Input, Ingest(w, v) PROVE Inv'
  BY <1>1, StoreStep, HistoryAssumption DEF Ingest
<1>2. ASSUME NEW w \in Writer, NEW v \in Input, Reject(w, v) PROVE Inv'
  BY <1>2, ElseStep DEF Reject, catalog
<1>3. ASSUME NEW w \in Writer, NEW v \in Input, LoseCommit(w, v) PROVE Inv'
  <2>1. CASE Store(v)  BY <1>3, <2>1, StoreStep, HistoryAssumption DEF LoseCommit
  <2>2. CASE UNCHANGED catalog  BY <2>2, ElseStep
  <2>. QED  BY <1>3, <2>1, <2>2 DEF LoseCommit
<1>4. ASSUME NEW w \in Writer, Probe(w) PROVE Inv'
  BY <1>4, ElseStep DEF Probe, catalog
<1>5. ASSUME NEW r \in Reader, NEW c \in Cve, FirstPage(r, c) PROVE Inv'
  BY <1>5, ElseStep DEF FirstPage, catalog
<1>6. ASSUME NEW r \in Reader, NextPage(r) PROVE Inv'
  BY <1>6, ElseStep DEF NextPage, catalog
<1>7. CASE UNCHANGED vars
  BY <1>7, ElseStep DEF vars, catalog
<1>. QED  BY <1>1, <1>2, <1>3, <1>4, <1>5, <1>6, <1>7 DEF Next

(* The invariant holds throughout.                                         *)
LEMMA Invariance == Spec => []Inv
  BY InitInv, InvStep, PTL DEF Spec

-----------------------------------------------------------------------------

(* The current version of a CVE is the newest stored one, in whatever      *)
(* order ingest_cve receives versions and whichever commits are lost.      *)
THEOREM NewestIsCurrent == Spec => []CurrentIsNewest
<1>1. Inv => CurrentIsNewest  BY DEF Inv
<1>. QED  BY <1>1, Invariance, PTL

(* reconcile_cve_commit answers "current" only when that is so when it     *)
(* answers, not when the lost transaction computed it.                     *)
THEOREM ReconciledAnswersCurrent == Spec => AnswersAreCurrent
<1>. DEFINE Honest ==
       \A w \in Writer :
         answer'[w] = "current" /\ doubtful[w] # None /\ doubtful'[w] = None =>
           current'[doubtful[w].cve] = doubtful[w]
<1>. DEFINE Typed == doubtful \in [Writer -> Input \cup {None}]
                     /\ answer \in [Writer -> Answer]
<1>1. Init => Typed  BY DEF Init, Answer
<1>2. Typed /\ [Next]_vars => Typed'
  <2>. SUFFICES ASSUME Typed, [Next]_vars PROVE Typed'  OBVIOUS
  <2>. USE DEF Answer, Told
  <2>1. ASSUME NEW w \in Writer, NEW v \in Input, Ingest(w, v) PROVE Typed'
    BY <2>1 DEF Ingest
  <2>2. ASSUME NEW w \in Writer, NEW v \in Input, Reject(w, v) PROVE Typed'
    BY <2>2 DEF Reject
  <2>3. ASSUME NEW w \in Writer, NEW v \in Input, LoseCommit(w, v) PROVE Typed'
    BY <2>3 DEF LoseCommit
  <2>4. ASSUME NEW w \in Writer, Probe(w) PROVE Typed'
    BY <2>4 DEF Probe
  <2>5. ASSUME UNCHANGED writers PROVE Typed'
    BY <2>5 DEF writers
  <2>6. ASSUME NEW r \in Reader, NEW c \in Cve, FirstPage(r, c) PROVE Typed'
    BY <2>5, <2>6 DEF FirstPage
  <2>7. ASSUME NEW r \in Reader, NextPage(r) PROVE Typed'
    BY <2>5, <2>7 DEF NextPage
  <2>8. CASE UNCHANGED vars  BY <2>5, <2>8 DEF vars, writers
  <2>. QED  BY <2>1, <2>2, <2>3, <2>4, <2>6, <2>7, <2>8 DEF Next
<1>3. Typed /\ [Next]_vars => [Honest]_vars
  <2>. SUFFICES ASSUME Typed, Next, NEW u \in Writer,
                       answer'[u] = "current", doubtful[u] # None, doubtful'[u] = None
                PROVE  current'[doubtful[u].cve] = doubtful[u]
    BY DEF Honest
  <2>1. \E w \in Writer : Probe(w) /\ u = w
    BY DEF Next, Ingest, Reject, LoseCommit, FirstPage, NextPage, writers, Probe
  <2>2. Probe(u)  BY <2>1
  <2>3. answer'[u] = IF doubtful[u] \in stored
                     THEN Told(current[doubtful[u].cve] = doubtful[u]) ELSE "error"
    BY <2>2 DEF Probe
  <2>4. current' = current  BY <2>2 DEF Probe, catalog
  <2>. QED  BY <2>3, <2>4 DEF Told
<1>. QED  BY <1>1, <1>2, <1>3, PTL DEF Spec, AnswersAreCurrent

-----------------------------------------------------------------------------
(* Sets of versions in their order *)

(* Older is transitive.                                                    *)
LEMMA OlderTransitive ==
  ASSUME NEW u \in Version, NEW v \in Version, NEW w \in Version,
         Older(u, v), Older(v, w)
  PROVE  Older(u, w)
<1>1. /\ u.mod \in Nat /\ v.mod \in Nat /\ w.mod \in Nat
      /\ u.rev \in Nat /\ v.rev \in Nat /\ w.rev \in Nat
      /\ u.id \in Nat /\ v.id \in Nat /\ w.id \in Nat
  BY DEF Version
<1>. QED  BY <1>1 DEF Older

(* What FirstOf and Oldest are applied to.                                 *)
Chain(S) ==
  /\ S \in SUBSET Version /\ IsFiniteSet(S)
  /\ \A u, v \in S : u # v => Older(u, v) \/ Older(v, u)

(* A finite set has a minimal element, whatever it is ordered by.          *)
LEMMA Minimal ==
  ASSUME NEW S, IsFiniteSet(S), S # {}, NEW R, \A x \in S : <<x, x>> \notin R,
         \A x, y, z \in S : <<x, y>> \in R /\ <<y, z>> \in R => <<x, z>> \in R
  PROVE  \E x \in S : \A y \in S : <<y, x>> \notin R
<1>. DEFINE Below(x) == {y \in S : <<y, x>> \in R}
            Size(x)  == Cardinality(Below(x))
            Sizes    == {Size(x) : x \in S}
<1>1. \A x \in S : IsFiniteSet(Below(x)) /\ Cardinality(Below(x)) \in Nat
  BY FS_Subset, FS_CardinalityType
<1>2. \A x \in S : Size(x) \in Nat  BY <1>1
<1>. HIDE DEF Size
<1>3. PICK n \in Sizes : \A m \in Sizes : ~(m < n)
  <2>0. Sizes \in SUBSET Nat /\ Sizes # {}  BY <1>2
  <2>. HIDE DEF Sizes
  <2>1. PICK n \in Sizes : \A m \in Sizes : ~(<<m, n>> \in OpToRel(<, Nat))
    BY <2>0, NatLessThanWellFounded, WFMin
  <2>. QED  BY <2>0, <2>1 DEF OpToRel
<1>4. PICK x \in S : \A y \in S : ~(Size(y) < Size(x))
  BY <1>3
<1>5. ASSUME NEW y \in S, <<y, x>> \in R  PROVE FALSE
  <2>1. Below(y) \in SUBSET Below(x) /\ y \in Below(x) /\ y \notin Below(y)
    BY <1>5
  <2>2. /\ IsFiniteSet(Below(x)) /\ Cardinality(Below(x)) \in Nat
        /\ Cardinality(Below(y)) \in Nat
    BY <1>1
  <2>3. ~(Cardinality(Below(y)) < Cardinality(Below(x)))  BY <1>4 DEF Size
  <2>. HIDE DEF Below
  <2>. QED  BY <2>1, <2>2, <2>3, FS_Subset
<1>. QED  BY <1>5

(* A chain that is not empty has an oldest version and a newest one.       *)
LEMMA Ends ==
  ASSUME NEW S, Chain(S), S # {}
  PROVE  /\ \E v \in S : \A u \in S \ {v} : Older(v, u)
         /\ \E v \in S : \A u \in S \ {v} : Older(u, v)
<1>. DEFINE Up   == {p \in S \X S : Older(p[1], p[2])}
            Down == {p \in S \X S : Older(p[2], p[1])}
<1>1. \A u, v, w \in S : Older(u, v) /\ Older(v, w) => Older(u, w)
  BY OlderTransitive DEF Chain
<1>2. \A v \in S : ~Older(v, v)  BY OlderIrreflexive DEF Chain
<1>3. /\ \A u, v \in S : <<u, v>> \in Up <=> Older(u, v)
      /\ \A u, v \in S : <<u, v>> \in Down <=> Older(v, u)
  OBVIOUS
<1>. HIDE DEF Up, Down
<1>4. IsFiniteSet(S)  BY DEF Chain
<1>5. \E v \in S : \A u \in S : <<u, v>> \notin Up  BY <1>1, <1>2, <1>3, <1>4, Minimal
<1>6. \E v \in S : \A u \in S : <<u, v>> \notin Down  BY <1>1, <1>2, <1>3, <1>4, Minimal
<1>7. \A u, v \in S : u # v => Older(u, v) \/ Older(v, u)  BY DEF Chain
<1>. QED  BY <1>3, <1>5, <1>6, <1>7

(* Part of a chain is a chain.                                             *)
LEMMA Subchain ==
  ASSUME NEW S, Chain(S), NEW T, T \in SUBSET S
  PROVE  Chain(T) /\ Cardinality(T) \in Nat /\ Cardinality(T) <= Cardinality(S)
         /\ (T # S => Cardinality(T) < Cardinality(S))
<1>1. IsFiniteSet(S)  BY DEF Chain
<1>2. /\ IsFiniteSet(T) /\ Cardinality(T) \in Nat /\ Cardinality(S) \in Nat
      /\ Cardinality(T) <= Cardinality(S)
      /\ Cardinality(S) = Cardinality(T) => S = T
  BY <1>1, FS_Subset, FS_CardinalityType
<1>. QED  BY <1>2 DEF Chain

(* The oldest of a chain is the one that Oldest chooses.                   *)
LEMMA OldestIsOldest ==
  ASSUME NEW S, Chain(S), S # {}
  PROVE  Oldest(S) \in S /\ \A u \in S \ {Oldest(S)} : Older(Oldest(S), u)
<1>1. PICK v \in S : \A u \in S \ {v} : Older(v, u)  BY Ends
<1>2. \A u \in S : u \in Version  BY DEF Chain
<1>3. \A u \in S : ~Older(u, v)
  <2>. SUFFICES ASSUME NEW u \in S, Older(u, v) PROVE FALSE  OBVIOUS
  <2>1. u # v  BY <1>2, OlderIrreflexive
  <2>2. Older(v, v)  BY <1>1, <1>2, <2>1, OlderTransitive
  <2>. QED  BY <1>2, <2>2, OlderIrreflexive
<1>4. Oldest(S) \in S /\ \A u \in S : ~Older(u, Oldest(S))  BY <1>3 DEF Oldest
<1>. QED  BY <1>4 DEF Chain

(* The first n of a chain are all of it, or n; and the rest is older.      *)
LEMMA FirstOfChain ==
  ASSUME NEW S, Chain(S), NEW n \in Nat, NEW T, T = FirstOf(n, S)
  PROVE  /\ T \in SUBSET S /\ Cardinality(T) \in Nat
         /\ T = S \/ Cardinality(T) >= n
         /\ Cardinality(T) <= n
         /\ \A u \in S \ T, v \in T : Older(u, v)
<1>. DEFINE Above(v) == {u \in S : Older(v, u)}
<1>1. /\ T = {v \in S : Cardinality(Above(v)) < n} /\ T \in SUBSET S
      /\ Cardinality(T) \in Nat /\ Chain(T)
  BY Subchain DEF FirstOf
<1>2. \A v \in S : /\ Above(v) \in SUBSET S /\ v \notin Above(v)
                   /\ IsFiniteSet(Above(v)) /\ Cardinality(Above(v)) \in Nat
  <2>1. \A v \in S : Above(v) \in SUBSET S /\ v \notin Above(v)
    BY OlderIrreflexive DEF Chain
  <2>2. \A v \in S : Chain(Above(v)) /\ Cardinality(Above(v)) \in Nat
    BY <2>1, Subchain
  <2>. QED  BY <2>1, <2>2 DEF Chain
<1>3. ASSUME NEW u \in S \ T, NEW v \in T PROVE Older(u, v)
  <2>. SUFFICES ASSUME Older(v, u) PROVE FALSE  BY <1>1 DEF Chain
  <2>1. Above(u) \in SUBSET Above(v)  BY <1>1, OlderTransitive DEF Chain
  <2>2. Cardinality(Above(u)) <= Cardinality(Above(v))
    <3>1. IsFiniteSet(Above(v)) /\ Cardinality(Above(u)) \in Nat  BY <1>1, <1>2
    <3>. HIDE DEF Above
    <3>. QED  BY <2>1, <3>1, FS_Subset
  <2>3. Cardinality(Above(v)) < n /\ ~(Cardinality(Above(u)) < n)  BY <1>1
  <2>4. Cardinality(Above(u)) \in Nat /\ Cardinality(Above(v)) \in Nat  BY <1>1, <1>2
  <2>. QED  BY <2>2, <2>3, <2>4
<1>4. ASSUME T # S PROVE Cardinality(T) >= n
  <2>1. Chain(S \ T) /\ S \ T # {}  BY <1>1, <1>4, Subchain
  <2>2. PICK v \in S \ T : \A u \in (S \ T) \ {v} : Older(u, v)  BY <2>1, Ends
  <2>3. Above(v) \in SUBSET T
    <3>. SUFFICES ASSUME NEW u \in S \ T, Older(v, u) PROVE FALSE  OBVIOUS
    <3>1. u \in Version /\ v \in Version  BY DEF Chain
    <3>2. u # v  BY <3>1, OlderIrreflexive
    <3>3. Older(v, v)  BY <2>2, <3>1, <3>2, OlderTransitive
    <3>. QED  BY <3>1, <3>3, OlderIrreflexive
  <2>4. Cardinality(Above(v)) <= Cardinality(T)
    <3>. HIDE DEF Above
    <3>. QED  BY <1>1, <2>3, Subchain
  <2>5. ~(Cardinality(Above(v)) < n) /\ Cardinality(Above(v)) \in Nat  BY <1>1, <1>2
  <2>. QED  BY <1>1, <2>4, <2>5
<1>5. Cardinality(T) <= n
  <2>1. CASE T = {}  BY <2>1, FS_EmptySet
  <2>2. CASE T # {}
    <3>1. PICK v \in T : \A u \in T \ {v} : Older(v, u)  BY <1>1, <2>2, Ends
    <3>2. T \ {v} \in SUBSET Above(v)  BY <1>1, <3>1
    <3>3. IsFiniteSet(T)  BY <1>1 DEF Chain
    <3>4. Cardinality(T \ {v}) = Cardinality(T) - 1  BY <3>3, FS_RemoveElement
    <3>5. /\ IsFiniteSet(Above(v)) /\ Cardinality(Above(v)) \in Nat
          /\ Cardinality(Above(v)) < n
      BY <1>1, <1>2
    <3>6. Cardinality(T \ {v}) <= Cardinality(Above(v))
      <4>. HIDE DEF Above
      <4>. QED  BY <3>2, <3>5, FS_Subset
    <3>. QED  BY <1>1, <3>4, <3>5, <3>6
  <2>. QED  BY <2>1, <2>2
<1>. QED  BY <1>1, <1>3, <1>4, <1>5

(* One request: the page is the newest part of what the query lets         *)
(* through; what is left is older than the version the cursor names, and   *)
(* without a cursor nothing is left.                                       *)
LEMMA PageOfChain ==
  ASSUME NEW S, Chain(S), NEW rows, rows = FirstOf(Limit + 1, S),
         NEW chosen, chosen = FirstOf(Limit, rows)
  PROVE  /\ chosen \in SUBSET S /\ Cardinality(chosen) <= Limit
         /\ Cardinality(rows) > Limit =>
              /\ Oldest(chosen) \in chosen
              /\ \A u \in chosen \ {Oldest(chosen)} : Older(Oldest(chosen), u)
              /\ \A u \in S \ chosen : Older(u, Oldest(chosen))
         /\ ~(Cardinality(rows) > Limit) => chosen = S
<1>1. Limit \in Nat /\ Limit > 0 /\ Limit + 1 \in Nat  BY HistoryAssumption
<1>2. /\ rows \in SUBSET S /\ Cardinality(rows) \in Nat
      /\ rows = S \/ Cardinality(rows) >= Limit + 1
      /\ \A u \in S \ rows, v \in rows : Older(u, v)
  BY <1>1, FirstOfChain
<1>3. Chain(rows)  BY <1>2, Subchain
<1>4. /\ chosen \in SUBSET rows /\ Cardinality(chosen) \in Nat
      /\ chosen = rows \/ Cardinality(chosen) >= Limit
      /\ Cardinality(chosen) <= Limit
      /\ \A u \in rows \ chosen, v \in chosen : Older(u, v)
  BY <1>1, <1>3, FirstOfChain
<1>5. Chain(chosen)  BY <1>3, <1>4, Subchain
<1>6. ASSUME Cardinality(rows) > Limit
      PROVE  /\ Oldest(chosen) \in chosen
             /\ \A u \in chosen \ {Oldest(chosen)} : Older(Oldest(chosen), u)
             /\ \A u \in S \ chosen : Older(u, Oldest(chosen))
  <2>1. Cardinality(chosen) >= Limit  BY <1>1, <1>2, <1>4, <1>6
  <2>2. chosen # {}  BY <1>1, <2>1, FS_EmptySet
  <2>3. Oldest(chosen) \in chosen /\ \A u \in chosen \ {Oldest(chosen)} : Older(Oldest(chosen), u)
    BY <1>5, <2>2, OldestIsOldest
  <2>. QED  BY <1>2, <1>4, <2>3
<1>7. ASSUME ~(Cardinality(rows) > Limit) PROVE chosen = S
  <2>1. rows = S  BY <1>1, <1>2, <1>7
  <2>2. chosen = rows
    <3>. SUFFICES ASSUME chosen # rows PROVE FALSE  OBVIOUS
    <3>1. Cardinality(chosen) < Cardinality(rows)  BY <1>3, <1>4, Subchain
    <3>. QED  BY <1>1, <1>2, <1>4, <1>7, <3>1
  <2>. QED  BY <2>1, <2>2
<1>. QED  BY <1>2, <1>4, <1>6, <1>7

-----------------------------------------------------------------------------
(* Paging *)

WriterType ==
  /\ doubtful \in [Writer -> Version \cup {None}]
  /\ claim \in [Writer -> BOOLEAN]
  /\ answer \in [Writer -> Answer]

ReaderType ==
  /\ cve \in [Reader -> Cve \cup {None}]
  /\ base \in [Reader -> SUBSET Version] /\ seen \in [Reader -> SUBSET Version]
  /\ page \in [Reader -> SUBSET Version]
  /\ cursor \in [Reader -> Version \cup {None}]
  /\ more \in [Reader -> BOOLEAN]

(* What the reader was given or is owed belongs to the history it reads,   *)
(* pages are in order and of legal size, and what it is still owed is      *)
(* older than the cursor, the oldest version it was given.                 *)
Given(r) == seen[r] \cup page[r]

Reading(r) ==
  /\ Given(r) \cup base[r] \subseteq History(cve[r])
  /\ Cardinality(page[r]) <= Limit
  /\ \A u \in page[r], v \in seen[r] : Older(u, v)
  /\ more[r] =>
       /\ cve[r] \in Cve /\ cursor[r] \in page[r] /\ cursor[r] # None
       /\ \A u \in Given(r) \ {cursor[r]} : Older(cursor[r], u)
       /\ \A u \in base[r] \ Given(r) : Older(u, cursor[r])
  /\ ~more[r] => cursor[r] = None /\ base[r] \subseteq Given(r)

PagingInv ==
  /\ Inv /\ WriterType /\ ReaderType
  /\ IsFiniteSet(stored)
  /\ \A r \in Reader : Reading(r)

(* The history of a CVE is totally ordered, since its revisions differ.    *)
LEMMA HistoryIsChain ==
  ASSUME Inv, IsFiniteSet(stored), NEW c, NEW S, S \in SUBSET History(c)
  PROVE  Chain(S)
<1>1. S \in SUBSET stored /\ \A v \in S : v.cve = c  BY DEF History
<1>2. IsFiniteSet(S) /\ S \in SUBSET Version  BY <1>1, FS_Subset DEF Inv
<1>3. ASSUME NEW u \in S, NEW v \in S, u # v PROVE Older(u, v) \/ Older(v, u)
  <2>1. u.rev # v.rev  BY <1>1, <1>3 DEF Inv, OneDocumentEach
  <2>2. /\ u.mod \in Nat /\ v.mod \in Nat /\ u.rev \in Nat /\ v.rev \in Nat
    BY <1>2 DEF Version
  <2>. QED  BY <2>1, <2>2 DEF Older
<1>. QED  BY <1>2, <1>3 DEF Chain

(* What a request changes for the reader that makes it.                    *)
LEMMA FetchEffect ==
  ASSUME PagingInv, NEW r \in Reader, NEW c \in Cve, NEW from \in Version \cup {None},
         Fetch(r, c, from)
  PROVE  LET S == AfterCursor(c, from) IN
         /\ S \in SUBSET History(c)
         /\ page' = [page EXCEPT ![r] = page'[r]] /\ page'[r] \in SUBSET S
         /\ cursor' = [cursor EXCEPT ![r] = cursor'[r]]
         /\ more' = [more EXCEPT ![r] = more'[r]] /\ more'[r] \in BOOLEAN
         /\ Cardinality(page'[r]) <= Limit
         /\ more'[r] =>
              /\ cursor'[r] \in page'[r]
              /\ \A u \in page'[r] \ {cursor'[r]} : Older(cursor'[r], u)
              /\ \A u \in S \ page'[r] : Older(u, cursor'[r])
         /\ ~more'[r] => cursor'[r] = None /\ page'[r] = S
<1>. DEFINE S      == AfterCursor(c, from)
            rows   == FirstOf(Limit + 1, S)
            chosen == FirstOf(Limit, rows)
            any    == Cardinality(rows) > Limit
<1>1. S \in SUBSET History(c)  BY DEF AfterCursor
<1>2. Chain(S)  BY <1>1, HistoryIsChain DEF PagingInv
<1>3. /\ page' = [page EXCEPT ![r] = chosen]
      /\ more' = [more EXCEPT ![r] = any]
      /\ cursor' = [cursor EXCEPT ![r] = IF any THEN Oldest(chosen) ELSE None]
  BY DEF Fetch
<1>4. any \in BOOLEAN  OBVIOUS
<1>5. /\ chosen \in SUBSET S /\ Cardinality(chosen) <= Limit
      /\ any =>
           /\ Oldest(chosen) \in chosen
           /\ \A u \in chosen \ {Oldest(chosen)} : Older(Oldest(chosen), u)
           /\ \A u \in S \ chosen : Older(u, Oldest(chosen))
      /\ ~any => chosen = S
  BY <1>2, PageOfChain
<1>. HIDE DEF S, rows, chosen, any
<1>6. /\ page'[r] = chosen /\ more'[r] = any
      /\ cursor'[r] = IF any THEN Oldest(chosen) ELSE None
  BY <1>3, <1>4 DEF PagingInv, ReaderType
<1>7. /\ page' = [page EXCEPT ![r] = page'[r]]
      /\ cursor' = [cursor EXCEPT ![r] = cursor'[r]]
      /\ more' = [more EXCEPT ![r] = more'[r]]
  BY <1>3, <1>6
<1>8. /\ S \in SUBSET History(c)
      /\ page' = [page EXCEPT ![r] = page'[r]] /\ page'[r] \in SUBSET S
      /\ cursor' = [cursor EXCEPT ![r] = cursor'[r]]
      /\ more' = [more EXCEPT ![r] = more'[r]] /\ more'[r] \in BOOLEAN
      /\ Cardinality(page'[r]) <= Limit
      /\ more'[r] =>
           /\ cursor'[r] \in page'[r]
           /\ \A u \in page'[r] \ {cursor'[r]} : Older(cursor'[r], u)
           /\ \A u \in S \ page'[r] : Older(u, cursor'[r])
      /\ ~more'[r] => cursor'[r] = None /\ page'[r] = S
  BY <1>1, <1>4, <1>5, <1>6, <1>7
<1>. QED  BY <1>8 DEF S

(* Readers keep what they know while versions are added.                   *)
LEMMA WriteStep ==
  ASSUME PagingInv, Inv', UNCHANGED readers, stored \subseteq stored',
         IsFiniteSet(stored'), WriterType'
  PROVE  PagingInv'
<1>1. UNCHANGED <<cve, base, seen, page, cursor, more>>  BY DEF readers
<1>2. ReaderType'  BY <1>1 DEF PagingInv, ReaderType
<1>3. \A r \in Reader : Reading(r)'
  BY <1>1 DEF PagingInv, Reading, Given, History
<1>. QED  BY <1>2, <1>3 DEF PagingInv

(* And the other readers while one reads.                                  *)
LEMMA OtherReaders ==
  ASSUME PagingInv, UNCHANGED catalog, NEW r \in Reader,
         \A q \in Reader \ {r} :
           /\ cve'[q] = cve[q] /\ base'[q] = base[q] /\ seen'[q] = seen[q]
           /\ page'[q] = page[q] /\ cursor'[q] = cursor[q] /\ more'[q] = more[q],
         UNCHANGED writers, ReaderType', Reading(r)'
  PROVE  PagingInv'
<1>1. \A q \in Reader \ {r} : Reading(q)'
  BY DEF PagingInv, Reading, Given, History, catalog
<1>2. WriterType'  BY DEF PagingInv, WriterType, writers
<1>3. Inv'  BY ElseStep DEF PagingInv
<1>. QED  BY <1>1, <1>2, <1>3 DEF PagingInv, catalog

(* A first page starts a history.                                          *)
LEMMA FirstPageStep ==
  ASSUME PagingInv, NEW r \in Reader, NEW c \in Cve, FirstPage(r, c)
  PROVE  PagingInv'
<1>. DEFINE S == AfterCursor(c, None)
<1>1. Fetch(r, c, None)  BY DEF FirstPage
<1>2. /\ S \in SUBSET History(c)
      /\ page' = [page EXCEPT ![r] = page'[r]] /\ page'[r] \in SUBSET S
      /\ cursor' = [cursor EXCEPT ![r] = cursor'[r]]
      /\ more' = [more EXCEPT ![r] = more'[r]] /\ more'[r] \in BOOLEAN
      /\ Cardinality(page'[r]) <= Limit
      /\ more'[r] =>
           /\ cursor'[r] \in page'[r]
           /\ \A u \in page'[r] \ {cursor'[r]} : Older(cursor'[r], u)
           /\ \A u \in S \ page'[r] : Older(u, cursor'[r])
      /\ ~more'[r] => cursor'[r] = None /\ page'[r] = S
  BY <1>1, FetchEffect
<1>3. S = History(c)  BY DEF AfterCursor
<1>4. History(c) \in SUBSET Version  BY DEF History, PagingInv, Inv
<1>. HIDE DEF S
<1>5. /\ UNCHANGED <<catalog, writers>>
      /\ cve' = [cve EXCEPT ![r] = c] /\ base' = [base EXCEPT ![r] = History(c)]
      /\ seen' = [seen EXCEPT ![r] = {}]
  BY DEF FirstPage
<1>6. /\ cve'[r] = c /\ base'[r] = History(c) /\ seen'[r] = {}
  BY <1>5 DEF PagingInv, ReaderType
<1>7. cursor'[r] \in Version \cup {None}  BY <1>2, <1>4
<1>8. ReaderType'
  BY <1>2, <1>4, <1>5, <1>7 DEF PagingInv, ReaderType
<1>9. History(c)' = History(c)  BY <1>5 DEF History, catalog
<1>10. Reading(r)'
  <2>1. (seen'[r] \cup page'[r]) = page'[r]  BY <1>6
  <2>2. {v \in stored' : v.cve = c} = History(c)  BY <1>5 DEF History, catalog
  <2>3. more'[r] => cursor'[r] # None  BY <1>2, <1>4, HistoryAssumption
  <2>. QED  BY <1>2, <1>3, <1>6, <2>1, <2>2, <2>3 DEF Reading, Given, History
<1>11. \A q \in Reader \ {r} :
         /\ cve'[q] = cve[q] /\ base'[q] = base[q] /\ seen'[q] = seen[q]
         /\ page'[q] = page[q] /\ cursor'[q] = cursor[q] /\ more'[q] = more[q]
  <2>1. \A q \in Reader \ {r} : cve'[q] = cve[q] /\ base'[q] = base[q] /\ seen'[q] = seen[q]
    BY <1>5 DEF PagingInv, ReaderType
  <2>2. \A q \in Reader \ {r} : page'[q] = page[q] /\ cursor'[q] = cursor[q] /\ more'[q] = more[q]
    BY <1>2 DEF PagingInv, ReaderType
  <2>. QED  BY <2>1, <2>2
<1>. QED  BY <1>5, <1>8, <1>10, <1>11, OtherReaders

(* A next page continues it where the cursor points.                       *)
LEMMA NextPageStep ==
  ASSUME PagingInv, NEW r \in Reader, NextPage(r)
  PROVE  PagingInv'
<1>. DEFINE c == cve[r]
            S == AfterCursor(cve[r], cursor[r])
<1>0. /\ more[r] /\ Reading(r) /\ c \in Cve
      /\ cursor[r] \in page[r] /\ cursor[r] # None /\ cursor[r] \in Version
  BY DEF NextPage, PagingInv, Reading, ReaderType
<1>1. Fetch(r, cve[r], cursor[r])  BY DEF NextPage
<1>2. /\ S \in SUBSET History(c)
      /\ page' = [page EXCEPT ![r] = page'[r]] /\ page'[r] \in SUBSET S
      /\ cursor' = [cursor EXCEPT ![r] = cursor'[r]]
      /\ more' = [more EXCEPT ![r] = more'[r]] /\ more'[r] \in BOOLEAN
      /\ Cardinality(page'[r]) <= Limit
      /\ more'[r] =>
           /\ cursor'[r] \in page'[r]
           /\ \A u \in page'[r] \ {cursor'[r]} : Older(cursor'[r], u)
           /\ \A u \in S \ page'[r] : Older(u, cursor'[r])
      /\ ~more'[r] => cursor'[r] = None /\ page'[r] = S
  BY <1>0, <1>1, FetchEffect
<1>3. S = {v \in History(c) : Older(v, cursor[r])}  BY <1>0 DEF AfterCursor
<1>4. History(c) \in SUBSET Version  BY DEF History, PagingInv, Inv
<1>. HIDE DEF S
<1>5. UNCHANGED <<catalog, writers, cve, base>> /\ seen' = [seen EXCEPT ![r] = Given(r)]
  BY DEF NextPage, Given
<1>6. cve'[r] = c /\ base'[r] = base[r] /\ seen'[r] = Given(r)
  BY <1>5 DEF PagingInv, ReaderType
<1>7. cursor'[r] \in Version \cup {None} /\ Given(r) \in SUBSET Version
  BY <1>2, <1>4 DEF PagingInv, ReaderType, Given
<1>8. ReaderType'
  BY <1>2, <1>4, <1>5, <1>7 DEF PagingInv, ReaderType
<1>9. Reading(r)'
  <2>. DEFINE G == Given(r)
  <2>1. /\ G \cup base[r] \subseteq History(c)
        /\ \A u \in G \ {cursor[r]} : Older(cursor[r], u)
        /\ \A u \in base[r] \ G : Older(u, cursor[r])
    BY <1>0 DEF Reading
  <2>2. \A u \in S, v \in G : Older(u, v)
    BY <1>0, <1>3, <1>4, <2>1, OlderTransitive
  <2>3. \A u \in base[r] \ G : u \in S  BY <1>3, <2>1
  <2>4. more'[r] =>
          /\ c \in Cve /\ cursor'[r] \in page'[r] /\ cursor'[r] # None
          /\ \A u \in (G \cup page'[r]) \ {cursor'[r]} : Older(cursor'[r], u)
          /\ \A u \in base[r] \ (G \cup page'[r]) : Older(u, cursor'[r])
    BY <1>0, <1>2, <1>4, <2>2, <2>3, HistoryAssumption
  <2>5. ~more'[r] => cursor'[r] = None /\ base[r] \subseteq G \cup page'[r]
    BY <1>2, <2>3
  <2>6. {v \in stored' : v.cve = c} = History(c)  BY <1>5 DEF History, catalog
  <2>7. G \cup page'[r] \cup base[r] \subseteq History(c)  BY <1>2, <2>1
  <2>8. \A u \in page'[r], v \in G : Older(u, v)  BY <1>2, <2>2
  <2>. HIDE DEF G
  <2>9. seen'[r] = G  BY <1>6 DEF G
  <2>. HIDE DEF c
  <2>. QED
    BY <1>2, <1>6, <2>4, <2>5, <2>6, <2>7, <2>8, <2>9 DEF Reading, Given, History
<1>10. \A q \in Reader \ {r} :
         /\ cve'[q] = cve[q] /\ base'[q] = base[q] /\ seen'[q] = seen[q]
         /\ page'[q] = page[q] /\ cursor'[q] = cursor[q] /\ more'[q] = more[q]
  <2>1. \A q \in Reader \ {r} : cve'[q] = cve[q] /\ base'[q] = base[q] /\ seen'[q] = seen[q]
    BY <1>5 DEF PagingInv, ReaderType
  <2>2. \A q \in Reader \ {r} : page'[q] = page[q] /\ cursor'[q] = cursor[q] /\ more'[q] = more[q]
    BY <1>2 DEF PagingInv, ReaderType
  <2>. QED  BY <2>1, <2>2
<1>. QED  BY <1>5, <1>8, <1>9, <1>10, OtherReaders

(* Every step preserves what readers know.                                 *)
LEMMA PagingStep == PagingInv /\ [Next]_vars => PagingInv'
<1>. SUFFICES ASSUME PagingInv, [Next]_vars PROVE PagingInv'  OBVIOUS
<1>0. Inv'  BY InvStep DEF PagingInv
<1>1. ASSUME NEW v \in Version, Store(v)
      PROVE  stored \subseteq stored' /\ IsFiniteSet(stored')
  BY <1>1, FS_AddElement DEF Store, catalog, PagingInv
<1>2. ASSUME NEW w \in Writer, NEW v \in Input, Ingest(w, v) PROVE PagingInv'
  <2>1. stored \subseteq stored' /\ IsFiniteSet(stored')
    BY <1>1, <1>2, HistoryAssumption DEF Ingest
  <2>2. WriterType'
    BY <1>2 DEF Ingest, PagingInv, WriterType, Answer, Told
  <2>. QED  BY <1>0, <1>2, <2>1, <2>2, WriteStep DEF Ingest
<1>3. ASSUME NEW w \in Writer, NEW v \in Input, Reject(w, v) PROVE PagingInv'
  <2>1. stored \subseteq stored' /\ IsFiniteSet(stored')
    BY <1>3 DEF Reject, catalog, PagingInv
  <2>2. WriterType'
    BY <1>3 DEF Reject, PagingInv, WriterType, Answer
  <2>. QED  BY <1>0, <1>3, <2>1, <2>2, WriteStep DEF Reject
<1>4. ASSUME NEW w \in Writer, NEW v \in Input, LoseCommit(w, v) PROVE PagingInv'
  <2>1. stored \subseteq stored' /\ IsFiniteSet(stored')
    BY <1>1, <1>4, HistoryAssumption DEF LoseCommit, catalog, PagingInv
  <2>2. IsCurrentAfter(v) \in BOOLEAN
    BY DEF IsCurrentAfter, Newest, Older
  <2>3. WriterType'
    BY <1>4, <2>2, HistoryAssumption DEF LoseCommit, PagingInv, WriterType, Answer
  <2>. QED  BY <1>0, <1>4, <2>1, <2>3, WriteStep DEF LoseCommit
<1>5. ASSUME NEW w \in Writer, Probe(w) PROVE PagingInv'
  <2>1. stored \subseteq stored' /\ IsFiniteSet(stored')
    BY <1>5 DEF Probe, catalog, PagingInv
  <2>2. WriterType'
    BY <1>5 DEF Probe, PagingInv, WriterType, Answer, Told
  <2>. QED  BY <1>0, <1>5, <2>1, <2>2, WriteStep DEF Probe
<1>6. ASSUME NEW r \in Reader, NEW c \in Cve, FirstPage(r, c) PROVE PagingInv'
  BY <1>6, FirstPageStep
<1>7. ASSUME NEW r \in Reader, NextPage(r) PROVE PagingInv'
  BY <1>7, NextPageStep
<1>8. CASE UNCHANGED vars
  BY <1>0, <1>8, WriteStep DEF vars, readers, PagingInv, WriterType
<1>. QED  BY <1>2, <1>3, <1>4, <1>5, <1>6, <1>7, <1>8 DEF Next

(* At first nobody has read anything.                                      *)
LEMMA PagingInit == Init => PagingInv
<1>. SUFFICES ASSUME Init PROVE PagingInv  OBVIOUS
<1>1. WriterType /\ ReaderType
  BY DEF Init, WriterType, ReaderType, Answer
<1>2. Limit \in Nat /\ Cardinality({}) = 0 /\ IsFiniteSet({})
  BY HistoryAssumption, FS_EmptySet
<1>3. \A r \in Reader : Reading(r)  BY <1>2 DEF Init, Reading, Given
<1>. QED  BY InitInv, <1>1, <1>2, <1>3 DEF Init, PagingInv

(* The paging invariant holds throughout.                                  *)
LEMMA PagingInvariance == Spec => []PagingInv
  BY PagingInit, PagingStep, PTL DEF Spec

(* The variables have their types, no page of cve_history is longer than   *)
(* the limit, and a cursor comes with a page exactly if more follow.       *)
THEOREM TypeCorrect == Spec => []TypeOK
<1>1. PagingInv => TypeOK
  BY DEF PagingInv, Inv, WriterType, ReaderType, TypeOK, Reading
<1>. QED  BY <1>1, PagingInvariance, PTL

(* Whoever follows the cursors of cve_history to the last page was given   *)
(* every version that was there at the first request, newest first and     *)
(* each once, for any limit and whatever was ingested between the pages.   *)
THEOREM HistoriesAreComplete == Spec => []EachVersionOnce
<1>1. PagingInv => EachVersionOnce
  BY DEF PagingInv, Reading, Given, EachVersionOnce
<1>. QED  BY <1>1, PagingInvariance, PTL

=============================================================================
