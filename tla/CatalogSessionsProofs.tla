----------------------- MODULE CatalogSessionsProofs -----------------------
(***************************************************************************)
(* Opening, feed items and assets, for any number of processes, builds,    *)
(* migrations, sources and documents.                                      *)
(***************************************************************************)
EXTENDS CatalogSessions, SequenceTheorems, FiniteSetTheorems, WellFoundedInduction, TLAPS

AllTables == UNION {Tables[m] : m \in Migration}
Work      == [ledger : Seq(Migration \cup {None}), made : SUBSET AllTables]
Batch     == [source : Source \cup {None}, left : Seq(Key), rows : Seq(Source \X Key)]

OpeningType ==
  /\ OpeningTypeOK
  /\ build \in [Proc -> Build \cup {<<>>}]
  /\ work \in [Proc -> Work]

(* Whoever migrates or stores a body has the write lock.                   *)
LockInv ==
  \A p \in Proc :
    /\ phase[p] \in {"look", "apply"} => lock = p
    /\ batch[p].source # None => lock = p /\ phase[p] = "open"

(* The tables of the versions that are recorded are there, and those of    *)
(* the versions that are not are not.                                      *)
SchemaInv ==
  /\ \A v \in DOMAIN ledger : ledger[v] # None => Tables[ledger[v]] \subseteq schema
  /\ \A b \in Build : \A v \in DOMAIN b : v > Len(ledger) => Tables[b[v]] \cap schema = {}

(* A transaction that migrates has applied a prefix of its build, and has  *)
(* kept every checksum that was recorded.                                  *)
Applying(p) ==
  LET w == work[p] IN
  /\ Len(ledger) <= Len(w.ledger) /\ Len(w.ledger) <= Len(build[p])
  /\ \A v \in DOMAIN w.ledger :
       w.ledger[v] = build[p][v] /\ Tables[build[p][v]] \subseteq schema \cup w.made
  /\ \A v \in DOMAIN ledger : ledger[v] \in {None, w.ledger[v]}
  /\ \A b \in Build : \A v \in DOMAIN b :
       v > Len(w.ledger) => Tables[b[v]] \cap (schema \cup w.made) = {}

WorkInv == \A p \in Proc : phase[p] = "apply" => Applying(p)

OpeningInv ==
  /\ OpeningType /\ LockInv /\ SchemaInv /\ WorkInv
  /\ OpenedFits /\ NothingCreatedTwice

-----------------------------------------------------------------------------
(* A build's migrations are migrations.                                    *)
LEMMA BuildType ==
  ASSUME NEW b \in Build
  PROVE  /\ b \in Seq(Migration) /\ Len(b) \in Nat /\ DOMAIN b = 1 .. Len(b)
         /\ \A v \in DOMAIN b : b[v] \in Migration /\ b[v] # None
<1>1. b \in Seq(Migration)  BY OpeningAssumption
<1>. QED  BY <1>1, OpeningAssumption

(* A function from 1 .. n is a sequence of length n.                       *)
LEMMA FunctionIsSeq ==
  ASSUME NEW S, NEW n \in Nat, NEW f \in [1 .. n -> S]
  PROVE  f \in Seq(S) /\ Len(f) = n /\ DOMAIN f = 1 .. n
  OBVIOUS

(* A catalog is found with none of its versions half there.                *)
LEMMA InitOpening == Init => OpeningInv
<1>. SUFFICES ASSUME Init PROVE OpeningInv  OBVIOUS
<1>. USE DEF Init, OpeningInit, ItemsInit
<1>1. PICK l \in Legacy : ledger = l.ledger /\ schema = l.schema  OBVIOUS
<1>2. ledger \in Seq(Migration \cup {None})  BY <1>1, OpeningAssumption
<1>3. NoWork \in Work  BY DEF NoWork, Work
<1>4. OpeningType  BY <1>2, <1>3 DEF OpeningType, OpeningTypeOK, Phase
<1>5. LockInv  BY DEF LockInv, NoBatch
<1>6. SchemaInv  BY <1>1, OpeningAssumption DEF SchemaInv
<1>7. WorkInv /\ OpenedFits /\ NothingCreatedTwice
  BY DEF WorkInv, OpenedFits, NothingCreatedTwice, Migrated
<1>. QED  BY <1>4, <1>5, <1>6, <1>7 DEF OpeningInv

(* What keeps the catalog and only moves one process, not into "apply" and *)
(* not past migrate, keeps what is known of the others.                    *)
LEMMA OthersStay ==
  ASSUME OpeningInv, UNCHANGED <<ledger, schema>>, NEW p \in Proc,
         \A q \in Proc \ {p} :
           phase'[q] = phase[q] /\ build'[q] = build[q] /\ work'[q] = work[q],
         phase'[p] \notin {"apply", "migrated", "open", "broken"}
  PROVE  SchemaInv' /\ WorkInv' /\ OpenedFits' /\ NothingCreatedTwice'
<1>1. SchemaInv'  BY DEF OpeningInv, SchemaInv
<1>2. WorkInv'  BY DEF OpeningInv, WorkInv, Applying
<1>3. OpenedFits'  BY DEF OpeningInv, OpenedFits, Migrated
<1>4. NothingCreatedTwice'  BY DEF OpeningInv, NothingCreatedTwice
<1>. QED  BY <1>1, <1>2, <1>3, <1>4

(* Taking the lock for a build changes nothing the invariant speaks of.    *)
LEMMA BeginInv ==
  ASSUME OpeningInv, NEW p \in Proc, Begin(p), UNCHANGED batch
  PROVE  OpeningInv'
<1>. USE DEF Begin, Goto
<1>1. OpeningType'
  BY DEF OpeningInv, OpeningType, OpeningTypeOK, Phase
<1>2. LockInv'
  BY OpeningAssumption DEF OpeningInv, OpeningType, OpeningTypeOK, LockInv
<1>3. SchemaInv' /\ WorkInv' /\ OpenedFits' /\ NothingCreatedTwice'
  BY OthersStay DEF OpeningInv, OpeningType, OpeningTypeOK
<1>. QED  BY <1>1, <1>2, <1>3 DEF OpeningInv

(* The ledger that was read becomes the beginning of the build.            *)
LEMMA LookInv ==
  ASSUME OpeningInv, NEW p \in Proc, Look(p), UNCHANGED batch
  PROVE  OpeningInv'
<1>. USE DEF Look, Goto
<1>. DEFINE b == build[p]  w == Backfilled(b)
<1>1. b \in Build /\ ledger \in Seq(Migration \cup {None}) /\ Len(ledger) \in Nat
  BY DEF OpeningInv, OpeningType, OpeningTypeOK
<1>2. DOMAIN ledger = 1 .. Len(ledger) /\ \A v \in DOMAIN ledger : v \in DOMAIN b
  BY <1>1 DEF Verified
<1>3. Len(ledger) <= Len(b)
  BY <1>1, <1>2, BuildType
<1>4. \A v \in DOMAIN ledger : w[v] = b[v] /\ ledger[v] \in {None, w[v]}
  BY <1>1 DEF Verified, Backfilled
<1>5. w \in Seq(Migration \cup {None}) /\ Len(w) = Len(ledger) /\ DOMAIN w = DOMAIN ledger
  <2>1. w \in [1 .. Len(ledger) -> Migration \cup {None}]
    BY <1>1, <1>2, <1>4, BuildType DEF Backfilled
  <2>. HIDE DEF w
  <2>. QED  BY <2>1, <1>1, <1>2, FunctionIsSeq
<1>6. \A v \in DOMAIN ledger : Tables[b[v]] \subseteq schema
  BY <1>1, <1>2, BuildType DEF Verified, OpeningInv, SchemaInv
<1>7. [ledger |-> w, made |-> {}] \in Work  BY <1>5 DEF Work
<1>8. /\ phase' = [phase EXCEPT ![p] = "apply"]
      /\ work' = [work EXCEPT ![p] = [ledger |-> w, made |-> {}]]
      /\ UNCHANGED <<lock, ledger, schema, build>>
  OBVIOUS
<1>9. OpeningType'
  BY <1>1, <1>7, <1>8 DEF OpeningInv, OpeningType, OpeningTypeOK, Phase
<1>10. LockInv'
  BY <1>8 DEF OpeningInv, OpeningType, OpeningTypeOK, LockInv
<1>11. WorkInv'
  <2>1. work'[p] = [ledger |-> w, made |-> {}] /\ build'[p] = b
    BY <1>8 DEF OpeningInv, OpeningType, OpeningTypeOK
  <2>2. Applying(p)'
    BY <2>1, <1>2, <1>3, <1>4, <1>5, <1>6, <1>8 DEF Applying, OpeningInv, SchemaInv
  <2>3. \A q \in Proc \ {p} : phase'[q] # "apply"
    BY <1>8 DEF OpeningInv, OpeningType, OpeningTypeOK, LockInv
  <2>. QED  BY <2>2, <2>3 DEF WorkInv
<1>12. SchemaInv' /\ OpenedFits' /\ NothingCreatedTwice'
  BY <1>8 DEF OpeningInv, OpeningType, OpeningTypeOK, SchemaInv, OpenedFits, Migrated, NothingCreatedTwice
<1>. QED  BY <1>9, <1>10, <1>11, <1>12 DEF OpeningInv

(* The next version is none of those whose tables are there.               *)
LEMMA ApplyInv ==
  ASSUME OpeningInv, NEW p \in Proc, Apply(p), UNCHANGED batch
  PROVE  OpeningInv'
<1>. DEFINE w == work[p]  b == build[p]  n == Len(w.ledger) + 1
<1>1. /\ phase[p] = "apply" /\ lock = p /\ b \in Build /\ Applying(p)
      /\ w \in Work /\ ledger \in Seq(Migration \cup {None})
  BY DEF Apply, Pending, OpeningInv, OpeningType, OpeningTypeOK, LockInv, WorkInv
<1>2. /\ w.ledger \in Seq(Migration \cup {None}) /\ Len(w.ledger) \in Nat
      /\ w.made \subseteq AllTables
  BY <1>1 DEF Work
<1>3. n \in DOMAIN b /\ n > Len(w.ledger) /\ b[n] \in Migration
  BY <1>1, <1>2, BuildType DEF Apply, Pending
<1>4. CanCreate(p)
  BY <1>1, <1>3 DEF CanCreate, NextMigration, Applying
<1>. DEFINE x == [ledger |-> Append(w.ledger, b[n]), made |-> w.made \cup Tables[b[n]]]
<1>5. /\ lock' = p /\ work' = [work EXCEPT ![p] = x]
      /\ UNCHANGED <<ledger, schema, phase, build>>
  BY <1>1, <1>4 DEF Apply, NextMigration
<1>6. x \in Work
  BY <1>2, <1>3 DEF Work, AllTables
<1>7. /\ Len(x.ledger) = n /\ DOMAIN x.ledger = 1 .. n
      /\ \A v \in DOMAIN w.ledger : x.ledger[v] = w.ledger[v]
      /\ x.ledger[n] = b[n]
  BY <1>2, <1>3, AppendProperties
<1>8. OpeningType' /\ LockInv'
  BY <1>1, <1>5, <1>6 DEF OpeningInv, OpeningType, OpeningTypeOK, LockInv
<1>9. WorkInv'
  <2>1. work'[p] = x  BY <1>5 DEF OpeningInv, OpeningType
  <2>2. DOMAIN w.ledger = 1 .. Len(w.ledger) /\ DOMAIN ledger = 1 .. Len(ledger)
        /\ Len(ledger) \in Nat /\ DOMAIN b = 1 .. Len(b) /\ Len(b) \in Nat
    BY <1>1, <1>2, BuildType
  <2>3. /\ Len(ledger) <= n /\ n <= Len(b)
        /\ \A v \in DOMAIN ledger : ledger[v] \in {None, x.ledger[v]}
    BY <1>1, <1>2, <1>3, <1>7, <2>2 DEF Applying
  <2>4. \A v \in DOMAIN x.ledger :
          x.ledger[v] = b[v] /\ Tables[b[v]] \subseteq schema \cup x.made
    <3>. SUFFICES ASSUME NEW v \in 1 .. n
                  PROVE x.ledger[v] = b[v] /\ Tables[b[v]] \subseteq schema \cup x.made
      BY <1>7
    <3>1. CASE v = n  BY <3>1, <1>7
    <3>2. CASE v # n
      <4>1. v \in DOMAIN w.ledger  BY <3>2, <2>2, <1>2
      <4>. QED  BY <4>1, <1>1, <1>7 DEF Applying
    <3>. QED  BY <3>1, <3>2
  <2>5. ASSUME NEW c \in Build, NEW v \in DOMAIN c, v > n
        PROVE  Tables[c[v]] \cap (schema \cup x.made) = {}
    <3>1. v \in Nat /\ v > Len(w.ledger) /\ v # n  BY <2>5, <1>2, BuildType
    <3>2. Tables[c[v]] \cap (schema \cup w.made) = {}  BY <3>1, <1>1 DEF Applying
    <3>3. Tables[c[v]] \cap Tables[b[n]] = {}  BY <3>1, <1>1, <1>3, OpeningAssumption
    <3>. QED  BY <3>2, <3>3
  <2>6. Applying(p)'
    <3>. HIDE DEF x
    <3>. QED  BY <2>1, <2>3, <2>4, <2>5, <1>5, <1>7 DEF Applying
  <2>7. \A q \in Proc \ {p} : phase'[q] # "apply"
    BY <1>1, <1>5 DEF OpeningInv, LockInv
  <2>. QED  BY <2>6, <2>7 DEF WorkInv
<1>10. SchemaInv' /\ OpenedFits' /\ NothingCreatedTwice'
  BY <1>5 DEF OpeningInv, SchemaInv, OpenedFits, Migrated, NothingCreatedTwice
<1>. QED  BY <1>8, <1>9, <1>10 DEF OpeningInv

(* What is committed keeps every checksum that others have relied on.      *)
LEMMA CommitMigrationsInv ==
  ASSUME OpeningInv, NEW p \in Proc, CommitMigrations(p), UNCHANGED batch
  PROVE  OpeningInv'
<1>. DEFINE w == work[p]  b == build[p]
<1>1. /\ phase[p] = "apply" /\ lock = p /\ b \in Build /\ Applying(p)
      /\ w \in Work /\ ledger \in Seq(Migration \cup {None})
      /\ phase' = [phase EXCEPT ![p] = "migrated"]
      /\ work' = [work EXCEPT ![p] = NoWork]
      /\ ledger' = w.ledger /\ schema' = schema \cup w.made /\ lock' = Free
      /\ build' = build /\ Len(w.ledger) = Len(b)
  BY DEF CommitMigrations, Goto, OpeningInv, OpeningType, OpeningTypeOK, LockInv, WorkInv
<1>2. /\ w.ledger \in Seq(Migration \cup {None}) /\ Len(w.ledger) \in Nat
      /\ DOMAIN w.ledger = 1 .. Len(w.ledger) /\ DOMAIN ledger = 1 .. Len(ledger)
      /\ DOMAIN b = 1 .. Len(b) /\ Len(b) \in Nat /\ Len(ledger) \in Nat
  BY <1>1, BuildType DEF Work
<1>3. NoWork \in Work  BY DEF NoWork, Work
<1>4. OpeningType' /\ NothingCreatedTwice'
  BY <1>1, <1>2, <1>3
  DEF OpeningInv, OpeningType, OpeningTypeOK, NothingCreatedTwice, Phase
<1>5. \A q \in Proc \ {p} : phase[q] \notin {"look", "apply"} /\ phase'[q] = phase[q]
  BY <1>1 DEF OpeningInv, OpeningType, OpeningTypeOK, LockInv
<1>6. phase'[p] = "migrated"
  BY <1>1 DEF OpeningInv, OpeningType, OpeningTypeOK
<1>7. LockInv'
  BY <1>1, <1>5, <1>6 DEF OpeningInv, LockInv
<1>8. WorkInv'  BY <1>5, <1>6 DEF WorkInv
<1>9. SchemaInv'
  <2>1. \A v \in DOMAIN w.ledger : w.ledger[v] # None => Tables[w.ledger[v]] \subseteq schema'
    BY <1>1 DEF Applying
  <2>2. \A c \in Build : \A v \in DOMAIN c :
          v > Len(w.ledger) => Tables[c[v]] \cap schema' = {}
    BY <1>1 DEF Applying
  <2>. QED  BY <2>1, <2>2, <1>1 DEF SchemaInv
<1>10. OpenedFits'
  <2>. SUFFICES ASSUME NEW q \in Proc, Migrated(q)', NEW v \in DOMAIN build[q]
                PROVE  /\ v \in DOMAIN w.ledger /\ w.ledger[v] = build[q][v]
                       /\ Tables[build[q][v]] \subseteq schema \cup w.made
    BY <1>1 DEF OpenedFits
  <2>1. CASE q = p
    BY <2>1, <1>1, <1>2 DEF Applying
  <2>2. CASE q # p
    <3>1. Migrated(q)  BY <2>2, <1>5 DEF Migrated
    <3>2. /\ v \in DOMAIN ledger /\ ledger[v] = build[q][v]
          /\ Tables[build[q][v]] \subseteq schema
      BY <3>1 DEF OpeningInv, OpenedFits
    <3>3. build[q][v] # None
      BY <3>1, BuildType DEF Migrated, OpeningInv, OpeningType, OpeningTypeOK
    <3>4. v \in DOMAIN w.ledger
      BY <3>2, <1>1, <1>2 DEF Applying
    <3>. QED  BY <3>2, <3>3, <3>4, <1>1 DEF Applying
  <2>. QED  BY <2>1, <2>2
<1>. QED  BY <1>4, <1>7, <1>8, <1>9, <1>10 DEF OpeningInv

(* The statements after migrate change nothing of the catalog.             *)
LEMMA FinishInv ==
  ASSUME OpeningInv, NEW p \in Proc, Finish(p), UNCHANGED batch
  PROVE  OpeningInv'
<1>. USE DEF Finish, Goto
<1>1. OpeningType'  BY DEF OpeningInv, OpeningType, OpeningTypeOK, Phase
<1>2. LockInv'  BY DEF OpeningInv, OpeningType, OpeningTypeOK, LockInv
<1>3. SchemaInv'  BY DEF OpeningInv, SchemaInv
<1>4. WorkInv'
  BY DEF OpeningInv, OpeningType, OpeningTypeOK, WorkInv, Applying
<1>5. OpenedFits' /\ NothingCreatedTwice'
  BY DEF OpeningInv, OpeningType, OpeningTypeOK, OpenedFits, Migrated, NothingCreatedTwice
<1>. QED  BY <1>1, <1>2, <1>3, <1>4, <1>5 DEF OpeningInv

(* A process that leaves takes its uncommitted work and its lock with it.  *)
LEMMA LeaveInv ==
  ASSUME OpeningInv, NEW p \in Proc, Leave(p),
         batch' = [batch EXCEPT ![p] = NoBatch], batch \in [Proc -> Batch]
  PROVE  OpeningInv'
<1>. USE DEF Leave, Release
<1>1. NoWork \in Work  BY DEF NoWork, Work
<1>2. OpeningType'
  BY <1>1 DEF OpeningInv, OpeningType, OpeningTypeOK, Phase
<1>3. phase'[p] = "idle" /\ batch'[p].source = None
      /\ \A q \in Proc \ {p} : phase'[q] = phase[q] /\ build'[q] = build[q]
                             /\ work'[q] = work[q] /\ batch'[q] = batch[q]
  BY DEF OpeningInv, OpeningType, OpeningTypeOK, NoBatch
<1>4. LockInv'
  BY <1>3 DEF OpeningInv, LockInv
<1>5. SchemaInv' /\ WorkInv' /\ OpenedFits' /\ NothingCreatedTwice'
  BY <1>3, OthersStay
<1>. QED  BY <1>2, <1>4, <1>5 DEF OpeningInv

(* Storing a body takes and releases the lock; nothing else of the opening *)
(* changes.                                                                *)
LEMMA StoreInv ==
  ASSUME OpeningInv, NEW p \in Proc, Store(p), batch \in [Proc -> Batch]
  PROVE  OpeningInv'
<1>1. UNCHANGED <<ledger, schema, phase, build, work>> /\ lock' \in {Free, p}
  BY DEF Store, BeginStore, Idle, Insert, CommitStore, RollBack, Storing, SetTicker, openingVars
<1>2. OpeningType'
  BY <1>1 DEF OpeningInv, OpeningType, OpeningTypeOK
<1>3. SchemaInv' /\ WorkInv' /\ OpenedFits' /\ NothingCreatedTwice'
  BY <1>1 DEF OpeningInv, SchemaInv, WorkInv, Applying, OpenedFits, Migrated,
              NothingCreatedTwice
<1>4. LockInv'
  <2>1. ASSUME NEW s \in Source, NEW body \in Bodies[s], BeginStore(p, s, body)
        PROVE  LockInv'
    BY <2>1, OpeningAssumption DEF BeginStore, Idle, OpeningInv, LockInv
  <2>2. CASE Insert(p)
    BY <2>2 DEF Insert, Storing, openingVars, OpeningInv, LockInv
  <2>3. CASE CommitStore(p) \/ RollBack(p)
    BY <2>3, OpeningAssumption
    DEF CommitStore, RollBack, Storing, NoBatch, OpeningInv, LockInv
  <2>4. ASSUME NEW s \in Source, NEW on \in BOOLEAN, SetTicker(p, s, on)
        PROVE  LockInv'
    BY <2>4 DEF SetTicker, openingVars, OpeningInv, LockInv
  <2>. QED  BY <2>1, <2>2, <2>3, <2>4 DEF Store
<1>. QED  BY <1>2, <1>3, <1>4 DEF OpeningInv

(* The batch of a transaction has its type.                                *)
LEMMA StoreBatchType ==
  ASSUME batch \in [Proc -> Batch], items \in Seq(Source \X Key),
         NEW p \in Proc, Store(p)
  PROVE  batch' \in [Proc -> Batch]
<1>0. NoBatch \in Batch  BY DEF NoBatch, Batch
<1>1. ASSUME NEW s \in Source, NEW body \in Bodies[s], BeginStore(p, s, body)
      PROVE  batch' \in [Proc -> Batch]
  <2>1. body \in Seq(Key)  BY ItemsAssumption
  <2>. QED  BY <1>1, <2>1 DEF BeginStore, Batch
<1>2. CASE Insert(p)
  <2>. DEFINE c == batch[p]
  <2>1. c \in Batch /\ c.source \in Source /\ c.left \in Seq(Key) /\ c.left # <<>>
        /\ c.rows \in Seq(Source \X Key)
    BY <1>2 DEF Insert, Storing, Batch
  <2>2. Head(c.left) \in Key /\ Tail(c.left) \in Seq(Key)  BY <2>1
  <2>3. Inserted(c.rows, c.source, Head(c.left)) \in Seq(Source \X Key)
    BY <2>1, <2>2 DEF Inserted
  <2>. QED  BY <1>2, <2>1, <2>2, <2>3 DEF Insert, Batch
<1>3. CASE CommitStore(p) \/ RollBack(p)
  BY <1>3, <1>0 DEF CommitStore, RollBack
<1>4. ASSUME NEW s \in Source, NEW on \in BOOLEAN, SetTicker(p, s, on)
      PROVE  batch' \in [Proc -> Batch]
  BY <1>4 DEF SetTicker
<1>. QED  BY <1>1, <1>2, <1>3, <1>4 DEF Store

(* Whatever is done in a session.                                          *)
LEMMA BatchType ==
  ASSUME batch \in [Proc -> Batch], items \in Seq(Source \X Key), [Next]_vars
  PROVE  batch' \in [Proc -> Batch]
<1>1. NoBatch \in Batch  BY DEF NoBatch, Batch
<1>2. ASSUME NEW p \in Proc, Store(p)  PROVE batch' \in [Proc -> Batch]
  BY <1>2, StoreBatchType
<1>3. ASSUME NEW p \in Proc, Close(p)  PROVE batch' \in [Proc -> Batch]
  BY <1>3, <1>1 DEF Close
<1>4. CASE UNCHANGED batch  BY <1>4
<1>. QED
  BY <1>2, <1>3, <1>4
  DEF Next, Use, OpenStep, Import, ReadAssets, Newest, Since, vars, itemsVars

(* Every step of a session keeps what is known of the opening.             *)
LEMMA OpeningStep ==
  ASSUME OpeningInv, batch \in [Proc -> Batch], [Next]_vars
  PROVE  OpeningInv'
<1>1. CASE UNCHANGED <<openingVars, batch>>
  BY <1>1
  DEF openingVars, OpeningInv, OpeningType, OpeningTypeOK, LockInv, SchemaInv, WorkInv,
      Applying, OpenedFits, Migrated, NothingCreatedTwice
<1>2. ASSUME NEW p \in Proc, OpenStep(p), UNCHANGED batch
      PROVE  OpeningInv'
  BY <1>2, BeginInv, LookInv, ApplyInv, CommitMigrationsInv, FinishInv DEF OpenStep
<1>3. ASSUME NEW p \in Proc, Close(p)  PROVE OpeningInv'
  BY <1>3, LeaveInv DEF Close
<1>4. ASSUME NEW p \in Proc, Store(p)  PROVE OpeningInv'
  BY <1>4, StoreInv
<1>5. ASSUME NEW d \in Document, NEW p \in Proc, Import(p, d), UNCHANGED itemsVars
      PROVE  OpeningInv'
  BY <1>5, <1>1 DEF Import, itemsVars
<1>6. CASE Newest \/ Since
  BY <1>6, <1>1 DEF Newest, Since
<1>7. CASE ReadAssets /\ UNCHANGED itemsVars
  BY <1>7, <1>1
  DEF ReadAssets, StartList, StartInspect, Select, ListNext, Answer, itemsVars
<1>8. CASE UNCHANGED vars
  BY <1>8, <1>1 DEF vars, itemsVars
<1>. QED
  BY <1>2, <1>3, <1>4, <1>5, <1>6, <1>7, <1>8 DEF Next, Use, itemsVars

-----------------------------------------------------------------------------
(* Feed items *)

Unique(rows) == \A m, n \in Ids(rows) : rows[m] = rows[n] => m = n

Extend(rows, old) == Len(old) <= Len(rows) /\ \A n \in Ids(old) : rows[n] = old[n]

(* What a transaction will commit only adds to what is there.              *)
StoringInv ==
  \A p \in Proc : batch[p].source # None =>
    Extend(batch[p].rows, items) /\ Unique(batch[p].rows)

ItemsInv ==
  /\ items \in Seq(Source \X Key) /\ batch \in [Proc -> Batch]
  /\ Unique(items) /\ StoringInv
  /\ base \in Nat /\ (cursor = None \/ cursor \in Ids(items))
  /\ ticker \subseteq Source /\ steady \subseteq ticker
  /\ NothingMissed

(* A set of numbers that is not empty has a least one,                     *)
LEMMA Least ==
  ASSUME NEW S \in SUBSET Nat, S # {}
  PROVE  \E n \in S : \A m \in S : n <= m
<1>1. PICK n \in S : \A m \in S : ~(<<m, n>> \in OpToRel(<, Nat))
  BY NatLessThanWellFounded, WFMin
<1>2. \A m \in S : ~(m < n)  BY <1>1 DEF OpToRel
<1>. QED  BY <1>2

(* and a greatest one when it is bounded.                                  *)
LEMMA Greatest ==
  ASSUME NEW N \in Nat, NEW S \in SUBSET (0 .. N), S # {}
  PROVE  \E n \in S : \A m \in S : m <= n
<1>. DEFINE T == {N - n : n \in S}
<1>1. \A n \in S : n \in Nat /\ N - n \in Nat /\ N - n \in T  OBVIOUS
<1>2. T \in SUBSET Nat /\ T # {}  BY <1>1
<1>3. PICK t \in T : \A u \in T : t <= u
  <2>. HIDE DEF T
  <2>. QED  BY <1>2, Least
<1>4. PICK n \in S : t = N - n  BY <1>3
<1>5. \A m \in S : N - n <= N - m  BY <1>1, <1>3, <1>4
<1>6. \A m \in S : m <= n  BY <1>1, <1>5
<1>. QED  BY <1>6

(* A page has a first and a last row.                                      *)
LEMMA PageEnds ==
  ASSUME items \in Seq(Source \X Key), NEW S \in SUBSET Ids(items), S # {}
  PROVE  /\ First(S) \in S /\ Last(S) \in S
         /\ \A m \in S : First(S) <= m /\ m <= Last(S)
<1>1. Ids(items) = 1 .. Len(items) /\ Len(items) \in Nat  BY DEF Ids
<1>2. \E n \in S : \A m \in S : n <= m  BY <1>1, Least
<1>3. S \in SUBSET (0 .. Len(items))  BY <1>1
<1>4. \E n \in S : \A m \in S : m <= n  BY <1>1, <1>3, Greatest
<1>. QED  BY <1>2, <1>4 DEF First, Last

(* What matches is finite, and with it every part of it.                   *)
LEMMA MatchingFinite ==
  ASSUME items \in Seq(Source \X Key), NEW k \in Nat
  PROVE  /\ Matching(k) \subseteq Ids(items) /\ Ids(items) = 1 .. Len(items)
         /\ Len(items) \in Nat /\ IsFiniteSet(Matching(k))
<1>1. Ids(items) = 1 .. Len(items) /\ Len(items) \in Nat  BY DEF Ids
<1>2. IsFiniteSet(1 .. Len(items))  BY <1>1, FS_Interval
<1>3. Matching(k) \in SUBSET (1 .. Len(items))  BY <1>1 DEF Matching
<1>. QED  BY <1>1, <1>2, <1>3, FS_Subset

(* With a row, a page of the newest has every matching row after it,       *)
LEMMA HighestUp ==
  ASSUME NEW S \in SUBSET Nat, IsFiniteSet(S), NEW f \in Highest(S), NEW n \in S, f <= n
  PROVE  n \in Highest(S)
<1>. DEFINE A == {m \in S : m > n}  B == {m \in S : m > f}
<1>1. IsFiniteSet(B) /\ Cardinality(B) \in Nat /\ Cardinality(B) < Page
  BY FS_Subset, FS_CardinalityType DEF Highest
<1>2. f \in Nat /\ n \in Nat  BY DEF Highest
<1>3. \A m \in A : m \in Nat /\ m \in B  BY <1>2
<1>4. Cardinality(A) <= Cardinality(B) /\ Cardinality(A) \in Nat
  <2>. HIDE DEF A, B
  <2>1. A \in SUBSET B  BY <1>3
  <2>. QED  BY <1>1, <2>1, FS_Subset, FS_CardinalityType
<1>5. Cardinality(A) < Page  BY <1>1, <1>4, ItemsAssumption
<1>. QED  BY <1>5 DEF Highest

(* and a page of the oldest every matching row before it.                  *)
LEMMA LowestDown ==
  ASSUME NEW S \in SUBSET Nat, IsFiniteSet(S), NEW l \in Lowest(S), NEW n \in S, n <= l
  PROVE  n \in Lowest(S)
<1>. DEFINE A == {m \in S : m < n}  B == {m \in S : m < l}
<1>1. IsFiniteSet(B) /\ Cardinality(B) \in Nat /\ Cardinality(B) < Page
  BY FS_Subset, FS_CardinalityType DEF Lowest
<1>2. l \in Nat /\ n \in Nat  BY DEF Lowest
<1>3. \A m \in A : m \in Nat /\ m \in B  BY <1>2
<1>4. Cardinality(A) <= Cardinality(B) /\ Cardinality(A) \in Nat
  <2>. HIDE DEF A, B
  <2>1. A \in SUBSET B  BY <1>3
  <2>. QED  BY <1>1, <2>1, FS_Subset, FS_CardinalityType
<1>5. Cardinality(A) < Page  BY <1>1, <1>4, ItemsAssumption
<1>. QED  BY <1>5 DEF Lowest

(* A stored body is a batch that was extended, and items become it.        *)
LEMMA StoreItems ==
  ASSUME OpeningInv, ItemsInv, NEW p \in Proc, Store(p)
  PROVE  ItemsInv'
<1>. USE DEF Ids
<1>0. /\ items \in Seq(Source \X Key) /\ batch \in [Proc -> Batch]
      /\ Len(items) \in Nat /\ DOMAIN items = 1 .. Len(items)
      /\ NoBatch.source = None
  BY DEF ItemsInv, NoBatch
<1>1. batch' \in [Proc -> Batch]  BY <1>0, StoreBatchType
<1>2. \A q \in Proc \ {p} : batch'[q] = batch[q]
  BY <1>0 DEF Store, BeginStore, Insert, CommitStore, RollBack, SetTicker
<1>3. lock = p \/ lock = Free
  BY DEF Store, BeginStore, Insert, CommitStore, RollBack, Storing, SetTicker
<1>4. \A q \in Proc \ {p} : batch[q].source = None
  BY <1>3, OpeningAssumption DEF OpeningInv, LockInv
<1>5. UNCHANGED client
  BY DEF Store, BeginStore, Insert, CommitStore, RollBack, SetTicker
<1>6. ASSUME UNCHANGED <<items, shown>>,
             batch'[p].source # None =>
               Extend(batch'[p].rows, items) /\ Unique(batch'[p].rows)
      PROVE  ItemsInv'
  <2>1. StoringInv'  BY <1>2, <1>4, <1>6 DEF StoringInv
  <2>. QED  BY <2>1, <1>1, <1>5, <1>6 DEF ItemsInv, client, shown, NothingMissed, Unique
<1>7. ASSUME NEW s \in Source, NEW body \in Bodies[s], BeginStore(p, s, body)
      PROVE  ItemsInv'
  <2>1. batch'[p].rows = items /\ UNCHANGED <<items, shown>>  BY <1>0, <1>7 DEF BeginStore
  <2>. QED  BY <2>1, <1>0, <1>6 DEF ItemsInv, Extend
<1>8. CASE Insert(p)
  <2>. DEFINE c == batch[p]  k == Head(c.left)  i == <<c.source, k>>
  <2>1. /\ c.source \in Source /\ c.left \in Seq(Key) /\ c.left # <<>>
        /\ c.rows \in Seq(Source \X Key) /\ UNCHANGED <<items, shown>>
        /\ Extend(c.rows, items) /\ Unique(c.rows)
    BY <1>0, <1>8 DEF Insert, Storing, Batch, ItemsInv, StoringInv
  <2>2. batch'[p].rows = Inserted(c.rows, c.source, k)
    BY <1>0, <1>8 DEF Insert
  <2>3. i \in Source \X Key  BY <2>1
  <2>4. CASE Known(c.rows, i)
    BY <2>1, <2>2, <2>4, <1>6 DEF Inserted
  <2>5. CASE ~Known(c.rows, i)
    <3>1. batch'[p].rows = Append(c.rows, i)  BY <2>2, <2>5 DEF Inserted
    <3>. HIDE DEF c, i
    <3>2. /\ Len(c.rows) \in Nat /\ DOMAIN c.rows = 1 .. Len(c.rows)
          /\ \A n \in DOMAIN c.rows : c.rows[n] # i
          /\ Len(Append(c.rows, i)) = Len(c.rows) + 1
          /\ DOMAIN Append(c.rows, i) = 1 .. Len(c.rows) + 1
          /\ Append(c.rows, i)[Len(c.rows) + 1] = i
          /\ \A n \in DOMAIN c.rows : Append(c.rows, i)[n] = c.rows[n]
      BY <2>1, <2>3, <2>5 DEF Known
    <3>. DEFINE N == Len(c.rows)  r == Append(c.rows, i)
    <3>3. ASSUME NEW m \in Ids(r), NEW n \in Ids(r), r[m] = r[n]  PROVE m = n
      <4>1. m \in DOMAIN c.rows \/ m = N + 1  BY <3>2
      <4>2. n \in DOMAIN c.rows \/ n = N + 1  BY <3>2
      <4>3. CASE m \in DOMAIN c.rows /\ n \in DOMAIN c.rows
        BY <4>3, <2>1, <3>2, <3>3 DEF Unique
      <4>. QED  BY <4>1, <4>2, <4>3, <3>2, <3>3
    <3>4. Extend(Append(c.rows, i), items)
      BY <2>1, <3>2, <1>0 DEF Extend
    <3>. QED  BY <2>1, <3>1, <3>3, <3>4, <1>6 DEF Unique
  <2>. QED  BY <2>4, <2>5
<1>9. CASE CommitStore(p)
  <2>1. /\ batch[p].source # None /\ items' = batch[p].rows /\ batch'[p] = NoBatch
        /\ batch[p].rows \in Seq(Source \X Key) /\ UNCHANGED shown
    BY <1>0, <1>9 DEF CommitStore, Storing, Batch
  <2>2. Extend(items', items) /\ Unique(items')
    BY <2>1 DEF ItemsInv, StoringInv
  <2>3. StoringInv'  BY <1>0, <1>2, <1>4, <2>1 DEF StoringInv
  <2>4. items' \in Seq(Source \X Key) /\ Len(items') \in Nat
        /\ DOMAIN items' = 1 .. Len(items')
    BY <2>1
  <2>5. \A n \in DOMAIN items : n \in DOMAIN items' /\ items'[n] = items[n]
    BY <2>2, <2>4, <1>0 DEF Extend
  <2>6. cursor' = None \/ cursor' \in DOMAIN items'
    BY <2>5, <1>5 DEF ItemsInv, client
  <2>7. NothingMissed'
    <3>. SUFFICES ASSUME cursor # None, NEW n \in DOMAIN items', base < n, n <= cursor,
                         items'[n][1] \in Wanted,
                         TickerOnly => items'[n][1] \in steady
                  PROVE  <<n, items'[n]>> \in got
      BY <1>5, <2>1 DEF NothingMissed, client, shown
    <3>1. n \in DOMAIN items
      BY <1>0, <2>4 DEF ItemsInv
    <3>. QED  BY <3>1, <2>5 DEF ItemsInv, NothingMissed
  <2>. QED  BY <1>1, <1>5, <2>2, <2>1, <2>3, <2>4, <2>6, <2>7 DEF ItemsInv, client, shown
<1>10. CASE RollBack(p)
  <2>1. batch'[p] = NoBatch /\ UNCHANGED <<items, shown>>  BY <1>0, <1>10 DEF RollBack
  <2>. QED  BY <2>1, <1>0, <1>6
<1>11. ASSUME NEW s \in Source, NEW on \in BOOLEAN, SetTicker(p, s, on)
       PROVE  ItemsInv'
  <2>1. /\ UNCHANGED <<items, batch, cursor, base, got>>
        /\ ticker' \subseteq Source /\ steady' \subseteq ticker' /\ steady' \subseteq steady
    BY <1>11 DEF SetTicker, ItemsInv, client
  <2>2. NothingMissed'  BY <2>1 DEF ItemsInv, NothingMissed
  <2>. QED  BY <2>1, <2>2 DEF ItemsInv, StoringInv, Unique, Extend
<1>. QED  BY <1>7, <1>8, <1>9, <1>10, <1>11 DEF Store

(* A first page begins what the client is owed.                            *)
LEMMA NewestItems ==
  ASSUME ItemsInv, Newest
  PROVE  ItemsInv'
<1>. DEFINE S == Matching(0)  page == Highest(S)
<1>1. /\ items \in Seq(Source \X Key) /\ page # {} /\ cursor' = Last(page)
      /\ base' = First(page) - 1 /\ got' = Rows(page) /\ UNCHANGED <<items, batch, ticker>>
      /\ steady' = ticker \cap Wanted
  BY DEF ItemsInv, Newest
<1>2. /\ S \subseteq Ids(items) /\ Ids(items) = 1 .. Len(items) /\ Len(items) \in Nat
      /\ IsFiniteSet(S)
  BY <1>1, MatchingFinite
<1>3. page \subseteq S  BY DEF Highest
<1>4. /\ First(page) \in page /\ Last(page) \in page
      /\ \A m \in page : First(page) <= m /\ m <= Last(page)
  <2>. HIDE DEF page
  <2>. QED  BY <1>1, <1>2, <1>3, PageEnds
<1>5. base' \in Nat /\ cursor' \in Ids(items)
  BY <1>1, <1>2, <1>3, <1>4
<1>6. NothingMissed'
  <2>. SUFFICES ASSUME NEW n \in Ids(items), First(page) - 1 < n, items[n][1] \in Wanted,
                       TickerOnly => items[n][1] \in ticker
                PROVE  <<n, items[n]>> \in Rows(page)
    BY <1>1 DEF NothingMissed
  <2>1. n \in S  BY <1>2 DEF Matching, Shown
  <2>2. S \in SUBSET Nat /\ First(page) \in Nat /\ First(page) <= n
    BY <1>2, <1>3, <1>4
  <2>3. n \in page
    <3>. HIDE DEF S
    <3>. QED  BY <2>1, <2>2, <1>2, <1>4, HighestUp
  <2>. QED  BY <2>3 DEF Rows
<1>. QED  BY <1>1, <1>5, <1>6 DEF ItemsInv, StoringInv, Unique

(* A later page follows the cursor without a gap.                          *)
LEMMA SinceItems ==
  ASSUME ItemsInv, Since
  PROVE  ItemsInv'
<1>. DEFINE S == Matching(cursor)  page == Lowest(S)
<1>1. /\ items \in Seq(Source \X Key) /\ page # {} /\ cursor' = Last(page)
      /\ got' = got \cup Rows(page) /\ UNCHANGED <<items, batch, base, shown>>
      /\ cursor # None
  BY DEF ItemsInv, Since, After
<1>2. cursor \in Nat  BY <1>1 DEF ItemsInv, Ids
<1>3. /\ S \subseteq Ids(items) /\ Ids(items) = 1 .. Len(items) /\ Len(items) \in Nat
      /\ IsFiniteSet(S)
  BY <1>1, <1>2, MatchingFinite
<1>4. page \subseteq S  BY DEF Lowest
<1>5. /\ Last(page) \in page /\ \A m \in page : m <= Last(page)
  <2>. HIDE DEF page
  <2>. QED  BY <1>1, <1>3, <1>4, PageEnds
<1>6. cursor' \in Ids(items)
  BY <1>1, <1>3, <1>4, <1>5
<1>7. NothingMissed'
  <2>. SUFFICES ASSUME NEW n \in Ids(items), base < n, n <= Last(page),
                       items[n][1] \in Wanted, TickerOnly => items[n][1] \in steady
                PROVE  <<n, items[n]>> \in got \cup Rows(page)
    BY <1>1 DEF NothingMissed, shown
  <2>1. CASE n <= cursor
    BY <2>1, <1>1 DEF ItemsInv, NothingMissed
  <2>2. CASE ~(n <= cursor)
    <3>1. n \in S  BY <2>2, <1>2, <1>3 DEF Matching, Shown, ItemsInv
    <3>2. S \in SUBSET Nat  BY <1>3
    <3>3. n \in page
      <4>. HIDE DEF S
      <4>. QED  BY <3>1, <3>2, <1>3, <1>5, LowestDown
    <3>. QED  BY <3>3 DEF Rows
  <2>. QED  BY <2>1, <2>2
<1>. QED  BY <1>1, <1>6, <1>7 DEF ItemsInv, StoringInv, Unique, shown

(* Every step of a session keeps what is known of the items.               *)
LEMMA ItemsStep ==
  ASSUME OpeningInv, ItemsInv, [Next]_vars
  PROVE  ItemsInv'
<1>1. batch' \in [Proc -> Batch]  BY BatchType DEF ItemsInv
<1>2. CASE UNCHANGED itemsVars
  BY <1>2 DEF itemsVars, ItemsInv, Unique, StoringInv, Extend, NothingMissed, shown
<1>3. ASSUME NEW p \in Proc, Store(p)  PROVE ItemsInv'
  BY <1>3, StoreItems
<1>4. ASSUME NEW p \in Proc, Close(p)  PROVE ItemsInv'
  <2>1. UNCHANGED <<items, client, shown>> /\ \A q \in Proc : batch'[q] \in {batch[q], NoBatch}
    BY <1>4 DEF Close, ItemsInv
  <2>2. StoringInv'  BY <2>1 DEF StoringInv, ItemsInv, NoBatch
  <2>. QED  BY <1>1, <2>1, <2>2 DEF ItemsInv, client, shown, NothingMissed, Unique
<1>5. CASE Newest  BY <1>5, NewestItems
<1>6. CASE Since  BY <1>6, SinceItems
<1>. QED
  BY <1>2, <1>3, <1>4, <1>5, <1>6 DEF Next, Use, vars

(* What is known of the opening and of the items holds always.             *)
THEOREM SessionsInvariant == Spec => [](OpeningInv /\ ItemsInv)
<1>1. Init => OpeningInv /\ ItemsInv
  <2>. SUFFICES ASSUME Init PROVE OpeningInv /\ ItemsInv  OBVIOUS
  <2>1. NoBatch \in Batch  BY DEF NoBatch, Batch
  <2>2. ItemsInv
    BY <2>1 DEF Init, ItemsInit, ItemsInv, Unique, StoringInv, NothingMissed, NoBatch, Ids
  <2>. QED  BY <2>2, InitOpening
<1>2. OpeningInv /\ ItemsInv /\ [Next]_vars => (OpeningInv /\ ItemsInv)'
  BY OpeningStep, ItemsStep DEF ItemsInv
<1>. QED  BY <1>1, <1>2, PTL DEF Spec

(* A process that got through migrate has the catalog of its build,        *)
(* whatever builds open it at once, before or after.                       *)
THEOREM OpenedAlwaysFits == Spec => []OpenedFits
<1>1. OpeningInv => OpenedFits  BY DEF OpeningInv
<1>. QED  BY <1>1, SessionsInvariant, PTL

(* No two opens run one migration.                                         *)
THEOREM NothingIsCreatedTwice == Spec => []NothingCreatedTwice
<1>1. OpeningInv => NothingCreatedTwice  BY DEF OpeningInv
<1>. QED  BY <1>1, SessionsInvariant, PTL

(* A client with a cursor misses no item, for any page, any sources and    *)
(* any other use of the ticker: of the sources it asked for, or of those   *)
(* that stayed on the ticker when it asks for the ticker's.                *)
THEOREM ClientMissesNothing == Spec => []NothingMissed
<1>1. ItemsInv => NothingMissed  BY DEF ItemsInv
<1>. QED  BY <1>1, SessionsInvariant, PTL

-----------------------------------------------------------------------------
(* Assets and observations, for any documents, builds and limit: what is   *)
(* stored was accepted, and what the accepted rows promise a reader.       *)

Row == {e.observation : e \in Entry}

(* What the tables hold was accepted, and no part of it is missing.        *)
StoredInv ==
  /\ assets \subseteq {e.asset : e \in Entry} /\ observations \subseteq Row
  /\ IsFiniteSet(observations)
  /\ \A r \in assets : Agrees(assets, r)
  /\ \A o \in observations : Agrees(observations, o) /\ Corrects(observations, o)
  /\ \A r \in assets : Of(r.id) # {}
  /\ \A o \in observations : \E e \in Entry : e.observation = o /\ Valid(e)
  /\ \A o \in observations : o.asset \in AssetIds

ReaderType ==
  /\ reader \in [op : {"none", "list", "inspect"}, asset : Nat \cup {None},
                 asOf : AsOf \cup {None}, rest : SUBSET Nat, done : 0 .. 3]
  /\ answer \in [effective : Row \cup {None}, count : Nat, recent : SUBSET Row]

(* What a reader has read so far is still true of the rows that are there, *)
(* or was true of rows that are there.                                     *)
ReaderInv ==
  /\ ReaderType
  /\ reader.op = "none" => reader = NoReader
  /\ reader.op # "none" =>
       /\ reader.asset \in AssetIds /\ reader.rest \subseteq AssetIds
       /\ reader.asOf \in AsOf
       /\ reader.done <= Len(Statements(reader.op))
       /\ reader.done >= 1 => answer.effective \in Of(reader.asset) \cup {None}
       /\ reader.done >= 2 => answer.count \in 1 .. Cardinality(Of(reader.asset))
       /\ reader.done = 3 =>
            /\ Cardinality(answer.recent) >= (IF answer.count < Limit THEN answer.count ELSE Limit)
            /\ Cardinality(answer.recent) < Limit =>
                 answer.effective = None \/ answer.effective \in answer.recent

-----------------------------------------------------------------------------
(* Finite total orders, given as a set of pairs *)

Orders(R, S) ==
  /\ \A x \in S : <<x, x>> \notin R
  /\ \A x, y \in S : x # y => <<x, y>> \in R \/ <<y, x>> \in R
  /\ \A x, y, z \in S : <<x, y>> \in R /\ <<y, z>> \in R => <<x, z>> \in R

(* A finite set that is not empty has a greatest element.                  *)
LEMMA Maximum ==
  ASSUME NEW S, IsFiniteSet(S), S # {}, NEW R, Orders(R, S)
  PROVE  \E x \in S : \A y \in S \ {x} : <<x, y>> \in R
<1>. DEFINE Above(x) == {y \in S : <<y, x>> \in R}
            H == {Cardinality(Above(x)) : x \in S}
<1>1. \A x \in S : IsFiniteSet(Above(x)) /\ Cardinality(Above(x)) \in Nat
  BY FS_Subset, FS_CardinalityType
<1>2. H \in SUBSET Nat /\ H # {}  BY <1>1
<1>3. PICK h \in H : \A k \in H : h <= k
  <2>. HIDE DEF H
  <2>. QED  BY <1>2, Least
<1>4. PICK x \in S : \A y \in S : Cardinality(Above(x)) <= Cardinality(Above(y))
  BY <1>3
<1>5. ASSUME NEW y \in S \ {x}, <<x, y>> \notin R  PROVE FALSE
  <2>1. <<y, x>> \in R  BY <1>5 DEF Orders
  <2>2. Above(y) \in SUBSET Above(x)  BY <2>1 DEF Orders
  <2>3. y \in Above(x) /\ y \notin Above(y)  BY <2>1 DEF Orders
  <2>4. Above(y) # Above(x)  BY <2>3
  <2>5. IsFiniteSet(Above(x)) /\ Cardinality(Above(x)) \in Nat
        /\ Cardinality(Above(y)) \in Nat
    BY <1>1
  <2>. HIDE DEF Above
  <2>6. /\ Cardinality(Above(y)) <= Cardinality(Above(x))
        /\ Cardinality(Above(x)) = Cardinality(Above(y)) => Above(x) = Above(y)
    BY <2>2, <2>5, FS_Subset
  <2>7. Cardinality(Above(x)) <= Cardinality(Above(y))  BY <1>4
  <2>. QED  BY <2>4, <2>5, <2>6, <2>7
<1>. QED  BY <1>5

(* The elements with fewer than k above them are all, or at least k.       *)
LEMMA TopOfOrder ==
  ASSUME NEW S, IsFiniteSet(S), NEW R, Orders(R, S), NEW k \in Nat,
         NEW T, T = {x \in S : Cardinality({y \in S : <<y, x>> \in R}) < k}
  PROVE  /\ IsFiniteSet(T) /\ Cardinality(T) \in Nat
         /\ T = S \/ Cardinality(T) >= k
<1>1. IsFiniteSet(T) /\ Cardinality(T) \in Nat
  BY FS_Subset, FS_CardinalityType
<1>2. ASSUME T # S  PROVE Cardinality(T) >= k
  <2>. DEFINE U == S \ T
  <2>1. IsFiniteSet(U) /\ U # {}  BY <1>2, FS_Subset
  <2>2. Orders(R, U)  BY DEF Orders
  <2>3. PICK x \in U : \A y \in U \ {x} : <<x, y>> \in R
    <3>. HIDE DEF U
    <3>. QED  BY <2>1, <2>2, Maximum
  <2>. DEFINE A == {y \in S : <<y, x>> \in R}
  <2>4. ASSUME NEW y \in A  PROVE y \in T
    <3>1. y \in S /\ x \in S /\ y # x /\ <<y, x>> \in R  BY DEF Orders
    <3>2. <<x, y>> \notin R  BY <3>1 DEF Orders
    <3>. QED  BY <2>3, <3>1, <3>2
  <2>5. A \in SUBSET T  BY <2>4
  <2>6. IsFiniteSet(A) /\ Cardinality(A) \in Nat /\ Cardinality(A) <= Cardinality(T)
    <3>. HIDE DEF A
    <3>. QED  BY <2>5, <1>1, FS_Subset, FS_CardinalityType
  <2>7. ~(Cardinality(A) < k)  OBVIOUS
  <2>. QED  BY <1>1, <2>6, <2>7
<1>. QED  BY <1>1, <1>2

-----------------------------------------------------------------------------
(* The orders of observations *)

(* Rows are made of numbers, and corrections of valid entries name one.    *)
LEMMA RowType ==
  ASSUME NEW o \in Row
  PROVE  /\ o.id \in Nat /\ o.at \in Nat /\ o.corrects \in Nat \cup {None}
  BY AssetAssumption DEF Row

(* Observations that agree are ordered by the rank of the effective one,   *)
LEMMA RanksOrder ==
  ASSUME NEW S \in SUBSET Row, \A o \in S : Agrees(S, o)
  PROVE  Orders({p \in S \X S : Ranks(p[1], p[2])}, S)
<1>. DEFINE R == {p \in S \X S : Ranks(p[1], p[2])}
<1>1. \A x, y \in S : <<x, y>> \in R <=> Ranks(x, y)  OBVIOUS
<1>2. \A x, y \in S : x # y => x.id # y.id  BY DEF Agrees
<1>3. \A x \in S : x.id \in Nat /\ x.at \in Nat  BY RowType
<1>4. \A x \in S : ~Ranks(x, x)  BY <1>3 DEF Ranks, Newer
<1>5. \A x, y \in S : x # y => Ranks(x, y) \/ Ranks(y, x)
  BY <1>2, <1>3 DEF Ranks, Newer
<1>6. \A x, y, z \in S : Ranks(x, y) /\ Ranks(y, z) => Ranks(x, z)
  BY <1>3 DEF Ranks, Newer
<1>. HIDE DEF R
<1>. QED  BY <1>1, <1>4, <1>5, <1>6 DEF Orders

(* and by their time and id.                                               *)
LEMMA NewerOrder ==
  ASSUME NEW S \in SUBSET Row, \A o \in S : Agrees(S, o)
  PROVE  Orders({p \in S \X S : Newer(p[1], p[2])}, S)
<1>. DEFINE R == {p \in S \X S : Newer(p[1], p[2])}
<1>1. \A x, y \in S : <<x, y>> \in R <=> Newer(x, y)  OBVIOUS
<1>2. \A x, y \in S : x # y => x.id # y.id  BY DEF Agrees
<1>3. \A x \in S : x.id \in Nat /\ x.at \in Nat  BY RowType
<1>4. \A x \in S : ~Newer(x, x)  BY <1>3 DEF Newer
<1>5. \A x, y \in S : x # y => Newer(x, y) \/ Newer(y, x)
  BY <1>2, <1>3 DEF Newer
<1>6. \A x, y, z \in S : Newer(x, y) /\ Newer(y, z) => Newer(x, z)
  BY <1>3 DEF Newer
<1>. HIDE DEF R
<1>. QED  BY <1>1, <1>4, <1>5, <1>6 DEF Orders

(* The effective observation is one of the candidates, and outranks them.  *)
LEMMA EffectiveOutranks ==
  ASSUME StoredInv, NEW a, NEW t, Candidates(a, t) # {}
  PROVE  /\ Effective(a, t) \in Candidates(a, t)
         /\ \A r \in Candidates(a, t) \ {Effective(a, t)} : Ranks(Effective(a, t), r)
<1>. DEFINE C == Candidates(a, t)  R == {p \in C \X C : Ranks(p[1], p[2])}
<1>1. C \subseteq observations /\ C # {}  BY DEF Candidates, Of
<1>2. IsFiniteSet(C)  BY <1>1, FS_Subset DEF StoredInv
<1>3. C \in SUBSET Row /\ \A o \in C : Agrees(C, o)
  BY <1>1 DEF StoredInv, Agrees
<1>4. Orders(R, C)  BY <1>3, RanksOrder
<1>5. \E x \in C : \A y \in C \ {x} : <<x, y>> \in R
  <2>. HIDE DEF C, R
  <2>. QED  BY <1>1, <1>2, <1>4, Maximum
<1>6. \E x \in C : \A y \in C \ {x} : Ranks(x, y)  BY <1>5
<1>. QED  BY <1>6 DEF Effective

(* The newest rows are all there are, or as many as the limit.             *)
LEMMA RecentCount ==
  ASSUME StoredInv, NEW a
  PROVE  /\ IsFiniteSet(Of(a)) /\ Cardinality(Of(a)) \in Nat
         /\ Recent(a) \subseteq Of(a) /\ Cardinality(Recent(a)) \in Nat
         /\ Recent(a) = Of(a) \/ Cardinality(Recent(a)) >= Limit
<1>. DEFINE S == Of(a)  R == {p \in S \X S : Newer(p[1], p[2])}
<1>1. S \subseteq observations  BY DEF Of
<1>2. IsFiniteSet(S) /\ Cardinality(S) \in Nat
  BY <1>1, FS_Subset, FS_CardinalityType DEF StoredInv
<1>3. S \in SUBSET Row /\ \A o \in S : Agrees(S, o)
  BY <1>1 DEF StoredInv, Agrees
<1>4. Orders(R, S)  BY <1>3, NewerOrder
<1>5. \A x \in S : {y \in S : <<y, x>> \in R} = {y \in S : Newer(y, x)}  OBVIOUS
<1>6. Recent(a) = {x \in S : Cardinality({y \in S : <<y, x>> \in R}) < Limit}
  BY <1>5 DEF Recent
<1>7. Limit \in Nat  BY AssetAssumption
<1>8. /\ IsFiniteSet(Recent(a)) /\ Cardinality(Recent(a)) \in Nat
      /\ Recent(a) = S \/ Cardinality(Recent(a)) >= Limit
  <2>. DEFINE T == Recent(a)
  <2>1. T = {x \in S : Cardinality({y \in S : <<y, x>> \in R}) < Limit}  BY <1>6
  <2>. HIDE DEF S, R, T
  <2>2. /\ IsFiniteSet(T) /\ Cardinality(T) \in Nat
        /\ T = S \/ Cardinality(T) >= Limit
    BY ONLY <1>2, <1>4, <1>7, <2>1, TopOfOrder
  <2>. QED  BY <2>2 DEF T
<1>. QED  BY <1>2, <1>8 DEF Recent

-----------------------------------------------------------------------------
(* Importing *)

(* What a document adds was compared with all that was there before it,    *)
(* its own earlier entries included.                                       *)
LEMMA ImportStored ==
  ASSUME StoredInv, NEW d \in Document, NEW p \in Proc, Import(p, d)
  PROVE  StoredInv'
<1>. DEFINE A == {d[k].asset : k \in DOMAIN d}  O == {d[k].observation : k \in DOMAIN d}
<1>1. /\ Accepted(d) /\ assets' = assets \cup A /\ observations' = observations \cup O
  BY DEF Import
<1>2. /\ DOMAIN d = 1 .. Len(d) /\ Len(d) \in Nat
      /\ \A k \in DOMAIN d : d[k] \in Entry /\ d[k].observation \in Row
  BY AssetAssumption DEF Row
<1>3. \A k \in DOMAIN d :
        /\ d[k].asset.id = d[k].observation.asset
        /\ Agrees(AssetsBefore(d, k), d[k].asset)
        /\ Corrects(ObservationsBefore(d, k), d[k].observation)
        /\ Agrees(ObservationsBefore(d, k), d[k].observation)
  BY <1>1 DEF Accepted
<1>4. assets' \subseteq {e.asset : e \in Entry} /\ observations' \subseteq Row
  BY <1>1, <1>2 DEF StoredInv
<1>5. IsFiniteSet(observations')
  <2>. DEFINE f == [k \in 1 .. Len(d) |-> d[k].observation]
  <2>1. f \in Surjection(1 .. Len(d), O)  BY <1>2 DEF Surjection
  <2>2. IsFiniteSet(1 .. Len(d))  BY <1>2, FS_Interval
  <2>3. IsFiniteSet(O)
    <3>. HIDE DEF f, O
    <3>. QED  BY <2>1, <2>2, FS_Surjection
  <2>. QED  BY <2>3, <1>1, FS_Union DEF StoredInv
<1>6. \A k \in DOMAIN d : \A j \in 1 .. k - 1 : j \in DOMAIN d
  BY <1>2
<1>7. \A k \in DOMAIN d : \A r \in assets : r.id = d[k].asset.id => d[k].asset = r
  BY <1>3 DEF Agrees, AssetsBefore
<1>8. \A k, j \in DOMAIN d : d[j].asset.id = d[k].asset.id => d[j].asset = d[k].asset
  <2>. SUFFICES ASSUME NEW k \in DOMAIN d, NEW j \in DOMAIN d, j < k,
                       d[j].asset.id = d[k].asset.id
                PROVE  d[j].asset = d[k].asset
    BY <1>2
  <2>1. j \in 1 .. k - 1  BY <1>2
  <2>. QED  BY <2>1, <1>3 DEF Agrees, AssetsBefore
<1>9. \A r \in assets' : Agrees(assets', r)
  <2>1. \A r, q \in assets : r.id = q.id => r = q  BY DEF StoredInv, Agrees
  <2>. QED  BY <2>1, <1>1, <1>7, <1>8 DEF Agrees
<1>10. \A k \in DOMAIN d : \A r \in observations :
         r.id = d[k].observation.id => d[k].observation = r
  BY <1>3 DEF Agrees, ObservationsBefore
<1>11. \A k, j \in DOMAIN d :
         d[j].observation.id = d[k].observation.id => d[j].observation = d[k].observation
  <2>. SUFFICES ASSUME NEW k \in DOMAIN d, NEW j \in DOMAIN d, j < k,
                       d[j].observation.id = d[k].observation.id
                PROVE  d[j].observation = d[k].observation
    BY <1>2
  <2>1. j \in 1 .. k - 1  BY <1>2
  <2>. QED  BY <2>1, <1>3 DEF Agrees, ObservationsBefore
<1>12. \A o \in observations' : Agrees(observations', o)
  <2>1. \A r, q \in observations : r.id = q.id => r = q  BY DEF StoredInv, Agrees
  <2>. QED  BY <2>1, <1>1, <1>10, <1>11 DEF Agrees
<1>13. \A o \in observations' : Corrects(observations', o)
  <2>1. \A o \in observations : Corrects(observations', o)
    BY <1>1 DEF StoredInv, Corrects
  <2>2. \A k \in DOMAIN d : ObservationsBefore(d, k) \subseteq observations'
    BY <1>1, <1>6 DEF ObservationsBefore
  <2>3. \A k \in DOMAIN d : Corrects(observations', d[k].observation)
    BY <1>3, <2>2 DEF Corrects
  <2>. QED  BY <1>1, <2>1, <2>3
<1>14. \A r \in assets' : Of(r.id)' # {}
  BY <1>1, <1>3 DEF StoredInv, Of
<1>15. \A o \in observations' : o.asset \in AssetIds'
  BY <1>1, <1>3 DEF StoredInv, AssetIds
<1>16. \A o \in observations' : \E e \in Entry : e.observation = o /\ Valid(e)
  <2>1. \A k \in DOMAIN d : d[k] \in Entry /\ Valid(d[k])
    BY <1>1, <1>2 DEF Accepted
  <2>. QED  BY <1>1, <2>1 DEF StoredInv
<1>. QED
  BY <1>4, <1>5, <1>9, <1>12, <1>13, <1>14, <1>15, <1>16 DEF StoredInv

(* What a reader has counted can only have become more.                    *)
LEMMA ImportReader ==
  ASSUME StoredInv, ReaderInv, NEW d \in Document, NEW p \in Proc, Import(p, d)
  PROVE  ReaderInv'
<1>1. /\ assets \subseteq assets' /\ observations \subseteq observations'
      /\ reader' = reader /\ answer' = answer
  BY DEF Import
<1>2. AssetIds \subseteq AssetIds'  BY <1>1 DEF AssetIds
<1>3. Of(reader.asset) \subseteq Of(reader.asset)'  BY <1>1 DEF Of
<1>4. StoredInv'  BY ImportStored
<1>5. /\ IsFiniteSet(Of(reader.asset)') /\ Cardinality(Of(reader.asset)') \in Nat
  BY <1>4, FS_Subset, FS_CardinalityType DEF StoredInv, Of
<1>6. /\ Cardinality(Of(reader.asset)) \in Nat
      /\ Cardinality(Of(reader.asset)) <= Cardinality(Of(reader.asset)')
  BY <1>3, <1>5, RecentCount, FS_Subset
<1>. QED  BY <1>1, <1>2, <1>3, <1>5, <1>6 DEF ReaderInv, ReaderType

-----------------------------------------------------------------------------
(* Reading *)

(* The next asset of a listing is one of those that are left.              *)
LEMMA SmallestIn ==
  ASSUME NEW S \in SUBSET Nat, S # {}
  PROVE  Smallest(S) \in S
  BY Least DEF Smallest

(* Each statement reads what is there, and the count only grows later.     *)
LEMMA SelectReader ==
  ASSUME StoredInv, ReaderInv, Select
  PROVE  ReaderInv'
<1>. DEFINE a == reader.asset  t == reader.asOf
<1>0. /\ reader.op \in {"list", "inspect"} /\ reader.done \in 0 .. 3
      /\ a \in AssetIds /\ t \in AsOf
      /\ UNCHANGED <<assets, observations>>
  BY DEF Select, At, ReaderInv, ReaderType
<1>1. /\ IsFiniteSet(Of(a)) /\ Cardinality(Of(a)) \in Nat
      /\ Recent(a) \subseteq Of(a) /\ Cardinality(Recent(a)) \in Nat
      /\ Recent(a) = Of(a) \/ Cardinality(Recent(a)) >= Limit
  BY RecentCount
<1>2. Of(a) # {} /\ Of(a) \subseteq Row
  BY <1>0 DEF StoredInv, AssetIds, Of
<1>3. Cardinality(Of(a)) \in Nat \ {0}  BY <1>1, <1>2, FS_EmptySet
<1>4. Effective(a, t) \in Of(a) \cup {None}
  <2>1. CASE Candidates(a, t) = {}  BY <2>1 DEF Effective
  <2>2. CASE Candidates(a, t) # {}
    BY <2>2, EffectiveOutranks DEF Candidates
  <2>. QED  BY <2>1, <2>2
<1>5. Limit \in Nat \ {0}  BY AssetAssumption
<1>6. UNCHANGED <<assets, observations>> /\ AssetIds' = AssetIds
  BY <1>0 DEF AssetIds
<1>7. CASE At("effective")
  <2>1. reader.done = 0 /\ reader' = [reader EXCEPT !.done = 1]
        /\ answer' = [answer EXCEPT !.effective = Effective(a, t)]
    BY <1>0, <1>7 DEF Select, At, Statements
  <2>2. ReaderType'  BY <2>1, <1>0, <1>2, <1>4 DEF ReaderInv, ReaderType
  <2>3. /\ reader'.op = reader.op /\ reader'.asset = a /\ reader'.asOf = t
        /\ reader'.rest = reader.rest /\ reader'.done = 1
        /\ answer'.effective = Effective(a, t)
    BY <2>1 DEF ReaderInv, ReaderType
  <2>. QED  BY <2>2, <2>3, <1>0, <1>4, <1>6 DEF ReaderInv, Of, Statements
<1>8. CASE At("count")
  <2>1. reader.done = 1 /\ reader' = [reader EXCEPT !.done = 2]
        /\ answer' = [answer EXCEPT !.count = Cardinality(Of(a))]
    BY <1>0, <1>8 DEF Select, At, Statements
  <2>2. ReaderType'  BY <2>1, <1>0, <1>3 DEF ReaderInv, ReaderType
  <2>3. /\ reader'.op = reader.op /\ reader'.asset = a /\ reader'.asOf = t
        /\ reader'.rest = reader.rest /\ reader'.done = 2
        /\ answer'.effective = answer.effective /\ answer'.count = Cardinality(Of(a))
    BY <2>1 DEF ReaderInv, ReaderType
  <2>4. answer'.count \in 1 .. Cardinality(Of(a))  BY <2>3, <1>3
  <2>. QED  BY <2>1, <2>2, <2>3, <2>4, <1>0, <1>6 DEF ReaderInv, Of, Statements
<1>9. CASE At("recent")
  <2>1. /\ reader.op = "inspect" /\ reader.done = 2
        /\ reader' = [reader EXCEPT !.done = 3]
        /\ answer' = [answer EXCEPT !.recent = Recent(a)]
    BY <1>0, <1>9 DEF Select, At, Statements
  <2>2. ReaderType'  BY <2>1, <1>0, <1>1, <1>2 DEF ReaderInv, ReaderType
  <2>3. /\ reader'.op = "inspect" /\ reader'.asset = a /\ reader'.asOf = t
        /\ reader'.rest = reader.rest /\ reader'.done = 3
        /\ answer'.effective = answer.effective /\ answer'.count = answer.count
        /\ answer'.recent = Recent(a)
    BY <2>1 DEF ReaderInv, ReaderType
  <2>4. /\ answer.count \in 1 .. Cardinality(Of(a))
        /\ answer.effective \in Of(a) \cup {None}
    BY <2>1 DEF ReaderInv
  <2>5. Cardinality(Recent(a)) >= (IF answer.count < Limit THEN answer.count ELSE Limit)
    BY <2>4, <1>1, <1>5
  <2>6. Cardinality(Recent(a)) < Limit => Recent(a) = Of(a)
    BY <1>1, <1>5
  <2>. QED
    BY <2>1, <2>2, <2>3, <2>4, <2>5, <2>6, <1>0, <1>6 DEF ReaderInv, Of, Statements
<1>. QED  BY <1>7, <1>8, <1>9 DEF Select

(* A reader that begins, goes on to the next asset or ends has read        *)
(* nothing yet.                                                            *)
LEMMA ReadReader ==
  ASSUME StoredInv, ReaderInv, ReadAssets
  PROVE  ReaderInv'
<1>1. UNCHANGED <<assets, observations>>
  BY DEF ReadAssets, StartList, StartInspect, Select, ListNext, Answer
<1>2. AssetIds \subseteq Nat
  BY AssetAssumption DEF AssetIds, StoredInv
<1>. USE DEF ReaderInv, ReaderType, Of, AssetIds, Statements
<1>3. ASSUME NEW t \in AsOf, StartList(t)  PROVE ReaderInv'
  <2>1. FirstAssets \subseteq AssetIds /\ FirstAssets # {}
    BY <1>3 DEF StartList, FirstAssets
  <2>2. Smallest(FirstAssets) \in FirstAssets  BY <2>1, <1>2, SmallestIn
  <2>. QED  BY <1>1, <1>2, <1>3, <2>1, <2>2 DEF StartList, Listing, NoReader
<1>4. ASSUME NEW t \in AsOf, NEW a \in AssetIds, StartInspect(a, t)  PROVE ReaderInv'
  BY <1>1, <1>2, <1>4 DEF StartInspect, NoReader
<1>5. CASE ListNext
  <2>1. Smallest(reader.rest) \in reader.rest  BY <1>5, SmallestIn DEF ListNext
  <2>. QED  BY <1>1, <1>2, <1>5, <2>1 DEF ListNext, Listing, Complete
<1>6. CASE Answer  BY <1>6, <1>1 DEF Answer, NoReader, NoAnswer
<1>. QED  BY <1>3, <1>4, <1>5, <1>6, SelectReader DEF ReadAssets

-----------------------------------------------------------------------------
(* Results *)

(* The asset tables are there once an asset is.                            *)
TablesInv == assets # {} => AssetTables \subseteq schema

SessionsInv == OpeningInv /\ ItemsInv /\ StoredInv /\ ReaderInv /\ TablesInv

(* The schema only grows, by whatever step.                                *)
LEMMA SchemaGrows ==
  ASSUME [Next]_vars
  PROVE  schema \subseteq schema'
BY DEF Next, vars, OpenStep, Begin, Look, Apply, CommitMigrations, Finish, Close, Leave,
       Use, Store, BeginStore, Insert, CommitStore, RollBack, SetTicker, Import, Newest, Since,
       ReadAssets, StartList, StartInspect, Select, ListNext, Answer, openingVars

(* Only imports change the tables, and only reading steps the reader.      *)
LEMMA AssetsStep ==
  ASSUME SessionsInv, [Next]_vars
  PROVE  (StoredInv /\ ReaderInv /\ TablesInv)'
<1>1. schema \subseteq schema'  BY SchemaGrows
<1>2. StoredInv /\ ReaderInv /\ TablesInv  BY DEF SessionsInv
<1>3. CASE UNCHANGED assetVars
  <2>1. StoredInv'  BY <1>2, <1>3 DEF assetVars, StoredInv, Of, AssetIds
  <2>2. ReaderInv'
    BY <1>2, <1>3 DEF assetVars, ReaderInv, ReaderType, Of, AssetIds
  <2>3. TablesInv'  BY <1>1, <1>2, <1>3 DEF assetVars, TablesInv
  <2>. QED  BY <2>1, <2>2, <2>3
<1>4. ASSUME NEW p \in Proc, NEW d \in Document, Import(p, d)
      PROVE  (StoredInv /\ ReaderInv /\ TablesInv)'
  <2>1. AssetTables \subseteq schema
    BY <1>4 DEF Import, HasAssets, SessionsInv, OpeningInv, OpenedFits, Migrated
  <2>. QED  BY <1>1, <1>2, <1>4, <2>1, ImportStored, ImportReader DEF TablesInv
<1>5. CASE ReadAssets
  <2>1. UNCHANGED <<assets, observations>>
    BY <1>5 DEF ReadAssets, StartList, StartInspect, Select, ListNext, Answer
  <2>2. StoredInv'  BY <1>2, <2>1 DEF StoredInv, Of, AssetIds
  <2>. QED  BY <1>1, <1>2, <1>5, <2>1, <2>2, ReadReader DEF TablesInv
<1>. QED  BY <1>3, <1>4, <1>5 DEF Next, Use, vars

(* Everything that is known of sessions holds always.                      *)
THEOREM AssetsInvariant == Spec => []SessionsInv
<1>1. Init => SessionsInv
  <2>. SUFFICES ASSUME Init PROVE SessionsInv  OBVIOUS
  <2>1. StoredInv  BY FS_EmptySet DEF Init, AssetInit, StoredInv
  <2>2. ReaderInv
    BY DEF Init, AssetInit, ReaderInv, ReaderType, NoReader, NoAnswer
  <2>3. TablesInv  BY DEF Init, AssetInit, TablesInv
  <2>4. NoBatch \in Batch  BY DEF NoBatch, Batch
  <2>5. ItemsInv
    BY <2>4 DEF Init, ItemsInit, ItemsInv, Unique, StoringInv, NothingMissed, NoBatch, Ids
  <2>. QED  BY <2>1, <2>2, <2>3, <2>5, InitOpening DEF SessionsInv
<1>2. SessionsInv /\ [Next]_vars => SessionsInv'
  BY OpeningStep, ItemsStep, AssetsStep DEF SessionsInv, ItemsInv
<1>. QED  BY <1>1, <1>2, PTL DEF Spec

(* The variables have their types, an item and an asset are stored once,   *)
(* and assets are only there when their tables are.                        *)
THEOREM SessionsType == Spec => []TypeOK
<1>1. SessionsInv => TypeOK
  BY DEF SessionsInv, OpeningInv, OpeningType, ItemsInv, Unique, ItemsTypeOK, StoredInv,
         AssetTypeOK, TablesInv, TypeOK, Row
<1>. QED  BY <1>1, AssetsInvariant, PTL

(* The effective observation is not one that was corrected: what corrects  *)
(* it is newer and a correction, so it would outrank it.                   *)
THEOREM EffectiveIsNeverCorrected == Spec => []EffectiveIsUncorrected
<1>1. SessionsInv => EffectiveIsUncorrected
  <2>. SUFFICES ASSUME StoredInv, NEW a \in AssetIds, NEW t \in AsOf,
                       Effective(a, t) # None,
                       NEW c \in observations, c.corrects = Effective(a, t).id, c.at <= t
                PROVE  FALSE
    BY DEF SessionsInv, EffectiveIsUncorrected
  <2>. DEFINE e == Effective(a, t)
  <2>1. Candidates(a, t) # {}  BY DEF Effective
  <2>2. /\ e \in Candidates(a, t)
        /\ \A r \in Candidates(a, t) \ {e} : Ranks(e, r)
    BY <2>1, EffectiveOutranks
  <2>. HIDE DEF e
  <2>3. e \in observations /\ e.asset = a /\ e \in Row /\ c \in Row
    BY <2>2 DEF Candidates, Of, StoredInv
  <2>4. c.corrects = e.id /\ c.corrects # None
    BY <2>3, RowType, AssetAssumption DEF e
  <2>5. PICK r \in observations : r.id = c.corrects /\ r.asset = c.asset /\ c.at > r.at
    BY <2>4 DEF StoredInv, Corrects
  <2>6. r = e  BY <2>3, <2>4, <2>5 DEF StoredInv, Agrees
  <2>7. c \in Candidates(a, t) /\ c # e
    BY <2>3, <2>5, <2>6, RowType DEF Candidates, Of
  <2>8. Ranks(e, c)  BY <2>2, <2>7
  <2>. QED
    BY <2>3, <2>4, <2>5, <2>6, <2>8, RowType DEF Ranks, Newer
<1>. QED  BY <1>1, AssetsInvariant, PTL

(* What is stored was compared with all that was there: importing it again *)
(* finds the same rows.                                                    *)
THEOREM StoredIsAlwaysAccepted == Spec => []StoredIsAccepted
<1>1. SessionsInv => StoredIsAccepted
  <2>. SUFFICES ASSUME StoredInv, NEW d \in Document,
                       \A k \in DOMAIN d :
                         /\ d[k].asset \in assets /\ d[k].observation \in observations
                         /\ d[k].asset.id = d[k].observation.asset,
                       NEW k \in DOMAIN d
                PROVE  /\ Valid(d[k])
                       /\ Agrees(AssetsBefore(d, k), d[k].asset)
                       /\ Corrects(ObservationsBefore(d, k), d[k].observation)
                       /\ Agrees(ObservationsBefore(d, k), d[k].observation)
    BY DEF SessionsInv, StoredIsAccepted, Accepted
  <2>1. DOMAIN d = 1 .. Len(d) /\ Len(d) \in Nat  BY AssetAssumption
  <2>2. \A j \in 1 .. k - 1 : j \in DOMAIN d  BY <2>1
  <2>3. AssetsBefore(d, k) = assets /\ ObservationsBefore(d, k) = observations
    BY <2>2 DEF AssetsBefore, ObservationsBefore
  <2>4. Valid(d[k])  BY DEF StoredInv, Valid
  <2>. QED  BY <2>3, <2>4 DEF StoredInv, Agrees
<1>. QED  BY <1>1, AssetsInvariant, PTL

(* An answer holds together although imports commit between its            *)
(* statements, for any limit: observations are only added.                 *)
THEOREM AnswersAlwaysHoldTogether == Spec => []AnswersHoldTogether
<1>1. SessionsInv => AnswersHoldTogether
  <2>. SUFFICES ASSUME ReaderInv, StoredInv, Complete PROVE AnswersHoldTogether
    BY DEF SessionsInv, AnswersHoldTogether
  <2>1. reader.op \in {"list", "inspect"}  BY DEF ReaderInv, ReaderType, Complete
  <2>2. reader.done >= 2 /\ (reader.op = "inspect" => reader.done = 3)
    BY <2>1 DEF Complete, Statements
  <2>3. Cardinality(Of(reader.asset)) \in Nat  BY RecentCount
  <2>4. answer.count > 0  BY <2>2, <2>3 DEF ReaderInv, Complete
  <2>. QED  BY <2>2, <2>4 DEF ReaderInv, Complete, AnswersHoldTogether
<1>. QED  BY <1>1, AssetsInvariant, PTL

=============================================================================
