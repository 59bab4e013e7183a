----------------------------- MODULE FeedItems -----------------------------
(***************************************************************************)
(* The items of fetched feeds, and a client that reads them with a cursor. *)
(* An item is <<source, identity key>>; its row id is its place in items,  *)
(* because SQLite numbers a row one above the highest and no row is ever   *)
(* removed.  Only the transaction that stores a body is modelled; what a   *)
(* fetch does before and after it is in FeedTicker and ArtifactCatalog.    *)
(***************************************************************************)
EXTENDS CatalogOpening, FiniteSets

CONSTANTS Source,   \* registered sources
          Key,      \* identity keys
          Bodies,   \* what each source may serve: the keys of the entries, in order
          Wanted,   \* the sources the client asks for by name, or all
          TickerOnly, \* whether it asks for the ticker's sources only
          Page      \* the client's limit

ASSUME ItemsAssumption ==
  /\ \A s \in Source : Bodies[s] \subseteq Seq(Key)
  /\ Wanted \subseteq Source /\ TickerOnly \in BOOLEAN
  /\ Page \in Nat \ {0}
  /\ None \notin Nat

VARIABLES
  items,    \* feed_items, by row id
  ticker,   \* the sources on the ticker: sources.ticker
  batch,    \* the open transaction of each process that stores a body
  cursor,   \* the last id the client was given, or None
  base,     \* history: the client asked for what comes after this id
  got,      \* history: what it was given, as <<id, item>>
  steady    \* history: the sources that stayed on the ticker since it first asked

itemsVars == <<items, ticker, batch, cursor, base, got, steady>>
client    == <<cursor, base, got>>
shown     == <<ticker, steady>>

NoBatch == [source |-> None, left |-> <<>>, rows |-> <<>>]

ItemsInit ==
  /\ items = <<>>
  /\ batch = [p \in Proc |-> NoBatch]
  /\ ticker = {} /\ steady = {}
  /\ cursor = None /\ base = 0 /\ got = {}

Ids(rows) == DOMAIN rows
Known(rows, item) == \E n \in Ids(rows) : rows[n] = item

-----------------------------------------------------------------------------
(* Storing a body *)

Idle(p) == phase[p] = "open" /\ lock # p

BeginStore(p, s, body) ==
  /\ Idle(p) /\ lock = Free /\ lock' = p
  /\ batch' = [batch EXCEPT ![p] = [source |-> s, left |-> body, rows |-> items]]
  /\ UNCHANGED <<ledger, schema, phase, build, work, items, client, shown>>

Storing(p) == lock = p /\ batch[p].source # None

(* ON CONFLICT(source_id, identity_key): a known item keeps its id.        *)
Inserted(rows, s, k) ==
  IF Known(rows, <<s, k>>) THEN rows ELSE Append(rows, <<s, k>>)

Insert(p) ==
  /\ Storing(p) /\ batch[p].left # <<>>
  /\ batch' = [batch EXCEPT ![p] =
       [source |-> @.source, left |-> Tail(@.left),
        rows |-> Inserted(@.rows, @.source, Head(@.left))]]
  /\ UNCHANGED <<openingVars, items, client, shown>>

CommitStore(p) ==
  /\ Storing(p) /\ batch[p].left = <<>>
  /\ items' = batch[p].rows
  /\ batch' = [batch EXCEPT ![p] = NoBatch]
  /\ lock' = Free
  /\ UNCHANGED <<ledger, schema, phase, build, work, client, shown>>

(* An error of any statement, or of the commit itself.                     *)
RollBack(p) ==
  /\ Storing(p)
  /\ batch' = [batch EXCEPT ![p] = NoBatch]
  /\ lock' = Free
  /\ UNCHANGED <<ledger, schema, phase, build, work, items, client, shown>>

(* The process ends or gives up, with whatever transaction it has.         *)
Close(p) ==
  /\ Leave(p)
  /\ batch' = [batch EXCEPT ![p] = NoBatch]
  /\ UNCHANGED <<items, client, shown>>

(* set_ticker, one UPDATE of the source row.                               *)
SetTicker(p, s, on) ==
  /\ Idle(p) /\ lock = Free
  /\ ticker' = IF on THEN ticker \cup {s} ELSE ticker \ {s}
  /\ steady' = steady \cap ticker'
  /\ UNCHANGED <<openingVars, items, batch, client>>

-----------------------------------------------------------------------------
(* Reading: one SELECT, which sees what is committed *)

(* The query looks at the source row as it is now, not as it was when the  *)
(* item was stored.                                                        *)
Shown(s) == s \in Wanted /\ (TickerOnly => s \in ticker)

Matching(since) == {n \in Ids(items) : n > since /\ Shown(items[n][1])}

Lowest(S)  == {n \in S : Cardinality({m \in S : m < n}) < Page}
Highest(S) == {n \in S : Cardinality({m \in S : m > n}) < Page}

(* Mutant of After: the newest are selected whether or not there is a      *)
(* cursor.                                                                 *)
AfterNewest(since) == Highest(Matching(since))

After(since) == Lowest(Matching(since))

Rows(ids) == {<<n, items[n]>> : n \in ids}
Last(S) == CHOOSE n \in S : \A m \in S : m <= n
First(S) == CHOOSE n \in S : \A m \in S : n <= m

(* The first call has no cursor and gets the newest items.                 *)
Newest ==
  /\ cursor = None
  /\ LET page == Highest(Matching(0)) IN
       /\ page # {}
       /\ cursor' = Last(page) /\ base' = First(page) - 1 /\ got' = Rows(page)
  /\ steady' = ticker \cap Wanted
  /\ UNCHANGED <<openingVars, items, batch, ticker>>

(* Later calls get what comes after the last id; oldest first.             *)
Since ==
  /\ cursor # None
  /\ LET page == After(cursor) IN
       /\ page # {}
       /\ cursor' = Last(page) /\ got' = got \cup Rows(page)
  /\ UNCHANGED <<openingVars, items, batch, base, shown>>

Store(p) ==
  \/ \E s \in Source : \E body \in Bodies[s] : BeginStore(p, s, body)
  \/ Insert(p) \/ CommitStore(p) \/ RollBack(p)
  \/ \E s \in Source, on \in BOOLEAN : SetTicker(p, s, on)

-----------------------------------------------------------------------------
(* Properties *)

(* One feed entry is one item, however often and by whomever it is         *)
(* fetched, and entries of two sources are two items.                      *)
ItemsTypeOK ==
  /\ items \in Seq(Source \X Key)
  /\ \A m, n \in Ids(items) : items[m] = items[n] => m = n
  /\ cursor = None \/ cursor \in Ids(items)
  /\ ticker \subseteq Source /\ steady \subseteq ticker

(* A client that keeps the last id as its cursor is given every item it    *)
(* asks for, from the first it was given on: no item is numbered below the *)
(* cursor afterwards, no page skips one, and none changes its id ("Stored  *)
(* items, always oldest first so the last id is the next cursor",          *)
(* src/lib.rs:1305).  A client of the ticker has this of the sources that  *)
(* stayed on the ticker: what it passed while a source was off, it is not  *)
(* given when the source comes back.                                       *)
NothingMissed ==
  cursor # None =>
    \A n \in Ids(items) :
      /\ base < n /\ n <= cursor /\ items[n][1] \in Wanted
      /\ TickerOnly => items[n][1] \in steady
      => <<n, items[n]>> \in got

=============================================================================
