----------------------------- MODULE FeedTicker -----------------------------
(***************************************************************************)
(* Feed sources, their schedule and their conditional fetches.  A fetch    *)
(* reads its source row once and then works on that copy: it records a     *)
(* run, stamps the source, asks the server with the validator it copied,   *)
(* and closes its run, each in a transaction of its own.  Meanwhile other  *)
(* processes fetch, edit or re-register the source, and every process that *)
(* opens the catalog closes the runs it takes for abandoned.               *)
(*                                                                         *)
(* A validator is a Last-Modified date: a server answers 304 to a request  *)
(* that carries one not older than what it serves.  Time is counted in     *)
(* ticks since an event, never as a date.                                  *)
(***************************************************************************)
EXTENDS Naturals

CONSTANTS Proc,       \* processes that fetch
          Daemon,     \* the one that polls the ticker's sources (mg-feedr)
          Source,     \* source names
          Url,        \* addresses a source may be registered with
          None,       \* no address, no validator, no source, no run
          Run,        \* rows of fetch_runs; a closed run's row is used again
          Every,      \* the fetch intervals in use, in ticks
          StaleAge,   \* STALE_RUN_AGE, in ticks
          StampLimit, \* how many ticks a call takes to stamp, see OnTime
          MaxVersion  \* bound: how often a server changes what it serves

ASSUME TickerAssumption ==
  /\ Daemon \in Proc
  /\ None \notin Url \cup Source \cup Run \cup Nat
  /\ Every \subseteq Nat \ {0}
  /\ \E longest \in Every : \A e \in Every : e <= longest
  /\ StaleAge \in Nat /\ StampLimit \in Nat /\ MaxVersion \in Nat
  /\ \A e \in Every : StampLimit < e

VARIABLES
  source,   \* table sources; idle is the time since last_fetched_at
  run,      \* table fetch_runs
  call,     \* the call each process is in: its copy of the row, how long ago
            \* it started (until it has stamped the source), its answer
  serving,  \* the version each address serves
  kept,     \* history: <<source, address, version>> that were stored
  moved,    \* history: sources that were given another address
  outcome   \* history: what the call of each run did to the catalog

history == <<kept, moved, outcome>>
vars    == <<source, run, call, serving, kept, moved, outcome>>

LongestEvery == CHOOSE m \in Every : \A e \in Every : e <= m

Phase   == {"idle", "chosen", "read", "begun", "asking", "body", "unchanged", "failing"}
Outcome == {"nothing", "stored", "doubtful"}
Closed  == {"succeeded", "not_modified", "failed"}
Version == 0 .. MaxVersion

SourceRow ==
  [url : Url \cup {None}, enabled : BOOLEAN, ticker : BOOLEAN,
   every : Every, tag : Version \cup {None}, idle : 0 .. LongestEvery]
RunRow == [status : Closed \cup {"none", "running"}, age : 0 .. StaleAge + 1]
Call   ==
  [at : Phase, source : Source \cup {None}, url : Url \cup {None},
   tag : Version \cup {None}, run : Run \cup {None}, age : 0 .. LongestEvery,
   got : Version \cup {None}]

NoRow  == [url |-> None, enabled |-> FALSE, ticker |-> FALSE,
           every |-> LongestEvery, tag |-> None, idle |-> LongestEvery]
NoCall == [at |-> "idle", source |-> None, url |-> None, tag |-> None,
           run |-> None, age |-> 0, got |-> None]

Init ==
  /\ source = [s \in Source |-> NoRow]
  /\ run = [r \in Run |-> [status |-> "none", age |-> 0]]
  /\ call = [p \in Proc |-> NoCall]
  /\ serving = [u \in Url |-> 0]
  /\ kept = {}
  /\ moved = {}
  /\ outcome = [r \in Run |-> "nothing"]

Exists(s) == source[s].url # None

-----------------------------------------------------------------------------
(* Commands on the source row *)

(* A name already registered keeps its validator, schedule and ticker mark *)
(* when it gets another address.  An address belongs to one source.        *)
Register(s, u) ==
  /\ \A t \in Source \ {s} : source[t].url # u
  /\ source' = [source EXCEPT ![s].url = u, ![s].enabled = TRUE]
  /\ moved' = IF source[s].url \in {None, u} THEN moved ELSE moved \cup {s}
  /\ UNCHANGED <<run, call, serving, kept, outcome>>

SetEnabled(s, on) ==
  /\ Exists(s)
  /\ source' = [source EXCEPT ![s].enabled = on]
  /\ UNCHANGED <<run, call, serving, history>>

SetTicker(s, on, e) ==
  /\ Exists(s)
  /\ source' = [source EXCEPT ![s].ticker = on, ![s].every = e]
  /\ UNCHANGED <<run, call, serving, history>>

-----------------------------------------------------------------------------
(* A fetch *)

(* due_ticker_sources; a source that was never asked has been idle long    *)
(* enough.                                                                 *)
Due(s) ==
  /\ Exists(s) /\ source[s].enabled /\ source[s].ticker
  /\ source[s].idle >= source[s].every

(* The daemon asks what is due and fetches it by name afterwards.          *)
Poll(s) ==
  /\ call[Daemon].at = "idle"
  /\ Due(s)
  /\ call' = [call EXCEPT ![Daemon].at = "chosen", ![Daemon].source = s]
  /\ UNCHANGED <<source, run, serving, history>>

(* fetch reads the source row, once; the daemon's may have changed since   *)
(* it was found due.                                                       *)
Asks(p, s) ==
  \/ call[p].at = "idle" /\ p # Daemon
  \/ call[p].at = "chosen" /\ call[p].source = s

Read(p, s) ==
  /\ Asks(p, s)
  /\ Exists(s) /\ source[s].enabled
  /\ call' = [call EXCEPT ![p] =
       [at |-> "read", source |-> s, url |-> source[s].url, tag |-> source[s].tag,
        run |-> None, age |-> 0, got |-> None]]
  /\ UNCHANGED <<source, run, serving, history>>

Leave(p) == call' = [call EXCEPT ![p] = NoCall]

(* A disabled source is refused, before anything is recorded.              *)
Refuse(p) ==
  /\ call[p].at = "chosen"
  /\ ~source[call[p].source].enabled
  /\ Leave(p)
  /\ UNCHANGED <<source, run, serving, history>>

(* Mutant of Reusable: a run that a call still works on is used again.     *)
AnyClosed(r) == run[r].status # "running"

(* A row that no call works on and that is not open.                       *)
Reusable(r) == run[r].status # "running" /\ \A p \in Proc : call[p].run # r

InsertRun(p, r) ==
  /\ call[p].at = "read"
  /\ Reusable(r)
  /\ run' = [run EXCEPT ![r] = [status |-> "running", age |-> 0]]
  /\ call' = [call EXCEPT ![p].at = "begun", ![p].run = r]
  /\ outcome' = [outcome EXCEPT ![r] = "nothing"]
  /\ UNCHANGED <<source, serving, kept, moved>>

AtMost(m, n) == IF n <= m THEN n ELSE m

(* Mutant of Stamp: an attempt does not count until it succeeds.           *)
SkipStamp(p) ==
  /\ call[p].at = "begun"
  /\ call' = [call EXCEPT ![p].at = "asking", ![p].age = 0]
  /\ UNCHANGED <<source, run, serving, history>>

(* last_fetched_at becomes the time at which the run was started, even     *)
(* when a later run has been stamped meanwhile.                            *)
Stamp(p) ==
  /\ call[p].at = "begun"
  /\ source' = [source EXCEPT ![call[p].source].idle = call[p].age]
  /\ call' = [call EXCEPT ![p].at = "asking", ![p].age = 0]
  /\ UNCHANGED <<run, serving, history>>

(* The server answers the request, made with the copied validator.         *)
NotNewer(p) == call[p].tag # None /\ serving[call[p].url] <= call[p].tag

(* Mutant of Answer: the validator is kept before the body is.             *)
AnswerSavesTag(p) ==
  /\ call[p].at = "asking"
  /\ call' = [call EXCEPT ![p].at = IF NotNewer(p) THEN "unchanged" ELSE "body",
                          ![p].got = serving[call[p].url]]
  /\ source' = [source EXCEPT ![call[p].source].tag = serving[call[p].url]]
  /\ UNCHANGED <<run, serving, history>>

Answer(p) ==
  /\ call[p].at = "asking"
  /\ call' = [call EXCEPT ![p].at = IF NotNewer(p) THEN "unchanged" ELSE "body",
                          ![p].got = serving[call[p].url]]
  /\ UNCHANGED <<source, run, serving, history>>

(* Mutant of Close: a run that was declared interrupted stays so.          *)
CloseIfRunning(p, status) ==
  run' = [run EXCEPT ![call[p].run].status = IF @ = "running" THEN status ELSE @,
                     ![call[p].run].age = 0]

(* The run is updated whatever an opening made of it meanwhile; its age is *)
(* of no more account.                                                     *)
Close(p, status) ==
  run' = [run EXCEPT ![call[p].run] = [status |-> status, age |-> 0]]

(* The transaction's effect: the body and its items are stored, and the    *)
(* source keeps the validator of this answer, if the server gave one.      *)
StoreBody(p) ==
  /\ kept' = kept \cup {<<call[p].source, call[p].url, call[p].got>>}
  /\ \E t \in {call[p].got, None} : source' = [source EXCEPT ![call[p].source].tag = t]
  /\ Close(p, "succeeded")

Store(p) ==
  /\ call[p].at = "body"
  /\ StoreBody(p)
  /\ Leave(p)
  /\ outcome' = [outcome EXCEPT ![call[p].run] = "stored"]
  /\ UNCHANGED <<serving, moved>>

(* Stored, but the commit reported an error.                               *)
StoreInDoubt(p) ==
  /\ call[p].at = "body"
  /\ StoreBody(p)
  /\ call' = [call EXCEPT ![p].at = "failing"]
  /\ outcome' = [outcome EXCEPT ![call[p].run] = "doubtful"]
  /\ UNCHANGED <<serving, moved>>

NotModified(p) ==
  /\ call[p].at = "unchanged"
  /\ Close(p, "not_modified")
  /\ Leave(p)
  /\ UNCHANGED <<source, serving, history>>

(* The request, the parse, or the transaction failed.                      *)
FetchFails(p) ==
  /\ call[p].at \in {"asking", "body", "unchanged"}
  /\ call' = [call EXCEPT ![p].at = "failing"]
  /\ UNCHANGED <<source, run, serving, history>>

RecordFailure(p) ==
  /\ call[p].at = "failing"
  /\ Close(p, "failed")
  /\ Leave(p)
  /\ UNCHANGED <<source, serving, history>>

(* The process dies, or one of fetch's own statements fails and it returns *)
(* at once: either way the run stays as it is.                             *)
Abandon(p) ==
  /\ call[p].at # "idle"
  /\ Leave(p)
  /\ UNCHANGED <<source, run, serving, history>>

-----------------------------------------------------------------------------
(* Opening the catalog, and the world *)

(* Mutant of Stale: no open run is.                                        *)
NeverStale(r) == FALSE

(* recover_stale_runs: a run's age is all it looks at, and a call may last *)
(* longer than that; fetch takes any timeout.                              *)
Stale(r) == run[r].status = "running" /\ run[r].age > StaleAge

Open ==
  /\ \E r \in Run : Stale(r)
  /\ run' = [r \in Run |->
       IF Stale(r) THEN [status |-> "failed", age |-> 0] ELSE run[r]]
  /\ UNCHANGED <<source, call, serving, history>>

(* A server publishes something newer.                                     *)
Publish(u) ==
  /\ serving[u] < MaxVersion
  /\ serving' = [serving EXCEPT ![u] = @ + 1]
  /\ UNCHANGED <<source, run, call, history>>

(* Time passes, however long calls have lasted.  Ages that no longer make  *)
(* a difference are not counted.                                           *)
Tick ==
  /\ run' = [r \in Run |->
       IF run[r].status = "running"
       THEN [run[r] EXCEPT !.age = AtMost(StaleAge + 1, @ + 1)] ELSE run[r]]
  /\ call' = [p \in Proc |->
       IF call[p].at = "begun"
       THEN [call[p] EXCEPT !.age = AtMost(LongestEvery, @ + 1)] ELSE call[p]]
  /\ source' = [s \in Source |->
       [source[s] EXCEPT !.idle = AtMost(LongestEvery, @ + 1)]]
  /\ UNCHANGED <<serving, history>>

-----------------------------------------------------------------------------

Step(p) ==
  \/ \E r \in Run : InsertRun(p, r)
  \/ Stamp(p) \/ Answer(p) \/ Store(p) \/ StoreInDoubt(p) \/ NotModified(p)
  \/ FetchFails(p) \/ RecordFailure(p) \/ Refuse(p)

Next ==
  \/ \E s \in Source :
       \/ \E u \in Url : Register(s, u)
       \/ \E on \in BOOLEAN : SetEnabled(s, on)
       \/ \E on \in BOOLEAN, e \in Every : SetTicker(s, on, e)
       \/ \E p \in Proc : Read(p, s)
       \/ Poll(s)
  \/ \E p \in Proc : Step(p) \/ Abandon(p)
  \/ Open \/ Tick
  \/ \E u \in Url : Publish(u)

Spec == Init /\ [][Next]_vars

(* A call stamps its source soon after it recorded its run: both are       *)
(* single statements with a busy timeout of 5 seconds, and no interval is  *)
(* shorter than 30.                                                        *)
OnTime == \A p \in Proc : call[p].age <= StampLimit

(* In time, calls go on; the daemon polls what is due and reads it; no     *)
(* process is killed at the same statement every time; time passes, however *)
(* busy the processes are; commands that open the catalog keep being run.  *)
FairSpec ==
  /\ Init /\ [][Next /\ OnTime']_vars
  /\ \A p \in Proc : WF_vars(Step(p)) /\ SF_vars(Stamp(p))
  /\ \A p \in Proc : SF_vars(\E r \in Run : InsertRun(p, r))
  /\ \A s \in Source : SF_vars(Poll(s)) /\ SF_vars(Read(Daemon, s))
  /\ WF_vars(Open) /\ SF_vars(Tick /\ OnTime')

-----------------------------------------------------------------------------
(* Properties *)

(* The variables have their types; a call that has begun works on a run of *)
(* its own.                                                                *)
OneRunEach ==
  \A p, q \in Proc : call[p].run # None /\ call[p].run = call[q].run => p = q

TypeOK ==
  /\ source \in [Source -> SourceRow]
  /\ run \in [Run -> RunRow]
  /\ call \in [Proc -> Call]
  /\ serving \in [Url -> Version]
  /\ kept \subseteq Source \X Url \X Version
  /\ moved \subseteq Source
  /\ outcome \in [Run -> Outcome]
  /\ OneRunEach

(* A 304 means that what the address serves was stored from there already. *)
(* Fetched::NotModified: "the server answered 304: nothing changed since   *)
(* the validators were issued".                                            *)
IsStored(p) == <<call[p].source, call[p].url, call[p].got>> \in kept

NotModifiedIsTrue == \A p \in Proc : call[p].at = "unchanged" => IsStored(p)

(* The same, for sources that keep their address, whatever fails, dies or  *)
(* overlaps.                                                               *)
NotModifiedIsTrueUnmoved ==
  \A p \in Proc :
    call[p].at = "unchanged" /\ call[p].source \notin moved => IsStored(p)

(* fetch_runs says what happened to the catalog: a run that succeeded has  *)
(* stored its body, and one that failed or was not modified has not,       *)
(* unless its own commit was in doubt.  This also holds of a run that was  *)
(* declared interrupted while its call went on, and stored.                *)
RunsTellTheTruth ==
  \A r \in Run :
    /\ run[r].status = "succeeded" => outcome[r] # "nothing"
    /\ run[r].status \in {"failed", "not_modified"} => outcome[r] # "stored"

(* A run is not left running: its call closes it, or it is declared        *)
(* interrupted.                                                            *)
EveryRunEnds == \A r \in Run : run[r].status = "running" ~> run[r].status # "running"

(* A source that is due does not stay due: it is asked, and the attempt    *)
(* counts even when it fails.                                              *)
EveryDueSourceIsAsked == \A s \in Source : Due(s) ~> ~Due(s)

=============================================================================
