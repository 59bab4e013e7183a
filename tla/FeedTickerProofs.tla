-------------------------- MODULE FeedTickerProofs --------------------------
(***************************************************************************)
(* What conditional fetches and the recovery of stale runs guarantee, for  *)
(* any number of processes, sources, addresses and runs, any clock and     *)
(* calls of any length: a 304 is only believed when the content is stored, *)
(* as long as a source keeps its address; and what a run says of itself is *)
(* what its call did, even if it was declared interrupted on the way.      *)
(***************************************************************************)
EXTENDS FeedTicker, TLAPS

Working == {"begun", "asking", "body", "unchanged"}

Fetching(p) == call[p].at \notin {"idle", "chosen"}

(* A call is about an existing source, whose row it has copied; from its   *)
(* INSERT on it has a run, and it has stored nothing while it works.       *)
CallOK(p) ==
  /\ call[p].at # "idle" => call[p].source \in Source /\ Exists(call[p].source)
  /\ Fetching(p) => call[p].url \in Url
  /\ call[p].at \in Working \cup {"failing"} => call[p].run \in Run
  /\ call[p].at \in Working => outcome[call[p].run] = "nothing"
  /\ call[p].at = "failing" => outcome[call[p].run] # "stored"
  /\ call[p].at \in {"body", "unchanged"} =>
       call[p].got \in Version /\ call[p].got <= serving[call[p].url]

CallInv == \A p \in Proc : CallOK(p)

(* A source that was never moved has a validator only for what is stored   *)
(* from its address, and so has every copy of its row.                     *)
Honest(s) == s \notin moved

KeptInv ==
  \A s \in Source, u \in Url, v \in Version : <<s, u, v>> \in kept => v <= serving[u]

SourceTag(s) ==
  Honest(s) /\ source[s].tag # None => <<s, source[s].url, source[s].tag>> \in kept

CallTag(p) ==
  Fetching(p) /\ Honest(call[p].source) =>
    /\ call[p].url = source[call[p].source].url
    /\ call[p].tag # None => <<call[p].source, call[p].url, call[p].tag>> \in kept
    /\ call[p].at = "unchanged" => IsStored(p)

TagInv ==
  KeptInv /\ (\A s \in Source : SourceTag(s)) /\ (\A p \in Proc : CallTag(p))

(* A run that is still open has stored nothing.                            *)
OpenRunsAreEmpty ==
  \A r \in Run : run[r].status = "running" => outcome[r] = "nothing"

Truth == RunsTellTheTruth /\ OpenRunsAreEmpty

Inv == TypeOK /\ CallInv /\ TagInv /\ Truth

-----------------------------------------------------------------------------
(* The longest interval is an interval.                                    *)
LEMMA LongestIsEvery == LongestEvery \in Every /\ LongestEvery \in Nat
  BY TickerAssumption DEF LongestEvery

(* A bounded count stays a count within its bound.                         *)
LEMMA AtMostType ==
  ASSUME NEW m \in Nat, NEW n \in Nat PROVE AtMost(m, n) \in 0 .. m
  BY DEF AtMost

(* The catalog starts empty.                                               *)
LEMMA InitInv == Init => Inv
<1>. SUFFICES ASSUME Init PROVE Inv  OBVIOUS
<1>. USE TickerAssumption, LongestIsEvery DEF Init, NoRow, NoCall
<1>1. TypeOK  BY DEF TypeOK, OneRunEach, SourceRow, RunRow, Call, Phase, Version, Outcome
<1>2. CallInv  BY DEF CallInv, CallOK, Working, Fetching
<1>3. TagInv  BY DEF TagInv, KeptInv, SourceTag, CallTag, Fetching
<1>4. Truth  BY DEF Truth, RunsTellTheTruth, OpenRunsAreEmpty
<1>. QED  BY <1>1, <1>2, <1>3, <1>4 DEF Inv

(* Rows stay rows when two of their fields are set at once.                *)
LEMMA RowUrl ==
  ASSUME NEW row \in SourceRow, NEW u \in Url, NEW on \in BOOLEAN
  PROVE  [row EXCEPT !.url = u, !.enabled = on] \in SourceRow
<1>1. [row EXCEPT !.url = u] \in SourceRow  BY DEF SourceRow
<1>2. \A x \in SourceRow : [x EXCEPT !.enabled = on] \in SourceRow  BY DEF SourceRow
<1>. QED  BY <1>1, <1>2

(* The same, for the ticker mark and the interval.                         *)
LEMMA RowTicker ==
  ASSUME NEW row \in SourceRow, NEW on \in BOOLEAN, NEW e \in Every
  PROVE  [row EXCEPT !.ticker = on, !.every = e] \in SourceRow
<1>1. [row EXCEPT !.ticker = on] \in SourceRow  BY DEF SourceRow
<1>2. \A x \in SourceRow : [x EXCEPT !.every = e] \in SourceRow  BY DEF SourceRow
<1>. QED  BY <1>1, <1>2

(* A call stays a call, on the same run, when it gets its answer.          *)
LEMMA CallGot ==
  ASSUME NEW c \in Call, NEW phase \in Phase, NEW v \in Version
  PROVE  /\ [c EXCEPT !.at = phase, !.got = v] \in Call
         /\ [c EXCEPT !.at = phase, !.got = v].run = c.run
<1>1. [c EXCEPT !.at = phase] \in Call  BY DEF Call
<1>2. \A x \in Call : [x EXCEPT !.got = v] \in Call  BY DEF Call
<1>. QED  BY <1>1, <1>2 DEF Call

(* The same, when it has stamped its source.                               *)
LEMMA CallStamped ==
  ASSUME NEW c \in Call
  PROVE  LET d == [c EXCEPT !.at = "asking", !.age = 0] IN
         /\ d \in Call /\ d.at = "asking" /\ d.run = c.run /\ d.source = c.source
         /\ d.url = c.url /\ d.tag = c.tag /\ d.got = c.got
<1>. USE TickerAssumption, LongestIsEvery
<1>1. [c EXCEPT !.at = "asking"] \in Call  BY DEF Call, Phase
<1>2. \A x \in Call : [x EXCEPT !.age = 0] \in Call  BY DEF Call
<1>. QED  BY <1>1, <1>2 DEF Call

(* What time does to calls is no more than to age them.                    *)
LEMMA CallsAged ==
  ASSUME call \in [Proc -> Call], Tick
  PROVE  /\ call' \in [Proc -> Call]
         /\ \A p \in Proc :
              /\ call'[p].at = call[p].at /\ call'[p].run = call[p].run
              /\ call'[p].source = call[p].source /\ call'[p].url = call[p].url
              /\ call'[p].tag = call[p].tag /\ call'[p].got = call[p].got
<1>. DEFINE aged(p) == [call[p] EXCEPT !.age = AtMost(LongestEvery, @ + 1)]
<1>1. ASSUME NEW p \in Proc
      PROVE  /\ aged(p) \in Call
             /\ aged(p).at = call[p].at /\ aged(p).run = call[p].run
             /\ aged(p).source = call[p].source /\ aged(p).url = call[p].url
             /\ aged(p).tag = call[p].tag /\ aged(p).got = call[p].got
  <2>1. call[p] \in Call /\ call[p].age \in Nat /\ LongestEvery \in Nat
    BY LongestIsEvery DEF Call
  <2>2. AtMost(LongestEvery, call[p].age + 1) \in 0 .. LongestEvery
    BY <2>1, AtMostType
  <2>. QED  BY <2>1, <2>2 DEF Call
<1>2. \A p \in Proc : call'[p] = call[p] \/ call'[p] = aged(p)
  BY DEF Tick
<1>3. call' = [p \in Proc |-> call'[p]]  BY DEF Tick
<1>. HIDE DEF aged
<1>. QED  BY <1>1, <1>2, <1>3

(* A table stays one when its row is changed in one place.                 *)
LEMMA SourceEdit ==
  ASSUME NEW s \in Source, NEW row \in SourceRow, source \in [Source -> SourceRow],
         source' = [source EXCEPT ![s] = row]
  PROVE  source' \in [Source -> SourceRow]
  OBVIOUS

(* The same, for the table of runs.                                        *)
LEMMA RunEdit ==
  ASSUME NEW r \in Run, NEW row \in RunRow, run \in [Run -> RunRow],
         run' = [run EXCEPT ![r] = row]
  PROVE  run' \in [Run -> RunRow]
  OBVIOUS

(* The same, for the calls.                                                *)
LEMMA CallEdit ==
  ASSUME NEW p \in Proc, NEW row \in Call, call \in [Proc -> Call],
         call' = [call EXCEPT ![p] = row]
  PROVE  call' \in [Proc -> Call]
  OBVIOUS

(* Steps preserve the types.                                               *)
LEMMA TypeStep == Inv /\ [Next]_vars => TypeOK'
<1>. SUFFICES ASSUME Inv, [Next]_vars PROVE TypeOK'  OBVIOUS
<1>. USE TickerAssumption, LongestIsEvery DEF Inv, TypeOK
<1>1. ASSUME NEW s \in Source, NEW u \in Url, Register(s, u) PROVE TypeOK'
  <2>1. [source[s] EXCEPT !.url = u, !.enabled = TRUE] \in SourceRow  BY RowUrl
  <2>2. source' = [source EXCEPT ![s] = [source[s] EXCEPT !.url = u, !.enabled = TRUE]]
    BY <1>1 DEF Register
  <2>. QED  BY <1>1, <2>1, <2>2, SourceEdit DEF Register, OneRunEach
<1>2. ASSUME NEW s \in Source, NEW on \in BOOLEAN, SetEnabled(s, on) PROVE TypeOK'
  <2>1. [source[s] EXCEPT !.enabled = on] \in SourceRow  BY DEF SourceRow
  <2>. QED  BY <1>2, <2>1, SourceEdit DEF SetEnabled, OneRunEach, history
<1>3. ASSUME NEW s \in Source, NEW on \in BOOLEAN, NEW e \in Every, SetTicker(s, on, e)
      PROVE TypeOK'
  <2>1. [source[s] EXCEPT !.ticker = on, !.every = e] \in SourceRow
    BY RowTicker
  <2>. QED  BY <1>3, <2>1, SourceEdit DEF SetTicker, OneRunEach, history
<1>4. ASSUME NEW p \in Proc, NEW s \in Source, Read(p, s) PROVE TypeOK'
  <2>. DEFINE c == [at |-> "read", source |-> s, url |-> source[s].url,
                    tag |-> source[s].tag, run |-> None, age |-> 0, got |-> None]
  <2>1. source[s].url \in Url \cup {None} /\ source[s].tag \in Version \cup {None}
    BY DEF SourceRow
  <2>2. c \in Call /\ c.run = None
    <3>1. 0 \in 0 .. LongestEvery  OBVIOUS
    <3>. HIDE DEF Inv, TypeOK
    <3>. QED  BY <2>1, <3>1 DEF Call, Phase
  <2>3. call' = [call EXCEPT ![p] = c]  BY <1>4 DEF Read
  <2>4. OneRunEach'  BY <2>2, <2>3 DEF OneRunEach
  <2>. QED  BY <1>4, <2>2, <2>3, <2>4, CallEdit DEF Read, history
<1>5. ASSUME NEW p \in Proc, NEW r \in Run, InsertRun(p, r) PROVE TypeOK'
  <2>. DEFINE c == [call[p] EXCEPT !.at = "begun", !.run = r]
  <2>1. c \in Call /\ c.run = r  BY DEF Call, Phase
  <2>2. call' = [call EXCEPT ![p] = c]  BY <1>5 DEF InsertRun
  <2>3. \A q \in Proc : call[q].run # r  BY <1>5 DEF InsertRun, Reusable
  <2>4. OneRunEach'  BY <2>1, <2>2, <2>3 DEF OneRunEach
  <2>5. [status |-> "running", age |-> 0] \in RunRow  BY DEF RunRow
  <2>. QED
    BY <1>5, <2>1, <2>2, <2>4, <2>5, CallEdit, RunEdit DEF InsertRun, Outcome
<1>6. ASSUME NEW p \in Proc, NEW c \in Call,
             call' = [call EXCEPT ![p] = c], c.run \in {None, call[p].run}
      PROVE  call' \in [Proc -> Call] /\ OneRunEach'
  BY <1>6, CallEdit DEF OneRunEach
<1>7. ASSUME NEW p \in Proc, NEW phase \in Phase,
             call' = [call EXCEPT ![p].at = phase]
      PROVE  call' \in [Proc -> Call] /\ OneRunEach'
  <2>1. [call[p] EXCEPT !.at = phase] \in Call  BY DEF Call
  <2>2. call' = [call EXCEPT ![p] = [call[p] EXCEPT !.at = phase]]  BY <1>7
  <2>3. [call[p] EXCEPT !.at = phase].run = call[p].run  BY DEF Call
  <2>. QED  BY <1>6, <2>1, <2>2, <2>3
<1>8. ASSUME NEW p \in Proc, Leave(p) PROVE call' \in [Proc -> Call] /\ OneRunEach'
  <2>1. NoCall \in Call /\ NoCall.run = None  BY DEF Call, NoCall, Phase
  <2>. QED  BY <1>6, <1>8, <2>1 DEF Leave
<1>9. ASSUME NEW p \in Proc, NEW status \in Closed, Close(p, status),
             call[p].at \in Working \cup {"failing"}
      PROVE  run' \in [Run -> RunRow]
  <2>1. [status |-> status, age |-> 0] \in RunRow  BY DEF RunRow
  <2>2. call[p].run \in Run  BY <1>9 DEF CallInv, CallOK
  <2>. QED  BY <1>9, <2>1, <2>2, RunEdit DEF Close
<1>10. ASSUME NEW p \in Proc, Stamp(p) PROVE TypeOK'
  <2>. DEFINE s == call[p].source
              c == [call[p] EXCEPT !.at = "asking", !.age = 0]
  <2>1. s \in Source  BY <1>10 DEF Stamp, CallInv, CallOK
  <2>2. call[p].age \in 0 .. LongestEvery  BY DEF Call
  <2>3. [source[s] EXCEPT !.idle = call[p].age] \in SourceRow
    BY <2>1, <2>2 DEF SourceRow
  <2>4. source' = [source EXCEPT ![s] = [source[s] EXCEPT !.idle = call[p].age]]
    BY <1>10 DEF Stamp
  <2>5. c \in Call /\ c.run = call[p].run
    <3>. HIDE DEF Inv, TypeOK
    <3>1. call[p] \in Call  BY DEF Inv, TypeOK
    <3>. QED  BY <3>1, CallStamped
  <2>6. call' = [call EXCEPT ![p] = c]  BY <1>10 DEF Stamp
  <2>. QED
    BY <1>6, <1>10, <2>1, <2>3, <2>4, <2>5, <2>6, SourceEdit DEF Stamp, history
<1>11. ASSUME NEW p \in Proc, Answer(p) PROVE TypeOK'
  <2>. DEFINE phase == IF NotNewer(p) THEN "unchanged" ELSE "body"
              c == [call[p] EXCEPT !.at = phase, !.got = serving[call[p].url]]
  <2>1. /\ call[p].url \in Url /\ serving[call[p].url] \in Version
        /\ phase \in Phase /\ call[p] \in Call
    BY <1>11 DEF Answer, CallInv, CallOK, Phase, Fetching
  <2>2. c \in Call /\ c.run = call[p].run
    <3>. HIDE DEF phase, Inv, TypeOK
    <3>. QED  BY <2>1, CallGot
  <2>3. call' = [call EXCEPT ![p] = c]  BY <1>11 DEF Answer
  <2>. QED  BY <1>6, <1>11, <2>2, <2>3 DEF Answer, history
<1>12. ASSUME NEW p \in Proc, call[p].at = "body", StoreBody(p)
       PROVE  /\ source' \in [Source -> SourceRow] /\ run' \in [Run -> RunRow]
              /\ kept' \subseteq Source \X Url \X Version
  <2>1. call[p].source \in Source /\ call[p].url \in Url /\ call[p].got \in Version
    BY <1>12 DEF CallInv, CallOK, Working, Fetching
  <2>2. PICK t \in {call[p].got, None} :
          source' = [source EXCEPT ![call[p].source].tag = t]
    BY <1>12 DEF StoreBody
  <2>3. [source[call[p].source] EXCEPT !.tag = t] \in SourceRow  BY <2>1 DEF SourceRow
  <2>4. source' = [source EXCEPT ![call[p].source] =
                     [source[call[p].source] EXCEPT !.tag = t]]
    BY <2>2
  <2>5. source' \in [Source -> SourceRow]  BY <2>1, <2>3, <2>4, SourceEdit
  <2>6. run' \in [Run -> RunRow]  BY <1>9, <1>12 DEF StoreBody, Working, Closed
  <2>. QED  BY <1>12, <2>1, <2>5, <2>6 DEF StoreBody
<1>13. ASSUME NEW p \in Proc, Store(p) PROVE TypeOK'
  BY <1>8, <1>12, <1>13 DEF Store, Outcome
<1>14. ASSUME NEW p \in Proc, StoreInDoubt(p) PROVE TypeOK'
  BY <1>7, <1>12, <1>14 DEF StoreInDoubt, Phase, Outcome
<1>15. ASSUME NEW p \in Proc, NotModified(p) PROVE TypeOK'
  BY <1>8, <1>9, <1>15 DEF NotModified, Working, Closed, history
<1>16. ASSUME NEW p \in Proc, FetchFails(p) PROVE TypeOK'
  BY <1>7, <1>16 DEF FetchFails, Phase, history
<1>17. ASSUME NEW p \in Proc, RecordFailure(p) PROVE TypeOK'
  BY <1>8, <1>9, <1>17 DEF RecordFailure, Closed, history
<1>18. ASSUME NEW p \in Proc, Abandon(p) PROVE TypeOK'
  BY <1>8, <1>18 DEF Abandon, history
<1>19. CASE Open
  <2>1. [status |-> "failed", age |-> 0] \in RunRow  BY DEF RunRow, Closed
  <2>. QED  BY <1>19, <2>1 DEF Open, OneRunEach, history
<1>20. ASSUME NEW u \in Url, Publish(u) PROVE TypeOK'
  BY <1>20 DEF Publish, OneRunEach, Version, history
<1>21. CASE Tick
  <2>1. ASSUME NEW r \in Run
        PROVE  [run[r] EXCEPT !.age = AtMost(StaleAge + 1, @ + 1)] \in RunRow
    <3>1. run[r].age \in Nat  BY DEF RunRow
    <3>. HIDE DEF Inv, TypeOK
    <3>2. StaleAge + 1 \in Nat /\ run[r].age + 1 \in Nat  BY <3>1, TickerAssumption
    <3>3. AtMost(StaleAge + 1, run[r].age + 1) \in 0 .. StaleAge + 1
      BY <3>2, AtMostType
    <3>4. run[r] \in RunRow  BY DEF Inv, TypeOK
    <3>. QED  BY <3>3, <3>4 DEF RunRow
  <2>2. ASSUME NEW s \in Source
        PROVE  [source[s] EXCEPT !.idle = AtMost(LongestEvery, @ + 1)] \in SourceRow
    <3>1. source[s].idle \in Nat  BY DEF SourceRow
    <3>. HIDE DEF Inv, TypeOK
    <3>2. LongestEvery \in Nat /\ source[s].idle + 1 \in Nat  BY <3>1, LongestIsEvery
    <3>3. AtMost(LongestEvery, source[s].idle + 1) \in 0 .. LongestEvery
      BY <3>2, AtMostType
    <3>4. source[s] \in SourceRow  BY DEF Inv, TypeOK
    <3>. QED  BY <3>3, <3>4 DEF SourceRow
  <2>3. run' \in [Run -> RunRow]  BY <1>21, <2>1 DEF Tick
  <2>4. source' \in [Source -> SourceRow]  BY <1>21, <2>2 DEF Tick
  <2>5. call' \in [Proc -> Call] /\ \A p \in Proc : call'[p].run = call[p].run
    BY <1>21, CallsAged
  <2>. QED  BY <1>21, <2>3, <2>4, <2>5 DEF Tick, OneRunEach, history
<1>23. ASSUME NEW s \in Source, Poll(s) PROVE TypeOK'
  <2>. DEFINE c == [call[Daemon] EXCEPT !.at = "chosen", !.source = s]
  <2>1. call[Daemon] \in Call  OBVIOUS
  <2>2. c \in Call /\ c.run = call[Daemon].run
    <3>1. [call[Daemon] EXCEPT !.at = "chosen"] \in Call  BY <2>1 DEF Call, Phase
    <3>2. \A x \in Call : [x EXCEPT !.source = s] \in Call  BY DEF Call
    <3>. QED  BY <2>1, <3>1, <3>2 DEF Call
  <2>3. call' = [call EXCEPT ![Daemon] = c]  BY <1>23 DEF Poll
  <2>. QED  BY <1>6, <1>23, <2>2, <2>3 DEF Poll, history
<1>24. ASSUME NEW p \in Proc, Refuse(p) PROVE TypeOK'
  BY <1>8, <1>24 DEF Refuse, history
<1>22. CASE UNCHANGED vars
  BY <1>22 DEF vars, OneRunEach, history
<1>. QED
  BY <1>1, <1>2, <1>3, <1>4, <1>5, <1>10, <1>11, <1>13, <1>14, <1>15, <1>16, <1>17,
     <1>18, <1>19, <1>20, <1>21, <1>22, <1>23, <1>24 DEF Next, Step

(* Steps preserve what calls rely on.                                      *)
LEMMA CallStep == Inv /\ [Next]_vars => CallInv'
<1>. SUFFICES ASSUME Inv, [Next]_vars PROVE CallInv'  OBVIOUS
<1>. USE TickerAssumption DEF Inv, TypeOK
<1>1. \A p \in Proc : CallOK(p)  BY DEF CallInv
<1>2. ASSUME NEW q \in Proc, call'[q] = call[q], serving' = serving,
             \A s \in Source : Exists(s) => Exists(s)',
             \A r \in Run : call[q].run = r => outcome'[r] = outcome[r]
      PROVE  CallOK(q)'
  BY <1>1, <1>2 DEF CallOK, Working, Fetching
<1>3. ASSUME NEW p \in Proc, Leave(p), serving' = serving,
             \A s \in Source : Exists(s) => Exists(s)',
             \A r \in Run : r # call[p].run => outcome'[r] = outcome[r]
      PROVE  CallInv'
  <2>1. CallOK(p)'  BY <1>3 DEF Leave, CallOK, NoCall, Working, Fetching
  <2>2. ASSUME NEW q \in Proc \ {p} PROVE CallOK(q)'
    <3>1. call'[q] = call[q]  BY <1>3 DEF Leave
    <3>2. ASSUME NEW r \in Run, call[q].run = r, call[p].run = r PROVE FALSE
      BY <3>2 DEF OneRunEach
    <3>. QED
      BY <1>2, <1>3, <3>1, <3>2 DEF Leave
  <2>. QED  BY <2>1, <2>2 DEF CallInv
<1>4. ASSUME NEW s \in Source, NEW u \in Url, Register(s, u) PROVE CallInv'
  <2>1. \A t \in Source : Exists(t) => Exists(t)'  BY <1>4 DEF Register, Exists
  <2>. QED  BY <1>2, <1>4, <2>1 DEF Register, CallInv
<1>5. ASSUME NEW s \in Source, NEW on \in BOOLEAN, SetEnabled(s, on) PROVE CallInv'
  <2>1. \A t \in Source : Exists(t) => Exists(t)'  BY <1>5 DEF SetEnabled, Exists
  <2>. QED  BY <1>2, <1>5, <2>1 DEF SetEnabled, CallInv, history
<1>6. ASSUME NEW s \in Source, NEW on \in BOOLEAN, NEW e \in Every, SetTicker(s, on, e)
      PROVE CallInv'
  <2>1. \A t \in Source : Exists(t) => Exists(t)'
    <3>1. ASSUME NEW t \in Source PROVE source'[t].url = source[t].url
      BY <1>6 DEF SetTicker
    <3>. QED  BY <3>1 DEF Exists
  <2>. QED  BY <1>2, <1>6, <2>1 DEF SetTicker, CallInv, history
<1>7. ASSUME NEW p \in Proc, NEW s \in Source, Read(p, s) PROVE CallInv'
  <2>1. CallOK(p)'
    BY <1>7 DEF Read, CallOK, NoCall, Working, Fetching, Exists, SourceRow
  <2>2. ASSUME NEW q \in Proc \ {p} PROVE CallOK(q)'
    BY <1>2, <1>7 DEF Read, Exists, history
  <2>. QED  BY <2>1, <2>2 DEF CallInv
<1>8. ASSUME NEW p \in Proc, NEW r \in Run, InsertRun(p, r) PROVE CallInv'
  <2>1. CallOK(p)'
    <3>1. call'[p] = [call[p] EXCEPT !.at = "begun", !.run = r]  BY <1>8 DEF InsertRun
    <3>2. outcome'[r] = "nothing" /\ UNCHANGED <<source, serving>>
      BY <1>8 DEF InsertRun
    <3>3. call[p] \in Call /\ call[p].at = "read"  BY <1>8 DEF InsertRun
    <3>4. CallOK(p)  BY <1>1
    <3>. HIDE DEF Inv, TypeOK
    <3>. QED  BY <3>1, <3>2, <3>3, <3>4 DEF Call, CallOK, Working, Fetching, Exists
  <2>2. ASSUME NEW q \in Proc \ {p} PROVE CallOK(q)'
    BY <1>2, <1>8 DEF InsertRun, Reusable, Exists
  <2>. QED  BY <2>1, <2>2 DEF CallInv
<1>9. ASSUME NEW p \in Proc, NEW phase \in {"failing", "asking"},
             call[p].at \in Working, phase = "asking" => outcome' = outcome,
             call'[p].at = phase, call'[p].run = call[p].run,
             call'[p].source = call[p].source, call'[p].url = call[p].url,
             \A q \in Proc \ {p} : call'[q] = call[q],
             \A s \in Source : Exists(s) => Exists(s)', UNCHANGED serving,
             outcome'[call[p].run] # "stored",
             \A r \in Run : r # call[p].run => outcome'[r] = outcome[r]
      PROVE  CallInv'
  <2>1. CallOK(p)'
    BY <1>1, <1>9 DEF CallOK, Working, Fetching
  <2>2. ASSUME NEW q \in Proc \ {p} PROVE CallOK(q)'
    <3>1. ASSUME NEW r \in Run, call[q].run = r, call[p].run = r PROVE FALSE
      BY <3>1 DEF OneRunEach
    <3>. QED  BY <1>2, <1>9, <3>1
  <2>. QED  BY <2>1, <2>2 DEF CallInv
<1>25. ASSUME NEW p \in Proc, NEW phase \in Phase, call' = [call EXCEPT ![p].at = phase]
       PROVE  /\ call'[p].at = phase /\ call'[p].run = call[p].run
              /\ call'[p].source = call[p].source /\ call'[p].url = call[p].url
              /\ \A q \in Proc \ {p} : call'[q] = call[q]
  BY <1>25 DEF Call
<1>10. ASSUME NEW p \in Proc, Stamp(p) PROVE CallInv'
  <2>1. ASSUME NEW t \in Source PROVE source'[t].url = source[t].url
    BY <1>10 DEF Stamp
  <2>2. \A t \in Source : Exists(t) => Exists(t)'  BY <2>1 DEF Exists
  <2>3. outcome' = outcome /\ serving' = serving /\ call[p].at = "begun"
    BY <1>10 DEF Stamp, history
  <2>4. outcome[call[p].run] = "nothing"  BY <1>1, <2>3 DEF CallOK, Working
  <2>5. call'[p] = [call[p] EXCEPT !.at = "asking", !.age = 0]  BY <1>10 DEF Stamp
  <2>6. \A q \in Proc \ {p} : call'[q] = call[q]  BY <1>10 DEF Stamp
  <2>7. call[p] \in Call  OBVIOUS
  <2>8. /\ call'[p].at = "asking" /\ call'[p].run = call[p].run
        /\ call'[p].source = call[p].source /\ call'[p].url = call[p].url
    <3>. HIDE DEF Inv, TypeOK
    <3>. QED  BY <2>5, <2>7, CallStamped
  <2>. QED  BY <1>9, <2>2, <2>3, <2>4, <2>6, <2>8 DEF Working
<1>11. ASSUME NEW p \in Proc, Answer(p) PROVE CallInv'
  <2>1. CallOK(p)'
    <3>1. call[p].url \in Url  BY <1>1, <1>11 DEF Answer, CallOK, Fetching
    <3>2. /\ call'[p].source = call[p].source /\ call'[p].url = call[p].url
          /\ call'[p].run = call[p].run /\ call'[p].got = serving[call[p].url]
          /\ call'[p].at \in {"unchanged", "body"}
      BY <1>11 DEF Answer, Call
    <3>3. serving[call[p].url] \in Version /\ UNCHANGED <<source, outcome, serving>>
      BY <1>11, <3>1 DEF Answer, history
    <3>4. serving[call[p].url] \in Nat  BY <3>3 DEF Version
    <3>. HIDE DEF Inv, TypeOK
    <3>. QED  BY <1>1, <1>11, <3>1, <3>2, <3>3, <3>4 DEF Answer, CallOK, Working, Fetching, Exists
  <2>2. ASSUME NEW q \in Proc \ {p} PROVE CallOK(q)'
    BY <1>2, <1>11 DEF Answer, Exists, history
  <2>. QED  BY <2>1, <2>2 DEF CallInv
<1>12. ASSUME NEW p \in Proc, StoreBody(p)
       PROVE  \A t \in Source : source'[t].url = source[t].url
  BY <1>12 DEF StoreBody
<1>13. ASSUME NEW p \in Proc, Store(p) PROVE CallInv'
  <2>1. \A t \in Source : Exists(t) => Exists(t)'
    BY <1>12, <1>13 DEF Store, Exists
  <2>. QED  BY <1>3, <1>13, <2>1 DEF Store
<1>14. ASSUME NEW p \in Proc, StoreInDoubt(p) PROVE CallInv'
  <2>1. \A t \in Source : Exists(t) => Exists(t)'
    BY <1>12, <1>14 DEF StoreInDoubt, Exists
  <2>2. call[p].at \in Working  BY <1>14 DEF StoreInDoubt, Working
  <2>3. call[p].run \in Run  BY <1>1, <2>2 DEF CallOK
  <2>4. outcome' = [outcome EXCEPT ![call[p].run] = "doubtful"] /\ serving' = serving
    BY <1>14 DEF StoreInDoubt
  <2>5. /\ outcome'[call[p].run] # "stored"
        /\ \A r \in Run : r # call[p].run => outcome'[r] = outcome[r]
    BY <2>3, <2>4
  <2>6. "failing" \in Phase /\ call' = [call EXCEPT ![p].at = "failing"]
    BY <1>14 DEF StoreInDoubt, Phase
  <2>. QED  BY <1>9, <1>25, <2>1, <2>2, <2>4, <2>5, <2>6
<1>15. ASSUME NEW p \in Proc, NotModified(p) PROVE CallInv'
  BY <1>3, <1>15 DEF NotModified, Exists, history
<1>16. ASSUME NEW p \in Proc, FetchFails(p) PROVE CallInv'
  <2>1. call[p].at \in Working  BY <1>16 DEF FetchFails, Working
  <2>2. outcome[call[p].run] = "nothing"  BY <1>1, <2>1 DEF CallOK
  <2>3. UNCHANGED <<source, serving, outcome>>  BY <1>16 DEF FetchFails, history
  <2>4. "failing" \in Phase /\ call' = [call EXCEPT ![p].at = "failing"]
    BY <1>16 DEF FetchFails, Phase
  <2>. QED  BY <1>9, <1>25, <2>1, <2>2, <2>3, <2>4 DEF Exists
<1>17. ASSUME NEW p \in Proc, RecordFailure(p) PROVE CallInv'
  BY <1>3, <1>17 DEF RecordFailure, Exists, history
<1>18. ASSUME NEW p \in Proc, Abandon(p) PROVE CallInv'
  BY <1>3, <1>18 DEF Abandon, Exists, history
<1>24. ASSUME NEW p \in Proc, Refuse(p) PROVE CallInv'
  BY <1>3, <1>24 DEF Refuse, Exists, history
<1>23. ASSUME NEW s \in Source, Poll(s) PROVE CallInv'
  <2>1. call'[Daemon].at = "chosen" /\ call'[Daemon].source = s
    BY <1>23 DEF Poll, Call
  <2>2. Exists(s)' /\ UNCHANGED <<serving, outcome, source>>
    BY <1>23 DEF Poll, Due, Exists, history
  <2>3. CallOK(Daemon)'  BY <2>1, <2>2 DEF CallOK, Working, Fetching
  <2>4. ASSUME NEW q \in Proc \ {Daemon} PROVE CallOK(q)'
    BY <1>2, <1>23, <2>2 DEF Poll, Exists
  <2>. QED  BY <2>3, <2>4 DEF CallInv
<1>19. CASE Open
  BY <1>2, <1>19 DEF Open, Exists, history, CallInv
<1>20. ASSUME NEW u \in Url, Publish(u) PROVE CallInv'
  <2>1. \A w \in Url : serving[w] \in Nat /\ serving'[w] \in Nat /\ serving[w] <= serving'[w]
    BY <1>20 DEF Publish, Version
  <2>2. ASSUME NEW q \in Proc PROVE CallOK(q)'
    <3>. HIDE DEF Inv, TypeOK
    <3>. QED  BY <1>1, <1>20, <2>1 DEF Publish, CallOK, Working, Fetching, Exists, Version, history
  <2>. QED  BY <2>2 DEF CallInv
<1>21. CASE Tick
  <2>1. ASSUME NEW s \in Source PROVE source'[s].url = source[s].url
    <3>1. source'[s] = [source[s] EXCEPT !.idle = AtMost(LongestEvery, @ + 1)]
      BY <1>21 DEF Tick
    <3>2. source[s] \in SourceRow  OBVIOUS
    <3>. HIDE DEF Inv, TypeOK
    <3>. QED  BY <3>1, <3>2 DEF SourceRow
  <2>2. \A s \in Source : Exists(s) => Exists(s)'  BY <2>1 DEF Exists
  <2>3. UNCHANGED <<serving, outcome>>  BY <1>21 DEF Tick, history
  <2>4. ASSUME NEW q \in Proc PROVE CallOK(q)'
    <3>1. /\ call'[q].at = call[q].at /\ call'[q].run = call[q].run
          /\ call'[q].source = call[q].source /\ call'[q].url = call[q].url
          /\ call'[q].got = call[q].got
      BY <1>21, CallsAged
    <3>2. CallOK(q)  BY <1>1
    <3>. HIDE DEF Inv, TypeOK
    <3>. QED  BY <2>2, <2>3, <3>1, <3>2 DEF CallOK, Working, Fetching
  <2>. QED  BY <2>4 DEF CallInv
<1>22. CASE UNCHANGED vars
  BY <1>1, <1>22 DEF vars, history, CallInv, CallOK, Exists, Working, Fetching
<1>. QED
  BY <1>4, <1>5, <1>6, <1>7, <1>8, <1>10, <1>11, <1>13, <1>14, <1>15, <1>16, <1>17,
     <1>18, <1>19, <1>20, <1>21, <1>22, <1>23, <1>24 DEF Next, Step

(* Steps preserve what validators stand for.                               *)
LEMMA TagStep == Inv /\ [Next]_vars => TagInv'
<1>. SUFFICES ASSUME Inv, [Next]_vars PROVE TagInv'  OBVIOUS
<1>. USE TickerAssumption DEF Inv, TypeOK
<1>1. /\ KeptInv
      /\ \A s \in Source : SourceTag(s)
      /\ \A p \in Proc : CallTag(p) /\ CallOK(p)
  BY DEF TagInv, CallInv
<1>2. ASSUME NEW p \in Proc, call'[p] = call[p], kept \subseteq kept',
             moved \subseteq moved', Fetching(p),
             ~ Honest(call[p].source)' \/ source'[call[p].source].url = source[call[p].source].url
      PROVE  CallTag(p)'
  BY <1>1, <1>2 DEF CallTag, Honest, IsStored, Fetching
<1>3. ASSUME NEW p \in Proc, ~Fetching(p)' PROVE CallTag(p)'
  BY <1>3 DEF CallTag
<1>4. ASSUME UNCHANGED <<kept, serving>> PROVE KeptInv'
  BY <1>1, <1>4 DEF KeptInv
<1>5. ASSUME UNCHANGED <<kept, moved>>,
             \A s \in Source : source'[s].url = source[s].url /\ source'[s].tag = source[s].tag
      PROVE  \A s \in Source : SourceTag(s)'
  BY <1>1, <1>5 DEF SourceTag, Honest
<1>6. ASSUME UNCHANGED <<kept, moved>>, UNCHANGED call \/ Tick,
             \A s \in Source : source'[s].url = source[s].url
      PROVE  \A p \in Proc : CallTag(p)'
  <2>. SUFFICES ASSUME NEW p \in Proc PROVE CallTag(p)'  OBVIOUS
  <2>1. /\ call'[p].at = call[p].at /\ call'[p].source = call[p].source
        /\ call'[p].url = call[p].url /\ call'[p].tag = call[p].tag
        /\ call'[p].got = call[p].got
    BY <1>6, CallsAged
  <2>2. Fetching(p) => call[p].source \in Source  BY <1>1 DEF CallOK, Fetching
  <2>3. CallTag(p)  BY <1>1
  <2>. HIDE DEF Inv, TypeOK
  <2>. QED  BY <1>6, <2>1, <2>2, <2>3 DEF CallTag, Honest, IsStored, Fetching
<1>7. ASSUME NEW p \in Proc, Leave(p), UNCHANGED <<kept, serving, moved, source>>
      PROVE  TagInv'
  <2>1. ~Fetching(p)'  BY <1>7 DEF Leave, NoCall, Fetching
  <2>2. ASSUME NEW q \in Proc \ {p} PROVE CallTag(q)'
    <3>1. call'[q] = call[q]  BY <1>7 DEF Leave
    <3>. QED  BY <1>2, <1>3, <1>7, <3>1 DEF Fetching
  <2>. QED  BY <1>3, <1>4, <1>5, <1>7, <2>1, <2>2 DEF TagInv
<1>8. ASSUME NEW p \in Proc, Fetching(p), call'[p].at # "unchanged",
             call'[p].source = call[p].source, call'[p].url = call[p].url,
             call'[p].tag = call[p].tag, \A q \in Proc \ {p} : call'[q] = call[q],
             kept \subseteq kept', moved' = moved,
             \A s \in Source : source'[s].url = source[s].url
      PROVE  \A q \in Proc : CallTag(q)'
  <2>1. call[p].source \in Source  BY <1>1, <1>8 DEF CallOK, Fetching
  <2>2. CallTag(p)'
    <3>1. source'[call[p].source].url = source[call[p].source].url /\ CallTag(p)
      BY <1>1, <1>8, <2>1
    <3>. HIDE DEF Inv, TypeOK
    <3>. QED  BY <1>8, <3>1 DEF CallTag, Honest
  <2>3. ASSUME NEW q \in Proc \ {p} PROVE CallTag(q)'
    <3>1. Fetching(q) => call[q].source \in Source  BY <1>1 DEF CallOK, Fetching
    <3>. QED  BY <1>2, <1>3, <1>8, <3>1 DEF Fetching
  <2>. QED  BY <2>2, <2>3
<1>25. ASSUME NEW p \in Proc, NEW phase \in Phase, call' = [call EXCEPT ![p].at = phase]
       PROVE  /\ call'[p].at = phase /\ call'[p].tag = call[p].tag
              /\ call'[p].source = call[p].source /\ call'[p].url = call[p].url
              /\ \A q \in Proc \ {p} : call'[q] = call[q]
  BY <1>25 DEF Call
<1>9. ASSUME NEW s \in Source, NEW u \in Url, Register(s, u) PROVE TagInv'
  <2>1. ASSUME NEW t \in Source \ {s} PROVE source'[t] = source[t]
    BY <1>9 DEF Register
  <2>2. source'[s].url = u /\ source'[s].tag = source[s].tag
    <3>1. source'[s] = [source[s] EXCEPT !.url = u, !.enabled = TRUE]
      BY <1>9 DEF Register
    <3>2. source[s] \in SourceRow  OBVIOUS
    <3>. HIDE DEF Inv, TypeOK
    <3>. QED  BY <3>1, <3>2 DEF SourceRow
  <2>3. moved \subseteq moved' /\ kept' = kept /\ call' = call /\ serving' = serving
    BY <1>9 DEF Register
  <2>4. ~ Honest(s)' \/ source[s].url \in {None, u}
    BY <1>9 DEF Register, Honest
  <2>5. SourceTag(s)'
    <3>1. CASE source[s].url = None /\ Honest(s)
      <4>1. \A v : <<s, None, v>> \notin kept  OBVIOUS
      <4>2. source[s].tag = None  BY <1>1, <3>1, <4>1 DEF SourceTag
      <4>. QED  BY <2>2, <4>2 DEF SourceTag
    <3>2. CASE source[s].url = u
      BY <1>1, <2>2, <2>3, <3>2 DEF SourceTag, Honest
    <3>3. CASE ~ Honest(s)'
      BY <3>3 DEF SourceTag
    <3>. QED  BY <2>3, <2>4, <3>1, <3>2, <3>3 DEF Honest
  <2>6. \A t \in Source \ {s} : SourceTag(t)'
    BY <1>1, <2>1, <2>3 DEF SourceTag, Honest
  <2>7. ASSUME NEW p \in Proc, Fetching(p) PROVE CallTag(p)'
    <3>1. call[p].source \in Source /\ source[call[p].source].url # None
      BY <1>1, <2>7 DEF CallOK, Exists, Fetching
    <3>2. ~ Honest(call[p].source)' \/ source'[call[p].source].url = source[call[p].source].url
      BY <2>1, <2>2, <2>3, <2>4, <3>1 DEF Honest
    <3>. QED  BY <1>2, <2>3, <2>7, <3>2
  <2>8. \A p \in Proc : CallTag(p)'  BY <1>3, <2>3, <2>7 DEF Fetching
  <2>. QED  BY <1>4, <2>3, <2>5, <2>6, <2>8 DEF TagInv
<1>10. ASSUME NEW s \in Source, NEW on \in BOOLEAN, SetEnabled(s, on) PROVE TagInv'
  <2>1. ASSUME NEW t \in Source
        PROVE  source'[t].url = source[t].url /\ source'[t].tag = source[t].tag
    BY <1>10 DEF SetEnabled, SourceRow
  <2>. QED  BY <1>4, <1>5, <1>6, <1>10, <2>1 DEF SetEnabled, TagInv, history
<1>11. ASSUME NEW s \in Source, NEW on \in BOOLEAN, NEW e \in Every, SetTicker(s, on, e)
       PROVE TagInv'
  <2>1. ASSUME NEW t \in Source
        PROVE  source'[t].url = source[t].url /\ source'[t].tag = source[t].tag
    BY <1>11 DEF SetTicker, SourceRow
  <2>. QED  BY <1>4, <1>5, <1>6, <1>11, <2>1 DEF SetTicker, TagInv, history
<1>12. ASSUME NEW p \in Proc, NEW s \in Source, Read(p, s) PROVE TagInv'
  <2>1. /\ call'[p].at = "read" /\ call'[p].source = s
        /\ call'[p].url = source[s].url /\ call'[p].tag = source[s].tag
    BY <1>12 DEF Read, NoCall
  <2>2. UNCHANGED <<source, kept, moved, serving>>  BY <1>12 DEF Read, history
  <2>3. CallTag(p)'
    BY <1>1, <2>1, <2>2 DEF CallTag, SourceTag, Honest
  <2>4. ASSUME NEW q \in Proc \ {p} PROVE CallTag(q)'
    <3>1. call'[q] = call[q]  BY <1>12 DEF Read
    <3>. QED  BY <1>2, <1>3, <2>2, <3>1 DEF Fetching
  <2>. QED  BY <1>4, <1>5, <2>2, <2>3, <2>4 DEF TagInv
<1>13. ASSUME NEW p \in Proc, NEW r \in Run, InsertRun(p, r) PROVE TagInv'
  <2>1. UNCHANGED <<source, kept, moved, serving>>  BY <1>13 DEF InsertRun
  <2>2. /\ call'[p].source = call[p].source /\ call'[p].url = call[p].url
        /\ call'[p].tag = call[p].tag /\ call'[p].at = "begun" /\ Fetching(p)
    <3>1. call'[p] = [call[p] EXCEPT !.at = "begun", !.run = r]  BY <1>13 DEF InsertRun
    <3>2. call[p] \in Call /\ call[p].at = "read"  BY <1>13 DEF InsertRun
    <3>. HIDE DEF Inv, TypeOK
    <3>. QED  BY <3>1, <3>2 DEF Call, Fetching
  <2>3. CallTag(p)'
    BY <1>1, <2>1, <2>2 DEF CallTag, Honest
  <2>4. ASSUME NEW q \in Proc \ {p} PROVE CallTag(q)'
    <3>1. call'[q] = call[q]  BY <1>13 DEF InsertRun
    <3>. QED  BY <1>2, <1>3, <2>1, <3>1 DEF Fetching
  <2>. QED  BY <1>4, <1>5, <2>1, <2>3, <2>4 DEF TagInv
<1>14. ASSUME NEW p \in Proc, Stamp(p) PROVE TagInv'
  <2>1. ASSUME NEW t \in Source
        PROVE  source'[t].url = source[t].url /\ source'[t].tag = source[t].tag
    BY <1>14 DEF Stamp, SourceRow
  <2>2. UNCHANGED <<kept, moved, serving>> /\ Fetching(p)
    BY <1>14 DEF Stamp, history, Fetching
  <2>3. /\ call'[p].at # "unchanged" /\ call'[p].source = call[p].source
        /\ call'[p].url = call[p].url /\ call'[p].tag = call[p].tag
    <3>1. call[p] \in Call  OBVIOUS
    <3>2. call'[p] = [call[p] EXCEPT !.at = "asking", !.age = 0]  BY <1>14 DEF Stamp
    <3>. HIDE DEF Inv, TypeOK
    <3>. QED  BY <3>1, <3>2, CallStamped
  <2>4. \A q \in Proc \ {p} : call'[q] = call[q]  BY <1>14 DEF Stamp
  <2>5. \A q \in Proc : CallTag(q)'  BY <1>8, <2>1, <2>2, <2>3, <2>4
  <2>. QED  BY <1>4, <1>5, <2>1, <2>2, <2>5 DEF TagInv
<1>15. ASSUME NEW p \in Proc, Answer(p) PROVE TagInv'
  <2>1. UNCHANGED <<source, kept, moved, serving>>  BY <1>15 DEF Answer, history
  <2>2. /\ call'[p].source = call[p].source /\ call'[p].url = call[p].url
        /\ call'[p].tag = call[p].tag /\ call'[p].got = serving[call[p].url]
        /\ call'[p].at = "unchanged" => NotNewer(p)
    BY <1>15 DEF Answer, Call
  <2>3. ASSUME call'[p].at = "unchanged", Honest(call[p].source)
        PROVE  <<call[p].source, call[p].url, serving[call[p].url]>> \in kept
    <3>. DEFINE s == call[p].source
                u == call[p].url
                t == call[p].tag
    <3>1. s \in Source /\ u \in Url  BY <1>1, <1>15 DEF Answer, CallOK, Fetching
    <3>2. <<s, u, t>> \in kept /\ serving[u] <= t
      BY <1>1, <1>15, <2>2, <2>3 DEF Answer, CallTag, NotNewer, Fetching
    <3>3. t \in Version  BY <3>2
    <3>4. t <= serving[u]  BY <1>1, <3>1, <3>2, <3>3 DEF KeptInv
    <3>5. serving[u] \in Version  BY <3>1
    <3>6. t = serving[u]  BY <3>2, <3>3, <3>4, <3>5 DEF Version
    <3>. QED  BY <3>2, <3>6
  <2>4. CallTag(p)'
    <3>1. Fetching(p) /\ CallTag(p)  BY <1>1, <1>15 DEF Answer, Fetching
    <3>. HIDE DEF Inv, TypeOK
    <3>. QED  BY <2>1, <2>2, <2>3, <3>1 DEF CallTag, Honest, IsStored
  <2>5. ASSUME NEW q \in Proc \ {p} PROVE CallTag(q)'
    <3>1. call'[q] = call[q]  BY <1>15 DEF Answer
    <3>. QED  BY <1>2, <1>3, <2>1, <3>1 DEF Fetching
  <2>. QED  BY <1>4, <1>5, <2>1, <2>4, <2>5 DEF TagInv
<1>16. ASSUME NEW p \in Proc, call[p].at = "body", StoreBody(p), UNCHANGED <<serving, moved>>
       PROVE  /\ KeptInv' /\ \A s \in Source : SourceTag(s)'
              /\ kept \subseteq kept'
              /\ \A s \in Source : source'[s].url = source[s].url
  <2>1. PICK s \in Source, u \in Url, v \in Version :
          s = call[p].source /\ u = call[p].url /\ v = call[p].got /\ v <= serving[u]
    BY <1>1, <1>16 DEF CallOK, Fetching
  <2>2. kept' = kept \cup {<<s, u, v>>}  BY <1>16, <2>1 DEF StoreBody
  <2>3. KeptInv'  BY <1>1, <1>16, <2>1, <2>2 DEF KeptInv
  <2>4. PICK t \in {v, None} : source' = [source EXCEPT ![s].tag = t]
    BY <1>16, <2>1 DEF StoreBody
  <2>5. \A x \in Source : source'[x].url = source[x].url
    BY <2>1, <2>4 DEF SourceRow
  <2>6. source'[s].tag = t /\ \A x \in Source \ {s} : source'[x] = source[x]
    BY <2>1, <2>4 DEF SourceRow
  <2>7. SourceTag(s)'
    <3>1. Honest(s) => source[s].url = u  BY <1>1, <1>16, <2>1 DEF CallTag, Fetching
    <3>2. source'[s].tag # None => source'[s].tag = v  BY <2>1, <2>4, <2>6
    <3>3. <<s, u, v>> \in kept' /\ source'[s].url = source[s].url /\ moved' = moved
      BY <1>16, <2>1, <2>2, <2>5
    <3>. HIDE DEF Inv, TypeOK
    <3>. QED  BY <3>1, <3>2, <3>3 DEF SourceTag, Honest
  <2>8. ASSUME NEW x \in Source \ {s} PROVE SourceTag(x)'
    <3>1. source'[x] = source[x] /\ kept \subseteq kept' /\ moved' = moved /\ SourceTag(x)
      BY <1>1, <1>16, <2>2, <2>6
    <3>. HIDE DEF Inv, TypeOK
    <3>. QED  BY <3>1 DEF SourceTag, Honest
  <2>. QED  BY <2>2, <2>3, <2>5, <2>7, <2>8
<1>17. ASSUME NEW p \in Proc, Store(p) PROVE TagInv'
  <2>1. call[p].at = "body" /\ StoreBody(p) /\ UNCHANGED <<serving, moved>>
    BY <1>17 DEF Store
  <2>2. ~Fetching(p)'  BY <1>17 DEF Store, Leave, NoCall, Fetching
  <2>3. ASSUME NEW q \in Proc \ {p}, Fetching(q) PROVE CallTag(q)'
    <3>1. call'[q] = call[q]  BY <1>17 DEF Store, Leave
    <3>2. call[q].source \in Source  BY <1>1, <2>3 DEF CallOK, Fetching
    <3>. QED  BY <1>2, <1>16, <2>1, <2>3, <3>1, <3>2
  <2>4. ASSUME NEW q \in Proc \ {p} PROVE CallTag(q)'
    <3>1. call'[q] = call[q]  BY <1>17 DEF Store, Leave
    <3>. QED  BY <1>3, <2>3, <3>1 DEF Fetching
  <2>. QED  BY <1>3, <1>16, <2>1, <2>2, <2>4 DEF TagInv
<1>18. ASSUME NEW p \in Proc, StoreInDoubt(p) PROVE TagInv'
  <2>1. /\ call[p].at = "body" /\ StoreBody(p) /\ UNCHANGED <<serving, moved>>
        /\ call' = [call EXCEPT ![p].at = "failing"]
    BY <1>18 DEF StoreInDoubt
  <2>2. \A q \in Proc : CallTag(q)'
    <3>1. Fetching(p) /\ "failing" \in Phase  BY <2>1 DEF Fetching, Phase
    <3>. QED  BY <1>8, <1>16, <1>25, <2>1, <3>1
  <2>. QED  BY <1>16, <2>1, <2>2 DEF TagInv
<1>19. ASSUME NEW p \in Proc, FetchFails(p) PROVE TagInv'
  <2>1. UNCHANGED <<kept, moved, source, serving>> /\ Fetching(p) /\ "failing" \in Phase
    BY <1>19 DEF FetchFails, history, Fetching, Phase
  <2>2. \A q \in Proc : CallTag(q)'  BY <1>8, <1>19, <1>25, <2>1 DEF FetchFails
  <2>. QED  BY <1>4, <1>5, <2>1, <2>2 DEF TagInv
<1>20. ASSUME NEW p \in Proc,
             NotModified(p) \/ RecordFailure(p) \/ Abandon(p) \/ Refuse(p)
       PROVE TagInv'
  BY <1>7, <1>20 DEF NotModified, RecordFailure, Abandon, Refuse, history
<1>21. CASE Open
  BY <1>4, <1>5, <1>6, <1>21 DEF Open, TagInv, history
<1>26. ASSUME NEW s \in Source, Poll(s) PROVE TagInv'
  <2>1. UNCHANGED <<source, kept, moved, serving>>  BY <1>26 DEF Poll, history
  <2>2. ~Fetching(Daemon)'  BY <1>26 DEF Poll, Fetching
  <2>3. \A q \in Proc \ {Daemon} : call'[q] = call[q]  BY <1>26 DEF Poll
  <2>4. \A q \in Proc : CallTag(q)'  BY <1>2, <1>3, <2>1, <2>2, <2>3 DEF Fetching
  <2>. QED  BY <1>4, <1>5, <2>1, <2>4 DEF TagInv
<1>22. ASSUME NEW u \in Url, Publish(u) PROVE TagInv'
  <2>1. KeptInv'  BY <1>1, <1>22 DEF Publish, KeptInv, Version, history
  <2>. QED  BY <1>5, <1>6, <1>22, <2>1 DEF Publish, TagInv, history
<1>23. CASE Tick
  <2>1. ASSUME NEW s \in Source
        PROVE  source'[s].url = source[s].url /\ source'[s].tag = source[s].tag
    <3>1. source'[s] = [source[s] EXCEPT !.idle = AtMost(LongestEvery, @ + 1)]
      BY <1>23 DEF Tick
    <3>2. source[s] \in SourceRow  OBVIOUS
    <3>. HIDE DEF Inv, TypeOK
    <3>. QED  BY <3>1, <3>2 DEF SourceRow
  <2>. QED  BY <1>4, <1>5, <1>6, <1>23, <2>1 DEF Tick, TagInv, history
<1>24. CASE UNCHANGED vars
  BY <1>4, <1>5, <1>6, <1>24 DEF vars, TagInv, history
<1>. QED
  BY <1>9, <1>10, <1>11, <1>12, <1>13, <1>14, <1>15, <1>17, <1>18, <1>19, <1>20, <1>21,
     <1>22, <1>23, <1>24, <1>26 DEF Next, Step

(* Steps preserve what runs say of themselves.                             *)
LEMMA TruthStep == Inv /\ [Next]_vars => Truth'
<1>. SUFFICES ASSUME Inv, [Next]_vars PROVE Truth'  OBVIOUS
<1>. USE DEF Inv, TypeOK
<1>1. \A p \in Proc : CallOK(p)  BY DEF CallInv
<1>2. ASSUME UNCHANGED <<run, outcome>> PROVE Truth'
  BY <1>2 DEF Truth, RunsTellTheTruth, OpenRunsAreEmpty
<1>3. ASSUME NEW p \in Proc, NEW status \in Closed, Close(p, status),
             call[p].run \in Run,
             \A r \in Run : r # call[p].run => outcome'[r] = outcome[r],
             \/ status = "succeeded" /\ outcome'[call[p].run] # "nothing"
             \/ status # "succeeded" /\ outcome'[call[p].run] # "stored"
      PROVE  Truth'
  BY <1>3 DEF Close, Truth, RunsTellTheTruth, OpenRunsAreEmpty, RunRow, Closed
<1>4. ASSUME NEW p \in Proc, NEW r \in Run, InsertRun(p, r) PROVE Truth'
  BY <1>4 DEF InsertRun, Truth, RunsTellTheTruth, OpenRunsAreEmpty, RunRow
<1>5. ASSUME NEW p \in Proc, Store(p) \/ StoreInDoubt(p) PROVE Truth'
  <2>1. call[p].at \in Working /\ Close(p, "succeeded")
    BY <1>5 DEF Store, StoreInDoubt, StoreBody, Working
  <2>2. call[p].run \in Run  BY <1>1, <2>1 DEF CallOK
  <2>3. PICK what \in {"stored", "doubtful"} : outcome' = [outcome EXCEPT ![call[p].run] = what]
    BY <1>5 DEF Store, StoreInDoubt
  <2>4. /\ outcome'[call[p].run] # "nothing"
        /\ \A r \in Run : r # call[p].run => outcome'[r] = outcome[r]
    BY <2>2, <2>3
  <2>. QED  BY <1>3, <2>1, <2>2, <2>4 DEF Closed
<1>6. ASSUME NEW p \in Proc, NotModified(p) PROVE Truth'
  <2>1. call[p].at \in Working  BY <1>6 DEF NotModified, Working
  <2>2. call[p].run \in Run /\ outcome[call[p].run] = "nothing"  BY <1>1, <2>1 DEF CallOK
  <2>. QED  BY <1>3, <1>6, <2>2 DEF NotModified, history, Closed
<1>7. ASSUME NEW p \in Proc, RecordFailure(p) PROVE Truth'
  <2>1. call[p].run \in Run /\ outcome[call[p].run] # "stored"
    BY <1>1, <1>7 DEF RecordFailure, CallOK
  <2>. QED  BY <1>3, <1>7, <2>1 DEF RecordFailure, history, Closed
<1>8. CASE Open
  <2>. SUFFICES ASSUME NEW r \in Run
                PROVE  /\ run'[r].status = "succeeded" => outcome'[r] # "nothing"
                       /\ run'[r].status \in {"failed", "not_modified"} => outcome'[r] # "stored"
                       /\ run'[r].status = "running" => outcome'[r] = "nothing"
    BY DEF Truth, RunsTellTheTruth, OpenRunsAreEmpty
  <2>1. outcome' = outcome  BY <1>8 DEF Open, history
  <2>2. CASE Stale(r)
    <3>1. run'[r].status = "failed" /\ run[r].status = "running"
      BY <1>8, <2>2 DEF Open, Stale
    <3>. QED  BY <2>1, <3>1 DEF Truth, OpenRunsAreEmpty
  <2>3. CASE ~Stale(r)
    <3>1. run'[r] = run[r]  BY <1>8, <2>3 DEF Open
    <3>. QED  BY <2>1, <3>1 DEF Truth, RunsTellTheTruth, OpenRunsAreEmpty
  <2>. QED  BY <2>2, <2>3
<1>9. CASE Tick
  <2>1. outcome' = outcome  BY <1>9 DEF Tick, history
  <2>2. ASSUME NEW r \in Run PROVE run'[r].status = run[r].status
    BY <1>9 DEF Tick, RunRow
  <2>. QED  BY <2>1, <2>2 DEF Truth, RunsTellTheTruth, OpenRunsAreEmpty
<1>10. ASSUME NEW p \in Proc, Stamp(p) \/ Answer(p) \/ FetchFails(p) \/ Abandon(p) \/ Refuse(p)
       PROVE  Truth'
  BY <1>2, <1>10 DEF Stamp, Answer, FetchFails, Abandon, Refuse, history
<1>11. ASSUME NEW s \in Source,
              \/ \E u \in Url : Register(s, u)
              \/ \E on \in BOOLEAN : SetEnabled(s, on)
              \/ \E on \in BOOLEAN, e \in Every : SetTicker(s, on, e)
              \/ \E p \in Proc : Read(p, s)
              \/ Poll(s)
       PROVE  Truth'
  BY <1>2, <1>11 DEF Register, SetEnabled, SetTicker, Read, Poll, history
<1>12. ASSUME NEW u \in Url, Publish(u) PROVE Truth'
  BY <1>2, <1>12 DEF Publish, history
<1>13. CASE UNCHANGED vars
  BY <1>2, <1>13 DEF vars, history
<1>. QED
  BY <1>4, <1>5, <1>6, <1>7, <1>8, <1>9, <1>10, <1>11, <1>12, <1>13 DEF Next, Step

(* The invariant holds in every behaviour.                                 *)
LEMMA Invariance == Spec => []Inv
<1>1. Inv /\ [Next]_vars => Inv'  BY TypeStep, CallStep, TagStep, TruthStep DEF Inv
<1>. QED  BY InitInv, <1>1, PTL DEF Spec

-----------------------------------------------------------------------------
(* The tables and the calls have their types, and no two calls work on the *)
(* same run.                                                               *)
THEOREM TypeCorrect == Spec => []TypeOK
<1>1. Inv => TypeOK  BY DEF Inv
<1>. QED  BY Invariance, <1>1, PTL

(* As long as a source keeps its address, "not modified" is only recorded  *)
(* for content that is stored, whatever fails, dies or overlaps.           *)
THEOREM NotModifiedHolds == Spec => []NotModifiedIsTrueUnmoved
<1>1. Inv => NotModifiedIsTrueUnmoved
  BY DEF Inv, TagInv, CallTag, Fetching, Honest, NotModifiedIsTrueUnmoved
<1>. QED  BY Invariance, <1>1, PTL

(* What fetch_runs says of a run is what its call did to the catalog,      *)
(* except for commits in doubt, however long calls last and whichever of   *)
(* their runs openings declare interrupted.                                *)
THEOREM RunsAreTruthful == Spec => []RunsTellTheTruth
<1>1. Inv => RunsTellTheTruth  BY DEF Inv, Truth
<1>. QED  BY Invariance, <1>1, PTL

=============================================================================
