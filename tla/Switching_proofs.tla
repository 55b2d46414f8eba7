---------------------------- MODULE Switching_proofs ----------------------------
(***************************************************************************)
(* Proofs about Switching: a change of the mode goes through the           *)
(* transitional mode, reads are regular across it, and the client goes on  *)
(* until its workers have returned, for any number of workers, of requests *)
(* and of changes.                                                         *)
(***************************************************************************)
EXTENDS Switching, Integers, FiniteSetTheorems, TLAPS

Modes == {"READLOG", "WRITELOG", "TRANSITIONAL"}
Ops == {"read", "write"}
Places == {"single", "multi"}

CallState ==
  [mode : Modes \cup {"none"}, op : Ops \cup {"none"}, ts : Nat, before : SUBSET SRequest,
   done : BOOLEAN, gaveUp : BOOLEAN]

ServerState ==
  [pc : {"none", "read", "write", "items", "posted", "return", "done"}, seqNum : Nat,
   pre : Nat, result : Nat, found : BOOLEAN, writes : SUBSET Places]

ClientTypeOK ==
  /\ switchCase \in SwitchCases
  /\ clock \in Nat /\ cycle \in {0, 1}
  /\ running \subseteq Nat /\ transitional \subseteq Nat
  /\ sent \in 0 .. MaxRequests /\ stopped \in BOOLEAN
  /\ reqChan \in Seq(SRequest) /\ resChan \in Seq(SRequest)
  /\ idle \in Nat /\ exited \in Nat
  /\ call \in [SRequest -> CallState]

ServerTypeOK ==
  /\ server \in [SRequest -> ServerState]
  /\ sTail \in Nat
  /\ single \in [value : Nat, version : Nat]
  /\ multi \subseteq Nat \X Nat
  /\ versions \subseteq Nat \X Nat

-----------------------------------------------------------------------------
\* Requests are posted in the order in which they are sent: those in the channel are
\* the last ones, and of those before them each has been posted.
QueueOK ==
  \A n \in 1 .. Len(reqChan) : reqChan[n] + Len(reqChan) = sent + n

CallOK(r) ==
  /\ call[r].mode = "none" <=> r > sent
  /\ call[r].op = "none" <=> r > sent
  /\ server[r].pc = "none" <=> r + Len(reqChan) > sent
  /\ call[r].done => server[r].pc = "done"
  /\ call[r].gaveUp => server[r].pc # "none"

\* Who is in resChan has its result, or none to come.
ResultsOK ==
  \A n \in 1 .. Len(resChan) : call[resChan[n]].done \/ call[resChan[n]].gaveUp

\* The requests that the client knows to run, by their timestamp.
Open(r) == call[r].mode # "none" /\ ~ call[r].done /\ ~ call[r].gaveUp /\ ~ SharedTs(r)

\* Such a request is of the present mode, or main waits for it before that mode begins.
Tracked(r) ==
  Open(r) =>
    /\ call[r].ts \in running
    /\ \/ call[r].mode = "TRANSITIONAL"
       \/ call[r].mode = ModeOf(cycle)
       \/ call[r].ts \in transitional

Unmixed(r, q) ==
  ~ (Open(r) /\ Open(q) /\ call[r].mode = "READLOG" /\ call[q].mode = "WRITELOG")

SwitchInv ==
  /\ ClientTypeOK
  /\ ServerTypeOK
  /\ Len(reqChan) <= sent
  /\ QueueOK
  /\ \A r \in SRequest : CallOK(r)
  /\ ResultsOK
  /\ \A r \in SRequest : Tracked(r)
  /\ \A r, q \in SRequest : Unmixed(r, q)

-----------------------------------------------------------------------------
LEMMA ModesOfCycles ==
  /\ ModeOf(0) = "READLOG" /\ ModeOf(1) = "WRITELOG"
  /\ \A now \in Nat : CycleId(now) \in {0, 1}
  /\ Modes = {"READLOG", "WRITELOG", "TRANSITIONAL"}
BY DEF ModeOf, LogModes, CycleId, Modes

LEMMA RequestBounds ==
  /\ MaxRequests \in Nat /\ Concurrency \in Nat /\ Concurrency <= MaxRequests
  /\ \A n : n \in SRequest <=> n \in Nat /\ 1 <= n /\ n <= MaxRequests
  /\ \A r : r \in 1 .. Concurrency => r \in SRequest
BY SwitchingAssumption DEF SRequest

LEMMA SwitchInitially == SwitchInit => SwitchInv
<1> SUFFICES ASSUME SwitchInit PROVE SwitchInv
    OBVIOUS
<1> USE RequestBounds
<1>1. switchCase \in SwitchCases /\ switchCase.sameTs \in BOOLEAN
  BY SwitchCasesAssumption DEF SwitchInit
<1>2. call \in [SRequest -> CallState]
  <2>1. NoCall \in CallState
    BY DEF NoCall, CallState
  <2>2. \A r \in 1 .. Concurrency : FirstOps[r] \in Ops
    BY SwitchingAssumption DEF Ops
  <2>3. \A r \in SRequest : call[r] \in CallState
    <3> TAKE r \in SRequest
    <3>1. CASE r > Concurrency
      BY <3>1, <2>1 DEF SwitchInit
    <3>2. CASE ~ r > Concurrency
      <4>1. r \in 1 .. Concurrency /\ r \in Nat
        BY <3>2
      <4>2. PICK ts : ts = IF switchCase.sameTs THEN 1 ELSE r
        OBVIOUS
      <4>3. call[r] = [NoCall EXCEPT !.mode = ModeOf(0), !.op = FirstOps[r], !.ts = ts]
        BY <3>2, <4>2 DEF SwitchInit
      <4>4. ts \in Nat /\ FirstOps[r] \in Ops /\ ModeOf(0) \in Modes
        BY <4>1, <4>2, <2>2, ModesOfCycles
      <4> QED BY <4>3, <4>4, <2>1 DEF CallState
    <3> QED BY <3>1, <3>2
  <2> QED BY <2>3 DEF SwitchInit
<1>3. \A r \in SRequest :
        /\ call[r].mode = IF r > Concurrency THEN "none" ELSE "READLOG"
        /\ call[r].op = "none" <=> r > Concurrency
        /\ ~ call[r].done /\ ~ call[r].gaveUp
  <2> SUFFICES ASSUME NEW r \in SRequest
               PROVE /\ call[r].mode = IF r > Concurrency THEN "none" ELSE "READLOG"
                     /\ call[r].op = "none" <=> r > Concurrency
                     /\ ~ call[r].done /\ ~ call[r].gaveUp
      OBVIOUS
  <2>1. CASE r > Concurrency
    BY <2>1 DEF SwitchInit, NoCall
  <2>2. CASE ~ r > Concurrency
    <3>1. r \in 1 .. Concurrency
      BY <2>2
    <3>2. FirstOps[r] # "none"
      BY <3>1, SwitchingAssumption
    <3> QED BY <2>2, <3>2, ModesOfCycles DEF SwitchInit, NoCall
  <2> QED BY <2>1, <2>2
<1>4. \A r \in SRequest : server[r] = NoServer /\ server[r].pc = "none"
  BY DEF SwitchInit, NoServer
<1>5. /\ reqChan = [n \in 1 .. Concurrency |-> n] /\ reqChan \in Seq(SRequest)
      /\ Len(reqChan) = Concurrency /\ sent = Concurrency
      /\ resChan = <<>> /\ Len(resChan) = 0 /\ resChan \in Seq(SRequest)
  <2>1. reqChan = [n \in 1 .. Concurrency |-> n] /\ sent = Concurrency /\ resChan = <<>>
    BY DEF SwitchInit
  <2>2. [n \in 1 .. Concurrency |-> n] \in Seq(SRequest)
    OBVIOUS
  <2>3. Len([n \in 1 .. Concurrency |-> n]) = Concurrency
    OBVIOUS
  <2>4. Len(resChan) = 0 /\ resChan \in Seq(SRequest)
    BY <2>1
  <2> QED BY <2>1, <2>2, <2>3, <2>4
<1>6. \A r \in 1 .. Concurrency : call[r].ts \in running /\ call[r].ts \in Nat
  <2>1. running = {call[r].ts : r \in 1 .. Concurrency}
    BY DEF SwitchInit
  <2>2. \A r \in SRequest : call[r].ts \in Nat
    BY <1>2 DEF CallState
  <2> QED BY <2>1, <2>2
<1>7. ClientTypeOK
  <2>1. running \subseteq Nat
    BY <1>6 DEF SwitchInit
  <2>2. clock = 0 /\ cycle = 0 /\ transitional = {} /\ stopped = FALSE /\ exited = 0
        /\ idle = Concurrency
    BY DEF SwitchInit
  <2>3. /\ clock \in Nat /\ cycle \in {0, 1} /\ transitional \subseteq Nat
        /\ stopped \in BOOLEAN /\ exited \in Nat /\ idle \in Nat
    BY <2>2
  <2>4. sent \in 0 .. MaxRequests
    BY <1>5
  <2> QED BY <1>1, <1>2, <1>5, <2>1, <2>3, <2>4 DEF ClientTypeOK
<1>8. ServerTypeOK
  <2>1. NoServer \in ServerState
    BY DEF NoServer, ServerState, Write0
  <2> QED BY <2>1 DEF ServerTypeOK, SwitchInit, Write0
<1>9. QueueOK /\ ResultsOK /\ \A r \in SRequest : CallOK(r)
  <2>1. QueueOK /\ ResultsOK
    BY <1>5 DEF QueueOK, ResultsOK
  <2>2. \A r \in SRequest : CallOK(r)
    BY <1>3, <1>4, <1>5 DEF CallOK
  <2> QED BY <2>1, <2>2
<1>10. \A r \in SRequest : Tracked(r)
  <2> SUFFICES ASSUME NEW r \in SRequest, Open(r)
               PROVE call[r].ts \in running /\ call[r].mode = ModeOf(cycle)
      BY DEF Tracked
  <2>1. r \in 1 .. Concurrency
    BY <1>3 DEF Open
  <2>2. call[r].mode = "READLOG" /\ cycle = 0
    <3>1. cycle = 0
      BY DEF SwitchInit
    <3>2. ~ r > Concurrency
      BY <2>1
    <3> QED BY <3>1, <3>2, <1>3
  <2> QED BY <2>1, <2>2, <1>6, ModesOfCycles
<1>11. \A r, q \in SRequest : Unmixed(r, q)
  BY <1>3 DEF Unmixed
<1> QED BY <1>5, <1>7, <1>8, <1>9, <1>10, <1>11 DEF SwitchInv

-----------------------------------------------------------------------------
(***************************************************************************)
(* What the invariant says of the requests depends on the calls, on what   *)
(* the client keeps of them and on which of them the function runs.        *)
(***************************************************************************)
SamePhase(r) ==
  /\ server'[r].pc = "none" <=> server[r].pc = "none"
  /\ server'[r].pc = "done" <=> server[r].pc = "done"

LEMMA ClientUndisturbed ==
  ASSUME SwitchInv, UNCHANGED <<switchCase, clock, main, chans, exited, call>>, ServerTypeOK',
         \A r \in SRequest : SamePhase(r)
  PROVE  SwitchInv'
<1>1. UNCHANGED <<switchCase, clock, cycle, transitional, running, sent, stopped, reqChan, resChan,
                  idle, exited, call>>
  BY DEF main, chans
<1>2. ClientTypeOK' /\ (Len(reqChan) <= sent)' /\ QueueOK' /\ ResultsOK'
  BY <1>1 DEF SwitchInv, ClientTypeOK, QueueOK, ResultsOK
<1>3. \A r \in SRequest : CallOK(r)'
  BY <1>1 DEF SwitchInv, CallOK, SamePhase
<1>4. \A r \in SRequest : Open(r)' <=> Open(r)
  BY <1>1 DEF Open, SharedTs
<1>5. \A r \in SRequest : Tracked(r)'
  BY <1>1, <1>4 DEF SwitchInv, Tracked
<1>6. \A r, q \in SRequest : Unmixed(r, q)'
  BY <1>1, <1>4 DEF SwitchInv, Unmixed
<1> QED BY <1>2, <1>3, <1>5, <1>6 DEF SwitchInv

LEMMA OneServerSteps ==
  ASSUME SwitchInv, NEW r \in SRequest, NEW state \in ServerState,
         server' = [server EXCEPT ![r] = state],
         server[r].pc \notin {"none", "done"}, state.pc \notin {"none", "done"}
  PROVE  server' \in [SRequest -> ServerState] /\ \A q \in SRequest : SamePhase(q)
BY DEF SwitchInv, ServerTypeOK, SamePhase

LEMMA SingleKeepsType ==
  ASSUME ServerTypeOK, NEW value \in Nat, NEW version \in Nat, Single(value, version)
  PROVE  single' \in [value : Nat, version : Nat]
BY DEF ServerTypeOK, Single

LEMMA ServerStepKeeps ==
  ASSUME SwitchInv, NEW r \in SRequest, ServerStep(r)
  PROVE  SwitchInv'
<1>0. /\ server \in [SRequest -> ServerState] /\ server[r] \in ServerState
      /\ r \in Nat /\ sTail \in Nat /\ sTail + 1 \in Nat
  BY RequestBounds DEF SwitchInv, ServerTypeOK
<1>1. UNCHANGED <<switchCase, clock, main, chans, exited, call>>
  BY DEF ServerStep, ReadWithoutLog, ReadWithLog, WriteWithoutLog, PreWrite, WriteItem, PostWrite
<1>2. CASE ReadWithoutLog(r)
  <2> DEFINE items == IF VisibleVersion(server[r].seqNum) = 0 THEN {<<0, single.value>>}
                      ELSE ItemsAt(VisibleVersion(server[r].seqNum))
             result == IF items = {} THEN server[r].result ELSE (CHOOSE i \in items : TRUE)[2]
             state == [server[r] EXCEPT !.pc = "return", !.found = items # {}, !.result = result]
  <2>1. server' = [server EXCEPT ![r] = state] /\ server[r].pc = "read"
    BY <1>0, <1>2 DEF ReadWithoutLog, ServerAt
  <2>2. \A i \in items : i[2] \in Nat
    BY DEF SwitchInv, ServerTypeOK, ItemsAt
  <2>3. items # {} => (CHOOSE i \in items : TRUE) \in items
    OBVIOUS
  <2>4. result \in Nat
    BY <2>2, <2>3, <1>0 DEF ServerState
  <2> HIDE DEF items, result
  <2>5. state \in ServerState /\ state.pc = "return"
    BY <2>4, <1>0 DEF ServerState
  <2>6. server' \in [SRequest -> ServerState] /\ \A q \in SRequest : SamePhase(q)
    BY <2>1, <2>5, OneServerSteps
  <2>7. ServerTypeOK'
    BY <2>6, <1>2 DEF ReadWithoutLog, store, SwitchInv, ServerTypeOK
  <2> QED BY <1>1, <2>6, <2>7, ClientUndisturbed
<1>3. CASE ReadWithLog(r)
  <2> DEFINE state == [server[r] EXCEPT !.pc = "return", !.result = single.value]
  <2>1. server' = [server EXCEPT ![r] = state] /\ server[r].pc = "read"
    BY <1>0, <1>3 DEF ReadWithLog, ServerAt
  <2>2. state \in ServerState /\ state.pc = "return"
    BY <1>0 DEF ServerState, SwitchInv, ServerTypeOK
  <2>3. server' \in [SRequest -> ServerState] /\ \A q \in SRequest : SamePhase(q)
    BY <2>1, <2>2, OneServerSteps
  <2>4. ServerTypeOK'
    BY <2>3, <1>3 DEF ReadWithLog, store, SwitchInv, ServerTypeOK
  <2> QED BY <1>1, <2>3, <2>4, ClientUndisturbed
<1>4. CASE WriteWithoutLog(r)
  <2> DEFINE state == [server[r] EXCEPT !.pc = "return"]
  <2>1. server' = [server EXCEPT ![r] = state] /\ server[r].pc = "write"
    BY <1>0, <1>4 DEF WriteWithoutLog, ServerGoTo, ServerAt
  <2>2. state \in ServerState /\ state.pc = "return"
    BY <1>0 DEF ServerState
  <2>3. server' \in [SRequest -> ServerState] /\ \A q \in SRequest : SamePhase(q)
    BY <2>1, <2>2, OneServerSteps
  <2>4. server[r].seqNum \in Nat
    BY <1>0 DEF ServerState
  <2>5. single' \in [value : Nat, version : Nat]
    BY <1>0, <1>4, <2>4, SingleKeepsType DEF WriteWithoutLog, SwitchInv
  <2>6. ServerTypeOK'
    BY <2>3, <2>5, <1>4 DEF WriteWithoutLog, SwitchInv, ServerTypeOK
  <2> QED BY <1>1, <2>3, <2>6, ClientUndisturbed
<1>5. CASE PreWrite(r)
  <2> DEFINE state == [server[r] EXCEPT !.pc = "items", !.seqNum = sTail', !.pre = sTail',
                                        !.writes = Targets(r)]
  <2>1. server' = [server EXCEPT ![r] = state] /\ server[r].pc = "write" /\ sTail' \in Nat
    BY <1>0, <1>5 DEF PreWrite, ServerAt
  <2>2. Targets(r) \in SUBSET Places
    BY DEF Targets, Places
  <2>3. state \in ServerState /\ state.pc = "items"
    BY <1>0, <2>1, <2>2 DEF ServerState
  <2>4. server' \in [SRequest -> ServerState] /\ \A q \in SRequest : SamePhase(q)
    BY <2>1, <2>3, OneServerSteps
  <2>5. ServerTypeOK'
    BY <2>1, <2>4, <1>5 DEF PreWrite, SwitchInv, ServerTypeOK
  <2> QED BY <1>1, <2>4, <2>5, ClientUndisturbed
<1>6. CASE WriteItem(r)
  <2>1. PICK target \in server[r].writes, version \in WriteVersions(r) :
          /\ IF target = "single" THEN Single(r, version) /\ UNCHANGED multi
             ELSE multi' = multi \cup {<<version, r>>} /\ UNCHANGED single
          /\ server' = [server EXCEPT ![r].writes = @ \ {target}]
    BY <1>6 DEF WriteItem
  <2> DEFINE state == [server[r] EXCEPT !.writes = server[r].writes \ {target}]
  <2>2. server' = [server EXCEPT ![r] = state] /\ server[r].pc \in {"items", "posted"}
    BY <1>0, <1>6, <2>1 DEF WriteItem
  <2>3. state \in ServerState /\ state.pc = server[r].pc
    BY <1>0 DEF ServerState
  <2>4. server' \in [SRequest -> ServerState] /\ \A q \in SRequest : SamePhase(q)
    BY <2>2, <2>3, OneServerSteps
  <2>5. version \in Nat
    BY <1>0 DEF WriteVersions, ServerState
  <2>6. single' \in [value : Nat, version : Nat] /\ multi' \subseteq Nat \X Nat
    <3>1. CASE target = "single"
      BY <3>1, <2>1, <2>5, <1>0, SingleKeepsType DEF SwitchInv, ServerTypeOK
    <3>2. CASE target # "single"
      BY <3>2, <2>1, <2>5, <1>0 DEF SwitchInv, ServerTypeOK
    <3> QED BY <3>1, <3>2
  <2>7. ServerTypeOK'
    BY <2>4, <2>6, <1>6 DEF WriteItem, SwitchInv, ServerTypeOK
  <2> QED BY <1>1, <2>4, <2>7, ClientUndisturbed
<1>7. CASE PostWrite(r)
  <2> DEFINE state == [server[r] EXCEPT !.pc = "posted", !.seqNum = sTail']
  <2>1. server' = [server EXCEPT ![r] = state] /\ server[r].pc = "items" /\ sTail' \in Nat
    BY <1>0, <1>7 DEF PostWrite, ServerAt
  <2>2. state \in ServerState /\ state.pc = "posted"
    BY <1>0, <2>1 DEF ServerState
  <2>3. server' \in [SRequest -> ServerState] /\ \A q \in SRequest : SamePhase(q)
    BY <2>1, <2>2, OneServerSteps
  <2>4. server[r].pre \in Nat
    BY <1>0 DEF ServerState
  <2>5. ServerTypeOK'
    BY <2>1, <2>3, <2>4, <1>7 DEF PostWrite, SwitchInv, ServerTypeOK
  <2> QED BY <1>1, <2>3, <2>5, ClientUndisturbed
<1> QED BY <1>2, <1>3, <1>4, <1>5, <1>6, <1>7 DEF ServerStep

-----------------------------------------------------------------------------
\* What the steps of the channels and of the calls keep.
LEMMA OpenOnlyCloses ==
  ASSUME NEW r \in SRequest, Open(r)',
         \A q \in SRequest : call[q].mode # "none" =>
           call'[q].mode = call[q].mode /\ call'[q].ts = call[q].ts,
         call[r].mode # "none",
         call[r].done => call'[r].done, call[r].gaveUp => call'[r].gaveUp
  PROVE  Open(r) /\ call'[r].mode = call[r].mode /\ call'[r].ts = call[r].ts
BY DEF Open, SharedTs

LEMMA SentHaveModes ==
  ASSUME SwitchInv, NEW r \in SRequest
  PROVE  /\ call[r].done \/ call[r].gaveUp => call[r].mode # "none" /\ server[r].pc # "none"
         /\ r <= sent => call[r].mode # "none"
         /\ r > sent => call[r].mode = "none" /\ ~ call[r].done /\ ~ call[r].gaveUp
<1>1. r \in Nat /\ sent \in Nat /\ Len(reqChan) \in Nat /\ CallOK(r)
  BY RequestBounds DEF SwitchInv, ClientTypeOK
<1> QED BY <1>1 DEF CallOK

\* main has received from a request that is not open, or has one timestamp with another.
LEMMA ReceivedIsNotOpen ==
  ASSUME SwitchInv, resChan # <<>>, NEW r \in SRequest, Open(r)
  PROVE  Head(resChan) \in SRequest /\ call[r].ts # call[Head(resChan)].ts
<1>1. Head(resChan) \in SRequest /\ Head(resChan) = resChan[1] /\ 1 \in 1 .. Len(resChan)
  BY DEF SwitchInv, ClientTypeOK
<1>2. call[Head(resChan)].done \/ call[Head(resChan)].gaveUp
  BY <1>1 DEF SwitchInv, ResultsOK
<1>3. call[Head(resChan)].mode # "none"
  BY <1>1, <1>2, SentHaveModes
<1> QED BY <1>1, <1>2, <1>3 DEF Open, SharedTs

LEMMA TailOf ==
  ASSUME NEW S, NEW s \in Seq(S), s # <<>>
  PROVE  /\ Tail(s) \in Seq(S) /\ Len(Tail(s)) \in Nat /\ Len(s) = Len(Tail(s)) + 1
         /\ \A n \in 1 .. Len(Tail(s)) : Tail(s)[n] = s[n + 1] /\ n + 1 \in 1 .. Len(s)
         /\ Head(s) \in S /\ Head(s) = s[1] /\ 1 \in 1 .. Len(s)
OBVIOUS

LEMMA AppendTo ==
  ASSUME NEW S, NEW s \in Seq(S), NEW e \in S
  PROVE  /\ Append(s, e) \in Seq(S) /\ Len(Append(s, e)) = Len(s) + 1 /\ Len(s) \in Nat
         /\ \A n \in 1 .. Len(s) : Append(s, e)[n] = s[n]
         /\ Append(s, e)[Len(s) + 1] = e
OBVIOUS

LEMMA ReceiveKeeps ==
  ASSUME SwitchInv, Receive
  PROVE  SwitchInv'
<1> DEFINE ts == call[Head(resChan)].ts
           mode == IF transitional' # {} THEN "TRANSITIONAL" ELSE ModeOf(cycle')
<1>1. /\ resChan # <<>> /\ sent' = sent + 1 /\ sent < switchCase.requests
      /\ running' = (running \ {ts}) \cup {sent'}
      /\ resChan' = Tail(resChan) /\ reqChan' = Append(reqChan, sent')
      /\ UNCHANGED <<switchCase, stopped, idle, exited, server, store>>
  BY DEF Receive
<1>2. PICK now \in clock .. Duration - 1 :
        /\ clock' = now /\ cycle' = CycleId(now) /\ transitional' = NextTransitional(ts, now)
  BY DEF Receive
<1>3. PICK op \in Ops : call' = [call EXCEPT ![sent'] = NewCall(mode, op)]
  BY DEF Receive, Ops
<1>4. /\ sent \in Nat /\ sent' \in SRequest /\ sent' \in Nat /\ sent' \in 0 .. MaxRequests
      /\ clock' \in Nat /\ cycle' \in {0, 1}
  <2>1. switchCase.requests \in 0 .. MaxRequests
    BY SwitchCasesAssumption DEF SwitchInv, ClientTypeOK
  <2>2. sent \in Nat /\ clock \in Nat /\ Duration \in Nat
    BY SwitchingAssumption DEF SwitchInv, ClientTypeOK
  <2>3. clock' \in Nat /\ cycle' \in {0, 1}
    BY <1>2, <2>2, ModesOfCycles
  <2>4. switchCase.requests <= MaxRequests /\ switchCase.requests \in Nat
    BY <2>1, RequestBounds
  <2>5. sent + 1 <= MaxRequests
    BY <1>1, <2>2, <2>4, RequestBounds
  <2>6. sent' \in Nat /\ 1 <= sent' /\ sent' <= MaxRequests
    BY <1>1, <2>2, <2>5
  <2> QED BY <2>2, <2>3, <2>6, RequestBounds
<1>5. /\ Head(resChan) \in SRequest /\ ts \in Nat
      /\ reqChan \in Seq(SRequest) /\ resChan \in Seq(SRequest)
      /\ running \subseteq Nat /\ transitional \subseteq Nat
      /\ call \in [SRequest -> CallState]
  <2>1. reqChan \in Seq(SRequest) /\ resChan \in Seq(SRequest) /\ call \in [SRequest -> CallState]
        /\ running \subseteq Nat /\ transitional \subseteq Nat
    BY DEF SwitchInv, ClientTypeOK
  <2>2. Head(resChan) \in SRequest
    BY <1>1, <2>1, TailOf
  <2> QED BY <2>1, <2>2 DEF CallState
<1>6. transitional' = (IF cycle' # cycle THEN transitional \cup (running \ {ts})
                       ELSE transitional) \ {ts}
  BY <1>2 DEF NextTransitional
<1>7. mode \in Modes
  BY <1>4, ModesOfCycles
<1> HIDE DEF ts, mode
<1>8. /\ NewCall(mode, op) \in CallState
      /\ NewCall(mode, op).mode = mode /\ NewCall(mode, op).ts = sent'
      /\ NewCall(mode, op).op # "none"
      /\ ~ NewCall(mode, op).done /\ ~ NewCall(mode, op).gaveUp
  BY <1>1, <1>4, <1>7 DEF NewCall, NoCall, CallState, Modes, Ops
<1>9. /\ call' \in [SRequest -> CallState] /\ call'[sent'] = NewCall(mode, op)
      /\ \A r \in SRequest : r # sent' => call'[r] = call[r]
  BY <1>3, <1>4, <1>5, <1>8
<1>10. /\ reqChan' \in Seq(SRequest) /\ Len(reqChan') = Len(reqChan) + 1 /\ Len(reqChan) \in Nat
       /\ \A n \in 1 .. Len(reqChan) : reqChan'[n] = reqChan[n]
       /\ reqChan'[Len(reqChan) + 1] = sent'
  BY <1>1, <1>4, <1>5, AppendTo
<1>11. /\ resChan' \in Seq(SRequest) /\ Len(resChan') \in Nat
       /\ \A n \in 1 .. Len(resChan') : resChan'[n] = resChan[n + 1] /\ n + 1 \in 1 .. Len(resChan)
  BY <1>1, <1>5, TailOf
<1>12. ClientTypeOK'
  <2>1. running' \subseteq Nat /\ transitional' \subseteq Nat
    BY <1>1, <1>4, <1>5, <1>6
  <2> QED BY <1>1, <1>4, <1>9, <1>10, <1>11, <2>1 DEF SwitchInv, ClientTypeOK
<1>13. ServerTypeOK'
  BY <1>1 DEF SwitchInv, ServerTypeOK, store
<1>14. (Len(reqChan) <= sent)' /\ QueueOK'
  <2>1. Len(reqChan) <= sent /\ \A n \in 1 .. Len(reqChan) : reqChan[n] + Len(reqChan) = sent + n
    BY DEF SwitchInv, QueueOK
  <2>2. Len(reqChan') <= sent'
    BY <2>1, <1>1, <1>4, <1>10
  <2>3. ASSUME NEW n \in 1 .. Len(reqChan')
        PROVE  reqChan'[n] + Len(reqChan') = sent' + n
    <3>1. CASE n = Len(reqChan) + 1
      BY <3>1, <1>1, <1>4, <1>10
    <3>2. CASE n # Len(reqChan) + 1
      <4>1. n \in 1 .. Len(reqChan) /\ reqChan[n] \in Nat
        BY <3>2, <1>5, <1>10, RequestBounds
      <4>2. reqChan[n] + Len(reqChan) = sent + n /\ n \in Nat
        BY <4>1, <2>1
      <4>3. reqChan[n] + (Len(reqChan) + 1) = (sent + 1) + n
        BY <4>1, <4>2, <1>4, <1>10
      <4> QED BY <4>1, <4>3, <1>1, <1>10
    <3> QED BY <3>1, <3>2
  <2> QED BY <2>2, <2>3 DEF QueueOK
<1>15. \A r \in SRequest : CallOK(r)'
  <2> SUFFICES ASSUME NEW r \in SRequest PROVE CallOK(r)'
      OBVIOUS
  <2>1. CallOK(r) /\ r \in Nat
    BY RequestBounds DEF SwitchInv
  <2>2. server'[r] = server[r]
    BY <1>1
  <2>3. CASE r = sent'
    <3>1. server[r].pc = "none"
      BY <2>1, <2>3, <1>1, <1>4, <1>10 DEF CallOK
    <3>2. call'[r].mode # "none" /\ call'[r].op # "none" /\ ~ call'[r].done /\ ~ call'[r].gaveUp
      BY <2>3, <1>7, <1>8, <1>9 DEF Modes
    <3> QED BY <3>1, <3>2, <2>2, <2>3, <2>1, <1>4, <1>10 DEF CallOK
  <2>4. CASE r # sent'
    BY <2>4, <2>1, <2>2, <1>1, <1>4, <1>9, <1>10 DEF CallOK
  <2> QED BY <2>3, <2>4
<1>16. ~ call[sent'].done /\ ~ call[sent'].gaveUp /\ call[sent'].mode = "none"
  BY <1>1, <1>4, SentHaveModes
<1>17. ResultsOK'
  <2> SUFFICES ASSUME NEW n \in 1 .. Len(resChan')
               PROVE call'[resChan'[n]].done \/ call'[resChan'[n]].gaveUp
      BY DEF ResultsOK
  <2>1. resChan'[n] \in SRequest /\ (call[resChan'[n]].done \/ call[resChan'[n]].gaveUp)
    BY <1>11 DEF SwitchInv, ResultsOK
  <2> QED BY <2>1, <1>9, <1>16
<1>18. \A r \in SRequest : r # sent' /\ Open(r)' =>
         Open(r) /\ call'[r] = call[r] /\ call[r].ts # ts
  <2> SUFFICES ASSUME NEW r \in SRequest, r # sent', Open(r)'
               PROVE  Open(r) /\ call'[r] = call[r] /\ call[r].ts # ts
      OBVIOUS
  <2>1. call'[r] = call[r] /\ call[r].mode # "none"
    BY <1>9 DEF Open
  <2>2. \A q \in SRequest : call[q].mode # "none" => call'[q] = call[q]
    BY <1>9, <1>16
  <2>3. Open(r)
    BY <2>1, <2>2, OpenOnlyCloses
  <2>4. call[r].ts # ts
    BY <2>3, <1>1, ReceivedIsNotOpen DEF ts
  <2> QED BY <2>1, <2>3, <2>4
<1>19. \A r \in SRequest : Tracked(r)'
  <2> SUFFICES ASSUME NEW r \in SRequest, Open(r)'
               PROVE  /\ call'[r].ts \in running'
                      /\ \/ call'[r].mode = "TRANSITIONAL" \/ call'[r].mode = ModeOf(cycle')
                         \/ call'[r].ts \in transitional'
      BY DEF Tracked
  <2>1. CASE r = sent'
    <3>1. call'[r].ts = sent' /\ call'[r].mode = mode
      BY <2>1, <1>8, <1>9
    <3> QED BY <3>1, <1>1 DEF mode
  <2>2. CASE r # sent'
    <3>1. Open(r) /\ call'[r] = call[r] /\ call[r].ts # ts
      BY <2>2, <1>18
    <3>2. /\ call[r].ts \in running
          /\ \/ call[r].mode = "TRANSITIONAL" \/ call[r].mode = ModeOf(cycle)
             \/ call[r].ts \in transitional
      BY <3>1 DEF SwitchInv, Tracked
    <3> QED BY <3>1, <3>2, <1>1, <1>6
  <2> QED BY <2>1, <2>2
<1>20. ASSUME NEW r \in SRequest, r # sent', Open(r)'
       PROVE  mode = "TRANSITIONAL" \/ call'[r].mode = "TRANSITIONAL" \/ call'[r].mode = mode
  <2>1. CASE transitional' # {}
    BY <2>1 DEF mode
  <2>2. CASE transitional' = {}
    <3>1. mode = ModeOf(cycle')
      BY <2>2 DEF mode
    <3> QED BY <3>1, <2>2, <1>19, <1>20 DEF Tracked
  <2> QED BY <2>1, <2>2
<1>21. \A r, q \in SRequest : Unmixed(r, q)'
  <2> SUFFICES ASSUME NEW r \in SRequest, NEW q \in SRequest, Open(r)', Open(q)',
                      call'[r].mode = "READLOG", call'[q].mode = "WRITELOG"
               PROVE  FALSE
      BY DEF Unmixed
  <2>1. call'[sent'].mode = mode
    BY <1>8, <1>9
  <2>2. r # q
    OBVIOUS
  <2>3. CASE r = sent'
    BY <2>1, <2>2, <2>3, <1>20
  <2>4. CASE q = sent'
    BY <2>1, <2>2, <2>4, <1>20
  <2>5. CASE r # sent' /\ q # sent'
    BY <2>5, <1>18 DEF SwitchInv, Unmixed
  <2> QED BY <2>3, <2>4, <2>5
<1> QED BY <1>12, <1>13, <1>14, <1>15, <1>17, <1>19, <1>21 DEF SwitchInv

LEMMA StopKeeps ==
  ASSUME SwitchInv, Stop
  PROVE  SwitchInv'
<1> DEFINE ts == call[Head(resChan)].ts
<1>1. /\ resChan # <<>> /\ clock' = Duration /\ resChan' = Tail(resChan)
      /\ running' = running \ {ts} /\ stopped' = TRUE
      /\ UNCHANGED <<switchCase, cycle, transitional, sent, reqChan, idle, exited, call, server,
                     store>>
  BY DEF Stop
<1>2. /\ resChan' \in Seq(SRequest)
      /\ \A n \in 1 .. Len(resChan') : resChan'[n] = resChan[n + 1] /\ n + 1 \in 1 .. Len(resChan)
  BY <1>1, TailOf DEF SwitchInv, ClientTypeOK
<1>3. ClientTypeOK'
  BY <1>1, <1>2, SwitchingAssumption DEF SwitchInv, ClientTypeOK
<1>4. ServerTypeOK' /\ (Len(reqChan) <= sent)' /\ QueueOK'
  BY <1>1 DEF SwitchInv, ServerTypeOK, QueueOK, store
<1>5. ResultsOK' /\ \A r \in SRequest : CallOK(r)'
  <2>1. ResultsOK'
    BY <1>1, <1>2 DEF SwitchInv, ResultsOK
  <2>2. \A r \in SRequest : CallOK(r)'
    BY <1>1 DEF SwitchInv, CallOK
  <2> QED BY <2>1, <2>2
<1>6. \A r \in SRequest : Open(r)' => Open(r) /\ call[r].ts # ts
  <2>1. \A r \in SRequest : Open(r)' <=> Open(r)
    BY <1>1 DEF Open, SharedTs
  <2> QED BY <2>1, <1>1, ReceivedIsNotOpen
<1>7. \A r \in SRequest : Tracked(r)'
  BY <1>1, <1>6 DEF SwitchInv, Tracked
<1>8. \A r, q \in SRequest : Unmixed(r, q)'
  BY <1>1, <1>6 DEF SwitchInv, Unmixed
<1> QED BY <1>3, <1>4, <1>5, <1>7, <1>8 DEF SwitchInv

LEMMA PostKeeps ==
  ASSUME SwitchInv, Post
  PROVE  SwitchInv'
<1> DEFINE h == Head(reqChan)
<1>1. /\ idle > 0 /\ reqChan # <<>> /\ idle' = idle - 1 /\ reqChan' = Tail(reqChan)
      /\ sTail' = sTail + 1
      /\ server' = [server EXCEPT ![h].pc = call[h].op, ![h].seqNum = sTail']
      /\ UNCHANGED <<switchCase, clock, main, resChan, exited, call, single, multi, versions>>
  BY DEF Post
<1>2. UNCHANGED <<cycle, transitional, running, sent, stopped>>
  BY <1>1 DEF main
<1>3. /\ reqChan' \in Seq(SRequest) /\ Len(reqChan') \in Nat /\ Len(reqChan) = Len(reqChan') + 1
      /\ \A n \in 1 .. Len(reqChan') : reqChan'[n] = reqChan[n + 1] /\ n + 1 \in 1 .. Len(reqChan)
      /\ h \in SRequest /\ h = reqChan[1] /\ 1 \in 1 .. Len(reqChan)
  BY <1>1, TailOf DEF SwitchInv, ClientTypeOK
<1>4. /\ idle \in Nat /\ sTail \in Nat /\ sent \in Nat /\ h \in Nat
      /\ server \in [SRequest -> ServerState] /\ server[h] \in ServerState
  BY <1>3, RequestBounds DEF SwitchInv, ClientTypeOK, ServerTypeOK
<1>5. h + Len(reqChan) = sent + 1
  BY <1>3 DEF SwitchInv, QueueOK
<1>6. call[h].op \in Ops /\ server[h].pc = "none" /\ call[h].mode # "none"
  <2>1. CallOK(h) /\ call[h] \in CallState
    BY <1>3 DEF SwitchInv, ClientTypeOK
  <2>2. server[h].pc = "none" /\ call[h].mode # "none" /\ call[h].op # "none"
    BY <2>1, <1>3, <1>4, <1>5 DEF CallOK
  <2> QED BY <2>1, <2>2 DEF CallState
<1> HIDE DEF h
<1> DEFINE state == [server[h] EXCEPT !.pc = call[h].op, !.seqNum = sTail']
<1>7. server' = [server EXCEPT ![h] = state]
  BY <1>1, <1>3, <1>4
<1>8. state \in ServerState /\ state.pc \notin {"none", "done"}
  <2>1. sTail' \in Nat
    BY <1>1, <1>4
  <2>2. call[h].op \in {"read", "write"}
    BY <1>6 DEF Ops
  <2> QED BY <2>1, <2>2, <1>4 DEF ServerState
<1> HIDE DEF state
<1>9. /\ server' \in [SRequest -> ServerState] /\ server'[h] = state
      /\ \A r \in SRequest : r # h => server'[r] = server[r]
  BY <1>3, <1>4, <1>7, <1>8
<1>10. ClientTypeOK' /\ ServerTypeOK'
  <2>1. ClientTypeOK'
    BY <1>1, <1>2, <1>3, <1>4 DEF SwitchInv, ClientTypeOK
  <2>2. ServerTypeOK'
    BY <1>1, <1>4, <1>9 DEF SwitchInv, ServerTypeOK
  <2> QED BY <2>1, <2>2
<1>11. (Len(reqChan) <= sent)' /\ QueueOK'
  <2>1. Len(reqChan) <= sent /\ \A n \in 1 .. Len(reqChan) : reqChan[n] + Len(reqChan) = sent + n
    BY DEF SwitchInv, QueueOK
  <2>2. ASSUME NEW n \in 1 .. Len(reqChan')
        PROVE  reqChan'[n] + Len(reqChan') = sent + n
    <3>1. reqChan'[n] = reqChan[n + 1] /\ n + 1 \in 1 .. Len(reqChan)
      BY <1>3
    <3>2. reqChan[n + 1] \in Nat /\ reqChan[n + 1] + Len(reqChan) = sent + (n + 1)
      BY <3>1, <2>1, RequestBounds DEF SwitchInv, ClientTypeOK
    <3>3. n \in Nat /\ reqChan[n + 1] + (Len(reqChan') + 1) = sent + (n + 1)
      BY <3>2, <1>3
    <3>4. PICK a \in Nat, b \in Nat : a = reqChan[n + 1] /\ b = Len(reqChan')
      BY <3>2, <1>3
    <3>5. a + b = sent + n
      BY <3>3, <3>4, <1>4
    <3> QED BY <3>1, <3>4, <3>5
  <2> QED BY <2>1, <2>2, <1>2, <1>3, <1>4 DEF QueueOK
<1>12. \A r \in SRequest : CallOK(r)'
  <2> SUFFICES ASSUME NEW r \in SRequest PROVE CallOK(r)'
      OBVIOUS
  <2>1. CallOK(r) /\ r \in Nat
    BY RequestBounds DEF SwitchInv
  <2>2. CASE r = h
    <3>1. ~ r + Len(reqChan') > sent'
      BY <2>2, <1>2, <1>3, <1>4, <1>5
    <3> QED BY <2>1, <2>2, <3>1, <1>1, <1>2, <1>6, <1>8, <1>9 DEF CallOK
  <2>3. CASE r # h
    <3>1. r + Len(reqChan') > sent' <=> r + Len(reqChan) > sent
      BY <2>1, <2>3, <1>2, <1>3, <1>4, <1>5
    <3> QED BY <2>1, <2>3, <3>1, <1>1, <1>2, <1>9 DEF CallOK
  <2> QED BY <2>2, <2>3
<1>13. ResultsOK' /\ (\A r \in SRequest : Tracked(r)') /\ \A r, q \in SRequest : Unmixed(r, q)'
  <2>1. ResultsOK'
    BY <1>1 DEF SwitchInv, ResultsOK
  <2>2. \A r \in SRequest : Open(r)' <=> Open(r)
    BY <1>1 DEF Open, SharedTs
  <2>3. \A r \in SRequest : Tracked(r)'
    BY <1>1, <1>2, <2>2 DEF SwitchInv, Tracked
  <2>4. \A r, q \in SRequest : Unmixed(r, q)'
    BY <1>1, <2>2 DEF SwitchInv, Unmixed
  <2> QED BY <2>1, <2>3, <2>4
<1> QED BY <1>10, <1>11, <1>12, <1>13 DEF SwitchInv

\* A request that runs leaves: to main, if the HTTP client did not give it up.
LEMMA ResultIsSent ==
  ASSUME SwitchInv, NEW r \in SRequest, NEW c \in CallState,
         server[r].pc \notin {"none", "done"}, c.done \/ c.gaveUp,
         c = [call[r] EXCEPT !.done = c.done, !.gaveUp = c.gaveUp],
         call[r].gaveUp => c.gaveUp, c.done => server'[r].pc = "done",
         call' = [call EXCEPT ![r] = c], idle' = idle + 1, resChan' = Append(resChan, r),
         UNCHANGED <<switchCase, clock, main, reqChan, exited>>,
         ServerTypeOK', server'[r].pc # "none",
         \A q \in SRequest : q # r => server'[q] = server[q]
  PROVE  SwitchInv'
<1>1. UNCHANGED <<switchCase, clock, cycle, transitional, running, sent, stopped, reqChan, exited>>
  BY DEF main
<1>2. /\ resChan' \in Seq(SRequest) /\ Len(resChan') = Len(resChan) + 1 /\ Len(resChan) \in Nat
      /\ \A n \in 1 .. Len(resChan) : resChan'[n] = resChan[n]
      /\ resChan'[Len(resChan) + 1] = r
  BY AppendTo DEF SwitchInv, ClientTypeOK
<1>3. call \in [SRequest -> CallState] /\ call[r] \in CallState
  BY DEF SwitchInv, ClientTypeOK
<1>4. /\ call' \in [SRequest -> CallState] /\ call'[r] = c
      /\ \A q \in SRequest : q # r => call'[q] = call[q]
  BY <1>3
<1>5. c.mode = call[r].mode /\ c.op = call[r].op /\ c.ts = call[r].ts
  BY <1>3 DEF CallState
<1>6. ClientTypeOK'
  <2>1. idle \in Nat /\ idle' \in Nat
    BY DEF SwitchInv, ClientTypeOK
  <2> QED BY <1>1, <1>2, <1>4, <2>1 DEF SwitchInv, ClientTypeOK
<1>7. (Len(reqChan) <= sent)' /\ QueueOK'
  BY <1>1 DEF SwitchInv, QueueOK
<1>8. \A q \in SRequest : CallOK(q)'
  BY <1>1, <1>4, <1>5 DEF SwitchInv, CallOK
<1>9. ResultsOK'
  <2> SUFFICES ASSUME NEW n \in 1 .. Len(resChan')
               PROVE call'[resChan'[n]].done \/ call'[resChan'[n]].gaveUp
      BY DEF ResultsOK
  <2>1. CASE resChan'[n] = r
    BY <2>1, <1>4
  <2>2. CASE resChan'[n] # r
    <3>1. n \in 1 .. Len(resChan)
      BY <2>2, <1>2
    <3>2. resChan'[n] = resChan[n] /\ resChan[n] \in SRequest
      BY <3>1, <1>2 DEF SwitchInv, ClientTypeOK
    <3> QED BY <3>1, <3>2, <2>2, <1>4 DEF SwitchInv, ResultsOK
  <2> QED BY <2>1, <2>2
<1>10. \A q \in SRequest : Open(q)' => Open(q) /\ call'[q] = call[q]
  <2> SUFFICES ASSUME NEW q \in SRequest, Open(q)' PROVE Open(q) /\ call'[q] = call[q]
      OBVIOUS
  <2>1. q # r /\ call'[q] = call[q]
    BY <1>4 DEF Open
  <2>2. \A p \in SRequest : call'[p].mode = call[p].mode /\ call'[p].ts = call[p].ts
    BY <1>4, <1>5
  <2>3. Open(q)
    BY <2>1, <2>2 DEF Open, SharedTs
  <2> QED BY <2>1, <2>3
<1>11. \A q \in SRequest : Tracked(q)'
  BY <1>1, <1>10 DEF SwitchInv, Tracked
<1>12. \A p, q \in SRequest : Unmixed(p, q)'
  BY <1>10 DEF SwitchInv, Unmixed
<1> QED BY <1>6, <1>7, <1>8, <1>9, <1>11, <1>12 DEF SwitchInv

LEMMA AnswerKeeps ==
  ASSUME SwitchInv, NEW r \in SRequest, Answer(r)
  PROVE  SwitchInv'
<1>1. /\ server[r].pc \in {"return", "posted"}
      /\ server' = [server EXCEPT ![r].pc = "done"]
      /\ UNCHANGED <<switchCase, clock, main, exited, store>>
  BY DEF Answer, Returns
<1>2. /\ server \in [SRequest -> ServerState] /\ call \in [SRequest -> CallState]
      /\ call[r] \in CallState
  BY DEF SwitchInv, ServerTypeOK, ClientTypeOK
<1>3. /\ server' \in [SRequest -> ServerState] /\ server'[r].pc = "done"
      /\ \A q \in SRequest : q # r => server'[q] = server[q]
  BY <1>1, <1>2 DEF ServerState
<1>4. ServerTypeOK'
  BY <1>1, <1>3 DEF SwitchInv, ServerTypeOK, store
<1>5. CASE call[r].gaveUp
  <2>1. UNCHANGED <<switchCase, clock, cycle, transitional, running, sent, stopped, reqChan, resChan,
                    idle, exited, call>>
    BY <1>1, <1>5 DEF Answer, main, chans
  <2>2. ClientTypeOK' /\ (Len(reqChan) <= sent)' /\ QueueOK' /\ ResultsOK'
    BY <2>1 DEF SwitchInv, ClientTypeOK, QueueOK, ResultsOK
  <2>3. \A q \in SRequest : CallOK(q)'
    BY <2>1, <1>1, <1>3 DEF SwitchInv, CallOK
  <2>4. \A q \in SRequest : Open(q)' <=> Open(q)
    BY <2>1 DEF Open, SharedTs
  <2>5. \A q \in SRequest : Tracked(q)'
    BY <2>1, <2>4 DEF SwitchInv, Tracked
  <2>6. \A p, q \in SRequest : Unmixed(p, q)'
    BY <2>1, <2>4 DEF SwitchInv, Unmixed
  <2> QED BY <2>2, <2>3, <2>5, <2>6, <1>4 DEF SwitchInv
<1>6. CASE ~ call[r].gaveUp
  <2> DEFINE c == [call[r] EXCEPT !.done = TRUE]
  <2>1. /\ resChan' = Append(resChan, r) /\ idle' = idle + 1 /\ UNCHANGED reqChan
        /\ call' = [call EXCEPT ![r] = c]
    BY <1>6, <1>2 DEF Answer
  <2>2. c \in CallState /\ c.done /\ c.gaveUp = call[r].gaveUp
        /\ c = [call[r] EXCEPT !.done = c.done, !.gaveUp = c.gaveUp]
    <3>1. c \in CallState /\ c.done /\ c.gaveUp = call[r].gaveUp
      BY <1>2 DEF CallState
    <3>2. [call[r] EXCEPT !.done = TRUE, !.gaveUp = call[r].gaveUp] = c
      BY <1>2 DEF CallState
    <3> QED BY <3>1, <3>2
  <2> HIDE DEF c
  <2> QED BY <1>1, <1>3, <1>4, <2>1, <2>2, ResultIsSent
<1> QED BY <1>5, <1>6

LEMMA TimeOutKeeps ==
  ASSUME SwitchInv, NEW r \in SRequest, TimeOut(r)
  PROVE  SwitchInv'
<1>1. /\ server[r].pc \notin {"none", "done"} /\ resChan' = Append(resChan, r)
      /\ idle' = idle + 1 /\ call' = [call EXCEPT ![r].gaveUp = TRUE]
      /\ UNCHANGED <<switchCase, clock, main, reqChan, exited, server, store>>
  BY DEF TimeOut
<1> DEFINE c == [call[r] EXCEPT !.gaveUp = TRUE]
<1>2. call \in [SRequest -> CallState] /\ call[r] \in CallState /\ CallOK(r)
  BY DEF SwitchInv, ClientTypeOK
<1>3. call' = [call EXCEPT ![r] = c]
  BY <1>1, <1>2
<1>4. c \in CallState /\ c.gaveUp /\ c.done = call[r].done
      /\ c = [call[r] EXCEPT !.done = c.done, !.gaveUp = c.gaveUp]
  <2>1. c \in CallState /\ c.gaveUp /\ c.done = call[r].done
    BY <1>2 DEF CallState
  <2>2. [call[r] EXCEPT !.done = call[r].done, !.gaveUp = TRUE] = c
    BY <1>2 DEF CallState
  <2> QED BY <2>1, <2>2
<1>5. ServerTypeOK' /\ server' = server
  BY <1>1 DEF SwitchInv, ServerTypeOK, store
<1>6. ~ c.done
  BY <1>1, <1>2, <1>4 DEF CallOK
<1> HIDE DEF c
<1> QED BY <1>1, <1>3, <1>4, <1>5, <1>6, ResultIsSent

LEMMA WorkerEndsKeeps ==
  ASSUME SwitchInv, WorkerEnds
  PROVE  SwitchInv'
<1>1. UNCHANGED <<switchCase, clock, cycle, transitional, running, sent, stopped, reqChan, resChan,
                  call, server, sTail, single, multi, versions>>
  BY DEF WorkerEnds, main, store
<1>2. idle' \in Nat /\ exited' \in Nat
  BY DEF WorkerEnds, SwitchInv, ClientTypeOK
<1>3. ClientTypeOK' /\ ServerTypeOK' /\ (Len(reqChan) <= sent)' /\ QueueOK' /\ ResultsOK'
  BY <1>1, <1>2 DEF SwitchInv, ClientTypeOK, ServerTypeOK, QueueOK, ResultsOK
<1>4. \A r \in SRequest : CallOK(r)'
  BY <1>1 DEF SwitchInv, CallOK
<1>5. \A r \in SRequest : Open(r)' <=> Open(r)
  BY <1>1 DEF Open, SharedTs
<1>6. \A r \in SRequest : Tracked(r)'
  BY <1>1, <1>5 DEF SwitchInv, Tracked
<1>7. \A r, q \in SRequest : Unmixed(r, q)'
  BY <1>1, <1>5 DEF SwitchInv, Unmixed
<1> QED BY <1>3, <1>4, <1>6, <1>7 DEF SwitchInv

LEMMA SwitchStutters ==
  ASSUME SwitchInv, UNCHANGED switchVars
  PROVE  SwitchInv'
<1>1. ServerTypeOK' /\ UNCHANGED <<switchCase, clock, main, chans, exited, call, server>>
  BY DEF SwitchInv, ServerTypeOK, switchVars, main, chans
<1> QED BY <1>1, ClientUndisturbed DEF SamePhase

LEMMA SwitchInvKept == SwitchInv /\ [SwitchNext]_switchVars => SwitchInv'
<1> SUFFICES ASSUME SwitchInv, [SwitchNext]_switchVars PROVE SwitchInv'
    OBVIOUS
<1>1. CASE ClientStep
  BY <1>1, ReceiveKeeps, StopKeeps, PostKeeps, WorkerEndsKeeps DEF ClientStep
<1>2. ASSUME NEW r \in SRequest, ServerStep(r) \/ Answer(r) \/ TimeOut(r) PROVE SwitchInv'
  BY <1>2, ServerStepKeeps, AnswerKeeps, TimeOutKeeps
<1>3. CASE UNCHANGED switchVars
  BY <1>3, SwitchStutters
<1> QED BY <1>1, <1>2, <1>3 DEF SwitchNext

-----------------------------------------------------------------------------
(***************************************************************************)
(* The invariant: the client knows every request that runs, unless it gave *)
(* it up or knows another by the same timestamp, and has those of another  *)
(* mode than the present one among the transitional ones (the sets         *)
(* runningReqs and transitionalReqs of main).                              *)
(***************************************************************************)
THEOREM SwitchInvHolds == SwitchSpec => []SwitchInv
BY SwitchInitially, SwitchInvKept, PTL DEF SwitchSpec

LEMMA SwitchInvUnmixed == SwitchInv => NoMixedModes
<1> SUFFICES ASSUME SwitchInv, NEW r \in SRequest, NEW q \in SRequest, Runs(r), Runs(q),
                    InMode(r, {"READLOG"}), InMode(q, {"WRITELOG"}),
                    \A x \in {r, q} : ~ call[x].gaveUp /\ ~ SharedTs(x)
             PROVE  FALSE
    BY DEF NoMixedModes
<1>1. call[r].mode = "READLOG" /\ call[q].mode = "WRITELOG"
  BY DEF InMode
<1>2. ~ call[r].done /\ ~ call[q].done
  BY DEF Runs, SwitchInv, CallOK
<1>3. Open(r) /\ Open(q)
  BY <1>1, <1>2 DEF Open
<1> QED BY <1>1, <1>3 DEF SwitchInv, Unmixed

(***************************************************************************)
(* No request with logged reads runs together with one with logged writes, *)
(* for any number of workers, requests and changes of the cycle, with the  *)
(* exceptions of the property: the client starts with a new mode only when *)
(* the requests that are not of that mode have their results               *)
(* (transitionalReqs is empty).                                            *)
(***************************************************************************)
THEOREM ModesAreNotMixed == SwitchSpec => []NoMixedModes
BY SwitchInvHolds, SwitchInvUnmixed, PTL

-----------------------------------------------------------------------------
(***************************************************************************)
(* What a read finds.                                                      *)
(***************************************************************************)
IsWrite(r) == call[r].op = "write"
Posted(r) == server[r].pc # "none"
Numbers(r) == {server[r].pre, server[r].seqNum}
MayHaveWritten(r) == server[r].pc \in {"items", "posted", "return", "done"}

\* The numbers of the log that a request has got.
NumbersOK(r) ==
  /\ server[r].seqNum <= sTail /\ server[r].pre <= server[r].seqNum
  /\ Posted(r) => server[r].seqNum # 0
  /\ ~ Posted(r) => server[r] = NoServer
  /\ call[r].op = "read" => server[r].pre = 0 /\ server[r].pc \notin {"write", "items", "posted"}
  /\ server[r].pc = "read" => server[r].found

\* How far a write is.
WriteOK(r) ==
  LET state == server[r]
      published == <<state.seqNum, state.pre>> \in versions
  IN  IsWrite(r) =>
        /\ state.pc # "read"
        /\ state.pc = "write" => state.pre = 0
        /\ state.pc = "items" => state.pre # 0 /\ state.seqNum = state.pre
        /\ state.pc = "posted" => state.pre # 0 /\ published
        /\ state.pc = "return" => InMode(r, {"READLOG"})
        /\ InMode(r, {"READLOG"}) =>
             state.pre = 0 /\ (state.pc \in {"return", "done"} => single.version >= state.seqNum)
        /\ state.pc = "done" /\ ~ InMode(r, {"READLOG"}) =>
             state.pre # 0 /\ published /\ state.writes = {}
        /\ InMode(r, {"TRANSITIONAL"}) /\ state.pre # 0 =>
             "single" \in state.writes \/ single.version >= state.pre
        /\ InMode(r, {"WRITELOG"}) /\ state.pre # 0 =>
             /\ "multi" \in state.writes \/ <<state.pre, r>> \in multi
             /\ state.pc \in {"posted", "done"} => state.writes = {}

\* A number of the log is of one request.
NumbersDiffer ==
  \A r, q \in SRequest : r # q => Numbers(r) \cap Numbers(q) \subseteq {0}

VersionsOK ==
  \A v \in versions : \E w \in SRequest :
    /\ v = <<server[w].seqNum, server[w].pre>>
    /\ IsWrite(w) /\ ~ InMode(w, {"READLOG"}) /\ server[w].pc \in {"posted", "done"}
    /\ server[w].pre # 0

\* What has a last entry up to a number.
LastAt(n) ==
  (\E v \in versions : v[1] <= n) =>
    \E v \in versions : v[1] <= n /\ \A w \in versions : w[1] <= n => w[1] <= v[1]

MultiOK ==
  \A i \in multi : i[2] \in SRequest /\ MayHaveWritten(i[2]) /\ i[1] \in Numbers(i[2])

SingleOK ==
  /\ single.value = Write0 <=> single.version = 0
  /\ single.value # Write0 =>
       /\ single.value \in SRequest /\ MayHaveWritten(single.value)
       /\ single.version \in Numbers(single.value)

\* A request is sent after those before it, and comes later in the log.
BeforeOK(r) ==
  \A w \in call[r].before :
    /\ w \in SRequest /\ w < r /\ call[w].done
    /\ Posted(r) => server[w].seqNum < server[r].seqNum
    /\ server[r].pre # 0 => server[w].seqNum < server[r].pre

ReadOK(r) ==
  HasRead(r) =>
    IF server[r].found THEN ChangedBack(r) \/ Regular(r)
    ELSE \E w \in SRequest :
           /\ InMode(w, {"TRANSITIONAL"}) /\ server[w].pre # 0
           /\ server[w].pre = VisibleVersion(server[r].seqNum)

StoreInv ==
  /\ \A r \in SRequest : NumbersOK(r) /\ WriteOK(r) /\ BeforeOK(r) /\ ReadOK(r)
  /\ NumbersDiffer
  /\ VersionsOK /\ MultiOK /\ SingleOK
  /\ \A n \in Nat : LastAt(n)

-----------------------------------------------------------------------------
LEMMA StoreInitially == SwitchInit => StoreInv
<1> SUFFICES ASSUME SwitchInit PROVE StoreInv
    OBVIOUS
<1>1. /\ sTail = 0 /\ multi = {} /\ versions = {}
      /\ single = [value |-> Write0, version |-> 0]
      /\ \A r \in SRequest : server[r] = NoServer
  BY DEF SwitchInit
<1>2. \A r \in SRequest : call[r].before = {}
  BY DEF SwitchInit, NoCall
<1>3. \A r \in SRequest : NumbersOK(r) /\ WriteOK(r)
  <2>1. /\ NoServer.pc = "none" /\ NoServer.seqNum = 0 /\ NoServer.pre = 0
        /\ NoServer.seqNum <= 0 /\ NoServer.pre <= NoServer.seqNum
    BY DEF NoServer
  <2>2. \A r \in SRequest : NumbersOK(r)
    BY <1>1, <2>1 DEF NumbersOK, Posted
  <2>3. \A r \in SRequest : WriteOK(r)
    BY <1>1, <2>1 DEF WriteOK
  <2> QED BY <2>2, <2>3
<1>4. \A r \in SRequest : BeforeOK(r) /\ ReadOK(r)
  BY <1>1, <1>2 DEF BeforeOK, ReadOK, HasRead, NoServer
<1>5. NumbersDiffer
  BY <1>1 DEF NumbersDiffer, Numbers, NoServer
<1>6. VersionsOK /\ MultiOK /\ SingleOK /\ \A n \in Nat : LastAt(n)
  BY <1>1 DEF VersionsOK, MultiOK, SingleOK, LastAt
<1> QED BY <1>3, <1>4, <1>5, <1>6 DEF StoreInv

LEMMA StoreTypes ==
  ASSUME SwitchInv
  PROVE  /\ sTail \in Nat /\ single.version \in Nat
         /\ \A r \in SRequest :
              /\ r \in Nat /\ r >= 1 /\ server[r] \in ServerState /\ call[r] \in CallState
              /\ server[r].seqNum \in Nat /\ server[r].pre \in Nat /\ server[r].result \in Nat
              /\ server[r].writes \subseteq Places
         /\ \A v \in versions : v = <<v[1], v[2]>> /\ v[1] \in Nat /\ v[2] \in Nat
         /\ \A i \in multi : i = <<i[1], i[2]>> /\ i[1] \in Nat /\ i[2] \in Nat
<1>1. ClientTypeOK /\ ServerTypeOK
  BY DEF SwitchInv
<1>2. \A r \in SRequest : server[r] \in ServerState /\ call[r] \in CallState
  BY <1>1 DEF ClientTypeOK, ServerTypeOK
<1>3. \A r \in SRequest :
        /\ server[r].seqNum \in Nat /\ server[r].pre \in Nat /\ server[r].result \in Nat
        /\ server[r].writes \subseteq Places
  BY <1>2 DEF ServerState
<1>4. sTail \in Nat /\ single.version \in Nat
  BY <1>1 DEF ServerTypeOK
<1>5. \A v \in versions : v = <<v[1], v[2]>> /\ v[1] \in Nat /\ v[2] \in Nat
  BY <1>1 DEF ServerTypeOK
<1>6. \A i \in multi : i = <<i[1], i[2]>> /\ i[1] \in Nat /\ i[2] \in Nat
  BY <1>1 DEF ServerTypeOK
<1> QED BY <1>2, <1>3, <1>4, <1>5, <1>6, RequestBounds

(***************************************************************************)
(* What the last version up to a number is, and whose.                     *)
(***************************************************************************)
LEMMA Visible ==
  ASSUME SwitchInv, StoreInv, NEW n \in Nat
  PROVE  \/ VisibleVersion(n) = 0 /\ \A v \in versions : ~ v[1] <= n
         \/ \E v \in versions : /\ v[1] <= n /\ VisibleVersion(n) = v[2]
                                /\ \A w \in versions : w[1] <= n => w[1] <= v[1]
<1> DEFINE seen == {v \in versions : v[1] <= n}
<1>1. CASE seen = {}
  BY <1>1 DEF VisibleVersion
<1>2. CASE seen # {}
  <2> DEFINE last == CHOOSE v \in seen : \A w \in seen : w[1] <= v[1]
  <2>1. \E v \in seen : \A w \in seen : w[1] <= v[1]
    BY <1>2 DEF StoreInv, LastAt
  <2>2. last \in seen /\ \A w \in seen : w[1] <= last[1]
    BY <2>1
  <2>3. VisibleVersion(n) = last[2]
    BY <1>2 DEF VisibleVersion
  <2> QED BY <2>2, <2>3
<1> QED BY <1>1, <1>2

LEMMA VisibleIsPublished ==
  ASSUME SwitchInv, StoreInv, NEW n \in Nat, VisibleVersion(n) # 0
  PROVE  \E x \in SRequest :
           /\ VisibleVersion(n) = server[x].pre /\ server[x].pre # 0
           /\ IsWrite(x) /\ ~ InMode(x, {"READLOG"}) /\ server[x].pc \in {"posted", "done"}
           /\ \A w \in versions : w[1] <= n => w[1] <= server[x].seqNum
<1>1. PICK v \in versions : /\ v[1] <= n /\ VisibleVersion(n) = v[2]
                            /\ \A w \in versions : w[1] <= n => w[1] <= v[1]
  BY Visible
<1>2. PICK x \in SRequest :
        /\ v = <<server[x].seqNum, server[x].pre>>
        /\ IsWrite(x) /\ ~ InMode(x, {"READLOG"}) /\ server[x].pc \in {"posted", "done"}
        /\ server[x].pre # 0
  BY DEF StoreInv, VersionsOK
<1>3. v[1] = server[x].seqNum /\ v[2] = server[x].pre
  BY <1>2
<1> QED BY <1>1, <1>2, <1>3

LEMMA ItemIsOfWriter ==
  ASSUME SwitchInv, StoreInv, NEW x \in SRequest, server[x].pre # 0,
         NEW i \in ItemsAt(server[x].pre)
  PROVE  i[2] = x
<1>1. i \in multi /\ i[1] = server[x].pre
  BY DEF ItemsAt
<1>2. i[2] \in SRequest /\ i[1] \in Numbers(i[2])
  BY <1>1 DEF StoreInv, MultiOK
<1>3. i[1] \in Numbers(x)
  BY <1>1 DEF Numbers
<1> QED BY <1>1, <1>2, <1>3 DEF StoreInv, NumbersDiffer

(***************************************************************************)
(* What is read is not from before a write that is done.                   *)
(***************************************************************************)
LEMMA SingleIsRecent ==
  ASSUME SwitchInv, StoreInv, NEW w \in SRequest, IsWrite(w), server[w].pc = "done",
         InMode(w, {"READLOG", "TRANSITIONAL"})
  PROVE  single.value # Write0 /\ single.value \notin call[w].before
<1>1. NumbersOK(w) /\ WriteOK(w) /\ BeforeOK(w) /\ SingleOK
  BY DEF StoreInv
<1>2. \A r \in SRequest : server[r].seqNum \in Nat /\ server[r].pre \in Nat
  BY StoreTypes
<1>3. single.version \in Nat
  BY StoreTypes
<1>4. PICK first \in Nat :
        /\ first # 0 /\ single.version >= first
        /\ \A x \in call[w].before : server[x].seqNum < first
  <2>1. CASE InMode(w, {"READLOG"})
    <3>1. single.version >= server[w].seqNum /\ server[w].seqNum # 0
      BY <2>1, <1>1 DEF WriteOK, NumbersOK, Posted
    <3>2. \A x \in call[w].before : server[x].seqNum < server[w].seqNum
      BY <1>1 DEF BeforeOK, Posted
    <3> QED BY <3>1, <3>2, <1>2
  <2>2. CASE InMode(w, {"TRANSITIONAL"})
    <3>1. server[w].pre # 0 /\ server[w].writes = {}
      BY <2>2, <1>1 DEF WriteOK, InMode
    <3>2. single.version >= server[w].pre
      BY <2>2, <3>1, <1>1 DEF WriteOK
    <3>3. \A x \in call[w].before : server[x].seqNum < server[w].pre
      BY <3>1, <1>1 DEF BeforeOK
    <3> QED BY <3>1, <3>2, <3>3, <1>2
  <2> QED BY <2>1, <2>2 DEF InMode
<1>5. single.value # Write0
  BY <1>1, <1>3, <1>4 DEF SingleOK
<1>6. ASSUME single.value \in call[w].before PROVE FALSE
  <2>1. PICK x \in SRequest : x = single.value
    BY <1>1, <1>5 DEF SingleOK
  <2>2. single.version \in Numbers(x) /\ NumbersOK(x)
    BY <2>1, <1>1, <1>5 DEF SingleOK, StoreInv
  <2>3. single.version <= server[x].seqNum
    BY <2>2, <1>2 DEF Numbers, NumbersOK
  <2>4. server[x].seqNum < first
    BY <2>1, <1>4, <1>6
  <2> QED BY <2>3, <2>4, <1>2, <1>3, <1>4
<1> QED BY <1>5, <1>6

LEMMA VersionIsRecent ==
  ASSUME SwitchInv, StoreInv, NEW r \in SRequest, Posted(r), NEW w \in call[r].before,
         IsWrite(w), ~ InMode(w, {"READLOG"})
  PROVE  /\ VisibleVersion(server[r].seqNum) # 0
         /\ \A x \in SRequest : server[x].pre = VisibleVersion(server[r].seqNum) =>
              x \notin call[w].before
<1>1. /\ w \in SRequest /\ call[w].done /\ server[w].seqNum < server[r].seqNum
  BY DEF StoreInv, BeforeOK
<1>2. server[w].pc = "done"
  BY <1>1 DEF SwitchInv, CallOK
<1>3. <<server[w].seqNum, server[w].pre>> \in versions /\ server[w].pre # 0
  BY <1>1, <1>2 DEF StoreInv, WriteOK
<1>4. \A q \in SRequest : server[q].seqNum \in Nat /\ server[q].pre \in Nat
  BY StoreTypes
<1> DEFINE n == server[r].seqNum
<1>5. n \in Nat /\ server[w].seqNum <= n
  BY <1>1, <1>4
<1> HIDE DEF n
<1>6. \E v \in versions : v[1] <= n
  BY <1>3, <1>5
<1>7. PICK v \in versions : v[1] <= n /\ VisibleVersion(n) = v[2]
  BY <1>5, <1>6, Visible
<1>8. VisibleVersion(n) # 0
  <2>1. PICK x \in SRequest : v = <<server[x].seqNum, server[x].pre>> /\ server[x].pre # 0
    BY DEF StoreInv, VersionsOK
  <2> QED BY <2>1, <1>7
<1>9. PICK y \in SRequest :
        /\ VisibleVersion(n) = server[y].pre
        /\ \A u \in versions : u[1] <= n => u[1] <= server[y].seqNum
  BY <1>5, <1>8, VisibleIsPublished
<1>10. server[w].seqNum <= server[y].seqNum
  BY <1>3, <1>5, <1>9
<1>11. ASSUME NEW x \in SRequest, server[x].pre = VisibleVersion(n), x \in call[w].before
       PROVE  FALSE
  <2>1. x = y
    BY <1>8, <1>9, <1>11 DEF StoreInv, NumbersDiffer, Numbers
  <2>2. server[x].seqNum < server[w].pre
    BY <1>1, <1>3, <1>11 DEF StoreInv, BeforeOK
  <2>3. server[w].pre <= server[w].seqNum
    BY <1>1 DEF StoreInv, NumbersOK
  <2> QED BY <2>1, <2>2, <2>3, <1>1, <1>4, <1>10
<1> QED BY <1>8, <1>11 DEF n

-----------------------------------------------------------------------------
(***************************************************************************)
(* A step of one request: what it may change of the log and of the items,  *)
(* and that this leaves the other requests as they were.                   *)
(***************************************************************************)
SameCalls ==
  \A q \in SRequest :
    /\ call'[q].mode = call[q].mode /\ call'[q].op = call[q].op
    /\ call'[q].before = call[q].before
    /\ call[q].done => call'[q].done

\* A number of its own is new in the log, and kept once items are written under it.
NumbersAdvance(r) ==
  /\ sTail' = sTail \/ sTail' = sTail + 1
  /\ server'[r].seqNum = server[r].seqNum \/ (server'[r].seqNum = sTail' /\ sTail' = sTail + 1)
  /\ server'[r].pre = server[r].pre \/ (server'[r].pre = sTail' /\ sTail' = sTail + 1)
  /\ Posted(r) \/ server'[r].seqNum # server[r].seqNum
  /\ server[r].pre # 0 => server'[r].pre = server[r].pre
  /\ MayHaveWritten(r) => MayHaveWritten(r)' /\ Numbers(r) \subseteq Numbers(r)'
  /\ server[r].pc = "posted" =>
       server'[r].seqNum = server[r].seqNum /\ server'[r].pc \in {"posted", "done"}

Publishes(r) ==
  \/ versions' = versions
  \/ /\ versions' = versions \cup {<<sTail + 1, server'[r].pre>>}
     /\ sTail' = sTail + 1 /\ server'[r].seqNum = sTail + 1 /\ server'[r].pre # 0
     /\ IsWrite(r) /\ ~ InMode(r, {"READLOG"}) /\ server'[r].pc = "posted"

Writes(r) ==
  /\ \/ multi' = multi
     \/ \E n \in Numbers(r)' : multi' = multi \cup {<<n, r>>} /\ MayHaveWritten(r)'
  /\ \/ single' = single
     \/ \E n \in Numbers(r)' :
          /\ n > single.version /\ single' = [value |-> r, version |-> n]
          /\ MayHaveWritten(r)'

Advance(r) ==
  /\ server[r].pc # "done" /\ SameCalls
  /\ \A q \in SRequest : q # r => server'[q] = server[q]
  /\ NumbersAdvance(r) /\ Publishes(r) /\ Writes(r)

LastOf(seen) ==
  IF seen = {} THEN 0 ELSE (CHOOSE v \in seen : \A w \in seen : w[1] <= v[1])[2]

LEMMA VisibleStays ==
  ASSUME SwitchInv, NEW n \in Nat, n <= sTail, NEW r \in SRequest, Publishes(r)
  PROVE  VisibleVersion(n)' = VisibleVersion(n)
<1>1. {v \in versions' : v[1] <= n} = {v \in versions : v[1] <= n}
  <2>1. sTail \in Nat
    BY StoreTypes
  <2>2. \A x : ~ <<sTail + 1, x>>[1] <= n
    BY <2>1
  <2> QED BY <2>2 DEF Publishes
<1>2. VisibleVersion(n) = LastOf({v \in versions : v[1] <= n})
  BY DEF VisibleVersion, LastOf
<1>3. VisibleVersion(n)' = LastOf({v \in versions' : v[1] <= n})
  BY DEF VisibleVersion, LastOf
<1> QED BY <1>1, <1>2, <1>3

LEMMA VersionsStay ==
  ASSUME NEW r \in SRequest, Publishes(r)
  PROVE  versions \subseteq versions'
BY DEF Publishes

LEMMA SingleRises ==
  ASSUME SwitchInv, SwitchInv', NEW r \in SRequest, Writes(r), NEW n \in Nat, single.version >= n
  PROVE  single'.version >= n
<1>1. single.version \in Nat /\ single'.version \in Nat
  BY StoreTypes DEF SwitchInv, ServerTypeOK
<1>2. single' = single \/ single'.version > single.version
  BY DEF Writes
<1> QED BY <1>1, <1>2

LEMMA OthersStay ==
  ASSUME SwitchInv, SwitchInv', StoreInv, NEW r \in SRequest, Advance(r),
         NEW q \in SRequest, q # r
  PROVE  NumbersOK(q)' /\ WriteOK(q)' /\ BeforeOK(q)'
<1>1. server'[q] = server[q] /\ SameCalls
  BY DEF Advance
<1>2. /\ server[q].seqNum \in Nat /\ server[q].pre \in Nat /\ sTail \in Nat /\ sTail' \in Nat
      /\ sTail <= sTail'
  BY StoreTypes DEF Advance, NumbersAdvance
<1>3. NumbersOK(q)'
  BY <1>1, <1>2 DEF StoreInv, NumbersOK, SameCalls, Posted
<1>4. WriteOK(q)'
  <2>1. versions \subseteq versions' /\ multi \subseteq multi'
    BY VersionsStay DEF Advance, Writes
  <2>2. single.version >= server[q].seqNum => single'.version >= server[q].seqNum
    BY <1>2, SingleRises DEF Advance
  <2>3. single.version >= server[q].pre => single'.version >= server[q].pre
    BY <1>2, SingleRises DEF Advance
  <2>4. WriteOK(q)
    BY DEF StoreInv
  <2> QED BY <1>1, <2>1, <2>2, <2>3, <2>4 DEF WriteOK, SameCalls, IsWrite, InMode
<1>5. BeforeOK(q)'
  <2> SUFFICES ASSUME NEW w \in call[q].before
               PROVE  /\ w \in SRequest /\ w < q /\ call'[w].done
                      /\ Posted(q) => server'[w].seqNum < server[q].seqNum
                      /\ server[q].pre # 0 => server'[w].seqNum < server[q].pre
      BY <1>1 DEF BeforeOK, SameCalls, Posted
  <2>1. /\ w \in SRequest /\ w < q /\ call[w].done
        /\ Posted(q) => server[w].seqNum < server[q].seqNum
        /\ server[q].pre # 0 => server[w].seqNum < server[q].pre
    BY DEF StoreInv, BeforeOK
  <2>2. server[w].pc = "done"
    BY <2>1 DEF SwitchInv, CallOK
  <2>3. server'[w] = server[w] /\ call'[w].done
    BY <2>1, <2>2, <1>1 DEF Advance, SameCalls
  <2> QED BY <2>1, <2>3
<1> QED BY <1>3, <1>4, <1>5

LEMMA ReadStays ==
  ASSUME SwitchInv, SwitchInv', StoreInv, NEW r \in SRequest, Advance(r), NEW q \in SRequest,
         HasRead(q), Posted(q), server'[q].result = server[q].result,
         server'[q].found = server[q].found, server'[q].seqNum = server[q].seqNum
  PROVE  ReadOK(q)'
<1>1. SameCalls /\ ReadOK(q)
  BY DEF Advance, StoreInv
<1>2. CASE server[q].found
  <2>1. ChangedBack(q) \/ Regular(q)
    BY <1>1, <1>2 DEF ReadOK
  <2>2. CASE ChangedBack(q)
    <3>1. ChangedBack(q)'
      BY <2>2, <1>1 DEF ChangedBack, InMode, SameCalls
    <3> QED BY <3>1, <1>2 DEF ReadOK
  <2>3. CASE Regular(q)
    <3>1. \A w \in call[q].before : w \in SRequest
      BY DEF StoreInv, BeforeOK
    <3>2. Regular(q)'
      BY <2>3, <3>1, <1>1 DEF Regular, SameCalls
    <3> QED BY <3>2, <1>2 DEF ReadOK
  <2> QED BY <2>1, <2>2, <2>3
<1>3. CASE ~ server[q].found
  <2>1. PICK w \in SRequest : /\ InMode(w, {"TRANSITIONAL"}) /\ server[w].pre # 0
                              /\ server[w].pre = VisibleVersion(server[q].seqNum)
    BY <1>1, <1>3 DEF ReadOK
  <2>2. server'[w].pre = server[w].pre
    BY <2>1 DEF Advance, NumbersAdvance
  <2>3. VisibleVersion(server[q].seqNum)' = VisibleVersion(server[q].seqNum)
    <3>1. PICK n \in Nat : n = server[q].seqNum
      BY StoreTypes
    <3>2. n <= sTail
      BY <3>1 DEF StoreInv, NumbersOK
    <3>3. VisibleVersion(n)' = VisibleVersion(n)
      BY <3>2, VisibleStays DEF Advance
    <3> QED BY <3>1, <3>3
  <2>4. InMode(w, {"TRANSITIONAL"})'
    BY <2>1, <1>1 DEF InMode, SameCalls
  <2> QED BY <2>1, <2>2, <2>3, <2>4, <1>3 DEF ReadOK
<1> QED BY <1>2, <1>3

LEMMA StepKeepsStore ==
  ASSUME SwitchInv, SwitchInv', StoreInv, NEW r \in SRequest, Advance(r),
         NumbersOK(r)', WriteOK(r)', ReadOK(r)'
  PROVE  StoreInv'
<1>1. /\ SameCalls /\ NumbersAdvance(r) /\ Publishes(r) /\ Writes(r)
      /\ \A q \in SRequest : q # r => server'[q] = server[q]
  BY DEF Advance
<1>2. /\ sTail \in Nat /\ sTail' \in Nat /\ sTail <= sTail'
      /\ \A q \in SRequest : server[q].seqNum \in Nat /\ server[q].pre \in Nat
  BY <1>1, StoreTypes DEF NumbersAdvance
<1>3. \A q \in SRequest : NumbersOK(q)' /\ WriteOK(q)'
  BY OthersStay
<1>4. \A q \in SRequest : BeforeOK(q)'
  <2>1. ASSUME NEW w \in call[r].before
        PROVE  /\ w \in SRequest /\ w < r /\ call'[w].done
               /\ server'[w].seqNum < server'[r].seqNum
               /\ server'[r].pre # 0 => server'[w].seqNum < server'[r].pre
    <3>1. /\ w \in SRequest /\ w < r /\ call[w].done
          /\ Posted(r) => server[w].seqNum < server[r].seqNum
          /\ server[r].pre # 0 => server[w].seqNum < server[r].pre
      BY DEF StoreInv, BeforeOK
    <3>2. server'[w] = server[w] /\ call'[w].done
      BY <3>1, <1>1, StoreTypes DEF SameCalls
    <3>3. server[w].seqNum <= sTail
      BY <3>1 DEF StoreInv, NumbersOK
    <3>4. server[w].seqNum < server'[r].seqNum
      BY <3>1, <3>3, <1>1, <1>2 DEF NumbersAdvance
    <3>5. server'[r].pre # 0 => server[w].seqNum < server'[r].pre
      BY <3>1, <3>3, <1>1, <1>2 DEF NumbersAdvance
    <3> QED BY <3>1, <3>2, <3>4, <3>5
  <2>2. BeforeOK(r)'
    BY <2>1, <1>1 DEF BeforeOK, SameCalls
  <2> QED BY <2>2, OthersStay
<1>5. \A q \in SRequest : ReadOK(q)'
  <2> SUFFICES ASSUME NEW q \in SRequest, q # r PROVE ReadOK(q)'
      OBVIOUS
  <2>1. server'[q] = server[q]
    BY <1>1
  <2>2. CASE HasRead(q)
    <3>1. Posted(q)
      BY <2>2 DEF HasRead, Posted
    <3> QED BY <2>1, <2>2, <3>1, ReadStays
  <2>3. CASE ~ HasRead(q)
    BY <2>1, <2>3, <1>1 DEF ReadOK, HasRead, SameCalls
  <2> QED BY <2>2, <2>3
<1>6. NumbersDiffer'
  <2>1. ASSUME NEW q \in SRequest, q # r, NEW n \in Numbers(q), n \in Numbers(r)' PROVE n = 0
    <3>1. n <= sTail /\ n \in Nat
      BY <1>2 DEF StoreInv, NumbersOK, Numbers
    <3>2. n \in Numbers(r)
      BY <2>1, <3>1, <1>1, <1>2 DEF NumbersAdvance, Numbers
    <3> QED BY <2>1, <3>2 DEF StoreInv, NumbersDiffer
  <2>2. \A q \in SRequest : q # r => Numbers(q)' = Numbers(q)
    BY <1>1 DEF Numbers
  <2>3. ASSUME NEW p \in SRequest, NEW q \in SRequest, p # q, NEW n,
               n \in Numbers(p)', n \in Numbers(q)'
        PROVE  n = 0
    <3>1. CASE p = r
      BY <3>1, <2>1, <2>2, <2>3
    <3>2. CASE q = r
      BY <3>2, <2>1, <2>2, <2>3
    <3>3. CASE p # r /\ q # r
      BY <3>3, <2>2, <2>3 DEF StoreInv, NumbersDiffer
    <3> QED BY <3>1, <3>2, <3>3
  <2> QED BY <2>3 DEF NumbersDiffer
<1>7. VersionsOK'
  <2> SUFFICES ASSUME NEW v \in versions'
               PROVE  \E w \in SRequest :
                        /\ v = <<server'[w].seqNum, server'[w].pre>>
                        /\ IsWrite(w)' /\ ~ InMode(w, {"READLOG"})'
                        /\ server'[w].pc \in {"posted", "done"} /\ server'[w].pre # 0
      BY DEF VersionsOK
  <2>1. \A w \in SRequest : /\ IsWrite(w)' <=> IsWrite(w)
                            /\ InMode(w, {"READLOG"})' <=> InMode(w, {"READLOG"})
    BY <1>1 DEF SameCalls, IsWrite, InMode
  <2>2. CASE v \in versions
    <3>1. PICK w \in SRequest :
            /\ v = <<server[w].seqNum, server[w].pre>>
            /\ IsWrite(w) /\ ~ InMode(w, {"READLOG"}) /\ server[w].pc \in {"posted", "done"}
            /\ server[w].pre # 0
      BY <2>2 DEF StoreInv, VersionsOK
    <3>2. CASE w # r
      BY <3>1, <3>2, <2>1, <1>1
    <3>3. CASE w = r
      <4>1. server[r].pc = "posted"
        BY <3>1, <3>3 DEF Advance
      <4>2. /\ server'[r].seqNum = server[r].seqNum /\ server'[r].pre = server[r].pre
            /\ server'[r].pc \in {"posted", "done"}
        BY <4>1, <3>1, <3>3, <1>1 DEF NumbersAdvance
      <4> QED BY <4>2, <3>1, <3>3, <2>1
    <3> QED BY <3>2, <3>3
  <2>3. CASE v \notin versions
    <3>1. /\ v = <<sTail + 1, server'[r].pre>>
          /\ server'[r].seqNum = sTail + 1 /\ server'[r].pre # 0
          /\ IsWrite(r) /\ ~ InMode(r, {"READLOG"}) /\ server'[r].pc = "posted"
      BY <2>3, <1>1 DEF Publishes
    <3> QED BY <3>1, <2>1
  <2> QED BY <2>2, <2>3
<1>8. ASSUME NEW x \in SRequest, MayHaveWritten(x)
      PROVE  MayHaveWritten(x)' /\ Numbers(x) \subseteq Numbers(x)'
  <2>1. CASE x = r
    BY <2>1, <1>1, <1>8 DEF NumbersAdvance
  <2>2. CASE x # r
    BY <2>2, <1>1, <1>8 DEF MayHaveWritten, Numbers
  <2> QED BY <2>1, <2>2
<1>9. MultiOK'
  <2> SUFFICES ASSUME NEW i \in multi'
               PROVE  i[2] \in SRequest /\ MayHaveWritten(i[2])' /\ i[1] \in Numbers(i[2])'
      BY DEF MultiOK
  <2>1. CASE i \in multi
    <3>1. PICK x \in SRequest : x = i[2] /\ MayHaveWritten(x) /\ i[1] \in Numbers(x)
      BY <2>1 DEF StoreInv, MultiOK
    <3>2. MayHaveWritten(x)' /\ i[1] \in Numbers(x)'
      BY <3>1, <1>8
    <3> QED BY <3>1, <3>2
  <2>2. CASE i \notin multi
    <3>1. PICK n \in Numbers(r)' : i = <<n, r>> /\ MayHaveWritten(r)'
      BY <2>2, <1>1 DEF Writes
    <3>2. i[1] = n /\ i[2] = r
      BY <3>1
    <3> QED BY <3>1, <3>2
  <2> QED BY <2>1, <2>2
<1>10. SingleOK'
  <2>1. CASE single' = single
    <3>1. CASE single.value = Write0
      BY <2>1, <3>1 DEF StoreInv, SingleOK
    <3>2. CASE single.value # Write0
      <4>1. PICK x \in SRequest : /\ x = single.value /\ MayHaveWritten(x)
                                  /\ single.version \in Numbers(x)
        BY <3>2 DEF StoreInv, SingleOK
      <4>2. MayHaveWritten(x)' /\ single.version \in Numbers(x)'
        BY <4>1, <1>8
      <4>3. single.version # 0
        BY <3>2 DEF StoreInv, SingleOK
      <4> QED BY <2>1, <3>2, <4>1, <4>2, <4>3 DEF SingleOK
    <3> QED BY <3>1, <3>2
  <2>2. CASE single' # single
    <3>1. PICK n \in Numbers(r)' :
            /\ n > single.version /\ single' = [value |-> r, version |-> n]
            /\ MayHaveWritten(r)'
      BY <2>2, <1>1 DEF Writes
    <3>2. single'.value = r /\ single'.version = n
      BY <3>1
    <3>3. single.version \in Nat /\ r >= 1 /\ r \in Nat
      BY StoreTypes
    <3>4. n # 0 /\ r # Write0
      BY <3>1, <3>3 DEF Write0
    <3> QED BY <3>1, <3>2, <3>4 DEF SingleOK
  <2> QED BY <2>1, <2>2
<1>11. \A n \in Nat : LastAt(n)'
  <2> SUFFICES ASSUME NEW n \in Nat, NEW u \in versions', u[1] <= n
               PROVE  \E v \in versions' :
                        v[1] <= n /\ \A w \in versions' : w[1] <= n => w[1] <= v[1]
      BY DEF LastAt
  <2>1. ASSUME NEW v \in versions PROVE v[1] <= sTail /\ v[1] \in Nat
    <3>1. PICK w \in SRequest : v = <<server[w].seqNum, server[w].pre>>
      BY <2>1 DEF StoreInv, VersionsOK
    <3>2. v[1] = server[w].seqNum
      BY <3>1
    <3> QED BY <3>2, <1>2 DEF StoreInv, NumbersOK
  <2>2. CASE versions' = versions
    BY <2>2 DEF StoreInv, LastAt
  <2>3. CASE versions' # versions
    <3>1. PICK new : new = <<sTail + 1, server'[r].pre>>
      OBVIOUS
    <3>2. versions' = versions \cup {new} /\ new[1] = sTail + 1
      BY <2>3, <3>1, <1>1 DEF Publishes
    <3>3. CASE sTail + 1 <= n
      <4>1. \A w \in versions' : w[1] <= new[1]
        BY <2>1, <3>2, <1>2
      <4> QED BY <3>2, <3>3, <4>1
    <3>4. CASE ~ sTail + 1 <= n
      <4>1. u \in versions
        BY <3>2, <3>4
      <4>2. PICK v \in versions : v[1] <= n /\ \A w \in versions : w[1] <= n => w[1] <= v[1]
        BY <4>1 DEF StoreInv, LastAt
      <4> QED BY <3>2, <3>4, <4>2
    <3> QED BY <3>3, <3>4
  <2> QED BY <2>2, <2>3
<1> QED BY <1>3, <1>4, <1>5, <1>6, <1>7, <1>9, <1>10, <1>11 DEF StoreInv

-----------------------------------------------------------------------------
LEMMA SameCallsOf == ASSUME UNCHANGED call PROVE SameCalls
BY DEF SameCalls

LEMMA PostAdvances ==
  ASSUME SwitchInv, SwitchInv', StoreInv, Post
  PROVE  StoreInv'
<1>0. PICK r \in SRequest : r = Head(reqChan)
  BY TailOf DEF Post, SwitchInv, ClientTypeOK
<1>1. /\ reqChan # <<>> /\ sTail' = sTail + 1
      /\ server' = [server EXCEPT ![r].pc = call[r].op, ![r].seqNum = sTail']
      /\ UNCHANGED <<call, single, multi, versions>>
  BY <1>0 DEF Post
<1>2. r \in SRequest /\ r = reqChan[1] /\ 1 \in 1 .. Len(reqChan)
  BY <1>0, <1>1, TailOf DEF SwitchInv, ClientTypeOK
<1>3. r + Len(reqChan) = sent + 1
  BY <1>2 DEF SwitchInv, QueueOK
<1>4. call[r].op \in Ops /\ server[r].pc = "none" /\ call[r].mode # "none"
  <2>1. CallOK(r) /\ call[r] \in CallState
    BY <1>2 DEF SwitchInv, ClientTypeOK
  <2>2. r \in Nat /\ sent \in Nat /\ Len(reqChan) \in Nat /\ 1 <= Len(reqChan)
    BY <1>2, RequestBounds DEF SwitchInv, ClientTypeOK
  <2>3. server[r].pc = "none" /\ call[r].mode # "none" /\ call[r].op # "none"
    BY <2>1, <2>2, <1>3 DEF CallOK
  <2> QED BY <2>1, <2>3 DEF CallState
<1>5. /\ server[r] = NoServer /\ server \in [SRequest -> ServerState] /\ sTail \in Nat
      /\ server[r] \in ServerState
  BY <1>2, <1>4 DEF StoreInv, NumbersOK, Posted, SwitchInv, ServerTypeOK
<1>6. /\ \A q \in SRequest : q # r => server'[q] = server[q]
      /\ server'[r].pc = call[r].op /\ server'[r].seqNum = sTail + 1
      /\ server'[r].pre = server[r].pre /\ server'[r].found = server[r].found
      /\ server'[r].writes = server[r].writes
  BY <1>1, <1>2, <1>5 DEF ServerState
<1>7. /\ server[r].pc = "none" /\ server[r].pre = 0 /\ server[r].seqNum = 0 /\ server[r].found
      /\ server[r].writes = {}
  BY <1>5 DEF NoServer
<1>8. Advance(r)
  <2>1. NumbersAdvance(r)
    BY <1>1, <1>5, <1>6, <1>7 DEF NumbersAdvance, MayHaveWritten
  <2>2. Publishes(r) /\ Writes(r) /\ SameCalls
    BY <1>1, SameCallsOf DEF Publishes, Writes
  <2> QED BY <2>1, <2>2, <1>6, <1>7 DEF Advance
<1>9. call'[r] = call[r] /\ (call[r].op = "read" \/ call[r].op = "write")
  BY <1>1, <1>4 DEF Ops
<1>10. NumbersOK(r)'
  BY <1>1, <1>5, <1>6, <1>7, <1>9 DEF NumbersOK, Posted
<1>11. WriteOK(r)'
  BY <1>6, <1>7, <1>9 DEF WriteOK, IsWrite
<1>12. ReadOK(r)'
  BY <1>6, <1>9 DEF ReadOK, HasRead
<1> QED BY <1>2, <1>8, <1>10, <1>11, <1>12, StepKeepsStore

LEMMA RunningOp ==
  ASSUME SwitchInv, StoreInv, NEW r \in SRequest
  PROVE  /\ server[r].pc \in {"read"} => call[r].op = "read"
         /\ server[r].pc \in {"write", "items", "posted"} => call[r].op = "write"
<1>1. server[r].pc # "none" => call[r].op \in Ops
  <2>1. CallOK(r) /\ call[r] \in CallState /\ server[r] \in ServerState
    BY DEF SwitchInv, ClientTypeOK, ServerTypeOK
  <2>2. r \in Nat /\ sent \in Nat /\ Len(reqChan) \in Nat
    BY RequestBounds DEF SwitchInv, ClientTypeOK
  <2>3. server[r].pc # "none" => call[r].op # "none"
    BY <2>1, <2>2 DEF CallOK
  <2> QED BY <2>1, <2>3 DEF CallState
<1> QED BY <1>1 DEF StoreInv, NumbersOK, WriteOK, IsWrite, Ops

LEMMA ModeOfPosted ==
  ASSUME SwitchInv, NEW r \in SRequest, Posted(r)
  PROVE  call[r].mode \in Modes
<1>1. CallOK(r) /\ call[r] \in CallState
  BY DEF SwitchInv, ClientTypeOK
<1>2. r \in Nat /\ sent \in Nat /\ Len(reqChan) \in Nat
  BY RequestBounds DEF SwitchInv, ClientTypeOK
<1>3. call[r].mode # "none"
  BY <1>1, <1>2 DEF CallOK, Posted
<1> QED BY <1>1, <1>3 DEF CallState

\* A read returns: what it leaves alone.
LEMMA ReadReturns ==
  ASSUME SwitchInv, SwitchInv', StoreInv, NEW r \in SRequest, server[r].pc = "read",
         server'[r].pc = "return", server'[r].seqNum = server[r].seqNum,
         server'[r].pre = server[r].pre, \A q \in SRequest : q # r => server'[q] = server[q],
         UNCHANGED <<call, sTail, single, multi, versions>>, ReadOK(r)'
  PROVE  StoreInv'
<1>1. call[r].op = "read" /\ server[r].pre = 0 /\ NumbersOK(r)
  BY RunningOp DEF StoreInv, NumbersOK
<1>2. Advance(r)
  <2>1. NumbersAdvance(r)
    BY <1>1 DEF NumbersAdvance, MayHaveWritten, Posted
  <2>2. Publishes(r) /\ Writes(r) /\ SameCalls
    BY SameCallsOf DEF Publishes, Writes
  <2> QED BY <2>1, <2>2 DEF Advance
<1>3. NumbersOK(r)'
  BY <1>1 DEF NumbersOK, Posted
<1>4. WriteOK(r)'
  BY <1>1 DEF WriteOK, IsWrite
<1> QED BY <1>2, <1>3, <1>4, StepKeepsStore

LEMMA ReadWithLogIsRegular ==
  ASSUME SwitchInv, SwitchInv', StoreInv, NEW r \in SRequest, ReadWithLog(r)
  PROVE  StoreInv'
<1>1. /\ server[r].pc = "read" /\ call[r].mode \in {"READLOG", "TRANSITIONAL"}
      /\ server' = [server EXCEPT ![r].pc = "return", ![r].result = single.value]
      /\ UNCHANGED <<call, sTail, single, multi, versions>>
  BY DEF ReadWithLog, ServerAt, InMode, store
<1>2. server \in [SRequest -> ServerState] /\ server[r] \in ServerState
  BY DEF SwitchInv, ServerTypeOK
<1>3. /\ \A q \in SRequest : q # r => server'[q] = server[q]
      /\ server'[r].pc = "return" /\ server'[r].seqNum = server[r].seqNum
      /\ server'[r].pre = server[r].pre /\ server'[r].found = server[r].found
      /\ server'[r].result = single.value
  BY <1>1, <1>2 DEF ServerState
<1>4. server[r].found
  BY <1>1 DEF StoreInv, NumbersOK
<1>5. ChangedBack(r) \/ \A w \in call[r].before : IsWrite(w) =>
        single.value # Write0 /\ single.value \notin call[w].before
  <2> SUFFICES ASSUME ~ ChangedBack(r), NEW w \in call[r].before, IsWrite(w)
               PROVE  single.value # Write0 /\ single.value \notin call[w].before
      OBVIOUS
  <2>1. w \in SRequest /\ w < r /\ call[w].done
    BY DEF StoreInv, BeforeOK
  <2>2. server[w].pc = "done"
    BY <2>1 DEF SwitchInv, CallOK
  <2>3. call[w].mode \in Modes
    BY <2>1, <2>2, ModeOfPosted DEF Posted
  <2>4. call[w].mode # "WRITELOG"
    <3>1. r <= r
      BY RequestBounds
    <3> QED BY <3>1, <2>1, <1>1 DEF ChangedBack, InMode
  <2>5. InMode(w, {"READLOG", "TRANSITIONAL"})
    BY <2>3, <2>4 DEF InMode, Modes
  <2> QED BY <2>1, <2>2, <2>5, SingleIsRecent
<1>6. ReadOK(r)'
  <2>1. call' = call
    BY <1>1
  <2>2. ChangedBack(r)' <=> ChangedBack(r)
    BY <2>1 DEF ChangedBack, InMode
  <2> QED BY <2>1, <2>2, <1>3, <1>4, <1>5 DEF ReadOK, Regular, IsWrite
<1> QED BY <1>1, <1>3, <1>6, ReadReturns

LEMMA ReadWithoutLogIsRegular ==
  ASSUME SwitchInv, SwitchInv', StoreInv, NEW r \in SRequest, ReadWithoutLog(r)
  PROVE  StoreInv'
<1> DEFINE version == VisibleVersion(server[r].seqNum)
           items == IF version = 0 THEN {<<0, single.value>>} ELSE ItemsAt(version)
           result == IF items = {} THEN server[r].result ELSE (CHOOSE i \in items : TRUE)[2]
<1>1. /\ server[r].pc = "read" /\ call[r].mode = "WRITELOG"
      /\ server' = [server EXCEPT ![r].pc = "return", ![r].found = items # {},
           ![r].result = IF items = {} THEN @ ELSE (CHOOSE i \in items : TRUE)[2]]
      /\ UNCHANGED <<call, sTail, single, multi, versions>>
  BY DEF ReadWithoutLog, ServerAt, InMode, store
<1>2. server \in [SRequest -> ServerState] /\ server[r] \in ServerState
  BY DEF SwitchInv, ServerTypeOK
<1>3. /\ \A q \in SRequest : q # r => server'[q] = server[q]
      /\ server'[r].pc = "return" /\ server'[r].seqNum = server[r].seqNum
      /\ server'[r].pre = server[r].pre /\ server'[r].found = (items # {})
      /\ server'[r].result = result
  <2> HIDE DEF items
  <2> QED BY <1>1, <1>2 DEF ServerState
<1>4. server[r].seqNum \in Nat /\ Posted(r)
  BY <1>1, StoreTypes DEF Posted
<1>5. version # 0 =>
        \E x \in SRequest :
           /\ version = server[x].pre /\ server[x].pre # 0
           /\ IsWrite(x) /\ ~ InMode(x, {"READLOG"}) /\ server[x].pc \in {"posted", "done"}
  BY <1>4, VisibleIsPublished
<1>6. items = {} => \E w \in SRequest : /\ InMode(w, {"TRANSITIONAL"}) /\ server[w].pre # 0
                                        /\ server[w].pre = version
  <2> SUFFICES ASSUME items = {}
               PROVE  \E w \in SRequest : /\ InMode(w, {"TRANSITIONAL"}) /\ server[w].pre # 0
                                          /\ server[w].pre = version
      OBVIOUS
  <2>1. version # 0 /\ ItemsAt(version) = {}
    OBVIOUS
  <2>2. PICK x \in SRequest :
           /\ version = server[x].pre /\ server[x].pre # 0
           /\ IsWrite(x) /\ ~ InMode(x, {"READLOG"}) /\ server[x].pc \in {"posted", "done"}
    BY <2>1, <1>5
  <2>3. call[x].mode \in Modes
    BY <2>2, ModeOfPosted DEF Posted
  <2>4. CASE call[x].mode = "WRITELOG"
    <3>1. <<server[x].pre, x>> \in multi
      BY <2>2, <2>4 DEF StoreInv, WriteOK, InMode
    <3>2. <<server[x].pre, x>> \in ItemsAt(version)
      BY <3>1, <2>2 DEF ItemsAt
    <3> QED BY <3>2, <2>1
  <2>5. CASE call[x].mode # "WRITELOG"
    BY <2>2, <2>3, <2>5 DEF InMode, Modes
  <2> QED BY <2>4, <2>5
<1>7. items # {} =>
        \/ version = 0 /\ result = single.value
        \/ result \in SRequest /\ server[result].pre = version /\ version # 0
           /\ ~ InMode(result, {"READLOG"}) /\ Posted(result)
  <2> SUFFICES ASSUME items # {}
               PROVE \/ version = 0 /\ result = single.value
                     \/ result \in SRequest /\ server[result].pre = version /\ version # 0
                        /\ ~ InMode(result, {"READLOG"}) /\ Posted(result)
      OBVIOUS
  <2>1. PICK i \in items : i = (CHOOSE j \in items : TRUE) /\ result = i[2]
    OBVIOUS
  <2>2. CASE version = 0
    <3>1. i = <<0, single.value>>
      BY <2>1, <2>2
    <3> QED BY <3>1, <2>1, <2>2
  <2>3. CASE version # 0
    <3>1. PICK x \in SRequest :
            /\ version = server[x].pre /\ server[x].pre # 0
            /\ ~ InMode(x, {"READLOG"}) /\ server[x].pc \in {"posted", "done"}
      BY <2>3, <1>5
    <3>2. i \in ItemsAt(server[x].pre)
      BY <2>1, <2>3, <3>1
    <3>3. i[2] = x
      BY <3>1, <3>2, ItemIsOfWriter
    <3> QED BY <2>1, <2>3, <3>1, <3>3 DEF Posted
  <2> QED BY <2>2, <2>3
<1> HIDE DEF items, result
<1>8. items # {} => ChangedBack(r) \/ \A w \in call[r].before : IsWrite(w) =>
        result # Write0 /\ result \notin call[w].before
  <2> SUFFICES ASSUME items # {}, ~ ChangedBack(r), NEW w \in call[r].before, IsWrite(w)
               PROVE  result # Write0 /\ result \notin call[w].before
      OBVIOUS
  <2>1. w \in SRequest /\ w < r /\ call[w].done /\ BeforeOK(w)
    BY DEF StoreInv, BeforeOK
  <2>2. server[w].pc = "done"
    BY <2>1 DEF SwitchInv, CallOK
  <2>3. \A x \in SRequest : x # Write0 /\ x \in Nat
    BY RequestBounds DEF Write0
  <2>4. CASE ~ InMode(w, {"READLOG"})
    BY <2>4, <1>4, <1>7, <2>3, VersionIsRecent
  <2>5. CASE InMode(w, {"READLOG"}) /\ version = 0
    <3>1. InMode(w, {"READLOG", "TRANSITIONAL"})
      BY <2>5 DEF InMode
    <3> QED BY <3>1, <2>1, <2>2, <2>5, <1>7, SingleIsRecent
  <2>6. CASE InMode(w, {"READLOG"}) /\ version # 0
    <3>1. /\ result \in SRequest /\ ~ InMode(result, {"READLOG"}) /\ Posted(result)
      BY <2>6, <1>7
    <3>2. InMode(result, {"TRANSITIONAL", "WRITELOG"})
      BY <3>1, ModeOfPosted DEF InMode, Modes
    <3>3. ASSUME result \in call[w].before PROVE FALSE
      <4>1. result < w /\ w <= r
        BY <3>3, <2>1, <2>3 DEF BeforeOK
      <4>2. InMode(r, {"WRITELOG"})
        BY <1>1 DEF InMode
      <4> QED BY <4>1, <4>2, <3>1, <3>2, <2>1, <2>6 DEF ChangedBack, InMode
    <3> QED BY <3>1, <3>3, <2>3
  <2> QED BY <2>4, <2>5, <2>6
<1>9. ReadOK(r)'
  <2>1. call' = call /\ versions' = versions
    BY <1>1
  <2>2. ChangedBack(r)' <=> ChangedBack(r)
    BY <2>1 DEF ChangedBack, InMode
  <2>3. CASE items # {}
    BY <2>1, <2>2, <2>3, <1>3, <1>8 DEF ReadOK, Regular, IsWrite
  <2>4. CASE items = {}
    <3>1. PICK w \in SRequest : /\ InMode(w, {"TRANSITIONAL"}) /\ server[w].pre # 0
                                /\ server[w].pre = version
      BY <2>4, <1>6
    <3>2. server'[w].pre = server[w].pre
      BY <1>3
    <3>3. VisibleVersion(server[r].seqNum)' = version
      BY <2>1, <1>3 DEF VisibleVersion
    <3>4. InMode(w, {"TRANSITIONAL"})'
      BY <3>1, <2>1 DEF InMode
    <3> QED BY <3>1, <3>2, <3>3, <3>4, <2>4, <1>3 DEF ReadOK
  <2> QED BY <2>3, <2>4
<1> QED BY <1>1, <1>3, <1>9, ReadReturns

-----------------------------------------------------------------------------
LEMMA SingleWrites ==
  ASSUME SwitchInv, NEW r \in SRequest, NEW n \in Numbers(r)', n \in Nat, Single(r, n),
         MayHaveWritten(r)'
  PROVE  /\ \/ single' = single
            \/ \E m \in Numbers(r)' :
                 /\ m > single.version /\ single' = [value |-> r, version |-> m]
                 /\ MayHaveWritten(r)'
         /\ single'.version >= n
<1>1. single.version \in Nat
  BY StoreTypes
<1>2. CASE single.version < n
  <2>1. single' = [value |-> r, version |-> n] /\ n > single.version
    BY <1>1, <1>2 DEF Single
  <2> QED BY <2>1
<1>3. CASE ~ single.version < n
  BY <1>1, <1>3 DEF Single
<1> QED BY <1>2, <1>3

\* A write does not read.
LEMMA NoReadOfWrite ==
  ASSUME NEW r \in SRequest, call'[r].op = "write"
  PROVE  ReadOK(r)'
BY DEF ReadOK, HasRead

LEMMA WriteWithoutLogKeeps ==
  ASSUME SwitchInv, SwitchInv', StoreInv, NEW r \in SRequest, WriteWithoutLog(r)
  PROVE  StoreInv'
<1>1. /\ server[r].pc = "write" /\ call[r].mode = "READLOG"
      /\ server' = [server EXCEPT ![r].pc = "return"] /\ Single(r, server[r].seqNum)
      /\ UNCHANGED <<call, sTail, multi, versions>>
  BY DEF WriteWithoutLog, ServerAt, ServerGoTo, InMode
<1>2. server \in [SRequest -> ServerState] /\ server[r] \in ServerState
  BY DEF SwitchInv, ServerTypeOK
<1>3. /\ \A q \in SRequest : q # r => server'[q] = server[q]
      /\ server'[r].pc = "return" /\ server'[r].seqNum = server[r].seqNum
      /\ server'[r].pre = server[r].pre
  BY <1>1, <1>2 DEF ServerState
<1>4. call[r].op = "write" /\ server[r].pre = 0 /\ NumbersOK(r)
  BY <1>1, RunningOp DEF StoreInv, WriteOK, IsWrite
<1>5. /\ server[r].seqNum \in Numbers(r)' /\ server[r].seqNum \in Nat
      /\ MayHaveWritten(r)'
  BY <1>3, StoreTypes DEF Numbers, MayHaveWritten
<1>6. /\ \/ single' = single
         \/ \E m \in Numbers(r)' :
              /\ m > single.version /\ single' = [value |-> r, version |-> m]
              /\ MayHaveWritten(r)'
      /\ single'.version >= server[r].seqNum
  BY <1>1, <1>5, SingleWrites
<1>7. Advance(r)
  <2>1. NumbersAdvance(r)
    BY <1>1, <1>3, <1>4 DEF NumbersAdvance, MayHaveWritten, Posted
  <2>2. Publishes(r) /\ Writes(r) /\ SameCalls
    BY <1>1, <1>6, SameCallsOf DEF Publishes, Writes
  <2> QED BY <2>1, <2>2, <1>1, <1>3 DEF Advance
<1>8. NumbersOK(r)'
  BY <1>1, <1>3, <1>4 DEF NumbersOK, Posted
<1>9. WriteOK(r)'
  BY <1>1, <1>3, <1>4, <1>6 DEF WriteOK, IsWrite, InMode
<1> QED BY <1>1, <1>4, <1>7, <1>8, <1>9, NoReadOfWrite, StepKeepsStore

LEMMA PreWriteKeeps ==
  ASSUME SwitchInv, SwitchInv', StoreInv, NEW r \in SRequest, PreWrite(r)
  PROVE  StoreInv'
<1>1. /\ server[r].pc = "write" /\ call[r].mode # "READLOG" /\ sTail' = sTail + 1
      /\ server' = [server EXCEPT ![r].pc = "items", ![r].seqNum = sTail', ![r].pre = sTail',
                                  ![r].writes = Targets(r)]
      /\ UNCHANGED <<call, single, multi, versions>>
  BY DEF PreWrite, ServerAt, InMode
<1>2. server \in [SRequest -> ServerState] /\ server[r] \in ServerState /\ sTail \in Nat
  BY DEF SwitchInv, ServerTypeOK
<1>3. /\ \A q \in SRequest : q # r => server'[q] = server[q]
      /\ server'[r].pc = "items" /\ server'[r].seqNum = sTail + 1
      /\ server'[r].pre = sTail + 1 /\ server'[r].writes = Targets(r)
  BY <1>1, <1>2 DEF ServerState
<1>4. call[r].op = "write" /\ server[r].pre = 0 /\ NumbersOK(r)
  BY <1>1, RunningOp DEF StoreInv, WriteOK, IsWrite
<1>5. Advance(r)
  <2>1. NumbersAdvance(r)
    BY <1>1, <1>2, <1>3, <1>4 DEF NumbersAdvance, MayHaveWritten, Posted
  <2>2. Publishes(r) /\ Writes(r) /\ SameCalls
    BY <1>1, SameCallsOf DEF Publishes, Writes
  <2> QED BY <2>1, <2>2, <1>1, <1>3 DEF Advance
<1>6. NumbersOK(r)'
  BY <1>1, <1>2, <1>3, <1>4 DEF NumbersOK, Posted
<1>7. WriteOK(r)'
  BY <1>1, <1>2, <1>3, <1>4 DEF WriteOK, IsWrite, InMode, Targets
<1> QED BY <1>1, <1>4, <1>5, <1>6, <1>7, NoReadOfWrite, StepKeepsStore

LEMMA WriteItemKeeps ==
  ASSUME SwitchInv, SwitchInv', StoreInv, NEW r \in SRequest, WriteItem(r)
  PROVE  StoreInv'
<1>1. server[r].pc \in {"items", "posted"} /\ UNCHANGED <<call, sTail, versions>>
  BY DEF WriteItem
<1>2. PICK target \in server[r].writes, version \in WriteVersions(r) :
        /\ IF target = "single" THEN Single(r, version) /\ UNCHANGED multi
           ELSE multi' = multi \cup {<<version, r>>} /\ UNCHANGED single
        /\ server' = [server EXCEPT ![r].writes = @ \ {target}]
  BY DEF WriteItem
<1>3. server \in [SRequest -> ServerState] /\ server[r] \in ServerState
  BY DEF SwitchInv, ServerTypeOK
<1>4. /\ \A q \in SRequest : q # r => server'[q] = server[q]
      /\ server'[r].pc = server[r].pc /\ server'[r].seqNum = server[r].seqNum
      /\ server'[r].pre = server[r].pre /\ server'[r].writes = server[r].writes \ {target}
  BY <1>2, <1>3 DEF ServerState
<1>5. call[r].op = "write" /\ server[r].pre # 0 /\ NumbersOK(r) /\ WriteOK(r)
  BY <1>1, RunningOp DEF StoreInv, WriteOK, IsWrite
<1>6. /\ version \in Numbers(r)' /\ version \in Nat /\ version >= server[r].pre
      /\ MayHaveWritten(r)' /\ target \in {"single", "multi"}
      /\ server[r].pre \in Nat /\ server[r].seqNum \in Nat
  <2>1. server[r].pre \in Nat /\ server[r].seqNum \in Nat /\ server[r].writes \subseteq Places
    BY StoreTypes
  <2>2. server[r].pre <= server[r].seqNum
    BY <1>5 DEF NumbersOK
  <2>3. version = server[r].pre \/ version = server[r].seqNum
    BY DEF WriteVersions
  <2> QED BY <2>1, <2>2, <2>3, <1>1, <1>4 DEF Numbers, MayHaveWritten, Places
<1>7. Writes(r) /\ (target = "single" => single'.version >= server[r].pre)
      /\ (target = "multi" => <<version, r>> \in multi')
      /\ multi \subseteq multi'
  <2>1. CASE target = "single"
    <3>1. /\ \/ single' = single
             \/ \E m \in Numbers(r)' :
                  /\ m > single.version /\ single' = [value |-> r, version |-> m]
                  /\ MayHaveWritten(r)'
          /\ single'.version >= version
      BY <2>1, <1>2, <1>6, SingleWrites
    <3>2. single'.version \in Nat
      BY DEF SwitchInv, ServerTypeOK
    <3> QED BY <2>1, <3>1, <3>2, <1>2, <1>6 DEF Writes
  <2>2. CASE target # "single"
    <3>1. multi' = multi \cup {<<version, r>>} /\ UNCHANGED single
      BY <2>2, <1>2
    <3> QED BY <2>2, <3>1, <1>6 DEF Writes
  <2> QED BY <2>1, <2>2
<1>8. Advance(r)
  <2>1. NumbersAdvance(r)
    BY <1>1, <1>4, <1>5 DEF NumbersAdvance, MayHaveWritten, Posted, Numbers
  <2>2. Publishes(r) /\ SameCalls
    BY <1>1, SameCallsOf DEF Publishes
  <2> QED BY <2>1, <2>2, <1>1, <1>4, <1>7 DEF Advance
<1>9. NumbersOK(r)'
  <2>1. call[r].op # "read" /\ server[r].pc # "read"
    BY <1>1, <1>5
  <2> QED BY <2>1, <1>1, <1>4, <1>5 DEF NumbersOK, Posted
<1>10. WriteOK(r)'
  <2>1. \/ target = "single" \/ ("single" \in server[r].writes => "single" \in server'[r].writes)
    BY <1>4
  <2>2. single.version >= server[r].pre => single'.version >= server[r].pre
    BY <1>6, <1>7, SingleRises
  <2>3. InMode(r, {"TRANSITIONAL"}) =>
          "single" \in server'[r].writes \/ single'.version >= server[r].pre
    BY <2>1, <2>2, <1>5, <1>7 DEF WriteOK, IsWrite
  <2>4. InMode(r, {"WRITELOG"}) =>
          /\ "multi" \in server'[r].writes \/ <<server[r].pre, r>> \in multi'
          /\ server[r].pc # "posted"
    <3> SUFFICES ASSUME InMode(r, {"WRITELOG"})
                 PROVE  /\ "multi" \in server'[r].writes \/ <<server[r].pre, r>> \in multi'
                        /\ server[r].pc # "posted"
        OBVIOUS
    <3>1. server[r].pc # "posted"
      BY <1>5 DEF WriteOK, IsWrite
    <3>2. version = server[r].pre
      BY <3>1, <1>1, <1>5 DEF WriteOK, IsWrite, WriteVersions
    <3>3. CASE target = "multi"
      BY <3>1, <3>2, <3>3, <1>7
    <3>4. CASE target # "multi"
      BY <3>1, <3>4, <1>4, <1>5, <1>7 DEF WriteOK, IsWrite
    <3> QED BY <3>3, <3>4
  <2>5. ~ InMode(r, {"READLOG"})
    BY <1>5 DEF WriteOK, IsWrite
  <2> QED BY <2>3, <2>4, <2>5, <1>1, <1>4, <1>5 DEF WriteOK, IsWrite, InMode
<1> QED BY <1>1, <1>5, <1>8, <1>9, <1>10, NoReadOfWrite, StepKeepsStore

LEMMA PostWriteKeeps ==
  ASSUME SwitchInv, SwitchInv', StoreInv, NEW r \in SRequest, PostWrite(r)
  PROVE  StoreInv'
<1>1. /\ server[r].pc = "items" /\ sTail' = sTail + 1 /\ MayPost(r)
      /\ versions' = versions \cup {<<sTail', server[r].pre>>}
      /\ server' = [server EXCEPT ![r].pc = "posted", ![r].seqNum = sTail']
      /\ UNCHANGED <<call, single, multi>>
  BY DEF PostWrite, ServerAt
<1>2. server \in [SRequest -> ServerState] /\ server[r] \in ServerState /\ sTail \in Nat
  BY DEF SwitchInv, ServerTypeOK
<1>3. /\ \A q \in SRequest : q # r => server'[q] = server[q]
      /\ server'[r].pc = "posted" /\ server'[r].seqNum = sTail + 1
      /\ server'[r].pre = server[r].pre /\ server'[r].writes = server[r].writes
  BY <1>1, <1>2 DEF ServerState
<1>4. /\ call[r].op = "write" /\ server[r].pre # 0 /\ server[r].seqNum = server[r].pre
      /\ NumbersOK(r) /\ WriteOK(r) /\ ~ InMode(r, {"READLOG"})
  BY <1>1, RunningOp DEF StoreInv, WriteOK, IsWrite
<1>5. server[r].pre \in Nat /\ server[r].pre <= sTail
  <2>1. server[r].pre \in Nat
    BY StoreTypes
  <2>2. server[r].seqNum <= sTail
    BY <1>4 DEF NumbersOK
  <2> QED BY <2>1, <2>2, <1>4
<1>6. Advance(r)
  <2>1. NumbersAdvance(r)
    BY <1>1, <1>2, <1>3, <1>4, <1>5 DEF NumbersAdvance, MayHaveWritten, Posted, Numbers
  <2>2. Publishes(r)
    BY <1>1, <1>3, <1>4 DEF Publishes, IsWrite
  <2>3. Writes(r) /\ SameCalls
    BY <1>1, SameCallsOf DEF Writes
  <2> QED BY <2>1, <2>2, <2>3, <1>1, <1>3 DEF Advance
<1>7. NumbersOK(r)'
  BY <1>1, <1>2, <1>3, <1>4, <1>5 DEF NumbersOK, Posted
<1>8. WriteOK(r)'
  <2>1. <<server'[r].seqNum, server'[r].pre>> \in versions'
    BY <1>1, <1>3
  <2>2. InMode(r, {"WRITELOG"}) => server[r].writes = {}
    BY <1>1 DEF MayPost, InMode
  <2>3. /\ call'[r] = call[r] /\ single' = single /\ multi' = multi
        /\ server'[r].pc = "posted" /\ server'[r].pre = server[r].pre
        /\ server'[r].writes = server[r].writes /\ server[r].pre # 0
    BY <1>1, <1>3, <1>4
  <2>4. /\ InMode(r, {"TRANSITIONAL"}) =>
             "single" \in server[r].writes \/ single.version >= server[r].pre
        /\ InMode(r, {"WRITELOG"}) => <<server[r].pre, r>> \in multi
    BY <2>2, <1>4 DEF WriteOK, IsWrite
  <2> QED BY <2>1, <2>2, <2>3, <2>4, <1>4 DEF WriteOK, InMode
<1> QED BY <1>1, <1>4, <1>6, <1>7, <1>8, NoReadOfWrite, StepKeepsStore

LEMMA AnswerKeepsStore ==
  ASSUME SwitchInv, SwitchInv', StoreInv, NEW r \in SRequest, Answer(r)
  PROVE  StoreInv'
<1>1. /\ server' = [server EXCEPT ![r].pc = "done"]
      /\ server[r].pc = "return" \/ (server[r].pc = "posted" /\ server[r].writes = {})
      /\ UNCHANGED <<sTail, single, multi, versions>>
      /\ call' = call \/ call' = [call EXCEPT ![r].done = TRUE]
  BY DEF Answer, Returns, store
<1>2. /\ server \in [SRequest -> ServerState] /\ server[r] \in ServerState
      /\ call \in [SRequest -> CallState] /\ call[r] \in CallState
  BY DEF SwitchInv, ServerTypeOK, ClientTypeOK
<1>3. /\ \A q \in SRequest : q # r => server'[q] = server[q]
      /\ server'[r].pc = "done" /\ server'[r].seqNum = server[r].seqNum
      /\ server'[r].pre = server[r].pre /\ server'[r].writes = server[r].writes
      /\ server'[r].result = server[r].result /\ server'[r].found = server[r].found
  BY <1>1, <1>2 DEF ServerState
<1>4. SameCalls
  <2>1. CASE call' = call
    BY <2>1, SameCallsOf
  <2>2. CASE call' = [call EXCEPT ![r].done = TRUE]
    BY <2>2, <1>2 DEF SameCalls, CallState
  <2> QED BY <2>1, <2>2, <1>1
<1>5. Advance(r)
  <2>1. NumbersAdvance(r)
    BY <1>1, <1>3 DEF NumbersAdvance, MayHaveWritten, Posted, Numbers
  <2>2. Publishes(r) /\ Writes(r)
    BY <1>1 DEF Publishes, Writes
  <2> QED BY <2>1, <2>2, <1>1, <1>3, <1>4 DEF Advance
<1>6. NumbersOK(r) /\ WriteOK(r)
  BY DEF StoreInv
<1>7. NumbersOK(r)'
  BY <1>1, <1>3, <1>4, <1>6 DEF NumbersOK, Posted, SameCalls
<1>8. WriteOK(r)'
  <2> SUFFICES ASSUME IsWrite(r) PROVE WriteOK(r)'
      BY <1>4 DEF WriteOK, IsWrite, SameCalls
  <2>1. /\ InMode(r, {"READLOG"})' <=> InMode(r, {"READLOG"})
        /\ InMode(r, {"TRANSITIONAL"})' <=> InMode(r, {"TRANSITIONAL"})
        /\ InMode(r, {"WRITELOG"})' <=> InMode(r, {"WRITELOG"})
    BY <1>4 DEF InMode, SameCalls
  <2>2. CASE server[r].pc = "return"
    <3>1. InMode(r, {"READLOG"}) /\ server[r].pre = 0 /\ single.version >= server[r].seqNum
      BY <2>2, <1>6 DEF WriteOK
    <3> QED BY <3>1, <2>1, <1>1, <1>3 DEF WriteOK, InMode
  <2>3. CASE server[r].pc = "posted" /\ server[r].writes = {}
    <3>1. /\ server[r].pre # 0 /\ <<server[r].seqNum, server[r].pre>> \in versions
          /\ ~ InMode(r, {"READLOG"})
          /\ InMode(r, {"TRANSITIONAL"}) => single.version >= server[r].pre
          /\ InMode(r, {"WRITELOG"}) => <<server[r].pre, r>> \in multi
      BY <2>3, <1>6 DEF WriteOK
    <3> QED BY <3>1, <2>1, <2>3, <1>1, <1>3 DEF WriteOK
  <2> QED BY <1>1, <2>2, <2>3
<1>9. ReadOK(r)'
  <2>1. CASE HasRead(r)
    <3>1. Posted(r)
      BY <1>1 DEF Posted
    <3> QED BY <2>1, <3>1, <1>3, <1>5, ReadStays
  <2>2. CASE ~ HasRead(r)
    <3>1. call[r].op # "read"
      BY <2>2, <1>1, RunningOp DEF HasRead
    <3> QED BY <3>1, <1>4 DEF ReadOK, HasRead, SameCalls
  <2> QED BY <2>1, <2>2
<1> QED BY <1>5, <1>7, <1>8, <1>9, StepKeepsStore

-----------------------------------------------------------------------------
(***************************************************************************)
(* The steps of the client: a new request comes after the others.          *)
(***************************************************************************)
LEMMA ClientKeepsStore ==
  ASSUME SwitchInv, SwitchInv', StoreInv, UNCHANGED <<server, sTail, single, multi, versions>>,
         \A q \in SRequest : q <= sent =>
           /\ call'[q].mode = call[q].mode /\ call'[q].op = call[q].op
           /\ call'[q].before = call[q].before
           /\ call[q].done => call'[q].done,
         \A q \in SRequest : q > sent =>
           \A w \in call'[q].before : w \in SRequest /\ w < q /\ call[w].done
  PROVE  StoreInv'
<1>1. \A q \in SRequest : /\ q \in Nat /\ sent \in Nat
                          /\ Posted(q) => q <= sent
                          /\ call[q].done => q <= sent /\ call'[q].done /\ Posted(q)
  <2> SUFFICES ASSUME NEW q \in SRequest
               PROVE  /\ q \in Nat /\ sent \in Nat
                      /\ Posted(q) => q <= sent
                      /\ call[q].done => q <= sent /\ call'[q].done /\ Posted(q)
      OBVIOUS
  <2>1. q \in Nat /\ sent \in Nat /\ Len(reqChan) \in Nat /\ CallOK(q)
    BY RequestBounds DEF SwitchInv, ClientTypeOK
  <2> QED BY <2>1 DEF CallOK, Posted
<1>2. \A q \in SRequest : Posted(q)' <=> Posted(q)
  BY DEF Posted
<1>3. \A q \in SRequest : NumbersOK(q)'
  <2> SUFFICES ASSUME NEW q \in SRequest PROVE NumbersOK(q)'
      OBVIOUS
  <2>1. NumbersOK(q)
    BY DEF StoreInv
  <2>2. CASE Posted(q)
    BY <2>1, <2>2, <1>1 DEF NumbersOK, Posted
  <2>3. CASE ~ Posted(q)
    BY <2>1, <2>3 DEF NumbersOK, Posted, NoServer
  <2> QED BY <2>2, <2>3
<1>4. \A q \in SRequest : WriteOK(q)'
  <2> SUFFICES ASSUME NEW q \in SRequest PROVE WriteOK(q)'
      OBVIOUS
  <2>1. CASE Posted(q)
    <3>1. call'[q].mode = call[q].mode /\ call'[q].op = call[q].op
      BY <2>1, <1>1
    <3>2. WriteOK(q)
      BY DEF StoreInv
    <3> QED BY <3>1, <3>2 DEF WriteOK, IsWrite, InMode
  <2>2. CASE ~ Posted(q)
    <3>1. server[q].pc = "none" /\ server[q].pre = 0
      BY <2>2 DEF StoreInv, NumbersOK, Posted, NoServer
    <3> QED BY <3>1 DEF WriteOK
  <2> QED BY <2>1, <2>2
<1>5. \A q \in SRequest : BeforeOK(q)'
  <2> SUFFICES ASSUME NEW q \in SRequest PROVE BeforeOK(q)'
      OBVIOUS
  <2>1. CASE q <= sent
    <3>1. call'[q].before = call[q].before /\ BeforeOK(q)
      BY <2>1 DEF StoreInv
    <3> QED BY <3>1, <1>1 DEF BeforeOK, Posted
  <2>2. CASE ~ q <= sent
    <3>1. q > sent /\ ~ Posted(q)
      BY <2>2, <1>1
    <3>2. server[q].pre = 0
      BY <3>1 DEF StoreInv, NumbersOK, NoServer
    <3> QED BY <3>1, <3>2, <1>1 DEF BeforeOK, Posted
  <2> QED BY <2>1, <2>2
<1>6. ASSUME NEW q \in SRequest, Posted(q), HasRead(q) PROVE ReadOK(q)'
  <2>1. ReadOK(q) /\ q <= sent /\ call'[q].before = call[q].before
    BY <1>1, <1>6 DEF StoreInv
  <2>2. ASSUME NEW w \in SRequest, w <= q PROVE call'[w].mode = call[w].mode
    <3>1. w <= sent
      BY <2>1, <2>2, <1>1
    <3> QED BY <3>1
  <2>3. ChangedBack(q) => ChangedBack(q)'
    <3> SUFFICES ASSUME NEW p \in SRequest, NEW w \in SRequest, p < w, w <= q,
                        \/ InMode(p, {"WRITELOG"}) /\ InMode(w, {"TRANSITIONAL", "READLOG"})
                        \/ InMode(p, {"TRANSITIONAL"}) /\ InMode(w, {"READLOG"})
                           /\ InMode(q, {"WRITELOG"})
                 PROVE  ChangedBack(q)'
        BY DEF ChangedBack
    <3>1. p <= q /\ q <= q
      BY <1>1
    <3>2. /\ call'[p].mode = call[p].mode /\ call'[w].mode = call[w].mode
          /\ call'[q].mode = call[q].mode
      BY <3>1, <2>2
    <3> QED BY <3>2 DEF ChangedBack, InMode
  <2>4. Regular(q) => Regular(q)'
    <3>1. \A w \in call[q].before : w \in SRequest /\ w <= sent
      BY <1>1 DEF StoreInv, BeforeOK
    <3> QED BY <3>1, <2>1 DEF Regular
  <2>5. CASE server[q].found
    BY <2>1, <2>3, <2>4, <2>5, <1>6 DEF ReadOK
  <2>6. CASE ~ server[q].found
    <3>1. PICK w \in SRequest : /\ InMode(w, {"TRANSITIONAL"}) /\ server[w].pre # 0
                                /\ server[w].pre = VisibleVersion(server[q].seqNum)
      BY <2>1, <2>6, <1>6 DEF ReadOK
    <3>2. Posted(w)
      BY <3>1 DEF StoreInv, NumbersOK, NoServer
    <3>3. InMode(w, {"TRANSITIONAL"})'
      BY <3>1, <3>2, <1>1 DEF InMode
    <3>4. VisibleVersion(server[q].seqNum)' = VisibleVersion(server[q].seqNum)
      BY DEF VisibleVersion
    <3> QED BY <3>1, <3>3, <3>4, <2>6 DEF ReadOK
  <2> QED BY <2>5, <2>6
<1>7. \A q \in SRequest : ReadOK(q)'
  <2> SUFFICES ASSUME NEW q \in SRequest, HasRead(q)' PROVE ReadOK(q)'
      BY DEF ReadOK
  <2>1. Posted(q)
    BY DEF HasRead, Posted
  <2>2. HasRead(q)
    BY <2>1, <1>1 DEF HasRead
  <2> QED BY <2>1, <2>2, <1>6
<1>8. NumbersDiffer' /\ MultiOK' /\ SingleOK' /\ \A n \in Nat : LastAt(n)'
  BY DEF StoreInv, NumbersDiffer, Numbers, MultiOK, SingleOK, MayHaveWritten, LastAt
<1>9. VersionsOK'
  <2> SUFFICES ASSUME NEW v \in versions
               PROVE  \E w \in SRequest :
                        /\ v = <<server[w].seqNum, server[w].pre>>
                        /\ IsWrite(w)' /\ ~ InMode(w, {"READLOG"})'
                        /\ server[w].pc \in {"posted", "done"} /\ server[w].pre # 0
      BY DEF VersionsOK
  <2>1. PICK w \in SRequest :
          /\ v = <<server[w].seqNum, server[w].pre>>
          /\ IsWrite(w) /\ ~ InMode(w, {"READLOG"}) /\ server[w].pc \in {"posted", "done"}
          /\ server[w].pre # 0
    BY DEF StoreInv, VersionsOK
  <2>2. w <= sent
    BY <2>1, <1>1 DEF Posted
  <2> QED BY <2>1, <2>2 DEF IsWrite, InMode
<1> QED BY <1>3, <1>4, <1>5, <1>7, <1>8, <1>9 DEF StoreInv

LEMMA CallUnchangedKeepsStore ==
  ASSUME SwitchInv, SwitchInv', StoreInv,
         UNCHANGED <<call, server, sTail, single, multi, versions>>
  PROVE  StoreInv'
<1>1. \A q \in SRequest : \A w \in call[q].before : w \in SRequest /\ w < q /\ call[w].done
  BY DEF StoreInv, BeforeOK
<1> QED BY <1>1, ClientKeepsStore

LEMMA ReceiveKeepsStore ==
  ASSUME SwitchInv, SwitchInv', StoreInv, Receive
  PROVE  StoreInv'
<1>1. /\ sent' = sent + 1 /\ UNCHANGED <<server, sTail, single, multi, versions>>
  BY DEF Receive, store
<1>2. \E mode, op : call' = [call EXCEPT ![sent'] = NewCall(mode, op)]
  BY DEF Receive
<1> PICK mode, op : call' = [call EXCEPT ![sent'] = NewCall(mode, op)]
  BY <1>2
<1>3. call \in [SRequest -> CallState] /\ sent \in Nat
  BY DEF SwitchInv, ClientTypeOK
<1>4. NewCall(mode, op).before = {r \in SRequest : call[r].done}
  BY DEF NewCall, NoCall
<1>5. \A q \in SRequest : q # sent' => call'[q] = call[q]
  BY <1>3
<1>6. \A q \in SRequest : q = sent' => call'[q].before = {r \in SRequest : call[r].done}
  BY <1>3, <1>4
<1>7. \A q \in SRequest : q <= sent => q # sent'
  BY <1>1, <1>3, RequestBounds
<1>8. ASSUME NEW q \in SRequest, NEW w \in call'[q].before
      PROVE  w \in SRequest /\ w < q /\ call[w].done
  <2>1. CASE q # sent'
    BY <2>1, <1>5, <1>8 DEF StoreInv, BeforeOK
  <2>2. CASE q = sent'
    <3>1. w \in SRequest /\ call[w].done
      BY <2>2, <1>6, <1>8
    <3>2. ~ w > sent /\ w \in Nat
      BY <3>1, SentHaveModes, RequestBounds
    <3> QED BY <3>1, <3>2, <2>2, <1>1, <1>3
  <2> QED BY <2>1, <2>2
<1> QED BY <1>1, <1>5, <1>7, <1>8, ClientKeepsStore

LEMMA TimeOutKeepsStore ==
  ASSUME SwitchInv, SwitchInv', StoreInv, NEW r \in SRequest, TimeOut(r)
  PROVE  StoreInv'
<1>1. /\ UNCHANGED <<server, sTail, single, multi, versions>>
      /\ call' = [call EXCEPT ![r].gaveUp = TRUE]
  BY DEF TimeOut, store
<1>2. call \in [SRequest -> CallState]
  BY DEF SwitchInv, ClientTypeOK
<1>3. \A q \in SRequest :
        /\ call'[q].mode = call[q].mode /\ call'[q].op = call[q].op
        /\ call'[q].before = call[q].before /\ call'[q].done = call[q].done
  BY <1>1, <1>2 DEF CallState
<1>4. \A q \in SRequest : \A w \in call'[q].before : w \in SRequest /\ w < q /\ call[w].done
  BY <1>3 DEF StoreInv, BeforeOK
<1> QED BY <1>1, <1>3, <1>4, ClientKeepsStore

LEMMA StoreInvKept ==
  SwitchInv /\ SwitchInv' /\ StoreInv /\ [SwitchNext]_switchVars => StoreInv'
<1> SUFFICES ASSUME SwitchInv, SwitchInv', StoreInv, [SwitchNext]_switchVars PROVE StoreInv'
    OBVIOUS
<1>1. CASE Receive
  BY <1>1, ReceiveKeepsStore
<1>2. CASE Stop \/ WorkerEnds
  BY <1>2, CallUnchangedKeepsStore DEF Stop, WorkerEnds, store
<1>3. CASE Post
  BY <1>3, PostAdvances
<1>4. ASSUME NEW r \in SRequest, ServerStep(r) PROVE StoreInv'
  BY <1>4, ReadWithLogIsRegular, ReadWithoutLogIsRegular, WriteWithoutLogKeeps, PreWriteKeeps,
     WriteItemKeeps, PostWriteKeeps DEF ServerStep
<1>5. ASSUME NEW r \in SRequest, Answer(r) \/ TimeOut(r) PROVE StoreInv'
  BY <1>5, AnswerKeepsStore, TimeOutKeepsStore
<1>6. CASE UNCHANGED switchVars
  BY <1>6, CallUnchangedKeepsStore DEF switchVars
<1> QED BY <1>1, <1>2, <1>3, <1>4, <1>5, <1>6 DEF SwitchNext, ClientStep

(***************************************************************************)
(* What the log, the items and the requests have to do with each other:    *)
(* how far each write is, under which numbers of the log it has written,   *)
(* and that a request comes later in the log than those that had their     *)
(* results when it was sent (PreWrite, the items and PostWrite of          *)
(* WriteWithLog and WriteInTransition; LibWriteSingleVersion).             *)
(***************************************************************************)
THEOREM StoreInvHolds == SwitchSpec => []StoreInv
<1>1. SwitchInit => StoreInv
  BY StoreInitially
<1>2. SwitchInv /\ SwitchInv' /\ StoreInv /\ [SwitchNext]_switchVars => StoreInv'
  BY StoreInvKept
<1> QED BY <1>1, <1>2, SwitchInvHolds, PTL DEF SwitchSpec

(***************************************************************************)
(* Reads are regular, for any number of workers, requests, changes of the  *)
(* cycle and requests that are given up: a read is never older than a      *)
(* write that had its result when it was sent, unless the mode was changed *)
(* back before; and the version a reader is directed to is there, unless   *)
(* it was written in transition (ReadWithMode, WriteWithMode).             *)
(***************************************************************************)
THEOREM ReadsStayRegular == SwitchSpec => []ReadsAreRegular
<1>1. StoreInv => ReadsAreRegular
  BY DEF StoreInv, ReadOK, ReadsAreRegular
<1> QED BY <1>1, StoreInvHolds, PTL

-----------------------------------------------------------------------------
(***************************************************************************)
(* The workers of the client: each is at the receive from reqChan, has     *)
(* returned, or waits for a request that runs; and main has started as     *)
(* many requests as there are workers, and one less when its time is over. *)
(***************************************************************************)
Awaited == {r \in SRequest : Runs(r) /\ ~ call[r].gaveUp}
UnderWay == Len(reqChan) + Cardinality(Awaited) + Len(resChan)

WorkersOK ==
  /\ idle + exited + Cardinality(Awaited) = Concurrency
  /\ IF stopped THEN UnderWay < Concurrency ELSE exited = 0 /\ UnderWay = Concurrency

LEMMA AwaitedFacts ==
  /\ IsFiniteSet(Awaited) /\ Cardinality(Awaited) \in Nat
  /\ \A r : IsFiniteSet(Awaited \cup {r}) /\ IsFiniteSet(Awaited \ {r})
  /\ \A r : r \notin Awaited => Cardinality(Awaited \cup {r}) = Cardinality(Awaited) + 1
  /\ \A r \in Awaited : Cardinality(Awaited \ {r}) = Cardinality(Awaited) - 1
<1>1. IsFiniteSet(SRequest)
  BY RequestBounds, FS_Interval DEF SRequest
<1>2. IsFiniteSet(Awaited)
  BY <1>1, FS_Subset DEF Awaited
<1> HIDE DEF Awaited
<1> QED BY <1>2, FS_CardinalityType, FS_AddElement, FS_RemoveElement

LEMMA WorkersInitially == SwitchInit => WorkersOK
<1> SUFFICES ASSUME SwitchInit PROVE WorkersOK
    OBVIOUS
<1>1. Awaited = {}
  BY DEF SwitchInit, Awaited, Runs, NoServer
<1>2. Cardinality(Awaited) = 0
  BY <1>1, FS_EmptySet
<1>3. Len([n \in 1 .. Concurrency |-> n]) = Concurrency
  BY RequestBounds
<1>4. Len(reqChan) = Concurrency /\ Len(resChan) = 0
  BY <1>3 DEF SwitchInit
<1>5. idle = Concurrency /\ exited = 0 /\ stopped = FALSE
  BY DEF SwitchInit
<1> QED BY <1>2, <1>4, <1>5, RequestBounds DEF WorkersOK, UnderWay

\* The channels and counters are numbers.
LEMMA WorkerTypes ==
  ASSUME SwitchInv
  PROVE  /\ Len(reqChan) \in Nat /\ Len(resChan) \in Nat /\ idle \in Nat /\ exited \in Nat
         /\ Concurrency \in Nat /\ Cardinality(Awaited) \in Nat /\ stopped \in BOOLEAN
BY AwaitedFacts, RequestBounds DEF SwitchInv, ClientTypeOK

LEMMA ServerKeepsWorkers ==
  ASSUME SwitchInv, WorkersOK, NEW r \in SRequest, ServerStep(r)
  PROVE  WorkersOK'
<1>1. UNCHANGED <<main, chans, exited, call>>
  BY DEF ServerStep, ReadWithoutLog, ReadWithLog, WriteWithoutLog, PreWrite, WriteItem, PostWrite
<1>2. server \in [SRequest -> ServerState] /\ server[r] \in ServerState
  BY DEF SwitchInv, ServerTypeOK
<1>3. Runs(r) /\ \A q \in SRequest \ {r} : server'[q] = server[q]
  BY <1>2 DEF ServerStep, ReadWithoutLog, ReadWithLog, WriteWithoutLog, PreWrite, WriteItem,
              PostWrite, ServerAt, ServerGoTo, Runs
<1>4. server'[r].pc \in {"return", "items", "posted"}
  <2>1. CASE ReadWithoutLog(r)
    <3> PICK found, result :
          server' = [server EXCEPT ![r].pc = "return", ![r].found = found, ![r].result = result]
      BY <2>1 DEF ReadWithoutLog
    <3> QED BY <1>2
  <2>5. CASE ReadWithLog(r)
    BY <1>2, <2>5 DEF ReadWithLog
  <2>6. CASE WriteWithoutLog(r)
    BY <1>2, <2>6 DEF WriteWithoutLog, ServerGoTo
  <2>2. CASE PreWrite(r)
    BY <1>2, <2>2 DEF PreWrite
  <2>3. CASE WriteItem(r)
    BY <1>2, <2>3 DEF WriteItem
  <2>4. CASE PostWrite(r)
    BY <1>2, <2>4 DEF PostWrite
  <2> QED BY <2>1, <2>2, <2>3, <2>4, <2>5, <2>6 DEF ServerStep
<1>5. \A q \in SRequest : Runs(q)' <=> Runs(q)
  BY <1>3, <1>4 DEF Runs
<1>6. Awaited' = Awaited
  BY <1>1, <1>5 DEF Awaited
<1> QED BY <1>1, <1>6 DEF WorkersOK, UnderWay, main, chans

LEMMA ClientKeepsWorkers ==
  ASSUME SwitchInv, SwitchInv', WorkersOK, ClientStep
  PROVE  WorkersOK'
<1> USE WorkerTypes
<1>0. reqChan \in Seq(SRequest) /\ resChan \in Seq(SRequest)
  BY DEF SwitchInv, ClientTypeOK
<1>1. CASE Receive
  <2>1. /\ ~ stopped /\ resChan # <<>> /\ resChan' = Tail(resChan) /\ sent < switchCase.requests
        /\ reqChan' = Append(reqChan, sent') /\ sent' = sent + 1
        /\ UNCHANGED <<stopped, idle, exited, server>>
    BY <1>1 DEF Receive
  <2>2. sent' \in SRequest /\ server[sent'].pc = "none" /\ sent' > sent /\ sent \in Nat
    <3>1. sent \in 0 .. MaxRequests /\ sent' \in 0 .. MaxRequests
      BY DEF SwitchInv, ClientTypeOK
    <3>2. PICK r \in SRequest : r = sent'
      BY <2>1, <3>1, RequestBounds
    <3>3. CallOK(r) /\ r + Len(reqChan) > sent
      BY <2>1, <3>1, <3>2 DEF SwitchInv
    <3> QED BY <2>1, <3>1, <3>2, <3>3 DEF CallOK
  <2>3. \A r \in SRequest \ {sent'} : call'[r] = call[r]
    BY <1>1 DEF Receive, SwitchInv, ClientTypeOK
  <2>4. Awaited' = Awaited
    BY <2>1, <2>2, <2>3 DEF Awaited, Runs
  <2>5. Len(resChan) = Len(resChan') + 1 /\ Len(resChan') \in Nat /\ Len(reqChan') = Len(reqChan) + 1
    BY <1>0, <2>1, <2>2, TailOf, AppendTo
  <2> QED BY <2>1, <2>4, <2>5 DEF WorkersOK, UnderWay
<1>2. CASE Stop
  <2>1. /\ ~ stopped /\ resChan # <<>> /\ resChan' = Tail(resChan) /\ stopped'
        /\ UNCHANGED <<reqChan, idle, exited, call, server>>
    BY <1>2 DEF Stop
  <2>2. Awaited' = Awaited
    BY <2>1 DEF Awaited, Runs
  <2>3. Len(resChan) = Len(resChan') + 1 /\ Len(resChan') \in Nat
    BY <1>0, <2>1, TailOf
  <2> QED BY <2>1, <2>2, <2>3 DEF WorkersOK, UnderWay
<1>3. CASE Post
  <2>1. /\ idle > 0 /\ reqChan # <<>> /\ idle' = idle - 1 /\ reqChan' = Tail(reqChan)
        /\ UNCHANGED <<stopped, exited, resChan, call>>
    BY <1>3 DEF Post, main
  <2>2. /\ Head(reqChan) \in SRequest /\ Len(reqChan) = Len(reqChan') + 1 /\ Len(reqChan') \in Nat
        /\ Head(reqChan) = reqChan[1] /\ 1 \in 1 .. Len(reqChan)
    BY <1>0, <2>1, TailOf
  <2>3. PICK h \in SRequest : h = Head(reqChan)
    BY <2>2
  <2>4. h + Len(reqChan) = sent + 1 /\ h \in Nat /\ sent \in Nat
    BY <2>2, <2>3, RequestBounds DEF SwitchInv, QueueOK, ClientTypeOK
  <2>5. CallOK(h) /\ call[h] \in CallState
    BY DEF SwitchInv, ClientTypeOK
  <2>6. server[h].pc = "none" /\ call[h].op \in Ops /\ ~ call[h].gaveUp
    BY <2>2, <2>4, <2>5 DEF CallOK, CallState
  <2>7. /\ server'[h].pc = call[h].op
        /\ \A r \in SRequest \ {h} : server'[r] = server[r]
    BY <1>3, <2>3 DEF Post, SwitchInv, ServerTypeOK, ServerState
  <2>8. Awaited' = Awaited \cup {h} /\ h \notin Awaited
    BY <2>1, <2>6, <2>7 DEF Awaited, Runs, Ops
  <2>9. Cardinality(Awaited') = Cardinality(Awaited) + 1
    BY <2>8, AwaitedFacts
  <2>10. idle' + exited' + Cardinality(Awaited') = Concurrency
    BY <2>1, <2>9 DEF WorkersOK
  <2>11. UnderWay' = UnderWay
    BY <2>1, <2>2, <2>9 DEF UnderWay
  <2> QED BY <2>1, <2>10, <2>11 DEF WorkersOK
<1>4. CASE WorkerEnds
  <2>1. /\ stopped /\ idle > 0 /\ idle' = idle - 1 /\ exited' = exited + 1
        /\ UNCHANGED <<stopped, reqChan, resChan, call, server>>
    BY <1>4 DEF WorkerEnds, main
  <2>2. Awaited' = Awaited
    BY <2>1 DEF Awaited, Runs
  <2> QED BY <2>1, <2>2 DEF WorkersOK, UnderWay
<1> QED BY <1>1, <1>2, <1>3, <1>4 DEF ClientStep

\* A request returns to its worker, or is given up.
LEMMA ResultKeepsWorkers ==
  ASSUME SwitchInv, WorkersOK, NEW r \in SRequest, Answer(r) \/ TimeOut(r)
  PROVE  WorkersOK'
<1> USE WorkerTypes
<1>1. /\ server \in [SRequest -> ServerState] /\ call \in [SRequest -> CallState]
      /\ resChan \in Seq(SRequest) /\ UNCHANGED <<reqChan, stopped, exited>>
  BY DEF SwitchInv, ClientTypeOK, ServerTypeOK, Answer, TimeOut, main, chans
<1>2. CASE Answer(r) /\ call[r].gaveUp
  <2>1. /\ UNCHANGED <<call, resChan, idle>> /\ \A q \in SRequest \ {r} : server'[q] = server[q]
    BY <1>1, <1>2 DEF Answer, chans
  <2>2. Awaited' = Awaited
    BY <1>2, <2>1 DEF Awaited, Runs
  <2> QED BY <1>1, <2>1, <2>2 DEF WorkersOK, UnderWay
<1>3. CASE TimeOut(r) \/ (Answer(r) /\ ~ call[r].gaveUp)
  <2>1. r \in Awaited /\ resChan' = Append(resChan, r) /\ idle' = idle + 1
    BY <1>3 DEF Answer, TimeOut, Awaited, Runs, Returns
  <2>2. \A q \in SRequest \ {r} : server'[q] = server[q] /\ call'[q] = call[q]
    BY <1>1, <1>3 DEF Answer, TimeOut
  <2>3. server'[r].pc = "done" \/ call'[r].gaveUp
    BY <1>1, <1>3 DEF Answer, TimeOut, CallState, ServerState
  <2>4. Awaited' = Awaited \ {r}
    BY <2>2, <2>3 DEF Awaited, Runs
  <2>5. Cardinality(Awaited') = Cardinality(Awaited) - 1
    BY <2>1, <2>4, AwaitedFacts
  <2>6. Len(resChan') = Len(resChan) + 1
    BY <1>1, <2>1, AppendTo
  <2>7. idle' + exited' + Cardinality(Awaited') = Concurrency
    BY <1>1, <2>1, <2>5 DEF WorkersOK
  <2>8. UnderWay' = UnderWay
    <3>1. Len(reqChan') = Len(reqChan)
      BY <1>1
    <3>2. UnderWay' = Len(reqChan') + Cardinality(Awaited') + Len(resChan')
      BY DEF UnderWay
    <3> QED BY <2>5, <2>6, <3>1, <3>2 DEF UnderWay
  <2> QED BY <1>1, <2>7, <2>8 DEF WorkersOK
<1> QED BY <1>2, <1>3

LEMMA WorkersKept == SwitchInv /\ WorkersOK /\ [SwitchNext]_switchVars => WorkersOK'
<1> SUFFICES ASSUME SwitchInv, WorkersOK, [SwitchNext]_switchVars PROVE WorkersOK'
    OBVIOUS
<1>1. ASSUME UNCHANGED switchVars PROVE WorkersOK'
  BY <1>1 DEF switchVars, WorkersOK, UnderWay, Awaited, Runs
<1>2. SwitchInv'
  BY SwitchInvKept
<1> QED BY <1>1, <1>2, ServerKeepsWorkers, ClientKeepsWorkers, ResultKeepsWorkers DEF SwitchNext

LEMMA WorkersGoOn == SwitchInv /\ WorkersOK => ClientNotStuck
<1> SUFFICES ASSUME SwitchInv, WorkersOK, exited < Concurrency,
                    ~ (~ stopped /\ resChan # <<>>)
             PROVE  WorkerGoesOn
    BY DEF ClientNotStuck
<1> USE WorkerTypes
<1>1. CASE Awaited # {}
  <2>1. PICK r \in SRequest : Runs(r) /\ ~ call[r].gaveUp
    BY <1>1 DEF Awaited
  <2>2. Cardinality(Awaited) # 0
    BY <1>1, AwaitedFacts, FS_EmptySet
  <2>3. ResHasRoom
    BY <2>2 DEF WorkersOK, UnderWay, ResHasRoom
  <2>4. FunctionGoesOn(r) \/ Returns(r)
    BY <2>1 DEF SwitchInv, ServerTypeOK, ServerState, Runs, FunctionGoesOn, Returns, MayPost
  <2> QED BY <2>1, <2>3, <2>4 DEF WorkerGoesOn
<1>2. CASE Awaited = {}
  <2>1. Cardinality(Awaited) = 0
    BY <1>2, FS_EmptySet
  <2>2. idle > 0
    BY <2>1 DEF WorkersOK
  <2>3. ASSUME ~ stopped PROVE reqChan # <<>>
    <3>1. resChan = <<>> /\ Len(resChan) = 0
      BY <2>3
    <3>2. Len(reqChan) = Concurrency /\ Concurrency > 0
      BY <2>1, <2>3, <3>1 DEF WorkersOK, UnderWay
    <3> QED BY <3>2
  <2> QED BY <2>2, <2>3 DEF WorkerGoesOn
<1> QED BY <1>1, <1>2

(***************************************************************************)
(* main and the workers never all wait for each other, for any number of   *)
(* workers and requests, whichever of them the HTTP client gives up: a     *)
(* worker that waits for its request finds room in resChan, before and     *)
(* after main has stopped (the channels of the client, and Wait).          *)
(***************************************************************************)
THEOREM ClientGoesOn == SwitchSpec => []ClientNotStuck
<1>1. SwitchInit => WorkersOK
  BY WorkersInitially
<1>2. SwitchInv /\ WorkersOK /\ [SwitchNext]_switchVars => WorkersOK'
  BY WorkersKept
<1>3. SwitchSpec => []WorkersOK
  BY <1>1, <1>2, SwitchInvHolds, PTL DEF SwitchSpec
<1> QED BY <1>3, WorkersGoOn, SwitchInvHolds, PTL
=============================================================================
