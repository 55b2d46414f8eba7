------------------------------- MODULE Switching -------------------------------
(***************************************************************************)
(* Switching between the two modes while requests run: the client of the   *)
(* switching benchmark, src/workloads/workflow/optimal/benchmark/switching,*)
(* and the reads and writes "with mode" of its function, of                *)
(* optimal/internal/switching/main and optimal/pkg/cayonlib/switching.go.  *)
(*                                                                         *)
(* The client keeps Concurrency requests running, and changes mode with    *)
(* the time.  While requests from before a change run, new ones are in a   *)
(* transitional mode, in which a write goes to the single-version item and *)
(* to the multi-version items.                                             *)
(*                                                                         *)
(* A request is one read or one write of one key.  That executions die is  *)
(* the subject of IntentLog and ReadWrite and left aside here.             *)
(***************************************************************************)
EXTENDS Naturals, Sequences, FiniteSets

CONSTANTS
  Concurrency,  \* workers of the client
  MaxRequests,  \* bound on the requests
  Duration,     \* in cycles: FLAGS_duration / FLAGS_cycle
  FirstOps,     \* what the first requests do
  SwitchCases   \* [sameTs, timeouts, requests]: whether the first requests have one
                \* timestamp, which requests the HTTP client may give up, and how many
                \* requests there are at most

ASSUME SwitchingAssumption ==
  /\ Concurrency \in Nat \ {0} /\ MaxRequests \in Nat /\ Concurrency <= MaxRequests
  /\ Duration \in Nat /\ FirstOps \in [1 .. Concurrency -> {"read", "write"}]
ASSUME SwitchCasesAssumption ==
  SwitchCases \subseteq
    [sameTs : BOOLEAN, timeouts : SUBSET (1 .. MaxRequests), requests : 0 .. MaxRequests]

SRequest == 1 .. MaxRequests
Write0 == 0   \* stands for the value that populate wrote

VARIABLES
  switchCase,
  clock,        \* cycles that had passed when main last looked
  cycle,        \* currentCycle
  transitional, \* transitionalReqs, by timestamp
  running,      \* runningReqs, by timestamp
  sent,         \* how many requests have been sent
  stopped,      \* the loop of main has ended
  reqChan,
  resChan,
  idle,         \* workers at the receive from reqChan
  exited,       \* workers that have returned
  call,         \* call[r]: a request, its timestamp and when it ran
  server,       \* server[r]: the execution of the function
  sTail,        \* the last sequence number of the shared log
  single,       \* the item K_0: whose value it has, and VERSION
  multi,        \* items K_v: pairs <<v, whose value>>
  versions      \* PostWrite entries of the key: pairs <<sequence number, v>>

switchVars == <<switchCase, clock, cycle, transitional, running, sent, stopped, reqChan, resChan,
                idle, exited, call, server, sTail, single, multi, versions>>
main == <<cycle, transitional, running, sent, stopped>>
chans == <<reqChan, resChan, idle>>
store == <<sTail, single, multi, versions>>

LogModes == <<"READLOG", "WRITELOG">>
ModeOf(cid) == LogModes[cid + 1]

\* before: the requests that had their result when this one was sent; gaveUp: the
\* HTTP client returned before the function did.
NoCall == [mode |-> "none", op |-> "none", ts |-> 0, before |-> {}, done |-> FALSE,
           gaveUp |-> FALSE]
NoServer == [pc |-> "none", seqNum |-> 0, pre |-> 0, result |-> Write0, found |-> TRUE,
             writes |-> {}]

NewCall(mode, op) ==
  [NoCall EXCEPT !.mode = mode, !.op = op, !.ts = sent + 1,
                 !.before = {r \in SRequest : call[r].done}]

\* The first requests are sent in a row: some may have the same microsecond.
SwitchInit ==
  /\ clock = 0 /\ cycle = 0
  /\ transitional = {} /\ stopped = FALSE
  /\ sent = Concurrency
  /\ switchCase \in SwitchCases
  /\ call = [r \in SRequest |->
       IF r > Concurrency THEN NoCall
       ELSE [NoCall EXCEPT !.mode = ModeOf(0), !.op = FirstOps[r],
                           !.ts = IF switchCase.sameTs THEN 1 ELSE r]]
  /\ running = {call[r].ts : r \in 1 .. Concurrency}
  /\ reqChan = [n \in 1 .. Concurrency |-> n] /\ resChan = <<>>
  /\ idle = Concurrency /\ exited = 0
  /\ server = [r \in SRequest |-> NoServer]
  /\ sTail = 0
  /\ single = [value |-> Write0, version |-> 0] /\ multi = {} /\ versions = {}

-----------------------------------------------------------------------------
(***************************************************************************)
(* The client: main and the workers.  main looks at the time when it has   *)
(* received a result.                                                      *)
(***************************************************************************)
CycleId(now) == now % 2

\* Mutant: the cycle is noted before it is compared.
NextTransitional_None(ts, now) == transitional \ {ts}

\* The requests that run when the cycle changes are added to the set, in which only
\* the request that has been received is not.
NextTransitional(ts, now) ==
  (IF CycleId(now) # cycle THEN transitional \cup (running \ {ts}) ELSE transitional) \ {ts}

\* Recv, and the next request.
Receive ==
  LET ts == call[Head(resChan)].ts
      mode == IF transitional' # {} THEN "TRANSITIONAL" ELSE ModeOf(cycle')
  IN  /\ ~ stopped /\ resChan # <<>> /\ sent < switchCase.requests
      /\ \E now \in clock .. Duration - 1 :
           /\ clock' = now
           /\ cycle' = CycleId(now)
           /\ transitional' = NextTransitional(ts, now)
      /\ sent' = sent + 1
      /\ running' = (running \ {ts}) \cup {sent'}
      /\ \E op \in {"read", "write"} : call' = [call EXCEPT ![sent'] = NewCall(mode, op)]
      /\ resChan' = Tail(resChan)
      /\ reqChan' = Append(reqChan, sent')
      /\ UNCHANGED <<switchCase, stopped, idle, exited, server, store>>

\* The time is over: Wait closes reqChan.
Stop ==
  /\ ~ stopped /\ resChan # <<>>
  /\ clock' = Duration
  /\ resChan' = Tail(resChan)
  /\ running' = running \ {call[Head(resChan)].ts}
  /\ stopped' = TRUE
  /\ UNCHANGED <<switchCase, cycle, transitional, sent, reqChan, idle, exited, call, server,
                 store>>

\* A worker posts a request; wrapperInternal logs the intent of its instance.
Post ==
  /\ idle > 0 /\ reqChan # <<>>
  /\ idle' = idle - 1
  /\ reqChan' = Tail(reqChan)
  /\ sTail' = sTail + 1
  /\ server' = [server EXCEPT ![Head(reqChan)].pc = call[Head(reqChan)].op,
                              ![Head(reqChan)].seqNum = sTail']
  /\ UNCHANGED <<switchCase, clock, main, resChan, exited, call, single, multi, versions>>

\* Mutant: without a buffer, a result is sent only to who receives it.
ResHasRoom_Unbuffered == ~ stopped /\ resChan = <<>>

ResHasRoom == Len(resChan) < Concurrency

\* WriteInTransition waits for its goroutines.
Returns(r) == server[r].pc = "return" \/ (server[r].pc = "posted" /\ server[r].writes = {})

\* The worker sends the result to main, for which resChan has room.
Answer(r) ==
  /\ Returns(r)
  /\ server' = [server EXCEPT ![r].pc = "done"]
  /\ IF call[r].gaveUp THEN UNCHANGED <<chans, call>>
     ELSE /\ ResHasRoom
          /\ resChan' = Append(resChan, r)
          /\ idle' = idle + 1
          /\ call' = [call EXCEPT ![r].done = TRUE]
          /\ UNCHANGED reqChan
  /\ UNCHANGED <<switchCase, clock, main, exited, store>>

\* After 8 seconds the HTTP client returns an error; the function goes on.
TimeOut(r) ==
  /\ server[r].pc \notin {"none", "done"} /\ ~ call[r].gaveUp
  /\ r \in switchCase.timeouts
  /\ ResHasRoom
  /\ resChan' = Append(resChan, r)
  /\ idle' = idle + 1
  /\ call' = [call EXCEPT ![r].gaveUp = TRUE]
  /\ UNCHANGED <<switchCase, clock, main, reqChan, exited, server, store>>

WorkerEnds ==
  /\ stopped /\ reqChan = <<>> /\ idle > 0
  /\ idle' = idle - 1 /\ exited' = exited + 1
  /\ UNCHANGED <<switchCase, clock, main, reqChan, resChan, call, server, store>>

-----------------------------------------------------------------------------
(***************************************************************************)
(* The function: ReadWithMode and WriteWithMode.                           *)
(***************************************************************************)
ServerAt(r, pc) == server[r].pc = pc
InMode(r, modes) == call[r].mode \in modes
ServerGoTo(r, pc) == server' = [server EXCEPT ![r].pc = pc]

\* The last version up to the cursor; version 0 is the single-version item.
VisibleVersion(seqNum) ==
  LET seen == {v \in versions : v[1] <= seqNum}
  IN  IF seen = {} THEN 0 ELSE (CHOOSE v \in seen : \A w \in seen : w[1] <= v[1])[2]

ItemsAt(version) == {i \in multi : i[1] = version}

ReadWithoutLog(r) ==
  LET version == VisibleVersion(server[r].seqNum)
      items == IF version = 0 THEN {<<0, single.value>>} ELSE ItemsAt(version)
  IN  /\ ServerAt(r, "read") /\ InMode(r, {"WRITELOG"})
      /\ server' = [server EXCEPT ![r].pc = "return",
           ![r].found = items # {},
           ![r].result = IF items = {} THEN @ ELSE (CHOOSE i \in items : TRUE)[2]]
      /\ UNCHANGED <<switchCase, clock, main, chans, exited, call, store>>

\* In transition too.  What is logged of the read nobody here looks for.
ReadWithLog(r) ==
  /\ ServerAt(r, "read") /\ InMode(r, {"READLOG", "TRANSITIONAL"})
  /\ server' = [server EXCEPT ![r].pc = "return", ![r].result = single.value]
  /\ UNCHANGED <<switchCase, clock, main, chans, exited, call, store>>

\* LibWriteSingleVersion.
Single(value, version) ==
  single' = IF single.version < version THEN [value |-> value, version |-> version] ELSE single

WriteWithoutLog(r) ==
  /\ ServerAt(r, "write") /\ InMode(r, {"READLOG"})
  /\ Single(r, server[r].seqNum)
  /\ ServerGoTo(r, "return")
  /\ UNCHANGED <<switchCase, clock, main, chans, exited, call, sTail, multi, versions>>

\* Mutant: in transition only versions are written.
Targets_MultiOnly(r) == {"multi"}

Targets(r) == IF InMode(r, {"WRITELOG"}) THEN {"multi"} ELSE {"single", "multi"}

PreWrite(r) ==
  /\ ServerAt(r, "write") /\ ~ InMode(r, {"READLOG"})
  /\ sTail' = sTail + 1
  /\ server' = [server EXCEPT ![r].pc = "items", ![r].seqNum = sTail', ![r].pre = sTail',
                              ![r].writes = Targets(r)]
  /\ UNCHANGED <<switchCase, clock, main, chans, exited, call, single, multi, versions>>

\* The goroutines of WriteInTransition read env.SeqNum when they run, which may be
\* before the PostWrite entry sets it, or after.
WriteVersions(r) == {server[r].pre, server[r].seqNum}

WriteItem(r) ==
  /\ server[r].pc \in {"items", "posted"}
  /\ \E target \in server[r].writes, version \in WriteVersions(r) :
       /\ IF target = "single" THEN Single(r, version) /\ UNCHANGED multi
          ELSE multi' = multi \cup {<<version, r>>} /\ UNCHANGED single
       /\ server' = [server EXCEPT ![r].writes = @ \ {target}]
  /\ UNCHANGED <<switchCase, clock, main, chans, exited, call, sTail, versions>>

\* WriteWithLog has written the item; WriteInTransition does not wait for it.
MayPost(r) == InMode(r, {"TRANSITIONAL"}) \/ server[r].writes = {}

PostWrite(r) ==
  /\ ServerAt(r, "items") /\ MayPost(r)
  /\ sTail' = sTail + 1
  /\ versions' = versions \cup {<<sTail', server[r].pre>>}
  /\ server' = [server EXCEPT ![r].pc = "posted", ![r].seqNum = sTail']
  /\ UNCHANGED <<switchCase, clock, main, chans, exited, call, single, multi>>

-----------------------------------------------------------------------------
ServerStep(r) ==
  \/ ReadWithoutLog(r) \/ ReadWithLog(r) \/ WriteWithoutLog(r)
  \/ PreWrite(r) \/ WriteItem(r) \/ PostWrite(r)

ClientStep == Receive \/ Stop \/ Post \/ WorkerEnds

SwitchNext ==
  \/ ClientStep
  \/ \E r \in SRequest : ServerStep(r) \/ Answer(r) \/ TimeOut(r)

SwitchSpec == SwitchInit /\ [][SwitchNext]_switchVars

-----------------------------------------------------------------------------
Runs(r) == server[r].pc \notin {"none", "done"}
SharedTs(r) == \E q \in SRequest \ {r} : call[q].mode # "none" /\ call[q].ts = call[r].ts

(***************************************************************************)
(* No request with logged reads runs together with one with logged writes: *)
(* a change goes through the transitional mode, however often the time     *)
(* changes the cycle meanwhile.  The exceptions: a request that the HTTP   *)
(* client gave up after 8 seconds still runs, and of two that were sent in *)
(* one microsecond the client knows only one.                              *)
(***************************************************************************)
NoMixedModes ==
  \A r, q \in SRequest :
    Runs(r) /\ Runs(q) /\ InMode(r, {"READLOG"}) /\ InMode(q, {"WRITELOG"}) =>
      \E x \in {r, q} : call[x].gaveUp \/ SharedTs(x)

(***************************************************************************)
(* A read is never older than a write that had its result when the read    *)
(* was sent, across the change from logged reads to logged writes and      *)
(* through the transition, also when requests are given up; and a version  *)
(* that a reader is directed to is there.  The exceptions: what comes      *)
(* after a change back, in which the single-version item that is read      *)
(* lacks the writes made meanwhile, or, if it came before the transition   *)
(* was over, the last version is older than the writes made since; and a   *)
(* write in transition (switching.go:105-115), whose PostWrite entry does  *)
(* not wait for the item: its goroutine may even take the sequence number  *)
(* of that entry for the version, and then the item never gets there.      *)
(***************************************************************************)
ChangedBack(r) ==
  \E q, w \in SRequest :
    /\ q < w /\ w <= r
    /\ \/ InMode(q, {"WRITELOG"}) /\ InMode(w, {"TRANSITIONAL", "READLOG"})
       \/ InMode(q, {"TRANSITIONAL"}) /\ InMode(w, {"READLOG"}) /\ InMode(r, {"WRITELOG"})

Regular(r) ==
  \A w \in call[r].before : call[w].op = "write" =>
    server[r].result # Write0 /\ server[r].result \notin call[w].before

HasRead(r) == call[r].op = "read" /\ server[r].pc \in {"return", "done"}

ReadsAreRegular ==
  \A r \in SRequest : HasRead(r) =>
    IF server[r].found THEN ChangedBack(r) \/ Regular(r)
    ELSE \E w \in SRequest :
           InMode(w, {"TRANSITIONAL"}) /\ server[w].pre = VisibleVersion(server[r].seqNum)

(***************************************************************************)
(* main and the workers never all wait for each other, before the time is  *)
(* over and after: what still runs then finds room for its result, though  *)
(* nobody receives it, and every worker returns.                           *)
(***************************************************************************)
FunctionGoesOn(r) ==
  \/ server[r].pc \in {"read", "write"}
  \/ server[r].pc \in {"items", "posted"} /\ server[r].writes # {}
  \/ server[r].pc = "items" /\ MayPost(r)

WorkerGoesOn ==
  \/ idle > 0 /\ (reqChan # <<>> \/ stopped)
  \/ \E r \in SRequest :
       ~ call[r].gaveUp /\ (FunctionGoesOn(r) \/ (Returns(r) /\ ResHasRoom))

ClientNotStuck ==
  exited < Concurrency => WorkerGoesOn \/ (~ stopped /\ resChan # <<>>)
=============================================================================
