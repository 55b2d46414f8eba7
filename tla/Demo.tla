---------------------------------- MODULE Demo ---------------------------------
(***************************************************************************)
(* The demo, src/demo/cmd: an in-memory log and database, and a monitor    *)
(* that crashes between its read of a metric and its write of a warning,   *)
(* and is executed again after the metric has changed.  main does all that *)
(* without a log and then with one, and nothing runs beside it.            *)
(***************************************************************************)
EXTENDS Naturals, Sequences

CONSTANTS
  Metrics,   \* the values that the metric is set to, in order
  Threshold  \* the monitor warns from this value on

ASSUME DemoAssumption ==
  Metrics \in Seq(Nat) /\ Len(Metrics) = 2 /\ Threshold \in Nat \ {0}

VARIABLES
  demoPc,    \* the step of main
  dbEntries, \* DemoDB.entries: a function from keys
  logs,      \* LogStorage.entries: a function from tags, to sequences
  seqnum,    \* LogStorage.seqnum
  cursor,    \* the sequence number of the monitor with log
  observed   \* the metrics that it saw, in its executions, or that the other saw

demoVars == <<demoPc, dbEntries, logs, seqnum, cursor, observed>>

Metric == <<"metric">>
Ts1 == <<"ts1">>
Ts2 == <<"ts2">>

DemoInit ==
  /\ demoPc = 1
  /\ dbEntries = <<>> /\ logs = <<>>
  /\ seqnum = 1 /\ cursor = 0
  /\ observed = <<>>

-----------------------------------------------------------------------------
Updated(f, key, value) ==
  [k \in DOMAIN f \cup {key} |-> IF k = key THEN value ELSE f[k]]

EntriesOf(tag) == IF tag \in DOMAIN logs THEN logs[tag] ELSE <<>>

\* Mutant: Read takes the last entry there is.
LogRead_Latest(tag, upTo) ==
  LET log == EntriesOf(tag) IN IF log = <<>> THEN <<>> ELSE <<log[Len(log)]>>

\* LogStorage.Read, from the sequence number back.
LogRead(tag, upTo) ==
  LET log == EntriesOf(tag)
      upToIt == {n \in DOMAIN log : log[n].seqnum <= upTo}
  IN  IF upTo = 0 THEN log
      ELSE IF upToIt = {} THEN <<>>
      ELSE <<log[CHOOSE n \in upToIt : \A m \in upToIt : m <= n]>>

LogAppend(tag, value) ==
  /\ seqnum' = seqnum + 1
  /\ logs' = Updated(logs, tag, Append(EntriesOf(tag), [seqnum |-> seqnum', value |-> value]))

\* A key that is not there has the zero value.
UnsafeRead(key) == IF key \in DOMAIN dbEntries THEN dbEntries[key] ELSE 0

HMRead(key, upTo) ==
  LET entries == LogRead(key, upTo)
  IN  IF entries = <<>> THEN 0 ELSE UnsafeRead(entries[1].value)

HMWrite(key, value, version) ==
  LET versionedKey == key \o <<version>>
  IN  /\ dbEntries' = Updated(dbEntries, versionedKey, value)
      /\ IF \E n \in DOMAIN LogRead(key, 0) : LogRead(key, 0)[n].value = versionedKey
         THEN UNCHANGED <<logs, seqnum>>
         ELSE LogAppend(key, versionedKey)

-----------------------------------------------------------------------------
(***************************************************************************)
(* The steps of main.  The first execution of a monitor returns, as if it  *)
(* had crashed, after it has observed the metric.                          *)
(***************************************************************************)
DoAt(pcs) == demoPc \in pcs /\ demoPc' = demoPc + 1
NewMetric == IF demoPc \in {1, 6} THEN Metrics[1] ELSE Metrics[2]
Warns == observed[Len(observed)] >= Threshold

UnsafeUpdateMetric ==
  /\ DoAt({1, 3})
  /\ dbEntries' = Updated(dbEntries, Metric, NewMetric)
  /\ UNCHANGED <<logs, seqnum, cursor, observed>>

UnsafeMonitorReads ==
  /\ DoAt({2, 4})
  /\ observed' = Append(observed, UnsafeRead(Metric))
  /\ UNCHANGED <<dbEntries, logs, seqnum, cursor>>

UnsafeMonitorWrites ==
  /\ DoAt({5})
  /\ dbEntries' = IF Warns THEN Updated(dbEntries, Ts1, observed[2]) ELSE dbEntries
  /\ observed' = <<>>
  /\ UNCHANGED <<logs, seqnum, cursor>>

HalfmoonUpdateMetric ==
  /\ DoAt({6, 9})
  /\ HMWrite(Metric, NewMetric, IF demoPc = 6 THEN "v0" ELSE "v1")
  /\ UNCHANGED <<cursor, observed>>

\* The first entry of the monitor, or a new one.
HalfmoonInit ==
  /\ DoAt({7, 10})
  /\ IF LogRead(Ts2, 0) = <<>>
     THEN LogAppend(Ts2, <<"init">>) /\ cursor' = seqnum'
     ELSE cursor' = LogRead(Ts2, 0)[1].seqnum /\ UNCHANGED <<logs, seqnum>>
  /\ UNCHANGED <<dbEntries, observed>>

HalfmoonMonitorReads ==
  /\ DoAt({8, 11})
  /\ observed' = Append(observed, HMRead(Metric, cursor))
  /\ UNCHANGED <<dbEntries, logs, seqnum, cursor>>

HalfmoonMonitorWrites ==
  /\ DoAt({12})
  /\ IF Warns THEN HMWrite(Ts2, observed[2], cursor) ELSE UNCHANGED <<dbEntries, logs, seqnum>>
  /\ UNCHANGED <<cursor, observed>>

DemoNext ==
  \/ UnsafeUpdateMetric \/ UnsafeMonitorReads \/ UnsafeMonitorWrites
  \/ HalfmoonUpdateMetric \/ HalfmoonInit \/ HalfmoonMonitorReads \/ HalfmoonMonitorWrites

DemoSpec == DemoInit /\ [][DemoNext]_demoVars

-----------------------------------------------------------------------------
(***************************************************************************)
(* Executed again after a crash, the monitor with log sees the metric that *)
(* it saw the first time, although the metric has changed meanwhile; and   *)
(* at the end there is a warning about it, once in the log, if and only if *)
(* that metric calls for one.                                              *)
(***************************************************************************)
MonitorRetriesSafely ==
  /\ demoPc = 12 => observed = <<Metrics[1], Metrics[1]>>
  /\ demoPc = 13 =>
       /\ Len(EntriesOf(Ts2)) = IF Metrics[1] >= Threshold THEN 2 ELSE 1
       /\ HMRead(Metric, seqnum) = Metrics[2]
       /\ Metrics[1] >= Threshold => HMRead(Ts2, seqnum) = Metrics[1]
=============================================================================
