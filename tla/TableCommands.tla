----------------------------- MODULE TableCommands -----------------------------
(***************************************************************************)
(* What the init programs of the workloads are made of: a command of an    *)
(* init program is a sequence of requests to DynamoDB, which Setup carries *)
(* out one by one.  The programs are in HalfmoonTables, BokiTables and     *)
(* BeldiTables, a module for each of the three copies of the library and   *)
(* of the workloads, which share no code but have to agree, each by        *)
(* itself, on the names of tables, their keys and their rows.              *)
(*                                                                         *)
(* The names of tables leave out TABLE_PREFIX, which is the same for all.  *)
(***************************************************************************)
EXTENDS Naturals, Sequences
LOCAL INSTANCE SequencesExt

\* for _, name := range names { Requests(name) }
ForEach(Requests(_), names) == FlattenSeq([n \in DOMAIN names |-> Requests(names[n])])

\* A command of a program: again is where it starts over when a table does not
\* become active (0: it goes on).
Once(requests) == [requests |-> requests, again |-> 0]
Repeated(requests) == [requests |-> requests, again |-> 1]

\* What the functions of a workload read and write while it runs.
Uses(tablename, key, keys) == [tablename |-> tablename, key |-> key, keys |-> keys]

HashKey == {"K"}
RowKey == {"K", "ROWHASH"}
=============================================================================
