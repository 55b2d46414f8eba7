----------------------------- MODULE MCLibraries -----------------------------
(***************************************************************************)
(* The two baselines (Boki, BeldiDAAL), and the set-up of the tables of    *)
(* every workload on each of the three libraries (Setup), on small         *)
(* instances.  They share nothing: a behaviour is one of one of them,      *)
(* which "library" names, and the variables of the others do not change.   *)
(***************************************************************************)
EXTENDS Boki, BeldiDAAL, Setup, TLC

VARIABLE library

(***************************************************************************)
(* BokiFlow: two executions of i1 and one of i2, which share a key; and    *)
(* two executions of an instance that calls.                               *)
(***************************************************************************)
ExecutorInstance == "e1" :> "i1" @@ "e2" :> "i1" @@ "e3" :> "i2"

OpOf(type, async) == [type |-> type, key |-> "k1", async |-> async]
W == OpOf("PreWrite", FALSE)
R == OpOf("Read", FALSE)
Sync == OpOf("PreInvoke", FALSE)
Async == OpOf("PreInvoke", TRUE)

ReadsAndWrites == "i1" :> <<W, R>> @@ "i2" :> <<W>>
Calls == "i1" :> <<Sync, Async>> @@ "i2" :> <<>>
Programs == {ReadsAndWrites, Calls}

(***************************************************************************)
(* Beldi: rows of one write, written by three executions of which one may  *)
(* die; a lock of two transactions; and rows of two writes, where i2 is    *)
(* refused a lock and i1 is executed again.                                *)
(***************************************************************************)
Scenario(logSize, crashes, instanceOf, first, second) ==
  [logSize |-> logSize, crashes |-> crashes, instanceOf |-> instanceOf,
   ops |-> "i1" :> first @@ "i2" :> second]

Rows == Scenario(1, 1, ExecutorInstance, <<"write", "read">>, <<"write">>)
Locks == Scenario(1, 0, ExecutorInstance, <<"lock", "unlock">>, <<"lock">>)
Refusals == Scenario(2, 1, "e1" :> "i1" @@ "e3" :> "i2",
                     <<"write", "write", "lock", "write">>, <<"lock", "write">>)
Scenarios == {Rows, Locks, Refusals}

(***************************************************************************)
(* Set-up: NUM_KEYS is of no account, the other numbers are those of the   *)
(* code.                                                                   *)
(***************************************************************************)
Halfmoon == INSTANCE HalfmoonTables WITH NumKeys <- 10, NumUsers <- 10000, MaxReturnPosts <- 4
BokiFlow == INSTANCE BokiTables WITH NumKeys <- 10, NumUsers <- 10000, MaxReturnPosts <- 4
Beldi == INSTANCE BeldiTables WITH NumKeys <- 10, NumUsers <- 10000, MaxReturnPosts <- 4

Tagged(name, programs) ==
  [p \in {<<name, n>> : n \in DOMAIN programs} |-> programs[p[2]]]
AllPrograms ==
  Tagged("halfmoon", Halfmoon!Programs)
    @@ Tagged("boki", BokiFlow!Programs) @@ Tagged("beldi", Beldi!Programs)
InitPrograms == AllPrograms  \* so that TLC evaluates the programs once
Nop == {"nop", "nop-log", "nop-collector"}
MissingRows == {<<"user", 10000>>, <<"timeline", 10000>>, <<"rate", 80>>, <<"brate", 80>>}

-----------------------------------------------------------------------------
LibrariesInit ==
  /\ library \in {"boki", "beldi", "setup"}
  /\ BokiInit /\ DaalInit /\ SetupInit
  /\ library # "boki" => bProgram = Calls
  /\ library # "beldi" => dScenario = Rows
  /\ library # "setup" => program = <<"halfmoon", "rw">> /\ pass = 1 /\ \A x \in TablesOf(program) : ~ Exists(x)

LibrariesNext ==
  \/ library = "boki" /\ BokiNext /\ UNCHANGED <<dVars, setupVars, library>>
  \/ library = "beldi" /\ DaalNext /\ UNCHANGED <<bokiVars, setupVars, library>>
  \/ library = "setup" /\ SetupNext /\ UNCHANGED <<bokiVars, dVars, library>>

vars == <<bokiVars, dVars, setupVars, library>>

LibrariesSpec ==
  /\ LibrariesInit /\ [][LibrariesNext]_vars
  /\ WF_setupVars(library = "setup" /\ SetupNext)
=============================================================================
