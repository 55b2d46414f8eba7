--------------------------------- MODULE Setup ---------------------------------
(***************************************************************************)
(* Setting up and clearing away the tables of a workload.  A script calls  *)
(* the init program of the workload (HalfmoonTables, BokiTables,           *)
(* BeldiTables) with clean, create, populate, and after the workload with  *)
(* clean again, and looks at no exit status; the programs drop the answers *)
(* of CreateTable and DeleteTable and look at DescribeTable instead.  A    *)
(* run of experiments/ begins with create and tables of its own; a run of  *)
(* workloads/workflow/*/scripts with clean, and with the tables that an    *)
(* earlier run may have left.                                              *)
(*                                                                         *)
(* DynamoDB takes a while: a table is CREATING before it is ACTIVE, and    *)
(* DELETING before it is gone.  Nobody but the init program looks, so a    *)
(* table settles when the program is at a request about it, or not yet.    *)
(* DescribeTable may fail as often as it likes, but not for ever.          *)
(* MaxRefusals bounds the other requests that fail, and those of           *)
(* CreateTable that meet the old table DELETING.                           *)
(***************************************************************************)
EXTENDS Naturals, Sequences

CONSTANTS
  Program,     \* the init programs, a function from their names
  Unnamed,     \* tables that a program creates and its clean does not name
  Strangers,   \* rows <<table, key>> that functions ask for and populate does not write
  MaxRefusals  \* bound on the requests that fail

ASSUME MaxRefusalsAssumption == MaxRefusals \in Nat

VARIABLES
  program,    \* the program of this workload
  pass,       \* the command of the script: an index of Script, or past its end
  position,         \* the request of the command
  tables,     \* the status of every table of the program
  filled,     \* the rows that this run has written into every table
  refused,    \* tables that CreateTable was asked for in vain, and are not there
  undeleted,  \* tables that DeleteTable was asked to delete in vain
  panicked,   \* a LibWrite panicked
  failures    \* requests that failed

setupVars ==
  <<program, pass, position, tables, filled, refused, undeleted, panicked, failures>>

Script == <<"clean", "create", "populate", "clean">>
Requests(p, command) == Program[p][command].requests
RequestsOf(p, command) == {Requests(p, command)[n] : n \in DOMAIN Requests(p, command)}

\* The tables that the create command of a program asks for, and the
\* attributes of their keys.
Created(p) == {r \in RequestsOf(p, "create") : r.op = "create"}
TablesOf(p) == {r.tablename : r \in Created(p)}
KeyOf(p, x) == (CHOOSE r \in Created(p) : r.tablename = x).key

\* What a program writes into its tables.
Populates(p) == {r \in RequestsOf(p, "create") \cup RequestsOf(p, "populate") : r.op = "populate"}

\* A clean that waits until the tables are gone.
Waits(p) == \E r \in RequestsOf(p, "clean") : r.op = "wait deleted"

(***************************************************************************)
(* What the properties take from the programs, which is read off the       *)
(* requests: clean names every table, and waits for all of them or for     *)
(* none; create asks for a table before it waits for it, waits for it      *)
(* before it is filled, and deletes none that it has asked for; what is    *)
(* filled has the key that it was created with.                            *)
(***************************************************************************)
Before(p, command, n, op, x) ==
  \E m \in DOMAIN Requests(p, command) :
    m < n /\ Requests(p, command)[m].op = op /\ Requests(p, command)[m].tablename = x
Somewhere(p, command, op, x) ==
  \E r \in RequestsOf(p, command) : r.op = op /\ r.tablename = x

Removes(r) == r.op \in {"delete", "wait deleted"}

ASSUME CommandsAssumption ==
  \A p \in DOMAIN Program : \A command \in {"clean", "create", "populate"} :
    /\ Requests(p, command) \in Seq(RequestsOf(p, command))
    /\ Program[p][command].again \in Nat

ASSUME CleanAssumption ==
  \A p \in DOMAIN Program :
    LET clean == Requests(p, "clean")
    IN  /\ \A n \in DOMAIN clean :
             /\ Removes(clean[n])
             /\ clean[n].op = "wait deleted" => Before(p, "clean", n, "delete", clean[n].tablename)
        /\ \A x \in TablesOf(p) \ Unnamed :
             /\ Somewhere(p, "clean", "delete", x)
             /\ Waits(p) => Somewhere(p, "clean", "wait deleted", x)

ASSUME CreateAssumption ==
  \A p \in DOMAIN Program :
    LET create == Requests(p, "create")
    IN  \A n \in DOMAIN create :
          /\ Removes(create[n]) => \A m \in DOMAIN create : create[m].op = "create" => n < m
          /\ create[n].op = "wait active" =>
               /\ Before(p, "create", n, "create", create[n].tablename)
               /\ Program[p]["create"].again <= n
          /\ create[n].op = "populate" => Before(p, "create", n, "wait active", create[n].tablename)

ASSUME PopulateAssumption ==
  \A p \in DOMAIN Program :
    /\ \A r \in RequestsOf(p, "populate") :
         r.op = "populate" /\ Somewhere(p, "create", "wait active", r.tablename)
    /\ \A r \in Populates(p) : r.key = KeyOf(p, r.tablename)

NoTables(p) == [x \in TablesOf(p) |-> "absent"]
OldTables(p) == [x \in TablesOf(p) |-> "ACTIVE"]

SetupInit ==
  /\ program \in DOMAIN Program
  /\ \/ pass = 1 /\ tables \in {NoTables(program), OldTables(program)}
     \/ pass = 2 /\ tables = NoTables(program)
  /\ position = 1
  /\ filled = [x \in TablesOf(program) |-> {}]
  /\ refused = {} /\ undeleted = {}
  /\ panicked = FALSE /\ failures = 0
-----------------------------------------------------------------------------
Command == Program[program][Script[pass]]
Busy == pass <= Len(Script) /\ position <= Len(Command.requests)
Request == Command.requests[position]
Asks(op) == Busy /\ Request.op = op

Status(x, status) == x \in DOMAIN tables /\ tables[x] = status
Exists(x) == x \in DOMAIN tables /\ tables[x] # "absent"
SetStatus(x, status) == tables' = [tables EXCEPT ![x] = status]

Fault == failures < MaxRefusals /\ failures' = failures + 1

\* DynamoDB is done with what was asked of it.
Settle ==
  /\ Busy
  /\ LET x == Request.tablename
     IN  \/ Status(x, "CREATING") /\ SetStatus(x, "ACTIVE")
         \/ Status(x, "DELETING") /\ SetStatus(x, "absent")
  /\ UNCHANGED <<program, pass, position, filled, refused, undeleted, panicked, failures>>

\* CreateTable: refused when there is a table of this name, or by a fault.
CreateTable ==
  /\ Asks("create")
  /\ position' = position + 1
  /\ LET x == Request.tablename
     IN  \/ /\ ~ Exists(x)
            /\ SetStatus(x, "CREATING")
            /\ refused' = refused \ {x}
            /\ UNCHANGED failures
         \/ /\ ~ Exists(x) \/ Status(x, "DELETING")
            /\ Fault
            /\ refused' = refused \cup {x}
            /\ UNCHANGED tables
         \/ /\ Exists(x) /\ ~ Status(x, "DELETING")
            /\ UNCHANGED <<tables, refused, failures>>
  /\ UNCHANGED <<program, pass, filled, undeleted, panicked>>

\* DeleteTable: refused while the table is being created, or by a fault.
DeleteOutcome(x) ==
  \/ /\ Status(x, "ACTIVE")
     /\ SetStatus(x, "DELETING")
     /\ filled' = [filled EXCEPT ![x] = {}]
     /\ undeleted' = undeleted \ {x}
     /\ UNCHANGED failures
  \/ /\ Exists(x) /\ ~ Status(x, "DELETING")
     /\ Fault
     /\ undeleted' = undeleted \cup {x}
     /\ UNCHANGED <<tables, filled>>
  \/ /\ ~ Exists(x) \/ Status(x, "DELETING")
     /\ UNCHANGED <<tables, filled, undeleted, failures>>

DeleteTable ==
  /\ Asks("delete")
  /\ position' = position + 1
  /\ DeleteOutcome(Request.tablename)
  /\ UNCHANGED <<program, pass, refused, panicked>>

\* Mutant: a table that is being deleted is taken for deleted.
WaitUntilDeleted_Deleting ==
  /\ Asks("wait deleted")
  /\ LET x == Request.tablename
     IN  \/ /\ ~ Exists(x) \/ Status(x, "DELETING")
            /\ position' = position + 1
            /\ UNCHANGED <<tables, filled, undeleted, failures>>
         \/ /\ Exists(x) /\ ~ Status(x, "DELETING")
            /\ DeleteOutcome(x)
            /\ UNCHANGED position
  /\ UNCHANGED <<program, pass, refused, panicked>>

\* WaitUntilDeleted, once round: a table that is not being deleted is deleted again.
WaitUntilDeleted ==
  /\ Asks("wait deleted")
  /\ LET x == Request.tablename
     IN  \/ /\ ~ Exists(x)
            /\ position' = position + 1
            /\ UNCHANGED <<tables, filled, undeleted, failures>>
         \/ /\ Exists(x) /\ ~ Status(x, "DELETING")
            /\ DeleteOutcome(x)
            /\ UNCHANGED position
  /\ UNCHANGED <<program, pass, refused, panicked>>

\* Mutant: a table that is being created is given up too.
WaitUntilActive_Impatient ==
  /\ Asks("wait active")
  /\ \/ Status(Request.tablename, "ACTIVE") /\ position' = position + 1
     \/ /\ ~ Status(Request.tablename, "ACTIVE") /\ Request.givesUp
        /\ position' = IF Command.again = 0 THEN position + 1 ELSE Command.again
  /\ UNCHANGED <<program, pass, tables, filled, refused, undeleted, panicked, failures>>

\* WaitUntilActive, once round.  When DescribeTable has failed more than six
\* times, a table that is neither active nor being created is given up; and a
\* create that is in a loop starts over.
WaitUntilActive ==
  /\ Asks("wait active")
  /\ \/ Status(Request.tablename, "ACTIVE") /\ position' = position + 1
     \/ /\ Status(Request.tablename, "DELETING") /\ Request.givesUp
        /\ position' = IF Command.again = 0 THEN position + 1 ELSE Command.again
  /\ UNCHANGED <<program, pass, tables, filled, refused, undeleted, panicked, failures>>

\* LibWrite of all rows of a table: CHECK panics on any error.  (The rows that
\* were written before a panic are left out: no property asks for them.)
Populate ==
  /\ Asks("populate")
  /\ LET x == Request.tablename
         Ready == Status(x, "ACTIVE") /\ KeyOf(program, x) = Request.key
     IN  \/ /\ Ready
            /\ position' = position + 1
            /\ filled' = [filled EXCEPT ![x] = @ \cup Request.keys]
            /\ UNCHANGED <<pass, panicked, failures>>
         \/ /\ IF Ready
               THEN Fault ELSE UNCHANGED failures
            /\ position' = 1
            /\ pass' = pass + 1
            /\ panicked' = TRUE
            /\ UNCHANGED filled
  /\ UNCHANGED <<program, tables, refused, undeleted>>

\* The command ends, and the script calls the next one.
NextCommand ==
  /\ pass <= Len(Script) /\ position > Len(Command.requests)
  /\ pass' = pass + 1
  /\ position' = 1
  /\ UNCHANGED <<program, tables, filled, refused, undeleted, panicked, failures>>

Proceed ==
  CreateTable \/ DeleteTable \/ WaitUntilDeleted \/ WaitUntilActive \/ Populate \/ NextCommand

SetupNext == Proceed \/ Settle

\* The program runs, what it waits for gets done, and DescribeTable is answered
\* in the end.
SetupSpec == SetupInit /\ [][SetupNext]_setupVars /\ WF_setupVars(SetupNext)
-----------------------------------------------------------------------------
(***************************************************************************)
(* create ends: every table that it waits for is one it has asked for,     *)
(* under the name it waits for, and none is being deleted by an earlier    *)
(* command.  Otherwise it waits for ever, and the exception is the one in  *)
(* the code: CreateTable drops its error, so a request that was refused is *)
(* never repeated, unless a table that is DELETING is given up in time.    *)
(***************************************************************************)
CreateEnds == pass = 2 ~> pass # 2 \/ refused # {}

(***************************************************************************)
(* What create created, the clean after the workload takes away: whatever  *)
(* is not deleted then was refused, and only by a program that does not    *)
(* wait.  (Exception: the tables of nop, which Beldi's singleop creates    *)
(* and its clean does not name.)                                           *)
(***************************************************************************)
CleanLeavesNothing ==
  pass > Len(Script) => \A x \in {x \in DOMAIN tables \ Unnamed : Exists(x)} :
    ~ Waits(program) /\ (Status(x, "DELETING") \/ x \in undeleted)

(***************************************************************************)
(* When the workload begins, every LibWrite of the programs has had its    *)
(* effect and still has it: the table is there and has the rows, whatever  *)
(* an earlier run left and however long DynamoDB took.  populate panics    *)
(* only when a request has failed.                                         *)
(***************************************************************************)
AtWorkload == pass = 4 /\ position = 1

PopulateIsComplete ==
  /\ AtWorkload /\ ~ panicked =>
       \A r \in Populates(program) :
         Status(r.tablename, "ACTIVE") /\ r.keys \subseteq filled[r.tablename]
  /\ panicked => failures > 0

(***************************************************************************)
(* The functions of a workload find their rows: every row that a request   *)
(* may lead them to is in the table that they read, under the key that     *)
(* they use.  (Exceptions, which the handlers take for an empty answer:    *)
(* requests of retwis name one user too many, user10000; and geo has the   *)
(* hotel 80, to which rate has no row.)                                    *)
(***************************************************************************)
Served(use) ==
  /\ Status(use.tablename, "ACTIVE")
  /\ KeyOf(program, use.tablename) = use.key
  /\ {<<use.tablename, k>> : k \in use.keys \ filled[use.tablename]} \subseteq Strangers

RequestsFindRows ==
  /\ PopulateIsComplete
  /\ AtWorkload /\ ~ panicked => \A use \in Program[program].uses : Served(use)
=============================================================================
