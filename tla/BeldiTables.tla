------------------------------ MODULE BeldiTables ------------------------------
(***************************************************************************)
(* The tables of the workloads of Beldi: the init programs in              *)
(* src/workloads/workflow/beldi/internal, over utility.go of beldilib.     *)
(* A lambda has a table, a log and a collector; the type BASELINE has one  *)
(* plain table, whose name begins with b, except in retwis.                *)
(***************************************************************************)
EXTENDS TableCommands

CONSTANTS
  NumKeys,         \* NUM_KEYS of the init program and of the functions
  NumUsers,        \* NUM_USERS of the init program of retwis
  MaxReturnPosts   \* MAX_RETURN_POSTS

Create(tablename, key) == <<[op |-> "create", tablename |-> tablename, key |-> key]>>

\* utility.go: CreateTable with the answer and the error dropped.
CreateMainTable(tablename) == Create(tablename, RowKey)
CreateLogTable(lambdaId) == Create(lambdaId \o "-log", {"InstanceId", "StepNumber"})
CreateCollectorTable(lambdaId) == Create(lambdaId \o "-collector", {"InstanceId"})
CreateBaselineTable(tablename) == Create(tablename, HashKey)
CreateLambdaTables(lambdaId) ==
  CreateMainTable(lambdaId) \o CreateLogTable(lambdaId) \o CreateCollectorTable(lambdaId)
CreateTxnTables(lambdaId) ==
  CreateBaselineTable(lambdaId) \o CreateLogTable(lambdaId) \o CreateCollectorTable(lambdaId)

DeleteTable(tablename) == <<[op |-> "delete", tablename |-> tablename]>>

DeleteLambdaTables(lambdaId) ==
  DeleteTable(lambdaId) \o DeleteTable(lambdaId \o "-log")
    \o DeleteTable(lambdaId \o "-collector")
WaitUntilDeleted(tablename) == <<[op |-> "wait deleted", tablename |-> tablename]>>
WaitUntilAllDeleted(tablenames) == ForEach(WaitUntilDeleted, tablenames)

\* The lines that return false are commented out: no number of errors is enough.
WaitUntilActive(tablename) == <<[op |-> "wait active", tablename |-> tablename, givesUp |-> FALSE]>>
WaitUntilAllActive(tablenames) == ForEach(WaitUntilActive, tablenames)

Populate(tablename, keys, baseline) ==
  IF baseline THEN <<[op |-> "populate", tablename |-> "b" \o tablename, key |-> HashKey, keys |-> keys]>>
  ELSE <<[op |-> "populate", tablename |-> tablename, key |-> RowKey, keys |-> keys]>>
PopulateBaseline(tablename, keys) ==
  <<[op |-> "populate", tablename |-> tablename, key |-> HashKey, keys |-> keys]>>

\* The names of the tables of a service, in the order in which they are waited for.
Baseline(service) == "b" \o service
OfLambda(service) == <<service, service \o "-collector", service \o "-log">>
OfLambdas(services) == ForEach(OfLambda, services)
KeyOf(baseline) == IF baseline THEN HashKey ELSE RowKey
-----------------------------------------------------------------------------
HotelServices == <<"user", "search", "flight", "frontend", "geo", "order",
                   "hotel", "profile", "rate", "recommendation", "gateway">>
Locals == [n \in 1 .. 4 |-> (<<"flight", "frontend", "order", "hotel">>)[n] \o "-local"]

HotelTables(baseline) ==
  IF baseline
  THEN LET names == [n \in DOMAIN HotelServices |-> Baseline(HotelServices[n])]
       IN  Repeated(ForEach(CreateBaselineTable, names) \o WaitUntilAllActive(names))
  ELSE Repeated(ForEach(CreateLambdaTables, HotelServices) \o ForEach(CreateMainTable, Locals)
                  \o WaitUntilAllActive(OfLambdas(HotelServices) \o Locals))
HotelDeleteTables(baseline) ==
  IF baseline
  THEN Once(ForEach(DeleteTable, [n \in DOMAIN HotelServices |-> Baseline(HotelServices[n])]))
  ELSE Once(ForEach(DeleteLambdaTables, HotelServices) \o ForEach(DeleteTable, Locals))

GeoIds == 1 .. 6 \cup 7 .. 80
Geo(baseline) == Populate("geo", GeoIds, baseline)
Profile(baseline) == Populate("profile", 1 .. 6 \cup 7 .. 79, baseline)
Rate(baseline) == Populate("rate", 1 .. 3 \cup 4 .. 79, baseline)
Recommendation(baseline) == Populate("recommendation", 1 .. 6 \cup 7 .. 79, baseline)
HotelUser(baseline) == Populate("user", 0 .. 500, baseline)
AddHotels(baseline) == Populate("hotel", 0 .. 99, baseline)
AddFlights(baseline) == Populate("flight", 0 .. 99, baseline)
HotelPopulate(baseline) ==
  Once(Geo(baseline) \o Profile(baseline) \o Rate(baseline) \o Recommendation(baseline)
         \o HotelUser(baseline) \o AddHotels(baseline) \o AddFlights(baseline))

\* The requests of workload.lua: search_hotel, recommend, user_login, reserve_all.
\* geo looks at all of its rows and hands the nearest on to rate, so that any of
\* its ids may be read there; recommendation looks at all of its own.
HotelT(baseline, service) == IF baseline THEN "b" \o service ELSE service
Search(baseline) == {Uses(HotelT(baseline, "geo"), KeyOf(baseline), GeoIds),
                     Uses(HotelT(baseline, "rate"), KeyOf(baseline), GeoIds)}
Recommend(baseline) ==
  Uses(HotelT(baseline, "recommendation"), KeyOf(baseline), 1 .. 6 \cup 7 .. 79)
GetUser(baseline) == Uses(HotelT(baseline, "user"), KeyOf(baseline), 0 .. 500)
ReserveAll(baseline) == {Uses(HotelT(baseline, "hotel"), KeyOf(baseline), 0 .. 99),
                         Uses(HotelT(baseline, "flight"), KeyOf(baseline), 0 .. 99)}

Hotel(baseline) ==
  [create |-> HotelTables(baseline), populate |-> HotelPopulate(baseline),
   clean |-> HotelDeleteTables(baseline),
   uses |-> Search(baseline) \cup {Recommend(baseline), GetUser(baseline)}
              \cup ReserveAll(baseline)]
-----------------------------------------------------------------------------
MediaServices == <<"CastInfo", "ComposeReview", "Frontend", "MovieId", "MovieInfo",
                   "MovieReview", "Page", "Plot", "Rating", "ReviewStorage", "Text",
                   "UniqueId", "User", "UserReview">>

MediaTables(baseline) ==
  IF baseline
  THEN LET names == [n \in DOMAIN MediaServices |-> Baseline(MediaServices[n])]
       IN  Repeated(ForEach(CreateBaselineTable, names) \o WaitUntilAllActive(names))
  ELSE Repeated(ForEach(CreateLambdaTables, MediaServices)
                  \o WaitUntilAllActive(OfLambdas(MediaServices)))
MediaDeleteTables(baseline) ==
  IF baseline
  THEN Once(ForEach(DeleteTable, [n \in DOMAIN MediaServices |-> Baseline(MediaServices[n])]))
  ELSE Once(ForEach(DeleteLambdaTables, MediaServices))

\* A movie by its place in compressed.json, which is also that of its title.  The
\* loop writes its three rows one after the other; here table by table.
MediaUser(baseline) == Populate("User", 0 .. 999, baseline)
Movie(baseline) ==
  Populate("MovieInfo", 1 .. 1000, baseline) \o Populate("Plot", 1 .. 1000, baseline)
    \o Populate("MovieId", 1 .. 1000, baseline)
MediaPopulate(baseline) == Once(MediaUser(baseline) \o Movie(baseline))

MediaT(baseline, service) == IF baseline THEN "b" \o service ELSE service
ComposeRequest(baseline) == {Uses(MediaT(baseline, "User"), KeyOf(baseline), 0 .. 999),
                             Uses(MediaT(baseline, "MovieId"), KeyOf(baseline), 1 .. 1000)}

Media(baseline) ==
  [create |-> MediaTables(baseline), populate |-> MediaPopulate(baseline),
   clean |-> MediaDeleteTables(baseline), uses |-> ComposeRequest(baseline)]
-----------------------------------------------------------------------------
\* Retwis has the type BASELINE only, and its tables have no b.
RetwisServices == <<"user", "post", "timeline">>

RetwisTables == Repeated(ForEach(CreateBaselineTable, RetwisServices)
                           \o WaitUntilAllActive(RetwisServices))
RetwisDeleteTables == Once(ForEach(DeleteTable, RetwisServices))

\* The ids of the first posts have the time in them: here, only their number.
CreateUsers == PopulateBaseline("user", 0 .. NumUsers - 1)
CreatePosts == PopulateBaseline("post", 0 .. MaxReturnPosts - 1)
                 \o PopulateBaseline("timeline", 0 .. NumUsers - 1)
RetwisPopulate == Once(CreateUsers \o CreatePosts)

\* get_user of workload.lua, where 10000 is written out.
RetwisUser == {Uses("user", HashKey, 0 .. 10000), Uses("timeline", HashKey, 0 .. 10000)}

Retwis == [create |-> RetwisTables, populate |-> RetwisPopulate, clean |-> RetwisDeleteTables,
           uses |-> RetwisUser]
-----------------------------------------------------------------------------
RWClean(baseline) ==
  IF baseline THEN Once(DeleteTable(Baseline("rw")) \o WaitUntilDeleted(Baseline("rw")))
  ELSE Once(DeleteLambdaTables("rw") \o WaitUntilDeleted("rw")
              \o WaitUntilDeleted("rw-log") \o WaitUntilDeleted("rw-collector"))
RWCreate(baseline) ==
  IF baseline THEN Once(CreateBaselineTable(Baseline("rw")) \o WaitUntilActive(Baseline("rw")))
  ELSE Once(CreateLambdaTables("rw") \o WaitUntilActive("rw")
              \o WaitUntilActive("rw-log") \o WaitUntilActive("rw-collector"))
RWPopulate(baseline) == Once(Populate("rw", 0 .. NumKeys - 1, baseline))
RWHandler(baseline) ==
  {Uses(IF baseline THEN Baseline("rw") ELSE "rw", KeyOf(baseline), 0 .. NumKeys - 1)}
RW(baseline) == [create |-> RWCreate(baseline), populate |-> RWPopulate(baseline),
                 clean |-> RWClean(baseline), uses |-> RWHandler(baseline)]
-----------------------------------------------------------------------------
SingleOpClean(baseline) ==
  IF baseline
  THEN Once(DeleteTable(Baseline("singleop")) \o WaitUntilDeleted(Baseline("singleop")))
  ELSE Once(DeleteLambdaTables("singleop") \o WaitUntilDeleted("singleop")
              \o WaitUntilDeleted("singleop-log")
              \o WaitUntilDeleted("singleop-collector"))
CreateAndWait(lambda) ==
  CreateLambdaTables(lambda) \o WaitUntilActive(lambda)
    \o WaitUntilActive(lambda \o "-log") \o WaitUntilActive(lambda \o "-collector")
SingleOpCreate(baseline) ==
  IF baseline
  THEN Once(CreateBaselineTable(Baseline("singleop")) \o WaitUntilActive(Baseline("singleop")))
  ELSE Once(ForEach(CreateAndWait, <<"singleop", "nop">>))
SingleOpPopulate(baseline) == Once(Populate("singleop", 0 .. NumKeys - 1, baseline))
SingleOpHandler(baseline) ==
  {Uses(IF baseline THEN Baseline("singleop") ELSE "singleop", KeyOf(baseline), 0 .. NumKeys - 1)}
SingleOp(baseline) ==
  [create |-> SingleOpCreate(baseline), populate |-> SingleOpPopulate(baseline),
   clean |-> SingleOpClean(baseline), uses |-> SingleOpHandler(baseline)]
-----------------------------------------------------------------------------
(***************************************************************************)
(* gctest: one command removes the tables, creates them again and fills    *)
(* them; it starts over at the creation.  With the option txn, the table   *)
(* is a plain one.  Its only key is K, here 0.                             *)
(***************************************************************************)
GCTables == <<"gctest", "gctest-log", "gctest-collector">>
GCClean == Once(DeleteLambdaTables("gctest") \o WaitUntilAllDeleted(GCTables))

GCInit(txn) ==
  LET fill == IF txn THEN PopulateBaseline("gctest", {0}) ELSE Populate("gctest", {0}, FALSE)
      create == IF txn THEN CreateTxnTables("gctest") ELSE CreateLambdaTables("gctest")
  IN  [requests |-> GCClean.requests \o create \o WaitUntilAllActive(GCTables) \o fill,
       again |-> Len(GCClean.requests) + 1]
GCHandler(txn) == {Uses("gctest", IF txn THEN HashKey ELSE RowKey, {0})}
GCTest(txn) == [create |-> GCInit(txn), populate |-> Once(<<>>), clean |-> GCClean,
                uses |-> GCHandler(txn)]
-----------------------------------------------------------------------------
Programs == [hotel |-> Hotel(FALSE), bhotel |-> Hotel(TRUE), media |-> Media(FALSE),
             bmedia |-> Media(TRUE), bretwis |-> Retwis, rw |-> RW(FALSE), brw |-> RW(TRUE),
             singleop |-> SingleOp(FALSE), bsingleop |-> SingleOp(TRUE),
             gctest |-> GCTest(FALSE), tgctest |-> GCTest(TRUE)]
=============================================================================
