------------------------------ MODULE BokiTables -------------------------------
(***************************************************************************)
(* The tables of the workloads of BokiFlow: the init programs in           *)
(* src/workloads/workflow/boki/internal, over its own utility.go of        *)
(* cayonlib.  (Its copy of gctest imports Beldi's library.)                *)
(***************************************************************************)
EXTENDS TableCommands

CONSTANTS
  NumKeys,         \* NUM_KEYS of the init program and of the functions
  NumUsers,        \* NUM_USERS of the init program of retwis
  MaxReturnPosts   \* MAX_RETURN_POSTS

\* utility.go: CreateTable with the answer and the error dropped.
CreateMainTable(lambdaId) == <<[op |-> "create", tablename |-> lambdaId, key |-> HashKey]>>
CreateLambdaTables(lambdaId) == CreateMainTable(lambdaId)
DeleteTable(tablename) == <<[op |-> "delete", tablename |-> tablename]>>
DeleteLambdaTables(lambdaId) == DeleteTable(lambdaId)
WaitUntilDeleted(tablename) == <<[op |-> "wait deleted", tablename |-> tablename]>>

\* More than 6 errors, and the table neither active nor being created: false.
WaitUntilActive(tablename) == <<[op |-> "wait active", tablename |-> tablename, givesUp |-> TRUE]>>
WaitUntilAllActive(tablenames) == ForEach(WaitUntilActive, tablenames)
Populate(tablename, keys) ==
  <<[op |-> "populate", tablename |-> tablename, key |-> HashKey, keys |-> keys]>>
-----------------------------------------------------------------------------
HotelServices == <<"user", "search", "flight", "frontend", "geo", "order",
                   "hotel", "profile", "rate", "recommendation", "gateway">>

HotelTables == Repeated(ForEach(CreateLambdaTables, HotelServices)
                          \o WaitUntilAllActive(HotelServices))
HotelDeleteTables == Once(ForEach(DeleteLambdaTables, HotelServices))

GeoIds == 1 .. 6 \cup 7 .. 80
Geo == Populate("geo", GeoIds)
Profile == Populate("profile", 1 .. 6 \cup 7 .. 79)
Rate == Populate("rate", 1 .. 3 \cup 4 .. 79)
Recommendation == Populate("recommendation", 1 .. 6 \cup 7 .. 79)
HotelUser == Populate("user", 0 .. 500)
AddHotels == Populate("hotel", 0 .. 99)
AddFlights == Populate("flight", 0 .. 99)
HotelPopulate ==
  Once(Geo \o Profile \o Rate \o Recommendation \o HotelUser \o AddHotels \o AddFlights)

\* The requests of workload.lua: search_hotel, recommend, user_login, reserve_all.
\* geo looks at all of its rows and hands the nearest on to rate, so that any of
\* its ids may be read there; recommendation looks at all of its own.
HotelT(service) == service
Search == {Uses(HotelT("geo"), HashKey, GeoIds), Uses(HotelT("rate"), HashKey, GeoIds)}
Recommend == Uses(HotelT("recommendation"), HashKey, 1 .. 6 \cup 7 .. 79)
GetUser == Uses(HotelT("user"), HashKey, 0 .. 500)
ReserveAll == {Uses(HotelT("hotel"), HashKey, 0 .. 99), Uses(HotelT("flight"), HashKey, 0 .. 99)}

Hotel == [create |-> HotelTables, populate |-> HotelPopulate, clean |-> HotelDeleteTables,
          uses |-> Search \cup {Recommend, GetUser} \cup ReserveAll]
-----------------------------------------------------------------------------
MediaServices == <<"CastInfo", "ComposeReview", "Frontend", "MovieId", "MovieInfo",
                   "MovieReview", "Page", "Plot", "Rating", "ReviewStorage", "Text",
                   "UniqueId", "User", "UserReview">>

MediaTables == Repeated(ForEach(CreateLambdaTables, MediaServices)
                          \o WaitUntilAllActive(MediaServices))
MediaDeleteTables == Once(ForEach(DeleteLambdaTables, MediaServices))

\* A movie by its place in compressed.json, which is also that of its title.  The
\* loop writes its three rows one after the other; here table by table.
MediaUser == Populate("User", 0 .. 999)
Movie == Populate("MovieInfo", 1 .. 1000) \o Populate("Plot", 1 .. 1000)
           \o Populate("MovieId", 1 .. 1000)
MediaPopulate == Once(MediaUser \o Movie)

MediaT(service) == service
ComposeRequest == {Uses(MediaT("User"), HashKey, 0 .. 999),
                   Uses(MediaT("MovieId"), HashKey, 1 .. 1000)}

Media == [create |-> MediaTables, populate |-> MediaPopulate, clean |-> MediaDeleteTables,
          uses |-> ComposeRequest]
-----------------------------------------------------------------------------
RetwisServices == <<"user", "post", "timeline">>

RetwisTables == Repeated(ForEach(CreateLambdaTables, RetwisServices)
                           \o WaitUntilAllActive(RetwisServices))
RetwisDeleteTables == Once(ForEach(DeleteLambdaTables, RetwisServices))

\* The ids of the first posts have the time in them: here, only their number.
CreateUsers == Populate("user", 0 .. NumUsers - 1)
CreatePosts == Populate("post", 0 .. MaxReturnPosts - 1)
                 \o Populate("timeline", 0 .. NumUsers - 1)
RetwisPopulate == Once(CreateUsers \o CreatePosts)

\* get_user of workload.lua, where 10000 is written out.
RetwisUser == {Uses("user", HashKey, 0 .. 10000), Uses("timeline", HashKey, 0 .. 10000)}

Retwis == [create |-> RetwisTables, populate |-> RetwisPopulate, clean |-> RetwisDeleteTables,
           uses |-> RetwisUser]
-----------------------------------------------------------------------------
RWClean == Once(DeleteTable("rw") \o WaitUntilDeleted("rw"))
RWCreate == Once(CreateMainTable("rw") \o WaitUntilActive("rw"))
RWPopulate == Once(Populate("rw", 0 .. NumKeys - 1))
RWHandler == {Uses("rw", HashKey, 0 .. NumKeys - 1)}
RW == [create |-> RWCreate, populate |-> RWPopulate, clean |-> RWClean,
       uses |-> RWHandler]
-----------------------------------------------------------------------------
SingleOpClean == Once(DeleteLambdaTables("singleop") \o WaitUntilDeleted("singleop"))
SingleOpCreate == Once(CreateLambdaTables("singleop") \o WaitUntilActive("singleop"))
SingleOpPopulate == Once(Populate("singleop", 0 .. NumKeys - 1))
SingleOpHandler == {Uses("singleop", HashKey, 0 .. NumKeys - 1)}
SingleOp == [create |-> SingleOpCreate, populate |-> SingleOpPopulate, clean |-> SingleOpClean,
             uses |-> SingleOpHandler]
-----------------------------------------------------------------------------
RecoveryClean == Once(DeleteTable("recovery") \o WaitUntilDeleted("recovery"))
RecoveryCreate == Once(CreateMainTable("recovery") \o WaitUntilActive("recovery"))
RecoveryPopulate == Once(Populate("recovery", 0 .. NumKeys - 1))
RecoveryHandler == {Uses("recovery", HashKey, 0 .. NumKeys - 1)}
Recovery == [create |-> RecoveryCreate, populate |-> RecoveryPopulate, clean |-> RecoveryClean,
             uses |-> RecoveryHandler]
-----------------------------------------------------------------------------
Programs == [hotel |-> Hotel, media |-> Media, retwis |-> Retwis, rw |-> RW,
             singleop |-> SingleOp, recovery |-> Recovery]
=============================================================================
