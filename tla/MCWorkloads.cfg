CONSTANTS
  PostInstance = {"p1", "p2"}
  TimelineInstance = {"q1"}
  Follower = {"u1", "u2"}
  FollowersOf <- Followers
  UserOf <- Users
  MaxReturnPosts = 1
  MaxSecond = 1
  RMaxCrashes = 1
  Request = {"r1", "r2"}
  Field = {"reviewId", "userId", "text", "movieId", "rating"}
  List = {"UserReview"}
  Cases <- ReviewCases
  MMaxCrashes = 1
  PageExecution = {"e1", "e2"}
  Concurrency = 2
  MaxRequests = 5
  Duration = 2
  FirstOps <- OneOfEach
  SwitchCases <- ClientCases
  Metrics <- MetricValues
  Threshold = 1000
SPECIFICATION WorkloadsSpec
INVARIANTS
  PostsPrecedeEntries
  DeliveredOnce
  ReviewIsComposed
  ListsKeepReviews
  PagesEnd
  NoMixedModes
  ReadsAreRegular
  ClientNotStuck
  MonitorRetriesSafely
CHECK_DEADLOCK FALSE
