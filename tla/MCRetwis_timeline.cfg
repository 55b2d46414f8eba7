CONSTANTS
  PostInstance = {"p1"}
  TimelineInstance = {"q1"}
  Follower = {"u1"}
  FollowersOf <- Followers
  UserOf <- Users
  MaxReturnPosts = 1
  MaxSecond = 0
  RMaxCrashes = 0
SPECIFICATION RetwisSpec
INVARIANT TimelinePostsAreFound
CHECK_DEADLOCK FALSE
