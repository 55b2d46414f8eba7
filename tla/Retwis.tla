--------------------------------- MODULE Retwis --------------------------------
(***************************************************************************)
(* The Retwis workload: Post, Publish and GetTimeline of                   *)
(* src/workloads/workflow/optimal/internal/retwis/core, in both modes of   *)
(* the client library.                                                     *)
(*                                                                         *)
(* Post writes a post under a new key and publishes it: Publish adds the   *)
(* key to the timeline of each follower, in place.  GetTimeline reads a    *)
(* timeline and then the posts in it.  With logged writes a read sees what *)
(* was published up to the cursor of its instance, but a timeline, which   *)
(* is updated in place, is read as it is now.                              *)
(*                                                                         *)
(* An instance that dies is executed again under its InstanceId, which the *)
(* caller gives; that executions of one instance race is the subject of    *)
(* IntentLog and left aside here.  Users and their followers do not change.*)
(***************************************************************************)
EXTENDS Naturals, Sequences, FiniteSets

CONSTANTS
  PostInstance,     \* instances of Post
  TimelineInstance, \* instances of GetTimeline
  Follower,         \* users with a timeline
  FollowersOf,      \* the followers of the author of a post, in order
  UserOf,           \* the user whose timeline is asked for
  MaxReturnPosts,   \* how many posts of it are read
  MaxSecond,        \* bound on the seconds until the last execution
  RMaxCrashes       \* bound on the executions that die

ASSUME RetwisAssumption ==
  /\ FollowersOf \in [PostInstance -> Seq(Follower)]
  /\ UserOf \in [TimelineInstance -> Follower]
  /\ MaxReturnPosts \in Nat /\ MaxSecond \in Nat /\ RMaxCrashes \in Nat

VARIABLES
  rMode,      \* TYPE: WRITELOG or READLOG
  rTail,      \* the last sequence number of the shared log
  rCrashes,
  post,       \* post[p]: the execution of p and the second of its timestamp
  postLog,    \* postLog[p]: what its step log has
  publish,    \* publish[p]: the execution of the Publish that p invokes
  publishLog, \* publishLog[p]: how many of its writes are in its step log
  items,      \* items of the post table: the keys that are written
  published,  \* published[id]: the sequence number that makes a key visible
  timeline,   \* timeline[u]: V.Posts of the item of u
  tlVersion,  \* its VERSION
  view        \* view[q]: the execution of q

rVars == <<rMode, rTail, rCrashes, post, postLog, publish, publishLog,
           items, published, timeline, tlVersion, view>>
rClient == <<post, postLog>>
rPublish == <<publish, publishLog>>
rTables == <<items, published, timeline, tlVersion>>

WriteLog == rMode = "WRITELOG"

\* fmt.Sprintf("%v-%v", timestamp, env.InstanceId)
PostId == (0 .. MaxSecond) \X PostInstance

\* pre: the seconds in the key of the PreWrite entry, at most one.
\* invoke: the sequence number of the PreInvoke entry, 0 for none.
NoPostLog == [pre |-> {}, written |-> FALSE, invoke |-> 0]

\* createPosts puts ten posts into every timeline that anybody can read: they are
\* left out here.
RetwisInit ==
  /\ rMode \in {"WRITELOG", "READLOG"}
  /\ rTail = 0 /\ rCrashes = 0
  /\ post = [p \in PostInstance |-> [pc |-> "idle", second |-> 0]]
  /\ postLog = [p \in PostInstance |-> NoPostLog]
  /\ publish = [p \in PostInstance |-> [pc |-> "idle", second |-> 0, next |-> 1]]
  /\ publishLog = [p \in PostInstance |-> 0]
  /\ items = {}
  /\ published = [id \in PostId |-> 0]
  /\ timeline = [u \in Follower |-> {}]
  /\ tlVersion = [u \in Follower |-> 0]
  /\ view = [q \in TimelineInstance |-> [pc |-> "idle", cursor |-> 0, todo |-> {}]]

-----------------------------------------------------------------------------
(***************************************************************************)
(* Post.                                                                   *)
(***************************************************************************)
PostAt(p, pc) == post[p].pc = pc
PostGoTo(p, pc) == post' = [post EXCEPT ![p].pc = pc]
IdOf(p) == <<post[p].second, p>>

\* The handler takes the time: that of the first execution is second 0, and later
\* executions come at any second.
StartPost(p) ==
  /\ PostAt(p, "idle") \/ PostAt(p, "dead")
  /\ \E second \in post[p].second .. MaxSecond :
       /\ PostAt(p, "idle") => second = 0
       /\ post' = [post EXCEPT ![p] = [pc |-> IF WriteLog THEN "prewrite" ELSE "write",
                                       second |-> second]]
  /\ UNCHANGED <<rMode, rTail, rCrashes, postLog, rPublish, rTables, view>>

\* WriteWithLog: a PreWrite entry of another key is a mismatch, and a panic.
PreWritePost(p) ==
  /\ PostAt(p, "prewrite")
  /\ \/ /\ postLog[p].pre = {}
        /\ postLog' = [postLog EXCEPT ![p].pre = {post[p].second}]
        /\ PostGoTo(p, "write")
     \/ /\ post[p].second \in postLog[p].pre
        /\ PostGoTo(p, IF postLog[p].written THEN "invoke" ELSE "write")
        /\ UNCHANGED postLog
     \/ /\ postLog[p].pre \ {post[p].second} # {}
        /\ PostGoTo(p, "mismatch")
        /\ UNCHANGED postLog
  /\ UNCHANGED <<rMode, rTail, rCrashes, rPublish, rTables, view>>

\* Mutant: the write goes on without its PostWrite entry.
WritePost_NoPostWrite(p) ==
  /\ PostAt(p, "write")
  /\ items' = items \cup {IdOf(p)}
  /\ PostGoTo(p, "invoke")
  /\ UNCHANGED <<rMode, rTail, rCrashes, postLog, rPublish,
                 published, timeline, tlVersion, view>>

\* LibWriteMultiVersion; without log LibWriteSingleVersion, of a key of its own.
WritePost(p) ==
  /\ PostAt(p, "write")
  /\ items' = items \cup {IdOf(p)}
  /\ PostGoTo(p, IF WriteLog THEN "postwrite" ELSE "invoke")
  /\ UNCHANGED <<rMode, rTail, rCrashes, postLog, rPublish,
                 published, timeline, tlVersion, view>>

PostWritePost(p) ==
  /\ PostAt(p, "postwrite")
  /\ rTail' = rTail + 1
  /\ published' = [published EXCEPT ![IdOf(p)] = rTail + 1]
  /\ postLog' = [postLog EXCEPT ![p].written = TRUE]
  /\ PostGoTo(p, "invoke")
  /\ UNCHANGED <<rMode, rCrashes, rPublish, items, timeline, tlVersion, view>>

\* AsyncInvoke, up to the PreInvoke entry, and after the read of the user.  The
\* result of Publish overwrites that entry: then nothing is sent.
ProposePublish(p) ==
  /\ PostAt(p, "invoke")
  /\ IF postLog[p].invoke = 0
     THEN rTail' = rTail + 1 /\ postLog' = [postLog EXCEPT ![p].invoke = rTail + 1]
     ELSE UNCHANGED <<rTail, postLog>>
  /\ PostGoTo(p, IF publish[p].pc = "done" THEN "sent" ELSE "send")
  /\ UNCHANGED <<rMode, rCrashes, rPublish, rTables, view>>

\* InvokeFuncAsync: the instance is in the log, the input is that of this execution,
\* also for an instance that has died.
InvokePublish(p) ==
  /\ PostAt(p, "send")
  /\ publish' = IF publish[p].pc \notin {"idle", "dead"} THEN publish
                ELSE [publish EXCEPT ![p].pc = "run", ![p].second = post[p].second]
  /\ PostGoTo(p, "sent")
  /\ UNCHANGED <<rMode, rTail, rCrashes, postLog, publishLog, rTables, view>>

PostReturns(p) ==
  /\ PostAt(p, "sent")
  /\ PostGoTo(p, "done")
  /\ UNCHANGED <<rMode, rTail, rCrashes, postLog, rPublish, rTables, view>>

PostDies(p) ==
  /\ post[p].pc \notin {"idle", "dead", "done", "mismatch"}
  /\ rCrashes < RMaxCrashes
  /\ rCrashes' = rCrashes + 1
  /\ PostGoTo(p, "dead")
  /\ UNCHANGED <<rMode, rTail, postLog, rPublish, rTables, view>>

-----------------------------------------------------------------------------
(***************************************************************************)
(* Publish.                                                                *)
(***************************************************************************)
PublishAt(p, pcs) == publish[p].pc \in pcs
Reader(p) == FollowersOf[p][publish[p].next]
NewEntry(p) == <<publish[p].second, p>>
MoreFollowers(p) == publish[p].next <= Len(FollowersOf[p])

\* Mutant: the update sets V.Posts.
AddEntry_Only(u, id) == timeline' = [timeline EXCEPT ![u] = {id}]

\* The update sets V.Posts.<PostID>.
AddEntry(u, id) == timeline' = [timeline EXCEPT ![u] = @ \cup {id}]

\* Write(..., true) with log: unconditional, skipped if its PostWrite is there.
PublishWithLog(p) ==
  /\ WriteLog
  /\ PublishAt(p, {"run"}) /\ MoreFollowers(p)
  /\ IF publishLog[p] >= publish[p].next
     THEN publish' = [publish EXCEPT ![p].next = @ + 1] /\ UNCHANGED timeline
     ELSE AddEntry(Reader(p), NewEntry(p)) /\ publish' = [publish EXCEPT ![p].pc = "written"]
  /\ UNCHANGED <<rMode, rTail, rCrashes, rClient, publishLog,
                 items, published, tlVersion, view>>

LogPublished(p) ==
  /\ PublishAt(p, {"written"})
  /\ publishLog' = [publishLog EXCEPT ![p] = publish[p].next]
  /\ publish' = [publish EXCEPT ![p].pc = "run", ![p].next = @ + 1]
  /\ UNCHANGED <<rMode, rTail, rCrashes, rClient, rTables, view>>

\* Without log: on condition that VERSION is older than the cursor, which is the
\* sequence number of the PreInvoke entry.
PublishWithoutLog(p) ==
  LET cursor == postLog[p].invoke
  IN  /\ ~ WriteLog
      /\ PublishAt(p, {"run"}) /\ MoreFollowers(p)
      /\ IF tlVersion[Reader(p)] < cursor
         THEN /\ AddEntry(Reader(p), NewEntry(p))
              /\ tlVersion' = [tlVersion EXCEPT ![Reader(p)] = cursor]
         ELSE UNCHANGED <<timeline, tlVersion>>
      /\ publish' = [publish EXCEPT ![p].next = @ + 1]
      /\ UNCHANGED <<rMode, rTail, rCrashes, rClient, publishLog,
                     items, published, view>>

PublishReturns(p) ==
  /\ PublishAt(p, {"run"}) /\ ~ MoreFollowers(p)
  /\ publish' = [publish EXCEPT ![p].pc = "done"]
  /\ UNCHANGED <<rMode, rTail, rCrashes, rClient, publishLog, rTables, view>>

PublishDies(p) ==
  /\ PublishAt(p, {"run", "written"})
  /\ rCrashes < RMaxCrashes
  /\ rCrashes' = rCrashes + 1
  /\ publish' = [publish EXCEPT ![p].pc = "dead", ![p].next = 1]
  /\ UNCHANGED <<rMode, rTail, rClient, publishLog, rTables, view>>

\* The call is repeated, or Post sends another (InvokePublish): it is executed again
\* from its log.
RestartPublish(p) ==
  /\ PublishAt(p, {"dead"})
  /\ publish' = [publish EXCEPT ![p].pc = "run"]
  /\ UNCHANGED <<rMode, rTail, rCrashes, rClient, publishLog, rTables, view>>

-----------------------------------------------------------------------------
(***************************************************************************)
(* GetTimeline.                                                            *)
(***************************************************************************)
StartTimeline(q) ==
  /\ view[q].pc = "idle"
  /\ rTail' = rTail + 1
  /\ view' = [view EXCEPT ![q] = [pc |-> "timeline", cursor |-> rTail + 1, todo |-> {}]]
  /\ UNCHANGED <<rMode, rCrashes, rClient, rPublish, rTables>>

\* The item is the one there is now, in both modes.  Which of the posts are taken
\* is up to the iteration over a map.
ReadTimeline(q) ==
  /\ view[q].pc = "timeline"
  /\ \E todo \in SUBSET timeline[UserOf[q]] :
       /\ Cardinality(todo) <= MaxReturnPosts
       /\ view' = [view EXCEPT ![q].pc = "posts", ![q].todo = todo]
  /\ UNCHANGED <<rMode, rTail, rCrashes, rClient, rPublish, rTables>>

\* ReadWithoutLog looks for the last version up to the cursor.
Readable(id, cursor) ==
  IF WriteLog THEN published[id] \in 1 .. cursor ELSE id \in items

\* post.(string) fails on nil.
ReadPost(q) ==
  /\ view[q].pc = "posts"
  /\ \E id \in view[q].todo :
       view' = IF Readable(id, view[q].cursor) THEN [view EXCEPT ![q].todo = @ \ {id}]
               ELSE [view EXCEPT ![q].pc = "panic"]
  /\ UNCHANGED <<rMode, rTail, rCrashes, rClient, rPublish, rTables>>

ReturnTimeline(q) ==
  /\ view[q].pc = "posts" /\ view[q].todo = {}
  /\ view' = [view EXCEPT ![q].pc = "done"]
  /\ UNCHANGED <<rMode, rTail, rCrashes, rClient, rPublish, rTables>>

-----------------------------------------------------------------------------
PostStep(p) ==
  \/ StartPost(p) \/ PreWritePost(p) \/ WritePost(p) \/ PostWritePost(p)
  \/ ProposePublish(p) \/ InvokePublish(p) \/ PostReturns(p)

PublishStep(p) ==
  \/ PublishWithLog(p) \/ LogPublished(p) \/ PublishWithoutLog(p) \/ PublishReturns(p)
  \/ RestartPublish(p)

TimelineStep(q) ==
  \/ StartTimeline(q) \/ ReadTimeline(q) \/ ReadPost(q) \/ ReturnTimeline(q)

RetwisNext ==
  \/ \E p \in PostInstance :
       PostStep(p) \/ PostDies(p) \/ PublishStep(p) \/ PublishDies(p)
  \/ \E q \in TimelineInstance : TimelineStep(q)

RetwisSpec == RetwisInit /\ [][RetwisNext]_rVars

-----------------------------------------------------------------------------
(***************************************************************************)
(* Whatever is in a timeline can be read: the post is written, and with    *)
(* logged writes published, before its key gets into any timeline.  A read *)
(* fails only if its cursor is older than that.                            *)
(***************************************************************************)
PostsPrecedeEntries ==
  /\ \A u \in Follower : \A id \in timeline[u] : Readable(id, rTail)
  /\ \A q \in TimelineInstance : view[q].pc = "panic" =>
       WriteLog /\ \E id \in view[q].todo : published[id] > view[q].cursor

(***************************************************************************)
(* When Publish is done, every follower has the post, and a post is in a   *)
(* timeline once, however often it and its Publish were executed, and      *)
(* whichever key they had: with logged writes PreWrite insists on one key, *)
(* and without, VERSION lets each Publish pass once.  The exception: with  *)
(* log-free writes a younger Publish may have been faster at that          *)
(* follower, and then the older one is dropped.                            *)
(***************************************************************************)
Overtaken(p, u) == ~ WriteLog /\ tlVersion[u] > postLog[p].invoke
KeysOf(p, u) == {id \in timeline[u] : id[2] = p}

DeliveredOnce ==
  \A p \in PostInstance :
    /\ publish[p].pc = "done" =>
         \A n \in DOMAIN FollowersOf[p] :
           KeysOf(p, FollowersOf[p][n]) # {} \/ Overtaken(p, FollowersOf[p][n])
    /\ \A u \in Follower : Cardinality(KeysOf(p, u)) <= 1

(***************************************************************************)
(* The type assertion of GetTimeline, "timeline[i].Content = post.(string)" *)
(* at timeline.go:49: the posts of a timeline are there.                   *)
(***************************************************************************)
TimelinePostsAreFound == \A q \in TimelineInstance : view[q].pc # "panic"
=============================================================================
