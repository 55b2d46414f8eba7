---------------------------- MODULE Workloads_proofs ----------------------------
(***************************************************************************)
(* Proofs about the workloads, for any instances, crashes and both modes   *)
(* of the library.  Retwis: whatever gets into a timeline can be read, and *)
(* gets there once.  Media: reviews are composed and stay in the lists;    *)
(* Page: a page that waits is not left to wait.  Demo: the monitor sees    *)
(* what it saw before its crash.                                           *)
(***************************************************************************)
EXTENDS Retwis, Media, Page, Demo, Integers, FiniteSetTheorems, TLAPS

Second == 0 .. MaxSecond

PostPc == {"idle", "prewrite", "write", "postwrite", "invoke", "send", "sent",
           "done", "dead", "mismatch"}
PostState == [pc : PostPc, second : Second]
PublishState ==
  [pc : {"idle", "run", "written", "done", "dead"}, second : Second, next : Nat \ {0}]
PostLogType == [pre : SUBSET Second, written : BOOLEAN, invoke : Nat]
ViewState == [pc : {"idle", "timeline", "posts", "panic", "done"},
              cursor : Nat, todo : SUBSET PostId]

RTypeOK ==
  /\ rMode \in {"WRITELOG", "READLOG"}
  /\ rTail \in Nat
  /\ post \in [PostInstance -> PostState]
  /\ postLog \in [PostInstance -> PostLogType]
  /\ publish \in [PostInstance -> PublishState]
  /\ items \in SUBSET PostId
  /\ published \in [PostId -> Nat]
  /\ timeline \in [Follower -> SUBSET PostId]
  /\ view \in [TimelineInstance -> ViewState]

(***************************************************************************)
(* What Post knows: a PreWrite entry is for one key, a PostWrite entry     *)
(* follows it and makes the item visible, and an execution that is past    *)
(* its write has written, and with logged writes published, its item.      *)
(***************************************************************************)
PostOK(p) ==
  /\ \A s, t \in postLog[p].pre : s = t
  /\ postLog[p].written =>
       postLog[p].pre # {} /\ \A s \in postLog[p].pre : published[<<s, p>>] \in 1 .. rTail
  /\ post[p].pc \in {"prewrite", "postwrite"} => WriteLog
  /\ WriteLog /\ post[p].pc \in {"write", "postwrite"} => post[p].second \in postLog[p].pre
  /\ post[p].pc \in {"invoke", "send", "sent", "done"} => Readable(IdOf(p), rTail)

\* Publish works with a key that can be read.
PublishOK(p) == publish[p].pc # "idle" => Readable(NewEntry(p), rTail)

TimelineOK(u) == \A id \in timeline[u] : Readable(id, rTail)

\* What GetTimeline took from a timeline can be read, though not at its cursor.
ViewOK(q) ==
  /\ view[q].cursor <= rTail
  /\ \A id \in view[q].todo : Readable(id, rTail)
  /\ view[q].pc = "panic" =>
       WriteLog /\ \E id \in view[q].todo : published[id] > view[q].cursor

(***************************************************************************)
(* The inductive invariant.                                                *)
(***************************************************************************)
RInv ==
  /\ RTypeOK
  /\ \A p \in PostInstance : PostOK(p) /\ PublishOK(p)
  /\ \A u \in Follower : TimelineOK(u)
  /\ \A q \in TimelineInstance : ViewOK(q)

-----------------------------------------------------------------------------
(***************************************************************************)
(* Items and entries of the log are only added, and a key that is          *)
(* published again is published at the end of the log.                     *)
(***************************************************************************)
Grow ==
  /\ rMode' = rMode
  /\ rTail' \in Nat /\ rTail <= rTail'
  /\ items \subseteq items'
  /\ \A id \in PostId :
       \/ published'[id] = published[id]
       \/ rTail < rTail' /\ published'[id] = rTail'

\* A key that can be read stays readable.
LEMMA ReadableStays ==
  ASSUME RTypeOK, Grow, NEW id \in PostId, Readable(id, rTail)
  PROVE  Readable(id, rTail)'
<1>1. published[id] \in Nat /\ rTail \in Nat
  BY DEF RTypeOK
<1>2. CASE WriteLog
  BY <1>1, <1>2 DEF Readable, Grow, WriteLog
<1>3. CASE ~ WriteLog
  BY <1>3 DEF Readable, Grow, WriteLog
<1> QED
  BY <1>2, <1>3

(***************************************************************************)
(* What an instance knows stays true while others make steps.              *)
(***************************************************************************)
LEMMA PostKept ==
  ASSUME RTypeOK, Grow, NEW p \in PostInstance, PostOK(p),
         post'[p] = post[p], postLog'[p] = postLog[p]
  PROVE  PostOK(p)'
<1>1. /\ post[p].second \in Second /\ postLog[p].pre \subseteq Second
      /\ rTail \in Nat /\ published \in [PostId -> Nat]
  BY DEF RTypeOK, PostState, PostLogType
<1>2. IdOf(p) \in PostId /\ IdOf(p)' = IdOf(p) /\ WriteLog' = WriteLog
  BY <1>1 DEF IdOf, PostId, Second, WriteLog, Grow
<1>3. \A s \in postLog[p].pre : <<s, p>> \in PostId
  BY <1>1 DEF PostId, Second
<1>4. ASSUME NEW s \in postLog[p].pre, published[<<s, p>>] \in 1 .. rTail
      PROVE  published'[<<s, p>>] \in 1 .. rTail'
  BY <1>1, <1>3, <1>4 DEF Grow
<1>5. Readable(IdOf(p), rTail) => Readable(IdOf(p), rTail)'
  BY <1>2, ReadableStays
<1> QED
  BY <1>2, <1>4, <1>5 DEF PostOK

\* A Publish that has not moved, or not changed its key, still has a readable key.
LEMMA PublishKept ==
  ASSUME RTypeOK, Grow, NEW p \in PostInstance, PublishOK(p),
         publish'[p].pc = "idle" \/ publish[p].pc # "idle",
         publish'[p].second = publish[p].second
  PROVE  PublishOK(p)'
<1>1. NewEntry(p) \in PostId /\ NewEntry(p)' = NewEntry(p)
  BY DEF RTypeOK, PublishState, NewEntry, PostId, Second
<1> QED
  BY <1>1, ReadableStays DEF PublishOK

\* The entries of a timeline that is not touched stay readable.
LEMMA TimelineKept ==
  ASSUME RTypeOK, Grow, NEW u \in Follower, TimelineOK(u), timeline'[u] = timeline[u]
  PROVE  TimelineOK(u)'
<1>1. timeline[u] \subseteq PostId
  BY DEF RTypeOK
<1> QED
  BY <1>1, ReadableStays DEF TimelineOK

\* A GetTimeline that makes no step keeps what it knows.
LEMMA ViewKept ==
  ASSUME RTypeOK, Grow, NEW q \in TimelineInstance, ViewOK(q), view'[q] = view[q]
  PROVE  ViewOK(q)'
<1>1. /\ view[q].todo \subseteq PostId /\ view[q].cursor \in Nat
      /\ rTail \in Nat /\ published \in [PostId -> Nat]
  BY DEF RTypeOK, ViewState
<1>2. view'[q].cursor <= rTail'
  BY <1>1 DEF ViewOK, Grow
<1>3. \A id \in view'[q].todo : Readable(id, rTail)'
  BY <1>1, ReadableStays DEF ViewOK
<1>4. ASSUME view'[q].pc = "panic"
      PROVE  WriteLog' /\ \E id \in view'[q].todo : published'[id] > view'[q].cursor
  <2>1. PICK id \in view[q].todo : published[id] > view[q].cursor
    BY <1>4 DEF ViewOK
  <2>2. id \in PostId
    BY <1>1
  <2>3. published'[id] > view[q].cursor
    BY <1>1, <2>1, <2>2 DEF Grow, ViewOK
  <2> QED
    BY <1>4, <2>1, <2>3 DEF ViewOK, WriteLog, Grow
<1> QED
  BY <1>2, <1>3, <1>4 DEF ViewOK

(***************************************************************************)
(* What is left to show for a step: the types, that logs and tables grow,  *)
(* and the parts of the invariant that are about what it changes.          *)
(***************************************************************************)
LEMMA KeepsRest ==
  ASSUME RInv, RTypeOK', Grow,
         \A p \in PostInstance :
           PostOK(p)' \/ (post'[p] = post[p] /\ postLog'[p] = postLog[p]),
         \A p \in PostInstance :
           \/ PublishOK(p)'
           \/ /\ publish'[p].second = publish[p].second
              /\ publish'[p].pc = "idle" \/ publish[p].pc # "idle",
         \A u \in Follower : TimelineOK(u)' \/ timeline'[u] = timeline[u],
         \A q \in TimelineInstance : ViewOK(q)' \/ view'[q] = view[q]
  PROVE  RInv'
<1>1. \A p \in PostInstance : PostOK(p)'
  BY PostKept DEF RInv
<1>2. \A p \in PostInstance : PublishOK(p)'
  BY PublishKept DEF RInv
<1>3. \A u \in Follower : TimelineOK(u)'
  BY TimelineKept DEF RInv
<1>4. \A q \in TimelineInstance : ViewOK(q)'
  BY ViewKept DEF RInv
<1> QED
  BY <1>1, <1>2, <1>3, <1>4 DEF RInv

-----------------------------------------------------------------------------
(***************************************************************************)
(* The steps of Post.                                                      *)
(***************************************************************************)
LEMMA PostType ==
  ASSUME RInv, NEW p \in PostInstance
  PROVE  /\ RTypeOK /\ PostOK(p) /\ PublishOK(p)
         /\ post[p].second \in Second /\ IdOf(p) \in PostId
         /\ postLog[p].pre \in SUBSET Second /\ rTail \in Nat
BY DEF RInv, RTypeOK, PostState, PostLogType, IdOf, PostId, Second

\* An execution moves on: it stays with its key, and nothing happens to the others.
LEMMA PostGoes ==
  ASSUME RTypeOK, NEW p \in PostInstance, NEW pc \in PostPc, PostGoTo(p, pc)
  PROVE  /\ post' \in [PostInstance -> PostState]
         /\ post'[p].pc = pc /\ post'[p].second = post[p].second /\ IdOf(p)' = IdOf(p)
         /\ \A x \in PostInstance : x # p => post'[x] = post[x]
BY DEF RTypeOK, PostGoTo, PostState, IdOf

\* StartPost keeps the invariant: a new execution knows nothing yet.
LEMMA StartPostKeeps ==
  ASSUME RInv, NEW p \in PostInstance, StartPost(p) PROVE RInv'
<1>1. Grow /\ RTypeOK'
  BY PostType DEF RTypeOK, PostState, PostPc, Grow, StartPost, Second, PostAt, rPublish, rTables
<1>2. PostOK(p)'
  BY PostType DEF PostOK, StartPost, RTypeOK, PostState, WriteLog, rPublish, rTables
<1> QED
  BY <1>1, <1>2, KeepsRest, PostType DEF StartPost, RTypeOK, rPublish, rTables

\* PreWritePost keeps it: the key of the PreWrite entry is never another one.
LEMMA PreWritePostKeeps ==
  ASSUME RInv, NEW p \in PostInstance, PreWritePost(p) PROVE RInv'
<1>1. /\ WriteLog /\ post[p].pc = "prewrite" /\ post[p].second \in Second
      /\ rMode' = rMode /\ rTail' = rTail /\ items' = items /\ published' = published
      /\ publish' = publish /\ timeline' = timeline /\ view' = view
  BY PostType DEF PostOK, PreWritePost, PostAt, rPublish, rTables
<1>2. PICK pc \in {"write", "invoke", "mismatch"} :
        /\ PostGoTo(p, pc)
        /\ \/ /\ pc = "write" /\ postLog[p].pre = {}
              /\ postLog' = [postLog EXCEPT ![p].pre = {post[p].second}]
           \/ /\ pc = "write" => post[p].second \in postLog[p].pre
              /\ pc = "invoke" => postLog[p].written /\ post[p].second \in postLog[p].pre
              /\ postLog' = postLog
  BY DEF PreWritePost
<1>3. /\ post' \in [PostInstance -> PostState]
      /\ post'[p].pc = pc /\ post'[p].second = post[p].second /\ IdOf(p)' = IdOf(p)
      /\ \A x \in PostInstance : x # p => post'[x] = post[x]
  BY <1>2, PostType, PostGoes DEF PostPc
<1>4. /\ postLog' \in [PostInstance -> PostLogType]
      /\ \A x \in PostInstance : x # p => postLog'[x] = postLog[x]
      /\ postLog'[p].written = postLog[p].written
      /\ \/ postLog'[p].pre = postLog[p].pre
         \/ postLog[p].pre = {} /\ postLog'[p].pre = {post[p].second}
      /\ pc \in {"write", "invoke"} => post[p].second \in postLog'[p].pre
      /\ pc = "invoke" => postLog[p].written /\ postLog'[p].pre = postLog[p].pre
  <2>1. CASE pc = "write" /\ postLog[p].pre = {}
             /\ postLog' = [postLog EXCEPT ![p].pre = {post[p].second}]
    BY <1>1, <2>1, PostType DEF RTypeOK, PostLogType
  <2>2. CASE /\ pc = "write" => post[p].second \in postLog[p].pre
             /\ pc = "invoke" => postLog[p].written /\ post[p].second \in postLog[p].pre
             /\ postLog' = postLog
    BY <2>2, PostType DEF RTypeOK
  <2> QED
    BY <1>2, <2>1, <2>2
<1>5. Grow /\ RTypeOK'
  BY <1>1, <1>3, <1>4, PostType DEF RTypeOK, Grow
<1>6. pc = "invoke" => Readable(IdOf(p), rTail)'
  BY <1>1, <1>3, <1>4, PostType DEF PostOK, Readable, IdOf, WriteLog
<1>7. PostOK(p)'
  BY <1>1, <1>3, <1>4, <1>6, PostType DEF PostOK, WriteLog
<1> QED
  BY <1>1, <1>3, <1>4, <1>5, <1>7, KeepsRest

\* WritePost keeps it: items are only added.
LEMMA WritePostKeeps ==
  ASSUME RInv, NEW p \in PostInstance, WritePost(p) PROVE RInv'
<1>1. /\ post[p].pc = "write" /\ items' = items \cup {IdOf(p)}
      /\ rMode' = rMode /\ rTail' = rTail /\ published' = published
      /\ publish' = publish /\ timeline' = timeline /\ view' = view /\ postLog' = postLog
      /\ PostGoTo(p, IF WriteLog THEN "postwrite" ELSE "invoke")
  BY DEF WritePost, PostAt, rPublish
<1>2. /\ post' \in [PostInstance -> PostState]
      /\ post'[p].pc = IF WriteLog THEN "postwrite" ELSE "invoke"
      /\ post'[p].second = post[p].second /\ IdOf(p)' = IdOf(p)
      /\ \A x \in PostInstance : x # p => post'[x] = post[x]
  BY <1>1, PostType, PostGoes DEF PostPc
<1>3. Grow /\ RTypeOK'
  BY <1>1, <1>2, PostType DEF RTypeOK, Grow
<1>4. PostOK(p)'
  BY <1>1, <1>2, PostType DEF PostOK, WriteLog, Readable
<1> QED
  BY <1>1, <1>2, <1>3, <1>4, KeepsRest

\* PostWritePost keeps it: the key is visible from the end of the log on.
LEMMA PostWritePostKeeps ==
  ASSUME RInv, NEW p \in PostInstance, PostWritePost(p) PROVE RInv'
<1>1. /\ WriteLog /\ post[p].second \in postLog[p].pre
      /\ rMode' = rMode /\ rTail' = rTail + 1 /\ items' = items
      /\ published' = [published EXCEPT ![IdOf(p)] = rTail + 1]
      /\ publish' = publish /\ timeline' = timeline /\ view' = view
      /\ postLog' = [postLog EXCEPT ![p].written = TRUE]
      /\ PostGoTo(p, "invoke")
  BY PostType DEF PostOK, PostWritePost, PostAt, rPublish
<1>2. /\ post' \in [PostInstance -> PostState]
      /\ post'[p].pc = "invoke" /\ IdOf(p)' = IdOf(p)
      /\ \A x \in PostInstance : x # p => post'[x] = post[x]
  BY <1>1, PostType, PostGoes DEF PostPc
<1>3. /\ postLog' \in [PostInstance -> PostLogType]
      /\ postLog'[p].pre = postLog[p].pre
      /\ \A x \in PostInstance : x # p => postLog'[x] = postLog[x]
      /\ published' \in [PostId -> Nat] /\ published'[IdOf(p)] = rTail'
      /\ \A id \in PostId : id # IdOf(p) => published'[id] = published[id]
  <2>1. /\ postLog' \in [PostInstance -> PostLogType]
        /\ postLog'[p].pre = postLog[p].pre
        /\ \A x \in PostInstance : x # p => postLog'[x] = postLog[x]
    <3>1. /\ postLog \in [PostInstance -> PostLogType]
          /\ postLog' = [postLog EXCEPT ![p] = [postLog[p] EXCEPT !.written = TRUE]]
      BY <1>1, PostType DEF RTypeOK
    <3>2. /\ [postLog[p] EXCEPT !.written = TRUE] \in PostLogType
          /\ [postLog[p] EXCEPT !.written = TRUE].pre = postLog[p].pre
      BY <3>1 DEF PostLogType
    <3> QED
      BY <3>1, <3>2
  <2>2. /\ published' \in [PostId -> Nat] /\ published'[IdOf(p)] = rTail'
        /\ \A id \in PostId : id # IdOf(p) => published'[id] = published[id]
    BY <1>1, PostType DEF RTypeOK
  <2> QED
    BY <2>1, <2>2
<1>4. Grow /\ RTypeOK'
  BY <1>1, <1>2, <1>3, PostType DEF RTypeOK, Grow
<1>5. \A s \in postLog[p].pre : <<s, p>> = IdOf(p)
  BY <1>1, PostType DEF PostOK, IdOf
<1>6. Readable(IdOf(p), rTail)'
  BY <1>1, <1>2, <1>3, PostType DEF Readable, WriteLog
<1>7. PostOK(p)'
  BY <1>1, <1>2, <1>3, <1>5, <1>6, PostType DEF PostOK, WriteLog
<1> QED
  BY <1>1, <1>2, <1>3, <1>4, <1>7, KeepsRest

\* ProposePublish keeps it: only the log gets longer.
LEMMA ProposePublishKeeps ==
  ASSUME RInv, NEW p \in PostInstance, ProposePublish(p) PROVE RInv'
<1>1. /\ post[p].pc = "invoke"
      /\ rMode' = rMode /\ items' = items /\ published' = published
      /\ publish' = publish /\ timeline' = timeline /\ view' = view
      /\ PostGoTo(p, IF publish[p].pc = "done" THEN "sent" ELSE "send")
  BY DEF ProposePublish, PostAt, rPublish, rTables
<1>2. /\ post' \in [PostInstance -> PostState]
      /\ post'[p].pc \in {"send", "sent"} /\ IdOf(p)' = IdOf(p)
      /\ \A x \in PostInstance : x # p => post'[x] = post[x]
  BY <1>1, PostType, PostGoes DEF PostPc
<1>3. /\ rTail' \in Nat /\ rTail <= rTail'
      /\ postLog' \in [PostInstance -> PostLogType]
      /\ postLog'[p].pre = postLog[p].pre /\ postLog'[p].written = postLog[p].written
      /\ \A x \in PostInstance : x # p => postLog'[x] = postLog[x]
  <2>1. CASE rTail' = rTail + 1 /\ postLog' = [postLog EXCEPT ![p].invoke = rTail + 1]
    BY <2>1, PostType DEF RTypeOK, PostLogType
  <2>2. CASE rTail' = rTail /\ postLog' = postLog
    BY <2>2, PostType DEF RTypeOK
  <2> QED
    BY <2>1, <2>2 DEF ProposePublish
<1>4. Grow /\ RTypeOK'
  BY <1>1, <1>2, <1>3, PostType DEF RTypeOK, Grow
<1>5. Readable(IdOf(p), rTail)'
  BY <1>1, <1>2, <1>4, PostType, ReadableStays DEF PostOK
<1>6. \A s \in postLog[p].pre :
        published[<<s, p>>] \in 1 .. rTail => published'[<<s, p>>] \in 1 .. rTail'
  BY <1>1, <1>3, PostType DEF RTypeOK, PostId, Second
<1>7. PostOK(p)'
  BY <1>2, <1>3, <1>5, <1>6, PostType DEF PostOK
<1> QED
  BY <1>1, <1>2, <1>3, <1>4, <1>7, KeepsRest

\* InvokePublish keeps it: Publish gets a key that can be read.
LEMMA InvokePublishKeeps ==
  ASSUME RInv, NEW p \in PostInstance, InvokePublish(p) PROVE RInv'
<1>1. /\ post[p].pc = "send" /\ PostGoTo(p, "sent")
      /\ rMode' = rMode /\ rTail' = rTail /\ items' = items /\ published' = published
      /\ postLog' = postLog /\ timeline' = timeline /\ view' = view
  BY DEF InvokePublish, PostAt, rTables
<1>2. /\ post' \in [PostInstance -> PostState]
      /\ post'[p].pc = "sent" /\ IdOf(p)' = IdOf(p)
      /\ \A x \in PostInstance : x # p => post'[x] = post[x]
  BY <1>1, PostType, PostGoes DEF PostPc
<1>3. /\ publish' \in [PostInstance -> PublishState]
      /\ \A x \in PostInstance : x # p => publish'[x] = publish[x]
      /\ publish'[p] = publish[p] \/ NewEntry(p)' = IdOf(p)
  <2>1. CASE publish' = publish
    BY <2>1, PostType DEF RTypeOK
  <2>2. CASE publish' = [publish EXCEPT ![p].pc = "run", ![p].second = post[p].second]
    <3> DEFINE job == [publish[p] EXCEPT !.pc = "run", !.second = post[p].second]
    <3>1. publish' = [publish EXCEPT ![p] = job]
      BY <2>2, PostType DEF RTypeOK
    <3>2. job \in PublishState /\ job.second = post[p].second
      BY PostType DEF RTypeOK, PublishState
    <3> HIDE DEF job
    <3> QED
      BY <3>1, <3>2, PostType DEF RTypeOK, NewEntry, IdOf
  <2> QED
    BY <2>1, <2>2 DEF InvokePublish
<1>4. Grow /\ RTypeOK'
  BY <1>1, <1>2, <1>3, PostType DEF RTypeOK, Grow
<1>5. Readable(IdOf(p), rTail) /\ Readable(IdOf(p), rTail)'
  BY <1>1, <1>2, <1>4, PostType, ReadableStays DEF PostOK
<1>6. PostOK(p)'
  BY <1>1, <1>2, <1>5, PostType DEF PostOK
<1>7. PublishOK(p)' \/ publish'[p] = publish[p]
  BY <1>1, <1>3, <1>5 DEF PublishOK, Readable, WriteLog
<1>8. \A x \in PostInstance :
        \/ PublishOK(x)'
        \/ /\ publish'[x].second = publish[x].second
           /\ publish'[x].pc = "idle" \/ publish[x].pc # "idle"
  BY <1>3, <1>7
<1> QED
  BY <1>1, <1>2, <1>4, <1>6, <1>8, KeepsRest

\* PostReturns and PostDies only move the execution.
LEMMA PostEndsKeeps ==
  ASSUME RInv, NEW p \in PostInstance, PostReturns(p) \/ PostDies(p) PROVE RInv'
<1>1. /\ (post[p].pc = "sent" /\ PostGoTo(p, "done")) \/ PostGoTo(p, "dead")
      /\ rMode' = rMode /\ rTail' = rTail /\ items' = items /\ published' = published
      /\ publish' = publish /\ postLog' = postLog /\ timeline' = timeline /\ view' = view
  BY DEF PostReturns, PostDies, PostAt, rPublish, rTables
<1>2. /\ post' \in [PostInstance -> PostState]
      /\ post'[p].pc = "dead" \/ (post[p].pc = "sent" /\ post'[p].pc = "done")
      /\ IdOf(p)' = IdOf(p)
      /\ \A x \in PostInstance : x # p => post'[x] = post[x]
  BY <1>1, PostType, PostGoes DEF PostPc
<1>3. Grow /\ RTypeOK'
  BY <1>1, <1>2, PostType DEF RTypeOK, Grow
<1>4. PostOK(p)'
  BY <1>1, <1>2, PostType DEF PostOK, Readable, WriteLog
<1> QED
  BY <1>1, <1>2, <1>3, <1>4, KeepsRest

-----------------------------------------------------------------------------
(***************************************************************************)
(* The steps of Publish: what it adds to a timeline is the key it got.     *)
(***************************************************************************)
LEMMA AddEntryOK ==
  ASSUME RInv, Grow, NEW u \in Follower, NEW id \in PostId,
         Readable(id, rTail), AddEntry(u, id)
  PROVE  /\ timeline' \in [Follower -> SUBSET PostId]
         /\ \A v \in Follower : TimelineOK(v)' \/ timeline'[v] = timeline[v]
<1>1. RTypeOK /\ timeline \in [Follower -> SUBSET PostId]
  BY DEF RInv, RTypeOK
<1>2. /\ timeline' \in [Follower -> SUBSET PostId]
      /\ timeline'[u] = timeline[u] \cup {id}
      /\ \A v \in Follower : v # u => timeline'[v] = timeline[v]
  BY <1>1 DEF AddEntry
<1>3. \A x \in timeline[u] : Readable(x, rTail)'
  BY <1>1, ReadableStays DEF RInv, TimelineOK
<1>4. Readable(id, rTail)'
  BY <1>1, ReadableStays
<1>5. TimelineOK(u)'
  BY <1>2, <1>3, <1>4 DEF TimelineOK
<1> QED
  BY <1>2, <1>5

\* A step that changes the record of one Publish keeps the type of publish.
LEMMA PublishType ==
  ASSUME RInv, NEW p \in PostInstance, MoreFollowers(p)
  PROVE  Reader(p) \in Follower
<1>1. publish[p].next \in 1 .. Len(FollowersOf[p])
  BY RetwisAssumption DEF RInv, RTypeOK, PublishState, MoreFollowers
<1> QED
  BY <1>1, RetwisAssumption DEF Reader

\* A step that leaves post, postLog, the log and the posts alone.
PublishOnly ==
  /\ rMode' = rMode /\ rTail' = rTail /\ post' = post /\ postLog' = postLog
  /\ items' = items /\ published' = published /\ view' = view

\* The steps of Publish keep it: it adds its readable key to timelines.
LEMMA PublishKeeps ==
  ASSUME RInv, NEW p \in PostInstance, PublishStep(p) \/ PublishDies(p) PROVE RInv'
<1>1. PublishOnly /\ publish[p].pc # "idle"
  BY DEF PublishStep, PublishDies, PublishWithLog, LogPublished, PublishWithoutLog,
         PublishReturns, RestartPublish, PublishAt, PublishOnly, rClient, rTables
<1>2. Grow
  BY <1>1 DEF PublishOnly, Grow, RInv, RTypeOK
<1>3. /\ publish' \in [PostInstance -> PublishState]
      /\ publish'[p].second = publish[p].second
      /\ \A x \in PostInstance : x # p => publish'[x] = publish[x]
  <2>1. publish \in [PostInstance -> PublishState] /\ publish[p] \in PublishState
    BY DEF RInv, RTypeOK
  <2>2. publish[p].next \in Nat \ {0} /\ publish[p].next + 1 \in Nat \ {0}
    BY <2>1 DEF PublishState
  <2>3. \/ publish' = [publish EXCEPT ![p].next = publish[p].next + 1]
        \/ \E pc \in {"run", "written", "done"} : publish' = [publish EXCEPT ![p].pc = pc]
        \/ \E pc \in {"run", "dead"}, n \in Nat \ {0} :
             publish' = [publish EXCEPT ![p].pc = pc, ![p].next = n]
    BY <2>2
    DEF PublishStep, PublishDies, PublishWithLog, LogPublished, PublishWithoutLog,
        PublishReturns, RestartPublish
  <2>4. CASE publish' = [publish EXCEPT ![p].next = publish[p].next + 1]
    BY <2>1, <2>2, <2>4 DEF PublishState
  <2>5. CASE \E pc \in {"run", "written", "done"} : publish' = [publish EXCEPT ![p].pc = pc]
    BY <2>1, <2>5 DEF PublishState
  <2>6. CASE \E pc \in {"run", "dead"}, n \in Nat \ {0} :
               publish' = [publish EXCEPT ![p].pc = pc, ![p].next = n]
    <3>1. PICK pc \in {"run", "dead"}, n \in Nat \ {0} :
            publish' = [publish EXCEPT ![p].pc = pc, ![p].next = n]
      BY <2>6
    <3> DEFINE job == [publish[p] EXCEPT !.pc = pc, !.next = n]
    <3>2. publish' = [publish EXCEPT ![p] = job]
      BY <2>1, <3>1
    <3>3. job \in PublishState /\ job.second = publish[p].second
      BY <2>1 DEF PublishState
    <3> HIDE DEF job
    <3> QED
      BY <2>1, <3>2, <3>3
  <2> QED
    BY <2>3, <2>4, <2>5, <2>6
<1>4. /\ timeline' \in [Follower -> SUBSET PostId]
      /\ \A u \in Follower : TimelineOK(u)' \/ timeline'[u] = timeline[u]
  <2>1. CASE timeline' = timeline
    BY <2>1 DEF RInv, RTypeOK
  <2>2. CASE MoreFollowers(p) /\ AddEntry(Reader(p), NewEntry(p))
    <3>1. PICK id \in PostId : id = NewEntry(p)
      BY PostType DEF RTypeOK, PublishState, NewEntry, PostId, Second
    <3>2. Readable(id, rTail)
      BY <1>1, <3>1, PostType DEF PublishOK
    <3> QED
      BY <1>2, <2>2, <3>1, <3>2, PublishType, AddEntryOK
  <2> QED
    BY <2>1, <2>2 DEF PublishStep, PublishDies, PublishWithLog, LogPublished,
                      PublishWithoutLog, PublishReturns, RestartPublish, rTables
<1>5. RTypeOK'
  BY <1>1, <1>3, <1>4 DEF RInv, RTypeOK, PublishOnly
<1>6. \A x \in PostInstance :
        /\ publish'[x].second = publish[x].second
        /\ publish'[x].pc = "idle" \/ publish[x].pc # "idle"
  BY <1>1, <1>3
<1> QED
  BY <1>1, <1>2, <1>4, <1>5, <1>6, KeepsRest DEF PublishOnly

-----------------------------------------------------------------------------
(***************************************************************************)
(* The steps of GetTimeline.                                               *)
(***************************************************************************)
LEMMA TimelineKeeps ==
  ASSUME RInv, NEW q \in TimelineInstance, TimelineStep(q) PROVE RInv'
<1>1. /\ rMode' = rMode /\ post' = post /\ postLog' = postLog /\ publish' = publish
      /\ items' = items /\ published' = published /\ timeline' = timeline
      /\ rTail' = rTail \/ rTail' = rTail + 1
  BY DEF TimelineStep, StartTimeline, ReadTimeline, ReadPost, ReturnTimeline,
         rClient, rPublish, rTables
<1>2. Grow
  BY <1>1 DEF Grow, RInv, RTypeOK
<1>3. /\ view \in [TimelineInstance -> ViewState] /\ rTail \in Nat
      /\ RTypeOK /\ ViewOK(q) /\ UserOf[q] \in Follower /\ TimelineOK(UserOf[q])
      /\ timeline[UserOf[q]] \subseteq PostId
  BY RetwisAssumption DEF RInv, RTypeOK
<1>4. /\ view' \in [TimelineInstance -> ViewState]
      /\ \A x \in TimelineInstance : x # q => view'[x] = view[x]
      /\ ViewOK(q)'
  <2>1. CASE StartTimeline(q)
    BY <1>3, <2>1 DEF StartTimeline, ViewOK, ViewState
  <2>2. CASE ReadTimeline(q)
    <3>1. PICK todo \in SUBSET timeline[UserOf[q]] :
            view' = [view EXCEPT ![q].pc = "posts", ![q].todo = todo]
      BY <2>2 DEF ReadTimeline
    <3>2. /\ view' \in [TimelineInstance -> ViewState]
          /\ \A x \in TimelineInstance : x # q => view'[x] = view[x]
          /\ view'[q].pc = "posts" /\ view'[q].cursor = view[q].cursor
          /\ view'[q].todo = todo
      BY <1>3, <3>1 DEF ViewState
    <3>3. \A id \in todo : Readable(id, rTail)'
      BY <1>2, <1>3, ReadableStays DEF TimelineOK
    <3> QED
      BY <1>1, <1>3, <2>2, <3>2, <3>3 DEF ViewOK, ReadTimeline
  <2>3. CASE ReadPost(q)
    <3>1. /\ \A id \in view[q].todo : Readable(id, rTail)'
          /\ rTail' = rTail /\ view[q].cursor <= rTail'
      BY <1>2, <1>3, <2>3, ReadableStays DEF ViewOK, ViewState, ReadPost
    <3>2. PICK id \in view[q].todo :
            view' = IF Readable(id, view[q].cursor)
                    THEN [view EXCEPT ![q].todo = @ \ {id}]
                    ELSE [view EXCEPT ![q].pc = "panic"]
      BY <2>3 DEF ReadPost
    <3>3. CASE Readable(id, view[q].cursor)
      <4>1. /\ view' \in [TimelineInstance -> ViewState]
            /\ \A x \in TimelineInstance : x # q => view'[x] = view[x]
            /\ view'[q].pc = "posts" /\ view'[q].cursor = view[q].cursor
            /\ view'[q].todo \subseteq view[q].todo
        BY <1>3, <2>3, <3>2, <3>3 DEF ViewState, ReadPost
      <4> QED
        BY <3>1, <4>1 DEF ViewOK
    <3>4. CASE ~ Readable(id, view[q].cursor)
      <4>1. /\ view' \in [TimelineInstance -> ViewState]
            /\ \A x \in TimelineInstance : x # q => view'[x] = view[x]
            /\ view'[q].cursor = view[q].cursor /\ view'[q].todo = view[q].todo
        BY <1>3, <3>2, <3>4 DEF ViewState
      <4>2. Readable(id, rTail) /\ id \in PostId /\ published[id] \in Nat
        BY <1>3 DEF ViewOK, ViewState, RTypeOK
      <4>3. WriteLog /\ published[id] > view[q].cursor
        BY <1>3, <3>4, <4>2 DEF Readable, ViewState
      <4> QED
        BY <1>1, <3>1, <4>1, <4>3 DEF ViewOK, WriteLog
    <3> QED
      BY <3>3, <3>4
  <2>4. CASE ReturnTimeline(q)
    <3>1. /\ view' \in [TimelineInstance -> ViewState]
          /\ \A x \in TimelineInstance : x # q => view'[x] = view[x]
          /\ view'[q].pc = "done" /\ view'[q].cursor = view[q].cursor /\ view'[q].todo = {}
          /\ rTail' = rTail
      BY <1>3, <2>4 DEF ReturnTimeline, ViewState
    <3> QED
      BY <1>3, <3>1 DEF ViewOK
  <2> QED
    BY <2>1, <2>2, <2>3, <2>4 DEF TimelineStep
<1>5. RTypeOK'
  BY <1>1, <1>3, <1>4 DEF RTypeOK
<1> QED
  BY <1>1, <1>2, <1>4, <1>5, KeepsRest

-----------------------------------------------------------------------------
(***************************************************************************)
(* The inductive invariant holds in every reachable state: what an         *)
(* execution of Post, Publish or GetTimeline holds is there to be read.    *)
(***************************************************************************)
THEOREM RInvHolds == RetwisSpec => []RInv
<1>1. RetwisInit => RInv
  BY RetwisAssumption
  DEF RetwisInit, RInv, RTypeOK, PostState, PostPc, PostLogType, PublishState, ViewState,
      Second, PostId, NoPostLog,
      PostOK, PublishOK, TimelineOK, ViewOK
<1>2. RInv /\ [RetwisNext]_rVars => RInv'
  <2> SUFFICES ASSUME RInv, [RetwisNext]_rVars PROVE RInv'
    OBVIOUS
  <2>1. ASSUME NEW p \in PostInstance, PostStep(p) \/ PostDies(p) PROVE RInv'
    BY <2>1, StartPostKeeps, PreWritePostKeeps, WritePostKeeps, PostWritePostKeeps,
       ProposePublishKeeps, InvokePublishKeeps, PostEndsKeeps DEF PostStep
  <2>2. ASSUME NEW p \in PostInstance, PublishStep(p) \/ PublishDies(p) PROVE RInv'
    BY <2>2, PublishKeeps
  <2>3. ASSUME NEW q \in TimelineInstance, TimelineStep(q) PROVE RInv'
    BY <2>3, TimelineKeeps
  <2>4. CASE UNCHANGED rVars
    BY <2>4
    DEF rVars, RInv, RTypeOK, PostOK, PublishOK, TimelineOK, ViewOK, Readable, WriteLog,
        IdOf, NewEntry
  <2> QED
    BY <2>1, <2>2, <2>3, <2>4 DEF RetwisNext
<1> QED
  BY <1>1, <1>2, PTL DEF RetwisSpec

(***************************************************************************)
(* Whatever is in a timeline can be read: a post is written, and with      *)
(* logged writes published, before Publish adds its key to a timeline, and *)
(* a read of GetTimeline fails only on a post younger than its cursor.     *)
(***************************************************************************)
THEOREM EntriesAreReadable == RetwisSpec => []PostsPrecedeEntries
<1>1. RInv => PostsPrecedeEntries
  BY DEF RInv, TimelineOK, ViewOK, PostsPrecedeEntries
<1> QED
  BY <1>1, RInvHolds, PTL

(***************************************************************************)
(* Without logged writes, GetTimeline finds every post.                    *)
(***************************************************************************)
THEOREM ReadLogFindsPosts == RetwisSpec => [](~ WriteLog => TimelinePostsAreFound)
<1>1. RInv => (~ WriteLog => TimelinePostsAreFound)
  BY DEF RInv, ViewOK, TimelinePostsAreFound
<1> QED
  BY <1>1, RInvHolds, PTL

-----------------------------------------------------------------------------
(***************************************************************************)
(* DELIVERY.  Publish is at one follower after the other.  Behind it every *)
(* follower has the post, or a younger Publish was there first; so has     *)
(* every follower whose write is in its step log, up to publishLog.        *)
(***************************************************************************)
HasPost(p, u) == KeysOf(p, u) # {} \/ Overtaken(p, u)

DeliveryOK(p) ==
  /\ \A n \in DOMAIN FollowersOf[p] :
       /\ n < publish[p].next => HasPost(p, FollowersOf[p][n])
       /\ n <= publishLog[p] => HasPost(p, FollowersOf[p][n])
       /\ publish[p].pc = "written" /\ n = publish[p].next =>
            HasPost(p, FollowersOf[p][n])
  /\ publish[p].pc = "written" => WriteLog
  /\ publish[p].pc = "idle" => publish[p].next = 1 /\ publishLog[p] = 0
  /\ publish[p].pc = "done" => ~ MoreFollowers(p)

(***************************************************************************)
(* Publish is sent after its PreInvoke entry, which no other post has, and *)
(* with logged writes with the key of the PreWrite entry.                  *)
(***************************************************************************)
SentOK(p) ==
  /\ postLog[p].invoke <= rTail
  /\ post[p].pc \in {"send", "sent", "done"} => postLog[p].invoke # 0
  /\ WriteLog /\ post[p].pc \in {"invoke", "send"} => post[p].second \in postLog[p].pre
  /\ publish[p].pc # "idle" =>
       /\ postLog[p].invoke # 0
       /\ WriteLog => publish[p].second \in postLog[p].pre

(***************************************************************************)
(* A timeline has one key of a post: with logged writes that of its        *)
(* PreWrite entry, without logged writes the one with which VERSION first  *)
(* got to the sequence number of its PreInvoke entry.                      *)
(***************************************************************************)
KeysOK(p, u) ==
  /\ \A id, jd \in KeysOf(p, u) : id = jd
  /\ WriteLog => \A id \in KeysOf(p, u) : id[1] \in postLog[p].pre
  /\ ~ WriteLog /\ KeysOf(p, u) # {} =>
       postLog[p].invoke # 0 /\ postLog[p].invoke <= tlVersion[u]
  /\ postLog[p].invoke # 0 /\ tlVersion[u] = postLog[p].invoke => KeysOf(p, u) # {}

DTypeOK ==
  /\ tlVersion \in [Follower -> Nat]
  /\ publishLog \in [PostInstance -> Nat]

(***************************************************************************)
(* The inductive invariant of delivery.                                    *)
(***************************************************************************)
DInv ==
  /\ RInv
  /\ DTypeOK
  /\ \A p, x \in PostInstance :
       postLog[p].invoke = postLog[x].invoke /\ postLog[p].invoke # 0 => p = x
  /\ \A u \in Follower : tlVersion[u] <= rTail
  /\ \A p \in PostInstance : SentOK(p) /\ DeliveryOK(p)
  /\ \A p \in PostInstance, u \in Follower : KeysOK(p, u)

\* Timelines and their versions, and the log, only grow.
DGrow ==
  /\ rMode' = rMode
  /\ rTail' \in Nat /\ rTail <= rTail'
  /\ tlVersion' \in [Follower -> Nat]
  /\ \A u \in Follower : timeline[u] \subseteq timeline'[u] /\ tlVersion[u] <= tlVersion'[u]

LEMMA DType ==
  ASSUME DInv
  PROVE  /\ RTypeOK /\ DTypeOK /\ RInv /\ rTail \in Nat
         /\ \A u \in Follower : tlVersion[u] \in Nat /\ timeline[u] \subseteq PostId
         /\ \A p \in PostInstance :
              /\ postLog[p] \in PostLogType /\ postLog[p].invoke \in Nat
              /\ publish[p] \in PublishState /\ publish[p].next \in Nat \ {0}
              /\ publish[p].second \in Second
              /\ publishLog[p] \in Nat /\ PostOK(p)
              /\ FollowersOf[p] \in Seq(Follower)
              /\ \A n \in DOMAIN FollowersOf[p] : n \in Nat /\ FollowersOf[p][n] \in Follower
<1>1. RTypeOK /\ DTypeOK /\ RInv /\ rTail \in Nat
  BY DEF DInv, RInv, RTypeOK
<1>2. \A u \in Follower : tlVersion[u] \in Nat /\ timeline[u] \subseteq PostId
  BY <1>1 DEF RTypeOK, DTypeOK
<1>3. ASSUME NEW p \in PostInstance
      PROVE  /\ postLog[p] \in PostLogType /\ postLog[p].invoke \in Nat
             /\ publish[p] \in PublishState /\ publish[p].next \in Nat \ {0}
             /\ publish[p].second \in Second
             /\ publishLog[p] \in Nat /\ PostOK(p)
  BY <1>1 DEF RTypeOK, DTypeOK, RInv, PostLogType, PublishState
<1>4. ASSUME NEW p \in PostInstance
      PROVE  /\ FollowersOf[p] \in Seq(Follower)
             /\ \A n \in DOMAIN FollowersOf[p] : n \in Nat /\ FollowersOf[p][n] \in Follower
  BY RetwisAssumption
<1> QED
  BY <1>1, <1>2, <1>3, <1>4

\* Who has a post keeps it, or stays overtaken.
LEMMA HasPostStays ==
  ASSUME DInv, DGrow, NEW p \in PostInstance, NEW u \in Follower, HasPost(p, u),
         postLog'[p].invoke = postLog[p].invoke
  PROVE  HasPost(p, u)'
<1>1. tlVersion[u] \in Nat /\ postLog[p].invoke \in Nat
  BY DType
<1>2. CASE KeysOf(p, u) # {}
  BY <1>2 DEF KeysOf, HasPost, DGrow
<1>3. CASE Overtaken(p, u)
  <2>1. tlVersion'[u] > postLog'[p].invoke
    BY <1>1, <1>3 DEF Overtaken, DGrow
  <2> QED
    BY <1>1, <1>3, <2>1 DEF Overtaken, HasPost, DGrow, WriteLog
<1> QED
  BY <1>2, <1>3 DEF HasPost

\* Publish stays where it is while others make steps.
LEMMA DeliveryStays ==
  ASSUME DInv, DGrow, NEW p \in PostInstance,
         publish'[p] = publish[p], publishLog'[p] = publishLog[p],
         postLog'[p].invoke = postLog[p].invoke \/ publish[p].pc = "idle"
  PROVE  DeliveryOK(p)'
<1>1. /\ DeliveryOK(p) /\ WriteLog' = WriteLog
      /\ publish[p].next \in Nat /\ publishLog[p] \in Nat
      /\ \A n \in DOMAIN FollowersOf[p] : n \in Nat /\ n # 0 /\ FollowersOf[p][n] \in Follower
  BY DType, RetwisAssumption DEF DInv, DGrow, WriteLog
<1>2. CASE publish[p].pc = "idle"
  BY <1>1, <1>2 DEF DeliveryOK
<1>3. CASE postLog'[p].invoke = postLog[p].invoke
  <2>1. \A n \in DOMAIN FollowersOf[p] :
          HasPost(p, FollowersOf[p][n]) => HasPost(p, FollowersOf[p][n])'
    BY <1>1, <1>3, HasPostStays
  <2> QED
    BY <1>1, <2>1 DEF DeliveryOK, MoreFollowers
<1> QED
  BY <1>2, <1>3

\* A timeline that is not touched has the keys it had.
LEMMA KeysStay ==
  ASSUME DInv, NEW p \in PostInstance, NEW u \in Follower, rMode' = rMode,
         KeysOf(p, u)' = KeysOf(p, u), tlVersion'[u] = tlVersion[u],
         postLog[p].pre \subseteq postLog'[p].pre,
         postLog'[p].invoke = postLog[p].invoke
  PROVE  KeysOK(p, u)'
<1>1. KeysOK(p, u) /\ WriteLog' = WriteLog
  BY DEF DInv, WriteLog
<1> QED
  BY <1>1 DEF KeysOK

(***************************************************************************)
(* What is left to show for a step that leaves the invoke numbers alone.   *)
(***************************************************************************)
LEMMA DKeepsRest ==
  ASSUME DInv, RInv', DGrow, publishLog' \in [PostInstance -> Nat],
         \A p \in PostInstance : postLog'[p].invoke = postLog[p].invoke,
         \A u \in Follower : tlVersion'[u] <= rTail',
         \A p \in PostInstance : SentOK(p)',
         \A p \in PostInstance :
           \/ DeliveryOK(p)'
           \/ publish'[p] = publish[p] /\ publishLog'[p] = publishLog[p],
         \A p \in PostInstance, u \in Follower :
           \/ KeysOK(p, u)'
           \/ /\ timeline'[u] = timeline[u] /\ tlVersion'[u] = tlVersion[u]
              /\ postLog[p].pre \subseteq postLog'[p].pre
  PROVE  DInv'
<1>1. DTypeOK'
  BY DEF DTypeOK, DGrow
<1>2. \A p \in PostInstance : DeliveryOK(p)'
  BY DeliveryStays
<1>3. \A p \in PostInstance, u \in Follower : KeysOK(p, u)'
  BY KeysStay DEF DGrow, KeysOf
<1>4. \A p, x \in PostInstance :
        postLog'[p].invoke = postLog'[x].invoke /\ postLog'[p].invoke # 0 => p = x
  BY DEF DInv
<1> QED
  BY <1>1, <1>2, <1>3, <1>4 DEF DInv

\* An instance that makes no step knows what it knew.
LEMMA SentStays ==
  ASSUME DInv, rMode' = rMode, rTail' \in Nat, rTail <= rTail', NEW p \in PostInstance,
         post'[p] = post[p], postLog'[p] = postLog[p],
         \/ publish'[p].pc = "idle"
         \/ publish[p].pc # "idle" /\ publish'[p].second = publish[p].second
  PROVE  SentOK(p)'
<1>1. SentOK(p) /\ postLog[p].invoke \in Nat /\ rTail \in Nat /\ WriteLog' = WriteLog
  BY DType DEF DInv, WriteLog
<1> QED
  BY <1>1 DEF SentOK

(***************************************************************************)
(* The steps of Post that neither propose nor send Publish.                *)
(***************************************************************************)
LEMMA PostWritesDeliver ==
  ASSUME DInv, RInv', NEW p \in PostInstance,
         StartPost(p) \/ PreWritePost(p) \/ WritePost(p) \/ PostWritePost(p)
           \/ PostReturns(p) \/ PostDies(p)
  PROVE  DInv'
<1>1. /\ rMode' = rMode /\ publish' = publish /\ publishLog' = publishLog
      /\ timeline' = timeline /\ tlVersion' = tlVersion
      /\ rTail' = rTail \/ rTail' = rTail + 1
  BY DEF StartPost, PreWritePost, WritePost, PostWritePost, PostReturns, PostDies,
         rPublish, rTables
<1>2. DGrow /\ publishLog' \in [PostInstance -> Nat] /\ \A u \in Follower : tlVersion'[u] <= rTail'
  BY <1>1, DType DEF DGrow, DTypeOK, DInv
<1>3. /\ post \in [PostInstance -> PostState] /\ postLog \in [PostInstance -> PostLogType]
      /\ post'[p] \in PostState
      /\ SentOK(p) /\ PostOK(p) /\ PostOK(p)' /\ WriteLog' = WriteLog
      /\ postLog[p].invoke \in Nat /\ rTail \in Nat /\ rTail' \in Nat
      /\ post[p].second \in Second /\ postLog[p].pre \in SUBSET Second
  BY <1>1, DType DEF DInv, RInv, RTypeOK, WriteLog, PostState, PostLogType
<1>4. /\ \A x \in PostInstance : x # p => post'[x] = post[x] /\ postLog'[x] = postLog[x]
      /\ postLog'[p].invoke = postLog[p].invoke
      /\ postLog[p].pre \subseteq postLog'[p].pre
  <2>1. CASE postLog' = postLog
    BY <1>3, <2>1
    DEF StartPost, PreWritePost, WritePost, PostWritePost, PostReturns, PostDies, PostGoTo
  <2>2. CASE PreWritePost(p) /\ postLog' # postLog
    BY <1>3, <2>2 DEF PreWritePost, PostGoTo, PostLogType
  <2>3. CASE PostWritePost(p)
    BY <1>3, <2>3 DEF PostWritePost, PostGoTo, PostLogType
  <2> QED
    BY <2>1, <2>2, <2>3 DEF StartPost, WritePost, PostReturns, PostDies
<1>5. SentOK(p)'
  <2>1. \/ post'[p].pc \in {"prewrite", "write", "postwrite", "mismatch", "dead"}
        \/ post'[p].pc = "done" /\ post[p].pc = "sent"
        \/ /\ post'[p].pc = "invoke" /\ post'[p].second = post[p].second
           /\ WriteLog => post[p].second \in postLog[p].pre
    BY <1>3 DEF StartPost, PreWritePost, WritePost, PostWritePost, PostReturns, PostDies,
                PostGoTo, PostAt, PostOK, PostState
  <2> QED
    BY <1>1, <1>3, <1>4, <2>1 DEF SentOK
<1>6. \A x \in PostInstance : SentOK(x)'
  <2> SUFFICES ASSUME NEW x \in PostInstance, x # p PROVE SentOK(x)'
    BY <1>5
  <2> QED
    BY <1>1, <1>3, <1>4, SentStays DEF DGrow
<1>7. \A x \in PostInstance :
        postLog[x].pre \subseteq postLog'[x].pre /\ postLog'[x].invoke = postLog[x].invoke
  BY <1>4
<1> QED
  BY <1>1, <1>2, <1>6, <1>7, DKeepsRest

(***************************************************************************)
(* The PreInvoke entry gets a number that no other post has, and that no   *)
(* timeline has seen.                                                      *)
(***************************************************************************)
LEMMA ProposeDelivers ==
  ASSUME DInv, RInv', NEW p \in PostInstance, ProposePublish(p)
  PROVE  DInv'
<1>1. /\ rMode' = rMode /\ publish' = publish /\ publishLog' = publishLog
      /\ timeline' = timeline /\ tlVersion' = tlVersion
      /\ post[p].pc = "invoke"
      /\ PostGoTo(p, IF publish[p].pc = "done" THEN "sent" ELSE "send")
  BY DEF ProposePublish, PostAt, rPublish, rTables
<1>2. /\ RTypeOK /\ rTail \in Nat /\ postLog \in [PostInstance -> PostLogType]
      /\ SentOK(p) /\ postLog[p].invoke \in Nat /\ WriteLog' = WriteLog
  BY <1>1, DType DEF DInv, RTypeOK, WriteLog
<1>3. /\ post'[p].pc \in {"send", "sent"} /\ post'[p].second = post[p].second
      /\ \A x \in PostInstance : x # p => post'[x] = post[x]
  BY <1>1, <1>2, PostGoes DEF PostPc
<1>4. CASE postLog[p].invoke # 0
  <2>1. rTail' = rTail /\ postLog' = postLog
    BY <1>4 DEF ProposePublish
  <2>2. DGrow /\ publishLog' \in [PostInstance -> Nat] /\ \A u \in Follower : tlVersion'[u] <= rTail'
    BY <1>1, <2>1, DType DEF DGrow, DTypeOK, DInv
  <2>3. SentOK(p)'
    BY <1>1, <1>2, <1>3, <1>4, <2>1 DEF SentOK
  <2>4. \A x \in PostInstance : SentOK(x)'
    BY <1>1, <1>2, <1>3, <2>1, <2>3, SentStays
  <2> QED
    BY <1>1, <2>1, <2>2, <2>4, DKeepsRest
<1>5. CASE postLog[p].invoke = 0
  <2>1. rTail' = rTail + 1 /\ postLog' = [postLog EXCEPT ![p].invoke = rTail + 1]
    BY <1>5 DEF ProposePublish
  <2>2. /\ postLog'[p].invoke = rTail + 1 /\ postLog'[p].pre = postLog[p].pre
        /\ \A x \in PostInstance : x # p => postLog'[x] = postLog[x]
    BY <1>2, <2>1 DEF PostLogType
  <2>3. DGrow /\ DTypeOK' /\ \A u \in Follower : tlVersion'[u] <= rTail'
    <3>1. \A u \in Follower : tlVersion[u] \in Nat /\ tlVersion[u] <= rTail
      BY DType DEF DInv
    <3>2. DTypeOK
      BY DType
    <3>3. DTypeOK'
      BY <1>1, <3>2 DEF DTypeOK
    <3>4. rTail' \in Nat /\ rTail <= rTail' /\ rTail \in Nat
      BY <1>2, <2>1
    <3>5. \A u \in Follower : tlVersion'[u] = tlVersion[u] /\ timeline'[u] = timeline[u]
      BY <1>1
    <3>6. \A u \in Follower : tlVersion[u] <= tlVersion'[u] /\ tlVersion'[u] <= rTail'
      BY <3>1, <3>4, <3>5
    <3> QED
      BY <1>1, <3>3, <3>4, <3>5, <3>6 DEF DGrow, DTypeOK
  <2>4. publish[p].pc = "idle"
    BY <1>2, <1>5 DEF SentOK
  <2>5. SentOK(p)'
    BY <1>1, <1>2, <1>3, <2>1, <2>2, <2>4 DEF SentOK
  <2>6. \A x \in PostInstance : SentOK(x)'
    BY <1>1, <1>2, <1>3, <2>1, <2>2, <2>5, SentStays
  <2>7. \A x \in PostInstance : DeliveryOK(x)'
    BY <1>1, <2>2, <2>3, <2>4, DeliveryStays
  <2>8. ASSUME NEW x \in PostInstance, NEW u \in Follower PROVE KeysOK(x, u)'
    <3>1. CASE x # p
      BY <1>1, <2>2, <3>1, KeysStay DEF KeysOf
    <3>2. CASE x = p
      <4>1. KeysOK(p, u) /\ KeysOf(p, u)' = KeysOf(p, u) /\ tlVersion[u] <= rTail /\ tlVersion[u] \in Nat
        BY <1>1, DType DEF DInv, KeysOf
      <4>2. ~ WriteLog => KeysOf(p, u) = {}
        BY <1>5, <4>1 DEF KeysOK
      <4>3. tlVersion'[u] # postLog'[p].invoke
        BY <1>1, <1>2, <2>2, <4>1
      <4> QED
        BY <1>2, <2>2, <3>2, <4>1, <4>2, <4>3 DEF KeysOK
    <3> QED
      BY <3>1, <3>2
  <2>9. ASSUME NEW y \in PostInstance, NEW x \in PostInstance,
               postLog'[y].invoke = postLog'[x].invoke, postLog'[y].invoke # 0
        PROVE  y = x
    <3>1. \A z \in PostInstance : postLog[z].invoke \in Nat /\ postLog[z].invoke <= rTail
      BY DType DEF DInv, SentOK
    <3> QED
      BY <1>2, <2>2, <2>9, <3>1 DEF DInv
  <2> QED
    BY <2>3, <2>6, <2>7, <2>8, <2>9 DEF DInv
<1> QED
  BY <1>4, <1>5

(***************************************************************************)
(* Publish starts, or starts again after it has died, with the key of the  *)
(* present execution of Post.                                              *)
(***************************************************************************)
LEMMA InvokeDelivers ==
  ASSUME DInv, RInv', NEW p \in PostInstance, InvokePublish(p)
  PROVE  DInv'
<1>1. /\ rMode' = rMode /\ rTail' = rTail /\ publishLog' = publishLog /\ postLog' = postLog
      /\ timeline' = timeline /\ tlVersion' = tlVersion
      /\ post[p].pc = "send" /\ PostGoTo(p, "sent")
  BY DEF InvokePublish, PostAt, rTables
<1>2. /\ RTypeOK /\ rTail \in Nat /\ SentOK(p) /\ DeliveryOK(p) /\ WriteLog' = WriteLog
      /\ publish \in [PostInstance -> PublishState] /\ publish[p].next \in Nat
  BY <1>1, DType DEF DInv, RTypeOK, WriteLog
<1>3. /\ post'[p].pc = "sent"
      /\ \A x \in PostInstance : x # p => post'[x] = post[x]
  BY <1>1, <1>2, PostGoes DEF PostPc
<1>4. DGrow /\ publishLog' \in [PostInstance -> Nat] /\ \A u \in Follower : tlVersion'[u] <= rTail'
  BY <1>1, DType DEF DGrow, DTypeOK, DInv
<1>5. CASE publish' = publish
  <2>1. SentOK(p)'
    BY <1>1, <1>2, <1>3, <1>5 DEF SentOK
  <2>2. \A x \in PostInstance : SentOK(x)'
    BY <1>1, <1>2, <1>3, <1>5, <2>1, SentStays
  <2> QED
    BY <1>1, <1>4, <1>5, <2>2, DKeepsRest
<1>6. CASE /\ publish[p].pc \in {"idle", "dead"}
           /\ publish' = [publish EXCEPT ![p].pc = "run", ![p].second = post[p].second]
  <2>1. /\ publish'[p].pc = "run" /\ publish'[p].second = post[p].second
        /\ publish'[p].next = publish[p].next
        /\ \A x \in PostInstance : x # p => publish'[x] = publish[x]
    BY <1>2, <1>6 DEF PublishState
  <2>2. SentOK(p)'
    BY <1>1, <1>2, <1>3, <2>1 DEF SentOK
  <2>3. \A x \in PostInstance : SentOK(x)'
    BY <1>1, <1>2, <1>3, <2>1, <2>2, SentStays
  <2>4. \A n \in DOMAIN FollowersOf[p] :
          HasPost(p, FollowersOf[p][n]) => HasPost(p, FollowersOf[p][n])'
    BY <1>1, <1>4, HasPostStays, DType
  <2>5. DeliveryOK(p)'
    BY <1>1, <1>2, <2>1, <2>4 DEF DeliveryOK
  <2> QED
    BY <1>1, <1>4, <2>1, <2>3, <2>5, DKeepsRest
<1> QED
  BY <1>5, <1>6 DEF InvokePublish

(***************************************************************************)
(* The steps of Publish.  It adds its key to one timeline; the other posts *)
(* keep their keys there.                                                  *)
(***************************************************************************)
LEMMA AddEntryKeys ==
  ASSUME DInv, NEW p \in PostInstance, NEW u \in Follower, AddEntry(u, NewEntry(p))
  PROVE  /\ KeysOf(p, u)' = KeysOf(p, u) \cup {NewEntry(p)}
         /\ \A x \in PostInstance : x # p => KeysOf(x, u)' = KeysOf(x, u)
         /\ \A v \in Follower : v # u => timeline'[v] = timeline[v]
         /\ \A v \in Follower : timeline[v] \subseteq timeline'[v]
<1>1. timeline \in [Follower -> SUBSET PostId]
  BY DType DEF RTypeOK
<1>2. /\ timeline'[u] = timeline[u] \cup {NewEntry(p)}
      /\ \A v \in Follower : v # u => timeline'[v] = timeline[v]
  BY <1>1 DEF AddEntry
<1>3. NewEntry(p)[2] = p
  BY DEF NewEntry
<1> QED
  BY <1>2, <1>3 DEF KeysOf

\* Where Publish goes to: everybody before it, and in its log, has the post.
LEMMA PublishMoves ==
  ASSUME DInv, DGrow, NEW p \in PostInstance,
         postLog'[p].invoke = postLog[p].invoke,
         NEW next \in Nat, NEW logged \in Nat,
         publish'[p].next = next, publishLog'[p] = logged,
         next <= publish[p].next \/ next = publish[p].next + 1,
         logged <= publishLog[p] \/ logged = publish[p].next,
         next = publish[p].next + 1 \/ logged = publish[p].next =>
           \A n \in DOMAIN FollowersOf[p] :
             n = publish[p].next => HasPost(p, FollowersOf[p][n])',
         publish'[p].pc = "written" =>
           /\ WriteLog
           /\ \A n \in DOMAIN FollowersOf[p] : n = next => HasPost(p, FollowersOf[p][n])',
         publish'[p].pc # "idle",
         publish'[p].pc = "done" => ~ MoreFollowers(p) /\ next = publish[p].next
  PROVE  DeliveryOK(p)'
<1>1. /\ DeliveryOK(p) /\ publish[p].next \in Nat /\ publishLog[p] \in Nat
      /\ \A n \in DOMAIN FollowersOf[p] : n \in Nat
      /\ WriteLog' = WriteLog
  BY DType DEF DInv, DGrow, WriteLog
<1>2. \A n \in DOMAIN FollowersOf[p] :
        HasPost(p, FollowersOf[p][n]) => HasPost(p, FollowersOf[p][n])'
  BY HasPostStays, DType
<1>3. ASSUME NEW n \in DOMAIN FollowersOf[p], n < next PROVE HasPost(p, FollowersOf[p][n])'
  <2>1. n < publish[p].next \/ (n = publish[p].next /\ next = publish[p].next + 1)
    BY <1>1, <1>3
  <2> QED
    BY <1>1, <1>2, <2>1 DEF DeliveryOK
<1>4. ASSUME NEW n \in DOMAIN FollowersOf[p], n <= logged PROVE HasPost(p, FollowersOf[p][n])'
  <2>1. \/ n <= publishLog[p]
        \/ n < publish[p].next
        \/ n = publish[p].next /\ logged = publish[p].next
    BY <1>1, <1>4
  <2> QED
    BY <1>1, <1>2, <2>1 DEF DeliveryOK
<1> QED
  BY <1>1, <1>3, <1>4 DEF DeliveryOK, MoreFollowers

\* Publish keeps what it knows about its call.
LEMMA PublishKeepsSent ==
  ASSUME DInv, PublishOnly, NEW p \in PostInstance, publish[p].pc # "idle",
         publish'[p].second = publish[p].second,
         \A x \in PostInstance : x # p => publish'[x] = publish[x]
  PROVE  \A x \in PostInstance : SentOK(x)'
<1>1. rTail \in Nat
  BY DType
<1> QED
  BY <1>1, SentStays DEF PublishOnly

\* A key of p is added to the timeline of the next follower.
LEMMA AddDelivers ==
  ASSUME DInv, PublishOnly, NEW p \in PostInstance, publish[p].pc # "idle",
         MoreFollowers(p), AddEntry(Reader(p), NewEntry(p)),
         \/ WriteLog /\ tlVersion' = tlVersion
         \/ /\ ~ WriteLog /\ tlVersion[Reader(p)] < postLog[p].invoke
            /\ tlVersion' = [tlVersion EXCEPT ![Reader(p)] = postLog[p].invoke]
  PROVE  /\ DGrow /\ \A u \in Follower : tlVersion'[u] <= rTail'
         /\ \A x \in PostInstance, u \in Follower :
              \/ KeysOK(x, u)'
              \/ timeline'[u] = timeline[u] /\ tlVersion'[u] = tlVersion[u]
         /\ \A v \in Follower : v = Reader(p) => HasPost(p, v)'
<1>1. PICK u \in Follower : u = Reader(p)
  BY PublishType DEF DInv
<1>2. /\ KeysOf(p, u)' = KeysOf(p, u) \cup {NewEntry(p)}
      /\ \A x \in PostInstance : x # p => KeysOf(x, u)' = KeysOf(x, u)
      /\ \A v \in Follower : v # u => timeline'[v] = timeline[v]
      /\ \A v \in Follower : timeline[v] \subseteq timeline'[v]
  BY <1>1, AddEntryKeys
<1>3. /\ rTail \in Nat /\ rTail' = rTail /\ rMode' = rMode /\ postLog' = postLog
      /\ WriteLog' = WriteLog
      /\ \A v \in Follower : tlVersion[v] \in Nat /\ tlVersion[v] <= rTail
      /\ tlVersion \in [Follower -> Nat]
      /\ postLog[p].invoke \in Nat /\ postLog[p].invoke <= rTail
  BY DType DEF DInv, SentOK, PublishOnly, WriteLog, DTypeOK
<1>4. /\ tlVersion' \in [Follower -> Nat]
      /\ \A v \in Follower : v # u => tlVersion'[v] = tlVersion[v]
      /\ \/ WriteLog /\ tlVersion'[u] = tlVersion[u]
         \/ /\ ~ WriteLog /\ tlVersion[u] < postLog[p].invoke
            /\ tlVersion'[u] = postLog[p].invoke
  BY <1>1, <1>3
<1>5. DGrow /\ \A v \in Follower : tlVersion'[v] <= rTail'
  <2>1. \A v \in Follower : tlVersion[v] <= tlVersion'[v] /\ tlVersion'[v] <= rTail'
    BY <1>3, <1>4
  <2> QED
    BY <1>2, <1>3, <1>4, <2>1 DEF DGrow
<1>6. KeysOK(p, u)'
  <2>1. /\ KeysOK(p, u) /\ KeysOf(p, u) \subseteq PostId /\ NewEntry(p) \in PostId
        /\ \A id \in KeysOf(p, u) : id[2] = p
        /\ NewEntry(p)[1] = publish[p].second /\ NewEntry(p)[2] = p
        /\ SentOK(p) /\ PostOK(p)
    BY DType DEF DInv, KeysOf, NewEntry, PostId, Second
  <2>2. CASE WriteLog
    <3>1. \A id \in KeysOf(p, u)' : id \in PostId /\ id[1] \in postLog[p].pre /\ id[2] = p
      BY <1>2, <2>1, <2>2 DEF KeysOK, SentOK
    <3>2. \A id, jd \in KeysOf(p, u)' : id = jd
      BY <2>1, <3>1 DEF PostOK, PostId
    <3> QED
      BY <1>2, <1>3, <2>2, <3>1, <3>2 DEF KeysOK
  <2>3. CASE ~ WriteLog
    <3>1. KeysOf(p, u) = {}
      BY <1>3, <1>4, <2>1, <2>3 DEF KeysOK
    <3>2. postLog[p].invoke # 0
      BY <2>1 DEF SentOK
    <3> QED
      BY <1>2, <1>3, <1>4, <2>3, <3>1, <3>2 DEF KeysOK
  <2> QED
    BY <2>2, <2>3
<1>7. ASSUME NEW x \in PostInstance, x # p PROVE KeysOK(x, u)'
  <2>1. /\ KeysOK(x, u) /\ KeysOf(x, u)' = KeysOf(x, u) /\ postLog[x].invoke \in Nat
        /\ postLog[x].invoke = postLog[p].invoke => postLog[p].invoke = 0
    BY <1>2, <1>7, DType DEF DInv
  <2>2. CASE WriteLog
    BY <1>3, <1>4, <2>1, <2>2 DEF KeysOK
  <2>3. CASE ~ WriteLog
    <3>1. /\ tlVersion'[u] = postLog[p].invoke /\ tlVersion[u] < tlVersion'[u]
      BY <1>4, <2>3
    <3> QED
      BY <1>3, <2>1, <2>3, <3>1 DEF KeysOK
  <2> QED
    BY <2>2, <2>3
<1>8. \A v \in Follower : v = Reader(p) => HasPost(p, v)'
  BY <1>1, <1>2 DEF HasPost
<1> QED
  BY <1>2, <1>4, <1>5, <1>6, <1>7, <1>8

\* The steps of Publish keep the invariant of delivery.
LEMMA PublishDelivers ==
  ASSUME DInv, RInv', NEW p \in PostInstance, PublishStep(p) \/ PublishDies(p)
  PROVE  DInv'
<1>1. PublishOnly /\ publish[p].pc # "idle"
  BY DEF PublishStep, PublishDies, PublishWithLog, LogPublished, PublishWithoutLog,
         PublishReturns, RestartPublish, PublishAt, PublishOnly, rClient, rTables
<1>2. /\ publish \in [PostInstance -> PublishState] /\ publish[p].next \in Nat
      /\ publishLog \in [PostInstance -> Nat] /\ publishLog[p] \in Nat
      /\ publish[p].next + 1 \in Nat
      /\ rTail \in Nat /\ tlVersion \in [Follower -> Nat] /\ DeliveryOK(p)
      /\ \A u \in Follower : tlVersion[u] \in Nat /\ tlVersion[u] <= rTail
      /\ WriteLog' = WriteLog
      /\ \A n \in DOMAIN FollowersOf[p] :
           n \in Nat /\ FollowersOf[p][n] \in Follower
  BY <1>1, DType DEF DInv, DTypeOK, RTypeOK, PublishOnly, WriteLog
<1>3. \A x \in PostInstance : postLog'[x].invoke = postLog[x].invoke
  BY <1>1 DEF PublishOnly
<1>4. ASSUME timeline' = timeline, tlVersion' = tlVersion
      PROVE  /\ DGrow /\ \A u \in Follower : tlVersion'[u] <= rTail'
             /\ \A x \in PostInstance, u \in Follower :
                  timeline'[u] = timeline[u] /\ tlVersion'[u] = tlVersion[u]
  BY <1>1, <1>2, <1>4 DEF DGrow, PublishOnly
<1>5. ASSUME NEW n \in DOMAIN FollowersOf[p], n = publish[p].next
      PROVE  FollowersOf[p][n] = Reader(p) /\ FollowersOf[p][n] \in Follower
  BY <1>2, <1>5 DEF Reader
<1>6. ASSUME /\ DGrow /\ \A u \in Follower : tlVersion'[u] <= rTail'
             /\ \A x \in PostInstance, u \in Follower :
                  \/ KeysOK(x, u)'
                  \/ timeline'[u] = timeline[u] /\ tlVersion'[u] = tlVersion[u],
             DeliveryOK(p)',
             publish'[p].second = publish[p].second,
             \A x \in PostInstance : x # p => publish'[x] = publish[x],
             publishLog' \in [PostInstance -> Nat],
             \A x \in PostInstance : x # p => publishLog'[x] = publishLog[x]
      PROVE  DInv'
  <2>1. \A x \in PostInstance : SentOK(x)'
    BY <1>1, <1>6, PublishKeepsSent
  <2>2. \A x \in PostInstance : postLog[x].pre \subseteq postLog'[x].pre
    BY <1>1 DEF PublishOnly
  <2> QED
    BY <1>3, <1>6, <2>1, <2>2, DKeepsRest
<1>7. CASE PublishWithLog(p)
  <2>1. WriteLog /\ MoreFollowers(p) /\ publishLog' = publishLog /\ tlVersion' = tlVersion
    BY <1>7 DEF PublishWithLog
  <2>2. CASE publishLog[p] >= publish[p].next /\ timeline' = timeline
             /\ publish' = [publish EXCEPT ![p].next = @ + 1]
    <3>1. /\ publish'[p].next = publish[p].next + 1 /\ publish'[p].pc = publish[p].pc
          /\ publish[p].pc = "run"
          /\ publish'[p].second = publish[p].second
          /\ \A x \in PostInstance : x # p => publish'[x] = publish[x]
      BY <1>2, <1>7, <2>2 DEF PublishState, PublishWithLog, PublishAt
    <3>2. /\ DGrow /\ \A u \in Follower : tlVersion'[u] <= rTail'
          /\ \A x \in PostInstance, u \in Follower :
               timeline'[u] = timeline[u] /\ tlVersion'[u] = tlVersion[u]
      BY <1>4, <2>1, <2>2
    <3>3. \A n \in DOMAIN FollowersOf[p] :
            n = publish[p].next => HasPost(p, FollowersOf[p][n])'
      BY <1>2, <1>3, <2>2, <3>2, HasPostStays DEF DeliveryOK
    <3>4. DeliveryOK(p)'
      BY <1>2, <1>3, <2>1, <3>1, <3>2, <3>3, PublishMoves
    <3> QED
      BY <1>2, <1>6, <2>1, <3>1, <3>2, <3>4
  <2>3. CASE /\ AddEntry(Reader(p), NewEntry(p))
             /\ publish' = [publish EXCEPT ![p].pc = "written"]
    <3>1. /\ publish'[p].next = publish[p].next /\ publish'[p].pc = "written"
          /\ publish'[p].second = publish[p].second
          /\ \A x \in PostInstance : x # p => publish'[x] = publish[x]
      BY <1>2, <2>3 DEF PublishState
    <3>2. /\ DGrow /\ \A u \in Follower : tlVersion'[u] <= rTail'
          /\ \A x \in PostInstance, u \in Follower :
               \/ KeysOK(x, u)'
               \/ timeline'[u] = timeline[u] /\ tlVersion'[u] = tlVersion[u]
          /\ \A v \in Follower : v = Reader(p) => HasPost(p, v)'
      BY <1>1, <2>1, <2>3, AddDelivers
    <3>3. \A n \in DOMAIN FollowersOf[p] :
            n = publish[p].next => HasPost(p, FollowersOf[p][n])'
      BY <1>5, <3>2
    <3>4. DeliveryOK(p)'
      BY <1>2, <1>3, <2>1, <3>1, <3>2, <3>3, PublishMoves
    <3> QED
      BY <1>2, <1>6, <2>1, <3>1, <3>2, <3>4
  <2> QED
    BY <1>7, <2>2, <2>3 DEF PublishWithLog
<1>8. CASE LogPublished(p)
  <2>1. /\ publish[p].pc = "written" /\ timeline' = timeline /\ tlVersion' = tlVersion
        /\ publishLog' = [publishLog EXCEPT ![p] = publish[p].next]
        /\ publish' = [publish EXCEPT ![p].pc = "run", ![p].next = @ + 1]
    BY <1>8 DEF LogPublished, PublishAt, rTables
  <2>2. /\ publish'[p].next = publish[p].next + 1 /\ publish'[p].pc = "run"
        /\ publish'[p].second = publish[p].second
        /\ \A x \in PostInstance : x # p => publish'[x] = publish[x]
    BY <1>2, <2>1 DEF PublishState
  <2>3. /\ publishLog' \in [PostInstance -> Nat] /\ publishLog'[p] = publish[p].next
        /\ \A x \in PostInstance : x # p => publishLog'[x] = publishLog[x]
    BY <1>2, <2>1
  <2>4. /\ DGrow /\ \A u \in Follower : tlVersion'[u] <= rTail'
        /\ \A x \in PostInstance, u \in Follower :
             timeline'[u] = timeline[u] /\ tlVersion'[u] = tlVersion[u]
    BY <1>4, <2>1
  <2>5. \A n \in DOMAIN FollowersOf[p] :
          n = publish[p].next => HasPost(p, FollowersOf[p][n])'
    BY <1>2, <1>3, <2>1, <2>4, HasPostStays DEF DeliveryOK
  <2>6. DeliveryOK(p)'
    BY <1>2, <1>3, <2>1, <2>2, <2>3, <2>4, <2>5, PublishMoves
  <2> QED
    BY <1>6, <2>2, <2>3, <2>4, <2>6
<1>9. CASE PublishWithoutLog(p)
  <2>1. /\ ~ WriteLog /\ MoreFollowers(p) /\ publishLog' = publishLog
        /\ publish[p].pc = "run"
        /\ publish' = [publish EXCEPT ![p].next = @ + 1]
    BY <1>9 DEF PublishWithoutLog, PublishAt
  <2>2. /\ publish'[p].next = publish[p].next + 1 /\ publish'[p].pc = "run"
        /\ publish'[p].second = publish[p].second
        /\ \A x \in PostInstance : x # p => publish'[x] = publish[x]
    BY <1>2, <2>1 DEF PublishState
  <2>3. PICK r \in Follower : r = Reader(p)
    BY <2>1, PublishType DEF DInv
  <2>4. /\ DGrow /\ \A u \in Follower : tlVersion'[u] <= rTail'
        /\ \A x \in PostInstance, u \in Follower :
             \/ KeysOK(x, u)'
             \/ timeline'[u] = timeline[u] /\ tlVersion'[u] = tlVersion[u]
        /\ HasPost(p, r)'
    <3>1. CASE tlVersion[Reader(p)] < postLog[p].invoke
      BY <1>1, <1>9, <2>1, <2>3, <3>1, AddDelivers DEF PublishWithoutLog
    <3>2. CASE ~ (tlVersion[Reader(p)] < postLog[p].invoke)
      <4>1. timeline' = timeline /\ tlVersion' = tlVersion
        BY <1>9, <3>2 DEF PublishWithoutLog
      <4>2. /\ postLog[p].invoke \in Nat /\ tlVersion[r] \in Nat /\ postLog[p].invoke # 0
            /\ KeysOK(p, r)
        BY <1>1, DType DEF DInv, SentOK
      <4>3. HasPost(p, r)
        BY <2>1, <2>3, <3>2, <4>2 DEF KeysOK, HasPost, Overtaken
      <4>4. /\ DGrow /\ \A u \in Follower : tlVersion'[u] <= rTail'
            /\ \A x \in PostInstance, u \in Follower :
                 timeline'[u] = timeline[u] /\ tlVersion'[u] = tlVersion[u]
        BY <1>4, <4>1
      <4> QED
        BY <1>3, <4>3, <4>4, HasPostStays
    <3> QED
      BY <3>1, <3>2
  <2>5. \A n \in DOMAIN FollowersOf[p] :
          n = publish[p].next => HasPost(p, FollowersOf[p][n])'
    BY <1>5, <2>3, <2>4
  <2>6. DeliveryOK(p)'
    BY <1>2, <1>3, <2>1, <2>2, <2>4, <2>5, PublishMoves
  <2> QED
    BY <1>2, <1>6, <2>1, <2>2, <2>4, <2>6
<1>10. CASE PublishReturns(p) \/ PublishDies(p) \/ RestartPublish(p)
  <2>1. timeline' = timeline /\ tlVersion' = tlVersion /\ publishLog' = publishLog
    BY <1>10 DEF PublishReturns, PublishDies, RestartPublish, rTables
  <2>2. /\ publish'[p].next \in Nat /\ publish'[p].next <= publish[p].next
        /\ publish'[p].pc \in {"run", "dead", "done"}
        /\ publish'[p].pc = "done" => ~ MoreFollowers(p) /\ publish'[p].next = publish[p].next
        /\ publish'[p].second = publish[p].second
        /\ \A x \in PostInstance : x # p => publish'[x] = publish[x]
    <3>1. publish[p].next >= 1
      BY <1>2, DType
    <3>2. CASE PublishReturns(p)
      BY <1>2, <3>2 DEF PublishReturns, PublishState
    <3>3. CASE PublishDies(p)
      BY <1>2, <3>1, <3>3 DEF PublishDies, PublishState
    <3>4. CASE RestartPublish(p)
      BY <1>2, <3>4 DEF RestartPublish, PublishState
    <3> QED
      BY <1>10, <3>2, <3>3, <3>4
  <2>3. PICK next \in Nat : next = publish'[p].next
    BY <2>2
  <2>4. PICK logged \in Nat : logged = publishLog'[p]
    BY <1>2, <2>1
  <2>5. /\ DGrow /\ \A u \in Follower : tlVersion'[u] <= rTail'
        /\ \A x \in PostInstance, u \in Follower :
             timeline'[u] = timeline[u] /\ tlVersion'[u] = tlVersion[u]
    BY <1>4, <2>1
  <2>6. DeliveryOK(p)'
    <3>1. \A n \in DOMAIN FollowersOf[p] :
            HasPost(p, FollowersOf[p][n]) => HasPost(p, FollowersOf[p][n])'
      BY <1>2, <1>3, <2>5, HasPostStays
    <3> QED
      BY <1>2, <2>1, <2>2, <3>1 DEF DeliveryOK, MoreFollowers
  <2> QED
    BY <1>2, <1>6, <2>1, <2>2, <2>5, <2>6
<1> QED
  BY <1>7, <1>8, <1>9, <1>10 DEF PublishStep

-----------------------------------------------------------------------------
(***************************************************************************)
(* The inductive invariant of delivery holds in every reachable state:     *)
(* what Publish is past has the post, whatever died in between.            *)
(***************************************************************************)
THEOREM DInvHolds == RetwisSpec => []DInv
<1>1. RetwisInit => DInv
  <2> SUFFICES ASSUME RetwisInit PROVE DInv
    OBVIOUS
  <2>1. RInv
    BY RetwisAssumption
    DEF RetwisInit, RInv, RTypeOK, PostState, PostPc, PostLogType, PublishState, ViewState,
        Second, PostId, NoPostLog, PostOK, PublishOK, TimelineOK, ViewOK
  <2>2. DTypeOK /\ \A u \in Follower : tlVersion[u] <= rTail
    BY DEF RetwisInit, DTypeOK
  <2>3. \A p \in PostInstance : postLog[p].invoke = 0 /\ SentOK(p)
    BY DEF RetwisInit, SentOK, NoPostLog
  <2>4. ASSUME NEW p \in PostInstance PROVE DeliveryOK(p)
    <3>1. \A n \in DOMAIN FollowersOf[p] : ~ n < 1 /\ ~ n <= 0
      BY RetwisAssumption
    <3> QED
      BY <3>1 DEF RetwisInit, DeliveryOK
  <2>5. \A p \in PostInstance, u \in Follower : KeysOK(p, u)
    BY <2>3 DEF RetwisInit, KeysOK, KeysOf
  <2> QED
    BY <2>1, <2>2, <2>3, <2>4, <2>5 DEF DInv
<1>2. DInv /\ RInv' /\ [RetwisNext]_rVars => DInv'
  <2> SUFFICES ASSUME DInv, RInv', [RetwisNext]_rVars PROVE DInv'
    OBVIOUS
  <2>1. ASSUME NEW p \in PostInstance, PostStep(p) \/ PostDies(p) PROVE DInv'
    BY <2>1, PostWritesDeliver, ProposeDelivers, InvokeDelivers DEF PostStep
  <2>2. ASSUME NEW p \in PostInstance, PublishStep(p) \/ PublishDies(p) PROVE DInv'
    BY <2>2, PublishDelivers
  <2>3. ASSUME rMode' = rMode, post' = post, postLog' = postLog, publish' = publish,
               publishLog' = publishLog, timeline' = timeline, tlVersion' = tlVersion,
               rTail' = rTail \/ rTail' = rTail + 1
        PROVE  DInv'
    <3>1. DGrow /\ publishLog' \in [PostInstance -> Nat]
          /\ \A u \in Follower : tlVersion'[u] <= rTail'
      BY <2>3, DType DEF DGrow, DTypeOK, DInv
    <3>2. \A p \in PostInstance : SentOK(p)'
      BY <2>3, <3>1, SentStays DEF DGrow
    <3> QED
      BY <2>3, <3>1, <3>2, DKeepsRest
  <2>4. ASSUME NEW q \in TimelineInstance, TimelineStep(q) PROVE DInv'
    BY <2>3, <2>4
    DEF TimelineStep, StartTimeline, ReadTimeline, ReadPost, ReturnTimeline,
        rClient, rPublish, rTables
  <2>5. CASE UNCHANGED rVars
    BY <2>3, <2>5 DEF rVars
  <2> QED
    BY <2>1, <2>2, <2>4, <2>5 DEF RetwisNext
<1> QED
  BY <1>1, <1>2, RInvHolds, PTL DEF RetwisSpec

(***************************************************************************)
(* When a Publish is done, each follower has the post, unless without      *)
(* logged writes a younger one was there first, and nobody has it twice,   *)
(* however often Post and Publish died and were executed again.            *)
(***************************************************************************)
THEOREM PostsAreDeliveredOnce == RetwisSpec => []DeliveredOnce
<1>1. DInv => DeliveredOnce
  <2> SUFFICES ASSUME DInv, NEW p \in PostInstance
               PROVE  /\ publish[p].pc = "done" =>
                           \A n \in DOMAIN FollowersOf[p] : HasPost(p, FollowersOf[p][n])
                      /\ \A u \in Follower : Cardinality(KeysOf(p, u)) <= 1
    BY DEF DeliveredOnce, HasPost
  <2>1. ASSUME publish[p].pc = "done", NEW n \in DOMAIN FollowersOf[p]
        PROVE  HasPost(p, FollowersOf[p][n])
    <3>1. n < publish[p].next
      BY <2>1, DType, RetwisAssumption DEF DInv, DeliveryOK, MoreFollowers
    <3> QED
      BY <3>1 DEF DInv, DeliveryOK
  <2>2. ASSUME NEW u \in Follower PROVE Cardinality(KeysOf(p, u)) <= 1
    <3>1. CASE KeysOf(p, u) = {}
      BY <3>1, FS_EmptySet
    <3>2. CASE KeysOf(p, u) # {}
      <4>1. PICK id \in KeysOf(p, u) : KeysOf(p, u) = {id}
        BY <3>2 DEF DInv, KeysOK
      <4> QED
        BY <4>1, FS_Singleton
    <3> QED
      BY <3>1, <3>2
  <2> QED
    BY <2>1, <2>2
<1> QED
  BY <1>1, DInvHolds, PTL

-----------------------------------------------------------------------------
(***************************************************************************)
(* Media, from here on.                                                    *)
(***************************************************************************)
Item == [counter : Nat, fields : SUBSET Field]
UploadPc == {"idle", "write", "log", "read", "compose", "lists", "done"}
ListerPc == {"idle", "read", "write", "log", "return", "done"}

MTypeOK ==
  /\ mMode \in {"WRITELOG", "READLOG"}
  /\ mTail \in Nat /\ mCrashes \in Nat
  /\ Logged => mTail = 0
  /\ mCase \in Cases
  /\ compose \in [Request -> [exists : BOOLEAN, fields : SUBSET Field,
                             counter : Nat, version : Nat]]
  /\ upload \in [Upload -> [pc : UploadPc, item : Item]]
  /\ uploadLog \in [Upload -> [seqNum : Nat, written : BOOLEAN, read : SUBSET Item]]
  /\ storage \in [Request -> SUBSET Field]
  /\ list \in [List -> [exists : BOOLEAN, reviews : Seq(Request), version : Nat,
                    writers : SUBSET Upload]]
  /\ lister \in [Upload -> [List -> [pc : ListerPc, found : BOOLEAN, added : BOOLEAN]]]
  /\ listerLog \in [Upload -> [List -> [written : BOOLEAN, read : SUBSET BOOLEAN,
                                       seqNum : Nat]]]

(***************************************************************************)
(* What was read of an item is as old as its counter: with the counter of  *)
(* now it has the fields of now.                                           *)
(***************************************************************************)
ItemOK(q, item) ==
  /\ item.counter <= compose[q].counter
  /\ item.counter = compose[q].counter => item.fields = compose[q].fields
  /\ item.counter = Cardinality(item.fields) \/ Recounted(q)
  /\ item.counter # 0 => item.fields # {}
\* A field is counted once, or twice after a crash with logged writes; what is stored
\* is complete unless a field was.
ComposeOK(q) ==
  /\ Cardinality(compose[q].fields) <= compose[q].counter
  /\ compose[q].counter # 0 => compose[q].fields # {}
  /\ compose[q].version <= mTail
  /\ Recounted(q) => Logged /\ mCrashes > 0
  /\ storage[q] \in {{}, Field} \/ Recounted(q)
(***************************************************************************)
(* What an upload knows.  With logged writes its field is there when it    *)
(* says so in its log, and is there without an entry only after a crash.   *)
(* Without, the item is as new as its cursor once it has written, or once  *)
(* its read is logged: it does not write again.                            *)
(***************************************************************************)
UploadOK(u) ==
  /\ \A item \in {upload[u].item} \cup uploadLog[u].read : ItemOK(u[1], item)
  /\ upload[u].pc \in {"compose", "lists"} => upload[u].item.counter = Cardinality(Field)
  /\ upload[u].pc = "lists" => storage[u[1]] # {}
  /\ upload[u].pc = "idle" => u[2] \notin compose[u[1]].fields
  /\ Logged =>
       /\ uploadLog[u].read = {}
       /\ uploadLog[u].written \/ upload[u].pc \notin {"idle", "write"}
            => u[2] \in compose[u[1]].fields
       /\ upload[u].pc = "write" /\ ~ uploadLog[u].written /\ u[2] \in compose[u[1]].fields
            => mCrashes > 0
  /\ ~ Logged =>
       /\ upload[u].pc # "log"
       /\ uploadLog[u].seqNum <= mTail
       /\ \/ u[2] \in compose[u[1]].fields \/ uploadLog[u].read # {}
          \/ upload[u].pc \notin {"idle", "write"}
          => compose[u[1]].version >= uploadLog[u].seqNum
       /\ upload[u].pc = "idle" => uploadLog[u].read = {}
(***************************************************************************)
(* An upload that will find a complete item: it has its read before it, or *)
(* has logged that it found all fields.  The one that wrote the last field *)
(* is such a one, and a crash does not change that.                        *)
(***************************************************************************)
Complete(q) == compose[q].counter = Cardinality(Field) /\ ~ Recounted(q)
Completes(u) ==
  /\ upload[u].pc \in {"write", "log", "read", "compose"}
  /\ \A item \in uploadLog[u].read : item.counter = Cardinality(Field)
CompleteOK(q) == Complete(q) => storage[q] = Field \/ \E f \in Field : Completes(<<q, f>>)
(***************************************************************************)
(* What a lister knows: it has written when its log says so, or was        *)
(* overtaken.  Without logged writes the reads have sequence numbers of    *)
(* their own, and the list has that of its last writer.                    *)
(***************************************************************************)
InList(q, l) == \E i \in DOMAIN list[l].reviews : list[l].reviews[i] = q
\* A lister that has added its review, or was overtaken: it does not add it again.
HasAdded(u, l) ==
  IF Logged THEN lister[u][l].pc = "log" \/ listerLog[u][l].written
  ELSE listerLog[u][l].read # {} /\ list[l].version >= listerLog[u][l].seqNum
Adders(q, l) == {f \in Field : HasAdded(<<q, f>>, l)}
ListerOK(u, l) ==
  /\ lister[u][l].pc # "idle" => storage[u[1]] # {}
  /\ lister[u][l].pc = "idle" => listerLog[u][l].read = {} /\ ~ listerLog[u][l].written
  /\ listerLog[u][l].seqNum <= mTail
  /\ Logged /\ (listerLog[u][l].written \/ lister[u][l].pc \in {"log", "return", "done"})
       => lister[u][l].added
  /\ ~ Logged =>
       /\ lister[u][l].pc # "log"
       /\ lister[u][l].pc \in {"write", "return", "done"} => listerLog[u][l].read # {}
       /\ lister[u][l].pc \in {"return", "done"} =>
            lister[u][l].added \/ list[l].version > listerLog[u][l].seqNum
       /\ listerLog[u][l].read # {} =>
            /\ list[l].version = listerLog[u][l].seqNum => lister[u][l].added
            /\ \A v \in Upload : listerLog[v][l].read # {} /\ listerLog[v][l].seqNum = listerLog[u][l].seqNum => v = u
\* A list has the reviews of its writers, and a review as often as listers have added
\* it, or died before they logged it.
ListOK(l) ==
  /\ list[l].version <= mTail
  /\ \A u \in list[l].writers : InList(u[1], l)
  /\ \A q \in Request :
       /\ InList(q, l) => storage[q] # {}
       /\ Times(q, l) <= Cardinality(Adders(q, l)) + IF Logged THEN mCrashes ELSE 0
MComposing ==
  /\ \A q \in Request : ComposeOK(q) /\ CompleteOK(q)
  /\ \A u \in Upload : UploadOK(u)

MListing ==
  /\ \A u \in Upload, l \in List : ListerOK(u, l)
  /\ \A l \in List : ListOK(l)

(***************************************************************************)
(* The inductive invariant.                                                *)
(***************************************************************************)
MInv == MTypeOK /\ MComposing /\ MListing

LEMMA Uploads ==
  ASSUME NEW u \in Upload
  PROVE  u[1] \in Request /\ u[2] \in Field /\ <<u[1], u[2]>> = u
BY DEF Upload

\* Sets of fields are finite, and only the whole set has its cardinality.
LEMMA SubsetsOfField ==
  ASSUME NEW A \in SUBSET Field
  PROVE  /\ IsFiniteSet(A) /\ Cardinality(A) \in Nat /\ Cardinality(Field) \in Nat
         /\ Cardinality(A) <= Cardinality(Field)
         /\ Cardinality(A) = Cardinality(Field) => A = Field
         /\ Cardinality(A) = 0 <=> A = {}
         /\ \A x : Cardinality(A \cup {x}) = Cardinality(A) + IF x \in A THEN 0 ELSE 1
BY MediaAssumption, FS_Subset, FS_CardinalityType, FS_EmptySet, FS_AddElement

LEMMA ComposeType ==
  ASSUME MTypeOK, NEW q \in Request
  PROVE  /\ compose[q].exists \in BOOLEAN /\ compose[q].fields \in SUBSET Field
         /\ compose[q].counter \in Nat /\ compose[q].version \in Nat
         /\ Cardinality(compose[q].fields) \in Nat /\ Cardinality(Field) \in Nat
         /\ storage[q] \in SUBSET Field /\ mTail \in Nat /\ mCrashes \in Nat
BY SubsetsOfField DEF MTypeOK

LEMMA UploadType ==
  ASSUME MTypeOK, NEW u \in Upload
  PROVE  /\ upload[u].pc \in UploadPc /\ upload[u].item \in Item
         /\ uploadLog[u].seqNum \in Nat /\ uploadLog[u].written \in BOOLEAN
         /\ uploadLog[u].read \in SUBSET Item
BY DEF MTypeOK

LEMMA ListerType ==
  ASSUME MTypeOK, NEW u \in Upload, NEW l \in List
  PROVE  /\ lister[u][l].pc \in ListerPc /\ lister[u][l].found \in BOOLEAN
         /\ lister[u][l].added \in BOOLEAN
         /\ listerLog[u][l].written \in BOOLEAN /\ listerLog[u][l].read \in SUBSET BOOLEAN
         /\ listerLog[u][l].seqNum \in Nat
         /\ list[l].exists \in BOOLEAN /\ list[l].reviews \in Seq(Request)
         /\ list[l].version \in Nat
BY DEF MTypeOK

-----------------------------------------------------------------------------
\* One more field is counted, or none.
ComposeGrows(q) ==
  /\ compose[q].version <= compose'[q].version
  /\ \/ /\ compose'[q].counter = compose[q].counter
        /\ compose'[q].fields = compose[q].fields
     \/ /\ compose'[q].counter = compose[q].counter + 1
        /\ compose[q].fields \subseteq compose'[q].fields
        /\ Cardinality(compose'[q].fields) <= Cardinality(compose[q].fields) + 1

Later ==
  /\ mMode' = mMode
  /\ mTail <= mTail' /\ mCrashes <= mCrashes'

\* What was read stays true of an item that grows.
LEMMA ItemKept ==
  ASSUME MTypeOK, MTypeOK', NEW q \in Request, ComposeGrows(q),
         NEW item \in Item, ItemOK(q, item)
  PROVE  ItemOK(q, item)'
<1>1. item.counter \in Nat /\ item.fields \in SUBSET Field
  BY DEF Item
<1>2. Cardinality(compose'[q].fields) \in Nat
  BY SubsetsOfField DEF MTypeOK
<1> QED
  BY <1>1, <1>2, ComposeType, SubsetsOfField DEF ItemOK, ComposeGrows, Recounted

\* An upload that makes no step keeps what it knows.
LEMMA UploadKept ==
  ASSUME MTypeOK, MTypeOK', Later, NEW u \in Upload, UploadOK(u),
         upload'[u] = upload[u], uploadLog'[u] = uploadLog[u],
         ComposeGrows(u[1]),
         u[2] \in compose'[u[1]].fields <=> u[2] \in compose[u[1]].fields,
         storage[u[1]] # {} => storage'[u[1]] # {}
  PROVE  UploadOK(u)'
<1>1. u[1] \in Request /\ u[2] \in Field
  BY Uploads
<1>2. ASSUME NEW item \in {upload[u].item} \cup uploadLog[u].read
      PROVE  ItemOK(u[1], item)'
  BY <1>1, <1>2, ItemKept, UploadType DEF UploadOK
<1>3. compose'[u[1]].version \in Nat /\ mTail' \in Nat /\ mCrashes' \in Nat
  BY <1>1 DEF MTypeOK
<1> QED
  BY <1>1, <1>2, <1>3, ComposeType, UploadType DEF UploadOK, Later, ComposeGrows, Logged

\* What is left to show for a step of an upload.
LEMMA ComposingStep ==
  ASSUME MTypeOK, MTypeOK', MComposing, Later, NEW u \in Upload,
         \A v \in Upload : v # u => upload'[v] = upload[v] /\ uploadLog'[v] = uploadLog[v],
         \A q \in Request :
           q # u[1] => compose'[q] = compose[q] /\ storage'[q] = storage[q],
         ComposeGrows(u[1]),
         compose'[u[1]].fields \ compose[u[1]].fields \subseteq {u[2]},
         storage[u[1]] # {} => storage'[u[1]] # {},
         ComposeOK(u[1])', CompleteOK(u[1])', UploadOK(u)'
  PROVE  MComposing'
<1>1. \A q \in Request : ComposeGrows(q)
  BY ComposeType DEF ComposeGrows
<1>2. ASSUME NEW v \in Upload
      PROVE  UploadOK(v)'
  <2>1. CASE v = u
    BY <2>1
  <2>2. CASE v # u
    <3>1. v[1] \in Request /\ u[1] \in Request
      BY Uploads
    <3>2. v[1] = u[1] => v[2] # u[2]
      BY <2>2, Uploads
    <3>3. compose[v[1]].fields \subseteq compose'[v[1]].fields
      BY <1>1, <3>1 DEF ComposeGrows
    <3>4. v[2] \in compose'[v[1]].fields <=> v[2] \in compose[v[1]].fields
      BY <3>1, <3>2, <3>3
    <3>5. UploadOK(v)
      BY DEF MComposing
    <3> QED
      BY <1>1, <2>2, <3>1, <3>4, <3>5, UploadKept
  <2> QED
    BY <2>1, <2>2
<1>3. ASSUME NEW q \in Request, q # u[1]
      PROVE  ComposeOK(q)' /\ CompleteOK(q)'
  <2>1. compose'[q] = compose[q] /\ storage'[q] = storage[q]
    BY <1>3
  <2>2. ComposeOK(q)'
    <3>1. mTail' \in Nat /\ mCrashes' \in Nat /\ ComposeOK(q)
      BY DEF MTypeOK, MComposing
    <3> QED
      BY <2>1, <3>1, ComposeType DEF ComposeOK, Recounted, Later, Logged
  <2>3. \A f \in Field : <<q, f>> \in Upload /\ <<q, f>> # u
    BY <1>3 DEF Upload
  <2>4. \A f \in Field : Completes(<<q, f>>)' <=> Completes(<<q, f>>)
    BY <2>3 DEF Completes
  <2>5. CompleteOK(q)
    BY DEF MComposing
  <2> QED
    BY <2>1, <2>2, <2>4, <2>5 DEF CompleteOK, Complete, Recounted
<1> QED
  BY <1>2, <1>3 DEF MComposing

\* A review is in a list if it is there at least once.
LEMMA TimesType ==
  ASSUME MTypeOK, NEW l \in List, NEW q \in Request
  PROVE  /\ Times(q, l) \in Nat
         /\ Times(q, l) = 0 <=> ~ InList(q, l)
<1> DEFINE At1 == {i \in DOMAIN list[l].reviews : list[l].reviews[i] = q}
<1>1. DOMAIN list[l].reviews = 1 .. Len(list[l].reviews) /\ Len(list[l].reviews) \in Nat
  BY DEF MTypeOK
<1>2. IsFiniteSet(At1)
  <2>1. IsFiniteSet(1 .. Len(list[l].reviews))
    BY <1>1, FS_Interval
  <2> QED
    BY <1>1, <2>1, FS_Subset
<1> QED
  BY <1>2, FS_CardinalityType, FS_EmptySet DEF Times, InList

LEMMA AddersType ==
  ASSUME NEW l, NEW q
  PROVE  /\ IsFiniteSet(Adders(q, l)) /\ Cardinality(Adders(q, l)) \in Nat
BY SubsetsOfField DEF Adders

\* A step of a list, or that composes nothing, keeps what is known of composing.
LEMMA ComposingKept ==
  ASSUME MTypeOK, MTypeOK', MComposing, Later,
         UNCHANGED <<composing, storage>>
  PROVE  MComposing'
<1>1. compose' = compose /\ upload' = upload /\ uploadLog' = uploadLog /\ storage' = storage
  BY DEF composing
<1>2. ASSUME NEW u \in Upload
      PROVE  UploadOK(u)'
  <2>1. u[1] \in Request /\ UploadOK(u)
    BY Uploads DEF MComposing
  <2>2. ComposeGrows(u[1])
    BY <1>1, <2>1, ComposeType DEF ComposeGrows
  <2> QED
    BY <1>1, <2>1, <2>2, UploadKept
<1>3. ASSUME NEW q \in Request
      PROVE  ComposeOK(q)' /\ CompleteOK(q)'
  <2>1. ComposeOK(q) /\ CompleteOK(q) /\ mTail' \in Nat /\ mCrashes' \in Nat
    BY DEF MComposing, MTypeOK
  <2>2. ComposeOK(q)'
    BY <1>1, <2>1, ComposeType DEF ComposeOK, Recounted, Later, Logged
  <2> QED
    BY <1>1, <2>1, <2>2 DEF CompleteOK, Complete, Recounted, Completes
<1> QED
  BY <1>2, <1>3 DEF MComposing

\* A step that does not touch the lists keeps what is known of them.
LEMMA ListingKept ==
  ASSUME MTypeOK, MTypeOK', MListing, Later, UNCHANGED listing,
         \A q \in Request : storage[q] # {} => storage'[q] # {}
  PROVE  MListing'
<1>1. list' = list /\ lister' = lister /\ listerLog' = listerLog
  BY DEF listing
<1>2. mMode' = mMode /\ mTail' \in Nat /\ mCrashes' \in Nat /\ mTail \in Nat /\ mCrashes \in Nat
      /\ mTail <= mTail' /\ mCrashes <= mCrashes'
  BY DEF MTypeOK, Later
<1>3. \A q, l : InList(q, l)' <=> InList(q, l)
  BY <1>1 DEF InList
<1>5. ASSUME NEW u \in Upload, NEW l \in List
      PROVE  ListerOK(u, l)'
  <2>1. u[1] \in Request /\ ListerOK(u, l)
    BY Uploads DEF MListing
  <2> QED
    BY <1>1, <1>2, <1>3, <2>1, ListerType DEF ListerOK, Logged
<1>6. ASSUME NEW l \in List
      PROVE  ListOK(l)'
  <2>1. ListOK(l) /\ list[l].version \in Nat
    BY DEF MListing, MTypeOK
  <2>2. ASSUME NEW q \in Request
        PROVE  Times(q, l)' = Times(q, l) /\ Cardinality(Adders(q, l))' = Cardinality(Adders(q, l))
    BY <1>1, <1>2 DEF Times, Adders, HasAdded, Logged
  <2>3. ASSUME NEW q \in Request
        PROVE  /\ Times(q, l) \in Nat
               /\ Cardinality(Adders(q, l)) \in Nat
    BY TimesType, AddersType
  <2> QED
    BY <1>1, <1>2, <1>3, <2>1, <2>2, <2>3 DEF ListOK, Logged
<1> QED
  BY <1>5, <1>6 DEF MListing

-----------------------------------------------------------------------------
\* Sequence numbers only grow; with logged writes none is given.
LEMMA Numbering ==
  ASSUME MTypeOK, AppendEntry, mMode' = mMode
  PROVE  /\ mTail' = NextSeqNum /\ mTail' \in Nat /\ mTail <= mTail'
         /\ IF Logged THEN mTail' = 0 ELSE mTail < mTail'
         /\ Logged' = Logged
BY DEF MTypeOK, AppendEntry, NextSeqNum, Logged

\* Compose creates the item of its request, which is not there yet or still empty.
LEMMA UploadReqKeeps ==
  ASSUME MInv, NEW q \in Request, UploadReq(q) PROVE MInv'
<1>1. MTypeOK /\ MComposing /\ MListing
  BY DEF MInv
<1>2. /\ mMode' = mMode /\ mCrashes' = mCrashes /\ mCase' = mCase
      /\ AppendEntry /\ UNCHANGED listing
      /\ upload' = upload /\ uploadLog' = uploadLog /\ storage' = storage
      /\ compose' = [compose EXCEPT ![q].exists = TRUE, ![q].version = NextSeqNum]
  BY DEF UploadReq
<1>3. Later
  BY <1>1, <1>2, Numbering DEF Later, MTypeOK
<1>4. MTypeOK'
  <2>1. compose' \in [Request -> [exists : BOOLEAN, fields : SUBSET Field,
                                 counter : Nat, version : Nat]]
    <3>1. NextSeqNum \in Nat
      BY <1>1, <1>2, Numbering
    <3>2. [compose[q] EXCEPT !.exists = TRUE, !.version = NextSeqNum]
            \in [exists : BOOLEAN, fields : SUBSET Field, counter : Nat, version : Nat]
      <4>1. compose[q] \in [exists : BOOLEAN, fields : SUBSET Field,
                            counter : Nat, version : Nat]
        BY <1>1 DEF MTypeOK
      <4> QED
        BY <3>1, <4>1
    <3>3. compose' = [compose EXCEPT ![q] = [compose[q] EXCEPT !.exists = TRUE,
                                                               !.version = NextSeqNum]]
      BY <1>1, <1>2 DEF MTypeOK
    <3> QED
      BY <1>1, <3>2, <3>3 DEF MTypeOK
  <2>2. mTail' \in Nat /\ (Logged' => mTail' = 0)
    BY <1>1, <1>2, Numbering
  <2> QED
    BY <1>1, <1>2, <2>1, <2>2 DEF MTypeOK, listing
<1>5. PICK f \in Field : TRUE
  BY <1>1, MediaAssumption DEF MTypeOK
<1>6. <<q, f>> \in Upload /\ <<q, f>>[1] = q
  BY DEF Upload
<1>7. ComposeOK(q) /\ CompleteOK(q) /\ UploadOK(<<q, f>>)
  BY <1>1, <1>6 DEF MComposing
<1>8. /\ compose'[q].fields = compose[q].fields /\ compose'[q].counter = compose[q].counter
      /\ compose'[q].version = mTail'
      /\ \A p \in Request : p # q => compose'[p] = compose[p]
  BY <1>1, <1>2, Numbering DEF MTypeOK
<1>9. ComposeGrows(q)
  BY <1>1, <1>2, <1>3, <1>7, <1>8, ComposeType, Numbering DEF ComposeGrows, ComposeOK, Later
<1>10. ComposeOK(q)'
  <2>1. mTail' \in Nat /\ Logged' = Logged
    BY <1>1, <1>2, Numbering
  <2>2. mCrashes' = mCrashes /\ storage' = storage
    BY <1>2
  <2> QED
    BY <1>7, <1>8, <2>1, <2>2 DEF ComposeOK, Recounted
<1>11. CompleteOK(q)'
  BY <1>2, <1>7, <1>8 DEF CompleteOK, Complete, Recounted, Completes
<1>12. UploadOK(<<q, f>>)'
  BY <1>1, <1>2, <1>3, <1>4, <1>6, <1>7, <1>8, <1>9, UploadKept
<1>13. MComposing'
  BY <1>1, <1>2, <1>3, <1>4, <1>6, <1>8, <1>9, <1>10, <1>11, <1>12, ComposingStep
<1>14. MListing'
  BY <1>1, <1>2, <1>3, <1>4, ListingKept
<1> QED
  BY <1>4, <1>13, <1>14 DEF MInv

\* What an upload knows when it has made its own entry.
LEMMA SendKeeps ==
  ASSUME MInv, NEW u \in Upload, Send(u[1], u[2]) PROVE MInv'
<1>1. MTypeOK /\ MComposing /\ MListing /\ <<u[1], u[2]>> = u /\ u[1] \in Request
  BY Uploads DEF MInv
<1>2. /\ mMode' = mMode /\ mCrashes' = mCrashes /\ mCase' = mCase
      /\ AppendEntry /\ UNCHANGED listing
      /\ compose' = compose /\ storage' = storage
      /\ upload[u].pc = "idle"
      /\ upload' = [upload EXCEPT ![u].pc = "write"]
      /\ uploadLog' = [uploadLog EXCEPT ![u].seqNum = NextSeqNum]
  BY <1>1 DEF Send
<1>3. Later
  BY <1>1, <1>2, Numbering DEF Later, MTypeOK
<1>4. MTypeOK'
  <2>1. /\ upload' \in [Upload -> [pc : UploadPc, item : Item]]
        /\ uploadLog' \in [Upload -> [seqNum : Nat, written : BOOLEAN, read : SUBSET Item]]
    BY <1>1, <1>2, Numbering, ZenonT(40) DEF MTypeOK, UploadPc
  <2>2. mTail' \in Nat /\ (Logged' => mTail' = 0)
    BY <1>1, <1>2, Numbering
  <2> QED
    BY <1>1, <1>2, <2>1, <2>2 DEF MTypeOK, listing
<1>5. ComposeOK(u[1]) /\ CompleteOK(u[1]) /\ UploadOK(u)
  BY <1>1 DEF MComposing
<1>6. /\ upload'[u].pc = "write" /\ upload'[u].item = upload[u].item
      /\ uploadLog'[u].seqNum = mTail' /\ uploadLog'[u].written = uploadLog[u].written
      /\ uploadLog'[u].read = uploadLog[u].read
      /\ \A v \in Upload : v # u => upload'[v] = upload[v] /\ uploadLog'[v] = uploadLog[v]
  BY <1>1, <1>2, Numbering DEF MTypeOK
<1>7. ComposeGrows(u[1])
  BY <1>1, <1>2, ComposeType DEF ComposeGrows
<1>8. ComposeOK(u[1])'
  BY <1>1, <1>2, <1>3, <1>5, ComposeType, Numbering DEF ComposeOK, Recounted, Later
<1>9. CompleteOK(u[1])'
  <2>1. \A v \in Upload : Completes(v) => Completes(v)'
    BY <1>2, <1>6 DEF Completes
  <2>2. \A f \in Field : <<u[1], f>> \in Upload
    BY <1>1 DEF Upload
  <2> QED
    BY <1>2, <1>5, <2>1, <2>2 DEF CompleteOK, Complete, Recounted
<1>10. UploadOK(u)'
  <2>1. ASSUME NEW item \in {upload'[u].item} \cup uploadLog'[u].read
        PROVE  ItemOK(u[1], item)'
    BY <1>2, <1>5, <1>6, <2>1 DEF UploadOK, ItemOK, Recounted
  <2> QED
    BY <1>1, <1>2, <1>5, <1>6, <2>1, UploadType, Numbering DEF UploadOK
<1>11. MComposing'
  BY <1>1, <1>2, <1>3, <1>4, <1>6, <1>7, <1>8, <1>9, <1>10, ComposingStep
<1>12. MListing'
  BY <1>1, <1>2, <1>3, <1>4, ListingKept
<1> QED
  BY <1>4, <1>11, <1>12 DEF MInv

\* The update of the item by an upload.
LEMMA AppliedType ==
  ASSUME MTypeOK, NEW u \in Upload, NEW s \in Nat, compose[u[1]].version <= s,
         compose' = [compose EXCEPT ![u[1]] = Applied(@, u[2], s)]
  PROVE  /\ compose' \in [Request -> [exists : BOOLEAN, fields : SUBSET Field,
                                      counter : Nat, version : Nat]]
         /\ ComposeGrows(u[1])
         /\ compose'[u[1]].fields = compose[u[1]].fields \cup {u[2]}
         /\ compose'[u[1]].counter = compose[u[1]].counter + 1
         /\ compose'[u[1]].version = s
         /\ Cardinality(compose'[u[1]].fields) =
              Cardinality(compose[u[1]].fields) + IF u[2] \in compose[u[1]].fields THEN 0 ELSE 1
         /\ \A q \in Request : q # u[1] => compose'[q] = compose[q]
<1> DEFINE q == u[1]
<1>1. q \in Request /\ u[2] \in Field
  BY Uploads
<1>2. compose[q] \in [exists : BOOLEAN, fields : SUBSET Field, counter : Nat, version : Nat]
  BY <1>1 DEF MTypeOK
<1> DEFINE new == Applied(compose[q], u[2], s)
<1>3. /\ new \in [exists : BOOLEAN, fields : SUBSET Field, counter : Nat, version : Nat]
      /\ new.fields = compose[q].fields \cup {u[2]}
      /\ new.counter = compose[q].counter + 1 /\ new.version = s
  <2>1. /\ compose[q].fields \cup {u[2]} \in SUBSET Field
        /\ compose[q].counter + 1 \in Nat
    BY <1>1, <1>2
  <2> QED
    BY <1>2, <2>1 DEF Applied
<1>4. /\ compose' = [compose EXCEPT ![q] = new]
      /\ compose'[q] = new
      /\ \A p \in Request : p # q => compose'[p] = compose[p]
  BY <1>1 DEF MTypeOK
<1>5. compose' \in [Request -> [exists : BOOLEAN, fields : SUBSET Field,
                                counter : Nat, version : Nat]]
  BY <1>1, <1>3, <1>4 DEF MTypeOK
<1>6. Cardinality(new.fields) =
        Cardinality(compose[q].fields) + IF u[2] \in compose[q].fields THEN 0 ELSE 1
  BY <1>1, <1>3, ComposeType, SubsetsOfField
<1>7. ComposeGrows(q)
  <2>1. Cardinality(new.fields) <= Cardinality(compose[q].fields) + 1
    BY <1>1, <1>6, ComposeType
  <2> QED
    BY <1>1, <1>3, <1>4, <2>1, ComposeType DEF ComposeGrows
<1> QED
  BY <1>3, <1>4, <1>5, <1>6, <1>7

\* An upload moves on, and nothing happens to the others.
LEMMA UploadGoes ==
  ASSUME MTypeOK, NEW u \in Upload, NEW pc \in UploadPc, UploadGoTo(u, pc)
  PROVE  /\ upload'[u].pc = pc /\ upload'[u].item = upload[u].item
         /\ upload' \in [Upload -> [pc : UploadPc, item : Item]]
         /\ \A v \in Upload : v # u => upload'[v] = upload[v]
<1>1. upload \in [Upload -> [pc : UploadPc, item : Item]]
  BY DEF MTypeOK
<1>2. upload' = [upload EXCEPT ![u] = [upload[u] EXCEPT !.pc = pc]]
  BY <1>1 DEF UploadGoTo
<1>3. /\ [upload[u] EXCEPT !.pc = pc] \in [pc : UploadPc, item : Item]
      /\ [upload[u] EXCEPT !.pc = pc].pc = pc
      /\ [upload[u] EXCEPT !.pc = pc].item = upload[u].item
  <2>1. upload[u] \in [pc : UploadPc, item : Item]
    BY <1>1
  <2> QED
    BY <2>1
<1> QED
  BY <1>1, <1>2, <1>3

\* WriteField keeps it: a field is counted twice only after a crash.
LEMMA WriteFieldKeeps ==
  ASSUME MInv, NEW u \in Upload, WriteField(u[1], u[2]) PROVE MInv'
<1>1. MTypeOK /\ MComposing /\ MListing /\ <<u[1], u[2]>> = u
      /\ u[1] \in Request /\ u[2] \in Field
  BY Uploads DEF MInv
<1>2. /\ mMode' = mMode /\ mCrashes' = mCrashes /\ mCase' = mCase /\ mTail' = mTail
      /\ UNCHANGED listing
      /\ uploadLog' = uploadLog /\ storage' = storage
      /\ upload[u].pc = "write"
  BY <1>1 DEF WriteField, At
<1>3. Later /\ Logged' = Logged
  BY <1>1, <1>2 DEF Later, MTypeOK, Logged
<1>4. ComposeOK(u[1]) /\ CompleteOK(u[1]) /\ UploadOK(u)
  BY <1>1 DEF MComposing
<1> DEFINE Goes(pc) == /\ upload'[u].pc = pc /\ upload'[u].item = upload[u].item
                       /\ upload' \in [Upload -> [pc : UploadPc, item : Item]]
                       /\ \A v \in Upload : v # u => upload'[v] = upload[v]
<1>5. ASSUME NEW pc \in UploadPc, UploadGoTo(u, pc)
      PROVE  Goes(pc)
  BY <1>1, <1>5, UploadGoes
<1>6. CASE compose' = compose
  <2>1. /\ Goes("read")
        /\ IF Logged THEN uploadLog[u].written
           ELSE compose[u[1]].version >= uploadLog[u].seqNum
    <3>1. \A s : compose # [compose EXCEPT ![u[1]] = Applied(@, u[2], s)]
      <4>1. \A s : Applied(compose[u[1]], u[2], s).counter = compose[u[1]].counter + 1
        BY <1>1 DEF Applied, MTypeOK
      <4> QED
        BY <1>1, <4>1 DEF MTypeOK
    <3> QED
      BY <1>1, <1>5, <1>6, <3>1 DEF WriteField, UploadPc
  <2>2. MTypeOK'
    BY <1>1, <1>2, <1>3, <1>6, <2>1 DEF MTypeOK, listing
  <2>3. ComposeGrows(u[1])
    BY <1>1, <1>6, ComposeType DEF ComposeGrows
  <2>4. ComposeOK(u[1])'
    BY <1>2, <1>3, <1>4, <1>6 DEF ComposeOK, Recounted
  <2>5. CompleteOK(u[1])'
    <3>1. \A v \in Upload : Completes(v) => Completes(v)'
      BY <1>2, <2>1 DEF Completes
    <3>2. \A f \in Field : <<u[1], f>> \in Upload
      BY <1>1 DEF Upload
    <3> QED
      BY <1>2, <1>4, <1>6, <3>1, <3>2 DEF CompleteOK, Complete, Recounted
  <2>6. UploadOK(u)'
    <3>1. ASSUME NEW item \in {upload'[u].item} \cup uploadLog'[u].read
          PROVE  ItemOK(u[1], item)'
      BY <1>2, <1>4, <1>6, <2>1, <3>1 DEF UploadOK, ItemOK, Recounted
    <3> QED
      BY <1>2, <1>3, <1>4, <1>6, <2>1, <3>1 DEF UploadOK
  <2>7. MComposing'
    BY <1>1, <1>2, <1>3, <1>6, <2>1, <2>2, <2>3, <2>4, <2>5, <2>6, ComposingStep
  <2>8. MListing'
    BY <1>1, <1>2, <1>3, <2>2, ListingKept
  <2> QED
    BY <2>2, <2>7, <2>8 DEF MInv
<1>7. CASE compose' # compose
  <2>1. PICK s \in Nat, pc \in {"log", "read"} :
          /\ compose' = [compose EXCEPT ![u[1]] = Applied(@, u[2], s)]
          /\ compose[u[1]].version <= s /\ s <= mTail
          /\ Goes(pc)
          /\ IF Logged THEN ~ uploadLog[u].written
             ELSE pc = "read" /\ s = uploadLog[u].seqNum /\ compose[u[1]].version < s
    <3>1. compose[u[1]].version \in Nat /\ uploadLog[u].seqNum \in Nat /\ mTail \in Nat
      BY <1>1, ComposeType, UploadType
    <3>2. CASE Logged
      <4>1. mTail = 0 /\ compose[u[1]].version <= mTail
        BY <1>1, <1>4, <3>2 DEF MTypeOK, ComposeOK
      <4>2. /\ UploadGoTo(u, "log") /\ ~ uploadLog[u].written
            /\ compose' = [compose EXCEPT ![u[1]] = Applied(@, u[2], 0)]
        BY <1>1, <1>7, <3>2 DEF WriteField
      <4>3. Goes("log")
        BY <1>5, <4>2 DEF UploadPc
      <4> WITNESS 0 \in Nat, "log" \in {"log", "read"}
      <4> QED
        BY <3>1, <3>2, <4>1, <4>2, <4>3
    <3>3. CASE ~ Logged
      <4>1. /\ UploadGoTo(u, "read") /\ ~ (compose[u[1]].version >= uploadLog[u].seqNum)
            /\ compose' = [compose EXCEPT ![u[1]] = Applied(@, u[2], uploadLog[u].seqNum)]
        BY <1>1, <1>7, <3>3 DEF WriteField
      <4>2. Goes("read") /\ uploadLog[u].seqNum <= mTail
        BY <1>4, <1>5, <3>3, <4>1 DEF UploadPc, UploadOK
      <4>3. uploadLog[u].seqNum \in Nat
        BY <3>1
      <4> WITNESS uploadLog[u].seqNum \in Nat, "read" \in {"log", "read"}
      <4> QED
        BY <3>1, <3>3, <4>1, <4>2
    <3> QED
      BY <3>2, <3>3
  <2>2. /\ ComposeGrows(u[1])
        /\ compose'[u[1]].fields = compose[u[1]].fields \cup {u[2]}
        /\ compose'[u[1]].counter = compose[u[1]].counter + 1
        /\ compose'[u[1]].version = s
        /\ Cardinality(compose'[u[1]].fields) =
              Cardinality(compose[u[1]].fields) + IF u[2] \in compose[u[1]].fields THEN 0 ELSE 1
        /\ \A q \in Request : q # u[1] => compose'[q] = compose[q]
        /\ compose' \in [Request -> [exists : BOOLEAN, fields : SUBSET Field,
                                     counter : Nat, version : Nat]]
    BY <1>1, <2>1, AppliedType
  <2>3. MTypeOK'
    BY <1>1, <1>2, <1>3, <2>1, <2>2 DEF MTypeOK, listing
  <2>4. u[2] \in compose[u[1]].fields => Logged /\ mCrashes > 0
    BY <1>1, <1>2, <1>4, <2>1, ComposeType DEF UploadOK
  <2>5. uploadLog[u].read = {}
    BY <1>1, <1>4, <2>1, ComposeType DEF UploadOK
  <2>6. ComposeOK(u[1])'
    <3>1. Recounted(u[1])' <=> Recounted(u[1]) \/ u[2] \in compose[u[1]].fields
      BY <1>1, <1>4, <2>2, ComposeType DEF Recounted, ComposeOK
    <3>2. Cardinality(compose'[u[1]].fields) <= compose'[u[1]].counter
      BY <1>1, <1>4, <2>2, ComposeType DEF ComposeOK
    <3> QED
      BY <1>1, <1>2, <1>3, <1>4, <2>1, <2>2, <2>4, <3>1, <3>2 DEF ComposeOK
  <2>7. CompleteOK(u[1])'
    <3>1. Completes(u)'
      BY <1>2, <2>1, <2>5 DEF Completes
    <3> QED
      BY <1>1, <3>1 DEF CompleteOK
  <2>8. UploadOK(u)'
    <3>1. ASSUME NEW item \in {upload'[u].item} \cup uploadLog'[u].read
          PROVE  ItemOK(u[1], item)'
      BY <1>1, <1>2, <1>4, <2>1, <2>2, <2>3, <3>1, ItemKept, UploadType DEF UploadOK
    <3>2. s >= uploadLog[u].seqNum \/ Logged
      BY <2>1
    <3> QED
      BY <1>1, <1>2, <1>3, <1>4, <2>1, <2>2, <2>5, <3>1, <3>2 DEF UploadOK
  <2>9. MComposing'
    BY <1>1, <1>2, <1>3, <2>1, <2>2, <2>3, <2>6, <2>7, <2>8, ComposingStep
  <2>10. MListing'
    BY <1>1, <1>2, <1>3, <2>3, ListingKept
  <2> QED
    BY <2>3, <2>9, <2>10 DEF MInv
<1> QED
  BY <1>6, <1>7

\* What is left to show for a step of an upload that does not touch the tables.
LEMMA UploadStepKeeps ==
  ASSUME MTypeOK, MTypeOK', MComposing, Later, NEW u \in Upload,
         compose' = compose, storage' = storage,
         \A v \in Upload : v # u => upload'[v] = upload[v] /\ uploadLog'[v] = uploadLog[v],
         UploadOK(u)', Complete(u[1]) /\ Completes(u) => Completes(u)'
  PROVE  MComposing'
<1>1. u[1] \in Request /\ ComposeOK(u[1]) /\ CompleteOK(u[1])
  BY Uploads DEF MComposing
<1>2. ComposeGrows(u[1])
  BY <1>1, ComposeType DEF ComposeGrows
<1>3. ComposeOK(u[1])'
  <2>1. mTail' \in Nat /\ mCrashes' \in Nat
    BY DEF MTypeOK
  <2> QED
    BY <1>1, <2>1, ComposeType DEF ComposeOK, Recounted, Later, Logged
<1>4. CompleteOK(u[1])'
  <2>1. \A v \in Upload : Complete(u[1]) /\ Completes(v) => Completes(v)'
    BY DEF Completes
  <2>2. \A f \in Field : <<u[1], f>> \in Upload
    BY <1>1 DEF Upload
  <2> QED
    BY <1>1, <2>1, <2>2 DEF CompleteOK, Complete, Recounted
<1> QED
  BY <1>1, <1>2, <1>3, <1>4, ComposingStep

\* LogField keeps it: the PostWrite entry follows the update.
LEMMA LogFieldKeeps ==
  ASSUME MInv, NEW u \in Upload, LogField(u) PROVE MInv'
<1>1. MTypeOK /\ MComposing /\ MListing /\ u[1] \in Request /\ UploadOK(u)
  BY Uploads DEF MInv, MComposing
<1>2. /\ mMode' = mMode /\ mCrashes' = mCrashes /\ mCase' = mCase /\ mTail' = mTail
      /\ UNCHANGED listing /\ compose' = compose /\ storage' = storage
      /\ upload[u].pc = "log" /\ UploadGoTo(u, "read")
      /\ uploadLog' = [uploadLog EXCEPT ![u].written = TRUE]
  BY DEF LogField, At
<1>3. Later /\ Logged' = Logged /\ Logged
  BY <1>1, <1>2 DEF Later, MTypeOK, Logged, UploadOK
<1>4. /\ upload'[u].pc = "read" /\ upload'[u].item = upload[u].item
      /\ upload' \in [Upload -> [pc : UploadPc, item : Item]]
      /\ \A v \in Upload : v # u => upload'[v] = upload[v]
  BY <1>1, <1>2, UploadGoes DEF UploadPc
<1>5. /\ uploadLog' \in [Upload -> [seqNum : Nat, written : BOOLEAN, read : SUBSET Item]]
      /\ uploadLog'[u].read = uploadLog[u].read
      /\ \A v \in Upload : v # u => uploadLog'[v] = uploadLog[v]
  BY <1>1, <1>2, ZenonT(40) DEF MTypeOK
<1>6. MTypeOK'
  BY <1>1, <1>2, <1>3, <1>4, <1>5 DEF MTypeOK, listing
<1>7. UploadOK(u)'
  <2>1. ASSUME NEW item \in {upload'[u].item} \cup uploadLog'[u].read
        PROVE  ItemOK(u[1], item)'
    BY <1>1, <1>2, <1>4, <1>5, <2>1 DEF UploadOK, ItemOK, Recounted
  <2> QED
    BY <1>1, <1>2, <1>3, <1>4, <1>5, <2>1 DEF UploadOK
<1>8. MComposing'
  BY <1>1, <1>2, <1>3, <1>4, <1>5, <1>6, <1>7, UploadStepKeeps DEF Completes
<1>9. MListing'
  BY <1>1, <1>2, <1>3, <1>6, ListingKept
<1> QED
  BY <1>6, <1>8, <1>9 DEF MInv

\* TryCompose keeps it: what it finds is the item as it is, or what its log says
\* that it was.
LEMMA TryComposeKeeps ==
  ASSUME MInv, NEW u \in Upload, TryCompose(u[1], u[2]) PROVE MInv'
<1>1. MTypeOK /\ MComposing /\ MListing /\ u[1] \in Request /\ UploadOK(u) /\ ComposeOK(u[1])
      /\ <<u[1], u[2]>> = u
  BY Uploads DEF MInv, MComposing
<1> DEFINE now == [counter |-> compose[u[1]].counter, fields |-> compose[u[1]].fields]
           seen == IF uploadLog[u].read = {} THEN {now} ELSE uploadLog[u].read
<1>2. /\ mMode' = mMode /\ mCrashes' = mCrashes /\ mCase' = mCase
      /\ UNCHANGED listing /\ compose' = compose /\ storage' = storage
      /\ upload[u].pc = "read"
      /\ IF uploadLog[u].read = {} THEN AppendEntry ELSE mTail' = mTail
      /\ uploadLog' = IF Logged THEN uploadLog ELSE [uploadLog EXCEPT ![u].read = seen]
  BY <1>1 DEF TryCompose, At
<1>3. PICK item \in seen :
        upload' = [upload EXCEPT ![u] =
          [pc |-> IF item.counter = Cardinality(Field) THEN "compose" ELSE "done",
           item |-> item]]
  BY <1>1 DEF TryCompose
<1>4. mTail' \in Nat /\ mTail <= mTail' /\ Logged' = Logged /\ (Logged => mTail' = 0)
  <2>1. CASE uploadLog[u].read = {}
    BY <1>1, <1>2, <2>1, Numbering
  <2>2. CASE uploadLog[u].read # {}
    BY <1>1, <1>2, <2>2 DEF MTypeOK, Logged
  <2> QED
    BY <2>1, <2>2
<1>5. Later
  BY <1>1, <1>2, <1>4 DEF Later, MTypeOK
<1>6. now \in Item /\ seen \in SUBSET Item /\ item \in Item
  BY <1>1, ComposeType, UploadType DEF Item
<1>7. \A i \in seen : ItemOK(u[1], i)
  <2>1. ItemOK(u[1], now)
    BY <1>1, ComposeType, SubsetsOfField DEF ComposeOK, ItemOK, Recounted
  <2> QED
    BY <1>1, <2>1 DEF UploadOK
<1>8. /\ upload' \in [Upload -> [pc : UploadPc, item : Item]]
      /\ upload'[u].pc = IF item.counter = Cardinality(Field) THEN "compose" ELSE "done"
      /\ upload'[u].item = item
      /\ \A v \in Upload : v # u => upload'[v] = upload[v]
  BY <1>1, <1>3, <1>6 DEF MTypeOK, UploadPc
<1>9. /\ uploadLog' \in [Upload -> [seqNum : Nat, written : BOOLEAN, read : SUBSET Item]]
      /\ uploadLog'[u].read = IF Logged THEN uploadLog[u].read ELSE seen
      /\ uploadLog'[u].written = uploadLog[u].written
      /\ uploadLog'[u].seqNum = uploadLog[u].seqNum
      /\ \A v \in Upload : v # u => uploadLog'[v] = uploadLog[v]
  <2>1. uploadLog \in [Upload -> [seqNum : Nat, written : BOOLEAN, read : SUBSET Item]]
    BY <1>1 DEF MTypeOK
  <2>2. CASE Logged
    BY <1>2, <2>1, <2>2
  <2>3. CASE ~ Logged
    <3>1. uploadLog' = [uploadLog EXCEPT ![u].read = seen]
      BY <1>2, <2>3
    <3> HIDE DEF seen
    <3> QED
      BY <1>6, <2>1, <2>3, <3>1
  <2> QED
    BY <2>2, <2>3
<1>10. MTypeOK'
  BY <1>1, <1>2, <1>4, <1>8, <1>9 DEF MTypeOK, listing
<1>11. UploadOK(u)'
  <2>1. ASSUME NEW i \in {upload'[u].item} \cup uploadLog'[u].read
        PROVE  ItemOK(u[1], i)'
    <3>1. ItemOK(u[1], i)
      BY <1>1, <1>7, <1>8, <1>9, <2>1 DEF UploadOK
    <3> QED
      BY <1>2, <3>1 DEF ItemOK, Recounted
  <2>2. uploadLog'[u].seqNum \in Nat /\ mTail \in Nat
    BY <1>1, <1>9, UploadType, ComposeType
  <2> QED
    BY <1>1, <1>2, <1>4, <1>8, <1>9, <2>1, <2>2 DEF UploadOK
<1>12. ASSUME Complete(u[1]), Completes(u)
       PROVE  Completes(u)'
  <2>1. \A i \in seen : i.counter = Cardinality(Field)
    BY <1>12 DEF Complete, Completes
  <2> QED
    BY <1>8, <1>9, <1>12, <2>1 DEF Completes
<1>13. MComposing'
  BY <1>1, <1>2, <1>5, <1>8, <1>9, <1>10, <1>11, <1>12, UploadStepKeeps
<1>14. MListing'
  BY <1>1, <1>2, <1>5, <1>10, ListingKept
<1> QED
  BY <1>10, <1>13, <1>14 DEF MInv

\* InvokeStore keeps it: the fields that are stored are those that the instance found.
LEMMA InvokeStoreKeeps ==
  ASSUME MInv, NEW u \in Upload, InvokeStore(u[1], u[2]) PROVE MInv'
<1>1. MTypeOK /\ MComposing /\ MListing /\ u[1] \in Request /\ u[2] \in Field
      /\ UploadOK(u) /\ ComposeOK(u[1]) /\ CompleteOK(u[1]) /\ <<u[1], u[2]>> = u
  BY Uploads DEF MInv, MComposing
<1>2. /\ mMode' = mMode /\ mCrashes' = mCrashes /\ mCase' = mCase /\ mTail' = mTail
      /\ UNCHANGED listing /\ compose' = compose /\ uploadLog' = uploadLog
      /\ upload[u].pc = "compose" /\ UploadGoTo(u, "lists")
      /\ storage' = [storage EXCEPT ![u[1]] = upload[u].item.fields]
  BY <1>1 DEF InvokeStore, At
<1>3. Later /\ Logged' = Logged
  BY <1>1, <1>2 DEF Later, MTypeOK, Logged
<1>4. /\ upload'[u].pc = "lists" /\ upload'[u].item = upload[u].item
      /\ upload' \in [Upload -> [pc : UploadPc, item : Item]]
      /\ \A v \in Upload : v # u => upload'[v] = upload[v]
  BY <1>1, <1>2, UploadGoes DEF UploadPc
<1>5. upload[u].item.fields \in SUBSET Field /\ upload[u].item.counter \in Nat
  BY <1>1, UploadType DEF Item
<1>6. /\ storage' \in [Request -> SUBSET Field]
      /\ storage'[u[1]] = upload[u].item.fields
      /\ \A q \in Request : q # u[1] => storage'[q] = storage[q]
  BY <1>1, <1>2, <1>5 DEF MTypeOK
<1>7. MTypeOK'
  BY <1>1, <1>2, <1>3, <1>4, <1>6 DEF MTypeOK, listing
<1>8. /\ ItemOK(u[1], upload[u].item)
      /\ upload[u].item.counter = Cardinality(Field)
  BY <1>1, <1>2 DEF UploadOK
<1>9. Cardinality(Field) # 0
  BY <1>1, SubsetsOfField
<1>10. upload[u].item.fields # {}
  BY <1>8, <1>9 DEF ItemOK
<1>11. upload[u].item.fields = Field \/ Recounted(u[1])
  BY <1>5, <1>8, SubsetsOfField DEF ItemOK
<1>12. Complete(u[1]) => upload[u].item.fields = Field
  BY <1>11 DEF Complete
<1>13. ComposeGrows(u[1])
  BY <1>1, <1>2, ComposeType DEF ComposeGrows
<1>14. ComposeOK(u[1])' /\ CompleteOK(u[1])'
  <2>1. Recounted(u[1])' = Recounted(u[1]) /\ Complete(u[1])' = Complete(u[1])
    BY <1>2 DEF Recounted, Complete
  <2> QED
    BY <1>1, <1>2, <1>3, <1>6, <1>11, <1>12, <2>1 DEF ComposeOK, CompleteOK
<1>15. UploadOK(u)'
  <2>1. ASSUME NEW item \in {upload'[u].item} \cup uploadLog'[u].read
        PROVE  ItemOK(u[1], item)'
    BY <1>1, <1>2, <1>4, <2>1 DEF UploadOK, ItemOK, Recounted
  <2> QED
    BY <1>1, <1>2, <1>3, <1>4, <1>6, <1>8, <1>10, <2>1 DEF UploadOK
<1>16. MComposing'
  BY <1>1, <1>2, <1>3, <1>4, <1>6, <1>7, <1>10, <1>13, <1>14, <1>15, ComposingStep
<1>17. MListing'
  BY <1>1, <1>2, <1>3, <1>6, <1>7, <1>10, ListingKept
<1> QED
  BY <1>7, <1>16, <1>17 DEF MInv

\* UploadDies keeps it: the next execution finds the same log.
LEMMA UploadDiesKeeps ==
  ASSUME MInv, NEW u \in Upload, UploadDies(u) PROVE MInv'
<1>1. MTypeOK /\ MComposing /\ MListing /\ u[1] \in Request /\ UploadOK(u) /\ ComposeOK(u[1])
  BY Uploads DEF MInv, MComposing
<1>2. /\ mMode' = mMode /\ mCrashes' = mCrashes + 1 /\ mCase' = mCase /\ mTail' = mTail
      /\ UNCHANGED listing /\ compose' = compose /\ uploadLog' = uploadLog
      /\ storage' = storage
      /\ upload[u].pc \notin {"idle", "done"}
      /\ upload' = [upload EXCEPT ![u] = [pc |-> "write", item |-> NotRead]]
  BY DEF UploadDies
<1>3. Later /\ Logged' = Logged /\ mCrashes \in Nat
  BY <1>1, <1>2 DEF Later, MTypeOK, Logged
<1>4. NotRead \in Item /\ NotRead.counter = 0 /\ NotRead.fields = {}
  BY DEF NotRead, Item
<1>5. /\ upload' \in [Upload -> [pc : UploadPc, item : Item]]
      /\ upload'[u].pc = "write" /\ upload'[u].item = NotRead
      /\ \A v \in Upload : v # u => upload'[v] = upload[v]
  <2>1. [pc |-> "write", item |-> NotRead] \in [pc : UploadPc, item : Item]
    BY <1>4 DEF UploadPc
  <2> QED
    BY <1>1, <1>2, <2>1 DEF MTypeOK
<1>6. MTypeOK'
  BY <1>1, <1>2, <1>3, <1>5 DEF MTypeOK, listing
<1>7. ItemOK(u[1], NotRead)
  BY <1>1, <1>4, ComposeType, SubsetsOfField DEF ItemOK, ComposeOK
<1>8. UploadOK(u)'
  <2>1. ASSUME NEW item \in {upload'[u].item} \cup uploadLog'[u].read
        PROVE  ItemOK(u[1], item)'
    BY <1>1, <1>2, <1>5, <1>7, <2>1 DEF UploadOK, ItemOK, Recounted
  <2> QED
    BY <1>1, <1>2, <1>3, <1>5, <2>1 DEF UploadOK
<1>9. Completes(u) => Completes(u)'
  BY <1>2, <1>5 DEF Completes
<1>10. MComposing'
  BY <1>1, <1>2, <1>3, <1>5, <1>6, <1>8, <1>9, UploadStepKeeps
<1>11. MListing'
  BY <1>1, <1>2, <1>3, <1>6, ListingKept
<1> QED
  BY <1>6, <1>10, <1>11 DEF MInv

\* InvokeLists keeps it: the review is stored before the lists are started.
LEMMA InvokeListsKeeps ==
  ASSUME MInv, NEW u \in Upload, InvokeLists(u) PROVE MInv'
<1>1. MTypeOK /\ MComposing /\ MListing /\ u[1] \in Request /\ UploadOK(u)
  BY Uploads DEF MInv, MComposing
<1>2. /\ mMode' = mMode /\ mCrashes' = mCrashes /\ mCase' = mCase /\ mTail' = mTail
      /\ list' = list /\ listerLog' = listerLog
      /\ compose' = compose /\ uploadLog' = uploadLog /\ storage' = storage
      /\ upload[u].pc = "lists" /\ UploadGoTo(u, "done")
      /\ lister' = [lister EXCEPT ![u] = [l \in List |->
                  IF @[l].pc = "idle" THEN [@[l] EXCEPT !.pc = "read"] ELSE @[l]]]
  BY DEF InvokeLists, At
<1>3. Later /\ Logged' = Logged
  BY <1>1, <1>2 DEF Later, MTypeOK, Logged
<1>4. /\ upload'[u].pc = "done" /\ upload'[u].item = upload[u].item
      /\ upload' \in [Upload -> [pc : UploadPc, item : Item]]
      /\ \A v \in Upload : v # u => upload'[v] = upload[v]
  BY <1>1, <1>2, UploadGoes DEF UploadPc
<1>5. /\ lister' \in [Upload -> [List -> [pc : ListerPc, found : BOOLEAN, added : BOOLEAN]]]
      /\ \A v \in Upload, l \in List :
           \/ lister'[v][l] = lister[v][l]
           \/ /\ v = u /\ lister[v][l].pc = "idle" /\ lister'[v][l].pc = "read"
              /\ lister'[v][l].added = lister[v][l].added
  <2> DEFINE new == [l \in List |-> IF lister[u][l].pc = "idle"
                                    THEN [lister[u][l] EXCEPT !.pc = "read"]
                                    ELSE lister[u][l]]
  <2>1. lister' = [lister EXCEPT ![u] = new]
    BY <1>1, <1>2 DEF MTypeOK
  <2>2. ASSUME NEW l \in List
        PROVE  /\ new[l] \in [pc : ListerPc, found : BOOLEAN, added : BOOLEAN]
               /\ \/ new[l] = lister[u][l]
                  \/ /\ lister[u][l].pc = "idle" /\ new[l].pc = "read"
                     /\ new[l].added = lister[u][l].added
    <3>1. lister[u][l] \in [pc : ListerPc, found : BOOLEAN, added : BOOLEAN]
      BY <1>1 DEF MTypeOK
    <3> QED
      BY <3>1 DEF ListerPc
  <2>3. new \in [List -> [pc : ListerPc, found : BOOLEAN, added : BOOLEAN]]
    BY <2>2
  <2> HIDE DEF new
  <2> QED
    BY <1>1, <2>1, <2>2, <2>3 DEF MTypeOK
<1>6. MTypeOK'
  BY <1>1, <1>2, <1>3, <1>4, <1>5 DEF MTypeOK
<1>7. UploadOK(u)'
  <2>1. ASSUME NEW item \in {upload'[u].item} \cup uploadLog'[u].read
        PROVE  ItemOK(u[1], item)'
    BY <1>1, <1>2, <1>4, <2>1 DEF UploadOK, ItemOK, Recounted
  <2> QED
    BY <1>1, <1>2, <1>3, <1>4, <2>1 DEF UploadOK
<1>8. MComposing'
  BY <1>1, <1>2, <1>3, <1>4, <1>6, <1>7, UploadStepKeeps DEF Completes
<1>9. \A q, l : InList(q, l)' <=> InList(q, l)
  BY <1>2 DEF InList
<1>10. ASSUME NEW v \in Upload, NEW l \in List
       PROVE  ListerOK(v, l)'
  <2>1. ListerOK(v, l) /\ lister'[v][l].added = lister[v][l].added
    BY <1>1, <1>5 DEF MListing
  <2>2. storage[u[1]] # {}
    BY <1>1, <1>2 DEF UploadOK
  <2> QED
    BY <1>2, <1>3, <1>5, <1>9, <2>1, <2>2, ZenonT(40) DEF ListerOK
<1>11. ASSUME NEW l \in List
       PROVE  ListOK(l)'
  <2>1. ListOK(l)
    BY <1>1 DEF MListing
  <2>2. ASSUME NEW q \in Request, NEW f \in Field
        PROVE  HasAdded(<<q, f>>, l)' <=> HasAdded(<<q, f>>, l)
    <3>1. <<q, f>> \in Upload
      BY DEF Upload
    <3>2. lister'[<<q, f>>][l].pc = "log" <=> lister[<<q, f>>][l].pc = "log"
      BY <1>5, <3>1
    <3> QED
      BY <1>2, <1>3, <3>2 DEF HasAdded
  <2>3. ASSUME NEW q \in Request
        PROVE  Times(q, l)' = Times(q, l) /\ Adders(q, l)' = Adders(q, l)
    BY <1>2, <2>2 DEF Times, Adders
  <2> QED
    BY <1>2, <1>3, <1>9, <2>1, <2>3 DEF ListOK
<1>12. MListing'
  BY <1>10, <1>11 DEF MListing
<1> QED
  BY <1>6, <1>8, <1>12 DEF MInv

-----------------------------------------------------------------------------
\* What is left to show for a step of a lister: the list gets no older, and its read
\* has a sequence number of its own.
LEMMA ListingStep ==
  ASSUME MTypeOK, MTypeOK', MListing, Later, NEW u \in Upload, NEW l \in List,
         storage' = storage,
         \A v \in Upload, k \in List : v # u \/ k # l =>
           lister'[v][k] = lister[v][k] /\ listerLog'[v][k] = listerLog[v][k],
         \A k \in List : k # l => list'[k] = list[k],
         list[l].version <= list'[l].version,
         \/ list'[l] = list[l]
         \/ Logged
         \/ /\ list'[l].version = listerLog[u][l].seqNum
            /\ listerLog[u][l].read # {} /\ listerLog'[u][l] = listerLog[u][l],
         \/ Logged
         \/ listerLog'[u][l] = listerLog[u][l]
         \/ mTail < listerLog'[u][l].seqNum,
         ListerOK(u, l)', ListOK(l)'
  PROVE  MListing'
<1>1. /\ Logged' = Logged /\ mTail \in Nat /\ mTail' \in Nat /\ mTail <= mTail'
      /\ mCrashes \in Nat /\ mCrashes' \in Nat /\ mCrashes <= mCrashes'
  BY DEF Later, MTypeOK, Logged
<1>2. ASSUME NEW v \in Upload, NEW k \in List, v # u \/ k # l
      PROVE  ListerOK(v, k)'
  <2>1. ListerOK(v, k) /\ ListerOK(u, l) /\ v[1] \in Request
    BY Uploads DEF MListing
  <2>2. lister'[v][k] = lister[v][k] /\ listerLog'[v][k] = listerLog[v][k]
    BY <1>2
  <2>4. list[k].version <= list'[k].version
        /\ list[k].version \in Nat /\ list'[k].version \in Nat
    <3>1. list[k].version \in Nat /\ list'[k].version \in Nat
      BY DEF MTypeOK
    <3>2. CASE k = l
      BY <3>1, <3>2
    <3>3. CASE k # l
      BY <3>1, <3>3
    <3> QED
      BY <3>1, <3>2, <3>3
  <2>5. listerLog[v][k].seqNum \in Nat
    BY ListerType
  <2>6. ASSUME ~ Logged, listerLog[v][k].read # {}, list'[k].version = listerLog[v][k].seqNum
        PROVE  lister[v][k].added
    <3>1. CASE list'[k] = list[k]
      BY <2>1, <2>6, <3>1 DEF ListerOK
    <3>2. CASE list'[k] # list[k]
      BY <1>2, <2>1, <2>6, <3>2 DEF ListerOK
    <3> QED
      BY <3>1, <3>2
  <2>7. ASSUME ~ Logged, NEW w \in Upload,
               listerLog[v][k].read # {}, listerLog'[w][k].read # {},
               listerLog'[w][k].seqNum = listerLog[v][k].seqNum
        PROVE  w = v
    <3>1. CASE listerLog'[w][k] = listerLog[w][k]
      BY <2>1, <2>7, <3>1 DEF ListerOK
    <3>2. CASE listerLog'[w][k] # listerLog[w][k]
      <4>1. mTail < listerLog[v][k].seqNum
        BY <2>7, <3>2
      <4> QED
        BY <1>1, <2>1, <2>5, <4>1 DEF ListerOK
    <3> QED
      BY <3>1, <3>2
  <2>8. listerLog[v][k].seqNum <= mTail'
    BY <1>1, <2>1, <2>5 DEF ListerOK
  <2>9. list[k].version > listerLog[v][k].seqNum => list'[k].version > listerLog[v][k].seqNum
    BY <2>4, <2>5
  <2> QED
    BY <1>1, <2>1, <2>2, <2>6, <2>7, <2>8, <2>9 DEF ListerOK
<1>3. ASSUME NEW k \in List, k # l
      PROVE  ListOK(k)'
  <2>1. ListOK(k) /\ list'[k] = list[k] /\ list[k].version \in Nat
    BY <1>3 DEF MListing, MTypeOK
  <2>2. \A q \in Request : InList(q, k)' <=> InList(q, k)
    BY <2>1 DEF InList
  <2>3. ASSUME NEW q \in Request, NEW f \in Field
        PROVE  HasAdded(<<q, f>>, k)' <=> HasAdded(<<q, f>>, k)
    <3>1. <<q, f>> \in Upload
      BY DEF Upload
    <3> QED
      BY <1>1, <1>3, <2>1, <3>1 DEF HasAdded
  <2>4. ASSUME NEW q \in Request
        PROVE  Times(q, k)' = Times(q, k) /\ Adders(q, k)' = Adders(q, k)
    BY <2>1, <2>3 DEF Times, Adders
  <2>5. ASSUME NEW q \in Request
        PROVE  Times(q, k) \in Nat /\ Cardinality(Adders(q, k)) \in Nat
    BY TimesType, AddersType
  <2>6. \A w \in list'[k].writers : InList(w[1], k)'
    <3>1. ASSUME NEW w \in list[k].writers PROVE InList(w[1], k)'
      <4>1. w \in Upload /\ InList(w[1], k)
        BY <1>1, <2>1 DEF ListOK, MTypeOK
      <4> QED
        BY <2>2, <4>1, Uploads
    <3> QED
      BY <2>1, <3>1
  <2>7. \A q \in Request :
          /\ InList(q, k)' => storage'[q] # {}
          /\ Times(q, k)' <= Cardinality(Adders(q, k)') + IF Logged' THEN mCrashes' ELSE 0
    BY <1>1, <2>1, <2>2, <2>4, <2>5 DEF ListOK
  <2> QED
    BY <1>1, <2>1, <2>6, <2>7 DEF ListOK
<1> QED
  BY <1>2, <1>3 DEF MListing

SetsLister(u, l, new) == lister' = [lister EXCEPT ![u] = [lister[u] EXCEPT ![l] = new]]
SetsListerLog(u, l, new) ==
  listerLog' = [listerLog EXCEPT ![u] = [listerLog[u] EXCEPT ![l] = new]]

\* A lister gets a new state, and nothing happens to the others.
LEMMA ListerSet ==
  ASSUME MTypeOK, NEW u \in Upload, NEW l \in List,
         NEW new \in [pc : ListerPc, found : BOOLEAN, added : BOOLEAN],
         SetsLister(u, l, new)
  PROVE  /\ lister' \in [Upload -> [List -> [pc : ListerPc, found : BOOLEAN, added : BOOLEAN]]]
         /\ lister'[u][l] = new
         /\ \A v \in Upload, k \in List : v # u \/ k # l => lister'[v][k] = lister[v][k]
<1>1. lister \in [Upload -> [List -> [pc : ListerPc, found : BOOLEAN, added : BOOLEAN]]]
  BY DEF MTypeOK
<1>2. lister[u] \in [List -> [pc : ListerPc, found : BOOLEAN, added : BOOLEAN]]
  BY <1>1
<1>3. [lister[u] EXCEPT ![l] = new] \in [List -> [pc : ListerPc, found : BOOLEAN, added : BOOLEAN]]
  BY <1>2
<1> QED
  BY <1>1, <1>2, <1>3 DEF SetsLister

LEMMA ListerGoes ==
  ASSUME MTypeOK, NEW u \in Upload, NEW l \in List, NEW pc \in ListerPc, ListerGoTo(u, l, pc)
  PROVE  /\ lister' \in [Upload -> [List -> [pc : ListerPc, found : BOOLEAN, added : BOOLEAN]]]
         /\ lister'[u][l].pc = pc /\ lister'[u][l].added = lister[u][l].added
         /\ \A v \in Upload, k \in List : v # u \/ k # l => lister'[v][k] = lister[v][k]
<1> DEFINE new == [lister[u][l] EXCEPT !.pc = pc]
<1>1. lister[u][l] \in [pc : ListerPc, found : BOOLEAN, added : BOOLEAN]
  BY DEF MTypeOK
<1>2. /\ new \in [pc : ListerPc, found : BOOLEAN, added : BOOLEAN]
      /\ new.pc = pc /\ new.added = lister[u][l].added
  BY <1>1
<1>3. SetsLister(u, l, new)
  BY DEF ListerGoTo, MTypeOK, SetsLister
<1> HIDE DEF new
<1> QED
  BY <1>2, <1>3, ListerSet

\* The number of times that q is in s.
Occurrences(s, q) == Cardinality({i \in DOMAIN s : s[i] = q})

LEMMA OccurrencesAfter ==
  ASSUME NEW s \in Seq(Request), NEW r \in Request, NEW q \in Request
  PROVE  /\ Occurrences(s, q) \in Nat
         /\ Occurrences(Append(s, r), q) = Occurrences(s, q) + IF q = r THEN 1 ELSE 0
         /\ Occurrences(<<r>>, q) = IF q = r THEN 1 ELSE 0
<1> DEFINE At1 == {i \in DOMAIN s : s[i] = q}
           n == Len(s) + 1
           new == Append(s, r)
<1>1. /\ Len(s) \in Nat /\ DOMAIN s = 1 .. Len(s)
      /\ DOMAIN new = 1 .. n /\ new[n] = r
      /\ \A i \in 1 .. Len(s) : new[i] = s[i]
  OBVIOUS
<1>2. IsFiniteSet(At1) /\ n \notin At1
  <2>1. IsFiniteSet(1 .. Len(s))
    BY <1>1, FS_Interval
  <2> QED
    BY <1>1, <2>1, FS_Subset
<1>3. {i \in DOMAIN new : new[i] = q} = IF q = r THEN At1 \cup {n} ELSE At1
  <2> HIDE DEF new
  <2>1. \A i : i \in 1 .. n <=> i \in 1 .. Len(s) \/ i = n
    BY <1>1
  <2> QED
    BY <1>1, <2>1
<1>4. Cardinality(At1 \cup {n}) = Cardinality(At1) + 1 /\ Cardinality(At1) \in Nat
  BY <1>2, FS_AddElement, FS_CardinalityType
<1>5. {i \in DOMAIN <<r>> : <<r>>[i] = q} = IF q = r THEN {1} ELSE {}
  OBVIOUS
<1>6. Cardinality({1}) = 1 /\ Cardinality({}) = 0
  BY FS_Singleton, FS_EmptySet
<1> HIDE DEF At1, n, new
<1>7. Occurrences(s, q) = Cardinality(At1)
  BY DEF Occurrences, At1
<1>8. Occurrences(Append(s, r), q) = Cardinality(At1) + IF q = r THEN 1 ELSE 0
  <2>1. Occurrences(new, q) = Cardinality(IF q = r THEN At1 \cup {n} ELSE At1)
    BY <1>3 DEF Occurrences
  <2>2. Occurrences(new, q) = Cardinality(At1) + IF q = r THEN 1 ELSE 0
    BY <1>4, <2>1
  <2> QED
    BY <2>2 DEF new
<1> QED
  BY <1>4, <1>5, <1>6, <1>7, <1>8 DEF Occurrences

\* ListerReturns keeps it: the lister has done what it knows.
LEMMA ListerReturnsKeeps ==
  ASSUME MInv, NEW u \in Upload, NEW l \in List, ListerReturns(u, l) PROVE MInv'
<1>1. MTypeOK /\ MComposing /\ MListing /\ ListerOK(u, l) /\ ListOK(l)
      /\ u[1] \in Request
  BY Uploads DEF MInv, MListing
<1>2. /\ mMode' = mMode /\ mCrashes' = mCrashes /\ mCase' = mCase /\ mTail' = mTail
      /\ list' = list /\ listerLog' = listerLog
      /\ UNCHANGED composing /\ storage' = storage
      /\ lister[u][l].pc = "return" /\ ListerGoTo(u, l, "done")
  BY DEF ListerReturns, ListerAt
<1>3. Later /\ Logged' = Logged
  BY <1>1, <1>2 DEF Later, MTypeOK, Logged
<1>4. /\ lister' \in [Upload -> [List -> [pc : ListerPc, found : BOOLEAN, added : BOOLEAN]]]
      /\ lister'[u][l].pc = "done" /\ lister'[u][l].added = lister[u][l].added
      /\ \A v \in Upload, k \in List : v # u \/ k # l => lister'[v][k] = lister[v][k]
  BY <1>1, <1>2, ListerGoes DEF ListerPc
<1>5. MTypeOK'
  BY <1>1, <1>2, <1>3, <1>4 DEF MTypeOK, composing
<1>6. \A q, k : InList(q, k)' <=> InList(q, k)
  BY <1>2 DEF InList
<1>7. lister'[u][l].added = lister[u][l].added
  BY <1>4
<1>8. ListerOK(u, l)'
  BY <1>1, <1>2, <1>3, <1>4, <1>6, <1>7 DEF ListerOK
<1>9. ListOK(l)'
  <2>1. ASSUME NEW q \in Request, NEW f \in Field
        PROVE  HasAdded(<<q, f>>, l)' <=> HasAdded(<<q, f>>, l)
    <3>1. <<q, f>> \in Upload
      BY DEF Upload
    <3>2. lister'[<<q, f>>][l].pc = "log" <=> lister[<<q, f>>][l].pc = "log"
      BY <1>2, <1>4, <3>1
    <3> QED
      BY <1>2, <1>3, <3>2 DEF HasAdded
  <2>2. ASSUME NEW q \in Request
        PROVE  Times(q, l)' = Times(q, l) /\ Adders(q, l)' = Adders(q, l)
    BY <1>2, <2>1 DEF Times, Adders
  <2> QED
    BY <1>1, <1>2, <1>3, <1>6, <2>2 DEF ListOK
<1>10. MListing'
  <2>1. list[l].version <= list'[l].version
    BY <1>1, <1>2, ListerType
  <2> QED
    BY <1>1, <1>2, <1>3, <1>4, <1>5, <1>6, <1>8, <1>9, <2>1, ListingStep
<1>11. MComposing'
  BY <1>1, <1>2, <1>3, <1>5, ComposingKept
<1> QED
  BY <1>5, <1>10, <1>11 DEF MInv

LEMMA ListerLogSet ==
  ASSUME MTypeOK, NEW u \in Upload, NEW l \in List,
         NEW new \in [written : BOOLEAN, read : SUBSET BOOLEAN, seqNum : Nat],
         SetsListerLog(u, l, new)
  PROVE  /\ listerLog' \in [Upload -> [List -> [written : BOOLEAN, read : SUBSET BOOLEAN,
                                                seqNum : Nat]]]
         /\ listerLog'[u][l] = new
         /\ \A v \in Upload, k \in List : v # u \/ k # l => listerLog'[v][k] = listerLog[v][k]
<1>1. listerLog \in [Upload -> [List -> [written : BOOLEAN, read : SUBSET BOOLEAN,
                                         seqNum : Nat]]]
  BY DEF MTypeOK
<1>2. listerLog[u] \in [List -> [written : BOOLEAN, read : SUBSET BOOLEAN, seqNum : Nat]]
  BY <1>1
<1>3. [listerLog[u] EXCEPT ![l] = new]
        \in [List -> [written : BOOLEAN, read : SUBSET BOOLEAN, seqNum : Nat]]
  BY <1>2
<1> QED
  BY <1>1, <1>2, <1>3 DEF SetsListerLog

\* LogList keeps it: the entry follows the update.
LEMMA LogListKeeps ==
  ASSUME MInv, NEW u \in Upload, NEW l \in List, LogList(u, l) PROVE MInv'
<1>1. MTypeOK /\ MComposing /\ MListing /\ ListerOK(u, l) /\ ListOK(l)
      /\ u[1] \in Request
  BY Uploads DEF MInv, MListing
<1>2. /\ mMode' = mMode /\ mCrashes' = mCrashes /\ mCase' = mCase /\ mTail' = mTail
      /\ list' = list /\ UNCHANGED composing /\ storage' = storage
      /\ lister[u][l].pc = "log" /\ ListerGoTo(u, l, "return")
      /\ listerLog' = [listerLog EXCEPT ![u][l].written = TRUE]
  BY DEF LogList, ListerAt
<1>3. Later /\ Logged' = Logged /\ Logged
  BY <1>1, <1>2 DEF Later, MTypeOK, Logged, ListerOK
<1>4. /\ lister' \in [Upload -> [List -> [pc : ListerPc, found : BOOLEAN, added : BOOLEAN]]]
      /\ lister'[u][l].pc = "return" /\ lister'[u][l].added = lister[u][l].added
      /\ \A v \in Upload, k \in List : v # u \/ k # l => lister'[v][k] = lister[v][k]
  BY <1>1, <1>2, ListerGoes DEF ListerPc
<1>5. /\ listerLog' \in [Upload -> [List -> [written : BOOLEAN, read : SUBSET BOOLEAN,
                                            seqNum : Nat]]]
      /\ listerLog'[u][l].written
      /\ listerLog'[u][l].seqNum = listerLog[u][l].seqNum
      /\ \A v \in Upload, k \in List : v # u \/ k # l => listerLog'[v][k] = listerLog[v][k]
  <2> DEFINE new == [listerLog[u][l] EXCEPT !.written = TRUE]
  <2>1. listerLog[u][l] \in [written : BOOLEAN, read : SUBSET BOOLEAN, seqNum : Nat]
    BY <1>1 DEF MTypeOK
  <2>2. /\ new \in [written : BOOLEAN, read : SUBSET BOOLEAN, seqNum : Nat]
        /\ new.written = TRUE /\ new.seqNum = listerLog[u][l].seqNum
    BY <2>1
  <2>3. SetsListerLog(u, l, new)
    BY <1>1, <1>2 DEF MTypeOK, SetsListerLog
  <2> HIDE DEF new
  <2>4. /\ listerLog' \in [Upload -> [List -> [written : BOOLEAN, read : SUBSET BOOLEAN,
                                              seqNum : Nat]]]
        /\ listerLog'[u][l] = new
        /\ \A v \in Upload, k \in List : v # u \/ k # l => listerLog'[v][k] = listerLog[v][k]
    <3>1. MTypeOK
      BY <1>1
    <3>2. new \in [written : BOOLEAN, read : SUBSET BOOLEAN, seqNum : Nat]
      BY <2>2
    <3> QED
      BY <2>3, <3>1, <3>2, ListerLogSet
  <2> QED
    BY <2>2, <2>4
<1>6. MTypeOK'
  BY <1>1, <1>2, <1>3, <1>4, <1>5 DEF MTypeOK, composing
<1>7. \A q, k : InList(q, k)' <=> InList(q, k)
  BY <1>2 DEF InList
<1>8. lister'[u][l].added = lister[u][l].added
  BY <1>4
<1>9. ListerOK(u, l)'
  BY <1>1, <1>2, <1>3, <1>4, <1>5, <1>8 DEF ListerOK
<1>10. ListOK(l)'
  <2>1. ASSUME NEW q \in Request, NEW f \in Field
        PROVE  HasAdded(<<q, f>>, l)' <=> HasAdded(<<q, f>>, l)
    <3>1. <<q, f>> \in Upload
      BY DEF Upload
    <3>2. CASE <<q, f>> = u
      BY <1>2, <1>3, <1>5, <3>2 DEF HasAdded
    <3>3. CASE <<q, f>> # u
      BY <1>3, <1>4, <1>5, <3>1, <3>3 DEF HasAdded
    <3> QED
      BY <3>2, <3>3
  <2>2. ASSUME NEW q \in Request
        PROVE  Times(q, l)' = Times(q, l) /\ Adders(q, l)' = Adders(q, l)
    BY <1>2, <2>1 DEF Times, Adders
  <2> QED
    BY <1>1, <1>2, <1>3, <1>7, <2>2 DEF ListOK
<1>11. MListing'
  <2>1. list[l].version <= list'[l].version
    BY <1>1, <1>2, ListerType
  <2> QED
    BY <1>1, <1>2, <1>3, <1>4, <1>5, <1>6, <1>7, <1>9, <1>10, <2>1, ListingStep
<1>12. MComposing'
  BY <1>1, <1>2, <1>3, <1>6, ComposingKept
<1> QED
  BY <1>6, <1>11, <1>12 DEF MInv

\* ListerDies keeps it: what a dead execution has added and not logged is the
\* crash that the count allows.
LEMMA ListerDiesKeeps ==
  ASSUME MInv, NEW u \in Upload, NEW l \in List, ListerDies(u, l) PROVE MInv'
<1>1. MTypeOK /\ MComposing /\ MListing /\ ListerOK(u, l) /\ ListOK(l)
      /\ u[1] \in Request /\ u[2] \in Field /\ mCrashes \in Nat
  BY Uploads DEF MInv, MListing, MTypeOK
<1>2. /\ mMode' = mMode /\ mCrashes' = mCrashes + 1 /\ mCase' = mCase /\ mTail' = mTail
      /\ list' = list /\ listerLog' = listerLog
      /\ UNCHANGED composing /\ storage' = storage
      /\ lister[u][l].pc # "idle" /\ ListerGoTo(u, l, "read")
  BY DEF ListerDies
<1>3. Later /\ Logged' = Logged
  BY <1>1, <1>2 DEF Later, MTypeOK, Logged
<1>4. /\ lister' \in [Upload -> [List -> [pc : ListerPc, found : BOOLEAN, added : BOOLEAN]]]
      /\ lister'[u][l].pc = "read" /\ lister'[u][l].added = lister[u][l].added
      /\ \A v \in Upload, k \in List : v # u \/ k # l => lister'[v][k] = lister[v][k]
  BY <1>1, <1>2, ListerGoes DEF ListerPc
<1>5. MTypeOK'
  BY <1>1, <1>2, <1>3, <1>4 DEF MTypeOK, composing
<1>6. \A q, k : InList(q, k)' <=> InList(q, k)
  BY <1>2 DEF InList
<1>7. lister'[u][l].added = lister[u][l].added
  BY <1>4
<1>8. ListerOK(u, l)'
  BY <1>1, <1>2, <1>3, <1>4, <1>6, <1>7 DEF ListerOK
<1>9. ListOK(l)'
  <2>1. ASSUME NEW q \in Request
        PROVE  /\ ~ Logged => Adders(q, l)' = Adders(q, l)
               /\ Adders(q, l) \subseteq Adders(q, l)' \cup {u[2]}
    <3>1. ASSUME NEW f \in Field
          PROVE  \/ HasAdded(<<q, f>>, l)' <=> HasAdded(<<q, f>>, l)
                 \/ Logged /\ f = u[2]
      <4>1. <<q, f>> \in Upload /\ (f # u[2] => <<q, f>> # u)
        BY DEF Upload
      <4> QED
        BY <1>2, <1>3, <1>4, <4>1 DEF HasAdded
    <3> QED
      BY <3>1 DEF Adders
  <2>2. ASSUME NEW q \in Request
        PROVE  /\ Times(q, l)' = Times(q, l) /\ Times(q, l) \in Nat
               /\ Cardinality(Adders(q, l)) \in Nat /\ Cardinality(Adders(q, l))' \in Nat
               /\ Cardinality(Adders(q, l)) <= Cardinality(Adders(q, l))' + 1
    <3>1. IsFiniteSet(Adders(q, l)') /\ Cardinality(Adders(q, l)') \in Nat
          /\ Cardinality(Adders(q, l)) \in Nat
      BY AddersType, SubsetsOfField DEF Adders
    <3>2. /\ IsFiniteSet(Adders(q, l)' \cup {u[2]})
          /\ Cardinality(Adders(q, l)' \cup {u[2]}) <= Cardinality(Adders(q, l)') + 1
      <4>1. ASSUME NEW S, IsFiniteSet(S), Cardinality(S) \in Nat, NEW x
            PROVE  IsFiniteSet(S \cup {x}) /\ Cardinality(S \cup {x}) <= Cardinality(S) + 1
        <5>1. /\ IsFiniteSet(S \cup {x})
              /\ Cardinality(S \cup {x}) = IF x \in S THEN Cardinality(S) ELSE Cardinality(S) + 1
          BY <4>1, FS_AddElement
        <5> QED
          BY <4>1, <5>1
      <4> QED
        BY <3>1, <4>1
    <3>3. Cardinality(Adders(q, l)) <= Cardinality(Adders(q, l)' \cup {u[2]})
      BY <2>1, <3>2, FS_Subset
    <3>4. Cardinality(Adders(q, l)' \cup {u[2]}) \in Nat
      BY <3>2, FS_CardinalityType
    <3>5. Times(q, l)' = Times(q, l)
      BY <1>2 DEF Times
    <3>6. Times(q, l) \in Nat
      BY <1>1, TimesType
    <3> QED
      BY <3>1, <3>2, <3>3, <3>4, <3>5, <3>6
  <2>3. ASSUME NEW q \in Request
        PROVE  Times(q, l)' <= Cardinality(Adders(q, l))' + IF Logged' THEN mCrashes' ELSE 0
    <3>1. Times(q, l) <= Cardinality(Adders(q, l)) + IF Logged THEN mCrashes ELSE 0
      BY <1>1 DEF ListOK
    <3>2. CASE Logged
      BY <1>1, <1>2, <1>3, <2>2, <3>1, <3>2
    <3>3. CASE ~ Logged
      BY <1>3, <2>1, <2>2, <3>1, <3>3
    <3> QED
      BY <3>2, <3>3
  <2> QED
    BY <1>1, <1>2, <1>6, <2>3 DEF ListOK
<1>10. MListing'
  <2>1. list[l].version <= list'[l].version
    BY <1>1, <1>2, ListerType
  <2> QED
    BY <1>1, <1>2, <1>3, <1>4, <1>5, <1>6, <1>8, <1>9, <2>1, ListingStep
<1>11. MComposing'
  BY <1>1, <1>2, <1>3, <1>5, ComposingKept
<1> QED
  BY <1>5, <1>10, <1>11 DEF MInv

\* ReadList keeps it: a read that is logged has the newest sequence number.
LEMMA ReadListKeeps ==
  ASSUME MInv, NEW u \in Upload, NEW l \in List, ReadList(u, l) PROVE MInv'
<1>1. MTypeOK /\ MComposing /\ MListing /\ ListerOK(u, l) /\ ListOK(l)
      /\ u[1] \in Request
  BY Uploads DEF MInv, MListing
<1> DEFINE log == listerLog[u][l]
           seen == IF log.read = {} THEN {list[l].exists} ELSE log.read
           fresh == ~ Logged /\ log.read = {}
<1>2. /\ mMode' = mMode /\ mCrashes' = mCrashes /\ mCase' = mCase
      /\ list' = list /\ UNCHANGED composing /\ storage' = storage
      /\ lister[u][l].pc = "read"
  BY DEF ReadList, ListerAt
<1>3. seen \in SUBSET BOOLEAN /\ seen # {}
      /\ listerLog[u][l] \in [written : BOOLEAN, read : SUBSET BOOLEAN, seqNum : Nat]
      /\ mTail \in Nat /\ list[l].version \in Nat
  BY <1>1, ListerType, ZenonT(40) DEF MTypeOK
<1>4. /\ lister' \in [Upload -> [List -> [pc : ListerPc, found : BOOLEAN, added : BOOLEAN]]]
      /\ lister'[u][l].pc = "write" /\ lister'[u][l].added = lister[u][l].added
      /\ \A v \in Upload, k \in List : v # u \/ k # l => lister'[v][k] = lister[v][k]
  <2>1. PICK found \in seen :
          lister' = [lister EXCEPT ![u][l].pc = "write", ![u][l].found = found]
    BY DEF ReadList
  <2>2. found \in BOOLEAN
    BY <1>3, <2>1
  <2> DEFINE new == [lister[u][l] EXCEPT !.pc = "write", !.found = found]
  <2>3. lister[u][l] \in [pc : ListerPc, found : BOOLEAN, added : BOOLEAN]
    BY <1>1 DEF MTypeOK
  <2>4. /\ new \in [pc : ListerPc, found : BOOLEAN, added : BOOLEAN]
        /\ new.pc = "write" /\ new.added = lister[u][l].added
    BY <2>2, <2>3 DEF ListerPc
  <2>5. SetsLister(u, l, new)
    BY <1>1, <2>1 DEF MTypeOK, SetsLister
  <2> HIDE DEF new
  <2>6. new \in [pc : ListerPc, found : BOOLEAN, added : BOOLEAN] /\ MTypeOK
    BY <1>1, <2>4
  <2>7. /\ lister' \in [Upload -> [List -> [pc : ListerPc, found : BOOLEAN, added : BOOLEAN]]]
        /\ lister'[u][l] = new
        /\ \A v \in Upload, k \in List : v # u \/ k # l => lister'[v][k] = lister[v][k]
    BY <2>5, <2>6, ListerSet
  <2> QED
    BY <2>4, <2>7
<1>5. /\ mTail' \in Nat /\ mTail <= mTail' /\ Logged' = Logged /\ (Logged => mTail' = 0)
      /\ listerLog' \in [Upload -> [List -> [written : BOOLEAN, read : SUBSET BOOLEAN,
                                            seqNum : Nat]]]
      /\ listerLog'[u][l].written = listerLog[u][l].written
      /\ \A v \in Upload, k \in List : v # u \/ k # l => listerLog'[v][k] = listerLog[v][k]
      /\ IF fresh
         THEN /\ mTail < mTail' /\ listerLog'[u][l].seqNum = mTail'
              /\ listerLog'[u][l].read # {}
         ELSE listerLog'[u][l] = listerLog[u][l]
  <2>1. CASE fresh
    <3>1. /\ AppendEntry
          /\ listerLog' = [listerLog EXCEPT ![u][l].read = seen, ![u][l].seqNum = NextSeqNum]
      BY <2>1 DEF ReadList
    <3>2. mTail' = NextSeqNum /\ NextSeqNum \in Nat /\ mTail < mTail' /\ Logged' = Logged
      BY <1>1, <1>2, <2>1, <3>1, Numbering
    <3> DEFINE new == [log EXCEPT !.read = seen, !.seqNum = NextSeqNum]
    <3> HIDE DEF seen
    <3>3. /\ new \in [written : BOOLEAN, read : SUBSET BOOLEAN, seqNum : Nat]
          /\ new.written = log.written /\ new.seqNum = NextSeqNum /\ new.read = seen
      BY <1>3, <3>2
    <3>4. SetsListerLog(u, l, new)
      BY <1>1, <3>1 DEF MTypeOK, SetsListerLog
    <3> HIDE DEF new
    <3>5. new \in [written : BOOLEAN, read : SUBSET BOOLEAN, seqNum : Nat] /\ MTypeOK
      BY <1>1, <3>3
    <3>6. /\ listerLog' \in [Upload -> [List -> [written : BOOLEAN, read : SUBSET BOOLEAN,
                                                seqNum : Nat]]]
          /\ listerLog'[u][l] = new
          /\ \A v \in Upload, k \in List : v # u \/ k # l => listerLog'[v][k] = listerLog[v][k]
      BY <3>4, <3>5, ListerLogSet
    <3> QED
      BY <1>3, <2>1, <3>2, <3>3, <3>6
  <2>2. CASE ~ fresh
    <3>1. mTail' = mTail /\ listerLog' = listerLog
      BY <2>2 DEF ReadList
    <3> QED
      BY <1>1, <1>2, <1>3, <2>2, <3>1 DEF MTypeOK, Logged
  <2> QED
    BY <2>1, <2>2
<1>6. Later
  BY <1>1, <1>2, <1>5 DEF Later, MTypeOK
<1>7. MTypeOK'
  BY <1>1, <1>2, <1>4, <1>5 DEF MTypeOK, composing
<1>8. \A q, k : InList(q, k)' <=> InList(q, k)
  BY <1>2 DEF InList
<1>9. lister'[u][l].added = lister[u][l].added
  BY <1>4
<1>10. list[l].version <= mTail
  BY <1>1 DEF ListOK
<1>11. ListerOK(u, l)'
  <2>1. CASE ~ fresh
    <3>1. listerLog[u][l].seqNum <= mTail'
      BY <1>1, <1>3, <1>5 DEF ListerOK
    <3>2. ~ Logged => listerLog[u][l].read # {}
      BY <2>1
    <3>3. ASSUME ~ Logged, NEW v \in Upload, listerLog'[v][l].read # {},
                 listerLog'[v][l].seqNum = listerLog'[u][l].seqNum
          PROVE  v = u
      BY <1>1, <1>5, <2>1, <3>2, <3>3 DEF ListerOK
    <3> QED
      BY <1>1, <1>2, <1>4, <1>5, <1>8, <1>9, <2>1, <3>1, <3>2, <3>3 DEF ListerOK
  <2>2. CASE fresh
    <3>1. ASSUME NEW v \in Upload, listerLog'[v][l].seqNum = mTail'
          PROVE  v = u
      <4>1. SUFFICES ASSUME v # u PROVE FALSE
        OBVIOUS
      <4>2. listerLog'[v][l] = listerLog[v][l] /\ listerLog[v][l].seqNum \in Nat
        BY <1>1, <1>5, <4>1, ListerType
      <4>3. listerLog[v][l].seqNum <= mTail
        BY <1>1 DEF MListing, ListerOK
      <4> QED
        BY <1>3, <1>5, <2>2, <3>1, <4>2, <4>3
    <3>2. list'[l].version # mTail'
      BY <1>2, <1>3, <1>5, <1>10, <2>2
    <3>3. ~ Logged' /\ listerLog'[u][l].seqNum = mTail' /\ listerLog'[u][l].read # {}
      BY <1>5, <2>2
    <3> QED
      BY <1>1, <1>2, <1>4, <1>5, <3>1, <3>2, <3>3 DEF ListerOK
  <2> QED
    BY <2>1, <2>2
<1>12. ListOK(l)'
  <2>1. ASSUME NEW q \in Request, NEW f \in Field
        PROVE  HasAdded(<<q, f>>, l)' <=> HasAdded(<<q, f>>, l)
    <3>1. <<q, f>> \in Upload
      BY DEF Upload
    <3>2. CASE <<q, f>> # u
      BY <1>2, <1>4, <1>5, <3>1, <3>2 DEF HasAdded
    <3>3. CASE <<q, f>> = u /\ ~ fresh
      BY <1>2, <1>4, <1>5, <3>3 DEF HasAdded
    <3>4. CASE <<q, f>> = u /\ fresh
      <4>1. ~ (list'[l].version >= listerLog'[u][l].seqNum)
        BY <1>2, <1>3, <1>5, <1>10, <3>4
      <4> QED
        BY <1>5, <3>4, <4>1 DEF HasAdded
    <3> QED
      BY <3>2, <3>3, <3>4
  <2>2. ASSUME NEW q \in Request
        PROVE  Times(q, l)' = Times(q, l) /\ Adders(q, l)' = Adders(q, l)
    BY <1>2, <2>1 DEF Times, Adders
  <2>3. list'[l].version <= mTail'
    BY <1>2, <1>3, <1>5, <1>10
  <2> QED
    BY <1>1, <1>2, <1>5, <1>8, <2>2, <2>3 DEF ListOK
<1>13. MListing'
  <2>1. list[l].version <= list'[l].version
    BY <1>2, <1>3
  <2>2. \/ Logged
        \/ listerLog'[u][l] = listerLog[u][l]
        \/ mTail < listerLog'[u][l].seqNum
    BY <1>5
  <2> QED
    BY <1>1, <1>2, <1>4, <1>5, <1>6, <1>7, <1>8, <1>11, <1>12, <2>1, <2>2, ListingStep
<1>14. MComposing'
  BY <1>1, <1>2, <1>6, <1>7, ComposingKept
<1> QED
  BY <1>7, <1>13, <1>14 DEF MInv

\* WriteList keeps it: what it takes off the list is the exception of the others, and
\* it adds its own review once, as one of those that count.
LEMMA WriteListKeeps ==
  ASSUME MInv, NEW u \in Upload, NEW l \in List, WriteList(u, l) PROVE MInv'
<1>1. MTypeOK /\ MComposing /\ MListing /\ ListerOK(u, l) /\ ListOK(l)
      /\ u[1] \in Request /\ u[2] \in Field /\ <<u[1], u[2]>> = u
  BY Uploads DEF MInv, MListing
<1> DEFINE found == lister[u][l].found
           reviews == NewReviews(u, l, found)
           writers == (IF found THEN list[l].writers ELSE {}) \cup {u}
<1>2. /\ mMode' = mMode /\ mCrashes' = mCrashes /\ mCase' = mCase /\ mTail' = mTail
      /\ listerLog' = listerLog /\ UNCHANGED composing /\ storage' = storage
      /\ lister[u][l].pc = "write"
  BY DEF WriteList, ListerAt
<1>3. Later /\ Logged' = Logged /\ mTail \in Nat /\ mCrashes \in Nat
  BY <1>1, <1>2 DEF Later, MTypeOK, Logged
<1>4. /\ found \in BOOLEAN /\ lister[u][l].added \in BOOLEAN
      /\ list[l] \in [exists : BOOLEAN, reviews : Seq(Request), version : Nat,
                    writers : SUBSET Upload]
      /\ list[l].reviews \in Seq(Request)
      /\ listerLog[u][l].seqNum \in Nat /\ list[l].version \in Nat
      /\ storage[u[1]] # {} /\ list[l].version <= mTail
      /\ listerLog[u][l].seqNum <= mTail
  BY <1>1, <1>2, ListerType DEF ListerOK, ListOK, MTypeOK
<1>5. /\ lister' \in [Upload -> [List -> [pc : ListerPc, found : BOOLEAN, added : BOOLEAN]]]
      /\ lister'[u][l].pc = IF Logged /\ Applies(u, l) THEN "log" ELSE "return"
      /\ lister'[u][l].added = (lister[u][l].added \/ Applies(u, l))
      /\ \A v \in Upload, k \in List : v # u \/ k # l => lister'[v][k] = lister[v][k]
  <2> DEFINE pc == IF Logged /\ Applies(u, l) THEN "log" ELSE "return"
             added == lister[u][l].added \/ Applies(u, l)
             new == [lister[u][l] EXCEPT !.pc = pc, !.added = added]
  <2>1. lister[u][l] \in [pc : ListerPc, found : BOOLEAN, added : BOOLEAN]
    BY <1>1 DEF MTypeOK
  <2>2. pc \in ListerPc /\ added \in BOOLEAN
    BY DEF ListerPc
  <2>3. SetsLister(u, l, new)
    BY <1>1 DEF MTypeOK, WriteList, SetsLister
  <2> HIDE DEF pc, added
  <2>4. /\ new \in [pc : ListerPc, found : BOOLEAN, added : BOOLEAN]
        /\ new.pc = pc /\ new.added = added
    BY <2>1, <2>2
  <2> HIDE DEF new
  <2>5. new \in [pc : ListerPc, found : BOOLEAN, added : BOOLEAN] /\ MTypeOK
    BY <1>1, <2>4
  <2>6. /\ lister' \in [Upload -> [List -> [pc : ListerPc, found : BOOLEAN, added : BOOLEAN]]]
        /\ lister'[u][l] = new
        /\ \A v \in Upload, k \in List : v # u \/ k # l => lister'[v][k] = lister[v][k]
    BY <2>3, <2>5, ListerSet
  <2> QED
    BY <2>4, <2>6 DEF pc, added
<1>6. reviews \in Seq(Request) /\ writers \in SUBSET Upload
  BY <1>1, <1>4 DEF NewReviews
<1>7. /\ list' \in [List -> [exists : BOOLEAN, reviews : Seq(Request), version : Nat,
                    writers : SUBSET Upload]]
      /\ \A k \in List : k # l => list'[k] = list[k]
      /\ IF Applies(u, l)
         THEN /\ list'[l].version = listerLog[u][l].seqNum /\ list'[l].reviews = reviews
              /\ list'[l].writers = writers
         ELSE list'[l] = list[l]
  <2>1. CASE ~ Applies(u, l)
    BY <1>1, <2>1 DEF WriteList, MTypeOK
  <2>2. CASE Applies(u, l)
    <3> DEFINE new == [exists |-> TRUE, version |-> listerLog[u][l].seqNum, reviews |-> reviews,
                       writers |-> writers]
    <3>1. list' = [list EXCEPT ![l] = new]
      BY <1>1, <2>2 DEF WriteList, MTypeOK
    <3> HIDE DEF reviews, writers
    <3>2. /\ new \in [exists : BOOLEAN, reviews : Seq(Request), version : Nat,
                    writers : SUBSET Upload]
          /\ new.version = listerLog[u][l].seqNum /\ new.reviews = reviews
          /\ new.writers = writers
      BY <1>4, <1>6
    <3> HIDE DEF new
    <3> QED
      BY <1>1, <2>2, <3>1, <3>2 DEF MTypeOK
  <2> QED
    BY <2>1, <2>2
<1>8. MTypeOK'
  BY <1>1, <1>2, <1>3, <1>5, <1>7 DEF MTypeOK, composing
<1>9. list[l].version <= list'[l].version /\ list'[l].version <= mTail'
  <2>1. CASE Applies(u, l)
    <3>1. Logged => list[l].version = 0
      BY <1>1, <1>4 DEF MTypeOK
    <3>2. ~ Logged => list[l].version < listerLog[u][l].seqNum
      BY <2>1 DEF Applies
    <3> QED
      BY <1>2, <1>4, <1>7, <2>1, <3>1, <3>2
  <2>2. CASE ~ Applies(u, l)
    BY <1>2, <1>4, <1>7, <2>2
  <2> QED
    BY <2>1, <2>2
<1>10. ASSUME NEW q \in Request
       PROVE  /\ Occurrences(reviews, q) \in Nat /\ Times(q, l) \in Nat
              /\ Occurrences(reviews, q) <= Times(q, l) + IF q = u[1] THEN 1 ELSE 0
              /\ Times(q, l) = Occurrences(list[l].reviews, q)
              /\ Times(q, l)' = Occurrences(list'[l].reviews, q)
  <2>1. /\ Times(q, l) = Occurrences(list[l].reviews, q)
        /\ Times(q, l)' = Occurrences(list'[l].reviews, q)
    BY DEF Times, Occurrences
  <2>2. /\ Occurrences(list[l].reviews, q) \in Nat
        /\ Occurrences(Append(list[l].reviews, u[1]), q) =
             Occurrences(list[l].reviews, q) + IF q = u[1] THEN 1 ELSE 0
        /\ Occurrences(<<u[1]>>, q) = IF q = u[1] THEN 1 ELSE 0
    BY <1>1, <1>4, OccurrencesAfter
  <2>3. reviews = Append(list[l].reviews, u[1]) \/ reviews = <<u[1]>>
    BY DEF NewReviews
  <2> HIDE DEF reviews
  <2>4. CASE reviews = Append(list[l].reviews, u[1])
    BY <2>1, <2>2, <2>4
  <2>5. CASE reviews = <<u[1]>>
    BY <2>1, <2>2, <2>5
  <2> QED
    BY <2>3, <2>4, <2>5
<1>11. /\ Applies(u, l) => InList(u[1], l)'
       /\ ~ Applies(u, l) \/ found => \A q \in Request : InList(q, l) => InList(q, l)'
       /\ \A q \in Request : InList(q, l)' => InList(q, l) \/ q = u[1]
  <2>1. CASE ~ Applies(u, l)
    BY <1>7, <2>1 DEF InList
  <2>2. CASE Applies(u, l) /\ ~ found
    <3>1. list'[l].reviews = <<u[1]>>
      BY <1>7, <2>2 DEF NewReviews
    <3>2. DOMAIN list'[l].reviews = {1} /\ list'[l].reviews[1] = u[1]
      BY <3>1
    <3>3. \A q : InList(q, l)' <=> q = u[1]
      BY <3>2 DEF InList
    <3> HIDE DEF found
    <3> QED
      BY <2>2, <3>3
  <2>3. CASE Applies(u, l) /\ found
    <3> DEFINE s == list[l].reviews
    <3>1. list'[l].reviews = Append(s, u[1]) /\ s \in Seq(Request)
      BY <1>4, <1>7, <2>3 DEF NewReviews
    <3>2. /\ Len(s) \in Nat /\ DOMAIN s = 1 .. Len(s)
          /\ DOMAIN list'[l].reviews = 1 .. Len(s) + 1
          /\ list'[l].reviews[Len(s) + 1] = u[1]
          /\ \A i \in 1 .. Len(s) : list'[l].reviews[i] = s[i]
      BY <1>1, <3>1
    <3>3. \A i : i \in 1 .. Len(s) + 1 <=> i \in 1 .. Len(s) \/ i = Len(s) + 1
      BY <3>2
    <3>4. Len(s) + 1 \in DOMAIN list'[l].reviews
      BY <3>2
    <3>5. InList(u[1], l)'
      BY <3>2, <3>4 DEF InList
    <3>6. ASSUME NEW q \in Request, InList(q, l) PROVE InList(q, l)'
      <4>1. PICK i \in 1 .. Len(s) : s[i] = q
        BY <3>2, <3>6 DEF InList
      <4>2. i \in DOMAIN list'[l].reviews /\ list'[l].reviews[i] = q
        BY <3>2, <3>3, <4>1
      <4> QED
        BY <4>2 DEF InList
    <3>7. ASSUME NEW q \in Request, InList(q, l)' PROVE InList(q, l) \/ q = u[1]
      <4>1. PICK i \in 1 .. Len(s) + 1 : list'[l].reviews[i] = q
        BY <3>2, <3>7 DEF InList
      <4>2. i \in 1 .. Len(s) \/ i = Len(s) + 1
        BY <3>3
      <4> QED
        BY <3>2, <4>1, <4>2 DEF InList
    <3> HIDE DEF s
    <3> QED
      BY <3>5, <3>6, <3>7
  <2> QED
    BY <2>1, <2>2, <2>3
<1>12. /\ \A w \in list'[l].writers : InList(w[1], l)'
       /\ lister[u][l].added => lister'[u][l].added
       /\ Applies(u, l) => lister'[u][l].added
  <2>1. \A w \in list[l].writers : InList(w[1], l) /\ w[1] \in Request
    BY <1>1, <1>4, Uploads DEF ListOK
  <2>2. CASE ~ Applies(u, l)
    <3>1. list'[l].writers = list[l].writers
      BY <1>7, <2>2
    <3>2. \A q \in Request : InList(q, l) => InList(q, l)'
      BY <1>11, <2>2
    <3> HIDE DEF found, reviews, writers
    <3> QED
      BY <1>5, <2>1, <2>2, <3>1, <3>2
  <2>3. CASE Applies(u, l)
    <3>1. list'[l].writers = writers /\ InList(u[1], l)'
      BY <1>7, <1>11, <2>3
    <3>2. found => \A q \in Request : InList(q, l) => InList(q, l)'
      BY <1>11, <2>3
    <3>4. \A w \in writers : InList(w[1], l)'
      <4>1. CASE found
        <5>1. writers = list[l].writers \cup {u}
          BY <4>1
        <5> HIDE DEF found, reviews, writers
        <5> QED
          BY <2>1, <3>1, <3>2, <4>1, <5>1
      <4>2. CASE ~ found
        <5>1. writers = {u}
          BY <4>2
        <5> HIDE DEF found, reviews, writers
        <5> QED
          BY <3>1, <5>1
      <4> QED
        BY <4>1, <4>2
    <3> QED
      BY <1>5, <2>3, <3>1, <3>4
  <2> QED
    BY <2>2, <2>3
<1>13. ListerOK(u, l)'
  <2>1. listerLog'[u][l].seqNum <= mTail' /\ storage'[u[1]] # {}
    BY <1>2, <1>4
  <2>2. CASE Logged
    <3>1. lister'[u][l].added
      BY <1>1, <1>12, <2>2 DEF Applies, ListerOK
    <3> QED
      BY <1>2, <1>3, <1>5, <2>1, <2>2, <3>1 DEF ListerOK
  <2>3. CASE ~ Logged
    <3>1. listerLog[u][l].read # {}
      BY <1>1, <1>2, <2>3 DEF ListerOK
    <3>2. list'[l].version = listerLog[u][l].seqNum => lister'[u][l].added
      <4>1. CASE Applies(u, l)
        BY <1>12, <4>1
      <4>2. CASE ~ Applies(u, l)
        BY <1>1, <1>7, <1>12, <2>3, <3>1, <4>2 DEF ListerOK
      <4> QED
        BY <4>1, <4>2
    <3>3. lister'[u][l].added \/ list'[l].version > listerLog[u][l].seqNum
      <4>1. CASE Applies(u, l)
        BY <1>12, <4>1
      <4>2. CASE ~ Applies(u, l)
        <5>1. list'[l].version = list[l].version
              /\ ~ (list[l].version < listerLog[u][l].seqNum)
          BY <1>7, <2>3, <4>2 DEF Applies
        <5> QED
          BY <1>4, <3>2, <5>1
      <4> QED
        BY <4>1, <4>2
    <3>4. \A v \in Upload : listerLog[v][l].read # {}
             /\ listerLog[v][l].seqNum = listerLog[u][l].seqNum => v = u
      BY <1>1, <2>3, <3>1 DEF ListerOK
    <3>5. lister'[u][l].pc = "return"
      BY <1>5, <2>3
    <3> QED
      BY <1>2, <1>3, <2>1, <2>3, <3>1, <3>2, <3>3, <3>4, <3>5 DEF ListerOK
  <2> QED
    BY <2>2, <2>3
<1>14. ListOK(l)'
  <2>1. ASSUME NEW q \in Request
        PROVE  /\ Adders(q, l) \subseteq Adders(q, l)'
               /\ q = u[1] /\ Applies(u, l) =>
                    u[2] \in Adders(q, l)' /\ u[2] \notin Adders(q, l)
    <3>1. ASSUME NEW f \in Field, <<q, f>> # u, HasAdded(<<q, f>>, l)
          PROVE  HasAdded(<<q, f>>, l)'
      <4>1. <<q, f>> \in Upload
        BY DEF Upload
      <4>2. listerLog[<<q, f>>][l].seqNum \in Nat
        BY <1>1, <4>1, ListerType
      <4>3. list'[l].version \in Nat
        BY <1>8 DEF MTypeOK
      <4>4. lister'[<<q, f>>][l] = lister[<<q, f>>][l] /\ listerLog' = listerLog
        BY <1>2, <1>5, <3>1, <4>1
      <4>5. CASE Logged
        BY <1>3, <3>1, <4>4, <4>5 DEF HasAdded
      <4>6. CASE ~ Logged
        BY <1>3, <1>4, <1>9, <3>1, <4>2, <4>3, <4>4, <4>6 DEF HasAdded
      <4> QED
        BY <4>5, <4>6
    <3>2. /\ HasAdded(u, l) => HasAdded(u, l)'
          /\ Applies(u, l) => HasAdded(u, l)' /\ ~ HasAdded(u, l)
      <4>1. CASE Logged
        BY <1>2, <1>3, <1>5, <4>1 DEF HasAdded, Applies
      <4>2. CASE ~ Logged
        <5>1. listerLog[u][l].read # {} /\ list'[l].version \in Nat
          BY <1>1, <1>2, <1>8, <4>2 DEF ListerOK, MTypeOK
        <5>2. Applies(u, l) => list[l].version < listerLog[u][l].seqNum
                               /\ list'[l].version = listerLog[u][l].seqNum
          BY <1>7, <4>2 DEF Applies
        <5> QED
          BY <1>2, <1>3, <1>4, <1>9, <4>2, <5>1, <5>2 DEF HasAdded
      <4> QED
        BY <4>1, <4>2
    <3>3. \A f \in Field : HasAdded(<<q, f>>, l) => HasAdded(<<q, f>>, l)'
      BY <3>1, <3>2
    <3> QED
      BY <1>1, <3>2, <3>3 DEF Adders
  <2>2. ASSUME NEW q \in Request
        PROVE  Times(q, l)' <= Cardinality(Adders(q, l))' + IF Logged' THEN mCrashes' ELSE 0
    <3>1. /\ IsFiniteSet(Adders(q, l)) /\ IsFiniteSet(Adders(q, l)')
          /\ Cardinality(Adders(q, l)) \in Nat /\ Cardinality(Adders(q, l)') \in Nat
      BY AddersType, SubsetsOfField DEF Adders
    <3>2. Cardinality(Adders(q, l)) <= Cardinality(Adders(q, l)')
      BY <2>1, <3>1, FS_Subset
    <3>3. q = u[1] /\ Applies(u, l) =>
            Cardinality(Adders(q, l)) + 1 <= Cardinality(Adders(q, l)')
      <4>1. SUFFICES ASSUME q = u[1], Applies(u, l)
                     PROVE  Cardinality(Adders(q, l)) + 1 <= Cardinality(Adders(q, l)')
        OBVIOUS
      <4>2. Cardinality(Adders(q, l)) # Cardinality(Adders(q, l)')
        BY <2>1, <3>1, <4>1, FS_Subset
      <4> QED
        BY <3>1, <3>2, <4>2
    <3>4. /\ Times(q, l)' \in Nat /\ Times(q, l) \in Nat
          /\ Times(q, l)' <= Times(q, l) + IF q = u[1] /\ Applies(u, l) THEN 1 ELSE 0
      BY <1>7, <1>10
    <3>5. Times(q, l) <= Cardinality(Adders(q, l)) + IF Logged THEN mCrashes ELSE 0
      BY <1>1 DEF ListOK
    <3> DEFINE extra == IF Logged THEN mCrashes ELSE 0
    <3>6. extra \in Nat /\ extra = IF Logged' THEN mCrashes' ELSE 0
      BY <1>2, <1>3
    <3> HIDE DEF extra
    <3>7. Times(q, l) <= Cardinality(Adders(q, l)) + extra
      BY <3>5 DEF extra
    <3>8. Times(q, l)' <= Cardinality(Adders(q, l)') + extra
      BY <3>1, <3>2, <3>3, <3>4, <3>6, <3>7
    <3> QED
      BY <3>6, <3>8
  <2>3. \A q \in Request : InList(q, l)' => storage'[q] # {}
    BY <1>1, <1>2, <1>4, <1>11 DEF ListOK
  <2> QED
    BY <1>9, <1>12, <2>2, <2>3 DEF ListOK
<1>15. MListing'
  <2>1. \/ list'[l] = list[l]
        \/ Logged
        \/ /\ list'[l].version = listerLog[u][l].seqNum
           /\ listerLog[u][l].read # {} /\ listerLog'[u][l] = listerLog[u][l]
    BY <1>1, <1>2, <1>7 DEF ListerOK
  <2> QED
    BY <1>1, <1>2, <1>3, <1>5, <1>7, <1>8, <1>9, <1>11, <1>13, <1>14, <2>1, ListingStep
<1>16. MComposing'
  BY <1>1, <1>2, <1>3, <1>8, ComposingKept
<1> QED
  BY <1>8, <1>15, <1>16 DEF MInv

-----------------------------------------------------------------------------
\* The invariant holds in the initial states.
LEMMA MInitInv == ASSUME MediaInit PROVE MInv
<1>1. mCase \in Cases /\ mTail = 0 /\ mCrashes = 0 /\ mMode \in {"WRITELOG", "READLOG"}
      /\ mCase.done \subseteq Upload
  BY MediaAssumption DEF MediaInit, Upload
<1>2. ASSUME NEW q \in Request
      PROVE  /\ compose[q].fields = {f \in Field : <<q, f>> \in mCase.done}
             /\ compose[q].counter = Cardinality(compose[q].fields)
             /\ compose[q].version = 0 /\ compose[q].exists \in BOOLEAN
             /\ storage[q] = {}
             /\ compose[q].fields # Field
             /\ compose[q] \in [exists : BOOLEAN, fields : SUBSET Field,
                                counter : Nat, version : Nat]
  <2> DEFINE A == {f \in Field : <<q, f>> \in mCase.done}
  <2>1. compose[q] = ItemOf(A) /\ storage[q] = {}
    BY DEF MediaInit
  <2>2. A \in SUBSET Field /\ A # Field
    BY <1>1, MediaAssumption
  <2>3. Cardinality(A) \in Nat
    BY <2>2, SubsetsOfField
  <2> HIDE DEF A
  <2>4. /\ ItemOf(A).fields = A /\ ItemOf(A).counter = Cardinality(A) /\ ItemOf(A).version = 0
        /\ ItemOf(A).exists \in BOOLEAN
        /\ ItemOf(A) \in [exists : BOOLEAN, fields : SUBSET Field, counter : Nat, version : Nat]
    BY <2>2, <2>3 DEF ItemOf
  <2> QED
    BY <2>1, <2>2, <2>4 DEF A
<1>3. NotRead \in Item /\ NotRead.counter = 0 /\ NotRead.fields = {}
  BY DEF NotRead, Item
<1>4. ASSUME NEW u \in Upload
      PROVE  /\ upload[u].pc = IF u \in mCase.done THEN "done" ELSE "idle"
             /\ upload[u].item = NotRead
             /\ uploadLog[u] = [seqNum |-> 0, written |-> FALSE, read |-> {}]
             /\ \A l \in List :
                  /\ lister[u][l] = [pc |-> "idle", found |-> FALSE, added |-> FALSE]
                  /\ listerLog[u][l] = [written |-> FALSE, read |-> {}, seqNum |-> 0]
  BY DEF MediaInit
<1>5. \A l \in List :
        list[l] = [exists |-> FALSE, reviews |-> <<>>, version |-> 0, writers |-> {}]
  BY DEF MediaInit
<1>6. MTypeOK
  <2>1. compose \in [Request -> [exists : BOOLEAN, fields : SUBSET Field,
                                 counter : Nat, version : Nat]]
    BY <1>2 DEF MediaInit
  <2>2. /\ upload \in [Upload -> [pc : UploadPc, item : Item]]
        /\ uploadLog \in [Upload -> [seqNum : Nat, written : BOOLEAN, read : SUBSET Item]]
    BY <1>3 DEF MediaInit, UploadPc
  <2>3. lister \in [Upload -> [List -> [pc : ListerPc, found : BOOLEAN, added : BOOLEAN]]]
    BY DEF MediaInit, ListerPc
  <2>4. listerLog \in [Upload -> [List -> [written : BOOLEAN, read : SUBSET BOOLEAN,
                                           seqNum : Nat]]]
    BY DEF MediaInit
  <2>5. list \in [List -> [exists : BOOLEAN, reviews : Seq(Request), version : Nat,
                    writers : SUBSET Upload]]
        /\ storage \in [Request -> SUBSET Field]
    BY DEF MediaInit
  <2> QED
    BY <1>1, <2>1, <2>2, <2>3, <2>4, <2>5 DEF MTypeOK
<1>7. ASSUME NEW q \in Request
      PROVE  ComposeOK(q) /\ CompleteOK(q)
  <2>1. Cardinality(compose[q].fields) \in Nat /\ Cardinality(compose[q].fields) # Cardinality(Field)
        /\ (Cardinality(compose[q].fields) = 0 <=> compose[q].fields = {})
    BY <1>2, <1>6, ComposeType, SubsetsOfField
  <2> QED
    BY <1>1, <1>2, <2>1 DEF ComposeOK, CompleteOK, Complete, Recounted
<1>8. ASSUME NEW u \in Upload
      PROVE  UploadOK(u)
  <2>1. u[1] \in Request /\ u[2] \in Field /\ <<u[1], u[2]>> = u
    BY Uploads
  <2>2. u \in mCase.done <=> u[2] \in compose[u[1]].fields
    BY <1>2, <2>1
  <2>3. ItemOK(u[1], NotRead)
    BY <1>3, <1>6, <1>7, <2>1, ComposeType, SubsetsOfField DEF ItemOK, ComposeOK
  <2>4. compose[u[1]].version = 0
    BY <1>2, <2>1
  <2> QED
    BY <1>1, <1>4, <2>2, <2>3, <2>4 DEF UploadOK
<1>9. ASSUME NEW u \in Upload, NEW l \in List
      PROVE  ListerOK(u, l)
  BY <1>1, <1>4 DEF ListerOK
<1>10. ASSUME NEW l \in List
       PROVE  ListOK(l)
  <2>1. \A q : ~ InList(q, l)
    BY <1>5 DEF InList
  <2>2. ASSUME NEW q \in Request
        PROVE  Times(q, l) = 0 /\ Cardinality(Adders(q, l)) \in Nat
    BY <1>6, <2>1, TimesType, AddersType
  <2> QED
    BY <1>1, <1>5, <2>1, <2>2 DEF ListOK
<1> QED
  BY <1>6, <1>7, <1>8, <1>9, <1>10 DEF MInv, MComposing, MListing

\* Every step keeps it.
LEMMA MNextInv == ASSUME MInv, [MediaNext]_mediaVars PROVE MInv'
<1>1. CASE UNCHANGED mediaVars
  <2>1. MTypeOK /\ MComposing /\ MListing /\ UNCHANGED <<composing, listing, storage>>
    BY <1>1 DEF mediaVars, MInv, composing, listing
  <2>2. MTypeOK' /\ Later
    BY <1>1, <2>1 DEF mediaVars, MTypeOK, Later, Logged
  <2> QED
    BY <2>1, <2>2, ComposingKept, ListingKept DEF MInv
<1>2. ASSUME NEW q \in Request, UploadReq(q) PROVE MInv'
  BY <1>2, UploadReqKeeps
<1>3. ASSUME NEW q \in Request, NEW f \in Field, UploadStep(q, f) PROVE MInv'
  <2> DEFINE u == <<q, f>>
  <2>1. u \in Upload /\ u[1] = q /\ u[2] = f
    BY DEF Upload
  <2> HIDE DEF u
  <2>2. \/ Send(u[1], u[2]) \/ WriteField(u[1], u[2]) \/ LogField(u) \/ TryCompose(u[1], u[2])
        \/ InvokeStore(u[1], u[2]) \/ InvokeLists(u)
    BY <1>3, <2>1 DEF UploadStep, u
  <2> QED
    BY <2>1, <2>2, SendKeeps, WriteFieldKeeps, LogFieldKeeps, TryComposeKeeps,
       InvokeStoreKeeps, InvokeListsKeeps
<1>4. ASSUME NEW u \in Upload, UploadDies(u) PROVE MInv'
  BY <1>4, UploadDiesKeeps
<1>5. ASSUME NEW u \in Upload, NEW l \in List, ListerStep(u, l) \/ ListerDies(u, l) PROVE MInv'
  BY <1>5, ReadListKeeps, WriteListKeeps, LogListKeeps, ListerReturnsKeeps, ListerDiesKeeps
     DEF ListerStep
<1> QED
  BY <1>1, <1>2, <1>3, <1>4, <1>5 DEF MediaNext

\* The invariant holds in every state.
THEOREM MInvHolds == MediaSpec => []MInv
BY MInitInv, MNextInv, PTL DEF MediaSpec

\* When all uploads are done, none is left that will find the complete item: so one
\* has found it, and what it stored is complete.
LEMMA MInvReviews == ASSUME MInv PROVE ReviewIsComposed
<1>1. MTypeOK /\ MComposing
  BY DEF MInv
<1>2. ASSUME NEW q \in Request
      PROVE  ComposeOK(q) /\ CompleteOK(q) /\ Cardinality(compose[q].fields) \in Nat
  BY <1>1, ComposeType DEF MComposing
<1>3. ASSUME NEW q \in Request, \A f \in Field : At(<<q, f>>, "done"),
             compose[q].counter = Cardinality(Field)
      PROVE  storage[q] = Field
  <2>1. ~ \E f \in Field : Completes(<<q, f>>)
    BY <1>3 DEF At, Completes
  <2>2. ~ Recounted(q)
    <3>1. CASE ~ Logged
      BY <1>2, <3>1 DEF ComposeOK
    <3>2. CASE Logged
      <4>1. ASSUME NEW f \in Field
            PROVE  f \in compose[q].fields
        <5>1. <<q, f>> \in Upload /\ <<q, f>>[1] = q /\ <<q, f>>[2] = f
          BY DEF Upload
        <5>2. UploadOK(<<q, f>>)
          BY <1>1, <5>1 DEF MComposing
        <5>3. upload[<<q, f>>].pc = "done"
          BY <1>3 DEF At
        <5> QED
          BY <3>2, <5>1, <5>2, <5>3 DEF UploadOK
      <4>2. compose[q].fields = Field
        BY <1>1, <4>1, ComposeType
      <4> QED
        BY <1>2, <1>3, <4>2 DEF Recounted
    <3> QED
      BY <3>1, <3>2
  <2> QED
    BY <1>2, <1>3, <2>1, <2>2 DEF CompleteOK, Complete
<1> QED
  BY <1>2, <1>3 DEF ReviewIsComposed, ComposeOK

\* The listers that have added a review are among those that were started.
LEMMA MInvLists == ASSUME MInv PROVE ListsKeepReviews
<1>1. MTypeOK /\ MListing
  BY DEF MInv
<1>2. ASSUME NEW l \in List, NEW u \in Upload
      PROVE  /\ ListerDone(u, l) =>
                  \/ lister[u][l].added
                  \/ ~ Logged /\ list[l].version > listerLog[u][l].seqNum
             /\ Times(u[1], l) > 0 => storage[u[1]] # {}
  <2>1. u[1] \in Request /\ ListerOK(u, l) /\ ListOK(l)
    BY <1>1, Uploads DEF MListing
  <2>2. Times(u[1], l) > 0 <=> InList(u[1], l)
    BY <1>1, <2>1, TimesType
  <2> QED
    BY <2>1, <2>2 DEF ListerDone, ListerOK, ListOK
<1>5. ASSUME NEW l \in List, NEW u \in list[l].writers
      PROVE  Times(u[1], l) > 0
  <2>1. u \in Upload
    BY <1>1 DEF MTypeOK
  <2>2. u[1] \in Request /\ InList(u[1], l)
    BY <1>1, <2>1, Uploads DEF MListing, ListOK
  <2> QED
    BY <1>1, <2>2, TimesType
<1>3. ASSUME NEW l \in List, NEW q \in Request
      PROVE  Times(q, l) <= Cardinality(Listers(q, l)) + IF Logged THEN mCrashes ELSE 0
  <2>1. Adders(q, l) \subseteq Listers(q, l)
    <3>1. ASSUME NEW f \in Field, HasAdded(<<q, f>>, l)
          PROVE  lister[<<q, f>>][l].pc # "idle"
      <4>1. ListerOK(<<q, f>>, l)
        BY <1>1 DEF MListing, Upload
      <4> QED
        BY <3>1, <4>1 DEF HasAdded, ListerOK
    <3> QED
      BY <3>1 DEF Adders, Listers
  <2>2. IsFiniteSet(Listers(q, l)) /\ Cardinality(Listers(q, l)) \in Nat
        /\ Cardinality(Adders(q, l)) \in Nat /\ Times(q, l) \in Nat /\ mCrashes \in Nat
    BY <1>1, SubsetsOfField, AddersType, TimesType DEF Listers, MTypeOK
  <2>3. Cardinality(Adders(q, l)) <= Cardinality(Listers(q, l))
    BY <2>1, <2>2, FS_Subset
  <2>4. Times(q, l) <= Cardinality(Adders(q, l)) + IF Logged THEN mCrashes ELSE 0
    BY <1>1 DEF MListing, ListOK
  <2> QED
    BY <2>2, <2>3, <2>4
<1> QED
  BY <1>2, <1>3, <1>5 DEF ListsKeepReviews

(***************************************************************************)
(* Once all fields were sent and counted the review is stored, with all of *)
(* them; a review is stored without a field, or a field counted twice,     *)
(* only with logged writes and after a crash.                              *)
(***************************************************************************)
THEOREM ReviewsAreComposed == MediaSpec => []ReviewIsComposed
BY MInvHolds, MInvReviews, PTL

(***************************************************************************)
(* A lister that is done has added its review, unless it was overtaken;    *)
(* the review stays in the list, until a lister that found no list writes  *)
(* it anew; it is there no more often than its listers, and than crashes   *)
(* with logged writes, allow; and whatever is in a list is stored.         *)
(***************************************************************************)
THEOREM ReviewsAreKept == MediaSpec => []ListsKeepReviews
BY MInvHolds, MInvLists, PTL

-----------------------------------------------------------------------------
(***************************************************************************)
(* Page.  The counter of the WaitGroup is the number of goroutines that    *)
(* are still to count down: while the movie info is looked up, three, that *)
(* goroutine and the two that it will start, and the one of the reviews.   *)
(***************************************************************************)
Calling(e, i) == IF i \in calls[e] THEN 1 ELSE 0

CounterOK(e) ==
  IF infoAt[e] = "done"
  THEN wg[e] = Calling(e, "reviews") + Calling(e, "castInfo") + Calling(e, "plot")
  ELSE wg[e] = Calling(e, "reviews") + IF infoAt[e] = "lost" THEN 2 ELSE 3

GoroutinesOK(e) ==
  /\ "movieInfo" \in calls[e] <=> infoAt[e] = "idle"
  /\ infoAt[e] # "done" => calls[e] \subseteq {"movieInfo", "reviews"}
  /\ CounterOK(e)

PageOK(e) ==
  CASE page[e] = "wait" -> GoroutinesOK(e)
    [] page[e] = "returned" -> calls[e] = {} /\ infoAt[e] \in {"idle", "done"}
    [] OTHER -> calls[e] = {} /\ infoAt[e] = "idle"

PageInv ==
  /\ page \in [PageExecution ->
       {"idle", "movieInfo", "reviews", "go", "wait", "returned"}]
  /\ infoAt \in [PageExecution -> {"idle", "castInfo", "plot", "lost", "done"}]
  /\ calls \in [PageExecution -> SUBSET Invocation]
  /\ wg \in [PageExecution -> Int]
  /\ \A e \in PageExecution : PageOK(e)

LEMMA PageStepKeeps ==
  ASSUME PageInv, NEW e \in PageExecution, PageStep(e) PROVE PageInv'
<1> USE DEF PageInv, PageOK, GoroutinesOK, CounterOK, Calling, Invocation
<1>1. CASE StartPage(e)
  BY <1>1 DEF StartPage
<1>2. CASE ProposeFirst(e, "movieInfo") \/ ProposeFirst(e, "reviews")
  BY <1>2 DEF ProposeFirst
<1>3. CASE Go(e)
  BY <1>3 DEF Go
<1>4. ASSUME NEW i \in Invocation, CallReturns(e, i) PROVE PageInv'
  <2>1. page[e] = "wait" /\ GoroutinesOK(e)
    BY <1>4 DEF CallReturns
  <2>2. \A x \in PageExecution \ {e} :
          calls'[x] = calls[x] /\ infoAt'[x] = infoAt[x] /\ wg'[x] = wg[x] /\ page'[x] = page[x]
    BY <1>4 DEF CallReturns
  <2>3. GoroutinesOK(e)'
    <3>1. CASE i = "movieInfo"
      BY <1>4, <2>1, <3>1 DEF CallReturns
    <3>2. CASE i = "reviews"
      BY <1>4, <2>1, <3>2 DEF CallReturns
    <3>3. CASE i \in {"castInfo", "plot"}
      BY <1>4, <2>1, <3>3 DEF CallReturns
    <3> QED BY <3>1, <3>2, <3>3
  <2> QED BY <1>4, <2>1, <2>2, <2>3 DEF CallReturns
<1>5. CASE ProposeSecond(e, "castInfo") \/ ProposeSecond(e, "plot")
  <2>1. page[e] = "wait" /\ GoroutinesOK(e)
    BY <1>5 DEF ProposeSecond
  <2> QED BY <1>5, <2>1 DEF ProposeSecond
<1>6. CASE PageReturns(e)
  BY <1>6 DEF PageReturns
<1> QED BY <1>1, <1>2, <1>3, <1>4, <1>5, <1>6 DEF PageStep

THEOREM PageInvHolds == PageSpec => []PageInv
<1>1. PageInit => PageInv
  BY DEF PageInit, PageInv, PageOK, GoroutinesOK
<1>2. PageInv /\ [PageNext]_pageVars => PageInv'
  <2>1. PageInv /\ UNCHANGED pageVars => PageInv'
    BY DEF PageInv, PageOK, GoroutinesOK, CounterOK, Calling, pageVars
  <2> QED BY <2>1, PageStepKeeps DEF PageNext
<1> QED BY <1>1, <1>2, PTL DEF PageSpec

(***************************************************************************)
(* Whatever calls return and whatever steps are lost: an execution of      *)
(* ReadPage that waits has a goroutine that is still to count down, or the *)
(* counter is zero, unless the goroutine of the movie info has lost a step *)
(* (page.go:31-76).                                                        *)
(***************************************************************************)
THEOREM PagesDoEnd == PageSpec => []PagesEnd
<1>1. PageInv => PagesEnd
  <2> SUFFICES ASSUME PageInv, NEW e \in PageExecution, page[e] = "wait", infoAt[e] # "lost"
               PROVE Goroutines(e) \/ wg[e] = 0
      BY DEF PagesEnd
  <2> QED BY DEF PageInv, PageOK, GoroutinesOK, CounterOK, Calling, Goroutines
<1> QED BY <1>1, PageInvHolds, PTL

-----------------------------------------------------------------------------
(***************************************************************************)
(* Demo.  main is sequential, so the invariant says what is there at each  *)
(* of its steps: the streams of the metric and of the monitor, and the     *)
(* items that their entries name.                                          *)
(***************************************************************************)
V0 == Metric \o <<"v0">>
V1 == Metric \o <<"v1">>
Warning == Ts2 \o <<3>>
LogEntry(n, value) == [seqnum |-> n, value |-> value]
Warned == Metrics[1] >= Threshold

MetricLog ==
  IF demoPc < 7 THEN <<>> ELSE IF demoPc < 10 THEN <<LogEntry(2, V0)>>
  ELSE <<LogEntry(2, V0), LogEntry(4, V1)>>

MonitorLog ==
  IF demoPc < 8 THEN <<>> ELSE IF demoPc = 13 /\ Warned
  THEN <<LogEntry(3, <<"init">>), LogEntry(5, Warning)>> ELSE <<LogEntry(3, <<"init">>)>>

LogsAre ==
  /\ EntriesOf(Metric) = MetricLog
  /\ EntriesOf(Ts2) = MonitorLog
  /\ seqnum = IF demoPc < 7 THEN 1 ELSE IF demoPc = 7 THEN 2 ELSE IF demoPc < 10 THEN 3
              ELSE IF demoPc = 13 /\ Warned THEN 5 ELSE 4

Holds(key, value) == key \in DOMAIN dbEntries /\ dbEntries[key] = value

DemoInv ==
  /\ demoPc \in 1 .. 13
  /\ LogsAre
  /\ cursor = IF demoPc < 8 THEN 0 ELSE 3
  /\ demoPc >= 7 => Holds(V0, Metrics[1])
  /\ demoPc >= 10 => Holds(V1, Metrics[2])
  /\ demoPc = 13 /\ Warned => Holds(Warning, Metrics[1])
  /\ demoPc \in {6, 7, 8} => observed = <<>>
  /\ demoPc \in {9, 10, 11} => observed = <<Metrics[1]>>
  /\ demoPc \in {12, 13} => observed = <<Metrics[1], Metrics[1]>>

LEMMA MetricsAre ==
  Metrics[1] \in Nat /\ Metrics[2] \in Nat /\ Threshold \in Nat /\ Threshold > 0
<1>1. Metrics \in Seq(Nat) /\ 1 \in 1 .. Len(Metrics) /\ 2 \in 1 .. Len(Metrics)
  BY DemoAssumption
<1>2. \A n \in 1 .. Len(Metrics) : Metrics[n] \in Nat
  BY <1>1
<1>3. Threshold \in Nat /\ Threshold > 0
  BY DemoAssumption
<1> QED BY <1>1, <1>2, <1>3

LEMMA PairOf ==
  ASSUME NEW a, NEW b
  PROVE  Append(<<a>>, b) = <<a, b>> /\ <<a>> \o <<b>> = <<a, b>>
<1> DEFINE pair == [n \in 1 .. 2 |-> IF n = 1 THEN a ELSE b]
<1>0. <<a>> \in Seq({a, b}) /\ <<b>> \in Seq({a, b}) /\ Len(<<a>>) = 1 /\ Len(<<b>>) = 1
      /\ <<a>>[1] = a /\ <<b>>[1] = b
  OBVIOUS
<1>1. Append(<<a>>, b) = pair
  <2>1. Append(<<a>>, b) \in Seq({a,b}) /\ Len(Append(<<a>>, b)) = 2
    BY <1>0
  <2>2. DOMAIN Append(<<a>>, b) = 1 .. 2 /\ \A n \in 1 .. 2 : Append(<<a>>, b)[n] = pair[n]
    BY <1>0, <2>1
  <2>3. Append(<<a>>, b) = [n \in 1 .. 2 |-> Append(<<a>>, b)[n]]
    BY <2>1, <2>2
  <2> QED BY <2>2, <2>3
<1>2. <<a, b>> = pair
  OBVIOUS
<1>3. <<a>> \o <<b>> = pair
  <2>1. <<a>> \o <<b>> \in Seq({a,b}) /\ Len(<<a>> \o <<b>>) = 2
    BY <1>0
  <2>2. DOMAIN (<<a>> \o <<b>>) = 1 .. 2 /\ \A n \in 1 .. 2 : (<<a>> \o <<b>>)[n] = pair[n]
    BY <1>0, <2>1
  <2>3. <<a>> \o <<b>> = [n \in 1 .. 2 |-> (<<a>> \o <<b>>)[n]]
    BY <2>1, <2>2
  <2> QED BY <2>2, <2>3
<1> QED BY <1>1, <1>2, <1>3

\* No two keys are one.
LEMMA KeysAre ==
  /\ V0 = <<"metric", "v0">> /\ V1 = <<"metric", "v1">> /\ Warning = <<"ts2", 3>>
  /\ V0 # V1 /\ V0 # Warning /\ V1 # Warning
  /\ Metric # Ts2 /\ Metric # V0 /\ Metric # V1 /\ Metric # Warning
  /\ Ts1 # V0 /\ Ts1 # V1 /\ Ts1 # Warning
<1>1. V0 = <<"metric", "v0">> /\ V1 = <<"metric", "v1">> /\ Warning = <<"ts2", 3>>
  BY PairOf DEF V0, V1, Warning, Metric, Ts2
<1>2. V0 # V1 /\ V0 # Warning /\ V1 # Warning
  BY <1>1
<1>3. Metric # Ts2 /\ Len(Metric) = 1 /\ Len(Ts1) = 1
  BY DEF Metric, Ts1, Ts2
<1>4. Len(V0) = 2 /\ Len(V1) = 2 /\ Len(Warning) = 2
  BY <1>1
<1> QED BY <1>1, <1>2, <1>3, <1>4

LEMMA AppendIs ==
  ASSUME NEW tag, NEW value, NEW other, other # tag, LogAppend(tag, value)
  PROVE  /\ seqnum' = seqnum + 1
         /\ EntriesOf(tag)' = Append(EntriesOf(tag), LogEntry(seqnum + 1, value))
         /\ EntriesOf(other)' = EntriesOf(other)
<1>1. seqnum' = seqnum + 1
  BY DEF LogAppend
<1>2. PICK entry : entry = LogEntry(seqnum + 1, value)
  OBVIOUS
<1>3. logs' = Updated(logs, tag, Append(EntriesOf(tag), entry))
  BY <1>1, <1>2 DEF LogAppend, LogEntry
<1>4. /\ DOMAIN logs' = DOMAIN logs \cup {tag}
      /\ logs'[tag] = Append(EntriesOf(tag), entry)
      /\ \A t \in DOMAIN logs : t # tag => logs'[t] = logs[t]
  BY <1>3 DEF Updated
<1>5. EntriesOf(tag)' = Append(EntriesOf(tag), entry)
  BY <1>4 DEF EntriesOf
<1>6. EntriesOf(other)' = EntriesOf(other)
  BY <1>4 DEF EntriesOf
<1> QED BY <1>1, <1>2, <1>5, <1>6

\* What a read finds in a stream of one entry, or of two.
LEMMA ReadOfOne ==
  ASSUME NEW tag, NEW n \in Nat, NEW value, EntriesOf(tag) = <<LogEntry(n, value)>>,
         NEW upTo \in Nat \ {0}, n <= upTo
  PROVE  HMRead(tag, upTo) = UnsafeRead(value)
<1>1. EntriesOf(tag)[1].seqnum = n /\ EntriesOf(tag)[1].value = value
  BY DEF LogEntry
<1>2. DOMAIN EntriesOf(tag) = {1}
  OBVIOUS
<1>3. LogRead(tag, upTo) = <<EntriesOf(tag)[1]>>
  BY <1>1, <1>2 DEF LogRead
<1> QED BY <1>1, <1>3 DEF HMRead

LEMMA ReadOfTwo ==
  ASSUME NEW tag, NEW m \in Nat, NEW n \in Nat, m < n, NEW v, NEW w,
         EntriesOf(tag) = <<LogEntry(m, v), LogEntry(n, w)>>,
         NEW upTo \in Nat \ {0}, m <= upTo
  PROVE  HMRead(tag, upTo) = IF n <= upTo THEN UnsafeRead(w) ELSE UnsafeRead(v)
<1>1. /\ EntriesOf(tag)[1].seqnum = m /\ EntriesOf(tag)[1].value = v
      /\ EntriesOf(tag)[2].seqnum = n /\ EntriesOf(tag)[2].value = w
  BY DEF LogEntry
<1>2. DOMAIN EntriesOf(tag) = {1, 2}
  OBVIOUS
<1>3. CASE n <= upTo
  <2>1. {k \in DOMAIN EntriesOf(tag) : EntriesOf(tag)[k].seqnum <= upTo} = {1, 2}
    BY <1>1, <1>2, <1>3
  <2>2. (CHOOSE k \in {1, 2} : \A l \in {1, 2} : l <= k) = 2
    OBVIOUS
  <2>3. LogRead(tag, upTo) = <<EntriesOf(tag)[2]>>
    BY <2>1, <2>2 DEF LogRead
  <2> QED BY <1>1, <1>3, <2>3 DEF HMRead
<1>4. CASE ~ n <= upTo
  <2>1. {k \in DOMAIN EntriesOf(tag) : EntriesOf(tag)[k].seqnum <= upTo} = {1}
    BY <1>1, <1>2, <1>4
  <2>2. (CHOOSE k \in {1} : \A l \in {1} : l <= k) = 1
    OBVIOUS
  <2>3. LogRead(tag, upTo) = <<EntriesOf(tag)[1]>>
    BY <2>1, <2>2 DEF LogRead
  <2> QED BY <1>1, <1>4, <2>3 DEF HMRead
<1> QED BY <1>3, <1>4

LEMMA LogsUnchanged ==
  ASSUME UNCHANGED logs, NEW tag PROVE EntriesOf(tag)' = EntriesOf(tag)
BY DEF EntriesOf

\* A write to another key leaves a value there.
LEMMA HoldsStays ==
  ASSUME NEW key, NEW value, NEW other, NEW v, other # key, Holds(other, v),
         dbEntries' = Updated(dbEntries, key, value)
  PROVE  Holds(other, v)'
BY DEF Holds, Updated

LEMMA HoldsWritten ==
  ASSUME NEW key, NEW value, dbEntries' = Updated(dbEntries, key, value)
  PROVE  Holds(key, value)'
BY DEF Holds, Updated

-----------------------------------------------------------------------------
LEMMA UnsafeKeeps ==
  ASSUME DemoInv, UnsafeUpdateMetric \/ UnsafeMonitorReads \/ UnsafeMonitorWrites
  PROVE  DemoInv'
<1>1. UNCHANGED <<logs, seqnum, cursor>> /\ demoPc \in 1 .. 5 /\ demoPc' = demoPc + 1
  BY DEF UnsafeUpdateMetric, UnsafeMonitorReads, UnsafeMonitorWrites, DoAt
<1>2. LogsAre'
  BY <1>1, LogsUnchanged DEF LogsAre, DemoInv, MetricLog, MonitorLog
<1>3. demoPc' = 6 => observed' = <<>>
  BY <1>1 DEF UnsafeUpdateMetric, UnsafeMonitorReads, UnsafeMonitorWrites, DoAt
<1> QED BY <1>1, <1>2, <1>3 DEF DemoInv

LEMMA UpdateKeeps == ASSUME DemoInv, HalfmoonUpdateMetric PROVE DemoInv'
<1>1. CASE demoPc = 6
  <2>1. HMWrite(Metric, Metrics[1], "v0") /\ demoPc' = 7 /\ UNCHANGED <<cursor, observed>>
    BY <1>1 DEF HalfmoonUpdateMetric, DoAt, NewMetric
  <2>2. EntriesOf(Metric) = <<>> /\ EntriesOf(Ts2) = <<>> /\ seqnum = 1
    BY <1>1 DEF DemoInv, LogsAre, MetricLog, MonitorLog
  <2>3. LogAppend(Metric, V0) /\ dbEntries' = Updated(dbEntries, V0, Metrics[1])
    BY <2>1, <2>2 DEF HMWrite, LogRead, V0
  <2>4. /\ seqnum' = 2 /\ EntriesOf(Ts2)' = <<>>
        /\ EntriesOf(Metric)' = <<LogEntry(2, V0)>>
    BY <2>2, <2>3, AppendIs, KeysAre
  <2>5. LogsAre'
    BY <2>1, <2>4 DEF LogsAre, MetricLog, MonitorLog
  <2> QED BY <1>1, <2>1, <2>3, <2>5, HoldsWritten DEF DemoInv
<1>2. CASE demoPc = 9
  <2>1. HMWrite(Metric, Metrics[2], "v1") /\ demoPc' = 10 /\ UNCHANGED <<cursor, observed>>
    BY <1>2 DEF HalfmoonUpdateMetric, DoAt, NewMetric
  <2>2. /\ EntriesOf(Metric) = <<LogEntry(2, V0)>> /\ seqnum = 3
        /\ EntriesOf(Ts2) = <<LogEntry(3, <<"init">>)>>
    BY <1>2 DEF DemoInv, LogsAre, MetricLog, MonitorLog
  <2>3. DOMAIN EntriesOf(Metric) = {1} /\ EntriesOf(Metric)[1].value # V1
    BY <2>2, KeysAre DEF LogEntry
  <2>4. LogAppend(Metric, V1) /\ dbEntries' = Updated(dbEntries, V1, Metrics[2])
    BY <2>1, <2>3 DEF HMWrite, LogRead, V1
  <2>5. /\ seqnum' = 4 /\ EntriesOf(Ts2)' = EntriesOf(Ts2)
        /\ EntriesOf(Metric)' = <<LogEntry(2, V0), LogEntry(4, V1)>>
    BY <2>2, <2>4, AppendIs, KeysAre
  <2>6. LogsAre'
    BY <2>1, <2>2, <2>5 DEF LogsAre, MetricLog, MonitorLog
  <2>7. Holds(V0, Metrics[1])' /\ Holds(V1, Metrics[2])'
    BY <1>2, <2>4, KeysAre, HoldsWritten, HoldsStays DEF DemoInv
  <2> QED BY <1>2, <2>1, <2>6, <2>7 DEF DemoInv
<1> QED BY <1>1, <1>2 DEF HalfmoonUpdateMetric, DoAt

LEMMA InitKeeps == ASSUME DemoInv, HalfmoonInit PROVE DemoInv'
<1>1. CASE demoPc = 7
  <2>1. EntriesOf(Metric) = <<LogEntry(2, V0)>> /\ EntriesOf(Ts2) = <<>> /\ seqnum = 2
    BY <1>1 DEF DemoInv, LogsAre, MetricLog, MonitorLog
  <2>2. /\ demoPc' = 8 /\ LogAppend(Ts2, <<"init">>) /\ cursor' = seqnum'
        /\ UNCHANGED <<dbEntries, observed>>
    BY <1>1, <2>1 DEF HalfmoonInit, DoAt, LogRead
  <2>3. /\ seqnum' = 3 /\ EntriesOf(Metric)' = <<LogEntry(2, V0)>>
        /\ EntriesOf(Ts2)' = <<LogEntry(3, <<"init">>)>>
    BY <2>1, <2>2, AppendIs, KeysAre
  <2>4. LogsAre'
    BY <2>2, <2>3 DEF LogsAre, MetricLog, MonitorLog
  <2> QED BY <1>1, <2>2, <2>3, <2>4 DEF DemoInv, Holds
<1>2. CASE demoPc = 10
  <2>1. EntriesOf(Ts2) = <<LogEntry(3, <<"init">>)>>
    BY <1>2 DEF DemoInv, LogsAre, MonitorLog
  <2>2. EntriesOf(Ts2) # <<>> /\ EntriesOf(Ts2)[1].seqnum = 3
    BY <2>1 DEF LogEntry
  <2>3. demoPc' = 11 /\ cursor' = 3 /\ UNCHANGED <<logs, seqnum, dbEntries, observed>>
    BY <1>2, <2>2 DEF HalfmoonInit, DoAt, LogRead
  <2>4. LogsAre'
    BY <1>2, <2>3, LogsUnchanged DEF LogsAre, DemoInv, MetricLog, MonitorLog
  <2> QED BY <1>2, <2>3, <2>4 DEF DemoInv, Holds
<1> QED BY <1>1, <1>2 DEF HalfmoonInit, DoAt

\* The monitor sees the first metric, at the sequence number of its first entry.
LEMMA ReadsKeep == ASSUME DemoInv, HalfmoonMonitorReads PROVE DemoInv'
<1>1. /\ demoPc \in {8, 11} /\ demoPc' = demoPc + 1 /\ UNCHANGED <<dbEntries, logs, seqnum, cursor>>
      /\ observed' = Append(observed, HMRead(Metric, 3))
  BY DEF HalfmoonMonitorReads, DoAt, DemoInv
<1>2. UnsafeRead(V0) = Metrics[1]
  BY <1>1 DEF DemoInv, Holds, UnsafeRead
<1>3. HMRead(Metric, 3) = Metrics[1]
  <2>1. CASE demoPc = 8
    <3>1. EntriesOf(Metric) = <<LogEntry(2, V0)>>
      BY <2>1 DEF DemoInv, LogsAre, MetricLog
    <3> QED BY <3>1, <1>2, ReadOfOne
  <2>2. CASE demoPc = 11
    <3>1. EntriesOf(Metric) = <<LogEntry(2, V0), LogEntry(4, V1)>>
      BY <2>2 DEF DemoInv, LogsAre, MetricLog
    <3> QED BY <3>1, <1>2, ReadOfTwo
  <2> QED BY <1>1, <2>1, <2>2
<1>4. LogsAre'
  BY <1>1, LogsUnchanged DEF LogsAre, DemoInv, MetricLog, MonitorLog
<1>5. demoPc = 8 => observed' = <<Metrics[1]>>
  BY <1>1, <1>3 DEF DemoInv
<1>6. demoPc = 11 => observed' = <<Metrics[1], Metrics[1]>>
  BY <1>1, <1>3, PairOf DEF DemoInv
<1> QED BY <1>1, <1>4, <1>5, <1>6 DEF DemoInv, Holds

LEMMA WritesKeep == ASSUME DemoInv, HalfmoonMonitorWrites PROVE DemoInv'
<1>1. /\ demoPc = 12 /\ demoPc' = 13 /\ UNCHANGED <<cursor, observed>> /\ cursor = 3
      /\ observed = <<Metrics[1], Metrics[1]>>
  BY DEF HalfmoonMonitorWrites, DoAt, DemoInv
<1>2. /\ EntriesOf(Metric) = <<LogEntry(2, V0), LogEntry(4, V1)>> /\ seqnum = 4
      /\ EntriesOf(Ts2) = <<LogEntry(3, <<"init">>)>>
  BY <1>1 DEF DemoInv, LogsAre, MetricLog, MonitorLog
<1>3. Warns <=> Warned
  BY <1>1 DEF Warns, Warned
<1>4. CASE ~ Warned
  <2>1. UNCHANGED <<dbEntries, logs, seqnum>>
    BY <1>3, <1>4 DEF HalfmoonMonitorWrites
  <2>2. LogsAre'
    BY <1>1, <1>2, <1>4, <2>1, LogsUnchanged DEF LogsAre, MetricLog, MonitorLog, Warned
  <2> QED BY <1>1, <1>4, <2>1, <2>2 DEF DemoInv, Holds, Warned
<1>5. CASE Warned
  <2>1. HMWrite(Ts2, Metrics[1], 3)
    BY <1>1, <1>3, <1>5 DEF HalfmoonMonitorWrites
  <2>2. DOMAIN EntriesOf(Ts2) = {1} /\ EntriesOf(Ts2)[1].value # Warning
    <3>1. Len(<<"init">>) = 1 /\ Len(Warning) = 2
      BY KeysAre
    <3> QED BY <3>1, <1>2 DEF LogEntry
  <2>3. LogAppend(Ts2, Warning) /\ dbEntries' = Updated(dbEntries, Warning, Metrics[1])
    BY <2>1, <2>2 DEF HMWrite, LogRead, Warning
  <2>4. /\ seqnum' = 5 /\ EntriesOf(Metric)' = EntriesOf(Metric)
        /\ EntriesOf(Ts2)' = <<LogEntry(3, <<"init">>), LogEntry(5, Warning)>>
    <3>1. PICK n : n = seqnum + 1
      OBVIOUS
    <3>2. /\ seqnum' = n /\ EntriesOf(Metric)' = EntriesOf(Metric)
          /\ EntriesOf(Ts2)' = Append(EntriesOf(Ts2), LogEntry(n, Warning))
      BY <2>3, <3>1, AppendIs, KeysAre
    <3>3. n = 5
      BY <3>1, <1>2
    <3> QED BY <3>2, <3>3, <1>2, PairOf
  <2>5. LogsAre'
    BY <1>1, <1>2, <1>5, <2>4 DEF LogsAre, MetricLog, MonitorLog, Warned
  <2>6. Holds(V0, Metrics[1])' /\ Holds(V1, Metrics[2])' /\ Holds(Warning, Metrics[1])'
    BY <1>1, <2>3, KeysAre, HoldsWritten, HoldsStays DEF DemoInv
  <2> QED BY <1>1, <2>5, <2>6 DEF DemoInv
<1> QED BY <1>4, <1>5

THEOREM DemoInvHolds == DemoSpec => []DemoInv
<1>1. DemoInit => DemoInv
  BY DEF DemoInit, DemoInv, LogsAre, EntriesOf, MetricLog, MonitorLog
<1>2. DemoInv /\ [DemoNext]_demoVars => DemoInv'
  <2>1. DemoInv /\ UNCHANGED demoVars => DemoInv'
    BY DEF DemoInv, LogsAre, EntriesOf, MetricLog, MonitorLog, Holds, demoVars
  <2> QED BY <2>1, UnsafeKeeps, UpdateKeeps, InitKeeps, ReadsKeep, WritesKeep DEF DemoNext
<1> QED BY <1>1, <1>2, PTL DEF DemoSpec

(***************************************************************************)
(* For any metrics and any threshold: executed again after its crash, the  *)
(* monitor of the demo sees the metric that it saw first, and there is one *)
(* warning about it if and only if it calls for one (main.go:73-89,        *)
(* db.go:38-59).                                                           *)
(***************************************************************************)
THEOREM MonitorIsSafe == DemoSpec => []MonitorRetriesSafely
<1>1. ASSUME DemoInv PROVE MonitorRetriesSafely
  <2>1. ASSUME demoPc = 13
        PROVE  /\ Len(EntriesOf(Ts2)) = IF Metrics[1] >= Threshold THEN 2 ELSE 1
               /\ HMRead(Metric, seqnum) = Metrics[2]
               /\ Metrics[1] >= Threshold => HMRead(Ts2, seqnum) = Metrics[1]
    <3>1. /\ EntriesOf(Metric) = <<LogEntry(2, V0), LogEntry(4, V1)>> /\ seqnum \in {4, 5}
          /\ EntriesOf(Ts2) = IF Warned THEN <<LogEntry(3, <<"init">>), LogEntry(5, Warning)>>
                              ELSE <<LogEntry(3, <<"init">>)>>
          /\ Warned => seqnum = 5
      BY <1>1, <2>1 DEF DemoInv, LogsAre, MetricLog, MonitorLog
    <3>2. UnsafeRead(V1) = Metrics[2] /\ (Warned => UnsafeRead(Warning) = Metrics[1])
      BY <1>1, <2>1 DEF DemoInv, Holds, UnsafeRead
    <3>3. Len(EntriesOf(Ts2)) = IF Metrics[1] >= Threshold THEN 2 ELSE 1
      BY <3>1 DEF Warned
    <3>4. HMRead(Metric, seqnum) = Metrics[2]
      BY <3>1, <3>2, ReadOfTwo
    <3>5. Metrics[1] >= Threshold => HMRead(Ts2, seqnum) = Metrics[1]
      BY <3>1, <3>2, ReadOfTwo DEF Warned
    <3> QED BY <3>3, <3>4, <3>5
  <2> QED BY <1>1, <2>1 DEF MonitorRetriesSafely, DemoInv
<1> QED BY <1>1, DemoInvHolds, PTL
=============================================================================
