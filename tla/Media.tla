--------------------------------- MODULE Media ---------------------------------
(***************************************************************************)
(* The media workload: how a review is composed and listed.  From          *)
(* src/workloads/workflow/optimal/internal/media/core, on either mode of   *)
(* the client library.                                                     *)
(*                                                                         *)
(* Compose creates the item of a request in the table ComposeReview.  Five *)
(* functions each send it one field: an instance writes the field and      *)
(* increments the counter of the item, reads the item, and if the counter  *)
(* says that all fields are there it invokes three functions.  One stores  *)
(* the review, the others add it to the lists of its user and of its       *)
(* movie.  All these writes are in place.                                  *)
(*                                                                         *)
(* A field that is never sent is one of a user or a movie that is unknown. *)
(* An instance that dies is executed again; executions of one instance     *)
(* that race are the subject of IntentLog and left aside here.             *)
(***************************************************************************)
EXTENDS Naturals, Sequences, FiniteSets

CONSTANTS
  Request,    \* calls of Compose
  Field,      \* what is sent: reviewId, userId, movieId, rating, text
  List,       \* tables UserReview and MovieReview; all requests have one key in each
  Cases,      \* [requests, done]: the requests that come, and the uploads that
              \* are done at the start
  MMaxCrashes \* bound on the executions that die

\* An upload that is done at the start did not find all fields.
ASSUME MediaAssumption ==
  /\ IsFiniteSet(Field)
  /\ Cases \subseteq [requests : SUBSET Request, done : SUBSET (Request \X Field)]
  /\ \A c \in Cases, q \in Request : \E f \in Field : <<q, f>> \notin c.done

VARIABLES
  mCase,      \* one of Cases
  mMode,      \* TYPE: WRITELOG or READLOG
  mTail,      \* the last sequence number of the shared log
  mCrashes,
  compose,    \* compose[q]: the item of q in ComposeReview
  upload,     \* upload[<<q, f>>]: the execution of the instance that has field f
  uploadLog,  \* its step log
  storage,    \* items of ReviewStorage: the fields of the review of q
  list,       \* list[l]: the item of l, a sequence of reviews; writers: who has
              \* written it since it was last written anew (history)
  lister,     \* lister[u][l]: the instance that upload u invokes to add to l;
              \* added: whether a write of its own took effect (history)
  listerLog   \* its step log

mediaVars == <<mCase, mMode, mTail, mCrashes, compose, upload, uploadLog, storage, list,
               lister, listerLog>>
composing == <<compose, upload, uploadLog>>
listing == <<list, lister, listerLog>>

Upload == Request \X Field
Logged == mMode = "WRITELOG"

\* With logged writes nothing in these functions depends on a sequence number.
NextSeqNum == IF Logged THEN 0 ELSE mTail + 1
AppendEntry == mTail' = NextSeqNum

ItemOf(fields) == [exists |-> fields # {}, fields |-> fields,
                   counter |-> Cardinality(fields), version |-> 0]
NotRead == [counter |-> 0, fields |-> {}]

\* item: what the instance read.  seqNum of an upload: that of the PreInvoke entry
\* of its caller; of a lister: that of its read.  read: what is logged of a read.
MediaInit ==
  /\ mMode \in {"WRITELOG", "READLOG"}
  /\ mTail = 0 /\ mCrashes = 0
  /\ mCase \in Cases
  /\ compose = [q \in Request |-> ItemOf({f \in Field : <<q, f>> \in mCase.done})]
  /\ upload = [u \in Upload |-> [pc |-> IF u \in mCase.done THEN "done" ELSE "idle",
                                 item |-> NotRead]]
  /\ uploadLog = [u \in Upload |-> [seqNum |-> 0, written |-> FALSE, read |-> {}]]
  /\ storage = [q \in Request |-> {}]
  /\ list = [l \in List |-> [exists |-> FALSE, reviews |-> <<>>, version |-> 0, writers |-> {}]]
  /\ lister = [u \in Upload |-> [l \in List |->
                 [pc |-> "idle", found |-> FALSE, added |-> FALSE]]]
  /\ listerLog = [u \in Upload |-> [l \in List |->
                    [written |-> FALSE, read |-> {}, seqNum |-> 0]]]

-----------------------------------------------------------------------------
(***************************************************************************)
(* Compose: UploadReq, synchronously.                                      *)
(***************************************************************************)
UploadReq(q) ==
  /\ q \in mCase.requests
  /\ ~ compose[q].exists
  /\ AppendEntry
  /\ compose' = [compose EXCEPT ![q].exists = TRUE, ![q].version = NextSeqNum]
  /\ UNCHANGED <<mCase, mMode, mCrashes, upload, uploadLog, storage, listing>>

(***************************************************************************)
(* Then UploadUniqueId2, UploadUser, UploadMovie and UploadText2 in        *)
(* parallel: each looks up a field and sends it.  UploadMovie invokes      *)
(* UploadRating2, which sends the rating.                                  *)
(***************************************************************************)
Send(q, f) ==
  LET u == <<q, f>>
  IN  /\ compose[q].exists
      /\ upload[u].pc = "idle"
      /\ f = "rating" /\ "movieId" \in Field => upload[<<q, "movieId">>].pc # "idle"
      /\ AppendEntry
      /\ upload' = [upload EXCEPT ![u].pc = "write"]
      /\ uploadLog' = [uploadLog EXCEPT ![u].seqNum = NextSeqNum]
      /\ UNCHANGED <<mCase, mMode, mCrashes, compose, storage, listing>>

(***************************************************************************)
(* UploadUniqueId, UploadText, UploadRating, UploadUserId, UploadMovieId.  *)
(* Logged, the write is unconditional unless its PostWrite entry is there; *)
(* without log it is on condition that VERSION is older than the cursor.   *)
(***************************************************************************)
At(u, pc) == upload[u].pc = pc
UploadGoTo(u, pc) == upload' = [upload EXCEPT ![u].pc = pc]

Applied(item, f, seqNum) ==
  [item EXCEPT !.fields = @ \cup {f}, !.counter = @ + 1, !.version = seqNum]

WriteField(q, f) ==
  LET u == <<q, f>>
  IN  /\ At(u, "write")
      /\ IF Logged
         THEN IF uploadLog[u].written
              THEN UploadGoTo(u, "read") /\ UNCHANGED compose
              ELSE /\ UploadGoTo(u, "log")
                   /\ compose' = [compose EXCEPT ![q] = Applied(@, f, 0)]
         ELSE /\ UploadGoTo(u, "read")
              /\ compose' =
                   IF compose[q].version >= uploadLog[u].seqNum THEN compose
                   ELSE [compose EXCEPT ![q] = Applied(@, f, uploadLog[u].seqNum)]
      /\ UNCHANGED <<mCase, mMode, mTail, mCrashes, uploadLog, storage, listing>>

LogField(u) ==
  /\ At(u, "log")
  /\ UploadGoTo(u, "read")
  /\ uploadLog' = [uploadLog EXCEPT ![u].written = TRUE]
  /\ UNCHANGED <<mCase, mMode, mTail, mCrashes, compose, storage, listing>>

\* Mutant: the test of the counter is off by one.
TryCompose_OneMissing(q, f) ==
  LET u == <<q, f>>
      item == [counter |-> compose[q].counter, fields |-> compose[q].fields]
  IN  /\ At(u, "read")
      /\ upload' = [upload EXCEPT ![u] =
           [pc |-> IF item.counter = Cardinality(Field) - 1 THEN "compose" ELSE "done",
            item |-> item]]
      /\ UNCHANGED <<mCase, mMode, mTail, mCrashes, compose, uploadLog, storage, listing>>

\* TryComposeAndUpload, up to the test of the counter.  A read without logged
\* writes is logged, and a later execution sees the same.
TryCompose(q, f) ==
  LET u == <<q, f>>
      now == [counter |-> compose[q].counter, fields |-> compose[q].fields]
      seen == IF uploadLog[u].read = {} THEN {now} ELSE uploadLog[u].read
  IN  /\ At(u, "read")
      /\ \E item \in seen :
           upload' = [upload EXCEPT ![u] =
             [pc |-> IF item.counter = Cardinality(Field) THEN "compose" ELSE "done",
              item |-> item]]
      /\ uploadLog' = IF Logged THEN uploadLog ELSE [uploadLog EXCEPT ![u].read = seen]
      /\ IF uploadLog[u].read = {} THEN AppendEntry ELSE UNCHANGED mTail
      /\ UNCHANGED <<mCase, mMode, mCrashes, compose, storage, listing>>

(***************************************************************************)
(* The three AsyncInvokes, in order: StoreReview, UploadUserReview,        *)
(* UploadMovieReview.  The write of StoreReview is under the key of the    *)
(* review, of which this item is the only source, and is one step here.    *)
(***************************************************************************)
InvokeStore(q, f) ==
  LET u == <<q, f>>
  IN  /\ At(u, "compose")
      /\ UploadGoTo(u, "lists")
      /\ storage' = [storage EXCEPT ![q] = upload[u].item.fields]
      /\ UNCHANGED <<mCase, mMode, mTail, mCrashes, compose, uploadLog, listing>>

\* The PreInvoke entry is made once; an instance that runs or is done is not
\* started again.
InvokeLists(u) ==
  /\ At(u, "lists")
  /\ UploadGoTo(u, "done")
  /\ lister' = [lister EXCEPT ![u] = [l \in List |->
                  IF @[l].pc = "idle" THEN [@[l] EXCEPT !.pc = "read"] ELSE @[l]]]
  /\ UNCHANGED <<mCase, mMode, mTail, mCrashes, compose, uploadLog, storage, list, listerLog>>

UploadDies(u) ==
  /\ upload[u].pc \notin {"idle", "done"}
  /\ mCrashes < MMaxCrashes
  /\ mCrashes' = mCrashes + 1
  /\ upload' = [upload EXCEPT ![u] = [pc |-> "write", item |-> NotRead]]
  /\ UNCHANGED <<mCase, mMode, mTail, compose, uploadLog, storage, listing>>

-----------------------------------------------------------------------------
(***************************************************************************)
(* UploadUserReview and UploadMovieReview.                                 *)
(***************************************************************************)
ListerAt(u, l, pc) == lister[u][l].pc = pc
ListerGoTo(u, l, pc) == lister' = [lister EXCEPT ![u][l].pc = pc]

ReadList(u, l) ==
  LET log == listerLog[u][l]
      seen == IF log.read = {} THEN {list[l].exists} ELSE log.read
  IN  /\ ListerAt(u, l, "read")
      /\ \E found \in seen :
           lister' = [lister EXCEPT ![u][l].pc = "write", ![u][l].found = found]
      /\ IF Logged \/ log.read # {} THEN UNCHANGED <<mTail, listerLog>>
         ELSE /\ AppendEntry
              /\ listerLog' = [listerLog EXCEPT ![u][l].read = seen, ![u][l].seqNum = NextSeqNum]
      /\ UNCHANGED <<mCase, mMode, mCrashes, composing, storage, list>>

\* Mutant: the list is always written with one review.
NewReviews_Only(u, l, found) == <<u[1]>>

\* A list that was not there is written with one review, else the review is appended.
NewReviews(u, l, found) == IF found THEN Append(list[l].reviews, u[1]) ELSE <<u[1]>>

\* Without log, on condition that VERSION is older than the cursor, which is the
\* sequence number of the read.
Applies(u, l) ==
  IF Logged THEN ~ listerLog[u][l].written ELSE list[l].version < listerLog[u][l].seqNum

WriteList(u, l) ==
  LET found == lister[u][l].found
  IN  /\ ListerAt(u, l, "write")
      /\ list' = IF ~ Applies(u, l) THEN list
                 ELSE [list EXCEPT ![l] = [exists |-> TRUE, version |-> listerLog[u][l].seqNum,
                                           reviews |-> NewReviews(u, l, found),
                                           writers |-> (IF found THEN @.writers ELSE {}) \cup {u}]]
      /\ lister' = [lister EXCEPT
                      ![u][l].pc = IF Logged /\ Applies(u, l) THEN "log" ELSE "return",
                      ![u][l].added = @ \/ Applies(u, l)]
      /\ UNCHANGED <<mCase, mMode, mTail, mCrashes, composing, storage, listerLog>>

LogList(u, l) ==
  /\ ListerAt(u, l, "log")
  /\ ListerGoTo(u, l, "return")
  /\ listerLog' = [listerLog EXCEPT ![u][l].written = TRUE]
  /\ UNCHANGED <<mCase, mMode, mTail, mCrashes, composing, storage, list>>

ListerReturns(u, l) ==
  /\ ListerAt(u, l, "return")
  /\ ListerGoTo(u, l, "done")
  /\ UNCHANGED <<mCase, mMode, mTail, mCrashes, composing, storage, list, listerLog>>

ListerDies(u, l) ==
  /\ lister[u][l].pc \in {"write", "log", "return"}
  /\ mCrashes < MMaxCrashes
  /\ mCrashes' = mCrashes + 1
  /\ ListerGoTo(u, l, "read")
  /\ UNCHANGED <<mCase, mMode, mTail, composing, storage, list, listerLog>>

-----------------------------------------------------------------------------
UploadStep(q, f) ==
  \/ Send(q, f) \/ WriteField(q, f) \/ LogField(<<q, f>>) \/ TryCompose(q, f)
  \/ InvokeStore(q, f) \/ InvokeLists(<<q, f>>)

ListerStep(u, l) ==
  ReadList(u, l) \/ WriteList(u, l) \/ LogList(u, l) \/ ListerReturns(u, l)

MediaNext ==
  \/ \E q \in Request : UploadReq(q) \/ \E f \in Field : UploadStep(q, f)
  \/ \E u \in Upload : UploadDies(u) \/ \E l \in List : ListerStep(u, l) \/ ListerDies(u, l)

MediaSpec == MediaInit /\ [][MediaNext]_mediaVars

-----------------------------------------------------------------------------
ListerDone(u, l) == lister[u][l].pc = "done"

(***************************************************************************)
(* The counter stands for the fields, whoever sends them in whatever       *)
(* order: when it says that all are there the review is composed by one of *)
(* the instances, and what is stored is complete.  The exceptions: without *)
(* logged writes an upload that was overtaken by a younger one is dropped, *)
(* and the counter never gets there; with them an execution that dies      *)
(* between its update and the PostWrite entry counts a field twice, and a  *)
(* review is stored without the field that is then missing, or never.      *)
(***************************************************************************)
Recounted(q) == compose[q].counter > Cardinality(compose[q].fields)

ReviewIsComposed ==
  \A q \in Request :
    /\ storage[q] \in {{}, Field} \/ Recounted(q)
    /\ /\ \A f \in Field : At(<<q, f>>, "done")
       /\ compose[q].counter = Cardinality(Field)
       => storage[q] = Field
    /\ Recounted(q) => Logged /\ mCrashes > 0

Times(q, l) == Cardinality({i \in DOMAIN list[l].reviews : list[l].reviews[i] = q})
Listers(q, l) == {f \in Field : lister[<<q, f>>][l].pc # "idle"}

(***************************************************************************)
(* Every instance that is done has added its review to the list, and from  *)
(* its write on the review stays there, whoever adds to the list later; it *)
(* is there as often as instances of its request found all fields, at      *)
(* most: executed again, an instance does not add it again.                *)
(* The exceptions: one that read before there was a list, and writes after *)
(* it, takes away what was added before its write; without logged writes   *)
(* an instance whose read is older than that of the last writer is         *)
(* dropped; with them one that dies between its update and the PostWrite   *)
(* entry adds the review again.                                            *)
(***************************************************************************)
ListsKeepReviews ==
  \A l \in List :
    /\ \A u \in list[l].writers : Times(u[1], l) > 0
    /\ \A u \in Upload :
         /\ ListerDone(u, l) =>
              \/ lister[u][l].added
              \/ ~ Logged /\ list[l].version > listerLog[u][l].seqNum
         /\ Times(u[1], l) > 0 => storage[u[1]] # {}
    /\ \A q \in Request :
         Times(q, l) <= Cardinality(Listers(q, l)) + IF Logged THEN mCrashes ELSE 0
=============================================================================
