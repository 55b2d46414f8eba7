---------------------------- MODULE Libraries_proofs ----------------------------
(***************************************************************************)
(* Proofs about the two baselines, and the set-up of the tables.           *)
(*                                                                         *)
(* BeldiTxn: a transaction of Beldi is visible everywhere or can be read   *)
(* nowhere else from before, and no update is lost.  Boki: the executions  *)
(* of an instance on BokiFlow are told the same, and what they are told of *)
(* a key never goes back.  For any number of transactions, participants,   *)
(* executions and keys, and any number of processes that die.              *)
(*                                                                         *)
(* Setup: the tables of a workload are filled when it begins, and taken    *)
(* away after it, for any init programs that ask for what the assumptions  *)
(* of Setup say, and any number of requests that fail.                     *)
(*                                                                         *)
(* The three parts use nothing of each other.                              *)
(***************************************************************************)
EXTENDS BeldiTxn, Boki, Setup, TLAPS

RequestState ==
  [pc : {"idle", "EXECUTE", "COMMIT", "ABORT", "placed", "failed", "dead"},
   n : Nat \ {0}, callees : Seq(XLambda)]

Executing == {"lock", "read", "relock", "keep"}
CallState ==
  [at : {"none", "returned", "forget", "COMMIT", "ABORT"} \cup Executing,
   fn : XLambda \cup {"none"}, ok : BOOLEAN, read : SUBSET XTxn]

XTypeOK ==
  /\ request \in [XTxn -> RequestState]
  /\ call \in [XTxn -> CallState]
  /\ DOMAIN local = XLambda
  /\ \A l \in XLambda : \A t \in DOMAIN local[l] : local[l][t] \in SUBSET XTxn
  /\ holders \in [XLambda -> XTxn \cup {AVAILABLE}]
  /\ values \in [XLambda -> SUBSET XTxn]
  /\ committed \in [XLambda -> SUBSET XTxn]

(***************************************************************************)
(* A write that is kept, under the lock, and based on what is there.       *)
(***************************************************************************)
Pending(t, l) ==
  t \in DOMAIN local[l] /\ holders[l] = t /\ local[l][t] = values[l] \cup {t}

AllIn(t) == \A l \in XLambda : t \in values[l] \/ Pending(t, l)
Visible(t) == \E l \in XLambda : t \in values[l]

\* Only one that commits, or died while it did, is visible.
VisibleOK(t) ==
  Visible(t) =>
    /\ AllIn(t)
    /\ request[t].pc \in {"COMMIT", "placed", "dead"}
    /\ call[t].at \notin Executing \cup {"ABORT"}

\* What is in a local table is to be committed, or was, and is not deleted yet.
Leaves(t, l) ==
  \/ call[t].at = "forget" /\ call[t].fn = l
  \/ request[t].pc = "dead" /\ call[t].at \notin Executing \cup {"COMMIT", "ABORT"}

KeptOK(t) ==
  \A l \in XLambda :
    /\ t \in values[l] => holders[l] # t
    /\ t \in DOMAIN local[l] => Pending(t, l) \/ (t \in values[l] /\ Leaves(t, l))

\* A participant while it is called, by a frontend that may have died since.
CalledOK(t) ==
  LET pc == request[t].pc
      at == call[t].at
      fn == call[t].fn
  IN  /\ at # "none" => fn \in XLambda /\ pc \notin {"idle", "placed", "failed"}
      /\ at \in Executing => pc \in {"EXECUTE", "dead"}
      /\ at \in {"read", "relock", "keep"} => holders[fn] = t
      /\ at \in {"relock", "keep"} => call[t].read = values[fn]
      /\ at = "COMMIT" => pc \in {"COMMIT", "dead"} /\ AllIn(t)
      /\ at = "ABORT" => pc \in {"ABORT", "dead"}
      /\ at = "forget" =>
           /\ pc \in {"COMMIT", "ABORT", "dead"}
           /\ t \in values[fn] \/ (pc # "COMMIT" /\ ~ Visible(t))

\* The frontend: who has agreed holds a write, who has ended has applied it.
ExecuteOK(t) ==
  LET n == request[t].n
      callees == request[t].callees
  IN  request[t].pc = "EXECUTE" =>
        /\ n <= Len(XParticipants)
        /\ Len(callees) = IF call[t].at = "none" THEN n - 1 ELSE n
        /\ \A k \in 1 .. Len(callees) : callees[k] = XParticipants[k]
        /\ \A k \in 1 .. n - 1 : Pending(t, XParticipants[k])
        /\ call[t].at # "none" => call[t].fn = XParticipants[n]
        /\ call[t].at = "returned" /\ call[t].ok => Pending(t, XParticipants[n])

CommitOK(t) ==
  LET n == request[t].n
      callees == request[t].callees
  IN  request[t].pc = "COMMIT" =>
        /\ AllIn(t)
        /\ n <= Len(XParticipants) + 1
        /\ Len(callees) = Len(XParticipants)
        /\ \A k \in 1 .. Len(callees) : callees[k] = XParticipants[k]
        /\ \A k \in 1 .. n - 1 : t \in values[XParticipants[k]]
        /\ call[t].at # "none" => n <= Len(XParticipants) /\ call[t].fn = XParticipants[n]
        /\ call[t].at = "returned" => t \in values[call[t].fn]

PlacedOK(t) ==
  /\ request[t].pc = "idle" => request[t].n = 1 /\ request[t].callees = <<>>
  /\ t \in orders => request[t].pc = "placed"
  /\ request[t].pc = "placed" => \A l \in XLambda : t \in values[l]

XTxnOK(t) ==
  VisibleOK(t) /\ KeptOK(t) /\ CalledOK(t) /\ ExecuteOK(t) /\ CommitOK(t) /\ PlacedOK(t)

XInv == XTypeOK /\ values = committed /\ \A t \in XTxn : XTxnOK(t)

-----------------------------------------------------------------------------
(***************************************************************************)
(* A step of one transaction leaves what is known of the others: it takes  *)
(* and frees only its own locks, and writes only under them.               *)
(***************************************************************************)
XStepOf(t) ==
  /\ \A u \in XTxn : u # t =>
       request'[u] = request[u] /\ call'[u] = call[u] /\ (u \in orders' <=> u \in orders)
  /\ \A l \in XLambda : \A u \in XTxn : u # t =>
       /\ u \in DOMAIN local'[l] <=> u \in DOMAIN local[l]
       /\ u \in DOMAIN local[l] => local'[l][u] = local[l][u]
  /\ \A l \in XLambda : holders'[l] = holders[l] \/ {holders[l], holders'[l]} \subseteq {t, AVAILABLE}
  /\ \A l \in XLambda : \/ values'[l] = values[l]
                        \/ holders[l] = t /\ values'[l] = values[l] \cup {t}

LEMMA XParticipantsAreLambda ==
  /\ Len(XParticipants) \in Nat
  /\ \A n \in Nat \ {0} : n <= Len(XParticipants) => XParticipants[n] \in XLambda
BY XParticipantsAssumption DEF XLambda

\* What the invariant says of one transaction.
LEMMA XTypesOf ==
  ASSUME XInv, NEW t \in XTxn
  PROVE  /\ request[t] \in RequestState /\ call[t] \in CallState
         /\ request[t].n \in Nat \ {0}
         /\ request[t].callees \in Seq(XLambda) /\ Len(request[t].callees) \in Nat
         /\ VisibleOK(t) /\ KeptOK(t) /\ CalledOK(t) /\ ExecuteOK(t) /\ CommitOK(t) /\ PlacedOK(t)
<1>1. request[t] \in RequestState /\ call[t] \in CallState
  BY DEF XInv, XTypeOK
<1>2. request[t].n \in Nat \ {0}
  BY <1>1 DEF RequestState
<1>3. request[t].callees \in Seq(XLambda)
  BY <1>1 DEF RequestState
<1>4. Len(request[t].callees) \in Nat
  BY <1>3
<1> QED
  BY <1>1, <1>2, <1>3, <1>4 DEF XInv, XTxnOK

LEMMA XOthersKeep ==
  ASSUME XInv, NEW t \in XTxn, XStepOf(t), NEW u \in XTxn, u # t
  PROVE  XTxnOK(u)'
<1>1. \A l \in XLambda : /\ u \in values'[l] <=> u \in values[l]
                         /\ holders'[l] = u <=> holders[l] = u
                         /\ holders[l] = u => values'[l] = values[l]
  BY AvailableAssumption DEF XStepOf
<1>2. \A l \in XLambda : u \in DOMAIN local'[l] <=> u \in DOMAIN local[l]
  BY DEF XStepOf
<1>3. \A l \in XLambda : Pending(u, l) => Pending(u, l)'
  BY <1>1, <1>2 DEF Pending, XStepOf
<1>4. (AllIn(u) => AllIn(u)') /\ (Visible(u)' <=> Visible(u))
  BY <1>1, <1>3 DEF AllIn, Visible
<1>5. request'[u] = request[u] /\ call'[u] = call[u] /\ (u \in orders' <=> u \in orders)
  BY DEF XStepOf
<1>6. VisibleOK(u)'
  BY <1>4, <1>5, XTypesOf DEF VisibleOK
<1>7. KeptOK(u)'
  BY <1>1, <1>2, <1>3, <1>5, XTypesOf DEF KeptOK, Leaves
<1>8. CalledOK(u)'
  BY <1>1, <1>4, <1>5, XTypesOf DEF CalledOK, Executing
<1>9. ExecuteOK(u)'
  <2>1. ASSUME request[u].pc = "EXECUTE", NEW k \in 1 .. request[u].n
        PROVE  XParticipants[k] \in XLambda
    BY <2>1, XTypesOf, XParticipantsAreLambda DEF ExecuteOK
  <2> QED
    BY <1>3, <1>5, <2>1, XTypesOf DEF ExecuteOK
<1>10. CommitOK(u)'
  <2>1. ASSUME request[u].pc = "COMMIT", NEW k \in 1 .. request[u].n - 1
        PROVE  XParticipants[k] \in XLambda
    BY <2>1, XTypesOf, XParticipantsAreLambda DEF CommitOK
  <2>2. request[u].pc = "COMMIT" /\ call[u].at = "returned" => call[u].fn \in XLambda
    BY XTypesOf DEF CalledOK
  <2> QED
    BY <1>1, <1>4, <1>5, <2>1, <2>2, XTypesOf DEF CommitOK
<1>11. PlacedOK(u)'
  BY <1>1, <1>5, XTypesOf DEF PlacedOK
<1> QED
  BY <1>6, <1>7, <1>8, <1>9, <1>10, <1>11 DEF XTxnOK

LEMMA XStepKeeps ==
  ASSUME XInv, NEW t \in XTxn, XStepOf(t), XTypeOK', values' = committed', XTxnOK(t)'
  PROVE  XInv'
<1>1. ASSUME NEW u \in XTxn PROVE XTxnOK(u)'
  BY XOthersKeep
<1> QED
  BY <1>1 DEF XInv

(***************************************************************************)
(* Steps that leave the tables as they are.                                *)
(***************************************************************************)
XMoves(t) ==
  /\ request' \in [XTxn -> RequestState] /\ call' \in [XTxn -> CallState]
  /\ \A u \in XTxn : u # t =>
       request'[u] = request[u] /\ call'[u] = call[u] /\ (u \in orders' <=> u \in orders)
  /\ UNCHANGED xTables

LEMMA XMovesKeep ==
  ASSUME XInv, NEW t \in XTxn, XMoves(t), XTxnOK(t)'
  PROVE  XInv'
<1>1. XStepOf(t)
  BY DEF XMoves, XStepOf, xTables
<1>2. XTypeOK' /\ values' = committed'
  BY DEF XMoves, XInv, XTypeOK, xTables
<1> QED
  BY <1>1, <1>2, XStepKeeps

LEMMA SameTables ==
  ASSUME UNCHANGED xTables, NEW t
  PROVE  /\ AllIn(t)' = AllIn(t) /\ Visible(t)' = Visible(t)
         /\ \A l : Pending(t, l)' = Pending(t, l)
BY DEF xTables, AllIn, Visible, Pending

\* The states that a step sets.
LEMMA CallIs ==
  ASSUME XInv, NEW t \in XTxn, NEW c \in CallState, call' = [call EXCEPT ![t] = c]
  PROVE  /\ call' \in [XTxn -> CallState] /\ call'[t] = c
         /\ \A u \in XTxn : u # t => call'[u] = call[u]
BY DEF XInv, XTypeOK

LEMMA NoCallIs ==
  /\ NoCall \in CallState /\ NoCall.at = "none" /\ NoCall.ok = FALSE
  /\ \A at \in {"lock", "COMMIT", "ABORT"} : \A fn \in XLambda :
       [NoCall EXCEPT !.at = at, !.fn = fn] \in CallState
BY DEF NoCall, CallState, Executing

LEMMA CallAtIs ==
  ASSUME XInv, NEW t \in XTxn,
         NEW at \in {"none", "returned", "forget", "COMMIT", "ABORT"} \cup Executing,
         call' = [call EXCEPT ![t].at = at]
  PROVE  /\ call' \in [XTxn -> CallState]
         /\ \A u \in XTxn : u # t => call'[u] = call[u]
         /\ call'[t].at = at /\ call'[t].fn = call[t].fn /\ call'[t].read = call[t].read
<1>1. call \in [XTxn -> CallState] /\ call[t] \in CallState
  BY DEF XInv, XTypeOK
<1> QED
  BY <1>1 DEF CallState

LEMMA ReplyIs ==
  ASSUME XInv, NEW t \in XTxn, NEW ok \in BOOLEAN, call' = Reply(t, ok)
  PROVE  /\ call' \in [XTxn -> CallState]
         /\ \A u \in XTxn : u # t => call'[u] = call[u]
         /\ call'[t].at = "returned" /\ call'[t].ok = ok /\ call'[t].fn = call[t].fn
<1>1. call \in [XTxn -> CallState] /\ call[t] \in CallState
  BY DEF XInv, XTypeOK
<1>2. "returned" \in {"none", "returned", "forget", "COMMIT", "ABORT"} \cup Executing
  OBVIOUS
<1> QED
  BY <1>1, <1>2 DEF Reply, CallState

LEMMA PhaseIs ==
  ASSUME XInv, NEW t \in XTxn,
         NEW pc \in {"idle", "EXECUTE", "COMMIT", "ABORT", "placed", "failed", "dead"},
         request' = [request EXCEPT ![t].pc = pc]
  PROVE  /\ request' \in [XTxn -> RequestState]
         /\ \A u \in XTxn : u # t => request'[u] = request[u]
         /\ request'[t].pc = pc /\ request'[t].n = request[t].n
         /\ request'[t].callees = request[t].callees
<1>1. request \in [XTxn -> RequestState] /\ request[t] \in RequestState
  BY DEF XInv, XTypeOK
<1> QED
  BY <1>1 DEF RequestState

LEMMA CountIs ==
  ASSUME XInv, NEW t \in XTxn, request' = [request EXCEPT ![t].n = @ + 1]
  PROVE  /\ request' \in [XTxn -> RequestState]
         /\ \A u \in XTxn : u # t => request'[u] = request[u]
         /\ request'[t].pc = request[t].pc /\ request'[t].n = request[t].n + 1
         /\ request'[t].callees = request[t].callees
<1>1. request \in [XTxn -> RequestState] /\ request[t] \in RequestState
  BY DEF XInv, XTypeOK
<1>2. request[t].n + 1 \in Nat \ {0} /\ request' = [request EXCEPT ![t].n = request[t].n + 1]
  BY XTypesOf
<1>3. request' = [request EXCEPT ![t] = [request[t] EXCEPT !.n = request[t].n + 1]]
  BY <1>2
<1>4. [request[t] EXCEPT !.n = request[t].n + 1] \in RequestState
  BY <1>1, <1>2 DEF RequestState
<1>5. request'[t] = [request[t] EXCEPT !.n = request[t].n + 1]
  BY <1>1, <1>3
<1> QED
  BY <1>1, <1>3, <1>4, <1>5 DEF RequestState

-----------------------------------------------------------------------------
(***************************************************************************)
(* Steps of the frontend.                                                  *)
(***************************************************************************)
LEMMA XBeginKeeps == ASSUME XInv, NEW t \in XTxn, XBegin(t) PROVE XInv'
<1>1. /\ request[t].pc = "idle" /\ call' = call /\ call[t].at = "none"
      /\ request[t].n = 1 /\ request[t].callees = <<>>
      /\ UNCHANGED <<xTables, orders>> /\ call \in [XTxn -> CallState]
  BY NoCallIs, XTypesOf DEF XBegin, RequestAt, PlacedOK, XInv, XTypeOK
<1>2. /\ request' \in [XTxn -> RequestState]
      /\ \A u \in XTxn : u # t => request'[u] = request[u]
      /\ request'[t].pc = "EXECUTE" /\ request'[t].n = 1 /\ request'[t].callees = <<>>
  BY <1>1, PhaseIs DEF XBegin
<1>3. XMoves(t)
  BY <1>1, <1>2 DEF XMoves
<1>4. ~ Visible(t) /\ ~ Visible(t)' /\ \A l : Pending(t, l)' = Pending(t, l)
  BY <1>1, SameTables, XTypesOf DEF VisibleOK
<1>5. VisibleOK(t)' /\ KeptOK(t)'
  BY <1>1, <1>4, XTypesOf DEF VisibleOK, KeptOK, Leaves, xTables
<1>6. CalledOK(t)' /\ CommitOK(t)'
  BY <1>1, <1>2 DEF CalledOK, CommitOK, Executing
<1>7. ExecuteOK(t)'
  BY <1>1, <1>2, XParticipantsAssumption, XParticipantsAreLambda DEF ExecuteOK
<1>8. PlacedOK(t)'
  BY <1>1, <1>2, XTypesOf DEF PlacedOK
<1> QED
  BY <1>3, <1>5, <1>6, <1>7, <1>8, XMovesKeep DEF XTxnOK

LEMMA LogCalleeKeeps == ASSUME XInv, NEW t \in XTxn, LogCallee(t) PROVE XInv'
<1>1. /\ request[t].pc = "EXECUTE" /\ call[t].at = "none"
      /\ request[t].n <= Len(XParticipants) /\ UNCHANGED <<xTables, orders>>
  BY NoCallIs DEF LogCallee, RequestAt
<1>2. PICK fn \in XLambda : fn = XParticipants[request[t].n]
  BY <1>1, XTypesOf, XParticipantsAreLambda
<1>3. PICK callees \in Seq(XLambda) : callees = request[t].callees
  BY XTypesOf
<1>4. Append(callees, fn) \in Seq(XLambda)
  BY <1>2, <1>3
<1>5. /\ request' \in [XTxn -> RequestState]
      /\ \A u \in XTxn : u # t => request'[u] = request[u]
      /\ request'[t].pc = "EXECUTE" /\ request'[t].n = request[t].n
      /\ request'[t].callees = Append(callees, fn)
  <2>1. request \in [XTxn -> RequestState] /\ request[t] \in RequestState
    BY DEF XInv, XTypeOK
  <2>2. request' = [request EXCEPT ![t].callees = Append(callees, fn)]
    BY <1>2, <1>3 DEF LogCallee
  <2> QED
    BY <1>1, <1>4, <2>1, <2>2 DEF RequestState
<1>6. /\ call' \in [XTxn -> CallState]
      /\ \A u \in XTxn : u # t => call'[u] = call[u]
      /\ call'[t].at = "lock" /\ call'[t].fn = fn
  <2>1. call' = [call EXCEPT ![t] = [NoCall EXCEPT !.at = "lock", !.fn = fn]]
    BY <1>2 DEF LogCallee
  <2>2. [NoCall EXCEPT !.at = "lock", !.fn = fn] \in CallState
    BY NoCallIs
  <2>3. call'[t] = [NoCall EXCEPT !.at = "lock", !.fn = fn]
    BY <2>1, <2>2, CallIs
  <2> QED
    BY <2>1, <2>2, <2>3, CallIs DEF NoCall
<1>7. XMoves(t)
  BY <1>1, <1>5, <1>6 DEF XMoves
<1>8. ~ Visible(t) /\ ~ Visible(t)' /\ \A l : Pending(t, l)' = Pending(t, l)
  BY <1>1, SameTables, XTypesOf DEF VisibleOK
<1>9. VisibleOK(t)' /\ KeptOK(t)'
  BY <1>1, <1>8, XTypesOf DEF VisibleOK, KeptOK, Leaves, xTables
<1>10. CalledOK(t)' /\ CommitOK(t)'
  BY <1>5, <1>6 DEF CalledOK, CommitOK, Executing
<1>11. ExecuteOK(t)'
  <2>1. /\ Len(callees) = request[t].n - 1 /\ request[t].n \in Nat \ {0}
        /\ \A k \in 1 .. Len(callees) : callees[k] = XParticipants[k]
        /\ \A k \in 1 .. request[t].n - 1 : Pending(t, XParticipants[k])
    BY <1>1, <1>3, XTypesOf DEF ExecuteOK
  <2>2. /\ Len(Append(callees, fn)) = request[t].n
        /\ \A k \in 1 .. request[t].n : Append(callees, fn)[k] = XParticipants[k]
    BY <1>2, <2>1
  <2> QED
    BY <1>1, <1>2, <1>5, <1>6, <1>8, <2>1, <2>2 DEF ExecuteOK
<1>12. PlacedOK(t)'
  BY <1>1, <1>5, XTypesOf DEF PlacedOK
<1> QED
  BY <1>7, <1>9, <1>10, <1>11, <1>12, XMovesKeep DEF XTxnOK

LEMMA AnsweredKeeps == ASSUME XInv, NEW t \in XTxn, Answered(t) PROVE XInv'
<1> DEFINE n == request[t].n
<1>1. /\ request[t].pc = "EXECUTE" /\ call[t].at = "returned" /\ n <= Len(XParticipants)
      /\ UNCHANGED <<xTables, orders>>
  BY XTypesOf DEF Answered, ExecuteOK
<1>2. /\ call' \in [XTxn -> CallState] /\ call'[t].at = "none"
      /\ \A u \in XTxn : u # t => call'[u] = call[u]
  BY CallIs, NoCallIs DEF Answered
<1>3. ~ Visible(t) /\ ~ Visible(t)' /\ \A l : Pending(t, l)' = Pending(t, l)
  BY <1>1, SameTables, XTypesOf DEF VisibleOK
<1>4. /\ n \in Nat \ {0} /\ Len(request[t].callees) = n
      /\ \A k \in 1 .. n : request[t].callees[k] = XParticipants[k]
      /\ \A k \in 1 .. n - 1 : Pending(t, XParticipants[k])
      /\ call[t].ok => Pending(t, XParticipants[n])
  BY <1>1, XTypesOf DEF ExecuteOK
<1>5. \A l \in XLambda : t \in DOMAIN local[l] => Pending(t, l)
  BY <1>1, XTypesOf DEF KeptOK, Leaves
<1>6. CASE call[t].ok /\ n < Len(XParticipants)
  <2>1. request' = [request EXCEPT ![t].n = @ + 1]
    BY <1>6 DEF Answered
  <2>2. XMoves(t)
    BY <1>1, <1>2, <2>1, CountIs DEF XMoves
  <2>3. VisibleOK(t)' /\ KeptOK(t)'
    BY <1>1, <1>3, <1>5, XTypesOf DEF VisibleOK, KeptOK, xTables
  <2>4. CalledOK(t)' /\ CommitOK(t)' /\ PlacedOK(t)'
    BY <1>1, <1>2, <2>1, CountIs, XTypesOf DEF CalledOK, CommitOK, PlacedOK, Executing
  <2>5. ExecuteOK(t)'
    <3>1. /\ request'[t].n = n + 1 /\ request'[t].callees = request[t].callees
      BY <2>1, CountIs
    <3>2. \A k \in 1 .. (n + 1) - 1 : k \in 1 .. n - 1 \/ k = n
      BY <1>4
    <3> QED
      BY <1>2, <1>3, <1>4, <1>6, <3>1, <3>2, XParticipantsAreLambda DEF ExecuteOK
  <2> QED
    BY <2>2, <2>3, <2>4, <2>5, XMovesKeep DEF XTxnOK
<1>7. CASE ~ (call[t].ok /\ n < Len(XParticipants))
  <2>1. PICK pc \in {"COMMIT", "ABORT"} :
          /\ pc = IF call[t].ok THEN "COMMIT" ELSE "ABORT"
          /\ request' = [request EXCEPT ![t].n = 1, ![t].pc = pc]
    BY <1>7 DEF Answered
  <2>2. /\ request' \in [XTxn -> RequestState]
        /\ \A u \in XTxn : u # t => request'[u] = request[u]
        /\ request'[t].pc = pc /\ request'[t].n = 1
        /\ request'[t].callees = request[t].callees
    <3>1. request \in [XTxn -> RequestState] /\ request[t] \in RequestState
      BY DEF XInv, XTypeOK
    <3>2. [request[t] EXCEPT !.n = 1, !.pc = pc] \in RequestState
      <4>1. 1 \in Nat \ {0}
        OBVIOUS
      <4>2. [request[t] EXCEPT !.n = 1] \in RequestState
        BY <3>1, <4>1 DEF RequestState
      <4> QED
        BY <4>2 DEF RequestState
    <3>3. request'[t] = [request[t] EXCEPT !.n = 1, !.pc = pc]
      BY <2>1, <3>1
    <3> QED
      BY <2>1, <3>1, <3>2, <3>3 DEF RequestState
  <2>3. XMoves(t)
    BY <1>1, <1>2, <2>2 DEF XMoves
  <2>4. VisibleOK(t)' /\ KeptOK(t)'
    BY <1>1, <1>3, <1>5, XTypesOf DEF VisibleOK, KeptOK, xTables
  <2>5. CalledOK(t)' /\ ExecuteOK(t)' /\ PlacedOK(t)'
    BY <1>1, <1>2, <2>2, XTypesOf DEF CalledOK, ExecuteOK, PlacedOK, Executing
  <2>6. CommitOK(t)'
    <3> SUFFICES ASSUME pc = "COMMIT" PROVE CommitOK(t)'
      BY <2>2 DEF CommitOK
    <3>1. call[t].ok /\ n = Len(XParticipants)
      BY <1>1, <1>4, <1>7, <2>1, XParticipantsAreLambda
    <3>2. \A k \in 1 .. Len(XParticipants) : Pending(t, XParticipants[k])
      BY <1>4, <3>1
    <3>3. AllIn(t)'
      BY <1>3, <3>2 DEF AllIn, XLambda
    <3> QED
      BY <1>2, <1>4, <2>2, <3>1, <3>3, XParticipantsAreLambda DEF CommitOK
  <2> QED
    BY <2>3, <2>4, <2>5, <2>6, XMovesKeep DEF XTxnOK
<1> QED
  BY <1>6, <1>7

LEMMA InvokeCalleeKeeps == ASSUME XInv, NEW t \in XTxn, InvokeCallee(t) PROVE XInv'
<1>1. /\ request[t].pc \in EndPhases /\ call[t].at = "none" /\ request' = request
      /\ request[t].n \in 1 .. Len(request[t].callees) /\ UNCHANGED <<xTables, orders>>
      /\ request \in [XTxn -> RequestState]
  <2>1. /\ request[t].pc \in EndPhases /\ call[t].at = "none" /\ request' = request
        /\ request[t].n <= Len(request[t].callees) /\ UNCHANGED <<xTables, orders>>
    BY NoCallIs DEF InvokeCallee, RequestAt
  <2>2. request \in [XTxn -> RequestState]
    BY DEF XInv, XTypeOK
  <2> QED
    BY <2>1, <2>2, XTypesOf
<1>2. PICK fn \in XLambda, at \in {"COMMIT", "ABORT"} :
        fn = request[t].callees[request[t].n] /\ at = request[t].pc
  BY <1>1, XTypesOf DEF EndPhases
<1>3. /\ call' \in [XTxn -> CallState]
      /\ \A u \in XTxn : u # t => call'[u] = call[u]
      /\ call'[t].at = at /\ call'[t].fn = fn
  <2>1. call' = [call EXCEPT ![t] = [NoCall EXCEPT !.at = at, !.fn = fn]]
    BY <1>2 DEF InvokeCallee
  <2>2. [NoCall EXCEPT !.at = at, !.fn = fn] \in CallState
    BY NoCallIs
  <2>3. call'[t] = [NoCall EXCEPT !.at = at, !.fn = fn]
    BY <2>1, <2>2, CallIs
  <2> QED
    BY <2>1, <2>2, <2>3, CallIs DEF NoCall
<1>4. XMoves(t)
  BY <1>1, <1>3 DEF XMoves
<1>5. /\ AllIn(t)' = AllIn(t) /\ Visible(t)' = Visible(t) /\ \A l : Pending(t, l)' = Pending(t, l)
  BY <1>1, SameTables
<1>6. VisibleOK(t)'
  BY <1>1, <1>2, <1>3, <1>5, XTypesOf DEF VisibleOK, Executing
<1>7. KeptOK(t)'
  BY <1>1, <1>5, XTypesOf DEF KeptOK, Leaves, xTables, EndPhases
<1>8. CalledOK(t)'
  BY <1>1, <1>2, <1>3, <1>5, XTypesOf DEF CalledOK, CommitOK, Executing, EndPhases
<1>9. ExecuteOK(t)' /\ PlacedOK(t)'
  BY <1>1, XTypesOf DEF ExecuteOK, PlacedOK, EndPhases, xTables
<1>10. CommitOK(t)'
  <2> SUFFICES ASSUME request[t].pc = "COMMIT" PROVE CommitOK(t)'
    BY <1>1 DEF CommitOK
  <2>1. /\ request[t].n \in 1 .. Len(request[t].callees)
        /\ Len(request[t].callees) = Len(XParticipants)
        /\ \A k \in 1 .. Len(request[t].callees) : request[t].callees[k] = XParticipants[k]
    BY <1>1, XTypesOf DEF CommitOK
  <2>2. request[t].n <= Len(XParticipants) /\ fn = XParticipants[request[t].n]
    BY <1>2, <2>1, XParticipantsAreLambda
  <2>3. AllIn(t)' /\ values' = values
    BY <1>1, <1>5, XTypesOf DEF CommitOK, xTables
  <2> QED
    BY <1>1, <1>2, <1>3, <2>1, <2>2, <2>3, XTypesOf DEF CommitOK
<1> QED
  BY <1>4, <1>6, <1>7, <1>8, <1>9, <1>10, XMovesKeep DEF XTxnOK

LEMMA CalleeEndedKeeps == ASSUME XInv, NEW t \in XTxn, CalleeEnded(t) PROVE XInv'
<1>1. /\ request[t].pc \in EndPhases /\ call[t].at = "returned"
      /\ UNCHANGED <<xTables, orders>>
  BY DEF CalleeEnded
<1>2. /\ call' \in [XTxn -> CallState] /\ call'[t].at = "none"
      /\ \A u \in XTxn : u # t => call'[u] = call[u]
  BY CallIs, NoCallIs DEF CalleeEnded
<1>3. /\ request' \in [XTxn -> RequestState]
      /\ \A u \in XTxn : u # t => request'[u] = request[u]
      /\ request'[t].pc = request[t].pc /\ request'[t].n = request[t].n + 1
      /\ request'[t].callees = request[t].callees
  BY CountIs DEF CalleeEnded
<1>4. XMoves(t)
  BY <1>1, <1>2, <1>3 DEF XMoves
<1>5. /\ AllIn(t)' = AllIn(t) /\ Visible(t)' = Visible(t) /\ \A l : Pending(t, l)' = Pending(t, l)
  BY <1>1, SameTables
<1>6. VisibleOK(t)'
  BY <1>2, <1>3, <1>5, XTypesOf DEF VisibleOK, Executing
<1>7. KeptOK(t)'
  BY <1>1, <1>5, XTypesOf DEF KeptOK, Leaves, xTables, EndPhases
<1>8. CalledOK(t)' /\ ExecuteOK(t)' /\ PlacedOK(t)'
  BY <1>1, <1>2, <1>3, XTypesOf DEF CalledOK, ExecuteOK, PlacedOK, EndPhases, Executing
<1>9. CommitOK(t)'
  <2> SUFFICES ASSUME request[t].pc = "COMMIT" PROVE CommitOK(t)'
    BY <1>3 DEF CommitOK
  <2>1. /\ request[t].n \in Nat \ {0} /\ request[t].n <= Len(XParticipants)
        /\ t \in values[XParticipants[request[t].n]]
    BY <1>1, XTypesOf DEF CommitOK
  <2>2. \A k \in 1 .. (request[t].n + 1) - 1 : k \in 1 .. request[t].n - 1 \/ k = request[t].n
    BY <2>1
  <2> QED
    BY <1>1, <1>2, <1>3, <1>5, <2>1, <2>2, XTypesOf, XParticipantsAreLambda DEF CommitOK, xTables
<1> QED
  BY <1>4, <1>6, <1>7, <1>8, <1>9, XMovesKeep DEF XTxnOK

LEMMA AsyncInvokeKeeps == ASSUME XInv, NEW t \in XTxn, AsyncInvoke(t) PROVE XInv'
<1>1. /\ request[t].pc = "COMMIT" /\ call[t].at = "none" /\ call' = call
      /\ request[t].n > Len(request[t].callees) /\ UNCHANGED xTables
      /\ orders' = orders \cup {t} /\ call \in [XTxn -> CallState]
  BY NoCallIs DEF AsyncInvoke, RequestAt, XInv, XTypeOK
<1>2. /\ request' \in [XTxn -> RequestState]
      /\ \A u \in XTxn : u # t => request'[u] = request[u]
      /\ request'[t].pc = "placed"
  BY PhaseIs DEF AsyncInvoke
<1>3. XMoves(t)
  BY <1>1, <1>2 DEF XMoves
<1>4. /\ AllIn(t)' = AllIn(t) /\ Visible(t)' = Visible(t) /\ \A l : Pending(t, l)' = Pending(t, l)
  BY <1>1, SameTables
<1>5. VisibleOK(t)' /\ KeptOK(t)'
  BY <1>1, <1>2, <1>4, XTypesOf DEF VisibleOK, KeptOK, Leaves, xTables, Executing
<1>6. CalledOK(t)' /\ ExecuteOK(t)' /\ CommitOK(t)'
  BY <1>1, <1>2 DEF CalledOK, ExecuteOK, CommitOK, Executing
<1>7. \A l \in XLambda : t \in values[l]
  <2>1. \A k \in 1 .. Len(XParticipants) : k \in 1 .. request[t].n - 1
    BY <1>1, XTypesOf, XParticipantsAreLambda DEF CommitOK
  <2> QED
    BY <1>1, <2>1, XTypesOf DEF CommitOK, XLambda
<1>8. PlacedOK(t)'
  BY <1>1, <1>2, <1>7 DEF PlacedOK, xTables
<1> QED
  BY <1>3, <1>5, <1>6, <1>8, XMovesKeep DEF XTxnOK

LEMMA XAbortedKeeps == ASSUME XInv, NEW t \in XTxn, XAborted(t) PROVE XInv'
<1>1. /\ request[t].pc = "ABORT" /\ call[t].at = "none" /\ call' = call
      /\ UNCHANGED <<xTables, orders>> /\ call \in [XTxn -> CallState]
  BY NoCallIs DEF XAborted, RequestAt, XInv, XTypeOK
<1>2. /\ request' \in [XTxn -> RequestState]
      /\ \A u \in XTxn : u # t => request'[u] = request[u]
      /\ request'[t].pc = "failed"
  BY PhaseIs DEF XAborted
<1>3. XMoves(t)
  BY <1>1, <1>2 DEF XMoves
<1>4. ~ Visible(t) /\ ~ Visible(t)' /\ \A l : Pending(t, l)' = Pending(t, l)
  BY <1>1, SameTables, XTypesOf DEF VisibleOK
<1>5. VisibleOK(t)' /\ KeptOK(t)'
  BY <1>1, <1>4, XTypesOf DEF VisibleOK, KeptOK, Leaves, xTables
<1>6. CalledOK(t)' /\ ExecuteOK(t)' /\ CommitOK(t)' /\ PlacedOK(t)'
  BY <1>1, <1>2, XTypesOf DEF CalledOK, ExecuteOK, CommitOK, PlacedOK, Executing
<1> QED
  BY <1>3, <1>5, <1>6, XMovesKeep DEF XTxnOK

-----------------------------------------------------------------------------
(***************************************************************************)
(* Faults.                                                                 *)
(***************************************************************************)
LEMMA XCalleeDiesKeeps == ASSUME XInv, NEW t \in XTxn, XCalleeDies(t) PROVE XInv'
<1>1. call[t].at \notin {"none", "returned"} /\ UNCHANGED <<xTables, orders>>
  BY DEF XCalleeDies
<1>2. /\ request' \in [XTxn -> RequestState]
      /\ \A u \in XTxn : u # t => request'[u] = request[u]
      /\ request'[t].pc = "dead"
  BY PhaseIs DEF XCalleeDies
<1>3. /\ call' \in [XTxn -> CallState] /\ call'[t].at = "none"
      /\ \A u \in XTxn : u # t => call'[u] = call[u]
  BY CallIs, NoCallIs DEF XCalleeDies
<1>4. XMoves(t)
  BY <1>1, <1>2, <1>3 DEF XMoves
<1>5. /\ AllIn(t)' = AllIn(t) /\ Visible(t)' = Visible(t) /\ \A l : Pending(t, l)' = Pending(t, l)
  BY <1>1, SameTables
<1>6. VisibleOK(t)' /\ KeptOK(t)'
  BY <1>1, <1>2, <1>3, <1>5, XTypesOf DEF VisibleOK, KeptOK, Leaves, xTables, Executing
<1>7. CalledOK(t)' /\ ExecuteOK(t)' /\ CommitOK(t)' /\ PlacedOK(t)'
  BY <1>1, <1>2, <1>3, XTypesOf DEF CalledOK, ExecuteOK, CommitOK, PlacedOK, Executing
<1> QED
  BY <1>4, <1>6, <1>7, XMovesKeep DEF XTxnOK

LEMMA XFrontendDiesKeeps == ASSUME XInv, NEW t \in XTxn, XFrontendDies(t) PROVE XInv'
<1>1. /\ request[t].pc \in {"EXECUTE", "COMMIT", "ABORT"} /\ UNCHANGED <<xTables, orders>>
      /\ call' = call /\ call \in [XTxn -> CallState]
  BY DEF XFrontendDies, XRuns, EndPhases, XInv, XTypeOK
<1>2. /\ request' \in [XTxn -> RequestState]
      /\ \A u \in XTxn : u # t => request'[u] = request[u]
      /\ request'[t].pc = "dead"
  BY PhaseIs DEF XFrontendDies
<1>3. XMoves(t)
  BY <1>1, <1>2 DEF XMoves
<1>4. /\ AllIn(t)' = AllIn(t) /\ Visible(t)' = Visible(t) /\ \A l : Pending(t, l)' = Pending(t, l)
  BY <1>1, SameTables
<1>5. VisibleOK(t)' /\ KeptOK(t)'
  BY <1>1, <1>2, <1>4, XTypesOf DEF VisibleOK, KeptOK, Leaves, xTables
<1>6. CalledOK(t)'
  BY <1>1, <1>2, <1>4, XTypesOf DEF CalledOK, xTables
<1>7. ExecuteOK(t)' /\ CommitOK(t)' /\ PlacedOK(t)'
  BY <1>1, <1>2, XTypesOf DEF ExecuteOK, CommitOK, PlacedOK
<1> QED
  BY <1>3, <1>5, <1>6, <1>7, XMovesKeep DEF XTxnOK

-----------------------------------------------------------------------------
(***************************************************************************)
(* Steps of a participant.                                                 *)
(***************************************************************************)
LEMMA XReadLockedKeeps == ASSUME XInv, NEW t \in XTxn, XReadLocked(t) PROVE XInv'
<1>1. /\ call[t].at = "read" /\ request' = request /\ request \in [XTxn -> RequestState]
      /\ UNCHANGED <<xTables, orders>> /\ Fn(t) = call[t].fn /\ call[t].fn \in XLambda
      /\ request[t].pc \in {"EXECUTE", "dead"} /\ holders[call[t].fn] = t
  BY XTypesOf DEF XReadLocked, CalleeAt, CalledOK, Executing, Fn, XInv, XTypeOK
<1>2. /\ call' \in [XTxn -> CallState] /\ call'[t].fn = call[t].fn
      /\ \A u \in XTxn : u # t => call'[u] = call[u]
      /\ \/ call'[t].at = "relock" /\ call'[t].read = values[call[t].fn]
         \/ call'[t].at = "returned" /\ ~ call'[t].ok
  <2>1. CASE call' = [call EXCEPT ![t].at = "relock", ![t].read = values[Fn(t)]]
    <3>1. call \in [XTxn -> CallState] /\ call[t] \in CallState
          /\ values[call[t].fn] \in SUBSET XTxn
      BY <1>1 DEF XInv, XTypeOK
    <3>2. [call[t] EXCEPT !.at = "relock", !.read = values[call[t].fn]] \in CallState
      BY <3>1 DEF CallState, Executing
    <3>3. call'[t] = [call[t] EXCEPT !.at = "relock", !.read = values[call[t].fn]]
      BY <1>1, <2>1, <3>1
    <3> QED
      BY <1>1, <2>1, <3>1, <3>2, <3>3 DEF CallState
  <2>2. CASE call' = Reply(t, FALSE)
    BY <2>2, ReplyIs
  <2> QED
    BY <2>1, <2>2 DEF XReadLocked
<1>3. XMoves(t)
  BY <1>1, <1>2 DEF XMoves
<1>4. ~ Visible(t) /\ ~ Visible(t)' /\ \A l : Pending(t, l)' = Pending(t, l)
  BY <1>1, SameTables, XTypesOf DEF VisibleOK, Executing
<1>5. VisibleOK(t)' /\ KeptOK(t)'
  BY <1>1, <1>4, XTypesOf DEF VisibleOK, KeptOK, Leaves, xTables, Executing
<1>6. CalledOK(t)'
  BY <1>1, <1>2 DEF CalledOK, xTables, Executing
<1>7. CommitOK(t)' /\ PlacedOK(t)'
  BY <1>1, XTypesOf DEF CommitOK, PlacedOK, xTables
<1>8. ExecuteOK(t)'
  BY <1>1, <1>2, <1>4, XTypesOf DEF ExecuteOK
<1> QED
  BY <1>3, <1>5, <1>6, <1>7, <1>8, XMovesKeep DEF XTxnOK

LEMMA XAbortKeeps == ASSUME XInv, NEW t \in XTxn, XAbort(t) PROVE XInv'
<1>1. /\ call[t].at = "ABORT" /\ request' = request /\ request \in [XTxn -> RequestState]
      /\ UNCHANGED <<xTables, orders>> /\ call[t].fn \in XLambda
      /\ request[t].pc \in {"ABORT", "dead"}
  BY XTypesOf DEF XAbort, CalleeAt, CalledOK, XInv, XTypeOK
<1>2. /\ call' \in [XTxn -> CallState] /\ call'[t].at = "forget" /\ call'[t].fn = call[t].fn
      /\ \A u \in XTxn : u # t => call'[u] = call[u]
  BY CallAtIs DEF XAbort
<1>3. XMoves(t)
  BY <1>1, <1>2 DEF XMoves
<1>4. ~ Visible(t) /\ ~ Visible(t)' /\ \A l : Pending(t, l)' = Pending(t, l)
  BY <1>1, SameTables, XTypesOf DEF VisibleOK
<1>5. VisibleOK(t)' /\ KeptOK(t)'
  BY <1>1, <1>4, XTypesOf DEF VisibleOK, KeptOK, Leaves, xTables
<1>6. CalledOK(t)'
  BY <1>1, <1>2, <1>4 DEF CalledOK, Executing
<1>7. ExecuteOK(t)' /\ CommitOK(t)' /\ PlacedOK(t)'
  BY <1>1, XTypesOf DEF ExecuteOK, CommitOK, PlacedOK, xTables
<1> QED
  BY <1>3, <1>5, <1>6, <1>7, XMovesKeep DEF XTxnOK

\* TPLRead and TPLWrite lock; what is kept already stays.
LEMMA XLockKeeps ==
  ASSUME XInv, NEW t \in XTxn, NEW at \in {"lock", "relock"}, NEW next \in {"read", "keep"},
         next = "keep" => at = "relock", XLock(t, at, next)
  PROVE  XInv'
<1>1. PICK l \in XLambda : l = call[t].fn
  BY XTypesOf DEF XLock, CalleeAt, CalledOK
<1>2. /\ call[t].at = at /\ request' = request /\ request \in [XTxn -> RequestState]
      /\ UNCHANGED <<local, values, orders, committed>>
      /\ request[t].pc \in {"EXECUTE", "dead"} /\ ~ Visible(t)
  BY XTypesOf DEF XLock, CalleeAt, CalledOK, VisibleOK, Executing, XInv, XTypeOK
<1>3. /\ call' \in [XTxn -> CallState] /\ call'[t].fn = l
      /\ \A u \in XTxn : u # t => call'[u] = call[u]
      /\ holders' \in [XLambda -> XTxn \cup {AVAILABLE}]
      /\ \A h \in XLambda : holders'[h] = holders[h] \/ {holders[h], holders'[h]} \subseteq {t, AVAILABLE}
      /\ \A h \in XLambda : holders[h] = t => holders'[h] = t
      /\ \/ /\ call'[t].at = next /\ holders'[l] = t
            /\ next = "keep" => call'[t].read = values[l]
         \/ call'[t].at = "returned" /\ ~ call'[t].ok
  <2>1. holders \in [XLambda -> XTxn \cup {AVAILABLE}]
    BY DEF XInv, XTypeOK
  <2>2. CASE Free(l, t)
    <3>1. holders' = [holders EXCEPT ![l] = t] /\ call' = [call EXCEPT ![t].at = next]
      BY <1>1, <2>2 DEF XLock, Fn
    <3>2. /\ call' \in [XTxn -> CallState] /\ call'[t].at = next /\ call'[t].fn = l
          /\ call'[t].read = call[t].read
          /\ \A u \in XTxn : u # t => call'[u] = call[u]
      BY <1>1, <3>1, CallAtIs DEF Executing
    <3>3. next = "keep" => call[t].read = values[l]
      BY <1>1, <1>2, XTypesOf DEF CalledOK
    <3>4. /\ holders' \in [XLambda -> XTxn \cup {AVAILABLE}] /\ holders'[l] = t
          /\ \A h \in XLambda : h # l => holders'[h] = holders[h]
          /\ holders[l] \in {t, AVAILABLE}
      BY <2>1, <2>2, <3>1 DEF Free
    <3> QED
      BY <3>2, <3>3, <3>4
  <2>3. CASE ~ Free(l, t)
    <3>1. call' = Reply(t, FALSE) /\ holders' = holders
      BY <1>1, <2>3 DEF XLock, Fn
    <3> QED
      BY <1>1, <2>1, <3>1, ReplyIs
  <2> QED
    BY <2>2, <2>3
<1>4. XStepOf(t)
  BY <1>2, <1>3 DEF XStepOf
<1>5. XTypeOK' /\ values' = committed'
  BY <1>2, <1>3 DEF XInv, XTypeOK
<1>6. ~ Visible(t)' /\ \A h \in XLambda : Pending(t, h) => Pending(t, h)'
  BY <1>2, <1>3 DEF Visible, Pending
<1>7. VisibleOK(t)' /\ KeptOK(t)'
  BY <1>2, <1>6, XTypesOf DEF VisibleOK, KeptOK, Leaves, Executing, Visible
<1>8. CalledOK(t)'
  BY <1>2, <1>3 DEF CalledOK, Executing
<1>9. CommitOK(t)' /\ PlacedOK(t)'
  BY <1>2, XTypesOf DEF CommitOK, PlacedOK
<1>10. ExecuteOK(t)'
  <2> SUFFICES ASSUME request[t].pc = "EXECUTE" PROVE ExecuteOK(t)'
    BY <1>2 DEF ExecuteOK
  <2>1. \A k \in 1 .. request[t].n - 1 : XParticipants[k] \in XLambda
    BY XTypesOf, XParticipantsAreLambda DEF ExecuteOK
  <2> QED
    BY <1>1, <1>2, <1>3, <1>6, <2>1, XTypesOf DEF ExecuteOK
<1> QED
  BY <1>4, <1>5, <1>7, <1>8, <1>9, <1>10, XStepKeeps DEF XTxnOK

LEMMA KeepWriteKeeps == ASSUME XInv, NEW t \in XTxn, KeepWrite(t) PROVE XInv'
<1>1. PICK l \in XLambda : l = call[t].fn
  BY XTypesOf DEF KeepWrite, CalleeAt, CalledOK
<1>2. /\ call[t].at = "keep" /\ request' = request /\ request \in [XTxn -> RequestState]
      /\ UNCHANGED <<holders, values, orders, committed>>
      /\ request[t].pc \in {"EXECUTE", "dead"} /\ ~ Visible(t)
      /\ holders[l] = t /\ call[t].read = values[l]
  BY <1>1, XTypesOf DEF KeepWrite, CalleeAt, CalledOK, VisibleOK, Executing, XInv, XTypeOK
<1>3. /\ call' \in [XTxn -> CallState] /\ call'[t].at = "returned" /\ call'[t].fn = l
      /\ \A u \in XTxn : u # t => call'[u] = call[u]
  BY <1>1, ReplyIs DEF KeepWrite
<1>4. /\ DOMAIN local' = XLambda
      /\ \A h \in XLambda : h # l => local'[h] = local[h]
      /\ DOMAIN local'[l] = DOMAIN local[l] \cup {t}
      /\ local'[l][t] = values[l] \cup {t}
      /\ \A u \in DOMAIN local[l] : u # t => local'[l][u] = local[l][u]
  <2>1. DOMAIN local = XLambda
    BY DEF XInv, XTypeOK
  <2>2. local'[l] = [u \in DOMAIN local[l] \cup {t} |-> IF u = t THEN values[l] \cup {t}
                                                       ELSE local[l][u]]
    BY <1>1, <1>2, <2>1 DEF KeepWrite, Fn
  <2>3. DOMAIN local' = XLambda /\ \A h \in XLambda : h # l => local'[h] = local[h]
    BY <1>1, <2>1 DEF KeepWrite, Fn
  <2> QED
    BY <2>2, <2>3
<1>5. XStepOf(t)
  BY <1>2, <1>3, <1>4 DEF XStepOf
<1>6. XTypeOK' /\ values' = committed'
  <2>1. values[l] \cup {t} \in SUBSET XTxn
    BY DEF XInv, XTypeOK
  <2>2. \A h \in XLambda : \A u \in DOMAIN local'[h] : local'[h][u] \in SUBSET XTxn
    BY <1>4, <2>1 DEF XInv, XTypeOK
  <2> QED
    BY <1>2, <1>3, <1>4, <2>2 DEF XInv, XTypeOK
<1>7. ~ Visible(t)' /\ Pending(t, l)' /\ \A h \in XLambda : Pending(t, h) => Pending(t, h)'
  BY <1>2, <1>4 DEF Visible, Pending
<1>8. VisibleOK(t)'
  BY <1>7 DEF VisibleOK
<1>9. KeptOK(t)'
  BY <1>2, <1>4, <1>7, XTypesOf DEF KeptOK, Leaves, Executing, Visible
<1>10. CalledOK(t)'
  BY <1>2, <1>3 DEF CalledOK, Executing
<1>11. CommitOK(t)' /\ PlacedOK(t)'
  BY <1>2, XTypesOf DEF CommitOK, PlacedOK
<1>12. ExecuteOK(t)'
  <2> SUFFICES ASSUME request[t].pc = "EXECUTE" PROVE ExecuteOK(t)'
    BY <1>2 DEF ExecuteOK
  <2>1. \A k \in 1 .. request[t].n - 1 : XParticipants[k] \in XLambda
    BY XTypesOf, XParticipantsAreLambda DEF ExecuteOK
  <2> QED
    BY <1>1, <1>2, <1>3, <1>7, <2>1, XTypesOf DEF ExecuteOK
<1> QED
  BY <1>5, <1>6, <1>8, <1>9, <1>10, <1>11, <1>12, XStepKeeps DEF XTxnOK

LEMMA XCommitKeeps == ASSUME XInv, NEW t \in XTxn, XCommit(t) PROVE XInv'
<1>1. PICK l \in XLambda : l = call[t].fn
  BY XTypesOf DEF XCommit, CalleeAt, CalledOK
<1>2. /\ call[t].at = "COMMIT" /\ request' = request /\ request \in [XTxn -> RequestState]
      /\ UNCHANGED <<local, orders>>
      /\ request[t].pc \in {"COMMIT", "dead"} /\ AllIn(t)
  BY XTypesOf DEF XCommit, CalleeAt, CalledOK, XInv, XTypeOK
<1>3. /\ call' \in [XTxn -> CallState] /\ call'[t].at = "forget" /\ call'[t].fn = l
      /\ \A u \in XTxn : u # t => call'[u] = call[u]
  BY <1>1, CallAtIs DEF XCommit
<1>4. \A h \in XLambda : t \in DOMAIN local[h] => Pending(t, h)
  BY <1>2, XTypesOf DEF KeptOK, Leaves
<1>5. /\ values' \in [XLambda -> SUBSET XTxn] /\ holders' \in [XLambda -> XTxn \cup {AVAILABLE}]
      /\ values' = committed' /\ t \in values'[l] /\ holders'[l] # t
      /\ \A h \in XLambda : h # l => values'[h] = values[h] /\ holders'[h] = holders[h]
      /\ \/ values'[l] = values[l] /\ holders'[l] = holders[l]
         \/ values'[l] = values[l] \cup {t} /\ holders[l] = t /\ holders'[l] = AVAILABLE
  <2>1. /\ holders \in [XLambda -> XTxn \cup {AVAILABLE}] /\ values \in [XLambda -> SUBSET XTxn]
        /\ values = committed
    BY DEF XInv, XTypeOK
  <2>2. CASE t \in DOMAIN local[l]
    <3>1. Pending(t, l)
      BY <1>4, <2>2
    <3>2. /\ values' = [values EXCEPT ![l] = values[l] \cup {t}]
          /\ holders' = [holders EXCEPT ![l] = AVAILABLE]
          /\ committed' = [committed EXCEPT ![l] = committed[l] \cup {t}]
      BY <1>1, <2>2, <3>1 DEF XCommit, Fn, Pending
    <3> QED
      BY <2>1, <3>1, <3>2, AvailableAssumption DEF Pending
  <2>3. CASE t \notin DOMAIN local[l]
    <3>1. UNCHANGED <<values, holders, committed>>
      BY <1>1, <2>3 DEF XCommit, Fn
    <3>2. t \in values[l]
      BY <1>2, <2>3 DEF AllIn, Pending
    <3>3. holders[l] # t
      BY <3>2, XTypesOf DEF KeptOK
    <3> QED
      BY <2>1, <3>1, <3>2, <3>3
  <2> QED
    BY <2>2, <2>3
<1>6. XStepOf(t)
  BY <1>2, <1>3, <1>5 DEF XStepOf
<1>7. XTypeOK'
  BY <1>2, <1>3, <1>5 DEF XInv, XTypeOK
<1>8. /\ \A h \in XLambda : h # l => (Pending(t, h) => Pending(t, h)')
      /\ \A h \in XLambda : t \in values[h] => t \in values'[h]
  BY <1>2, <1>5 DEF Pending
<1>9. AllIn(t)'
  BY <1>2, <1>5, <1>8 DEF AllIn
<1>10. VisibleOK(t)'
  BY <1>2, <1>3, <1>9 DEF VisibleOK, Executing
<1>11. KeptOK(t)'
  BY <1>2, <1>3, <1>4, <1>5, <1>8, XTypesOf DEF KeptOK, Leaves
<1>12. CalledOK(t)'
  BY <1>2, <1>3, <1>5 DEF CalledOK, Executing
<1>13. ExecuteOK(t)' /\ PlacedOK(t)'
  BY <1>2, XTypesOf DEF ExecuteOK, PlacedOK
<1>14. CommitOK(t)'
  <2> SUFFICES ASSUME request[t].pc = "COMMIT" PROVE CommitOK(t)'
    BY <1>2 DEF CommitOK
  <2>1. \A k \in 1 .. request[t].n - 1 : XParticipants[k] \in XLambda
    BY XTypesOf, XParticipantsAreLambda DEF CommitOK
  <2> QED
    BY <1>1, <1>2, <1>3, <1>8, <1>9, <2>1, XTypesOf DEF CommitOK
<1> QED
  BY <1>5, <1>6, <1>7, <1>10, <1>11, <1>12, <1>13, <1>14, XStepKeeps DEF XTxnOK

LEMMA ForgetTxnKeeps == ASSUME XInv, NEW t \in XTxn, ForgetTxn(t) PROVE XInv'
<1>1. PICK l \in XLambda : l = call[t].fn
  BY XTypesOf DEF ForgetTxn, CalleeAt, CalledOK
<1>2. /\ call[t].at = "forget" /\ request' = request /\ request \in [XTxn -> RequestState]
      /\ UNCHANGED <<holders, values, orders, committed>>
      /\ request[t].pc \in {"COMMIT", "ABORT", "dead"}
      /\ t \in values[l] \/ (request[t].pc # "COMMIT" /\ ~ Visible(t))
  BY <1>1, XTypesOf DEF ForgetTxn, CalleeAt, CalledOK, XInv, XTypeOK
<1>3. /\ call' \in [XTxn -> CallState] /\ call'[t].at = "returned" /\ call'[t].fn = l
      /\ \A u \in XTxn : u # t => call'[u] = call[u]
  BY <1>1, ReplyIs DEF ForgetTxn
<1>4. /\ DOMAIN local' = XLambda
      /\ \A h \in XLambda : h # l => local'[h] = local[h]
      /\ DOMAIN local'[l] = DOMAIN local[l] \ {t}
      /\ \A u \in DOMAIN local'[l] : local'[l][u] = local[l][u]
  <2>1. DOMAIN local = XLambda
    BY DEF XInv, XTypeOK
  <2>2. local' = [local EXCEPT ![l] = [u \in DOMAIN local[l] \ {t} |-> local[l][u]]]
    BY <1>1 DEF ForgetTxn, Forget, Fn
  <2>3. local'[l] = [u \in DOMAIN local[l] \ {t} |-> local[l][u]]
    BY <2>1, <2>2
  <2>4. DOMAIN local' = XLambda /\ \A h \in XLambda : h # l => local'[h] = local[h]
    BY <2>1, <2>2
  <2> QED
    BY <2>3, <2>4
<1>5. XStepOf(t)
  BY <1>2, <1>3, <1>4 DEF XStepOf
<1>6. XTypeOK' /\ values' = committed'
  BY <1>2, <1>3, <1>4 DEF XInv, XTypeOK
<1>7. /\ Visible(t)' = Visible(t)
      /\ \A h \in XLambda : h # l => (Pending(t, h) => Pending(t, h)')
  BY <1>2, <1>4 DEF Visible, Pending
<1>8. t \in values[l] => (AllIn(t) => AllIn(t)')
  BY <1>2, <1>7 DEF AllIn
<1>9. VisibleOK(t)'
  BY <1>2, <1>3, <1>7, <1>8, XTypesOf DEF VisibleOK, Executing
<1>10. KeptOK(t)'
  BY <1>1, <1>2, <1>3, <1>4, <1>7, XTypesOf DEF KeptOK, Leaves, Executing
<1>11. CalledOK(t)'
  BY <1>2, <1>3 DEF CalledOK, Executing
<1>12. ExecuteOK(t)' /\ PlacedOK(t)'
  BY <1>2, XTypesOf DEF ExecuteOK, PlacedOK
<1>13. CommitOK(t)'
  BY <1>1, <1>2, <1>3, <1>8, XTypesOf DEF CommitOK
<1> QED
  BY <1>5, <1>6, <1>9, <1>10, <1>11, <1>12, <1>13, XStepKeeps DEF XTxnOK

-----------------------------------------------------------------------------
(***************************************************************************)
(* The invariant holds in every state that the program reaches.            *)
(***************************************************************************)
LEMMA XInitHolds == XInit => XInv
<1> SUFFICES ASSUME XInit PROVE XInv
  OBVIOUS
<1>1. XTypeOK /\ values = committed
  <2>1. [pc |-> "idle", n |-> 1, callees |-> <<>>] \in RequestState
    BY DEF RequestState
  <2> QED
    BY <2>1, NoCallIs DEF XInit, XTypeOK
<1>2. ASSUME NEW t \in XTxn PROVE XTxnOK(t)
  <2>1. /\ request[t].pc = "idle" /\ request[t].n = 1 /\ request[t].callees = <<>>
        /\ call[t].at = "none" /\ t \notin orders
        /\ \A l \in XLambda : DOMAIN local[l] = {} /\ values[l] = {}
    BY NoCallIs DEF XInit
  <2>2. VisibleOK(t) /\ KeptOK(t) /\ PlacedOK(t)
    BY <2>1 DEF VisibleOK, Visible, KeptOK, PlacedOK
  <2>3. CalledOK(t) /\ ExecuteOK(t) /\ CommitOK(t)
    BY <2>1 DEF CalledOK, ExecuteOK, CommitOK, Executing
  <2> QED
    BY <2>2, <2>3 DEF XTxnOK
<1> QED
  BY <1>1, <1>2 DEF XInv

LEMMA XNextKeeps == XInv /\ [XNext]_xVars => XInv'
<1> SUFFICES ASSUME XInv, [XNext]_xVars PROVE XInv'
  OBVIOUS
<1>1. CASE XNext
  <2>1. PICK t \in XTxn : XStep(t) \/ XCalleeDies(t) \/ XFrontendDies(t)
    BY <1>1 DEF XNext
  <2>2. CASE XBegin(t) \/ LogCallee(t) \/ Answered(t)
    BY <2>2, XBeginKeeps, LogCalleeKeeps, AnsweredKeeps
  <2>3. CASE InvokeCallee(t) \/ CalleeEnded(t) \/ AsyncInvoke(t) \/ XAborted(t)
    BY <2>3, InvokeCalleeKeeps, CalleeEndedKeeps, AsyncInvokeKeeps, XAbortedKeeps
  <2>4. CASE XLockToRead(t) \/ XLockToWrite(t)
    BY <2>4, XLockKeeps DEF XLockToRead, XLockToWrite
  <2>5. CASE XReadLocked(t) \/ KeepWrite(t)
    BY <2>5, XReadLockedKeeps, KeepWriteKeeps
  <2>6. CASE XCommit(t) \/ XAbort(t) \/ ForgetTxn(t)
    BY <2>6, XCommitKeeps, XAbortKeeps, ForgetTxnKeeps
  <2>7. CASE XCalleeDies(t) \/ XFrontendDies(t)
    BY <2>7, XCalleeDiesKeeps, XFrontendDiesKeeps
  <2> QED
    BY <2>1, <2>2, <2>3, <2>4, <2>5, <2>6, <2>7 DEF XStep
<1>2. CASE UNCHANGED xVars
  <2>1. UNCHANGED <<request, call, orders>> /\ UNCHANGED xTables
    BY <1>2 DEF xVars
  <2>2. request \in [XTxn -> RequestState] /\ call \in [XTxn -> CallState]
    BY DEF XInv, XTypeOK
  <2>3. ASSUME NEW t \in XTxn PROVE XTxnOK(t)'
    <3>1. /\ AllIn(t)' = AllIn(t) /\ Visible(t)' = Visible(t)
          /\ \A l : Pending(t, l)' = Pending(t, l)
      BY <2>1, SameTables
    <3>2. VisibleOK(t)' /\ KeptOK(t)' /\ CalledOK(t)'
      BY <2>1, <3>1, XTypesOf DEF VisibleOK, KeptOK, CalledOK, Leaves, xTables
    <3>3. ExecuteOK(t)' /\ CommitOK(t)' /\ PlacedOK(t)'
      BY <2>1, <3>1, XTypesOf DEF ExecuteOK, CommitOK, PlacedOK, xTables
    <3> QED
      BY <3>2, <3>3 DEF XTxnOK
  <2> QED
    BY <2>1, <2>2, <2>3 DEF XInv, XTypeOK, xTables
<1> QED
  BY <1>1, <1>2

LEMMA XInvIsAtomic == XInv => BeldiAtomic
<1> SUFFICES ASSUME XInv PROVE BeldiAtomic
  OBVIOUS
<1>1. values = committed
  BY DEF XInv
<1>2. ASSUME NEW t \in XTxn, NEW l \in XLambda, t \in values[l]
      PROVE  /\ \A h \in XLambda : t \in values[h] \/ (t \in DOMAIN local[h] /\ holders[h] = t)
             /\ request[t].pc # "failed"
  BY <1>2, XTypesOf DEF VisibleOK, Visible, AllIn, Pending
<1>3. ASSUME NEW t \in XTxn, request[t].pc = "placed" \/ t \in orders, NEW l \in XLambda
      PROVE  t \in values[l] /\ holders[l] # t
  BY <1>3, XTypesOf DEF PlacedOK, KeptOK
<1> QED
  BY <1>1, <1>2, <1>3 DEF BeldiAtomic

(***************************************************************************)
(* The inductive invariant of Beldi's transactions holds in every          *)
(* reachable state, for any participants, transactions and deaths: an item *)
(* has what was committed, and what one participant shows the others show, *)
(* or keep in their local tables under their locks.                        *)
(***************************************************************************)
THEOREM XInvHolds == XSpec => []XInv
BY XInitHolds, XNextKeeps, PTL DEF XSpec

(***************************************************************************)
(* A transaction of Beldi that is visible at one participant is visible at *)
(* the others, or its write is kept there under its lock, so that nobody   *)
(* reads what was there before; no update is lost; what was placed or      *)
(* ordered is committed everywhere and unlocked (TPLCommit, TPLAbort and   *)
(* the handlers of Beldi's hotel).                                         *)
(***************************************************************************)
THEOREM BeldiIsAtomic == XSpec => []BeldiAtomic
BY XInvHolds, XInvIsAtomic, PTL

-----------------------------------------------------------------------------
(***************************************************************************)
(* BokiFlow.                                                               *)
(***************************************************************************)
BPcs == {"idle", "run", "propose", "catch", "write", "post", "invoke", "wait", "answer",
         "done", "panic"}
Held == [seqNum : Nat, step : Nat, postStep : BOOLEAN,
         data : LogData \cup [type : {"none"}, val : Nat]]
Fsm == [applied : Nat, stepLogs : Seq(IntentLogEntry), posts : SUBSET Nat]

BTypeOK ==
  /\ bProgram \in BPrograms
  /\ bTail \in Nat
  /\ bStream \in [BInstance -> Seq(IntentLogEntry)]
  /\ bDecided \in [BInstance -> Seq(IntentLogEntry)]
  /\ bVersion \in [BKey -> Nat]
  /\ bStep \in [BExecutor -> Nat]
  /\ bFsm \in [BExecutor -> Fsm]
  /\ bPc \in [BExecutor -> BPcs]
  /\ bHeld \in [BExecutor -> Held]
  /\ bTold \in [BExecutor -> Seq(LogData)]
  /\ bOrphans \in SUBSET [caller : BInstance, step : Nat]
  /\ bCrashes \in Nat

\* Entry number p is of step n, and not a result.
IsOf(i, p, n) == ~ bStream[i][p].postStep /\ bStream[i][p].step = n

\* An entry of a step follows one of the step before, and is the first of its own if
\* it decides the step.
EntryOK(i, p) ==
  LET n == bStream[i][p].step
  IN  /\ n < Len(bDecided[i])
      /\ n # 0 => \E x \in 1 .. p - 1 : IsOf(i, x, n - 1)
      /\ bStream[i][p] = bDecided[i][n + 1] \/ \E x \in 1 .. p - 1 : IsOf(i, x, n)

\* A write that has a result is in the table.
ResultOK(i, n) ==
  /\ n < Len(bDecided[i])
  /\ bDecided[i][n + 1].data.type = "PreWrite" =>
       bDecided[i][n + 1].seqNum <= bVersion[bDecided[i][n + 1].data.key]

\* The first entry of a step is of the operation of that step; what a read has logged
\* was in the table.
DecidedOK(i, n) ==
  LET entry == bDecided[i][n]
  IN  /\ ~ entry.postStep /\ entry.data \in LogData
      /\ entry.data.type = bProgram[i][n].type /\ entry.data.key = bProgram[i][n].key
      /\ entry.seqNum <= bTail
      /\ entry.data.type = "Read" => entry.data.val <= bVersion[entry.data.key]

InOrder(i, s, t) ==
  /\ "PreInvoke" \notin {bDecided[i][s].data.type, bDecided[i][t].data.type}
  /\ bDecided[i][s].data.key = bDecided[i][t].data.key
  => VersionAt(i, s) <= VersionAt(i, t)

PositionOK(i, p) ==
  IF bStream[i][p].postStep THEN ResultOK(i, bStream[i][p].step) ELSE EntryOK(i, p)

BStreamOK(i) ==
  /\ Len(bDecided[i]) <= Len(bProgram[i])
  /\ \A n \in 1 .. Len(bDecided[i]) :
       /\ DecidedOK(i, n)
       /\ \E x \in 1 .. Len(bStream[i]) : IsOf(i, x, n - 1)
  /\ \A p \in 1 .. Len(bStream[i]) : PositionOK(i, p)
  /\ \A s, t \in 1 .. Len(bDecided[i]) : s < t => InOrder(i, s, t)

\* The IntentFsm has applied a part of the stream: it has the first entry of each step
\* that occurs there.
BFsmOK(e) ==
  LET fsm == bFsm[e]
      i == BInstanceOf[e]
  IN  /\ fsm.applied <= Len(bStream[i])
      /\ Len(fsm.stepLogs) <= Len(bDecided[i])
      /\ \A n \in 1 .. Len(fsm.stepLogs) : fsm.stepLogs[n] = bDecided[i][n]
      /\ \A p \in 1 .. fsm.applied :
           ~ bStream[i][p].postStep => bStream[i][p].step < Len(fsm.stepLogs)
      /\ \A n \in fsm.posts : ResultOK(i, n)

\* What was told of step n is in the table, or younger things are.
Passed(i, n) ==
  bDecided[i][n].data.type # "PreInvoke" =>
    VersionAt(i, n) <= bVersion[bDecided[i][n].data.key]

Holds(e) ==
  /\ Seen(e)
  /\ bStep[e] < Len(bDecided[BInstanceOf[e]])
  /\ bHeld[e] = bDecided[BInstanceOf[e]][bStep[e] + 1]

\* Each step that is over told what was decided.
ToldOK(e) ==
  LET i == BInstanceOf[e]
  IN  /\ bStep[e] <= Len(bDecided[i])
      /\ Len(bTold[e]) = bStep[e]
      /\ \A n \in 1 .. bStep[e] : bTold[e][n] = bDecided[i][n].data /\ Passed(i, n)

\* What is known where an execution is.
BPcOK(e) ==
  LET i == BInstanceOf[e]
  IN  /\ bPc[e] # "panic"
      /\ bPc[e] = "idle" => bStep[e] = 0
      /\ bPc[e] = "done" => bStep[e] = Len(bProgram[i])
      /\ bPc[e] # "done" => bStep[e] <= Len(bFsm[e].stepLogs)
      /\ bPc[e] = "propose" =>
           /\ HasOp(e) /\ ~ Seen(e) /\ Op(e).type = "Read"
           /\ bHeld[e].data.val <= bVersion[Op(e).key]
           /\ \A n \in 1 .. bStep[e] :
                /\ bDecided[i][n].data.type # "PreInvoke"
                /\ bDecided[i][n].data.key = Op(e).key
                => VersionAt(i, n) <= bHeld[e].data.val
      /\ bPc[e] = "catch" => \E x \in 1 .. Len(bStream[i]) : IsOf(i, x, bStep[e])
      /\ bPc[e] \in {"write", "post"} => Holds(e) /\ bHeld[e].data.type = "PreWrite"
      /\ bPc[e] = "post" => bHeld[e].seqNum <= bVersion[bHeld[e].data.key]
      /\ bPc[e] \in {"invoke", "wait", "answer"} =>
           Holds(e) /\ bHeld[e].data.type = "PreInvoke"

BExecutorOK(e) == ToldOK(e) /\ BFsmOK(e) /\ BPcOK(e)

OrphanOK(o) ==
  /\ o.step < Len(bDecided[o.caller])
  /\ bDecided[o.caller][o.step + 1].data.type = "PreInvoke"

BInv ==
  /\ BTypeOK
  /\ \A k \in BKey : bVersion[k] <= bTail
  /\ \A i \in BInstance : BStreamOK(i)
  /\ \A e \in BExecutor : BExecutorOK(e)
  /\ \A o \in bOrphans : OrphanOK(o)

-----------------------------------------------------------------------------
\* The log and the table only grow.
Extends(new, old) ==
  /\ Len(old) <= Len(new)
  /\ \A n \in 1 .. Len(old) : new[n] = old[n]

LogGrows ==
  /\ bProgram' = bProgram
  /\ bTail <= bTail'
  /\ \A i \in BInstance : Extends(bStream'[i], bStream[i]) /\ Extends(bDecided'[i], bDecided[i])
  /\ \A k \in BKey : bVersion[k] <= bVersion'[k]

Same(e) ==
  /\ bStep'[e] = bStep[e] /\ bFsm'[e] = bFsm[e] /\ bPc'[e] = bPc[e]
  /\ bHeld'[e] = bHeld[e] /\ bTold'[e] = bTold[e]

\* What BTypeOK says of the parts of an entry of the log.
LEMMA BDecidedTypes ==
  ASSUME BTypeOK, NEW i \in BInstance, NEW n \in 1 .. Len(bDecided[i])
  PROVE  /\ Len(bDecided[i]) \in Nat
         /\ bDecided[i][n] \in IntentLogEntry
         /\ bDecided[i][n].seqNum \in Nat /\ bDecided[i][n].step \in Nat
         /\ bDecided[i][n].data \in LogData =>
              /\ bDecided[i][n].data.key \in BKey
              /\ bDecided[i][n].data.val \in Nat
              /\ VersionAt(i, n) \in Nat
<1>1. bDecided[i] \in Seq(IntentLogEntry) /\ Len(bDecided[i]) \in Nat
  BY DEF BTypeOK
<1>2. bDecided[i][n] \in IntentLogEntry
  BY <1>1
<1> QED
  BY <1>1, <1>2 DEF IntentLogEntry, LogData, VersionAt

LEMMA BStreamTypes ==
  ASSUME BTypeOK, NEW i \in BInstance
  PROVE  /\ Len(bStream[i]) \in Nat
         /\ \A p \in 1 .. Len(bStream[i]) :
              /\ bStream[i][p] \in IntentLogEntry
              /\ bStream[i][p].step \in Nat
              /\ bStream[i][p].postStep \in BOOLEAN
<1>1. bStream[i] \in Seq(IntentLogEntry) /\ Len(bStream[i]) \in Nat
  BY DEF BTypeOK
<1>2. ASSUME NEW p \in 1 .. Len(bStream[i])
      PROVE  bStream[i][p] \in IntentLogEntry
  BY <1>1
<1> QED
  BY <1>1, <1>2 DEF IntentLogEntry

\* A result stays true.
LEMMA ResultKept ==
  ASSUME BTypeOK, BTypeOK', LogGrows, NEW i \in BInstance, NEW n \in Nat, ResultOK(i, n),
         DecidedOK(i, n + 1)
  PROVE  ResultOK(i, n)'
<1>1. n + 1 \in 1 .. Len(bDecided[i]) /\ Len(bDecided[i]) \in Nat
  BY DEF ResultOK, BTypeOK
<1>2. bDecided'[i][n + 1] = bDecided[i][n + 1] /\ n < Len(bDecided'[i])
  <2>1. Len(bDecided'[i]) \in Nat
    BY DEF BTypeOK
  <2> QED
    BY <1>1, <2>1 DEF LogGrows, Extends
<1>3. bDecided[i][n + 1].data.key \in BKey /\ bDecided[i][n + 1].seqNum \in Nat
  BY <1>1, BDecidedTypes DEF DecidedOK
<1>4. bVersion[bDecided[i][n + 1].data.key] \in Nat /\ bVersion'[bDecided[i][n + 1].data.key] \in Nat
  BY <1>3 DEF BTypeOK
<1> QED
  BY <1>2, <1>3, <1>4 DEF ResultOK, LogGrows

\* So does what an execution was told.
LEMMA PassedKept ==
  ASSUME BTypeOK, BTypeOK', LogGrows, NEW i \in BInstance, NEW n \in 1 .. Len(bDecided[i]),
         DecidedOK(i, n), Passed(i, n)
  PROVE  Passed(i, n)' /\ VersionAt(i, n)' = VersionAt(i, n)
<1>1. bDecided'[i][n] = bDecided[i][n]
  BY DEF LogGrows, Extends
<1>2. bDecided[i][n].data.key \in BKey /\ VersionAt(i, n) \in Nat
  BY BDecidedTypes DEF DecidedOK
<1>3. bVersion[bDecided[i][n].data.key] \in Nat /\ bVersion'[bDecided[i][n].data.key] \in Nat
  BY <1>2 DEF BTypeOK
<1>4. VersionAt(i, n)' = VersionAt(i, n)
  BY <1>1 DEF VersionAt
<1> QED
  BY <1>1, <1>2, <1>3, <1>4 DEF Passed, LogGrows

LEMMA FsmKept ==
  ASSUME BTypeOK, BTypeOK', LogGrows, NEW e \in BExecutor, bFsm'[e] = bFsm[e],
         BStreamOK(BInstanceOf[e]), BFsmOK(e)
  PROVE  BFsmOK(e)'
<1> DEFINE i == BInstanceOf[e]
<1>1. i \in BInstance
  BY BInstanceOfAssumption
<1>2. bFsm'[e] = bFsm[e] /\ bFsm[e] \in Fsm
  BY DEF BTypeOK
<1>3. /\ bFsm[e].applied \in Nat /\ Len(bFsm[e].stepLogs) \in Nat
      /\ Len(bStream[i]) \in Nat /\ Len(bDecided[i]) \in Nat
      /\ Len(bStream'[i]) \in Nat /\ Len(bDecided'[i]) \in Nat
  <2>1. bFsm[e].applied \in Nat /\ Len(bFsm[e].stepLogs) \in Nat
    BY <1>2 DEF Fsm
  <2>2. Len(bStream[i]) \in Nat /\ Len(bDecided[i]) \in Nat
    <3>1. bStream[i] \in Seq(IntentLogEntry) /\ bDecided[i] \in Seq(IntentLogEntry)
      BY <1>1 DEF BTypeOK
    <3> QED BY <3>1
  <2>3. Len(bStream'[i]) \in Nat /\ Len(bDecided'[i]) \in Nat
    BY <1>1 DEF BTypeOK
  <2> QED
    BY <2>1, <2>2, <2>3
<1>4. /\ Extends(bStream'[i], bStream[i])
      /\ Extends(bDecided'[i], bDecided[i])
  BY <1>1 DEF LogGrows
<1>5. ASSUME NEW n \in bFsm[e].posts
      PROVE  ResultOK(i, n)'
  <2>1. n \in Nat
    BY <1>2 DEF Fsm
  <2>2. ResultOK(i, n)
    BY DEF BFsmOK
  <2>3. DecidedOK(i, n + 1)
    BY <1>1, <1>3, <2>1, <2>2 DEF ResultOK, BStreamOK
  <2> QED
    BY <1>1, <2>1, <2>2, <2>3, ResultKept
<1>6. \A n \in 1 .. Len(bFsm[e].stepLogs) : bFsm[e].stepLogs[n] = bDecided'[i][n]
  BY <1>3, <1>4 DEF BFsmOK, Extends
<1>7. \A p \in 1 .. bFsm[e].applied :
        ~ bStream'[i][p].postStep => bStream'[i][p].step < Len(bFsm[e].stepLogs)
  BY <1>3, <1>4 DEF BFsmOK, Extends
<1> QED
  <2>1. bFsm[e].applied <= Len(bStream[i]) /\ Len(bFsm[e].stepLogs) <= Len(bDecided[i])
    BY DEF BFsmOK
  <2>2. bFsm[e].applied <= Len(bStream'[i]) /\ Len(bFsm[e].stepLogs) <= Len(bDecided'[i])
    <3>1. Len(bStream[i]) <= Len(bStream'[i]) /\ Len(bDecided[i]) <= Len(bDecided'[i])
      BY <1>4 DEF Extends
    <3>2. \A a, b, c \in Nat : a <= b /\ b <= c => a <= c
      OBVIOUS
    <3>3. bFsm[e].applied <= Len(bStream'[i])
      BY <1>3, <2>1, <3>1, <3>2, Zenon
    <3>4. Len(bFsm[e].stepLogs) <= Len(bDecided'[i])
      BY <1>3, <2>1, <3>1, <3>2, Zenon
    <3> QED
      BY <3>3, <3>4
  <2> QED
    BY <1>2, <1>5, <1>6, <1>7, <2>2 DEF BFsmOK

LEMMA ToldKept ==
  ASSUME BTypeOK, BTypeOK', LogGrows, NEW e \in BExecutor, bStep'[e] = bStep[e],
         bTold'[e] = bTold[e], BStreamOK(BInstanceOf[e]), ToldOK(e)
  PROVE  /\ ToldOK(e)'
         /\ \A n \in 1 .. bStep[e] :
              /\ bDecided'[BInstanceOf[e]][n] = bDecided[BInstanceOf[e]][n]
              /\ VersionAt(BInstanceOf[e], n)' = VersionAt(BInstanceOf[e], n)
<1> DEFINE i == BInstanceOf[e]
<1>1. i \in BInstance
  BY BInstanceOfAssumption
<1>2. bStep[e] \in Nat /\ Len(bDecided[i]) \in Nat /\ Len(bDecided'[i]) \in Nat
  BY <1>1 DEF BTypeOK
<1>3. Extends(bDecided'[i], bDecided[i])
  BY <1>1 DEF LogGrows
<1>4. bStep[e] <= Len(bDecided[i]) /\ bStep[e] <= Len(bDecided'[i])
  BY <1>2, <1>3 DEF ToldOK, Extends
<1>5. ASSUME NEW n \in 1 .. bStep[e]
      PROVE  /\ bDecided'[i][n] = bDecided[i][n]
             /\ Passed(i, n)' /\ VersionAt(i, n)' = VersionAt(i, n)
  <2>1. n \in 1 .. Len(bDecided[i]) /\ DecidedOK(i, n) /\ Passed(i, n)
    BY <1>1, <1>2, <1>4 DEF BStreamOK, ToldOK
  <2>2. bDecided'[i][n] = bDecided[i][n]
    BY <1>3, <2>1 DEF Extends
  <2> QED
    BY <1>1, <2>1, <2>2, PassedKept
<1> QED
  BY <1>4, <1>5 DEF ToldOK

\* An execution is not disturbed by what the others append and write.
LEMMA ExecutorKept ==
  ASSUME BTypeOK, BTypeOK', LogGrows, NEW e \in BExecutor, Same(e),
         BStreamOK(BInstanceOf[e]), BExecutorOK(e)
  PROVE  BExecutorOK(e)'
<1> DEFINE i == BInstanceOf[e]
<1>1. i \in BInstance
  BY BInstanceOfAssumption
<1>2. bStep[e] \in Nat /\ Len(bDecided[i]) \in Nat /\ Len(bDecided'[i]) \in Nat
      /\ Len(bStream[i]) \in Nat /\ Len(bStream'[i]) \in Nat
  BY <1>1 DEF BTypeOK
<1>3. /\ Extends(bStream'[i], bStream[i])
      /\ Extends(bDecided'[i], bDecided[i])
      /\ bProgram' = bProgram
  BY <1>1 DEF LogGrows
<1>6. /\ ToldOK(e)'
      /\ \A n \in 1 .. bStep[e] : /\ bDecided'[i][n] = bDecided[i][n]
                                  /\ VersionAt(i, n)' = VersionAt(i, n)
  BY ToldKept DEF BExecutorOK, Same
<1>7. /\ HasOp(e)' <=> HasOp(e)
      /\ Op(e)' = Op(e)
      /\ Seen(e)' <=> Seen(e)
  BY <1>3 DEF HasOp, Op, Seen, Same
<1>8. Holds(e) => Holds(e)'
  <2> SUFFICES ASSUME Holds(e) PROVE Holds(e)'
    OBVIOUS
  <2>1. bStep[e] + 1 \in 1 .. Len(bDecided[i])
    BY <1>2 DEF Holds
  <2>2. bDecided'[i][bStep[e] + 1] = bDecided[i][bStep[e] + 1] /\ bStep[e] < Len(bDecided'[i])
    BY <1>2, <1>3, <2>1 DEF Extends
  <2> QED
    BY <1>7, <2>2 DEF Holds, Same
<1>9. (\E x \in 1 .. Len(bStream[i]) : IsOf(i, x, bStep[e]))
      => \E x \in 1 .. Len(bStream'[i]) : IsOf(i, x, bStep[e])'
  <2> SUFFICES ASSUME NEW x \in 1 .. Len(bStream[i]), IsOf(i, x, bStep[e])
               PROVE  x \in 1 .. Len(bStream'[i]) /\ IsOf(i, x, bStep[e])'
    OBVIOUS
  <2>1. bStream'[i][x] = bStream[i][x] /\ x \in 1 .. Len(bStream'[i])
    BY <1>2, <1>3 DEF Extends
  <2> QED
    BY <2>1 DEF IsOf, Same
<1>10. BFsmOK(e)'
  BY FsmKept DEF BExecutorOK, Same
<1>11. bPc[e] = "propose" =>
         /\ Op(e).key \in BKey
         /\ bHeld[e].data.val <= bVersion[Op(e).key]
         /\ bHeld[e].data.val \in Nat
  <2> SUFFICES ASSUME bPc[e] = "propose" PROVE Op(e).key \in BKey /\ bHeld[e].data.val \in Nat
    BY DEF BExecutorOK, BPcOK
  <2>1. HasOp(e) /\ bProgram[i] \in Seq(Operation)
    BY <1>1, BProgramsAssumption DEF BExecutorOK, BPcOK, BTypeOK
  <2>2. Op(e) \in Operation
    BY <1>2, <2>1 DEF HasOp, Op
  <2>3. bHeld[e] \in Held
    BY DEF BTypeOK
  <2> QED
    BY <2>2, <2>3 DEF Operation, Held, LogData
<1>12. bPc[e] = "propose" => bHeld[e].data.val <= bVersion'[Op(e).key]
  <2> SUFFICES ASSUME bPc[e] = "propose" PROVE bHeld[e].data.val <= bVersion'[Op(e).key]
    OBVIOUS
  <2>1. bVersion[Op(e).key] \in Nat /\ bVersion'[Op(e).key] \in Nat
    BY <1>11 DEF BTypeOK
  <2> QED
    BY <1>11, <2>1 DEF LogGrows
<1>13. bPc[e] = "post" => bHeld[e].seqNum <= bVersion'[bHeld[e].data.key]
  <2> SUFFICES ASSUME bPc[e] = "post" PROVE bHeld[e].seqNum <= bVersion'[bHeld[e].data.key]
    OBVIOUS
  <2>1. Holds(e) /\ bHeld[e].seqNum <= bVersion[bHeld[e].data.key]
    BY DEF BExecutorOK, BPcOK
  <2>2. bStep[e] + 1 \in 1 .. Len(bDecided[i])
    BY <1>2, <2>1 DEF Holds
  <2>3. DecidedOK(i, bStep[e] + 1)
    BY <1>1, <2>2 DEF BStreamOK
  <2>4. bHeld[e].data.key \in BKey /\ bHeld[e].seqNum \in Nat
    BY <1>1, <2>1, <2>2, <2>3, BDecidedTypes DEF Holds, DecidedOK
  <2>5. bVersion[bHeld[e].data.key] \in Nat /\ bVersion'[bHeld[e].data.key] \in Nat
    BY <2>4 DEF BTypeOK
  <2> QED
    BY <2>1, <2>4, <2>5 DEF LogGrows
<1>14. /\ bStep'[e] = bStep[e] /\ bFsm'[e] = bFsm[e] /\ bPc'[e] = bPc[e]
       /\ bHeld'[e] = bHeld[e] /\ bTold'[e] = bTold[e]
  BY DEF Same
<1>16. /\ bPc'[e] # "panic"
       /\ bPc'[e] = "idle" => bStep'[e] = 0
       /\ bPc'[e] = "done" => bStep'[e] = Len(bProgram'[i])
       /\ bPc'[e] # "done" => bStep'[e] <= Len(bFsm'[e].stepLogs)
  BY <1>3, <1>14 DEF BExecutorOK, BPcOK
<1>17. bPc'[e] = "propose" =>
         /\ HasOp(e)' /\ ~ Seen(e)' /\ Op(e)'.type = "Read"
         /\ bHeld'[e].data.val <= bVersion'[Op(e)'.key]
         /\ \A n \in 1 .. bStep'[e] :
              /\ bDecided'[i][n].data.type # "PreInvoke"
              /\ bDecided'[i][n].data.key = Op(e)'.key
              => VersionAt(i, n)' <= bHeld'[e].data.val
  BY <1>6, <1>7, <1>12, <1>14 DEF BExecutorOK, BPcOK
<1>18. /\ bPc'[e] = "catch" => \E x \in 1 .. Len(bStream'[i]) : IsOf(i, x, bStep[e])'
       /\ bPc'[e] \in {"write", "post"} => Holds(e)' /\ bHeld'[e].data.type = "PreWrite"
       /\ bPc'[e] = "post" => bHeld'[e].seqNum <= bVersion'[bHeld'[e].data.key]
       /\ bPc'[e] \in {"invoke", "wait", "answer"} =>
            Holds(e)' /\ bHeld'[e].data.type = "PreInvoke"
  BY <1>8, <1>9, <1>13, <1>14 DEF BExecutorOK, BPcOK
<1> QED
  BY <1>6, <1>10, <1>16, <1>17, <1>18 DEF BExecutorOK, BPcOK

-----------------------------------------------------------------------------
\* What is appended.
LEMMA BAppendGrows ==
  ASSUME BTypeOK, NEW i \in BInstance, NEW step \in Nat, NEW postStep \in BOOLEAN,
         NEW data \in LogData \cup {NoData}, BAppend(i, step, postStep, data),
         \A k \in BKey : bVersion[k] <= bVersion'[k]
  PROVE  /\ LogGrows
         /\ bTail' \in Nat
         /\ bStream' \in [BInstance -> Seq(IntentLogEntry)]
         /\ bDecided' \in [BInstance -> Seq(IntentLogEntry)]
<1> DEFINE seqNum == IF postStep THEN 0 ELSE bTail + 1
           entry == [seqNum |-> seqNum, step |-> step, postStep |-> postStep, data |-> data]
<1>1. bTail \in Nat /\ bTail' \in Nat /\ bTail <= bTail' /\ bProgram' = bProgram
  BY DEF BAppend, BTypeOK
<1>2. entry \in IntentLogEntry
  BY <1>1 DEF IntentLogEntry
<1>3. /\ bStream' = [bStream EXCEPT ![i] = Append(@, entry)]
      /\ bDecided' = IF ~ postStep /\ step = Len(bDecided[i])
                     THEN [bDecided EXCEPT ![i] = Append(@, entry)]
                     ELSE bDecided
  BY DEF BAppend
<1> HIDE DEF entry
<1>4. /\ bStream \in [BInstance -> Seq(IntentLogEntry)]
      /\ bDecided \in [BInstance -> Seq(IntentLogEntry)]
  BY DEF BTypeOK
<1>5. /\ bStream' \in [BInstance -> Seq(IntentLogEntry)]
      /\ bDecided' \in [BInstance -> Seq(IntentLogEntry)]
  BY <1>2, <1>3, <1>4
<1>6. ASSUME NEW j \in BInstance
      PROVE  Extends(bStream'[j], bStream[j]) /\ Extends(bDecided'[j], bDecided[j])
  <2>1. bStream[j] \in Seq(IntentLogEntry) /\ bDecided[j] \in Seq(IntentLogEntry)
    BY <1>4
  <2>2. \A s \in Seq(IntentLogEntry) : Extends(s, s) /\ Extends(Append(s, entry), s)
    BY <1>2 DEF Extends
  <2>3. /\ bStream'[j] \in {bStream[j], Append(bStream[j], entry)}
        /\ bDecided'[j] \in {bDecided[j], Append(bDecided[j], entry)}
    BY <1>3, <1>4
  <2> QED
    BY <2>1, <2>2, <2>3
<1> QED
  BY <1>1, <1>5, <1>6 DEF LogGrows

\* The stream of an instance of which nothing is appended, and the table goes on.
LEMMA StreamKept ==
  ASSUME BTypeOK, BTypeOK', LogGrows, NEW i \in BInstance, BStreamOK(i),
         bStream'[i] = bStream[i], bDecided'[i] = bDecided[i]
  PROVE  BStreamOK(i)'
<1>1. Len(bDecided[i]) \in Nat /\ Len(bStream[i]) \in Nat
  BY DEF BTypeOK
<1>2. ASSUME NEW n \in 1 .. Len(bDecided[i])
      PROVE  /\ DecidedOK(i, n)'
             /\ VersionAt(i, n)' = VersionAt(i, n)
             /\ \E x \in 1 .. Len(bStream'[i]) : IsOf(i, x, n - 1)'
  <2>1. DecidedOK(i, n)
    BY DEF BStreamOK
  <2>2. bDecided[i][n].data.key \in BKey /\ bDecided[i][n].data.val \in Nat
        /\ bDecided[i][n].seqNum \in Nat
    BY <2>1, BDecidedTypes DEF DecidedOK
  <2>3. /\ bVersion[bDecided[i][n].data.key] \in Nat /\ bVersion'[bDecided[i][n].data.key] \in Nat
        /\ bTail \in Nat /\ bTail' \in Nat
    BY <2>2 DEF BTypeOK
  <2>4. DecidedOK(i, n)'
    <3>1. bProgram' = bProgram /\ bTail <= bTail'
          /\ bVersion[bDecided[i][n].data.key] <= bVersion'[bDecided[i][n].data.key]
      BY <2>2 DEF LogGrows
    <3>2. bDecided[i][n].seqNum <= bTail'
      BY <2>1, <2>2, <2>3, <3>1 DEF DecidedOK
    <3>3. bDecided[i][n].data.type = "Read" =>
            bDecided[i][n].data.val <= bVersion'[bDecided[i][n].data.key]
      BY <2>1, <2>2, <2>3, <3>1 DEF DecidedOK
    <3> QED
      BY <2>1, <3>1, <3>2, <3>3 DEF DecidedOK
  <2>5. VersionAt(i, n)' = VersionAt(i, n)
    BY DEF VersionAt
  <2> QED
    BY <2>4, <2>5 DEF BStreamOK, IsOf
<1>3. ASSUME NEW p \in 1 .. Len(bStream[i])
      PROVE  PositionOK(i, p)'
  <2>1. CASE bStream[i][p].postStep
    <3>1. PICK n \in Nat : n = bStream[i][p].step
      BY BStreamTypes
    <3>2. ResultOK(i, n)
      BY <2>1, <3>1 DEF BStreamOK, PositionOK
    <3>3. DecidedOK(i, n + 1)
      BY <1>1, <3>2 DEF ResultOK, BStreamOK
    <3>4. ResultOK(i, n)'
      BY <3>2, <3>3, ResultKept
    <3>5. bStream'[i][p].step = n /\ bStream'[i][p].postStep
      BY <2>1, <3>1
    <3> QED
      BY <3>4, <3>5 DEF PositionOK, ResultOK
  <2>2. CASE ~ bStream[i][p].postStep
    <3>1. EntryOK(i, p)
      BY <2>2 DEF BStreamOK, PositionOK
    <3> QED
      BY <2>2, <3>1 DEF PositionOK, EntryOK, IsOf
  <2> QED
    BY <2>1, <2>2
<1>4. \A s, t \in 1 .. Len(bDecided[i]) : s < t => InOrder(i, s, t)'
  BY <1>2 DEF BStreamOK, InOrder
<1> QED
  BY <1>2, <1>3, <1>4 DEF BStreamOK, LogGrows

\* A result is appended.
LEMMA ResultAppended ==
  ASSUME BTypeOK, BTypeOK', LogGrows, NEW i \in BInstance, NEW step \in Nat,
         BAppend(i, step, TRUE, NoData), BStreamOK(i), ResultOK(i, step)
  PROVE  BStreamOK(i)'
<1> DEFINE entry == [seqNum |-> 0, step |-> step, postStep |-> TRUE, data |-> NoData]
           len == Len(bStream[i])
<1>1. Len(bDecided[i]) \in Nat /\ len \in Nat
      /\ bStream[i] \in Seq(IntentLogEntry)
  BY DEF BTypeOK
<1>2. bDecided' = bDecided /\ bTail' = bTail
      /\ bStream'[i] = Append(bStream[i], entry)
  BY DEF BAppend, BTypeOK
<1>3. entry.step = step /\ entry.postStep
  OBVIOUS
<1> HIDE DEF entry
<1>4. /\ Len(bStream'[i]) = len + 1
      /\ bStream'[i][len + 1] = entry
      /\ \A p \in 1 .. len : bStream'[i][p] = bStream[i][p]
  BY <1>1, <1>2
<1>5. ASSUME NEW n \in 1 .. Len(bDecided[i])
      PROVE  /\ DecidedOK(i, n)'
             /\ VersionAt(i, n)' = VersionAt(i, n)
             /\ \E x \in 1 .. Len(bStream'[i]) : IsOf(i, x, n - 1)'
  <2>1. DecidedOK(i, n)
    BY DEF BStreamOK
  <2>2. bDecided[i][n].data.key \in BKey /\ bDecided[i][n].data.val \in Nat
        /\ bDecided[i][n].seqNum \in Nat
    BY <2>1, BDecidedTypes DEF DecidedOK
  <2>3. bVersion[bDecided[i][n].data.key] \in Nat /\ bVersion'[bDecided[i][n].data.key] \in Nat
    BY <2>2 DEF BTypeOK
  <2>4. DecidedOK(i, n)'
    BY <1>2, <2>1, <2>2, <2>3 DEF DecidedOK, LogGrows
  <2>5. VersionAt(i, n)' = VersionAt(i, n)
    BY <1>2 DEF VersionAt
  <2>6. PICK x \in 1 .. len : IsOf(i, x, n - 1)
    BY DEF BStreamOK
  <2>7. x \in 1 .. Len(bStream'[i]) /\ IsOf(i, x, n - 1)'
    BY <1>1, <1>4, <2>6 DEF IsOf
  <2> QED
    BY <2>4, <2>5, <2>7
<1>6. ResultOK(i, step)'
  <2>1. step + 1 \in 1 .. Len(bDecided[i])
    BY <1>1 DEF ResultOK
  <2>2. DecidedOK(i, step + 1)
    BY <2>1 DEF BStreamOK
  <2> QED
    BY <2>2, ResultKept
<1>7. ASSUME NEW p \in 1 .. len
      PROVE  PositionOK(i, p)'
  <2>1. CASE bStream[i][p].postStep
    <3>1. PICK n \in Nat : n = bStream[i][p].step
      BY BStreamTypes
    <3>2. ResultOK(i, n)
      BY <2>1, <3>1 DEF BStreamOK, PositionOK
    <3>3. DecidedOK(i, n + 1)
      BY <1>1, <3>2 DEF ResultOK, BStreamOK
    <3>4. ResultOK(i, n)'
      BY <3>2, <3>3, ResultKept
    <3>5. bStream'[i][p].step = n /\ bStream'[i][p].postStep
      BY <1>4, <2>1, <3>1
    <3> QED
      BY <3>4, <3>5 DEF PositionOK, ResultOK
  <2>2. CASE ~ bStream[i][p].postStep
    <3>1. EntryOK(i, p)
      BY <2>2 DEF BStreamOK, PositionOK
    <3>2. \A x \in 1 .. p : bStream'[i][x] = bStream[i][x]
      BY <1>1, <1>4
    <3>3. EntryOK(i, p)'
      <4>1. PICK n \in Nat : n = bStream[i][p].step
        BY BStreamTypes
      <4>2. bStream'[i][p] = bStream[i][p] /\ \A x \in 1 .. p - 1 : bStream'[i][x] = bStream[i][x]
        BY <1>1, <3>2
      <4>3. /\ n < Len(bDecided[i])
            /\ n # 0 => \E x \in 1 .. p - 1 : IsOf(i, x, n - 1)
            /\ bStream[i][p] = bDecided[i][n + 1] \/ \E x \in 1 .. p - 1 : IsOf(i, x, n)
        BY <3>1, <4>1 DEF EntryOK
      <4>5. /\ n < Len(bDecided'[i])
            /\ n # 0 => \E x \in 1 .. p - 1 : IsOf(i, x, n - 1)'
            /\ bStream'[i][p] = bDecided'[i][n + 1] \/ \E x \in 1 .. p - 1 : IsOf(i, x, n)'
        <5>1. bDecided'[i] = bDecided[i]
          BY <1>2
        <5>2. ASSUME n # 0
              PROVE  \E x \in 1 .. p - 1 : IsOf(i, x, n - 1)'
          <6>1. PICK x \in 1 .. p - 1 : IsOf(i, x, n - 1)
            BY <4>3, <5>2
          <6>2. IsOf(i, x, n - 1)'
            BY <4>2, <6>1 DEF IsOf
          <6> QED
            BY <6>2
        <5>3. ASSUME NEW x \in 1 .. p - 1, IsOf(i, x, n)
              PROVE  \E y \in 1 .. p - 1 : IsOf(i, y, n)'
          <6>1. IsOf(i, x, n)'
            BY <4>2, <5>3 DEF IsOf
          <6> QED
            BY <6>1
        <5>4. bStream'[i][p] = bDecided'[i][n + 1] \/ \E x \in 1 .. p - 1 : IsOf(i, x, n)'
          BY <4>2, <4>3, <5>1, <5>3
        <5> QED
          BY <4>3, <5>1, <5>2, <5>4
      <4> QED
        BY <4>1, <4>2, <4>5 DEF EntryOK, IsOf
    <3> QED
      BY <1>4, <2>2, <3>3 DEF PositionOK
  <2> QED
    BY <2>1, <2>2
<1>8. \A p \in 1 .. Len(bStream'[i]) : PositionOK(i, p)'
  <2> SUFFICES ASSUME NEW p \in 1 .. Len(bStream'[i])
               PROVE  PositionOK(i, p)'
    OBVIOUS
  <2>1. p \in 1 .. len \/ p = len + 1
    BY <1>1, <1>4
  <2>2. CASE p = len + 1
    BY <1>3, <1>4, <1>6, <2>2 DEF PositionOK, ResultOK
  <2> QED
    BY <1>7, <2>1, <2>2
<1>9. \A s, t \in 1 .. Len(bDecided[i]) : s < t => InOrder(i, s, t)'
  BY <1>2, <1>5 DEF BStreamOK, InOrder
<1> QED
  BY <1>2, <1>5, <1>8, <1>9 DEF BStreamOK, LogGrows
\* An entry of a step is appended: it decides the step, or the step has one already.
LEMMA EntryAppended ==
  ASSUME BTypeOK, BTypeOK', LogGrows, NEW i \in BInstance, NEW step \in Nat,
         NEW data \in LogData, BAppend(i, step, FALSE, data), BStreamOK(i),
         bVersion' = bVersion,
         step <= Len(bDecided[i]), step < Len(bProgram[i]), Len(bProgram[i]) \in Nat,
         data.type = bProgram[i][step + 1].type, data.key = bProgram[i][step + 1].key,
         data.type = "Read" => data.val <= bVersion[data.key],
         step = Len(bDecided[i]) =>
           \A n \in 1 .. step :
             /\ "PreInvoke" \notin {bDecided[i][n].data.type, data.type}
             /\ bDecided[i][n].data.key = data.key
             => VersionAt(i, n) <= IF data.type = "Read" THEN data.val ELSE bTail + 1
  PROVE  BStreamOK(i)' /\ \E x \in 1 .. Len(bStream'[i]) : IsOf(i, x, step)'
<1> DEFINE entry == [seqNum |-> bTail + 1, step |-> step, postStep |-> FALSE, data |-> data]
<1> PICK len \in Nat, last \in Nat : len = Len(bStream[i]) /\ last = Len(bDecided[i])
  BY DEF BTypeOK
<1> DEFINE decides == step = last
<1>1. /\ last \in Nat /\ len \in Nat /\ bTail \in Nat
      /\ bStream[i] \in Seq(IntentLogEntry) /\ bDecided[i] \in Seq(IntentLogEntry)
  BY DEF BTypeOK
<1>2. /\ bTail' = bTail + 1 /\ bProgram' = bProgram
      /\ bStream'[i] = Append(bStream[i], entry)
      /\ bDecided'[i] = IF decides THEN Append(bDecided[i], entry) ELSE bDecided[i]
  BY DEF BAppend, BTypeOK
<1>3. entry.step = step /\ ~ entry.postStep /\ entry.seqNum = bTail + 1 /\ entry.data = data
  OBVIOUS
<1> HIDE DEF entry
<1>4. /\ Len(bStream'[i]) = len + 1
      /\ bStream'[i][len + 1] = entry
      /\ \A p \in 1 .. len : bStream'[i][p] = bStream[i][p]
  BY <1>1, <1>2
<1>5. /\ decides => Len(bDecided'[i]) = last + 1 /\ bDecided'[i][last + 1] = entry
      /\ ~ decides => Len(bDecided'[i]) = last
      /\ \A n \in 1 .. last : bDecided'[i][n] = bDecided[i][n]
      /\ last <= Len(bDecided'[i]) /\ Len(bDecided'[i]) \in Nat
  BY <1>1, <1>2 DEF BTypeOK
<1>6. ASSUME NEW n \in 1 .. last
      PROVE  /\ DecidedOK(i, n)'
             /\ VersionAt(i, n)' = VersionAt(i, n)
             /\ \E x \in 1 .. Len(bStream'[i]) : IsOf(i, x, n - 1)'
  <2>1. DecidedOK(i, n)
    BY DEF BStreamOK
  <2>2. bDecided[i][n].seqNum \in Nat
    BY BDecidedTypes
  <2>3. DecidedOK(i, n)'
    <3>1. bDecided'[i][n] = bDecided[i][n] /\ bProgram'[i][n] = bProgram[i][n]
      BY <1>2, <1>5
    <3>2. bDecided[i][n].seqNum <= bTail'
      BY <1>1, <1>2, <2>1, <2>2 DEF DecidedOK
    <3> QED
      BY <2>1, <3>1, <3>2 DEF DecidedOK
  <2>4. VersionAt(i, n)' = VersionAt(i, n)
    BY <1>5 DEF VersionAt
  <2>5. PICK x \in 1 .. len : IsOf(i, x, n - 1)
    BY DEF BStreamOK
  <2>6. x \in 1 .. Len(bStream'[i]) /\ bStream'[i][x] = bStream[i][x]
    BY <1>1, <1>4
  <2>7. IsOf(i, x, n - 1)'
    BY <2>5, <2>6 DEF IsOf
  <2> QED
    BY <2>3, <2>4, <2>6, <2>7
<1>7. \E x \in 1 .. Len(bStream'[i]) : IsOf(i, x, step)'
  <2>1. len + 1 \in 1 .. Len(bStream'[i]) /\ IsOf(i, len + 1, step)'
    BY <1>1, <1>3, <1>4 DEF IsOf
  <2> QED
    BY <2>1
<1>8. decides => /\ DecidedOK(i, last + 1)'
                 /\ \A n \in 1 .. last : InOrder(i, n, last + 1)'
  <2> SUFFICES ASSUME decides
               PROVE  /\ DecidedOK(i, last + 1)'
                      /\ \A n \in 1 .. last : InOrder(i, n, last + 1)'
    OBVIOUS
  <2>1. bDecided'[i][last + 1] = entry
    BY <1>5
  <2>2. DecidedOK(i, last + 1)'
    <3>1. bProgram'[i][last + 1] = bProgram[i][step + 1]
      BY <1>2
    <3>2. entry.seqNum <= bTail'
      BY <1>1, <1>2, <1>3
    <3> QED
      BY <1>3, <2>1, <3>1, <3>2 DEF DecidedOK
  <2>3. VersionAt(i, last + 1)' = IF data.type = "Read" THEN data.val ELSE bTail + 1
    BY <1>3, <2>1 DEF VersionAt
  <2>4. ASSUME NEW n \in 1 .. last
        PROVE  InOrder(i, n, last + 1)'
    <3>1. VersionAt(i, n)' = VersionAt(i, n) /\ bDecided'[i][n] = bDecided[i][n]
      BY <1>5, <1>6
    <3> QED
      BY <1>3, <2>1, <2>3, <3>1 DEF InOrder
  <2> QED
    BY <2>2, <2>4
<1>9. Len(bDecided'[i]) <= Len(bProgram'[i])
  BY <1>1, <1>2, <1>5 DEF BStreamOK
<1>10. \A n \in 1 .. Len(bDecided'[i]) :
         DecidedOK(i, n)' /\ \E x \in 1 .. Len(bStream'[i]) : IsOf(i, x, n - 1)'
  <2> SUFFICES ASSUME NEW n \in 1 .. Len(bDecided'[i])
               PROVE  DecidedOK(i, n)' /\ \E x \in 1 .. Len(bStream'[i]) : IsOf(i, x, n - 1)'
    OBVIOUS
  <2>1. CASE n \in 1 .. last
    BY <1>6, <2>1
  <2>2. CASE n = last + 1 /\ decides
    <3>1. n - 1 = step
      BY <1>1, <2>2
    <3> QED
      BY <1>7, <1>8, <2>2, <3>1
  <2> QED
    BY <1>1, <1>5, <2>1, <2>2
<1>11. ASSUME NEW p \in 1 .. len
       PROVE  PositionOK(i, p)'
  <2>1. CASE bStream[i][p].postStep
    <3>1. PICK n \in Nat : n = bStream[i][p].step
      BY BStreamTypes
    <3>2. ResultOK(i, n)
      BY <2>1, <3>1 DEF BStreamOK, PositionOK
    <3>3. DecidedOK(i, n + 1)
      BY <1>1, <3>2 DEF ResultOK, BStreamOK
    <3>4. ResultOK(i, n)'
      BY <3>2, <3>3, ResultKept
    <3>5. bStream'[i][p].step = n /\ bStream'[i][p].postStep
      BY <1>4, <2>1, <3>1
    <3> QED
      BY <3>4, <3>5 DEF PositionOK, ResultOK
  <2>2. CASE ~ bStream[i][p].postStep
    <3>1. PICK n \in Nat : n = bStream[i][p].step
      BY BStreamTypes
    <3>2. EntryOK(i, p)
      BY <2>2 DEF BStreamOK, PositionOK
    <3>3. n + 1 \in 1 .. last /\ n < Len(bDecided'[i])
      <4>1. n < last
        BY <3>1, <3>2 DEF EntryOK
      <4> QED
        BY <1>1, <1>5, <4>1
    <3>4. \A x \in 1 .. p : bStream'[i][x] = bStream[i][x]
      BY <1>1, <1>4
    <3>5. bStream'[i][p] = bStream[i][p] /\ bDecided'[i][n + 1] = bDecided[i][n + 1]
      BY <1>5, <3>3, <3>4
    <3>6. \A x \in 1 .. p - 1 : bStream'[i][x] = bStream[i][x]
      <4>1. \A x \in 1 .. p - 1 : x \in 1 .. p
        BY <1>1
      <4> QED
        BY <3>4, <4>1
    <3>7. n # 0 => \E x \in 1 .. p - 1 : IsOf(i, x, n - 1)'
      BY <3>1, <3>2, <3>6 DEF EntryOK, IsOf
    <3>8. bStream'[i][p] = bDecided'[i][n + 1] \/ \E x \in 1 .. p - 1 : IsOf(i, x, n)'
      BY <3>1, <3>2, <3>5, <3>6 DEF EntryOK, IsOf
    <3>9. EntryOK(i, p)'
      <4>1. bStream'[i][p].step = n
        BY <3>1, <3>5
      <4> QED
        BY <3>3, <3>7, <3>8, <4>1 DEF EntryOK, IsOf
    <3> QED
      BY <2>2, <3>5, <3>9 DEF PositionOK
  <2> QED
    BY <2>1, <2>2
<1>12. PositionOK(i, len + 1)'
  <2>1. step < Len(bDecided'[i])
    BY <1>1, <1>5
  <2>2. step # 0 => \E x \in 1 .. len : IsOf(i, x, step - 1)'
    <3> SUFFICES ASSUME step # 0 PROVE \E x \in 1 .. len : IsOf(i, x, step - 1)'
      OBVIOUS
    <3>1. step \in 1 .. last
      BY <1>1
    <3>2. PICK x \in 1 .. len : IsOf(i, x, step - 1)
      BY <3>1 DEF BStreamOK
    <3>3. IsOf(i, x, step - 1)'
      BY <1>4, <3>2 DEF IsOf
    <3> QED
      BY <3>3
  <2>3. ~ decides => \E x \in 1 .. len : IsOf(i, x, step)'
    <3> SUFFICES ASSUME ~ decides PROVE \E x \in 1 .. len : IsOf(i, x, step)'
      OBVIOUS
    <3>1. step + 1 \in 1 .. last /\ (step + 1) - 1 = step
      BY <1>1
    <3>2. PICK x \in 1 .. len : IsOf(i, x, step)
      BY <3>1 DEF BStreamOK
    <3>3. IsOf(i, x, step)'
      BY <1>4, <3>2 DEF IsOf
    <3> QED
      BY <3>3
  <2>4. decides => bStream'[i][len + 1] = bDecided'[i][step + 1]
    BY <1>4, <1>5
  <2>5. (len + 1) - 1 = len
    BY <1>1
  <2> QED
    BY <1>3, <1>4, <2>1, <2>2, <2>3, <2>4, <2>5 DEF PositionOK, EntryOK
<1>13. \A p \in 1 .. Len(bStream'[i]) : PositionOK(i, p)'
  <2> SUFFICES ASSUME NEW p \in 1 .. Len(bStream'[i]) PROVE PositionOK(i, p)'
    OBVIOUS
  <2>1. p \in 1 .. len \/ p = len + 1
    BY <1>1, <1>4
  <2> QED
    BY <1>11, <1>12, <2>1
<1>14. \A s, t \in 1 .. Len(bDecided'[i]) : s < t => InOrder(i, s, t)'
  <2> SUFFICES ASSUME NEW s \in 1 .. Len(bDecided'[i]), NEW t \in 1 .. Len(bDecided'[i]), s < t
               PROVE  InOrder(i, s, t)'
    OBVIOUS
  <2>1. s \in 1 .. last /\ (t \in 1 .. last \/ (t = last + 1 /\ decides))
    BY <1>1, <1>5
  <2>2. CASE t \in 1 .. last
    <3>1. InOrder(i, s, t)
      BY <2>1, <2>2 DEF BStreamOK
    <3> QED
      BY <1>5, <1>6, <2>1, <2>2, <3>1 DEF InOrder
  <2>3. CASE t = last + 1 /\ decides
    BY <1>8, <2>1, <2>3
  <2> QED
    BY <2>1, <2>2, <2>3
<1> QED
  BY <1>7, <1>9, <1>10, <1>13, <1>14 DEF BStreamOK
-----------------------------------------------------------------------------
\* What is left to prove of a step.
LEMMA StepOfSome ==
  ASSUME BInv, BTypeOK', LogGrows,
         \A x \in BExecutor : Same(x) \/ BExecutorOK(x)',
         \A k \in BKey : bVersion'[k] <= bTail',
         \A i \in BInstance : BStreamOK(i)',
         \A o \in bOrphans' : o \in bOrphans \/ OrphanOK(o)
  PROVE  BInv'
<1>1. BTypeOK
  BY DEF BInv
<1>2. \A x \in BExecutor : BExecutorOK(x)'
  <2> SUFFICES ASSUME NEW x \in BExecutor, Same(x) PROVE BExecutorOK(x)'
    OBVIOUS
  <2>1. BStreamOK(BInstanceOf[x]) /\ BExecutorOK(x) /\ Same(x)
    BY BInstanceOfAssumption DEF BInv
  <2> QED
    BY <1>1, <2>1, ExecutorKept
<1>3. \A o \in bOrphans' : OrphanOK(o)'
  <2> SUFFICES ASSUME NEW o \in bOrphans' PROVE OrphanOK(o)'
    OBVIOUS
  <2>1. o.caller \in BInstance /\ o.step \in Nat
    BY DEF BTypeOK
  <2>2. OrphanOK(o)
    BY DEF BInv
  <2>3. /\ Len(bDecided[o.caller]) \in Nat /\ Len(bDecided'[o.caller]) \in Nat
        /\ Extends(bDecided'[o.caller], bDecided[o.caller])
    BY <1>1, <2>1 DEF BTypeOK, LogGrows
  <2>4. /\ o.step + 1 \in 1 .. Len(bDecided[o.caller])
        /\ o.step < Len(bDecided'[o.caller])
    BY <2>1, <2>2, <2>3 DEF OrphanOK, Extends
  <2>5. bDecided'[o.caller][o.step + 1] = bDecided[o.caller][o.step + 1]
    BY <2>3, <2>4 DEF Extends
  <2> QED
    BY <2>2, <2>4, <2>5 DEF OrphanOK
<1> QED
  BY <1>2, <1>3 DEF BInv

LEMMA StepOfOne ==
  ASSUME BInv, BTypeOK', LogGrows, NEW e \in BExecutor,
         \A x \in BExecutor \ {e} : Same(x),
         \A k \in BKey : bVersion'[k] <= bTail',
         \A i \in BInstance : BStreamOK(i)',
         BExecutorOK(e)',
         \A o \in bOrphans' : o \in bOrphans \/ OrphanOK(o)
  PROVE  BInv'
<1>1. \A x \in BExecutor : Same(x) \/ BExecutorOK(x)'
  OBVIOUS
<1> QED
  BY <1>1, StepOfSome

\* Steps that append nothing.
LEMMA NothingAppended ==
  ASSUME BInv, BTypeOK', UNCHANGED bLog, \A k \in BKey : bVersion[k] <= bVersion'[k]
  PROVE  LogGrows /\ \A i \in BInstance : BStreamOK(i)'
<1>1. BTypeOK /\ bTail \in Nat
  BY DEF BInv, BTypeOK
<1>2. \A i \in BInstance : Len(bStream[i]) \in Nat /\ Len(bDecided[i]) \in Nat
  BY <1>1 DEF BTypeOK
<1>3. LogGrows
  BY <1>1, <1>2 DEF LogGrows, Extends, bLog
<1>4. ASSUME NEW i \in BInstance PROVE BStreamOK(i)'
  BY <1>1, <1>3, StreamKept DEF BInv, bLog
<1> QED
  BY <1>3, <1>4

\* The entry that an IntentFsm has of the next step.
LEMMA SeenIsDecided ==
  ASSUME BInv, NEW e \in BExecutor, Seen(e)
  PROVE  /\ bStep[e] \in Nat /\ bStep[e] + 1 \in 1 .. Len(bDecided[BInstanceOf[e]])
         /\ StepLog(e) = bDecided[BInstanceOf[e]][bStep[e] + 1]
         /\ DecidedOK(BInstanceOf[e], bStep[e] + 1)
         /\ StepLog(e) \in IntentLogEntry /\ StepLog(e).data \in LogData
         /\ StepLog(e).seqNum \in Nat
         /\ Matches(e, StepLog(e).data)
         /\ \A n \in bFsm[e].posts : ResultOK(BInstanceOf[e], n)
<1> DEFINE i == BInstanceOf[e]
<1>1. i \in BInstance /\ BTypeOK
  BY BInstanceOfAssumption DEF BInv
<1>2. bStep[e] \in Nat /\ bFsm[e] \in Fsm /\ Len(bFsm[e].stepLogs) \in Nat
      /\ Len(bDecided[i]) \in Nat
  BY <1>1 DEF BTypeOK, Fsm
<1>3. BFsmOK(e)
  BY DEF BInv, BExecutorOK
<1>4. bStep[e] + 1 \in 1 .. Len(bDecided[i]) /\ bStep[e] + 1 \in 1 .. Len(bFsm[e].stepLogs)
  <2>1. bStep[e] < Len(bFsm[e].stepLogs) /\ Len(bFsm[e].stepLogs) <= Len(bDecided[i])
    BY <1>3 DEF Seen, BFsmOK
  <2>2. \A a, b, c \in Nat : a < b /\ b <= c => a + 1 \in 1 .. b /\ a + 1 \in 1 .. c
    OBVIOUS
  <2> QED BY <1>2, <2>1, <2>2
<1>5. StepLog(e) = bDecided[i][bStep[e] + 1]
  BY <1>3, <1>4 DEF StepLog, BFsmOK
<1>6. DecidedOK(i, bStep[e] + 1)
  BY <1>1, <1>4 DEF BInv, BStreamOK
<1>7. StepLog(e) \in IntentLogEntry /\ StepLog(e).data \in LogData /\ StepLog(e).seqNum \in Nat
  BY <1>1, <1>4, <1>5, <1>6, BDecidedTypes DEF DecidedOK
<1>8. Matches(e, StepLog(e).data)
  BY <1>5, <1>6 DEF Matches, Op, DecidedOK
<1> QED
  BY <1>2, <1>3, <1>4, <1>5, <1>6, <1>7, <1>8 DEF BFsmOK

\* An operation is over, and told what was decided.
LEMMA ToldMore ==
  ASSUME BInv, BTypeOK', LogGrows, NEW e \in BExecutor, NEW data,
         Leave(e, data), bFsm' = bFsm, bPc[e] # "done",
         bStep[e] < Len(bFsm[e].stepLogs),
         data = bDecided[BInstanceOf[e]][bStep[e] + 1].data,
         Passed(BInstanceOf[e], bStep[e] + 1)
  PROVE  BExecutorOK(e)' /\ \A x \in BExecutor \ {e} : Same(x)
<1> DEFINE i == BInstanceOf[e]
<1>1. i \in BInstance /\ BTypeOK /\ BExecutorOK(e) /\ BStreamOK(i)
  BY BInstanceOfAssumption DEF BInv
<1>2. PICK s \in Nat : s = bStep[e]
  BY <1>1 DEF BTypeOK
<1>3. /\ bStep'[e] = s + 1 /\ bTold'[e] = Append(bTold[e], data) /\ bPc'[e] = "run"
      /\ bTold[e] \in Seq(LogData) /\ bFsm[e] \in Fsm
      /\ Len(bFsm[e].stepLogs) \in Nat /\ Len(bDecided[i]) \in Nat /\ Len(bDecided'[i]) \in Nat
  <2>1. /\ bTold[e] \in Seq(LogData) /\ bFsm[e] \in Fsm
        /\ Len(bDecided[i]) \in Nat /\ Len(bDecided'[i]) \in Nat
    <3>1. bTold[e] \in Seq(LogData) /\ bFsm[e] \in Fsm /\ bDecided[i] \in Seq(IntentLogEntry)
      BY <1>1 DEF BTypeOK
    <3>2. bDecided'[i] \in Seq(IntentLogEntry)
      BY <1>1 DEF BTypeOK
    <3> QED BY <3>1, <3>2
  <2>2. bStep'[e] = s + 1 /\ bTold'[e] = Append(bTold[e], data) /\ bPc'[e] = "run"
    BY <1>1, <1>2 DEF Leave, BTypeOK
  <2> QED
    BY <2>1, <2>2 DEF Fsm
<1>4. ToldOK(e) /\ BFsmOK(e)
  BY <1>1 DEF BExecutorOK
<1>5. s + 1 <= Len(bDecided[i]) /\ s + 1 <= Len(bDecided'[i])
      /\ Len(bTold[e]) = s
  <2>1. s + 1 <= Len(bDecided[i]) /\ Len(bTold[e]) = s
    <3>1. Len(bFsm[e].stepLogs) <= Len(bDecided[i])
      BY <1>4 DEF BFsmOK
    <3>2. Len(bTold[e]) = bStep[e]
      BY <1>4 DEF ToldOK
    <3>3. Len(bFsm[e].stepLogs) \in Nat /\ Len(bDecided[i]) \in Nat
      BY <1>3
    <3> QED
      BY <1>2, <3>1, <3>2, <3>3
  <2>2. Len(bDecided[i]) <= Len(bDecided'[i])
    BY <1>1 DEF LogGrows, Extends
  <2> QED
    BY <1>3, <2>1, <2>2
<1>6. ASSUME NEW n \in 1 .. s + 1
      PROVE  bDecided'[i][n] = bDecided[i][n] /\ Passed(i, n)'
  <2>1. n \in 1 .. Len(bDecided[i]) /\ DecidedOK(i, n)
    BY <1>1, <1>3, <1>5 DEF BStreamOK
  <2>2. Passed(i, n)
    BY <1>2, <1>4 DEF ToldOK
  <2> QED
    BY <1>1, <2>1, <2>2, PassedKept DEF LogGrows, Extends
<1>7. \A n \in 1 .. s + 1 : bTold'[e][n] = bDecided'[i][n].data
  <2> SUFFICES ASSUME NEW n \in 1 .. s + 1 PROVE bTold'[e][n] = bDecided[i][n].data
    BY <1>6
  <2>1. CASE n = s + 1
    BY <1>2, <1>3, <1>5, <2>1
  <2>2. CASE n \in 1 .. s
    <3>1. bTold'[e][n] = bTold[e][n]
      BY <1>3, <1>5, <2>2
    <3> QED
      BY <1>2, <1>4, <2>2, <3>1 DEF ToldOK
  <2> QED
    BY <2>1, <2>2
<1>8. Len(bTold'[e]) = s + 1
  BY <1>3, <1>5
<1>9. ToldOK(e)'
  BY <1>3, <1>5, <1>6, <1>7, <1>8 DEF ToldOK
<1>10. BFsmOK(e)'
  BY <1>1, <1>4, FsmKept
<1>11. BPcOK(e)'
  BY <1>2, <1>3 DEF BPcOK
<1>12. \A x \in BExecutor \ {e} : Same(x)
  BY <1>1 DEF Leave, Same, BTypeOK
<1> QED
  BY <1>9, <1>10, <1>11, <1>12 DEF BExecutorOK
\* An execution that goes on in its operation.
LEMMA OnlyMoved ==
  ASSUME BInv, BTypeOK', LogGrows, NEW e \in BExecutor,
         bStep'[e] = bStep[e], bTold'[e] = bTold[e], bFsm'[e] = bFsm[e], BPcOK(e)'
  PROVE  BExecutorOK(e)'
<1>1. BTypeOK /\ ToldOK(e) /\ BFsmOK(e) /\ BStreamOK(BInstanceOf[e])
  BY BInstanceOfAssumption DEF BInv, BExecutorOK
<1> QED
  BY <1>1, ToldKept, FsmKept DEF BExecutorOK

\* The versions in the table while it does not change.
LEMMA TableKept ==
  ASSUME BInv, bVersion' = bVersion, BTypeOK', bTail <= bTail'
  PROVE  /\ \A k \in BKey : bVersion'[k] <= bTail'
         /\ \A k \in BKey : bVersion[k] <= bVersion'[k]
         /\ \A k \in BKey : bVersion[k] \in Nat
<1>1. bTail \in Nat /\ bTail' \in Nat /\ \A k \in BKey : bVersion[k] \in Nat
  BY DEF BInv, BTypeOK
<1> QED
  BY <1>1 DEF BInv

-----------------------------------------------------------------------------
(***************************************************************************)
(* Each step keeps the invariant.                                          *)
(***************************************************************************)
\* What an operation does with the first entry of its step (BReplay, BProposed).
LEMMA LearnKeeps ==
  ASSUME BInv, NEW e \in BExecutor, bPc[e] \in {"run", "catch"}, Seen(e),
         NEW newLog \in BOOLEAN,
         Learn(e, StepLog(e), newLog, bStep[e] \in bFsm[e].posts),
         UNCHANGED <<bLog, bVersion, bFsm, bOrphans, bCrashes>>
  PROVE  BInv'
<1> DEFINE i == BInstanceOf[e]
           entry == StepLog(e)
<1>1. BTypeOK
  BY DEF BInv
<1>2. /\ bStep[e] \in Nat /\ bStep[e] + 1 \in 1 .. Len(bDecided[i])
      /\ entry = bDecided[i][bStep[e] + 1]
      /\ DecidedOK(i, bStep[e] + 1)
      /\ entry \in IntentLogEntry /\ entry.data \in LogData /\ entry.seqNum \in Nat
      /\ Matches(e, entry.data)
      /\ \A n \in bFsm[e].posts : ResultOK(i, n)
  BY SeenIsDecided
<1> HIDE DEF entry
<1>3. bHeld' \in [BExecutor -> Held] => BTypeOK'
  <2>1. CASE Leave(e, entry.data)
    <3>1. bTold' \in [BExecutor -> Seq(LogData)]
      BY <1>1, <1>2, <2>1 DEF Leave, BTypeOK
    <3>2. bStep' \in [BExecutor -> Nat] /\ bPc' \in [BExecutor -> BPcs]
      BY <1>1, <1>2, <2>1 DEF Leave, BTypeOK, BPcs
    <3> QED
      BY <1>1, <3>1, <3>2 DEF BTypeOK, bLog
  <2>2. CASE /\ bPc' = [bPc EXCEPT ![e] = IF entry.data.type = "PreWrite" THEN "write" ELSE "invoke"]
             /\ UNCHANGED <<bStep, bTold>>
    <3>1. bPc' \in [BExecutor -> BPcs]
      BY <1>1, <2>2 DEF BTypeOK, BPcs
    <3> QED
      BY <1>1, <2>2, <3>1 DEF BTypeOK, bLog
  <2> QED
    BY <1>2, <2>1, <2>2 DEF Learn, entry
<1>4. bHeld' \in [BExecutor -> Held]
  <2>1. entry \in Held /\ NoEntry \in Held
    BY <1>2 DEF IntentLogEntry, Held, NoEntry, HeldEntry, NoData, Unlogged
  <2> QED
    BY <1>1, <1>2, <2>1 DEF Learn, Leave, Panic, BTypeOK, entry
<1>5. BTypeOK'
  BY <1>3, <1>4
<1>6. /\ LogGrows
      /\ \A j \in BInstance : BStreamOK(j)'
      /\ \A k \in BKey : bVersion'[k] <= bTail' /\ bVersion[k] \in Nat
  <2>1. bTail <= bTail'
    BY <1>1 DEF bLog, BTypeOK
  <2>2. \A k \in BKey : bVersion'[k] <= bTail' /\ bVersion[k] <= bVersion'[k] /\ bVersion[k] \in Nat
    BY <1>5, <2>1, TableKept
  <2> QED
    BY <1>5, <2>2, NothingAppended
<1>7. CASE Leave(e, entry.data) /\ (entry.data.type = "Read"
                                    \/ bStep[e] \in bFsm[e].posts)
  <2>1. entry.data.key \in BKey /\ entry.data.type \in {"Read", "PreWrite", "PreInvoke"}
    BY <1>2 DEF LogData
  <2>2. Passed(i, bStep[e] + 1)
    <3>1. CASE entry.data.type = "Read"
      BY <1>2, <3>1 DEF Passed, VersionAt, DecidedOK
    <3>2. CASE entry.data.type = "PreWrite"
      <4>1. ResultOK(i, bStep[e])
        BY <1>2, <1>7, <3>2
      <4> QED
        BY <1>2, <3>2, <4>1 DEF Passed, VersionAt, ResultOK
    <3>3. CASE entry.data.type = "PreInvoke"
      BY <1>2, <3>3 DEF Passed
    <3> QED
      BY <2>1, <3>1, <3>2, <3>3
  <2>3. BExecutorOK(e)' /\ \A x \in BExecutor \ {e} : Same(x)
    BY <1>2, <1>5, <1>6, <1>7, <2>2, ToldMore DEF Seen
  <2> QED
    BY <1>5, <1>6, <2>3, StepOfOne
<1>8. CASE /\ ~ entry.data.type = "Read"
           /\ bHeld' = [bHeld EXCEPT ![e] = entry]
           /\ bPc' = [bPc EXCEPT ![e] = IF entry.data.type = "PreWrite" THEN "write" ELSE "invoke"]
           /\ UNCHANGED <<bStep, bTold>>
  <2>1. entry.data.type \in {"PreWrite", "PreInvoke"}
    BY <1>2, <1>8 DEF LogData
  <2>2. /\ bHeld'[e] = entry /\ bStep'[e] = bStep[e] /\ bDecided' = bDecided
        /\ bPc'[e] = IF entry.data.type = "PreWrite" THEN "write" ELSE "invoke"
    BY <1>1, <1>8 DEF BTypeOK, bLog
  <2>3. Holds(e)'
    <3>1. bStep[e] < Len(bDecided[i])
      BY <1>1, <1>2, BInstanceOfAssumption DEF BTypeOK
    <3> QED
      BY <1>2, <2>2, <3>1 DEF Holds, Seen
  <2>4. bStep'[e] <= Len(bFsm'[e].stepLogs)
    <3>1. bFsm[e] \in Fsm
      BY <1>1 DEF BTypeOK
    <3> QED
      BY <1>2, <2>2, <3>1 DEF Seen, Fsm
  <2>5. BPcOK(e)'
    BY <2>1, <2>2, <2>3, <2>4 DEF BPcOK
  <2>6. BExecutorOK(e)'
    BY <1>5, <1>6, <1>8, <2>5, OnlyMoved
  <2>7. \A x \in BExecutor \ {e} : Same(x)
    BY <1>1, <1>8 DEF Same, BTypeOK
  <2> QED
    BY <1>5, <1>6, <2>6, <2>7, StepOfOne
<1> QED
  BY <1>2, <1>7, <1>8 DEF Learn, entry

LEMMA ReplayKeeps ==
  ASSUME BInv, NEW e \in BExecutor, BReplay(e)
  PROVE  BInv'
BY LearnKeeps DEF BReplay

LEMMA ProposedKeeps ==
  ASSUME BInv, NEW e \in BExecutor, BProposed(e)
  PROVE  BInv'
<1> DEFINE i == BInstanceOf[e]
<1>1. BTypeOK /\ i \in BInstance
  BY BInstanceOfAssumption DEF BInv
<1>2. BFsmOK(e) /\ \E x \in 1 .. Len(bStream[i]) : IsOf(i, x, bStep[e])
  BY DEF BInv, BExecutorOK, BPcOK, BProposed
<1>3. Seen(e)
  BY <1>2 DEF BProposed, CaughtUp, StreamOf, BFsmOK, IsOf, Seen
<1>4. PICK newLog \in BOOLEAN : newLog = (StepLog(e).seqNum = bHeld[e].seqNum)
  OBVIOUS
<1>5. Learn(e, StepLog(e), newLog, bStep[e] \in bFsm[e].posts)
  BY <1>3, <1>4 DEF BProposed
<1> QED
  BY <1>3, <1>5, LearnKeeps DEF BProposed
\* What holds of the log and the table when neither changes.
LEMMA LogKept ==
  ASSUME BInv, BTypeOK', UNCHANGED bLog, UNCHANGED bVersion
  PROVE  /\ LogGrows
         /\ \A i \in BInstance : BStreamOK(i)'
         /\ \A k \in BKey : bVersion'[k] <= bTail'
<1>1. bTail <= bTail'
  BY DEF BInv, BTypeOK, bLog
<1>2. \A k \in BKey : bVersion'[k] <= bTail' /\ bVersion[k] <= bVersion'[k]
  BY <1>1, TableKept
<1> QED
  BY <1>2, NothingAppended

LEMMA CatchNextKeeps ==
  ASSUME BInv, NEW e \in BExecutor, BCatchNext(e)
  PROVE  BInv'
<1> DEFINE i == BInstanceOf[e]
           fsm == bFsm[e]
<1>1. BTypeOK /\ i \in BInstance /\ BStreamOK(i) /\ ToldOK(e) /\ BFsmOK(e) /\ BPcOK(e)
  BY BInstanceOfAssumption DEF BInv, BExecutorOK
<1>2. /\ fsm \in Fsm /\ fsm.applied \in Nat /\ Len(fsm.stepLogs) \in Nat
      /\ fsm.stepLogs \in Seq(IntentLogEntry) /\ fsm.posts \in SUBSET Nat
      /\ Len(bStream[i]) \in Nat /\ Len(bDecided[i]) \in Nat /\ bStep[e] \in Nat
      /\ bDecided[i] \in Seq(IntentLogEntry)
  BY <1>1 DEF BTypeOK, Fsm
<1>3. PICK p \in 1 .. Len(bStream[i]) : p = fsm.applied + 1
  BY <1>1, <1>2 DEF BCatchNext, CaughtUp, StreamOf, BFsmOK
<1>4. PICK entry \in IntentLogEntry : entry = bStream[i][p]
  BY <1>1, <1>3, BStreamTypes
<1>5. entry.step \in Nat /\ entry.postStep \in BOOLEAN /\ PositionOK(i, p)
  BY <1>1 DEF IntentLogEntry, BStreamOK
<1>6. ~ entry.postStep =>
        /\ entry.step <= Len(fsm.stepLogs)
        /\ entry.step = Len(fsm.stepLogs) => entry = bDecided[i][entry.step + 1]
        /\ entry.step < Len(bDecided[i])
  <2> SUFFICES ASSUME ~ entry.postStep
               PROVE  /\ entry.step <= Len(fsm.stepLogs)
                      /\ entry.step = Len(fsm.stepLogs) => entry = bDecided[i][entry.step + 1]
                      /\ entry.step < Len(bDecided[i])
    OBVIOUS
  <2>1. EntryOK(i, p)
    BY <1>4, <1>5 DEF PositionOK
  <2>2. \A x \in 1 .. p - 1 : \A n \in Nat : IsOf(i, x, n) => n < Len(fsm.stepLogs)
    <3>1. \A x \in 1 .. fsm.applied :
            ~ bStream[i][x].postStep => bStream[i][x].step < Len(fsm.stepLogs)
      BY <1>1 DEF BFsmOK
    <3>2. p - 1 = fsm.applied
      BY <1>2, <1>3
    <3> QED
      BY <3>1, <3>2 DEF IsOf
  <2>3. entry.step # 0 => entry.step - 1 \in Nat /\ entry.step - 1 < Len(fsm.stepLogs)
    <3>1. entry.step # 0 => \E x \in 1 .. p - 1 : IsOf(i, x, entry.step - 1)
      BY <1>4, <2>1 DEF EntryOK
    <3>2. entry.step # 0 => entry.step - 1 \in Nat
      BY <1>5
    <3> QED
      BY <2>2, <3>1, <3>2
  <2>4. entry = bDecided[i][entry.step + 1] \/ entry.step < Len(fsm.stepLogs)
    BY <1>4, <1>5, <2>1, <2>2 DEF EntryOK
  <2> QED
    <3>1. entry.step < Len(bDecided[i])
      BY <1>4, <2>1 DEF EntryOK
    <3>2. entry.step <= Len(fsm.stepLogs)
      BY <1>2, <1>5, <2>3
    <3>3. entry.step = Len(fsm.stepLogs) => entry = bDecided[i][entry.step + 1]
      BY <1>2, <1>5, <2>4
    <3> QED
      BY <3>1, <3>2, <3>3
<1>7. ~ Skips(fsm, entry)
  BY <1>2, <1>5, <1>6 DEF Skips
<1>8. /\ bFsm' = [bFsm EXCEPT ![e] = applyLog(fsm, entry)] /\ bPc' = bPc
      /\ UNCHANGED <<bLog, bVersion, bStep, bHeld, bTold, bOrphans, bCrashes>>
  BY <1>3, <1>4, <1>7 DEF BCatchNext, StreamOf
<1>9. PICK new : new = applyLog(fsm, entry)
  OBVIOUS
<1>10. /\ new.applied = p
       /\ new.posts = IF entry.postStep THEN fsm.posts \cup {entry.step} ELSE fsm.posts
       /\ new.stepLogs = IF ~ entry.postStep /\ entry.step = Len(fsm.stepLogs)
                         THEN Append(fsm.stepLogs, entry) ELSE fsm.stepLogs
       /\ new \in Fsm
  <2>1. fsm.posts \cup {entry.step} \in SUBSET Nat
    BY <1>2, <1>5
  <2>2. Append(fsm.stepLogs, entry) \in Seq(IntentLogEntry)
    BY <1>2
  <2>3. fsm.applied + 1 \in Nat
    BY <1>2
  <2>4. CASE entry.postStep
    BY <1>2, <1>3, <1>9, <2>1, <2>3, <2>4 DEF applyLog, Fsm
  <2>5. CASE ~ entry.postStep
    BY <1>2, <1>3, <1>9, <2>2, <2>3, <2>5 DEF applyLog, Fsm
  <2> QED
    BY <1>5, <2>4, <2>5
<1>11. bFsm'[e] = new /\ \A x \in BExecutor \ {e} : bFsm'[x] = bFsm[x]
  BY <1>1, <1>8, <1>9 DEF BTypeOK
<1>12. BTypeOK'
  <2>1. bFsm' \in [BExecutor -> Fsm]
    BY <1>1, <1>8, <1>9, <1>10 DEF BTypeOK
  <2> QED
    BY <1>1, <1>8, <2>1 DEF BTypeOK, bLog
<1>13. /\ LogGrows
       /\ \A j \in BInstance : BStreamOK(j)'
       /\ \A k \in BKey : bVersion'[k] <= bTail'
  BY <1>8, <1>12, LogKept
<1>14. bStream' = bStream /\ bDecided' = bDecided /\ bVersion' = bVersion /\ bProgram' = bProgram
  BY <1>8 DEF bLog
<1>15. /\ Len(new.stepLogs) <= Len(bDecided[i])
       /\ Len(fsm.stepLogs) <= Len(new.stepLogs) /\ Len(new.stepLogs) \in Nat
       /\ \A n \in 1 .. Len(new.stepLogs) : new.stepLogs[n] = bDecided[i][n]
  <2>1. CASE ~ entry.postStep /\ entry.step = Len(fsm.stepLogs)
    <3>1. /\ Len(new.stepLogs) = Len(fsm.stepLogs) + 1
          /\ new.stepLogs[Len(fsm.stepLogs) + 1] = entry
          /\ \A n \in 1 .. Len(fsm.stepLogs) : new.stepLogs[n] = fsm.stepLogs[n]
      BY <1>2, <1>10, <2>1
    <3>2. entry = bDecided[i][Len(fsm.stepLogs) + 1] /\ Len(fsm.stepLogs) < Len(bDecided[i])
      BY <1>6, <2>1
    <3>3. \A n \in 1 .. Len(fsm.stepLogs) : new.stepLogs[n] = bDecided[i][n]
      BY <1>1, <3>1 DEF BFsmOK
    <3>4. \A n \in 1 .. Len(new.stepLogs) :
            n \in 1 .. Len(fsm.stepLogs) \/ n = Len(fsm.stepLogs) + 1
      BY <1>2, <3>1
    <3>5. \A n \in 1 .. Len(new.stepLogs) : new.stepLogs[n] = bDecided[i][n]
      BY <3>1, <3>2, <3>3, <3>4
    <3> QED
      BY <1>2, <3>1, <3>2, <3>5
  <2>2. CASE ~ (~ entry.postStep /\ entry.step = Len(fsm.stepLogs))
    <3>1. new.stepLogs = fsm.stepLogs
      BY <1>10, <2>2
    <3> QED
      BY <1>1, <1>2, <3>1 DEF BFsmOK
  <2> QED
    BY <2>1, <2>2
<1>16. \A x \in 1 .. p : ~ bStream[i][x].postStep => bStream[i][x].step < Len(new.stepLogs)
  <2> SUFFICES ASSUME NEW x \in 1 .. p, ~ bStream[i][x].postStep
               PROVE  bStream[i][x].step < Len(new.stepLogs)
    OBVIOUS
  <2>1. CASE x = p
    <3>1. entry.step < Len(new.stepLogs)
      <4>1. ~ entry.postStep
        BY <1>4, <2>1
      <4>2. CASE entry.step = Len(fsm.stepLogs)
        <5>1. new.stepLogs = Append(fsm.stepLogs, entry)
          BY <1>10, <4>1, <4>2
        <5> QED
          BY <1>2, <4>2, <5>1
      <4>3. CASE entry.step < Len(fsm.stepLogs)
        BY <1>2, <1>5, <1>15, <4>3
      <4> QED
        BY <1>2, <1>5, <1>6, <4>1, <4>2, <4>3
    <3> QED
      BY <1>4, <2>1, <3>1
  <2>2. CASE x \in 1 .. fsm.applied
    <3>1. bStream[i][x].step < Len(fsm.stepLogs) /\ bStream[i][x].step \in Nat
      BY <1>1, <1>2, <1>3, <2>2, BStreamTypes DEF BFsmOK
    <3>2. Len(fsm.stepLogs) \in Nat /\ Len(new.stepLogs) \in Nat
          /\ Len(fsm.stepLogs) <= Len(new.stepLogs)
      BY <1>2, <1>15
    <3> QED
      BY <3>1, <3>2
  <2> QED
    BY <1>2, <1>3, <2>1, <2>2
<1>17. \A n \in new.posts : ResultOK(i, n)
  BY <1>1, <1>4, <1>5, <1>10 DEF BFsmOK, PositionOK
<1>18. BFsmOK(e)'
  <2>1. \A n \in new.posts : ResultOK(i, n)'
    BY <1>14, <1>17 DEF ResultOK
  <2>2. p <= Len(bStream[i])
    BY <1>2
  <2> QED
    BY <1>10, <1>11, <1>14, <1>15, <1>16, <2>1, <2>2 DEF BFsmOK
<1>19. ToldOK(e)'
  BY <1>1, <1>8, <1>12, <1>13, ToldKept
<1>20. BPcOK(e)'
  <2>1. bStep[e] <= Len(new.stepLogs)
    <3>1. bStep[e] <= Len(fsm.stepLogs)
      BY <1>1 DEF BPcOK, BCatchNext, Catching
    <3> QED
      BY <1>2, <1>15, <3>1
  <2>2. bPc[e] \in {"idle", "catch"}
    BY DEF BCatchNext, Catching
  <2>3. bPc[e] = "catch" => \E x \in 1 .. Len(bStream[i]) : IsOf(i, x, bStep[e])
    BY <1>1 DEF BPcOK
  <2>4. bPc[e] = "idle" => bStep[e] = 0
    BY <1>1 DEF BPcOK
  <2> QED
    BY <1>8, <1>11, <1>14, <2>1, <2>2, <2>3, <2>4 DEF BPcOK, IsOf
<1>21. BExecutorOK(e)' /\ \A x \in BExecutor \ {e} : Same(x)
  BY <1>8, <1>11, <1>18, <1>19, <1>20 DEF BExecutorOK, Same
<1> QED
  BY <1>8, <1>12, <1>13, <1>21, StepOfOne

LEMMA CallKeeps ==
  ASSUME BInv, NEW e \in BExecutor, BCall(e)
  PROVE  BInv'
<1>1. BTypeOK /\ BPcOK(e)
  BY DEF BInv, BExecutorOK
<1>2. BTypeOK'
  BY <1>1 DEF BCall, BTypeOK, bLog, BPcs
<1>3. /\ LogGrows
      /\ \A j \in BInstance : BStreamOK(j)'
      /\ \A k \in BKey : bVersion'[k] <= bTail'
  BY <1>2, LogKept DEF BCall
<1>4. bPc'[e] = "run" /\ \A x \in BExecutor \ {e} : Same(x)
  BY <1>1 DEF BCall, BTypeOK, Same
<1>5. BPcOK(e)'
  BY <1>1, <1>4 DEF BCall, BPcOK
<1>6. BExecutorOK(e)'
  BY <1>2, <1>3, <1>5, OnlyMoved DEF BCall
<1> QED
  BY <1>2, <1>3, <1>4, <1>6, StepOfOne DEF BCall

\* What the program says of the next operation.
LEMMA OpTypes ==
  ASSUME BTypeOK, NEW e \in BExecutor, HasOp(e)
  PROVE  /\ Op(e) \in Operation /\ Op(e).key \in BKey /\ Op(e).async \in BOOLEAN
         /\ Op(e).type \in {"Read", "PreWrite", "PreInvoke"}
         /\ Len(bProgram[BInstanceOf[e]]) \in Nat
<1>1. bProgram[BInstanceOf[e]] \in Seq(Operation) /\ bStep[e] \in Nat
  BY BInstanceOfAssumption, BProgramsAssumption DEF BTypeOK
<1>2. Op(e) \in Operation
  BY <1>1 DEF HasOp, Op
<1> QED
  BY <1>1, <1>2 DEF Operation
LEMMA HeldEntryType ==
  ASSUME NEW seqNum \in Nat, NEW val \in Nat
  PROVE  /\ HeldEntry(seqNum, Unlogged(val)) \in Held
         /\ HeldEntry(seqNum, Unlogged(val)).data.val = val
<1>1. Unlogged(val) \in [type : {"none"}, val : Nat] /\ Unlogged(val).val = val
  BY DEF Unlogged
<1> QED
  BY <1>1 DEF HeldEntry, Held

LEMMA FetchKeeps ==
  ASSUME BInv, NEW e \in BExecutor, BFetch(e)
  PROVE  BInv'
<1> DEFINE i == BInstanceOf[e]
<1>1. BTypeOK /\ ToldOK(e) /\ BPcOK(e)
  BY DEF BInv, BExecutorOK
<1>2. Op(e).key \in BKey /\ bVersion[Op(e).key] \in Nat
  BY <1>1, OpTypes DEF BFetch, BTypeOK
<1>3. PICK held \in Held : /\ held = HeldEntry(0, Unlogged(bVersion[Op(e).key]))
                           /\ held.data.val = bVersion[Op(e).key]
  BY <1>2, HeldEntryType
<1>4. bHeld' = [bHeld EXCEPT ![e] = held] /\ bPc' = [bPc EXCEPT ![e] = "propose"]
      /\ bPc[e] = "run" /\ HasOp(e) /\ ~ Seen(e) /\ Op(e).type = "Read"
      /\ UNCHANGED <<bLog, bVersion, bStep, bFsm, bTold, bOrphans, bCrashes>>
  BY <1>3 DEF BFetch
<1>5. BTypeOK'
  BY <1>1, <1>4 DEF BTypeOK, bLog, BPcs
<1>6. /\ LogGrows
      /\ \A j \in BInstance : BStreamOK(j)'
      /\ \A k \in BKey : bVersion'[k] <= bTail'
  BY <1>4, <1>5, LogKept
<1>7. /\ bPc'[e] = "propose" /\ bHeld'[e] = held
      /\ \A x \in BExecutor \ {e} : Same(x)
  BY <1>1, <1>4 DEF BTypeOK, Same
<1>8. /\ HasOp(e)' /\ ~ Seen(e)' /\ Op(e)' = Op(e)
  BY <1>4 DEF HasOp, Seen, Op, bLog
<1>9. \A n \in 1 .. bStep[e] :
        /\ bDecided[i][n].data.type # "PreInvoke"
        /\ bDecided[i][n].data.key = Op(e).key
        => VersionAt(i, n) <= held.data.val
  BY <1>1, <1>3 DEF ToldOK, Passed
<1>10. \A n \in 1 .. bStep[e] :
         /\ bDecided'[i][n] = bDecided[i][n]
         /\ VersionAt(i, n)' = VersionAt(i, n)
  BY <1>4 DEF bLog, VersionAt
<1>11. bHeld'[e].data.val <= bVersion'[Op(e).key]
  <2>1. bVersion' = bVersion /\ bHeld'[e].data.val = bVersion[Op(e).key]
    BY <1>3, <1>4, <1>7
  <2> QED
    BY <1>2, <2>1
<1>12. BPcOK(e)'
  <2>1. bStep'[e] = bStep[e] /\ bStep[e] <= Len(bFsm'[e].stepLogs)
    BY <1>1, <1>4 DEF BPcOK
  <2>2. \A n \in 1 .. bStep'[e] :
          /\ bDecided'[i][n].data.type # "PreInvoke"
          /\ bDecided'[i][n].data.key = Op(e)'.key
          => VersionAt(i, n)' <= bHeld'[e].data.val
    BY <1>7, <1>8, <1>9, <1>10, <2>1
  <2> QED
    BY <1>4, <1>7, <1>8, <1>11, <2>1, <2>2 DEF BPcOK
<1>13. BExecutorOK(e)'
  BY <1>4, <1>5, <1>6, <1>12, OnlyMoved
<1> QED
  BY <1>4, <1>5, <1>6, <1>7, <1>13, StepOfOne

\* The streams of the instances of which nothing is appended.
LEMMA OthersKept ==
  ASSUME BInv, BTypeOK', LogGrows, NEW i \in BInstance, NEW step, NEW postStep, NEW data,
         BAppend(i, step, postStep, data)
  PROVE  \A j \in BInstance \ {i} : BStreamOK(j)'
<1> SUFFICES ASSUME NEW j \in BInstance, j # i PROVE BStreamOK(j)'
  OBVIOUS
<1>1. BTypeOK /\ BStreamOK(j)
  BY DEF BInv
<1>2. bStream'[j] = bStream[j] /\ bDecided'[j] = bDecided[j]
  BY <1>1 DEF BAppend, BTypeOK
<1> QED
  BY <1>1, <1>2, StreamKept

LEMMA ProposeKeeps ==
  ASSUME BInv, NEW e \in BExecutor, BPropose(e)
  PROVE  BInv'
<1>1. PICK i \in BInstance : i = BInstanceOf[e]
  BY BInstanceOfAssumption
<1>2. BTypeOK /\ ToldOK(e) /\ BPcOK(e) /\ BStreamOK(i)
  BY <1>1 DEF BInv, BExecutorOK
<1>3. HasOp(e) /\ ~ Seen(e) /\ bPc[e] \in {"run", "propose"}
      /\ (Op(e).type = "Read" => bPc[e] = "propose")
  BY <1>2 DEF BPropose, BPcOK
<1>4. PICK step \in Nat : step = bStep[e]
  BY <1>2 DEF BTypeOK
<1>5. /\ Op(e) \in Operation /\ Op(e).key \in BKey
      /\ Op(e).type \in {"Read", "PreWrite", "PreInvoke"}
      /\ Len(bProgram[i]) \in Nat
  BY <1>1, <1>2, <1>3, OpTypes
<1>6. bTail \in Nat /\ bHeld[e] \in Held /\ bVersion[Op(e).key] \in Nat
      /\ bVersion[Op(e).key] <= bTail
  BY <1>2, <1>5 DEF BTypeOK, BInv
<1>7. Op(e).type = "Read" =>
        /\ bHeld[e].data.val \in Nat /\ bHeld[e].data.val <= bVersion[Op(e).key]
        /\ \A n \in 1 .. step :
             /\ bDecided[i][n].data.type # "PreInvoke"
             /\ bDecided[i][n].data.key = Op(e).key
             => VersionAt(i, n) <= bHeld[e].data.val
  <2>1. bHeld[e].data.val \in Nat
    BY <1>6 DEF Held, LogData
  <2> QED
    BY <1>1, <1>2, <1>3, <1>4, <2>1 DEF BPcOK
<1>8. PICK data \in LogData :
        /\ data = Proposal(e)
        /\ data.type = Op(e).type /\ data.key = Op(e).key
        /\ data.type = "Read" => data.val = bHeld[e].data.val
  <2> DEFINE val == CASE Op(e).type = "Read" -> bHeld[e].data.val
                      [] Op(e).type = "PreInvoke" -> bTail + 1
                      [] OTHER -> 0
             data == [type |-> Op(e).type, key |-> Op(e).key, val |-> val]
  <2>1. val \in Nat /\ (Op(e).type = "Read" => val = bHeld[e].data.val)
    BY <1>5, <1>6, <1>7
  <2> HIDE DEF val
  <2>2. data \in LogData
    BY <1>5, <2>1 DEF LogData
  <2>3. data = Proposal(e)
    BY DEF Proposal, val
  <2> QED
    BY <2>1, <2>2, <2>3
<1>9. BAppend(i, step, FALSE, data)
  BY <1>1, <1>4, <1>8 DEF BPropose
<1>10. PICK held \in Held : held = HeldEntry(bTail + 1, NoData)
  <2>1. bTail + 1 \in Nat
    BY <1>6
  <2>2. HeldEntry(bTail + 1, NoData) \in Held
    BY <2>1, HeldEntryType DEF NoData
  <2> QED BY <2>2
<1>11. /\ bHeld' = [bHeld EXCEPT ![e] = held]
       /\ bPc' = [bPc EXCEPT ![e] = "catch"]
       /\ UNCHANGED <<bVersion, bStep, bFsm, bTold, bOrphans, bCrashes>>
  BY <1>10 DEF BPropose
<1>12. \A k \in BKey : bVersion[k] <= bVersion'[k]
  BY <1>2, <1>11 DEF BTypeOK
<1>13. /\ LogGrows
       /\ bTail' \in Nat
       /\ bStream' \in [BInstance -> Seq(IntentLogEntry)]
       /\ bDecided' \in [BInstance -> Seq(IntentLogEntry)]
  BY <1>2, <1>9, <1>12, BAppendGrows
<1>14. BTypeOK'
  BY <1>2, <1>11, <1>13 DEF BTypeOK, LogGrows, BPcs
<1>15. step <= Len(bDecided[i]) /\ step < Len(bProgram[i])
  BY <1>1, <1>2, <1>3, <1>4 DEF ToldOK, HasOp
<1>16. \A n \in 1 .. step :
         /\ "PreInvoke" \notin {bDecided[i][n].data.type, data.type}
         /\ bDecided[i][n].data.key = data.key
         => VersionAt(i, n) <= IF data.type = "Read" THEN data.val ELSE bTail + 1
  <2> SUFFICES ASSUME NEW n \in 1 .. step,
                      bDecided[i][n].data.type # "PreInvoke",
                      bDecided[i][n].data.key = data.key
               PROVE  VersionAt(i, n) <= IF data.type = "Read" THEN data.val ELSE bTail + 1
    BY Zenon
  <2>1. CASE data.type = "Read"
    BY <1>7, <1>8, <2>1
  <2>2. CASE data.type # "Read"
    <3>1. Len(bDecided[i]) \in Nat
      BY <1>2 DEF BTypeOK
    <3>2. n \in 1 .. Len(bDecided[i])
      BY <1>15, <3>1
    <3>3. DecidedOK(i, n)
      BY <1>2, <3>2 DEF BStreamOK
    <3>4. VersionAt(i, n) \in Nat
      BY <1>2, <3>2, <3>3, BDecidedTypes DEF DecidedOK
    <3>5. VersionAt(i, n) <= bVersion[Op(e).key]
      BY <1>1, <1>2, <1>4, <1>8 DEF ToldOK, Passed
    <3> QED
      BY <1>6, <2>2, <3>4, <3>5
  <2> QED
    BY <2>1, <2>2
<1>17. /\ data.type = bProgram[i][step + 1].type /\ data.key = bProgram[i][step + 1].key
       /\ data.type = "Read" => data.val <= bVersion[data.key]
  BY <1>1, <1>4, <1>7, <1>8 DEF Op
<1>18. BStreamOK(i)' /\ \E x \in 1 .. Len(bStream'[i]) : IsOf(i, x, step)'
  BY <1>2, <1>5, <1>9, <1>11, <1>13, <1>14, <1>15, <1>16, <1>17, EntryAppended
<1>19. \A j \in BInstance : BStreamOK(j)'
  BY <1>9, <1>13, <1>14, <1>18, OthersKept
<1>20. \A k \in BKey : bVersion'[k] <= bTail'
  BY <1>11, <1>13, <1>14, TableKept DEF LogGrows
<1>21. bPc'[e] = "catch" /\ \A x \in BExecutor \ {e} : Same(x)
  BY <1>2, <1>11 DEF BTypeOK, Same
<1>22. BPcOK(e)'
  <2>1. bStep'[e] = step /\ step <= Len(bFsm'[e].stepLogs)
    BY <1>2, <1>3, <1>4, <1>11 DEF BPcOK
  <2>2. \E x \in 1 .. Len(bStream'[i]) : IsOf(i, x, bStep[e])'
    BY <1>18, <2>1 DEF IsOf
  <2> QED
    BY <1>1, <1>21, <2>1, <2>2 DEF BPcOK
<1>23. BExecutorOK(e)'
  BY <1>11, <1>13, <1>14, <1>22, OnlyMoved
<1> QED
  BY <1>11, <1>13, <1>14, <1>19, <1>20, <1>21, <1>23, StepOfOne
\* What an execution holds between the log and its table or its callee.
LEMMA HeldIsDecided ==
  ASSUME BInv, NEW e \in BExecutor, Holds(e)
  PROVE  /\ bStep[e] \in Nat /\ bStep[e] + 1 \in 1 .. Len(bDecided[BInstanceOf[e]])
         /\ bHeld[e] = bDecided[BInstanceOf[e]][bStep[e] + 1]
         /\ bHeld[e].data \in LogData /\ bHeld[e].data.key \in BKey
         /\ bHeld[e].seqNum \in Nat /\ bHeld[e].seqNum <= bTail
         /\ Op(e).key = bHeld[e].data.key
<1> DEFINE i == BInstanceOf[e]
<1>1. i \in BInstance /\ BTypeOK /\ BStreamOK(i)
  BY BInstanceOfAssumption DEF BInv
<1>2. bStep[e] \in Nat /\ bStep[e] + 1 \in 1 .. Len(bDecided[i])
      /\ bHeld[e] = bDecided[i][bStep[e] + 1]
  BY <1>1 DEF Holds, BTypeOK
<1>3. DecidedOK(i, bStep[e] + 1)
  BY <1>1, <1>2 DEF BStreamOK
<1>4. bHeld[e].data.key \in BKey /\ bHeld[e].seqNum \in Nat
  BY <1>1, <1>2, <1>3, BDecidedTypes DEF DecidedOK
<1> QED
  BY <1>2, <1>3, <1>4 DEF DecidedOK, Op

LEMMA WriteItemKeeps ==
  ASSUME BInv, NEW e \in BExecutor, BWriteItem(e)
  PROVE  BInv'
<1> DEFINE i == BInstanceOf[e]
           k == Op(e).key
           seqNum == bHeld[e].seqNum
<1>1. BTypeOK /\ BPcOK(e) /\ bTail \in Nat
  BY DEF BInv, BExecutorOK, BTypeOK
<1>2. Holds(e) /\ bHeld[e].data.type = "PreWrite"
  BY <1>1 DEF BPcOK, BWriteItem
<1>3. k \in BKey /\ seqNum \in Nat /\ seqNum <= bTail /\ k = bHeld[e].data.key
  BY <1>2, HeldIsDecided
<1>4. /\ bPc' = [bPc EXCEPT ![e] = "post"]
      /\ UNCHANGED <<bLog, bStep, bFsm, bHeld, bTold, bOrphans, bCrashes>>
      /\ bVersion' = IF bVersion[k] < seqNum THEN [bVersion EXCEPT ![k] = seqNum] ELSE bVersion
  BY DEF BWriteItem, CondUpdate
<1> HIDE DEF k, seqNum
<1>5. /\ bVersion' \in [BKey -> Nat]
      /\ \A x \in BKey : bVersion[x] <= bVersion'[x] /\ bVersion'[x] <= bTail
      /\ seqNum <= bVersion'[k]
  <2>1. /\ bVersion \in [BKey -> Nat]
        /\ \A x \in BKey : bVersion[x] \in Nat /\ bVersion[x] <= bTail
    BY <1>1 DEF BTypeOK, BInv
  <2>2. CASE bVersion[k] < seqNum
    BY <1>3, <1>4, <2>1, <2>2
  <2>3. CASE ~ bVersion[k] < seqNum
    BY <1>3, <1>4, <2>1, <2>3
  <2> QED
    BY <2>2, <2>3
<1>6. BTypeOK'
  BY <1>1, <1>4, <1>5 DEF BTypeOK, bLog, BPcs
<1>7. LogGrows /\ \A j \in BInstance : BStreamOK(j)'
  BY <1>4, <1>5, <1>6, NothingAppended
<1>8. bPc'[e] = "post" /\ \A x \in BExecutor \ {e} : Same(x)
  BY <1>1, <1>4 DEF BTypeOK, Same
<1>9. BPcOK(e)'
  <2>1. Holds(e)' /\ bHeld' = bHeld
    BY <1>2, <1>4 DEF Holds, Seen, bLog
  <2>2. bHeld'[e].seqNum <= bVersion'[bHeld'[e].data.key]
    BY <1>3, <1>5, <2>1 DEF seqNum
  <2>3. bStep'[e] <= Len(bFsm'[e].stepLogs)
    BY <1>1, <1>4 DEF BPcOK, BWriteItem
  <2> QED
    BY <1>2, <1>8, <2>1, <2>2, <2>3 DEF BPcOK
<1>10. BExecutorOK(e)'
  BY <1>4, <1>6, <1>7, <1>9, OnlyMoved
<1>11. \A x \in BKey : bVersion'[x] <= bTail'
  BY <1>4, <1>5 DEF bLog
<1> QED
  BY <1>4, <1>6, <1>7, <1>8, <1>10, <1>11, StepOfOne

\* A result is logged, by who executes the caller or by a callee.
LEMMA ResultKeepsLog ==
  ASSUME BInv, NEW i \in BInstance, NEW step \in Nat, BAppend(i, step, TRUE, NoData),
         ResultOK(i, step), bVersion' = bVersion
  PROVE  /\ LogGrows
         /\ bTail' = bTail
         /\ bStream' \in [BInstance -> Seq(IntentLogEntry)]
         /\ bDecided' = bDecided
         /\ bProgram' = bProgram
         /\ BTypeOK' => \A j \in BInstance : BStreamOK(j)'
         /\ \A k \in BKey : bVersion'[k] <= bTail'
<1>1. BTypeOK /\ BStreamOK(i)
  BY DEF BInv
<1>2. \A k \in BKey : bVersion[k] <= bVersion'[k]
  BY <1>1 DEF BTypeOK
<1>3. LogGrows /\ bStream' \in [BInstance -> Seq(IntentLogEntry)]
  BY <1>1, <1>2, BAppendGrows
<1>4. bTail' = bTail /\ bDecided' = bDecided /\ bProgram' = bProgram
  BY DEF BAppend
<1>5. ASSUME BTypeOK' PROVE \A j \in BInstance : BStreamOK(j)'
  <2>1. BStreamOK(i)'
    BY <1>1, <1>3, <1>5, ResultAppended
  <2>2. \A j \in BInstance \ {i} : BStreamOK(j)'
    BY <1>3, <1>5, OthersKept
  <2> QED
    BY <2>1, <2>2
<1> QED
  BY <1>3, <1>4, <1>5 DEF BInv

LEMMA LeaveTypes ==
  ASSUME BTypeOK, NEW e \in BExecutor, NEW data \in LogData, Leave(e, data)
  PROVE  /\ bStep' \in [BExecutor -> Nat] /\ bPc' \in [BExecutor -> BPcs]
         /\ bTold' \in [BExecutor -> Seq(LogData)] /\ bHeld' \in [BExecutor -> Held]
<1>1. NoEntry \in Held
  BY HeldEntryType DEF NoEntry, NoData
<1>2. /\ bStep' \in [BExecutor -> Nat] /\ bPc' \in [BExecutor -> BPcs]
      /\ bHeld' \in [BExecutor -> Held]
  BY <1>1 DEF Leave, BTypeOK, BPcs
<1>3. bTold' \in [BExecutor -> Seq(LogData)]
  BY DEF Leave, BTypeOK
<1> QED
  BY <1>2, <1>3

LEMMA PostWriteKeeps ==
  ASSUME BInv, NEW e \in BExecutor, BPostWrite(e)
  PROVE  BInv'
<1>1. PICK i \in BInstance : i = BInstanceOf[e]
  BY BInstanceOfAssumption
<1>2. BTypeOK /\ BPcOK(e)
  BY DEF BInv, BExecutorOK
<1>3. Holds(e) /\ bHeld[e].data.type = "PreWrite"
      /\ bHeld[e].seqNum <= bVersion[bHeld[e].data.key]
  BY <1>2 DEF BPcOK, BPostWrite
<1>4. PICK step \in Nat : step = bStep[e]
  BY <1>2 DEF BTypeOK
<1>5. /\ step + 1 \in 1 .. Len(bDecided[i])
      /\ bHeld[e] = bDecided[i][step + 1] /\ bHeld[e].data \in LogData
  BY <1>1, <1>3, <1>4, HeldIsDecided
<1>6. ResultOK(i, step)
  BY <1>1, <1>3, <1>4, <1>5 DEF ResultOK, Holds
<1>7. BAppend(i, step, TRUE, NoData) /\ Leave(e, bHeld[e].data)
      /\ UNCHANGED <<bVersion, bFsm, bOrphans, bCrashes>>
  BY <1>1, <1>4 DEF BPostWrite
<1>8. /\ LogGrows
      /\ bTail' = bTail
      /\ bStream' \in [BInstance -> Seq(IntentLogEntry)]
      /\ bDecided' = bDecided
      /\ bProgram' = bProgram
      /\ BTypeOK' => \A j \in BInstance : BStreamOK(j)'
      /\ \A k \in BKey : bVersion'[k] <= bTail'
  BY <1>6, <1>7, ResultKeepsLog
<1>9. BTypeOK'
  BY <1>2, <1>5, <1>7, <1>8, LeaveTypes DEF BTypeOK
<1>10. Passed(i, step + 1)
  BY <1>3, <1>5 DEF Passed, VersionAt
<1>11. BExecutorOK(e)' /\ \A x \in BExecutor \ {e} : Same(x)
  BY <1>1, <1>3, <1>4, <1>5, <1>7, <1>8, <1>9, <1>10, ToldMore DEF Holds, Seen, BPostWrite
<1> QED
  BY <1>7, <1>8, <1>9, <1>11, StepOfOne

LEMMA LogResultKeeps ==
  ASSUME BInv, NEW e \in BExecutor, BLogResult(e)
  PROVE  BInv'
<1>1. PICK i \in BInstance : i = BInstanceOf[e]
  BY BInstanceOfAssumption
<1>2. BTypeOK /\ BPcOK(e)
  BY DEF BInv, BExecutorOK
<1>3. Holds(e) /\ bHeld[e].data.type = "PreInvoke"
  BY <1>2 DEF BPcOK, BLogResult
<1>4. PICK step \in Nat : step = bStep[e]
  BY <1>2 DEF BTypeOK
<1>5. ResultOK(i, step)
  BY <1>1, <1>3, <1>4 DEF ResultOK, Holds
<1>6. BAppend(i, step, TRUE, NoData) /\ bPc' = [bPc EXCEPT ![e] = "answer"]
      /\ UNCHANGED <<bVersion, bStep, bFsm, bHeld, bTold, bOrphans, bCrashes>>
  BY <1>1, <1>4 DEF BLogResult
<1>7. /\ LogGrows
      /\ bTail' = bTail
      /\ bStream' \in [BInstance -> Seq(IntentLogEntry)]
      /\ bDecided' = bDecided
      /\ bProgram' = bProgram
      /\ BTypeOK' => \A j \in BInstance : BStreamOK(j)'
      /\ \A k \in BKey : bVersion'[k] <= bTail'
  BY <1>5, <1>6, ResultKeepsLog
<1>8. BTypeOK'
  BY <1>2, <1>6, <1>7 DEF BTypeOK, BPcs
<1>9. bPc'[e] = "answer" /\ \A x \in BExecutor \ {e} : Same(x)
  BY <1>2, <1>6 DEF BTypeOK, Same
<1>10. BPcOK(e)'
  <2>1. Holds(e)' /\ bHeld' = bHeld
    BY <1>3, <1>6, <1>7 DEF Holds, Seen
  <2>2. bStep'[e] <= Len(bFsm'[e].stepLogs)
    BY <1>2, <1>6 DEF BPcOK, BLogResult
  <2> QED
    BY <1>3, <1>9, <2>1, <2>2 DEF BPcOK
<1>11. BExecutorOK(e)'
  BY <1>6, <1>7, <1>8, <1>10, OnlyMoved
<1> QED
  BY <1>6, <1>7, <1>8, <1>9, <1>11, StepOfOne
\* A call that nobody waits for any more may log its result.
LEMMA OrphanIsOK ==
  ASSUME BInv, NEW e \in BExecutor, Holds(e), bHeld[e].data.type = "PreInvoke"
  PROVE  /\ OrphanOK(Orphan(e)) /\ Orphan(e) \in [caller : BInstance, step : Nat]
         /\ Passed(BInstanceOf[e], bStep[e] + 1)
<1>1. bHeld[e] = bDecided[BInstanceOf[e]][bStep[e] + 1] /\ bStep[e] \in Nat
  BY HeldIsDecided
<1> QED
  BY <1>1, BInstanceOfAssumption DEF Orphan, OrphanOK, Holds, Passed

LEMMA InvokeKeeps ==
  ASSUME BInv, NEW e \in BExecutor, BInvoke(e)
  PROVE  BInv'
<1>1. BTypeOK /\ BPcOK(e)
  BY DEF BInv, BExecutorOK
<1>2. Holds(e) /\ bHeld[e].data.type = "PreInvoke"
  BY <1>1 DEF BPcOK, BInvoke
<1>3. /\ bStep[e] + 1 \in 1 .. Len(bDecided[BInstanceOf[e]])
      /\ bHeld[e] = bDecided[BInstanceOf[e]][bStep[e] + 1] /\ bHeld[e].data \in LogData
  BY <1>2, HeldIsDecided
<1>4. /\ OrphanOK(Orphan(e)) /\ Orphan(e) \in [caller : BInstance, step : Nat]
      /\ Passed(BInstanceOf[e], bStep[e] + 1)
  BY <1>2, OrphanIsOK
<1>5. UNCHANGED <<bLog, bVersion, bFsm, bCrashes>>
  BY DEF BInvoke
<1>6. CASE Leave(e, bHeld[e].data) /\ bOrphans' = bOrphans \cup {Orphan(e)}
  <2>1. bOrphans' \in SUBSET [caller : BInstance, step : Nat]
    BY <1>1, <1>4, <1>6 DEF BTypeOK
  <2>2. BTypeOK'
    BY <1>1, <1>3, <1>5, <1>6, <2>1, LeaveTypes DEF BTypeOK, bLog
  <2>3. /\ LogGrows
        /\ \A j \in BInstance : BStreamOK(j)'
        /\ \A k \in BKey : bVersion'[k] <= bTail'
    BY <1>5, <2>2, LogKept
  <2>4. BExecutorOK(e)' /\ \A x \in BExecutor \ {e} : Same(x)
    BY <1>2, <1>3, <1>4, <1>5, <1>6, <2>2, <2>3, ToldMore DEF Holds, Seen, BInvoke
  <2>5. \A o \in bOrphans' : o \in bOrphans \/ OrphanOK(o)
    BY <1>4, <1>6
  <2> QED
    BY <2>2, <2>3, <2>4, <2>5, StepOfOne
<1>7. CASE bPc' = [bPc EXCEPT ![e] = "wait"] /\ UNCHANGED <<bStep, bTold, bHeld, bOrphans>>
  <2>1. BTypeOK'
    BY <1>1, <1>5, <1>7 DEF BTypeOK, bLog, BPcs
  <2>2. /\ LogGrows
        /\ \A j \in BInstance : BStreamOK(j)'
        /\ \A k \in BKey : bVersion'[k] <= bTail'
    BY <1>5, <2>1, LogKept
  <2>3. bPc'[e] = "wait" /\ \A x \in BExecutor \ {e} : Same(x)
    BY <1>1, <1>5, <1>7 DEF BTypeOK, Same
  <2>4. BPcOK(e)'
    <3>1. Holds(e)' /\ bHeld' = bHeld
      BY <1>2, <1>5, <1>7 DEF Holds, Seen, bLog
    <3>2. bStep'[e] <= Len(bFsm'[e].stepLogs)
      BY <1>1, <1>5, <1>7 DEF BPcOK, BInvoke
    <3> QED
      BY <1>2, <2>3, <3>1, <3>2 DEF BPcOK
  <2>5. BExecutorOK(e)'
    BY <1>5, <1>7, <2>1, <2>2, <2>4, OnlyMoved
  <2> QED
    BY <1>7, <2>1, <2>2, <2>3, <2>5, StepOfOne
<1> QED
  BY <1>6, <1>7 DEF BInvoke

LEMMA AnswerKeeps ==
  ASSUME BInv, NEW e \in BExecutor, BAnswer(e)
  PROVE  BInv'
<1>1. BTypeOK /\ BPcOK(e)
  BY DEF BInv, BExecutorOK
<1>2. Holds(e) /\ bHeld[e].data.type = "PreInvoke"
  BY <1>1 DEF BPcOK, BAnswer
<1>3. /\ bStep[e] + 1 \in 1 .. Len(bDecided[BInstanceOf[e]])
      /\ bHeld[e] = bDecided[BInstanceOf[e]][bStep[e] + 1] /\ bHeld[e].data \in LogData
  BY <1>2, HeldIsDecided
<1>4. Leave(e, bHeld[e].data) /\ UNCHANGED <<bLog, bVersion, bFsm, bOrphans, bCrashes>>
  BY DEF BAnswer
<1>5. BTypeOK'
  BY <1>1, <1>3, <1>4, LeaveTypes DEF BTypeOK, bLog
<1>6. /\ LogGrows
      /\ \A j \in BInstance : BStreamOK(j)'
      /\ \A k \in BKey : bVersion'[k] <= bTail'
  BY <1>4, <1>5, LogKept
<1>7. Passed(BInstanceOf[e], bStep[e] + 1)
  BY <1>2, OrphanIsOK
<1>8. BExecutorOK(e)' /\ \A x \in BExecutor \ {e} : Same(x)
  BY <1>2, <1>3, <1>4, <1>5, <1>6, <1>7, ToldMore DEF Holds, Seen, BAnswer
<1> QED
  BY <1>4, <1>5, <1>6, <1>8, StepOfOne

LEMMA OrphanLogsKeeps ==
  ASSUME BInv, NEW o \in bOrphans, OrphanLogs(o)
  PROVE  BInv'
<1>1. BTypeOK /\ OrphanOK(o)
  BY DEF BInv
<1>2. PICK i \in BInstance, step \in Nat : i = o.caller /\ step = o.step
  BY <1>1 DEF BTypeOK
<1>3. ResultOK(i, step)
  BY <1>1, <1>2 DEF OrphanOK, ResultOK
<1>4. BAppend(i, step, TRUE, NoData) /\ bOrphans' = bOrphans \ {o}
      /\ UNCHANGED <<bVersion, bStep, bFsm, bPc, bHeld, bTold, bCrashes>>
  BY <1>2 DEF OrphanLogs
<1>5. /\ LogGrows
      /\ bTail' = bTail
      /\ bStream' \in [BInstance -> Seq(IntentLogEntry)]
      /\ bDecided' = bDecided
      /\ bProgram' = bProgram
      /\ BTypeOK' => \A j \in BInstance : BStreamOK(j)'
      /\ \A k \in BKey : bVersion'[k] <= bTail'
  BY <1>3, <1>4, ResultKeepsLog
<1>6. BTypeOK'
  BY <1>1, <1>4, <1>5 DEF BTypeOK
<1>7. \A x \in BExecutor : Same(x)
  BY <1>4 DEF Same
<1> QED
  BY <1>4, <1>5, <1>6, <1>7, StepOfSome

\* An IntentFsm that has applied nothing.
LEMMA NewFsmOK ==
  ASSUME NEW e \in BExecutor, BTypeOK', bFsm'[e] = NewIntentFsm
  PROVE  BFsmOK(e)'
<1> DEFINE i == BInstanceOf[e]
<1>1. i \in BInstance
  BY BInstanceOfAssumption
<1>2. Len(bStream'[i]) \in Nat /\ Len(bDecided'[i]) \in Nat
  BY <1>1 DEF BTypeOK
<1>3. /\ bFsm'[e].applied = 0 /\ bFsm'[e].stepLogs = <<>> /\ bFsm'[e].posts = {}
      /\ Len(bFsm'[e].stepLogs) = 0
  BY DEF NewIntentFsm
<1> QED
  BY <1>2, <1>3 DEF BFsmOK

LEMMA NewFsmType ==
  NewIntentFsm \in Fsm
<1>1. <<>> \in Seq(IntentLogEntry) /\ 0 \in Nat /\ {} \in SUBSET Nat
  OBVIOUS
<1> QED
  BY <1>1 DEF NewIntentFsm, Fsm

LEMMA FinishKeeps ==
  ASSUME BInv, NEW e \in BExecutor, BFinish(e)
  PROVE  BInv'
<1> DEFINE i == BInstanceOf[e]
<1>1. BTypeOK /\ ToldOK(e) /\ i \in BInstance /\ BStreamOK(i)
  BY BInstanceOfAssumption DEF BInv, BExecutorOK
<1>2. /\ bPc' = [bPc EXCEPT ![e] = "done"]
      /\ bFsm' = [bFsm EXCEPT ![e] = NewIntentFsm]
      /\ UNCHANGED <<bLog, bVersion, bStep, bHeld, bTold, bOrphans, bCrashes>>
  BY DEF BFinish
<1>3. BTypeOK'
  BY <1>1, <1>2, NewFsmType DEF BTypeOK, bLog, BPcs
<1>4. /\ LogGrows
      /\ \A j \in BInstance : BStreamOK(j)'
      /\ \A k \in BKey : bVersion'[k] <= bTail'
  BY <1>2, <1>3, LogKept
<1>5. /\ bPc'[e] = "done" /\ bFsm'[e] = NewIntentFsm
      /\ \A x \in BExecutor \ {e} : Same(x)
  BY <1>1, <1>2 DEF BTypeOK, Same
<1>6. bStep[e] = Len(bProgram[i])
  <2>1. bProgram[i] \in Seq(Operation)
    BY <1>1, BProgramsAssumption DEF BTypeOK
  <2>2. bStep[e] \in Nat /\ Len(bDecided[i]) \in Nat /\ Len(bProgram[i]) \in Nat
    BY <1>1, <2>1 DEF BTypeOK
  <2> QED
    BY <1>1, <2>2 DEF ToldOK, BStreamOK, BFinish, HasOp
<1>7. BPcOK(e)'
  BY <1>2, <1>5, <1>6 DEF BPcOK, bLog
<1>8. BExecutorOK(e)'
  BY <1>1, <1>2, <1>3, <1>4, <1>5, <1>7, ToldKept, NewFsmOK DEF BExecutorOK
<1> QED
  BY <1>2, <1>3, <1>4, <1>5, <1>8, StepOfOne

LEMMA DieKeeps ==
  ASSUME BInv, NEW e \in BExecutor, BDie(e)
  PROVE  BInv'
<1> DEFINE i == BInstanceOf[e]
<1>1. BTypeOK /\ BPcOK(e) /\ i \in BInstance
  BY BInstanceOfAssumption DEF BInv, BExecutorOK
<1>2. /\ bPc' = [bPc EXCEPT ![e] = "idle"]
      /\ bStep' = [bStep EXCEPT ![e] = 0]
      /\ bFsm' = [bFsm EXCEPT ![e] = NewIntentFsm]
      /\ bHeld' = [bHeld EXCEPT ![e] = NoEntry]
      /\ bTold' = [bTold EXCEPT ![e] = <<>>]
      /\ bCrashes' = bCrashes + 1
      /\ UNCHANGED <<bLog, bVersion>>
  BY DEF BDie
<1>3. \/ bPc[e] = "wait" /\ bOrphans' = bOrphans \cup {Orphan(e)}
      \/ bOrphans' = bOrphans
  BY DEF BDie
<1>4. bPc[e] = "wait" => OrphanOK(Orphan(e)) /\ Orphan(e) \in [caller : BInstance, step : Nat]
  BY <1>1, OrphanIsOK DEF BPcOK
<1>5. BTypeOK'
  <2>1. bOrphans' \in SUBSET [caller : BInstance, step : Nat]
    BY <1>1, <1>3, <1>4 DEF BTypeOK
  <2>2. NoEntry \in Held
    BY HeldEntryType DEF NoEntry, NoData
  <2>3. /\ bPc' \in [BExecutor -> BPcs] /\ bStep' \in [BExecutor -> Nat]
        /\ bFsm' \in [BExecutor -> Fsm] /\ bHeld' \in [BExecutor -> Held]
        /\ bTold' \in [BExecutor -> Seq(LogData)] /\ bCrashes' \in Nat
    BY <1>1, <1>2, <2>2, NewFsmType DEF BTypeOK, BPcs
  <2> QED
    BY <1>1, <1>2, <2>1, <2>3 DEF BTypeOK, bLog
<1>6. /\ LogGrows
      /\ \A j \in BInstance : BStreamOK(j)'
      /\ \A k \in BKey : bVersion'[k] <= bTail'
  BY <1>2, <1>5, LogKept
<1>7. /\ bPc'[e] = "idle" /\ bFsm'[e] = NewIntentFsm /\ bStep'[e] = 0 /\ bTold'[e] = <<>>
      /\ \A x \in BExecutor \ {e} : Same(x)
  BY <1>1, <1>2 DEF BTypeOK, Same
<1>8. ToldOK(e)'
  <2>1. Len(bDecided'[i]) \in Nat /\ Len(bTold'[e]) = 0
    BY <1>1, <1>5, <1>7 DEF BTypeOK
  <2> QED
    BY <1>7, <2>1 DEF ToldOK
<1>9. BPcOK(e)'
  <2>1. Len(bFsm'[e].stepLogs) = 0
    BY <1>7 DEF NewIntentFsm
  <2> QED
    BY <1>7, <2>1 DEF BPcOK
<1>10. BExecutorOK(e)'
  BY <1>5, <1>7, <1>8, <1>9, NewFsmOK DEF BExecutorOK
<1> QED
  BY <1>3, <1>4, <1>5, <1>6, <1>7, <1>10, StepOfOne
-----------------------------------------------------------------------------
LEMMA BInitHolds ==
  ASSUME BokiInit
  PROVE  BInv
<1>1. <<>> \in Seq(IntentLogEntry) /\ <<>> \in Seq(LogData) /\ Len(<<>>) = 0
  OBVIOUS
<1>2. NoEntry \in Held
  BY HeldEntryType DEF NoEntry, NoData
<1>3. BTypeOK
  BY <1>1, <1>2, NewFsmType DEF BokiInit, BTypeOK, BPcs
<1>4. ASSUME NEW i \in BInstance PROVE BStreamOK(i)
  <2>1. Len(bStream[i]) = 0 /\ Len(bDecided[i]) = 0
    BY <1>1 DEF BokiInit
  <2>2. Len(bProgram[i]) \in Nat
    BY BProgramsAssumption DEF BokiInit
  <2> QED
    BY <2>1, <2>2 DEF BStreamOK
<1>5. ASSUME NEW e \in BExecutor PROVE BExecutorOK(e)
  <2>1. /\ bPc[e] = "idle" /\ bFsm[e] = NewIntentFsm /\ bStep[e] = 0 /\ bTold[e] = <<>>
        /\ Len(bDecided[BInstanceOf[e]]) = 0 /\ Len(bStream[BInstanceOf[e]]) = 0
    BY <1>1, BInstanceOfAssumption DEF BokiInit
  <2>2. bFsm[e].applied = 0 /\ Len(bFsm[e].stepLogs) = 0 /\ bFsm[e].posts = {}
    BY <1>1, <2>1 DEF NewIntentFsm
  <2>3. ToldOK(e)
    BY <1>1, <2>1 DEF ToldOK
  <2>4. BFsmOK(e)
    BY <2>1, <2>2 DEF BFsmOK
  <2>5. BPcOK(e)
    BY <2>1, <2>2 DEF BPcOK
  <2> QED
    BY <2>3, <2>4, <2>5 DEF BExecutorOK
<1> QED
  BY <1>3, <1>4, <1>5 DEF BInv, BokiInit

LEMMA BNextKeeps ==
  ASSUME BInv, [BokiNext]_bokiVars
  PROVE  BInv'
<1>1. CASE UNCHANGED bokiVars
  <2>1. BTypeOK'
    BY <1>1 DEF BInv, BTypeOK, bokiVars
  <2>2. /\ LogGrows
        /\ \A j \in BInstance : BStreamOK(j)'
        /\ \A k \in BKey : bVersion'[k] <= bTail'
    BY <1>1, <2>1, LogKept DEF bokiVars, bLog
  <2>3. \A x \in BExecutor : Same(x)
    BY <1>1 DEF bokiVars, Same
  <2> QED
    BY <1>1, <2>1, <2>2, <2>3, StepOfSome DEF bokiVars
<1>2. CASE BokiNext
  <2>1. ASSUME NEW e \in BExecutor, BokiStep(e) PROVE BInv'
    BY <2>1, CatchNextKeeps, CallKeeps, ReplayKeeps, FetchKeeps, ProposeKeeps, ProposedKeeps,
       WriteItemKeeps, PostWriteKeeps, InvokeKeeps, LogResultKeeps, AnswerKeeps, FinishKeeps
    DEF BokiStep
  <2>2. ASSUME NEW e \in BExecutor, BDie(e) PROVE BInv'
    BY <2>2, DieKeeps
  <2>3. ASSUME NEW o \in bOrphans, OrphanLogs(o) PROVE BInv'
    BY <2>3, OrphanLogsKeeps
  <2> QED
    BY <1>2, <2>1, <2>2, <2>3 DEF BokiNext
<1> QED
  BY <1>1, <1>2

\* The inductive invariant: the first entry of each step is decided for good, nothing of
\* a later step is appended before one of the step is there, an IntentFsm holds exactly
\* the first entries of what it has applied, and what an execution was told, or a result
\* stands for, is in the table or superseded there (LibAppendLog, Catch, applyLog,
\* CondWrite of the BokiFlow library).
THEOREM BInvHolds == BokiSpec => []BInv
<1> USE DEF BokiSpec
<1>1. BokiInit => BInv
  BY BInitHolds
<1>2. BInv /\ [BokiNext]_bokiVars => BInv'
  BY BNextKeeps
<1> QED
  BY <1>1, <1>2, PTL

\* What an instance is told of a key never goes back, whoever executed which of its
\* operations (Read, CondWrite).
THEOREM SessionsAreOrdered == BokiSpec => []BokiSessionOrder
<1>1. BInv => BokiSessionOrder
  BY DEF BInv, BStreamOK, InOrder, BokiSessionOrder
<1> QED
  BY <1>1, BInvHolds, PTL

\* All executions of an instance are told the same, and no assertion of the library
\* fails on the way (ProposeNextStep, Catch, applyLog, CheckLogDataField).
THEOREM ExecutionsAgree == BokiSpec => []BokiOneOutcome
<1>1. ASSUME BInv PROVE BokiOneOutcome
  <2> SUFFICES ASSUME NEW e \in BExecutor
               PROVE  LET decided == bDecided[BInstanceOf[e]]
                      IN  /\ bPc[e] # "panic"
                          /\ Len(bTold[e]) <= Len(decided)
                          /\ \A n \in DOMAIN bTold[e] : bTold[e][n] = decided[n].data
                          /\ bPc[e] = "done" => Len(bTold[e]) = Len(bProgram[BInstanceOf[e]])
    BY DEF BokiOneOutcome
  <2>1. BTypeOK /\ ToldOK(e) /\ BPcOK(e)
    BY <1>1 DEF BInv, BExecutorOK
  <2>2. bTold[e] \in Seq(LogData) /\ DOMAIN bTold[e] = 1 .. bStep[e]
    BY <2>1 DEF BTypeOK, ToldOK
  <2> QED
    BY <2>1, <2>2 DEF ToldOK, BPcOK
<1> QED
  BY <1>1, BInvHolds, PTL

-----------------------------------------------------------------------------
(***************************************************************************)
(* Setup, for any programs that ask for what the assumptions say: what the *)
(* commands have done so far.                                              *)
(***************************************************************************)
Statuses == {"absent", "CREATING", "ACTIVE", "DELETING"}

SetupTypeOK ==
  /\ program \in DOMAIN Program
  /\ pass \in 1 .. Len(Script) + 1 /\ position \in Nat \ {0}
  /\ tables \in [TablesOf(program) -> Statuses]
  /\ DOMAIN filled = TablesOf(program)
  /\ failures \in Nat /\ panicked \in BOOLEAN

\* The n-th request of the c-th command is over.
Done(c, n) == pass > c \/ (pass = c /\ n < position)

\* As long as no request has failed, what was created is there, and what was waited for ready.
Made(r) ==
  /\ r.op = "create" => Status(r.tablename, "CREATING") \/ Status(r.tablename, "ACTIVE")
  /\ r.op = "wait active" => Status(r.tablename, "ACTIVE")

CreatedOK ==
  failures = 0 /\ pass \in {2, 3} =>
    \A n \in DOMAIN Requests(program, "create") : Done(2, n) => Made(Requests(program, "create")[n])

\* Only a request that failed made populate panic.
PanicOK == panicked => failures > 0

\* Until clean begins, what was filled is there and full.
Full(r) == Status(r.tablename, "ACTIVE") /\ r.keys \subseteq filled[r.tablename]

FilledBy(c, command) ==
  \A n \in DOMAIN Requests(program, command) :
    LET r == Requests(program, command)[n]
    IN  r.op = "populate" /\ Done(c, n) => Full(r)

FilledOK ==
  ~ panicked /\ (pass \in {2, 3} \/ (pass = 4 /\ position = 1)) =>
    FilledBy(2, "create") /\ FilledBy(3, "populate")

\* What clean has deleted is gone, or will be, or was asked for in vain.
Gone(r) ==
  /\ r.op = "delete" =>
       ~ Exists(r.tablename) \/ Status(r.tablename, "DELETING") \/ r.tablename \in undeleted
  /\ r.op = "wait deleted" => ~ Exists(r.tablename)

CleanedOK ==
  pass >= 4 =>
    \A n \in DOMAIN Requests(program, "clean") : Done(4, n) => Gone(Requests(program, "clean")[n])

SetupInv == SetupTypeOK /\ CreatedOK /\ PanicOK /\ FilledOK /\ CleanedOK

-----------------------------------------------------------------------------
\* The request that a command is at.
LEMMA RequestIs ==
  ASSUME SetupTypeOK, Busy
  PROVE  /\ pass \in {1, 2, 3, 4} /\ Command = Program[program][Script[pass]]
         /\ pass \in {1, 4} => Script[pass] = "clean"
         /\ pass = 2 => Script[pass] = "create"
         /\ pass = 3 => Script[pass] = "populate"
         /\ position \in DOMAIN Requests(program, Script[pass])
         /\ Request = Requests(program, Script[pass])[position]
<1>1. /\ pass \in {1, 2, 3, 4}
      /\ Script[1] = "clean" /\ Script[2] = "create" /\ Script[3] = "populate" /\ Script[4] = "clean"
  BY DEF Busy, Script, SetupTypeOK
<1>2. Script[pass] \in {"clean", "create", "populate"}
  BY <1>1
<1>3. Command = Program[program][Script[pass]] /\ Command.requests = Requests(program, Script[pass])
  BY DEF Command, Requests
<1>4. Requests(program, Script[pass]) \in Seq(RequestsOf(program, Script[pass]))
  BY <1>2, CommandsAssumption DEF SetupTypeOK
<1>5. position \in Nat \ {0} /\ position <= Len(Requests(program, Script[pass]))
  BY <1>3 DEF Busy, SetupTypeOK
<1>6. position \in DOMAIN Requests(program, Script[pass])
  BY <1>4, <1>5
<1> QED BY <1>1, <1>3, <1>6 DEF Request

\* What create takes care of.
LEMMA CreateIs ==
  ASSUME SetupTypeOK, NEW n \in DOMAIN Requests(program, "create")
  PROVE  LET create == Requests(program, "create")
         IN  /\ create[n].op = "wait active" =>
                  /\ \E m \in DOMAIN create :
                       m < n /\ create[m].op = "create" /\ create[m].tablename = create[n].tablename
                  /\ Program[program]["create"].again <= n
             /\ create[n].op = "populate" =>
                  \E m \in DOMAIN create :
                    m < n /\ create[m].op = "wait active" /\ create[m].tablename = create[n].tablename
             /\ Removes(create[n]) =>
                  \A m \in DOMAIN create : create[m].op = "create" => n < m
<1> USE DEF Before
<1>1. program \in DOMAIN Program
  BY DEF SetupTypeOK
<1> QED BY <1>1, CreateAssumption

\* And populate.
LEMMA PopulateIs ==
  ASSUME SetupTypeOK, NEW n \in DOMAIN Requests(program, "populate")
  PROVE  /\ Requests(program, "populate")[n].op = "populate"
         /\ \E m \in DOMAIN Requests(program, "create") :
              /\ Requests(program, "create")[m].op = "wait active"
              /\ Requests(program, "create")[m].tablename = Requests(program, "populate")[n].tablename
<1> DEFINE r == Requests(program, "populate")[n]
<1>1. program \in DOMAIN Program /\ r \in RequestsOf(program, "populate")
  BY DEF SetupTypeOK, RequestsOf
<1>2. r.op = "populate" /\ Somewhere(program, "create", "wait active", r.tablename)
  BY <1>1, PopulateAssumption
<1>3. PICK q \in RequestsOf(program, "create") : q.op = "wait active" /\ q.tablename = r.tablename
  BY <1>2 DEF Somewhere
<1>4. PICK m \in DOMAIN Requests(program, "create") : q = Requests(program, "create")[m]
  BY DEF RequestsOf
<1> QED BY <1>2, <1>3, <1>4

\* clean removes tables, populate writes, and create removes none that it has asked for.
LEMMA WhichRequest ==
  ASSUME SetupTypeOK, Busy
  PROVE  /\ pass \in {1, 4} => Removes(Request)
         /\ pass = 3 => Request.op = "populate"
         /\ pass = 2 /\ Removes(Request) =>
              \A m \in DOMAIN Requests(program, "create") :
                Requests(program, "create")[m].op = "create" => position < m
<1>1. pass \in {1, 4} => Removes(Request)
  BY RequestIs, CleanAssumption DEF SetupTypeOK
<1>2. ASSUME pass = 3 PROVE Request.op = "populate"
  <2>1. position \in DOMAIN Requests(program, "populate") /\ Request = Requests(program, "populate")[position]
    BY <1>2, RequestIs
  <2> QED BY <2>1, PopulateIs
<1>3. ASSUME pass = 2, Removes(Request)
      PROVE  \A m \in DOMAIN Requests(program, "create") :
               Requests(program, "create")[m].op = "create" => position < m
  <2>1. position \in DOMAIN Requests(program, "create") /\ Request = Requests(program, "create")[position]
    BY <1>3, RequestIs
  <2> QED BY <1>3, <2>1, CreateIs
<1> QED BY <1>1, <1>2, <1>3

\* What is waited for was created, and what is filled was waited for.
LEMMA ReadyIs ==
  ASSUME SetupTypeOK, CreatedOK, Busy, failures = 0, pass \in {2, 3}
  PROVE  /\ Request.op = "wait active" => ~ Status(Request.tablename, "DELETING")
         /\ Request.op = "populate" => Status(Request.tablename, "ACTIVE")
<1> DEFINE x == Request.tablename
           create == Requests(program, "create")
<1>1. \A n \in DOMAIN create : n \in Nat
  BY CommandsAssumption DEF SetupTypeOK
<1>2. pass = 2 => position \in DOMAIN create /\ Request = create[position]
  BY RequestIs
<1>3. ASSUME Request.op = "wait active" PROVE ~ Status(x, "DELETING")
  <2>1. pass = 2
    BY <1>3, WhichRequest
  <2>2. PICK m \in DOMAIN create : m < position /\ create[m].op = "create" /\ create[m].tablename = x
    <3>1. position \in DOMAIN create /\ create[position].op = "wait active" /\ create[position].tablename = x
      BY <1>2, <1>3, <2>1
    <3>2. create[position].op = "wait active" =>
            \E m \in DOMAIN create :
              m < position /\ create[m].op = "create" /\ create[m].tablename = create[position].tablename
      BY <3>1, CreateIs
    <3> QED BY <3>1, <3>2
  <2>3. Made(create[m])
    BY <2>1, <2>2 DEF CreatedOK, Done
  <2> QED BY <2>2, <2>3 DEF Made, Status
<1>4. ASSUME Request.op = "populate" PROVE Status(x, "ACTIVE")
  <2>1. CASE pass = 2
    <3>1. PICK m \in DOMAIN create : m < position /\ create[m].op = "wait active" /\ create[m].tablename = x
      <4>1. position \in DOMAIN create /\ create[position].op = "populate" /\ create[position].tablename = x
        BY <1>2, <1>4, <2>1
      <4>2. create[position].op = "populate" =>
              \E m \in DOMAIN create :
                m < position /\ create[m].op = "wait active" /\ create[m].tablename = create[position].tablename
        BY <4>1, CreateIs
      <4> QED BY <4>1, <4>2
    <3>2. Made(create[m])
      BY <2>1, <3>1 DEF CreatedOK, Done
    <3> QED BY <3>1, <3>2 DEF Made
  <2>2. CASE pass = 3
    <3>1. position \in DOMAIN Requests(program, "populate") /\ Request = Requests(program, "populate")[position]
      BY <2>2, RequestIs
    <3>2. PICK m \in DOMAIN create : create[m].op = "wait active" /\ create[m].tablename = x
      BY <3>1, PopulateIs
    <3>3. Done(2, m)
      BY <2>2 DEF Done
    <3>4. Made(create[m])
      BY <2>2, <3>3 DEF CreatedOK
    <3> QED BY <3>2, <3>4 DEF Made
  <2> QED BY <2>1, <2>2
<1> QED BY <1>3, <1>4

\* A command only goes on, unless it starts over, and a request that fails is counted.
LEMMA FailuresGrow ==
  ASSUME SetupTypeOK, SetupNext
  PROVE  /\ program' = program /\ failures' \in Nat /\ failures <= failures'
         /\ failures' = 0 => failures = 0
<1>1. failures' = failures \/ failures' = failures + 1
  BY DEF SetupNext, Proceed, Settle, CreateTable, DeleteTable, DeleteOutcome, WaitUntilDeleted,
         WaitUntilActive, Populate, NextCommand, Fault
<1>2. program' = program
  BY DEF SetupNext, Proceed, Settle, CreateTable, DeleteTable, WaitUntilDeleted,
         WaitUntilActive, Populate, NextCommand
<1> QED BY <1>1, <1>2 DEF SetupTypeOK

\* A table whose status is set.
LEMMA SetStatusIs ==
  ASSUME SetupTypeOK, NEW x, NEW status \in Statuses, SetStatus(x, status)
  PROVE  /\ tables' \in [TablesOf(program) -> Statuses]
         /\ \A y : y # x => /\ Exists(y)' <=> Exists(y)
                            /\ \A t : Status(y, t)' <=> Status(y, t)
         /\ x \in TablesOf(program) => Status(x, status)'
<1>1. tables' = [tables EXCEPT ![x] = status] /\ DOMAIN tables = TablesOf(program)
  BY DEF SetStatus, SetupTypeOK
<1>2. tables' \in [TablesOf(program) -> Statuses]
  BY <1>1 DEF SetupTypeOK
<1>3. DOMAIN tables' = DOMAIN tables /\ \A y \in DOMAIN tables : y # x => tables'[y] = tables[y]
  BY <1>1
<1>4. \A y : y # x => /\ Exists(y)' <=> Exists(y)
                      /\ \A t : Status(y, t)' <=> Status(y, t)
  BY <1>3 DEF Exists, Status
<1>5. x \in TablesOf(program) => Status(x, status)'
  BY <1>1 DEF Status
<1> QED BY <1>2, <1>4, <1>5

\* The types, and a command that starts over stays in the program.
LEMMA TypeKept == ASSUME SetupTypeOK, SetupNext PROVE SetupTypeOK'
<1>1. program' = program /\ failures' \in Nat /\ program' \in DOMAIN Program
  BY FailuresGrow DEF SetupTypeOK
<1>2. tables' \in [TablesOf(program) -> Statuses]
  <2>1. CASE tables' = tables
    BY <2>1 DEF SetupTypeOK
  <2>2. CASE \E x : \E t \in Statuses : SetStatus(x, t)
    BY <2>2, SetStatusIs
  <2> QED
    BY <2>1, <2>2 DEF SetupNext, Proceed, Settle, CreateTable, DeleteTable, DeleteOutcome,
                      WaitUntilDeleted, WaitUntilActive, Populate, NextCommand, Statuses
<1>3. Len(Script) = 4
  BY DEF Script
<1>4. position + 1 \in Nat \ {0} /\ 1 \in Nat \ {0} /\ (Busy => pass + 1 \in 1 .. Len(Script) + 1)
      /\ (pass <= Len(Script) => pass + 1 \in 1 .. Len(Script) + 1)
  BY <1>3 DEF SetupTypeOK, Busy
<1>5. position' \in Nat \ {0}
  <2>1. CASE WaitUntilActive
    <3>1. Command.again \in Nat
      <4>1. Busy
        BY <2>1 DEF WaitUntilActive, Asks
      <4>2. Command = Program[program][Script[pass]] /\ Script[pass] \in {"clean", "create", "populate"}
        BY <4>1, RequestIs
      <4> QED BY <4>2, CommandsAssumption DEF SetupTypeOK
    <3>2. position' = position + 1 \/ (position' = Command.again /\ Command.again # 0)
      BY <2>1 DEF WaitUntilActive
    <3> QED BY <1>4, <3>1, <3>2
  <2>2. CASE ~ WaitUntilActive
    <3>1. position' = position \/ position' = position + 1 \/ position' = 1
      BY <2>2 DEF SetupNext, Proceed, Settle, CreateTable, DeleteTable, WaitUntilDeleted, Populate, NextCommand
    <3> QED BY <1>4, <3>1 DEF SetupTypeOK
  <2> QED BY <2>1, <2>2
<1>6. pass' \in 1 .. Len(Script) + 1
  <2>1. pass' = pass \/ (pass' = pass + 1 /\ (Busy \/ pass <= Len(Script)))
    BY DEF SetupNext, Proceed, Settle, CreateTable, DeleteTable, WaitUntilDeleted, WaitUntilActive,
           Populate, Asks, NextCommand
  <2> QED BY <1>4, <2>1 DEF SetupTypeOK
<1>7. panicked' \in BOOLEAN
  BY DEF SetupNext, Proceed, Settle, CreateTable, DeleteTable, WaitUntilDeleted, WaitUntilActive,
         Populate, NextCommand, SetupTypeOK
<1>8. DOMAIN filled' = DOMAIN filled
  BY DEF SetupNext, Proceed, Settle, CreateTable, DeleteTable, DeleteOutcome, WaitUntilDeleted,
         WaitUntilActive, Populate, NextCommand
<1> QED BY <1>1, <1>2, <1>5, <1>6, <1>7, <1>8 DEF SetupTypeOK

\* What a step adds to what is over: the request that it was at.
LEMMA DoneGrows ==
  ASSUME SetupTypeOK, SetupNext, NEW c \in {2, 3, 4}, NEW command, command = Script[c],
         NEW n \in DOMAIN Requests(program, command), Done(c, n)'
  PROVE  \/ Done(c, n)
         \/ pass = c /\ n = position /\ Busy /\ position' = position + 1 /\ pass' = pass
         \/ panicked' = TRUE /\ Populate
<1>1. n \in Nat \ {0} /\ n <= Len(Requests(program, command))
  <2>1. Requests(program, command) \in Seq(RequestsOf(program, command))
    <3>1. command \in {"create", "populate", "clean"}
      BY DEF Script
    <3> QED BY <3>1, CommandsAssumption DEF SetupTypeOK
  <2> QED BY <2>1
<1>2. pass \in Nat /\ position \in Nat \ {0} /\ c \in Nat
  BY DEF SetupTypeOK
<1>3. CASE pass' = pass /\ position' = position
  BY <1>3 DEF Done
<1>4. CASE pass' = pass /\ position' = position + 1 /\ Busy
  BY <1>1, <1>2, <1>4 DEF Done
<1>5. CASE WaitUntilActive /\ position' = Command.again /\ Command.again # 0
  <2>1. Busy /\ Request.op = "wait active" /\ pass' = pass
    BY <1>5 DEF WaitUntilActive, Asks
  <2>2. pass = 2
    BY <2>1, RequestIs, WhichRequest DEF Removes
  <2>3. /\ position \in DOMAIN Requests(program, "create") /\ Request = Requests(program, "create")[position]
        /\ Command = Program[program]["create"]
    BY <2>1, <2>2, RequestIs
  <2>4. Program[program]["create"].again <= position
    BY <2>1, <2>3, CreateIs
  <2>5. Command.again \in Nat
    BY <2>3, CommandsAssumption DEF SetupTypeOK
  <2>6. position' <= position /\ position' \in Nat
    BY <1>5, <2>3, <2>4, <2>5
  <2>7. ASSUME pass = c, n < position' PROVE n < position
    BY <1>1, <1>2, <2>6, <2>7
  <2> QED BY <2>1, <2>7 DEF Done
<1>6. CASE NextCommand
  <2>1. pass' = pass + 1 /\ position' = 1 /\ position > Len(Requests(program, Script[pass]))
    BY <1>6 DEF NextCommand, Command, Requests
  <2>2. pass >= c
    BY <1>1, <1>2, <2>1 DEF Done
  <2>3. CASE pass = c
    BY <1>1, <1>2, <2>1, <2>3 DEF Done
  <2>4. CASE pass > c
    BY <2>4 DEF Done
  <2>5. pass = c \/ pass > c
    BY <1>2, <2>2
  <2> QED BY <2>3, <2>4, <2>5
<1>7. CASE Populate /\ panicked' = TRUE
  BY <1>7
<1> QED
  BY <1>3, <1>4, <1>5, <1>6, <1>7
  DEF SetupNext, Proceed, Settle, CreateTable, DeleteTable, WaitUntilDeleted, WaitUntilActive, Populate, Asks

\* populate panics when a request has failed.
LEMMA PanicKept == ASSUME SetupTypeOK, CreatedOK, PanicOK, SetupNext PROVE PanicOK'
<1>1. failures \in Nat /\ failures' \in Nat /\ failures <= failures'
  BY FailuresGrow DEF SetupTypeOK
<1>2. CASE panicked' = panicked
  BY <1>1, <1>2 DEF PanicOK
<1>3. CASE Populate /\ failures = 0
  <2>1. Busy /\ Request.op = "populate"
    BY <1>3 DEF Populate, Asks
  <2>2. pass \in {2, 3}
    BY <2>1, RequestIs, WhichRequest DEF Removes
  <2>3. Status(Request.tablename, "ACTIVE")
    BY <1>3, <2>1, <2>2, ReadyIs
  <2>4. Request \in Populates(program) /\ program \in DOMAIN Program
    BY <2>1, <2>2, RequestIs DEF Populates, RequestsOf, SetupTypeOK
  <2>5. Request.key = KeyOf(program, Request.tablename)
    BY <2>4, PopulateAssumption
  <2>6. panicked' = panicked \/ failures' = failures + 1
    BY <1>3, <2>3, <2>5 DEF Populate, Fault
  <2>7. CASE panicked' = panicked
    BY <1>2, <2>7
  <2>8. CASE failures' = failures + 1
    BY <1>3, <2>8 DEF PanicOK
  <2> QED BY <2>6, <2>7, <2>8
<1>4. CASE failures > 0
  BY <1>1, <1>4 DEF PanicOK
<1>5. panicked' = panicked \/ Populate
  BY DEF SetupNext, Proceed, Settle, CreateTable, DeleteTable, WaitUntilDeleted, WaitUntilActive, NextCommand
<1>6. failures = 0 \/ failures > 0
  BY <1>1
<1> QED BY <1>2, <1>3, <1>4, <1>5, <1>6

\* The order of the requests.
LEMMA LessIsTransitive == \A a, b, c \in Nat : a < b /\ b < c => a < c
OBVIOUS

\* A table goes or is deleted in a command only before it is created there.
LEMMA RemovesFirst ==
  ASSUME SetupTypeOK, Busy, Removes(Request), pass = 2,
         NEW n \in DOMAIN Requests(program, "create"), n < position
  PROVE  Requests(program, "create")[n].op \notin {"create", "wait active", "populate"}
<1> DEFINE create == Requests(program, "create")
<1>1. \A m \in DOMAIN create : m \in Nat
  BY CommandsAssumption DEF SetupTypeOK
<1>2. position \in Nat
  BY DEF SetupTypeOK
<1>3. \A m \in DOMAIN create : m < position => create[m].op # "create"
  BY <1>1, <1>2, WhichRequest
<1>4. \A m \in DOMAIN create : m < position => create[m].op # "wait active"
  <2> SUFFICES ASSUME NEW m \in DOMAIN create, m < position, create[m].op = "wait active" PROVE FALSE
    OBVIOUS
  <2>1. PICK k \in DOMAIN create : k < m /\ create[k].op = "create"
    BY CreateIs
  <2>2. k \in Nat /\ m \in Nat
    BY <1>1
  <2>3. k < position
    BY <1>2, <2>1, <2>2, LessIsTransitive
  <2> QED BY <1>3, <2>1, <2>3
<1>5. create[n].op # "populate"
  <2> SUFFICES ASSUME create[n].op = "populate" PROVE FALSE
    OBVIOUS
  <2>1. PICK k \in DOMAIN create : k < n /\ create[k].op = "wait active"
    BY CreateIs
  <2>2. k \in Nat /\ n \in Nat
    BY <1>1
  <2>3. k < position
    BY <1>2, <2>1, <2>2, LessIsTransitive
  <2> QED BY <1>4, <2>1, <2>3
<1> QED BY <1>3, <1>4, <1>5

\* Only a step that removes a table takes one away that is there, or being created.
LEMMA StatusStays ==
  ASSUME SetupTypeOK, SetupNext, ~ (DeleteTable \/ WaitUntilDeleted), NEW y
  PROVE  /\ Status(y, "ACTIVE") => Status(y, "ACTIVE")'
         /\ Status(y, "CREATING") => Status(y, "CREATING")' \/ Status(y, "ACTIVE")'
<1>1. CASE tables' = tables
  BY <1>1 DEF Status
<1>2. CASE Settle
  <2> PICK x : x = Request.tablename
    OBVIOUS
  <2>1. CASE Status(x, "CREATING") /\ SetStatus(x, "ACTIVE")
    <3>1. x \in TablesOf(program)
      BY <2>1 DEF Status, SetupTypeOK
    <3>2. Status(x, "ACTIVE")' /\ \A z : z # x => \A t : Status(z, t)' <=> Status(z, t)
      BY <2>1, <3>1, SetStatusIs DEF Statuses
    <3> QED BY <3>2
  <2>2. CASE Status(x, "DELETING") /\ SetStatus(x, "absent")
    <3>1. \A z : z # x => \A t : Status(z, t)' <=> Status(z, t)
      BY <2>2, SetStatusIs DEF Statuses
    <3>2. y = x => ~ Status(y, "ACTIVE") /\ ~ Status(y, "CREATING")
      BY <2>2 DEF Status
    <3> QED BY <3>1, <3>2
  <2> QED BY <1>2, <2>1, <2>2 DEF Settle
<1>3. CASE CreateTable /\ tables' # tables
  <2> PICK x : x = Request.tablename
    OBVIOUS
  <2>1. ~ Exists(x) /\ SetStatus(x, "CREATING")
    BY <1>3 DEF CreateTable
  <2>2. \A z : z # x => \A t : Status(z, t)' <=> Status(z, t)
    BY <2>1, SetStatusIs DEF Statuses
  <2>3. y = x => ~ Status(y, "ACTIVE") /\ ~ Status(y, "CREATING")
    BY <2>1 DEF Status, Exists
  <2> QED BY <2>2, <2>3
<1> QED BY <1>1, <1>2, <1>3 DEF SetupNext, Proceed, WaitUntilActive, Populate, NextCommand

\* A step that deletes is at a request to delete.
LEMMA Removing == ASSUME DeleteTable \/ WaitUntilDeleted PROVE Busy /\ Removes(Request)
BY DEF DeleteTable, WaitUntilDeleted, Asks, Removes

\* Steps that leave a command behind go on to the next.
LEMMA PassGrows ==
  ASSUME SetupTypeOK, SetupNext
  PROVE  /\ pass' = pass \/ (pass' = pass + 1 /\ position' = 1)
         /\ panicked => panicked'
<1>1. pass' = pass \/ (pass' = pass + 1 /\ position' = 1)
  BY DEF SetupNext, Proceed, Settle, CreateTable, DeleteTable, WaitUntilDeleted, WaitUntilActive,
         Populate, NextCommand
<1>2. panicked' = panicked \/ panicked' = TRUE
  BY DEF SetupNext, Proceed, Settle, CreateTable, DeleteTable, WaitUntilDeleted, WaitUntilActive,
         Populate, NextCommand
<1> QED BY <1>1, <1>2

\* The step that is taken at a request.
LEMMA StepIs ==
  ASSUME SetupTypeOK, SetupNext, Busy, position' = position + 1
  PROVE  /\ Request.op = "create" => CreateTable
         /\ Request.op = "wait active" => WaitUntilActive
         /\ Request.op = "populate" => Populate
         /\ Request.op = "delete" => DeleteTable
         /\ Request.op = "wait deleted" => WaitUntilDeleted
<1>1. ~ Settle
  <2>1. position' # position
    BY DEF SetupTypeOK
  <2> QED BY <2>1 DEF Settle
<1>2. ~ NextCommand
  <2>1. position' # 1
    BY DEF SetupTypeOK
  <2> QED BY <2>1 DEF NextCommand
<1>3. /\ CreateTable => Request.op = "create"
      /\ WaitUntilActive => Request.op = "wait active"
      /\ Populate => Request.op = "populate"
      /\ DeleteTable => Request.op = "delete"
      /\ WaitUntilDeleted => Request.op = "wait deleted"
  BY DEF CreateTable, WaitUntilActive, Populate, DeleteTable, WaitUntilDeleted, Asks
<1> QED BY <1>1, <1>2, <1>3 DEF SetupNext, Proceed

\* What was created stays, until clean: create deletes nothing that it has asked for.
LEMMA CreatedKept ==
  ASSUME SetupTypeOK, CreatedOK, PanicOK, SetupNext
  PROVE  CreatedOK'
<1> DEFINE create == Requests(program, "create")
<1>0. create' = create
  BY FailuresGrow DEF Requests
<1> SUFFICES ASSUME failures' = 0, pass' \in {2, 3}, NEW n \in DOMAIN create, Done(2, n)',
                    NEW r, r = create[n]
             PROVE  Made(r)'
  BY <1>0 DEF CreatedOK, Made
<1>1. failures = 0 /\ ~ panicked' /\ pass \in Nat /\ position \in Nat
  BY FailuresGrow, PanicKept DEF PanicOK, SetupTypeOK
<1>3. n \in Nat
  BY CommandsAssumption DEF SetupTypeOK
<1>4. CASE Done(2, n)
  <2>1. pass \in {2, 3} /\ (pass = 2 => n < position)
    BY <1>1, <1>4, PassGrows DEF Done
  <2>2. Made(r)
    BY <1>1, <1>4, <2>1 DEF CreatedOK
  <2>3. CASE DeleteTable \/ WaitUntilDeleted
    <3>1. pass = 2
      BY <2>1, <2>3, Removing, WhichRequest DEF Removes
    <3>2. r.op \notin {"create", "wait active"}
      BY <2>1, <2>3, <3>1, Removing, RemovesFirst
    <3> QED BY <3>2 DEF Made
  <2>4. CASE ~ (DeleteTable \/ WaitUntilDeleted)
    <3>1. /\ Status(r.tablename, "ACTIVE") => Status(r.tablename, "ACTIVE")'
          /\ Status(r.tablename, "CREATING") =>
               Status(r.tablename, "CREATING")' \/ Status(r.tablename, "ACTIVE")'
      BY <2>4, StatusStays
    <3> QED BY <2>2, <3>1 DEF Made
  <2> QED BY <2>3, <2>4
<1>5. CASE pass = 2 /\ n = position /\ Busy /\ position' = position + 1 /\ pass' = pass
  <2>1. Request = r
    BY <1>5, RequestIs
  <2>2. CASE Request.op = "create"
    <3> PICK x : x = r.tablename
      OBVIOUS
    <3>1. CreateTable
      BY <1>5, <2>2, StepIs
    <3>2. failures' = failures + 1 => FALSE
      BY <1>1
    <3>3. x \in TablesOf(program)
      BY <1>5, <2>1, <2>2 DEF TablesOf, Created, RequestsOf
    <3>4. CASE SetStatus(x, "CREATING")
      <4>1. Status(x, "CREATING")'
        BY <3>3, <3>4, SetStatusIs DEF Statuses
      <4> QED BY <2>1, <2>2, <4>1 DEF Made
    <3>5. CASE Exists(x) /\ ~ Status(x, "DELETING") /\ tables' = tables
      <4>1. Status(x, "CREATING") \/ Status(x, "ACTIVE")
        BY <3>5 DEF Exists, Status, SetupTypeOK, Statuses
      <4>2. Status(x, "CREATING")' \/ Status(x, "ACTIVE")'
        BY <3>5, <4>1 DEF Status
      <4> QED BY <2>1, <2>2, <4>2 DEF Made
    <3> QED BY <2>1, <3>1, <3>2, <3>4, <3>5 DEF CreateTable, Fault
  <2>3. CASE Request.op = "wait active"
    <3> PICK x : x = r.tablename
      OBVIOUS
    <3>1. WaitUntilActive
      BY <1>5, <2>3, StepIs
    <3>2. ~ Status(x, "DELETING")
      BY <1>1, <1>5, <2>1, <2>3, ReadyIs
    <3>3. Status(x, "ACTIVE") /\ tables' = tables
      BY <2>1, <3>1, <3>2 DEF WaitUntilActive
    <3>4. Status(x, "ACTIVE")'
      BY <3>3 DEF Status
    <3> QED BY <2>1, <2>3, <3>4 DEF Made
  <2>4. CASE Request.op \notin {"create", "wait active"}
    BY <2>1, <2>4 DEF Made
  <2> QED BY <2>2, <2>3, <2>4
<1>6. Script[2] = "create"
  BY DEF Script
<1> QED BY <1>1, <1>4, <1>5, <1>6, DoneGrows

\* What was filled stays full.
LEMMA FilledKept ==
  ASSUME SetupTypeOK, FilledOK, SetupNext
  PROVE  FilledOK'
<1> SUFFICES ASSUME ~ panicked', pass' \in {2, 3} \/ (pass' = 4 /\ position' = 1),
                    NEW c \in {2, 3}, NEW command, command = Script[c],
                    NEW n \in DOMAIN Requests(program, command), Done(c, n)',
                    NEW r, r = Requests(program, command)[n], r.op = "populate"
             PROVE  Full(r)'
  <2>1. Script[2] = "create" /\ Script[3] = "populate"
    BY DEF Script
  <2>2. Requests(program, "create")' = Requests(program, "create")
        /\ Requests(program, "populate")' = Requests(program, "populate")
    BY FailuresGrow DEF Requests
  <2> QED BY <2>1, <2>2 DEF FilledOK, FilledBy, Full
<1>1. ~ panicked /\ pass \in Nat /\ position \in Nat \ {0}
  BY PassGrows DEF SetupTypeOK
<1>2. command \in {"create", "populate"} /\ (c = 2 => command = "create") /\ (c = 3 => command = "populate")
  BY DEF Script
<1>3. n \in Nat
  BY <1>2, CommandsAssumption DEF SetupTypeOK
<1>4. CASE Done(c, n)
  <2>1. pass >= 2 /\ (pass = c => n < position)
    BY <1>1, <1>4 DEF Done
  <2>2. CASE DeleteTable \/ WaitUntilDeleted
    <3>1. Busy /\ Removes(Request)
      BY <2>2, Removing
    <3>2. pass' = pass /\ (position' = position \/ position' = position + 1)
      BY <2>2 DEF DeleteTable, WaitUntilDeleted
    <3>3. pass = 2 \/ pass = 4
      <4>1. pass # 3 /\ pass \in {1, 2, 3, 4}
        BY <3>1, RequestIs, WhichRequest DEF Removes
      <4> QED BY <2>1, <4>1
    <3>4. pass # 2
      <4> SUFFICES ASSUME pass = 2 PROVE FALSE
        OBVIOUS
      <4>1. c = 2 /\ n < position
        BY <1>4, <2>1 DEF Done
      <4> QED BY <1>2, <3>1, <4>1, RemovesFirst
    <3>5. pass = 4 /\ position = 1 /\ position' = 1
      BY <1>1, <3>2, <3>3, <3>4
    <3>6. WaitUntilDeleted /\ Request.op = "wait deleted"
      <4>1. position' # position + 1
        BY <3>5
      <4> QED BY <2>2, <4>1 DEF DeleteTable, WaitUntilDeleted, Asks
    <3>7. 1 \in DOMAIN Requests(program, "clean") /\ Requests(program, "clean")[1].op = "wait deleted"
      BY <3>1, <3>5, <3>6, RequestIs
    <3>8. Before(program, "clean", 1, "delete", Requests(program, "clean")[1].tablename)
      BY <3>7, CleanAssumption DEF SetupTypeOK
    <3>9. DOMAIN Requests(program, "clean") \subseteq Nat \ {0}
      BY CommandsAssumption DEF SetupTypeOK
    <3> QED BY <3>8, <3>9 DEF Before
  <2>3. CASE ~ (DeleteTable \/ WaitUntilDeleted)
    <3>1. \A x \in TablesOf(program) : filled[x] \subseteq filled'[x]
      BY <2>3 DEF SetupNext, Proceed, Settle, CreateTable, WaitUntilActive, Populate, NextCommand, SetupTypeOK
    <3>2. pass \in {2, 3} \/ (pass = 4 /\ position = 1)
      <4>1. CASE pass' \in {2, 3}
        BY <1>1, <2>1, <4>1, PassGrows
      <4>2. CASE pass' = 4 /\ position' = 1 /\ pass = 4
        <5>1. ~ (CreateTable \/ WaitUntilActive \/ Populate)
          BY <4>2, WhichRequest DEF CreateTable, WaitUntilActive, Populate, Asks, Removes
        <5>2. ~ NextCommand
          BY <4>2 DEF NextCommand
        <5>3. Settle
          BY <2>3, <5>1, <5>2 DEF SetupNext, Proceed
        <5> QED BY <4>2, <5>3 DEF Settle
      <4>3. CASE pass' = 4 /\ pass # 4
        <5>1. pass = 3
          BY <1>1, <4>3, PassGrows
        <5> QED BY <5>1
      <4> QED BY <4>1, <4>2, <4>3
    <3>3. Full(r)
      BY <1>1, <1>2, <1>4, <3>2 DEF FilledOK, FilledBy
    <3>4. Status(r.tablename, "ACTIVE")'
      BY <2>3, <3>3, StatusStays DEF Full
    <3>5. r.tablename \in TablesOf(program)
      BY <3>3 DEF Full, Status, SetupTypeOK
    <3> QED BY <3>1, <3>3, <3>4, <3>5 DEF Full
  <2> QED BY <2>2, <2>3
<1>5. CASE pass = c /\ n = position /\ Busy /\ position' = position + 1 /\ pass' = pass
  <2>1. Request = r
    BY <1>2, <1>5, RequestIs
  <2>2. Populate
    BY <1>5, <2>1, StepIs
  <2> PICK x : x = r.tablename
    OBVIOUS
  <2>3. /\ Status(x, "ACTIVE") /\ tables' = tables
        /\ filled' = [filled EXCEPT ![x] = @ \cup r.keys]
    BY <1>1, <2>1, <2>2 DEF Populate
  <2>4. x \in DOMAIN filled
    BY <2>3 DEF Status, SetupTypeOK
  <2>5. Status(x, "ACTIVE")' /\ r.keys \subseteq filled'[x]
    BY <2>3, <2>4 DEF Status
  <2> QED BY <2>5 DEF Full
<1> QED BY <1>4, <1>5, DoneGrows

\* What a request of clean does, it does not undo.
LEMMA GoneStays ==
  ASSUME SetupTypeOK, NEW r, Gone(r),
         \/ Settle
         \/ DeleteOutcome(Request.tablename)
         \/ UNCHANGED <<tables, undeleted>>
  PROVE  Gone(r)'
<1> PICK x : x = Request.tablename
  OBVIOUS
<1> PICK y : y = r.tablename
  OBVIOUS
<1>1. /\ r.op = "delete" => ~ Exists(y) \/ Status(y, "DELETING") \/ y \in undeleted
      /\ r.op = "wait deleted" => ~ Exists(y)
  BY DEF Gone
<1>2. SUFFICES /\ r.op = "delete" => ~ Exists(y)' \/ Status(y, "DELETING")' \/ y \in undeleted'
               /\ r.op = "wait deleted" => ~ Exists(y)'
  BY DEF Gone
<1>3. CASE tables' = tables /\ undeleted \subseteq undeleted'
  <2>1. (Exists(y)' <=> Exists(y)) /\ (Status(y, "DELETING")' <=> Status(y, "DELETING"))
    BY <1>3 DEF Exists, Status
  <2> QED BY <1>1, <1>3, <2>1
<1>4. ASSUME NEW status \in Statuses, NEW old \in {"CREATING", "DELETING", "ACTIVE"}, Status(x, old), SetStatus(x, status),
             \/ old = "CREATING" /\ status = "ACTIVE" /\ undeleted' = undeleted
             \/ old = "DELETING" /\ status = "absent" /\ undeleted' = undeleted
             \/ old = "ACTIVE" /\ status = "DELETING" /\ undeleted' = undeleted \ {x}
      PROVE  /\ r.op = "delete" => ~ Exists(y)' \/ Status(y, "DELETING")' \/ y \in undeleted'
             /\ r.op = "wait deleted" => ~ Exists(y)'
  <2>1. x \in TablesOf(program) /\ Exists(x)
    BY <1>4 DEF Status, Exists, SetupTypeOK
  <2>2. /\ \A z : z # x => /\ Exists(z)' <=> Exists(z)
                          /\ \A t : Status(z, t)' <=> Status(z, t)
        /\ Status(x, status)'
    BY <1>4, <2>1, SetStatusIs
  <2>3. CASE y # x
    <3>1. (Exists(y)' <=> Exists(y)) /\ (Status(y, "DELETING")' <=> Status(y, "DELETING"))
      BY <2>2, <2>3
    <3>2. y \in undeleted => y \in undeleted'
      BY <1>4, <2>3
    <3> QED BY <1>1, <3>1, <3>2
  <2>4. CASE y = x
    <3>1. r.op # "wait deleted"
      BY <1>1, <2>1, <2>4
    <3>2. CASE status = "ACTIVE"
      <4>1. ~ Status(x, "DELETING") /\ undeleted' = undeleted
        BY <1>4, <3>2 DEF Status
      <4> QED BY <1>1, <2>1, <2>4, <3>1, <4>1
    <3>3. CASE status = "absent"
      <4>1. ~ Exists(x)'
        BY <2>2, <3>3 DEF Exists, Status
      <4> QED BY <2>4, <3>1, <4>1
    <3>4. CASE status = "DELETING"
      BY <2>2, <2>4, <3>1, <3>4
    <3> QED BY <1>4, <3>2, <3>3, <3>4
  <2> QED BY <2>3, <2>4
<1>5. CASE Settle
  <2>1. undeleted' = undeleted
    BY <1>5 DEF Settle
  <2>2. \/ Status(x, "CREATING") /\ SetStatus(x, "ACTIVE")
        \/ Status(x, "DELETING") /\ SetStatus(x, "absent")
    BY <1>5 DEF Settle
  <2> QED BY <1>4, <2>1, <2>2 DEF Statuses
<1>6. CASE DeleteOutcome(x)
  <2>1. \/ Status(x, "ACTIVE") /\ SetStatus(x, "DELETING") /\ undeleted' = undeleted \ {x}
        \/ tables' = tables /\ undeleted \subseteq undeleted'
    BY <1>6 DEF DeleteOutcome
  <2> QED BY <1>3, <1>4, <2>1 DEF Statuses
<1> QED BY <1>3, <1>5, <1>6

\* What clean has removed stays away.
LEMMA CleanedKept ==
  ASSUME SetupTypeOK, CleanedOK, SetupNext
  PROVE  CleanedOK'
<1> DEFINE clean == Requests(program, "clean")
<1>0. clean' = clean
  BY FailuresGrow DEF Requests
<1> SUFFICES ASSUME pass' >= 4, NEW n \in DOMAIN clean, Done(4, n)', NEW r, r = clean[n]
             PROVE  Gone(r)'
  BY <1>0 DEF CleanedOK, Gone
<1>1. pass \in 1 .. 5 /\ position \in Nat \ {0} /\ Len(Script) = 4 /\ Script[4] = "clean"
  BY DEF SetupTypeOK, Script
<1>2. n \in Nat \ {0}
  BY CommandsAssumption DEF SetupTypeOK
<1>3. ASSUME Busy, pass = 4 PROVE ~ (CreateTable \/ WaitUntilActive \/ Populate)
  BY <1>3, WhichRequest DEF CreateTable, WaitUntilActive, Populate, Asks, Removes
<1>4. Done(4, n) \/ (pass = 4 /\ n = position /\ Busy /\ position' = position + 1)
  <2>1. ~ (panicked' = TRUE /\ Populate)
    <3> SUFFICES ASSUME Populate PROVE FALSE
      OBVIOUS
    <3>1. Busy /\ pass <= 4
      BY <1>1 DEF Populate, Asks, Busy
    <3>2. pass # 4
      BY <1>3, <3>1
    <3>3. pass' = 4 /\ position' = 1
      BY <1>1, <3>1, <3>2, PassGrows
    <3> QED BY <1>2, <3>3 DEF Done
  <2> QED BY <1>1, <2>1, DoneGrows
<1>5. CASE Done(4, n)
  <2>1. pass >= 4 /\ Gone(r)
    BY <1>1, <1>5 DEF CleanedOK, Done
  <2>2. ~ (CreateTable \/ WaitUntilActive \/ Populate)
    <3>1. Busy => pass = 4
      BY <1>1, <2>1 DEF Busy
    <3> QED BY <1>3, <3>1 DEF CreateTable, WaitUntilActive, Populate, Asks
  <2>3. \/ Settle
        \/ DeleteOutcome(Request.tablename)
        \/ UNCHANGED <<tables, undeleted>>
    BY <2>2 DEF SetupNext, Proceed, DeleteTable, WaitUntilDeleted, NextCommand
  <2> QED BY <2>1, <2>3, GoneStays
<1>6. CASE pass = 4 /\ n = position /\ Busy /\ position' = position + 1
  <2> PICK x : x = r.tablename
    OBVIOUS
  <2>1. Request = r /\ Removes(r)
    BY <1>6, RequestIs, WhichRequest
  <2>2. CASE r.op = "delete"
    <3>1. DeleteOutcome(x)
      BY <1>6, <2>1, <2>2, StepIs DEF DeleteTable
    <3>2. CASE Status(x, "ACTIVE") /\ SetStatus(x, "DELETING")
      <4>1. x \in TablesOf(program)
        BY <3>2 DEF Status, SetupTypeOK
      <4>2. Status(x, "DELETING")'
        BY <3>2, <4>1, SetStatusIs DEF Statuses
      <4> QED BY <2>2, <4>2 DEF Gone
    <3>3. CASE undeleted' = undeleted \cup {x}
      BY <2>2, <3>3 DEF Gone
    <3>4. CASE (~ Exists(x) \/ Status(x, "DELETING")) /\ tables' = tables
      <4>1. ~ Exists(x)' \/ Status(x, "DELETING")'
        BY <3>4 DEF Exists, Status
      <4> QED BY <2>2, <4>1 DEF Gone
    <3> QED BY <3>1, <3>2, <3>3, <3>4 DEF DeleteOutcome
  <2>3. CASE r.op = "wait deleted"
    <3>1. WaitUntilDeleted
      BY <1>6, <2>1, <2>3, StepIs
    <3>2. position' # position
      BY <1>1, <1>6
    <3>3. ~ Exists(x) /\ tables' = tables
      BY <2>1, <3>1, <3>2 DEF WaitUntilDeleted
    <3>4. ~ Exists(x)'
      BY <3>3 DEF Exists
    <3> QED BY <2>3, <3>4 DEF Gone
  <2> QED BY <2>1, <2>2, <2>3 DEF Removes
<1> QED BY <1>4, <1>5, <1>6

-----------------------------------------------------------------------------
\* The invariant holds at first, and after every step.
LEMMA SetupInitInv == SetupInit => SetupInv
<1> SUFFICES ASSUME SetupInit PROVE SetupInv
  OBVIOUS
<1>1. /\ program \in DOMAIN Program /\ pass \in {1, 2} /\ position = 1
      /\ panicked = FALSE /\ failures = 0
      /\ tables \in {NoTables(program), OldTables(program)}
  BY DEF SetupInit
<1>2. SetupTypeOK
  <2>1. Len(Script) = 4
    BY DEF Script
  <2>2. tables \in [TablesOf(program) -> Statuses] /\ DOMAIN filled = TablesOf(program)
    BY <1>1 DEF NoTables, OldTables, Statuses, SetupInit
  <2>3. pass \in 1 .. Len(Script) + 1 /\ position \in Nat \ {0} /\ failures \in Nat
    BY <1>1, <2>1
  <2> QED BY <1>1, <2>2, <2>3 DEF SetupTypeOK
<1>3. \A n \in DOMAIN Requests(program, "create") \cup DOMAIN Requests(program, "populate") : n \in Nat \ {0}
  BY <1>1, CommandsAssumption
<1>4. /\ \A n \in DOMAIN Requests(program, "create") : ~ Done(2, n)
      /\ \A n \in DOMAIN Requests(program, "populate") : ~ Done(3, n)
  BY <1>1, <1>3 DEF Done
<1>5. CreatedOK /\ PanicOK /\ FilledOK /\ CleanedOK
  BY <1>1, <1>4 DEF CreatedOK, PanicOK, FilledOK, FilledBy, CleanedOK
<1> QED BY <1>2, <1>5 DEF SetupInv

LEMMA SetupInvKept == SetupInv /\ [SetupNext]_setupVars => SetupInv'
<1> SUFFICES ASSUME SetupInv, [SetupNext]_setupVars PROVE SetupInv'
  OBVIOUS
<1>1. CASE SetupNext
  BY <1>1, TypeKept, CreatedKept, PanicKept, FilledKept, CleanedKept DEF SetupInv
<1>2. CASE UNCHANGED setupVars
  <2>1. SetupTypeOK' /\ PanicOK'
    BY <1>2 DEF SetupInv, SetupTypeOK, PanicOK, setupVars
  <2>2. CreatedOK'
    BY <1>2 DEF SetupInv, CreatedOK, setupVars, Requests, Done, Made, Status
  <2>3. FilledOK'
    BY <1>2 DEF SetupInv, FilledOK, FilledBy, Full, setupVars, Requests, Done, Status
  <2>4. CleanedOK'
    BY <1>2 DEF SetupInv, CleanedOK, setupVars, Requests, Done, Gone, Exists, Status
  <2> QED BY <2>1, <2>2, <2>3, <2>4 DEF SetupInv
<1> QED BY <1>1, <1>2

(***************************************************************************)
(* The inductive invariant of the set-up: what the requests that are over  *)
(* have done to their tables (utility.go, the mains of the init programs). *)
(***************************************************************************)
THEOREM SetupInvHolds == SetupSpec => []SetupInv
<1>1. SetupInit => SetupInv
  BY SetupInitInv
<1>2. SetupInv /\ [SetupNext]_setupVars => SetupInv'
  BY SetupInvKept
<1> QED BY <1>1, <1>2, PTL DEF SetupSpec

\* Every table of the program was deleted by a request of clean, and waited for if clean waits.
LEMMA CleanedUp == SetupInv => CleanLeavesNothing
<1> SUFFICES ASSUME SetupInv, pass > Len(Script), NEW x \in DOMAIN tables \ Unnamed, Exists(x)
             PROVE  ~ Waits(program) /\ (Status(x, "DELETING") \/ x \in undeleted)
  BY DEF CleanLeavesNothing
<1> DEFINE clean == Requests(program, "clean")
<1>1. program \in DOMAIN Program /\ x \in TablesOf(program) \ Unnamed /\ pass > 4
  BY DEF SetupInv, SetupTypeOK, Script
<1>2. \A n \in DOMAIN clean : Gone(clean[n])
  BY <1>1 DEF SetupInv, CleanedOK, Done, SetupTypeOK
<1>3. Somewhere(program, "clean", "delete", x) /\ (Waits(program) => Somewhere(program, "clean", "wait deleted", x))
  BY <1>1, CleanAssumption
<1>4. PICK n \in DOMAIN clean : clean[n].op = "delete" /\ clean[n].tablename = x
  BY <1>3 DEF Somewhere, RequestsOf
<1>5. Status(x, "DELETING") \/ x \in undeleted
  BY <1>2, <1>4 DEF Gone
<1>6. ~ Waits(program)
  <2> SUFFICES ASSUME Waits(program) PROVE FALSE
    OBVIOUS
  <2>1. PICK m \in DOMAIN clean : clean[m].op = "wait deleted" /\ clean[m].tablename = x
    BY <1>3 DEF Somewhere, RequestsOf
  <2> QED BY <1>2, <2>1 DEF Gone
<1> QED BY <1>5, <1>6

\* Every LibWrite is one of a request of create or of populate, which are over.
LEMMA Populated == SetupInv => PopulateIsComplete
<1> SUFFICES ASSUME SetupInv PROVE PopulateIsComplete
  OBVIOUS
<1>1. panicked => failures > 0
  BY DEF SetupInv, PanicOK
<1>2. ASSUME AtWorkload, ~ panicked, NEW r \in Populates(program) PROVE Full(r)
  <2>1. FilledBy(2, "create") /\ FilledBy(3, "populate")
    BY <1>2 DEF SetupInv, FilledOK, AtWorkload
  <2>2. r \in RequestsOf(program, "create") \cup RequestsOf(program, "populate") /\ r.op = "populate"
    BY DEF Populates
  <2>3. CASE r \in RequestsOf(program, "create")
    <3>1. PICK n \in DOMAIN Requests(program, "create") : r = Requests(program, "create")[n]
      BY <2>3 DEF RequestsOf
    <3> QED BY <1>2, <2>1, <2>2, <3>1 DEF FilledBy, Done, AtWorkload
  <2>4. CASE r \in RequestsOf(program, "populate")
    <3>1. PICK n \in DOMAIN Requests(program, "populate") : r = Requests(program, "populate")[n]
      BY <2>4 DEF RequestsOf
    <3> QED BY <1>2, <2>1, <2>2, <3>1 DEF FilledBy, Done, AtWorkload
  <2> QED BY <2>2, <2>3, <2>4
<1> QED BY <1>1, <1>2 DEF PopulateIsComplete, Full

(***************************************************************************)
(* What create created, the clean after the workload takes away, but for   *)
(* what was refused to a program that does not wait (DeleteTable drops its *)
(* error, WaitUntilDeleted deletes again), however many requests fail.     *)
(***************************************************************************)
THEOREM TablesAreRemoved == SetupSpec => []CleanLeavesNothing
<1> QED BY SetupInvHolds, CleanedUp, PTL

(***************************************************************************)
(* Every table that a program fills is there and holds all that was        *)
(* written, when the workload begins, and populate panics (CHECK) only     *)
(* when a request has failed: nothing that an earlier run has left, and no *)
(* order of the answers of DynamoDB, takes rows away or makes it panic.    *)
(***************************************************************************)
THEOREM TablesAreFilled == SetupSpec => []PopulateIsComplete
<1> QED BY SetupInvHolds, Populated, PTL
=============================================================================
