--------------------------- MODULE BeldiDAAL_proofs ---------------------------
(***************************************************************************)
(* Proofs about BeldiDAAL: a write takes effect once, the last row has the *)
(* value of the last write, a read has one result, and a row says of one   *)
(* instance only that it holds the lock.  For any number of instances,     *)
(* executions, crashes and rows, any operations, and rows of any size.     *)
(*                                                                         *)
(* The rows are a list, whatever executions and the collector do to it     *)
(* (Shape).  Then what is written in the rows can be found from any row    *)
(* that somebody is on (LogsInv), their values do not go back (ValuesOK),  *)
(* and what a read was told is not older than what came before it          *)
(* (ReadsInv).                                                             *)
(***************************************************************************)
EXTENDS BeldiDAAL, Integers, FiniteSetTheorems, TLAPS

(***************************************************************************)
(* BeldiDAAL: the rows that NEXT leads to, in any table rs.                *)
(***************************************************************************)
NextsOK(rs) ==
  DOMAIN rs \subseteq RowId /\ \A q \in DOMAIN rs : rs[q].next \in RowId \cup {NoRow}

\* A row that has no next one.
IsEnd(rs, r) == r \in DOMAIN rs => rs[r].next = NoRow

\* The numbers of rows.
LEMMA RowIds == HEAD \in RowId /\ NoRow \notin RowId /\ IsFiniteSet(RowId) /\ RowId \subseteq Nat
<1>1. MaxRow \in Nat /\ MaxRow + 1 \notin 0 .. MaxRow /\ 0 \in 0 .. MaxRow
  BY MaxRowAssumption
<1>2. IsFiniteSet(0 .. MaxRow)
  BY <1>1, FS_Interval
<1> QED BY <1>1, <1>2 DEF RowId, NoRow, HEAD

\* A walk has its first row, is within the rows, and within every set it cannot leave.
LEMMA FromSelf == ASSUME NEW rs, NEW r \in RowId PROVE r \in RowsFrom(rs, r)
BY DEF RowsFrom

LEMMA FromIds == ASSUME NEW rs, NEW r PROVE RowsFrom(rs, r) \subseteq RowId
BY DEF RowsFrom

LEMMA FromLeast ==
  ASSUME NEW rs, NEW r, NEW S \in SUBSET RowId, r \in S, ClosedRows(rs, S)
  PROVE  RowsFrom(rs, r) \subseteq S
BY DEF RowsFrom

\* It goes on as long as there is a next row.
LEMMA FromClosed ==
  ASSUME NEW rs, NextsOK(rs), NEW r PROVE ClosedRows(rs, RowsFrom(rs, r))
<1> SUFFICES ASSUME NEW q \in RowsFrom(rs, r), q \in DOMAIN rs, rs[q].next # NoRow,
                    NEW S \in SUBSET RowId, r \in S, ClosedRows(rs, S)
             PROVE  rs[q].next \in S
    BY DEF ClosedRows, RowsFrom, NextsOK
<1>1. q \in S
  BY DEF RowsFrom
<1> QED BY <1>1 DEF ClosedRows

LEMMA FromWithin ==
  ASSUME NEW rs, NextsOK(rs), NEW r, NEW q \in RowsFrom(rs, r)
  PROVE  RowsFrom(rs, q) \subseteq RowsFrom(rs, r)
BY FromClosed, FromLeast, FromIds

\* It is over at a row that has no next one.
LEMMA FromEnd ==
  ASSUME NEW rs, NEW r \in RowId, IsEnd(rs, r) PROVE RowsFrom(rs, r) = {r}
<1>1. ClosedRows(rs, {r})
  BY DEF ClosedRows, IsEnd
<1> QED BY <1>1, FromLeast, FromSelf

\* Otherwise it goes on from the next row.
LEMMA FromStep ==
  ASSUME NEW rs, NextsOK(rs), NEW r \in DOMAIN rs, rs[r].next # NoRow
  PROVE  RowsFrom(rs, r) = {r} \cup RowsFrom(rs, rs[r].next)
<1>1. r \in RowId /\ rs[r].next \in RowId
  BY DEF NextsOK
<1>2. PICK n \in RowId : n = rs[r].next
  BY <1>1
<1>3. n \in RowsFrom(rs, r)
  BY <1>1, <1>2, FromSelf, FromClosed DEF ClosedRows
<1>4. ClosedRows(rs, {r} \cup RowsFrom(rs, n))
  BY <1>2, FromClosed, FromSelf DEF ClosedRows
<1>5. RowsFrom(rs, r) \subseteq {r} \cup RowsFrom(rs, n)
  BY <1>1, <1>4, FromLeast, FromIds
<1> QED BY <1>1, <1>2, <1>3, <1>5, FromWithin, FromSelf

\* The end of a walk is the end of the walk from each of its rows, and the only one.
LEMMA FromMeets ==
  ASSUME NEW rs, NextsOK(rs), NEW r \in RowId, NEW t \in RowsFrom(rs, r), IsEnd(rs, t),
         NEW q \in RowsFrom(rs, r)
  PROVE  t \in RowsFrom(rs, q)
<1> DEFINE S == {x \in RowsFrom(rs, r) : t \in RowsFrom(rs, x)}
<1>1. r \in S /\ S \in SUBSET RowId
  BY FromSelf, FromIds
<1>2. ClosedRows(rs, S)
  <2> SUFFICES ASSUME NEW x \in S, x \in DOMAIN rs, rs[x].next # NoRow
               PROVE  rs[x].next \in S
      BY DEF ClosedRows
  <2>1. rs[x].next \in RowsFrom(rs, r)
    BY FromClosed DEF ClosedRows
  <2>2. x # t /\ t \in RowsFrom(rs, x)
    BY DEF IsEnd
  <2>3. t \in RowsFrom(rs, rs[x].next)
    BY <2>2, FromStep
  <2> QED BY <2>1, <2>3
<1>3. RowsFrom(rs, r) \subseteq S
  BY <1>1, <1>2, FromLeast
<1> QED BY <1>3

LEMMA FromOneEnd ==
  ASSUME NEW rs, NextsOK(rs), NEW r \in RowId,
         NEW t \in RowsFrom(rs, r), IsEnd(rs, t), NEW u \in RowsFrom(rs, r), IsEnd(rs, u)
  PROVE  t = u
<1>1. t \in RowsFrom(rs, u) /\ u \in RowId
  BY FromMeets, FromIds
<1> QED BY <1>1, FromEnd

LEMMA FromClosedIn ==
  ASSUME NEW rs, NEW rt, NEW r \in RowId, NEW S \in SUBSET RowId, r \in S, ClosedRows(rs, S),
         \A q \in S : /\ q \in DOMAIN rs <=> q \in DOMAIN rt
                      /\ q \in DOMAIN rs => rs[q].next = rt[q].next
  PROVE  RowsFrom(rt, r) \subseteq S /\ RowsFrom(rs, r) \subseteq S
<1>1. ClosedRows(rt, S)
  BY DEF ClosedRows
<1> QED BY <1>1, FromLeast

\* A walk is the same in two tables that agree on its rows.
LEMMA FromSame ==
  ASSUME NEW rs, NEW rt, NextsOK(rs), NextsOK(rt), NEW r \in RowId,
         \A q \in RowsFrom(rs, r) : /\ q \in DOMAIN rs <=> q \in DOMAIN rt
                                    /\ q \in DOMAIN rs => rs[q].next = rt[q].next
  PROVE  RowsFrom(rt, r) = RowsFrom(rs, r)
<1>1. RowsFrom(rt, r) \subseteq RowsFrom(rs, r)
  BY FromClosedIn, FromClosed, FromSelf, FromIds
<1>2. \A q \in RowsFrom(rt, r) : /\ q \in DOMAIN rt <=> q \in DOMAIN rs
                                 /\ q \in DOMAIN rt => rt[q].next = rs[q].next
  BY <1>1
<1>3. RowsFrom(rs, r) \subseteq RowsFrom(rt, r)
  BY <1>2, FromClosedIn, FromClosed, FromSelf, FromIds
<1> QED BY <1>1, <1>3

(***************************************************************************)
(* The list: what HEAD leads to is there and has an end, no two of its     *)
(* rows have one next row, and none leads back to HEAD.                    *)
(***************************************************************************)
LastOf(rs, t) == t \in RowsFrom(rs, HEAD) /\ t \in DOMAIN rs /\ rs[t].next = NoRow

\* From r on one gets to the end of the list, also if r was unlinked.
PathOK(rs, r) ==
  RowsFrom(rs, r) \subseteq DOMAIN rs /\ \E t \in RowsFrom(rs, r) : LastOf(rs, t)

ListOK(rs) ==
  /\ NextsOK(rs)
  /\ DOMAIN rs # {} => HEAD \in DOMAIN rs
  /\ HEAD \in DOMAIN rs =>
       /\ PathOK(rs, HEAD)
       /\ \A p, q \in RowsFrom(rs, HEAD) : rs[p].next = rs[q].next /\ rs[p].next # NoRow => p = q
       /\ \A p \in RowsFrom(rs, HEAD) : rs[p].next # HEAD

\* There is one last row, and every path to it ends there.
LEMMA OneLast ==
  ASSUME NEW rs, ListOK(rs), NEW t, LastOf(rs, t), NEW u, LastOf(rs, u) PROVE t = u
BY FromOneEnd, RowIds DEF LastOf, ListOK, IsEnd

LEMMA PathEnds ==
  ASSUME NEW rs, ListOK(rs), NEW r \in RowId, PathOK(rs, r),
         NEW t \in RowsFrom(rs, r), rs[t].next = NoRow
  PROVE  LastOf(rs, t)
<1>1. PICK u \in RowsFrom(rs, r) : LastOf(rs, u)
  BY DEF PathOK
<1>2. t = u
  BY <1>1, FromOneEnd DEF LastOf, ListOK, IsEnd
<1> QED BY <1>1, <1>2

LEMMA PathOfLast ==
  ASSUME NEW rs, NEW t, LastOf(rs, t) PROVE PathOK(rs, t) /\ RowsFrom(rs, t) = {t} /\ t \in RowId
<1>1. t \in RowId /\ IsEnd(rs, t) /\ t \in DOMAIN rs
  BY FromIds DEF LastOf, IsEnd
<1>2. RowsFrom(rs, t) = {t}
  BY <1>1, FromEnd
<1> QED BY <1>1, <1>2 DEF PathOK

\* The path of the next row is the rest of this one.
LEMMA PathOfNext ==
  ASSUME NEW rs, ListOK(rs), NEW r \in RowId, PathOK(rs, r), rs[r].next # NoRow
  PROVE  /\ r \in DOMAIN rs /\ rs[r].next \in RowId
         /\ PathOK(rs, rs[r].next)
         /\ RowsFrom(rs, r) = {r} \cup RowsFrom(rs, rs[r].next)
<1>1. r \in DOMAIN rs /\ rs[r].next \in RowId
  BY FromSelf DEF PathOK, ListOK, NextsOK
<1>2. RowsFrom(rs, r) = {r} \cup RowsFrom(rs, rs[r].next)
  BY <1>1, FromStep DEF ListOK
<1>3. PICK t \in RowsFrom(rs, r) : LastOf(rs, t)
  BY DEF PathOK
<1>4. t \in RowsFrom(rs, rs[r].next)
  BY <1>2, <1>3 DEF LastOf
<1> QED BY <1>1, <1>2, <1>3, <1>4 DEF PathOK

\* A list begins with HEAD and has a last row.
LEMMA HeadFirst ==
  ASSUME NEW rs, ListOK(rs), HEAD \in DOMAIN rs
  PROVE  /\ HEAD \in RowsFrom(rs, HEAD) /\ RowsFrom(rs, HEAD) \subseteq DOMAIN rs
         /\ \E t \in RowId : LastOf(rs, t)
BY RowIds, FromSelf, FromIds DEF ListOK, PathOK

\* A table in which no NEXT changes.
SameNexts(rs, rt) ==
  DOMAIN rt = DOMAIN rs /\ \A q \in DOMAIN rs : rt[q].next = rs[q].next

LEMMA SameKeepsList ==
  ASSUME NEW rs, NEW rt, ListOK(rs), SameNexts(rs, rt)
  PROVE  /\ ListOK(rt)
         /\ \A r \in RowId : RowsFrom(rt, r) = RowsFrom(rs, r) /\ (PathOK(rs, r) => PathOK(rt, r))
         /\ \A t : LastOf(rt, t) <=> LastOf(rs, t)
<1>1. NextsOK(rs) /\ NextsOK(rt)
  BY DEF ListOK, NextsOK, SameNexts
<1>2. \A r \in RowId : RowsFrom(rt, r) = RowsFrom(rs, r)
  BY <1>1, FromSame DEF SameNexts
<1>3. RowsFrom(rt, HEAD) = RowsFrom(rs, HEAD)
  BY <1>2, RowIds
<1>4. \A t : LastOf(rt, t) <=> LastOf(rs, t)
  BY <1>3 DEF LastOf, SameNexts
<1>5. \A r \in RowId : PathOK(rs, r) => PathOK(rt, r)
  BY <1>2, <1>4 DEF PathOK, SameNexts
<1>6. ListOK(rt)
  <2>1. HEAD \in DOMAIN rs => PathOK(rt, HEAD) /\ RowsFrom(rs, HEAD) \subseteq DOMAIN rs
    BY <1>5, RowIds DEF ListOK, PathOK
  <2> QED BY <1>1, <1>3, <2>1 DEF ListOK, SameNexts
<1> QED BY <1>2, <1>4, <1>5, <1>6

\* A table with other rows that no walk gets to.
LEMMA OthersKeepList ==
  ASSUME NEW rs, NEW rt, ListOK(rs), HEAD \in DOMAIN rs, NextsOK(rt),
         \A q \in DOMAIN rs \cap DOMAIN rt : rt[q].next = rs[q].next,
         RowsFrom(rs, HEAD) \subseteq DOMAIN rt
  PROVE  /\ ListOK(rt) /\ HEAD \in DOMAIN rt
         /\ RowsFrom(rt, HEAD) = RowsFrom(rs, HEAD)
         /\ \A r \in RowId : PathOK(rs, r) /\ RowsFrom(rs, r) \subseteq DOMAIN rt =>
              PathOK(rt, r) /\ RowsFrom(rt, r) = RowsFrom(rs, r)
         /\ \A t : LastOf(rt, t) <=> LastOf(rs, t)
<1>1. NextsOK(rs)
  BY DEF ListOK
<1>2. \A r \in RowId : RowsFrom(rs, r) \subseteq DOMAIN rs /\ RowsFrom(rs, r) \subseteq DOMAIN rt =>
        RowsFrom(rt, r) = RowsFrom(rs, r)
  BY <1>1, FromSame
<1>3. RowsFrom(rt, HEAD) = RowsFrom(rs, HEAD) /\ HEAD \in DOMAIN rt
  BY <1>2, HeadFirst, RowIds
<1>4. \A t : LastOf(rt, t) <=> LastOf(rs, t)
  <2>1. \A t \in RowsFrom(rs, HEAD) : t \in DOMAIN rs /\ t \in DOMAIN rt /\ rt[t].next = rs[t].next
    BY HeadFirst
  <2> QED BY <1>3, <2>1 DEF LastOf
<1>5. \A r \in RowId : PathOK(rs, r) /\ RowsFrom(rs, r) \subseteq DOMAIN rt =>
        PathOK(rt, r) /\ RowsFrom(rt, r) = RowsFrom(rs, r)
  BY <1>2, <1>4 DEF PathOK
<1>6. ListOK(rt)
  <2>1. PathOK(rt, HEAD)
    BY <1>5, RowIds DEF ListOK
  <2>2. \A p \in RowsFrom(rs, HEAD) : rt[p].next = rs[p].next
    BY HeadFirst
  <2> QED BY <1>3, <2>1, <2>2 DEF ListOK
<1> QED BY <1>3, <1>4, <1>5, <1>6

\* InsertHead: the first row is a list.
LEMMA FirstRowIsList ==
  ASSUME NEW rt, DOMAIN rt = {HEAD}, rt[HEAD].next = NoRow
  PROVE  /\ ListOK(rt) /\ PathOK(rt, HEAD) /\ RowsFrom(rt, HEAD) = {HEAD}
         /\ \A t : LastOf(rt, t) <=> t = HEAD
<1>1. RowsFrom(rt, HEAD) = {HEAD}
  BY RowIds, FromEnd DEF IsEnd
<1>2. \A t : LastOf(rt, t) <=> t = HEAD
  BY <1>1 DEF LastOf
<1>3. PathOK(rt, HEAD)
  BY <1>1, <1>2 DEF PathOK
<1> QED BY <1>1, <1>2, <1>3, RowIds DEF ListOK, NextsOK

\* SwapRow: the last row t gets a next one.
LEMMA LinkKeepsList ==
  ASSUME NEW rs, NEW rt, ListOK(rs), NEW t, LastOf(rs, t),
         NEW p \in DOMAIN rs, p \notin RowsFrom(rs, HEAD), rs[p].next = NoRow,
         DOMAIN rt = DOMAIN rs, rt[t].next = p,
         \A q \in DOMAIN rs \ {t} : rt[q].next = rs[q].next
  PROVE  /\ ListOK(rt) /\ \A u : LastOf(rt, u) <=> u = p
         /\ RowsFrom(rt, HEAD) = RowsFrom(rs, HEAD) \cup {p}
         /\ \A r \in RowId : PathOK(rs, r) =>
              PathOK(rt, r) /\ RowsFrom(rt, r) = RowsFrom(rs, r) \cup {p}
<1>1. /\ NextsOK(rs) /\ NextsOK(rt) /\ p \in RowId /\ p # t /\ rt[p].next = NoRow
      /\ t \in DOMAIN rs /\ rs[t].next = NoRow
  BY DEF ListOK, NextsOK, LastOf
<1>2. HEAD \in DOMAIN rs /\ p # HEAD /\ HEAD \in RowsFrom(rs, HEAD)
  BY <1>1, HeadFirst DEF ListOK
<1>3. ASSUME NEW r \in RowId, PathOK(rs, r)
      PROVE  RowsFrom(rt, r) = RowsFrom(rs, r) \cup {p}
  <2>1. t \in RowsFrom(rs, r)
    BY <1>3, OneLast DEF PathOK
  <2>2. ClosedRows(rt, RowsFrom(rs, r) \cup {p})
    BY <1>1, FromClosed DEF ClosedRows
  <2>3. RowsFrom(rt, r) \subseteq RowsFrom(rs, r) \cup {p}
    BY <1>1, <2>2, FromLeast, FromSelf, FromIds
  <2>4. ClosedRows(rs, RowsFrom(rt, r))
    BY <1>1, FromClosed DEF ClosedRows
  <2>5. RowsFrom(rs, r) \subseteq RowsFrom(rt, r)
    BY <2>4, FromLeast, FromSelf, FromIds
  <2>6. p \in RowsFrom(rt, r)
    BY <1>1, <2>1, <2>5, FromClosed, RowIds DEF ClosedRows
  <2> QED BY <2>3, <2>5, <2>6
<1>4. RowsFrom(rt, HEAD) = RowsFrom(rs, HEAD) \cup {p}
  BY <1>2, <1>3, RowIds DEF ListOK
<1>5. \A u : LastOf(rt, u) <=> u = p
  <2>1. ASSUME NEW u, LastOf(rt, u) PROVE u = p
    <3>1. CASE u = t
      BY <1>1, <2>1, <3>1, RowIds DEF LastOf
    <3>2. CASE u # t /\ u # p
      <4>1. LastOf(rs, u)
        BY <1>4, <2>1, <3>2 DEF LastOf
      <4> QED BY <4>1, <3>2, OneLast
    <3> QED BY <3>1, <3>2
  <2>2. LastOf(rt, p)
    BY <1>1, <1>4 DEF LastOf
  <2> QED BY <2>1, <2>2
<1>6. \A r \in RowId : PathOK(rs, r) => PathOK(rt, r)
  BY <1>3, <1>5 DEF PathOK
<1>7. ListOK(rt)
  <2>1. PathOK(rt, HEAD)
    BY <1>2, <1>6, RowIds DEF ListOK
  <2>2. \A q \in RowsFrom(rs, HEAD) : q \in DOMAIN rs /\ rs[q].next # p
    <3>1. \A q \in RowsFrom(rs, HEAD) : q \in DOMAIN rs
      BY <1>2, HeadFirst
    <3>2. ClosedRows(rs, RowsFrom(rs, HEAD)) /\ p # NoRow
      BY <1>1, FromClosed, RowIds
    <3> QED BY <3>1, <3>2 DEF ClosedRows
  <2>3. ASSUME NEW x \in RowsFrom(rt, HEAD), NEW y \in RowsFrom(rt, HEAD),
               rt[x].next = rt[y].next, rt[x].next # NoRow
        PROVE  x = y
    <3>1. x # p /\ y # p
      BY <1>1, <2>3
    <3>2. x \in RowsFrom(rs, HEAD) /\ y \in RowsFrom(rs, HEAD)
      BY <1>4, <3>1
    <3>3. CASE x # t /\ y # t
      BY <1>2, <2>2, <2>3, <3>2, <3>3 DEF ListOK
    <3>4. CASE x = t \/ y = t
      BY <2>2, <2>3, <3>2, <3>4
    <3> QED BY <3>3, <3>4
  <2>4. \A x \in RowsFrom(rt, HEAD) : rt[x].next # HEAD
    <3> TAKE x \in RowsFrom(rt, HEAD)
    <3>1. CASE x = p
      BY <1>1, <3>1, RowIds
    <3>2. CASE x = t
      BY <1>2, <3>2
    <3>3. CASE x # p /\ x # t
      BY <1>2, <1>4, <2>2, <3>3 DEF ListOK
    <3> QED BY <3>1, <3>2, <3>3
  <2> QED BY <1>1, <1>2, <2>1, <2>3, <2>4 DEF ListOK
<1> QED BY <1>3, <1>4, <1>5, <1>6, <1>7

\* ClearRow: cur is unlinked, and what it leads to is still behind prev.
LEMMA UnlinkKeepsList ==
  ASSUME NEW rs, NEW rt, ListOK(rs), HEAD \in DOMAIN rs,
         NEW prev \in RowsFrom(rs, HEAD), NEW cur \in RowsFrom(rs, HEAD),
         rs[prev].next = cur, rs[cur].next # NoRow,
         DOMAIN rt = DOMAIN rs, rt[prev].next = rs[cur].next,
         \A q \in DOMAIN rs \ {prev} : rt[q].next = rs[q].next
  PROVE  /\ ListOK(rt) /\ \A u : LastOf(rt, u) <=> LastOf(rs, u)
         /\ RowsFrom(rt, HEAD) = RowsFrom(rs, HEAD) \ {cur}
         /\ prev # cur
         /\ \A r \in RowId : PathOK(rs, r) =>
              /\ PathOK(rt, r) /\ RowsFrom(rt, r) \subseteq RowsFrom(rs, r)
              /\ RowsFrom(rs, r) \subseteq RowsFrom(rt, r) \cup {cur}
<1>1. /\ NextsOK(rs) /\ prev \in DOMAIN rs /\ cur \in DOMAIN rs /\ prev \in RowId /\ cur \in RowId
      /\ rs[cur].next \in RowId
  BY HeadFirst, FromIds DEF ListOK, NextsOK
<1>2. PICK n \in RowId : n = rs[cur].next
  BY <1>1
<1>3. NextsOK(rt)
  BY <1>1, <1>2 DEF NextsOK
<1>4. PICK t \in RowId : LastOf(rs, t)
  BY HeadFirst
<1>5. t # prev /\ t # cur /\ cur # HEAD
  BY <1>1, <1>4, RowIds DEF LastOf, ListOK
<1>6. n # cur /\ prev # cur
  <2>1. ASSUME rs[cur].next = cur PROVE FALSE
    <3>1. ClosedRows(rs, {cur})
      BY <2>1 DEF ClosedRows
    <3>2. RowsFrom(rs, cur) = {cur}
      BY <1>1, <3>1, FromLeast, FromSelf
    <3>3. t \in RowsFrom(rs, cur)
      BY <1>1, <1>4, FromMeets, RowIds DEF LastOf, IsEnd
    <3> QED BY <1>5, <3>2, <3>3
  <2> QED BY <1>2, <2>1
<1>7. ASSUME NEW r \in RowId
      PROVE  /\ RowsFrom(rt, r) \subseteq RowsFrom(rs, r)
             /\ RowsFrom(rs, r) \subseteq RowsFrom(rt, r) \cup {cur}
  <2>1. ClosedRows(rt, RowsFrom(rs, r))
    <3> SUFFICES ASSUME NEW q \in RowsFrom(rs, r), q \in DOMAIN rt, rt[q].next # NoRow
                 PROVE  rt[q].next \in RowsFrom(rs, r)
        BY DEF ClosedRows
    <3>1. ClosedRows(rs, RowsFrom(rs, r))
      BY <1>1, FromClosed
    <3>2. CASE q # prev
      BY <3>1, <3>2 DEF ClosedRows
    <3>3. CASE q = prev
      <4>1. cur \in RowsFrom(rs, r)
        BY <1>1, <3>1, <3>3, RowIds DEF ClosedRows
      <4> QED BY <1>1, <3>1, <3>3, <4>1 DEF ClosedRows
    <3> QED BY <3>2, <3>3
  <2>2. RowsFrom(rt, r) \subseteq RowsFrom(rs, r)
    BY <2>1, FromLeast, FromSelf, FromIds
  <2> DEFINE S == RowsFrom(rt, r) \cup {x \in {cur} : prev \in RowsFrom(rt, r)}
  <2>3. ClosedRows(rt, RowsFrom(rt, r))
    BY <1>3, FromClosed
  <2>4. ClosedRows(rs, S)
    <3> SUFFICES ASSUME NEW q \in S, q \in DOMAIN rs, rs[q].next # NoRow
                 PROVE  rs[q].next \in S
        BY DEF ClosedRows
    <3>1. CASE q = prev
      BY <1>6, <3>1
    <3>2. CASE q # prev /\ q \in RowsFrom(rt, r)
      BY <2>3, <3>2 DEF ClosedRows
    <3>3. CASE q = cur /\ prev \in RowsFrom(rt, r)
      BY <1>1, <2>3, <3>3 DEF ClosedRows
    <3> QED BY <3>1, <3>2, <3>3
  <2>5. RowsFrom(rs, r) \subseteq S
    <3>1. S \in SUBSET RowId /\ r \in S
      BY <1>1, FromIds, FromSelf
    <3> QED BY <2>4, <3>1, FromLeast
  <2> QED BY <2>2, <2>5
<1>8. RowsFrom(rt, HEAD) = RowsFrom(rs, HEAD) \ {cur}
  <2>1. ClosedRows(rt, RowsFrom(rs, HEAD) \ {cur})
    <3> SUFFICES ASSUME NEW q \in RowsFrom(rs, HEAD) \ {cur}, q \in DOMAIN rt, rt[q].next # NoRow
                 PROVE  rt[q].next \in RowsFrom(rs, HEAD) \ {cur}
        BY DEF ClosedRows
    <3>1. ClosedRows(rs, RowsFrom(rs, HEAD))
      BY <1>1, FromClosed
    <3>2. CASE q = prev
      BY <1>1, <1>2, <1>6, <3>1, <3>2 DEF ClosedRows
    <3>3. CASE q # prev
      <4>1. rs[q].next # cur
        BY <1>1, <3>3, RowIds DEF ListOK
      <4> QED BY <3>1, <3>3, <4>1 DEF ClosedRows
    <3> QED BY <3>2, <3>3
  <2>2. HEAD \in RowsFrom(rs, HEAD) \ {cur}
    BY <1>5, HeadFirst
  <2>3. RowsFrom(rt, HEAD) \subseteq RowsFrom(rs, HEAD) \ {cur}
    BY <2>1, <2>2, FromLeast, FromIds
  <2> QED BY <2>3, <1>7, RowIds
<1>9. \A u : LastOf(rt, u) <=> LastOf(rs, u)
  <2>1. \A u : LastOf(rs, u) => u # prev /\ u # cur
    BY <1>1, RowIds DEF LastOf
  <2>2. \A u : LastOf(rt, u) => u # prev
    BY <1>1, RowIds DEF LastOf
  <2> QED BY <1>8, <2>1, <2>2 DEF LastOf
<1>10. \A r \in RowId : PathOK(rs, r) => PathOK(rt, r)
  <2> SUFFICES ASSUME NEW r \in RowId, PathOK(rs, r) PROVE PathOK(rt, r)
      OBVIOUS
  <2>1. PICK u \in RowsFrom(rs, r) : LastOf(rs, u)
    BY DEF PathOK
  <2>2. u \in RowsFrom(rt, r)
    BY <1>7, <2>1 DEF LastOf
  <2> QED BY <1>7, <1>9, <2>1, <2>2 DEF PathOK
<1>11. ListOK(rt)
  <2>1. PathOK(rt, HEAD)
    BY <1>10, RowIds DEF ListOK
  <2>2. ASSUME NEW x \in RowsFrom(rt, HEAD), NEW y \in RowsFrom(rt, HEAD),
               rt[x].next = rt[y].next, rt[x].next # NoRow
        PROVE  x = y
    <3>1. x \in RowsFrom(rs, HEAD) /\ y \in RowsFrom(rs, HEAD) /\ x # cur /\ y # cur
          /\ x \in DOMAIN rs /\ y \in DOMAIN rs
      BY <1>8, HeadFirst
    <3>2. CASE x # prev /\ y # prev
      BY <2>2, <3>1, <3>2 DEF ListOK
    <3>3. CASE x = prev /\ y # prev
      <4>1. rs[y].next = rs[cur].next
        BY <2>2, <3>1, <3>3
      <4> QED BY <3>1, <4>1 DEF ListOK
    <3>4. CASE y = prev /\ x # prev
      <4>1. rs[x].next = rs[cur].next
        BY <2>2, <3>1, <3>4
      <4> QED BY <3>1, <4>1 DEF ListOK
    <3> QED BY <3>2, <3>3, <3>4
  <2>3. \A x \in RowsFrom(rt, HEAD) : rt[x].next # HEAD
    BY <1>8, HeadFirst DEF ListOK
  <2> QED BY <1>3, <2>1, <2>2, <2>3 DEF ListOK
<1> QED BY <1>6, <1>7, <1>8, <1>9, <1>10, <1>11

\* LastFrom is what its name says.
LEMMA LastFromIs ==
  ASSUME ListOK(rows)
  PROVE  /\ LastFrom(HEAD) \in RowId
         /\ HEAD \in DOMAIN rows => LastOf(rows, LastFrom(HEAD))
         /\ HEAD \notin DOMAIN rows => LastFrom(HEAD) = HEAD
<1>1. CASE HEAD \in DOMAIN rows
  <2>1. PICK t \in RowsFrom(rows, HEAD) : LastOf(rows, t)
    BY <1>1 DEF ListOK, PathOK
  <2>2. t \in DOMAIN rows => rows[t].next = NoRow
    BY <2>1 DEF LastOf
  <2>3. /\ LastFrom(HEAD) \in RowsFrom(rows, HEAD)
        /\ LastFrom(HEAD) \in DOMAIN rows => rows[LastFrom(HEAD)].next = NoRow
    BY <2>1, <2>2 DEF LastFrom
  <2> QED BY <1>1, <2>3, HeadFirst, FromIds DEF LastOf
<1>2. CASE HEAD \notin DOMAIN rows
  <2>1. RowsFrom(rows, HEAD) = {HEAD}
    BY <1>2, RowIds, FromEnd DEF IsEnd
  <2>2. LastFrom(HEAD) = HEAD
    BY <1>2, <2>1 DEF LastFrom
  <2> QED BY <1>2, <2>2, RowIds
<1> QED BY <1>1, <1>2

-----------------------------------------------------------------------------
(***************************************************************************)
(* Types.                                                                  *)
(***************************************************************************)
DCids == DInstance \X Nat
DPlaces == {"idle", "run", "head", "update", "refuse", "look", "copy", "create", "swap", "drop",
            "follow", "get", "put", "done"}

DRowType ==
  [v : Nat, holder : DInstance \cup {NoHolder}, logs : SUBSET DCids, refused : SUBSET DCids,
   logSize : Nat, gcSize : Nat, next : RowId \cup {NoRow}, stamped : BOOLEAN,
   since : SUBSET DExecutor, counted : BOOLEAN]

RowOK(row) == row \in DRowType /\ IsFiniteSet(row.logs) /\ IsFiniteSet(row.refused)

RowsOK(rs) ==
  /\ DOMAIN rs \subseteq RowId /\ rs = [r \in DOMAIN rs |-> rs[r]]
  /\ \A r \in DOMAIN rs : RowOK(rs[r])

DaalTypeOK ==
  /\ dScenario \in DScenarios
  /\ RowsOK(rows)
  /\ readLog = [i \in DInstance |-> readLog[i]]
  /\ \A i \in DInstance : \A s \in DOMAIN readLog[i] : s \in Nat /\ readLog[i][s] \in Nat
  /\ dDone \subseteq DInstance /\ dRetired \subseteq DInstance
  /\ dPc \in [DExecutor -> DPlaces]
  /\ dStep \in [DExecutor -> Nat]
  /\ dRow \in [DExecutor -> RowId \cup {NoRow}]
  /\ dVal \in [DExecutor -> Nat]
  /\ collector \in [at : {"idle", "clear", "heads", "row", "stamp", "sweep"},
                    prev : RowId, cur : RowId \cup {NoRow}]
  /\ effects \in Seq(DCids)
  /\ told \in [DInstance -> SUBSET (Nat \X Nat)]
  /\ grants \subseteq DInstance \X RowId
  /\ forgotten \subseteq DCids
  /\ \A e \in DExecutor : dPc[e] # "idle" => e \in DOMAIN DInstanceOf

\* What the scenario is.
LEMMA InstanceType ==
  ASSUME DaalTypeOK, NEW e \in DOMAIN DInstanceOf
  PROVE  e \in DExecutor /\ DInstanceOf[e] \in DInstance
BY DScenariosAssumption DEF DaalTypeOK, DInstanceOf

LEMMA ScenarioType ==
  ASSUME DaalTypeOK
  PROVE  LogSize \in Nat \ {0} /\ dScenario.ops \in [DInstance -> Seq({"write", "read", "lock", "unlock"})]
BY DScenariosAssumption DEF DaalTypeOK, LogSize

\* A table with a row that is new, deleted, changed or released.
LEMMA NewRowType == ASSUME NEW x \in Nat PROVE RowOK(NewRow(x))
<1>1. NewRow(x) \in DRowType /\ NewRow(x).logs = {} /\ NewRow(x).refused = {}
  BY DEF NewRow, DRowType, NoRow
<1> QED BY <1>1, FS_EmptySet DEF RowOK

LEMMA NewRowRow ==
  ASSUME NEW rs, RowsOK(rs), NEW r \in RowId, NEW x \in Nat
  PROVE  RowsOK([q \in DOMAIN rs \cup {r} |-> IF q = r THEN NewRow(x) ELSE rs[q]])
BY NewRowType DEF RowsOK

LEMMA WithoutRow ==
  ASSUME NEW rs, RowsOK(rs), NEW r, NEW rt, rt = [q \in DOMAIN rs \ {r} |-> rs[q]]
  PROVE  RowsOK(rt)
BY DEF RowsOK

LEMMA ChangedRow ==
  ASSUME NEW rs, RowsOK(rs), NEW r \in DOMAIN rs, NEW row, RowOK(row),
         NEW rt, rt = [rs EXCEPT ![r] = row]
  PROVE  RowsOK(rt)
BY DEF RowsOK

LEMMA ReleasedRows ==
  ASSUME NEW rs, RowsOK(rs), NEW e
  PROVE  RowsOK(Released(rs, e))
<1>1. ASSUME NEW r \in DOMAIN rs PROVE RowOK([rs[r] EXCEPT !.since = @ \ {e}])
  BY DEF RowsOK, RowOK, DRowType
<1> QED BY <1>1 DEF RowsOK, Released

\* A row with a field that is changed.
LEMMA RowWith ==
  ASSUME NEW row, RowOK(row), NEW l \in SUBSET DCids, IsFiniteSet(l),
         NEW m \in SUBSET DCids, IsFiniteSet(m), NEW n \in Nat, NEW b \in BOOLEAN,
         NEW p \in RowId \cup {NoRow}, NEW w \in SUBSET DExecutor
  PROVE  /\ RowOK([row EXCEPT !.logs = l, !.logSize = n])
         /\ RowOK([row EXCEPT !.next = p])
         /\ RowOK([row EXCEPT !.stamped = TRUE, !.since = w])
         /\ RowOK([row EXCEPT !.refused = m])
         /\ RowOK([row EXCEPT !.logs = l, !.refused = m, !.gcSize = n, !.counted = b])
BY DEF RowOK, DRowType

\* UpdateRow, RefuseRow and ClearRowDAAL make rows of rows.
LEMMA UpdatedRow ==
  ASSUME DaalTypeOK, NEW e \in DOMAIN DInstanceOf, NEW r \in DOMAIN rows
  PROVE  RowOK(Updated(r, e)) /\ RowOK([rows[r] EXCEPT !.refused = @ \cup {Cid(e)}])
<1>1. RowOK(rows[r]) /\ DInstanceOf[e] \in DInstance /\ e \in DExecutor
  BY InstanceType DEF DaalTypeOK, RowsOK
<1>2. Cid(e) \in DCids
  BY <1>1 DEF Cid, DCids, DaalTypeOK
<1>3. Len(effects) + 1 \in Nat
  BY DEF DaalTypeOK
<1>4. IsFiniteSet(rows[r].logs \cup {Cid(e)}) /\ IsFiniteSet(rows[r].refused \cup {Cid(e)})
  BY <1>1, FS_AddElement DEF RowOK
<1>5. RowOK([rows[r] EXCEPT !.refused = @ \cup {Cid(e)}])
  <2>1. rows[r].refused \cup {Cid(e)} \in SUBSET DCids
    BY <1>1, <1>2 DEF RowOK, DRowType
  <2> QED BY <1>1, <1>4, <2>1, RowWith
<1>6. RowOK(Updated(r, e))
  <2> DEFINE row == [rows[r] EXCEPT !.logs = @ \cup {Cid(e)}, !.logSize = @ + 1]
  <2>1. RowOK(row)
    <3>1. rows[r].logSize + 1 \in Nat /\ rows[r].logs \cup {Cid(e)} \in SUBSET DCids
      BY <1>1, <1>2 DEF RowOK, DRowType
    <3> QED BY <1>1, <1>4, <3>1, RowWith
  <2>2. /\ RowOK([row EXCEPT !.holder = DInstanceOf[e]])
        /\ RowOK([row EXCEPT !.holder = NoHolder])
        /\ RowOK([row EXCEPT !.v = Len(effects) + 1])
    <3> HIDE DEF row
    <3> QED BY <1>1, <1>3, <2>1 DEF RowOK, DRowType
  <2> QED BY <2>2 DEF Updated
<1> QED BY <1>5, <1>6

LEMMA ClearedRow ==
  ASSUME DaalTypeOK, NEW r \in DOMAIN rows
  PROVE  /\ RowOK(Cleared(r))
         /\ Cardinality(Mine(rows[r].logs) \cup Mine(rows[r].refused)) \in Nat
<1>1. RowOK(rows[r])
  BY DEF DaalTypeOK, RowsOK
<1> DEFINE gone == Mine(rows[r].logs) \cup Mine(rows[r].refused)
<1>2. IsFiniteSet(gone) /\ IsFiniteSet(rows[r].logs \ gone) /\ IsFiniteSet(rows[r].refused \ gone)
  <2>1. Mine(rows[r].logs) \subseteq rows[r].logs /\ Mine(rows[r].refused) \subseteq rows[r].refused
    BY DEF Mine
  <2>2. IsFiniteSet(Mine(rows[r].logs)) /\ IsFiniteSet(Mine(rows[r].refused))
    BY <1>1, <2>1, FS_Subset DEF RowOK
  <2> QED BY <1>1, <2>2, FS_Union, FS_Subset DEF RowOK
<1>3. Cardinality(gone) \in Nat
  BY <1>2, FS_CardinalityType
<1>4. PICK n \in Nat : n = Cardinality(gone)
  BY <1>3
<1>5. PICK b \in BOOLEAN : b = (rows[r].counted \/ Mine(rows[r].refused) # {})
  OBVIOUS
<1>6. Cleared(r) = [rows[r] EXCEPT !.logs = @ \ gone, !.refused = @ \ gone,
                                   !.gcSize = @ + n, !.counted = b]
  BY <1>4, <1>5 DEF Cleared
<1> HIDE DEF gone
<1>7. RowOK([rows[r] EXCEPT !.logs = @ \ gone, !.refused = @ \ gone,
                            !.gcSize = @ + n, !.counted = b])
  <2>1. /\ rows[r].logs \ gone \in SUBSET DCids /\ rows[r].refused \ gone \in SUBSET DCids
        /\ rows[r].gcSize + n \in Nat
    BY <1>1 DEF RowOK, DRowType
  <2> QED BY <1>1, <1>2, <2>1, RowWith
<1> QED BY <1>3, <1>6, <1>7 DEF gone

-----------------------------------------------------------------------------
(***************************************************************************)
(* The shape of the rows: they are a list, and whoever works on a row has  *)
(* a path from it to the last one.                                         *)
(***************************************************************************)
Live(e) == dPc[e] \notin {"idle", "run", "done"}
\* It has made a row that nothing points to yet.
Holding(e) == dPc[e] \in {"swap", "drop"}

\* ScanIntent takes no instance that is being executed.
ActiveOK(e) == dPc[e] \notin {"idle", "done"} => DInstanceOf[e] \notin dRetired

\* A path to the end, also from a row that was unlinked, which is not deleted then.
WalkOK(e) ==
  Live(e) =>
    /\ dRow[e] \in RowId
    /\ IF HEAD \in DOMAIN rows THEN PathOK(rows, dRow[e])
       ELSE dRow[e] = HEAD /\ dPc[e] \in {"head", "get", "put"}
    /\ dPc[e] \in {"drop", "follow"} => rows[dRow[e]].next # NoRow
    /\ \A q \in RowsFrom(rows, dRow[e]) :
         q \in DOMAIN rows /\ rows[q].stamped => e \in rows[q].since

Fresh(row) ==
  /\ row.holder = NoHolder /\ row.logs = {} /\ row.refused = {} /\ row.logSize = 0 /\ row.gcSize = 0
  /\ row.next = NoRow /\ ~ row.stamped /\ ~ row.counted

\* The row that it has made is its own.
HoldsOK(e) ==
  Holding(e) =>
    /\ dVal[e] \in DOMAIN rows \ RowsFrom(rows, HEAD)
    /\ Fresh(rows[dVal[e]])
    /\ \A f \in DExecutor \ {e} : Holding(f) => dVal[f] # dVal[e]

\* A row gets a TS when it is unlinked.
LinkedOK == \A q \in RowsFrom(rows, HEAD) : q \in DOMAIN rows => ~ rows[q].stamped

\* The collector goes along the list.
CollectorOK ==
  LET prev == collector.prev
      cur == collector.cur
  IN  /\ collector.at \in {"row", "stamp"} =>
           HEAD \in DOMAIN rows /\ prev \in RowsFrom(rows, HEAD) /\ cur \in DOMAIN rows
      /\ collector.at = "row" => rows[prev].next = cur
      /\ collector.at = "stamp" =>
           /\ cur \notin RowsFrom(rows, HEAD)
           /\ rows[cur].next # NoRow /\ rows[cur].next = rows[prev].next

Shape ==
  /\ ListOK(rows) /\ LinkedOK /\ CollectorOK
  /\ \A e \in DExecutor : ActiveOK(e) /\ WalkOK(e) /\ HoldsOK(e)

\* Where an execution is.
LEMMA OnWalk ==
  ASSUME DaalTypeOK, Shape, NEW e \in DExecutor, Live(e)
  PROVE  /\ e \in DOMAIN DInstanceOf /\ DInstanceOf[e] \in DInstance /\ DInstanceOf[e] \notin dRetired
         /\ dRow[e] \in RowId
         /\ HEAD \in DOMAIN rows =>
              /\ PathOK(rows, dRow[e]) /\ dRow[e] \in RowsFrom(rows, dRow[e]) /\ dRow[e] \in DOMAIN rows
              /\ rows[dRow[e]].next = NoRow => LastOf(rows, dRow[e])
         /\ HEAD \notin DOMAIN rows =>
              rows = [r \in {} |-> NewRow(0)] /\ dRow[e] = HEAD /\ dPc[e] \in {"head", "get", "put"}
<1>1. e \in DOMAIN DInstanceOf /\ DInstanceOf[e] \in DInstance /\ DInstanceOf[e] \notin dRetired
  <2>1. e \in DOMAIN DInstanceOf
    BY DEF DaalTypeOK, Live
  <2> QED BY <2>1, InstanceType DEF Shape, ActiveOK, Live
<1>2. WalkOK(e) /\ dRow[e] \in RowId /\ ListOK(rows)
  BY DEF Shape, WalkOK
<1>3. ASSUME HEAD \in DOMAIN rows
      PROVE  /\ PathOK(rows, dRow[e]) /\ dRow[e] \in RowsFrom(rows, dRow[e]) /\ dRow[e] \in DOMAIN rows
             /\ rows[dRow[e]].next = NoRow => LastOf(rows, dRow[e])
  <2>1. PathOK(rows, dRow[e])
    BY <1>2, <1>3 DEF WalkOK
  <2>2. dRow[e] \in RowsFrom(rows, dRow[e])
    BY <1>2, FromSelf
  <2>3. rows[dRow[e]].next = NoRow => LastOf(rows, dRow[e])
    BY <1>2, <2>1, <2>2, PathEnds
  <2> QED BY <2>1, <2>2, <2>3 DEF PathOK
<1>4. ASSUME HEAD \notin DOMAIN rows
      PROVE  rows = [r \in {} |-> NewRow(0)] /\ dRow[e] = HEAD /\ dPc[e] \in {"head", "get", "put"}
  <2>1. DOMAIN rows = {} /\ rows = [r \in DOMAIN rows |-> rows[r]]
    BY <1>2, <1>4 DEF ListOK, DaalTypeOK, RowsOK
  <2>2. rows = [r \in {} |-> NewRow(0)]
    BY <2>1
  <2> QED BY <1>2, <1>4, <2>2 DEF WalkOK
<1> QED BY <1>1, <1>2, <1>3, <1>4

\* A key that has a row has HEAD.
LEMMA NoRows == ASSUME DaalTypeOK, Shape PROVE rows = <<>> <=> HEAD \notin DOMAIN rows
<1>1. ASSUME HEAD \notin DOMAIN rows PROVE rows = <<>>
  <2>1. DOMAIN rows = {} /\ rows = [r \in DOMAIN rows |-> rows[r]]
    BY <1>1 DEF ListOK, DaalTypeOK, RowsOK, Shape
  <2>2. <<>> = [i \in {} |-> rows[i]]
    OBVIOUS
  <2> QED BY <2>1, <2>2
<1>2. DOMAIN <<>> = {}
  OBVIOUS
<1> QED BY <1>1, <1>2

\* The operation of a step.
LEMMA DOpIs ==
  ASSUME DaalTypeOK, NEW e \in DOMAIN DInstanceOf, DOp(e) # "end"
  PROVE  /\ DOp(e) = dScenario.ops[DInstanceOf[e]][dStep[e] + 1]
         /\ DOp(e) \in {"write", "read", "lock", "unlock"}
<1>1. dScenario.ops[DInstanceOf[e]] \in Seq({"write", "read", "lock", "unlock"}) /\ dStep[e] \in Nat
  BY InstanceType, ScenarioType DEF DaalTypeOK
<1>2. dStep[e] < Len(dScenario.ops[DInstanceOf[e]])
  BY DEF DOp
<1> QED BY <1>1, <1>2 DEF DOp

-----------------------------------------------------------------------------
\* Types hold at first and after every step.
LEMMA DaalTypeInit == DaalInit => DaalTypeOK
<1> SUFFICES ASSUME DaalInit PROVE DaalTypeOK
  OBVIOUS
<1>1. RowsOK(rows)
  BY DEF DaalInit, RowsOK
<1>2. HEAD \in RowId /\ NoRow \in RowId \cup {NoRow}
  BY RowIds
<1>3. Idle \in [at : {"idle", "clear", "heads", "row", "stamp", "sweep"}, prev : RowId, cur : RowId \cup {NoRow}]
  BY <1>2 DEF Idle
<1>4. effects \in Seq(DCids)
  BY DEF DaalInit
<1>5. \A i \in DInstance : readLog[i] = [s \in {} |-> 0] /\ DOMAIN readLog[i] = {}
  BY DEF DaalInit
<1> QED BY <1>1, <1>2, <1>3, <1>4, <1>5 DEF DaalInit, DaalTypeOK, DPlaces

\* What an operation that is over changes.
LEMMA OverType ==
  ASSUME DaalTypeOK, NEW e \in DOMAIN DInstanceOf, NEW x \in Nat, Over(e, x)
  PROVE  /\ dPc' \in [DExecutor -> DPlaces] /\ dStep' \in [DExecutor -> Nat]
         /\ dRow' \in [DExecutor -> RowId \cup {NoRow}] /\ dVal' \in [DExecutor -> Nat]
         /\ told' \in [DInstance -> SUBSET (Nat \X Nat)]
         /\ \A f \in DExecutor : dPc'[f] # "idle" => f = e \/ dPc[f] # "idle"
<1>1. e \in DExecutor /\ DInstanceOf[e] \in DInstance /\ dStep[e] \in Nat
  BY InstanceType DEF DaalTypeOK
<1>2. told' \in [DInstance -> SUBSET (Nat \X Nat)]
  BY <1>1 DEF Over, DaalTypeOK
<1> QED BY <1>1, <1>2 DEF Over, DaalTypeOK, GoTo, DPlaces

LEMMA GoToType ==
  ASSUME DaalTypeOK, NEW e, NEW pc \in DPlaces, GoTo(e, pc), e \in DOMAIN DInstanceOf
  PROVE  /\ dPc' \in [DExecutor -> DPlaces]
         /\ \A f \in DExecutor : dPc'[f] # "idle" => f = e \/ dPc[f] # "idle"
BY DEF DaalTypeOK, GoTo

LEMMA FreeRowIs ==
  ASSUME DaalTypeOK, Cardinality(DOMAIN rows) <= MaxRow
  PROVE  FreeRow \in RowId /\ FreeRow \notin DOMAIN rows
<1>1. DOMAIN rows \subseteq RowId
  BY DEF DaalTypeOK, RowsOK
<1>2. DOMAIN rows # RowId
  <2>1. Cardinality(0 .. MaxRow) = MaxRow + 1
    BY FS_Interval, MaxRowAssumption
  <2> QED BY <2>1, MaxRowAssumption DEF RowId, HEAD
<1>3. \E r \in RowId : r \notin DOMAIN rows
  BY <1>1, <1>2
<1> QED BY <1>3 DEF FreeRow

LEMMA StepType ==
  ASSUME DaalTypeOK, Shape, NEW e \in DExecutor, DaalStep(e) \/ DDie(e)
  PROVE  DaalTypeOK'
<1>1. dStep[e] \in Nat /\ RowsOK(Released(rows, e))
  BY ReleasedRows DEF DaalTypeOK
<1>2. ASSUME dPc[e] # "idle" PROVE e \in DOMAIN DInstanceOf /\ DInstanceOf[e] \in DInstance
  BY <1>2, InstanceType DEF DaalTypeOK
<1>3. LastFrom(HEAD) \in RowId
  BY LastFromIs DEF Shape
<1>4. 0 \in Nat /\ 1 \in Nat
  OBVIOUS
<1> USE DEF At
<1>5. CASE DCall(e)
  <2>1. GoTo(e, "run") /\ e \in DOMAIN DInstanceOf
    BY <1>5 DEF DCall
  <2>2. /\ dPc' \in [DExecutor -> DPlaces]
        /\ \A f \in DExecutor : dPc'[f] # "idle" => f = e \/ dPc[f] # "idle"
    BY <2>1, GoToType DEF DPlaces
  <2> QED BY <1>5, <2>1, <2>2 DEF DCall, DaalTypeOK, dHistory, DInstanceOf
<1>6. CASE QuickCheckReturnLast(e)
  <2>1. e \in DOMAIN DInstanceOf
    BY <1>2, <1>6 DEF QuickCheckReturnLast
  <2>2. CASE rows' = Released(rows, e) /\ \E x \in {0, 1} : Over(e, x)
    <3>1. PICK x \in Nat : Over(e, x)
      BY <2>2
    <3> QED BY <1>1, <1>6, <2>1, <2>2, <3>1, OverType DEF QuickCheckReturnLast, DaalTypeOK, DInstanceOf
  <2>3. CASE dRow' = [dRow EXCEPT ![e] = LastFrom(HEAD)] /\ (GoTo(e, "head") \/ GoTo(e, "update"))
             /\ UNCHANGED <<rows, dStep, dVal, told>>
    <3>1. /\ dPc' \in [DExecutor -> DPlaces]
          /\ \A f \in DExecutor : dPc'[f] # "idle" => f = e \/ dPc[f] # "idle"
      BY <2>1, <2>3, GoToType DEF DPlaces
    <3> QED BY <1>3, <1>6, <2>1, <2>3, <3>1 DEF QuickCheckReturnLast, DaalTypeOK, DInstanceOf
  <2> QED BY <1>6, <2>2, <2>3 DEF QuickCheckReturnLast
<1>7. CASE InsertHead(e)
  <2>1. e \in DOMAIN DInstanceOf /\ GoTo(e, "update")
    BY <1>2, <1>7 DEF InsertHead
  <2>2. /\ dPc' \in [DExecutor -> DPlaces]
        /\ \A f \in DExecutor : dPc'[f] # "idle" => f = e \/ dPc[f] # "idle"
    BY <2>1, GoToType DEF DPlaces
  <2>3. RowsOK(rows')
    <3>1. RowsOK([r \in DOMAIN rows \cup {HEAD} |-> IF r = HEAD THEN NewRow(0) ELSE rows[r]]) /\ RowsOK(rows)
      <4>1. RowsOK(rows) /\ HEAD \in RowId /\ 0 \in Nat
        BY RowIds DEF DaalTypeOK
      <4> QED BY <4>1, NewRowRow
    <3> QED BY <1>7, <3>1 DEF InsertHead
  <2> QED BY <1>7, <2>1, <2>2, <2>3 DEF InsertHead, DaalTypeOK, dHistory, DInstanceOf
<1>8. CASE UpdateRow(e)
  <2>1. e \in DOMAIN DInstanceOf /\ DInstanceOf[e] \in DInstance /\ dRow[e] \in RowId
    BY <1>2, <1>8, OnWalk DEF UpdateRow, Live
  <2>2. CASE Room(dRow[e], e) /\ Cond(dRow[e], e)
    <3>1. dRow[e] \in DOMAIN rows /\ Cid(e) \in DCids
      BY <1>1, <2>1, <2>2 DEF Room, Cid, DCids
    <3>2. RowsOK([rows EXCEPT ![dRow[e]] = Updated(dRow[e], e)])
      BY <2>1, <3>1, UpdatedRow, ChangedRow DEF DaalTypeOK
    <3>3. RowsOK(rows') /\ Over(e, 1)
      BY <1>8, <2>2, <3>2, ReleasedRows DEF UpdateRow
    <3>4. effects' \in Seq(DCids)
      <4>1. effects' = Append(effects, Cid(e)) /\ effects \in Seq(DCids)
        BY <1>8, <2>2 DEF UpdateRow, DaalTypeOK
      <4> QED BY <3>1, <4>1
    <3>5. grants' \subseteq DInstance \X RowId
      BY <1>8, <2>1, <2>2 DEF UpdateRow, DaalTypeOK, Granted
    <3> QED BY <1>4, <1>8, <2>1, <3>3, <3>4, <3>5, OverType DEF UpdateRow, DaalTypeOK, DInstanceOf
  <2>3. CASE ~ (Room(dRow[e], e) /\ Cond(dRow[e], e))
    <3>1. /\ dPc' \in [DExecutor -> DPlaces]
          /\ \A f \in DExecutor : dPc'[f] # "idle" => f = e \/ dPc[f] # "idle"
      BY <1>8, <2>1, <2>3, GoToType DEF UpdateRow, DPlaces
    <3> QED BY <1>8, <2>1, <2>3, <3>1 DEF UpdateRow, DaalTypeOK, DInstanceOf
  <2> QED BY <2>2, <2>3
<1>9. CASE RefuseRow(e)
  <2>1. e \in DOMAIN DInstanceOf /\ DInstanceOf[e] \in DInstance /\ dRow[e] \in RowId
    BY <1>2, <1>9, OnWalk DEF RefuseRow, Live
  <2>2. CASE Room(dRow[e], e)
    <3>1. dRow[e] \in DOMAIN rows
      BY <2>2 DEF Room
    <3>2. RowsOK([rows EXCEPT ![dRow[e]].refused = @ \cup {Cid(e)}])
      <4>1. RowOK([rows[dRow[e]] EXCEPT !.refused = @ \cup {Cid(e)}]) /\ RowsOK(rows)
        BY <2>1, <3>1, UpdatedRow DEF DaalTypeOK
      <4>2. RowsOK([rows EXCEPT ![dRow[e]] = [rows[dRow[e]] EXCEPT !.refused = @ \cup {Cid(e)}]])
        BY <3>1, <4>1, ChangedRow
      <4> QED BY <4>2
    <3>3. RowsOK(rows') /\ Over(e, 0)
      BY <1>9, <2>2, <3>2, ReleasedRows DEF RefuseRow
    <3> QED BY <1>4, <1>9, <2>1, <3>3, OverType DEF RefuseRow, DaalTypeOK, DInstanceOf
  <2>3. CASE ~ Room(dRow[e], e)
    <3>1. /\ dPc' \in [DExecutor -> DPlaces]
          /\ \A f \in DExecutor : dPc'[f] # "idle" => f = e \/ dPc[f] # "idle"
      BY <1>9, <2>1, <2>3, GoToType DEF RefuseRow, DPlaces
    <3> QED BY <1>9, <2>1, <2>3, <3>1 DEF RefuseRow, DaalTypeOK, DInstanceOf
  <2> QED BY <2>2, <2>3
<1>10. CASE LookAtRow(e)
  <2>1. e \in DOMAIN DInstanceOf
    BY <1>2, <1>10 DEF LookAtRow
  <2>2. CASE rows' = Released(rows, e) /\ \E x \in {0, 1} : Over(e, x)
    <3>1. PICK x \in Nat : Over(e, x)
      BY <2>2
    <3> QED BY <1>1, <1>10, <2>1, <2>2, <3>1, OverType DEF LookAtRow, DaalTypeOK, DInstanceOf
  <2>3. CASE /\ dRow[e] \in DOMAIN rows /\ dRow' = [dRow EXCEPT ![e] = rows[dRow[e]].next]
             /\ GoTo(e, "update") /\ UNCHANGED <<rows, told, dStep, dVal>>
    <3>1. rows[dRow[e]].next \in RowId \cup {NoRow}
      BY <2>3 DEF Shape, ListOK, NextsOK
    <3>2. /\ dPc' \in [DExecutor -> DPlaces]
          /\ \A f \in DExecutor : dPc'[f] # "idle" => f = e \/ dPc[f] # "idle"
      BY <2>1, <2>3, GoToType DEF DPlaces
    <3> QED BY <1>10, <2>1, <2>3, <3>1, <3>2 DEF LookAtRow, DaalTypeOK, DInstanceOf
  <2>4. CASE GoTo(e, "copy") /\ UNCHANGED <<rows, told, dStep, dRow, dVal>>
    <3>2. /\ dPc' \in [DExecutor -> DPlaces]
          /\ \A f \in DExecutor : dPc'[f] # "idle" => f = e \/ dPc[f] # "idle"
      BY <2>1, <2>4, GoToType DEF DPlaces
    <3> QED BY <1>10, <2>1, <2>4, <3>2 DEF LookAtRow, DaalTypeOK, DInstanceOf
  <2> QED BY <1>10, <2>2, <2>3, <2>4 DEF LookAtRow
<1>11. CASE CopyValue(e)
  <2>1. e \in DOMAIN DInstanceOf /\ GoTo(e, "create")
    BY <1>2, <1>11 DEF CopyValue
  <2>2. /\ dPc' \in [DExecutor -> DPlaces]
        /\ \A f \in DExecutor : dPc'[f] # "idle" => f = e \/ dPc[f] # "idle"
    BY <2>1, GoToType DEF DPlaces
  <2>3. Copied(dRow[e]) \in Nat
    BY DEF Copied, ValueOf, DaalTypeOK, RowsOK, RowOK, DRowType
  <2> QED BY <1>11, <2>1, <2>2, <2>3 DEF CopyValue, DaalTypeOK, dHistory, DInstanceOf
<1>12. CASE CreateRow(e)
  <2>1. e \in DOMAIN DInstanceOf /\ GoTo(e, "swap")
    BY <1>2, <1>12 DEF CreateRow
  <2>2. /\ dPc' \in [DExecutor -> DPlaces]
        /\ \A f \in DExecutor : dPc'[f] # "idle" => f = e \/ dPc[f] # "idle"
    BY <2>1, GoToType DEF DPlaces
  <2>3. FreeRow \in RowId /\ FreeRow \in Nat
    BY <1>12, FreeRowIs, RowIds DEF CreateRow
  <2>4. RowsOK(rows')
    <3>1. dVal[e] \in Nat /\ RowsOK(rows)
      BY DEF DaalTypeOK
    <3>2. RowsOK([r \in DOMAIN rows \cup {FreeRow} |-> IF r = FreeRow THEN NewRow(dVal[e]) ELSE rows[r]])
      BY <2>3, <3>1, NewRowRow
    <3> QED BY <1>12, <3>2 DEF CreateRow
  <2> QED BY <1>12, <2>1, <2>2, <2>3, <2>4 DEF CreateRow, DaalTypeOK, dHistory, DInstanceOf
<1>13. CASE SwapRow(e)
  <2>1. e \in DOMAIN DInstanceOf /\ dRow[e] \in DOMAIN rows
    BY <1>2, <1>13 DEF SwapRow
  <2>2. dVal[e] \in RowId
    BY <1>13 DEF Shape, HoldsOK, Holding, SwapRow, ListOK, NextsOK
  <2>3. /\ dPc' \in [DExecutor -> DPlaces]
        /\ \A f \in DExecutor : dPc'[f] # "idle" => f = e \/ dPc[f] # "idle"
    BY <1>13, <2>1, GoToType DEF DPlaces, SwapRow
  <2>4. RowsOK([rows EXCEPT ![dRow[e]].next = dVal[e]])
    <3>1. RowOK([rows[dRow[e]] EXCEPT !.next = dVal[e]])
      <4>1. RowOK(rows[dRow[e]])
        BY <2>1 DEF DaalTypeOK, RowsOK
      <4> QED BY <2>2, <4>1, RowWith, FS_EmptySet
    <3>2. RowsOK([rows EXCEPT ![dRow[e]] = [rows[dRow[e]] EXCEPT !.next = dVal[e]]])
      BY <2>1, <3>1, ChangedRow DEF DaalTypeOK
    <3> QED BY <3>2
  <2> QED BY <1>13, <2>1, <2>2, <2>3, <2>4 DEF SwapRow, DaalTypeOK, dHistory, DInstanceOf
<1>14. CASE DropRow(e)
  <2>1. e \in DOMAIN DInstanceOf /\ GoTo(e, "follow")
    BY <1>2, <1>14 DEF DropRow
  <2>2. /\ dPc' \in [DExecutor -> DPlaces]
        /\ \A f \in DExecutor : dPc'[f] # "idle" => f = e \/ dPc[f] # "idle"
    BY <2>1, GoToType DEF DPlaces
  <2>3. RowsOK(rows')
    BY <1>14, WithoutRow DEF DropRow, Without, DaalTypeOK
  <2> QED BY <1>14, <2>1, <2>2, <2>3 DEF DropRow, DaalTypeOK, dHistory, DInstanceOf
<1>15. CASE FollowNext(e)
  <2>1. e \in DOMAIN DInstanceOf /\ GoTo(e, "update")
    BY <1>2, <1>15 DEF FollowNext
  <2>2. /\ dPc' \in [DExecutor -> DPlaces]
        /\ \A f \in DExecutor : dPc'[f] # "idle" => f = e \/ dPc[f] # "idle"
    BY <2>1, GoToType DEF DPlaces
  <2>3. rows[dRow[e]].next \in RowId \cup {NoRow}
    BY <1>15, OnWalk DEF FollowNext, Live, Shape, ListOK, NextsOK
  <2> QED BY <1>4, <1>15, <2>1, <2>2, <2>3 DEF FollowNext, DaalTypeOK, dHistory, DInstanceOf
<1>16. CASE LastRow(e)
  <2>1. e \in DOMAIN DInstanceOf /\ GoTo(e, "get")
    BY <1>2, <1>16 DEF LastRow
  <2>2. /\ dPc' \in [DExecutor -> DPlaces]
        /\ \A f \in DExecutor : dPc'[f] # "idle" => f = e \/ dPc[f] # "idle"
    BY <2>1, GoToType DEF DPlaces
  <2> QED BY <1>3, <1>16, <2>1, <2>2 DEF LastRow, DaalTypeOK, dHistory, DInstanceOf
<1>17. CASE GetRow(e)
  <2>1. e \in DOMAIN DInstanceOf
    BY <1>2, <1>17 DEF GetRow
  <2>2. CASE dRow[e] \in DOMAIN rows /\ rows[dRow[e]].next # NoRow
    <3>1. rows[dRow[e]].next \in RowId \cup {NoRow}
      BY <2>2 DEF Shape, ListOK, NextsOK
    <3> QED BY <1>17, <2>2, <3>1 DEF GetRow, DaalTypeOK, dHistory, DInstanceOf
  <2>3. CASE ~ (dRow[e] \in DOMAIN rows /\ rows[dRow[e]].next # NoRow)
    <3>1. /\ dPc' \in [DExecutor -> DPlaces]
          /\ \A f \in DExecutor : dPc'[f] # "idle" => f = e \/ dPc[f] # "idle"
      BY <1>17, <2>1, <2>3, GoToType DEF DPlaces, GetRow
    <3>2. ValueOf(dRow[e]) \in Nat
      BY DEF ValueOf, DaalTypeOK, RowsOK, RowOK, DRowType
    <3> QED BY <1>17, <2>1, <2>3, <3>1, <3>2 DEF GetRow, DaalTypeOK, dHistory, DInstanceOf
  <2> QED BY <2>2, <2>3
<1>18. CASE PutRead(e)
  <2>1. e \in DOMAIN DInstanceOf /\ DInstanceOf[e] \in DInstance
    BY <1>2, <1>18 DEF PutRead
  <2>2. FirstResult(e) \in Nat
    BY <2>1 DEF FirstResult, DaalTypeOK
  <2>3. /\ readLog' = [i \in DInstance |-> readLog'[i]]
        /\ \A i \in DInstance : \A s \in DOMAIN readLog'[i] : s \in Nat /\ readLog'[i][s] \in Nat
    <3> DEFINE log == readLog[DInstanceOf[e]]
               new == [s \in DOMAIN log \cup {dStep[e]} |-> IF s = dStep[e] THEN FirstResult(e) ELSE log[s]]
    <3>1. readLog = [i \in DInstance |-> readLog[i]]
      BY DEF DaalTypeOK
    <3>2. readLog' = [readLog EXCEPT ![DInstanceOf[e]] = new]
      BY <1>18 DEF PutRead
    <3>3. \A s \in DOMAIN new : s \in Nat /\ new[s] \in Nat
      BY <1>1, <2>1, <2>2 DEF DaalTypeOK
    <3> HIDE DEF new
    <3> QED BY <2>1, <3>1, <3>2, <3>3 DEF DaalTypeOK
  <2>4. Over(e, FirstResult(e)) /\ RowsOK(rows')
    BY <1>1, <1>18 DEF PutRead
  <2>5. /\ dPc' \in [DExecutor -> DPlaces] /\ dStep' \in [DExecutor -> Nat]
        /\ dRow' \in [DExecutor -> RowId \cup {NoRow}] /\ dVal' \in [DExecutor -> Nat]
        /\ told' \in [DInstance -> SUBSET (Nat \X Nat)]
        /\ \A f \in DExecutor : dPc'[f] # "idle" => f = e \/ dPc[f] # "idle"
    BY <2>1, <2>2, <2>4, OverType
  <2>6. UNCHANGED <<dScenario, dDone, dRetired, collector, dCrashes, effects, grants, forgotten>>
    BY <1>18 DEF PutRead
  <2> QED BY <2>1, <2>3, <2>4, <2>5, <2>6 DEF DaalTypeOK, DInstanceOf
<1>19. CASE DFinish(e)
  <2>1. e \in DOMAIN DInstanceOf /\ GoTo(e, "done") /\ DInstanceOf[e] \in DInstance
    BY <1>2, <1>19 DEF DFinish
  <2>2. /\ dPc' \in [DExecutor -> DPlaces]
        /\ \A f \in DExecutor : dPc'[f] # "idle" => f = e \/ dPc[f] # "idle"
    BY <2>1, GoToType DEF DPlaces
  <2> QED BY <1>19, <2>1, <2>2 DEF DFinish, DaalTypeOK, dHistory, DInstanceOf
<1>20. CASE DDie(e)
  BY <1>1, <1>4, <1>20 DEF DDie, GoTo, DaalTypeOK, dHistory, DInstanceOf, DPlaces
<1> QED BY <1>5, <1>6, <1>7, <1>8, <1>9, <1>10, <1>11, <1>12, <1>13, <1>14, <1>15, <1>16, <1>17,
           <1>18, <1>19, <1>20 DEF DaalStep

LEMMA CollectType ==
  ASSUME DaalTypeOK, Shape, Collect \/ CollectorDies
  PROVE  DaalTypeOK'
<1>1. /\ RowsOK(rows) /\ collector.at \in {"idle", "clear", "heads", "row", "stamp", "sweep"}
      /\ collector.prev \in RowId /\ collector.cur \in RowId \cup {NoRow}
      /\ collector = [at |-> collector.at, prev |-> collector.prev, cur |-> collector.cur]
  BY DEF DaalTypeOK
<1>2. Idle \in [at : {"idle", "clear", "heads", "row", "stamp", "sweep"}, prev : RowId, cur : RowId \cup {NoRow}]
  BY RowIds DEF Idle
<1>3. \A q \in DOMAIN rows : q \in RowId /\ rows[q].next \in RowId \cup {NoRow} /\ RowOK(rows[q])
  BY DEF DaalTypeOK, RowsOK, RowOK, DRowType
<1>4. CASE ScanIntent
  <2>1. DInstanceOf' = DInstanceOf
    BY <1>4 DEF ScanIntent, DInstanceOf
  <2>2. dRetired' \subseteq DInstance
    BY <1>4 DEF ScanIntent, DaalTypeOK
  <2> QED BY <1>1, <1>4, <2>1, <2>2 DEF ScanIntent, DaalTypeOK, dEnv, dHistory
<1>5. CASE ClearRowDAAL
  <2>1. DInstanceOf' = DInstanceOf
    BY <1>5 DEF ClearRowDAAL, DInstanceOf
  <2>2. PICK r \in DOMAIN rows : rows' = [rows EXCEPT ![r] = Cleared(r)]
    BY <1>5 DEF ClearRowDAAL
  <2>3. RowsOK(rows')
    BY <1>1, <2>2, ClearedRow, ChangedRow
  <2> QED BY <1>5, <2>1, <2>3 DEF ClearRowDAAL, DaalTypeOK, dEnv, dHistory
<1>6. CASE ClearIntent
  <2>1. DInstanceOf' = DInstanceOf
    BY <1>6 DEF ClearIntent, DInstanceOf
  <2>2. /\ readLog' = [i \in DInstance |-> readLog'[i]]
        /\ \A i \in DInstance : \A s \in DOMAIN readLog'[i] : s \in Nat /\ readLog'[i][s] \in Nat
    BY <1>6 DEF ClearIntent, DaalTypeOK
  <2> QED BY <1>1, <1>6, <2>1, <2>2 DEF ClearIntent, DaalTypeOK, dEnv, dHistory
<1>7. CASE QueryHeads
  <2>1. DInstanceOf' = DInstanceOf
    BY <1>7 DEF QueryHeads, DInstanceOf
  <2> QED BY <1>2, <1>3, <1>7, <2>1, RowIds DEF QueryHeads, DaalTypeOK, dEnv, dHistory
<1>8. CASE ClearRow
  <2>1. DInstanceOf' = DInstanceOf
    BY <1>8 DEF ClearRow, DInstanceOf
  <2>2. collector.at = "row" /\ collector.prev \in DOMAIN rows /\ collector.cur \in DOMAIN rows
    <3>1. collector.at = "row"
      BY <1>8 DEF ClearRow, Collecting
    <3> QED BY <3>1, HeadFirst DEF Shape, CollectorOK
  <2>3. RowsOK([rows EXCEPT ![collector.prev].next = rows[collector.cur].next])
    <3>1. RowOK([rows[collector.prev] EXCEPT !.next = rows[collector.cur].next])
      BY <1>3, <2>2, RowWith, FS_EmptySet
    <3>2. RowsOK([rows EXCEPT ![collector.prev] = [rows[collector.prev] EXCEPT !.next = rows[collector.cur].next]])
      BY <1>1, <2>2, <3>1, ChangedRow
    <3> QED BY <3>2
  <2>4. RowsOK(rows')
    BY <1>1, <1>8, <2>3 DEF ClearRow
  <2>5. forgotten' \subseteq DCids
    BY <1>3, <1>8, <2>2 DEF ClearRow, DaalTypeOK, RowOK, DRowType
  <2>6. collector' \in [at : {"idle", "clear", "heads", "row", "stamp", "sweep"}, prev : RowId, cur : RowId \cup {NoRow}]
    BY <1>1, <1>2, <1>3, <1>8, <2>2 DEF ClearRow
  <2> QED BY <1>8, <2>1, <2>4, <2>5, <2>6 DEF ClearRow, DaalTypeOK, dEnv
<1>9. CASE StampRow
  <2>1. DInstanceOf' = DInstanceOf
    BY <1>9 DEF StampRow, DInstanceOf
  <2>2. collector.cur \in DOMAIN rows
    BY <1>9 DEF StampRow, Collecting, Shape, CollectorOK
  <2>3. RowsOK(rows')
    <3> DEFINE w == {e \in DExecutor : dPc[e] \notin {"idle", "run", "done"}}
    <3>1. RowOK([rows[collector.cur] EXCEPT !.stamped = TRUE, !.since = w])
      BY <1>3, <2>2, RowWith, FS_EmptySet
    <3>2. RowsOK([rows EXCEPT ![collector.cur] = [rows[collector.cur] EXCEPT !.stamped = TRUE, !.since = w]])
      BY <1>1, <2>2, <3>1, ChangedRow
    <3>3. rows' = [rows EXCEPT ![collector.cur] = [rows[collector.cur] EXCEPT !.stamped = TRUE, !.since = w]]
      BY <1>9, <2>2 DEF StampRow
    <3> QED BY <3>2, <3>3
  <2>4. collector' \in [at : {"idle", "clear", "heads", "row", "stamp", "sweep"}, prev : RowId, cur : RowId \cup {NoRow}]
    BY <1>1, <1>3, <1>9, <2>2 DEF StampRow
  <2> QED BY <1>9, <2>1, <2>3, <2>4 DEF StampRow, DaalTypeOK, dEnv, dHistory
<1>10. CASE ClearDangling
  <2>1. DInstanceOf' = DInstanceOf
    BY <1>10 DEF ClearDangling, DInstanceOf
  <2>2. RowsOK(rows')
    BY <1>1, <1>10, WithoutRow DEF ClearDangling, Without
  <2>3. collector' = collector \/ collector' = Idle
    BY <1>10 DEF ClearDangling
  <2>4. grants' \subseteq grants
    BY <1>10 DEF ClearDangling
  <2> QED BY <1>2, <1>10, <2>1, <2>2, <2>3, <2>4 DEF ClearDangling, DaalTypeOK, dEnv
<1>11. CASE CollectorDies
  <2>1. DInstanceOf' = DInstanceOf
    BY <1>11 DEF CollectorDies, DInstanceOf
  <2> QED BY <1>1, <1>2, <1>11, <2>1 DEF CollectorDies, DaalTypeOK, dEnv, dHistory
<1> QED BY <1>4, <1>5, <1>6, <1>7, <1>8, <1>9, <1>10, <1>11 DEF Collect

-----------------------------------------------------------------------------
(***************************************************************************)
(* A step keeps the shape.                                                 *)
(***************************************************************************)
Stays(f) ==
  /\ dPc'[f] = dPc[f] /\ dRow'[f] = dRow[f] /\ dVal'[f] = dVal[f]
  /\ \A q \in DOMAIN rows : f \in rows[q].since => f \in rows'[q].since

\* No path leads to a row that is not linked yet.
LEMMA NotHeld ==
  ASSUME DaalTypeOK, Shape, NEW g \in DExecutor, Holding(g)
  PROVE  /\ HEAD \in DOMAIN rows /\ dVal[g] \in RowId
         /\ \A r \in RowId : PathOK(rows, r) => dVal[g] \notin RowsFrom(rows, r) /\ dVal[g] # r
         /\ \A f \in DExecutor : Live(f) => dVal[g] \notin RowsFrom(rows, dRow[f]) /\ dVal[g] # dRow[f]
<1>1. HEAD \in DOMAIN rows
  BY OnWalk DEF Holding, Live
<1>2. dVal[g] \in DOMAIN rows /\ rows[dVal[g]].next = NoRow /\ dVal[g] \notin RowsFrom(rows, HEAD) /\ dVal[g] \in RowId
  BY DEF Shape, HoldsOK, Fresh, ListOK, NextsOK
<1>3. \A r \in RowId : PathOK(rows, r) => dVal[g] \notin RowsFrom(rows, r) /\ dVal[g] # r
  BY <1>2, PathEnds, FromSelf DEF Shape, LastOf
<1>4. \A f \in DExecutor : Live(f) => dVal[g] \notin RowsFrom(rows, dRow[f]) /\ dVal[g] # dRow[f]
  BY <1>1, <1>3, OnWalk
<1> QED BY <1>1, <1>2, <1>3, <1>4

\* It stays that way.
LEMMA HoldsStay ==
  ASSUME Shape,
         \A g \in DExecutor : Holding(g)' =>
           /\ Holding(g) /\ dVal'[g] = dVal[g]
           /\ dVal[g] \in DOMAIN rows' \ RowsFrom(rows', HEAD) /\ Fresh(rows'[dVal[g]])
  PROVE  \A g \in DExecutor : HoldsOK(g)'
<1> SUFFICES ASSUME NEW g \in DExecutor, Holding(g)' PROVE HoldsOK(g)'
  BY DEF HoldsOK
<1>1. HoldsOK(g) /\ Holding(g)
  BY DEF Shape
<1>2. \A f \in DExecutor \ {g} : Holding(f)' => dVal'[f] # dVal'[g]
  BY <1>1 DEF HoldsOK
<1>3. Fresh(rows[dVal[g]])'
  BY DEF Fresh
<1> QED BY <1>1, <1>2, <1>3 DEF HoldsOK

\* A step that changes no NEXT, where the executions in X move.
LEMMA SameShape ==
  ASSUME DaalTypeOK, Shape, SameNexts(rows, rows'), NEW X \in SUBSET DExecutor,
         UNCHANGED <<dRetired, dScenario>>,
         \A f \in DExecutor \ X : Stays(f),
         \A q \in DOMAIN rows : rows'[q].stamped = rows[q].stamped,
         \A f \in X : ActiveOK(f)' /\ WalkOK(f)' /\ (Holding(f)' => Holding(f) /\ dVal'[f] = dVal[f]),
         \A g \in DExecutor : Holding(g) => Fresh(rows'[dVal[g]])
  PROVE  /\ ListOK(rows') /\ LinkedOK'
         /\ \A f \in DExecutor : ActiveOK(f)' /\ WalkOK(f)' /\ HoldsOK(f)'
<1>1. /\ ListOK(rows') /\ DOMAIN rows' = DOMAIN rows
      /\ \A q \in DOMAIN rows : rows'[q].next = rows[q].next
      /\ RowsFrom(rows', HEAD) = RowsFrom(rows, HEAD)
      /\ \A r \in RowId : RowsFrom(rows', r) = RowsFrom(rows, r) /\ (PathOK(rows, r) => PathOK(rows', r))
  <2>1. ListOK(rows)
    BY DEF Shape
  <2> QED BY <2>1, RowIds, SameKeepsList DEF SameNexts
<1>2. LinkedOK'
  BY <1>1 DEF LinkedOK, Shape
<1>3. ASSUME NEW f \in DExecutor \ X PROVE ActiveOK(f)' /\ WalkOK(f)'
  <2>1. ActiveOK(f) /\ WalkOK(f) /\ Stays(f)
    BY DEF Shape
  <2>2. DInstanceOf' = DInstanceOf
    BY DEF DInstanceOf
  <2>3. ActiveOK(f)'
    BY <2>1, <2>2 DEF ActiveOK, Stays
  <2>4. ASSUME Live(f) PROVE WalkOK(f)'
    <3>1. dRow[f] \in RowId /\ (HEAD \in DOMAIN rows => dRow[f] \in DOMAIN rows)
      BY <2>4, OnWalk
    <3>2. dRow'[f] \in RowId /\ RowsFrom(rows', dRow'[f]) = RowsFrom(rows, dRow[f])
      BY <1>1, <2>1, <3>1 DEF Stays
    <3>3. IF HEAD \in DOMAIN rows' THEN PathOK(rows', dRow'[f])
          ELSE dRow'[f] = HEAD /\ dPc'[f] \in {"head", "get", "put"}
      BY <1>1, <2>1, <2>4, <3>1 DEF Stays, WalkOK
    <3>4. dPc'[f] \in {"drop", "follow"} => rows'[dRow'[f]].next # NoRow
      BY <1>1, <2>1, <2>4, <3>1 DEF Stays, WalkOK
    <3>5. \A q \in RowsFrom(rows', dRow'[f]) : q \in DOMAIN rows' /\ rows'[q].stamped => f \in rows'[q].since
      BY <1>1, <2>1, <2>4, <3>2 DEF Stays, WalkOK
    <3> QED BY <3>2, <3>3, <3>4, <3>5 DEF WalkOK
  <2>5. Live(f)' => Live(f)
    BY <2>1 DEF Live, Stays
  <2> QED BY <2>3, <2>4, <2>5 DEF WalkOK
<1>4. \A g \in DExecutor : HoldsOK(g)'
  <2>1. ASSUME NEW g \in DExecutor, Holding(g)'
        PROVE  /\ Holding(g) /\ dVal'[g] = dVal[g]
               /\ dVal[g] \in DOMAIN rows' \ RowsFrom(rows', HEAD) /\ Fresh(rows'[dVal[g]])
    <3>1. Holding(g) /\ dVal'[g] = dVal[g]
      BY <2>1 DEF Stays, Holding
    <3>2. HoldsOK(g)
      BY DEF Shape
    <3> QED BY <1>1, <3>1, <3>2 DEF HoldsOK
  <2> QED BY <2>1, HoldsStay
<1> QED BY <1>1, <1>2, <1>3, <1>4

\* The collector is not disturbed by it.
LEMMA SameCollector ==
  ASSUME DaalTypeOK, Shape, SameNexts(rows, rows'), UNCHANGED collector
  PROVE  CollectorOK'
<1>1. /\ DOMAIN rows' = DOMAIN rows /\ \A q \in DOMAIN rows : rows'[q].next = rows[q].next
      /\ RowsFrom(rows', HEAD) = RowsFrom(rows, HEAD)
  BY RowIds, SameKeepsList DEF Shape, SameNexts
<1>2. HEAD \in DOMAIN rows => RowsFrom(rows, HEAD) \subseteq DOMAIN rows
  BY HeadFirst DEF Shape
<1> QED BY <1>1, <1>2 DEF CollectorOK, Shape

\* What the end of an operation does to the rows.
LEMMA ReleasedSame ==
  ASSUME NEW rs, RowsOK(rs), NEW e
  PROVE  /\ SameNexts(rs, Released(rs, e))
         /\ \A q \in DOMAIN rs :
              /\ Released(rs, e)[q].stamped = rs[q].stamped
              /\ Released(rs, e)[q].since = rs[q].since \ {e}
              /\ Released(rs, e)[q].v = rs[q].v /\ Released(rs, e)[q].holder = rs[q].holder
              /\ Released(rs, e)[q].logs = rs[q].logs /\ Released(rs, e)[q].refused = rs[q].refused
              /\ Released(rs, e)[q].logSize = rs[q].logSize /\ Released(rs, e)[q].gcSize = rs[q].gcSize
              /\ Released(rs, e)[q].next = rs[q].next /\ Released(rs, e)[q].counted = rs[q].counted
<1>1. \A q \in DOMAIN rs : rs[q] \in DRowType
  BY DEF RowsOK, RowOK
<1>2. /\ DOMAIN Released(rs, e) = DOMAIN rs
      /\ \A q \in DOMAIN rs : Released(rs, e)[q] = [rs[q] EXCEPT !.since = @ \ {e}]
  BY DEF Released
<1>3. \A q \in DOMAIN rs : /\ Released(rs, e)[q].stamped = rs[q].stamped
              /\ Released(rs, e)[q].since = rs[q].since \ {e}
              /\ Released(rs, e)[q].v = rs[q].v /\ Released(rs, e)[q].holder = rs[q].holder
              /\ Released(rs, e)[q].logs = rs[q].logs /\ Released(rs, e)[q].refused = rs[q].refused
              /\ Released(rs, e)[q].logSize = rs[q].logSize /\ Released(rs, e)[q].gcSize = rs[q].gcSize
              /\ Released(rs, e)[q].next = rs[q].next /\ Released(rs, e)[q].counted = rs[q].counted
  BY <1>1, <1>2 DEF DRowType
<1> QED BY <1>2, <1>3 DEF SameNexts

LEMMA ReleasedFresh ==
  ASSUME NEW rs, RowsOK(rs), NEW e, NEW q \in DOMAIN rs, Fresh(rs[q])
  PROVE  Fresh(Released(rs, e)[q])
BY ReleasedSame DEF Fresh

\* The others do not move.
OnlyMoves(e) ==
  \A f \in DExecutor \ {e} :
    dPc'[f] = dPc[f] /\ dStep'[f] = dStep[f] /\ dRow'[f] = dRow[f] /\ dVal'[f] = dVal[f]

\* An operation that is over.
LEMMA EndsShape ==
  ASSUME DaalTypeOK, Shape, NEW e \in DExecutor, OnlyMoves(e),
         dPc'[e] \in {"idle", "run", "done"}, dPc'[e] = "run" => DInstanceOf[e] \notin dRetired,
         SameNexts(rows, rows'), UNCHANGED <<dRetired, dScenario, collector>>,
         \A q \in DOMAIN rows : rows'[q].stamped = rows[q].stamped /\ rows[q].since \ {e} \subseteq rows'[q].since,
         \A g \in DExecutor : Holding(g) => Fresh(rows'[dVal[g]])
  PROVE  Shape'
<1>1. DInstanceOf' = DInstanceOf
  BY DEF DInstanceOf
<1>2. ActiveOK(e)' /\ WalkOK(e)' /\ ~ Holding(e)'
  BY <1>1 DEF ActiveOK, WalkOK, Holding, Live
<1>3. \A f \in DExecutor \ {e} : Stays(f)
  BY DEF Stays, OnlyMoves
<1>4. /\ ListOK(rows') /\ LinkedOK'
      /\ \A f \in DExecutor : ActiveOK(f)' /\ WalkOK(f)' /\ HoldsOK(f)'
  <2> DEFINE X == {e}
  <2>1. \A f \in X : ActiveOK(f)' /\ WalkOK(f)' /\ (Holding(f)' => Holding(f) /\ dVal'[f] = dVal[f])
    BY <1>2
  <2>2. \A f \in DExecutor \ X : Stays(f)
    BY <1>3
  <2>3. X \in SUBSET DExecutor
    OBVIOUS
  <2> HIDE DEF X
  <2> QED BY <2>1, <2>2, <2>3, SameShape
<1> QED BY <1>4, SameCollector DEF Shape

\* An execution that goes to another row of the list.
LEMMA MovesShape ==
  ASSUME DaalTypeOK, Shape, NEW e \in DExecutor, OnlyMoves(e),
         UNCHANGED <<rows, dRetired, dScenario, collector>>,
         DInstanceOf[e] \notin dRetired, Live(e)', WalkOK(e)', Holding(e)' => Holding(e) /\ dVal'[e] = dVal[e]
  PROVE  Shape'
<1>1. DInstanceOf' = DInstanceOf
  BY DEF DInstanceOf
<1>2. ActiveOK(e)'
  BY <1>1 DEF ActiveOK
<1>3. \A f \in DExecutor \ {e} : Stays(f)
  BY DEF Stays, OnlyMoves
<1>4. SameNexts(rows, rows') /\ \A g \in DExecutor : Holding(g) => Fresh(rows'[dVal[g]])
  BY DEF Shape, SameNexts, HoldsOK
<1>5. /\ ListOK(rows') /\ LinkedOK'
      /\ \A f \in DExecutor : ActiveOK(f)' /\ WalkOK(f)' /\ HoldsOK(f)'
  <2> DEFINE X == {e}
  <2>1. \A f \in X : ActiveOK(f)' /\ WalkOK(f)' /\ (Holding(f)' => Holding(f) /\ dVal'[f] = dVal[f])
    BY <1>2
  <2>2. \A q \in DOMAIN rows : rows'[q].stamped = rows[q].stamped
    OBVIOUS
  <2>3. \A f \in DExecutor \ X : Stays(f)
    BY <1>3
  <2>4. X \in SUBSET DExecutor
    OBVIOUS
  <2> HIDE DEF X
  <2> QED BY <1>4, <2>1, <2>2, <2>3, <2>4, SameShape
<1> QED BY <1>4, <1>5, SameCollector DEF Shape

\* The same row, another place.
LEMMA TurnsShape ==
  ASSUME DaalTypeOK, Shape, NEW e \in DExecutor, OnlyMoves(e), Live(e), Live(e)',
         UNCHANGED <<rows, dRetired, dScenario, collector>>, dRow'[e] = dRow[e],
         HEAD \in DOMAIN rows \/ dPc'[e] \in {"head", "get", "put"},
         dPc'[e] \in {"drop", "follow"} => rows[dRow[e]].next # NoRow,
         Holding(e)' => Holding(e) /\ dVal'[e] = dVal[e]
  PROVE  Shape'
<1>1. WalkOK(e)'
  BY DEF WalkOK, Shape
<1> QED BY <1>1, MovesShape, OnWalk

\* The path behind a row.
LEMMA NextWalk ==
  ASSUME DaalTypeOK, Shape, NEW e \in DExecutor, Live(e), HEAD \in DOMAIN rows, rows[dRow[e]].next # NoRow
  PROVE  /\ rows[dRow[e]].next \in RowId /\ PathOK(rows, rows[dRow[e]].next)
         /\ RowsFrom(rows, dRow[e]) = {dRow[e]} \cup RowsFrom(rows, rows[dRow[e]].next)
BY OnWalk, PathOfNext DEF Shape

\* The next row.
LEMMA FollowsShape ==
  ASSUME DaalTypeOK, Shape, NEW e \in DExecutor, OnlyMoves(e), Live(e), dPc'[e] \in {"update", "get"},
         UNCHANGED <<rows, dRetired, dScenario, collector>>,
         HEAD \in DOMAIN rows, rows[dRow[e]].next # NoRow, dRow'[e] = rows[dRow[e]].next
  PROVE  Shape'
<1>1. \A q \in RowsFrom(rows, dRow'[e]) : q \in DOMAIN rows /\ rows[q].stamped => e \in rows[q].since
  BY NextWalk DEF WalkOK, Shape
<1>2. WalkOK(e)' /\ Live(e)' /\ ~ Holding(e)'
  BY <1>1, NextWalk DEF WalkOK, Live, Holding
<1> QED BY <1>2, MovesShape, OnWalk

\* The last row.
LEMMA StartsShape ==
  ASSUME DaalTypeOK, Shape, NEW e \in DExecutor, OnlyMoves(e),
         UNCHANGED <<rows, dRetired, dScenario, collector>>, DInstanceOf[e] \notin dRetired,
         dRow'[e] = LastFrom(HEAD), dPc'[e] \in {"head", "get"} \/ (dPc'[e] = "update" /\ HEAD \in DOMAIN rows)
  PROVE  Shape'
<1>1. LastFrom(HEAD) \in RowId /\ (HEAD \notin DOMAIN rows => LastFrom(HEAD) = HEAD)
  BY LastFromIs DEF Shape
<1>2. ASSUME HEAD \in DOMAIN rows
      PROVE  /\ PathOK(rows, LastFrom(HEAD))
             /\ \A q \in RowsFrom(rows, LastFrom(HEAD)) : ~ rows[q].stamped
  <2>1. LastOf(rows, LastFrom(HEAD))
    BY <1>2, LastFromIs DEF Shape
  <2> QED BY <2>1, PathOfLast DEF LastOf, Shape, LinkedOK
<1>3. ASSUME HEAD \notin DOMAIN rows PROVE DOMAIN rows = {}
  BY <1>3 DEF Shape, ListOK
<1>4. WalkOK(e)' /\ Live(e)' /\ ~ Holding(e)'
  BY <1>1, <1>2, <1>3 DEF WalkOK, Live, Holding
<1> QED BY <1>4, MovesShape

\* InsertHead.
LEMMA FirstRowShape ==
  ASSUME DaalTypeOK, Shape, NEW e \in DExecutor, OnlyMoves(e), Live(e),
         HEAD \notin DOMAIN rows, dPc'[e] = "update", dRow'[e] = dRow[e],
         UNCHANGED <<dRetired, dScenario, collector>>,
         rows' = [r \in {HEAD} |-> NewRow(0)]
  PROVE  Shape'
<1>1. DInstanceOf' = DInstanceOf
  BY DEF DInstanceOf
<1>2. DOMAIN rows' = {HEAD} /\ rows'[HEAD].next = NoRow /\ ~ rows'[HEAD].stamped
  BY DEF NewRow
<1>3. ListOK(rows') /\ PathOK(rows', HEAD) /\ RowsFrom(rows', HEAD) = {HEAD}
  BY <1>2, FirstRowIsList
<1>4. LinkedOK'
  BY <1>2, <1>3 DEF LinkedOK
<1>5. CollectorOK'
  BY DEF Shape, CollectorOK
<1>6. ASSUME NEW f \in DExecutor PROVE ActiveOK(f)' /\ WalkOK(f)' /\ HoldsOK(f)'
  <2>1. Live(f) => dRow[f] = HEAD /\ dPc[f] \in {"head", "get", "put"}
    BY OnWalk
  <2>2. dRow'[f] = dRow[f] /\ (Live(f)' => Live(f)) /\ ~ Holding(f)' /\ (Live(f)' => dPc'[f] \in {"head", "get", "put", "update"})
    BY <2>1 DEF OnlyMoves, Live, Holding
  <2>3. ActiveOK(f)'
    <3>1. dPc'[f] \notin {"idle", "done"} => dPc[f] \notin {"idle", "done"}
      BY DEF OnlyMoves, Live
    <3> QED BY <1>1, <3>1 DEF ActiveOK, Shape
  <2>4. WalkOK(f)'
    BY <1>2, <1>3, <2>1, <2>2, RowIds DEF WalkOK
  <2> QED BY <2>2, <2>3, <2>4 DEF HoldsOK
<1> QED BY <1>3, <1>4, <1>5, <1>6 DEF Shape

\* Rows come and go that are not linked.
LEMMA OthersShape ==
  ASSUME DaalTypeOK, Shape, HEAD \in DOMAIN rows, NextsOK(rows'),
         \A q \in DOMAIN rows \cap DOMAIN rows' :
           rows'[q].next = rows[q].next /\ rows'[q].stamped = rows[q].stamped /\ rows'[q].since = rows[q].since,
         \A q \in DOMAIN rows' \ DOMAIN rows : ~ rows'[q].stamped,
         RowsFrom(rows, HEAD) \subseteq DOMAIN rows', UNCHANGED <<dRetired, dScenario>>,
         \A f \in DExecutor :
           /\ dRow'[f] = dRow[f] /\ (dPc'[f] \notin {"idle", "done"} => dPc[f] \notin {"idle", "done"})
           /\ Live(f)' =>
                /\ Live(f) /\ RowsFrom(rows, dRow[f]) \subseteq DOMAIN rows'
                /\ dPc'[f] \in {"drop", "follow"} => dPc[f] \in {"drop", "follow"}
  PROVE  /\ ListOK(rows') /\ HEAD \in DOMAIN rows' /\ RowsFrom(rows', HEAD) = RowsFrom(rows, HEAD)
         /\ \A r \in RowId : PathOK(rows, r) /\ RowsFrom(rows, r) \subseteq DOMAIN rows' =>
              PathOK(rows', r) /\ RowsFrom(rows', r) = RowsFrom(rows, r)
         /\ LinkedOK' /\ \A f \in DExecutor : ActiveOK(f)' /\ WalkOK(f)'
<1>1. /\ ListOK(rows') /\ HEAD \in DOMAIN rows'
      /\ RowsFrom(rows', HEAD) = RowsFrom(rows, HEAD)
      /\ \A r \in RowId : PathOK(rows, r) /\ RowsFrom(rows, r) \subseteq DOMAIN rows' =>
              PathOK(rows', r) /\ RowsFrom(rows', r) = RowsFrom(rows, r)
  <2>1. ListOK(rows)
    BY DEF Shape
  <2> QED BY <2>1, OthersKeepList
<1>2. LinkedOK'
  BY <1>1, HeadFirst DEF LinkedOK, Shape
<1>3. ASSUME NEW f \in DExecutor PROVE ActiveOK(f)' /\ WalkOK(f)'
  <2>1. DInstanceOf' = DInstanceOf
    BY DEF DInstanceOf
  <2>2. ActiveOK(f)'
    BY <2>1 DEF ActiveOK, Shape
  <2>3. ASSUME Live(f)' PROVE WalkOK(f)'
    <3>1. Live(f) /\ dRow[f] \in RowId /\ dRow'[f] = dRow[f] /\ PathOK(rows, dRow[f]) /\ dRow[f] \in RowsFrom(rows, dRow[f])
      BY <2>3, OnWalk
    <3>2. PathOK(rows', dRow[f]) /\ RowsFrom(rows', dRow[f]) = RowsFrom(rows, dRow[f])
      BY <1>1, <2>3, <3>1
    <3>3. \A q \in RowsFrom(rows, dRow[f]) : q \in DOMAIN rows /\ q \in DOMAIN rows'
      BY <3>1, <3>2 DEF PathOK
    <3>4. dPc'[f] \in {"drop", "follow"} => rows'[dRow[f]].next # NoRow
      BY <2>3, <3>1, <3>3 DEF WalkOK, Shape
    <3>5. \A q \in RowsFrom(rows, dRow[f]) : rows'[q].stamped => f \in rows'[q].since
      BY <3>1, <3>3 DEF WalkOK, Shape
    <3>6. /\ dRow'[f] \in RowId /\ PathOK(rows', dRow'[f])
          /\ dPc'[f] \in {"drop", "follow"} => rows'[dRow'[f]].next # NoRow
          /\ \A q \in RowsFrom(rows', dRow'[f]) : q \in DOMAIN rows' /\ rows'[q].stamped => f \in rows'[q].since
      BY <3>1, <3>2, <3>4, <3>5
    <3> QED BY <1>1, <3>6 DEF WalkOK
  <2> QED BY <2>2, <2>3 DEF WalkOK
<1> QED BY <1>1, <1>2, <1>3

\* Nor does that disturb the collector.
LEMMA OthersCollector ==
  ASSUME DaalTypeOK, Shape, HEAD \in DOMAIN rows, HEAD \in DOMAIN rows', UNCHANGED collector,
         RowsFrom(rows', HEAD) = RowsFrom(rows, HEAD), RowsFrom(rows, HEAD) \subseteq DOMAIN rows',
         \A q \in DOMAIN rows \cap DOMAIN rows' : rows'[q].next = rows[q].next,
         collector.at = "row" => collector.cur \in DOMAIN rows',
         collector.at = "stamp" => collector.cur \in DOMAIN rows'
  PROVE  CollectorOK'
<1>1. RowsFrom(rows, HEAD) \subseteq DOMAIN rows
  BY HeadFirst DEF Shape
<1> QED BY <1>1 DEF CollectorOK, Shape

\* The rows that the collector is at.
LEMMA CollectorRows ==
  ASSUME DaalTypeOK, Shape
  PROVE  /\ collector.at \in {"row", "stamp"} =>
              /\ HEAD \in DOMAIN rows /\ collector.prev \in RowsFrom(rows, HEAD)
              /\ collector.prev \in DOMAIN rows /\ collector.cur \in DOMAIN rows
         /\ collector.at = "row" =>
              collector.cur \in RowsFrom(rows, HEAD) /\ rows[collector.prev].next = collector.cur
         /\ collector.at = "stamp" => rows[collector.cur].next # NoRow
<1>1. ListOK(rows) /\ NextsOK(rows) /\ CollectorOK /\ NoRow \notin RowId
  BY RowIds DEF Shape, ListOK
<1>2. ASSUME collector.at = "row" PROVE collector.cur \in RowsFrom(rows, HEAD)
  <2>1. collector.cur \in RowId /\ collector.prev \in RowsFrom(rows, HEAD) /\ collector.prev \in DOMAIN rows
        /\ rows[collector.prev].next = collector.cur
    BY <1>1, <1>2, HeadFirst DEF CollectorOK, NextsOK
  <2> QED BY <1>1, <2>1, FromClosed DEF ClosedRows
<1> QED BY <1>1, <1>2, HeadFirst DEF CollectorOK

\* CreateRow, DropRow: the row is not linked.
LEMMA CreateShape ==
  ASSUME DaalTypeOK, Shape, NEW e \in DExecutor, CreateRow(e) PROVE Shape'
<1>1. dPc[e] = "create" /\ Live(e) /\ HEAD \in DOMAIN rows /\ OnlyMoves(e)
  <2>1. dPc[e] = "create" /\ Live(e)
    BY DEF CreateRow, At, Live
  <2> QED BY <2>1, OnWalk DEF CreateRow, OnlyMoves, GoTo, DaalTypeOK
<1>2. PICK p \in RowId : p = FreeRow /\ p \notin DOMAIN rows
  BY FreeRowIs DEF CreateRow
<1>3. /\ DOMAIN rows' = DOMAIN rows \cup {p} /\ rows'[p] = NewRow(dVal[e])
      /\ \A q \in DOMAIN rows : rows'[q] = rows[q]
  BY <1>2 DEF CreateRow
<1>4. Fresh(rows'[p]) /\ rows'[p].next = NoRow
  BY <1>3 DEF Fresh, NewRow
<1>5. dPc'[e] = "swap" /\ dVal'[e] = p /\ dRow'[e] = dRow[e] /\ UNCHANGED <<dRetired, dScenario, collector>>
  BY <1>2 DEF CreateRow, GoTo, DaalTypeOK, dHistory
<1>6. NextsOK(rows')
  BY <1>2, <1>3, <1>4 DEF NextsOK, Shape, ListOK
<1>7. RowsFrom(rows, HEAD) \subseteq DOMAIN rows'
  BY <1>1, <1>3, HeadFirst DEF Shape
<1>8. \A f \in DExecutor :
           /\ dRow'[f] = dRow[f] /\ (dPc'[f] \notin {"idle", "done"} => dPc[f] \notin {"idle", "done"})
           /\ Live(f)' =>
                /\ Live(f) /\ RowsFrom(rows, dRow[f]) \subseteq DOMAIN rows'
                /\ dPc'[f] \in {"drop", "follow"} => dPc[f] \in {"drop", "follow"}
  <2>1. \A f \in DExecutor : Live(f) => RowsFrom(rows, dRow[f]) \subseteq DOMAIN rows'
    BY <1>1, <1>3, OnWalk DEF PathOK
  <2> QED BY <1>1, <1>5, <2>1 DEF OnlyMoves, Live
<1>9. \A q \in DOMAIN rows' \ DOMAIN rows : ~ rows'[q].stamped
  BY <1>3, <1>4 DEF Fresh
<1>10. /\ ListOK(rows') /\ HEAD \in DOMAIN rows' /\ RowsFrom(rows', HEAD) = RowsFrom(rows, HEAD)
       /\ LinkedOK' /\ \A f \in DExecutor : ActiveOK(f)' /\ WalkOK(f)'
  BY <1>1, <1>3, <1>5, <1>6, <1>7, <1>8, <1>9, OthersShape
<1>11. CollectorOK'
  <2>1. collector.at \in {"row", "stamp"} => collector.cur \in DOMAIN rows
    BY DEF Shape, CollectorOK
  <2> QED BY <1>1, <1>3, <1>5, <1>7, <1>10, <2>1, OthersCollector
<1>12. ASSUME NEW f \in DExecutor PROVE HoldsOK(f)'
  <2>1. \A g \in DExecutor \ {e} : Holding(g)' => Holding(g) /\ dVal'[g] = dVal[g] /\ dVal[g] \in DOMAIN rows /\ HoldsOK(g)
    BY <1>1 DEF OnlyMoves, Holding, Shape, HoldsOK
  <2>2. CASE f = e
    <3>1. Fresh(rows[dVal[e]])'
      BY <1>4, <1>5 DEF Fresh
    <3>2. dVal'[e] \in DOMAIN rows' \ RowsFrom(rows', HEAD)
      BY <1>1, <1>2, <1>3, <1>5, <1>10, HeadFirst DEF Shape
    <3> QED BY <1>2, <1>5, <2>1, <2>2, <3>1, <3>2 DEF HoldsOK
  <2>3. CASE f # e
    <3> SUFFICES ASSUME Holding(f)' PROVE HoldsOK(f)'
      BY DEF HoldsOK
    <3>1. Holding(f) /\ dVal'[f] = dVal[f] /\ dVal[f] \in DOMAIN rows /\ HoldsOK(f)
      BY <2>1, <2>3
    <3>2. Fresh(rows[dVal[f]])'
      BY <1>3, <3>1 DEF HoldsOK, Fresh
    <3>3. \A g \in DExecutor \ {f} : Holding(g)' => dVal'[g] # dVal[f]
      BY <1>2, <1>5, <2>1, <3>1 DEF HoldsOK
    <3> QED BY <1>3, <1>10, <3>1, <3>2, <3>3 DEF HoldsOK
  <2> QED BY <2>2, <2>3
<1> QED BY <1>10, <1>11, <1>12 DEF Shape

LEMMA DropShape ==
  ASSUME DaalTypeOK, Shape, NEW e \in DExecutor, DropRow(e) PROVE Shape'
<1>1. dPc[e] = "drop" /\ Live(e) /\ Holding(e) /\ HEAD \in DOMAIN rows /\ OnlyMoves(e)
  <2>1. dPc[e] = "drop" /\ Live(e) /\ Holding(e)
    BY DEF DropRow, At, Live, Holding
  <2> QED BY <2>1, OnWalk DEF DropRow, OnlyMoves, GoTo, DaalTypeOK
<1>2. PICK p \in RowId : p = dVal[e]
  BY <1>1, NotHeld
<1>3. /\ DOMAIN rows' = DOMAIN rows \ {p} /\ \A q \in DOMAIN rows' : rows'[q] = rows[q]
  BY <1>2 DEF DropRow, Without
<1>4. p \notin RowsFrom(rows, HEAD) /\ Fresh(rows[p]) /\ \A f \in DExecutor \ {e} : Holding(f) => dVal[f] # p
  BY <1>1, <1>2 DEF Shape, HoldsOK
<1>5. dPc'[e] = "follow" /\ dVal'[e] = p /\ dRow'[e] = dRow[e] /\ UNCHANGED <<dRetired, dScenario, collector>>
  BY <1>2 DEF DropRow, GoTo, DaalTypeOK, dHistory
<1>6. NextsOK(rows')
  BY <1>3 DEF NextsOK, Shape, ListOK
<1>7. RowsFrom(rows, HEAD) \subseteq DOMAIN rows'
  BY <1>1, <1>3, <1>4, HeadFirst DEF Shape
<1>8. \A f \in DExecutor :
           /\ dRow'[f] = dRow[f] /\ (dPc'[f] \notin {"idle", "done"} => dPc[f] \notin {"idle", "done"})
           /\ Live(f)' =>
                /\ Live(f) /\ RowsFrom(rows, dRow[f]) \subseteq DOMAIN rows'
                /\ dPc'[f] \in {"drop", "follow"} => dPc[f] \in {"drop", "follow"}
  <2>1. \A f \in DExecutor : Live(f) => RowsFrom(rows, dRow[f]) \subseteq DOMAIN rows'
    BY <1>1, <1>2, <1>3, OnWalk, NotHeld DEF PathOK
  <2> QED BY <1>1, <1>5, <2>1 DEF OnlyMoves, Live
<1>9. \A q \in DOMAIN rows' \ DOMAIN rows : ~ rows'[q].stamped
  BY <1>3
<1>10. /\ ListOK(rows') /\ HEAD \in DOMAIN rows' /\ RowsFrom(rows', HEAD) = RowsFrom(rows, HEAD)
       /\ LinkedOK' /\ \A f \in DExecutor : ActiveOK(f)' /\ WalkOK(f)'
  BY <1>1, <1>3, <1>5, <1>6, <1>7, <1>8, <1>9, OthersShape
<1>11. CollectorOK'
  <2>1. collector.at \in {"row", "stamp"} => collector.cur \in DOMAIN rows /\ collector.cur # p
    BY <1>4, CollectorRows DEF Fresh
  <2> QED BY <1>1, <1>3, <1>5, <1>7, <1>10, <2>1, OthersCollector
<1>12. ASSUME NEW g \in DExecutor, Holding(g)'
       PROVE  /\ Holding(g) /\ dVal'[g] = dVal[g]
              /\ dVal[g] \in DOMAIN rows' \ RowsFrom(rows', HEAD) /\ Fresh(rows'[dVal[g]])
  <2>1. g # e /\ Holding(g) /\ dVal'[g] = dVal[g] /\ HoldsOK(g)
    BY <1>1, <1>5, <1>12 DEF OnlyMoves, Holding, Shape
  <2> QED BY <1>3, <1>4, <1>10, <2>1 DEF HoldsOK
<1>13. \A f \in DExecutor : HoldsOK(f)'
  BY <1>12, HoldsStay
<1> QED BY <1>10, <1>11, <1>13 DEF Shape

\* SwapRow: what the rows are then.
LEMMA LinkRows ==
  ASSUME DaalTypeOK, Shape, NEW e \in DExecutor, SwapRow(e), rows[dRow[e]].next = NoRow
  PROVE  /\ dPc[e] = "swap" /\ Live(e) /\ Holding(e) /\ HEAD \in DOMAIN rows /\ OnlyMoves(e)
         /\ dPc'[e] = "update" /\ dRow'[e] = dVal[e] /\ UNCHANGED <<dRetired, dScenario, collector>>
         /\ dVal[e] \in RowId /\ dRow[e] \in RowId /\ LastOf(rows, dRow[e]) /\ dRow[e] # dVal[e]
         /\ dVal[e] \notin RowsFrom(rows, HEAD) /\ dVal[e] \in DOMAIN rows /\ Fresh(rows[dVal[e]])
         /\ \A f \in DExecutor \ {e} : Holding(f) => dVal[f] # dVal[e]
         /\ DOMAIN rows' = DOMAIN rows /\ rows'[dRow[e]] = [rows[dRow[e]] EXCEPT !.next = dVal[e]]
         /\ \A q \in DOMAIN rows \ {dRow[e]} : rows'[q] = rows[q]
         /\ ListOK(rows') /\ LastOf(rows', dVal[e])
         /\ RowsFrom(rows', HEAD) = RowsFrom(rows, HEAD) \cup {dVal[e]}
         /\ \A r \in RowId : PathOK(rows, r) =>
              PathOK(rows', r) /\ RowsFrom(rows', r) = RowsFrom(rows, r) \cup {dVal[e]}
<1>1. dPc[e] = "swap" /\ Live(e) /\ Holding(e) /\ HEAD \in DOMAIN rows /\ OnlyMoves(e)
  <2>1. dPc[e] = "swap" /\ Live(e) /\ Holding(e)
    BY DEF SwapRow, At, Live, Holding
  <2> QED BY <2>1, OnWalk DEF SwapRow, OnlyMoves, GoTo, DaalTypeOK
<1>2. PICK p \in RowId : p = dVal[e]
  BY <1>1, NotHeld
<1>3. PICK t \in RowId : t = dRow[e] /\ LastOf(rows, t)
  BY <1>1, OnWalk
<1>4. /\ p \notin RowsFrom(rows, HEAD) /\ p \in DOMAIN rows /\ Fresh(rows[p])
      /\ \A f \in DExecutor \ {e} : Holding(f) => dVal[f] # p
  BY <1>1, <1>2 DEF Shape, HoldsOK
<1>5. t \in DOMAIN rows /\ rows[t].next = NoRow /\ t # p /\ NoRow \notin RowId
  BY <1>3, <1>4, RowIds DEF LastOf
<1>6. /\ rows' = [rows EXCEPT ![t].next = p]
      /\ dPc'[e] = "update" /\ dRow'[e] = p /\ UNCHANGED <<dRetired, dScenario, collector>>
  BY <1>2, <1>3, <1>5 DEF SwapRow, GoTo, DaalTypeOK, dHistory
<1>7. /\ DOMAIN rows' = DOMAIN rows /\ rows'[t] = [rows[t] EXCEPT !.next = p]
      /\ \A q \in DOMAIN rows \ {t} : rows'[q] = rows[q]
  BY <1>5, <1>6
<1>8. rows[t] \in DRowType
  BY <1>5 DEF DaalTypeOK, RowsOK, RowOK
<1>9. /\ rows'[t].next = p /\ rows'[t].stamped = rows[t].stamped /\ rows'[t].since = rows[t].since
  BY <1>7, <1>8 DEF DRowType
<1>10. /\ ListOK(rows') /\ LastOf(rows', p)
       /\ RowsFrom(rows', HEAD) = RowsFrom(rows, HEAD) \cup {p}
       /\ \A r \in RowId : PathOK(rows, r) =>
            PathOK(rows', r) /\ RowsFrom(rows', r) = RowsFrom(rows, r) \cup {p}
  <2>1. ListOK(rows) /\ rows[p].next = NoRow
    BY <1>4 DEF Shape, Fresh
  <2>2. DOMAIN rows' = DOMAIN rows /\ \A q \in DOMAIN rows \ {t} : rows'[q].next = rows[q].next
    BY <1>7
  <2>3. /\ ListOK(rows') /\ \A u : LastOf(rows', u) <=> u = p
        /\ RowsFrom(rows', HEAD) = RowsFrom(rows, HEAD) \cup {p}
        /\ \A r \in RowId : PathOK(rows, r) =>
             PathOK(rows', r) /\ RowsFrom(rows', r) = RowsFrom(rows, r) \cup {p}
    BY <1>3, <1>4, <1>9, <2>1, <2>2, LinkKeepsList
  <2> QED BY <2>3
<1> QED BY ONLY <1>1, <1>2, <1>3, <1>4, <1>5, <1>6, <1>7, <1>10

LEMMA LinkShape ==
  ASSUME DaalTypeOK, Shape, NEW e \in DExecutor, SwapRow(e), rows[dRow[e]].next = NoRow PROVE Shape'
<1>1. dPc[e] = "swap" /\ Live(e) /\ Holding(e) /\ HEAD \in DOMAIN rows /\ OnlyMoves(e)
  BY LinkRows
<1>2. PICK p \in RowId : p = dVal[e]
  BY LinkRows
<1>3. PICK t \in RowId : t = dRow[e] /\ LastOf(rows, t)
  BY LinkRows
<1>4. /\ p \notin RowsFrom(rows, HEAD) /\ p \in DOMAIN rows /\ Fresh(rows[p])
      /\ \A f \in DExecutor \ {e} : Holding(f) => dVal[f] # p
  BY <1>2, LinkRows
<1>5. t \in DOMAIN rows /\ rows[t].next = NoRow /\ t # p /\ NoRow \notin RowId
  BY <1>3, <1>4, RowIds DEF LastOf
<1>6. dPc'[e] = "update" /\ dRow'[e] = p /\ UNCHANGED <<dRetired, dScenario, collector>>
  BY <1>2, LinkRows
<1>7. /\ DOMAIN rows' = DOMAIN rows /\ rows'[t] = [rows[t] EXCEPT !.next = p]
      /\ \A q \in DOMAIN rows \ {t} : rows'[q] = rows[q]
  BY <1>2, <1>3, LinkRows
<1>8. rows[t] \in DRowType
  BY <1>5 DEF DaalTypeOK, RowsOK, RowOK
<1>9. /\ rows'[t].next = p /\ rows'[t].stamped = rows[t].stamped /\ rows'[t].since = rows[t].since
  BY <1>7, <1>8 DEF DRowType
<1>10. /\ ListOK(rows') /\ LastOf(rows', p)
       /\ RowsFrom(rows', HEAD) = RowsFrom(rows, HEAD) \cup {p}
       /\ \A r \in RowId : PathOK(rows, r) =>
            PathOK(rows', r) /\ RowsFrom(rows', r) = RowsFrom(rows, r) \cup {p}
  BY <1>2, LinkRows
<1>11. \A q \in DOMAIN rows : rows'[q].stamped = rows[q].stamped /\ rows'[q].since = rows[q].since
  BY <1>7, <1>9
<1>12. ~ rows'[p].stamped
  BY <1>4, <1>5, <1>7 DEF Fresh
<1>13. LinkedOK'
  BY <1>7, <1>10, <1>11, <1>12 DEF LinkedOK, Shape
<1>14. CollectorOK'
  <2>1. collector.at \in {"row", "stamp"} =>
          /\ HEAD \in DOMAIN rows /\ collector.prev \in RowsFrom(rows, HEAD)
          /\ collector.prev \in DOMAIN rows /\ collector.cur \in DOMAIN rows
    BY CollectorRows
  <2>2. collector.at = "row" => rows[collector.prev].next = collector.cur /\ collector.prev # t
    <3>1. collector.at = "row" => collector.cur \in RowId /\ rows[collector.prev].next = collector.cur
      BY CollectorRows DEF Shape, ListOK, NextsOK
    <3> QED BY <1>5, <3>1
  <2>3. collector.at = "stamp" =>
           /\ collector.cur \notin RowsFrom(rows, HEAD)
           /\ rows[collector.cur].next # NoRow /\ rows[collector.cur].next = rows[collector.prev].next
           /\ collector.prev # t /\ collector.cur # t /\ collector.cur # p
    BY <1>4, <1>5 DEF Shape, CollectorOK, Fresh
  <2> QED BY <1>6, <1>7, <1>10, <2>1, <2>2, <2>3 DEF CollectorOK
<1>15. ASSUME NEW f \in DExecutor PROVE ActiveOK(f)' /\ WalkOK(f)'
  <2>1. ActiveOK(f)'
    <3>1. DInstanceOf' = DInstanceOf
      BY <1>6 DEF DInstanceOf
    <3> QED BY <1>1, <1>6, <3>1 DEF ActiveOK, Shape, OnlyMoves
  <2>2. CASE f = e
    <3>1. PathOK(rows', p) /\ RowsFrom(rows', p) = {p}
      BY <1>10, PathOfLast
    <3>2. HEAD \in DOMAIN rows'
      BY <1>1, <1>7
    <3> QED BY <1>6, <1>12, <2>1, <2>2, <3>1, <3>2 DEF WalkOK
  <2>3. CASE f # e
    <3> SUFFICES ASSUME Live(f)' PROVE WalkOK(f)'
      BY <2>1 DEF WalkOK
    <3>1. Live(f) /\ dRow'[f] = dRow[f] /\ dPc'[f] = dPc[f]
      BY <1>1, <2>3 DEF OnlyMoves, Live
    <3>2. dRow[f] \in RowId /\ PathOK(rows, dRow[f]) /\ dRow[f] \in DOMAIN rows /\ WalkOK(f)
      BY <1>1, <3>1, OnWalk DEF Shape
    <3>3. PathOK(rows', dRow[f]) /\ RowsFrom(rows', dRow[f]) = RowsFrom(rows, dRow[f]) \cup {p} /\ HEAD \in DOMAIN rows'
      BY <1>1, <1>7, <1>10, <3>2
    <3>4. dPc[f] \in {"drop", "follow"} => rows'[dRow[f]].next # NoRow
      BY <1>5, <1>7, <1>9, <3>1, <3>2 DEF WalkOK
    <3>5. \A q \in RowsFrom(rows', dRow[f]) : q \in DOMAIN rows' /\ rows'[q].stamped => f \in rows'[q].since
      BY <1>7, <1>11, <1>12, <3>1, <3>2, <3>3 DEF WalkOK
    <3>6. /\ dRow'[f] \in RowId /\ PathOK(rows', dRow'[f])
          /\ dPc'[f] \in {"drop", "follow"} => rows'[dRow'[f]].next # NoRow
          /\ \A q \in RowsFrom(rows', dRow'[f]) : q \in DOMAIN rows' /\ rows'[q].stamped => f \in rows'[q].since
      BY <3>1, <3>2, <3>3, <3>4, <3>5
    <3> QED BY <3>3, <3>6 DEF WalkOK
  <2> QED BY <2>1, <2>2, <2>3
<1>16. ASSUME NEW g \in DExecutor, Holding(g)'
       PROVE  /\ Holding(g) /\ dVal'[g] = dVal[g]
              /\ dVal[g] \in DOMAIN rows' \ RowsFrom(rows', HEAD) /\ Fresh(rows'[dVal[g]])
  <2>1. g # e /\ Holding(g) /\ dVal'[g] = dVal[g] /\ HoldsOK(g) /\ dVal[g] # p
    BY <1>1, <1>4, <1>6, <1>16 DEF OnlyMoves, Holding, Shape
  <2>2. dVal[g] # t
    BY <1>1, <1>3, <2>1, NotHeld
  <2> QED BY <1>7, <1>10, <2>1, <2>2 DEF HoldsOK
<1>17. \A f \in DExecutor : HoldsOK(f)'
  BY <1>16, HoldsStay
<1> QED BY <1>10, <1>13, <1>14, <1>15, <1>17 DEF Shape

\* The collector moves and no execution does.
LEMMA CollectsShape ==
  ASSUME DaalTypeOK, Shape, SameNexts(rows, rows'), UNCHANGED <<dRetired, dScenario, dEnv>>,
         \A q \in DOMAIN rows : rows'[q].stamped = rows[q].stamped /\ rows'[q].since = rows[q].since,
         \A g \in DExecutor : Holding(g) => Fresh(rows'[dVal[g]])
  PROVE  /\ ListOK(rows') /\ LinkedOK' /\ RowsFrom(rows', HEAD) = RowsFrom(rows, HEAD)
         /\ \A f \in DExecutor : ActiveOK(f)' /\ WalkOK(f)' /\ HoldsOK(f)'
<1> DEFINE X == {}
<1>1. X \in SUBSET DExecutor /\ \A f \in X : FALSE
  OBVIOUS
<1>2. \A f \in DExecutor \ X : Stays(f)
  BY DEF Stays, dEnv
<1> HIDE DEF X
<1>3. /\ ListOK(rows') /\ LinkedOK'
      /\ \A f \in DExecutor : ActiveOK(f)' /\ WalkOK(f)' /\ HoldsOK(f)'
  BY <1>1, <1>2, SameShape
<1>4. RowsFrom(rows', HEAD) = RowsFrom(rows, HEAD)
  BY RowIds, SameKeepsList DEF Shape
<1> QED BY <1>3, <1>4

\* Nor do the rows.
LEMMA SameRows ==
  ASSUME DaalTypeOK, Shape, UNCHANGED <<rows, dRetired, dScenario, dEnv>>, CollectorOK' PROVE Shape'
<1>1. SameNexts(rows, rows') /\ \A g \in DExecutor : Holding(g) => Fresh(rows'[dVal[g]])
  BY DEF SameNexts, Shape, HoldsOK
<1>2. \A q \in DOMAIN rows : rows'[q].stamped = rows[q].stamped /\ rows'[q].since = rows[q].since
  OBVIOUS
<1> QED BY <1>1, <1>2, CollectsShape DEF Shape

LEMMA ScanShape == ASSUME DaalTypeOK, Shape, ScanIntent PROVE Shape'
<1>1. rows' = rows /\ dEnv' = dEnv /\ DInstanceOf' = DInstanceOf /\ dScenario' = dScenario
      /\ collector.at = "idle" /\ collector'.at = "clear"
  BY DEF ScanIntent, DInstanceOf, Collecting, DaalTypeOK
<1>2. ListOK(rows') /\ LinkedOK' /\ CollectorOK'
  BY <1>1 DEF Shape, LinkedOK, CollectorOK
<1>3. ASSUME NEW f \in DExecutor PROVE ActiveOK(f)' /\ WalkOK(f)' /\ HoldsOK(f)'
  <2>1. WalkOK(f) /\ HoldsOK(f) /\ ActiveOK(f)
    BY DEF Shape
  <2>2. WalkOK(f)' /\ HoldsOK(f)'
    BY <1>1, <2>1 DEF WalkOK, HoldsOK, dEnv, Live, Holding
  <2>3. ASSUME dPc[f] \notin {"idle", "done"} PROVE DInstanceOf[f] \notin dRetired'
    <3>1. f \in DOMAIN DInstanceOf
      BY <2>3 DEF DaalTypeOK
    <3>2. ~ Old(DInstanceOf[f])
      BY <2>3, <3>1 DEF Old
    <3> QED BY <2>1, <2>3, <3>2 DEF ActiveOK, ScanIntent
  <2> QED BY <1>1, <2>2, <2>3 DEF ActiveOK, dEnv
<1> QED BY <1>2, <1>3 DEF Shape

\* ClearRowDAAL: what it leaves of a row.
LEMMA ClearedSame ==
  ASSUME DaalTypeOK, NEW r \in DOMAIN rows, rows' = [rows EXCEPT ![r] = Cleared(r)]
  PROVE  /\ SameNexts(rows, rows')
         /\ \A q \in DOMAIN rows :
              /\ rows'[q].stamped = rows[q].stamped /\ rows'[q].since = rows[q].since
              /\ rows'[q].v = rows[q].v /\ rows'[q].holder = rows[q].holder
              /\ rows'[q].logSize = rows[q].logSize
              /\ q # r => rows'[q] = rows[q]
         /\ rows'[r].logs = rows[r].logs \ (Mine(rows[r].logs) \cup Mine(rows[r].refused))
         /\ rows'[r].refused = rows[r].refused \ (Mine(rows[r].logs) \cup Mine(rows[r].refused))
         /\ rows'[r].gcSize = rows[r].gcSize + Cardinality(Mine(rows[r].logs) \cup Mine(rows[r].refused))
         /\ ~ rows'[r].counted => ~ rows[r].counted /\ Mine(rows[r].refused) = {}
<1>1. rows[r] \in DRowType
  BY DEF DaalTypeOK, RowsOK, RowOK
<1>2. DOMAIN rows' = DOMAIN rows /\ rows'[r] = Cleared(r) /\ \A q \in DOMAIN rows \ {r} : rows'[q] = rows[q]
  OBVIOUS
<1>3. /\ rows'[r].stamped = rows[r].stamped /\ rows'[r].since = rows[r].since
      /\ rows'[r].v = rows[r].v /\ rows'[r].holder = rows[r].holder
      /\ rows'[r].logSize = rows[r].logSize /\ rows'[r].next = rows[r].next
  BY <1>1, <1>2 DEF Cleared, DRowType
<1>4. /\ rows'[r].logs = rows[r].logs \ (Mine(rows[r].logs) \cup Mine(rows[r].refused))
      /\ rows'[r].refused = rows[r].refused \ (Mine(rows[r].logs) \cup Mine(rows[r].refused))
      /\ rows'[r].gcSize = rows[r].gcSize + Cardinality(Mine(rows[r].logs) \cup Mine(rows[r].refused))
  BY <1>1, <1>2 DEF Cleared, DRowType
<1>5. rows'[r].counted = (rows[r].counted \/ Mine(rows[r].refused) # {})
  BY <1>1, <1>2 DEF Cleared, DRowType
<1> QED BY <1>2, <1>3, <1>4, <1>5 DEF SameNexts

LEMMA ClearLogsShape == ASSUME DaalTypeOK, Shape, ClearRowDAAL PROVE Shape'
<1>1. PICK r \in DOMAIN rows : Mine(rows[r].logs \cup rows[r].refused) # {} /\ rows' = [rows EXCEPT ![r] = Cleared(r)]
  BY DEF ClearRowDAAL
<1>2. UNCHANGED <<dRetired, dScenario, dEnv, collector>>
  BY DEF ClearRowDAAL
<1>3. /\ SameNexts(rows, rows')
      /\ \A q \in DOMAIN rows :
              /\ rows'[q].stamped = rows[q].stamped /\ rows'[q].since = rows[q].since
              /\ q # r => rows'[q] = rows[q]
  BY <1>1, ClearedSame
<1>4. \A g \in DExecutor : Holding(g) => Fresh(rows'[dVal[g]])
  <2> SUFFICES ASSUME NEW g \in DExecutor, Holding(g) PROVE Fresh(rows'[dVal[g]])
    OBVIOUS
  <2>1. dVal[g] \in DOMAIN rows /\ Fresh(rows[dVal[g]])
    BY DEF Shape, HoldsOK
  <2>2. dVal[g] # r
    BY <1>1, <2>1 DEF Fresh, Mine
  <2> QED BY <1>3, <2>1, <2>2
<1> QED BY <1>2, <1>3, <1>4, CollectsShape, SameCollector DEF Shape

\* ClearRow: cur is not linked any more, and every other row is where it was.
LEMMA UnlinkShape ==
  ASSUME DaalTypeOK, Shape, Collecting("row"), UNCHANGED <<dRetired, dScenario, dEnv>>,
         rows[collector.cur].next # NoRow,
         rows' = [rows EXCEPT ![collector.prev].next = rows[collector.cur].next],
         collector' = [collector EXCEPT !.at = "stamp"]
  PROVE  /\ Shape'
         /\ RowsFrom(rows', HEAD) = RowsFrom(rows, HEAD) \ {collector.cur} /\ collector.prev # collector.cur
         /\ \A r \in RowId : PathOK(rows, r) => RowsFrom(rows, r) \subseteq RowsFrom(rows', r) \cup {collector.cur}
         /\ \A t : LastOf(rows', t) <=> LastOf(rows, t)
<1>1. PICK prev \in RowsFrom(rows, HEAD), cur \in RowsFrom(rows, HEAD) :
        /\ prev = collector.prev /\ cur = collector.cur /\ rows[prev].next = cur
        /\ prev \in DOMAIN rows /\ cur \in DOMAIN rows
  BY CollectorRows DEF Collecting
<1>2. HEAD \in DOMAIN rows /\ NextsOK(rows)
  BY CollectorRows DEF Collecting, Shape, ListOK
<1>3. PICK n \in RowId : n = rows[cur].next /\ n # NoRow
  BY <1>1, <1>2 DEF NextsOK
<1>4. /\ DOMAIN rows' = DOMAIN rows /\ rows'[prev] = [rows[prev] EXCEPT !.next = n]
      /\ \A q \in DOMAIN rows \ {prev} : rows'[q] = rows[q]
  BY <1>1, <1>3
<1>5. rows[prev] \in DRowType
  BY <1>1 DEF DaalTypeOK, RowsOK, RowOK
<1>6. /\ rows'[prev].next = n /\ rows'[prev].stamped = rows[prev].stamped /\ rows'[prev].since = rows[prev].since
  BY <1>4, <1>5 DEF DRowType
<1>7. DOMAIN rows' = DOMAIN rows /\ \A q \in DOMAIN rows \ {prev} : rows'[q].next = rows[q].next
  BY <1>4
<1>8. /\ ListOK(rows') /\ \A u : LastOf(rows', u) <=> LastOf(rows, u)
      /\ RowsFrom(rows', HEAD) = RowsFrom(rows, HEAD) \ {cur} /\ prev # cur
      /\ \A r \in RowId : PathOK(rows, r) =>
           /\ PathOK(rows', r) /\ RowsFrom(rows', r) \subseteq RowsFrom(rows, r)
           /\ RowsFrom(rows, r) \subseteq RowsFrom(rows', r) \cup {cur}
  <2>1. ListOK(rows)
    BY DEF Shape
  <2>2. rows[cur].next # NoRow /\ rows'[prev].next = rows[cur].next
    BY <1>3, <1>6
  <2>3. /\ rows[prev].next = cur /\ DOMAIN rows' = DOMAIN rows
        /\ \A q \in DOMAIN rows \ {prev} : rows'[q].next = rows[q].next
    BY <1>1, <1>7
  <2> QED BY ONLY <1>2, <2>1, <2>2, <2>3, UnlinkKeepsList,
                  prev \in RowsFrom(rows, HEAD), cur \in RowsFrom(rows, HEAD)
<1>9. \A q \in DOMAIN rows : rows'[q].stamped = rows[q].stamped /\ rows'[q].since = rows[q].since
  BY <1>4, <1>6
<1>10. LinkedOK'
  BY <1>7, <1>8, <1>9 DEF LinkedOK, Shape
<1>11. CollectorOK'
  <2>1. collector'.at = "stamp" /\ collector'.prev = prev /\ collector'.cur = cur
    BY <1>1 DEF DaalTypeOK
  <2>2. rows'[cur].next = n /\ rows'[prev].next = n /\ cur \notin RowsFrom(rows', HEAD) /\ prev \in RowsFrom(rows', HEAD)
    BY <1>1, <1>3, <1>4, <1>6, <1>8
  <2> QED BY <1>1, <1>2, <1>3, <1>7, <2>1, <2>2 DEF CollectorOK
<1>12. ASSUME NEW f \in DExecutor PROVE ActiveOK(f)' /\ WalkOK(f)'
  <2>1. ActiveOK(f)'
    BY DEF ActiveOK, Shape, dEnv, DInstanceOf
  <2>2. ASSUME Live(f)' PROVE WalkOK(f)'
    <3>1. Live(f) /\ dRow'[f] = dRow[f] /\ dPc'[f] = dPc[f]
      BY <2>2 DEF Live, dEnv
    <3>2. dRow[f] \in RowId /\ PathOK(rows, dRow[f]) /\ dRow[f] \in DOMAIN rows /\ WalkOK(f)
      BY <1>2, <3>1, OnWalk DEF Shape
    <3>3. PathOK(rows', dRow[f]) /\ RowsFrom(rows', dRow[f]) \subseteq RowsFrom(rows, dRow[f])
      BY <1>8, <3>2
    <3>4. dPc[f] \in {"drop", "follow"} => rows'[dRow[f]].next # NoRow
      BY <1>3, <1>4, <1>6, <3>1, <3>2 DEF WalkOK
    <3>5. \A q \in RowsFrom(rows', dRow[f]) : q \in DOMAIN rows' /\ rows'[q].stamped => f \in rows'[q].since
      BY <1>7, <1>9, <3>1, <3>2, <3>3 DEF WalkOK
    <3>6. /\ dRow'[f] \in RowId /\ PathOK(rows', dRow'[f]) /\ HEAD \in DOMAIN rows'
          /\ dPc'[f] \in {"drop", "follow"} => rows'[dRow'[f]].next # NoRow
          /\ \A q \in RowsFrom(rows', dRow'[f]) : q \in DOMAIN rows' /\ rows'[q].stamped => f \in rows'[q].since
      BY <1>2, <1>7, <3>1, <3>2, <3>3, <3>4, <3>5
    <3> QED BY <3>6 DEF WalkOK
  <2> QED BY <2>1, <2>2 DEF WalkOK
<1>13. ASSUME NEW g \in DExecutor, Holding(g)'
       PROVE  /\ Holding(g) /\ dVal'[g] = dVal[g]
              /\ dVal[g] \in DOMAIN rows' \ RowsFrom(rows', HEAD) /\ Fresh(rows'[dVal[g]])
  <2>1. Holding(g) /\ dVal'[g] = dVal[g] /\ HoldsOK(g)
    BY <1>13 DEF dEnv, Holding, Shape
  <2>2. dVal[g] # prev
    BY <1>1, <2>1 DEF HoldsOK
  <2> QED BY <1>4, <1>8, <2>1, <2>2 DEF HoldsOK
<1>14. \A f \in DExecutor : HoldsOK(f)'
  BY <1>13, HoldsStay
<1>15. Shape'
  BY <1>8, <1>10, <1>11, <1>12, <1>14 DEF Shape
<1> QED BY <1>1, <1>8, <1>15

\* StampRow: whoever is under way keeps the row from being deleted.
LEMMA StampedSame ==
  ASSUME DaalTypeOK, Shape, StampRow
  PROVE  /\ SameNexts(rows, rows') /\ collector.cur \in DOMAIN rows
         /\ rows'[collector.cur] = [rows[collector.cur] EXCEPT !.stamped = TRUE, !.since = {e \in DExecutor : Live(e)}]
         /\ \A q \in DOMAIN rows \ {collector.cur} : rows'[q] = rows[q]
<1>1. collector.cur \in DOMAIN rows
  BY CollectorRows DEF StampRow, Collecting
<1>2. PICK row : row = [rows[collector.cur] EXCEPT !.stamped = TRUE, !.since = {e \in DExecutor : Live(e)}]
  OBVIOUS
<1>3. rows' = [rows EXCEPT ![collector.cur] = row]
  BY <1>1, <1>2 DEF StampRow, Live
<1>4. row.next = rows[collector.cur].next
  BY <1>1, <1>2 DEF DaalTypeOK, RowsOK, RowOK, DRowType
<1> QED BY <1>1, <1>2, <1>3, <1>4 DEF SameNexts

LEMMA StampShape == ASSUME DaalTypeOK, Shape, StampRow PROVE Shape'
<1>1. PICK cur \in DOMAIN rows : cur = collector.cur
  BY StampedSame
<1>2. /\ SameNexts(rows, rows')
      /\ rows'[cur] = [rows[cur] EXCEPT !.stamped = TRUE, !.since = {e \in DExecutor : Live(e)}]
      /\ \A q \in DOMAIN rows \ {cur} : rows'[q] = rows[q]
  BY <1>1, StampedSame
<1>3. rows'[cur].since = {e \in DExecutor : Live(e)}
  BY <1>2 DEF DaalTypeOK, RowsOK, RowOK, DRowType
<1>4. UNCHANGED <<dRetired, dScenario, dEnv>>
  BY DEF StampRow
<1>5. /\ ListOK(rows') /\ DOMAIN rows' = DOMAIN rows /\ RowsFrom(rows', HEAD) = RowsFrom(rows, HEAD)
      /\ \A q \in DOMAIN rows : rows'[q].next = rows[q].next
      /\ \A r \in RowId : RowsFrom(rows', r) = RowsFrom(rows, r) /\ (PathOK(rows, r) => PathOK(rows', r))
  <2>1. ListOK(rows)
    BY DEF Shape
  <2> QED BY <1>2, <2>1, RowIds, SameKeepsList DEF SameNexts
<1>6. /\ collector.at = "stamp" /\ cur \notin RowsFrom(rows, HEAD) /\ HEAD \in DOMAIN rows
      /\ collector.prev \in RowsFrom(rows, HEAD) /\ collector.prev \in DOMAIN rows
      /\ rows[cur].next # NoRow /\ rows[cur].next = rows[collector.prev].next
  <2>1. collector.at = "stamp" /\ CollectorOK
    BY DEF StampRow, Collecting, Shape
  <2> QED BY <1>1, <2>1, CollectorRows DEF CollectorOK
<1>7. LinkedOK'
  BY <1>2, <1>5, <1>6 DEF LinkedOK, Shape
<1>8. CollectorOK'
  <2>1. collector'.at = "row" /\ collector'.prev = collector.prev /\ collector'.cur = rows[cur].next
    BY <1>1 DEF StampRow, DaalTypeOK
  <2>2. rows[cur].next \in RowId
    BY <1>6 DEF Shape, ListOK, NextsOK
  <2>3. rows[cur].next \in RowsFrom(rows, HEAD)
    BY <1>6, FromClosed DEF Shape, ListOK, ClosedRows
  <2>4. rows[cur].next \in DOMAIN rows
    BY <1>6, <2>3, HeadFirst DEF Shape
  <2> QED BY <1>5, <1>6, <2>1, <2>4 DEF CollectorOK
<1>9. ASSUME NEW f \in DExecutor PROVE ActiveOK(f)' /\ WalkOK(f)'
  <2>1. ActiveOK(f)'
    BY <1>4 DEF ActiveOK, Shape, dEnv, DInstanceOf
  <2>2. ASSUME Live(f)' PROVE WalkOK(f)'
    <3>1. Live(f) /\ dRow'[f] = dRow[f] /\ dPc'[f] = dPc[f]
      BY <1>4, <2>2 DEF Live, dEnv
    <3>2. dRow[f] \in RowId /\ PathOK(rows, dRow[f]) /\ dRow[f] \in DOMAIN rows /\ WalkOK(f)
      BY <1>6, <3>1, OnWalk DEF Shape
    <3>3. PathOK(rows', dRow[f]) /\ RowsFrom(rows', dRow[f]) = RowsFrom(rows, dRow[f])
      BY <1>5, <3>2
    <3>4. dPc[f] \in {"drop", "follow"} => rows'[dRow[f]].next # NoRow
      BY <1>5, <3>1, <3>2 DEF WalkOK
    <3>5. \A q \in RowsFrom(rows, dRow[f]) : q \in DOMAIN rows /\ rows'[q].stamped => f \in rows'[q].since
      <4> SUFFICES ASSUME NEW q \in RowsFrom(rows, dRow[f]), q \in DOMAIN rows, rows'[q].stamped
                   PROVE  f \in rows'[q].since
        OBVIOUS
      <4>1. CASE q = cur
        BY <1>3, <3>1, <4>1
      <4>2. CASE q # cur
        BY <1>2, <3>1, <3>2, <4>2 DEF WalkOK
      <4> QED BY <4>1, <4>2
    <3>6. /\ dRow'[f] \in RowId /\ PathOK(rows', dRow'[f]) /\ HEAD \in DOMAIN rows'
          /\ dPc'[f] \in {"drop", "follow"} => rows'[dRow'[f]].next # NoRow
          /\ \A q \in RowsFrom(rows', dRow'[f]) : q \in DOMAIN rows' /\ rows'[q].stamped => f \in rows'[q].since
      BY <1>5, <1>6, <3>1, <3>2, <3>3, <3>4, <3>5
    <3> QED BY <3>6 DEF WalkOK
  <2> QED BY <2>1, <2>2 DEF WalkOK
<1>10. ASSUME NEW g \in DExecutor, Holding(g)'
       PROVE  /\ Holding(g) /\ dVal'[g] = dVal[g]
              /\ dVal[g] \in DOMAIN rows' \ RowsFrom(rows', HEAD) /\ Fresh(rows'[dVal[g]])
  <2>1. Holding(g) /\ dVal'[g] = dVal[g] /\ HoldsOK(g)
    BY <1>4, <1>10 DEF dEnv, Holding, Shape
  <2>2. dVal[g] # cur
    BY <1>6, <2>1 DEF HoldsOK, Fresh
  <2> QED BY <1>2, <1>5, <2>1, <2>2 DEF HoldsOK
<1>11. \A f \in DExecutor : HoldsOK(f)'
  BY <1>10, HoldsStay
<1> QED BY <1>5, <1>7, <1>8, <1>9, <1>11 DEF Shape

\* Nobody can get to a row that is deleted.
LEMMA DanglingIs ==
  ASSUME DaalTypeOK, Shape, NEW r \in DOMAIN rows, Dangling(r)
  PROVE  /\ r \notin RowsFrom(rows, HEAD) /\ HEAD \in DOMAIN rows
         /\ \A f \in DExecutor : Live(f) => r \notin RowsFrom(rows, dRow[f])
BY DEF Dangling, Shape, LinkedOK, WalkOK, ListOK

LEMMA DeleteShape ==
  ASSUME DaalTypeOK, Shape, Collecting("sweep"), NEW r \in DOMAIN rows, Dangling(r), rows' = Without(r),
         UNCHANGED <<collector, dRetired, dScenario, dEnv>>
  PROVE  Shape' /\ RowsFrom(rows', HEAD) = RowsFrom(rows, HEAD)
         /\ \A q \in RowId : PathOK(rows, q) /\ r \notin RowsFrom(rows, q) => RowsFrom(rows', q) = RowsFrom(rows, q)
<1>1. /\ DOMAIN rows' = DOMAIN rows \ {r} /\ \A q \in DOMAIN rows' : rows'[q] = rows[q]
  BY DEF Without
<1>2. /\ r \notin RowsFrom(rows, HEAD) /\ HEAD \in DOMAIN rows
      /\ \A f \in DExecutor : Live(f) => r \notin RowsFrom(rows, dRow[f])
  BY DanglingIs
<1>3. NextsOK(rows') /\ RowsFrom(rows, HEAD) \subseteq DOMAIN rows'
  BY <1>1, <1>2, HeadFirst DEF NextsOK, Shape, ListOK
<1>4. \A f \in DExecutor :
           /\ dRow'[f] = dRow[f] /\ (dPc'[f] \notin {"idle", "done"} => dPc[f] \notin {"idle", "done"})
           /\ Live(f)' =>
                /\ Live(f) /\ RowsFrom(rows, dRow[f]) \subseteq DOMAIN rows'
                /\ dPc'[f] \in {"drop", "follow"} => dPc[f] \in {"drop", "follow"}
  <2>1. \A f \in DExecutor : Live(f) => RowsFrom(rows, dRow[f]) \subseteq DOMAIN rows'
    BY <1>1, <1>2, OnWalk DEF PathOK
  <2> QED BY <2>1 DEF dEnv, Live
<1>5. \A q \in DOMAIN rows' \ DOMAIN rows : ~ rows'[q].stamped
  BY <1>1
<1>6. /\ ListOK(rows') /\ HEAD \in DOMAIN rows' /\ RowsFrom(rows', HEAD) = RowsFrom(rows, HEAD)
      /\ \A q \in RowId : PathOK(rows, q) /\ RowsFrom(rows, q) \subseteq DOMAIN rows' =>
              PathOK(rows', q) /\ RowsFrom(rows', q) = RowsFrom(rows, q)
      /\ LinkedOK' /\ \A f \in DExecutor : ActiveOK(f)' /\ WalkOK(f)'
  BY <1>1, <1>2, <1>3, <1>4, <1>5, OthersShape
<1>7. CollectorOK'
  BY DEF CollectorOK, Collecting
<1>8. ASSUME NEW g \in DExecutor, Holding(g)'
       PROVE  /\ Holding(g) /\ dVal'[g] = dVal[g]
              /\ dVal[g] \in DOMAIN rows' \ RowsFrom(rows', HEAD) /\ Fresh(rows'[dVal[g]])
  <2>1. Holding(g) /\ dVal'[g] = dVal[g] /\ HoldsOK(g)
    BY <1>8 DEF dEnv, Holding, Shape
  <2>2. dVal[g] # r
    BY <2>1 DEF HoldsOK, Fresh, Dangling
  <2> QED BY <1>1, <1>6, <2>1, <2>2 DEF HoldsOK
<1>9. \A f \in DExecutor : HoldsOK(f)'
  BY <1>8, HoldsStay
<1>10. \A q \in RowId : PathOK(rows, q) /\ r \notin RowsFrom(rows, q) => RowsFrom(rows', q) = RowsFrom(rows, q)
  BY <1>1, <1>6 DEF PathOK
<1> QED BY <1>6, <1>7, <1>9, <1>10 DEF Shape

LEMMA ShapeInit == DaalInit => Shape
<1> SUFFICES ASSUME DaalInit PROVE Shape
  OBVIOUS
<1>1. DOMAIN rows = {} /\ \A e \in DExecutor : dPc[e] = "idle"
  BY DEF DaalInit
<1>2. ListOK(rows)
  BY <1>1 DEF ListOK, NextsOK
<1> QED BY <1>1, <1>2 DEF Shape, LinkedOK, CollectorOK, ActiveOK, WalkOK, HoldsOK, Live, Holding, Idle, DaalInit

\* A step of e moves e.
LEMMA Moving ==
  ASSUME DaalTypeOK, NEW e \in DExecutor, DaalStep(e) \/ DDie(e)
  PROVE  OnlyMoves(e)
<1> USE DEF OnlyMoves, DaalTypeOK, GoTo, Over, dHistory
<1>1. ASSUME NEW x, Over(e, x) PROVE OnlyMoves(e)
  BY <1>1
<1>2. CASE DCall(e)
  BY <1>2 DEF DCall
<1>3. CASE QuickCheckReturnLast(e)
  BY <1>3 DEF QuickCheckReturnLast
<1>4. CASE InsertHead(e)
  BY <1>4 DEF InsertHead
<1>5. CASE UpdateRow(e)
  BY <1>5 DEF UpdateRow
<1>6. CASE RefuseRow(e)
  BY <1>6 DEF RefuseRow
<1>7. CASE LookAtRow(e)
  BY <1>7 DEF LookAtRow
<1>8. CASE CopyValue(e)
  BY <1>8 DEF CopyValue
<1>9. CASE CreateRow(e)
  BY <1>9 DEF CreateRow
<1>10. CASE SwapRow(e)
  BY <1>10 DEF SwapRow
<1>11. CASE DropRow(e)
  BY <1>11 DEF DropRow
<1>12. CASE FollowNext(e)
  BY <1>12 DEF FollowNext
<1>13. CASE LastRow(e)
  BY <1>13 DEF LastRow
<1>14. CASE GetRow(e)
  BY <1>14 DEF GetRow
<1>15. CASE PutRead(e)
  BY <1>15 DEF PutRead
<1>16. CASE DFinish(e)
  BY <1>16 DEF DFinish
<1>17. CASE DDie(e)
  BY <1>17 DEF DDie
<1> QED BY <1>2, <1>3, <1>4, <1>5, <1>6, <1>7, <1>8, <1>9, <1>10, <1>11, <1>12, <1>13, <1>14, <1>15,
           <1>16, <1>17 DEF DaalStep

\* The end of an operation, with or without a write to its row.
LEMMA ReleasedShape ==
  ASSUME DaalTypeOK, Shape, NEW e \in DExecutor, OnlyMoves(e),
         dPc'[e] \in {"idle", "run"}, dPc'[e] = "run" => DInstanceOf[e] \notin dRetired,
         rows' = Released(rows, e), UNCHANGED <<dRetired, dScenario, collector>>
  PROVE  Shape'
<1>1. /\ SameNexts(rows, rows')
      /\ \A q \in DOMAIN rows : rows'[q].stamped = rows[q].stamped /\ rows[q].since \ {e} \subseteq rows'[q].since
  BY ReleasedSame DEF DaalTypeOK
<1>2. \A g \in DExecutor : Holding(g) => Fresh(rows'[dVal[g]])
  BY ReleasedFresh DEF DaalTypeOK, Shape, HoldsOK
<1> QED BY <1>1, <1>2, EndsShape

LEMMA WrittenShape ==
  ASSUME DaalTypeOK, Shape, NEW e \in DExecutor, OnlyMoves(e), Live(e), HEAD \in DOMAIN rows,
         dPc'[e] = "run", NEW row, RowOK(row), row.next = rows[dRow[e]].next,
         row.stamped = rows[dRow[e]].stamped, row.since = rows[dRow[e]].since,
         rows' = Released([rows EXCEPT ![dRow[e]] = row], e), UNCHANGED <<dRetired, dScenario, collector>>
  PROVE  Shape'
<1>1. PICK r \in DOMAIN rows : r = dRow[e]
  BY OnWalk
<1>2. PICK rt : rt = [rows EXCEPT ![r] = row] /\ RowsOK(rt)
  BY <1>1, ChangedRow DEF DaalTypeOK
<1>3. DOMAIN rt = DOMAIN rows /\ rt[r] = row /\ \A q \in DOMAIN rows \ {r} : rt[q] = rows[q]
  BY <1>2
<1>4. \A q \in DOMAIN rows : rt[q].next = rows[q].next /\ rt[q].stamped = rows[q].stamped /\ rt[q].since = rows[q].since
  BY <1>1, <1>3
<1>5. rows' = Released(rt, e)
  BY <1>1, <1>2
<1>10. RowsOK(rt)
  BY <1>2
<1>6. /\ DOMAIN rows' = DOMAIN rows
      /\ \A q \in DOMAIN rows : rows'[q].next = rows[q].next /\ rows'[q].stamped = rows[q].stamped
                                /\ rows[q].since \ {e} \subseteq rows'[q].since
  <2>1. /\ SameNexts(rt, Released(rt, e))
        /\ \A q \in DOMAIN rt : Released(rt, e)[q].stamped = rt[q].stamped /\ Released(rt, e)[q].since = rt[q].since \ {e}
    BY <1>10, ReleasedSame
  <2> QED BY <1>3, <1>4, <1>5, <2>1 DEF SameNexts
<1>7. \A g \in DExecutor : Holding(g) => Fresh(rows'[dVal[g]])
  <2> SUFFICES ASSUME NEW g \in DExecutor, Holding(g) PROVE Fresh(rows'[dVal[g]])
    OBVIOUS
  <2>1. dVal[g] \in DOMAIN rows /\ Fresh(rows[dVal[g]]) /\ dVal[g] # r
    BY <1>1, NotHeld DEF Shape, HoldsOK
  <2>2. rt[dVal[g]] = rows[dVal[g]]
    BY <1>3, <2>1
  <2>3. Fresh(Released(rt, e)[dVal[g]])
    BY <1>3, <1>10, <2>1, <2>2, ReleasedFresh
  <2> QED BY <1>5, <2>3
<1>8. DInstanceOf[e] \notin dRetired
  BY OnWalk
<1> QED BY <1>6, <1>7, <1>8, EndsShape DEF SameNexts

LEMMA StepShape ==
  ASSUME DaalTypeOK, Shape, NEW e \in DExecutor, DaalStep(e) \/ DDie(e)
  PROVE  Shape'
<1>1. OnlyMoves(e)
  BY Moving
<1>2. dPc[e] \notin {"idle", "done"} => e \in DOMAIN DInstanceOf /\ DInstanceOf[e] \notin dRetired
  BY DEF Shape, ActiveOK, DaalTypeOK
<1>3. ASSUME NEW pc, GoTo(e, pc) PROVE dPc'[e] = pc
  BY <1>3 DEF GoTo, DaalTypeOK
<1>4. ASSUME NEW x, Over(e, x) PROVE dPc'[e] = "run"
  BY <1>4 DEF Over, GoTo, DaalTypeOK
<1> USE DEF At
<1>5. SameNexts(rows, rows) /\ \A g \in DExecutor : Holding(g) => Fresh(rows[dVal[g]])
  BY DEF SameNexts, Shape, HoldsOK
<1>6. CASE DCall(e)
  <2>1. UNCHANGED <<rows, dRetired, dScenario, collector>> /\ dPc'[e] = "run" /\ DInstanceOf[e] \notin dRetired
    BY <1>3, <1>6 DEF DCall
  <2> QED BY <1>1, <1>5, <2>1, EndsShape
<1>7. CASE QuickCheckReturnLast(e)
  <2>1. UNCHANGED <<dRetired, dScenario, collector>> /\ DInstanceOf[e] \notin dRetired
    BY <1>2, <1>7 DEF QuickCheckReturnLast
  <2>2. CASE rows' = Released(rows, e) /\ \E x : Over(e, x)
    BY <1>1, <1>4, <2>1, <2>2, ReleasedShape
  <2>3. CASE /\ dRow' = [dRow EXCEPT ![e] = LastFrom(HEAD)] /\ rows' = rows
             /\ GoTo(e, IF rows = <<>> THEN "head" ELSE "update")
    <3>1. dRow'[e] = LastFrom(HEAD) /\ (dPc'[e] = "head" \/ (dPc'[e] = "update" /\ HEAD \in DOMAIN rows))
      BY <1>3, <2>3, NoRows DEF DaalTypeOK
    <3> QED BY <1>1, <2>1, <2>3, <3>1, StartsShape
  <2> QED BY <1>7, <2>2, <2>3 DEF QuickCheckReturnLast
<1>8. CASE InsertHead(e)
  <2>1. /\ UNCHANGED <<dRetired, dScenario, collector>> /\ dPc'[e] = "update" /\ dRow'[e] = dRow[e]
        /\ Live(e) /\ Live(e)' /\ ~ Holding(e)'
    BY <1>3, <1>8 DEF InsertHead, Live, Holding
  <2>2. CASE HEAD \in DOMAIN rows
    <3>1. rows' = rows
      BY <1>8, <2>2 DEF InsertHead
    <3> QED BY <1>1, <2>1, <2>2, <3>1, TurnsShape
  <2>3. CASE HEAD \notin DOMAIN rows
    <3>1. DOMAIN rows = {}
      BY <2>3 DEF Shape, ListOK
    <3>2. rows' = [r \in {HEAD} |-> NewRow(0)]
      BY <1>8, <2>3, <3>1 DEF InsertHead
    <3> QED BY <1>1, <2>1, <2>3, <3>2, FirstRowShape
  <2> QED BY <2>2, <2>3
<1>9. CASE UpdateRow(e)
  <2>1. /\ UNCHANGED <<dRetired, dScenario, collector>> /\ Live(e)
        /\ HEAD \in DOMAIN rows /\ e \in DOMAIN DInstanceOf /\ dRow[e] \in DOMAIN rows
    <3>1. Live(e) /\ dPc[e] = "update"
      BY <1>9 DEF UpdateRow, Live
    <3> QED BY <1>9, <3>1, OnWalk DEF UpdateRow
  <2>2. CASE Room(dRow[e], e) /\ Cond(dRow[e], e)
    <3>1. rows' = Released([rows EXCEPT ![dRow[e]] = Updated(dRow[e], e)], e) /\ dPc'[e] = "run"
      BY <1>4, <1>9, <2>2 DEF UpdateRow
    <3>2. RowOK(Updated(dRow[e], e)) /\ rows[dRow[e]] \in DRowType
      BY <2>1, UpdatedRow DEF DaalTypeOK, RowsOK, RowOK
    <3>3. /\ Updated(dRow[e], e).next = rows[dRow[e]].next
          /\ Updated(dRow[e], e).stamped = rows[dRow[e]].stamped
          /\ Updated(dRow[e], e).since = rows[dRow[e]].since
      BY <3>2 DEF Updated, DRowType
    <3> QED BY <1>1, <2>1, <3>1, <3>2, <3>3, WrittenShape
  <2>3. CASE ~ (Room(dRow[e], e) /\ Cond(dRow[e], e))
    <3>1. /\ rows' = rows /\ dRow'[e] = dRow[e] /\ dPc'[e] \in {"look", "refuse"}
          /\ Live(e)' /\ ~ Holding(e)'
      BY <1>3, <1>9, <2>3 DEF UpdateRow, Live, Holding
    <3> QED BY <1>1, <2>1, <3>1, TurnsShape
  <2> QED BY <2>2, <2>3
<1>10. CASE RefuseRow(e)
  <2>1. /\ UNCHANGED <<dRetired, dScenario, collector>> /\ Live(e)
        /\ HEAD \in DOMAIN rows /\ e \in DOMAIN DInstanceOf /\ dRow[e] \in DOMAIN rows
    <3>1. Live(e) /\ dPc[e] = "refuse"
      BY <1>10 DEF RefuseRow, Live
    <3> QED BY <1>10, <3>1, OnWalk DEF RefuseRow
  <2>2. CASE Room(dRow[e], e)
    <3> DEFINE row == [rows[dRow[e]] EXCEPT !.refused = @ \cup {Cid(e)}]
    <3>1. rows' = Released([rows EXCEPT ![dRow[e]].refused = @ \cup {Cid(e)}], e) /\ dPc'[e] = "run"
      BY <1>4, <1>10, <2>2 DEF RefuseRow
    <3>2. [rows EXCEPT ![dRow[e]].refused = @ \cup {Cid(e)}] = [rows EXCEPT ![dRow[e]] = row]
      OBVIOUS
    <3>3. RowOK(row) /\ rows[dRow[e]] \in DRowType
      BY <2>1, UpdatedRow DEF DaalTypeOK, RowsOK, RowOK
    <3>4. row.next = rows[dRow[e]].next /\ row.stamped = rows[dRow[e]].stamped /\ row.since = rows[dRow[e]].since
      BY <3>3 DEF DRowType
    <3> HIDE DEF row
    <3> QED BY <1>1, <2>1, <3>1, <3>2, <3>3, <3>4, WrittenShape
  <2>3. CASE ~ Room(dRow[e], e)
    <3>1. /\ rows' = rows /\ dRow'[e] = dRow[e] /\ dPc'[e] = "look"
          /\ Live(e)' /\ ~ Holding(e)'
      BY <1>3, <1>10, <2>3 DEF RefuseRow, Live, Holding
    <3> QED BY <1>1, <2>1, <3>1, TurnsShape
  <2> QED BY <2>2, <2>3
<1>11. CASE LookAtRow(e)
  <2>1. /\ UNCHANGED <<dRetired, dScenario, collector>> /\ Live(e)
        /\ HEAD \in DOMAIN rows /\ dRow[e] \in DOMAIN rows /\ DInstanceOf[e] \notin dRetired
    <3>1. Live(e) /\ dPc[e] = "look"
      BY <1>11 DEF LookAtRow, Live
    <3> QED BY <1>11, <3>1, OnWalk DEF LookAtRow
  <2>2. CASE rows' = Released(rows, e) /\ \E x : Over(e, x)
    BY <1>1, <1>4, <2>1, <2>2, ReleasedShape
  <2>3. CASE /\ rows[dRow[e]].next # NoRow /\ dRow' = [dRow EXCEPT ![e] = rows[dRow[e]].next]
             /\ GoTo(e, "update") /\ rows' = rows
    <3>1. dRow'[e] = rows[dRow[e]].next /\ dPc'[e] = "update"
      BY <1>3, <2>3 DEF DaalTypeOK
    <3> QED BY <1>1, <2>1, <2>3, <3>1, FollowsShape
  <2>4. CASE GoTo(e, "copy") /\ rows' = rows /\ dRow' = dRow
    <3>1. dPc'[e] = "copy" /\ Live(e)' /\ ~ Holding(e)'
      BY <1>3, <2>4 DEF Live, Holding
    <3> QED BY <1>1, <2>1, <2>4, <3>1, TurnsShape
  <2> QED BY <1>11, <2>2, <2>3, <2>4 DEF LookAtRow
<1>12. CASE CopyValue(e)
  <2>1. /\ UNCHANGED <<rows, dRetired, dScenario, collector>> /\ dPc'[e] = "create" /\ dRow'[e] = dRow[e]
        /\ Live(e) /\ Live(e)' /\ ~ Holding(e)' /\ dPc[e] = "copy"
    BY <1>3, <1>12 DEF CopyValue, Live, Holding
  <2>2. HEAD \in DOMAIN rows
    BY <2>1, OnWalk
  <2> QED BY <1>1, <2>1, <2>2, TurnsShape
<1>13. CASE CreateRow(e)
  BY <1>13, CreateShape
<1>14. CASE SwapRow(e)
  <2>1. CASE rows[dRow[e]].next = NoRow
    BY <1>14, <2>1, LinkShape
  <2>2. CASE rows[dRow[e]].next # NoRow
    <3>1. /\ UNCHANGED <<rows, dRetired, dScenario, collector>> /\ dPc'[e] = "drop" /\ dRow'[e] = dRow[e]
          /\ Live(e) /\ Live(e)' /\ Holding(e) /\ dVal'[e] = dVal[e] /\ dPc[e] = "swap"
      BY <1>3, <1>14, <2>2 DEF SwapRow, Live, Holding
    <3>2. HEAD \in DOMAIN rows
      BY <3>1, OnWalk
    <3> QED BY <1>1, <2>2, <3>1, <3>2, TurnsShape
  <2> QED BY <2>1, <2>2
<1>15. CASE DropRow(e)
  BY <1>15, DropShape
<1>16. CASE FollowNext(e)
  <2>1. /\ UNCHANGED <<rows, dRetired, dScenario, collector>> /\ dPc'[e] = "update"
        /\ Live(e) /\ dPc[e] = "follow" /\ dRow'[e] = rows[dRow[e]].next
    BY <1>3, <1>16 DEF FollowNext, Live, DaalTypeOK
  <2>2. HEAD \in DOMAIN rows /\ rows[dRow[e]].next # NoRow
    BY <2>1, OnWalk DEF WalkOK, Shape
  <2> QED BY <1>1, <2>1, <2>2, FollowsShape
<1>17. CASE LastRow(e)
  <2>1. /\ UNCHANGED <<rows, dRetired, dScenario, collector>> /\ dPc'[e] = "get"
        /\ dRow'[e] = LastFrom(HEAD) /\ DInstanceOf[e] \notin dRetired
    BY <1>2, <1>3, <1>17 DEF LastRow, DaalTypeOK
  <2> QED BY <1>1, <2>1, StartsShape
<1>18. CASE GetRow(e)
  <2>1. UNCHANGED <<rows, dRetired, dScenario, collector>> /\ Live(e) /\ dPc[e] = "get"
    BY <1>18 DEF GetRow, Live
  <2>2. CASE dRow[e] \in DOMAIN rows /\ rows[dRow[e]].next # NoRow
    <3>1. HEAD \in DOMAIN rows
      BY <2>2 DEF Shape, ListOK
    <3>2. dRow'[e] = rows[dRow[e]].next /\ dPc'[e] = "get"
      BY <1>18, <2>1, <2>2 DEF GetRow, DaalTypeOK
    <3> QED BY <1>1, <2>1, <2>2, <3>1, <3>2, FollowsShape
  <2>3. CASE ~ (dRow[e] \in DOMAIN rows /\ rows[dRow[e]].next # NoRow)
    <3>1. dRow'[e] = dRow[e] /\ dPc'[e] = "put" /\ Live(e)' /\ ~ Holding(e)'
      BY <1>3, <1>18, <2>3 DEF GetRow, Live, Holding
    <3> QED BY <1>1, <2>1, <3>1, TurnsShape
  <2> QED BY <2>2, <2>3
<1>19. CASE PutRead(e)
  <2>1. /\ rows' = Released(rows, e) /\ dPc'[e] = "run" /\ DInstanceOf[e] \notin dRetired
        /\ UNCHANGED <<dRetired, dScenario, collector>>
    BY <1>2, <1>4, <1>19 DEF PutRead
  <2> QED BY <1>1, <2>1, ReleasedShape
<1>20. CASE DFinish(e)
  <2>1. UNCHANGED <<rows, dRetired, dScenario, collector>> /\ dPc'[e] = "done"
    BY <1>3, <1>20 DEF DFinish
  <2> QED BY <1>1, <1>5, <2>1, EndsShape
<1>21. CASE DDie(e)
  <2>1. /\ rows' = Released(rows, e) /\ dPc'[e] = "idle" /\ UNCHANGED <<dRetired, dScenario, collector>>
    BY <1>3, <1>21 DEF DDie
  <2> QED BY <1>1, <2>1, ReleasedShape
<1> QED BY <1>6, <1>7, <1>8, <1>9, <1>10, <1>11, <1>12, <1>13, <1>14, <1>15, <1>16, <1>17,
           <1>18, <1>19, <1>20, <1>21 DEF DaalStep

LEMMA CollectShape ==
  ASSUME DaalTypeOK, Shape, Collect \/ CollectorDies
  PROVE  Shape'
<1>1. /\ collector \in [at : {"idle", "clear", "heads", "row", "stamp", "sweep"}, prev : RowId, cur : RowId \cup {NoRow}]
      /\ collector.at \notin {"row", "stamp"} \/ CollectorOK
  BY DEF DaalTypeOK, Shape
<1>2. CASE ScanIntent
  BY <1>2, ScanShape
<1>3. CASE ClearRowDAAL
  BY <1>3, ClearLogsShape
<1>4. CASE ClearIntent
  <2>1. collector'.at = "heads"
    BY <1>1, <1>4 DEF ClearIntent
  <2> QED BY <1>4, <2>1, SameRows DEF ClearIntent, CollectorOK
<1>5. CASE QueryHeads
  <2>1. CASE HEAD \in DOMAIN rows /\ rows[HEAD].next # NoRow
    <3>1. collector'.at = "row" /\ collector'.prev = HEAD /\ collector'.cur = rows[HEAD].next /\ rows' = rows
      BY <1>5, <2>1 DEF QueryHeads
    <3>2. HEAD \in RowsFrom(rows, HEAD) /\ rows[HEAD].next \in RowsFrom(rows, HEAD)
      BY <2>1, HeadFirst, FromClosed DEF Shape, ListOK, ClosedRows
    <3>3. rows[HEAD].next \in DOMAIN rows
      BY <2>1, <3>2, HeadFirst DEF Shape
    <3>4. CollectorOK'
      BY <2>1, <3>1, <3>2, <3>3 DEF CollectorOK
    <3> QED BY <1>5, <3>4, SameRows DEF QueryHeads
  <2>2. CASE ~ (HEAD \in DOMAIN rows /\ rows[HEAD].next # NoRow)
    <3>1. collector'.at = "sweep"
      BY <1>5, <2>2 DEF QueryHeads, Idle
    <3> QED BY <1>5, <3>1, SameRows DEF QueryHeads, CollectorOK
  <2> QED BY <2>1, <2>2
<1>6. CASE ClearRow
  <2>1. collector.at = "row" /\ Collecting("row") /\ UNCHANGED <<dRetired, dScenario, dEnv>>
    BY <1>6 DEF ClearRow, Collecting
  <2>2. CASE rows[collector.cur].next = NoRow
    <3>1. collector'.at = "sweep" /\ rows' = rows
      BY <1>6, <2>2 DEF ClearRow, Idle
    <3> QED BY <2>1, <3>1, SameRows DEF CollectorOK
  <2>3. CASE rows[collector.cur].next # NoRow /\ rows[collector.cur].gcSize = LogSize
    BY <1>6, <2>1, <2>3, UnlinkShape DEF ClearRow
  <2>4. CASE rows[collector.cur].next # NoRow /\ rows[collector.cur].gcSize # LogSize
    <3>1. rows' = rows /\ collector'.at = "row" /\ collector'.prev = collector.cur /\ collector'.cur = rows[collector.cur].next
      BY <1>1, <1>6, <2>1, <2>4 DEF ClearRow
    <3>2. /\ HEAD \in DOMAIN rows /\ collector.cur \in RowsFrom(rows, HEAD) /\ collector.cur \in DOMAIN rows
      BY <2>1, CollectorRows
    <3>3. rows[collector.cur].next \in RowsFrom(rows, HEAD)
      BY <2>4, <3>2, FromClosed DEF Shape, ListOK, ClosedRows
    <3>4. rows[collector.cur].next \in DOMAIN rows
      BY <3>2, <3>3, HeadFirst DEF Shape
    <3>5. CollectorOK'
      BY <3>1, <3>2, <3>4 DEF CollectorOK
    <3> QED BY <2>1, <3>1, <3>5, SameRows
  <2> QED BY <2>2, <2>3, <2>4
<1>7. CASE StampRow
  BY <1>7, StampShape
<1>8. CASE ClearDangling
  <2>1. Collecting("sweep") /\ UNCHANGED <<dRetired, dScenario, dEnv>>
    BY <1>8 DEF ClearDangling
  <2>2. ASSUME NEW r \in DOMAIN rows, Dangling(r), rows' = Without(r), UNCHANGED collector PROVE Shape'
    BY <2>1, <2>2, DeleteShape
  <2>3. CASE collector' = Idle /\ rows' = rows
    <3>1. collector'.at = "idle"
      BY <2>3 DEF Idle
    <3> QED BY <2>1, <2>3, <3>1, SameRows DEF CollectorOK
  <2> QED BY <1>8, <2>2, <2>3 DEF ClearDangling
<1>9. CASE CollectorDies
  <2>1. collector'.at = "idle"
    BY <1>9 DEF CollectorDies, Idle
  <2> QED BY <1>9, <2>1, SameRows DEF CollectorDies, CollectorOK
<1> QED BY <1>2, <1>3, <1>4, <1>5, <1>6, <1>7, <1>8, <1>9 DEF Collect

-----------------------------------------------------------------------------
(***************************************************************************)
(* What the rows say of the writes: a write that took effect is found from *)
(* any row that somebody is on, or the collector has forgotten it.         *)
(***************************************************************************)
Took(c) == \E n \in DOMAIN effects : effects[n] = c
\* It took effect, and the row that says so was not taken for empty.
Kept(c) == Took(c) /\ c \notin forgotten
OpOf(c) == dScenario.ops[c[1]][c[2] + 1]
Full(r) == rows[r].logSize = LogSize

\* A row has a next one when it is full, and the collector counts what it removes.
RowLogsOK(r) ==
  /\ rows[r].logSize <= LogSize
  /\ rows[r].next # NoRow => Full(r)
  /\ ~ rows[r].counted => rows[r].logSize = rows[r].gcSize + Cardinality(rows[r].logs)
  /\ \A c \in rows[r].logs : Took(c)
  /\ \A c \in rows[r].refused : OpOf(c) # "write"

Appends == {"copy", "create", "swap", "drop", "follow"}

\* A row is appended to one that is full and does not have the CID.
PlaceOK(e) ==
  /\ dPc[e] = "refuse" => DOp(e) # "write"
  /\ dPc[e] = "look" => Logged(dRow[e], e) \/ Full(dRow[e])
  /\ dPc[e] \in Appends => Full(dRow[e]) /\ ~ Logged(dRow[e], e)

WritePlaces == {"head", "update", "refuse", "look", "copy", "create", "swap", "drop", "follow"}

\* A write that was made already is found on the way.
FindsOK(e) ==
  dPc[e] \in WritePlaces /\ Kept(Cid(e)) =>
    \E r \in RowsFrom(rows, dRow[e]) : r \in DOMAIN rows /\ Cid(e) \in rows[r].logs

\* A write of an instance that is not retired is found from HEAD.
EffectsOK ==
  /\ \A n \in DOMAIN effects :
       effects[n] \notin forgotten /\ effects[n][1] \notin dRetired =>
         \E r \in RowsFrom(rows, HEAD) : r \in DOMAIN rows /\ effects[n] \in rows[r].logs
  /\ HEAD \notin DOMAIN rows => effects = <<>>

LogsInv ==
  /\ \A r \in DOMAIN rows : RowLogsOK(r)
  /\ \A e \in DExecutor : PlaceOK(e) /\ FindsOK(e)
  /\ EffectsOK
  /\ DaalOnce

\* A row about which nothing new is said.
SameLogs(q) ==
  /\ rows'[q].logs = rows[q].logs /\ rows'[q].refused = rows[q].refused
  /\ rows'[q].logSize = rows[q].logSize /\ rows'[q].gcSize = rows[q].gcSize
  /\ rows'[q].counted = rows[q].counted
  /\ rows'[q].next # NoRow => rows[q].next # NoRow \/ Full(q)

\* What is reached from r still is, but for rows that are forgotten.
StillReached(r) ==
  \A q \in RowsFrom(rows, r) :
    q \in DOMAIN rows => q \in DOMAIN rows' /\ (q \in RowsFrom(rows', r) \/ rows[q].logs \subseteq forgotten')

SamePlace(f) ==
  /\ \/ dPc'[f] = dPc[f]
     \/ dPc[f] \in Appends /\ dPc'[f] \in Appends
     \/ dPc[f] = "head" /\ dPc'[f] = "update"
  /\ dRow'[f] = dRow[f] /\ dStep'[f] = dStep[f]

\* A step that says nothing new, where the executions in X go elsewhere.
LEMMA LogsKept ==
  ASSUME DaalTypeOK, Shape, LogsInv, NEW X \in SUBSET DExecutor,
         UNCHANGED <<effects, dScenario>>, forgotten \subseteq forgotten', dRetired \subseteq dRetired',
         \A q \in DOMAIN rows \cap DOMAIN rows' : SameLogs(q),
         \A q \in DOMAIN rows' \ DOMAIN rows : Fresh(rows'[q]),
         HEAD \in DOMAIN rows => HEAD \in DOMAIN rows',
         StillReached(HEAD),
         \A f \in X : PlaceOK(f)' /\ FindsOK(f)',
         \A f \in DExecutor \ X :
           /\ SamePlace(f)
           /\ Live(f) => StillReached(dRow[f])
  PROVE  LogsInv'
<1>1. LogSize' = LogSize /\ DInstanceOf' = DInstanceOf /\ LogSize \in Nat
  BY ScenarioType DEF LogSize, DInstanceOf
<1>2. ASSUME NEW c PROVE Took(c)' <=> Took(c)
  BY DEF Took
<1>3. ASSUME NEW r \in DOMAIN rows' PROVE RowLogsOK(r)'
  <2>1. CASE r \in DOMAIN rows
    <3>1. RowLogsOK(r) /\ SameLogs(r)
      BY <2>1 DEF LogsInv
    <3>2. \A c \in rows'[r].logs : Took(c)'
      BY <1>2, <3>1 DEF RowLogsOK, SameLogs
    <3>3. \A c \in rows'[r].refused : OpOf(c)' # "write"
      BY <3>1 DEF RowLogsOK, SameLogs, OpOf
    <3>4. /\ rows'[r].logSize <= LogSize' /\ (rows'[r].next # NoRow => rows'[r].logSize = LogSize')
          /\ ~ rows'[r].counted => rows'[r].logSize = rows'[r].gcSize + Cardinality(rows'[r].logs)
      BY <1>1, <3>1 DEF RowLogsOK, SameLogs, Full
    <3> QED BY <3>2, <3>3, <3>4 DEF RowLogsOK, Full, NoRow
  <2>2. CASE r \notin DOMAIN rows
    <3>1. Fresh(rows'[r])
      BY <2>2
    <3>2. rows'[r].logs = {} /\ rows'[r].refused = {} /\ rows'[r].logSize = 0 /\ rows'[r].gcSize = 0 /\ rows'[r].next = NoRow
      BY <3>1 DEF Fresh
    <3>3. Cardinality({}) = 0
      BY FS_EmptySet
    <3>4. 0 <= LogSize' /\ 0 = 0 + Cardinality({})
      BY <1>1, <3>3
    <3> QED BY <3>2, <3>4 DEF RowLogsOK, NoRow
  <2> QED BY <2>1, <2>2
<1>4. EffectsOK'
  <2>1. ASSUME NEW n \in DOMAIN effects', effects'[n] \notin forgotten', effects'[n][1] \notin dRetired'
        PROVE  \E r \in RowsFrom(rows', HEAD) : r \in DOMAIN rows' /\ effects'[n] \in rows'[r].logs
    <3>1. PICK r \in RowsFrom(rows, HEAD) : r \in DOMAIN rows /\ effects[n] \in rows[r].logs
      BY <2>1 DEF LogsInv, EffectsOK
    <3>2. r \in DOMAIN rows' /\ (r \in RowsFrom(rows', HEAD) \/ rows[r].logs \subseteq forgotten')
      BY <3>1 DEF StillReached
    <3>3. rows'[r].logs = rows[r].logs
      BY <3>1, <3>2 DEF SameLogs
    <3> QED BY <2>1, <3>1, <3>2, <3>3
  <2>2. HEAD \notin DOMAIN rows' => effects' = <<>>
    BY DEF LogsInv, EffectsOK
  <2> QED BY <2>1, <2>2 DEF EffectsOK, HEAD
<1>5. DaalOnce'
  BY DEF LogsInv, DaalOnce
<1>6. ASSUME NEW f \in DExecutor \ X PROVE PlaceOK(f)' /\ FindsOK(f)'
  <2>1. /\ SamePlace(f) /\ dRow'[f] = dRow[f] /\ PlaceOK(f) /\ FindsOK(f)
        /\ Cid(f)' = Cid(f) /\ DOp(f)' = DOp(f)
    BY <1>1 DEF LogsInv, Cid, DOp, SamePlace
  <2>2. CASE ~ Live(f)
    BY <2>1, <2>2 DEF Live, PlaceOK, FindsOK, WritePlaces, SamePlace, Appends
  <2>3. CASE Live(f)
    <3>1. ASSUME dPc[f] \notin {"head", "get", "put"}
          PROVE  dRow[f] \in DOMAIN rows /\ dRow[f] \in DOMAIN rows' /\ SameLogs(dRow[f])
      <4>1. dRow[f] \in DOMAIN rows /\ dRow[f] \in RowsFrom(rows, dRow[f])
        BY <2>3, <3>1, OnWalk
      <4>2. dRow[f] \in DOMAIN rows'
        BY <2>3, <4>1 DEF StillReached
      <4> QED BY <4>1, <4>2
    <3>2. PlaceOK(f)'
      BY <1>1, <2>1, <3>1 DEF PlaceOK, Logged, Full, SameLogs, SamePlace, Appends
    <3>3. ASSUME dPc'[f] \in WritePlaces, Kept(Cid(f))'
          PROVE  \E r \in RowsFrom(rows', dRow'[f]) : r \in DOMAIN rows' /\ Cid(f) \in rows'[r].logs
      <4>1. Kept(Cid(f)) /\ Cid(f) \notin forgotten'
        BY <2>1, <3>3 DEF Kept, Took
      <4>2. PICK r \in RowsFrom(rows, dRow[f]) : r \in DOMAIN rows /\ Cid(f) \in rows[r].logs
        BY <2>1, <3>3, <4>1 DEF FindsOK, SamePlace, Appends, WritePlaces
      <4>3. r \in DOMAIN rows' /\ r \in RowsFrom(rows', dRow[f])
        BY <2>3, <4>1, <4>2 DEF StillReached
      <4>4. rows'[r].logs = rows[r].logs
        BY <4>2, <4>3 DEF SameLogs
      <4> QED BY <2>1, <4>2, <4>3, <4>4
    <3> QED BY <2>1, <3>2, <3>3 DEF FindsOK
  <2> QED BY <2>2, <2>3
<1> QED BY <1>3, <1>4, <1>5, <1>6 DEF LogsInv

\* Behind the last row there is nothing.
LEMMA LastIsAll ==
  ASSUME DaalTypeOK, Shape, NEW e \in DExecutor, Live(e), HEAD \in DOMAIN rows, rows[dRow[e]].next = NoRow
  PROVE  RowsFrom(rows, dRow[e]) = {dRow[e]} /\ LastOf(rows, dRow[e])
BY OnWalk, PathOfLast

\* Nothing is linked, unlinked, made or deleted.
LEMMA SameReached ==
  ASSUME Shape, SameNexts(rows, rows')
  PROVE  StillReached(HEAD) /\ \A r \in RowId : StillReached(r)
<1>1. RowsFrom(rows', HEAD) = RowsFrom(rows, HEAD) /\ \A r \in RowId : RowsFrom(rows', r) = RowsFrom(rows, r)
  BY RowIds, SameKeepsList DEF Shape
<1> QED BY <1>1 DEF StillReached, SameNexts

\* An execution moves, and no row says otherwise than before.
LEMMA QuietLogs ==
  ASSUME DaalTypeOK, Shape, LogsInv, NEW e \in DExecutor, OnlyMoves(e), SameNexts(rows, rows'),
         \A q \in DOMAIN rows : SameLogs(q),
         UNCHANGED <<effects, forgotten, dRetired, dScenario>>, PlaceOK(e)', FindsOK(e)'
  PROVE  LogsInv'
<1> DEFINE X == {e}
<1>1. X \in SUBSET DExecutor /\ \A f \in X : PlaceOK(f)' /\ FindsOK(f)'
  OBVIOUS
<1>2. \A f \in DExecutor \ X : SamePlace(f) /\ (Live(f) => StillReached(dRow[f]))
  BY SameReached, OnWalk DEF OnlyMoves, SamePlace
<1>3. StillReached(HEAD) /\ DOMAIN rows' = DOMAIN rows
  BY SameReached DEF SameNexts
<1> HIDE DEF X
<1> QED BY <1>1, <1>2, <1>3, LogsKept

\* An operation is over, or an execution is.
LEMMA OverLogs ==
  ASSUME DaalTypeOK, Shape, LogsInv, NEW e \in DExecutor, OnlyMoves(e), rows' = rows \/ rows' = Released(rows, e),
         UNCHANGED <<effects, forgotten, dRetired, dScenario>>, dPc'[e] \notin WritePlaces
  PROVE  LogsInv'
<1>1. PlaceOK(e)' /\ FindsOK(e)'
  BY DEF PlaceOK, FindsOK, WritePlaces, Appends
<1>2. SameNexts(rows, rows') /\ \A q \in DOMAIN rows : SameLogs(q)
  <2>1. CASE rows' = rows
    BY <2>1 DEF SameNexts, SameLogs
  <2>2. CASE rows' = Released(rows, e)
    BY <2>2, ReleasedSame DEF SameLogs, DaalTypeOK
  <2> QED BY <2>1, <2>2
<1> QED BY <1>1, <1>2, QuietLogs

\* The row is left alone.
LEMMA TurnsLogs ==
  ASSUME DaalTypeOK, Shape, LogsInv, NEW e \in DExecutor, OnlyMoves(e), rows' = rows,
         UNCHANGED <<effects, forgotten, dRetired, dScenario>>, dRow'[e] = dRow[e], dStep'[e] = dStep[e],
         PlaceOK(e)', dPc[e] \in WritePlaces
  PROVE  LogsInv'
<1>1. Cid(e)' = Cid(e) /\ (Kept(Cid(e))' => Kept(Cid(e)))
  BY DEF Cid, DInstanceOf, Kept, Took
<1>2. FindsOK(e)'
  BY <1>1 DEF FindsOK, LogsInv
<1>3. SameNexts(rows, rows') /\ \A q \in DOMAIN rows : SameLogs(q)
  BY DEF SameNexts, SameLogs
<1> QED BY <1>2, <1>3, QuietLogs

\* The next row is taken because the CID is not in this one.
LEMMA FollowsLogs ==
  ASSUME DaalTypeOK, Shape, LogsInv, NEW e \in DExecutor, OnlyMoves(e), rows' = rows,
         UNCHANGED <<effects, forgotten, dRetired, dScenario>>, Live(e), dPc[e] \in WritePlaces,
         HEAD \in DOMAIN rows, rows[dRow[e]].next # NoRow, ~ Logged(dRow[e], e),
         dRow'[e] = rows[dRow[e]].next, dStep'[e] = dStep[e], dPc'[e] = "update"
  PROVE  LogsInv'
<1>1. Cid(e)' = Cid(e) /\ (Kept(Cid(e))' => Kept(Cid(e)))
  BY DEF Cid, DInstanceOf, Kept, Took
<1>2. RowsFrom(rows, dRow[e]) = {dRow[e]} \cup RowsFrom(rows, rows[dRow[e]].next)
  BY NextWalk
<1>3. ASSUME Kept(Cid(e))
      PROVE  \E r \in RowsFrom(rows, dRow'[e]) : r \in DOMAIN rows /\ Cid(e) \in rows[r].logs
  <2>1. PICK r \in RowsFrom(rows, dRow[e]) : r \in DOMAIN rows /\ Cid(e) \in rows[r].logs
    BY <1>3 DEF LogsInv, FindsOK
  <2> QED BY <1>2, <2>1 DEF Logged
<1>4. FindsOK(e)'
  BY <1>1, <1>3 DEF FindsOK
<1>5. PlaceOK(e)'
  BY DEF PlaceOK, Appends
<1>6. SameNexts(rows, rows') /\ \A q \in DOMAIN rows : SameLogs(q)
  BY DEF SameNexts, SameLogs
<1> QED BY <1>4, <1>5, <1>6, QuietLogs

\* A write that the rows say nothing of was not made, or is forgotten.
LEMMA NotLogged ==
  ASSUME LogsInv, NEW e, DInstanceOf[e] \notin dRetired, \A r \in DOMAIN rows : ~ Logged(r, e)
  PROVE  ~ Kept(Cid(e))
BY DEF LogsInv, EffectsOK, Kept, Took, Logged, Cid

\* Nor was one that the last row does not have.
LEMMA NotKept ==
  ASSUME DaalTypeOK, Shape, LogsInv, NEW e \in DExecutor, Live(e), dPc[e] \in WritePlaces, HEAD \in DOMAIN rows,
         rows[dRow[e]].next = NoRow, ~ Logged(dRow[e], e)
  PROVE  ~ Kept(Cid(e))
BY LastIsAll DEF LogsInv, FindsOK, Logged

\* Only the last row has room.
LEMMA RoomIsLast ==
  ASSUME DaalTypeOK, Shape, LogsInv, NEW e \in DExecutor, Live(e), HEAD \in DOMAIN rows, Room(dRow[e], e)
  PROVE  rows[dRow[e]].next = NoRow /\ LastOf(rows, dRow[e]) /\ ~ Full(dRow[e])
<1>1. rows[dRow[e]].logSize < LogSize /\ rows[dRow[e]].logSize \in Nat /\ RowLogsOK(dRow[e]) /\ LogSize \in Nat
  BY ScenarioType DEF Room, LogsInv, DaalTypeOK, RowsOK, RowOK, DRowType
<1>2. ~ Full(dRow[e]) /\ rows[dRow[e]].next = NoRow
  BY <1>1 DEF RowLogsOK, Full
<1> QED BY <1>2, LastIsAll

\* The row of the operation gets an entry.
LEMMA WrittenRows ==
  ASSUME DaalTypeOK, NEW r \in DOMAIN rows, NEW row, RowOK(row), NEW e,
         rows' = Released([rows EXCEPT ![r] = row], e)
  PROVE  /\ DOMAIN rows' = DOMAIN rows
         /\ rows'[r].v = row.v /\ rows'[r].holder = row.holder
         /\ rows'[r].logs = row.logs /\ rows'[r].refused = row.refused
         /\ rows'[r].logSize = row.logSize /\ rows'[r].gcSize = row.gcSize
         /\ rows'[r].counted = row.counted /\ rows'[r].next = row.next
         /\ \A q \in DOMAIN rows \ {r} :
              /\ rows'[q].v = rows[q].v /\ rows'[q].holder = rows[q].holder
              /\ rows'[q].logs = rows[q].logs /\ rows'[q].refused = rows[q].refused
              /\ rows'[q].logSize = rows[q].logSize /\ rows'[q].gcSize = rows[q].gcSize
              /\ rows'[q].counted = rows[q].counted /\ rows'[q].next = rows[q].next
<1>1. PICK rt : rt = [rows EXCEPT ![r] = row] /\ RowsOK(rt)
  BY ChangedRow DEF DaalTypeOK
<1>2. RowsOK(rt) /\ DOMAIN rt = DOMAIN rows /\ rt[r] = row /\ \A q \in DOMAIN rows \ {r} : rt[q] = rows[q]
  BY <1>1
<1>3. rows' = Released(rt, e)
  BY <1>1
<1>4. /\ DOMAIN Released(rt, e) = DOMAIN rt
      /\ \A q \in DOMAIN rt :
              /\ Released(rt, e)[q].v = rt[q].v /\ Released(rt, e)[q].holder = rt[q].holder
              /\ Released(rt, e)[q].logs = rt[q].logs /\ Released(rt, e)[q].refused = rt[q].refused
              /\ Released(rt, e)[q].logSize = rt[q].logSize /\ Released(rt, e)[q].gcSize = rt[q].gcSize
              /\ Released(rt, e)[q].next = rt[q].next /\ Released(rt, e)[q].counted = rt[q].counted
  <2>1. RowsOK(rt)
    BY <1>2
  <2> QED BY <2>1, ReleasedSame DEF SameNexts
<1>5. /\ rows'[r].v = row.v /\ rows'[r].holder = row.holder
      /\ rows'[r].logs = row.logs /\ rows'[r].refused = row.refused
      /\ rows'[r].logSize = row.logSize /\ rows'[r].gcSize = row.gcSize
      /\ rows'[r].counted = row.counted /\ rows'[r].next = row.next
  BY ONLY <1>2, <1>3, <1>4, r \in DOMAIN rows
<1>6. ASSUME NEW q \in DOMAIN rows \ {r}
      PROVE  /\ rows'[q].v = rows[q].v /\ rows'[q].holder = rows[q].holder
             /\ rows'[q].logs = rows[q].logs /\ rows'[q].refused = rows[q].refused
             /\ rows'[q].logSize = rows[q].logSize /\ rows'[q].gcSize = rows[q].gcSize
             /\ rows'[q].counted = rows[q].counted /\ rows'[q].next = rows[q].next
  BY ONLY <1>2, <1>3, <1>4, q \in DOMAIN rows \ {r}
<1>7. DOMAIN rows' = DOMAIN rows
  BY ONLY <1>2, <1>3, <1>4
<1> QED BY <1>5, <1>6, <1>7

\* A write that takes effect: the last row gets the CID.
WritesTo(e, r, row) ==
  /\ RowOK(row) /\ rows' = Released([rows EXCEPT ![r] = row], e)
  /\ row.logs = rows[r].logs \cup {Cid(e)} /\ row.logSize = rows[r].logSize + 1
  /\ row.refused = rows[r].refused /\ row.gcSize = rows[r].gcSize
  /\ row.counted = rows[r].counted /\ row.next = rows[r].next

\* UpdateRow is such a write.
LEMMA UpdateWrites ==
  ASSUME DaalTypeOK, Shape, NEW e \in DExecutor, UpdateRow(e), Room(dRow[e], e), Cond(dRow[e], e)
  PROVE  WritesTo(e, dRow[e], Updated(dRow[e], e))
<1>1. dRow[e] \in DOMAIN rows /\ e \in DOMAIN DInstanceOf
  BY DEF Room, UpdateRow, At, DaalTypeOK
<1>2. RowOK(Updated(dRow[e], e)) /\ rows[dRow[e]] \in DRowType
  BY <1>1, UpdatedRow DEF DaalTypeOK, RowsOK, RowOK
<1>3. rows' = Released([rows EXCEPT ![dRow[e]] = Updated(dRow[e], e)], e)
  BY DEF UpdateRow
<1> QED BY <1>2, <1>3 DEF WritesTo, Updated, DRowType

LEMMA WritesRows ==
  ASSUME DaalTypeOK, NEW e, NEW r \in DOMAIN rows, NEW row, WritesTo(e, r, row)
  PROVE  /\ DOMAIN rows' = DOMAIN rows
         /\ rows'[r].logs = rows[r].logs \cup {Cid(e)} /\ rows'[r].logSize = rows[r].logSize + 1
         /\ rows'[r].refused = rows[r].refused /\ rows'[r].gcSize = rows[r].gcSize
         /\ rows'[r].counted = rows[r].counted /\ rows'[r].next = rows[r].next
         /\ rows'[r].v = row.v /\ rows'[r].holder = row.holder
         /\ \A q \in DOMAIN rows \ {r} :
              /\ rows'[q].v = rows[q].v /\ rows'[q].holder = rows[q].holder
              /\ rows'[q].logs = rows[q].logs /\ rows'[q].refused = rows[q].refused
              /\ rows'[q].logSize = rows[q].logSize /\ rows'[q].gcSize = rows[q].gcSize
              /\ rows'[q].counted = rows[q].counted /\ rows'[q].next = rows[q].next
<1>1. /\ DOMAIN rows' = DOMAIN rows
      /\ rows'[r].v = row.v /\ rows'[r].holder = row.holder
      /\ rows'[r].logs = row.logs /\ rows'[r].refused = row.refused
      /\ rows'[r].logSize = row.logSize /\ rows'[r].gcSize = row.gcSize
      /\ rows'[r].counted = row.counted /\ rows'[r].next = row.next
      /\ \A q \in DOMAIN rows \ {r} :
           /\ rows'[q].v = rows[q].v /\ rows'[q].holder = rows[q].holder
           /\ rows'[q].logs = rows[q].logs /\ rows'[q].refused = rows[q].refused
           /\ rows'[q].logSize = rows[q].logSize /\ rows'[q].gcSize = rows[q].gcSize
           /\ rows'[q].counted = rows[q].counted /\ rows'[q].next = rows[q].next
  BY WrittenRows DEF WritesTo
<1>2. /\ row.logs = rows[r].logs \cup {Cid(e)} /\ row.logSize = rows[r].logSize + 1
      /\ row.refused = rows[r].refused /\ row.gcSize = rows[r].gcSize
      /\ row.counted = rows[r].counted /\ row.next = rows[r].next
  BY DEF WritesTo
<1> QED BY ONLY <1>1, <1>2

\* UpdateRow: the write was not made before.
LEMMA UpdateLogs ==
  ASSUME DaalTypeOK, Shape, LogsInv, NEW e \in DExecutor, OnlyMoves(e),
         UpdateRow(e), Room(dRow[e], e), Cond(dRow[e], e)
  PROVE  LogsInv' /\ ~ Kept(Cid(e))
<1>1. dPc[e] = "update" /\ Live(e) /\ HEAD \in DOMAIN rows /\ e \in DOMAIN DInstanceOf /\ dPc[e] \in WritePlaces
  <2>1. dPc[e] = "update" /\ Live(e) /\ dPc[e] \in WritePlaces
    BY DEF UpdateRow, At, Live, WritePlaces
  <2> QED BY <2>1, OnWalk
<1>2. PICK r \in DOMAIN rows : r = dRow[e]
  BY DEF Room
<1>3. PICK c : c = Cid(e) /\ ~ Logged(r, e) /\ c \notin rows[r].logs
  BY <1>2 DEF Room, Logged
<1>4. rows[r].next = NoRow /\ LastOf(rows, r) /\ ~ Full(r) /\ rows[r].logSize < LogSize
  BY <1>1, <1>2, RoomIsLast DEF Room
<1>5. ~ Kept(c)
  BY <1>1, <1>2, <1>3, <1>4, NotKept
<1>6. PICK row : WritesTo(e, r, row)
  BY <1>2, UpdateWrites
<1>7. /\ DOMAIN rows' = DOMAIN rows
      /\ rows'[r].logs = rows[r].logs \cup {c} /\ rows'[r].logSize = rows[r].logSize + 1
      /\ rows'[r].refused = rows[r].refused /\ rows'[r].gcSize = rows[r].gcSize
      /\ rows'[r].counted = rows[r].counted /\ rows'[r].next = rows[r].next
      /\ \A q \in DOMAIN rows \ {r} :
           /\ rows'[q].logs = rows[q].logs /\ rows'[q].refused = rows[q].refused
           /\ rows'[q].logSize = rows[q].logSize /\ rows'[q].gcSize = rows[q].gcSize
           /\ rows'[q].counted = rows[q].counted /\ rows'[q].next = rows[q].next
  BY <1>3, <1>6, WritesRows
<1>8. /\ effects' = Append(effects, c) /\ dPc'[e] = "run"
      /\ UNCHANGED <<dScenario, dRetired, forgotten>>
  BY <1>3 DEF UpdateRow, Over, GoTo, DaalTypeOK
<1>9. /\ effects \in Seq(DCids) /\ Len(effects) \in Nat
      /\ DOMAIN effects' = DOMAIN effects \cup {Len(effects) + 1}
      /\ effects'[Len(effects) + 1] = c /\ \A n \in DOMAIN effects : effects'[n] = effects[n]
      /\ Len(effects) + 1 \notin DOMAIN effects
  <2>1. effects \in Seq(DCids)
    BY DEF DaalTypeOK
  <2> QED BY <1>8, <2>1
<1>10. SameNexts(rows, rows')
  BY <1>7 DEF SameNexts
<1>11. RowsFrom(rows', HEAD) = RowsFrom(rows, HEAD) /\ \A q \in RowId : RowsFrom(rows', q) = RowsFrom(rows, q)
  BY <1>10, RowIds, SameKeepsList DEF Shape
<1>12. LogSize' = LogSize /\ DInstanceOf' = DInstanceOf /\ LogSize \in Nat
  BY <1>8, ScenarioType DEF LogSize, DInstanceOf
<1>13. Took(c)' /\ \A d : Took(d) => Took(d)'
  BY <1>9 DEF Took
<1>14. \A d : Took(d)' => d = c \/ Took(d)
  BY <1>9 DEF Took
<1>15. ASSUME NEW q \in DOMAIN rows' PROVE RowLogsOK(q)'
  <2>1. RowLogsOK(q) /\ RowOK(rows[q])
    BY <1>7 DEF LogsInv, DaalTypeOK, RowsOK
  <2>2. \A d \in rows'[q].logs : Took(d)'
    BY <1>7, <1>13, <2>1 DEF RowLogsOK
  <2>3. \A d \in rows'[q].refused : OpOf(d)' # "write"
    BY <1>7, <1>8, <2>1 DEF RowLogsOK, OpOf
  <2>4. rows'[q].logSize <= LogSize'
    BY <1>4, <1>7, <1>12, <2>1 DEF RowLogsOK, RowOK, DRowType
  <2>5. rows'[q].next # NoRow => Full(q)'
    BY <1>4, <1>7, <1>12, <2>1 DEF RowLogsOK, Full
  <2>6. ~ rows'[q].counted => rows'[q].logSize = rows'[q].gcSize + Cardinality(rows'[q].logs)
    <3>1. CASE q = r
      <4>1. Cardinality(rows[r].logs \cup {c}) = Cardinality(rows[r].logs) + 1 /\ Cardinality(rows[r].logs) \in Nat
        BY <1>3, <2>1, <3>1, FS_AddElement, FS_CardinalityType DEF RowOK
      <4>2. rows[r].gcSize \in Nat /\ rows[r].logSize \in Nat
        BY <2>1, <3>1 DEF RowOK, DRowType
      <4>3. ~ rows[r].counted => rows[r].logSize = rows[r].gcSize + Cardinality(rows[r].logs)
        BY <2>1, <3>1 DEF RowLogsOK
      <4>4. /\ rows'[r].logs = rows[r].logs \cup {c} /\ rows'[r].logSize = rows[r].logSize + 1
            /\ rows'[r].gcSize = rows[r].gcSize /\ rows'[r].counted = rows[r].counted
        BY <1>7
      <4> QED BY ONLY <3>1, <4>1, <4>2, <4>3, <4>4
    <3>2. CASE q # r
      BY <1>7, <2>1, <3>2 DEF RowLogsOK
    <3> QED BY <3>1, <3>2
  <2> QED BY <2>2, <2>3, <2>4, <2>5, <2>6 DEF RowLogsOK, NoRow
<1>16. EffectsOK'
  <2>1. ASSUME NEW n \in DOMAIN effects', effects'[n] \notin forgotten', effects'[n][1] \notin dRetired'
        PROVE  \E q \in RowsFrom(rows', HEAD) : q \in DOMAIN rows' /\ effects'[n] \in rows'[q].logs
    <3>1. CASE n = Len(effects) + 1
      BY <1>4, <1>7, <1>9, <1>11, <3>1 DEF LastOf
    <3>2. CASE n \in DOMAIN effects
      <4>1. PICK q \in RowsFrom(rows, HEAD) : q \in DOMAIN rows /\ effects[n] \in rows[q].logs
        BY <1>8, <1>9, <2>1, <3>2 DEF LogsInv, EffectsOK
      <4>2. effects[n] \in rows'[q].logs
        BY <1>7, <4>1
      <4> QED BY <1>7, <1>9, <1>11, <3>2, <4>1, <4>2
    <3> QED BY <1>9, <3>1, <3>2
  <2> QED BY <1>1, <1>7, <2>1 DEF EffectsOK, HEAD
<1>17. DaalOnce'
  <2> SUFFICES ASSUME NEW m \in DOMAIN effects', NEW n \in DOMAIN effects', m # n, effects'[m] = effects'[n]
               PROVE  effects'[m] \in forgotten'
    BY DEF DaalOnce
  <2>1. CASE m \in DOMAIN effects /\ n \in DOMAIN effects
    BY <1>8, <1>9, <2>1 DEF LogsInv, DaalOnce
  <2>2. CASE ~ (m \in DOMAIN effects /\ n \in DOMAIN effects)
    <3>1. effects'[m] = c /\ Took(c)
      BY <1>9, <2>2 DEF Took
    <3> QED BY <1>5, <1>8, <3>1 DEF Kept
  <2> QED BY <2>1, <2>2
<1>18. ASSUME NEW f \in DExecutor PROVE PlaceOK(f)' /\ FindsOK(f)'
  <2>1. CASE f = e
    BY <1>8, <2>1 DEF PlaceOK, FindsOK, WritePlaces, Appends
  <2>2. CASE f # e
    <3>1. /\ dPc'[f] = dPc[f] /\ dRow'[f] = dRow[f] /\ dStep'[f] = dStep[f] /\ PlaceOK(f) /\ FindsOK(f)
          /\ Cid(f)' = Cid(f) /\ DOp(f)' = DOp(f)
      BY <1>8, <1>12, <2>2 DEF LogsInv, Cid, DOp, OnlyMoves
    <3>2. CASE ~ Live(f)
      BY <3>1, <3>2 DEF Live, PlaceOK, FindsOK, WritePlaces, Appends
    <3>3. CASE Live(f)
      <4>1. /\ dRow[f] \in DOMAIN rows /\ dRow[f] \in RowId /\ PathOK(rows, dRow[f])
            /\ RowsFrom(rows', dRow'[f]) = RowsFrom(rows, dRow[f])
        BY <1>1, <1>11, <3>1, <3>3, OnWalk
      <4>2. dRow[f] = r => ~ Full(dRow[f])
        BY <1>4
      <4>3. PlaceOK(f)'
        <5>1. dPc[f] = "look" => Logged(dRow[f], f)' \/ Full(dRow[f])'
          BY <1>7, <1>12, <3>1, <4>1, <4>2 DEF PlaceOK, Logged, Full
        <5>2. dPc[f] \in Appends => Full(dRow[f])' /\ ~ Logged(dRow[f], f)'
          BY <1>7, <1>12, <3>1, <4>1, <4>2 DEF PlaceOK, Logged, Full
        <5> QED BY <3>1, <5>1, <5>2 DEF PlaceOK
      <4>4. ASSUME dPc'[f] \in WritePlaces, Kept(Cid(f))'
            PROVE  \E q \in RowsFrom(rows, dRow[f]) : q \in DOMAIN rows /\ Cid(f) \in rows'[q].logs
        <5>1. CASE Cid(f) = c
          <6>1. PICK q \in RowsFrom(rows, dRow[f]) : LastOf(rows, q)
            BY <4>1 DEF PathOK
          <6>2. q = r
            BY <1>4, <6>1, OneLast DEF Shape
          <6> QED BY <1>7, <5>1, <6>1, <6>2
        <5>2. CASE Cid(f) # c
          <6>1. Kept(Cid(f))
            BY <1>8, <1>14, <3>1, <4>4, <5>2 DEF Kept
          <6>2. PICK q \in RowsFrom(rows, dRow[f]) : q \in DOMAIN rows /\ Cid(f) \in rows[q].logs
            BY <3>1, <4>4, <6>1 DEF FindsOK
          <6> QED BY <1>7, <6>2
        <5> QED BY <5>1, <5>2
      <4> QED BY <1>7, <3>1, <4>1, <4>3, <4>4 DEF FindsOK
    <3> QED BY <3>2, <3>3
  <2> QED BY <2>1, <2>2
<1>19. LogsInv'
  BY <1>15, <1>16, <1>17, <1>18 DEF LogsInv
<1> QED BY <1>3, <1>5, <1>19

\* RefuseRow.
LEMMA RefuseRows ==
  ASSUME DaalTypeOK, Shape, NEW e \in DExecutor, RefuseRow(e), Room(dRow[e], e)
  PROVE  LET r == dRow[e]
         IN  /\ DOMAIN rows' = DOMAIN rows
             /\ rows'[r].refused = rows[r].refused \cup {Cid(e)}
             /\ \A q \in DOMAIN rows :
                  /\ rows'[q].v = rows[q].v /\ rows'[q].holder = rows[q].holder
                  /\ rows'[q].logs = rows[q].logs
                  /\ rows'[q].logSize = rows[q].logSize /\ rows'[q].gcSize = rows[q].gcSize
                  /\ rows'[q].counted = rows[q].counted /\ rows'[q].next = rows[q].next
                  /\ q # r => rows'[q].refused = rows[q].refused
<1>1. dRow[e] \in DOMAIN rows /\ e \in DOMAIN DInstanceOf
  BY DEF Room, RefuseRow, At, DaalTypeOK
<1>2. PICK row : row = [rows[dRow[e]] EXCEPT !.refused = @ \cup {Cid(e)}] /\ RowOK(row)
  BY <1>1, UpdatedRow
<1>3. rows' = Released([rows EXCEPT ![dRow[e]].refused = @ \cup {Cid(e)}], e)
  BY DEF RefuseRow
<1>4. [rows EXCEPT ![dRow[e]].refused = @ \cup {Cid(e)}] = [rows EXCEPT ![dRow[e]] = row]
  BY <1>1, <1>2
<1>5. rows[dRow[e]] \in DRowType
  BY <1>1 DEF DaalTypeOK, RowsOK, RowOK
<1>6. /\ row.refused = rows[dRow[e]].refused \cup {Cid(e)}
      /\ row.v = rows[dRow[e]].v /\ row.holder = rows[dRow[e]].holder /\ row.logs = rows[dRow[e]].logs
      /\ row.logSize = rows[dRow[e]].logSize /\ row.gcSize = rows[dRow[e]].gcSize
      /\ row.counted = rows[dRow[e]].counted /\ row.next = rows[dRow[e]].next
  BY <1>2, <1>5 DEF DRowType
<1>7. RowOK(row) /\ rows' = Released([rows EXCEPT ![dRow[e]] = row], e)
  BY <1>2, <1>3, <1>4
<1>8. PICK r : r = dRow[e]
  OBVIOUS
<1>9. /\ DOMAIN rows' = DOMAIN rows
      /\ rows'[r].v = row.v /\ rows'[r].holder = row.holder
      /\ rows'[r].logs = row.logs /\ rows'[r].refused = row.refused
      /\ rows'[r].logSize = row.logSize /\ rows'[r].gcSize = row.gcSize
      /\ rows'[r].counted = row.counted /\ rows'[r].next = row.next
      /\ \A q \in DOMAIN rows \ {r} :
           /\ rows'[q].v = rows[q].v /\ rows'[q].holder = rows[q].holder
           /\ rows'[q].logs = rows[q].logs /\ rows'[q].refused = rows[q].refused
           /\ rows'[q].logSize = rows[q].logSize /\ rows'[q].gcSize = rows[q].gcSize
           /\ rows'[q].counted = rows[q].counted /\ rows'[q].next = rows[q].next
  <2>1. r \in DOMAIN rows /\ RowOK(row) /\ rows' = Released([rows EXCEPT ![r] = row], e)
    BY <1>1, <1>7, <1>8
  <2> QED BY ONLY DaalTypeOK, <2>1, WrittenRows
<1> QED BY ONLY <1>6, <1>8, <1>9

LEMMA RefuseLogs ==
  ASSUME DaalTypeOK, Shape, LogsInv, NEW e \in DExecutor, OnlyMoves(e), RefuseRow(e), Room(dRow[e], e)
  PROVE  LogsInv'
<1>1. dPc[e] = "refuse" /\ Live(e) /\ HEAD \in DOMAIN rows /\ e \in DOMAIN DInstanceOf /\ DOp(e) \in Writes
  <2>1. dPc[e] = "refuse" /\ Live(e) /\ DOp(e) \in Writes
    BY DEF RefuseRow, At, Live
  <2> QED BY <2>1, OnWalk
<1>2. PICK r \in DOMAIN rows : r = dRow[e]
  BY DEF Room
<1>3. rows[r].next = NoRow /\ ~ Full(r)
  BY <1>1, <1>2, RoomIsLast
<1>4. PICK c : c = Cid(e) /\ OpOf(c) # "write"
  <2>1. DOp(e) = OpOf(Cid(e))
    BY <1>1, DOpIs DEF OpOf, Cid, Writes
  <2>2. DOp(e) # "write"
    BY <1>1 DEF LogsInv, PlaceOK
  <2> QED BY <2>1, <2>2
<1>5. /\ DOMAIN rows' = DOMAIN rows /\ rows'[r].refused = rows[r].refused \cup {c}
      /\ \A q \in DOMAIN rows :
           /\ rows'[q].logs = rows[q].logs
           /\ rows'[q].logSize = rows[q].logSize /\ rows'[q].gcSize = rows[q].gcSize
           /\ rows'[q].counted = rows[q].counted /\ rows'[q].next = rows[q].next
           /\ q # r => rows'[q].refused = rows[q].refused
  BY <1>2, <1>4, RefuseRows
<1>6. dPc'[e] = "run" /\ UNCHANGED <<dScenario, dRetired, forgotten, effects>>
  BY DEF RefuseRow, Over, GoTo, DaalTypeOK
<1>7. RowsFrom(rows', HEAD) = RowsFrom(rows, HEAD) /\ \A q \in RowId : RowsFrom(rows', q) = RowsFrom(rows, q)
  <2>1. SameNexts(rows, rows')
    BY <1>5 DEF SameNexts
  <2> QED BY <2>1, RowIds, SameKeepsList DEF Shape
<1>8. LogSize' = LogSize /\ DInstanceOf' = DInstanceOf
  BY <1>6 DEF LogSize, DInstanceOf
<1>9. \A d : Took(d)' <=> Took(d)
  BY <1>6 DEF Took
<1>10. ASSUME NEW q \in DOMAIN rows' PROVE RowLogsOK(q)'
  <2>1. RowLogsOK(q)
    BY <1>5 DEF LogsInv
  <2>2. \A d \in rows'[q].refused : OpOf(d)' # "write"
    BY <1>4, <1>5, <1>6, <2>1 DEF RowLogsOK, OpOf
  <2> QED BY <1>5, <1>8, <1>9, <2>1, <2>2 DEF RowLogsOK, Full, NoRow
<1>11. EffectsOK'
  BY <1>5, <1>6, <1>7 DEF LogsInv, EffectsOK, HEAD
<1>12. DaalOnce'
  BY <1>6 DEF LogsInv, DaalOnce
<1>13. ASSUME NEW f \in DExecutor PROVE PlaceOK(f)' /\ FindsOK(f)'
  <2>1. CASE f = e
    BY <1>6, <2>1 DEF PlaceOK, FindsOK, WritePlaces, Appends
  <2>2. CASE f # e
    <3>1. /\ dPc'[f] = dPc[f] /\ dRow'[f] = dRow[f] /\ dStep'[f] = dStep[f] /\ PlaceOK(f) /\ FindsOK(f)
          /\ Cid(f)' = Cid(f) /\ DOp(f)' = DOp(f)
      BY <1>6, <1>8, <2>2 DEF LogsInv, Cid, DOp, OnlyMoves
    <3>2. CASE ~ Live(f)
      BY <3>1, <3>2 DEF Live, PlaceOK, FindsOK, WritePlaces, Appends
    <3>3. CASE Live(f)
      <4>1. /\ dRow[f] \in DOMAIN rows /\ RowsFrom(rows', dRow'[f]) = RowsFrom(rows, dRow[f])
        BY <1>1, <1>7, <3>1, <3>3, OnWalk
      <4>2. PlaceOK(f)'
        <5>1. dPc[f] = "look" => Logged(dRow[f], f)' \/ Full(dRow[f])'
          BY <1>5, <1>8, <3>1, <4>1 DEF PlaceOK, Logged, Full
        <5>2. dPc[f] \in Appends => Full(dRow[f])' /\ ~ Logged(dRow[f], f)'
          BY <1>3, <1>5, <1>8, <3>1, <4>1 DEF PlaceOK, Logged, Full
        <5> QED BY <3>1, <5>1, <5>2 DEF PlaceOK
      <4> QED BY <1>5, <1>6, <1>9, <3>1, <4>1, <4>2 DEF FindsOK, Kept
    <3> QED BY <3>2, <3>3
  <2> QED BY <2>1, <2>2
<1> QED BY <1>10, <1>11, <1>12, <1>13 DEF LogsInv

\* ClearRowDAAL: what it removes nobody looks for.
LEMMA ClearLogs ==
  ASSUME DaalTypeOK, Shape, LogsInv, ClearRowDAAL
  PROVE  LogsInv'
<1>1. PICK r \in DOMAIN rows : rows' = [rows EXCEPT ![r] = Cleared(r)]
  BY DEF ClearRowDAAL
<1>2. PICK gone : gone = Mine(rows[r].logs) \cup Mine(rows[r].refused)
  OBVIOUS
<1>3. /\ DOMAIN rows' = DOMAIN rows /\ \A q \in DOMAIN rows : rows'[q].next = rows[q].next /\ rows'[q].logSize = rows[q].logSize
      /\ \A q \in DOMAIN rows \ {r} : rows'[q] = rows[q]
      /\ rows'[r].logs = rows[r].logs \ gone
      /\ rows'[r].refused = rows[r].refused \ gone
      /\ rows'[r].gcSize = rows[r].gcSize + Cardinality(gone)
      /\ ~ rows'[r].counted => ~ rows[r].counted /\ Mine(rows[r].refused) = {}
  BY <1>1, <1>2, ClearedSame DEF SameNexts
<1>4. UNCHANGED <<dScenario, dRetired, forgotten, effects, dEnv>>
  BY DEF ClearRowDAAL, dHistory
<1>5. RowsFrom(rows', HEAD) = RowsFrom(rows, HEAD) /\ \A q \in RowId : RowsFrom(rows', q) = RowsFrom(rows, q)
  <2>1. SameNexts(rows, rows')
    BY <1>3 DEF SameNexts
  <2> QED BY <2>1, RowIds, SameKeepsList DEF Shape
<1>6. LogSize' = LogSize /\ DInstanceOf' = DInstanceOf
  BY <1>4 DEF LogSize, DInstanceOf
<1>7. \A d : Took(d)' <=> Took(d)
  BY <1>4 DEF Took
<1>8. \A d \in gone : d[1] \in dRetired
  BY <1>2 DEF Mine
<1>9. \A q \in DOMAIN rows : \A d : d[1] \notin dRetired =>
        (d \in rows'[q].logs <=> d \in rows[q].logs) /\ (d \in rows'[q].refused <=> d \in rows[q].refused)
  BY <1>3, <1>8
<1>10. ASSUME NEW q \in DOMAIN rows' PROVE RowLogsOK(q)'
  <2>1. RowLogsOK(q) /\ RowOK(rows[q])
    BY <1>3 DEF LogsInv, DaalTypeOK, RowsOK
  <2>2. rows'[q].logs \subseteq rows[q].logs /\ rows'[q].refused \subseteq rows[q].refused
    BY <1>3
  <2>3. /\ \A d \in rows'[q].logs : Took(d)'
        /\ \A d \in rows'[q].refused : OpOf(d)' # "write"
    BY <1>4, <1>7, <2>1, <2>2 DEF RowLogsOK, OpOf
  <2>4. rows'[q].logSize <= LogSize' /\ (rows'[q].next # NoRow => Full(q)')
    BY <1>3, <1>6, <2>1 DEF RowLogsOK, Full
  <2>5. ~ rows'[q].counted => rows'[q].logSize = rows'[q].gcSize + Cardinality(rows'[q].logs)
    <3>1. CASE q # r
      BY <1>3, <2>1, <3>1 DEF RowLogsOK
    <3>2. CASE q = r
      <4> SUFFICES ASSUME ~ rows'[r].counted
                   PROVE  rows'[r].logSize = rows'[r].gcSize + Cardinality(rows'[r].logs)
        BY <3>2
      <4>1. ~ rows[r].counted /\ gone = Mine(rows[r].logs) /\ gone \subseteq rows[r].logs
        BY <1>2, <1>3 DEF Mine
      <4>2. IsFiniteSet(rows[r].logs) /\ rows[r].gcSize \in Nat
        BY <2>1, <3>2 DEF RowOK, DRowType
      <4>3. /\ Cardinality(rows[r].logs \ gone) = Cardinality(rows[r].logs) - Cardinality(rows[r].logs \cap gone)
            /\ rows[r].logs \cap gone = gone
        BY <4>1, <4>2, FS_Difference
      <4>4. Cardinality(rows[r].logs) \in Nat /\ Cardinality(gone) \in Nat
        BY <4>1, <4>2, FS_Subset, FS_CardinalityType
      <4>5. rows[r].logSize = rows[r].gcSize + Cardinality(rows[r].logs)
        BY <2>1, <3>2, <4>1 DEF RowLogsOK
      <4>6. /\ rows'[r].logs = rows[r].logs \ gone /\ rows'[r].logSize = rows[r].logSize
            /\ rows'[r].gcSize = rows[r].gcSize + Cardinality(gone)
        BY <1>3
      <4> QED BY ONLY <4>2, <4>3, <4>4, <4>5, <4>6
    <3> QED BY <3>1, <3>2
  <2> QED BY <2>3, <2>4, <2>5 DEF RowLogsOK, NoRow
<1>11. EffectsOK'
  BY <1>3, <1>4, <1>5, <1>9 DEF LogsInv, EffectsOK, HEAD
<1>12. DaalOnce'
  BY <1>4 DEF LogsInv, DaalOnce
<1>13. ASSUME NEW f \in DExecutor PROVE PlaceOK(f)' /\ FindsOK(f)'
  <2>1. /\ dPc'[f] = dPc[f] /\ dRow'[f] = dRow[f] /\ PlaceOK(f) /\ FindsOK(f)
        /\ Cid(f)' = Cid(f) /\ DOp(f)' = DOp(f)
    BY <1>4, <1>6 DEF LogsInv, Cid, DOp, dEnv
  <2>2. CASE ~ Live(f)
    BY <2>1, <2>2 DEF Live, PlaceOK, FindsOK, WritePlaces, Appends
  <2>3. CASE Live(f)
    <3>1. Cid(f)[1] \notin dRetired /\ dRow[f] \in RowId
      BY <2>3, OnWalk DEF Cid
    <3>2. PlaceOK(f)'
      <4>1. dPc[f] \notin {"head", "get", "put"} => dRow[f] \in DOMAIN rows
        BY <2>3, OnWalk
      <4>2. dPc[f] = "look" => Logged(dRow[f], f)' \/ Full(dRow[f])'
        BY <1>3, <1>6, <1>9, <2>1, <3>1, <4>1 DEF PlaceOK, Logged, Full
      <4>3. dPc[f] \in Appends => Full(dRow[f])' /\ ~ Logged(dRow[f], f)'
        BY <1>3, <1>6, <1>9, <2>1, <3>1, <4>1 DEF PlaceOK, Logged, Full, Appends
      <4> QED BY <2>1, <4>2, <4>3 DEF PlaceOK
    <3>3. RowsFrom(rows', dRow'[f]) = RowsFrom(rows, dRow[f])
      BY <1>5, <2>1, <3>1
    <3>4. Kept(Cid(f))' => Kept(Cid(f))
      BY <1>4, <1>7, <2>1 DEF Kept
    <3> QED BY <1>3, <1>9, <2>1, <3>1, <3>2, <3>3, <3>4 DEF FindsOK
  <2> QED BY <2>2, <2>3
<1> QED BY <1>10, <1>11, <1>12, <1>13 DEF LogsInv

\* Rows come and go that no path leads to.
LEMMA OthersReached ==
  ASSUME DaalTypeOK, Shape, HEAD \in DOMAIN rows, NextsOK(rows'),
         \A q \in DOMAIN rows \cap DOMAIN rows' : rows'[q].next = rows[q].next,
         RowsFrom(rows, HEAD) \subseteq DOMAIN rows'
  PROVE  /\ StillReached(HEAD)
         /\ \A f \in DExecutor : Live(f) /\ RowsFrom(rows, dRow[f]) \subseteq DOMAIN rows' => StillReached(dRow[f])
<1>1. /\ RowsFrom(rows', HEAD) = RowsFrom(rows, HEAD)
      /\ \A r \in RowId : PathOK(rows, r) /\ RowsFrom(rows, r) \subseteq DOMAIN rows' =>
              PathOK(rows', r) /\ RowsFrom(rows', r) = RowsFrom(rows, r)
  <2>1. ListOK(rows)
    BY DEF Shape
  <2> QED BY <2>1, OthersKeepList
<1> QED BY <1>1, OnWalk DEF StillReached

LEMMA FirstRowLogs ==
  ASSUME DaalTypeOK, Shape, LogsInv, NEW e \in DExecutor, OnlyMoves(e), dPc[e] = "head", dPc'[e] = "update",
         dStep'[e] = dStep[e], dRow'[e] = dRow[e], HEAD \notin DOMAIN rows, rows' = [r \in {HEAD} |-> NewRow(0)],
         UNCHANGED <<effects, forgotten, dRetired, dScenario>>
  PROVE  LogsInv'
<1> DEFINE X == {}
<1>1. DOMAIN rows = {} /\ DOMAIN rows' = {HEAD} /\ Fresh(rows'[HEAD])
  BY DEF Shape, ListOK, Fresh, NewRow
<1>2. X \in SUBSET DExecutor /\ \A f \in X : FALSE
  OBVIOUS
<1>3. \A f \in DExecutor \ X : SamePlace(f) /\ StillReached(dRow[f])
  BY <1>1 DEF SamePlace, StillReached, OnlyMoves
<1>4. StillReached(HEAD)
  BY <1>1 DEF StillReached
<1>5. /\ \A q \in DOMAIN rows \cap DOMAIN rows' : SameLogs(q)
      /\ \A q \in DOMAIN rows' \ DOMAIN rows : Fresh(rows'[q])
  BY <1>1
<1>6. forgotten \subseteq forgotten' /\ dRetired \subseteq dRetired'
  OBVIOUS
<1> HIDE DEF X
<1> QED BY <1>2, <1>3, <1>4, <1>5, <1>6, LogsKept

LEMMA CreateLogs ==
  ASSUME DaalTypeOK, Shape, LogsInv, NEW e \in DExecutor, OnlyMoves(e), CreateRow(e)
  PROVE  LogsInv'
<1> DEFINE X == {}
<1>1. dPc[e] = "create" /\ Live(e) /\ HEAD \in DOMAIN rows
  <2>1. dPc[e] = "create" /\ Live(e)
    BY DEF CreateRow, At, Live
  <2> QED BY <2>1, OnWalk
<1>2. PICK p \in RowId : p = FreeRow /\ p \notin DOMAIN rows
  BY FreeRowIs DEF CreateRow
<1>3. /\ DOMAIN rows' = DOMAIN rows \cup {p} /\ rows'[p] = NewRow(dVal[e])
      /\ \A q \in DOMAIN rows : rows'[q] = rows[q]
  BY <1>2 DEF CreateRow
<1>4. Fresh(rows'[p])
  BY <1>3 DEF Fresh, NewRow
<1>5. NextsOK(rows')
  BY <1>2, <1>3, <1>4 DEF NextsOK, Shape, ListOK, Fresh
<1>6. RowsFrom(rows, HEAD) \subseteq DOMAIN rows'
  BY <1>1, <1>3, HeadFirst DEF Shape
<1>7. \A f \in DExecutor : Live(f) => RowsFrom(rows, dRow[f]) \subseteq DOMAIN rows'
  BY <1>1, <1>3, OnWalk DEF PathOK
<1>8. StillReached(HEAD) /\ \A f \in DExecutor : Live(f) => StillReached(dRow[f])
  BY <1>1, <1>3, <1>5, <1>6, <1>7, OthersReached
<1>9. /\ \A q \in DOMAIN rows \cap DOMAIN rows' : SameLogs(q)
      /\ \A q \in DOMAIN rows' \ DOMAIN rows : Fresh(rows'[q])
      /\ HEAD \in DOMAIN rows'
  BY <1>1, <1>3, <1>4 DEF SameLogs
<1>10. X \in SUBSET DExecutor /\ \A f \in X : FALSE
  OBVIOUS
<1>11. \A f \in DExecutor \ X : SamePlace(f)
  BY <1>1 DEF SamePlace, OnlyMoves, CreateRow, GoTo, DaalTypeOK, Appends
<1>12. forgotten' = forgotten /\ dRetired' = dRetired /\ UNCHANGED <<effects, dScenario>>
  BY DEF CreateRow, dHistory
<1> HIDE DEF X
<1> QED BY <1>8, <1>9, <1>10, <1>11, <1>12, LogsKept

LEMMA DropLogs ==
  ASSUME DaalTypeOK, Shape, LogsInv, NEW e \in DExecutor, OnlyMoves(e), DropRow(e)
  PROVE  LogsInv'
<1> DEFINE X == {}
<1>1. dPc[e] = "drop" /\ Holding(e)
  BY DEF DropRow, At, Holding
<1>2. PICK p \in RowId : p = dVal[e] /\ HEAD \in DOMAIN rows
  BY <1>1, NotHeld
<1>3. /\ DOMAIN rows' = DOMAIN rows \ {p} /\ \A q \in DOMAIN rows' : rows'[q] = rows[q]
  BY <1>2 DEF DropRow, Without
<1>4. p \notin RowsFrom(rows, HEAD)
  BY <1>1, <1>2 DEF Shape, HoldsOK
<1>5. NextsOK(rows')
  BY <1>3 DEF NextsOK, Shape, ListOK
<1>6. RowsFrom(rows, HEAD) \subseteq DOMAIN rows'
  BY <1>2, <1>3, <1>4, HeadFirst DEF Shape
<1>7. \A f \in DExecutor : Live(f) => RowsFrom(rows, dRow[f]) \subseteq DOMAIN rows'
  BY <1>1, <1>2, <1>3, OnWalk, NotHeld DEF PathOK
<1>8. StillReached(HEAD) /\ \A f \in DExecutor : Live(f) => StillReached(dRow[f])
  BY <1>2, <1>3, <1>5, <1>6, <1>7, OthersReached
<1>9. /\ \A q \in DOMAIN rows \cap DOMAIN rows' : SameLogs(q)
      /\ \A q \in DOMAIN rows' \ DOMAIN rows : Fresh(rows'[q])
      /\ HEAD \in DOMAIN rows'
  BY <1>2, <1>3, <1>6, HeadFirst DEF SameLogs, Shape
<1>10. X \in SUBSET DExecutor /\ \A f \in X : FALSE
  OBVIOUS
<1>11. \A f \in DExecutor \ X : SamePlace(f)
  BY <1>1 DEF SamePlace, OnlyMoves, DropRow, GoTo, DaalTypeOK, Appends
<1>12. forgotten' = forgotten /\ dRetired' = dRetired /\ UNCHANGED <<effects, dScenario>>
  BY DEF DropRow, dHistory
<1> HIDE DEF X
<1> QED BY <1>8, <1>9, <1>10, <1>11, <1>12, LogsKept

LEMMA LinkLogs ==
  ASSUME DaalTypeOK, Shape, LogsInv, NEW e \in DExecutor, OnlyMoves(e), SwapRow(e), rows[dRow[e]].next = NoRow
  PROVE  LogsInv'
<1> DEFINE X == {e}
<1>1. /\ dPc[e] = "swap" /\ Live(e) /\ HEAD \in DOMAIN rows /\ dPc'[e] = "update" /\ LastOf(rows, dRow[e])
  BY LinkRows
<1>2. PICK t \in DOMAIN rows, p \in RowId : t = dRow[e] /\ p = dVal[e]
  BY <1>1, LinkRows DEF LastOf
<1>3. /\ DOMAIN rows' = DOMAIN rows /\ rows'[t] = [rows[t] EXCEPT !.next = p]
      /\ \A q \in DOMAIN rows \ {t} : rows'[q] = rows[q]
      /\ RowsFrom(rows', HEAD) = RowsFrom(rows, HEAD) \cup {p}
      /\ \A r \in RowId : PathOK(rows, r) => RowsFrom(rows', r) = RowsFrom(rows, r) \cup {p}
  BY <1>2, LinkRows
<1>4. Full(t) /\ ~ Logged(t, e)
  BY <1>1, <1>2 DEF LogsInv, PlaceOK, Appends
<1>5. \A q \in DOMAIN rows : SameLogs(q)
  <2>1. rows[t] \in DRowType
    BY DEF DaalTypeOK, RowsOK, RowOK
  <2> QED BY <1>3, <1>4, <2>1 DEF SameLogs, DRowType
<1>6. StillReached(HEAD) /\ \A f \in DExecutor : Live(f) => StillReached(dRow[f])
  BY <1>1, <1>3, OnWalk DEF StillReached
<1>7. UNCHANGED <<effects, forgotten, dRetired, dScenario, dStep>>
  BY DEF SwapRow, dHistory
<1>8. PlaceOK(e)' /\ FindsOK(e)'
  <2>1. ~ Kept(Cid(e))
    BY <1>1, <1>2, <1>4, NotKept DEF WritePlaces
  <2>2. ~ Kept(Cid(e))'
    BY <1>7, <2>1 DEF Kept, Took, Cid, DInstanceOf
  <2> QED BY <1>1, <2>2 DEF PlaceOK, FindsOK, Appends
<1>9. X \in SUBSET DExecutor /\ \A f \in X : PlaceOK(f)' /\ FindsOK(f)'
  BY <1>8
<1>10. \A f \in DExecutor \ X : SamePlace(f)
  BY DEF SamePlace, OnlyMoves
<1>11. /\ \A q \in DOMAIN rows \cap DOMAIN rows' : SameLogs(q)
       /\ \A q \in DOMAIN rows' \ DOMAIN rows : Fresh(rows'[q])
       /\ HEAD \in DOMAIN rows' /\ forgotten \subseteq forgotten' /\ dRetired \subseteq dRetired'
  BY <1>1, <1>3, <1>5, <1>7
<1> HIDE DEF X
<1> QED BY <1>6, <1>7, <1>9, <1>10, <1>11, LogsKept

\* No execution moves.
LEMMA CollectsLogs ==
  ASSUME DaalTypeOK, Shape, LogsInv, UNCHANGED <<effects, dScenario, dEnv>>,
         forgotten \subseteq forgotten', dRetired \subseteq dRetired',
         \A q \in DOMAIN rows \cap DOMAIN rows' : SameLogs(q), DOMAIN rows' \subseteq DOMAIN rows,
         HEAD \in DOMAIN rows => HEAD \in DOMAIN rows',
         StillReached(HEAD), \A f \in DExecutor : Live(f) => StillReached(dRow[f])
  PROVE  LogsInv'
<1> DEFINE X == {}
<1>1. X \in SUBSET DExecutor /\ \A f \in X : FALSE
  OBVIOUS
<1>2. \A f \in DExecutor \ X : SamePlace(f)
  BY DEF SamePlace, dEnv
<1>3. \A q \in DOMAIN rows' \ DOMAIN rows : Fresh(rows'[q])
  OBVIOUS
<1> HIDE DEF X
<1> QED BY <1>1, <1>2, <1>3, LogsKept

\* ClearRow: an unlinked row has no entries left, or these are forgotten.
LEMMA UnlinkLogs ==
  ASSUME DaalTypeOK, Shape, LogsInv, ClearRow, rows[collector.cur].next # NoRow, rows[collector.cur].gcSize = LogSize
  PROVE  LogsInv'
<1>1. /\ Collecting("row") /\ UNCHANGED <<dRetired, dScenario, dEnv, effects>>
      /\ rows' = [rows EXCEPT ![collector.prev].next = rows[collector.cur].next]
      /\ collector' = [collector EXCEPT !.at = "stamp"]
      /\ forgotten' = IF rows[collector.cur].counted THEN forgotten \cup rows[collector.cur].logs ELSE forgotten
  BY DEF ClearRow
<1>2. /\ RowsFrom(rows', HEAD) = RowsFrom(rows, HEAD) \ {collector.cur}
      /\ \A r \in RowId : PathOK(rows, r) => RowsFrom(rows, r) \subseteq RowsFrom(rows', r) \cup {collector.cur}
  BY <1>1, UnlinkShape
<1>3. PICK prev \in DOMAIN rows, cur \in DOMAIN rows :
        prev = collector.prev /\ cur = collector.cur /\ rows[prev].next = cur /\ HEAD \in DOMAIN rows /\ cur \in RowId
  BY <1>1, CollectorRows DEF Collecting, Shape, ListOK, NextsOK
<1>4. rows[cur].logs \subseteq forgotten'
  <2>1. CASE rows[cur].counted
    BY <1>1, <1>3, <2>1
  <2>2. CASE ~ rows[cur].counted
    <3>1. RowLogsOK(cur) /\ RowOK(rows[cur])
      BY DEF LogsInv, DaalTypeOK, RowsOK
    <3>2. LogSize = LogSize + Cardinality(rows[cur].logs) /\ IsFiniteSet(rows[cur].logs) /\ LogSize \in Nat
      BY <1>3, <2>2, <3>1, ScenarioType DEF RowLogsOK, Full, RowOK
    <3>3. Cardinality(rows[cur].logs) = 0
      BY <3>2, FS_CardinalityType
    <3> QED BY <3>2, <3>3, FS_EmptySet
  <2> QED BY <2>1, <2>2
<1>5. PICK n : n = rows[cur].next /\ n # NoRow
  BY <1>3
<1>6. /\ DOMAIN rows' = DOMAIN rows /\ rows'[prev] = [rows[prev] EXCEPT !.next = n]
      /\ \A q \in DOMAIN rows \ {prev} : rows'[q] = rows[q]
  BY <1>1, <1>3, <1>5
<1>7. \A q \in DOMAIN rows : SameLogs(q)
  <2>1. rows[prev] \in DRowType /\ rows[prev].next # NoRow
    BY <1>3, RowIds DEF DaalTypeOK, RowsOK, RowOK
  <2> QED BY <1>6, <2>1 DEF SameLogs, DRowType
<1>8. StillReached(HEAD)
  BY <1>2, <1>3, <1>4, <1>6 DEF StillReached
<1>9. \A f \in DExecutor : Live(f) => StillReached(dRow[f])
  BY <1>2, <1>3, <1>4, <1>6, OnWalk DEF StillReached
<1> QED BY <1>1, <1>3, <1>6, <1>7, <1>8, <1>9, CollectsLogs

LEMMA StampLogs ==
  ASSUME DaalTypeOK, Shape, LogsInv, StampRow
  PROVE  LogsInv'
<1>1. PICK cur \in DOMAIN rows : cur = collector.cur
  BY StampedSame
<1>2. /\ SameNexts(rows, rows')
      /\ rows'[cur] = [rows[cur] EXCEPT !.stamped = TRUE, !.since = {e \in DExecutor : Live(e)}]
      /\ \A q \in DOMAIN rows \ {cur} : rows'[q] = rows[q]
  BY <1>1, StampedSame
<1>3. \A q \in DOMAIN rows : SameLogs(q)
  <2>1. rows[cur] \in DRowType
    BY DEF DaalTypeOK, RowsOK, RowOK
  <2>2. /\ rows'[cur].logs = rows[cur].logs /\ rows'[cur].refused = rows[cur].refused
        /\ rows'[cur].logSize = rows[cur].logSize /\ rows'[cur].gcSize = rows[cur].gcSize
        /\ rows'[cur].counted = rows[cur].counted /\ rows'[cur].next = rows[cur].next
    BY <1>2, <2>1 DEF DRowType
  <2>3. SameLogs(cur)
    BY <2>2 DEF SameLogs
  <2>4. \A q \in DOMAIN rows \ {cur} : SameLogs(q)
    BY <1>2 DEF SameLogs
  <2> QED BY <2>3, <2>4
<1>4. UNCHANGED <<effects, forgotten, dRetired, dScenario, dEnv>>
  BY DEF StampRow, dHistory
<1>5. StillReached(HEAD) /\ \A f \in DExecutor : Live(f) => StillReached(dRow[f])
  BY <1>2, SameReached, OnWalk
<1> QED BY <1>2, <1>3, <1>4, <1>5, CollectsLogs DEF SameNexts

LEMMA DeleteLogs ==
  ASSUME DaalTypeOK, Shape, LogsInv, Collecting("sweep"), NEW r \in DOMAIN rows, Dangling(r), rows' = Without(r),
         UNCHANGED <<collector, dRetired, dScenario, dEnv, effects, forgotten>>
  PROVE  LogsInv'
<1>1. /\ DOMAIN rows' = DOMAIN rows \ {r} /\ \A q \in DOMAIN rows' : rows'[q] = rows[q]
  BY DEF Without
<1>2. /\ RowsFrom(rows', HEAD) = RowsFrom(rows, HEAD)
      /\ \A q \in RowId : PathOK(rows, q) /\ r \notin RowsFrom(rows, q) => RowsFrom(rows', q) = RowsFrom(rows, q)
  BY DeleteShape
<1>3. /\ r \notin RowsFrom(rows, HEAD) /\ HEAD \in DOMAIN rows
      /\ \A f \in DExecutor : Live(f) => r \notin RowsFrom(rows, dRow[f])
  BY DanglingIs
<1>4. StillReached(HEAD)
  BY <1>1, <1>2, <1>3 DEF StillReached
<1>5. \A f \in DExecutor : Live(f) => StillReached(dRow[f])
  BY <1>1, <1>2, <1>3, OnWalk DEF StillReached
<1>6. \A q \in DOMAIN rows \cap DOMAIN rows' : SameLogs(q)
  BY <1>1 DEF SameLogs
<1>7. HEAD \in DOMAIN rows'
  BY <1>1, <1>3, HeadFirst DEF Shape
<1>8. DOMAIN rows' \subseteq DOMAIN rows /\ forgotten \subseteq forgotten' /\ dRetired \subseteq dRetired'
  BY <1>1
<1> QED BY <1>4, <1>5, <1>6, <1>7, <1>8, CollectsLogs

\* It holds at first and after every step.
LEMMA LogsInit == DaalInit => LogsInv
<1> SUFFICES ASSUME DaalInit PROVE LogsInv
  OBVIOUS
<1>1. DOMAIN rows = {} /\ effects = <<>> /\ \A e \in DExecutor : dPc[e] = "idle"
  BY DEF DaalInit
<1>2. DOMAIN effects = {}
  BY <1>1
<1> QED BY <1>1, <1>2 DEF LogsInv, EffectsOK, DaalOnce, PlaceOK, FindsOK, WritePlaces, Appends

\* Why there is no room.
LEMMA NoRoomIs ==
  ASSUME DaalTypeOK, Shape, LogsInv, NEW e \in DExecutor, Live(e), HEAD \in DOMAIN rows, ~ Room(dRow[e], e)
  PROVE  Logged(dRow[e], e) \/ Full(dRow[e])
<1>1. dRow[e] \in DOMAIN rows
  BY OnWalk
<1>2. RowLogsOK(dRow[e]) /\ rows[dRow[e]].logSize \in Nat /\ LogSize \in Nat
  BY <1>1, ScenarioType DEF LogsInv, DaalTypeOK, RowsOK, RowOK, DRowType
<1> QED BY <1>1, <1>2 DEF RowLogsOK, Full, Room

LEMMA StepLogs ==
  ASSUME DaalTypeOK, Shape, LogsInv, NEW e \in DExecutor, DaalStep(e) \/ DDie(e)
  PROVE  LogsInv'
<1>1. OnlyMoves(e)
  BY Moving
<1>2. dPc[e] \notin {"idle", "done"} => e \in DOMAIN DInstanceOf /\ DInstanceOf[e] \notin dRetired
  BY DEF Shape, ActiveOK, DaalTypeOK
<1>3. ASSUME NEW pc, GoTo(e, pc) PROVE dPc'[e] = pc
  BY <1>3 DEF GoTo, DaalTypeOK
<1>4. ASSUME NEW x, Over(e, x) PROVE dPc'[e] \notin WritePlaces
  BY <1>4 DEF Over, GoTo, DaalTypeOK, WritePlaces
<1>5. PlaceOK(e) /\ FindsOK(e) /\ (UNCHANGED dScenario => DOp(e)' = DOp(e) \/ dStep'[e] # dStep[e])
  BY DEF LogsInv, DOp, DInstanceOf
<1> USE DEF At, dHistory
<1>6. CASE DCall(e)
  <2>1. UNCHANGED <<rows, dRetired, dScenario, effects, forgotten>> /\ dPc'[e] \notin WritePlaces
    BY <1>3, <1>6 DEF DCall, WritePlaces
  <2> QED BY <1>1, <2>1, OverLogs
<1>7. CASE QuickCheckReturnLast(e)
  <2>1. UNCHANGED <<dRetired, dScenario, effects, forgotten>> /\ DInstanceOf[e] \notin dRetired
    BY <1>2, <1>7 DEF QuickCheckReturnLast
  <2>2. CASE rows' = Released(rows, e) /\ \E x : Over(e, x)
    BY <1>1, <1>4, <2>1, <2>2, OverLogs
  <2>3. CASE /\ \A r \in DOMAIN rows : ~ Logged(r, e)
             /\ rows' = rows /\ dStep' = dStep
             /\ GoTo(e, IF rows = <<>> THEN "head" ELSE "update")
    <3>1. dPc'[e] \in {"head", "update"}
      BY <1>3, <2>3
    <3>2. ~ Kept(Cid(e))'
      BY <2>1, <2>3, NotLogged DEF Kept, Took, Cid, DInstanceOf
    <3>3. PlaceOK(e)' /\ FindsOK(e)'
      BY <3>1, <3>2 DEF PlaceOK, FindsOK, Appends
    <3>4. SameNexts(rows, rows') /\ \A q \in DOMAIN rows : SameLogs(q)
      BY <2>3 DEF SameNexts, SameLogs
    <3> QED BY <1>1, <2>1, <3>3, <3>4, QuietLogs
  <2> QED BY <1>7, <2>2, <2>3 DEF QuickCheckReturnLast
<1>8. CASE InsertHead(e)
  <2>1. /\ UNCHANGED <<dRetired, dScenario, effects, forgotten, dRow, dStep>> /\ dPc'[e] = "update" /\ dPc[e] = "head"
    BY <1>3, <1>8 DEF InsertHead
  <2>2. CASE HEAD \in DOMAIN rows
    <3>1. rows' = rows
      BY <1>8, <2>2 DEF InsertHead
    <3>2. PlaceOK(e)' /\ dPc[e] \in WritePlaces
      BY <2>1 DEF PlaceOK, Appends, WritePlaces
    <3> QED BY <1>1, <2>1, <3>1, <3>2, TurnsLogs
  <2>3. CASE HEAD \notin DOMAIN rows
    <3>1. DOMAIN rows = {}
      BY <2>3 DEF Shape, ListOK
    <3>2. rows' = [r \in {HEAD} |-> NewRow(0)]
      BY <1>8, <2>3, <3>1 DEF InsertHead
    <3> QED BY <1>1, <2>1, <2>3, <3>2, FirstRowLogs
  <2> QED BY <2>2, <2>3
<1>9. CASE UpdateRow(e)
  <2>1. UNCHANGED <<dRetired, dScenario, forgotten>> /\ Live(e) /\ HEAD \in DOMAIN rows /\ dPc[e] = "update"
    <3>1. Live(e) /\ dPc[e] = "update"
      BY <1>9 DEF UpdateRow, Live
    <3> QED BY <1>9, <3>1, OnWalk DEF UpdateRow
  <2>2. CASE Room(dRow[e], e) /\ Cond(dRow[e], e)
    BY <1>1, <1>9, <2>2, UpdateLogs
  <2>3. CASE ~ (Room(dRow[e], e) /\ Cond(dRow[e], e))
    <3>1. /\ UNCHANGED <<rows, effects, dRow, dStep>>
          /\ dPc'[e] = IF DOp(e) = "write" THEN "look" ELSE "refuse"
      BY <1>3, <1>9, <2>3 DEF UpdateRow
    <3>2. ASSUME DOp(e) = "write" PROVE Logged(dRow[e], e) \/ Full(dRow[e])
      <4>1. Cond(dRow[e], e)
        BY <3>2 DEF Cond
      <4> QED BY <2>1, <2>3, <4>1, NoRoomIs
    <3>3. PlaceOK(e)'
      BY <2>1, <3>1, <3>2 DEF PlaceOK, Appends, DOp, DInstanceOf, Logged, Full, LogSize, Cid
    <3> QED BY <1>1, <2>1, <3>1, <3>3, TurnsLogs DEF WritePlaces
  <2> QED BY <2>2, <2>3
<1>10. CASE RefuseRow(e)
  <2>1. UNCHANGED <<dRetired, dScenario, forgotten, effects>> /\ Live(e) /\ HEAD \in DOMAIN rows /\ dPc[e] = "refuse"
    <3>1. Live(e) /\ dPc[e] = "refuse"
      BY <1>10 DEF RefuseRow, Live
    <3> QED BY <1>10, <3>1, OnWalk DEF RefuseRow
  <2>2. CASE Room(dRow[e], e)
    BY <1>1, <1>10, <2>2, RefuseLogs
  <2>3. CASE ~ Room(dRow[e], e)
    <3>1. UNCHANGED <<rows, dRow, dStep>> /\ dPc'[e] = "look"
      BY <1>3, <1>10, <2>3 DEF RefuseRow
    <3>2. Logged(dRow[e], e) \/ Full(dRow[e])
      BY <2>1, <2>3, NoRoomIs
    <3>3. PlaceOK(e)'
      BY <2>1, <3>1, <3>2 DEF PlaceOK, Appends, DInstanceOf, Logged, Full, LogSize, Cid
    <3> QED BY <1>1, <2>1, <3>1, <3>3, TurnsLogs DEF WritePlaces
  <2> QED BY <2>2, <2>3
<1>11. CASE LookAtRow(e)
  <2>1. /\ UNCHANGED <<dRetired, dScenario, effects, forgotten>> /\ Live(e) /\ dPc[e] = "look"
        /\ HEAD \in DOMAIN rows /\ dRow[e] \in DOMAIN rows
    <3>1. Live(e) /\ dPc[e] = "look"
      BY <1>11 DEF LookAtRow, Live
    <3> QED BY <1>11, <3>1, OnWalk DEF LookAtRow
  <2>2. CASE rows' = Released(rows, e) /\ \E x : Over(e, x)
    BY <1>1, <1>4, <2>1, <2>2, OverLogs
  <2>3. CASE /\ rows[dRow[e]].next # NoRow /\ dRow' = [dRow EXCEPT ![e] = rows[dRow[e]].next]
             /\ ~ Logged(dRow[e], e) /\ GoTo(e, "update") /\ rows' = rows /\ dStep' = dStep
    <3>1. dRow'[e] = rows[dRow[e]].next /\ dPc'[e] = "update" /\ dPc[e] \in WritePlaces
      BY <1>3, <2>1, <2>3 DEF DaalTypeOK, WritePlaces
    <3> QED BY <1>1, <2>1, <2>3, <3>1, FollowsLogs
  <2>4. CASE /\ dRow[e] \in DOMAIN rows => ~ Logged(dRow[e], e)
             /\ GoTo(e, "copy") /\ rows' = rows /\ dRow' = dRow /\ dStep' = dStep
    <3>1. dPc'[e] = "copy" /\ ~ Logged(dRow[e], e) /\ Full(dRow[e])
      BY <1>3, <1>5, <2>1, <2>4 DEF PlaceOK
    <3>2. PlaceOK(e)'
      BY <2>1, <2>4, <3>1 DEF PlaceOK, Appends, DInstanceOf, Logged, Full, LogSize, Cid
    <3> QED BY <1>1, <2>1, <2>4, <3>2, TurnsLogs DEF WritePlaces
  <2> QED BY <1>11, <2>2, <2>3, <2>4 DEF LookAtRow
<1>12. CASE CopyValue(e)
  <2>1. /\ UNCHANGED <<rows, dRetired, dScenario, effects, forgotten, dRow, dStep>>
        /\ dPc'[e] = "create" /\ dPc[e] = "copy"
    BY <1>3, <1>12 DEF CopyValue
  <2>2. PlaceOK(e)' /\ dPc[e] \in WritePlaces
    BY <1>5, <2>1 DEF PlaceOK, Appends, DInstanceOf, Logged, Full, LogSize, Cid, WritePlaces
  <2> QED BY <1>1, <2>1, <2>2, TurnsLogs
<1>13. CASE CreateRow(e)
  BY <1>1, <1>13, CreateLogs
<1>14. CASE SwapRow(e)
  <2>1. CASE rows[dRow[e]].next = NoRow
    BY <1>1, <1>14, <2>1, LinkLogs
  <2>2. CASE rows[dRow[e]].next # NoRow
    <3>1. /\ UNCHANGED <<rows, dRetired, dScenario, effects, forgotten, dRow, dStep>>
          /\ dPc'[e] = "drop" /\ dPc[e] = "swap"
      BY <1>3, <1>14, <2>2 DEF SwapRow
    <3>2. PlaceOK(e)' /\ dPc[e] \in WritePlaces
      BY <1>5, <3>1 DEF PlaceOK, Appends, DInstanceOf, Logged, Full, LogSize, Cid, WritePlaces
    <3> QED BY <1>1, <3>1, <3>2, TurnsLogs
  <2> QED BY <2>1, <2>2
<1>15. CASE DropRow(e)
  BY <1>1, <1>15, DropLogs
<1>16. CASE FollowNext(e)
  <2>1. /\ UNCHANGED <<rows, dRetired, dScenario, effects, forgotten, dStep>> /\ dPc'[e] = "update"
        /\ Live(e) /\ dPc[e] = "follow" /\ dRow'[e] = rows[dRow[e]].next
    BY <1>3, <1>16 DEF FollowNext, Live, DaalTypeOK
  <2>2. HEAD \in DOMAIN rows /\ rows[dRow[e]].next # NoRow
    BY <2>1, OnWalk DEF WalkOK, Shape
  <2>3. ~ Logged(dRow[e], e) /\ dPc[e] \in WritePlaces
    BY <1>5, <2>1 DEF PlaceOK, Appends, WritePlaces
  <2> QED BY <1>1, <2>1, <2>2, <2>3, FollowsLogs
<1>17. CASE LastRow(e)
  <2>1. UNCHANGED <<rows, dRetired, dScenario, effects, forgotten>> /\ dPc'[e] \notin WritePlaces
    BY <1>3, <1>17 DEF LastRow, WritePlaces
  <2> QED BY <1>1, <2>1, OverLogs
<1>18. CASE GetRow(e)
  <2>1. UNCHANGED <<rows, dRetired, dScenario, effects, forgotten>> /\ dPc[e] = "get"
    BY <1>18 DEF GetRow
  <2>2. dPc'[e] \notin WritePlaces
    BY <1>3, <1>18, <2>1 DEF GetRow, WritePlaces
  <2> QED BY <1>1, <2>1, <2>2, OverLogs
<1>19. CASE PutRead(e)
  <2>1. rows' = Released(rows, e) /\ UNCHANGED <<dRetired, dScenario, effects, forgotten>> /\ dPc'[e] \notin WritePlaces
    BY <1>4, <1>19 DEF PutRead
  <2> QED BY <1>1, <2>1, OverLogs
<1>20. CASE DFinish(e)
  <2>1. UNCHANGED <<rows, dRetired, dScenario, effects, forgotten>> /\ dPc'[e] \notin WritePlaces
    BY <1>3, <1>20 DEF DFinish, WritePlaces
  <2> QED BY <1>1, <2>1, OverLogs
<1>21. CASE DDie(e)
  <2>1. rows' = Released(rows, e) /\ UNCHANGED <<dRetired, dScenario, effects, forgotten>> /\ dPc'[e] \notin WritePlaces
    BY <1>3, <1>21 DEF DDie, WritePlaces
  <2> QED BY <1>1, <2>1, OverLogs
<1> QED BY <1>6, <1>7, <1>8, <1>9, <1>10, <1>11, <1>12, <1>13, <1>14, <1>15, <1>16, <1>17,
           <1>18, <1>19, <1>20, <1>21 DEF DaalStep

LEMMA SameRowsLogs ==
  ASSUME DaalTypeOK, Shape, LogsInv, UNCHANGED <<rows, dScenario, dEnv, effects, forgotten>>, dRetired \subseteq dRetired'
  PROVE  LogsInv'
<1>1. SameNexts(rows, rows') /\ \A q \in DOMAIN rows : SameLogs(q)
  BY DEF SameNexts, SameLogs
<1>2. StillReached(HEAD) /\ \A f \in DExecutor : Live(f) => StillReached(dRow[f])
  BY <1>1, SameReached, OnWalk
<1> QED BY <1>1, <1>2, CollectsLogs

LEMMA CollectLogs ==
  ASSUME DaalTypeOK, Shape, LogsInv, Collect \/ CollectorDies
  PROVE  LogsInv'
<1> USE DEF dHistory
<1>1. CASE ScanIntent
  BY <1>1, SameRowsLogs DEF ScanIntent
<1>2. CASE ClearRowDAAL
  BY <1>2, ClearLogs
<1>3. CASE ClearIntent
  BY <1>3, SameRowsLogs DEF ClearIntent
<1>4. CASE QueryHeads
  BY <1>4, SameRowsLogs DEF QueryHeads
<1>5. CASE ClearRow
  <2>1. CASE rows[collector.cur].next # NoRow /\ rows[collector.cur].gcSize = LogSize
    BY <1>5, <2>1, UnlinkLogs
  <2>2. CASE ~ (rows[collector.cur].next # NoRow /\ rows[collector.cur].gcSize = LogSize)
    <3>1. UNCHANGED <<rows, dScenario, dEnv, effects, forgotten, dRetired>>
      BY <1>5, <2>2 DEF ClearRow
    <3> QED BY <3>1, SameRowsLogs
  <2> QED BY <2>1, <2>2
<1>6. CASE StampRow
  BY <1>6, StampLogs
<1>7. CASE ClearDangling
  <2>1. Collecting("sweep") /\ UNCHANGED <<dRetired, dScenario, dEnv, effects, forgotten>>
    BY <1>7 DEF ClearDangling
  <2>2. ASSUME NEW r \in DOMAIN rows, Dangling(r), rows' = Without(r), UNCHANGED collector PROVE LogsInv'
    BY <2>1, <2>2, DeleteLogs
  <2>3. CASE rows' = rows
    BY <2>1, <2>3, SameRowsLogs
  <2> QED BY <1>7, <2>2, <2>3 DEF ClearDangling
<1>8. CASE CollectorDies
  BY <1>8, SameRowsLogs DEF CollectorDies
<1> QED BY <1>1, <1>2, <1>3, <1>4, <1>5, <1>6, <1>7, <1>8 DEF Collect

-----------------------------------------------------------------------------
(***************************************************************************)
(* Values and locks: a write changes V and HOLDER of the last row, and a   *)
(* new row has the V of the one before.                                    *)
(***************************************************************************)
\* What the rows say of V and HOLDER stays.
SameValues ==
  \A q \in DOMAIN rows \cap DOMAIN rows' : rows'[q].v = rows[q].v /\ rows'[q].holder = rows[q].holder

\* The last row is the same.
NoNewLast == \A t : LastOf(rows', t) => LastOf(rows, t)

\* So it is if no NEXT changes.
LEMMA NoNewLasts ==
  ASSUME Shape, SameNexts(rows, rows')
  PROVE  NoNewLast /\ DOMAIN rows' = DOMAIN rows
BY SameKeepsList DEF Shape, NoNewLast, SameNexts

\* The update of a row that is made.
Makes(e) == UpdateRow(e) /\ Room(dRow[e], e) /\ Cond(dRow[e], e)

\* A row is linked behind the last one.
Links(e) == SwapRow(e) /\ rows[dRow[e]].next = NoRow

\* All other steps.
Quiet(e) ==
  /\ SameValues /\ (HEAD \in DOMAIN rows => NoNewLast)
  /\ \A q \in DOMAIN rows \ DOMAIN rows' : dPc[e] = "drop" /\ q = dVal[e]
  /\ UNCHANGED <<dScenario, effects, grants, forgotten>>

\* The rows are not touched, or released.
LEMMA QuietRows ==
  ASSUME DaalTypeOK, Shape, NEW e, rows' = rows \/ rows' = Released(rows, e),
         UNCHANGED <<dScenario, effects, grants, forgotten>>
  PROVE  Quiet(e)
<1>1. CASE rows' = rows
  BY <1>1 DEF Quiet, SameValues, NoNewLast
<1>2. CASE rows' = Released(rows, e)
  <2>1. /\ SameNexts(rows, rows')
        /\ \A q \in DOMAIN rows : rows'[q].v = rows[q].v /\ rows'[q].holder = rows[q].holder
    BY <1>2, ReleasedSame DEF DaalTypeOK
  <2> QED BY <2>1, NoNewLasts DEF Quiet, SameValues
<1> QED BY <1>1, <1>2

\* There are no others.
LEMMA StepRows ==
  ASSUME DaalTypeOK, Shape, NEW e \in DExecutor, DaalStep(e) \/ DDie(e)
  PROVE  Makes(e) \/ Links(e) \/ Quiet(e)
<1> USE DEF dHistory
<1>1. CASE DCall(e) \/ CopyValue(e) \/ FollowNext(e) \/ LastRow(e) \/ GetRow(e) \/ DFinish(e)
  <2>1. rows' = rows /\ UNCHANGED <<dScenario, effects, grants, forgotten>>
    BY <1>1 DEF DCall, CopyValue, FollowNext, LastRow, GetRow, DFinish
  <2> QED BY <2>1, QuietRows
<1>2. CASE QuickCheckReturnLast(e) \/ LookAtRow(e) \/ PutRead(e) \/ DDie(e)
  <2>1. (rows' = rows \/ rows' = Released(rows, e)) /\ UNCHANGED <<dScenario, effects, grants, forgotten>>
    BY <1>2 DEF QuickCheckReturnLast, LookAtRow, PutRead, DDie
  <2> QED BY <2>1, QuietRows
<1>3. CASE InsertHead(e)
  <2>1. UNCHANGED <<dScenario, effects, grants, forgotten>>
    BY <1>3 DEF InsertHead
  <2>2. CASE HEAD \in DOMAIN rows
    <3>1. rows' = rows
      BY <1>3, <2>2 DEF InsertHead
    <3> QED BY <2>1, <3>1, QuietRows
  <2>3. CASE HEAD \notin DOMAIN rows
    <3>1. DOMAIN rows = {}
      BY <2>3 DEF Shape, ListOK
    <3> QED BY <2>1, <2>3, <3>1 DEF Quiet, SameValues
  <2> QED BY <2>2, <2>3
<1>4. CASE UpdateRow(e)
  <2>1. CASE ~ (Room(dRow[e], e) /\ Cond(dRow[e], e))
    <3>1. rows' = rows /\ UNCHANGED <<dScenario, effects, grants, forgotten>>
      BY <1>4, <2>1 DEF UpdateRow
    <3> QED BY <3>1, QuietRows
  <2> QED BY <1>4, <2>1 DEF Makes
<1>5. CASE RefuseRow(e)
  <2>1. UNCHANGED <<dScenario, effects, grants, forgotten>>
    BY <1>5 DEF RefuseRow
  <2>2. CASE Room(dRow[e], e)
    <3>1. /\ SameNexts(rows, rows')
          /\ \A q \in DOMAIN rows : rows'[q].v = rows[q].v /\ rows'[q].holder = rows[q].holder
      BY <1>5, <2>2, RefuseRows DEF SameNexts
    <3> QED BY <2>1, <3>1, NoNewLasts DEF Quiet, SameValues
  <2>3. CASE ~ Room(dRow[e], e)
    <3>1. rows' = rows
      BY <1>5, <2>3 DEF RefuseRow
    <3> QED BY <2>1, <3>1, QuietRows
  <2> QED BY <2>2, <2>3
<1>6. CASE CreateRow(e)
  <2>1. UNCHANGED <<dScenario, effects, grants, forgotten>> /\ dPc[e] = "create" /\ Live(e)
    BY <1>6 DEF CreateRow, At, Live
  <2>2. HEAD \in DOMAIN rows
    BY <2>1, OnWalk
  <2>3. PICK p \in RowId : p = FreeRow /\ p \notin DOMAIN rows
    BY <1>6, FreeRowIs DEF CreateRow
  <2>4. /\ DOMAIN rows' = DOMAIN rows \cup {p} /\ rows'[p] = NewRow(dVal[e])
        /\ \A q \in DOMAIN rows : rows'[q] = rows[q]
    BY <1>6, <2>3 DEF CreateRow
  <2>5. NextsOK(rows')
    BY <2>3, <2>4 DEF NextsOK, Shape, ListOK, NewRow
  <2>6. RowsFrom(rows, HEAD) \subseteq DOMAIN rows' /\ ListOK(rows)
    BY <2>2, <2>4, HeadFirst DEF Shape
  <2>7. NoNewLast
    BY <2>2, <2>4, <2>5, <2>6, OthersKeepList DEF NoNewLast
  <2> QED BY <2>1, <2>4, <2>7 DEF Quiet, SameValues
<1>7. CASE SwapRow(e)
  <2>1. CASE rows[dRow[e]].next # NoRow
    <3>1. rows' = rows /\ UNCHANGED <<dScenario, effects, grants, forgotten>>
      BY <1>7, <2>1 DEF SwapRow
    <3> QED BY <3>1, QuietRows
  <2> QED BY <1>7, <2>1 DEF Links
<1>8. CASE DropRow(e)
  <2>1. UNCHANGED <<dScenario, effects, grants, forgotten>> /\ dPc[e] = "drop" /\ Holding(e)
    BY <1>8 DEF DropRow, At, Holding
  <2>2. PICK p \in RowId : p = dVal[e] /\ HEAD \in DOMAIN rows
    BY <2>1, NotHeld
  <2>3. /\ DOMAIN rows' = DOMAIN rows \ {p} /\ \A q \in DOMAIN rows' : rows'[q] = rows[q]
    BY <1>8, <2>2 DEF DropRow, Without
  <2>4. p \notin RowsFrom(rows, HEAD)
    BY <2>1, <2>2 DEF Shape, HoldsOK
  <2>5. NextsOK(rows')
    BY <2>3 DEF NextsOK, Shape, ListOK
  <2>6. RowsFrom(rows, HEAD) \subseteq DOMAIN rows' /\ ListOK(rows)
    BY <2>2, <2>3, <2>4, HeadFirst DEF Shape
  <2>7. NoNewLast
    BY <2>2, <2>3, <2>5, <2>6, OthersKeepList DEF NoNewLast
  <2> QED BY <2>1, <2>2, <2>3, <2>7 DEF Quiet, SameValues
<1> QED BY <1>1, <1>2, <1>3, <1>4, <1>5, <1>6, <1>7, <1>8 DEF DaalStep

\* The collector takes rows away, and the grants of these.
LEMMA CollectRows ==
  ASSUME DaalTypeOK, Shape, Collect \/ CollectorDies
  PROVE  /\ SameValues /\ NoNewLast /\ DOMAIN rows' \subseteq DOMAIN rows
         /\ (HEAD \in DOMAIN rows => HEAD \in DOMAIN rows')
         /\ grants' \subseteq grants /\ \A g \in grants' : g[2] \in DOMAIN rows => g[2] \in DOMAIN rows'
         /\ \A q \in DOMAIN rows \ DOMAIN rows' : Dangling(q)
         /\ UNCHANGED <<dScenario, effects, dEnv, told>> /\ forgotten \subseteq forgotten' /\ dRetired \subseteq dRetired'
<1> USE DEF dHistory
<1>1. ASSUME SameNexts(rows, rows'), SameValues,
             UNCHANGED <<dScenario, effects, dEnv, told, grants>>, forgotten \subseteq forgotten', dRetired \subseteq dRetired'
      PROVE  /\ SameValues /\ NoNewLast /\ DOMAIN rows' \subseteq DOMAIN rows
             /\ (HEAD \in DOMAIN rows => HEAD \in DOMAIN rows')
             /\ grants' \subseteq grants /\ \A g \in grants' : g[2] \in DOMAIN rows => g[2] \in DOMAIN rows'
             /\ \A q \in DOMAIN rows \ DOMAIN rows' : Dangling(q)
             /\ UNCHANGED <<dScenario, effects, dEnv, told>> /\ forgotten \subseteq forgotten' /\ dRetired \subseteq dRetired'
  BY <1>1, NoNewLasts
<1>2. CASE UNCHANGED <<rows, dScenario, effects, dEnv, told, grants, forgotten>> /\ dRetired \subseteq dRetired'
  <2>1. SameNexts(rows, rows') /\ SameValues
    BY <1>2 DEF SameNexts, SameValues
  <2> QED BY <1>1, <1>2, <2>1
<1>3. CASE ScanIntent \/ ClearIntent \/ QueryHeads \/ CollectorDies
  BY <1>2, <1>3 DEF ScanIntent, ClearIntent, QueryHeads, CollectorDies
<1>4. CASE ClearRowDAAL
  <2>1. PICK r \in DOMAIN rows : rows' = [rows EXCEPT ![r] = Cleared(r)]
    BY <1>4 DEF ClearRowDAAL
  <2>2. SameNexts(rows, rows') /\ SameValues
    BY <2>1, ClearedSame DEF SameValues
  <2>3. UNCHANGED <<dScenario, effects, dEnv, told, grants, forgotten, dRetired>>
    BY <1>4 DEF ClearRowDAAL
  <2> QED BY <1>1, <2>2, <2>3
<1>5. CASE ClearRow
  <2>1. CASE ~ (rows[collector.cur].next # NoRow /\ rows[collector.cur].gcSize = LogSize)
    BY <1>2, <1>5, <2>1 DEF ClearRow
  <2>2. CASE rows[collector.cur].next # NoRow /\ rows[collector.cur].gcSize = LogSize
    <3>1. /\ Collecting("row") /\ UNCHANGED <<dScenario, effects, dEnv, told, grants, dRetired>> /\ forgotten \subseteq forgotten'
          /\ rows' = [rows EXCEPT ![collector.prev].next = rows[collector.cur].next]
      BY <1>5, <2>2 DEF ClearRow
    <3>2. PICK prev \in DOMAIN rows, cur \in DOMAIN rows :
            /\ prev = collector.prev /\ cur = collector.cur /\ rows[prev].next = cur /\ HEAD \in DOMAIN rows
            /\ prev \in RowsFrom(rows, HEAD) /\ cur \in RowsFrom(rows, HEAD)
      BY <3>1, CollectorRows DEF Collecting
    <3>3. PICK n : n = rows[cur].next /\ n # NoRow
      BY <2>2, <3>2
    <3>4. /\ DOMAIN rows' = DOMAIN rows /\ rows'[prev] = [rows[prev] EXCEPT !.next = n]
          /\ \A q \in DOMAIN rows \ {prev} : rows'[q] = rows[q]
      BY <3>1, <3>2, <3>3
    <3>5. rows[prev] \in DRowType
      BY DEF DaalTypeOK, RowsOK, RowOK
    <3>6. rows'[prev].next = n /\ rows'[prev].v = rows[prev].v /\ rows'[prev].holder = rows[prev].holder
      BY <3>4, <3>5 DEF DRowType
    <3>7. SameValues
      BY <3>4, <3>6 DEF SameValues
    <3>8. ListOK(rows) /\ \A q \in DOMAIN rows \ {prev} : rows'[q].next = rows[q].next
      BY <3>4 DEF Shape
    <3>9. NoNewLast
      <4>1. /\ ListOK(rows) /\ HEAD \in DOMAIN rows /\ prev \in RowsFrom(rows, HEAD) /\ cur \in RowsFrom(rows, HEAD)
            /\ rows[prev].next = cur /\ rows[cur].next # NoRow /\ DOMAIN rows' = DOMAIN rows
            /\ rows'[prev].next = rows[cur].next /\ \A q \in DOMAIN rows \ {prev} : rows'[q].next = rows[q].next
        BY <3>2, <3>3, <3>4, <3>6, <3>8
      <4>2. \A u : LastOf(rows', u) <=> LastOf(rows, u)
        BY ONLY <4>1, UnlinkKeepsList
      <4> QED BY <4>2 DEF NoNewLast
    <3> QED BY <3>1, <3>4, <3>7, <3>9
  <2> QED BY <2>1, <2>2
<1>6. CASE StampRow
  <2>1. PICK cur \in DOMAIN rows : cur = collector.cur
    BY <1>6, StampedSame
  <2>2. /\ SameNexts(rows, rows')
        /\ rows'[cur] = [rows[cur] EXCEPT !.stamped = TRUE, !.since = {e \in DExecutor : Live(e)}]
        /\ \A q \in DOMAIN rows \ {cur} : rows'[q] = rows[q]
    BY <1>6, <2>1, StampedSame
  <2>3. rows[cur] \in DRowType
    BY DEF DaalTypeOK, RowsOK, RowOK
  <2>4. SameValues
    <3>1. rows'[cur].v = rows[cur].v /\ rows'[cur].holder = rows[cur].holder
      BY <2>2, <2>3 DEF DRowType
    <3> QED BY <2>2, <3>1 DEF SameValues
  <2>5. UNCHANGED <<dScenario, effects, dEnv, told, grants, forgotten, dRetired>>
    BY <1>6 DEF StampRow
  <2> QED BY <1>1, <2>2, <2>4, <2>5
<1>7. CASE ClearDangling
  <2>1. Collecting("sweep") /\ UNCHANGED <<dRetired, dScenario, dEnv, effects, told, forgotten>>
    BY <1>7 DEF ClearDangling
  <2>2. CASE UNCHANGED <<rows, grants>>
    BY <1>2, <2>1, <2>2
  <2>3. ASSUME NEW r \in DOMAIN rows, Dangling(r), rows' = Without(r), grants' = {g \in grants : g[2] # r}
        PROVE  /\ SameValues /\ NoNewLast /\ DOMAIN rows' \subseteq DOMAIN rows
               /\ (HEAD \in DOMAIN rows => HEAD \in DOMAIN rows')
               /\ grants' \subseteq grants /\ \A g \in grants' : g[2] \in DOMAIN rows => g[2] \in DOMAIN rows'
               /\ \A q \in DOMAIN rows \ DOMAIN rows' : Dangling(q)
    <3>1. /\ r \notin RowsFrom(rows, HEAD) /\ HEAD \in DOMAIN rows
          /\ \A f \in DExecutor : Live(f) => r \notin RowsFrom(rows, dRow[f])
      BY <2>3, DanglingIs
    <3>2. /\ DOMAIN rows' = DOMAIN rows \ {r} /\ \A q \in DOMAIN rows' : rows'[q] = rows[q]
      BY <2>3 DEF Without
    <3>3. RowsFrom(rows, HEAD) \subseteq DOMAIN rows' /\ ListOK(rows) /\ HEAD \in DOMAIN rows'
      BY <3>1, <3>2, HeadFirst DEF Shape
    <3>4. NextsOK(rows')
      BY <3>2, <3>3 DEF NextsOK, ListOK
    <3>5. NoNewLast
      BY <3>1, <3>2, <3>3, <3>4, OthersKeepList DEF NoNewLast
    <3>7. grants' \subseteq grants /\ \A g \in grants' : g[2] \in DOMAIN rows => g[2] \in DOMAIN rows'
      BY <2>3, <3>2
    <3> QED BY <3>2, <3>3, <3>5, <3>7, Dangling(r) DEF SameValues
  <2> QED BY <1>7, <2>1, <2>2, <2>3 DEF ClearDangling
<1> QED BY <1>3, <1>4, <1>5, <1>6, <1>7 DEF Collect

\* Who was told that it holds the lock is the HOLDER of the row that said so.
GrantsOK == \A g \in grants : g[2] \in DOMAIN rows /\ rows[g[2]].holder = g[1]

\* A row has one HOLDER.
LEMMA GrantsExclude == GrantsOK => DaalExclusion
BY DEF GrantsOK, DaalExclusion

\* What the update makes of the row.
LEMMA MadeRow ==
  ASSUME DaalTypeOK, Shape, NEW e \in DExecutor, Makes(e)
  PROVE  /\ dRow[e] \in DOMAIN rows /\ e \in DOMAIN DInstanceOf /\ DInstanceOf[e] \in DInstance
         /\ DOp(e) \in Writes /\ DOMAIN rows' = DOMAIN rows
         /\ rows'[dRow[e]].v = (IF DOp(e) = "write" THEN Len(effects) + 1 ELSE rows[dRow[e]].v)
         /\ rows'[dRow[e]].holder = (CASE DOp(e) = "lock" -> DInstanceOf[e]
                                       [] DOp(e) = "unlock" -> NoHolder
                                       [] OTHER -> rows[dRow[e]].holder)
         /\ rows'[dRow[e]].next = rows[dRow[e]].next
         /\ \A q \in DOMAIN rows \ {dRow[e]} :
              rows'[q].v = rows[q].v /\ rows'[q].holder = rows[q].holder /\ rows'[q].next = rows[q].next
<1>1. /\ dRow[e] \in DOMAIN rows /\ e \in DOMAIN DInstanceOf /\ DInstanceOf[e] \in DInstance
      /\ DOp(e) \in Writes /\ UpdateRow(e)
  <2>1. dRow[e] \in DOMAIN rows /\ e \in DOMAIN DInstanceOf /\ DOp(e) \in Writes /\ UpdateRow(e)
    BY DEF Makes, Room, UpdateRow, At, DaalTypeOK
  <2> QED BY <2>1, InstanceType
<1>2. PICK r \in DOMAIN rows : r = dRow[e]
  BY <1>1
<1>3. PICK row : row = Updated(r, e)
  OBVIOUS
<1>4. WritesTo(e, r, row)
  BY <1>1, <1>2, <1>3, UpdateWrites DEF Makes
<1>5. rows[r] \in DRowType /\ row \in DRowType
  BY <1>4 DEF DaalTypeOK, RowsOK, RowOK, WritesTo
<1>6. row.v = (IF DOp(e) = "write" THEN Len(effects) + 1 ELSE rows[r].v)
  BY <1>1, <1>3, <1>5 DEF Updated, DRowType, Writes
<1>7. row.holder = (CASE DOp(e) = "lock" -> DInstanceOf[e]
                     [] DOp(e) = "unlock" -> NoHolder
                     [] OTHER -> rows[r].holder)
  BY <1>1, <1>3, <1>5 DEF Updated, DRowType, Writes
<1>8. /\ DOMAIN rows' = DOMAIN rows /\ rows'[r].v = row.v /\ rows'[r].holder = row.holder
      /\ rows'[r].next = rows[r].next
      /\ \A q \in DOMAIN rows \ {r} :
           rows'[q].v = rows[q].v /\ rows'[q].holder = rows[q].holder /\ rows'[q].next = rows[q].next
  <2>1. WritesTo(e, r, row)
    BY <1>4
  <2>2. /\ DOMAIN rows' = DOMAIN rows
        /\ rows'[r].logs = rows[r].logs \cup {Cid(e)} /\ rows'[r].logSize = rows[r].logSize + 1
        /\ rows'[r].refused = rows[r].refused /\ rows'[r].gcSize = rows[r].gcSize
        /\ rows'[r].counted = rows[r].counted /\ rows'[r].next = rows[r].next
        /\ rows'[r].v = row.v /\ rows'[r].holder = row.holder
        /\ \A q \in DOMAIN rows \ {r} :
             /\ rows'[q].v = rows[q].v /\ rows'[q].holder = rows[q].holder
             /\ rows'[q].logs = rows[q].logs /\ rows'[q].refused = rows[q].refused
             /\ rows'[q].logSize = rows[q].logSize /\ rows'[q].gcSize = rows[q].gcSize
             /\ rows'[q].counted = rows[q].counted /\ rows'[q].next = rows[q].next
    BY <2>1, WritesRows
  <2> QED BY ONLY <2>2
<1> QED BY ONLY <1>1, <1>2, <1>6, <1>7, <1>8

\* What the link makes of the list.
LEMMA LinkedRows ==
  ASSUME DaalTypeOK, Shape, NEW e \in DExecutor, Links(e)
  PROVE  /\ DOMAIN rows' = DOMAIN rows /\ SameValues /\ UNCHANGED <<dScenario, effects, grants, forgotten>>
         /\ LastOf(rows, dRow[e]) /\ \A t : LastOf(rows', t) => t = dVal[e]
<1>1. PICK t \in DOMAIN rows : t = dRow[e]
  BY LinkRows DEF Links, LastOf
<1>2. /\ DOMAIN rows' = DOMAIN rows /\ rows'[t] = [rows[t] EXCEPT !.next = dVal[e]]
      /\ \A q \in DOMAIN rows \ {t} : rows'[q] = rows[q]
      /\ ListOK(rows') /\ LastOf(rows', dVal[e]) /\ LastOf(rows, t)
  BY <1>1, LinkRows DEF Links
<1>3. SameValues
  <2>1. rows[t] \in DRowType
    BY DEF DaalTypeOK, RowsOK, RowOK
  <2> QED BY <1>2, <2>1 DEF SameValues, DRowType
<1>4. \A u : LastOf(rows', u) => u = dVal[e]
  BY <1>2, OneLast
<1> QED BY <1>1, <1>2, <1>3, <1>4 DEF Links, SwapRow, dHistory

\* The HOLDER changes with what was told of it.
LEMMA StepGrants ==
  ASSUME DaalTypeOK, Shape, GrantsOK, NEW e \in DExecutor, DaalStep(e) \/ DDie(e)
  PROVE  GrantsOK'
<1>1. \A g \in grants : g[1] \in DInstance /\ g[1] # NoHolder /\ g[2] \in DOMAIN rows /\ rows[g[2]].holder = g[1]
  BY NoHolderAssumption DEF DaalTypeOK, GrantsOK
<1>2. CASE Quiet(e)
  <2>1. \A q \in DOMAIN rows \ DOMAIN rows' : rows[q].holder = NoHolder
    BY <1>2 DEF Quiet, Shape, HoldsOK, Holding, Fresh
  <2> QED BY <1>1, <1>2, <2>1 DEF Quiet, GrantsOK, SameValues
<1>3. CASE Links(e)
  BY <1>3, LinkedRows DEF GrantsOK, SameValues
<1>4. CASE Makes(e)
  <2>1. PICK r \in DOMAIN rows : r = dRow[e]
    BY <1>4, MadeRow
  <2>2. PICK i \in DInstance : i = DInstanceOf[e]
    BY <1>4, MadeRow
  <2>3. /\ DOp(e) \in Writes /\ DOMAIN rows' = DOMAIN rows
        /\ rows'[r].holder = (CASE DOp(e) = "lock" -> i
                                [] DOp(e) = "unlock" -> NoHolder
                                [] OTHER -> rows[r].holder)
        /\ \A q \in DOMAIN rows \ {r} : rows'[q].holder = rows[q].holder
    BY <1>4, <2>1, <2>2, MadeRow
  <2>4. Cond(r, e) /\ grants' = Granted(r, e)
    BY <1>4, <2>1 DEF Makes, UpdateRow
  <2>5. CASE DOp(e) = "lock"
    <3>1. grants' = grants \cup {<<i, r>>} /\ rows'[r].holder = i /\ rows[r].holder \in {NoHolder, i}
      BY <2>2, <2>3, <2>4, <2>5 DEF Granted, Cond
    <3>2. ASSUME NEW g \in grants' PROVE g[2] \in DOMAIN rows' /\ rows'[g[2]].holder = g[1]
      <4>1. CASE g \in grants
        BY <1>1, <2>3, <3>1, <4>1
      <4>2. CASE g = <<i, r>>
        BY <2>3, <3>1, <4>2
      <4> QED BY <3>1, <4>1, <4>2
    <3> QED BY <3>2 DEF GrantsOK
  <2>6. CASE DOp(e) = "unlock"
    <3>1. grants' = {g \in grants : g[1] # i} /\ rows[r].holder = i
      BY <2>2, <2>4, <2>6 DEF Granted, Cond
    <3>2. ASSUME NEW g \in grants' PROVE g[2] \in DOMAIN rows' /\ rows'[g[2]].holder = g[1]
      <4>1. g \in grants /\ g[1] # i
        BY <3>1
      <4>2. g[2] # r
        BY <1>1, <3>1, <4>1
      <4> QED BY <1>1, <2>3, <4>1, <4>2
    <3> QED BY <3>2 DEF GrantsOK
  <2>7. CASE DOp(e) = "write"
    <3>1. grants' = grants /\ rows'[r].holder = rows[r].holder
      BY <2>3, <2>4, <2>7 DEF Granted
    <3> QED BY <1>1, <2>3, <3>1 DEF GrantsOK
  <2> QED BY <2>3, <2>5, <2>6, <2>7 DEF Writes
<1> QED BY <1>2, <1>3, <1>4, StepRows

LEMMA CollectGrants ==
  ASSUME DaalTypeOK, Shape, GrantsOK, Collect \/ CollectorDies
  PROVE  GrantsOK'
BY CollectRows DEF GrantsOK, SameValues

\* An execution that appends a row takes the value of the old one, which is full.
CopyOK(e) ==
  /\ dPc[e] = "create" => dVal[e] = rows[dRow[e]].v
  /\ dPc[e] = "swap" => rows[dVal[e]].v = rows[dRow[e]].v

\* The last row has the value of the last write.
ValuesOK ==
  /\ \A t : LastOf(rows, t) => \A n \in DOMAIN effects : IsValue(n) => rows[t].v >= n
  /\ \A e \in DExecutor : CopyOK(e)

\* What is under way of others is not disturbed.
LEMMA CopiesStay ==
  ASSUME DaalTypeOK, Shape, NEW f \in DExecutor, CopyOK(f), SameValues,
         dPc'[f] = dPc[f] /\ dRow'[f] = dRow[f] /\ dVal'[f] = dVal[f],
         \A q \in DOMAIN rows \ DOMAIN rows' :
           Dangling(q) \/ \E e \in DExecutor \ {f} : dPc[e] = "drop" /\ q = dVal[e]
  PROVE  CopyOK(f)'
<1>1. CASE dPc[f] \in {"create", "swap"}
  <2>1. Live(f) /\ HEAD \in DOMAIN rows /\ dRow[f] \in DOMAIN rows /\ dRow[f] \in RowsFrom(rows, dRow[f])
    <3>1. Live(f)
      BY <1>1 DEF Live
    <3> QED BY <1>1, <3>1, OnWalk
  <2>2. dRow[f] \in DOMAIN rows'
    <3>1. ~ Dangling(dRow[f])
      BY <2>1, DanglingIs
    <3>2. \A e \in DExecutor : dPc[e] = "drop" => dRow[f] # dVal[e]
      BY <2>1, NotHeld DEF Holding
    <3> QED BY <2>1, <3>1, <3>2
  <2>3. ASSUME dPc[f] = "swap" PROVE dVal[f] \in DOMAIN rows /\ dVal[f] \in DOMAIN rows'
    <3>1. dVal[f] \in DOMAIN rows /\ ~ rows[dVal[f]].stamped /\ \A e \in DExecutor \ {f} : dPc[e] = "drop" => dVal[e] # dVal[f]
      BY <2>3 DEF Shape, HoldsOK, Holding, Fresh
    <3> QED BY <3>1 DEF Dangling
  <2> QED BY <2>1, <2>2, <2>3 DEF CopyOK, SameValues
<1>2. CASE dPc[f] \notin {"create", "swap"}
  BY <1>2 DEF CopyOK
<1> QED BY <1>1, <1>2

\* Who gets to an appended row.
LEMMA Appending ==
  ASSUME DaalTypeOK, NEW e \in DExecutor, DaalStep(e) \/ DDie(e), dPc'[e] \in {"create", "swap"}
  PROVE  CopyValue(e) \/ CreateRow(e)
<1> SUFFICES ASSUME ~ CopyValue(e), ~ CreateRow(e) PROVE FALSE
  OBVIOUS
<1>1. ASSUME NEW pc, GoTo(e, pc) PROVE dPc'[e] = pc
  BY <1>1 DEF GoTo, DaalTypeOK
<1>2. ASSUME NEW x, Over(e, x) PROVE dPc'[e] = "run"
  BY <1>2 DEF Over, GoTo, DaalTypeOK
<1>3. CASE DCall(e) \/ FollowNext(e) \/ LastRow(e) \/ DFinish(e) \/ PutRead(e) \/ DDie(e) \/ InsertHead(e) \/ DropRow(e)
  BY <1>1, <1>2, <1>3 DEF DCall, FollowNext, LastRow, DFinish, PutRead, DDie, InsertHead, DropRow
<1>4. CASE GetRow(e)
  BY <1>1, <1>4 DEF GetRow, At
<1>5. CASE QuickCheckReturnLast(e)
  BY <1>1, <1>2, <1>5 DEF QuickCheckReturnLast
<1>6. CASE UpdateRow(e)
  BY <1>1, <1>2, <1>6 DEF UpdateRow
<1>7. CASE RefuseRow(e)
  BY <1>1, <1>2, <1>7 DEF RefuseRow
<1>8. CASE LookAtRow(e)
  BY <1>1, <1>2, <1>8 DEF LookAtRow
<1>9. CASE SwapRow(e)
  BY <1>1, <1>9 DEF SwapRow
<1> QED BY <1>3, <1>4, <1>5, <1>6, <1>7, <1>8, <1>9 DEF DaalStep

\* It has the value of the row before.
LEMMA AppendsCopy ==
  ASSUME DaalTypeOK, Shape, ValuesOK, NEW e \in DExecutor, CopyValue(e) \/ CreateRow(e)
  PROVE  CopyOK(e)'
<1>1. dPc[e] \in {"copy", "create"} /\ dRow'[e] = dRow[e] /\ HEAD \in DOMAIN rows /\ dRow[e] \in DOMAIN rows
  <2>1. dPc[e] \in {"copy", "create"} /\ Live(e) /\ dRow'[e] = dRow[e]
    BY DEF CopyValue, CreateRow, At, Live
  <2> QED BY <2>1, OnWalk
<1>2. CASE CopyValue(e)
  <2>1. dPc'[e] = "create" /\ dVal'[e] = rows[dRow[e]].v /\ rows' = rows
    BY <1>1, <1>2 DEF CopyValue, GoTo, DaalTypeOK, Copied, ValueOf
  <2> QED BY <1>1, <2>1 DEF CopyOK
<1>3. CASE CreateRow(e)
  <2>1. PICK p \in RowId : p = FreeRow /\ p \notin DOMAIN rows
    BY <1>3, FreeRowIs DEF CreateRow
  <2>2. /\ rows' = [r \in DOMAIN rows \cup {p} |-> IF r = p THEN NewRow(dVal[e]) ELSE rows[r]]
        /\ dPc'[e] = "swap" /\ dVal'[e] = p /\ dPc[e] = "create"
    BY <1>3, <2>1 DEF CreateRow, GoTo, DaalTypeOK, At
  <2>3. dVal[e] = rows[dRow[e]].v /\ NewRow(dVal[e]).v = dVal[e]
    BY <2>2 DEF ValuesOK, CopyOK, NewRow
  <2>4. rows'[dRow[e]] = rows[dRow[e]] /\ rows'[p] = NewRow(dVal[e])
    BY <1>1, <2>1, <2>2
  <2> QED BY <1>1, <2>2, <2>3, <2>4 DEF CopyOK
<1> QED BY <1>2, <1>3

\* History grows by the write that is made.
LEMMA MadeHistory ==
  ASSUME DaalTypeOK, NEW e \in DExecutor, Makes(e)
  PROVE  /\ DOMAIN effects' = DOMAIN effects \cup {Len(effects) + 1} /\ Len(effects) + 1 \notin DOMAIN effects
         /\ effects'[Len(effects) + 1] = Cid(e) /\ \A n \in DOMAIN effects : effects'[n] = effects[n]
         /\ Len(effects) \in Nat /\ \A n \in DOMAIN effects' : n \in Nat /\ n <= Len(effects) + 1
         /\ dPc'[e] = "run" /\ UNCHANGED <<dScenario, dRetired, forgotten>>
<1>1. /\ effects' = Append(effects, Cid(e)) /\ dPc'[e] = "run" /\ UNCHANGED <<dScenario, dRetired, forgotten>>
  BY DEF Makes, UpdateRow, Over, GoTo, DaalTypeOK
<1>2. effects \in Seq(DCids)
  BY DEF DaalTypeOK
<1> QED BY <1>1, <1>2

\* So the last row still has the value when it is another one.
LEMMA StepValues ==
  ASSUME DaalTypeOK, Shape, LogsInv, ValuesOK, NEW e \in DExecutor, DaalStep(e) \/ DDie(e)
  PROVE  ValuesOK'
<1>1. OnlyMoves(e)
  BY Moving
<1>2. CopyOK(e)'
  BY Appending, AppendsCopy DEF CopyOK
<1>3. ASSUME UNCHANGED <<dScenario, effects>> PROVE \A n \in DOMAIN effects : IsValue(n)' <=> IsValue(n)
  BY <1>3 DEF IsValue
<1>4. CASE Quiet(e)
  <2>1. UNCHANGED <<dScenario, effects>> /\ SameValues
    BY <1>4 DEF Quiet
  <2>2. ASSUME NEW t, LastOf(rows', t), NEW n \in DOMAIN effects', IsValue(n)' PROVE rows'[t].v >= n
    <3>1. HEAD \in DOMAIN rows
      <4>1. DOMAIN effects # {}
        BY <2>1, <2>2
      <4>2. effects # <<>>
        BY <4>1
      <4> QED BY <4>2 DEF LogsInv, EffectsOK
    <3>2. LastOf(rows, t) /\ rows[t].v >= n
      BY <1>3, <1>4, <2>1, <2>2, <3>1 DEF Quiet, NoNewLast, ValuesOK
    <3> QED BY <2>1, <2>2, <3>2 DEF SameValues, LastOf
  <2>3. ASSUME NEW f \in DExecutor \ {e} PROVE CopyOK(f)'
    <3>1. CopyOK(f) /\ dPc'[f] = dPc[f] /\ dRow'[f] = dRow[f] /\ dVal'[f] = dVal[f]
      BY <1>1 DEF ValuesOK, OnlyMoves
    <3>2. \A q \in DOMAIN rows \ DOMAIN rows' : \E g \in DExecutor \ {f} : dPc[g] = "drop" /\ q = dVal[g]
      BY <1>4 DEF Quiet
    <3> QED BY <2>1, <3>1, <3>2, CopiesStay
  <2> QED BY <1>2, <2>2, <2>3 DEF ValuesOK
<1>5. CASE Links(e)
  <2>1. /\ DOMAIN rows' = DOMAIN rows /\ SameValues /\ UNCHANGED <<dScenario, effects>>
        /\ LastOf(rows, dRow[e]) /\ \A t : LastOf(rows', t) => t = dVal[e]
    BY <1>5, LinkedRows
  <2>2. dPc[e] = "swap" /\ rows[dVal[e]].v = rows[dRow[e]].v
    BY <1>5 DEF Links, SwapRow, At, ValuesOK, CopyOK
  <2>3. ASSUME NEW t, LastOf(rows', t), NEW n \in DOMAIN effects', IsValue(n)' PROVE rows'[t].v >= n
    <3>1. t = dVal[e] /\ t \in DOMAIN rows /\ t \in DOMAIN rows'
      BY <2>1, <2>3 DEF LastOf
    <3>2. rows[dRow[e]].v >= n
      BY <1>3, <2>1, <2>3 DEF ValuesOK
    <3> QED BY <2>1, <2>2, <3>1, <3>2 DEF SameValues
  <2>4. ASSUME NEW f \in DExecutor \ {e} PROVE CopyOK(f)'
    <3>1. CopyOK(f) /\ dPc'[f] = dPc[f] /\ dRow'[f] = dRow[f] /\ dVal'[f] = dVal[f]
      BY <1>1 DEF ValuesOK, OnlyMoves
    <3> QED BY <2>1, <3>1, CopiesStay
  <2> QED BY <1>2, <2>3, <2>4 DEF ValuesOK
<1>6. CASE Makes(e)
  <2>1. PICK r \in DOMAIN rows : r = dRow[e]
    BY <1>6, MadeRow
  <2>2. /\ e \in DOMAIN DInstanceOf /\ DOp(e) \in Writes /\ DOMAIN rows' = DOMAIN rows
        /\ rows'[r].v = (IF DOp(e) = "write" THEN Len(effects) + 1 ELSE rows[r].v)
        /\ rows'[r].next = rows[r].next
        /\ \A q \in DOMAIN rows \ {r} : rows'[q].v = rows[q].v /\ rows'[q].next = rows[q].next
    BY <1>6, <2>1, MadeRow
  <2>3. LastOf(rows, r) /\ ~ Full(r)
    <3>1. Live(e)
      BY <1>6 DEF Makes, UpdateRow, At, Live
    <3> QED BY <1>6, <2>1, <3>1, OnWalk, RoomIsLast DEF Makes, LastOf, Shape, ListOK
  <2>4. \A t : LastOf(rows', t) => t = r
    <3>1. SameNexts(rows, rows')
      BY <2>2 DEF SameNexts
    <3> QED BY <2>3, <3>1, NoNewLasts, OneLast DEF NoNewLast, Shape
  <2>5. PICK m : m = Len(effects) + 1
    OBVIOUS
  <2>6. /\ DOMAIN effects' = DOMAIN effects \cup {m} /\ m \notin DOMAIN effects
        /\ effects'[m] = Cid(e) /\ \A n \in DOMAIN effects : effects'[n] = effects[n]
        /\ m \in Nat /\ (\A n \in DOMAIN effects' : n \in Nat /\ n <= m)
        /\ dPc'[e] = "run" /\ dScenario' = dScenario
    <3>1. Len(effects) \in Nat
      BY <1>6, MadeHistory
    <3> QED BY <1>6, <2>5, <3>1, MadeHistory
  <2>7. ASSUME NEW n \in DOMAIN effects', IsValue(n)' PROVE rows'[r].v >= n
    <3>1. CASE DOp(e) = "write"
      BY <2>2, <2>5, <2>6, <3>1
    <3>2. CASE DOp(e) # "write"
      <4>1. n # m
        <5>1. DOp(e) = dScenario.ops[DInstanceOf[e]][dStep[e] + 1]
          BY <2>2, DOpIs DEF Writes
        <5> QED BY <2>6, <2>7, <3>2, <5>1 DEF IsValue, Cid
      <4>2. n \in DOMAIN effects /\ IsValue(n)
        BY <2>6, <2>7, <4>1 DEF IsValue
      <4> QED BY <2>2, <2>3, <3>2, <4>2 DEF ValuesOK
    <3> QED BY <3>1, <3>2
  <2>8. ASSUME NEW f \in DExecutor \ {e} PROVE CopyOK(f)'
    <3>1. CopyOK(f) /\ PlaceOK(f) /\ dPc'[f] = dPc[f] /\ dRow'[f] = dRow[f] /\ dVal'[f] = dVal[f]
      BY <1>1 DEF ValuesOK, OnlyMoves, LogsInv
    <3>2. ASSUME dPc[f] \in {"create", "swap"} PROVE dRow[f] \in DOMAIN rows \ {r}
      <4>1. Live(f) /\ Full(dRow[f])
        BY <3>1, <3>2 DEF Live, PlaceOK, Appends
      <4> QED BY <2>3, <3>2, <4>1, OnWalk
    <3>3. ASSUME dPc[f] = "swap" PROVE dVal[f] \in DOMAIN rows \ {r}
      BY <2>3, <3>3 DEF Shape, HoldsOK, Holding, LastOf
    <3> QED BY <2>2, <3>1, <3>2, <3>3 DEF CopyOK
  <2> QED BY <1>2, <2>4, <2>7, <2>8 DEF ValuesOK
<1> QED BY <1>4, <1>5, <1>6, StepRows

LEMMA CollectValues ==
  ASSUME DaalTypeOK, Shape, ValuesOK, Collect \/ CollectorDies
  PROVE  ValuesOK'
<1>1. SameValues /\ NoNewLast /\ UNCHANGED <<dScenario, effects, dEnv>> /\ \A q \in DOMAIN rows \ DOMAIN rows' : Dangling(q)
  BY CollectRows
<1>2. ASSUME NEW t, LastOf(rows', t), NEW n \in DOMAIN effects', IsValue(n)' PROVE rows'[t].v >= n
  <2>1. LastOf(rows, t) /\ rows[t].v >= n
    BY <1>1, <1>2 DEF NoNewLast, ValuesOK, IsValue
  <2> QED BY <1>1, <1>2, <2>1 DEF SameValues, LastOf
<1>3. ASSUME NEW f \in DExecutor PROVE CopyOK(f)'
  <2>1. CopyOK(f) /\ dPc'[f] = dPc[f] /\ dRow'[f] = dRow[f] /\ dVal'[f] = dVal[f]
    BY <1>1 DEF ValuesOK, dEnv
  <2> QED BY <1>1, <2>1, CopiesStay
<1> QED BY <1>2, <1>3 DEF ValuesOK

-----------------------------------------------------------------------------
(***************************************************************************)
(* What reads are told: it is not older than the writes of the instance    *)
(* that come before, and it is the same in every execution.                *)
(***************************************************************************)
\* The writes of i before step s were made.
Happened(i, s) == \A w \in Nat : w < s /\ OpOf(<<i, w>>) = "write" => Took(<<i, w>>)

\* x is not older than any of them.
NotOlder(i, s, x) ==
  \A n \in DOMAIN effects :
    effects[n][1] = i /\ effects[n][2] < s /\ IsValue(n) /\ effects[n] \notin forgotten => x >= n

ReadOK(i, s, x) == Happened(i, s) /\ NotOlder(i, s, x)

\* What an execution has done, and has read.
ReadsOf(e) ==
  /\ dPc[e] = "idle" => dStep[e] = 0
  /\ dPc[e] \notin {"idle", "done"} => Happened(DInstanceOf[e], dStep[e])
  /\ dPc[e] = "put" => ReadOK(DInstanceOf[e], dStep[e], dVal[e])

\* What the log table has.
LoggedReads == \A i \in DInstance : \A s \in DOMAIN readLog[i] : ReadOK(i, s, readLog[i][s])

\* What was told is in the log table as long as somebody can ask for it.
ToldOK(i, t) ==
  OpOf(<<i, t[1]>>) = "read" =>
    /\ ReadOK(i, t[1], t[2])
    /\ i \notin dRetired => t[1] \in DOMAIN readLog[i] /\ readLog[i][t[1]] = t[2]
    /\ \A u \in told[i] : u[1] = t[1] => u = t

ReadsInv ==
  /\ \A e \in DExecutor : ReadsOf(e)
  /\ LoggedReads
  /\ \A i \in DInstance : \A t \in told[i] : ToldOK(i, t)

\* That, and the value of the last row, is what the model states.
LEMMA ReadsKeepValue ==
  ASSUME Shape, ValuesOK, ReadsInv PROVE DaalKeepsValue
<1>1. HEAD \in DOMAIN rows => LastOf(rows, LastFrom(HEAD))
  BY LastFromIs DEF Shape
<1>2. HEAD \in DOMAIN rows =>
       LET last == LastFrom(HEAD)
       IN  /\ last \in DOMAIN rows
           /\ \A n \in DOMAIN effects : IsValue(n) => rows[last].v >= n
  BY <1>1 DEF ValuesOK, LastOf
<1>3. ASSUME NEW i \in DInstance, NEW t \in told[i], dScenario.ops[i][t[1] + 1] = "read"
      PROVE  /\ \A n \in DOMAIN effects :
                  /\ effects[n][1] = i /\ effects[n][2] < t[1] /\ IsValue(n)
                  /\ effects[n] \notin forgotten
                  => t[2] >= n
             /\ \A u \in told[i] : u[1] = t[1] => u = t
  <2>1. ToldOK(i, t) /\ OpOf(<<i, t[1]>>) = "read"
    BY <1>3 DEF ReadsInv, OpOf
  <2> QED BY <2>1 DEF ToldOK, ReadOK, NotOlder
<1> QED BY <1>2, <1>3 DEF DaalKeepsValue

\* At first there is nothing.
LEMMA ReadsInit == DaalInit => ReadsInv /\ ValuesOK /\ GrantsOK
<1> SUFFICES ASSUME DaalInit PROVE ReadsInv /\ ValuesOK /\ GrantsOK
  OBVIOUS
<1>1. /\ DOMAIN rows = {} /\ effects = <<>> /\ \A e \in DExecutor : dPc[e] = "idle" /\ dStep[e] = 0
      /\ \A i \in DInstance : told[i] = {} /\ DOMAIN readLog[i] = {}
      /\ grants = {}
  BY DEF DaalInit
<1>2. DOMAIN effects = {}
  BY <1>1
<1> QED BY <1>1, <1>2 DEF ReadsInv, ReadsOf, LoggedReads, ValuesOK, CopyOK, GrantsOK

\* What was made was made, and a write that is made later is new or forgotten.
LEMMA ReadStays ==
  ASSUME DaalTypeOK, NEW i, NEW s,
         UNCHANGED dScenario, forgotten \subseteq forgotten',
         \/ effects' = effects
         \/ \E e \in DExecutor : Makes(e) /\ ~ Kept(Cid(e)) /\ Cid(e) \in DCids
  PROVE  /\ Happened(i, s) => Happened(i, s)'
         /\ \A x : ReadOK(i, s, x) => ReadOK(i, s, x)'
<1>1. CASE effects' = effects
  BY <1>1 DEF Happened, ReadOK, NotOlder, Took, OpOf, IsValue
<1>2. ASSUME NEW e \in DExecutor, Makes(e), ~ Kept(Cid(e)), Cid(e) \in DCids
      PROVE  /\ Happened(i, s) => Happened(i, s)'
             /\ \A x : ReadOK(i, s, x) => ReadOK(i, s, x)'
  <2>1. PICK m : m = Len(effects) + 1
    OBVIOUS
  <2>2. PICK c \in DCids : c = Cid(e) /\ ~ Kept(c)
    BY <1>2
  <2>3. /\ DOMAIN effects' = DOMAIN effects \cup {m}
        /\ effects'[m] = c /\ \A n \in DOMAIN effects : effects'[n] = effects[n]
    BY <1>2, <2>1, <2>2, MadeHistory
  <2>4. \A d : Took(d) => Took(d)'
    BY <2>3 DEF Took
  <2>5. Happened(i, s) => Happened(i, s)'
    BY <2>4 DEF Happened, OpOf
  <2>6. ASSUME NEW x, ReadOK(i, s, x) PROVE NotOlder(i, s, x)'
    <3> SUFFICES ASSUME NEW n \in DOMAIN effects', effects'[n][1] = i, effects'[n][2] < s, IsValue(n)',
                        effects'[n] \notin forgotten'
                 PROVE  x >= n
      BY DEF NotOlder
    <3>1. CASE n = m
      <4>1. PICK w \in Nat : c = <<i, w>> /\ w < s
        BY <2>2, <2>3, <3>1 DEF DCids
      <4>2. OpOf(<<i, w>>) = "write"
        BY <2>3, <3>1, <4>1 DEF IsValue, OpOf
      <4>3. Took(c)
        BY <2>6, <4>1, <4>2 DEF ReadOK, Happened
      <4> QED BY <2>2, <2>3, <3>1, <4>3 DEF Kept
    <3>2. CASE n \in DOMAIN effects
      BY <2>3, <2>6, <3>2 DEF ReadOK, NotOlder, IsValue
    <3> QED BY <2>3, <3>1, <3>2
  <2> QED BY <2>5, <2>6 DEF ReadOK
<1> QED BY <1>1, <1>2

LEMMA CidType ==
  ASSUME DaalTypeOK, NEW e \in DOMAIN DInstanceOf
  PROVE  Cid(e) \in DCids
BY InstanceType DEF Cid, DCids, DaalTypeOK

\* History grows by writes that are new or forgotten.
LEMMA StepHistory ==
  ASSUME DaalTypeOK, Shape, LogsInv, NEW e \in DExecutor, DaalStep(e) \/ DDie(e)
  PROVE  /\ UNCHANGED <<dScenario, dRetired, forgotten>>
         /\ \/ effects' = effects
            \/ \E f \in DExecutor : Makes(f) /\ ~ Kept(Cid(f)) /\ Cid(f) \in DCids
<1>1. UNCHANGED <<dScenario, dRetired, forgotten>>
  BY DEF DaalStep, DDie, DCall, QuickCheckReturnLast, InsertHead, UpdateRow, RefuseRow, LookAtRow, CopyValue,
         CreateRow, SwapRow, DropRow, FollowNext, LastRow, GetRow, PutRead, DFinish, dHistory
<1>2. CASE Quiet(e) \/ Links(e)
  BY <1>1, <1>2, LinkedRows DEF Quiet
<1>3. CASE Makes(e)
  <2>1. ~ Kept(Cid(e))
    BY <1>3, Moving, UpdateLogs DEF Makes
  <2>2. Cid(e) \in DCids
    BY <1>3, MadeRow, CidType
  <2> QED BY <1>1, <1>3, <2>1, <2>2
<1> QED BY <1>2, <1>3, StepRows

\* What an operation tells that is over.
Tells(e) ==
  /\ UNCHANGED readLog /\ DOp(e) \in Writes /\ dPc[e] \notin {"idle", "done"}
  /\ DOp(e) = "write" => \E n \in DOMAIN effects' : effects'[n] = Cid(e)
  /\ \E x : Over(e, x)

\* An execution goes on, starts or ends.
GoesOn(e) ==
  /\ UNCHANGED <<readLog, told>> /\ dPc'[e] # "put"
  /\ \/ dPc'[e] = "idle" /\ dStep'[e] = 0
     \/ dPc'[e] # "idle" /\ dStep'[e] = dStep[e] /\ (dPc[e] = "done" => dPc'[e] = "done")

\* A write that a row has was made.
LEMMA FoundWrites ==
  ASSUME DaalTypeOK, LogsInv, NEW e \in DOMAIN DInstanceOf, DOp(e) = "write", NEW r \in DOMAIN rows, Logged(r, e)
  PROVE  Took(Cid(e))
<1>1. OpOf(Cid(e)) = "write"
  BY DOpIs DEF OpOf, Cid
<1> QED BY <1>1 DEF Logged, LogsInv, RowLogsOK

\* What a step tells.
LEMMA Telling ==
  ASSUME DaalTypeOK, Shape, LogsInv, NEW e \in DExecutor, DaalStep(e) \/ DDie(e)
  PROVE  PutRead(e) \/ GetRow(e) \/ Tells(e) \/ GoesOn(e)
<1>1. ASSUME NEW pc, GoTo(e, pc) PROVE dPc'[e] = pc
  BY <1>1 DEF GoTo, DaalTypeOK
<1>2. dPc[e] # "idle" => e \in DOMAIN DInstanceOf
  BY DEF DaalTypeOK
<1> USE DEF dHistory
<1>3. ASSUME UNCHANGED <<readLog, told, dStep>>, dPc'[e] \notin {"put", "idle"}, dPc[e] # "done"
      PROVE  GoesOn(e)
  BY <1>3 DEF GoesOn
<1>4. CASE DCall(e) \/ CopyValue(e) \/ FollowNext(e) \/ LastRow(e) \/ DFinish(e) \/ InsertHead(e) \/ DropRow(e)
           \/ CreateRow(e)
  BY <1>1, <1>3, <1>4 DEF DCall, CopyValue, FollowNext, LastRow, DFinish, InsertHead, DropRow, CreateRow, At
<1>5. CASE SwapRow(e)
  BY <1>1, <1>3, <1>5 DEF SwapRow, At
<1>6. CASE DDie(e)
  <2>1. dPc'[e] = "idle" /\ dStep'[e] = 0 /\ UNCHANGED <<readLog, told>>
    BY <1>1, <1>6 DEF DDie, DaalTypeOK
  <2> QED BY <2>1 DEF GoesOn
<1>7. CASE QuickCheckReturnLast(e)
  <2>1. dPc[e] = "run" /\ DOp(e) \in Writes /\ UNCHANGED <<readLog, effects>>
    BY <1>7 DEF QuickCheckReturnLast, At
  <2>2. ASSUME NEW r \in DOMAIN rows, Logged(r, e), NEW x, Over(e, x) PROVE Tells(e)
    <3>1. DOp(e) = "write" => \E n \in DOMAIN effects' : effects'[n] = Cid(e)
      BY <1>2, <2>1, <2>2, FoundWrites DEF Took
    <3> QED BY <2>1, <2>2, <3>1 DEF Tells
  <2>3. ASSUME NEW pc \in {"head", "update"}, GoTo(e, pc), UNCHANGED <<dStep, told>> PROVE GoesOn(e)
    BY <1>1, <1>3, <2>1, <2>3
  <2> QED BY <1>7, <2>2, <2>3 DEF QuickCheckReturnLast
<1>8. CASE UpdateRow(e)
  <2>1. dPc[e] = "update" /\ DOp(e) \in Writes /\ UNCHANGED readLog
    BY <1>8 DEF UpdateRow, At
  <2>2. CASE Room(dRow[e], e) /\ Cond(dRow[e], e)
    <3>1. \E n \in DOMAIN effects' : effects'[n] = Cid(e)
      <4>1. Makes(e)
        BY <1>8, <2>2 DEF Makes
      <4> QED BY <4>1, MadeHistory
    <3> QED BY <1>8, <2>1, <2>2, <3>1 DEF Tells, UpdateRow
  <2>3. CASE ~ (Room(dRow[e], e) /\ Cond(dRow[e], e))
    BY <1>1, <1>3, <1>8, <2>1, <2>3 DEF UpdateRow
  <2> QED BY <2>2, <2>3
<1>9. CASE RefuseRow(e)
  <2>1. dPc[e] = "refuse" /\ DOp(e) \in Writes /\ DOp(e) # "write" /\ UNCHANGED readLog
    BY <1>9 DEF RefuseRow, At, LogsInv, PlaceOK
  <2>2. CASE Room(dRow[e], e)
    BY <1>9, <2>1, <2>2 DEF RefuseRow, Tells
  <2>3. CASE ~ Room(dRow[e], e)
    BY <1>1, <1>3, <1>9, <2>1, <2>3 DEF RefuseRow
  <2> QED BY <2>2, <2>3
<1>10. CASE LookAtRow(e)
  <2>1. dPc[e] = "look" /\ DOp(e) \in Writes /\ UNCHANGED <<readLog, effects>>
    BY <1>10 DEF LookAtRow, At
  <2>2. ASSUME dRow[e] \in DOMAIN rows, Logged(dRow[e], e), NEW x, Over(e, x) PROVE Tells(e)
    <3>1. DOp(e) = "write" => \E n \in DOMAIN effects' : effects'[n] = Cid(e)
      BY <1>2, <2>1, <2>2, FoundWrites DEF Took
    <3> QED BY <2>1, <2>2, <3>1 DEF Tells
  <2>3. ASSUME NEW pc \in {"copy", "update"}, GoTo(e, pc), UNCHANGED <<dStep, told>> PROVE GoesOn(e)
    BY <1>1, <1>3, <2>1, <2>3
  <2> QED BY <1>10, <2>2, <2>3 DEF LookAtRow
<1> QED BY <1>4, <1>5, <1>6, <1>7, <1>8, <1>9, <1>10 DEF DaalStep

\* What is said of an execution, of its step and its value.
LEMMA ReadsOfIs ==
  ASSUME NEW f, NEW i, NEW s, NEW x, i = DInstanceOf'[f], s = dStep'[f], x = dVal'[f],
         dPc'[f] = "idle" => s = 0,
         dPc'[f] \notin {"idle", "done"} => Happened(i, s)',
         dPc'[f] = "put" => ReadOK(i, s, x)'
  PROVE  ReadsOf(f)'
BY DEF ReadsOf, ReadOK, Happened, NotOlder

\* All that was said of reads is still true.
ReadsStay ==
  \A i, s : (Happened(i, s) => Happened(i, s)') /\ \A x : ReadOK(i, s, x) => ReadOK(i, s, x)'

\* Of the others, of the log table and of what was told nothing else is said.
LEMMA OthersRead ==
  ASSUME ReadsInv, ReadsStay, UNCHANGED dScenario, NEW f,  f \in DExecutor,
         dPc'[f] = dPc[f] /\ dStep'[f] = dStep[f] /\ dVal'[f] = dVal[f]
  PROVE  ReadsOf(f)'
<1>1. PICK i, s, x : i = DInstanceOf[f] /\ s = dStep[f] /\ x = dVal[f]
  OBVIOUS
<1>2. i = DInstanceOf'[f] /\ s = dStep'[f] /\ x = dVal'[f]
  BY <1>1 DEF DInstanceOf
<1>3. /\ dPc[f] = "idle" => s = 0
      /\ dPc[f] \notin {"idle", "done"} => Happened(i, s)
      /\ dPc[f] = "put" => ReadOK(i, s, x)
  BY <1>1 DEF ReadsInv, ReadsOf
<1>4. (Happened(i, s) => Happened(i, s)') /\ (ReadOK(i, s, x) => ReadOK(i, s, x)')
  BY DEF ReadsStay
<1> QED BY <1>2, <1>3, <1>4, ReadsOfIs

LEMMA LogStays ==
  ASSUME ReadsInv, ReadsStay, UNCHANGED <<dScenario, readLog>>
  PROVE  LoggedReads'
<1> SUFFICES ASSUME NEW i \in DInstance, NEW s \in DOMAIN readLog'[i] PROVE ReadOK(i, s, readLog[i][s])'
  BY DEF LoggedReads
<1>1. PICK x : x = readLog[i][s]
  OBVIOUS
<1>2. ReadOK(i, s, x)
  BY <1>1 DEF ReadsInv, LoggedReads
<1>3. ReadOK(i, s, x)'
  BY <1>2 DEF ReadsStay
<1> QED BY <1>1, <1>3 DEF ReadOK, NotOlder, Happened

LEMMA ToldStays ==
  ASSUME ReadsInv, ReadsStay, dRetired \subseteq dRetired', UNCHANGED dScenario, NEW i \in DInstance, NEW t \in told[i],
         i \notin dRetired' => \A s \in DOMAIN readLog[i] : s \in DOMAIN readLog'[i] /\ readLog'[i][s] = readLog[i][s],
         OpOf(<<i, t[1]>>) = "read" => \A u \in told'[i] \ told[i] : u[1] = t[1] => u = t
  PROVE  ToldOK(i, t)'
<1>1. PICK s, x : s = t[1] /\ x = t[2]
  OBVIOUS
<1>2. OpOf(<<i, s>>)' = OpOf(<<i, s>>) /\ ToldOK(i, t)
  BY <1>1 DEF OpOf, ReadsInv
<1>3. OpOf(<<i, s>>) = "read" => ReadOK(i, s, x)'
  BY <1>1, <1>2 DEF ReadsStay, ToldOK
<1>4. OpOf(<<i, s>>) = "read" /\ i \notin dRetired' => s \in DOMAIN readLog'[i] /\ readLog'[i][s] = x
  BY <1>1, <1>2 DEF ToldOK
<1>5. OpOf(<<i, s>>) = "read" => \A u \in told'[i] : u[1] = s => u = t
  BY <1>1, <1>2 DEF ToldOK
<1> QED BY <1>1, <1>2, <1>3, <1>4, <1>5 DEF ToldOK

LEMMA OpOfCid ==
  ASSUME DaalTypeOK, NEW e \in DOMAIN DInstanceOf, DOp(e) # "end"
  PROVE  OpOf(<<DInstanceOf[e], dStep[e]>>) = DOp(e)
BY DOpIs DEF OpOf

\* A write is over.
LEMMA TellsReads ==
  ASSUME DaalTypeOK, Shape, ReadsInv, ReadsStay, NEW e \in DExecutor, Tells(e), OnlyMoves(e),
         UNCHANGED <<dScenario, dRetired>>
  PROVE  ReadsInv'
<1>1. e \in DOMAIN DInstanceOf /\ DInstanceOf[e] \in DInstance
  BY InstanceType DEF Tells, DaalTypeOK
<1>2. PICK i \in DInstance, s \in Nat : i = DInstanceOf[e] /\ s = dStep[e]
  BY <1>1 DEF DaalTypeOK
<1>3. PICK x : Over(e, x)
  BY DEF Tells
<1>4. /\ dPc'[e] = "run" /\ dStep'[e] = s + 1
      /\ told'[i] = told[i] \cup {<<s, x>>} /\ \A j \in DInstance \ {i} : told'[j] = told[j]
  BY <1>2, <1>3 DEF Over, GoTo, DaalTypeOK
<1>5. OpOf(<<i, s>>) = DOp(e) /\ DOp(e) \in Writes /\ DOp(e) # "read"
  BY <1>1, <1>2, OpOfCid DEF Tells, Writes
<1>6. ReadsOf(e)'
  <2>1. Happened(i, s)
    BY <1>2 DEF Tells, ReadsInv, ReadsOf
  <2>2. Happened(i, s)'
    BY <2>1 DEF ReadsStay
  <2>3. Happened(i, s + 1)'
    <3> SUFFICES ASSUME NEW w \in Nat, w < s + 1, OpOf(<<i, w>>)' = "write" PROVE Took(<<i, w>>)'
      BY DEF Happened
    <3>1. CASE w < s
      BY <2>2, <3>1 DEF Happened
    <3>2. CASE w = s
      <4>1. DOp(e) = "write" /\ Cid(e) = <<i, w>>
        BY <1>2, <1>5, <3>2 DEF OpOf, Cid
      <4>2. \E n \in DOMAIN effects' : effects'[n] = <<i, w>>
        BY <4>1 DEF Tells
      <4> QED BY <4>2 DEF Took
    <3> QED BY <3>1, <3>2
  <2>4. PICK z, s1 : z = dVal'[e] /\ s1 = s + 1 /\ i = DInstanceOf'[e]
    BY <1>2 DEF DInstanceOf
  <2>5. Happened(i, s1)'
    BY <2>3, <2>4 DEF Happened
  <2> QED BY <1>4, <2>4, <2>5, ReadsOfIs
<1>7. ASSUME NEW f \in DExecutor \ {e} PROVE ReadsOf(f)'
  BY OthersRead DEF OnlyMoves
<1>8. LoggedReads'
  BY LogStays DEF Tells
<1>9. ASSUME NEW j \in DInstance, NEW t \in told'[j] PROVE ToldOK(j, t)'
  <2>1. CASE t \in told[j]
    <3>1. OpOf(<<j, t[1]>>) = "read" => \A u \in told'[j] \ told[j] : u[1] = t[1] => u = t
      BY <1>4, <1>5
    <3> QED BY <2>1, <3>1, ToldStays DEF Tells
  <2>2. CASE t \notin told[j]
    <3>1. j = i /\ t[1] = s
      BY <1>4, <2>2
    <3> QED BY <1>5, <3>1 DEF ToldOK, OpOf
  <2> QED BY <2>1, <2>2
<1> QED BY <1>6, <1>7, <1>8, <1>9 DEF ReadsInv

\* The first result is kept, and told again.
LEMMA PutReads ==
  ASSUME DaalTypeOK, Shape, ReadsInv, ReadsStay, NEW e \in DExecutor, PutRead(e), OnlyMoves(e),
         UNCHANGED <<dScenario, dRetired>>
  PROVE  ReadsInv'
<1>1. e \in DOMAIN DInstanceOf /\ DInstanceOf[e] \in DInstance /\ DInstanceOf[e] \notin dRetired
      /\ dPc[e] = "put" /\ DOp(e) = "read"
  <2>1. dPc[e] = "put" /\ DOp(e) = "read" /\ Live(e)
    BY DEF PutRead, At, Live
  <2> QED BY <2>1, OnWalk
<1>2. PICK i \in DInstance, s \in Nat, y \in Nat : i = DInstanceOf[e] /\ s = dStep[e] /\ y = dVal[e]
  BY <1>1 DEF DaalTypeOK
<1>3. PICK x : x = FirstResult(e)
  OBVIOUS
<1>4. x = IF s \in DOMAIN readLog[i] THEN readLog[i][s] ELSE y
  BY <1>2, <1>3 DEF FirstResult
<1>5. Over(e, x)
  BY <1>3 DEF PutRead
<1>6. /\ readLog' = [readLog EXCEPT ![i] = [w \in DOMAIN readLog[i] \cup {s} |-> IF w = s THEN x ELSE readLog[i][w]]]
      /\ readLog = [j \in DInstance |-> readLog[j]]
  BY <1>2, <1>3 DEF PutRead, DaalTypeOK
<1>7. /\ dPc'[e] = "run" /\ dStep'[e] = s + 1
      /\ told'[i] = told[i] \cup {<<s, x>>} /\ \A j \in DInstance \ {i} : told'[j] = told[j]
  BY <1>2, <1>5 DEF Over, GoTo, DaalTypeOK
<1>8. /\ DOMAIN readLog'[i] = DOMAIN readLog[i] \cup {s} /\ readLog'[i][s] = x
      /\ \A w \in DOMAIN readLog[i] : readLog'[i][w] = readLog[i][w]
      /\ \A j \in DInstance \ {i} : readLog'[j] = readLog[j]
  BY <1>4, <1>6
<1>9. ReadOK(i, s, x)
  <2>1. ReadOK(i, s, y)
    BY <1>1, <1>2 DEF ReadsInv, ReadsOf
  <2> QED BY <1>4, <2>1 DEF ReadsInv, LoggedReads
<1>10. ReadOK(i, s, x)'
  BY <1>9 DEF ReadsStay
<1>11. ReadsOf(e)'
  <2>1. OpOf(<<i, s>>) # "write"
    BY <1>1, <1>2, OpOfCid
  <2>2. Happened(i, s + 1)'
    <3> SUFFICES ASSUME NEW w \in Nat, w < s + 1, OpOf(<<i, w>>)' = "write" PROVE Took(<<i, w>>)'
      BY DEF Happened
    <3>1. w < s
      BY <2>1 DEF OpOf
    <3> QED BY <1>10, <3>1 DEF ReadOK, Happened
  <2>3. PICK z, s1 : z = dVal'[e] /\ s1 = s + 1 /\ i = DInstanceOf'[e]
    BY <1>2 DEF DInstanceOf
  <2>4. Happened(i, s1)'
    BY <2>2, <2>3 DEF Happened
  <2> QED BY <1>7, <2>3, <2>4, ReadsOfIs
<1>12. ASSUME NEW f \in DExecutor \ {e} PROVE ReadsOf(f)'
  BY OthersRead DEF OnlyMoves
<1>13. LoggedReads'
  <2> SUFFICES ASSUME NEW j \in DInstance, NEW w \in DOMAIN readLog'[j] PROVE ReadOK(j, w, readLog[j][w])'
    BY DEF LoggedReads
  <2>1. PICK z : z = readLog'[j][w]
    OBVIOUS
  <2>2. ReadOK(j, w, z)'
    <3>1. CASE j = i /\ w = s
      BY <1>8, <1>10, <2>1, <3>1
    <3>2. CASE ~ (j = i /\ w = s)
      <4>1. w \in DOMAIN readLog[j] /\ z = readLog[j][w]
        BY <1>8, <2>1, <3>2
      <4>2. ReadOK(j, w, z)
        BY <4>1 DEF ReadsInv, LoggedReads
      <4> QED BY <4>2 DEF ReadsStay
    <3> QED BY <3>1, <3>2
  <2> QED BY <2>1, <2>2 DEF ReadOK, NotOlder, Happened
<1>14. ASSUME NEW t \in told[i], t[1] = s PROVE t = <<s, x>>
  <2>1. t \in Nat \X Nat /\ t = <<t[1], t[2]>>
    BY DEF DaalTypeOK
  <2>2. OpOf(<<i, t[1]>>) = "read" /\ ToldOK(i, t)
    BY <1>1, <1>2, <1>14, OpOfCid DEF ReadsInv
  <2>3. t[1] \in DOMAIN readLog[i] /\ readLog[i][t[1]] = t[2]
    BY <1>1, <1>2, <2>2 DEF ToldOK
  <2> QED BY <1>4, <1>14, <2>1, <2>3
<1>15. ASSUME NEW j \in DInstance, NEW t \in told'[j] PROVE ToldOK(j, t)'
  <2>1. CASE t \in told[j]
    <3>1. \A u \in told'[j] \ told[j] : u[1] = t[1] => u = t
      BY <1>7, <1>14, <2>1
    <3>2. \A w \in DOMAIN readLog[j] : w \in DOMAIN readLog'[j] /\ readLog'[j][w] = readLog[j][w]
      BY <1>8
    <3> QED BY <2>1, <3>1, <3>2, ToldStays
  <2>2. CASE t \notin told[j]
    <3>1. j = i /\ t = <<s, x>> /\ t[1] = s /\ t[2] = x
      BY <1>7, <2>2
    <3>2. \A u \in told'[i] : u[1] = s => u = t
      BY <1>7, <1>14, <3>1
    <3> QED BY <1>8, <1>10, <3>1, <3>2 DEF ToldOK
  <2> QED BY <2>1, <2>2
<1> QED BY <1>11, <1>12, <1>13, <1>15 DEF ReadsInv

\* Nothing is told.
LEMMA QuietReads ==
  ASSUME ReadsInv, ReadsStay, dRetired \subseteq dRetired', UNCHANGED <<dScenario, told, readLog>>,
         \A f \in DExecutor : ReadsOf(f)'
  PROVE  ReadsInv'
<1>1. ASSUME NEW i \in DInstance, NEW t \in told'[i] PROVE ToldOK(i, t)'
  BY ToldStays
<1> QED BY <1>1, LogStays DEF ReadsInv

\* The last row is read, or there is none.
LEMMA GetReads ==
  ASSUME DaalTypeOK, Shape, LogsInv, ValuesOK, ReadsInv, ReadsStay, NEW e \in DExecutor, GetRow(e), OnlyMoves(e),
         UNCHANGED <<dScenario, dRetired>>
  PROVE  ReadsInv'
<1>1. /\ dPc[e] = "get" /\ Live(e) /\ UNCHANGED <<rows, readLog, dStep, effects, forgotten, told>>
  BY DEF GetRow, At, Live, dHistory
<1>2. PICK i, s, x : i = DInstanceOf[e] /\ s = dStep[e] /\ x = dVal'[e] /\ i = DInstanceOf'[e] /\ s = dStep'[e]
  BY <1>1 DEF DInstanceOf
<1>3. Happened(i, s) /\ dPc'[e] \in {"get", "put"}
  BY <1>1, <1>2 DEF ReadsInv, ReadsOf, GetRow, GoTo, DaalTypeOK
<1>4. ASSUME dPc'[e] = "put" PROVE ReadOK(i, s, x)
  <2>1. x = ValueOf(dRow[e]) /\ ~ (dRow[e] \in DOMAIN rows /\ rows[dRow[e]].next # NoRow)
    BY <1>1, <1>2, <1>4 DEF GetRow, DaalTypeOK
  <2>2. CASE HEAD \in DOMAIN rows
    <3>1. dRow[e] \in DOMAIN rows /\ LastOf(rows, dRow[e])
      BY <1>1, <2>1, <2>2, OnWalk
    <3> QED BY <1>3, <2>1, <3>1 DEF ReadOK, NotOlder, ValuesOK, ValueOf
  <2>3. CASE HEAD \notin DOMAIN rows
    <3>1. DOMAIN effects = {}
      BY <2>3 DEF LogsInv, EffectsOK
    <3> QED BY <1>3, <3>1 DEF ReadOK, NotOlder
  <2> QED BY <2>2, <2>3
<1>5. ReadsOf(e)'
  <2>1. Happened(i, s)' /\ (dPc'[e] = "put" => ReadOK(i, s, x)')
    BY <1>3, <1>4 DEF ReadsStay
  <2> QED BY <1>2, <1>3, <2>1, ReadsOfIs
<1>6. ASSUME NEW f \in DExecutor \ {e} PROVE ReadsOf(f)'
  BY OthersRead DEF OnlyMoves
<1> QED BY <1>1, <1>5, <1>6, QuietReads

\* An execution goes on, dies or is done.
LEMMA GoesOnReads ==
  ASSUME ReadsInv, ReadsStay, NEW e \in DExecutor, GoesOn(e), OnlyMoves(e), UNCHANGED <<dScenario, dRetired>>
  PROVE  ReadsInv'
<1>1. PICK i, s, x : i = DInstanceOf'[e] /\ s = dStep'[e] /\ x = dVal'[e] /\ i = DInstanceOf[e]
  BY DEF DInstanceOf
<1>2. ReadsOf(e)'
  <2>1. CASE dPc'[e] = "idle"
    BY <1>1, <2>1, ReadsOfIs DEF GoesOn
  <2>2. CASE dPc'[e] # "idle"
    <3>1. s = dStep[e] /\ dPc'[e] # "put" /\ (dPc[e] = "done" => dPc'[e] = "done")
      BY <1>1, <2>2 DEF GoesOn
    <3>2. CASE dPc[e] \notin {"idle", "done"}
      <4>1. Happened(i, s)'
        BY <1>1, <3>1, <3>2 DEF ReadsInv, ReadsOf, ReadsStay
      <4> QED BY <1>1, <2>2, <3>1, <4>1, ReadsOfIs
    <3>3. CASE dPc[e] = "idle"
      <4>1. s = 0
        BY <3>1, <3>3 DEF ReadsInv, ReadsOf
      <4>2. Happened(i, s)'
        BY <4>1 DEF Happened
      <4> QED BY <1>1, <2>2, <3>1, <4>2, ReadsOfIs
    <3>4. CASE dPc[e] = "done"
      BY <1>1, <2>2, <3>1, <3>4, ReadsOfIs
    <3> QED BY <3>2, <3>3, <3>4
  <2> QED BY <2>1, <2>2
<1>3. ASSUME NEW f \in DExecutor \ {e} PROVE ReadsOf(f)'
  BY OthersRead DEF OnlyMoves
<1> QED BY <1>2, <1>3, QuietReads DEF GoesOn

\* These are all steps.
LEMMA StepReads ==
  ASSUME DaalTypeOK, Shape, LogsInv, ValuesOK, ReadsInv, NEW e \in DExecutor, DaalStep(e) \/ DDie(e)
  PROVE  ReadsInv'
<1>1. OnlyMoves(e) /\ UNCHANGED <<dScenario, dRetired>>
  BY Moving, StepHistory
<1>2. ReadsStay
  <2> SUFFICES ASSUME NEW i, NEW s
               PROVE  (Happened(i, s) => Happened(i, s)') /\ \A x : ReadOK(i, s, x) => ReadOK(i, s, x)'
    BY DEF ReadsStay
  <2> QED BY StepHistory, ReadStays
<1> QED BY <1>1, <1>2, Telling, PutReads, GetReads, TellsReads, GoesOnReads

LEMMA CollectReads ==
  ASSUME DaalTypeOK, Shape, ReadsInv, Collect \/ CollectorDies
  PROVE  ReadsInv'
<1>1. UNCHANGED <<dScenario, effects, dEnv, told>> /\ forgotten \subseteq forgotten' /\ dRetired \subseteq dRetired'
  BY CollectRows
<1>2. ReadsStay
  <2> SUFFICES ASSUME NEW i, NEW s
               PROVE  (Happened(i, s) => Happened(i, s)') /\ \A x : ReadOK(i, s, x) => ReadOK(i, s, x)'
    BY DEF ReadsStay
  <2> QED BY <1>1, ReadStays
<1>3. \A f \in DExecutor : ReadsOf(f)'
  BY <1>1, <1>2, OthersRead DEF dEnv
<1>4. CASE ClearIntent
  <2>1. /\ \A i \in DInstance : readLog'[i] = IF i \in dRetired THEN [s \in {} |-> 0] ELSE readLog[i]
        /\ dRetired' = dRetired
    BY <1>4 DEF ClearIntent
  <2>2. LoggedReads'
    <3> SUFFICES ASSUME NEW j \in DInstance, NEW w \in DOMAIN readLog'[j] PROVE ReadOK(j, w, readLog[j][w])'
      BY DEF LoggedReads
    <3>1. w \in DOMAIN readLog[j] /\ readLog'[j][w] = readLog[j][w]
      BY <2>1
    <3>2. PICK x : x = readLog[j][w]
      OBVIOUS
    <3>3. ReadOK(j, w, x)'
      BY <1>2, <3>1, <3>2 DEF ReadsStay, ReadsInv, LoggedReads
    <3> QED BY <3>1, <3>2, <3>3 DEF ReadOK, NotOlder, Happened
  <2>3. ASSUME NEW i \in DInstance, NEW t \in told'[i] PROVE ToldOK(i, t)'
    BY <1>1, <1>2, <2>1, ToldStays
  <2> QED BY <1>3, <2>2, <2>3 DEF ReadsInv
<1>5. CASE ~ ClearIntent
  <2>1. readLog' = readLog
    BY <1>5 DEF Collect, CollectorDies, ScanIntent, ClearRowDAAL, QueryHeads, ClearRow, StampRow, ClearDangling
  <2> QED BY <1>1, <1>2, <1>3, <2>1, QuietReads
<1> QED BY <1>4, <1>5

-----------------------------------------------------------------------------
(***************************************************************************)
(* The inductive invariant, and what follows from it.                      *)
(***************************************************************************)
DaalInv == DaalTypeOK /\ Shape /\ LogsInv /\ GrantsOK /\ ValuesOK /\ ReadsInv

LEMMA DaalInvInit == DaalInit => DaalInv
BY DaalTypeInit, ShapeInit, LogsInit, ReadsInit DEF DaalInv

LEMMA DaalInvStays ==
  ASSUME DaalInv, UNCHANGED dVars PROVE DaalInv'
<1> USE DEF dVars, LogSize, DInstanceOf
<1>1. DaalTypeOK'
  BY DEF DaalInv, DaalTypeOK, RowsOK
<1>2. Shape'
  <2>1. ListOK(rows') /\ LinkedOK' /\ CollectorOK'
    BY DEF DaalInv, Shape, LinkedOK, CollectorOK
  <2>2. \A e \in DExecutor : ActiveOK(e)' /\ WalkOK(e)' /\ HoldsOK(e)'
    BY DEF DaalInv, Shape, ActiveOK, WalkOK, HoldsOK, Live, Holding, Fresh
  <2> QED BY <2>1, <2>2 DEF Shape
<1>3. LogsInv'
  BY SameRowsLogs DEF DaalInv, dEnv
<1>4. GrantsOK' /\ ValuesOK'
  BY DEF DaalInv, GrantsOK, ValuesOK, CopyOK, LastOf, IsValue
<1>5. ReadsInv'
  <2>1. ReadsStay
    BY DEF ReadsStay, Happened, ReadOK, NotOlder, Took, OpOf, IsValue
  <2>2. \A f \in DExecutor : ReadsOf(f)'
    BY <2>1, OthersRead DEF DaalInv
  <2> QED BY <2>1, <2>2, QuietReads DEF DaalInv
<1> QED BY <1>1, <1>2, <1>3, <1>4, <1>5 DEF DaalInv

LEMMA DaalInvStep ==
  ASSUME DaalInv, [DaalNext]_dVars PROVE DaalInv'
<1>1. ASSUME NEW e \in DExecutor, DaalStep(e) \/ DDie(e) PROVE DaalInv'
  BY <1>1, StepType, StepShape, StepLogs, StepGrants, StepValues, StepReads DEF DaalInv
<1>2. ASSUME Collect \/ CollectorDies PROVE DaalInv'
  BY <1>2, CollectType, CollectShape, CollectLogs, CollectGrants, CollectValues, CollectReads DEF DaalInv
<1> QED BY <1>1, <1>2, DaalInvStays DEF DaalNext

(***************************************************************************)
(* The types of all variables, the shape of the list, and what its rows    *)
(* and the history say of each other, whatever executions and the          *)
(* collector do.                                                           *)
(***************************************************************************)
THEOREM DaalInvHolds == DaalSpec => []DaalInv
<1>1. DaalInv /\ [DaalNext]_dVars => DaalInv'
  BY DaalInvStep
<1> QED BY <1>1, DaalInvInit, PTL DEF DaalSpec

(***************************************************************************)
(* UpdateRow, InsertOrGetNewRow and ClearRow: a write takes effect once,   *)
(* however often it is executed and whatever rows come and go, unless the  *)
(* collector took its row for empty because of refusals that it counted.   *)
(***************************************************************************)
THEOREM DaalWritesOnce == DaalSpec => []DaalOnce
<1>1. DaalInv => DaalOnce
  BY DEF DaalInv, LogsInv
<1> QED BY <1>1, DaalInvHolds, PTL

(***************************************************************************)
(* EOSCondWrite under Lock and Unlock: two instances that were told that   *)
(* they hold the lock were told so by different rows.                      *)
(***************************************************************************)
THEOREM DaalHasOneHolder == DaalSpec => []DaalExclusion
<1>1. DaalInv => DaalExclusion
  BY GrantsExclude DEF DaalInv
<1> QED BY <1>1, DaalInvHolds, PTL

(***************************************************************************)
(* CreateRow, SwapRow and ClearRow lose no value: the last row has that of *)
(* the last write.  EOSRead: an instance reads its own writes, and a read  *)
(* that is executed again, after a crash or at once, has the same result.  *)
(***************************************************************************)
THEOREM DaalValueKept == DaalSpec => []DaalKeepsValue
<1>1. DaalInv => DaalKeepsValue
  BY ReadsKeepValue DEF DaalInv
<1> QED BY <1>1, DaalInvHolds, PTL
=============================================================================
