------------------------- MODULE OnlineHistoryProofs -------------------------
(* Theorems about OnlineHistory and their proofs. Where a failed close may   *)
(* wait when the dashboard stops, sessions do overlap, so that is excluded.  *)
EXTENDS OnlineHistory, TLAPS

Histories == [rows : HistoryRows, open : Sessions, closing : SUBSET [id : RowIDs, end : Time]]
Present(db, i) == db[i].state # "none"

(* The rows of a table, as of t, follow one another in time. *)
Table(db, t) ==
    /\ \E size \in 0 .. MaxRows : \A i \in RowIDs : Present(db, i) <=> i <= size
    /\ \A i \in RowIDs : Present(db, i) => /\ db[i].start <= db[i].last /\ db[i].last <= t
                                           /\ db[i].state = "ended" => db[i].end <= t
    /\ \A i, j \in RowIDs : i < j /\ Present(db, j) => /\ db[i].last <= db[j].start
                                                       /\ db[i].state = "ended" => db[i].end <= db[j].start

(* A failed close is that of one ongoing row, and ends before the next.      *)
Failed(R, t) ==
    /\ \A c \in R.closing : /\ R.rows[c.id].state = "ongoing" /\ c.end <= t
                            /\ \A j \in RowIDs : c.id < j /\ Present(R.rows, j) => c.end <= R.rows[j].start
    /\ \A c, d \in R.closing : c.id = d.id => c = d

(* The recorder's session is the last row; every ongoing row is that, or     *)
(* waits to be closed.                                                       *)
Opened(R, t) ==
    R.open.id # 0 => /\ R.rows[R.open.id].state = "ongoing" /\ R.rows[R.open.id].last = R.open.persist
                     /\ R.open.persist <= R.open.observed /\ R.open.observed <= t
                     /\ \A j \in RowIDs : R.open.id < j => ~Present(R.rows, j)
Owned(R) == /\ \A i \in Ongoing(R.rows) : i = R.open.id \/ \E c \in R.closing : c.id = i
            /\ \A c \in R.closing : c.id # R.open.id

(* No row covers one of the moments off.                                     *)
Clear(R, off) == \A i \in RowIDs, s \in off : Present(R.rows, i) =>
    \/ s < R.rows[i].start
    \/ R.rows[i].state = "ended" /\ R.rows[i].end <= s
    \/ \E c \in R.closing : c.id = i /\ c.end <= s
Before(off, t) == \A s \in off : s \in Time /\ s < t

Sound(R, t, off) ==
    R \in Histories /\ Table(R.rows, t) /\ Failed(R, t) /\ Opened(R, t) /\ Owned(R) /\ Clear(R, off) /\ Before(off, t)

(* Of a history that has not been read at most the last row is ongoing, and  *)
(* it has not been touched since the first disconnect that was seen.         *)
Unread(db, t, seen, off) ==
    /\ db \in HistoryRows /\ Table(db, t) /\ Before(off, t) /\ seen \in 0 .. Never /\ (seen # Never => seen <= t)
    /\ \A i \in Ongoing(db) : /\ \A j \in RowIDs : i < j => ~Present(db, j)
                              /\ seen # Never => db[i].last <= seen
    /\ \A i \in RowIDs, s \in off : Present(db, i) =>
          \/ s < db[i].start
          \/ db[i].state = "ended" /\ db[i].end <= s
          \/ db[i].state = "ongoing" /\ seen # Never /\ seen <= s

HistInv ==
    /\ HistoryTypeOK
    /\ (lastActive # Never => lastActive <= now) /\ (observed # Never => observed <= now)
    /\ restored => Sound(Recorded, now, offline) /\ (down => open.id = 0)
    /\ ~restored => /\ open = NoSession /\ closing = {} /\ Unread(rows, now, recovery, offline)
                    /\ down => recovery # Never

-----------------------------------------------------------------------------
(* What the operations of the recorder preserve. *)

LEMMA HNumbers == /\ Window \in Nat /\ MaxTime \in Nat /\ MaxRows \in Nat /\ Never = MaxTime + 1 /\ Never \in Nat
                  /\ Never \notin Time /\ Time \subseteq 0 .. Never /\ \A t \in Time : t \in Nat /\ t < Never
                  /\ \A t \in 0 .. Never : t # Never => t \in Time
                  /\ 0 \in Time /\ 0 \notin RowIDs /\ \A i \in RowIDs : i \in Nat
  BY HistoryAssumption DEF Never, Time, RowIDs

LEMMA RowFields ==
  ASSUME NEW db \in HistoryRows
  PROVE  \A i \in RowIDs : /\ db[i].start \in Time /\ db[i].last \in Time /\ db[i].end \in 0 .. Never
                           /\ db[i].start \in Nat /\ db[i].last \in Nat /\ db[i].end \in Nat
                           /\ db[i].state \in {"none", "ongoing", "ended"}
  BY HNumbers DEF HistoryRows

LEMMA Laters ==
  ASSUME NEW s \in Time, NEW t \in Time
  PROVE  Later(s, t) \in Time /\ s <= Later(s, t) /\ t <= Later(s, t) /\ (Later(s, t) = s \/ Later(s, t) = t)
  BY HNumbers DEF Later

Closes == [id : RowIDs, end : Time]
LEMMA ClosedRows ==
  ASSUME NEW db \in HistoryRows, NEW W \in SUBSET Closes, \A c, d \in W : c.id = d.id => c = d
  PROVE  /\ CloseRows(db, W) \in HistoryRows
         /\ \A i \in RowIDs : (\A c \in W : c.id # i) => CloseRows(db, W)[i] = db[i]
         /\ \A c \in W : /\ CloseRows(db, W)[c.id].state = "ended" /\ CloseRows(db, W)[c.id].end = c.end
                         /\ CloseRows(db, W)[c.id].start = db[c.id].start /\ CloseRows(db, W)[c.id].last = db[c.id].last
  <1> DEFINE row(i, e) == [db[i] EXCEPT !.state = "ended", !.end = e]
             pick(i) == CHOOSE c \in W : c.id = i
  <1>1. \A i \in RowIDs, e \in Time :
           /\ row(i, e) \in [state : {"none", "ongoing", "ended"}, start : Time, last : Time, end : 0 .. Never]
           /\ row(i, e).state = "ended" /\ row(i, e).end = e
           /\ row(i, e).start = db[i].start /\ row(i, e).last = db[i].last
    BY HNumbers DEF HistoryRows
  <1>2. \A c \in W : c.id \in RowIDs /\ c.end \in Time /\ pick(c.id) = c
    BY DEF Closes
  <1>3. CloseRows(db, W) = [i \in RowIDs |-> IF \E c \in W : c.id = i THEN row(i, pick(i).end) ELSE db[i]]
    BY DEF CloseRows
  <1> HIDE DEF row, pick
  <1>4. CloseRows(db, W) \in HistoryRows
    <2>1. \A i \in RowIDs : (\E c \in W : c.id = i) => pick(i).end \in Time
      BY <1>2
    <2> QED BY <1>1, <1>3, <2>1 DEF HistoryRows
  <1>5. \A i \in RowIDs : (\A c \in W : c.id # i) => CloseRows(db, W)[i] = db[i]
    BY <1>3
  <1>6. ASSUME NEW c \in W PROVE CloseRows(db, W)[c.id] = row(c.id, c.end)
    BY <1>2, <1>3
  <1> QED BY <1>1, <1>2, <1>4, <1>5, <1>6

(* Closing some ongoing rows, at an end no later than what follows them,     *)
(* keeps the table in order and covers no moment it did not cover.           *)
LEMMA TableClosed ==
  ASSUME NEW db \in HistoryRows, NEW t \in Time, Table(db, t), NEW W \in SUBSET Closes, \A c, d \in W : c.id = d.id => c = d,
         \A c \in W : /\ db[c.id].state = "ongoing" /\ c.end <= t
                      /\ \A j \in RowIDs : c.id < j /\ Present(db, j) => c.end <= db[j].start
  PROVE  /\ Table(CloseRows(db, W), t)
         /\ \A i \in RowIDs : Present(CloseRows(db, W), i) <=> Present(db, i)
         /\ \A i \in RowIDs : CloseRows(db, W)[i].start = db[i].start /\ CloseRows(db, W)[i].last = db[i].last
  <1> DEFINE new == CloseRows(db, W)
  <1>1. \A i \in RowIDs : /\ new[i].start = db[i].start /\ new[i].last = db[i].last /\ (Present(new, i) <=> Present(db, i))
                          /\ \/ new[i] = db[i]
                             \/ new[i].state = "ended" /\ \E c \in W : c.id = i /\ new[i].end = c.end
    BY ClosedRows DEF Present
  <1> HIDE DEF new
  <1>2. \A c \in W : c.id \in RowIDs
    BY DEF Closes
  <1>3. \E n \in 0 .. MaxRows : \A i \in RowIDs : Present(new, i) <=> i <= n
    BY <1>1 DEF Table
  <1>4. \A i \in RowIDs : Present(new, i) => /\ new[i].start <= new[i].last /\ new[i].last <= t
                                             /\ new[i].state = "ended" => new[i].end <= t
    BY <1>1 DEF Table
  <1>5. \A i, j \in RowIDs : i < j /\ Present(new, j) => /\ new[i].last <= new[j].start
                                                         /\ new[i].state = "ended" => new[i].end <= new[j].start
    BY <1>1, <1>2 DEF Table
  <1>6. Table(new, t)
    BY <1>3, <1>4, <1>5 DEF Table
  <1> QED BY <1>1, <1>6 DEF new

(* The closes C are tried: those that succeed end their rows, the others     *)
(* wait with the ones R had.                                                 *)
LEMMA ClosesTried ==
  ASSUME NEW R \in Histories, NEW t \in Time, Table(R.rows, t), NEW C \in SUBSET Closes, NEW T \in CloseAll(R, C),
         \A c, d \in R.closing \cup C : c.id = d.id => c = d,
         \A c \in R.closing \cup C : /\ R.rows[c.id].state = "ongoing" /\ c.end <= t
                                     /\ \A j \in RowIDs : c.id < j /\ Present(R.rows, j) => c.end <= R.rows[j].start
  PROVE  /\ T \in Histories /\ Table(T.rows, t) /\ Failed(T, t) /\ T.open = R.open
         /\ T = [rows |-> T.rows, open |-> T.open, closing |-> T.closing]
         /\ \A i \in RowIDs : /\ Present(T.rows, i) <=> Present(R.rows, i)
                              /\ T.rows[i].start = R.rows[i].start /\ T.rows[i].last = R.rows[i].last
                              /\ (\A c \in C : c.id # i) \/ T.rows[i].state # "ended" => T.rows[i] = R.rows[i]
         /\ \A c \in R.closing \cup C : c \in T.closing \/ (T.rows[c.id].state = "ended" /\ T.rows[c.id].end = c.end)
         /\ T.closing \subseteq R.closing \cup C
  <1>1. PICK W \in Written(C) : T = [R EXCEPT !.rows = CloseRows(@, W), !.closing = (@ \cup C) \ W]
    BY DEF CloseAll
  <1>2. W \in SUBSET C /\ W \in SUBSET Closes
    BY DEF Written
  <1>3. T.rows = CloseRows(R.rows, W) /\ T.closing = (R.closing \cup C) \ W /\ T.open = R.open
    BY <1>1 DEF Histories
  <1>4. T = [rows |-> T.rows, open |-> T.open, closing |-> T.closing]
    BY <1>1 DEF Histories
  <1>5. R.rows \in HistoryRows /\ R.closing \in SUBSET Closes /\ R.open \in Sessions
    BY DEF Histories, Closes
  <1>6. \A c \in Closes : c.id \in RowIDs
    BY DEF Closes
  <1>7. /\ CloseRows(R.rows, W) \in HistoryRows
        /\ \A i \in RowIDs : (\A c \in W : c.id # i) => CloseRows(R.rows, W)[i] = R.rows[i]
        /\ \A c \in W : CloseRows(R.rows, W)[c.id].state = "ended" /\ CloseRows(R.rows, W)[c.id].end = c.end
    BY <1>2, <1>5, ClosedRows
  <1>8. /\ Table(CloseRows(R.rows, W), t)
        /\ \A i \in RowIDs : /\ Present(CloseRows(R.rows, W), i) <=> Present(R.rows, i)
                             /\ CloseRows(R.rows, W)[i].start = R.rows[i].start
                             /\ CloseRows(R.rows, W)[i].last = R.rows[i].last
    BY <1>2, <1>5, TableClosed
  <1>9. T \in Histories
    <2>1. T.closing \in SUBSET Closes
      BY <1>2, <1>3, <1>5
    <2> QED BY <1>3, <1>4, <1>5, <1>7, <2>1 DEF Histories, Closes
  <1>10. \A i \in RowIDs : (\A c \in C : c.id # i) \/ T.rows[i].state # "ended" => T.rows[i] = R.rows[i]
    BY <1>2, <1>3, <1>7
  <1>11. \A c \in R.closing \cup C : c \in T.closing \/ (T.rows[c.id].state = "ended" /\ T.rows[c.id].end = c.end)
    BY <1>3, <1>7
  <1>12. \A c \in T.closing : T.rows[c.id] = R.rows[c.id]
    BY <1>2, <1>3, <1>5, <1>6, <1>7
  <1>13. Failed(T, t)
    BY <1>3, <1>8, <1>12 DEF Failed
  <1> QED BY <1>3, <1>4, <1>8, <1>9, <1>10, <1>11, <1>13

LEMMA FlushSound ==
  ASSUME NEW R, NEW t \in Time, NEW off, Sound(R, t, off), NEW T \in FlushClosing(R)
  PROVE  Sound(T, t, off) /\ T.open = R.open /\ (\A i \in RowIDs : Present(T.rows, i) <=> Present(R.rows, i))
  <1> DEFINE C == R.closing
  <1>1. R \in Histories /\ C \in SUBSET Closes /\ T \in CloseAll(R, C) /\ C = R.closing /\ R.closing \cup C = R.closing
    BY DEF Sound, Histories, Closes, FlushClosing
  <1>2. /\ \A c, d \in R.closing \cup C : c.id = d.id => c = d
        /\ \A c \in R.closing \cup C : /\ R.rows[c.id].state = "ongoing" /\ c.end <= t
                                       /\ \A j \in RowIDs : c.id < j /\ Present(R.rows, j) => c.end <= R.rows[j].start
    BY <1>1 DEF Sound, Failed
  <1>3. /\ T \in Histories /\ Table(T.rows, t) /\ Failed(T, t) /\ T.open = R.open
        /\ \A i \in RowIDs : /\ Present(T.rows, i) <=> Present(R.rows, i)
                             /\ T.rows[i].start = R.rows[i].start /\ T.rows[i].last = R.rows[i].last
                             /\ (\A c \in C : c.id # i) \/ T.rows[i].state # "ended" => T.rows[i] = R.rows[i]
        /\ \A c \in R.closing : c \in T.closing \/ (T.rows[c.id].state = "ended" /\ T.rows[c.id].end = c.end)
        /\ T.closing \subseteq R.closing
    <2> HIDE DEF C
    <2> QED BY <1>1, <1>2, ClosesTried DEF Sound
  <1> HIDE DEF C
  <1>4. R.open.id \in RowIDs \cup {0} /\ \A c \in R.closing : c.id \in RowIDs
    BY <1>1 DEF Histories, Sessions
  <1>5. Opened(T, t)
    BY <1>1, <1>3, <1>4, HNumbers DEF Sound, Opened, Owned
  <1>6. Owned(T)
    BY <1>3 DEF Sound, Owned, Ongoing
  <1>7. Clear(T, off)
    <2>1. ASSUME NEW i \in RowIDs, R.rows[i].state = "ended" PROVE T.rows[i] = R.rows[i]
      BY <1>1, <1>2, <1>3, <2>1
    <2> QED BY <1>1, <1>3, <2>1 DEF Sound, Clear
  <1> QED BY <1>3, <1>5, <1>6, <1>7 DEF Sound

LEMMA OfflineSound ==
  ASSUME NEW R, NEW t \in Time, NEW off, Sound(R, t, off), NEW at \in Time, at <= t, NEW T \in RecordOfflineLocked(R, at)
  PROVE  Sound(T, t, off) /\ T.open.id = 0 /\ (\A i \in RowIDs : Present(T.rows, i) <=> Present(R.rows, i))
  <1>1. CASE R.open.id = 0
    BY <1>1 DEF RecordOfflineLocked
  <1>2. CASE R.open.id # 0
    <2> DEFINE o == R.open.id
               c0 == [id |-> o, end |-> Later(at, R.open.persist)]
               C == {c0}
    <2>1. PICK U \in CloseAll(R, C) : T = [U EXCEPT !.open = NoSession]
      BY <1>2 DEF RecordOfflineLocked
    <2>2. /\ R \in Histories /\ o \in RowIDs /\ R.open.persist \in Nat /\ R.open.observed \in Nat
          /\ R.closing \in SUBSET Closes
      BY <1>2, HNumbers DEF Sound, Histories, Sessions, Closes
    <2>3. R.open.persist <= t /\ R.open.persist \in Time
      <3>1. R.open.persist <= R.open.observed /\ R.open.observed <= t /\ R.open.persist \in 0 .. Never
        BY <1>2 DEF Sound, Opened, Histories, Sessions
      <3> QED BY <2>2, <3>1, HNumbers
    <2>4. c0.id = o /\ c0.end = Later(at, R.open.persist) /\ c0 \in Closes /\ c0.end <= t
      BY <2>2, <2>3, Laters DEF Closes
    <2> HIDE DEF c0
    <2>5. C \in SUBSET Closes /\ \A c \in C : c = c0
      BY <2>4
    <2>6. \A c, d \in R.closing \cup C : c.id = d.id => c = d
      BY <2>4 DEF Sound, Failed, Owned
    <2>7. \A c \in R.closing \cup C : /\ R.rows[c.id].state = "ongoing" /\ c.end <= t
                                      /\ \A j \in RowIDs : c.id < j /\ Present(R.rows, j) => c.end <= R.rows[j].start
      BY <1>2, <2>4 DEF Sound, Failed, Opened
    <2> HIDE DEF C
    <2>8. /\ U \in Histories /\ Table(U.rows, t) /\ Failed(U, t) /\ U.open = R.open
          /\ U = [rows |-> U.rows, open |-> U.open, closing |-> U.closing]
          /\ \A i \in RowIDs : /\ Present(U.rows, i) <=> Present(R.rows, i)
                               /\ U.rows[i].start = R.rows[i].start /\ U.rows[i].last = R.rows[i].last
                               /\ (\A c \in C : c.id # i) \/ U.rows[i].state # "ended" => U.rows[i] = R.rows[i]
          /\ \A c \in R.closing \cup C : c \in U.closing \/ (U.rows[c.id].state = "ended" /\ U.rows[c.id].end = c.end)
          /\ U.closing \subseteq R.closing \cup C
      BY <2>2, <2>5, <2>6, <2>7, ClosesTried DEF Sound
    <2>9. T = [rows |-> U.rows, open |-> NoSession, closing |-> U.closing] /\ NoSession.id = 0 /\ NoSession \in Sessions
      BY <2>1, <2>8, HNumbers DEF NoSession, Sessions
    <2>10. T \in Histories /\ T.rows = U.rows /\ T.closing = U.closing /\ T.open.id = 0
      BY <2>8, <2>9 DEF Histories
    <2>11. Table(T.rows, t) /\ Failed(T, t) /\ Opened(T, t)
      BY <2>8, <2>10 DEF Failed, Opened
    <2>12. c0 \in C
      BY DEF C
    <2>13. Owned(T)
      <3>1. ASSUME NEW i \in RowIDs, U.rows[i].state = "ongoing" PROVE \E c \in U.closing : c.id = i
        <4>1. R.rows[i].state = "ongoing"
          BY <2>8, <3>1
        <4>2. PICK c \in R.closing \cup C : c.id = i
          BY <2>4, <2>12, <4>1 DEF Sound, Owned, Ongoing
        <4> QED BY <2>8, <3>1, <4>2
      <3>2. \A c \in U.closing : c.id # 0
        BY <2>2, <2>5, <2>8, HNumbers DEF Closes
      <3> QED BY <2>10, <3>1, <3>2 DEF Owned, Ongoing
    <2>14. Clear(T, off)
      <3>1. ASSUME NEW i \in RowIDs, NEW s \in off, Present(R.rows, i), ~(s < R.rows[i].start)
            PROVE  \/ U.rows[i].state = "ended" /\ U.rows[i].end <= s
                   \/ \E c \in U.closing : c.id = i /\ c.end <= s
        <4>1. CASE R.rows[i].state = "ended" /\ R.rows[i].end <= s
          <5>1. \A c \in C : c.id # i
            BY <2>7, <4>1
          <5> QED BY <2>8, <4>1, <5>1
        <4>2. CASE \E c \in R.closing : c.id = i /\ c.end <= s
          BY <2>8, <4>2
        <4> QED BY <3>1, <4>1, <4>2 DEF Sound, Clear
      <3> QED BY <2>8, <2>10, <3>1 DEF Clear
    <2> QED BY <2>8, <2>10, <2>11, <2>13, <2>14 DEF Sound
  <1> QED BY <1>1, <1>2

(* A report at t goes on with the open session. *)
LEMMA ContinueSound ==
  ASSUME NEW R, NEW t \in Time, NEW off, Sound(R, t, off), R.open.id # 0, NEW T \in Continue(R, t)
  PROVE  Sound(T, t, off)
  <1> DEFINE o == R.open.id
             op1 == [R.open EXCEPT !.observed = t]
             op2 == [R.open EXCEPT !.observed = t, !.persist = t]
             db2 == [R.rows EXCEPT ![o].last = t]
             T1 == [rows |-> R.rows, open |-> op1, closing |-> R.closing]
             T2 == [rows |-> db2, open |-> op2, closing |-> R.closing]
  <1>1. R \in Histories /\ R.rows \in HistoryRows /\ o \in RowIDs /\ R.open \in Sessions /\ R.closing \in SUBSET Closes
    BY DEF Sound, Histories, Sessions, Closes
  <1>2. /\ op1 \in Sessions /\ op1.id = o /\ op1.observed = t /\ op1.persist = R.open.persist
        /\ op2 \in Sessions /\ op2.id = o /\ op2.observed = t /\ op2.persist = t
    BY <1>1, HNumbers DEF Sessions
  <1>3. /\ db2 \in HistoryRows /\ \A i \in RowIDs : i # o => db2[i] = R.rows[i]
        /\ db2[o].last = t /\ db2[o].start = R.rows[o].start /\ db2[o].state = R.rows[o].state
    BY <1>1 DEF HistoryRows
  <1>4. T = T1 \/ T = T2
    BY <1>1 DEF Continue, Histories, Sessions, HistoryRows
  <1>5. /\ T1 \in Histories /\ T1.rows = R.rows /\ T1.open = op1 /\ T1.closing = R.closing
        /\ T2 \in Histories /\ T2.rows = db2 /\ T2.open = op2 /\ T2.closing = R.closing
    BY <1>1, <1>2, <1>3 DEF Histories, Closes
  <1> HIDE DEF op1, op2, db2, T1, T2
  <1>6. /\ R.rows[o].state = "ongoing" /\ R.rows[o].last = R.open.persist /\ R.rows[o].last \in Nat /\ R.rows[o].start \in Nat
        /\ \A j \in RowIDs : o < j => ~Present(R.rows, j)
        /\ R.open.persist <= t /\ R.rows[o].start <= R.rows[o].last /\ t \in Nat
    <2>1. R.open.persist <= R.open.observed /\ R.open.observed <= t /\ R.open.persist \in Nat /\ R.open.observed \in Nat
      BY <1>1, HNumbers DEF Sound, Opened, Sessions
    <2>2. R.rows[o].last \in Nat /\ R.rows[o].start \in Nat
      BY <1>1, RowFields
    <2> QED BY <1>1, <2>1, <2>2, HNumbers DEF Sound, Opened, Table, Present
  <1>7. Sound(T1, t, off)
    <2>1. Opened(T1, t)
      BY <1>2, <1>5, <1>6 DEF Opened
    <2> QED BY <1>2, <1>5, <2>1 DEF Sound, Failed, Owned, Clear
  <1>8. Sound(T2, t, off)
    <2>1. \A i \in RowIDs : Present(db2, i) <=> Present(R.rows, i)
      BY <1>3 DEF Present
    <2>2. Table(db2, t)
      <3>1. \E n \in 0 .. MaxRows : \A i \in RowIDs : Present(db2, i) <=> i <= n
        BY <2>1 DEF Sound, Table
      <3>2. \A i \in RowIDs : Present(db2, i) => /\ db2[i].start <= db2[i].last /\ db2[i].last <= t
                                                 /\ db2[i].state = "ended" => db2[i].end <= t
        BY <1>3, <1>6, <2>1 DEF Sound, Table
      <3>3. \A i, j \in RowIDs : i < j /\ Present(db2, j) => /\ db2[i].last <= db2[j].start
                                                             /\ db2[i].state = "ended" => db2[i].end <= db2[j].start
        BY <1>3, <1>6, <2>1 DEF Sound, Table
      <3> QED BY <3>1, <3>2, <3>3 DEF Table
    <2>3. \A i \in RowIDs : db2[i].start = R.rows[i].start /\ db2[i].state = R.rows[i].state
      BY <1>3
    <2>4. \A c \in R.closing : c.id \in RowIDs
      BY <1>1 DEF Closes
    <2>5. Failed(T2, t)
      BY <1>5, <2>1, <2>3, <2>4 DEF Sound, Failed
    <2>6. Opened(T2, t)
      BY <1>2, <1>3, <1>5, <1>6, <2>1 DEF Opened
    <2>7. Owned(T2)
      BY <1>2, <1>5, <2>3 DEF Sound, Owned, Ongoing
    <2>8. Clear(T2, off)
      <3>1. \A i \in RowIDs : db2[i].state = "ended" => db2[i].end = R.rows[i].end
        BY <1>3, <1>6
      <3> QED BY <1>5, <2>1, <2>3, <3>1 DEF Sound, Clear
    <2> QED BY <1>5, <2>2, <2>5, <2>6, <2>7, <2>8 DEF Sound
  <1> QED BY <1>4, <1>7, <1>8

(* A report at t starts a session when none is open. *)
LEMMA BeginSound ==
  ASSUME NEW R, NEW t \in Time, NEW off, Sound(R, t, off), R.open.id = 0, \E i \in RowIDs : ~Present(R.rows, i),
         NEW T \in Begin(R, t)
  PROVE  Sound(T, t, off)
  <1> DEFINE First(i) == R.rows[i].state = "none" /\ \A j \in RowIDs : j < i => R.rows[j].state # "none"
             k == CHOOSE i \in RowIDs : First(i)
             op == [id |-> k, observed |-> t, persist |-> t]
             row == [state |-> "ongoing", start |-> t, last |-> t, end |-> Never]
             new == [R.rows EXCEPT ![k] = row]
             T1 == [rows |-> new, open |-> op, closing |-> R.closing]
  <1>1. R \in Histories /\ R.rows \in HistoryRows /\ R.closing \in SUBSET Closes
    BY DEF Sound, Histories, Closes
  <1>2. PICK n \in 0 .. MaxRows : \A i \in RowIDs : Present(R.rows, i) <=> i <= n
    BY DEF Sound, Table
  <1>3. n + 1 \in RowIDs /\ First(n + 1)
    BY <1>2, HNumbers DEF RowIDs, Present
  <1>4. k \in RowIDs /\ First(k)
    BY <1>3
  <1>5. k = n + 1
    BY <1>2, <1>3, <1>4, HNumbers DEF RowIDs, Present
  <1>6. T = R \/ T = T1
    <2>1. R = [rows |-> R.rows, open |-> R.open, closing |-> R.closing]
      BY <1>1 DEF Histories
    <2>2. T \in {IF W = {} THEN R ELSE [R EXCEPT !.open = op, !.rows[k] = row] : W \in Written({t})}
      BY DEF Begin
    <2>3. T = R \/ T = [R EXCEPT !.open = op, !.rows[k] = row]
      BY <2>2
    <2> QED BY <2>1, <2>3
  <1> HIDE DEF k
  <1>7. /\ new \in HistoryRows /\ \A i \in RowIDs : i # k => new[i] = R.rows[i]
        /\ new[k].state = "ongoing" /\ new[k].start = t /\ new[k].last = t
    BY <1>1, <1>4, HNumbers DEF HistoryRows
  <1>8. op \in Sessions /\ op.id = k /\ op.observed = t /\ op.persist = t /\ t \in Nat
    BY <1>4, HNumbers DEF Sessions
  <1>9. T1 \in Histories /\ T1.rows = new /\ T1.open = op /\ T1.closing = R.closing
    BY <1>1, <1>7, <1>8 DEF Histories, Closes
  <1> HIDE DEF op, new, T1
  <1>10. \A i \in RowIDs : (Present(new, i) <=> i <= n + 1) /\ (i # k => (Present(new, i) <=> Present(R.rows, i)))
    BY <1>2, <1>5, <1>7, HNumbers DEF Present
  <1>11. Table(new, t)
    <2>1. \E size \in 0 .. MaxRows : \A i \in RowIDs : Present(new, i) <=> i <= size
      BY <1>3, <1>10, HNumbers DEF RowIDs
    <2>2. \A i \in RowIDs : Present(new, i) => /\ new[i].start <= new[i].last /\ new[i].last <= t
                                               /\ new[i].state = "ended" => new[i].end <= t
      BY <1>7, <1>8, <1>10 DEF Sound, Table
    <2>3. ASSUME NEW i \in RowIDs, NEW j \in RowIDs, i < j /\ Present(new, j)
          PROVE  new[i].last <= new[j].start /\ (new[i].state = "ended" => new[i].end <= new[j].start)
      <3>1. i # k /\ Present(R.rows, i)
        BY <1>2, <1>5, <1>10, <2>3, HNumbers
      <3>2. CASE j = k
        BY <1>7, <3>1, <3>2 DEF Sound, Table
      <3>3. CASE j # k
        BY <1>7, <1>10, <2>3, <3>1, <3>3 DEF Sound, Table
      <3> QED BY <3>2, <3>3
    <2>4. \A i, j \in RowIDs : i < j /\ Present(new, j) => /\ new[i].last <= new[j].start
                                                           /\ new[i].state = "ended" => new[i].end <= new[j].start
      BY <2>3
    <2> QED BY <2>1, <2>2, <2>4 DEF Table
  <1>12. \A c \in R.closing : c.id \in RowIDs /\ c.id # k
    BY <1>1, <1>4 DEF Sound, Failed, Closes, Present
  <1>13. Failed(T1, t)
    BY <1>7, <1>9, <1>10, <1>12 DEF Sound, Failed
  <1>14. Opened(T1, t)
    BY <1>5, <1>7, <1>8, <1>9, <1>10, HNumbers DEF Opened
  <1>15. Owned(T1)
    BY <1>7, <1>8, <1>9, <1>12, HNumbers DEF Sound, Owned, Ongoing
  <1>16. Clear(T1, off)
    BY <1>7, <1>9, <1>10 DEF Sound, Clear, Before
  <1> QED BY <1>6, <1>9, <1>11, <1>13, <1>14, <1>15, <1>16 DEF Sound

LEMMA OnlineSound ==
  ASSUME NEW R, NEW t \in Time, NEW off, Sound(R, t, off), \E i \in RowIDs : ~Present(R.rows, i), NEW T \in RecordOnline(R, t)
  PROVE  Sound(T, t, off)
  <1>1. PICK F \in FlushClosing(R) : \E E \in Expire(F, t) : T \in (IF E.open.id # 0 THEN Continue(E, t) ELSE Begin(E, t))
    BY DEF RecordOnline
  <1>2. PICK E \in Expire(F, t) : T \in (IF E.open.id # 0 THEN Continue(E, t) ELSE Begin(E, t))
    BY <1>1
  <1>3. Sound(F, t, off) /\ \A i \in RowIDs : Present(F.rows, i) <=> Present(R.rows, i)
    BY <1>1, FlushSound
  <1>4. Sound(E, t, off) /\ \A i \in RowIDs : Present(E.rows, i) <=> Present(F.rows, i)
    <2>1. CASE F.open.id # 0 /\ t > F.open.observed + Window
      <3>1. F.open.observed \in Time /\ F.open.observed <= t
        <4>1. F.open.observed \in 0 .. Never /\ F.open.observed <= t
          BY <1>3, <2>1 DEF Sound, Opened, Histories, Sessions
        <4> QED BY <4>1, HNumbers
      <3> QED BY <1>2, <1>3, <2>1, <3>1, OfflineSound DEF Expire
    <2>2. CASE ~(F.open.id # 0 /\ t > F.open.observed + Window)
      BY <1>2, <1>3, <2>2 DEF Expire
    <2> QED BY <2>1, <2>2
  <1>5. CASE E.open.id # 0
    BY <1>2, <1>4, <1>5, ContinueSound
  <1>6. CASE E.open.id = 0
    BY <1>2, <1>3, <1>4, <1>6, BeginSound
  <1> QED BY <1>5, <1>6

(* Reading a history leaves nothing ongoing but the session that goes on,    *)
(* and none goes on when a disconnect has been seen.                         *)
LEMMA RestoreSound ==
  ASSUME NEW R \in Histories, NEW t \in Time, NEW seen, NEW off, Unread(R.rows, t, seen, off), R.closing = {},
         NEW T \in Restore(R, t, seen)
  PROVE  /\ Sound(T, t, off) /\ (seen # Never => T.open.id = 0)
         /\ \A i \in RowIDs : Present(T.rows, i) <=> Present(R.rows, i)
  <1> DEFINE db == R.rows
             kept == {i \in Ongoing(db) : Newest(db, i) /\ ~Disconnected(R, i, seen) /\ db[i].last + Window >= t}
             C == {[id |-> i, end |-> RecoveredEnd(R, i, seen)] : i \in Ongoing(db) \ kept}
             goes(i) == [id |-> i, observed |-> db[i].last, persist |-> db[i].last]
             session == CHOOSE s \in {NoSession} \cup {goes(i) : i \in kept} : s.id \in kept \/ kept = {}
  <1>1. PICK U \in CloseAll(R, C) : T = [U EXCEPT !.open = session]
    BY DEF Restore
  <1>2. /\ db \in HistoryRows /\ Table(db, t) /\ (seen # Never => seen <= t) /\ seen \in 0 .. Never
        /\ \A i \in RowIDs : /\ db[i].start \in Time /\ db[i].last \in Time /\ db[i].start \in Nat /\ db[i].last \in Nat
                             /\ db[i].end \in Nat
    BY RowFields DEF Unread
  <1>3. \A i \in Ongoing(db) : /\ i \in RowIDs /\ db[i].state = "ongoing" /\ Present(db, i)
                               /\ db[i].start <= db[i].last /\ db[i].last <= t
                               /\ \A j \in RowIDs : i < j => ~Present(db, j)
    BY <1>2 DEF Unread, Table, Ongoing, Present
  <1>4. \A i, j \in Ongoing(db) : i = j
    BY <1>3, HNumbers
  <1>5. \A i \in Ongoing(db) : Newest(db, i)
    BY <1>4 DEF Newest
  <1>6. \A i \in Ongoing(db) : Disconnected(R, i, seen) <=> seen # Never
    BY <1>2, <1>3, <1>5, HNumbers DEF Disconnected, Unread
  <1>7. ASSUME NEW i \in Ongoing(db)
        PROVE  /\ RecoveredEnd(R, i, seen) \in Time /\ RecoveredEnd(R, i, seen) <= t
               /\ seen # Never => RecoveredEnd(R, i, seen) = seen
    <2>1. i \in RowIDs /\ db[i].start \in Time /\ db[i].last \in Time /\ db[i].start <= db[i].last /\ db[i].last <= t
      BY <1>2, <1>3
    <2>2. CASE seen = Never
      <3>1. RecoveredEnd(R, i, seen) = Later(db[i].start, db[i].last)
        BY <1>6, <2>2 DEF RecoveredEnd
      <3> QED BY <1>2, <2>1, <2>2, <3>1, HNumbers DEF Later
    <2>3. CASE seen # Never
      <3>1. seen \in Time /\ db[i].last <= seen /\ seen <= t
        BY <1>2, <2>3, HNumbers DEF Unread
      <3>2. RecoveredEnd(R, i, seen) = Later(db[i].start, Later(db[i].last, seen))
        BY <1>6, <2>3 DEF RecoveredEnd
      <3> QED BY <1>2, <2>1, <3>1, <3>2, HNumbers DEF Later
    <2> QED BY <2>2, <2>3
  <1>8. kept \subseteq Ongoing(db)
    OBVIOUS
  <1>9. \A c \in C : c \in Closes /\ c.id \in Ongoing(db) \ kept /\ c.end = RecoveredEnd(R, c.id, seen)
    BY <1>3, <1>7 DEF Closes
  <1>10. ASSUME NEW i \in Ongoing(db) \ kept PROVE \E c \in C : c.id = i
    <2>1. [id |-> i, end |-> RecoveredEnd(R, i, seen)] \in C
      OBVIOUS
    <2> HIDE DEF C, kept
    <2> QED BY <2>1
  <1>11. seen # Never => kept = {}
    BY <1>6
  <1>12. session \in {NoSession} \cup {goes(i) : i \in kept} /\ (session.id \in kept \/ kept = {})
    <2>1. \E s \in {NoSession} \cup {goes(i) : i \in kept} : s.id \in kept \/ kept = {}
      <3>1. CASE kept = {}
        BY <3>1
      <3>2. CASE kept # {}
        <4>1. PICK m \in kept : TRUE
          BY <3>2
        <4>2. goes(m) \in {NoSession} \cup {goes(i) : i \in kept} /\ goes(m).id = m
          BY <4>1
        <4> QED BY <4>1, <4>2
      <3> QED BY <3>1, <3>2
    <2> QED BY <2>1
  <1> HIDE DEF kept, C, session
  <1>13. \A c, d \in C : c.id = d.id => c = d
    BY <1>9 DEF Closes
  <1>14. /\ session \in Sessions /\ session.id \in kept \cup {0} /\ (kept # {} => session.id \in kept)
         /\ session.id # 0 => session.observed = db[session.id].last /\ session.persist = db[session.id].last
    <2>1. CASE session = NoSession
      <3>1. session.id = 0 /\ session \in Sessions
        BY <2>1, HNumbers DEF NoSession, Sessions
      <3>2. session.id \notin kept
        BY <1>3, <1>8, <3>1, HNumbers
      <3> QED BY <1>12, <3>1, <3>2
    <2>2. CASE session # NoSession
      <3>1. PICK i \in kept : session = goes(i)
        BY <1>12, <2>2
      <3>2. i \in RowIDs /\ db[i].last \in 0 .. Never
        BY <1>2, <1>3, <1>8, <3>1, HNumbers
      <3> QED BY <3>1, <3>2 DEF Sessions
    <2> QED BY <2>1, <2>2
  <1>15. \A c \in R.closing \cup C : /\ db[c.id].state = "ongoing" /\ c.end <= t
                                     /\ \A j \in RowIDs : c.id < j /\ Present(db, j) => c.end <= db[j].start
    BY <1>3, <1>7, <1>9
  <1>16. /\ U \in Histories /\ Table(U.rows, t) /\ Failed(U, t)
         /\ U = [rows |-> U.rows, open |-> U.open, closing |-> U.closing]
         /\ \A i \in RowIDs : /\ Present(U.rows, i) <=> Present(db, i)
                              /\ U.rows[i].start = db[i].start /\ U.rows[i].last = db[i].last
                              /\ (\A c \in C : c.id # i) \/ U.rows[i].state # "ended" => U.rows[i] = db[i]
         /\ \A c \in C : c \in U.closing \/ (U.rows[c.id].state = "ended" /\ U.rows[c.id].end = c.end)
         /\ U.closing \subseteq C
    <2>1. R.closing \cup C = C /\ C \in SUBSET Closes
      BY <1>9
    <2> QED BY <1>2, <1>13, <1>15, <2>1, ClosesTried
  <1>17. T \in Histories /\ T.rows = U.rows /\ T.closing = U.closing /\ T.open = session
    BY <1>1, <1>14, <1>16 DEF Histories
  <1>18. Opened(T, t)
    BY <1>2, <1>3, <1>8, <1>9, <1>14, <1>16, <1>17 DEF Opened
  <1>19. Owned(T)
    <2>1. ASSUME NEW i \in Ongoing(T.rows) PROVE i = T.open.id \/ \E c \in T.closing : c.id = i
      <3>1. i \in RowIDs /\ U.rows[i].state = "ongoing" /\ U.rows[i] = db[i] /\ i \in Ongoing(db)
        BY <1>16, <1>17, <2>1 DEF Ongoing
      <3>2. CASE i \in kept
        BY <1>4, <1>8, <1>14, <1>17, <3>2
      <3>3. CASE i \notin kept
        BY <1>10, <1>16, <1>17, <3>1, <3>3
      <3> QED BY <3>2, <3>3
    <2>2. \A c \in T.closing : c.id # T.open.id
      BY <1>3, <1>9, <1>14, <1>16, <1>17, HNumbers
    <2> QED BY <2>1, <2>2 DEF Owned
  <1>20. Clear(T, off)
    <2>1. ASSUME NEW i \in RowIDs, NEW s \in off, Present(db, i), ~(s < db[i].start)
          PROVE  \/ U.rows[i].state = "ended" /\ U.rows[i].end <= s
                 \/ \E c \in U.closing : c.id = i /\ c.end <= s
      <3>1. CASE db[i].state = "ended" /\ db[i].end <= s
        BY <1>9, <1>15, <1>16, <3>1
      <3>2. CASE db[i].state = "ongoing" /\ seen # Never /\ seen <= s
        <4>1. PICK c \in C : c.id = i
          BY <1>10, <1>11, <3>2 DEF Ongoing
        <4>2. c.end <= s
          BY <1>7, <1>9, <3>2, <4>1
        <4> QED BY <1>16, <4>1, <4>2
      <3> QED BY <2>1, <3>1, <3>2 DEF Unread
    <2> QED BY <1>16, <1>17, <2>1 DEF Clear
  <1>21. seen # Never => T.open.id = 0
    BY <1>11, <1>14, <1>17
  <1> QED BY <1>16, <1>17, <1>18, <1>19, <1>20, <1>21 DEF Sound, Unread, Failed

-----------------------------------------------------------------------------
(* Every step keeps the invariant.                                           *)

LEMMA LaterSound ==
  ASSUME NEW R, NEW t \in Nat, NEW u \in Nat, t <= u, NEW off, Sound(R, t, off)
  PROVE  Sound(R, u, off)
  <1>1. R \in Histories /\ R.rows \in HistoryRows /\ R.open \in Sessions /\ R.closing \in SUBSET Closes
    BY DEF Sound, Histories, Closes
  <1>2. Table(R.rows, u)
    BY <1>1, RowFields DEF Sound, Table
  <1>3. \A c \in R.closing : c.end \in Nat
    BY <1>1, HNumbers DEF Closes
  <1>4. Failed(R, u)
    BY <1>3 DEF Sound, Failed
  <1>5. R.open.observed \in Nat
    BY <1>1, HNumbers DEF Sessions
  <1>6. Opened(R, u)
    BY <1>5 DEF Sound, Opened
  <1>7. Before(off, u)
    BY HistoryAssumption DEF Sound, Before, Time
  <1> QED BY <1>2, <1>4, <1>6, <1>7 DEF Sound

LEMMA BecomesHistory ==
  ASSUME NEW T \in Histories, Becomes(T)
  PROVE  /\ Recorded' = T /\ rows' = T.rows /\ open' = T.open
         /\ rows' \in HistoryRows /\ open' \in Sessions /\ closing' \subseteq [id : RowIDs, end : Time]
  BY DEF Becomes, Recorded, Histories

LEMMA InRecorded == Recorded.rows = rows /\ Recorded.open = open /\ Recorded.closing = closing
  BY DEF Recorded

(* What an operation starts from is sound.                                   *)
LEMMA RecoveredSound ==
  ASSUME HistInv, NEW R \in Recovered
  PROVE  /\ Sound(R, now, offline) /\ (down => R.open.id = 0)
         /\ \A i \in RowIDs : Present(R.rows, i) <=> Present(rows, i)
  <1>1. CASE restored
    BY <1>1, InRecorded DEF Recovered, HistInv
  <1>2. CASE ~restored
    <2>1. R \in Restore(Recorded, now, recovery)
      BY <1>2 DEF Recovered
    <2>2. Unread(rows, now, recovery, offline) /\ (down => recovery # Never) /\ closing = {}
      BY <1>2 DEF HistInv
    <2>3. Recorded \in Histories /\ now \in Time
      BY DEF HistInv, HistoryTypeOK, Recorded, Histories
    <2> QED BY <2>1, <2>2, <2>3, InRecorded, RestoreSound
  <1> QED BY <1>1, <1>2

(* After an operation that ends with a sound history.                        *)
LEMMA NowSound ==
  ASSUME NEW T, Becomes(T), Sound(T, now, offline), now' = now, offline' = offline
  PROVE  /\ Sound(Recorded, now, offline)' /\ open' = T.open
         /\ rows' \in HistoryRows /\ open' \in Sessions /\ closing' \subseteq [id : RowIDs, end : Time]
  <1>1. T \in Histories
    BY DEF Sound
  <1>2. Recorded' = T /\ Sound(T, now', offline')
    BY <1>1, BecomesHistory
  <1> QED BY <1>1, <1>2, BecomesHistory DEF Sound

(* A failed read leaves the history as it was.                               *)
LEMMA StillUnread ==
  ASSUME HistInv, ~restored, UNCHANGED <<now, rows, open, closing, restored, recovery, offline>>
  PROVE  /\ ~restored' /\ open' = NoSession /\ closing' = {} /\ Unread(rows, now, recovery, offline)'
  BY DEF HistInv

LEMMA UpdateStateKeeps ==
  ASSUME HistInv, NEW g \in StateStreams, UpdateState(g)
  PROVE  HistInv'
  <1>1. /\ now \in Time /\ now # Never /\ now \in 0 .. Never /\ now <= now
        /\ lastActive' = now /\ down' = FALSE /\ now' = now /\ offline' = offline
    BY HNumbers DEF UpdateState, HistInv, HistoryTypeOK
  <1>2. CASE (\E R \in Recovered : \E T \in RecordOnline(R, now) : Becomes(T)) /\ Restored /\ revised' = TRUE
    <2>1. PICK R \in Recovered : \E T \in RecordOnline(R, now) : Becomes(T)
      BY <1>2
    <2>0. PICK T \in RecordOnline(R, now) : Becomes(T)
      BY <2>1
    <2>2. Sound(R, now, offline) /\ \E i \in RowIDs : ~Present(R.rows, i)
      BY RecoveredSound DEF UpdateState, Present
    <2>3. Sound(T, now, offline)
      BY <1>1, <2>0, <2>2, OnlineSound
    <2>4. /\ Sound(Recorded, now, offline)' /\ restored' = TRUE /\ recovery' = Never
          /\ rows' \in HistoryRows /\ open' \in Sessions /\ closing' \subseteq [id : RowIDs, end : Time]
      BY <1>1, <1>2, <2>0, <2>3, NowSound DEF Restored
    <2>5. HistoryTypeOK'
      <3>1. Never \in 0 .. Never
        BY HNumbers
      <3> QED BY <1>1, <1>2, <2>4, <3>1 DEF HistInv, HistoryTypeOK, UpdateState, sweeper
    <2>6. observed' = observed
      BY DEF UpdateState, sweeper
    <2> QED BY <1>1, <2>4, <2>5, <2>6 DEF HistInv
  <1>3. CASE ReadFails /\ UNCHANGED recorder
    <2>1. ~restored' /\ open' = NoSession /\ closing' = {} /\ Unread(rows, now, recovery, offline)'
      BY <1>1, <1>3, StillUnread DEF ReadFails, recorder
    <2>2. HistoryTypeOK'
      BY <1>1, <1>3, HNumbers DEF HistInv, HistoryTypeOK, UpdateState, sweeper, recorder
    <2>3. observed' = observed
      BY DEF UpdateState, sweeper
    <2> QED BY <1>1, <2>1, <2>2, <2>3 DEF HistInv
  <1> QED BY <1>2, <1>3 DEF UpdateState

LEMMA ClearKeeps ==
  ASSUME HistInv, NEW g \in StateStreams, ClearWithSideEffect(g)
  PROVE  HistInv'
  <1>1. /\ now \in Time /\ now # Never /\ now \in 0 .. Never /\ Never \in 0 .. Never /\ now <= now /\ now' = now /\ offline' = offline /\ observed' = observed
        /\ lastActive' \in {lastActive, Never}
    BY HNumbers DEF ClearWithSideEffect, HistInv, HistoryTypeOK, sweeper
  <1>2. CASE UNCHANGED <<held, lastActive, recorder, down>>
    <2>1. HistoryTypeOK'
      BY <1>2 DEF HistInv, HistoryTypeOK, ClearWithSideEffect, sweeper, recorder
    <2>2. Recorded' = Recorded /\ UNCHANGED <<rows, open, closing, restored, recovery>>
      BY <1>2 DEF recorder, Recorded
    <2> QED BY <1>1, <1>2, <2>1, <2>2 DEF HistInv
  <1>3. CASE /\ held' = FALSE /\ down' = TRUE
             /\ (\E R \in Recovered : \E T \in RecordOfflineLocked(R, now) : Becomes(T)) /\ Restored /\ UNCHANGED revised
    <2>1. PICK R \in Recovered : \E T \in RecordOfflineLocked(R, now) : Becomes(T)
      BY <1>3
    <2>0. PICK T \in RecordOfflineLocked(R, now) : Becomes(T)
      BY <2>1
    <2>2. Sound(T, now, offline) /\ T.open.id = 0
      <3>1. Sound(R, now, offline) /\ now <= now
        BY <1>1, HNumbers, RecoveredSound
      <3> QED BY <1>1, <2>0, <3>1, OfflineSound
    <2>3. /\ Sound(Recorded, now, offline)' /\ restored' = TRUE /\ recovery' = Never /\ open'.id = 0
          /\ rows' \in HistoryRows /\ open' \in Sessions /\ closing' \subseteq [id : RowIDs, end : Time]
      BY <1>1, <1>3, <2>0, <2>2, NowSound DEF Restored
    <2>4. HistoryTypeOK'
      BY <1>1, <1>3, <2>3 DEF HistInv, HistoryTypeOK, ClearWithSideEffect, sweeper
    <2> QED BY <1>1, <2>3, <2>4 DEF HistInv
  <1>4. CASE /\ held' = FALSE /\ down' = TRUE /\ ReadFails /\ recovery' = (IF recovery = Never THEN now ELSE recovery)
             /\ UNCHANGED <<rows, open, closing, restored, revised>>
    <2>1. /\ ~restored /\ open = NoSession /\ closing = {} /\ Unread(rows, now, recovery, offline)
          /\ recovery' \in 0 .. Never /\ recovery' # Never /\ (recovery = Never => recovery' = now)
          /\ (recovery # Never => recovery' = recovery)
      BY <1>1, <1>4, HNumbers DEF HistInv, ReadFails, HistoryTypeOK
    <2>2. Unread(rows, now, recovery', offline)
      <3>1. \A i \in Ongoing(rows) : rows[i].last <= now
        BY <2>1 DEF Unread, Table, Ongoing, Present
      <3> QED BY <1>1, <2>1, <3>1, HNumbers DEF Unread
    <2>3. Unread(rows, now, recovery, offline)'
      BY <1>1, <1>4, <2>2
    <2>4. HistoryTypeOK'
      BY <1>1, <1>4, <2>1 DEF HistInv, HistoryTypeOK, ClearWithSideEffect, sweeper
    <2> QED BY <1>1, <1>4, <2>1, <2>3, <2>4 DEF HistInv
  <1> QED BY <1>2, <1>3, <1>4 DEF ClearWithSideEffect

(* The history is not touched, and no time passes.                           *)
LEMMA UntouchedKeeps ==
  ASSUME HistInv, UNCHANGED <<now, recorder, ghosts>>, HistoryTypeOK',
         lastActive' \in {lastActive, Never}, observed' \in {observed, lastActive, Never}
  PROVE  HistInv'
  <1>1. Recorded' = Recorded /\ UNCHANGED <<now, rows, open, closing, restored, recovery, down, offline>>
    BY DEF recorder, Recorded, ghosts
  <1>2. (lastActive' # Never => lastActive' <= now') /\ (observed' # Never => observed' <= now')
    BY <1>1 DEF HistInv
  <1> QED BY <1>1, <1>2 DEF HistInv

LEMMA StreamsKeep ==
  ASSUME HistInv,
         \/ \E g \in StateStreams : AttachStateStream(g) \/ StreamError(g)
         \/ HostRestarted \/ OnlineServerLastActive
  PROVE  HistInv'
  <1> USE DEF recorder, ghosts, streamState, sweeper
  <1>1. ASSUME NEW g \in StateStreams, AttachStateStream(g) PROVE HistInv'
    <2>1. HistoryTypeOK'
      BY <1>1 DEF HistInv, HistoryTypeOK, AttachStateStream
    <2> QED BY <1>1, <2>1, UntouchedKeeps DEF AttachStateStream
  <1>2. ASSUME NEW g \in StateStreams, StreamError(g) PROVE HistInv'
    <2>1. HistoryTypeOK'
      BY <1>2 DEF HistInv, HistoryTypeOK, StreamError
    <2> QED BY <1>2, <2>1, UntouchedKeeps DEF StreamError
  <1>3. CASE HostRestarted
    <2>1. HistoryTypeOK'
      <3>1. Never \in 0 .. Never
        BY HNumbers
      <3> QED BY <1>3, <3>1 DEF HistInv, HistoryTypeOK, HostRestarted
    <2> QED BY <1>3, <2>1, UntouchedKeeps DEF HostRestarted
  <1>4. CASE OnlineServerLastActive
    <2>1. HistoryTypeOK'
      BY <1>4 DEF HistInv, HistoryTypeOK, OnlineServerLastActive
    <2> QED BY <1>4, <2>1, UntouchedKeeps DEF OnlineServerLastActive
  <1> QED BY <1>1, <1>2, <1>3, <1>4

LEMMA SnapshotKeeps ==
  ASSUME HistInv, SweepSnapshot
  PROVE  HistInv'
  <1>1. /\ now \in Time /\ now # Never /\ now <= now /\ now' = now
        /\ UNCHANGED <<restarts, reporter, generation, held, lastActive, observed, down, offline, dark>>
    BY HNumbers DEF SweepSnapshot, HistInv, HistoryTypeOK, streamState, ghosts
  <1>2. CASE /\ \E R \in Recovered : \E T \in FlushClosing(R) : Becomes(T) /\ candidate' = R.open.id
             /\ Restored /\ revised' = FALSE
             /\ sweep' = (IF candidate' = 0 THEN "idle" ELSE "observe")
             /\ asked' = (IF candidate' = 0 THEN 0 ELSE now)
    <2>1. PICK R \in Recovered : \E T \in FlushClosing(R) : Becomes(T) /\ candidate' = R.open.id
      BY <1>2
    <2>2. PICK T \in FlushClosing(R) : Becomes(T) /\ candidate' = R.open.id
      BY <2>1
    <2>3. Sound(R, now, offline) /\ (down => R.open.id = 0)
      BY RecoveredSound
    <2>4. Sound(T, now, offline) /\ T.open = R.open
      BY <1>1, <2>2, <2>3, FlushSound
    <2>5. /\ Sound(Recorded, now, offline)' /\ restored' = TRUE /\ recovery' = Never /\ (down' => open'.id = 0)
          /\ rows' \in HistoryRows /\ open' \in Sessions /\ closing' \subseteq [id : RowIDs, end : Time]
      BY <1>1, <1>2, <2>2, <2>3, <2>4, NowSound DEF Restored
    <2>6. HistoryTypeOK'
      <3>1. Never \in 0 .. Never /\ 0 \in Time
        BY HNumbers
      <3>2. candidate' \in RowIDs \cup {0}
        BY <2>2, <2>3 DEF Sound, Histories, Sessions
      <3>3. sweep' \in {"idle", "observe", "close"} /\ asked' \in Time
        BY <1>1, <1>2, <3>1
      <3> QED BY <1>1, <1>2, <2>5, <3>1, <3>2, <3>3 DEF HistInv, HistoryTypeOK
    <2> QED BY <1>1, <2>5, <2>6 DEF HistInv
  <1>3. CASE ReadFails /\ UNCHANGED <<recorder, sweep, candidate, asked>>
    <2>1. HistoryTypeOK'
      BY <1>1, <1>3 DEF HistInv, HistoryTypeOK, recorder
    <2> QED BY <1>1, <1>3, <2>1, UntouchedKeeps DEF ghosts
  <1> QED BY <1>2, <1>3 DEF SweepSnapshot

LEMMA CloseKeeps ==
  ASSUME HistInv, SweepClose
  PROVE  HistInv'
  <1> DEFINE active == IF observed = Never THEN open.observed ELSE Later(observed, open.observed)
  <1>1. /\ UNCHANGED <<now, restarts, restored, recovery, revised, reporter, generation, held, lastActive, down, offline, dark>>
        /\ sweep' = "idle" /\ candidate' = 0 /\ asked' = 0 /\ observed' = Never
        /\ now \in Time /\ now # Never
    BY HNumbers DEF SweepClose, streamState, ghosts, HistInv, HistoryTypeOK
  <1>2. CASE UNCHANGED <<rows, open, closing>>
    <2>1. HistoryTypeOK'
      <3>1. Never \in 0 .. Never /\ 0 \in Time
        BY HNumbers
      <3> QED BY <1>1, <1>2, <3>1 DEF HistInv, HistoryTypeOK
    <2> QED BY <1>1, <1>2, <2>1, UntouchedKeeps DEF recorder, ghosts
  <1>3. CASE \E T \in RecordOfflineLocked(Recorded, active) : Becomes(T)
    <2>1. PICK T \in RecordOfflineLocked(Recorded, active) : Becomes(T)
      BY <1>3
    <2>2. CASE open.id = 0
      <3>1. T = Recorded
        BY <2>1, <2>2, InRecorded DEF RecordOfflineLocked
      <3> QED BY <1>2, <2>1, <3>1, InRecorded DEF Becomes
    <2>3. CASE open.id # 0
      <3>1. restored /\ Sound(Recorded, now, offline)
        BY <2>3 DEF HistInv, NoSession
      <3>2. active \in Time /\ active <= now
        <4>1. open.observed \in 0 .. Never /\ open.observed <= now /\ now \in Nat /\ observed \in 0 .. Never
          BY <1>1, <2>3, <3>1, InRecorded, HNumbers DEF Sound, Opened, Histories, Sessions, HistInv, HistoryTypeOK
        <4>2. open.observed \in Time
          BY <1>1, <4>1, HNumbers
        <4>3. CASE observed = Never
          BY <4>1, <4>2, <4>3
        <4>4. CASE observed # Never
          <5>1. observed \in Time /\ observed <= now
            BY <4>1, <4>4, HNumbers DEF HistInv
          <5> QED BY <4>1, <4>2, <4>4, <5>1, Laters
        <4> QED BY <4>3, <4>4
      <3> HIDE DEF active
      <3>3. Sound(T, now, offline) /\ T.open.id = 0
        BY <1>1, <2>1, <3>1, <3>2, OfflineSound
      <3>4. /\ Sound(Recorded, now, offline)' /\ restored' /\ open'.id = 0
            /\ rows' \in HistoryRows /\ open' \in Sessions /\ closing' \subseteq [id : RowIDs, end : Time]
        BY <1>1, <2>1, <3>1, <3>3, NowSound
      <3>5. HistoryTypeOK'
        <4>1. Never \in 0 .. Never /\ 0 \in Time
          BY HNumbers
        <4> QED BY <1>1, <3>4, <4>1 DEF HistInv, HistoryTypeOK
      <3> QED BY <1>1, <3>4, <3>5 DEF HistInv
    <2> QED BY <2>2, <2>3
  <1> QED BY <1>2, <1>3 DEF SweepClose

(* While the server is known to be disconnected no row covers the moment     *)
(* that passes.                                                              *)
LEMMA TickKeeps ==
  ASSUME HistInv, Tick
  PROVE  HistInv'
  <1>1. /\ UNCHANGED <<restarts, rows, open, closing, restored, recovery, revised, reporter, generation, held, lastActive>>
        /\ UNCHANGED <<sweep, candidate, asked, observed, down, dark>> /\ Recorded' = Recorded
        /\ offline' = offline \cup {t \in {now} : down}
    BY DEF Tick, recorder, streamState, sweeper, Recorded
  <1>2. now \in Time /\ now \in Nat /\ now' \in Nat /\ now' \in Time /\ now' = now + 1 /\ now <= now' /\ now < now'
    BY HNumbers DEF Tick, HistInv, HistoryTypeOK, Time
  <1>3. HistoryTypeOK'
    BY <1>1, <1>2 DEF HistInv, HistoryTypeOK
  <1>4. \A s \in offline' : s \in offline \/ (s = now /\ down)
    BY <1>1
  <1>5. ASSUME restored PROVE Sound(Recorded, now', offline')
    <2>1. Sound(Recorded, now, offline) /\ Sound(Recorded, now', offline) /\ (down => open.id = 0)
      BY <1>2, <1>5, LaterSound DEF HistInv
    <2>2. Before(offline', now')
      BY <1>2, <1>4, <2>1 DEF Sound, Before
    <2>3. Clear(Recorded, offline')
      <3>1. ASSUME NEW i \in RowIDs, Present(rows, i), down
            PROVE  \/ rows[i].state = "ended" /\ rows[i].end <= now
                   \/ \E c \in closing : c.id = i /\ c.end <= now
        <4>1. rows[i].state \in {"ended", "ongoing"}
          BY <3>1, RowFields DEF Present, HistInv, HistoryTypeOK
        <4>2. CASE rows[i].state = "ended"
          BY <2>1, <3>1, <4>2, InRecorded DEF Sound, Table
        <4>3. CASE rows[i].state = "ongoing"
          <5>1. i # open.id
            BY <2>1, <3>1, HNumbers
          <5>2. PICK c \in closing : c.id = i
            BY <2>1, <4>3, <5>1, InRecorded DEF Sound, Owned, Ongoing
          <5> QED BY <2>1, <5>2, InRecorded DEF Sound, Failed
        <4> QED BY <4>1, <4>2, <4>3
      <3> QED BY <1>4, <2>1, <3>1, InRecorded DEF Sound, Clear
    <2> QED BY <2>1, <2>2, <2>3 DEF Sound
  <1>6. ASSUME ~restored PROVE Unread(rows, now', recovery, offline')
    <2>1. Unread(rows, now, recovery, offline) /\ (down => recovery # Never)
      BY <1>6 DEF HistInv
    <2>2. Table(rows, now')
      BY <1>2, <2>1, RowFields DEF Unread, Table
    <2>3. Before(offline', now')
      <3>1. \A s \in offline : s < now'
        BY <1>2, <2>1, HistoryAssumption DEF Unread, Before, Time
      <3> QED BY <1>2, <1>4, <2>1, <3>1 DEF Unread, Before
    <2>4. recovery # Never => recovery <= now /\ recovery <= now' /\ recovery \in Nat
      BY <1>2, <2>1, HNumbers DEF Unread
    <2>5. ASSUME NEW i \in RowIDs, Present(rows, i), down
          PROVE  \/ rows[i].state = "ended" /\ rows[i].end <= now
                 \/ rows[i].state = "ongoing" /\ recovery # Never /\ recovery <= now
      <3>1. rows[i].state \in {"ended", "ongoing"}
        BY <2>5, RowFields DEF Present, HistInv, HistoryTypeOK
      <3> QED BY <2>1, <2>4, <2>5, <3>1 DEF Unread, Table
    <2> QED BY <1>4, <2>1, <2>2, <2>3, <2>4, <2>5 DEF Unread
  <1>7. (lastActive # Never => lastActive <= now') /\ (observed # Never => observed <= now')
    <2>1. lastActive \in 0 .. Never /\ observed \in 0 .. Never
      BY DEF HistInv, HistoryTypeOK
    <2> QED BY <1>2, <2>1, HNumbers DEF HistInv
  <1> QED BY <1>1, <1>3, <1>5, <1>6, <1>7 DEF HistInv

(* A stop while no failed close waits leaves at most the last row ongoing:   *)
(* the one session that may go on.                                           *)
LEMMA StoppedUnread ==
  ASSUME HistInv, closing = {}, NEW u \in Nat, now <= u
  PROVE  Unread(rows, u, Never, {s \in offline : \A i \in Ongoing(rows) : s < rows[i].start})
  <1> DEFINE left == {s \in offline : \A i \in Ongoing(rows) : s < rows[i].start}
  <1>1. now \in Nat /\ rows \in HistoryRows /\ Never \in 0 .. Never
    BY HNumbers DEF HistInv, HistoryTypeOK
  <1>2. CASE restored
    <2>1. Sound(Recorded, now, offline) /\ Sound(Recorded, u, offline)
      BY <1>1, <1>2, LaterSound DEF HistInv
    <2>2. \A i \in Ongoing(rows) : i = open.id /\ \A j \in RowIDs : i < j => ~Present(rows, j)
      <3>1. \A i \in Ongoing(rows) : i = open.id /\ i \in RowIDs
        BY <2>1, InRecorded DEF Sound, Owned, Ongoing
      <3>2. \A i \in Ongoing(rows) : i # 0
        BY <3>1, HNumbers
      <3> QED BY <2>1, <3>1, <3>2, InRecorded DEF Sound, Opened
    <2>3. \A i \in RowIDs, s \in left : Present(rows, i) =>
             s < rows[i].start \/ (rows[i].state = "ended" /\ rows[i].end <= s)
      BY <2>1, InRecorded DEF Sound, Clear
    <2>4. Before(left, u) /\ Table(rows, u)
      BY <2>1, InRecorded DEF Sound, Before
    <2> QED BY <1>1, <2>2, <2>3, <2>4 DEF Unread
  <1>3. CASE ~restored
    <2>1. Unread(rows, now, recovery, offline)
      BY <1>3 DEF HistInv
    <2>2. Table(rows, u)
      BY <1>1, <2>1, RowFields DEF Unread, Table
    <2>3. Before(left, u)
      BY <1>1, <2>1, HistoryAssumption DEF Unread, Before, Time
    <2>4. ASSUME NEW i \in RowIDs, NEW s \in left, Present(rows, i)
          PROVE  s < rows[i].start \/ (rows[i].state = "ended" /\ rows[i].end <= s)
      <3>1. CASE rows[i].state = "ongoing"
        BY <3>1 DEF Ongoing
      <3>2. CASE rows[i].state # "ongoing"
        BY <2>1, <2>4, <3>2 DEF Unread
      <3> QED BY <3>1, <3>2
    <2> QED BY <1>1, <2>1, <2>2, <2>3, <2>4 DEF Unread
  <1> QED BY <1>2, <1>3

LEMMA RestartKeeps ==
  ASSUME "unsettled" \notin Faults, HistInv, NEW d \in Time, Restart(d)
  PROVE  HistInv'
  <1> DEFINE left == {s \in offline : \A i \in Ongoing(rows) : s < rows[i].start}
             stopped == [rows |-> rows, open |-> NoSession, closing |-> {}]
  <1>1. /\ now \in Nat /\ d \in Nat /\ now' \in Time /\ now' \in Nat /\ now <= now' /\ now' = now + d
        /\ closing = {} /\ restarts' \in 0 .. MaxRestarts
    BY HNumbers, HistoryAssumption DEF Restart, HistInv, HistoryTypeOK, Time
  <1>2. /\ offline' = left /\ recovery' = Never /\ lastActive' = Never /\ observed' = Never /\ down' = FALSE
    BY DEF Restart
  <1>3. Unread(rows, now', Never, left)
    BY <1>1, StoppedUnread
  <1>4. HistoryTypeOK' \/ ~(rows' \in HistoryRows /\ open' \in Sessions /\ closing' \subseteq [id : RowIDs, end : Time]
                            /\ restored' \in BOOLEAN)
    <2>1. Never \in 0 .. Never /\ 0 \in Time
      BY HNumbers
    <2>2. /\ reporter' \in [StateStreams -> {"off", "serve", "clear", "over"}]
          /\ generation' \in {0} \cup StateStreams /\ held' \in BOOLEAN /\ revised' \in BOOLEAN
      BY DEF Restart, HistInv, HistoryTypeOK
    <2>3. /\ sweep' \in {"idle", "observe", "close"} /\ candidate' \in RowIDs \cup {0} /\ asked' \in Time
      BY <2>1 DEF Restart
    <2>4. offline' \subseteq Time
      BY <1>2 DEF HistInv, HistoryTypeOK
    <2>5. dark' \subseteq Time
      <3>1. \A t \in now .. (now + d - 1) : t \in Time
        BY <1>1, HistoryAssumption DEF Time
      <3> QED BY <3>1 DEF Restart, HistInv, HistoryTypeOK
    <2> QED BY <1>1, <1>2, <2>1, <2>2, <2>3, <2>4, <2>5 DEF HistoryTypeOK
  <1>5. CASE (\E T \in Restore(stopped, now + d, Never) : Becomes(T)) /\ restored' = TRUE
    <2>1. PICK T \in Restore(stopped, now', Never) : Becomes(T)
      BY <1>1, <1>5
    <2>2. stopped \in Histories /\ stopped.rows = rows /\ stopped.closing = {}
      <3>1. NoSession \in Sessions
        BY HNumbers DEF NoSession, Sessions
      <3> QED BY <3>1 DEF Histories, HistInv, HistoryTypeOK
    <2> HIDE DEF left, stopped
    <2>3. Sound(T, now', left)
      BY <1>1, <1>3, <2>1, <2>2, RestoreSound
    <2>4. T \in Histories
      BY <2>3 DEF Sound
    <2>5. /\ Recorded' = T /\ rows' \in HistoryRows /\ open' \in Sessions /\ closing' \subseteq [id : RowIDs, end : Time]
      BY <2>1, <2>4, BecomesHistory
    <2> QED BY <1>2, <1>4, <1>5, <2>3, <2>5 DEF HistInv
  <1>6. CASE restored' = FALSE /\ open' = NoSession /\ closing' = {} /\ UNCHANGED rows
    <2>1. rows' \in HistoryRows /\ open' \in Sessions /\ closing' \subseteq [id : RowIDs, end : Time]
      BY <1>6, HNumbers DEF NoSession, Sessions, HistInv, HistoryTypeOK
    <2> HIDE DEF left
    <2>2. Unread(rows, now, recovery, offline)'
      BY <1>2, <1>3, <1>6
    <2> QED BY <1>2, <1>4, <1>6, <2>1, <2>2 DEF HistInv
  <1> QED BY <1>5, <1>6 DEF Restart

LEMMA HistoryStarts == HistoryInit => HistInv
  <1> SUFFICES ASSUME HistoryInit PROVE HistInv
    OBVIOUS
  <1>1. 0 \in Time /\ Never \in 0 .. Never /\ NoSession \in Sessions /\ NoSession.id = 0
    BY HNumbers DEF NoSession, Sessions
  <1>2. HistoryTypeOK
    <2>1. rows \in HistoryRows
      BY <1>1 DEF HistoryInit, HistoryRows
    <2>2. /\ 0 \in 0 .. MaxRestarts /\ 0 \in RowIDs \cup {0} /\ 0 \in {0} \cup StateStreams /\ Never \in 0 .. Never
          /\ [g \in StateStreams |-> "off"] \in [StateStreams -> {"off", "serve", "clear", "over"}]
      BY <1>1, HistoryAssumption
    <2> QED BY <1>1, <2>1, <2>2 DEF HistoryInit, HistoryTypeOK
  <1>3. \A i \in RowIDs : rows[i].state = "none" /\ ~Present(rows, i)
    BY DEF HistoryInit, Present
  <1>4. Recorded \in Histories /\ Recorded.open.id = 0 /\ closing = {} /\ offline = {}
    BY <1>1, <1>2, InRecorded DEF HistoryInit, Histories, HistoryTypeOK, Recorded
  <1>5. Table(rows, now)
    <2>1. 0 \in 0 .. MaxRows /\ \A i \in RowIDs : Present(rows, i) <=> i <= 0
      BY <1>3, HistoryAssumption DEF RowIDs
    <2> QED BY <1>3, <2>1 DEF Table
  <1>6. Failed(Recorded, now) /\ Opened(Recorded, now) /\ Owned(Recorded)
    BY <1>3, <1>4, InRecorded DEF Failed, Opened, Owned, Ongoing
  <1>7. Sound(Recorded, now, offline)
    BY <1>4, <1>5, <1>6, InRecorded DEF Sound, Clear, Before
  <1> QED BY <1>2, <1>7 DEF HistoryInit, HistInv

LEMMA HistoryStep ==
  ASSUME "unsettled" \notin Faults
  PROVE  HistInv /\ [HistoryNext]_historyVars => HistInv'
  <1> SUFFICES ASSUME HistInv, [HistoryNext]_historyVars PROVE HistInv'
    OBVIOUS
  <1>1. CASE \E g \in StateStreams : ReporterStep(g)
    <2>1. PICK g \in StateStreams : ReporterStep(g)
      BY <1>1
    <2> QED BY <2>1, StreamsKeep, UpdateStateKeeps, ClearKeeps DEF ReporterStep
  <1>2. CASE HostRestarted
    BY <1>2, StreamsKeep
  <1>3. CASE SweepStep
    BY <1>3, StreamsKeep, SnapshotKeeps, CloseKeeps DEF SweepStep
  <1>4. CASE Tick
    BY <1>4, TickKeeps
  <1>5. CASE \E d \in Time : Restart(d)
    BY <1>5, RestartKeeps
  <1>6. CASE UNCHANGED historyVars
    <2>1. HistoryTypeOK'
      BY <1>6 DEF HistInv, HistoryTypeOK, historyVars, recorder, streamState, sweeper, ghosts
    <2> QED BY <1>6, <2>1, UntouchedKeeps DEF historyVars, streamState, sweeper
  <1> QED BY <1>1, <1>2, <1>3, <1>4, <1>5, <1>6 DEF HistoryNext

LEMMA HistorySound ==
  ASSUME "unsettled" \notin Faults
  PROVE  HistorySpec => []HistInv
  <1> QED BY HistoryStarts, HistoryStep, PTL DEF HistorySpec

(* Every row of online_sessions, the recorder's open session, its failed     *)
(* closes and the positions of the streams and of the sweep stay in their    *)
(* types, whatever ReportSystemState, SweepStale and a restart do.           *)
THEOREM HistoryTypes ==
  ASSUME "unsettled" \notin Faults
  PROVE  HistorySpec => []HistoryTypeOK
  <1>1. HistInv => HistoryTypeOK
    BY DEF HistInv
  <1> QED BY <1>1, HistorySound, PTL

LEMMA EndsOf ==
  ASSUME HistInv, restored, NEW i \in RowIDs
  PROVE  \/ \E c \in closing : c.id = i /\ Ends(i) = c.end
         \/ (\A c \in closing : c.id # i) /\ rows[i].state = "ended" /\ Ends(i) = rows[i].end
         \/ (\A c \in closing : c.id # i) /\ rows[i].state # "ended" /\ Ends(i) = now
  <1>1. \A c, d \in closing : c.id = d.id => c = d
    BY InRecorded DEF HistInv, Sound, Failed
  <1>2. CASE \E c \in closing : c.id = i
    <2>1. (CHOOSE c \in closing : c.id = i) \in closing /\ (CHOOSE c \in closing : c.id = i).id = i
      BY <1>2
    <2> QED BY <1>2, <2>1 DEF Ends
  <1> QED BY <1>2 DEF Ends

(* The sessions that a history shows do not overlap: neither a report that   *)
(* follows a failed close, a sweep that acts on an old snapshot, nor a       *)
(* session taken up again by restoreOpen makes a second count twice.         *)
THEOREM SessionsNeverOverlap ==
  ASSUME "unsettled" \notin Faults
  PROVE  HistorySpec => []SessionsDisjoint
  <1>1. HistInv => SessionsDisjoint
    <2> SUFFICES ASSUME HistInv, NEW i \in Shown, NEW j \in Shown, i < j PROVE Ends(i) <= rows[j].start
      BY HNumbers DEF SessionsDisjoint, Shown
    <2>1. /\ restored /\ i \in RowIDs /\ j \in RowIDs /\ Present(rows, i) /\ Present(rows, j)
          /\ Sound(Recorded, now, offline)
      BY DEF Shown, Present, HistInv
    <2>2. CASE rows[i].state = "ongoing"
      <3>1. i # open.id
        BY <2>1, <2>2, HNumbers, InRecorded DEF Sound, Opened
      <3>2. \E c \in closing : c.id = i
        BY <2>1, <2>2, <3>1, InRecorded DEF Sound, Owned, Ongoing
      <3>3. PICK c \in closing : c.id = i /\ Ends(i) = c.end
        BY <2>1, <3>2, EndsOf
      <3> QED BY <2>1, <3>3, InRecorded DEF Sound, Failed
    <2>3. CASE rows[i].state # "ongoing"
      <3>1. rows[i].state = "ended" /\ \A c \in closing : c.id # i
        BY <2>1, <2>3, RowFields, InRecorded DEF Present, Sound, Failed, HistInv, HistoryTypeOK
      <3>2. Ends(i) = rows[i].end
        BY <2>1, <3>1, EndsOf
      <3> QED BY <2>1, <3>1, <3>2, InRecorded DEF Sound, Table
    <2> QED BY <2>2, <2>3
  <1> QED BY <1>1, HistorySound, PTL

(* No moment between an observed disconnect and the next report lies within  *)
(* a session of the history: a disconnect seen while the history could not   *)
(* be read, or whose close failed, still ends the session at its time.       *)
THEOREM OfflineIsNotOnline ==
  ASSUME "unsettled" \notin Faults
  PROVE  HistorySpec => []OfflineNotCounted
  <1>1. HistInv => OfflineNotCounted
    <2> SUFFICES ASSUME HistInv PROVE OfflineNotCounted
      OBVIOUS
    <2> SUFFICES ASSUME NEW i \in Shown, NEW s \in offline, rows[i].start <= s PROVE Ends(i) <= s
      <3>1. \A r \in offline : r \in Nat
        <4>1. offline \subseteq Time
          BY DEF HistInv, HistoryTypeOK
        <4> QED BY <4>1, HNumbers
      <3>2. \A i \in Shown : i \in RowIDs /\ Ends(i) \in Nat
        <4>1. ASSUME NEW i \in Shown PROVE i \in RowIDs /\ Ends(i) \in Nat
          <5>1. i \in RowIDs /\ restored
            BY DEF Shown
          <5>2. now \in Nat /\ rows[i].end \in Nat /\ \A c \in closing : c.end \in Nat
            <6>1. now \in Time /\ rows \in HistoryRows /\ \A c \in closing : c.end \in Time
              BY DEF HistInv, HistoryTypeOK
            <6> QED BY <5>1, <6>1, HNumbers, RowFields
          <5> QED BY <5>1, <5>2, EndsOf
        <4> QED BY <4>1
      <3> QED BY <3>1, <3>2 DEF OfflineNotCounted
    <2>1. restored /\ i \in RowIDs /\ Present(rows, i) /\ Sound(Recorded, now, offline)
      BY DEF Shown, Present, HistInv
    <2>2. rows[i].start \in Nat /\ s \in Nat /\ ~(s < rows[i].start)
      <3>1. rows \in HistoryRows /\ offline \subseteq Time
        BY DEF HistInv, HistoryTypeOK
      <3>2. rows[i].start \in Nat /\ s \in Nat
        BY <2>1, <3>1, RowFields, HNumbers
      <3> QED BY <3>2
    <2>3. CASE rows[i].state = "ended" /\ rows[i].end <= s
      <3>1. \A c \in closing : c.id # i
        BY <2>1, <2>3, InRecorded DEF Sound, Failed
      <3> QED BY <2>1, <2>3, <3>1, EndsOf
    <2>4. CASE \E c \in closing : c.id = i /\ c.end <= s
      <3>1. \A c, d \in closing : c.id = d.id => c = d
        BY <2>1, InRecorded DEF Sound, Failed
      <3>2. PICK c \in closing : c.id = i /\ Ends(i) = c.end
        BY <2>1, <2>4, EndsOf
      <3> QED BY <2>4, <3>1, <3>2
    <2> QED BY <2>1, <2>2, <2>3, <2>4, InRecorded DEF Sound, Clear
  <1> QED BY <1>1, HistorySound, PTL

(* Every ongoing row is the recorder's open session or waits, with its end,  *)
(* to be closed: RecordOfflineLocked, FlushClosing and restoreOpen leave     *)
(* none ongoing that nobody will close.                                      *)
THEOREM OngoingIsOwned ==
  ASSUME "unsettled" \notin Faults
  PROVE  HistorySpec => []OngoingOwned
  <1>1. HistInv => OngoingOwned
    <2> SUFFICES ASSUME HistInv, restored PROVE OngoingOwned
      BY DEF OngoingOwned
    <2>1. Sound(Recorded, now, offline) /\ closing \subseteq [id : RowIDs, end : Time] /\ open.id \in RowIDs \cup {0}
      BY DEF HistInv, HistoryTypeOK, Sessions
    <2>2. \A i \in Ongoing(rows) : i \in RowIDs /\ i # 0 /\ (i = open.id \/ \E c \in closing : c.id = i)
      BY <2>1, HNumbers, InRecorded DEF Sound, Owned, Ongoing
    <2>3. open.id # 0 => open.id \in Ongoing(rows)
      BY <2>1, InRecorded DEF Sound, Opened, Ongoing
    <2>4. \A c \in closing : c.id \in Ongoing(rows) /\ c.id # open.id
      BY <2>1, InRecorded DEF Sound, Failed, Owned, Ongoing
    <2> QED BY <2>2, <2>3, <2>4 DEF OngoingOwned
  <1> QED BY <1>1, HistorySound, PTL
=============================================================================
