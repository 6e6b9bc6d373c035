---------------------------- MODULE OnlineHistory ----------------------------
(* One server's online sessions: the streams on which its agent reports      *)
(* state (ReportSystemState and its lease), the recorder that opens and      *)
(* closes sessions in the database (service/singleton/online_history.go),    *)
(* the periodic sweep, and restarts of the dashboard.                        *)
EXTENDS Naturals, FiniteSets

CONSTANTS
    Window,        \* OnlineActiveWindow, in ticks of the clock
    MaxTime,       \* bound: the clock
    MaxRows,       \* bound: sessions created
    MaxLeases,     \* bound: state streams, over all restarts
    MaxRestarts,   \* bound: restarts
    Faults         \* "read", "write": the first read, or any write, may fail;
                   \* "unsettled": a stop while a failed close waits

ASSUME HistoryAssumption ==
    {Window, MaxTime, MaxRows, MaxLeases, MaxRestarts} \subseteq Nat

Never == MaxTime + 1   \* a zero time.Time
Time == 0 .. MaxTime
RowIDs == 1 .. MaxRows
StateStreams == 1 .. MaxLeases
NoSession == [id |-> 0, observed |-> Never, persist |-> Never]

VARIABLES
    now, restarts,       \* the clock; restarts so far
    rows,                \* online_sessions: state, start, last_active_at, end
    open, closing,       \* the recorder's session; failed closes with their ends
    restored, recovery,  \* restored; recoveryDisconnects
    revised,             \* the session has been reported since the snapshot
    reporter,            \* the handler of each state stream
    generation, held,    \* the holder's generation; its stream is not nil
    lastActive,          \* the holder's lastActive
    sweep, candidate, asked, observed, \* a sweep: position, snapshot, now, lastActiveFn
    down, offline, dark  \* history: since a disconnect; ticks of that; of long stops

recorder == <<rows, open, closing, restored, recovery, revised>>
streamState == <<reporter, generation, held, lastActive>>
sweeper == <<sweep, candidate, asked, observed>>
ghosts == <<down, offline, dark>>
historyVars == <<now, restarts, recorder, streamState, sweeper, ghosts>>

HistoryInit ==
    /\ now = 0 /\ restarts = 0
    /\ rows = [i \in RowIDs |-> [state |-> "none", start |-> 0, last |-> 0, end |-> Never]]
    /\ open = NoSession /\ closing = {} /\ restored = TRUE /\ recovery = Never /\ revised = FALSE
    /\ reporter = [g \in StateStreams |-> "off"] /\ generation = 0 /\ held = FALSE /\ lastActive = Never
    /\ sweep = "idle" /\ candidate = 0 /\ asked = 0 /\ observed = Never
    /\ down = FALSE /\ offline = {} /\ dark = {}

-----------------------------------------------------------------------------
(* The recorder. An operation maps what is recorded - the rows, the open     *)
(* session and the failed closes - to what it may become, one outcome per    *)
(* way the database can answer.                                              *)

Later(s, t) == IF s < t THEN t ELSE s
Recorded == [rows |-> rows, open |-> open, closing |-> closing]
Becomes(R) == rows' = R.rows /\ open' = R.open /\ closing' = R.closing

Written(S) == IF "write" \in Faults THEN SUBSET S ELSE {S}   \* the writes that succeed
CloseRows(db, C) == [i \in RowIDs |->
    IF \E c \in C : c.id = i THEN [db[i] EXCEPT !.state = "ended", !.end = (CHOOSE c \in C : c.id = i).end]
    ELSE db[i]]

(* Closes that fail join, or stay among, the failed ones with their ends. *)
CloseAll(R, C) == {[R EXCEPT !.rows = CloseRows(@, W), !.closing = (@ \cup C) \ W] : W \in Written(C)}
FlushNothing(R) == {R}   \* mutant: failed closes are not tried again
FlushClosing(R) == CloseAll(R, R.closing)

RecordOfflineKeepingOpen(R, at) ==   \* mutant: a failed close leaves the session open
    IF R.open.id = 0 THEN {R}
    ELSE {[R EXCEPT !.rows = CloseRows(@, W), !.open = IF W = {} THEN @ ELSE NoSession] :
            W \in Written({[id |-> R.open.id, end |-> Later(at, R.open.persist)]})}
RecordOfflineLocked(R, at) ==
    IF R.open.id = 0 THEN {R}
    ELSE {[T EXCEPT !.open = NoSession] :
            T \in CloseAll(R, {[id |-> R.open.id, end |-> Later(at, R.open.persist)]})}

(* Restoring: of the ongoing rows only the newest may go on, when it is      *)
(* recent and no disconnect was seen since it started; the rest is closed.   *)
Ongoing(db) == {i \in RowIDs : db[i].state = "ongoing"}
Newest(db, i) == \A j \in Ongoing(db) \ {i} :
    db[j].start < db[i].start \/ (db[j].start = db[i].start /\ j < i)
Disconnected(R, i, seen) == Newest(R.rows, i) /\ seen # Never /\ seen >= R.rows[i].start
RecoveredEnd(R, i, seen) == Later(R.rows[i].start,
    IF Disconnected(R, i, seen) THEN Later(R.rows[i].last, seen) ELSE R.rows[i].last)
RestoreForgetting(R, t, seen) ==   \* mutant: a row that could not be closed is skipped
    {[T EXCEPT !.closing = {}] : T \in {[R EXCEPT !.rows = CloseRows(@, W)] :
        W \in Written({[id |-> i, end |-> RecoveredEnd(R, i, seen)] : i \in Ongoing(R.rows)})}}
Restore(R, t, seen) ==
    LET kept == {i \in Ongoing(R.rows) :
                    Newest(R.rows, i) /\ ~Disconnected(R, i, seen) /\ R.rows[i].last + Window >= t}
        ended == {[id |-> i, end |-> RecoveredEnd(R, i, seen)] : i \in Ongoing(R.rows) \ kept}
        session == CHOOSE s \in {NoSession} \cup {[id |-> i, observed |-> R.rows[i].last,
                       persist |-> R.rows[i].last] : i \in kept} : s.id \in kept \/ kept = {}
    IN {[T EXCEPT !.open = session] : T \in CloseAll(R, ended)}

(* What an operation starts from: an unread history is read first. *)
Recovered == IF restored THEN {Recorded} ELSE Restore(Recorded, now, recovery)

(* A report goes on with the session, unless it has been silent too long,    *)
(* or starts one; the row follows the reports at most once per window.       *)
Continue(R, at) ==
    LET seen == [R EXCEPT !.open.observed = at] IN
    IF at < R.open.persist + Window THEN {seen}
    ELSE {IF W = {} THEN seen
          ELSE [seen EXCEPT !.open.persist = at, !.rows[R.open.id].last = at] : W \in Written({at})}
Begin(R, at) ==
    LET i == CHOOSE k \in RowIDs : R.rows[k].state = "none" /\ \A j \in RowIDs : j < k => R.rows[j].state # "none"
    IN {IF W = {} THEN R
        ELSE [R EXCEPT !.open = [id |-> i, observed |-> at, persist |-> at],
                       !.rows[i] = [state |-> "ongoing", start |-> at, last |-> at, end |-> Never]] :
          W \in Written({at})}
Expire(R, at) == IF R.open.id # 0 /\ at > R.open.observed + Window
                 THEN RecordOfflineLocked(R, R.open.observed) ELSE {R}
RecordOnline(R, at) ==
    UNION {IF T.open.id # 0 THEN Continue(T, at) ELSE Begin(T, at) :
             T \in UNION {Expire(F, at) : F \in FlushClosing(R)}}

ReadFails == ~restored /\ "read" \in Faults
Restored == restored' = TRUE /\ recovery' = Never   \* the history has been read

-----------------------------------------------------------------------------
(* The streams on which the agent reports.                                   *)

AttachStateStream(g) ==
    /\ reporter[g] = "off" /\ g = generation + 1
    /\ reporter' = [reporter EXCEPT ![g] = "serve"] /\ generation' = g /\ held' = TRUE
    /\ UNCHANGED <<now, restarts, recorder, lastActive, sweeper, ghosts>>

Current(g) == g = generation /\ held

UpdateState(g) ==
    /\ reporter[g] = "serve" /\ Current(g)
    /\ \E i \in RowIDs : rows[i].state = "none"
    /\ lastActive' = now /\ down' = FALSE
    /\ \/ /\ \E R \in Recovered : \E T \in RecordOnline(R, now) : Becomes(T)
          /\ Restored /\ revised' = TRUE
       \/ ReadFails /\ UNCHANGED recorder
    /\ UNCHANGED <<now, restarts, reporter, generation, held, sweeper, offline, dark>>

(* The stream ends, or a report finds that it has been superseded. *)
StreamError(g) ==
    /\ reporter[g] = "serve" /\ reporter' = [reporter EXCEPT ![g] = "clear"]
    /\ UNCHANGED <<now, restarts, recorder, generation, held, lastActive, sweeper, ghosts>>

ClearWithSideEffect(g) ==
    /\ reporter[g] = "clear" /\ reporter' = [reporter EXCEPT ![g] = "over"]
    /\ \/ ~Current(g) /\ UNCHANGED <<held, lastActive, recorder, down>>
       \/ /\ Current(g) /\ held' = FALSE /\ lastActive' = Never /\ down' = TRUE
          /\ \/ /\ \E R \in Recovered : \E T \in RecordOfflineLocked(R, now) : Becomes(T)
                /\ Restored /\ UNCHANGED revised
             \/ /\ ReadFails /\ recovery' = IF recovery = Never THEN now ELSE recovery
                /\ UNCHANGED <<rows, open, closing, restored, revised>>
    /\ UNCHANGED <<now, restarts, generation, sweeper, offline, dark>>

(* The agent's machine has restarted: ApplyHostReport clears the state. *)
HostRestarted ==
    /\ lastActive # Never /\ lastActive' = Never
    /\ UNCHANGED <<now, restarts, recorder, reporter, generation, held, sweeper, ghosts>>

-----------------------------------------------------------------------------
(* SweepStale, every 30 seconds: the session is noted under the lock, the    *)
(* server's last activity read without it, and the session closed when       *)
(* nothing has been reported in between.                                     *)

SweepSnapshot ==
    /\ sweep = "idle"
    /\ \/ /\ \E R \in Recovered : \E T \in FlushClosing(R) : Becomes(T) /\ candidate' = R.open.id
          /\ Restored /\ revised' = FALSE
          /\ sweep' = IF candidate' = 0 THEN "idle" ELSE "observe"
          /\ asked' = IF candidate' = 0 THEN 0 ELSE now
       \/ ReadFails /\ UNCHANGED <<recorder, sweep, candidate, asked>>
    /\ UNCHANGED <<now, restarts, streamState, observed, ghosts>>

OnlineServerLastActive ==
    /\ sweep = "observe" /\ sweep' = "close" /\ observed' = lastActive
    /\ UNCHANGED <<now, restarts, recorder, streamState, candidate, asked, ghosts>>

SweepClose ==
    /\ sweep = "close" /\ sweep' = "idle" /\ candidate' = 0 /\ asked' = 0 /\ observed' = Never
    /\ LET active == IF observed = Never THEN open.observed ELSE Later(observed, open.observed)
           gone == (observed = Never \/ active + Window < asked) /\ open.observed + Window < asked
       IN \/ /\ open.id = candidate /\ ~revised /\ gone
             /\ \E T \in RecordOfflineLocked(Recorded, active) : Becomes(T)
          \/ ~(open.id = candidate /\ ~revised /\ gone) /\ UNCHANGED <<rows, open, closing>>
    /\ UNCHANGED <<now, restarts, restored, recovery, revised, streamState, ghosts>>

-----------------------------------------------------------------------------
Tick ==
    /\ now < MaxTime /\ now' = now + 1
    /\ offline' = offline \cup {t \in {now} : down}
    /\ UNCHANGED <<restarts, recorder, streamState, sweeper, down, dark>>

(* The dashboard stops and is started d ticks later. Disconnects that are    *)
(* not in the database are forgotten.                                        *)
Restart(d) ==
    /\ restarts < MaxRestarts /\ restarts' = restarts + 1
    /\ now + d <= MaxTime /\ now' = now + d /\ (closing = {} \/ "unsettled" \in Faults)
    /\ \/ /\ \E T \in Restore([rows |-> rows, open |-> NoSession, closing |-> {}], now + d, Never) : Becomes(T)
          /\ restored' = TRUE
       \/ /\ "read" \in Faults /\ restored' = FALSE
          /\ open' = NoSession /\ closing' = {} /\ UNCHANGED rows
    /\ recovery' = Never /\ revised' = FALSE
    /\ reporter' = [g \in StateStreams |-> IF reporter[g] = "off" THEN "off" ELSE "over"]
    /\ held' = FALSE /\ lastActive' = Never /\ UNCHANGED generation
    /\ sweep' = "idle" /\ candidate' = 0 /\ asked' = 0 /\ observed' = Never
    /\ down' = FALSE /\ offline' = {t \in offline : \A i \in Ongoing(rows) : t < rows[i].start}
    /\ dark' = dark \cup {t \in now .. (now + d - 1) : d > Window}

ReporterStep(g) == AttachStateStream(g) \/ UpdateState(g) \/ StreamError(g) \/ ClearWithSideEffect(g)
SweepStep == SweepSnapshot \/ OnlineServerLastActive \/ SweepClose
HistoryNext ==
    \/ \E g \in StateStreams : ReporterStep(g)
    \/ HostRestarted \/ SweepStep \/ Tick \/ \E d \in Time : Restart(d)

(* The sweep runs again and again, handlers clean up, and the database       *)
(* answers now and then.                                                     *)
SweepSettles == SweepSnapshot /\ restored' = TRUE /\ closing' = {}
HistoryFairness ==
    /\ WF_historyVars(SweepStep) /\ SF_historyVars(SweepSettles)
    /\ \A g \in StateStreams : WF_historyVars(ClearWithSideEffect(g))
HistorySpec == HistoryInit /\ [][HistoryNext]_historyVars /\ HistoryFairness

-----------------------------------------------------------------------------
HistoryRows == [RowIDs -> [state : {"none", "ongoing", "ended"}, start : Time, last : Time, end : 0 .. Never]]
Sessions == [id : RowIDs \cup {0}, observed : 0 .. Never, persist : 0 .. Never]
HistoryTypeOK ==
    /\ now \in Time /\ restarts \in 0 .. MaxRestarts
    /\ rows \in HistoryRows /\ open \in Sessions /\ closing \subseteq [id : RowIDs, end : Time]
    /\ restored \in BOOLEAN /\ recovery \in 0 .. Never /\ revised \in BOOLEAN
    /\ reporter \in [StateStreams -> {"off", "serve", "clear", "over"}]
    /\ generation \in {0} \cup StateStreams /\ held \in BOOLEAN /\ lastActive \in 0 .. Never
    /\ sweep \in {"idle", "observe", "close"} /\ candidate \in RowIDs \cup {0}
    /\ asked \in Time /\ observed \in 0 .. Never
    /\ down \in BOOLEAN /\ offline \subseteq Time /\ dark \subseteq Time

(* Sessions: a row whose close failed counts as closed. *)
Ends(i) ==
    IF \E c \in closing : c.id = i THEN (CHOOSE c \in closing : c.id = i).end
    ELSE IF rows[i].state = "ended" THEN rows[i].end ELSE now
Shown == {i \in RowIDs : restored /\ rows[i].state # "none"}

(* A server's sessions never overlap, so no second counts twice, whatever    *)
(* closes failed and however often the dashboard was restarted.              *)
SessionsDisjoint == \A i, j \in Shown : i # j => Ends(i) <= rows[j].start \/ Ends(j) <= rows[i].start

(* The time between an observed disconnect and the next report is not online *)
(* time: neither a late cleanup, a failed close, an unread history nor a     *)
(* sweep adds it to a session.                                               *)
OfflineNotCounted == \A i \in Shown, t \in offline : ~(rows[i].start <= t /\ t < Ends(i))

(* Every ongoing row is the recorder's open session or waits to be closed:   *)
(* none is left ongoing for ever or taken up again after its end.            *)
OngoingOwned == restored => /\ Ongoing(rows) = ({open.id} \ {0}) \cup {c.id : c \in closing}
                            /\ \A c \in closing : c.id # open.id

(* The time during which the dashboard did not run is not online time, when  *)
(* it is too long for the session to go on.                                  *)
DowntimeNotCounted == \A i \in RowIDs, t \in dark :
    rows[i].state = "ended" => ~(rows[i].start <= t /\ t < rows[i].end)

(* A session that is over - disconnected, silent or interrupted by a restart *)
(* - is closed in the database in the end.                                   *)
Silent(t) == t = Never \/ t + Window < now
Over(i) == rows[i].state = "ongoing" /\ (open.id = i => Silent(open.observed) /\ Silent(lastActive))
OverSessionsClose == \A i \in RowIDs : Over(i) ~> ~Over(i)
=============================================================================
