--------------------------- MODULE ServerTransfer ---------------------------
(* The life of one server's ownership in the Nezha dashboard: the            *)
(* server_transfers table and servers.user_id (durable), the in-memory index *)
(* of service/singleton/server_transfer.go, the control lock of              *)
(* server_control.go, the agent authentication of service/rpc/auth.go that   *)
(* reads and finishes transfers, and the agent that applies the credentials. *)
(* Every map of ServerTransferClass is keyed by server id and no handler     *)
(* relates two servers, so the module follows one server.                    *)
EXTENDS Naturals, FiniteSets

CONSTANTS
    Users, NoUser, \* user ids that may own the server; no user
    Workers,       \* request handlers of the dashboard, each serving one call
    Clients,       \* gRPC callers that present this server's UUID
    Agent,         \* the caller that is the installed agent
    MaxTransfers,  \* bound: rows of server_transfers this server ever gets
    MaxRestarts,   \* bound: restarts of the dashboard process
    Ops            \* the entry points a configuration exercises

ASSUME NumbersAssumption == MaxTransfers \in Nat /\ MaxRestarts \in Nat
ASSUME AgentAssumption == Agent \in Clients
ASSUME UserAssumption == NoUser \notin Users

NoTransfer == 0
Transfers == 1 .. MaxTransfers

(* Credentials are told apart only by what they belong to. *)
NoSecret == [kind |-> "none", of |-> 0]
Forward(t) == [kind |-> "forward", of |-> t]
Revert(t) == [kind |-> "revert", of |-> t]
Global(u) == [kind |-> "global", of |-> u]
Secrets ==
    {NoSecret} \cup {Forward(t) : t \in Transfers}
      \cup {Revert(t) : t \in Transfers} \cup {Global(u) : u \in Users}

VARIABLES
    \* durable: the database
    status,      \* server_transfers.status; Failed, Timeout and Cancelled
                 \* are only ever tested together and are all "Reverted"
    fromUser,    \* server_transfers.from_user_id
    toUser,      \* server_transfers.to_user_id
    acked,       \* rank of acked_at among the acknowledged rows, 0 for NULL
    fresh,       \* updated_at lies within the 24h recovery window
    dbOwner,     \* servers.user_id
    dbServer,    \* the servers row exists
    users,       \* the users that exist (users table and UserInfoMap)
    \* volatile: the dashboard process
    memOwner,    \* Server.UserID of the cached server
    memServer,   \* the server is in ServerShared
    pending, revertDelivery, recovery, verified, initiating,
    controlLock, \* the worker that holds the stripe's write lock
    leases,      \* owners that hold a control lease (the read lock)
    streams,     \* owners with a live IO stream to the agent
    userLock,    \* the worker that holds UserLock for a user deletion
    pc, tid, from, to,   \* each worker's call: position and local variables
    restarts,
    \* the agent and the calls that authenticate
    disk,        \* client_secret in the agent's configuration file
    reload,      \* secret of the ApplyConfig whose 10s reload timer runs
    attached,    \* the agent's task stream is published
    apc, cred, aid       \* each caller's authentication: position and locals

db == <<status, fromUser, toUser, acked, fresh, dbOwner, dbServer, users>>
index == <<pending, revertDelivery, recovery, verified, initiating>>
cache == <<memOwner, memServer>>
locks == <<controlLock, userLock>>
use == <<leases, streams>>
worker == <<pc, tid, from, to>>
agent == <<disk, reload, attached>>
auth == <<apc, cred, aid>>
vars == <<db, cache, index, locks, use, worker, restarts, agent, auth>>

Idle == "idle"
NoWorker == "none"
ASSUME WorkerAssumption == NoWorker \notin Workers

WorkerPCs ==
    {Idle, "claim", "insert", "setOwner", "publish", "announce", "unclaim", "push",
     "revert", "restore", "drop", "heal", "deliver", "recover", "tell",
     "delCancel", "delDrop", "delCache", "userCancel", "userDrop", "userRow",
     "editSave", "editCopy", "editUpdate"}
AuthPCs ==
    {Idle, "pending", "verify", "recovery", "ackRow", "promote", "verified", "global",
     "owner", "ownerPending", "foreign", "foreignPending", "admitted", "notify",
     "pushForward", "pushRevert"}

Rows == {t \in Transfers : status[t] # "none"}
Acked == {t \in Transfers : acked[t] # 0}
PendingRows == {t \in Transfers : status[t] = "Pending"}
Latest(S) == IF S = {} THEN {NoTransfer} ELSE {t \in S : \A x \in S : x <= t}

Init ==
    /\ status = [t \in Transfers |-> "none"]
    /\ acked = [t \in Transfers |-> 0]
    /\ fresh = [t \in Transfers |-> TRUE]
    /\ dbOwner \in Users /\ dbServer = TRUE /\ users = Users
    /\ fromUser = [t \in Transfers |-> NoUser] /\ toUser = fromUser
    /\ memOwner = dbOwner /\ memServer = TRUE
    /\ pending = NoTransfer /\ revertDelivery = NoTransfer /\ recovery = NoTransfer
    /\ verified = NoSecret /\ initiating = FALSE
    /\ controlLock = NoWorker /\ userLock = NoWorker /\ leases = {} /\ streams = {}
    /\ pc = [w \in Workers |-> Idle] /\ tid = [w \in Workers |-> NoTransfer]
    /\ from = [w \in Workers |-> NoUser] /\ to = from
    /\ restarts = 0
    /\ disk = Global(dbOwner) /\ reload = NoSecret /\ attached = FALSE
    /\ apc = [c \in Clients |-> Idle] /\ cred = [c \in Clients |-> NoSecret]
    /\ aid = [c \in Clients |-> NoTransfer]

RowsLeft == MaxTransfers \notin Rows   \* the bound on creating rows

Goto(w, next) == pc' = [pc EXCEPT ![w] = next]
Call(w, next, t) == Goto(w, next) /\ tid' = [tid EXCEPT ![w] = t] /\ UNCHANGED <<from, to>>
Return(w) ==
    /\ Goto(w, Idle) /\ tid' = [tid EXCEPT ![w] = NoTransfer]
    /\ from' = [from EXCEPT ![w] = NoUser] /\ to' = [to EXCEPT ![w] = NoUser]
Step(w, here, next) == pc[w] = here /\ Goto(w, next) /\ UNCHANGED <<tid, from, to>>

DropIf(slot, t) == IF slot = t THEN NoTransfer ELSE slot

(* ServerControlTransitioning: no expiry is looked at here. *)
Transitioning ==
    initiating \/ pending # NoTransfer \/ recovery # NoTransfer \/ revertDelivery # NoTransfer

(* setUserID: a server no longer cached keeps what it had. *)
SetUserIDSkipped(u) == memOwner   \* mutant: only the row is written
SetUserID(u) == IF memServer THEN u ELSE memOwner

(* Taking the stripe's write lock: no other writer and no lease. *)
TakeControlOverLeases(w) == controlLock = NoWorker /\ controlLock' = w   \* mutant: no lease is waited for
TakeControl(w) == controlLock = NoWorker /\ leases = {} /\ controlLock' = w

(* sendApplyConfigTask: the agent keeps the last ApplyConfig it received and *)
(* restarts its 10s timer; a send that fails, or dies with the connection,   *)
(* leaves the agent as it was and the stream cleared.                        *)
SendApply(secret) ==
    /\ UNCHANGED disk
    /\ \/ reload' = secret /\ UNCHANGED attached
       \/ attached' = FALSE /\ UNCHANGED reload

(* PushIfOnline and pushRevertIfOnline, at the re-check under the send lock. *)
ForwardCurrentUnchecked(t) == TRUE   \* mutant: no re-check under the send lock
ForwardCurrent(t) == pending = t
SendForward(t) ==
    /\ IF attached /\ ForwardCurrent(t) THEN SendApply(Forward(t)) ELSE UNCHANGED agent
    /\ UNCHANGED revertDelivery
SendRevert(t) ==
    IF attached
      THEN LET live == revertDelivery # NoTransfer /\ fresh[revertDelivery] IN
           /\ revertDelivery' = IF live THEN revertDelivery ELSE NoTransfer
           /\ IF live /\ revertDelivery = t THEN SendApply(Revert(t)) ELSE UNCHANGED agent
      ELSE UNCHANGED <<agent, revertDelivery>>

-----------------------------------------------------------------------------
(* batchMoveServer, Retry and InitiateExclusive.                             *)

(* batchMoveServer reads the cached owner before it asks for the claim. *)
BatchMove(w) ==
    /\ "move" \in Ops /\ pc[w] = Idle /\ RowsLeft /\ memServer /\ userLock = NoWorker
    /\ \E u \in users \ {memOwner} :
         from' = [from EXCEPT ![w] = memOwner] /\ to' = [to EXCEPT ![w] = u]
    /\ Goto(w, "claim")
    /\ UNCHANGED <<db, cache, index, locks, use, tid, restarts, agent, auth>>

(* Retry reads the owner's row and checks that the target still exists. *)
Retry(w) ==
    /\ "retry" \in Ops /\ pc[w] = Idle /\ RowsLeft /\ dbServer /\ userLock = NoWorker
    /\ \E prev \in Rows \ PendingRows :
         /\ toUser[prev] \in users \ {dbOwner}
         /\ from' = [from EXCEPT ![w] = dbOwner] /\ to' = [to EXCEPT ![w] = toUser[prev]]
    /\ Goto(w, "claim")
    /\ UNCHANGED <<db, cache, index, locks, use, tid, restarts, agent, auth>>

(* The claim is refused while a transfer is pending or being created; a      *)
(* build too old for the task is refused before. The owner is not looked at  *)
(* again: a configuration without "staleOwner" leaves out the requests whose *)
(* owner was rolled back between the read and the claim.                     *)
OwnerUnmoved(w) == "staleOwner" \in Ops \/ from[w] = dbOwner
ClaimFreeWithoutInitiating == pending = NoTransfer   \* mutant: the claim is not looked at
ClaimFree == pending = NoTransfer /\ ~initiating

Claim(w) ==
    /\ \/ /\ ClaimFree /\ initiating' = TRUE
          /\ RowsLeft /\ OwnerUnmoved(w) /\ Step(w, "claim", "insert")
       \/ /\ ~ClaimFree \/ "old" \in Ops \/ ~RowsLeft \/ ~OwnerUnmoved(w)
          /\ pc[w] = "claim" /\ Return(w) /\ UNCHANGED initiating
    /\ UNCHANGED <<db, cache, pending, revertDelivery, recovery, verified, locks, use,
                   restarts, agent, auth>>

(* The transaction of Initiate: the row and servers.user_id, or neither. *)
Insert(w) ==
    /\ pc[w] = "insert"
    /\ \/ /\ dbServer
          /\ \E t \in Transfers :
                /\ t - 1 \in Latest(Rows)
                /\ status' = [status EXCEPT ![t] = "Pending"]
                /\ fromUser' = [fromUser EXCEPT ![t] = from[w]]
                /\ toUser' = [toUser EXCEPT ![t] = to[w]]
                /\ dbOwner' = to[w]
                /\ Call(w, "setOwner", t)
       \/ /\ ~dbServer \/ "dberr" \in Ops
          /\ Call(w, "unclaim", NoTransfer) /\ UNCHANGED <<status, fromUser, toUser, dbOwner>>
    /\ UNCHANGED <<acked, fresh, dbServer, users, cache, index, locks, use, restarts, agent, auth>>

(* Register: the cached owner first, then the pending entry. *)
SetOwner(w) ==
    /\ TakeControl(w) /\ Step(w, "setOwner", "publish")
    /\ memOwner' = SetUserID(to[w])
    /\ UNCHANGED <<db, memServer, index, userLock, use, restarts, agent, auth>>

(* Mutants of Publish: the long-term credential goes with the old transfer; *)
(* the queued rollback stays.                                               *)
PublishBehindRollback(w) ==
    /\ Step(w, "publish", "announce") /\ pending' = tid[w]
    /\ UNCHANGED <<db, cache, revertDelivery, recovery, verified, initiating, locks, use, restarts,
                   agent, auth>>

Publish(w) ==
    /\ Step(w, "publish", "announce")
    /\ pending' = tid[w] /\ revertDelivery' = NoTransfer
    /\ UNCHANGED <<db, cache, recovery, verified, initiating, locks, use, restarts, agent, auth>>

(* The end of Register: revoke the IO streams, broadcast, release the lock. *)
Announce(w) ==
    /\ Step(w, "announce", "unclaim")
    /\ streams' = {} /\ controlLock' = NoWorker
    /\ UNCHANGED <<db, cache, index, userLock, leases, restarts, agent, auth>>

(* The deferred release of the claim. *)
Unclaim(w) ==
    /\ pc[w] = "unclaim" /\ IF tid[w] = NoTransfer THEN Return(w) ELSE Call(w, "push", tid[w])
    /\ initiating' = FALSE
    /\ UNCHANGED <<db, cache, pending, revertDelivery, recovery, verified, locks, use,
                   restarts, agent, auth>>

Push(w) ==
    /\ pc[w] = "push" /\ Return(w) /\ SendForward(tid[w])
    /\ UNCHANGED <<db, cache, pending, recovery, verified, initiating, locks, use, restarts, auth>>

-----------------------------------------------------------------------------
(* Cancel, MarkFailed, MarkTimeout: the shared body revertTransition.        *)

(* cancelServerTransfer names any row, settled ones too, and even one whose  *)
(* Register still runs ("cancelEarly"); the sweeper names the pending entry  *)
(* when its 24h are over, RequestTask when the agent reports a failure or    *)
(* turns out too old for the task.                                           *)
Unpublished(t) == \E w \in Workers : pc[w] \in {"setOwner", "publish"} /\ tid[w] = t
SweepCandidateOnline(t) == t = pending /\ attached   \* mutant: an offline agent is not swept
SweepCandidate(t) == t = pending

StartRevert(w) ==
    /\ pc[w] = Idle
    /\ \E t \in Rows :
         /\ \/ "cancelEarly" \in Ops
            \/ "cancel" \in Ops /\ ~Unpublished(t)
            \/ "timeout" \in Ops /\ SweepCandidate(t)
            \/ "fail" \in Ops /\ attached /\ t = pending
         /\ Call(w, "revert", t)
    /\ UNCHANGED <<db, cache, index, locks, use, restarts, agent, auth>>

(* The transaction, under the control lock: compare-and-set of the status    *)
(* and restoration of servers.user_id, or nothing when a row is gone or the  *)
(* database fails; a row settled by somebody else is not touched.            *)
StillPendingUnchecked(t) == TRUE   \* mutant: the update is not a compare-and-set
StillPending(t) == status[t] = "Pending"

RevertRow(w) ==
    LET t == tid[w] IN
    /\ pc[w] = "revert"
    /\ \/ /\ StillPending(t) /\ dbServer
          /\ status' = [status EXCEPT ![t] = "Reverted"]
          /\ dbOwner' = fromUser[t]
          /\ TakeControl(w) /\ Step(w, "revert", "restore")
       \/ /\ (StillPending(t) /\ ~dbServer) \/ "dberr" \in Ops
          /\ controlLock = NoWorker /\ leases = {}
          /\ Return(w) /\ UNCHANGED <<status, dbOwner, controlLock>>
       \/ /\ ~StillPending(t)
          /\ TakeControl(w) /\ Step(w, "revert", "heal") /\ UNCHANGED <<status, dbOwner>>
    /\ UNCHANGED <<fromUser, toUser, acked, fresh, dbServer, users, cache, index, userLock, use,
                   restarts, agent, auth>>

RestoreOwner(w) ==
    /\ Step(w, "restore", "drop")
    /\ memOwner' = SetUserID(fromUser[tid[w]])
    /\ UNCHANGED <<db, memServer, index, locks, use, restarts, agent, auth>>

DropPending(w) ==
    /\ Step(w, "drop", "deliver")
    /\ pending' = DropIf(pending, tid[w])
    /\ UNCHANGED <<db, cache, revertDelivery, recovery, verified, initiating, locks, use,
                   restarts, agent, auth>>

(* A row settled by somebody else: only the stale entry goes. *)
HealPending(w) ==
    /\ pc[w] = "heal" /\ Return(w)
    /\ pending' = DropIf(pending, tid[w]) /\ controlLock' = NoWorker
    /\ UNCHANGED <<db, cache, revertDelivery, recovery, verified, initiating, userLock, use,
                   restarts, agent, auth>>

RegisterRevertDelivery(w) ==
    /\ Step(w, "deliver", "recover")
    /\ revertDelivery' = tid[w]
    /\ UNCHANGED <<db, cache, pending, recovery, verified, initiating, locks, use,
                   restarts, agent, auth>>

RegisterTerminalSecretRecovery(w) ==
    /\ Step(w, "recover", "tell")
    /\ recovery' = tid[w]
    /\ UNCHANGED <<db, cache, pending, revertDelivery, verified, initiating, locks, use,
                   restarts, agent, auth>>

(* Revoke the IO streams, broadcast, push the rollback, release the lock. *)
PushRevert(w) ==
    /\ pc[w] = "tell" /\ Return(w) /\ SendRevert(tid[w])
    /\ streams' = {} /\ controlLock' = NoWorker
    /\ UNCHANGED <<db, cache, pending, recovery, verified, initiating, userLock, leases,
                   restarts, auth>>

-----------------------------------------------------------------------------
(* batchDeleteServer and OnUserDelete with their transfer hooks.             *)

DeleteServer(w) ==
    /\ "deleteServer" \in Ops /\ pc[w] = Idle /\ dbServer
    /\ dbServer' = FALSE /\ Call(w, "delCancel", NoTransfer)
    /\ UNCHANGED <<status, fromUser, toUser, acked, fresh, dbOwner, users, cache, index, locks,
                   use, restarts, agent, auth>>

(* OnServersDeleted settles the pending row without touching the server ... *)
CancelRows(w, S, next) ==
    /\ status' = [t \in Transfers |-> IF t \in S THEN "Reverted" ELSE status[t]]
    /\ \E last \in Latest(S) : Call(w, next, last)
    /\ UNCHANGED <<fromUser, toUser, acked, fresh, dbOwner, dbServer, users>>

RowsOfServerAfterRecheck == {t \in PendingRows : dbServer}   \* mutant: joined with the deleted row
RowsOfServer == PendingRows
OnServersDeletedRows(w) ==
    /\ pc[w] = "delCancel" /\ CancelRows(w, RowsOfServer, "delDrop")
    /\ UNCHANGED <<cache, index, locks, use, restarts, agent, auth>>

(* ... then drops the slots of that transfer, and any recovery slot. *)
OnServersDeletedSlots(w) ==
    /\ Step(w, "delDrop", "delCache")
    /\ IF tid[w] = NoTransfer THEN UNCHANGED <<pending, revertDelivery>>
         ELSE pending' = DropIf(pending, tid[w]) /\ revertDelivery' = DropIf(revertDelivery, tid[w])
    /\ recovery' = NoTransfer /\ streams' = {}
    /\ UNCHANGED <<db, cache, verified, initiating, locks, leases, restarts, agent, auth>>

Release(w) == userLock' = IF userLock = w THEN NoWorker ELSE userLock

DeleteCached(w) ==
    /\ pc[w] = "delCache" /\ Return(w)
    /\ memServer' = FALSE /\ Release(w)
    /\ UNCHANGED <<db, memOwner, index, controlLock, use, restarts, agent, auth>>

(* OnUserDelete holds UserLock to its end; from[w] is the leaving user. *)
DeleteUser(w) ==
    /\ "deleteUser" \in Ops /\ pc[w] = Idle /\ userLock = NoWorker
    /\ \E u \in users : from' = [from EXCEPT ![w] = u]
    /\ Goto(w, "userCancel") /\ userLock' = w
    /\ UNCHANGED <<db, cache, index, controlLock, use, tid, to, restarts, agent, auth>>

RowsToUser(u) == {t \in PendingRows : u = toUser[t]}   \* mutant: the giver is forgotten
RowsOfUser(u) == {t \in PendingRows : u \in {fromUser[t], toUser[t]}}
OnUsersDeletedRows(w) ==
    /\ pc[w] = "userCancel" /\ CancelRows(w, RowsOfUser(from[w]), "userDrop")
    /\ UNCHANGED <<cache, index, locks, use, restarts, agent, auth>>

OnUsersDeletedSlots(w) ==
    /\ Step(w, "userDrop", "userRow")
    /\ IF tid[w] = NoTransfer THEN UNCHANGED <<pending, revertDelivery, recovery>>
         ELSE /\ pending' = DropIf(pending, tid[w])
              /\ revertDelivery' = DropIf(revertDelivery, tid[w])
              /\ recovery' = DropIf(recovery, tid[w])
    /\ UNCHANGED <<db, cache, verified, initiating, locks, use, restarts, agent, auth>>

(* The transaction removes the user, and the server when the cache says it   *)
(* is theirs; the server's own hooks follow.                                 *)
DeleteUserRow(w) ==
    /\ pc[w] = "userRow" /\ users' = users \ {from[w]}
    /\ IF memServer /\ memOwner = from[w]
         THEN dbServer' = FALSE /\ Call(w, "delCancel", NoTransfer) /\ UNCHANGED userLock
         ELSE Return(w) /\ Release(w) /\ UNCHANGED dbServer
    /\ UNCHANGED <<status, fromUser, toUser, acked, fresh, dbOwner, cache, index, controlLock, use,
                   restarts, agent, auth>>

-----------------------------------------------------------------------------
(* updateServer edits names and notes, but reads and saves the whole row.    *)

UpdateServer(w) ==
    /\ pc[w] = Idle /\ dbServer
    /\ Goto(w, "editSave") /\ from' = [from EXCEPT ![w] = dbOwner]
    /\ UNCHANGED <<db, cache, index, locks, use, tid, to, restarts, agent, auth>>

(* gorm's Save writes every column, and inserts a row that is gone. *)
SaveServer(w) ==
    /\ Step(w, "editSave", "editCopy")
    /\ dbOwner' = from[w] /\ dbServer' = TRUE
    /\ UNCHANGED <<status, fromUser, toUser, acked, fresh, users, cache, index, locks, use,
                   restarts, agent, auth>>

(* CopyFromRunningServer fails on a server that is no longer cached. *)
CopyServer(w) ==
    /\ pc[w] = "editCopy"
    /\ IF memServer THEN Step(w, "editCopy", "editUpdate") ELSE Return(w)
    /\ UNCHANGED <<db, cache, index, locks, use, restarts, agent, auth>>

(* The new object, with the owner it was read with, replaces the cached one. *)
ReplaceServer(w) ==
    /\ pc[w] = "editUpdate" /\ Return(w)
    /\ memOwner' = from[w] /\ memServer' = TRUE
    /\ UNCHANGED <<db, index, locks, use, restarts, agent, auth>>

-----------------------------------------------------------------------------
(* authHandler.check, one step per lookup: the maps it reads are guarded by  *)
(* different locks and other calls run in between.                           *)

At(c, here) == apc[c] = here
AGo(c, next) == apc' = [apc EXCEPT ![c] = next] /\ UNCHANGED <<cred, aid>>
AFind(c, next, t) ==
    /\ apc' = [apc EXCEPT ![c] = next] /\ aid' = [aid EXCEPT ![c] = t] /\ UNCHANGED cred
AEnd(c) ==
    /\ apc' = [apc EXCEPT ![c] = Idle]
    /\ cred' = [cred EXCEPT ![c] = NoSecret] /\ aid' = [aid EXCEPT ![c] = NoTransfer]

(* The agent presents the secret of its file; any other caller some user's   *)
(* own global secret, as an operator does who configures it by hand.         *)
AuthStart(c) ==
    /\ At(c, Idle) /\ apc' = [apc EXCEPT ![c] = "pending"] /\ UNCHANGED aid
    /\ IF c = Agent THEN ~attached /\ cred' = [cred EXCEPT ![c] = disk]
         ELSE \E u \in users : cred' = [cred EXCEPT ![c] = Global(u)]
    /\ UNCHANGED <<db, cache, index, locks, use, worker, restarts, agent>>

(* LookupByHandshakeSecret. *)
AuthPending(c) ==
    /\ At(c, "pending")
    /\ IF pending # NoTransfer /\ cred[c] = Forward(pending)
         THEN IF memServer THEN AFind(c, "verify", pending) ELSE AEnd(c)
         ELSE AGo(c, "recovery")
    /\ UNCHANGED <<db, cache, index, locks, use, worker, restarts, agent>>

(* MarkVerified, atomic under c.mu; its database write may fail. *)
MarkVerified(c) ==
    /\ At(c, "verify")
    /\ \/ /\ pending # aid[c] /\ AFind(c, "recovery", NoTransfer)
          /\ UNCHANGED <<status, acked, pending, verified, recovery>>
       \/ /\ pending = aid[c] /\ status[pending] = "Pending"
          /\ status' = [status EXCEPT ![pending] = "Verified"]
          /\ acked' = [acked EXCEPT ![pending] = Cardinality(Acked) + 1]
          /\ verified' = Forward(pending)
          /\ pending' = NoTransfer /\ recovery' = NoTransfer /\ AFind(c, "admitted", NoTransfer)
       \/ /\ pending = aid[c] /\ status[pending] # "Pending"
          /\ pending' = NoTransfer /\ AFind(c, "recovery", NoTransfer)
          /\ UNCHANGED <<status, acked, verified, recovery>>
       \/ /\ "dberr" \in Ops /\ pending = aid[c] /\ AEnd(c)
          /\ UNCHANGED <<status, acked, pending, verified, recovery>>
    /\ UNCHANGED <<fromUser, toUser, fresh, dbOwner, dbServer, users, cache, revertDelivery,
                   initiating, locks, use, worker, restarts, agent>>

(* LookupByTerminalSecretRecovery prunes an expired slot, then matches. *)
AuthRecovery(c) ==
    /\ At(c, "recovery")
    /\ LET live == recovery # NoTransfer /\ fresh[recovery] IN
       /\ recovery' = IF live THEN recovery ELSE NoTransfer
       /\ CASE live /\ cred[c] \in {Forward(recovery), Revert(recovery)} /\ ~memServer -> AEnd(c)
            [] live /\ cred[c] = Forward(recovery) /\ memServer -> AGo(c, "admitted")
            [] live /\ cred[c] = Revert(recovery) /\ memServer -> AFind(c, "ackRow", recovery)
            [] OTHER -> AGo(c, "verified")
    /\ UNCHANGED <<db, cache, pending, revertDelivery, verified, initiating, locks, use, worker,
                   restarts, agent>>

(* MarkRevertDelivered: acked_at in the row, then the slots under c.mu. A    *)
(* failed write is logged and the caller admitted all the same.              *)
AckRow(c) ==
    /\ At(c, "ackRow")
    /\ \/ /\ acked' = IF status[aid[c]] = "Reverted" /\ acked[aid[c]] = 0
                       THEN [acked EXCEPT ![aid[c]] = Cardinality(Acked) + 1] ELSE acked
          /\ AGo(c, "promote")
       \/ "dberr" \in Ops /\ AFind(c, "admitted", NoTransfer) /\ UNCHANGED acked
    /\ UNCHANGED <<status, fromUser, toUser, fresh, dbOwner, dbServer, users, cache, index, locks,
                   use, worker, restarts, agent>>

Promoted(t) == IF recovery = t THEN Revert(t) ELSE verified
PromoteKeepingDelivery(c) ==   \* mutant: the push queue is left as it is
    /\ At(c, "promote") /\ AFind(c, "admitted", NoTransfer)
    /\ verified' = Promoted(aid[c]) /\ recovery' = DropIf(recovery, aid[c])
    /\ UNCHANGED <<db, cache, pending, revertDelivery, initiating, locks, use, worker, restarts, agent>>
Promote(c) ==
    /\ At(c, "promote") /\ AFind(c, "admitted", NoTransfer)
    /\ verified' = Promoted(aid[c])
    /\ recovery' = DropIf(recovery, aid[c]) /\ revertDelivery' = DropIf(revertDelivery, aid[c])
    /\ UNCHANGED <<db, cache, pending, initiating, locks, use, worker, restarts, agent>>

(* LookupServerByVerifiedHandshakeSecret. *)
AuthVerified(c) ==
    /\ At(c, "verified")
    /\ IF cred[c] # verified THEN AGo(c, "global")
         ELSE IF memServer THEN AGo(c, "admitted") ELSE AEnd(c)
    /\ UNCHANGED <<db, cache, index, locks, use, worker, restarts, agent>>

(* AgentSecretToUserId, read under UserLock. *)
AuthGlobal(c) ==
    /\ At(c, "global") /\ userLock = NoWorker
    /\ IF cred[c].kind = "global" /\ cred[c].of \in users THEN AGo(c, "owner") ELSE AEnd(c)
    /\ UNCHANGED <<db, cache, index, locks, use, worker, restarts, agent>>

(* authorizeAgentForUUID: the owner, then the pending entry of the owner's   *)
(* path, or the rollback and the pending entry of the former owner's path.   *)
(* A UUID no longer known registers another server, outside this module.     *)
AuthOwner(c) ==
    /\ At(c, "owner")
    /\ IF ~memServer THEN AEnd(c)
         ELSE AGo(c, IF cred[c] = Global(memOwner) THEN "ownerPending" ELSE "foreign")
    /\ UNCHANGED <<db, cache, index, locks, use, worker, restarts, agent>>

AuthOwnerAnyway(c) ==   \* mutant: the owner's secret is enough
    /\ At(c, "ownerPending") /\ AGo(c, "admitted")
    /\ UNCHANGED <<db, cache, index, locks, use, worker, restarts, agent>>
AuthOwnerPending(c) ==
    /\ At(c, "ownerPending")
    /\ IF pending # NoTransfer THEN AEnd(c) ELSE AGo(c, "admitted")
    /\ UNCHANGED <<db, cache, index, locks, use, worker, restarts, agent>>

(* LookupRevertDelivery prunes an expired slot. *)
AuthForeign(c) ==
    /\ At(c, "foreign")
    /\ LET live == revertDelivery # NoTransfer /\ fresh[revertDelivery] IN
       /\ revertDelivery' = IF live THEN revertDelivery ELSE NoTransfer
       /\ IF live /\ cred[c] = Global(fromUser[revertDelivery])
            THEN AGo(c, "admitted") ELSE AGo(c, "foreignPending")
    /\ UNCHANGED <<db, cache, pending, recovery, verified, initiating, locks, use, worker,
                   restarts, agent>>

AuthForeignPending(c) ==
    /\ At(c, "foreignPending")
    /\ IF pending # NoTransfer /\ cred[c] = Global(fromUser[pending])
         THEN AGo(c, "admitted") ELSE AEnd(c)
    /\ UNCHANGED <<db, cache, index, locks, use, worker, restarts, agent>>

-----------------------------------------------------------------------------
(* RequestTask publishes the agent's stream and calls OnAgentReconnect; any  *)
(* other admitted call is a unary report that changes nothing here, and a    *)
(* connection the agent has left for a newer secret is gone.                 *)

Attach(c) ==
    /\ At(c, "admitted")
    /\ IF c = Agent /\ memServer /\ cred[c] = disk
         THEN attached' = TRUE /\ apc' = [apc EXCEPT ![c] = "notify"]
              /\ cred' = [cred EXCEPT ![c] = NoSecret] /\ aid' = [aid EXCEPT ![c] = NoTransfer]
         ELSE AEnd(c) /\ UNCHANGED attached
    /\ UNCHANGED <<db, cache, index, locks, use, worker, restarts, disk, reload>>

(* OnAgentReconnect looks a transfer up; the push re-checks it. *)
OnAgentReconnect(c) ==
    /\ At(c, "notify")
    /\ LET live == revertDelivery # NoTransfer /\ fresh[revertDelivery] IN
       IF pending # NoTransfer
         THEN AFind(c, "pushForward", pending) /\ UNCHANGED revertDelivery
         ELSE /\ revertDelivery' = IF live THEN revertDelivery ELSE NoTransfer
              /\ IF live THEN AFind(c, "pushRevert", revertDelivery) ELSE AEnd(c)
    /\ UNCHANGED <<db, cache, pending, recovery, verified, initiating, locks, use, worker,
                   restarts, agent>>

PushOnReconnect(c) ==
    /\ \/ At(c, "pushForward") /\ SendForward(aid[c])
       \/ At(c, "pushRevert") /\ SendRevert(aid[c])
    /\ AEnd(c)
    /\ UNCHANGED <<db, cache, pending, recovery, verified, initiating, locks, use, worker, restarts>>

(* The agent, as the comments of server_transfer.go describe it.             *)
(* The 10s timer fires: the secret is saved and the connection made anew. *)
AgentReload ==
    /\ reload # NoSecret /\ disk' = reload /\ reload' = NoSecret /\ attached' = FALSE
    /\ UNCHANGED <<db, cache, index, locks, use, worker, restarts, auth>>

(* The stream breaks; a restart of the agent also forgets a running timer. *)
AgentDrop ==
    /\ "drop" \in Ops /\ (attached \/ reload # NoSecret) /\ attached' = FALSE
    /\ reload' \in {reload, NoSecret} /\ UNCHANGED disk
    /\ UNCHANGED <<db, cache, index, locks, use, worker, restarts, auth>>

(* 24 hours pass after a rollback; any agent's call may then prune the slot. *)
Expire ==
    /\ "expire" \in Ops
    /\ \E t \in Transfers :
         status[t] = "Reverted" /\ fresh[t] /\ fresh' = [fresh EXCEPT ![t] = FALSE]
    /\ UNCHANGED <<status, fromUser, toUser, acked, dbOwner, dbServer, users, cache, index, locks,
                   use, worker, restarts, agent, auth>>

PruneRecovery ==
    /\ recovery # NoTransfer /\ ~fresh[recovery] /\ recovery' = NoTransfer
    /\ UNCHANGED <<db, cache, pending, revertDelivery, verified, initiating, locks, use, worker,
                   restarts, agent, auth>>

-----------------------------------------------------------------------------
(* BeginServerControl for a user who is not an admin, and what it is for:    *)
(* the lease is held until the IO stream is registered.                      *)

BeginServerControl(u) ==
    /\ "control" \in Ops /\ controlLock = NoWorker /\ u \notin leases
    /\ memServer /\ memOwner = u /\ ~Transitioning
    /\ leases' = leases \cup {u}
    /\ UNCHANGED <<db, cache, index, locks, streams, worker, restarts, agent, auth>>

RegisterStream(u) ==
    /\ u \in leases /\ streams' = streams \cup {u} /\ leases' = leases \ {u}
    /\ UNCHANGED <<db, cache, index, locks, worker, restarts, agent, auth>>

EndControl(u) ==
    /\ u \in leases /\ leases' = leases \ {u}
    /\ UNCHANGED <<db, cache, index, locks, streams, worker, restarts, agent, auth>>

CloseStream(u) ==
    /\ u \in streams /\ streams' = streams \ {u}
    /\ UNCHANGED <<db, cache, index, locks, leases, worker, restarts, agent, auth>>

-----------------------------------------------------------------------------
(* The process dies and NewServerTransferClass rebuilds the index.           *)

RebuiltPendingLost == {NoTransfer}   \* mutant: a failed load is taken for an empty table
RebuiltPending == IF dbServer THEN Latest(PendingRows) ELSE {NoTransfer}

(* Later rows overwrite earlier ones; at most one row is pending, so the     *)
(* order of updated_at among reverted rows is the order of their ids.        *)
RebuiltRevertNone == {NoTransfer}   \* mutant: the rollback slots are not rebuilt
RebuiltRevert ==
    Latest({t \in Transfers : /\ status[t] = "Reverted" /\ fresh[t] /\ acked[t] = 0
                              /\ dbServer /\ dbOwner = fromUser[t]})

(* The newest acknowledged credential that fits the owner, older ones being  *)
(* looked at when a newer one does not fit.                                  *)
Fits(t) ==
    /\ dbServer
    /\ IF status[t] = "Verified"
         THEN dbOwner = toUser[t] \/ \E p \in PendingRows : fromUser[p] = toUser[t]
         ELSE dbOwner = fromUser[t]
SettledCandidates == {t \in Rows \ PendingRows : Fits(t)}   \* mutant: acked_at is not asked for
Candidates == {t \in Acked : Fits(t)}
RebuiltVerified ==
    LET candidates == Candidates
        newest == {t \in candidates : \A x \in candidates : acked[x] <= acked[t]}
    IN IF candidates = {} THEN {NoSecret}
       ELSE {IF status[t] = "Verified" THEN Forward(t) ELSE Revert(t) : t \in newest}

Restart ==
    /\ "restart" \in Ops /\ restarts < MaxRestarts /\ restarts' = restarts + 1
    /\ memOwner' = dbOwner /\ memServer' = dbServer
    /\ pending' \in RebuiltPending /\ verified' \in RebuiltVerified /\ initiating' = FALSE
    /\ revertDelivery' \in RebuiltRevert /\ recovery' = revertDelivery'
    /\ controlLock' = NoWorker /\ userLock' = NoWorker /\ leases' = {} /\ streams' = {}
    /\ pc' = [w \in Workers |-> Idle] /\ tid' = [w \in Workers |-> NoTransfer]
    /\ from' = [w \in Workers |-> NoUser] /\ to' = [w \in Workers |-> NoUser]
    /\ apc' = [c \in Clients |-> Idle] /\ cred' = [c \in Clients |-> NoSecret]
    /\ aid' = [c \in Clients |-> NoTransfer]
    /\ attached' = FALSE /\ UNCHANGED <<db, disk, reload>>

-----------------------------------------------------------------------------
Initiating(w) ==
    BatchMove(w) \/ Retry(w) \/ Claim(w) \/ Insert(w) \/ SetOwner(w) \/ Publish(w)
      \/ Announce(w) \/ Unclaim(w) \/ Push(w)
Reverting(w) ==
    StartRevert(w) \/ RevertRow(w) \/ RestoreOwner(w) \/ DropPending(w) \/ HealPending(w)
      \/ RegisterRevertDelivery(w) \/ RegisterTerminalSecretRecovery(w) \/ PushRevert(w)
Deleting(w) ==
    DeleteServer(w) \/ OnServersDeletedRows(w) \/ OnServersDeletedSlots(w) \/ DeleteCached(w)
      \/ DeleteUser(w) \/ OnUsersDeletedRows(w) \/ OnUsersDeletedSlots(w) \/ DeleteUserRow(w)
Editing(w) ==
    /\ "edit" \in Ops
    /\ UpdateServer(w) \/ SaveServer(w) \/ CopyServer(w) \/ ReplaceServer(w)
Authenticating(c) ==
    AuthStart(c) \/ AuthPending(c) \/ MarkVerified(c) \/ AuthRecovery(c) \/ AckRow(c)
      \/ Promote(c) \/ AuthVerified(c) \/ AuthGlobal(c) \/ AuthOwner(c) \/ AuthOwnerPending(c)
      \/ AuthForeign(c) \/ AuthForeignPending(c) \/ Attach(c) \/ OnAgentReconnect(c)
      \/ PushOnReconnect(c)
Controlling(u) ==
    BeginServerControl(u) \/ RegisterStream(u) \/ EndControl(u) \/ CloseStream(u)

Next ==
    \/ \E w \in Workers : Initiating(w) \/ Reverting(w) \/ Deleting(w) \/ Editing(w)
    \/ \E c \in Clients : Authenticating(c)
    \/ \E u \in Users : Controlling(u)
    \/ AgentReload \/ AgentDrop \/ Expire \/ PruneRecovery \/ Restart

Spec == Init /\ [][Next]_vars

(* Fairness. A call that has begun goes on (its steps are those of a running *)
(* goroutine) and gets the control lock, which Go hands to a waiting writer; *)
(* a lease ends with the dispatch it covers; the sweeper ticks for ever and  *)
(* finds a goroutine to run on; an agent keeps connecting, its timer fires,  *)
(* and a connection that is made again and again delivers a task in the end. *)
Serving(w) ==
    \/ Claim(w) \/ Insert(w) \/ Publish(w) \/ Announce(w) \/ Unclaim(w) \/ Push(w)
    \/ RestoreOwner(w) \/ DropPending(w) \/ HealPending(w) \/ RegisterRevertDelivery(w)
    \/ RegisterTerminalSecretRecovery(w) \/ PushRevert(w)
    \/ SaveServer(w) \/ CopyServer(w) \/ ReplaceServer(w)
Sweep == \E w \in Workers : StartRevert(w) /\ SweepCandidate(tid'[w])
Delivery == PushOnReconnect(Agent) /\ attached'
DashboardFairness ==
    /\ \A w \in Workers : WF_vars(Serving(w)) /\ SF_vars(SetOwner(w)) /\ SF_vars(RevertRow(w))
    /\ SF_vars(Sweep)
    /\ \A u \in Users : WF_vars(RegisterStream(u) \/ EndControl(u))
AgentFairness ==
    WF_vars(Authenticating(Agent)) /\ SF_vars(Delivery) /\ WF_vars(AgentReload)
ServedSpec == Spec /\ DashboardFairness

-----------------------------------------------------------------------------
(* Correctness.                                                              *)

(* Every variable has the type the code declares for it. *)
TypeOK ==
    /\ status \in [Transfers -> {"none", "Pending", "Verified", "Reverted"}]
    /\ fromUser \in [Transfers -> Users \cup {NoUser}]
    /\ toUser \in [Transfers -> Users \cup {NoUser}]
    /\ acked \in [Transfers -> Nat] /\ fresh \in [Transfers -> BOOLEAN]
    /\ dbOwner \in Users \cup {NoUser} /\ dbServer \in BOOLEAN /\ users \subseteq Users
    /\ memOwner \in Users \cup {NoUser} /\ memServer \in BOOLEAN
    /\ pending \in Transfers \cup {NoTransfer}
    /\ revertDelivery \in Transfers \cup {NoTransfer}
    /\ recovery \in Transfers \cup {NoTransfer}
    /\ verified \in Secrets /\ initiating \in BOOLEAN
    /\ controlLock \in Workers \cup {NoWorker} /\ userLock \in Workers \cup {NoWorker}
    /\ leases \subseteq Users /\ streams \subseteq Users
    /\ pc \in [Workers -> WorkerPCs] /\ tid \in [Workers -> Transfers \cup {NoTransfer}]
    /\ from \in [Workers -> Users \cup {NoUser}] /\ to \in [Workers -> Users \cup {NoUser}]
    /\ restarts \in Nat
    /\ disk \in Secrets /\ reload \in Secrets /\ attached \in BOOLEAN
    /\ apc \in [Clients -> AuthPCs] /\ cred \in [Clients -> Secrets]
    /\ aid \in [Clients -> Transfers \cup {NoTransfer}]

(* InitiateExclusive's promise: two operators, a retry, a late cancel and a  *)
(* restart never leave two Pending rows of one server.                       *)
OnePendingRow == \A s, t \in PendingRows : s = t

(* No call is between its database write and the matching memory update. *)
Quiet == \A w \in Workers : pc[w] \in {Idle, "claim", "insert", "unclaim", "push", "revert", "editSave"}

(* The owner every check of the process uses is the one in the database      *)
(* whenever no transition is in progress: Register and revertTransition must *)
(* write both, in that order, whatever overlaps them.                        *)
OwnerCoherent == Quiet /\ memServer /\ dbServer => memOwner = dbOwner

(* The pending index names a row that is Pending in the database, so the     *)
(* auth tolerance window is open for exactly the transfers in flight.        *)
IndexCoherent == Quiet /\ memServer => pending \in Latest(PendingRows)

(* The newest row alone decides who owns the server: a cancel, failure or    *)
(* timeout that comes late never moves the ownership a second time.          *)
NewestRowDecidesOwner ==
    \A t \in Latest(Rows) \ {NoTransfer} :
      dbServer => dbOwner = IF status[t] = "Reverted" THEN fromUser[t] ELSE toUser[t]

(* A queued rollback never coexists with a newer published transfer, so the  *)
(* reconnecting agent is never told to go back while it should go forward.   *)
(* Within one life of the process: a restart may rebuild the queue entry of  *)
(* an older rollback behind a pending transfer.                              *)
NoRollbackBehindTransfer == pending # NoTransfer => revertDelivery = NoTransfer

(* A transfer starts from the owner the server has, which is who gets it     *)
(* back when the transfer does not complete.                                 *)
StartsFromOwner ==
    [][\A t \in Transfers :
         status[t] = "none" /\ status'[t] = "Pending" => fromUser'[t] = dbOwner]_vars

(* Once a server's deletion has returned, none of its rows is Pending.       *)
NoOrphanPending == Quiet /\ ~memServer /\ userLock = NoWorker => PendingRows = {}

(* A rollback never hands the server to a user who has been deleted.         *)
OwnerNotResurrected == [][dbOwner' # dbOwner => dbOwner' \in users]_vars

(* The long-term credential is one the agent has proved to hold: the forward *)
(* secret of a Verified transfer or the revert secret of an acknowledged     *)
(* rollback, never the forward secret of a transfer that was rolled back.    *)
LongTermCredentialProven ==
    \A t \in Transfers :
      /\ verified = Forward(t) => status[t] = "Verified"
      /\ verified = Revert(t) => status[t] = "Reverted" /\ acked[t] # 0

(* The secrets in the order the dashboard retires them. *)
Rank(s) == CASE s.kind = "forward" -> 2 * s.of - 1
             [] s.kind = "revert" -> 2 * s.of
             [] OTHER -> 0

(* The agent applies the last ApplyConfig it receives, so none may overtake: *)
(* no push replaces a running reload, or the stored secret, by an older one. *)
NoStalePush ==
    [][reload' \notin {reload, NoSecret} =>
         Rank(reload') >= Rank(reload) /\ Rank(reload') >= Rank(disk)]_vars

(* A lease admits an operation on the current owner's behalf, and the owner  *)
(* cannot change, nor a transfer be published, before it is returned.        *)
LeaseExcludesTransfer ==
    leases # {} => controlLock = NoWorker /\ pending = NoTransfer /\ leases = {memOwner}

(* No IO stream of a former owner outlives the change of ownership. *)
StreamsOfOwner == controlLock = NoWorker => streams \subseteq {memOwner}

(* The moment a call is admitted under the global secret of u. *)
AdmittedUnder(c, u) == cred[c] = Global(u) /\ ~At(c, "admitted") /\ apc'[c] = "admitted"

(* Once Register has published a transfer its destination cannot pose as the *)
(* agent with their own global secret: only the transfer's own secret proves *)
(* the rotation.                                                             *)
DestinationHeldOut ==
    [][\A c \in Clients : pending # NoTransfer => ~AdmittedUnder(c, toUser[pending])]_vars

(* What authentication would answer now to an undisturbed call with s. *)
Admits(s) ==
    /\ memServer
    /\ \/ pending # NoTransfer /\ s = Forward(pending) /\ status[pending] = "Pending"
       \/ /\ recovery # NoTransfer /\ fresh[recovery]
          /\ s \in {Forward(recovery), Revert(recovery)}
       \/ s = verified
       \/ /\ s.kind = "global" /\ s.of \in users
          /\ IF s.of = memOwner THEN pending = NoTransfer
             ELSE \/ /\ revertDelivery # NoTransfer /\ fresh[revertDelivery]
                     /\ s.of = fromUser[revertDelivery]
                  \/ pending # NoTransfer /\ s.of = fromUser[pending]

(* The recovery slot is one per server: a second rollback takes it from a    *)
(* first one whose revert secret has not become the long-term credential.    *)
SlotTaken(s) ==
    s # verified /\ s.kind \in {"forward", "revert"} /\ status[s.of] = "Reverted"
      /\ \E t \in Transfers : t > s.of /\ status[t] = "Reverted"

(* A restart while the next transfer is pending forgets both secrets of the  *)
(* rolled back one, acknowledged or not.                                     *)
ForgottenByRestart(s) ==
    restarts > 0 /\ s.kind \in {"forward", "revert"} /\ status[s.of] = "Reverted"
      /\ s.of + 1 \in Rows

(* But for these two, the agent is admitted: its first secret, the forward   *)
(* or the revert secret of a rolled back transfer even while the next one is *)
(* pending, and every secret it has proved to hold.                          *)
AgentAdmissible ==
    Quiet /\ memServer /\ (\A t \in Transfers : fresh[t])
      /\ ~SlotTaken(disk) /\ ~ForgottenByRestart(disk) => Admits(disk)

(* A credential the agent has proved to hold is its credential until another *)
(* transfer rotates it: it is admitted for as long as it is in the agent's   *)
(* file, whatever is pending meanwhile.                                      *)
Proven(s) ==
    \/ s.kind = "forward" /\ status[s.of] = "Verified"
    \/ s.kind = "revert" /\ acked[s.of] # 0
ProvenCredentialAdmitted ==
    Quiet /\ memServer /\ Proven(disk) /\ (\A c \in Clients : ~At(c, "promote"))
      => Admits(disk)

(* No transfer stays pending: the agent proves the rotation, or somebody     *)
(* ends it, at the latest the sweeper.                                       *)
PendingSettles == \A t \in Transfers : status[t] = "Pending" ~> status[t] # "Pending"

(* The owner gets control back after a rollback, if there is an agent: it is *)
(* told, rotates, reconnects and is acknowledged, and both slots are cleared.*)
ControlReturns == AgentFairness => (revertDelivery # NoTransfer ~> ~Transitioning)

(* The tables implement the ledger.                                          *)
OpenMove ==
    LET t == CHOOSE t \in PendingRows : TRUE IN
    IF PendingRows = {} THEN [open |-> FALSE]
    ELSE [open |-> TRUE, giver |-> fromUser[t], taker |-> toUser[t]]
Ledger == INSTANCE OwnershipLedger WITH owner <- dbOwner, move <- OpenMove

(* Whatever the handlers, their overlaps and a restart do, the two tables    *)
(* together follow the ledger.                                               *)
ImplementsLedger == Ledger!Spec

=============================================================================
