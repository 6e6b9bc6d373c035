------------------------ MODULE ServerTransferProofs ------------------------
(* Theorems about ServerTransfer for any number of users, handlers, callers, *)
(* transfers and restarts.                                                   *)
EXTENDS ServerTransfer, FiniteSetTheorems, TLAPS

(* A call that works on a transfer has one in hand. *)
NamesTransfer ==
    /\ \A w \in Workers :
         pc[w] \in {"setOwner", "publish", "announce", "push", "revert", "restore", "drop",
                    "heal", "deliver", "recover", "tell"} => tid[w] \in Transfers
    /\ \A c \in Clients :
         apc[c] \in {"verify", "ackRow", "promote", "pushForward", "pushRevert"}
           => aid[c] \in Transfers
TypeInv == TypeOK /\ NamesTransfer

LEMMA ZeroIsNoTransfer == NoTransfer \notin Transfers /\ IsFiniteSet(Transfers)
  <1>1. IsFiniteSet(1 .. MaxTransfers)
    BY NumbersAssumption, FS_Interval
  <1> QED BY <1>1 DEF NoTransfer, Transfers

LEMMA AckedIsFinite == Cardinality(Acked) \in Nat
  <1>1. Acked \subseteq Transfers /\ IsFiniteSet(Transfers)
    BY ZeroIsNoTransfer DEF Acked
  <1>2. IsFiniteSet(Acked)
    BY <1>1, FS_Subset
  <1> QED BY <1>2, FS_CardinalityType

LEMMA SecretsMembers ==
  /\ NoSecret \in Secrets
  /\ \A u \in Users : Global(u) \in Secrets
  /\ \A t \in Transfers : Forward(t) \in Secrets /\ Revert(t) \in Secrets
  BY DEF Secrets

LEMMA TypeInit == Init => TypeInv
  <1> SUFFICES ASSUME Init PROVE TypeInv
    OBVIOUS
  <1>1. TypeOK
    BY SecretsMembers DEF Init, TypeOK, NoTransfer, Idle, WorkerPCs, AuthPCs
  <1>2. NamesTransfer
    BY DEF Init, NamesTransfer, Idle
  <1> QED BY <1>1, <1>2 DEF TypeInv

LEMMA SendApplyType ==
  ASSUME TypeOK, NEW s \in Secrets, SendApply(s)
  PROVE  reload' \in Secrets /\ attached' \in BOOLEAN /\ disk' = disk
  BY DEF TypeOK, SendApply

LEMMA SendForwardType ==
  ASSUME TypeOK, NEW t \in Transfers, SendForward(t)
  PROVE  /\ reload' \in Secrets /\ attached' \in BOOLEAN /\ disk' = disk
         /\ revertDelivery' = revertDelivery
  <1>1. CASE SendApply(Forward(t))
    BY <1>1, SecretsMembers, SendApplyType DEF SendForward
  <1>2. CASE UNCHANGED agent
    BY <1>2 DEF SendForward, agent, TypeOK
  <1> QED BY <1>1, <1>2 DEF SendForward

LEMMA SendRevertType ==
  ASSUME TypeOK, NEW t \in Transfers, SendRevert(t)
  PROVE  /\ reload' \in Secrets /\ attached' \in BOOLEAN /\ disk' = disk
         /\ revertDelivery' \in Transfers \cup {NoTransfer}
  <1>1. revertDelivery' \in {revertDelivery, NoTransfer}
    BY DEF SendRevert
  <1>2. revertDelivery' \in Transfers \cup {NoTransfer}
    BY <1>1 DEF TypeOK
  <1>3. CASE SendApply(Revert(t))
    BY <1>2, <1>3, SecretsMembers, SendApplyType
  <1>4. CASE UNCHANGED agent
    BY <1>2, <1>4 DEF agent, TypeOK
  <1> QED BY <1>3, <1>4 DEF SendRevert

LEMMA TypeInitiating ==
  ASSUME TypeInv, NEW w \in Workers, Initiating(w)
  PROVE  TypeInv'
  <1> USE ZeroIsNoTransfer DEF TypeInv, TypeOK, NamesTransfer, Step, Goto, Call, Return,
        db, cache, index, locks, use, worker, agent, auth, WorkerPCs, AuthPCs, Idle
  <1>1. CASE BatchMove(w)
    BY <1>1 DEF BatchMove
  <1>2. CASE Retry(w)
    BY <1>2 DEF Retry, Rows, PendingRows
  <1>3. CASE Claim(w)
    <2>1. initiating' \in BOOLEAN
      BY <1>3 DEF Claim
    <2>2. TypeOK'
      BY <1>3, <2>1 DEF Claim
    <2>3. NamesTransfer'
      BY <1>3 DEF Claim
    <2> QED BY <2>2, <2>3
  <1>4. CASE Insert(w)
    <2>1. pc' \in [Workers -> WorkerPCs] /\ tid' \in [Workers -> Transfers \cup {NoTransfer}]
      BY <1>4 DEF Insert
    <2>2. /\ status' \in [Transfers -> {"none", "Pending", "Verified", "Reverted"}]
          /\ fromUser' \in [Transfers -> Users \cup {NoUser}]
          /\ toUser' \in [Transfers -> Users \cup {NoUser}] /\ dbOwner' \in Users \cup {NoUser}
      BY <1>4 DEF Insert
    <2>3. TypeOK'
      BY <1>4, <2>1, <2>2 DEF Insert
    <2>4. NamesTransfer'
      BY <1>4, <2>1 DEF Insert
    <2> QED BY <2>3, <2>4
  <1>5. CASE SetOwner(w)
    BY <1>5 DEF SetOwner, TakeControl, SetUserID
  <1>6. CASE Publish(w)
    BY <1>6 DEF Publish
  <1>7. CASE Announce(w)
    BY <1>7 DEF Announce
  <1>8. CASE Unclaim(w)
    <2>1. /\ pc' \in [Workers -> WorkerPCs] /\ tid' \in [Workers -> Transfers \cup {NoTransfer}]
          /\ from' \in [Workers -> Users \cup {NoUser}] /\ to' \in [Workers -> Users \cup {NoUser}]
      BY <1>8 DEF Unclaim
    <2>2. TypeOK'
      BY <1>8, <2>1, ZenonT(60) DEF Unclaim
    <2>3. NamesTransfer'
      BY <1>8 DEF Unclaim
    <2> QED BY <2>2, <2>3
  <1>9. CASE Push(w)
    <2>1. /\ reload' \in Secrets /\ attached' \in BOOLEAN /\ disk' = disk
          /\ revertDelivery' = revertDelivery
      BY <1>9, SendForwardType DEF Push
    <2>2. TypeOK'
      BY <1>9, <2>1 DEF Push
    <2>3. NamesTransfer'
      BY <1>9 DEF Push
    <2> QED BY <2>2, <2>3
  <1> QED BY <1>1, <1>2, <1>3, <1>4, <1>5, <1>6, <1>7, <1>8, <1>9 DEF Initiating

LEMMA TypeReverting ==
  ASSUME TypeInv, NEW w \in Workers, Reverting(w)
  PROVE  TypeInv'
  <1> USE ZeroIsNoTransfer DEF TypeInv, TypeOK, NamesTransfer, Step, Goto, Call, Return,
        db, cache, index, locks, use, worker, agent, auth, WorkerPCs, AuthPCs, Idle
  <1>1. CASE StartRevert(w)
    BY <1>1 DEF StartRevert, Rows
  <1>2. CASE RevertRow(w)
    <2>1. tid[w] \in Transfers
      BY <1>2 DEF RevertRow
    <2>2. /\ status' \in [Transfers -> {"none", "Pending", "Verified", "Reverted"}]
          /\ dbOwner' \in Users \cup {NoUser} /\ controlLock' \in Workers \cup {NoWorker}
      BY <1>2, <2>1 DEF RevertRow, TakeControl
    <2>3. /\ pc' \in [Workers -> WorkerPCs] /\ tid' \in [Workers -> Transfers \cup {NoTransfer}]
          /\ from' \in [Workers -> Users \cup {NoUser}] /\ to' \in [Workers -> Users \cup {NoUser}]
      BY <1>2 DEF RevertRow
    <2>4. TypeOK'
      BY <1>2, <2>2, <2>3, ZenonT(60) DEF RevertRow
    <2>5. NamesTransfer'
      BY <1>2, <2>1 DEF RevertRow
    <2> QED BY <2>4, <2>5
  <1>3. CASE RestoreOwner(w)
    BY <1>3 DEF RestoreOwner, SetUserID
  <1>4. CASE DropPending(w)
    BY <1>4 DEF DropPending, DropIf
  <1>5. CASE HealPending(w)
    BY <1>5 DEF HealPending, DropIf
  <1>6. CASE RegisterRevertDelivery(w)
    BY <1>6 DEF RegisterRevertDelivery
  <1>7. CASE RegisterTerminalSecretRecovery(w)
    BY <1>7 DEF RegisterTerminalSecretRecovery
  <1>8. CASE PushRevert(w)
    <2>0. tid[w] \in Transfers /\ SendRevert(tid[w])
      BY <1>8 DEF PushRevert
    <2>1. /\ reload' \in Secrets /\ attached' \in BOOLEAN /\ disk' = disk
          /\ revertDelivery' \in Transfers \cup {NoTransfer}
      BY <2>0, SendRevertType
    <2>2. TypeOK'
      BY <1>8, <2>1 DEF PushRevert
    <2>3. NamesTransfer'
      BY <1>8 DEF PushRevert
    <2> QED BY <2>2, <2>3
  <1> QED BY <1>1, <1>2, <1>3, <1>4, <1>5, <1>6, <1>7, <1>8 DEF Reverting

LEMMA LatestMembers ==
  ASSUME NEW S \in SUBSET Transfers
  PROVE  Latest(S) \subseteq S \cup {NoTransfer}
  BY DEF Latest

LEMMA TypeDeleting ==
  ASSUME TypeInv, NEW w \in Workers, Deleting(w)
  PROVE  TypeInv'
  <1> USE ZeroIsNoTransfer DEF TypeInv, TypeOK, NamesTransfer, Step, Goto, Call, Return,
        db, cache, index, locks, use, worker, agent, auth, WorkerPCs, AuthPCs, Idle
  <1>1. CASE DeleteServer(w)
    <2>1. TypeOK'
      BY <1>1, ZenonT(60) DEF DeleteServer
    <2>2. NamesTransfer'
      BY <1>1 DEF DeleteServer
    <2> QED BY <2>1, <2>2
  <1>2. CASE OnServersDeletedRows(w)
    <2>1. PICK last \in Latest(PendingRows) : Call(w, "delDrop", last)
      BY <1>2 DEF OnServersDeletedRows, CancelRows, RowsOfServer
    <2>2. last \in Transfers \cup {NoTransfer}
      BY LatestMembers DEF PendingRows
    <2> QED BY <1>2, <2>1, <2>2 DEF OnServersDeletedRows, CancelRows
  <1>3. CASE OnServersDeletedSlots(w)
    BY <1>3 DEF OnServersDeletedSlots, DropIf
  <1>4. CASE DeleteCached(w)
    BY <1>4, ZenonT(60) DEF DeleteCached, Release
  <1>5. CASE DeleteUser(w)
    BY <1>5 DEF DeleteUser
  <1>6. CASE OnUsersDeletedRows(w)
    <2>1. PICK last \in Latest(RowsOfUser(from[w])) : Call(w, "userDrop", last)
      BY <1>6 DEF OnUsersDeletedRows, CancelRows
    <2>2. last \in Transfers \cup {NoTransfer}
      BY LatestMembers DEF PendingRows, RowsOfUser
    <2> QED BY <1>6, <2>1, <2>2 DEF OnUsersDeletedRows, CancelRows
  <1>7. CASE OnUsersDeletedSlots(w)
    BY <1>7 DEF OnUsersDeletedSlots, DropIf
  <1>8. CASE DeleteUserRow(w)
    <2>1. /\ pc' \in [Workers -> WorkerPCs] /\ tid' \in [Workers -> Transfers \cup {NoTransfer}]
          /\ from' \in [Workers -> Users \cup {NoUser}] /\ to' \in [Workers -> Users \cup {NoUser}]
          /\ users' \subseteq Users /\ dbServer' \in BOOLEAN
          /\ userLock' \in Workers \cup {NoWorker}
      BY <1>8, ZenonT(60) DEF DeleteUserRow, Release
    <2>2. TypeOK'
      BY <1>8, <2>1, ZenonT(60) DEF DeleteUserRow
    <2>3. NamesTransfer'
      BY <1>8 DEF DeleteUserRow
    <2> QED BY <2>2, <2>3
  <1> QED BY <1>1, <1>2, <1>3, <1>4, <1>5, <1>6, <1>7, <1>8 DEF Deleting

LEMMA TypeAuthenticating ==
  ASSUME TypeInv, NEW c \in Clients, Authenticating(c)
  PROVE  TypeInv'
  <1> USE ZeroIsNoTransfer DEF TypeInv, TypeOK, NamesTransfer, At, AGo, AFind, AEnd,
        db, cache, index, locks, use, worker, agent, auth, AuthPCs, Idle
  <1>1. CASE AuthStart(c)
    BY <1>1, SecretsMembers DEF AuthStart
  <1>2. CASE AuthPending(c)
    BY <1>2, SecretsMembers DEF AuthPending
  <1>3. CASE MarkVerified(c)
    <2>1. aid[c] \in Transfers
      BY <1>3 DEF MarkVerified
    <2>2. /\ status' \in [Transfers -> {"none", "Pending", "Verified", "Reverted"}]
          /\ acked' \in [Transfers -> Nat] /\ verified' \in Secrets
          /\ pending' \in Transfers \cup {NoTransfer} /\ recovery' \in Transfers \cup {NoTransfer}
      BY <1>3, <2>1, SecretsMembers, AckedIsFinite DEF MarkVerified
    <2>3. /\ apc' \in [Clients -> AuthPCs] /\ cred' \in [Clients -> Secrets]
          /\ aid' \in [Clients -> Transfers \cup {NoTransfer}]
      BY <1>3, SecretsMembers DEF MarkVerified
    <2>4. TypeOK'
      BY <1>3, <2>2, <2>3, Zenon DEF MarkVerified
    <2>5. NamesTransfer'
      BY <1>3 DEF MarkVerified
    <2> QED BY <2>4, <2>5
  <1>4. CASE AuthRecovery(c)
    <2>1. /\ apc' \in [Clients -> AuthPCs] /\ cred' \in [Clients -> Secrets]
          /\ aid' \in [Clients -> Transfers \cup {NoTransfer}]
          /\ recovery' \in Transfers \cup {NoTransfer}
      BY <1>4, SecretsMembers DEF AuthRecovery
    <2>2. TypeOK'
      BY <1>4, <2>1, ZenonT(60) DEF AuthRecovery
    <2>3. NamesTransfer'
      BY <1>4 DEF AuthRecovery
    <2> QED BY <2>2, <2>3
  <1>5. CASE AckRow(c)
    <2>1. acked' \in [Transfers -> Nat]
      BY <1>5, AckedIsFinite DEF AckRow
    <2> QED BY <1>5, <2>1 DEF AckRow
  <1>6. CASE Promote(c)
    BY <1>6, SecretsMembers DEF Promote, Promoted, DropIf
  <1>7. CASE AuthVerified(c)
    BY <1>7, SecretsMembers DEF AuthVerified
  <1>8. CASE AuthGlobal(c)
    BY <1>8, SecretsMembers DEF AuthGlobal
  <1>9. CASE AuthOwner(c)
    BY <1>9, SecretsMembers DEF AuthOwner
  <1>10. CASE AuthOwnerPending(c)
    BY <1>10, SecretsMembers DEF AuthOwnerPending
  <1>11. CASE AuthForeign(c)
    <2>1. /\ apc' \in [Clients -> AuthPCs] /\ cred' \in [Clients -> Secrets]
          /\ aid' \in [Clients -> Transfers \cup {NoTransfer}]
          /\ revertDelivery' \in Transfers \cup {NoTransfer}
      BY <1>11 DEF AuthForeign
    <2> QED BY <1>11, <2>1 DEF AuthForeign
  <1>12. CASE AuthForeignPending(c)
    <2>1. TypeOK'
      BY <1>12, SecretsMembers DEF AuthForeignPending
    <2>2. NamesTransfer'
      BY <1>12 DEF AuthForeignPending
    <2> QED BY <2>1, <2>2
  <1>13. CASE Attach(c)
    <2>1. /\ apc' \in [Clients -> AuthPCs] /\ cred' \in [Clients -> Secrets]
          /\ aid' \in [Clients -> Transfers \cup {NoTransfer}] /\ attached' \in BOOLEAN
      BY <1>13, SecretsMembers, ZenonT(60) DEF Attach
    <2>2. TypeOK'
      BY <1>13, <2>1, ZenonT(60) DEF Attach
    <2>3. NamesTransfer'
      BY <1>13 DEF Attach
    <2> QED BY <2>2, <2>3
  <1>14. CASE OnAgentReconnect(c)
    <2>1. /\ apc' \in [Clients -> AuthPCs] /\ cred' \in [Clients -> Secrets]
          /\ aid' \in [Clients -> Transfers \cup {NoTransfer}]
          /\ revertDelivery' \in Transfers \cup {NoTransfer}
      BY <1>14, SecretsMembers DEF OnAgentReconnect
    <2>2. TypeOK'
      BY <1>14, <2>1, ZenonT(60) DEF OnAgentReconnect
    <2>3. NamesTransfer'
      BY <1>14 DEF OnAgentReconnect
    <2> QED BY <2>2, <2>3
  <1>15. CASE PushOnReconnect(c)
    <2>1. /\ reload' \in Secrets /\ attached' \in BOOLEAN /\ disk' = disk
          /\ revertDelivery' \in Transfers \cup {NoTransfer}
      <3>1. aid[c] \in Transfers
        BY <1>15 DEF PushOnReconnect
      <3> QED BY <1>15, <3>1, SendForwardType, SendRevertType DEF PushOnReconnect
    <2>2. TypeOK'
      BY <1>15, <2>1, SecretsMembers DEF PushOnReconnect
    <2>3. NamesTransfer'
      BY <1>15 DEF PushOnReconnect
    <2> QED BY <2>2, <2>3
  <1> QED BY <1>1, <1>2, <1>3, <1>4, <1>5, <1>6, <1>7, <1>8, <1>9, <1>10, <1>11, <1>12, <1>13,
             <1>14, <1>15 DEF Authenticating

LEMMA RebuiltTypes ==
  ASSUME TypeOK
  PROVE  /\ RebuiltPending \subseteq Transfers \cup {NoTransfer}
         /\ RebuiltRevert \subseteq Transfers \cup {NoTransfer}
         /\ RebuiltVerified \subseteq Secrets
  <1>1. /\ RebuiltPending \subseteq Transfers \cup {NoTransfer}
        /\ RebuiltRevert \subseteq Transfers \cup {NoTransfer}
    BY LatestMembers DEF RebuiltPending, RebuiltRevert, PendingRows
  <1>2. RebuiltVerified \subseteq Secrets
    BY SecretsMembers DEF RebuiltVerified, Candidates, Acked
  <1> QED BY <1>1, <1>2

LEMMA TypeNext == TypeInv /\ [Next]_vars => TypeInv'
  <1> SUFFICES ASSUME TypeInv, [Next]_vars PROVE TypeInv'
    OBVIOUS
  <1> USE DEF TypeInv, TypeOK, NamesTransfer, db, cache, index, locks, use, worker, agent, auth
  <1>1. ASSUME NEW w \in Workers, Initiating(w) \/ Reverting(w) \/ Deleting(w) PROVE TypeInv'
    BY <1>1, TypeInitiating, TypeReverting, TypeDeleting
  <1>2. ASSUME NEW c \in Clients, Authenticating(c) PROVE TypeInv'
    BY <1>2, TypeAuthenticating
  <1>3. ASSUME NEW u \in Users, Controlling(u) PROVE TypeInv'
    <2>1. leases' \subseteq Users /\ streams' \subseteq Users
      BY <1>3 DEF Controlling, BeginServerControl, RegisterStream, EndControl, CloseStream
    <2> QED BY <1>3, <2>1
         DEF Controlling, BeginServerControl, RegisterStream, EndControl, CloseStream
  <1>4. CASE AgentReload
    BY <1>4, SecretsMembers, ZenonT(60) DEF AgentReload
  <1>5. CASE AgentDrop
    <2>1. reload' \in Secrets /\ attached' \in BOOLEAN
      BY <1>5, SecretsMembers DEF AgentDrop
    <2> QED BY <1>5, <2>1 DEF AgentDrop
  <1>6. CASE Expire
    BY <1>6 DEF Expire
  <1>7. CASE PruneRecovery
    BY <1>7 DEF PruneRecovery
  <1>8. CASE Restart
    <2>1. TypeOK'
      <3>1. /\ pending' \in Transfers \cup {NoTransfer} /\ revertDelivery' \in Transfers \cup {NoTransfer}
            /\ recovery' \in Transfers \cup {NoTransfer} /\ verified' \in Secrets
        BY <1>8, RebuiltTypes DEF Restart
      <3>2. /\ pc' \in [Workers -> WorkerPCs] /\ tid' \in [Workers -> Transfers \cup {NoTransfer}]
            /\ from' \in [Workers -> Users \cup {NoUser}] /\ to' \in [Workers -> Users \cup {NoUser}]
            /\ apc' \in [Clients -> AuthPCs] /\ cred' \in [Clients -> Secrets]
            /\ aid' \in [Clients -> Transfers \cup {NoTransfer}]
        BY <1>8, SecretsMembers DEF Restart, WorkerPCs, AuthPCs, Idle
      <3>3. /\ memOwner' \in Users \cup {NoUser} /\ memServer' \in BOOLEAN /\ initiating' \in BOOLEAN
            /\ controlLock' \in Workers \cup {NoWorker} /\ userLock' \in Workers \cup {NoWorker}
            /\ leases' \subseteq Users /\ streams' \subseteq Users /\ attached' \in BOOLEAN
        BY <1>8, Zenon DEF Restart
      <3>4. restarts' \in Nat
        BY <1>8 DEF Restart
      <3> QED BY <1>8, <3>1, <3>2, <3>3, <3>4, Zenon DEF Restart
    <2>2. NamesTransfer'
      BY <1>8 DEF Restart, Idle
    <2> QED BY <2>1, <2>2
  <1>9. CASE UNCHANGED vars
    BY <1>9 DEF vars
  <1>10. ASSUME NEW w \in Workers, Editing(w) PROVE TypeInv'
    <2>1. /\ pc' \in [Workers -> WorkerPCs] /\ tid' \in [Workers -> Transfers \cup {NoTransfer}]
          /\ from' \in [Workers -> Users \cup {NoUser}] /\ to' \in [Workers -> Users \cup {NoUser}]
      BY <1>10 DEF Editing, UpdateServer, SaveServer, CopyServer, ReplaceServer, Step, Goto, Return, WorkerPCs, Idle
    <2>2. dbOwner' \in Users \cup {NoUser} /\ memOwner' \in Users \cup {NoUser}
      BY <1>10 DEF Editing, UpdateServer, SaveServer, CopyServer, ReplaceServer
    <2>3. dbServer' \in BOOLEAN /\ memServer' \in BOOLEAN
      BY <1>10 DEF Editing, UpdateServer, SaveServer, CopyServer, ReplaceServer
    <2>4. TypeOK'
      BY <1>10, <2>1, <2>2, <2>3 DEF Editing, UpdateServer, SaveServer, CopyServer, ReplaceServer
    <2>5. NamesTransfer'
      BY <1>10 DEF Editing, UpdateServer, SaveServer, CopyServer, ReplaceServer, Step, Goto, Return, Idle
    <2> QED BY <2>4, <2>5
  <1> QED BY <1>1, <1>2, <1>3, <1>4, <1>5, <1>6, <1>7, <1>8, <1>9, <1>10 DEF Next

(* Every variable keeps its type, and no call works on a transfer that it    *)
(* does not have: the promoted credential is always a real one.              *)
THEOREM TypeCorrect == Spec => []TypeOK
  <1>1. TypeInv => TypeOK
    BY DEF TypeInv
  <1> QED BY <1>1, TypeInit, TypeNext, PTL DEF Spec

-----------------------------------------------------------------------------
(* At most one row is Pending.                                               *)

(* From the claim to its release. *)
ClaimPCs == {"insert", "setOwner", "publish", "announce", "unclaim"}
Claimed(w) == pc[w] \in ClaimPCs

(* Where a handler works on a row that it, or somebody else, has settled. *)
SettledPCs == {"restore", "drop", "heal", "delDrop", "userDrop"}
Settled(t) == status[t] \in {"Verified", "Reverted"}

(* The row of a creation that Register has not published yet. *)
Creating(t) == \E w \in Workers : pc[w] \in {"setOwner", "publish"} /\ tid[w] = t

ClaimHeld == \A w \in Workers : Claimed(w) => initiating
ClaimExclusive == \A v, w \in Workers : Claimed(v) /\ Claimed(w) => v = w
(* An edit may bring a deleted row back. *)
PendingKnown ==
    dbServer \/ (\E w \in Workers : pc[w] = "editSave")
      => \A t \in PendingRows : t = pending \/ Creating(t)
NothingPublished ==
    \A w \in Workers : pc[w] \in {"insert", "setOwner", "publish"} => pending = NoTransfer
DropsSettled ==
    \A w \in Workers : pc[w] \in SettledPCs /\ tid[w] # NoTransfer => Settled(tid[w])
RevertsRow == \A w \in Workers : pc[w] = "revert" => status[tid[w]] # "none"

ClaimInv ==
    /\ OnePendingRow /\ ClaimHeld /\ ClaimExclusive
    /\ PendingKnown /\ NothingPublished /\ DropsSettled /\ RevertsRow

LEMMA LatestBelow == \A t \in Transfers : t - 1 \in Latest(Rows) => status[t] = "none"
  BY DEF Latest, Rows, Transfers, NoTransfer

LEMMA ClaimInit == Init => ClaimInv
  <1> SUFFICES ASSUME Init PROVE ClaimInv
    OBVIOUS
  <1>1. PendingRows = {}
    BY DEF Init, PendingRows
  <1> QED BY <1>1 DEF Init, ClaimInv, OnePendingRow, ClaimHeld, ClaimExclusive, PendingKnown,
          NothingPublished, DropsSettled, RevertsRow, Claimed, ClaimPCs, SettledPCs, Idle, NoTransfer

LEMMA ClaimInitiating ==
  ASSUME TypeInv, ClaimInv, NEW w \in Workers, Initiating(w)
  PROVE  ClaimInv'
  <1> USE ZeroIsNoTransfer DEF TypeInv, TypeOK, NamesTransfer, ClaimInv, OnePendingRow, ClaimHeld,
        ClaimExclusive, PendingKnown, NothingPublished, DropsSettled, RevertsRow, Claimed, ClaimPCs,
        SettledPCs, Settled, Creating, PendingRows, Step, Goto, Call, Return, db, index, Idle
  <1>1. CASE BatchMove(w)
    BY <1>1 DEF BatchMove
  <1>2. CASE Retry(w)
    BY <1>2 DEF Retry
  <1>3. CASE Claim(w)
    BY <1>3 DEF Claim, ClaimFree
  <1>4. CASE Insert(w)
    BY <1>4, LatestBelow DEF Insert
  <1>5. CASE SetOwner(w)
    BY <1>5 DEF SetOwner
  <1>6. CASE Publish(w)
    BY <1>6 DEF Publish
  <1>7. CASE Announce(w)
    BY <1>7 DEF Announce
  <1>8. CASE Unclaim(w)
    BY <1>8 DEF Unclaim
  <1>9. CASE Push(w)
    BY <1>9 DEF Push
  <1> QED BY <1>1, <1>2, <1>3, <1>4, <1>5, <1>6, <1>7, <1>8, <1>9 DEF Initiating

LEMMA ClaimReverting ==
  ASSUME TypeInv, ClaimInv, NEW w \in Workers, Reverting(w)
  PROVE  ClaimInv'
  <1> USE ZeroIsNoTransfer DEF TypeInv, TypeOK, NamesTransfer, ClaimInv, OnePendingRow, ClaimHeld,
        ClaimExclusive, PendingKnown, NothingPublished, DropsSettled, RevertsRow, Claimed, ClaimPCs,
        SettledPCs, Settled, Creating, PendingRows, Step, Goto, Call, Return, db, index, Idle, DropIf
  <1>1. CASE StartRevert(w)
    BY <1>1 DEF StartRevert, Rows
  <1>2. CASE RevertRow(w)
    <2>1. CASE status[tid[w]] = "Pending" /\ pc'[w] = "restore"
      <3>1. /\ status' = [status EXCEPT ![tid[w]] = "Reverted"]
            /\ pc' = [pc EXCEPT ![w] = "restore"] /\ UNCHANGED <<tid, pending, initiating, dbServer>>
        BY <1>2, <2>1 DEF RevertRow, StillPending
      <3>2. tid[w] \in Transfers /\ pc[w] = "revert"
        BY <1>2 DEF RevertRow
      <3> QED BY <3>1, <3>2
    <2>2. CASE pc'[w] = Idle
      <3>1. Return(w) /\ pc[w] = "revert" /\ UNCHANGED <<status, pending, initiating, dbServer>>
        BY <1>2, <2>2 DEF RevertRow
      <3> QED BY <3>1
    <2>3. CASE status[tid[w]] # "Pending" /\ pc'[w] = "heal"
      <3>1. Step(w, "revert", "heal") /\ UNCHANGED <<status, pending, initiating, dbServer>>
        BY <1>2, <2>3 DEF RevertRow, StillPending
      <3>2. status[tid[w]] # "none"
        BY <3>1
      <3> QED BY <2>3, <3>1, <3>2
    <2> QED BY <1>2, <2>1, <2>2, <2>3 DEF RevertRow, StillPending
  <1>3. CASE RestoreOwner(w)
    BY <1>3 DEF RestoreOwner
  <1>4. CASE DropPending(w)
    BY <1>4 DEF DropPending
  <1>5. CASE HealPending(w)
    BY <1>5 DEF HealPending
  <1>6. CASE RegisterRevertDelivery(w)
    BY <1>6 DEF RegisterRevertDelivery
  <1>7. CASE RegisterTerminalSecretRecovery(w)
    BY <1>7 DEF RegisterTerminalSecretRecovery
  <1>8. CASE PushRevert(w)
    BY <1>8 DEF PushRevert
  <1> QED BY <1>1, <1>2, <1>3, <1>4, <1>5, <1>6, <1>7, <1>8 DEF Reverting

LEMMA ClaimDeleting ==
  ASSUME TypeInv, ClaimInv, NEW w \in Workers, Deleting(w)
  PROVE  ClaimInv'
  <1> USE ZeroIsNoTransfer DEF TypeInv, TypeOK, NamesTransfer, ClaimInv, OnePendingRow, ClaimHeld,
        ClaimExclusive, PendingKnown, NothingPublished, DropsSettled, RevertsRow, Claimed, ClaimPCs,
        SettledPCs, Settled, Creating, PendingRows, Step, Goto, Call, Return, db, index, Idle, DropIf
  <1>1. CASE DeleteServer(w)
    BY <1>1 DEF DeleteServer
  <1>2. CASE OnServersDeletedRows(w)
    BY <1>2, LatestMembers DEF OnServersDeletedRows, CancelRows, RowsOfServer
  <1>3. CASE OnServersDeletedSlots(w)
    BY <1>3 DEF OnServersDeletedSlots
  <1>4. CASE DeleteCached(w)
    BY <1>4 DEF DeleteCached
  <1>5. CASE DeleteUser(w)
    BY <1>5 DEF DeleteUser
  <1>6. CASE OnUsersDeletedRows(w)
    BY <1>6, LatestMembers DEF OnUsersDeletedRows, CancelRows, RowsOfUser
  <1>7. CASE OnUsersDeletedSlots(w)
    BY <1>7 DEF OnUsersDeletedSlots
  <1>8. CASE DeleteUserRow(w)
    BY <1>8 DEF DeleteUserRow
  <1> QED BY <1>1, <1>2, <1>3, <1>4, <1>5, <1>6, <1>7, <1>8 DEF Deleting

(* The calls of agents: only a verification touches a row or the entry. *)
LEMMA ClaimAuthenticating ==
  ASSUME TypeInv, ClaimInv, NEW c \in Clients, Authenticating(c)
  PROVE  ClaimInv'
  <1> USE ZeroIsNoTransfer DEF TypeInv, TypeOK, NamesTransfer, ClaimInv, OnePendingRow, ClaimHeld,
        ClaimExclusive, PendingKnown, NothingPublished, DropsSettled, RevertsRow, Claimed, ClaimPCs,
        SettledPCs, Settled, Creating, PendingRows, db, index, worker
  <1>1. CASE MarkVerified(c)
    BY <1>1 DEF MarkVerified
  <1>2. CASE AuthStart(c) \/ AuthPending(c) \/ AuthRecovery(c) \/ AckRow(c) \/ Promote(c)
               \/ AuthVerified(c) \/ AuthGlobal(c) \/ AuthOwner(c) \/ AuthOwnerPending(c)
    BY <1>2 DEF AuthStart, AuthPending, AuthRecovery, AckRow, Promote, AuthVerified, AuthGlobal,
       AuthOwner, AuthOwnerPending
  <1>3. CASE AuthForeign(c) \/ AuthForeignPending(c) \/ Attach(c) \/ OnAgentReconnect(c)
               \/ PushOnReconnect(c)
    BY <1>3 DEF AuthForeign, AuthForeignPending, Attach, OnAgentReconnect, PushOnReconnect
  <1> QED BY <1>1, <1>2, <1>3 DEF Authenticating

LEMMA ClaimNext == TypeInv /\ ClaimInv /\ [Next]_vars => ClaimInv'
  <1> SUFFICES ASSUME TypeInv, ClaimInv, [Next]_vars PROVE ClaimInv'
    OBVIOUS
  <1> USE ZeroIsNoTransfer DEF ClaimInv, OnePendingRow, ClaimHeld, ClaimExclusive, PendingKnown,
        NothingPublished, DropsSettled, RevertsRow, Claimed, ClaimPCs, SettledPCs, Settled, Creating,
        PendingRows, db, index, worker
  <1>1. ASSUME NEW w \in Workers, Initiating(w) \/ Reverting(w) \/ Deleting(w) PROVE ClaimInv'
    BY <1>1, ClaimInitiating, ClaimReverting, ClaimDeleting
  <1>2. ASSUME NEW c \in Clients, Authenticating(c) PROVE ClaimInv'
    BY <1>2, ClaimAuthenticating
  <1>3. ASSUME NEW u \in Users, Controlling(u) PROVE ClaimInv'
    BY <1>3 DEF Controlling, BeginServerControl, RegisterStream, EndControl, CloseStream
  <1>4. CASE AgentReload \/ AgentDrop \/ Expire \/ PruneRecovery
    BY <1>4 DEF AgentReload, AgentDrop, Expire, PruneRecovery
  <1>5. CASE Restart
    BY <1>5 DEF Restart, RebuiltPending, Latest, Idle
  <1>6. CASE UNCHANGED vars
    BY <1>6 DEF vars
  <1>7. ASSUME NEW w \in Workers, Editing(w) PROVE ClaimInv'
    <2>1. /\ UNCHANGED <<status, fromUser, toUser, pending, initiating, tid>>
          \/ (Return(w) /\ UNCHANGED <<status, fromUser, toUser, pending, initiating>>)
      BY <1>7 DEF Editing, UpdateServer, SaveServer, CopyServer, ReplaceServer, Step, Goto
    <2>2. /\ pc[w] \in {Idle, "editSave", "editCopy", "editUpdate"}
          /\ pc'[w] \in {Idle, "editSave", "editCopy", "editUpdate"}
          /\ \A v \in Workers \ {w} : pc'[v] = pc[v] /\ tid'[v] = tid[v]
      <3>1. \E next \in {Idle, "editSave", "editCopy", "editUpdate"} : pc' = [pc EXCEPT ![w] = next]
        BY <1>7 DEF Editing, UpdateServer, SaveServer, CopyServer, ReplaceServer, Step, Goto, Return
      <3>2. \A v \in Workers \ {w} : tid'[v] = tid[v]
        BY <2>1 DEF Return, TypeInv, TypeOK
      <3>3. pc[w] \in {Idle, "editSave", "editCopy", "editUpdate"}
        BY <1>7 DEF Editing, UpdateServer, SaveServer, CopyServer, ReplaceServer, Step
      <3> QED BY <3>1, <3>2, <3>3
    <2>3. OnePendingRow' /\ ClaimHeld' /\ ClaimExclusive'
      BY <2>1, <2>2 DEF Idle, Return
    <2>4. NothingPublished' /\ DropsSettled' /\ RevertsRow'
      BY <2>1, <2>2 DEF Idle, Return
    <2>5. PendingKnown'
      <3>1. \A t \in PendingRows' : t \in PendingRows /\ (Creating(t) => Creating(t)')
        BY <2>1, <2>2 DEF Idle, Return
      <3>2. (dbServer \/ (\E v \in Workers : pc[v] = "editSave"))'
              => dbServer \/ (\E v \in Workers : pc[v] = "editSave")
        <4>1. CASE UpdateServer(w) \/ SaveServer(w)
          BY <4>1 DEF UpdateServer, SaveServer, Step
        <4>2. CASE CopyServer(w) \/ ReplaceServer(w)
          <5>1. dbServer' = dbServer /\ pc'[w] # "editSave"
            BY <4>2 DEF CopyServer, ReplaceServer, Step, Goto, Return, Idle, TypeInv, TypeOK
          <5> QED BY <2>2, <5>1
        <4> QED BY <1>7, <4>1, <4>2 DEF Editing
      <3> QED BY <2>1, <3>1, <3>2 DEF Return
    <2> QED BY <2>3, <2>4, <2>5
  <1> QED BY <1>1, <1>2, <1>3, <1>4, <1>5, <1>6, <1>7 DEF Next

(* Two operators, a retry, a late cancel, deletions and restarts never leave *)
(* two Pending rows: a row is inserted only under the claim, when nothing is *)
(* published, and a published entry is dropped only once its row is settled. *)
THEOREM AtMostOnePending == Spec => []OnePendingRow
  <1>1. Init => TypeInv /\ ClaimInv
    BY TypeInit, ClaimInit
  <1>2. TypeInv /\ ClaimInv /\ [Next]_vars => (TypeInv /\ ClaimInv)'
    BY TypeNext, ClaimNext
  <1>3. ClaimInv => OnePendingRow
    BY DEF ClaimInv
  <1> QED BY <1>1, <1>2, <1>3, PTL DEF Spec

-----------------------------------------------------------------------------
(* A lease and a change of ownership exclude each other.                     *)

(* Where a handler holds the control lock. *)
LockPCs == {"publish", "announce", "restore", "drop", "heal", "deliver", "recover", "tell"}
LockHeld == \A w \in Workers : pc[w] \in LockPCs => controlLock = w

(* The holder may have changed the owner and not revoked the streams yet,    *)
(* but a call that only heals the index changes no owner.                    *)
StreamsKept ==
    controlLock = NoWorker \/ pc[controlLock] = "heal" => streams \subseteq {memOwner}

(* An edit writes the cached owner without the lock. *)
LockInv == LockHeld /\ ("edit" \notin Ops => LeaseExcludesTransfer /\ StreamsKept)

LEMMA LockInit == Init => LockInv
  BY DEF Init, LockInv, LockHeld, LockPCs, LeaseExcludesTransfer, StreamsKept, Idle

LEMMA LockWorkers == \A w \in Workers : w # NoWorker
  BY WorkerAssumption

LEMMA LockInitiating ==
  ASSUME TypeInv, LockInv, NEW w \in Workers, Initiating(w)
  PROVE  LockInv'
  <1> USE DEF TypeInv, TypeOK, NamesTransfer, LockInv, LockHeld, LockPCs, LeaseExcludesTransfer,
        StreamsKept, Step, Goto, Call, Return, db, cache, index, locks, use, Idle, TakeControl
  <1>1. CASE BatchMove(w)
    BY <1>1, LockWorkers DEF BatchMove
  <1>2. CASE Retry(w)
    BY <1>2, LockWorkers DEF Retry
  <1>3. CASE Claim(w)
    BY <1>3, LockWorkers DEF Claim
  <1>4. CASE Insert(w)
    BY <1>4, LockWorkers DEF Insert
  <1>5. CASE SetOwner(w)
    BY <1>5, LockWorkers DEF SetOwner
  <1>6. CASE Publish(w)
    BY <1>6, LockWorkers DEF Publish
  <1>7. CASE Announce(w)
    BY <1>7, LockWorkers DEF Announce
  <1>8. CASE Unclaim(w)
    BY <1>8, LockWorkers DEF Unclaim
  <1>9. CASE Push(w)
    BY <1>9, LockWorkers DEF Push
  <1> QED BY <1>1, <1>2, <1>3, <1>4, <1>5, <1>6, <1>7, <1>8, <1>9 DEF Initiating

LEMMA LockReverting ==
  ASSUME TypeInv, LockInv, NEW w \in Workers, Reverting(w)
  PROVE  LockInv'
  <1> USE DEF TypeInv, TypeOK, NamesTransfer, LockInv, LockHeld, LockPCs, LeaseExcludesTransfer,
        StreamsKept, Step, Goto, Call, Return, db, cache, index, locks, use, Idle, TakeControl
  <1>1. CASE StartRevert(w)
    BY <1>1, LockWorkers DEF StartRevert
  <1>2. CASE RevertRow(w)
    BY <1>2, LockWorkers DEF RevertRow
  <1>3. CASE RestoreOwner(w)
    BY <1>3, LockWorkers DEF RestoreOwner
  <1>4. CASE DropPending(w)
    BY <1>4, LockWorkers DEF DropPending, DropIf
  <1>5. CASE HealPending(w)
    BY <1>5, LockWorkers DEF HealPending, DropIf
  <1>6. CASE RegisterRevertDelivery(w)
    BY <1>6, LockWorkers DEF RegisterRevertDelivery
  <1>7. CASE RegisterTerminalSecretRecovery(w)
    BY <1>7, LockWorkers DEF RegisterTerminalSecretRecovery
  <1>8. CASE PushRevert(w)
    BY <1>8, LockWorkers DEF PushRevert
  <1> QED BY <1>1, <1>2, <1>3, <1>4, <1>5, <1>6, <1>7, <1>8 DEF Reverting

LEMMA LockDeleting ==
  ASSUME TypeInv, LockInv, NEW w \in Workers, Deleting(w)
  PROVE  LockInv'
  <1> USE DEF TypeInv, TypeOK, NamesTransfer, LockInv, LockHeld, LockPCs, LeaseExcludesTransfer,
        StreamsKept, Step, Goto, Call, Return, db, cache, index, locks, use, Idle, TakeControl
  <1>1. CASE DeleteServer(w)
    BY <1>1, LockWorkers DEF DeleteServer
  <1>2. CASE OnServersDeletedRows(w)
    BY <1>2, LockWorkers DEF OnServersDeletedRows, CancelRows
  <1>3. CASE OnServersDeletedSlots(w)
    BY <1>3, LockWorkers DEF OnServersDeletedSlots, DropIf
  <1>4. CASE DeleteCached(w)
    BY <1>4, LockWorkers DEF DeleteCached, Release
  <1>5. CASE DeleteUser(w)
    BY <1>5, LockWorkers DEF DeleteUser
  <1>6. CASE OnUsersDeletedRows(w)
    BY <1>6, LockWorkers DEF OnUsersDeletedRows, CancelRows
  <1>7. CASE OnUsersDeletedSlots(w)
    BY <1>7, LockWorkers DEF OnUsersDeletedSlots, DropIf
  <1>8. CASE DeleteUserRow(w)
    BY <1>8, LockWorkers DEF DeleteUserRow, Release
  <1> QED BY <1>1, <1>2, <1>3, <1>4, <1>5, <1>6, <1>7, <1>8 DEF Deleting

LEMMA LockAuthenticating ==
  ASSUME TypeInv, LockInv, NEW c \in Clients, Authenticating(c)
  PROVE  LockInv'
  <1> USE DEF TypeInv, TypeOK, NamesTransfer, LockInv, LockHeld, LockPCs, LeaseExcludesTransfer,
        StreamsKept, worker, cache, index, locks, use
  <1>1. CASE AuthStart(c)
    BY <1>1 DEF AuthStart
  <1>2. CASE AuthPending(c)
    BY <1>2 DEF AuthPending
  <1>3. CASE MarkVerified(c)
    BY <1>3 DEF MarkVerified
  <1>4. CASE AuthRecovery(c)
    BY <1>4 DEF AuthRecovery
  <1>5. CASE AckRow(c)
    BY <1>5 DEF AckRow
  <1>6. CASE Promote(c)
    BY <1>6 DEF Promote
  <1>7. CASE AuthVerified(c)
    BY <1>7 DEF AuthVerified
  <1>8. CASE AuthGlobal(c)
    BY <1>8 DEF AuthGlobal
  <1>9. CASE AuthOwner(c)
    BY <1>9 DEF AuthOwner
  <1>10. CASE AuthOwnerPending(c)
    BY <1>10 DEF AuthOwnerPending
  <1>11. CASE AuthForeign(c)
    BY <1>11 DEF AuthForeign
  <1>12. CASE AuthForeignPending(c)
    BY <1>12 DEF AuthForeignPending
  <1>13. CASE Attach(c)
    BY <1>13 DEF Attach
  <1>14. CASE OnAgentReconnect(c)
    BY <1>14 DEF OnAgentReconnect
  <1>15. CASE PushOnReconnect(c)
    BY <1>15 DEF PushOnReconnect
  <1> QED BY <1>1, <1>2, <1>3, <1>4, <1>5, <1>6, <1>7, <1>8, <1>9, <1>10, <1>11, <1>12, <1>13,
        <1>14, <1>15 DEF Authenticating

LEMMA LockNext == TypeInv /\ LockInv /\ [Next]_vars => LockInv'
  <1> SUFFICES ASSUME TypeInv, LockInv, [Next]_vars PROVE LockInv'
    OBVIOUS
  <1> USE DEF TypeInv, TypeOK, NamesTransfer, LockInv, LockHeld, LockPCs, LeaseExcludesTransfer,
        StreamsKept, cache, index, locks, use, worker
  <1>1. ASSUME NEW w \in Workers, Initiating(w) \/ Reverting(w) \/ Deleting(w) PROVE LockInv'
    BY <1>1, LockInitiating, LockReverting, LockDeleting
  <1>2. ASSUME NEW c \in Clients, Authenticating(c) PROVE LockInv'
    BY <1>2, LockAuthenticating
  <1>3. ASSUME NEW u \in Users, Controlling(u) PROVE LockInv'
    <2>1. CASE BeginServerControl(u)
      BY <1>3, <2>1 DEF BeginServerControl, Transitioning
    <2>2. CASE RegisterStream(u)
      BY <1>3, <2>2 DEF RegisterStream
    <2>3. CASE EndControl(u) \/ CloseStream(u)
      BY <1>3, <2>3 DEF EndControl, CloseStream
    <2> QED BY <1>3, <2>1, <2>2, <2>3 DEF Controlling
  <1>4. CASE AgentReload \/ AgentDrop \/ Expire \/ PruneRecovery
    BY <1>4 DEF AgentReload, AgentDrop, Expire, PruneRecovery
  <1>5. CASE Restart
    BY <1>5 DEF Restart, Idle
  <1>6. CASE UNCHANGED vars
    BY <1>6 DEF vars
  <1>7. ASSUME NEW w \in Workers, Editing(w) PROVE LockInv'
    BY <1>7 DEF Editing, UpdateServer, SaveServer, CopyServer, ReplaceServer, Step, Goto, Return, Idle
  <1> QED BY <1>1, <1>2, <1>3, <1>4, <1>5, <1>6, <1>7 DEF Next

(* While a control lease is out nobody holds the control lock, nothing is    *)
(* published, and the lease is the cached owner's.                           *)
THEOREM LeasesExclude ==
  ASSUME "edit" \notin Ops
  PROVE  Spec => []LeaseExcludesTransfer
  <1>1. Init => TypeInv /\ LockInv
    BY TypeInit, LockInit
  <1>2. TypeInv /\ LockInv /\ [Next]_vars => (TypeInv /\ LockInv)'
    BY TypeNext, LockNext
  <1>3. LockInv => LeaseExcludesTransfer
    BY DEF LockInv
  <1> QED BY <1>1, <1>2, <1>3, PTL DEF Spec

(* Whenever no transition holds the lock, every IO stream to the agent is    *)
(* the cached owner's: none outlives the ownership it was opened under.      *)
THEOREM StreamsFollowOwner ==
  ASSUME "edit" \notin Ops
  PROVE  Spec => []StreamsOfOwner
  <1>1. Init => TypeInv /\ LockInv
    BY TypeInit, LockInit
  <1>2. TypeInv /\ LockInv /\ [Next]_vars => (TypeInv /\ LockInv)'
    BY TypeNext, LockNext
  <1>3. LockInv => StreamsOfOwner
    BY DEF LockInv, StreamsKept, StreamsOfOwner
  <1> QED BY <1>1, <1>2, <1>3, PTL DEF Spec

-----------------------------------------------------------------------------
(* Within one life of the process no rollback is queued behind a transfer.   *)

(* What a handler that reverts a transfer, lock in hand, finds published:    *)
(* first that transfer or nothing, then nothing.                             *)
EntryLeaving ==
    \A w \in Workers :
      /\ pc[w] \in {"restore", "drop"} => pending \in {NoTransfer, tid[w]}
      /\ pc[w] \in {"deliver", "recover", "tell"} => pending = NoTransfer

RollbackInv == EntryLeaving /\ NoRollbackBehindTransfer

LEMMA RollbackInit == Init => RollbackInv
  BY DEF Init, RollbackInv, EntryLeaving, NoRollbackBehindTransfer, Idle

LEMMA RollbackInitiating ==
  ASSUME TypeInv, ClaimInv, LockInv, RollbackInv, NEW w \in Workers, Initiating(w)
  PROVE  RollbackInv'
  <1> USE DEF TypeInv, TypeOK, NamesTransfer, RollbackInv, EntryLeaving,
        NoRollbackBehindTransfer, LockInv, LockHeld, LockPCs, Step, Goto, Call, Return, index,
        Idle, DropIf
  <1>1. CASE BatchMove(w)
    BY <1>1, ZeroIsNoTransfer DEF BatchMove
  <1>2. CASE Retry(w)
    BY <1>2, ZeroIsNoTransfer DEF Retry
  <1>3. CASE Claim(w)
    BY <1>3, ZeroIsNoTransfer DEF Claim
  <1>4. CASE Insert(w)
    BY <1>4, ZeroIsNoTransfer DEF Insert
  <1>5. CASE SetOwner(w)
    BY <1>5, ZeroIsNoTransfer DEF SetOwner
  <1>6. CASE Publish(w)
    BY <1>6, ZeroIsNoTransfer, LockWorkers DEF Publish
  <1>7. CASE Announce(w)
    BY <1>7, ZeroIsNoTransfer DEF Announce
  <1>8. CASE Unclaim(w)
    BY <1>8, ZeroIsNoTransfer DEF Unclaim
  <1>9. CASE Push(w)
    BY <1>9, ZeroIsNoTransfer DEF Push, SendForward
  <1> QED BY <1>1, <1>2, <1>3, <1>4, <1>5, <1>6, <1>7, <1>8, <1>9 DEF Initiating

LEMMA RollbackReverting ==
  ASSUME TypeInv, ClaimInv, LockInv, RollbackInv, NEW w \in Workers, Reverting(w)
  PROVE  RollbackInv'
  <1> USE DEF TypeInv, TypeOK, NamesTransfer, RollbackInv, EntryLeaving,
        NoRollbackBehindTransfer, LockInv, LockHeld, LockPCs, Step, Goto, Call, Return, index,
        Idle, DropIf
  <1>1. CASE StartRevert(w)
    BY <1>1, ZeroIsNoTransfer DEF StartRevert
  <1>2. CASE RevertRow(w)
    <2>1. CASE pc'[w] = "restore"
      <3>1. status[tid[w]] = "Pending" /\ dbServer /\ tid[w] \in Transfers
        BY <1>2, <2>1 DEF RevertRow, StillPending
      <3>2. pending \in {NoTransfer, tid[w]}
        BY <3>1 DEF ClaimInv, PendingKnown, NothingPublished, Creating, PendingRows
      <3> QED BY <1>2, <2>1, <3>2 DEF RevertRow
    <2>2. CASE pc'[w] # "restore"
      BY <1>2, <2>2 DEF RevertRow
    <2> QED BY <2>1, <2>2
  <1>3. CASE RestoreOwner(w)
    BY <1>3, ZeroIsNoTransfer DEF RestoreOwner
  <1>4. CASE DropPending(w)
    BY <1>4, ZeroIsNoTransfer DEF DropPending
  <1>5. CASE HealPending(w)
    BY <1>5, ZeroIsNoTransfer DEF HealPending
  <1>6. CASE RegisterRevertDelivery(w)
    BY <1>6, ZeroIsNoTransfer DEF RegisterRevertDelivery
  <1>7. CASE RegisterTerminalSecretRecovery(w)
    BY <1>7, ZeroIsNoTransfer DEF RegisterTerminalSecretRecovery
  <1>8. CASE PushRevert(w)
    BY <1>8, ZeroIsNoTransfer DEF PushRevert, SendRevert
  <1> QED BY <1>1, <1>2, <1>3, <1>4, <1>5, <1>6, <1>7, <1>8 DEF Reverting

LEMMA RollbackDeleting ==
  ASSUME TypeInv, ClaimInv, LockInv, RollbackInv, NEW w \in Workers, Deleting(w)
  PROVE  RollbackInv'
  <1> USE DEF TypeInv, TypeOK, NamesTransfer, RollbackInv, EntryLeaving,
        NoRollbackBehindTransfer, LockInv, LockHeld, LockPCs, Step, Goto, Call, Return, index,
        Idle, DropIf
  <1>1. CASE DeleteServer(w)
    BY <1>1, ZeroIsNoTransfer DEF DeleteServer
  <1>2. CASE OnServersDeletedRows(w)
    BY <1>2, ZeroIsNoTransfer DEF OnServersDeletedRows, CancelRows
  <1>3. CASE OnServersDeletedSlots(w)
    BY <1>3, ZeroIsNoTransfer DEF OnServersDeletedSlots
  <1>4. CASE DeleteCached(w)
    BY <1>4, ZeroIsNoTransfer DEF DeleteCached
  <1>5. CASE DeleteUser(w)
    BY <1>5, ZeroIsNoTransfer DEF DeleteUser
  <1>6. CASE OnUsersDeletedRows(w)
    BY <1>6, ZeroIsNoTransfer DEF OnUsersDeletedRows, CancelRows
  <1>7. CASE OnUsersDeletedSlots(w)
    BY <1>7, ZeroIsNoTransfer DEF OnUsersDeletedSlots
  <1>8. CASE DeleteUserRow(w)
    BY <1>8, ZeroIsNoTransfer DEF DeleteUserRow
  <1> QED BY <1>1, <1>2, <1>3, <1>4, <1>5, <1>6, <1>7, <1>8 DEF Deleting

LEMMA RollbackAuthenticating ==
  ASSUME TypeInv, ClaimInv, LockInv, RollbackInv, NEW c \in Clients, Authenticating(c)
  PROVE  RollbackInv'
  <1> USE DEF TypeInv, TypeOK, NamesTransfer, RollbackInv, EntryLeaving,
        NoRollbackBehindTransfer, worker, index
  <1>1. CASE AuthStart(c)
    BY <1>1 DEF AuthStart
  <1>2. CASE AuthPending(c)
    BY <1>2 DEF AuthPending
  <1>3. CASE MarkVerified(c)
    BY <1>3 DEF MarkVerified
  <1>4. CASE AuthRecovery(c)
    BY <1>4 DEF AuthRecovery
  <1>5. CASE AckRow(c)
    BY <1>5 DEF AckRow
  <1>6. CASE Promote(c)
    BY <1>6 DEF Promote, DropIf
  <1>7. CASE AuthVerified(c)
    BY <1>7 DEF AuthVerified
  <1>8. CASE AuthGlobal(c)
    BY <1>8 DEF AuthGlobal
  <1>9. CASE AuthOwner(c)
    BY <1>9 DEF AuthOwner
  <1>10. CASE AuthOwnerPending(c)
    BY <1>10 DEF AuthOwnerPending
  <1>11. CASE AuthForeign(c)
    BY <1>11 DEF AuthForeign
  <1>12. CASE AuthForeignPending(c)
    BY <1>12 DEF AuthForeignPending
  <1>13. CASE Attach(c)
    BY <1>13 DEF Attach
  <1>14. CASE OnAgentReconnect(c)
    BY <1>14 DEF OnAgentReconnect
  <1>15. CASE PushOnReconnect(c)
    BY <1>15 DEF PushOnReconnect, SendForward, SendRevert
  <1> QED BY <1>1, <1>2, <1>3, <1>4, <1>5, <1>6, <1>7, <1>8, <1>9, <1>10, <1>11, <1>12, <1>13,
        <1>14, <1>15 DEF Authenticating

LEMMA RollbackNext ==
  ASSUME "restart" \notin Ops, TypeInv, ClaimInv, LockInv, RollbackInv, [Next]_vars
  PROVE  RollbackInv'
  <1> USE DEF TypeInv, TypeOK, NamesTransfer, RollbackInv, EntryLeaving,
        NoRollbackBehindTransfer, index, worker
  <1>1. ASSUME NEW w \in Workers, Initiating(w) \/ Reverting(w) \/ Deleting(w) PROVE RollbackInv'
    BY <1>1, RollbackInitiating, RollbackReverting, RollbackDeleting
  <1>2. ASSUME NEW c \in Clients, Authenticating(c) PROVE RollbackInv'
    BY <1>2, RollbackAuthenticating
  <1>3. ASSUME NEW u \in Users, Controlling(u) PROVE RollbackInv'
    BY <1>3 DEF Controlling, BeginServerControl, RegisterStream, EndControl, CloseStream
  <1>4. CASE AgentReload \/ AgentDrop \/ Expire \/ PruneRecovery
    BY <1>4 DEF AgentReload, AgentDrop, Expire, PruneRecovery
  <1>5. CASE UNCHANGED vars
    BY <1>5 DEF vars
  <1>6. ASSUME NEW w \in Workers, Editing(w) PROVE RollbackInv'
    BY <1>6 DEF Editing, UpdateServer, SaveServer, CopyServer, ReplaceServer, Step, Goto, Return, Idle
  <1> QED BY <1>1, <1>2, <1>3, <1>4, <1>5, <1>6 DEF Next, Restart

(* As long as the process lives, a queued rollback and a published transfer  *)
(* exclude each other. A restart can bring an old rollback back.             *)
THEOREM NoRollbackBehind ==
  ASSUME "restart" \notin Ops
  PROVE  Spec => []NoRollbackBehindTransfer
  <1>1. Init => TypeInv /\ ClaimInv /\ LockInv /\ RollbackInv
    BY TypeInit, ClaimInit, LockInit, RollbackInit
  <1>2. TypeInv /\ ClaimInv /\ LockInv /\ RollbackInv /\ [Next]_vars
          => (TypeInv /\ ClaimInv /\ LockInv /\ RollbackInv)'
    BY TypeNext, ClaimNext, LockNext, RollbackNext
  <1>3. RollbackInv => NoRollbackBehindTransfer
    BY DEF RollbackInv
  <1> QED BY <1>1, <1>2, <1>3, PTL DEF Spec

-----------------------------------------------------------------------------
(* No credential becomes long-term unless the agent has shown that it has it.*)

AckedSettled == \A t \in Transfers : acked[t] # 0 => status[t] \in {"Verified", "Reverted"}
SlotReverted == recovery # NoTransfer => status[recovery] = "Reverted"
WorksOnReverted ==
    \A w \in Workers :
      pc[w] \in {"restore", "drop", "deliver", "recover"} => status[tid[w]] = "Reverted"
AcksReverted ==
    \A c \in Clients :
      /\ apc[c] \in {"ackRow", "promote"} => status[aid[c]] = "Reverted"
      /\ apc[c] = "promote" => acked[aid[c]] # 0

CredentialInv ==
    AckedSettled /\ SlotReverted /\ WorksOnReverted /\ AcksReverted /\ LongTermCredentialProven

LEMMA SecretsDiffer ==
  /\ \A s, t : Forward(s) = Forward(t) => s = t
  /\ \A s, t : Revert(s) = Revert(t) => s = t
  /\ \A s, t : Forward(s) # Revert(t)
  /\ \A s : NoSecret # Forward(s) /\ NoSecret # Revert(s)
  BY DEF Forward, Revert, NoSecret

LEMMA CredentialInit == Init => CredentialInv
  BY SecretsDiffer DEF Init, CredentialInv, AckedSettled, SlotReverted, WorksOnReverted, AcksReverted, LongTermCredentialProven, Idle

LEMMA CredentialInitiating ==
  ASSUME TypeInv, CredentialInv, NEW w \in Workers, Initiating(w)
  PROVE  CredentialInv'
  <1> USE DEF TypeInv, TypeOK, NamesTransfer, CredentialInv, AckedSettled, SlotReverted,
        WorksOnReverted, AcksReverted, LongTermCredentialProven, Step, Goto, Call, Return, db,
        index, auth, Idle, DropIf
  <1>1. CASE BatchMove(w)
    BY <1>1, ZeroIsNoTransfer DEF BatchMove
  <1>2. CASE Retry(w)
    BY <1>2, ZeroIsNoTransfer DEF Retry
  <1>3. CASE Claim(w)
    BY <1>3, ZeroIsNoTransfer DEF Claim
  <1>4. CASE Insert(w)
    BY <1>4, ZeroIsNoTransfer, LatestBelow DEF Insert
  <1>5. CASE SetOwner(w)
    BY <1>5, ZeroIsNoTransfer DEF SetOwner
  <1>6. CASE Publish(w)
    BY <1>6, ZeroIsNoTransfer DEF Publish
  <1>7. CASE Announce(w)
    BY <1>7, ZeroIsNoTransfer DEF Announce
  <1>8. CASE Unclaim(w)
    BY <1>8, ZeroIsNoTransfer DEF Unclaim
  <1>9. CASE Push(w)
    BY <1>9, ZeroIsNoTransfer DEF Push
  <1> QED BY <1>1, <1>2, <1>3, <1>4, <1>5, <1>6, <1>7, <1>8, <1>9 DEF Initiating

LEMMA CredentialReverting ==
  ASSUME TypeInv, CredentialInv, NEW w \in Workers, Reverting(w)
  PROVE  CredentialInv'
  <1> USE DEF TypeInv, TypeOK, NamesTransfer, CredentialInv, AckedSettled, SlotReverted,
        WorksOnReverted, AcksReverted, LongTermCredentialProven, Step, Goto, Call, Return, db,
        index, auth, Idle, DropIf
  <1>1. CASE StartRevert(w)
    BY <1>1, ZeroIsNoTransfer DEF StartRevert
  <1>2. CASE RevertRow(w)
    <2>1. CASE pc'[w] = "restore"
      <3>1. /\ status[tid[w]] = "Pending" /\ tid[w] \in Transfers
            /\ status' = [status EXCEPT ![tid[w]] = "Reverted"]
            /\ pc' = [pc EXCEPT ![w] = "restore"] /\ tid' = tid
        BY <1>2, <2>1 DEF RevertRow, StillPending
      <3> QED BY <1>2, <3>1, ZeroIsNoTransfer DEF RevertRow
    <2>2. CASE pc'[w] # "restore"
      <3>1. status' = status
        BY <1>2, <2>2 DEF RevertRow
      <3> QED BY <1>2, <2>2, <3>1 DEF RevertRow
    <2> QED BY <2>1, <2>2
  <1>3. CASE RestoreOwner(w)
    BY <1>3, ZeroIsNoTransfer DEF RestoreOwner
  <1>4. CASE DropPending(w)
    BY <1>4, ZeroIsNoTransfer DEF DropPending
  <1>5. CASE HealPending(w)
    BY <1>5, ZeroIsNoTransfer DEF HealPending
  <1>6. CASE RegisterRevertDelivery(w)
    BY <1>6, ZeroIsNoTransfer DEF RegisterRevertDelivery
  <1>7. CASE RegisterTerminalSecretRecovery(w)
    BY <1>7, ZeroIsNoTransfer DEF RegisterTerminalSecretRecovery
  <1>8. CASE PushRevert(w)
    BY <1>8, ZeroIsNoTransfer DEF PushRevert
  <1> QED BY <1>1, <1>2, <1>3, <1>4, <1>5, <1>6, <1>7, <1>8 DEF Reverting

LEMMA CredentialDeleting ==
  ASSUME TypeInv, CredentialInv, NEW w \in Workers, Deleting(w)
  PROVE  CredentialInv'
  <1> USE DEF TypeInv, TypeOK, NamesTransfer, CredentialInv, AckedSettled, SlotReverted,
        WorksOnReverted, AcksReverted, LongTermCredentialProven, Step, Goto, Call, Return, db,
        index, auth, Idle, DropIf
  <1>1. CASE DeleteServer(w)
    BY <1>1, ZeroIsNoTransfer DEF DeleteServer
  <1>2. CASE OnServersDeletedRows(w)
    BY <1>2, ZeroIsNoTransfer DEF OnServersDeletedRows, CancelRows, RowsOfServer, PendingRows
  <1>3. CASE OnServersDeletedSlots(w)
    BY <1>3, ZeroIsNoTransfer DEF OnServersDeletedSlots
  <1>4. CASE DeleteCached(w)
    BY <1>4, ZeroIsNoTransfer DEF DeleteCached
  <1>5. CASE DeleteUser(w)
    BY <1>5, ZeroIsNoTransfer DEF DeleteUser
  <1>6. CASE OnUsersDeletedRows(w)
    BY <1>6, ZeroIsNoTransfer DEF OnUsersDeletedRows, CancelRows, RowsOfUser, PendingRows
  <1>7. CASE OnUsersDeletedSlots(w)
    BY <1>7, ZeroIsNoTransfer DEF OnUsersDeletedSlots
  <1>8. CASE DeleteUserRow(w)
    BY <1>8, ZeroIsNoTransfer DEF DeleteUserRow
  <1> QED BY <1>1, <1>2, <1>3, <1>4, <1>5, <1>6, <1>7, <1>8 DEF Deleting

LEMMA CredentialAuthenticating ==
  ASSUME TypeInv, CredentialInv, NEW c \in Clients, Authenticating(c)
  PROVE  CredentialInv'
  <1> USE DEF TypeInv, TypeOK, NamesTransfer, CredentialInv, AckedSettled, SlotReverted,
        WorksOnReverted, AcksReverted, LongTermCredentialProven, worker, db, index, Idle, DropIf
  <1>1. CASE AuthStart(c)
    BY <1>1, ZeroIsNoTransfer DEF AuthStart, AGo, AFind, AEnd, At
  <1>2. CASE AuthPending(c)
    BY <1>2, ZeroIsNoTransfer DEF AuthPending, AGo, AFind, AEnd, At
  <1>3. CASE MarkVerified(c)
    BY <1>3, ZeroIsNoTransfer, SecretsDiffer, AckedIsFinite DEF MarkVerified, AGo, AFind, AEnd,
        At
  <1>4. CASE AuthRecovery(c)
    BY <1>4, ZeroIsNoTransfer DEF AuthRecovery, AGo, AFind, AEnd, At
  <1>5. CASE AckRow(c)
    BY <1>5, ZeroIsNoTransfer, AckedIsFinite DEF AckRow, AGo, AFind, AEnd, At
  <1>6. CASE Promote(c)
    BY <1>6, ZeroIsNoTransfer, SecretsDiffer DEF Promote, AGo, AFind, AEnd, At, Promoted
  <1>7. CASE AuthVerified(c)
    BY <1>7, ZeroIsNoTransfer DEF AuthVerified, AGo, AFind, AEnd, At
  <1>8. CASE AuthGlobal(c)
    BY <1>8, ZeroIsNoTransfer DEF AuthGlobal, AGo, AFind, AEnd, At
  <1>9. CASE AuthOwner(c)
    BY <1>9, ZeroIsNoTransfer DEF AuthOwner, AGo, AFind, AEnd, At
  <1>10. CASE AuthOwnerPending(c)
    BY <1>10, ZeroIsNoTransfer DEF AuthOwnerPending, AGo, AFind, AEnd, At
  <1>11. CASE AuthForeign(c)
    BY <1>11, ZeroIsNoTransfer DEF AuthForeign, AGo, AFind, AEnd, At
  <1>12. CASE AuthForeignPending(c)
    BY <1>12, ZeroIsNoTransfer DEF AuthForeignPending, AGo, AFind, AEnd, At
  <1>13. CASE Attach(c)
    BY <1>13, ZeroIsNoTransfer DEF Attach, AGo, AFind, AEnd, At
  <1>14. CASE OnAgentReconnect(c)
    BY <1>14, ZeroIsNoTransfer DEF OnAgentReconnect, AGo, AFind, AEnd, At
  <1>15. CASE PushOnReconnect(c)
    BY <1>15, ZeroIsNoTransfer DEF PushOnReconnect, AGo, AFind, AEnd, At
  <1> QED BY <1>1, <1>2, <1>3, <1>4, <1>5, <1>6, <1>7, <1>8, <1>9, <1>10, <1>11, <1>12, <1>13,
        <1>14, <1>15 DEF Authenticating

LEMMA CredentialRestart ==
  ASSUME TypeInv, CredentialInv, Restart
  PROVE  CredentialInv'
  <1> USE DEF TypeInv, TypeOK, NamesTransfer, CredentialInv, AckedSettled, SlotReverted,
        WorksOnReverted, AcksReverted, LongTermCredentialProven, db, Idle
  <1>1. status' = status /\ acked' = acked
    BY DEF Restart
  <1>2. SlotReverted'
    BY <1>1, LatestMembers DEF Restart, RebuiltRevert
  <1>3. LongTermCredentialProven'
    <2>1. \A t \in Candidates : acked[t] # 0 /\ t \in Transfers
      BY DEF Candidates, Acked
    <2> QED BY <1>1, <2>1, SecretsDiffer DEF Restart, RebuiltVerified
  <1>4. WorksOnReverted' /\ AcksReverted' /\ AckedSettled'
    BY <1>1 DEF Restart
  <1> QED BY <1>2, <1>3, <1>4

LEMMA CredentialNext == TypeInv /\ CredentialInv /\ [Next]_vars => CredentialInv'
  <1> SUFFICES ASSUME TypeInv, CredentialInv, [Next]_vars PROVE CredentialInv'
    OBVIOUS
  <1> USE DEF TypeInv, TypeOK, NamesTransfer, CredentialInv, AckedSettled, SlotReverted,
        WorksOnReverted, AcksReverted, LongTermCredentialProven, db, index, worker, auth
  <1>1. ASSUME NEW w \in Workers, Initiating(w) \/ Reverting(w) \/ Deleting(w)
        PROVE  CredentialInv'
    BY <1>1, CredentialInitiating, CredentialReverting, CredentialDeleting
  <1>2. ASSUME NEW c \in Clients, Authenticating(c) PROVE CredentialInv'
    BY <1>2, CredentialAuthenticating
  <1>3. ASSUME NEW u \in Users, Controlling(u) PROVE CredentialInv'
    BY <1>3 DEF Controlling, BeginServerControl, RegisterStream, EndControl, CloseStream
  <1>4. CASE AgentReload \/ AgentDrop \/ Expire \/ PruneRecovery
    BY <1>4 DEF AgentReload, AgentDrop, Expire, PruneRecovery
  <1>5. CASE Restart
    BY <1>5, CredentialRestart
  <1>6. CASE UNCHANGED vars
    BY <1>6 DEF vars
  <1>7. ASSUME NEW w \in Workers, Editing(w) PROVE CredentialInv'
    BY <1>7 DEF Editing, UpdateServer, SaveServer, CopyServer, ReplaceServer, Step, Goto, Return, Idle
  <1> QED BY <1>1, <1>2, <1>3, <1>4, <1>5, <1>6, <1>7 DEF Next

(* The long-term credential is the forward secret of a verified transfer or  *)
(* the revert secret of an acknowledged rollback, restarts included.         *)
THEOREM CredentialProven == Spec => []LongTermCredentialProven
  <1>1. Init => TypeInv /\ CredentialInv
    BY TypeInit, CredentialInit
  <1>2. TypeInv /\ CredentialInv /\ [Next]_vars => (TypeInv /\ CredentialInv)'
    BY TypeNext, CredentialNext
  <1>3. CredentialInv => LongTermCredentialProven
    BY DEF CredentialInv
  <1> QED BY <1>1, <1>2, <1>3, PTL DEF Spec

-----------------------------------------------------------------------------
(* The two tables implement the ledger.                                      *)

OwnersAreUsers == dbOwner \in Users /\ memOwner \in Users
RowsNameUsers == \A t \in Rows : fromUser[t] \in Users /\ toUser[t] \in Users
MovesBetweenTwo ==
    \A w \in Workers :
      /\ pc[w] \in {"claim", "insert"} => from[w] \in Users /\ to[w] \in Users /\ from[w] # to[w]
      /\ pc[w] = "setOwner" => to[w] \in Users

PartiesInv == OwnersAreUsers /\ RowsNameUsers /\ MovesBetweenTwo

LEMMA PartiesInit == Init => PartiesInv
  BY DEF Init, PartiesInv, OwnersAreUsers, RowsNameUsers, MovesBetweenTwo, Rows, Idle

LEMMA PartiesInitiating ==
  ASSUME TypeInv, ClaimInv, PartiesInv, NEW w \in Workers, Initiating(w)
  PROVE  PartiesInv'
  <1> USE DEF TypeInv, TypeOK, NamesTransfer, PartiesInv, OwnersAreUsers, RowsNameUsers,
        MovesBetweenTwo, Rows, Step, Goto, Call, Return, db, cache, Idle
  <1>1. CASE BatchMove(w)
    BY <1>1, UserAssumption DEF BatchMove
  <1>2. CASE Retry(w)
    BY <1>2, UserAssumption DEF Retry, PendingRows
  <1>3. CASE Claim(w)
    BY <1>3, UserAssumption DEF Claim
  <1>4. CASE Insert(w)
    <2>1. from[w] \in Users /\ to[w] \in Users /\ pc[w] = "insert"
      BY <1>4 DEF Insert
    <2>2. ASSUME NEW t \in Transfers,
                 status' = [status EXCEPT ![t] = "Pending"],
                 fromUser' = [fromUser EXCEPT ![t] = from[w]],
                 toUser' = [toUser EXCEPT ![t] = to[w]],
                 dbOwner' = to[w], Call(w, "setOwner", t), memOwner' = memOwner
          PROVE  PartiesInv'
      <3>1. OwnersAreUsers'
        BY <2>1, <2>2
      <3>2. RowsNameUsers'
        BY <2>1, <2>2
      <3>3. MovesBetweenTwo'
        BY <2>1, <2>2
      <3> QED BY <3>1, <3>2, <3>3
    <2>3. ASSUME Call(w, "unclaim", NoTransfer),
                 UNCHANGED <<status, fromUser, toUser, dbOwner, memOwner>>
          PROVE  PartiesInv'
      BY <2>3
    <2> QED BY <1>4, <2>2, <2>3 DEF Insert
  <1>5. CASE SetOwner(w)
    BY <1>5, UserAssumption DEF SetOwner, SetUserID
  <1>6. CASE Publish(w)
    BY <1>6, UserAssumption DEF Publish
  <1>7. CASE Announce(w)
    BY <1>7, UserAssumption DEF Announce
  <1>8. CASE Unclaim(w)
    BY <1>8, UserAssumption DEF Unclaim
  <1>9. CASE Push(w)
    BY <1>9, UserAssumption DEF Push
  <1> QED BY <1>1, <1>2, <1>3, <1>4, <1>5, <1>6, <1>7, <1>8, <1>9 DEF Initiating

LEMMA PartiesReverting ==
  ASSUME TypeInv, ClaimInv, PartiesInv, NEW w \in Workers, Reverting(w)
  PROVE  PartiesInv'
  <1> USE DEF TypeInv, TypeOK, NamesTransfer, PartiesInv, OwnersAreUsers, RowsNameUsers,
        MovesBetweenTwo, Rows, Step, Goto, Call, Return, db, cache, Idle
  <1>1. CASE StartRevert(w)
    BY <1>1, UserAssumption DEF StartRevert
  <1>2. CASE RevertRow(w)
    <2>1. CASE pc'[w] = "restore"
      <3>1. /\ status[tid[w]] = "Pending" /\ tid[w] \in Transfers
            /\ status' = [status EXCEPT ![tid[w]] = "Reverted"] /\ dbOwner' = fromUser[tid[w]]
            /\ pc' = [pc EXCEPT ![w] = "restore"] /\ UNCHANGED <<from, to, fromUser, toUser, memOwner>>
        BY <1>2, <2>1 DEF RevertRow, StillPending
      <3>2. fromUser[tid[w]] \in Users
        BY <3>1
      <3> QED BY <3>1, <3>2
    <2>2. CASE pc'[w] # "restore"
      <3>1. UNCHANGED <<status, dbOwner, fromUser, toUser, memOwner>>
        BY <1>2, <2>2 DEF RevertRow
      <3>2. MovesBetweenTwo'
        BY <1>2 DEF RevertRow
      <3> QED BY <3>1, <3>2
    <2> QED BY <2>1, <2>2
  <1>3. CASE RestoreOwner(w)
    <2>1. tid[w] \in Transfers /\ status[tid[w]] # "none"
      BY <1>3, ZeroIsNoTransfer DEF RestoreOwner, ClaimInv, DropsSettled, Settled, SettledPCs
    <2>2. memOwner' \in Users
      BY <1>3, <2>1 DEF RestoreOwner, SetUserID
    <2> QED BY <1>3, <2>2 DEF RestoreOwner
  <1>4. CASE DropPending(w)
    BY <1>4, UserAssumption DEF DropPending
  <1>5. CASE HealPending(w)
    BY <1>5, UserAssumption DEF HealPending
  <1>6. CASE RegisterRevertDelivery(w)
    BY <1>6, UserAssumption DEF RegisterRevertDelivery
  <1>7. CASE RegisterTerminalSecretRecovery(w)
    BY <1>7, UserAssumption DEF RegisterTerminalSecretRecovery
  <1>8. CASE PushRevert(w)
    BY <1>8, UserAssumption DEF PushRevert
  <1> QED BY <1>1, <1>2, <1>3, <1>4, <1>5, <1>6, <1>7, <1>8 DEF Reverting

LEMMA PartiesDeleting ==
  ASSUME TypeInv, ClaimInv, PartiesInv, NEW w \in Workers, Deleting(w)
  PROVE  PartiesInv'
  <1> USE DEF TypeInv, TypeOK, NamesTransfer, PartiesInv, OwnersAreUsers, RowsNameUsers,
        MovesBetweenTwo, Rows, Step, Goto, Call, Return, db, cache, Idle
  <1>1. CASE DeleteServer(w)
    BY <1>1, UserAssumption DEF DeleteServer
  <1>2. CASE OnServersDeletedRows(w)
    BY <1>2 DEF OnServersDeletedRows, CancelRows, RowsOfServer, PendingRows
  <1>3. CASE OnServersDeletedSlots(w)
    BY <1>3, UserAssumption DEF OnServersDeletedSlots
  <1>4. CASE DeleteCached(w)
    BY <1>4, UserAssumption DEF DeleteCached
  <1>5. CASE DeleteUser(w)
    BY <1>5, UserAssumption DEF DeleteUser
  <1>6. CASE OnUsersDeletedRows(w)
    BY <1>6 DEF OnUsersDeletedRows, CancelRows, RowsOfUser, PendingRows
  <1>7. CASE OnUsersDeletedSlots(w)
    BY <1>7, UserAssumption DEF OnUsersDeletedSlots
  <1>8. CASE DeleteUserRow(w)
    BY <1>8, UserAssumption DEF DeleteUserRow
  <1> QED BY <1>1, <1>2, <1>3, <1>4, <1>5, <1>6, <1>7, <1>8 DEF Deleting

LEMMA PartiesAuthenticating ==
  ASSUME TypeInv, ClaimInv, PartiesInv, NEW c \in Clients, Authenticating(c)
  PROVE  PartiesInv'
  <1> USE DEF TypeInv, TypeOK, NamesTransfer, PartiesInv, OwnersAreUsers, RowsNameUsers,
        MovesBetweenTwo, Rows, worker, db, cache
  <1>1. CASE AuthStart(c)
    BY <1>1 DEF AuthStart
  <1>2. CASE AuthPending(c)
    BY <1>2 DEF AuthPending
  <1>3. CASE MarkVerified(c)
    BY <1>3 DEF MarkVerified
  <1>4. CASE AuthRecovery(c)
    BY <1>4 DEF AuthRecovery
  <1>5. CASE AckRow(c)
    BY <1>5 DEF AckRow
  <1>6. CASE Promote(c)
    BY <1>6 DEF Promote
  <1>7. CASE AuthVerified(c)
    BY <1>7 DEF AuthVerified
  <1>8. CASE AuthGlobal(c)
    BY <1>8 DEF AuthGlobal
  <1>9. CASE AuthOwner(c)
    BY <1>9 DEF AuthOwner
  <1>10. CASE AuthOwnerPending(c)
    BY <1>10 DEF AuthOwnerPending
  <1>11. CASE AuthForeign(c)
    BY <1>11 DEF AuthForeign
  <1>12. CASE AuthForeignPending(c)
    BY <1>12 DEF AuthForeignPending
  <1>13. CASE Attach(c)
    BY <1>13 DEF Attach
  <1>14. CASE OnAgentReconnect(c)
    BY <1>14 DEF OnAgentReconnect
  <1>15. CASE PushOnReconnect(c)
    BY <1>15 DEF PushOnReconnect
  <1> QED BY <1>1, <1>2, <1>3, <1>4, <1>5, <1>6, <1>7, <1>8, <1>9, <1>10, <1>11, <1>12, <1>13,
        <1>14, <1>15 DEF Authenticating

LEMMA PartiesNext ==
  ASSUME "edit" \notin Ops, TypeInv, ClaimInv, PartiesInv, [Next]_vars
  PROVE  PartiesInv'
  <1> USE DEF TypeInv, TypeOK, NamesTransfer, PartiesInv, OwnersAreUsers, RowsNameUsers,
        MovesBetweenTwo, Rows, db, cache, worker
  <1>1. ASSUME NEW w \in Workers, Initiating(w) \/ Reverting(w) \/ Deleting(w) PROVE PartiesInv'
    BY <1>1, PartiesInitiating, PartiesReverting, PartiesDeleting
  <1>2. ASSUME NEW c \in Clients, Authenticating(c) PROVE PartiesInv'
    BY <1>2, PartiesAuthenticating
  <1>3. ASSUME NEW u \in Users, Controlling(u) PROVE PartiesInv'
    BY <1>3 DEF Controlling, BeginServerControl, RegisterStream, EndControl, CloseStream
  <1>4. CASE AgentReload \/ AgentDrop \/ Expire \/ PruneRecovery
    BY <1>4 DEF AgentReload, AgentDrop, Expire, PruneRecovery
  <1>5. CASE Restart
    BY <1>5 DEF Restart, Idle
  <1>6. CASE UNCHANGED vars
    BY <1>6 DEF vars
  <1> QED BY <1>1, <1>2, <1>3, <1>4, <1>5, <1>6 DEF Next, Editing

LEMMA NoMove == PendingRows = {} => OpenMove = [open |-> FALSE]
  BY DEF OpenMove

LEMMA TheMove ==
  \A t \in PendingRows : OnePendingRow =>
    OpenMove = [open |-> TRUE, giver |-> fromUser[t], taker |-> toUser[t]]
  BY DEF OpenMove, OnePendingRow

(* Steps that leave the two tables alone. *)
LEMMA LedgerStutters ==
  UNCHANGED <<status, fromUser, toUser, dbOwner>> => UNCHANGED <<dbOwner, OpenMove>>
  BY DEF OpenMove, PendingRows

(* Steps that settle pending rows and leave the owner: the move completes.   *)
LEMMA LedgerCompletes ==
  ASSUME OnePendingRow, NEW S \in SUBSET PendingRows,
         status' = [t \in Transfers |-> IF t \in S THEN "Reverted" ELSE status[t]],
         UNCHANGED <<fromUser, toUser, dbOwner>>, TypeOK
  PROVE  [Ledger!Next]_<<dbOwner, OpenMove>>
  <1>1. CASE S = {}
    <2>1. status' = status
      BY <1>1 DEF TypeOK
    <2> QED BY <2>1, LedgerStutters
  <1>2. CASE S # {}
    <2>1. PICK t \in PendingRows : t \in S
      BY <1>2
    <2>2. PendingRows' = {}
      BY <2>1 DEF PendingRows, OnePendingRow
    <2>3. OpenMove' = [open |-> FALSE]
      BY <2>2 DEF OpenMove
    <2>4. OpenMove.open
      BY <2>1, TheMove
    <2> QED BY <2>3, <2>4 DEF Ledger!Next, Ledger!Complete, Ledger!Closed
  <1> QED BY <1>1, <1>2

LEMMA LedgerOpens ==
  ASSUME TypeInv, ClaimInv, PartiesInv, NEW w \in Workers, Insert(w)
  PROVE  [Ledger!Next]_<<dbOwner, OpenMove>>
  <1>1. CASE UNCHANGED <<status, fromUser, toUser, dbOwner>>
    BY <1>1, LedgerStutters
  <1>2. ASSUME NEW t \in Transfers, dbServer, t - 1 \in Latest(Rows),
               status' = [status EXCEPT ![t] = "Pending"],
               fromUser' = [fromUser EXCEPT ![t] = from[w]],
               toUser' = [toUser EXCEPT ![t] = to[w]], dbOwner' = to[w]
        PROVE  [Ledger!Next]_<<dbOwner, OpenMove>>
    <2>1. PendingRows = {}
      BY <1>2, ZeroIsNoTransfer DEF Insert, ClaimInv, PendingKnown, NothingPublished, ClaimExclusive,
         Claimed, ClaimPCs, Creating, PendingRows
    <2>2. PendingRows' = {t}
      BY <1>2, <2>1 DEF PendingRows, TypeInv, TypeOK
    <2>3. OpenMove' = [open |-> TRUE, giver |-> fromUser'[t], taker |-> toUser'[t]]
      BY <2>2 DEF OpenMove
    <2>4. fromUser'[t] = from[w] /\ toUser'[t] = to[w]
      BY <1>2 DEF TypeInv, TypeOK
    <2>5. from[w] \in Users /\ to[w] \in Users /\ from[w] # to[w]
      BY DEF Insert, PartiesInv, MovesBetweenTwo
    <2>6. ~OpenMove.open
      BY <2>1, NoMove
    <2>7. OpenMove' = Ledger!Move(from[w], to[w])
      BY <2>3, <2>4 DEF Ledger!Move
    <2> QED BY <1>2, <2>5, <2>6, <2>7 DEF Ledger!Next, Ledger!Open
  <1> QED BY <1>1, <1>2 DEF Insert

LEMMA LedgerUndoes ==
  ASSUME TypeInv, ClaimInv, NEW w \in Workers, RevertRow(w)
  PROVE  [Ledger!Next]_<<dbOwner, OpenMove>>
  <1>1. UNCHANGED <<fromUser, toUser>> /\ tid[w] \in Transfers
    BY DEF RevertRow, TypeInv, NamesTransfer
  <1>2. CASE UNCHANGED <<status, dbOwner>>
    BY <1>1, <1>2, LedgerStutters
  <1>3. CASE /\ StillPending(tid[w]) /\ status' = [status EXCEPT ![tid[w]] = "Reverted"]
             /\ dbOwner' = fromUser[tid[w]]
    <2>1. tid[w] \in PendingRows
      BY <1>1, <1>3 DEF StillPending, PendingRows
    <2>2. PendingRows' = {}
      BY <1>3, <2>1 DEF PendingRows, ClaimInv, OnePendingRow, TypeInv, TypeOK
    <2>3. OpenMove' = [open |-> FALSE]
      BY <2>2 DEF OpenMove
    <2>4. OpenMove.open /\ OpenMove.giver = fromUser[tid[w]]
      BY <2>1, TheMove DEF ClaimInv
    <2> QED BY <1>3, <2>3, <2>4 DEF Ledger!Next, Ledger!Undo, Ledger!Closed
  <1> QED BY <1>2, <1>3 DEF RevertRow

LEMMA LedgerVerifies ==
  ASSUME TypeInv, ClaimInv, NEW c \in Clients, MarkVerified(c)
  PROVE  [Ledger!Next]_<<dbOwner, OpenMove>>
  <1>1. UNCHANGED <<fromUser, toUser, dbOwner>>
    BY DEF MarkVerified
  <1>2. CASE status' = status
    BY <1>1, <1>2, LedgerStutters
  <1>3. CASE /\ pending = aid[c] /\ status[pending] = "Pending"
             /\ status' = [status EXCEPT ![pending] = "Verified"]
    <2>1. pending \in PendingRows
      BY <1>3 DEF MarkVerified, At, TypeInv, NamesTransfer, PendingRows
    <2>2. PendingRows' = {}
      BY <1>3, <2>1 DEF PendingRows, ClaimInv, OnePendingRow, TypeInv, TypeOK
    <2>3. OpenMove' = [open |-> FALSE]
      BY <2>2 DEF OpenMove
    <2>4. OpenMove.open
      BY <2>1, TheMove DEF ClaimInv
    <2> QED BY <1>1, <2>3, <2>4 DEF Ledger!Next, Ledger!Complete, Ledger!Closed
  <1> QED BY <1>2, <1>3 DEF MarkVerified

LEMMA LedgerNext ==
  ASSUME "edit" \notin Ops, TypeInv, ClaimInv, PartiesInv, [Next]_vars
  PROVE  [Ledger!Next]_<<dbOwner, OpenMove>>
  <1>1. ASSUME NEW w \in Workers, Initiating(w) PROVE [Ledger!Next]_<<dbOwner, OpenMove>>
    <2>1. CASE Insert(w)
      BY <2>1, LedgerOpens
    <2>2. CASE ~Insert(w)
      <3>1. UNCHANGED db
        BY <1>1, <2>2 DEF Initiating, BatchMove, Retry, Claim, SetOwner, Publish, Announce, Unclaim, Push
      <3> QED BY <3>1, LedgerStutters DEF db
    <2> QED BY <2>1, <2>2
  <1>2. ASSUME NEW w \in Workers, Reverting(w) PROVE [Ledger!Next]_<<dbOwner, OpenMove>>
    <2>1. CASE RevertRow(w)
      BY <2>1, LedgerUndoes
    <2>2. CASE ~RevertRow(w)
      <3>1. UNCHANGED db
        BY <1>2, <2>2 DEF Reverting, StartRevert, RestoreOwner, DropPending, HealPending,
           RegisterRevertDelivery, RegisterTerminalSecretRecovery, PushRevert
      <3> QED BY <3>1, LedgerStutters DEF db
    <2> QED BY <2>1, <2>2
  <1>3. ASSUME NEW w \in Workers, Deleting(w) PROVE [Ledger!Next]_<<dbOwner, OpenMove>>
    <2>1. CASE OnServersDeletedRows(w)
      BY <2>1, LedgerCompletes DEF OnServersDeletedRows, CancelRows, RowsOfServer, TypeInv, ClaimInv
    <2>2. CASE OnUsersDeletedRows(w)
      <3>1. RowsOfUser(from[w]) \in SUBSET PendingRows
        BY DEF RowsOfUser
      <3> QED BY <2>2, <3>1, LedgerCompletes DEF OnUsersDeletedRows, CancelRows, TypeInv, ClaimInv
    <2>3. CASE ~OnServersDeletedRows(w) /\ ~OnUsersDeletedRows(w)
      <3>1. UNCHANGED <<status, fromUser, toUser, dbOwner>>
        BY <1>3, <2>3 DEF Deleting, DeleteServer, OnServersDeletedSlots, DeleteCached, DeleteUser,
           OnUsersDeletedSlots, DeleteUserRow, db
      <3> QED BY <3>1, LedgerStutters
    <2> QED BY <2>1, <2>2, <2>3
  <1>4. ASSUME NEW c \in Clients, Authenticating(c) PROVE [Ledger!Next]_<<dbOwner, OpenMove>>
    <2>1. CASE MarkVerified(c)
      BY <2>1, LedgerVerifies
    <2>2. CASE ~MarkVerified(c)
      <3>1. UNCHANGED <<status, fromUser, toUser, dbOwner>>
        BY <1>4, <2>2 DEF Authenticating, AuthStart, AuthPending, AuthRecovery, AckRow, Promote,
           AuthVerified, AuthGlobal, AuthOwner, AuthOwnerPending, AuthForeign, AuthForeignPending,
           Attach, OnAgentReconnect, PushOnReconnect, db
      <3> QED BY <3>1, LedgerStutters
    <2> QED BY <2>1, <2>2
  <1>5. ASSUME NEW u \in Users, Controlling(u) PROVE [Ledger!Next]_<<dbOwner, OpenMove>>
    BY <1>5, LedgerStutters
       DEF Controlling, BeginServerControl, RegisterStream, EndControl, CloseStream, db
  <1>6. CASE AgentReload \/ AgentDrop \/ Expire \/ PruneRecovery \/ Restart
    BY <1>6, LedgerStutters DEF AgentReload, AgentDrop, Expire, PruneRecovery, Restart, db
  <1>7. CASE UNCHANGED vars
    BY <1>7, LedgerStutters DEF vars, db
  <1> QED BY <1>1, <1>2, <1>3, <1>4, <1>5, <1>6, <1>7 DEF Next, Editing

(* Whatever the handlers, their overlaps, deletions and restarts do, the two *)
(* tables follow the ledger: ownership changes only by opening a move when   *)
(* none is open, and by giving the server back to whom it came from. An edit *)
(* of the server's row obeys no such rule.                                   *)
THEOREM LedgerImplemented ==
  ASSUME "edit" \notin Ops
  PROVE  Spec => ImplementsLedger
  <1>1. Init => TypeInv /\ ClaimInv /\ PartiesInv
    BY TypeInit, ClaimInit, PartiesInit
  <1>2. TypeInv /\ ClaimInv /\ PartiesInv /\ [Next]_vars => (TypeInv /\ ClaimInv /\ PartiesInv)'
    BY TypeNext, ClaimNext, PartiesNext
  <1>3. Init => Ledger!Init
    <2>1. Init => PendingRows = {}
      BY DEF Init, PendingRows
    <2> QED BY <2>1, NoMove DEF Init, Ledger!Init, Ledger!Closed
  <1> QED BY <1>1, <1>2, <1>3, LedgerNext, PTL DEF Spec, ImplementsLedger, Ledger!Spec

-----------------------------------------------------------------------------
(* The handlers that delete, and the rows they leave.                        *)

(* Where a handler runs the hooks of a server that it has deleted. *)
DeletionPCs == {"delCancel", "delDrop", "delCache"}

DeletersGone == \A w \in Workers : pc[w] \in DeletionPCs => ~dbServer
GoneUncached == ~memServer => ~dbServer
DeletionRuns == memServer /\ ~dbServer => \E w \in Workers : pc[w] \in DeletionPCs

DeletionInv == DeletersGone /\ GoneUncached /\ DeletionRuns

LEMMA DeletionInit == Init => DeletionInv
  BY DEF Init, DeletionInv, DeletersGone, GoneUncached, DeletionRuns, DeletionPCs, Idle

LEMMA DeletionInitiating ==
  ASSUME TypeInv, DeletionInv, NEW w \in Workers, Initiating(w)
  PROVE  DeletionInv'
  <1> USE DEF TypeInv, TypeOK, DeletionInv, DeletersGone, GoneUncached, DeletionRuns,
        DeletionPCs, Step, Goto, Call, Return, db, cache, Idle
  <1>1. CASE BatchMove(w)
    BY <1>1 DEF BatchMove
  <1>2. CASE Retry(w)
    BY <1>2 DEF Retry
  <1>3. CASE Claim(w)
    BY <1>3 DEF Claim
  <1>4. CASE Insert(w)
    BY <1>4 DEF Insert
  <1>5. CASE SetOwner(w)
    BY <1>5 DEF SetOwner
  <1>6. CASE Publish(w)
    BY <1>6 DEF Publish
  <1>7. CASE Announce(w)
    BY <1>7 DEF Announce
  <1>8. CASE Unclaim(w)
    BY <1>8 DEF Unclaim
  <1>9. CASE Push(w)
    BY <1>9 DEF Push
  <1> QED BY <1>1, <1>2, <1>3, <1>4, <1>5, <1>6, <1>7, <1>8, <1>9 DEF Initiating

LEMMA DeletionReverting ==
  ASSUME TypeInv, DeletionInv, NEW w \in Workers, Reverting(w)
  PROVE  DeletionInv'
  <1> USE DEF TypeInv, TypeOK, DeletionInv, DeletersGone, GoneUncached, DeletionRuns,
        DeletionPCs, Step, Goto, Call, Return, db, cache, Idle
  <1>1. CASE StartRevert(w)
    BY <1>1 DEF StartRevert
  <1>2. CASE RevertRow(w)
    BY <1>2 DEF RevertRow
  <1>3. CASE RestoreOwner(w)
    BY <1>3 DEF RestoreOwner
  <1>4. CASE DropPending(w)
    BY <1>4 DEF DropPending
  <1>5. CASE HealPending(w)
    BY <1>5 DEF HealPending
  <1>6. CASE RegisterRevertDelivery(w)
    BY <1>6 DEF RegisterRevertDelivery
  <1>7. CASE RegisterTerminalSecretRecovery(w)
    BY <1>7 DEF RegisterTerminalSecretRecovery
  <1>8. CASE PushRevert(w)
    BY <1>8 DEF PushRevert
  <1> QED BY <1>1, <1>2, <1>3, <1>4, <1>5, <1>6, <1>7, <1>8 DEF Reverting

LEMMA DeletionDeleting ==
  ASSUME TypeInv, DeletionInv, NEW w \in Workers, Deleting(w)
  PROVE  DeletionInv'
  <1> USE DEF TypeInv, TypeOK, DeletionInv, DeletersGone, GoneUncached, DeletionRuns,
        DeletionPCs, Step, Goto, Call, Return, db, cache, Idle
  <1>1. CASE DeleteServer(w)
    BY <1>1 DEF DeleteServer
  <1>2. CASE OnServersDeletedRows(w)
    BY <1>2 DEF OnServersDeletedRows, CancelRows
  <1>3. CASE OnServersDeletedSlots(w)
    BY <1>3 DEF OnServersDeletedSlots
  <1>4. CASE DeleteCached(w)
    BY <1>4 DEF DeleteCached
  <1>5. CASE DeleteUser(w)
    BY <1>5 DEF DeleteUser
  <1>6. CASE OnUsersDeletedRows(w)
    BY <1>6 DEF OnUsersDeletedRows, CancelRows
  <1>7. CASE OnUsersDeletedSlots(w)
    BY <1>7 DEF OnUsersDeletedSlots
  <1>8. CASE DeleteUserRow(w)
    BY <1>8 DEF DeleteUserRow
  <1> QED BY <1>1, <1>2, <1>3, <1>4, <1>5, <1>6, <1>7, <1>8 DEF Deleting

LEMMA DeletionNext ==
  ASSUME "edit" \notin Ops, TypeInv, DeletionInv, [Next]_vars
  PROVE  DeletionInv'
  <1> USE DEF DeletionInv, DeletersGone, GoneUncached, DeletionRuns, DeletionPCs, db, cache, worker
  <1>1. ASSUME NEW w \in Workers, Initiating(w) \/ Reverting(w) \/ Deleting(w) PROVE DeletionInv'
    BY <1>1, DeletionInitiating, DeletionReverting, DeletionDeleting
  <1>2. ASSUME NEW c \in Clients, Authenticating(c) PROVE DeletionInv'
    BY <1>2 DEF Authenticating, AuthStart, AuthPending, MarkVerified, AuthRecovery, AckRow, Promote,
       AuthVerified, AuthGlobal, AuthOwner, AuthOwnerPending, AuthForeign, AuthForeignPending,
       Attach, OnAgentReconnect, PushOnReconnect
  <1>3. ASSUME NEW u \in Users, Controlling(u) PROVE DeletionInv'
    BY <1>3 DEF Controlling, BeginServerControl, RegisterStream, EndControl, CloseStream
  <1>4. CASE AgentReload \/ AgentDrop \/ Expire \/ PruneRecovery
    BY <1>4 DEF AgentReload, AgentDrop, Expire, PruneRecovery
  <1>5. CASE Restart
    BY <1>5 DEF Restart, Idle
  <1>6. CASE UNCHANGED vars
    BY <1>6 DEF vars
  <1> QED BY <1>1, <1>2, <1>3, <1>4, <1>5, <1>6 DEF Next, Editing

(* The rows of a deleted server are settled by the first hook. *)
RowsSettledOnce == ~dbServer => PendingRows = {} \/ \E w \in Workers : pc[w] = "delCancel"

LEMMA SettledInitiating ==
  ASSUME TypeInv, RowsSettledOnce, NEW w \in Workers, Initiating(w)
  PROVE  RowsSettledOnce'
  <1> USE DEF TypeInv, TypeOK, RowsSettledOnce, PendingRows, Step, Goto, Call, Return, db, Idle
  <1>1. CASE BatchMove(w)
    BY <1>1 DEF BatchMove
  <1>2. CASE Retry(w)
    BY <1>2 DEF Retry
  <1>3. CASE Claim(w)
    BY <1>3 DEF Claim
  <1>4. CASE Insert(w)
    BY <1>4 DEF Insert
  <1>5. CASE SetOwner(w)
    BY <1>5 DEF SetOwner
  <1>6. CASE Publish(w)
    BY <1>6 DEF Publish
  <1>7. CASE Announce(w)
    BY <1>7 DEF Announce
  <1>8. CASE Unclaim(w)
    BY <1>8 DEF Unclaim
  <1>9. CASE Push(w)
    BY <1>9 DEF Push
  <1> QED BY <1>1, <1>2, <1>3, <1>4, <1>5, <1>6, <1>7, <1>8, <1>9 DEF Initiating

LEMMA SettledReverting ==
  ASSUME TypeInv, RowsSettledOnce, NEW w \in Workers, Reverting(w)
  PROVE  RowsSettledOnce'
  <1> USE DEF TypeInv, TypeOK, RowsSettledOnce, PendingRows, Step, Goto, Call, Return, db, Idle
  <1>1. CASE StartRevert(w)
    BY <1>1 DEF StartRevert
  <1>2. CASE RevertRow(w)
    BY <1>2 DEF RevertRow
  <1>3. CASE RestoreOwner(w)
    BY <1>3 DEF RestoreOwner
  <1>4. CASE DropPending(w)
    BY <1>4 DEF DropPending
  <1>5. CASE HealPending(w)
    BY <1>5 DEF HealPending
  <1>6. CASE RegisterRevertDelivery(w)
    BY <1>6 DEF RegisterRevertDelivery
  <1>7. CASE RegisterTerminalSecretRecovery(w)
    BY <1>7 DEF RegisterTerminalSecretRecovery
  <1>8. CASE PushRevert(w)
    BY <1>8 DEF PushRevert
  <1> QED BY <1>1, <1>2, <1>3, <1>4, <1>5, <1>6, <1>7, <1>8 DEF Reverting

LEMMA SettledDeleting ==
  ASSUME TypeInv, RowsSettledOnce, NEW w \in Workers, Deleting(w)
  PROVE  RowsSettledOnce'
  <1> USE DEF TypeInv, TypeOK, RowsSettledOnce, PendingRows, Step, Goto, Call, Return, db, Idle
  <1>1. CASE DeleteServer(w)
    BY <1>1 DEF DeleteServer
  <1>2. CASE OnServersDeletedRows(w)
    BY <1>2 DEF OnServersDeletedRows, CancelRows, RowsOfServer
  <1>3. CASE OnServersDeletedSlots(w)
    BY <1>3 DEF OnServersDeletedSlots
  <1>4. CASE DeleteCached(w)
    BY <1>4 DEF DeleteCached
  <1>5. CASE DeleteUser(w)
    BY <1>5 DEF DeleteUser
  <1>6. CASE OnUsersDeletedRows(w)
    BY <1>6 DEF OnUsersDeletedRows, CancelRows, RowsOfUser
  <1>7. CASE OnUsersDeletedSlots(w)
    BY <1>7 DEF OnUsersDeletedSlots
  <1>8. CASE DeleteUserRow(w)
    BY <1>8 DEF DeleteUserRow
  <1> QED BY <1>1, <1>2, <1>3, <1>4, <1>5, <1>6, <1>7, <1>8 DEF Deleting

LEMMA SettledNext ==
  ASSUME "edit" \notin Ops, "restart" \notin Ops, TypeInv, RowsSettledOnce, [Next]_vars
  PROVE  RowsSettledOnce'
  <1> USE DEF RowsSettledOnce, PendingRows, db, worker
  <1>1. ASSUME NEW w \in Workers, Initiating(w) \/ Reverting(w) \/ Deleting(w)
        PROVE  RowsSettledOnce'
    BY <1>1, SettledInitiating, SettledReverting, SettledDeleting
  <1>2. ASSUME NEW c \in Clients, Authenticating(c) PROVE RowsSettledOnce'
    <2>1. CASE MarkVerified(c)
      BY <2>1 DEF MarkVerified, TypeInv, TypeOK
    <2>2. CASE ~MarkVerified(c)
      BY <1>2, <2>2 DEF Authenticating, AuthStart, AuthPending, AuthRecovery, AckRow, Promote,
         AuthVerified, AuthGlobal, AuthOwner, AuthOwnerPending, AuthForeign, AuthForeignPending,
         Attach, OnAgentReconnect, PushOnReconnect
    <2> QED BY <2>1, <2>2
  <1>3. ASSUME NEW u \in Users, Controlling(u) PROVE RowsSettledOnce'
    BY <1>3 DEF Controlling, BeginServerControl, RegisterStream, EndControl, CloseStream
  <1>4. CASE AgentReload \/ AgentDrop \/ Expire \/ PruneRecovery
    BY <1>4 DEF AgentReload, AgentDrop, Expire, PruneRecovery
  <1>5. CASE UNCHANGED vars
    BY <1>5 DEF vars
  <1> QED BY <1>1, <1>2, <1>3, <1>4, <1>5 DEF Next, Editing, Restart

(* Once the deletion of a server has returned none of its rows is Pending,   *)
(* whatever moves, retries, reverts and other deletions overlapped with it:  *)
(* a row is inserted only while the server's row exists, and every deletion  *)
(* settles what is pending after it has removed that row. A restart between  *)
(* the two leaves the row Pending.                                           *)
THEOREM DeletionSettles ==
  ASSUME "edit" \notin Ops, "restart" \notin Ops
  PROVE  Spec => []NoOrphanPending
  <1>1. Init => TypeInv /\ DeletionInv /\ RowsSettledOnce
    BY TypeInit, DeletionInit DEF Init, RowsSettledOnce
  <1>2. TypeInv /\ DeletionInv /\ RowsSettledOnce /\ [Next]_vars
          => (TypeInv /\ DeletionInv /\ RowsSettledOnce)'
    BY TypeNext, DeletionNext, SettledNext
  <1>3. DeletionInv /\ RowsSettledOnce => NoOrphanPending
    BY DEF DeletionInv, GoneUncached, RowsSettledOnce, NoOrphanPending, Quiet, Idle
  <1> QED BY <1>1, <1>2, <1>3, PTL DEF Spec

-----------------------------------------------------------------------------
(* The cached owner follows the database.                                    *)

CreationPCs == {"setOwner", "publish"}
RevertPCs == {"revert", "restore", "drop", "heal", "deliver"}

(* Nobody reverts a transfer that Register has not published: it has no      *)
(* entry that the sweeper or the agent could name.                           *)
RevertsPublished ==
    \A v, w \in Workers : pc[v] \in CreationPCs /\ pc[w] \in RevertPCs => tid[v] # tid[w]

LEMMA PublishedInit == Init => RevertsPublished
  BY DEF Init, RevertsPublished, CreationPCs, RevertPCs, Idle

LEMMA PublishedInitiating ==
  ASSUME TypeInv, ClaimInv, CredentialInv, RevertsPublished,
        NEW w \in Workers, Initiating(w)
  PROVE  RevertsPublished'
  <1> USE DEF TypeInv, TypeOK, NamesTransfer, RevertsPublished, CreationPCs, RevertPCs, Step,
        Goto, Call, Return, db, Idle
  <1>1. CASE BatchMove(w)
    BY <1>1 DEF BatchMove
  <1>2. CASE Retry(w)
    BY <1>2 DEF Retry
  <1>3. CASE Claim(w)
    BY <1>3 DEF Claim
  <1>4. CASE Insert(w)
    <2>1. CASE pc'[w] = "unclaim"
      BY <1>4, <2>1 DEF Insert
    <2>2. CASE pc'[w] = "setOwner"
      <3>1. PICK t \in Transfers : status[t] = "none" /\ Call(w, "setOwner", t)
        BY <1>4, <2>2, LatestBelow DEF Insert
      <3>2. \A v \in Workers : pc[v] \in RevertPCs => status[tid[v]] # "none"
        BY ZeroIsNoTransfer DEF ClaimInv, RevertsRow, DropsSettled, Settled, SettledPCs,
           CredentialInv, WorksOnReverted
      <3>3. \A v \in Workers : pc[v] \in CreationPCs => v = w
        BY <1>4 DEF Insert, ClaimInv, ClaimExclusive, Claimed, ClaimPCs
      <3> QED BY <3>1, <3>2, <3>3
    <2> QED BY <1>4, <2>1, <2>2 DEF Insert
  <1>5. CASE SetOwner(w)
    BY <1>5 DEF SetOwner
  <1>6. CASE Publish(w)
    BY <1>6 DEF Publish
  <1>7. CASE Announce(w)
    BY <1>7 DEF Announce
  <1>8. CASE Unclaim(w)
    BY <1>8 DEF Unclaim
  <1>9. CASE Push(w)
    BY <1>9 DEF Push
  <1> QED BY <1>1, <1>2, <1>3, <1>4, <1>5, <1>6, <1>7, <1>8, <1>9 DEF Initiating

LEMMA PublishedReverting ==
  ASSUME "cancelEarly" \notin Ops, TypeInv, ClaimInv, CredentialInv,
        RevertsPublished, NEW w \in Workers, Reverting(w)
  PROVE  RevertsPublished'
  <1> USE DEF TypeInv, TypeOK, NamesTransfer, RevertsPublished, CreationPCs, RevertPCs, Step,
        Goto, Call, Return, db, Idle
  <1>1. CASE StartRevert(w)
    <2>1. PICK t \in Rows : /\ ~Unpublished(t) \/ t = pending
                            /\ pc[w] = Idle /\ Call(w, "revert", t)
      BY <1>1 DEF StartRevert, SweepCandidate
    <2>2. t \in Transfers
      BY DEF Rows
    <2>3. \A v \in Workers : pc[v] \in CreationPCs => tid[v] # t
      BY <2>1, <2>2, ZeroIsNoTransfer DEF Unpublished, ClaimInv, NothingPublished
    <2> QED BY <1>1, <2>1, <2>3 DEF StartRevert
  <1>2. CASE RevertRow(w)
    BY <1>2 DEF RevertRow
  <1>3. CASE RestoreOwner(w)
    BY <1>3 DEF RestoreOwner
  <1>4. CASE DropPending(w)
    BY <1>4 DEF DropPending
  <1>5. CASE HealPending(w)
    BY <1>5 DEF HealPending
  <1>6. CASE RegisterRevertDelivery(w)
    BY <1>6 DEF RegisterRevertDelivery
  <1>7. CASE RegisterTerminalSecretRecovery(w)
    BY <1>7 DEF RegisterTerminalSecretRecovery
  <1>8. CASE PushRevert(w)
    BY <1>8 DEF PushRevert
  <1> QED BY <1>1, <1>2, <1>3, <1>4, <1>5, <1>6, <1>7, <1>8 DEF Reverting

LEMMA PublishedDeleting ==
  ASSUME TypeInv, ClaimInv, CredentialInv, RevertsPublished,
        NEW w \in Workers, Deleting(w)
  PROVE  RevertsPublished'
  <1> USE DEF TypeInv, TypeOK, NamesTransfer, RevertsPublished, CreationPCs, RevertPCs, Step,
        Goto, Call, Return, db, Idle
  <1>1. CASE DeleteServer(w)
    BY <1>1 DEF DeleteServer
  <1>2. CASE OnServersDeletedRows(w)
    BY <1>2 DEF OnServersDeletedRows, CancelRows
  <1>3. CASE OnServersDeletedSlots(w)
    BY <1>3 DEF OnServersDeletedSlots
  <1>4. CASE DeleteCached(w)
    BY <1>4 DEF DeleteCached
  <1>5. CASE DeleteUser(w)
    BY <1>5 DEF DeleteUser
  <1>6. CASE OnUsersDeletedRows(w)
    BY <1>6 DEF OnUsersDeletedRows, CancelRows
  <1>7. CASE OnUsersDeletedSlots(w)
    BY <1>7 DEF OnUsersDeletedSlots
  <1>8. CASE DeleteUserRow(w)
    BY <1>8 DEF DeleteUserRow
  <1> QED BY <1>1, <1>2, <1>3, <1>4, <1>5, <1>6, <1>7, <1>8 DEF Deleting

LEMMA PublishedNext ==
  ASSUME "cancelEarly" \notin Ops, TypeInv, ClaimInv, CredentialInv, RevertsPublished, [Next]_vars
  PROVE  RevertsPublished'
  <1> USE DEF RevertsPublished, CreationPCs, RevertPCs, worker
  <1>1. ASSUME NEW w \in Workers, Initiating(w) \/ Reverting(w) \/ Deleting(w)
        PROVE  RevertsPublished'
    BY <1>1, PublishedInitiating, PublishedReverting, PublishedDeleting
  <1>2. ASSUME NEW c \in Clients, Authenticating(c) PROVE RevertsPublished'
    BY <1>2 DEF Authenticating, AuthStart, AuthPending, MarkVerified, AuthRecovery, AckRow, Promote,
       AuthVerified, AuthGlobal, AuthOwner, AuthOwnerPending, AuthForeign, AuthForeignPending,
       Attach, OnAgentReconnect, PushOnReconnect
  <1>3. ASSUME NEW u \in Users, Controlling(u) PROVE RevertsPublished'
    BY <1>3 DEF Controlling, BeginServerControl, RegisterStream, EndControl, CloseStream
  <1>4. ASSUME NEW w \in Workers, Editing(w) PROVE RevertsPublished'
    BY <1>4 DEF Editing, UpdateServer, SaveServer, CopyServer, ReplaceServer, Step, Goto, Return,
       Idle, TypeInv, TypeOK
  <1>5. CASE AgentReload \/ AgentDrop \/ Expire \/ PruneRecovery
    BY <1>5 DEF AgentReload, AgentDrop, Expire, PruneRecovery
  <1>6. CASE Restart
    BY <1>6 DEF Restart, Idle
  <1>7. CASE UNCHANGED vars
    BY <1>7 DEF vars
  <1> QED BY <1>1, <1>2, <1>3, <1>4, <1>5, <1>6, <1>7 DEF Next

(* Between the two writes of a creation and of a reversal. *)
CreatorsOwn == \A w \in Workers : pc[w] = "setOwner" /\ dbServer => to[w] = dbOwner
RestoringOwn ==
    \A w \in Workers : pc[w] = "restore" /\ dbServer =>
      fromUser[tid[w]] = dbOwner \/ \E v \in Workers : pc[v] = "setOwner"
CacheFollows ==
    dbServer /\ memServer /\ (\A w \in Workers : pc[w] \notin {"setOwner", "restore"})
      => memOwner = dbOwner

OwnerInv == CreatorsOwn /\ RestoringOwn /\ CacheFollows

LEMMA OwnerInit == Init => OwnerInv
  BY DEF Init, OwnerInv, CreatorsOwn, RestoringOwn, CacheFollows, Idle

(* A row that is Pending while its reversal is about to settle it is the     *)
(* published one, so no creation is between its two writes.                  *)
LEMMA RevertsPending ==
  ASSUME TypeInv, ClaimInv, RevertsPublished, NEW w \in Workers,
         pc[w] = "revert", status[tid[w]] = "Pending", dbServer
  PROVE  pending = tid[w] /\ \A v \in Workers : pc[v] \notin {"insert", "setOwner", "publish"}
  <1>1. tid[w] \in PendingRows
    BY DEF TypeInv, NamesTransfer, PendingRows
  <1>2. ~Creating(tid[w])
    BY DEF Creating, RevertsPublished, CreationPCs, RevertPCs
  <1>3. pending = tid[w]
    BY <1>1, <1>2 DEF ClaimInv, PendingKnown
  <1> QED BY <1>1, <1>3, ZeroIsNoTransfer DEF ClaimInv, NothingPublished, PendingRows

LEMMA OwnerInitiating ==
  ASSUME TypeInv, ClaimInv, LockInv, CredentialInv, RevertsPublished,
        OwnerInv, NEW w \in Workers, Initiating(w)
  PROVE  OwnerInv'
  <1> USE DEF TypeInv, TypeOK, NamesTransfer, OwnerInv, CreatorsOwn, RestoringOwn, CacheFollows,
        Step, Goto, Call, Return, db, cache, Idle
  <1>1. CASE BatchMove(w)
    BY <1>1 DEF BatchMove
  <1>2. CASE Retry(w)
    BY <1>2 DEF Retry
  <1>3. CASE Claim(w)
    BY <1>3 DEF Claim
  <1>4. CASE Insert(w)
    <2>1. CASE pc'[w] = "unclaim"
      BY <1>4, <2>1 DEF Insert
    <2>2. CASE pc'[w] = "setOwner"
      <3>1. PICK t \in Transfers :
              /\ status[t] = "none" /\ dbOwner' = to[w] /\ Call(w, "setOwner", t)
              /\ fromUser' = [fromUser EXCEPT ![t] = from[w]]
        BY <1>4, <2>2, LatestBelow DEF Insert
      <3>2. \A v \in Workers : pc[v] = "restore" => status[tid[v]] # "none"
        BY DEF CredentialInv, WorksOnReverted
      <3>3. \A v \in Workers : pc[v] = "setOwner" => v = w
        BY <1>4 DEF Insert, ClaimInv, ClaimExclusive, Claimed, ClaimPCs
      <3> QED BY <3>1, <3>2, <3>3
    <2> QED BY <1>4, <2>1, <2>2 DEF Insert
  <1>5. CASE SetOwner(w)
    BY <1>5, LockWorkers DEF SetOwner, TakeControl, SetUserID, LockInv, LockHeld, LockPCs,
        ClaimInv, ClaimExclusive, Claimed, ClaimPCs
  <1>6. CASE Publish(w)
    BY <1>6 DEF Publish
  <1>7. CASE Announce(w)
    BY <1>7 DEF Announce
  <1>8. CASE Unclaim(w)
    BY <1>8 DEF Unclaim
  <1>9. CASE Push(w)
    BY <1>9 DEF Push
  <1> QED BY <1>1, <1>2, <1>3, <1>4, <1>5, <1>6, <1>7, <1>8, <1>9 DEF Initiating

LEMMA OwnerReverting ==
  ASSUME TypeInv, ClaimInv, LockInv, CredentialInv, RevertsPublished,
        OwnerInv, NEW w \in Workers, Reverting(w)
  PROVE  OwnerInv'
  <1> USE DEF TypeInv, TypeOK, NamesTransfer, OwnerInv, CreatorsOwn, RestoringOwn, CacheFollows,
        Step, Goto, Call, Return, db, cache, Idle
  <1>1. CASE StartRevert(w)
    BY <1>1 DEF StartRevert
  <1>2. CASE RevertRow(w)
    <2>1. CASE pc'[w] = "restore"
      <3>1. /\ status[tid[w]] = "Pending" /\ dbServer /\ tid[w] \in Transfers /\ pc[w] = "revert"
            /\ dbOwner' = fromUser[tid[w]] /\ controlLock = NoWorker
            /\ Goto(w, "restore") /\ UNCHANGED <<tid, fromUser, dbServer, to>>
        BY <1>2, <2>1 DEF RevertRow, StillPending, TakeControl
      <3>2. \A v \in Workers : pc[v] \notin {"setOwner", "publish", "restore"}
        BY <3>1, RevertsPending, LockWorkers DEF LockInv, LockHeld, LockPCs
      <3>3. \A v \in Workers : pc'[v] \in {"setOwner", "publish", "restore"} => v = w
        BY <3>1, <3>2
      <3> QED BY <3>1, <3>2, <3>3
    <2>2. CASE pc'[w] # "restore"
      BY <1>2, <2>2 DEF RevertRow
    <2> QED BY <2>1, <2>2
  <1>3. CASE RestoreOwner(w)
    BY <1>3, LockWorkers DEF RestoreOwner, SetUserID, LockInv, LockHeld, LockPCs
  <1>4. CASE DropPending(w)
    BY <1>4 DEF DropPending
  <1>5. CASE HealPending(w)
    BY <1>5 DEF HealPending
  <1>6. CASE RegisterRevertDelivery(w)
    BY <1>6 DEF RegisterRevertDelivery
  <1>7. CASE RegisterTerminalSecretRecovery(w)
    BY <1>7 DEF RegisterTerminalSecretRecovery
  <1>8. CASE PushRevert(w)
    BY <1>8 DEF PushRevert
  <1> QED BY <1>1, <1>2, <1>3, <1>4, <1>5, <1>6, <1>7, <1>8 DEF Reverting

LEMMA OwnerDeleting ==
  ASSUME TypeInv, ClaimInv, LockInv, CredentialInv, RevertsPublished,
        OwnerInv, NEW w \in Workers, Deleting(w)
  PROVE  OwnerInv'
  <1> USE DEF TypeInv, TypeOK, NamesTransfer, OwnerInv, CreatorsOwn, RestoringOwn, CacheFollows,
        Step, Goto, Call, Return, db, cache, Idle
  <1>1. CASE DeleteServer(w)
    BY <1>1 DEF DeleteServer
  <1>2. CASE OnServersDeletedRows(w)
    BY <1>2 DEF OnServersDeletedRows, CancelRows
  <1>3. CASE OnServersDeletedSlots(w)
    BY <1>3 DEF OnServersDeletedSlots
  <1>4. CASE DeleteCached(w)
    BY <1>4 DEF DeleteCached
  <1>5. CASE DeleteUser(w)
    BY <1>5 DEF DeleteUser
  <1>6. CASE OnUsersDeletedRows(w)
    BY <1>6 DEF OnUsersDeletedRows, CancelRows
  <1>7. CASE OnUsersDeletedSlots(w)
    BY <1>7 DEF OnUsersDeletedSlots
  <1>8. CASE DeleteUserRow(w)
    BY <1>8 DEF DeleteUserRow
  <1> QED BY <1>1, <1>2, <1>3, <1>4, <1>5, <1>6, <1>7, <1>8 DEF Deleting

LEMMA OwnerNext ==
  ASSUME "edit" \notin Ops, TypeInv, ClaimInv, LockInv, CredentialInv, RevertsPublished,
         OwnerInv, [Next]_vars
  PROVE  OwnerInv'
  <1> USE DEF OwnerInv, CreatorsOwn, RestoringOwn, CacheFollows, db, cache, worker
  <1>1. ASSUME NEW w \in Workers, Initiating(w) \/ Reverting(w) \/ Deleting(w) PROVE OwnerInv'
    BY <1>1, OwnerInitiating, OwnerReverting, OwnerDeleting
  <1>2. ASSUME NEW c \in Clients, Authenticating(c) PROVE OwnerInv'
    BY <1>2 DEF Authenticating, AuthStart, AuthPending, MarkVerified, AuthRecovery, AckRow, Promote,
       AuthVerified, AuthGlobal, AuthOwner, AuthOwnerPending, AuthForeign, AuthForeignPending,
       Attach, OnAgentReconnect, PushOnReconnect
  <1>3. ASSUME NEW u \in Users, Controlling(u) PROVE OwnerInv'
    BY <1>3 DEF Controlling, BeginServerControl, RegisterStream, EndControl, CloseStream
  <1>4. CASE AgentReload \/ AgentDrop \/ Expire \/ PruneRecovery
    BY <1>4 DEF AgentReload, AgentDrop, Expire, PruneRecovery
  <1>5. CASE Restart
    BY <1>5 DEF Restart, Idle
  <1>6. CASE UNCHANGED vars
    BY <1>6 DEF vars
  <1> QED BY <1>1, <1>2, <1>3, <1>4, <1>5, <1>6 DEF Next, Editing

(* Whenever no transition is in progress, the owner that every check of the  *)
(* process uses is the one in the database: Register and revertTransition    *)
(* write both, in that order, and exclude each other, whatever deletions and *)
(* restarts come between. A Cancel of a transfer that is still unpublished,  *)
(* and an edit of the server's row, obey no such rule.                       *)
THEOREM OwnersAgree ==
  ASSUME "edit" \notin Ops, "cancelEarly" \notin Ops
  PROVE  Spec => []OwnerCoherent
  <1> DEFINE Inv == /\ TypeInv /\ ClaimInv /\ LockInv /\ CredentialInv
                    /\ RevertsPublished /\ OwnerInv
  <1>1. Init => Inv
    BY TypeInit, ClaimInit, LockInit, CredentialInit, PublishedInit, OwnerInit
  <1>2. Inv /\ [Next]_vars => Inv'
    BY TypeNext, ClaimNext, LockNext, CredentialNext, PublishedNext, OwnerNext
  <1>3. Inv => OwnerCoherent
    BY DEF OwnerInv, CacheFollows, OwnerCoherent, Quiet, Idle
  <1> QED BY <1>1, <1>2, <1>3, PTL DEF Spec

-----------------------------------------------------------------------------
(* The pending index follows the rows.                                       *)

(* The row of an unpublished creation is Pending, unless the server has been *)
(* deleted behind it.                                                        *)
CreatedPending ==
    \A w \in Workers : pc[w] \in CreationPCs /\ memServer =>
      status[tid[w]] = "Pending" \/ \E v \in Workers : pc[v] \in {"delDrop", "delCache"}

(* The entry names a Pending row, or a handler that has settled the row is   *)
(* about to drop the entry.                                                  *)
PendingIndexed ==
    memServer /\ pending # NoTransfer =>
      \/ status[pending] = "Pending"
      \/ \E w \in Workers : pc[w] \in {"restore", "drop"} /\ tid[w] = pending
      \/ \E w \in Workers : pc[w] \in {"delDrop", "delCache"}

IndexInv == CreatedPending /\ PendingIndexed

(* Without deletions of users no handler runs their hooks. *)
NoUserLeaves == \A w \in Workers : pc[w] \notin {"userCancel", "userDrop", "userRow"}

LEMMA StayInit == Init => NoUserLeaves
  BY DEF Init, NoUserLeaves, Idle

LEMMA StayNext ==
  ASSUME "deleteUser" \notin Ops, TypeInv, NoUserLeaves, [Next]_vars
  PROVE  NoUserLeaves'
  <1> USE DEF NoUserLeaves, TypeInv, TypeOK, worker, Step, Goto, Call, Return, Idle
  <1>1. ASSUME NEW w \in Workers, Initiating(w) PROVE NoUserLeaves'
    BY <1>1 DEF Initiating, BatchMove, Retry, Claim, Insert, SetOwner, Publish, Announce, Unclaim,
       Push
  <1>2. ASSUME NEW w \in Workers, Reverting(w) PROVE NoUserLeaves'
    BY <1>2 DEF Reverting, StartRevert, RevertRow, RestoreOwner, DropPending, HealPending,
       RegisterRevertDelivery, RegisterTerminalSecretRecovery, PushRevert
  <1>3. ASSUME NEW w \in Workers, Deleting(w) PROVE NoUserLeaves'
    BY <1>3 DEF Deleting, DeleteServer, OnServersDeletedRows, OnServersDeletedSlots, DeleteCached,
       DeleteUser, OnUsersDeletedRows, OnUsersDeletedSlots, DeleteUserRow, CancelRows
  <1>4. ASSUME NEW w \in Workers, Editing(w) PROVE NoUserLeaves'
    BY <1>4 DEF Editing, UpdateServer, SaveServer, CopyServer, ReplaceServer
  <1>5. ASSUME NEW c \in Clients, Authenticating(c) PROVE NoUserLeaves'
    BY <1>5 DEF Authenticating, AuthStart, AuthPending, MarkVerified, AuthRecovery, AckRow, Promote,
       AuthVerified, AuthGlobal, AuthOwner, AuthOwnerPending, AuthForeign, AuthForeignPending,
       Attach, OnAgentReconnect, PushOnReconnect
  <1>6. ASSUME NEW u \in Users, Controlling(u) PROVE NoUserLeaves'
    BY <1>6 DEF Controlling, BeginServerControl, RegisterStream, EndControl, CloseStream
  <1>7. CASE AgentReload \/ AgentDrop \/ Expire \/ PruneRecovery \/ Restart \/ UNCHANGED vars
    BY <1>7 DEF AgentReload, AgentDrop, Expire, PruneRecovery, Restart, vars
  <1> QED BY <1>1, <1>2, <1>3, <1>4, <1>5, <1>6, <1>7 DEF Next

LEMMA IndexInit == Init => IndexInv
  BY DEF Init, IndexInv, CreatedPending, PendingIndexed, CreationPCs, Idle

LEMMA IndexInitiating ==
  ASSUME TypeInv, ClaimInv, RevertsPublished, IndexInv, NoUserLeaves,
        NEW w \in Workers, Initiating(w)
  PROVE  IndexInv'
  <1> USE DEF TypeInv, TypeOK, NamesTransfer, IndexInv, NoUserLeaves, CreatedPending,
        PendingIndexed, CreationPCs, Step, Goto, Call, Return, db, cache, index, Idle, DropIf
  <1>1. CASE BatchMove(w)
    BY <1>1, ZeroIsNoTransfer DEF BatchMove
  <1>2. CASE Retry(w)
    BY <1>2, ZeroIsNoTransfer DEF Retry
  <1>3. CASE Claim(w)
    BY <1>3, ZeroIsNoTransfer DEF Claim
  <1>4. CASE Insert(w)
    BY <1>4, ZeroIsNoTransfer, LatestBelow DEF Insert
  <1>5. CASE SetOwner(w)
    BY <1>5, ZeroIsNoTransfer DEF SetOwner
  <1>6. CASE Publish(w)
    BY <1>6, ZeroIsNoTransfer DEF Publish
  <1>7. CASE Announce(w)
    BY <1>7, ZeroIsNoTransfer DEF Announce
  <1>8. CASE Unclaim(w)
    BY <1>8, ZeroIsNoTransfer DEF Unclaim
  <1>9. CASE Push(w)
    BY <1>9, ZeroIsNoTransfer DEF Push
  <1> QED BY <1>1, <1>2, <1>3, <1>4, <1>5, <1>6, <1>7, <1>8, <1>9 DEF Initiating

LEMMA IndexReverting ==
  ASSUME TypeInv, ClaimInv, RevertsPublished, IndexInv, NoUserLeaves,
        NEW w \in Workers, Reverting(w)
  PROVE  IndexInv'
  <1> USE DEF TypeInv, TypeOK, NamesTransfer, IndexInv, NoUserLeaves, CreatedPending,
        PendingIndexed, CreationPCs, Step, Goto, Call, Return, db, cache, index, Idle, DropIf
  <1>1. CASE StartRevert(w)
    BY <1>1, ZeroIsNoTransfer DEF StartRevert
  <1>2. CASE RevertRow(w)
    <2>1. CASE pc'[w] = "restore"
      <3>1. /\ status[tid[w]] = "Pending" /\ dbServer /\ tid[w] \in Transfers /\ pc[w] = "revert"
            /\ status' = [status EXCEPT ![tid[w]] = "Reverted"]
            /\ Goto(w, "restore") /\ UNCHANGED <<tid, memServer, pending>>
        BY <1>2, <2>1 DEF RevertRow, StillPending
      <3>2. pending = tid[w] /\ \A v \in Workers : pc[v] \notin {"insert", "setOwner", "publish"}
        BY <3>1, RevertsPending
      <3> QED BY <3>1, <3>2
    <2>2. CASE pc'[w] # "restore"
      BY <1>2, <2>2 DEF RevertRow
    <2> QED BY <2>1, <2>2
  <1>3. CASE RestoreOwner(w)
    BY <1>3, ZeroIsNoTransfer DEF RestoreOwner
  <1>4. CASE DropPending(w)
    BY <1>4, ZeroIsNoTransfer DEF DropPending
  <1>5. CASE HealPending(w)
    BY <1>5, ZeroIsNoTransfer DEF HealPending
  <1>6. CASE RegisterRevertDelivery(w)
    BY <1>6, ZeroIsNoTransfer DEF RegisterRevertDelivery
  <1>7. CASE RegisterTerminalSecretRecovery(w)
    BY <1>7, ZeroIsNoTransfer DEF RegisterTerminalSecretRecovery
  <1>8. CASE PushRevert(w)
    BY <1>8, ZeroIsNoTransfer DEF PushRevert
  <1> QED BY <1>1, <1>2, <1>3, <1>4, <1>5, <1>6, <1>7, <1>8 DEF Reverting

LEMMA IndexDeleting ==
  ASSUME TypeInv, ClaimInv, RevertsPublished, IndexInv, NoUserLeaves,
        NEW w \in Workers, Deleting(w)
  PROVE  IndexInv'
  <1> USE DEF TypeInv, TypeOK, NamesTransfer, IndexInv, NoUserLeaves, CreatedPending,
        PendingIndexed, CreationPCs, Step, Goto, Call, Return, db, cache, index, Idle, DropIf
  <1>1. CASE DeleteServer(w)
    BY <1>1 DEF DeleteServer
  <1>2. CASE OnServersDeletedRows(w)
    BY <1>2 DEF OnServersDeletedRows, CancelRows
  <1>3. CASE OnServersDeletedSlots(w)
    BY <1>3 DEF OnServersDeletedSlots
  <1>4. CASE DeleteCached(w)
    BY <1>4 DEF DeleteCached
  <1>5. CASE DeleteUser(w)
    BY <1>5 DEF DeleteUser
  <1>6. CASE OnUsersDeletedRows(w)
    BY <1>6 DEF OnUsersDeletedRows, CancelRows
  <1>7. CASE OnUsersDeletedSlots(w)
    BY <1>7 DEF OnUsersDeletedSlots
  <1>8. CASE DeleteUserRow(w)
    BY <1>8 DEF DeleteUserRow
  <1> QED BY <1>1, <1>2, <1>3, <1>4, <1>5, <1>6, <1>7, <1>8 DEF Deleting

LEMMA IndexVerifies ==
  ASSUME TypeInv, ClaimInv, IndexInv, NEW c \in Clients, MarkVerified(c)
  PROVE  IndexInv'
  <1> USE DEF IndexInv, CreatedPending, PendingIndexed, CreationPCs, worker, cache
  <1>1. aid[c] \in Transfers
    BY DEF MarkVerified, At, TypeInv, NamesTransfer
  <1>2. CASE UNCHANGED <<status, pending>>
    BY <1>2 DEF MarkVerified
  <1>3. CASE pending' = NoTransfer /\ status' = status
    BY <1>3 DEF MarkVerified
  <1>4. CASE pending = aid[c] /\ pending' = NoTransfer
    <2>1. \A w \in Workers : pc[w] \notin CreationPCs
      BY <1>1, <1>4, ZeroIsNoTransfer DEF ClaimInv, NothingPublished
    <2> QED BY <1>4, <2>1 DEF MarkVerified
  <1> QED BY <1>2, <1>3, <1>4 DEF MarkVerified

LEMMA IndexNext ==
  ASSUME "edit" \notin Ops, TypeInv, ClaimInv, RevertsPublished, IndexInv, NoUserLeaves, [Next]_vars
  PROVE  IndexInv'
  <1> USE DEF IndexInv, NoUserLeaves, CreatedPending, PendingIndexed, CreationPCs, db, cache, index,
        worker
  <1>1. ASSUME NEW w \in Workers, Initiating(w) \/ Reverting(w) \/ Deleting(w)
        PROVE  IndexInv'
    BY <1>1, IndexInitiating, IndexReverting, IndexDeleting
  <1>2. ASSUME NEW c \in Clients, Authenticating(c) PROVE IndexInv'
    <2>1. CASE MarkVerified(c)
      BY <2>1, IndexVerifies DEF MarkVerified
    <2>2. CASE ~MarkVerified(c)
      BY <1>2, <2>2 DEF Authenticating, AuthStart, AuthPending, AuthRecovery, AckRow, Promote,
         AuthVerified, AuthGlobal, AuthOwner, AuthOwnerPending, AuthForeign, AuthForeignPending,
         Attach, OnAgentReconnect, PushOnReconnect
    <2> QED BY <2>1, <2>2
  <1>3. ASSUME NEW u \in Users, Controlling(u) PROVE IndexInv'
    BY <1>3 DEF Controlling, BeginServerControl, RegisterStream, EndControl, CloseStream
  <1>4. CASE AgentReload \/ AgentDrop \/ Expire \/ PruneRecovery
    BY <1>4 DEF AgentReload, AgentDrop, Expire, PruneRecovery
  <1>5. CASE Restart
    BY <1>5 DEF Restart, RebuiltPending, Latest, PendingRows, Idle
  <1>6. CASE UNCHANGED vars
    BY <1>6 DEF vars
  <1> QED BY <1>1, <1>2, <1>3, <1>4, <1>5, <1>6 DEF Next, Editing

(* Whenever no transition is in progress, the pending index of a cached      *)
(* server names the row that is Pending, or nothing when none is: the window *)
(* in which authentication tolerates both parties is open for exactly the    *)
(* transfers in flight. The deletion of a user and an early Cancel may each  *)
(* settle a row that its Register publishes afterwards.                      *)
THEOREM IndexAgrees ==
  ASSUME "edit" \notin Ops, "cancelEarly" \notin Ops, "deleteUser" \notin Ops
  PROVE  Spec => []IndexCoherent
  <1> DEFINE Inv == /\ TypeInv /\ ClaimInv /\ LockInv /\ CredentialInv /\ DeletionInv
                    /\ RevertsPublished /\ IndexInv /\ NoUserLeaves
  <1>1. Init => Inv
    BY TypeInit, ClaimInit, LockInit, CredentialInit, DeletionInit, PublishedInit, IndexInit,
       StayInit
  <1>2. Inv /\ [Next]_vars => Inv'
    BY TypeNext, ClaimNext, LockNext, CredentialNext, DeletionNext, PublishedNext, IndexNext,
       StayNext
  <1>3. Inv => IndexCoherent
    <2> SUFFICES ASSUME Inv, Quiet, memServer PROVE pending \in Latest(PendingRows)
      BY DEF IndexCoherent
    <2>1. dbServer
      BY DEF DeletionInv, DeletionRuns, DeletionPCs, Quiet, Idle
    <2>2. \A t \in PendingRows : t = pending
      BY <2>1 DEF ClaimInv, PendingKnown, Creating, Quiet, Idle
    <2>3. pending # NoTransfer => pending \in PendingRows
      BY DEF IndexInv, PendingIndexed, Quiet, Idle, PendingRows, TypeInv, TypeOK
    <2>4. CASE pending = NoTransfer
      <3>1. PendingRows = {}
        BY <2>2, <2>4, ZeroIsNoTransfer DEF PendingRows
      <3> QED BY <2>4, <3>1 DEF Latest
    <2>5. CASE pending # NoTransfer
      BY <2>2, <2>3, <2>5 DEF Latest, PendingRows, Transfers
    <2> QED BY <2>4, <2>5
  <1> QED BY <1>1, <1>2, <1>3, PTL DEF Spec

-----------------------------------------------------------------------------
(* The newest row decides who owns the server.                               *)

PendingNewest == PendingRows \subseteq Latest(Rows)
NewestInv == PendingNewest /\ NewestRowDecidesOwner

LEMMA NewestInit == Init => NewestInv
  BY DEF Init, NewestInv, PendingNewest, NewestRowDecidesOwner, PendingRows, Rows, Latest

LEMMA LatestIsOne ==
  ASSUME NEW S \in SUBSET Transfers, NEW s \in Latest(S), NEW t \in Latest(S)
  PROVE  s = t
  <1>1. CASE S = {}
    BY <1>1 DEF Latest
  <1>2. CASE S # {}
    <2>1. s \in S /\ t \in S /\ s <= t /\ t <= s
      BY <1>2 DEF Latest
    <2>2. s \in Int /\ t \in Int
      BY <2>1, NumbersAssumption DEF Transfers
    <2> QED BY <2>1, <2>2
  <1> QED BY <1>1, <1>2

(* A new row is the newest. *)
LEMMA InsertTops ==
  ASSUME TypeInv, NEW t \in Transfers, t - 1 \in Latest(Rows),
         status' = [status EXCEPT ![t] = "Pending"]
  PROVE  Rows' = Rows \cup {t} /\ Latest(Rows') = {t} /\ \A s \in Rows : s < t
  <1>1. \A s \in Rows : s \in Int /\ s <= t - 1
    BY DEF Latest, Rows, Transfers
  <1>2. Rows' = Rows \cup {t}
    BY DEF Rows, TypeInv, TypeOK
  <1>3. Latest(Rows') = {t}
    BY <1>1, <1>2 DEF Latest, Transfers
  <1>4. t \in Int
    BY NumbersAssumption DEF Transfers
  <1>5. \A s \in Rows : s < t
    BY <1>1, <1>4
  <1> QED BY <1>2, <1>3, <1>5

(* Nothing is Pending when a row is inserted. *)
LEMMA InsertsAlone ==
  ASSUME TypeInv, ClaimInv, NEW w \in Workers, pc[w] = "insert", dbServer
  PROVE  PendingRows = {}
  BY ZeroIsNoTransfer DEF ClaimInv, PendingKnown, NothingPublished, ClaimExclusive, Claimed,
     ClaimPCs, Creating, PendingRows

LEMMA NewestKept ==
  ASSUME NewestInv, UNCHANGED <<status, fromUser, toUser, dbOwner>>, dbServer' => dbServer
  PROVE  NewestInv'
  BY DEF NewestInv, PendingNewest, NewestRowDecidesOwner, PendingRows, Rows

LEMMA NewestInserts ==
  ASSUME TypeInv, ClaimInv, NewestInv, NEW w \in Workers, Insert(w)
  PROVE  NewestInv'
  <1>1. CASE UNCHANGED <<status, fromUser, toUser, dbOwner>>
    BY <1>1, NewestKept DEF Insert
  <1>2. ASSUME NEW t \in Transfers, dbServer, t - 1 \in Latest(Rows),
               status' = [status EXCEPT ![t] = "Pending"],
               toUser' = [toUser EXCEPT ![t] = to[w]], dbOwner' = to[w]
        PROVE  NewestInv'
    <2>1. Latest(Rows') = {t}
      BY <1>2, InsertTops
    <2>2. PendingRows' = {t}
      BY <1>2, InsertsAlone DEF Insert, PendingRows, TypeInv, TypeOK
    <2>3. status'[t] = "Pending" /\ toUser'[t] = dbOwner'
      BY <1>2 DEF TypeInv, TypeOK
    <2> QED BY <2>1, <2>2, <2>3 DEF NewestInv, PendingNewest, NewestRowDecidesOwner
  <1> QED BY <1>1, <1>2 DEF Insert

LEMMA NewestReverts ==
  ASSUME TypeInv, NewestInv, NEW w \in Workers, RevertRow(w)
  PROVE  NewestInv'
  <1>1. CASE UNCHANGED <<status, dbOwner>>
    BY <1>1, NewestKept DEF RevertRow
  <1>2. CASE /\ StillPending(tid[w]) /\ status' = [status EXCEPT ![tid[w]] = "Reverted"]
             /\ dbOwner' = fromUser[tid[w]]
    <2>1. tid[w] \in PendingRows /\ tid[w] \in Latest(Rows) /\ fromUser' = fromUser
      BY <1>2 DEF RevertRow, StillPending, PendingRows, TypeInv, NamesTransfer, NewestInv,
         PendingNewest
    <2>2. Rows' = Rows /\ PendingRows' \subseteq PendingRows
      BY <1>2, <2>1 DEF Rows, PendingRows, TypeInv, TypeOK
    <2>3. PendingNewest'
      BY <2>2 DEF NewestInv, PendingNewest
    <2>4. \A t \in Latest(Rows) : t = tid[w]
      BY <2>1, LatestIsOne DEF Rows
    <2>5. status'[tid[w]] = "Reverted"
      BY <1>2, <2>1 DEF PendingRows, TypeInv, TypeOK
    <2>6. NewestRowDecidesOwner'
      BY <1>2, <2>1, <2>2, <2>4, <2>5 DEF NewestRowDecidesOwner
    <2> QED BY <2>3, <2>6 DEF NewestInv
  <1> QED BY <1>1, <1>2 DEF RevertRow

LEMMA NewestVerifies ==
  ASSUME TypeInv, NewestInv, NEW c \in Clients, MarkVerified(c)
  PROVE  NewestInv'
  <1>1. UNCHANGED <<fromUser, toUser, dbOwner, dbServer>>
    BY DEF MarkVerified
  <1>2. CASE status' = status
    BY <1>1, <1>2, NewestKept
  <1>3. CASE status[aid[c]] = "Pending" /\ status' = [status EXCEPT ![aid[c]] = "Verified"]
    <2>1. aid[c] \in Transfers
      BY DEF MarkVerified, At, TypeInv, NamesTransfer
    <2>2. Rows' = Rows /\ PendingRows' \subseteq PendingRows
      BY <1>3, <2>1 DEF Rows, PendingRows, TypeInv, TypeOK
    <2>3. \A t \in Transfers : status'[t] = "Reverted" <=> status[t] = "Reverted"
      BY <1>3, <2>1 DEF TypeInv, TypeOK
    <2>4. \A t \in Latest(Rows) \ {NoTransfer} : t \in Transfers
      BY DEF Latest, Rows
    <2>5. PendingNewest'
      BY <2>2 DEF NewestInv, PendingNewest
    <2>6. NewestRowDecidesOwner'
      BY <1>1, <2>2, <2>3, <2>4 DEF NewestInv, NewestRowDecidesOwner
    <2> QED BY <2>5, <2>6 DEF NewestInv
  <1> QED BY <1>2, <1>3 DEF MarkVerified

(* Deleting the server settles rows that no longer decide anything. *)
LEMMA NewestDeletes ==
  ASSUME TypeInv, DeletionInv, NoUserLeaves, NewestInv, NEW w \in Workers, Deleting(w)
  PROVE  NewestInv'
  <1>1. CASE OnServersDeletedRows(w)
    <2>1. ~dbServer /\ dbServer' = dbServer
      BY <1>1 DEF OnServersDeletedRows, CancelRows, DeletionInv, DeletersGone, DeletionPCs
    <2>2. PendingRows' = {}
      BY <1>1 DEF OnServersDeletedRows, CancelRows, RowsOfServer, PendingRows
    <2> QED BY <2>1, <2>2 DEF NewestInv, PendingNewest, NewestRowDecidesOwner
  <1>2. CASE OnUsersDeletedRows(w)
    BY <1>2 DEF OnUsersDeletedRows, NoUserLeaves
  <1>3. CASE ~OnServersDeletedRows(w) /\ ~OnUsersDeletedRows(w)
    <2>1. UNCHANGED <<status, fromUser, toUser, dbOwner>> /\ (dbServer' => dbServer)
      BY <1>3 DEF Deleting, DeleteServer, OnServersDeletedSlots, DeleteCached, DeleteUser,
         OnUsersDeletedSlots, DeleteUserRow, db
    <2> QED BY <2>1, NewestKept
  <1> QED BY <1>1, <1>2, <1>3

LEMMA NewestNext ==
  ASSUME "edit" \notin Ops, TypeInv, ClaimInv, DeletionInv, NoUserLeaves, NewestInv, [Next]_vars
  PROVE  NewestInv'
  <1>1. ASSUME NEW w \in Workers, Initiating(w) PROVE NewestInv'
    <2>1. CASE ~Insert(w)
      <3>1. UNCHANGED db
        BY <1>1, <2>1 DEF Initiating, BatchMove, Retry, Claim, SetOwner, Publish, Announce, Unclaim,
           Push
      <3> QED BY <3>1, NewestKept DEF db
    <2> QED BY <2>1, NewestInserts
  <1>2. ASSUME NEW w \in Workers, Reverting(w) PROVE NewestInv'
    <2>1. CASE ~RevertRow(w)
      <3>1. UNCHANGED db
        BY <1>2, <2>1 DEF Reverting, StartRevert, RestoreOwner, DropPending, HealPending,
           RegisterRevertDelivery, RegisterTerminalSecretRecovery, PushRevert
      <3> QED BY <3>1, NewestKept DEF db
    <2> QED BY <2>1, NewestReverts
  <1>3. ASSUME NEW w \in Workers, Deleting(w) PROVE NewestInv'
    BY <1>3, NewestDeletes
  <1>4. ASSUME NEW c \in Clients, Authenticating(c) PROVE NewestInv'
    <2>1. CASE ~MarkVerified(c)
      <3>1. UNCHANGED <<status, fromUser, toUser, dbOwner, dbServer>>
        BY <1>4, <2>1 DEF Authenticating, AuthStart, AuthPending, AuthRecovery, AckRow, Promote,
           AuthVerified, AuthGlobal, AuthOwner, AuthOwnerPending, AuthForeign, AuthForeignPending,
           Attach, OnAgentReconnect, PushOnReconnect, db
      <3> QED BY <3>1, NewestKept
    <2> QED BY <2>1, NewestVerifies
  <1>5. ASSUME NEW u \in Users, Controlling(u) PROVE NewestInv'
    BY <1>5, NewestKept
       DEF Controlling, BeginServerControl, RegisterStream, EndControl, CloseStream, db
  <1>6. CASE AgentReload \/ AgentDrop \/ Expire \/ PruneRecovery \/ Restart
    BY <1>6, NewestKept DEF AgentReload, AgentDrop, Expire, PruneRecovery, Restart, db
  <1>7. CASE UNCHANGED vars
    BY <1>7, NewestKept DEF vars, db
  <1> QED BY <1>1, <1>2, <1>3, <1>4, <1>5, <1>6, <1>7 DEF Next, Editing

(* As long as the server exists, its newest row says who owns it: whom it    *)
(* went to, or whom it came from when the row was reverted. A cancel, a      *)
(* failure or a timeout that comes late, after a newer transfer has begun,   *)
(* moves nothing. The deletion of a user settles the rows of servers that    *)
(* stay without moving them.                                                 *)
THEOREM NewestDecides ==
  ASSUME "edit" \notin Ops, "deleteUser" \notin Ops
  PROVE  Spec => []NewestRowDecidesOwner
  <1> DEFINE Inv == TypeInv /\ ClaimInv /\ DeletionInv /\ NoUserLeaves /\ NewestInv
  <1>1. Init => Inv
    BY TypeInit, ClaimInit, DeletionInit, StayInit, NewestInit
  <1>2. Inv /\ [Next]_vars => Inv'
    BY TypeNext, ClaimNext, DeletionNext, StayNext, NewestNext
  <1>3. Inv => NewestRowDecidesOwner
    BY DEF NewestInv
  <1> QED BY <1>1, <1>2, <1>3, PTL DEF Spec

-----------------------------------------------------------------------------
(* The destination of a published transfer is held out.                      *)

(* A caller that is taken for the agent by a transfer's own secret has it.   *)
ShownSecrets ==
    \A c \in Clients :
      /\ apc[c] = "verify" => cred[c] = Forward(aid[c])
      /\ apc[c] \in {"ackRow", "promote"} => cred[c] = Revert(aid[c])
LongTermOfTransfer == verified.kind # "global"
MovesApart == \A w \in Workers : pc[w] \in {"claim", "insert"} => from[w] # to[w]
RowsApart == \A t \in Transfers : fromUser[t] # toUser[t] \/ toUser[t] = NoUser

HeldOutInv == ShownSecrets /\ LongTermOfTransfer /\ MovesApart /\ RowsApart

LEMMA SecretKinds ==
  /\ \A t : Forward(t).kind # "global" /\ Revert(t).kind # "global"
  /\ \A u : Global(u).kind = "global"
  /\ NoSecret.kind # "global"
  BY DEF Forward, Revert, Global, NoSecret

LEMMA GlobalsDiffer ==
  /\ \A u, v : Global(u) = Global(v) => u = v
  /\ \A u, t : Global(u) # Forward(t) /\ Global(u) # Revert(t)
  /\ \A u : Global(u) # NoSecret
  BY DEF Forward, Revert, Global, NoSecret

LEMMA HeldOutInit == Init => HeldOutInv
  BY SecretKinds DEF Init, HeldOutInv, ShownSecrets, LongTermOfTransfer, MovesApart, RowsApart, Idle

LEMMA HeldOutInitiating ==
  ASSUME TypeInv, HeldOutInv, NEW w \in Workers, Initiating(w)
  PROVE  HeldOutInv'
  <1> USE DEF TypeInv, TypeOK, NamesTransfer, HeldOutInv, ShownSecrets, LongTermOfTransfer,
        MovesApart, RowsApart, Step, Goto, Call, Return, db, index, auth, Idle
  <1>1. CASE BatchMove(w)
    BY <1>1 DEF BatchMove
  <1>2. CASE Retry(w)
    BY <1>2 DEF Retry
  <1>3. CASE Claim(w)
    BY <1>3 DEF Claim
  <1>4. CASE Insert(w)
    BY <1>4 DEF Insert
  <1>5. CASE SetOwner(w)
    BY <1>5 DEF SetOwner
  <1>6. CASE Publish(w)
    BY <1>6 DEF Publish
  <1>7. CASE Announce(w)
    BY <1>7 DEF Announce
  <1>8. CASE Unclaim(w)
    BY <1>8 DEF Unclaim
  <1>9. CASE Push(w)
    BY <1>9 DEF Push
  <1> QED BY <1>1, <1>2, <1>3, <1>4, <1>5, <1>6, <1>7, <1>8, <1>9 DEF Initiating

LEMMA HeldOutReverting ==
  ASSUME TypeInv, HeldOutInv, NEW w \in Workers, Reverting(w)
  PROVE  HeldOutInv'
  <1> USE DEF TypeInv, TypeOK, NamesTransfer, HeldOutInv, ShownSecrets, LongTermOfTransfer,
        MovesApart, RowsApart, Step, Goto, Call, Return, db, index, auth, Idle
  <1>1. CASE StartRevert(w)
    BY <1>1 DEF StartRevert
  <1>2. CASE RevertRow(w)
    BY <1>2 DEF RevertRow
  <1>3. CASE RestoreOwner(w)
    BY <1>3 DEF RestoreOwner
  <1>4. CASE DropPending(w)
    BY <1>4 DEF DropPending
  <1>5. CASE HealPending(w)
    BY <1>5 DEF HealPending
  <1>6. CASE RegisterRevertDelivery(w)
    BY <1>6 DEF RegisterRevertDelivery
  <1>7. CASE RegisterTerminalSecretRecovery(w)
    BY <1>7 DEF RegisterTerminalSecretRecovery
  <1>8. CASE PushRevert(w)
    BY <1>8 DEF PushRevert
  <1> QED BY <1>1, <1>2, <1>3, <1>4, <1>5, <1>6, <1>7, <1>8 DEF Reverting

LEMMA HeldOutDeleting ==
  ASSUME TypeInv, HeldOutInv, NEW w \in Workers, Deleting(w)
  PROVE  HeldOutInv'
  <1> USE DEF TypeInv, TypeOK, NamesTransfer, HeldOutInv, ShownSecrets, LongTermOfTransfer,
        MovesApart, RowsApart, Step, Goto, Call, Return, db, index, auth, Idle
  <1>1. CASE DeleteServer(w)
    BY <1>1 DEF DeleteServer
  <1>2. CASE OnServersDeletedRows(w)
    BY <1>2 DEF OnServersDeletedRows, CancelRows
  <1>3. CASE OnServersDeletedSlots(w)
    BY <1>3 DEF OnServersDeletedSlots
  <1>4. CASE DeleteCached(w)
    BY <1>4 DEF DeleteCached
  <1>5. CASE DeleteUser(w)
    BY <1>5 DEF DeleteUser
  <1>6. CASE OnUsersDeletedRows(w)
    BY <1>6 DEF OnUsersDeletedRows, CancelRows
  <1>7. CASE OnUsersDeletedSlots(w)
    BY <1>7 DEF OnUsersDeletedSlots
  <1>8. CASE DeleteUserRow(w)
    BY <1>8 DEF DeleteUserRow
  <1> QED BY <1>1, <1>2, <1>3, <1>4, <1>5, <1>6, <1>7, <1>8 DEF Deleting

LEMMA HeldOutAuthenticating ==
  ASSUME TypeInv, HeldOutInv, NEW c \in Clients,
        Authenticating(c)
  PROVE  HeldOutInv'
  <1> USE DEF TypeInv, TypeOK, NamesTransfer, HeldOutInv, ShownSecrets, LongTermOfTransfer,
        MovesApart, RowsApart, db, index, worker, At, AGo, AFind, AEnd, Idle
  <1>1. CASE AuthStart(c)
    BY <1>1 DEF AuthStart
  <1>2. CASE AuthPending(c)
    BY <1>2 DEF AuthPending
  <1>3. CASE MarkVerified(c)
    BY <1>3, SecretKinds DEF MarkVerified
  <1>4. CASE AuthRecovery(c)
    BY <1>4 DEF AuthRecovery
  <1>5. CASE AckRow(c)
    BY <1>5 DEF AckRow
  <1>6. CASE Promote(c)
    BY <1>6, SecretKinds DEF Promote, Promoted
  <1>7. CASE AuthVerified(c)
    BY <1>7 DEF AuthVerified
  <1>8. CASE AuthGlobal(c)
    BY <1>8 DEF AuthGlobal
  <1>9. CASE AuthOwner(c)
    BY <1>9 DEF AuthOwner
  <1>10. CASE AuthOwnerPending(c)
    BY <1>10 DEF AuthOwnerPending
  <1>11. CASE AuthForeign(c)
    BY <1>11 DEF AuthForeign
  <1>12. CASE AuthForeignPending(c)
    BY <1>12 DEF AuthForeignPending
  <1>13. CASE Attach(c)
    BY <1>13 DEF Attach
  <1>14. CASE OnAgentReconnect(c)
    BY <1>14 DEF OnAgentReconnect
  <1>15. CASE PushOnReconnect(c)
    BY <1>15 DEF PushOnReconnect
  <1> QED BY <1>1, <1>2, <1>3, <1>4, <1>5, <1>6, <1>7, <1>8, <1>9, <1>10, <1>11, <1>12, <1>13,
        <1>14, <1>15 DEF Authenticating

LEMMA HeldOutNext ==
  ASSUME TypeInv, HeldOutInv, [Next]_vars
  PROVE  HeldOutInv'
  <1> USE DEF HeldOutInv, ShownSecrets, LongTermOfTransfer, MovesApart, RowsApart, db, index, worker,
        auth
  <1>1. ASSUME NEW w \in Workers, Initiating(w) \/ Reverting(w) \/ Deleting(w) PROVE HeldOutInv'
    BY <1>1, HeldOutInitiating, HeldOutReverting, HeldOutDeleting
  <1>2. ASSUME NEW c \in Clients, Authenticating(c) PROVE HeldOutInv'
    BY <1>2, HeldOutAuthenticating
  <1>3. ASSUME NEW u \in Users, Controlling(u) PROVE HeldOutInv'
    BY <1>3 DEF Controlling, BeginServerControl, RegisterStream, EndControl, CloseStream
  <1>4. ASSUME NEW w \in Workers, Editing(w) PROVE HeldOutInv'
    BY <1>4 DEF Editing, UpdateServer, SaveServer, CopyServer, ReplaceServer, Step, Goto, Return,
       Idle, TypeInv, TypeOK
  <1>5. CASE AgentReload \/ AgentDrop \/ Expire \/ PruneRecovery
    BY <1>5 DEF AgentReload, AgentDrop, Expire, PruneRecovery
  <1>6. CASE Restart
    <2>1. verified'.kind # "global"
      BY <1>6, SecretKinds DEF Restart, RebuiltVerified
    <2> QED BY <1>6, <2>1 DEF Restart, Idle
  <1>7. CASE UNCHANGED vars
    BY <1>7 DEF vars
  <1> QED BY <1>1, <1>2, <1>3, <1>4, <1>5, <1>6, <1>7 DEF Next

(* Only a lookup that finds no entry, the former owner or another            *)
(* transfer's secret lets a call in.                                         *)
LEMMA HeldOutAdmits ==
  ASSUME TypeInv, RollbackInv, HeldOutInv, NEW c \in Clients, Authenticating(c),
         pending # NoTransfer
  PROVE  \A d \in Clients : ~AdmittedUnder(d, toUser[pending])
  <1> SUFFICES ASSUME NEW d \in Clients, AdmittedUnder(d, toUser[pending]) PROVE FALSE
    OBVIOUS
  <1> USE DEF AdmittedUnder, At, AGo, AFind, AEnd, Idle, HeldOutInv
  <1>1. d = c
    BY DEF Authenticating, AuthStart, AuthPending, MarkVerified, AuthRecovery, AckRow, Promote,
       AuthVerified, AuthGlobal, AuthOwner, AuthOwnerPending, AuthForeign, AuthForeignPending,
       Attach, OnAgentReconnect, PushOnReconnect, TypeInv, TypeOK, auth
  <1>2. toUser[pending] \in Users /\ pending \in Transfers /\ cred[c] = Global(toUser[pending])
    <2>1. cred[d] \in Secrets /\ pending \in Transfers /\ toUser[pending] \in Users \cup {NoUser}
      BY DEF TypeInv, TypeOK
    <2>2. \A s \in Secrets : s = Global(NoUser) => FALSE
      BY UserAssumption, GlobalsDiffer DEF Secrets
    <2> QED BY <1>1, <2>1, <2>2
  <1>3. \A t : cred[c] # Forward(t) /\ cred[c] # Revert(t)
    BY <1>2, GlobalsDiffer
  <1>4. cred[c] # Global(fromUser[pending])
    BY <1>2, UserAssumption, GlobalsDiffer DEF RowsApart
  <1>5. cred[c] # verified
    BY <1>2, SecretKinds DEF LongTermOfTransfer
  <1>6. revertDelivery = NoTransfer
    BY DEF RollbackInv, NoRollbackBehindTransfer
  <1>7. apc'[c] = "admitted" /\ apc[c] # "admitted"
    BY <1>1
  <1>8. CASE AuthStart(c) \/ AuthPending(c) \/ AuthGlobal(c) \/ AuthOwner(c) \/ Attach(c)
              \/ OnAgentReconnect(c) \/ PushOnReconnect(c)
    BY <1>7, <1>8 DEF AuthStart, AuthPending, AuthGlobal, AuthOwner, Attach, OnAgentReconnect,
       PushOnReconnect, TypeInv, TypeOK
  <1>9. CASE MarkVerified(c) \/ AuthRecovery(c) \/ AckRow(c) \/ Promote(c)
    BY <1>3, <1>7, <1>9 DEF MarkVerified, AuthRecovery, AckRow, Promote, TypeInv, TypeOK,
       ShownSecrets
  <1>10. CASE AuthVerified(c)
    BY <1>5, <1>7, <1>10 DEF AuthVerified, TypeInv, TypeOK
  <1>11. CASE AuthOwnerPending(c)
    BY <1>7, <1>11 DEF AuthOwnerPending, TypeInv, TypeOK
  <1>12. CASE AuthForeign(c)
    BY <1>6, <1>7, <1>12 DEF AuthForeign, TypeInv, TypeOK
  <1>13. CASE AuthForeignPending(c)
    BY <1>4, <1>7, <1>13 DEF AuthForeignPending, TypeInv, TypeOK
  <1> QED BY <1>8, <1>9, <1>10, <1>11, <1>12, <1>13 DEF Authenticating

LEMMA HeldOutStep ==
  ASSUME "restart" \notin Ops, TypeInv, RollbackInv, HeldOutInv, [Next]_vars
  PROVE  [\A c \in Clients : pending # NoTransfer => ~AdmittedUnder(c, toUser[pending])]_vars
  <1>1. ASSUME NEW c \in Clients, Authenticating(c)
        PROVE  \A d \in Clients : pending # NoTransfer => ~AdmittedUnder(d, toUser[pending])
    BY <1>1, HeldOutAdmits
  <1>2. CASE UNCHANGED apc
    BY <1>2 DEF AdmittedUnder, At
  <1>3. ASSUME NEW w \in Workers, Initiating(w) \/ Reverting(w) \/ Deleting(w) \/ Editing(w)
        PROVE  UNCHANGED apc
    BY <1>3 DEF Initiating, BatchMove, Retry, Claim, Insert, SetOwner, Publish, Announce, Unclaim,
       Push, Reverting, StartRevert, RevertRow, RestoreOwner, DropPending, HealPending,
       RegisterRevertDelivery, RegisterTerminalSecretRecovery, PushRevert, Deleting, DeleteServer,
       OnServersDeletedRows, OnServersDeletedSlots, DeleteCached, DeleteUser, OnUsersDeletedRows,
       OnUsersDeletedSlots, DeleteUserRow, Editing, UpdateServer, SaveServer, CopyServer,
       ReplaceServer, auth
  <1>4. ASSUME NEW u \in Users, Controlling(u) PROVE UNCHANGED apc
    BY <1>4 DEF Controlling, BeginServerControl, RegisterStream, EndControl, CloseStream, auth
  <1>5. CASE AgentReload \/ AgentDrop \/ Expire \/ PruneRecovery \/ UNCHANGED vars
    BY <1>2, <1>5 DEF AgentReload, AgentDrop, Expire, PruneRecovery, vars, auth
  <1> QED BY <1>1, <1>2, <1>3, <1>4, <1>5 DEF Next, Restart

(* While a transfer is published no call gets in under the destination's own *)
(* global secret, whatever other calls, reverts, deletions and edits are     *)
(* under way: only the secret of the transfer itself proves the rotation. A  *)
(* restart may bring back an old rollback whose former owner is today's      *)
(* destination.                                                              *)
THEOREM DestinationWaits ==
  ASSUME "restart" \notin Ops
  PROVE  Spec => DestinationHeldOut
  <1> DEFINE Inv == TypeInv /\ ClaimInv /\ LockInv /\ RollbackInv /\ HeldOutInv
  <1>1. Init => Inv
    BY TypeInit, ClaimInit, LockInit, RollbackInit, HeldOutInit
  <1>2. Inv /\ [Next]_vars => Inv'
    BY TypeNext, ClaimNext, LockNext, RollbackNext, HeldOutNext
  <1>3. Inv /\ [Next]_vars
          => [\A c \in Clients : pending # NoTransfer => ~AdmittedUnder(c, toUser[pending])]_vars
    BY HeldOutStep
  <1> QED BY <1>1, <1>2, <1>3, PTL DEF Spec, DestinationHeldOut

-----------------------------------------------------------------------------
(* No push is stale.                                                         *)

(* What the agent has been sent, and what is queued for it. *)
RollbackSent(s) == Revert(s) \in {disk, reload}
Sent(s) == Forward(s) \in {disk, reload} \/ RollbackSent(s)
RollbackKnown(s) == RollbackSent(s) \/ revertDelivery = s
Known(s) == Sent(s) \/ revertDelivery = s

(* Where a handler works on the transfer whose credential is the next one. *)
ForwardPCs == {"setOwner", "publish", "restore", "drop"}
TopPCs == ForwardPCs \cup {"deliver"}

KnownRows == \A s \in Transfers : Known(s) => s \in Rows
PendingRow == pending # NoTransfer => pending \in Rows
CreatorsNewest == \A w \in Workers : pc[w] \in CreationPCs => tid[w] \in Latest(Rows)
PendingTops ==
    pending # NoTransfer => \A s \in Transfers :
      /\ Known(s) => s <= pending
      /\ RollbackKnown(s) => s # pending
WorkTops ==
    \A w \in Workers : \A s \in Transfers :
      /\ pc[w] \in TopPCs /\ Known(s) => s <= tid[w]
      /\ pc[w] \in ForwardPCs /\ RollbackKnown(s) => s # tid[w]
DeliveryTops == revertDelivery # NoTransfer => \A s \in Transfers : Sent(s) => s <= revertDelivery

StaleInv ==
    KnownRows /\ PendingRow /\ CreatorsNewest /\ PendingTops /\ WorkTops /\ DeliveryTops

LEMMA StaleInit == Init => StaleInv
  <1> SUFFICES ASSUME Init PROVE StaleInv
    OBVIOUS
  <1>1. \A s : ~Sent(s) /\ ~RollbackSent(s)
    BY GlobalsDiffer, SecretsDiffer DEF Init, Sent, RollbackSent
  <1>2. \A s \in Transfers : ~Known(s)
    BY <1>1, ZeroIsNoTransfer DEF Init, Known
  <1> QED BY <1>1, <1>2 DEF Init, StaleInv, KnownRows, PendingRow, CreatorsNewest, PendingTops,
          WorkTops, DeliveryTops, CreationPCs, TopPCs, ForwardPCs, Idle

(* A handler that goes on, ends or begins elsewhere. *)
NoNewWork ==
    \A w \in Workers :
      /\ pc'[w] \in TopPCs => pc[w] \in TopPCs /\ tid'[w] = tid[w]
      /\ pc'[w] \in ForwardPCs => pc[w] \in ForwardPCs
      /\ pc'[w] \in CreationPCs => pc[w] \in CreationPCs

(* A step that sends, queues, publishes and inserts nothing. *)
NothingNew ==
    /\ NoNewWork
    /\ disk' \in {disk, reload} /\ reload' \in {reload, NoSecret}
    /\ Rows' = Rows
    /\ pending' \in {pending, NoTransfer}
    /\ revertDelivery' \in {revertDelivery, NoTransfer}

LEMMA StaleKept ==
  ASSUME TypeInv, StaleInv, NothingNew
  PROVE  StaleInv'
  <1> USE DEF StaleInv
  <1>1. \A s \in Transfers : /\ Known(s)' => Known(s)
                             /\ RollbackKnown(s)' => RollbackKnown(s)
                             /\ Sent(s)' => Sent(s)
    BY SecretsDiffer, ZeroIsNoTransfer DEF NothingNew, Known, Sent, RollbackKnown, RollbackSent
  <1>2. KnownRows' /\ PendingRow' /\ PendingTops' /\ DeliveryTops'
    BY <1>1 DEF NothingNew, KnownRows, PendingRow, PendingTops, DeliveryTops
  <1>3. CreatorsNewest'
    <2>1. \A w \in Workers : pc'[w] \in CreationPCs => pc'[w] \in TopPCs
      BY DEF CreationPCs, TopPCs, ForwardPCs
    <2> QED BY <2>1 DEF NothingNew, NoNewWork, CreatorsNewest
  <1>4. WorkTops'
    <2>1. \A w \in Workers : pc'[w] \in ForwardPCs => pc'[w] \in TopPCs
      BY DEF TopPCs
    <2> QED BY <1>1, <2>1 DEF NothingNew, NoNewWork, WorkTops
  <1> QED BY <1>2, <1>3, <1>4

(* The published secret is sent: nothing newer is known, and no handler      *)
(* works on an older transfer.                                               *)
LEMMA StaleForward ==
  ASSUME TypeInv, ClaimInv, RollbackInv, StaleInv, NEW t \in Transfers, SendForward(t),
         NoNewWork, UNCHANGED <<status, pending>>
  PROVE  StaleInv'
  <1>1. CASE ~(attached /\ ForwardCurrent(t)) \/ UNCHANGED reload
    <2>1. NothingNew
      BY <1>1 DEF SendForward, SendApply, NothingNew, agent, Rows
    <2> QED BY <2>1, StaleKept
  <1>2. CASE ForwardCurrent(t) /\ reload' = Forward(t) /\ disk' = disk
    <2>1. pending = t /\ revertDelivery' = revertDelivery /\ revertDelivery = NoTransfer
      BY <1>2, ZeroIsNoTransfer DEF ForwardCurrent, SendForward, RollbackInv, NoRollbackBehindTransfer
    <2>2. \A s \in Transfers : /\ Known(s)' => Known(s) \/ s = t
                               /\ Sent(s)' => Sent(s) \/ s = t
                               /\ RollbackKnown(s)' => RollbackKnown(s)
      BY <1>2, <2>1, SecretsDiffer DEF Known, Sent, RollbackKnown, RollbackSent
    <2>3. Rows' = Rows /\ pending' = pending
      BY DEF Rows
    <2>4. KnownRows' /\ PendingRow' /\ PendingTops' /\ DeliveryTops'
      BY <2>1, <2>2, <2>3, ZeroIsNoTransfer DEF StaleInv, KnownRows, PendingRow, PendingTops,
         DeliveryTops, Transfers
    <2>5. CreatorsNewest'
      <3>1. \A w \in Workers : pc'[w] \in CreationPCs => pc'[w] \in TopPCs
        BY DEF CreationPCs, TopPCs, ForwardPCs
      <3> QED BY <2>3, <3>1 DEF NoNewWork, StaleInv, CreatorsNewest
    <2>6. WorkTops'
      <3>1. \A w \in Workers : pc[w] \in TopPCs => tid[w] = t
        <4>1. \A w \in Workers : pc[w] \in TopPCs => pc[w] \in {"restore", "drop"}
          BY <2>1, ZeroIsNoTransfer DEF TopPCs, ForwardPCs, ClaimInv, NothingPublished, RollbackInv,
             EntryLeaving
        <4> QED BY <2>1, <4>1, ZeroIsNoTransfer DEF RollbackInv, EntryLeaving
      <3>2. \A w \in Workers : pc'[w] \in ForwardPCs => pc'[w] \in TopPCs
        BY DEF TopPCs
      <3>3. t <= t
        BY NumbersAssumption DEF Transfers
      <3> QED BY <2>2, <3>1, <3>2, <3>3 DEF NoNewWork, StaleInv, WorkTops
    <2> QED BY <2>4, <2>5, <2>6 DEF StaleInv
  <1> QED BY <1>1, <1>2 DEF SendForward, SendApply, agent

(* The queued rollback is sent: it was known before. *)
LEMMA StaleRollback ==
  ASSUME TypeInv, RollbackInv, StaleInv, NEW t \in Transfers, SendRevert(t),
         NoNewWork, UNCHANGED <<status, pending>>
  PROVE  StaleInv'
  <1>1. CASE UNCHANGED reload
    <2>1. NothingNew
      BY <1>1 DEF SendRevert, SendApply, NothingNew, agent, Rows
    <2> QED BY <2>1, StaleKept
  <1>2. CASE reload' = Revert(t) /\ disk' = disk /\ revertDelivery = t /\ revertDelivery' = t
    <2>1. \A s \in Transfers : /\ Known(s)' => Known(s)
                               /\ Sent(s)' => Sent(s) \/ s = t
                               /\ RollbackKnown(s)' => RollbackKnown(s)
      BY <1>2, SecretsDiffer DEF Known, Sent, RollbackKnown, RollbackSent
    <2>2. Rows' = Rows /\ pending' = pending
      BY DEF Rows
    <2>3. KnownRows' /\ PendingRow' /\ PendingTops'
      BY <2>1, <2>2 DEF StaleInv, KnownRows, PendingRow, PendingTops
    <2>4. DeliveryTops'
      <3>1. t <= t
        BY NumbersAssumption DEF Transfers
      <3> QED BY <1>2, <2>1, <3>1, ZeroIsNoTransfer DEF StaleInv, DeliveryTops
    <2>5. CreatorsNewest'
      <3>1. \A w \in Workers : pc'[w] \in CreationPCs => pc'[w] \in TopPCs
        BY DEF CreationPCs, TopPCs, ForwardPCs
      <3> QED BY <2>2, <3>1 DEF NoNewWork, StaleInv, CreatorsNewest
    <2>6. WorkTops'
      <3>1. \A w \in Workers : pc'[w] \in ForwardPCs => pc'[w] \in TopPCs
        BY DEF TopPCs
      <3> QED BY <2>1, <3>1 DEF NoNewWork, StaleInv, WorkTops
    <2> QED BY <2>3, <2>4, <2>5, <2>6 DEF StaleInv
  <1> QED BY <1>1, <1>2 DEF SendRevert, SendApply, agent

LEMMA StaleInserts ==
  ASSUME TypeInv, ClaimInv, StaleInv, NEW w \in Workers, Insert(w)
  PROVE  StaleInv'
  <1> USE DEF TypeInv, TypeOK, Goto, Call, index, agent
  <1>1. CASE pc'[w] = "unclaim"
    <2>1. NothingNew
      BY <1>1 DEF Insert, NothingNew, NoNewWork, Rows, TopPCs, ForwardPCs, CreationPCs
    <2> QED BY <2>1, StaleKept
  <1>2. CASE pc'[w] = "setOwner"
    <2>1. PICK t \in Transfers :
            /\ t - 1 \in Latest(Rows) /\ status' = [status EXCEPT ![t] = "Pending"]
            /\ Call(w, "setOwner", t)
      BY <1>2 DEF Insert
    <2>2. Rows' = Rows \cup {t} /\ Latest(Rows') = {t} /\ \A s \in Rows : s < t
      BY <2>1, InsertTops
    <2>3. \A s \in Transfers : /\ Known(s)' <=> Known(s)
                               /\ Sent(s)' <=> Sent(s)
                               /\ RollbackKnown(s)' <=> RollbackKnown(s)
      BY DEF Insert, Known, Sent, RollbackKnown, RollbackSent
    <2>4. UNCHANGED <<pending, revertDelivery>> /\ pc[w] = "insert"
      BY DEF Insert
    <2>5. KnownRows' /\ PendingRow' /\ PendingTops' /\ DeliveryTops'
      BY <2>2, <2>3, <2>4 DEF StaleInv, KnownRows, PendingRow, PendingTops, DeliveryTops
    <2>6. CreatorsNewest'
      <3>1. \A v \in Workers : pc[v] \notin CreationPCs
        BY <2>4 DEF ClaimInv, ClaimExclusive, Claimed, ClaimPCs, CreationPCs
      <3> QED BY <2>1, <2>2, <3>1 DEF CreatorsNewest
    <2>7. WorkTops'
      <3>1. \A s \in Transfers : Known(s) => s < t
        BY <2>2 DEF StaleInv, KnownRows
      <3>2. \A s \in Transfers : RollbackKnown(s) => Known(s)
        BY DEF RollbackKnown, Known, Sent
      <3>3. \A s \in Transfers : s < t => s <= t /\ s # t
        BY NumbersAssumption DEF Transfers
      <3>4. tid'[w] = t /\ \A v \in Workers \ {w} : pc'[v] = pc[v] /\ tid'[v] = tid[v]
        BY <2>1
      <3> QED BY <2>3, <3>1, <3>2, <3>3, <3>4 DEF StaleInv, WorkTops
    <2> QED BY <2>5, <2>6, <2>7 DEF StaleInv
  <1> QED BY <1>1, <1>2 DEF Insert

LEMMA StalePublishes ==
  ASSUME TypeInv, StaleInv, NEW w \in Workers, Publish(w)
  PROVE  StaleInv'
  <1> USE DEF TypeInv, TypeOK, Step, Goto
  <1>1. \A s \in Transfers : /\ Known(s)' => Known(s)
                             /\ Sent(s)' => Sent(s)
                             /\ RollbackKnown(s)' => RollbackKnown(s)
    BY ZeroIsNoTransfer DEF Publish, Known, Sent, RollbackKnown, RollbackSent, agent
  <1>2. pending' = tid[w] /\ revertDelivery' = NoTransfer /\ pc[w] = "publish" /\ Rows' = Rows
        /\ tid[w] \in Transfers
    BY DEF Publish, Rows, db, NamesTransfer
  <1>3. NoNewWork
    BY DEF Publish, NoNewWork, TopPCs, ForwardPCs, CreationPCs
  <1>4. tid[w] \in Rows
    BY <1>2, ZeroIsNoTransfer DEF StaleInv, CreatorsNewest, CreationPCs, Latest
  <1>5. KnownRows' /\ PendingRow' /\ DeliveryTops'
    BY <1>1, <1>2, <1>4 DEF StaleInv, KnownRows, PendingRow, DeliveryTops
  <1>6. PendingTops'
    BY <1>1, <1>2 DEF StaleInv, WorkTops, PendingTops, TopPCs, ForwardPCs
  <1>7. CreatorsNewest'
    <2>1. \A v \in Workers : pc'[v] \in CreationPCs => pc'[v] \in TopPCs
      BY DEF CreationPCs, TopPCs, ForwardPCs
    <2> QED BY <1>2, <1>3, <2>1 DEF NoNewWork, StaleInv, CreatorsNewest
  <1>8. WorkTops'
    <2>1. \A v \in Workers : pc'[v] \in ForwardPCs => pc'[v] \in TopPCs
      BY DEF TopPCs
    <2> QED BY <1>1, <1>3, <2>1 DEF NoNewWork, StaleInv, WorkTops
  <1> QED BY <1>5, <1>6, <1>7, <1>8 DEF StaleInv

LEMMA StaleReverts ==
  ASSUME TypeInv, ClaimInv, RevertsPublished, StaleInv, NEW w \in Workers, RevertRow(w)
  PROVE  StaleInv'
  <1> USE DEF TypeInv, TypeOK, Step, Goto, Return, index, agent
  <1>1. CASE pc'[w] # "restore"
    <2>1. NothingNew
      BY <1>1 DEF RevertRow, NothingNew, NoNewWork, Rows, TopPCs, ForwardPCs, CreationPCs, Idle
    <2> QED BY <2>1, StaleKept
  <1>2. CASE pc'[w] = "restore"
    <2>1. /\ status[tid[w]] = "Pending" /\ dbServer /\ pc[w] = "revert" /\ Step(w, "revert", "restore")
          /\ status' = [status EXCEPT ![tid[w]] = "Reverted"]
          /\ UNCHANGED <<disk, reload, pending, revertDelivery>>
      BY <1>2 DEF RevertRow, StillPending, Idle
    <2>2. pending = tid[w] /\ tid[w] \in Transfers
      BY <2>1, RevertsPending DEF NamesTransfer
    <2>3. Rows' = Rows
      BY <2>1, <2>2 DEF Rows
    <2>4. \A s \in Transfers : /\ Known(s)' <=> Known(s)
                               /\ Sent(s)' <=> Sent(s)
                               /\ RollbackKnown(s)' <=> RollbackKnown(s)
      BY <2>1 DEF Known, Sent, RollbackKnown, RollbackSent
    <2>5. KnownRows' /\ PendingRow' /\ PendingTops' /\ DeliveryTops'
      BY <2>1, <2>3, <2>4 DEF StaleInv, KnownRows, PendingRow, PendingTops, DeliveryTops
    <2>6. CreatorsNewest'
      BY <2>1, <2>3 DEF StaleInv, CreatorsNewest, CreationPCs
    <2>7. WorkTops'
      <3>1. \A s \in Transfers : (Known(s) => s <= tid[w]) /\ (RollbackKnown(s) => s # tid[w])
        BY <2>2, ZeroIsNoTransfer DEF StaleInv, PendingTops
      <3>2. tid' = tid /\ \A v \in Workers \ {w} : pc'[v] = pc[v]
        BY <2>1
      <3> QED BY <2>4, <3>1, <3>2 DEF StaleInv, WorkTops
    <2> QED BY <2>5, <2>6, <2>7 DEF StaleInv
  <1> QED BY <1>1, <1>2

(* A rollback is queued: the only other handler that may work on a transfer  *)
(* has not got the lock yet and works on a newer one.                        *)
LEMMA StaleQueues ==
  ASSUME TypeInv, LockInv, RollbackInv, CredentialInv, RevertsPublished, StaleInv,
         NEW w \in Workers, RegisterRevertDelivery(w)
  PROVE  StaleInv'
  <1> USE DEF TypeInv, TypeOK, Step, Goto
  <1>1. /\ pc[w] = "deliver" /\ Step(w, "deliver", "recover") /\ revertDelivery' = tid[w]
        /\ tid[w] \in Transfers /\ UNCHANGED <<disk, reload, pending, status>>
    BY DEF RegisterRevertDelivery, NamesTransfer, db, agent
  <1>2. tid[w] \in Rows /\ Rows' = Rows
    BY <1>1 DEF CredentialInv, WorksOnReverted, Rows
  <1>3. pending = NoTransfer
    BY <1>1 DEF RollbackInv, EntryLeaving
  <1>4. \A s \in Transfers : /\ Known(s)' => Known(s) \/ s = tid[w]
                             /\ Sent(s)' <=> Sent(s)
                             /\ RollbackKnown(s)' => RollbackKnown(s) \/ s = tid[w]
    BY <1>1 DEF Known, Sent, RollbackKnown, RollbackSent
  <1>5. \A s \in Transfers : Sent(s) => s <= tid[w]
    BY <1>1 DEF StaleInv, WorkTops, TopPCs, Known
  <1>6. KnownRows' /\ PendingRow' /\ PendingTops' /\ DeliveryTops'
    BY <1>1, <1>2, <1>3, <1>4, <1>5
       DEF StaleInv, KnownRows, PendingRow, PendingTops, DeliveryTops
  <1>7. CreatorsNewest'
    BY <1>1, <1>2 DEF StaleInv, CreatorsNewest, CreationPCs
  <1>8. WorkTops'
    <2>1. \A v \in Workers : pc'[v] \in TopPCs => pc'[v] = "setOwner" /\ pc[v] = "setOwner" /\ v # w
      BY <1>1, LockWorkers DEF LockInv, LockHeld, LockPCs, TopPCs, ForwardPCs
    <2>2. \A v \in Workers : pc[v] = "setOwner" => tid[w] <= tid[v] /\ tid[w] # tid[v]
      <3> SUFFICES ASSUME NEW v \in Workers, pc[v] = "setOwner"
                   PROVE  tid[w] <= tid[v] /\ tid[w] # tid[v]
        OBVIOUS
      <3>1. tid[v] \in Latest(Rows)
        BY DEF StaleInv, CreatorsNewest, CreationPCs
      <3>2. tid[w] <= tid[v]
        BY <1>2, <3>1 DEF Latest
      <3>3. tid[w] # tid[v]
        BY <1>1 DEF RevertsPublished, CreationPCs, RevertPCs
      <3> QED BY <3>2, <3>3
    <2>3. tid' = tid
      BY <1>1
    <2>4. \A v \in Workers : pc'[v] \in ForwardPCs => pc'[v] \in TopPCs
      BY DEF TopPCs
    <2> QED BY <1>4, <2>1, <2>2, <2>3, <2>4 DEF StaleInv, WorkTops, TopPCs, ForwardPCs
  <1> QED BY <1>6, <1>7, <1>8 DEF StaleInv

LEMMA StaleNext ==
  ASSUME "restart" \notin Ops, TypeInv, ClaimInv, LockInv, RollbackInv, CredentialInv,
         RevertsPublished, StaleInv, [Next]_vars
  PROVE  StaleInv'
  <1> USE DEF TypeInv, TypeOK, NoNewWork, Rows, TopPCs, ForwardPCs, CreationPCs, Idle,
        Step, Goto, Call, Return, DropIf, db, index, worker, agent
  <1>1. ASSUME NEW w \in Workers, Initiating(w) PROVE StaleInv'
    <2>1. CASE Push(w)
      <3>1. tid[w] \in Transfers /\ SendForward(tid[w]) /\ NoNewWork /\ UNCHANGED <<status, pending>>
        BY <2>1 DEF Push, NamesTransfer
      <3> QED BY <3>1, StaleForward
    <2>2. CASE BatchMove(w) \/ Retry(w) \/ Claim(w) \/ SetOwner(w) \/ Announce(w) \/ Unclaim(w)
      <3>1. NothingNew
        BY <2>2 DEF BatchMove, Retry, Claim, SetOwner, Announce, Unclaim, NothingNew
      <3> QED BY <3>1, StaleKept
    <2> QED BY <1>1, <2>1, <2>2, StaleInserts, StalePublishes DEF Initiating
  <1>2. ASSUME NEW w \in Workers, Reverting(w) PROVE StaleInv'
    <2>1. CASE PushRevert(w)
      <3>1. tid[w] \in Transfers /\ SendRevert(tid[w]) /\ NoNewWork /\ UNCHANGED <<status, pending>>
        BY <2>1 DEF PushRevert, NamesTransfer
      <3> QED BY <3>1, StaleRollback
    <2>2. CASE StartRevert(w) \/ RestoreOwner(w) \/ DropPending(w) \/ HealPending(w)
                 \/ RegisterTerminalSecretRecovery(w)
      <3>1. NothingNew
        BY <2>2 DEF StartRevert, RestoreOwner, DropPending, HealPending,
           RegisterTerminalSecretRecovery, NothingNew
      <3> QED BY <3>1, StaleKept
    <2> QED BY <1>2, <2>1, <2>2, StaleReverts, StaleQueues DEF Reverting
  <1>3. ASSUME NEW w \in Workers, Deleting(w) PROVE StaleInv'
    <2>1. NothingNew
      <3>1. CASE DeleteServer(w) \/ DeleteCached(w) \/ DeleteUser(w) \/ DeleteUserRow(w)
        BY <3>1 DEF DeleteServer, DeleteCached, DeleteUser, DeleteUserRow, NothingNew
      <3>2. CASE OnServersDeletedSlots(w) \/ OnUsersDeletedSlots(w)
        BY <3>2 DEF OnServersDeletedSlots, OnUsersDeletedSlots, NothingNew
      <3>3. CASE OnServersDeletedRows(w) \/ OnUsersDeletedRows(w)
        <4>1. PICK S \in SUBSET PendingRows, next \in {"delDrop", "userDrop"} : CancelRows(w, S, next)
          BY <3>3 DEF OnServersDeletedRows, OnUsersDeletedRows, RowsOfServer, RowsOfUser
        <4>2. Rows' = Rows
          BY <4>1 DEF CancelRows, PendingRows
        <4>3. NoNewWork
          BY <4>1 DEF CancelRows
        <4> QED BY <3>3, <4>2, <4>3 DEF OnServersDeletedRows, OnUsersDeletedRows, NothingNew
      <3> QED BY <1>3, <3>1, <3>2, <3>3 DEF Deleting
    <2> QED BY <2>1, StaleKept
  <1>4. ASSUME NEW w \in Workers, Editing(w) PROVE StaleInv'
    <2>1. NothingNew
      BY <1>4 DEF Editing, UpdateServer, SaveServer, CopyServer, ReplaceServer, NothingNew
    <2> QED BY <2>1, StaleKept
  <1>5. ASSUME NEW c \in Clients, Authenticating(c) PROVE StaleInv'
    <2>1. CASE PushOnReconnect(c)
      <3>1. /\ aid[c] \in Transfers /\ NoNewWork /\ UNCHANGED <<status, pending>>
            /\ SendForward(aid[c]) \/ SendRevert(aid[c])
        BY <2>1 DEF PushOnReconnect, NamesTransfer, At
      <3> QED BY <3>1, StaleForward, StaleRollback
    <2>2. CASE AuthForeign(c) \/ AuthForeignPending(c) \/ Attach(c) \/ OnAgentReconnect(c)
      <3>1. NothingNew
        BY <2>2 DEF AuthForeign, AuthForeignPending, Attach, OnAgentReconnect, NothingNew
      <3> QED BY <3>1, StaleKept
    <2>3. CASE AuthStart(c) \/ AuthPending(c) \/ AuthRecovery(c) \/ AckRow(c) \/ Promote(c)
                 \/ AuthVerified(c) \/ AuthGlobal(c) \/ AuthOwner(c) \/ AuthOwnerPending(c)
      <3>1. NothingNew
        BY <2>3 DEF AuthStart, AuthPending, AuthRecovery, AckRow, Promote, AuthVerified, AuthGlobal,
           AuthOwner, AuthOwnerPending, NothingNew
      <3> QED BY <3>1, StaleKept
    <2>4. CASE MarkVerified(c)
      <3>1. NothingNew
        BY <2>4 DEF MarkVerified, NothingNew
      <3> QED BY <3>1, StaleKept
    <2> QED BY <1>5, <2>1, <2>2, <2>3, <2>4 DEF Authenticating
  <1>6. ASSUME NEW u \in Users, Controlling(u) PROVE StaleInv'
    <2>1. NothingNew
      BY <1>6 DEF Controlling, BeginServerControl, RegisterStream, EndControl, CloseStream, NothingNew
    <2> QED BY <2>1, StaleKept
  <1>7. CASE AgentReload \/ AgentDrop \/ Expire \/ PruneRecovery \/ UNCHANGED vars
    <2>1. NothingNew
      BY <1>7 DEF AgentReload, AgentDrop, Expire, PruneRecovery, vars, NothingNew
    <2> QED BY <2>1, StaleKept
  <1> QED BY <1>1, <1>2, <1>3, <1>4, <1>5, <1>6, <1>7 DEF Next, Restart

LEMMA RankBelow ==
  ASSUME NEW x \in Secrets, NEW n \in Nat,
         \A s \in Transfers : (x = Forward(s) => 2 * s - 1 <= n) /\ (x = Revert(s) => 2 * s <= n)
  PROVE  Rank(x) <= n
  <1>1. CASE x = NoSecret
    BY <1>1 DEF NoSecret, Rank
  <1>2. ASSUME NEW u, x = Global(u) PROVE Rank(x) <= n
    BY <1>2 DEF Global, Rank
  <1>3. ASSUME NEW s \in Transfers, x = Forward(s) PROVE Rank(x) <= n
    <2>1. x.kind = "forward" /\ x.of = s
      BY <1>3 DEF Forward
    <2> QED BY <1>3, <2>1 DEF Rank
  <1>4. ASSUME NEW s \in Transfers, x = Revert(s) PROVE Rank(x) <= n
    <2>1. x.kind = "revert" /\ x.of = s
      BY <1>4 DEF Revert
    <2> QED BY <1>4, <2>1 DEF Rank
  <1> QED BY <1>1, <1>2, <1>3, <1>4 DEF Secrets

LEMMA RankOfForward == \A t : Rank(Forward(t)) = 2 * t - 1
  BY DEF Rank, Forward

LEMMA RankOfRevert == \A t : Rank(Revert(t)) = 2 * t
  BY DEF Rank, Revert

NoOlderPush ==
    reload' \notin {reload, NoSecret} => Rank(reload') >= Rank(reload) /\ Rank(reload') >= Rank(disk)

LEMMA ForwardNotOlder ==
  ASSUME TypeInv, StaleInv, NEW t \in Transfers, SendForward(t)
  PROVE  NoOlderPush
  <1> SUFFICES ASSUME reload' \notin {reload, NoSecret}
               PROVE  Rank(reload') >= Rank(reload) /\ Rank(reload') >= Rank(disk)
    BY DEF NoOlderPush
  <1>1. reload' = Forward(t) /\ pending = t /\ t \in Nat /\ t >= 1
    BY NumbersAssumption DEF SendForward, SendApply, ForwardCurrent, agent, Transfers
  <1>2. \A s \in Transfers : s \in Nat /\ (Known(s) => s <= t) /\ (RollbackKnown(s) => s # t)
    BY <1>1, ZeroIsNoTransfer, NumbersAssumption DEF StaleInv, PendingTops, Transfers
  <1>3. ASSUME NEW x \in {disk, reload} PROVE Rank(x) <= 2 * t - 1
    <2>1. \A s \in Transfers : (x = Forward(s) => s <= t) /\ (x = Revert(s) => s <= t /\ s # t)
      BY <1>2, <1>3 DEF Known, Sent, RollbackKnown, RollbackSent
    <2>2. \A s \in Transfers :
            (x = Forward(s) => 2 * s - 1 <= 2 * t - 1) /\ (x = Revert(s) => 2 * s <= 2 * t - 1)
      BY <1>1, <1>2, <2>1
    <2>3. x \in Secrets /\ 2 * t - 1 \in Nat
      BY <1>1, <1>3 DEF TypeInv, TypeOK
    <2> QED BY <2>2, <2>3, RankBelow
  <1>4. Rank(reload') = 2 * t - 1
    BY <1>1, RankOfForward
  <1>5. Rank(reload) <= Rank(reload') /\ Rank(disk) <= Rank(reload')
    BY <1>3, <1>4
  <1> QED BY <1>5

LEMMA RollbackNotOlder ==
  ASSUME TypeInv, StaleInv, NEW t \in Transfers, SendRevert(t)
  PROVE  NoOlderPush
  <1> SUFFICES ASSUME reload' \notin {reload, NoSecret}
               PROVE  Rank(reload') >= Rank(reload) /\ Rank(reload') >= Rank(disk)
    BY DEF NoOlderPush
  <1>1. reload' = Revert(t) /\ revertDelivery = t /\ t \in Nat
    BY NumbersAssumption DEF SendRevert, SendApply, agent, Transfers
  <1>2. \A s \in Transfers : s \in Nat /\ (Sent(s) => s <= t)
    BY <1>1, ZeroIsNoTransfer, NumbersAssumption DEF StaleInv, DeliveryTops, Transfers
  <1>3. ASSUME NEW x \in {disk, reload} PROVE Rank(x) <= 2 * t
    <2>1. \A s \in Transfers : (x = Forward(s) => s <= t) /\ (x = Revert(s) => s <= t)
      BY <1>2, <1>3 DEF Sent, RollbackSent
    <2>2. \A s \in Transfers :
            (x = Forward(s) => 2 * s - 1 <= 2 * t) /\ (x = Revert(s) => 2 * s <= 2 * t)
      BY <1>1, <1>2, <2>1
    <2>3. x \in Secrets /\ 2 * t \in Nat
      BY <1>1, <1>3 DEF TypeInv, TypeOK
    <2> QED BY <2>2, <2>3, RankBelow
  <1>4. Rank(reload') = 2 * t
    BY <1>1, RankOfRevert
  <1>5. Rank(reload) <= Rank(reload') /\ Rank(disk) <= Rank(reload')
    BY <1>3, <1>4
  <1> QED BY <1>5

LEMMA StaleStep ==
  ASSUME "restart" \notin Ops, TypeInv, StaleInv, [Next]_vars
  PROVE  NoOlderPush
  <1>1. ASSUME NEW w \in Workers, Push(w) \/ PushRevert(w) PROVE NoOlderPush
    <2>1. tid[w] \in Transfers
      BY <1>1 DEF Push, PushRevert, Step, TypeInv, NamesTransfer
    <2> QED BY <1>1, <2>1, ForwardNotOlder, RollbackNotOlder DEF Push, PushRevert
  <1>2. ASSUME NEW c \in Clients, PushOnReconnect(c) PROVE NoOlderPush
    <2>1. aid[c] \in Transfers
      BY <1>2 DEF PushOnReconnect, At, TypeInv, NamesTransfer
    <2> QED BY <1>2, <2>1, ForwardNotOlder, RollbackNotOlder DEF PushOnReconnect
  <1>3. CASE reload' \in {reload, NoSecret}
    BY <1>3 DEF NoOlderPush
  <1>4. ASSUME NEW w \in Workers,
               Initiating(w) \/ Reverting(w) \/ Deleting(w) \/ Editing(w), ~Push(w), ~PushRevert(w)
        PROVE  UNCHANGED reload
    BY <1>4 DEF Initiating, BatchMove, Retry, Claim, Insert, SetOwner, Publish, Announce, Unclaim,
       Reverting, StartRevert, RevertRow, RestoreOwner, DropPending, HealPending,
       RegisterRevertDelivery, RegisterTerminalSecretRecovery, Deleting, DeleteServer,
       OnServersDeletedRows, OnServersDeletedSlots, DeleteCached, DeleteUser, OnUsersDeletedRows,
       OnUsersDeletedSlots, DeleteUserRow, Editing, UpdateServer, SaveServer, CopyServer,
       ReplaceServer, agent
  <1>5. ASSUME NEW c \in Clients, Authenticating(c), ~PushOnReconnect(c) PROVE UNCHANGED reload
    BY <1>5 DEF Authenticating, AuthStart, AuthPending, MarkVerified, AuthRecovery, AckRow, Promote,
       AuthVerified, AuthGlobal, AuthOwner, AuthOwnerPending, AuthForeign, AuthForeignPending,
       Attach, OnAgentReconnect, agent
  <1>6. ASSUME NEW u \in Users, Controlling(u) PROVE UNCHANGED reload
    BY <1>6 DEF Controlling, BeginServerControl, RegisterStream, EndControl, CloseStream, agent
  <1>7. CASE AgentReload \/ AgentDrop \/ Expire \/ PruneRecovery \/ UNCHANGED vars
    BY <1>3, <1>7 DEF AgentReload, AgentDrop, Expire, PruneRecovery, vars, agent
  <1> QED BY <1>1, <1>2, <1>3, <1>4, <1>5, <1>6, <1>7 DEF Next, Restart

(* No push replaces a running reload, or the secret in the agent's file, by  *)
(* an older one, whatever moves, reverts, deletions, edits and reconnections *)
(* race: the agent applies the last ApplyConfig it receives. Within one life *)
(* of the process, and without a Cancel that overtakes its own Register.     *)
THEOREM PushesAdvance ==
  ASSUME "restart" \notin Ops, "cancelEarly" \notin Ops
  PROVE  Spec => NoStalePush
  <1> DEFINE Inv == /\ TypeInv /\ ClaimInv /\ LockInv /\ RollbackInv /\ CredentialInv
                    /\ RevertsPublished /\ StaleInv
  <1>1. Init => Inv
    BY TypeInit, ClaimInit, LockInit, RollbackInit, CredentialInit, PublishedInit, StaleInit
  <1>2. Inv /\ [Next]_vars => Inv'
    BY TypeNext, ClaimNext, LockNext, RollbackNext, CredentialNext, PublishedNext, StaleNext
  <1>3. Inv /\ [Next]_vars
          => [reload' \notin {reload, NoSecret} =>
                Rank(reload') >= Rank(reload) /\ Rank(reload') >= Rank(disk)]_vars
    BY StaleStep DEF NoOlderPush
  <1> QED BY <1>1, <1>2, <1>3, PTL DEF Spec, NoStalePush

-----------------------------------------------------------------------------
(* With one handler at a time no server goes to a user who has left.         *)

OwnersLive == dbServer => memServer /\ dbOwner \in users
CacheSame ==
    dbServer => \A w \in Workers :
      /\ pc[w] \notin {"setOwner", "restore"} => memOwner = dbOwner
      /\ pc[w] = "setOwner" => to[w] = dbOwner
      /\ pc[w] = "restore" => fromUser[tid[w]] = dbOwner
GiversLive == dbServer => \A t \in PendingRows : fromUser[t] \in users
CallsLive ==
    \A w \in Workers :
      dbServer /\ pc[w] \in {"claim", "insert"} => from[w] \in users /\ to[w] \in users
EditsOwn ==
    \A w \in Workers :
      pc[w] \in {"editSave", "editCopy", "editUpdate"} => dbServer /\ from[w] = dbOwner
(* The rows of the leaving user have been settled. *)
LeaversSettled ==
    \A w \in Workers :
      pc[w] \in {"userDrop", "userRow"} => \A t \in PendingRows : fromUser[t] # from[w]

LiveInv ==
    /\ OwnersLive /\ CacheSame /\ GiversLive /\ CallsLive /\ EditsOwn /\ LeaversSettled
    /\ DeletersGone /\ DeletionRuns

LEMMA LiveInit == Init => LiveInv
  BY DEF Init, LiveInv, OwnersLive, CacheSame, GiversLive, CallsLive, EditsOwn, LeaversSettled,
     DeletersGone, DeletionRuns, DeletionPCs, PendingRows, Idle

LEMMA LiveInitiating ==
  ASSUME \A v \in Workers : \A w \in Workers : v = w, TypeInv, LiveInv,
        NEW w \in Workers, Initiating(w)
  PROVE  LiveInv'
  <1> USE DEF TypeInv, TypeOK, NamesTransfer, LiveInv, OwnersLive, CacheSame, GiversLive,
        CallsLive, EditsOwn, LeaversSettled, DeletersGone, DeletionRuns, DeletionPCs,
        PendingRows, Step, Goto, Call, Return, db, cache, Idle
  <1>1. CASE BatchMove(w)
    BY <1>1 DEF BatchMove
  <1>2. CASE Retry(w)
    BY <1>2 DEF Retry
  <1>3. CASE Claim(w)
    BY <1>3 DEF Claim
  <1>4. CASE Insert(w)
    BY <1>4, LatestBelow DEF Insert
  <1>5. CASE SetOwner(w)
    BY <1>5 DEF SetOwner, SetUserID
  <1>6. CASE Publish(w)
    BY <1>6 DEF Publish
  <1>7. CASE Announce(w)
    BY <1>7 DEF Announce
  <1>8. CASE Unclaim(w)
    BY <1>8 DEF Unclaim
  <1>9. CASE Push(w)
    BY <1>9 DEF Push
  <1> QED BY <1>1, <1>2, <1>3, <1>4, <1>5, <1>6, <1>7, <1>8, <1>9 DEF Initiating

LEMMA LiveReverting ==
  ASSUME \A v \in Workers : \A w \in Workers : v = w, TypeInv, LiveInv,
        NEW w \in Workers, Reverting(w)
  PROVE  LiveInv'
  <1> USE DEF TypeInv, TypeOK, NamesTransfer, LiveInv, OwnersLive, CacheSame, GiversLive,
        CallsLive, EditsOwn, LeaversSettled, DeletersGone, DeletionRuns, DeletionPCs,
        PendingRows, Step, Goto, Call, Return, db, cache, Idle
  <1>1. CASE StartRevert(w)
    BY <1>1 DEF StartRevert
  <1>2. CASE RevertRow(w)
    BY <1>2 DEF RevertRow, StillPending
  <1>3. CASE RestoreOwner(w)
    BY <1>3 DEF RestoreOwner, SetUserID
  <1>4. CASE DropPending(w)
    BY <1>4 DEF DropPending
  <1>5. CASE HealPending(w)
    BY <1>5 DEF HealPending
  <1>6. CASE RegisterRevertDelivery(w)
    BY <1>6 DEF RegisterRevertDelivery
  <1>7. CASE RegisterTerminalSecretRecovery(w)
    BY <1>7 DEF RegisterTerminalSecretRecovery
  <1>8. CASE PushRevert(w)
    BY <1>8 DEF PushRevert
  <1> QED BY <1>1, <1>2, <1>3, <1>4, <1>5, <1>6, <1>7, <1>8 DEF Reverting

LEMMA LiveDeleting ==
  ASSUME \A v \in Workers : \A w \in Workers : v = w, TypeInv, LiveInv,
        NEW w \in Workers, Deleting(w)
  PROVE  LiveInv'
  <1> USE DEF TypeInv, TypeOK, NamesTransfer, LiveInv, OwnersLive, CacheSame, GiversLive,
        CallsLive, EditsOwn, LeaversSettled, DeletersGone, DeletionRuns, DeletionPCs,
        PendingRows, Step, Goto, Call, Return, db, cache, Idle
  <1>1. CASE DeleteServer(w)
    BY <1>1 DEF DeleteServer
  <1>2. CASE OnServersDeletedRows(w)
    BY <1>2 DEF OnServersDeletedRows, CancelRows, RowsOfServer
  <1>3. CASE OnServersDeletedSlots(w)
    BY <1>3 DEF OnServersDeletedSlots
  <1>4. CASE DeleteCached(w)
    BY <1>4 DEF DeleteCached
  <1>5. CASE DeleteUser(w)
    BY <1>5 DEF DeleteUser
  <1>6. CASE OnUsersDeletedRows(w)
    BY <1>6 DEF OnUsersDeletedRows, CancelRows, RowsOfUser
  <1>7. CASE OnUsersDeletedSlots(w)
    BY <1>7 DEF OnUsersDeletedSlots
  <1>8. CASE DeleteUserRow(w)
    BY <1>8 DEF DeleteUserRow
  <1> QED BY <1>1, <1>2, <1>3, <1>4, <1>5, <1>6, <1>7, <1>8 DEF Deleting

LEMMA LiveNext ==
  ASSUME \A v \in Workers : \A w \in Workers : v = w, TypeInv, LiveInv, [Next]_vars
  PROVE  LiveInv'
  <1> USE DEF LiveInv, OwnersLive, CacheSame, GiversLive, CallsLive, EditsOwn, LeaversSettled,
        DeletersGone, DeletionRuns, DeletionPCs, PendingRows, db, cache, worker
  <1>1. ASSUME NEW w \in Workers, Initiating(w) \/ Reverting(w) \/ Deleting(w) PROVE LiveInv'
    BY <1>1, LiveInitiating, LiveReverting, LiveDeleting
  <1>2. ASSUME NEW c \in Clients, Authenticating(c) PROVE LiveInv'
    <2>1. CASE MarkVerified(c)
      <3>1. PendingRows' \subseteq PendingRows
        BY <2>1 DEF MarkVerified, TypeInv, TypeOK
      <3> QED BY <2>1, <3>1 DEF MarkVerified
    <2>2. CASE ~MarkVerified(c)
      BY <1>2, <2>2 DEF Authenticating, AuthStart, AuthPending, AuthRecovery, AckRow, Promote,
         AuthVerified, AuthGlobal, AuthOwner, AuthOwnerPending, AuthForeign, AuthForeignPending,
         Attach, OnAgentReconnect, PushOnReconnect
    <2> QED BY <2>1, <2>2
  <1>3. ASSUME NEW u \in Users, Controlling(u) PROVE LiveInv'
    BY <1>3 DEF Controlling, BeginServerControl, RegisterStream, EndControl, CloseStream
  <1>4. ASSUME NEW w \in Workers, Editing(w) PROVE LiveInv'
    BY <1>4 DEF Editing, UpdateServer, SaveServer, CopyServer, ReplaceServer, Step, Goto, Return,
       Idle, TypeInv, TypeOK
  <1>5. CASE AgentReload \/ AgentDrop \/ Expire \/ PruneRecovery
    BY <1>5 DEF AgentReload, AgentDrop, Expire, PruneRecovery
  <1>6. CASE Restart
    BY <1>6 DEF Restart, Idle
  <1>7. CASE UNCHANGED vars
    BY <1>7 DEF vars
  <1> QED BY <1>1, <1>2, <1>3, <1>4, <1>5, <1>6, <1>7 DEF Next

LEMMA LiveStep ==
  ASSUME TypeInv, LiveInv, [Next]_vars
  PROVE  dbOwner' # dbOwner => dbOwner' \in users
  <1>1. ASSUME NEW w \in Workers, Insert(w) PROVE dbOwner' # dbOwner => dbOwner' \in users
    BY <1>1 DEF Insert, LiveInv, CallsLive
  <1>2. ASSUME NEW w \in Workers, RevertRow(w) PROVE dbOwner' # dbOwner => dbOwner' \in users
    BY <1>2 DEF RevertRow, StillPending, LiveInv, GiversLive, PendingRows, TypeInv, NamesTransfer
  <1>3. ASSUME NEW w \in Workers, SaveServer(w) PROVE dbOwner' # dbOwner => dbOwner' \in users
    BY <1>3 DEF SaveServer, Step, LiveInv, EditsOwn
  <1>4. ASSUME NEW w \in Workers, Initiating(w), ~Insert(w) PROVE UNCHANGED dbOwner
    BY <1>4 DEF Initiating, BatchMove, Retry, Claim, SetOwner, Publish, Announce, Unclaim, Push, db
  <1>5. ASSUME NEW w \in Workers, Reverting(w), ~RevertRow(w) PROVE UNCHANGED dbOwner
    BY <1>5 DEF Reverting, StartRevert, RestoreOwner, DropPending, HealPending,
       RegisterRevertDelivery, RegisterTerminalSecretRecovery, PushRevert, db
  <1>6. ASSUME NEW w \in Workers, Deleting(w) PROVE UNCHANGED dbOwner
    BY <1>6 DEF Deleting, DeleteServer, OnServersDeletedRows, OnServersDeletedSlots, DeleteCached,
       DeleteUser, OnUsersDeletedRows, OnUsersDeletedSlots, DeleteUserRow, CancelRows, db
  <1>7. ASSUME NEW w \in Workers, Editing(w), ~SaveServer(w) PROVE UNCHANGED dbOwner
    BY <1>7 DEF Editing, UpdateServer, CopyServer, ReplaceServer, db
  <1>8. ASSUME NEW c \in Clients, Authenticating(c) PROVE UNCHANGED dbOwner
    BY <1>8 DEF Authenticating, AuthStart, AuthPending, MarkVerified, AuthRecovery, AckRow, Promote,
       AuthVerified, AuthGlobal, AuthOwner, AuthOwnerPending, AuthForeign, AuthForeignPending,
       Attach, OnAgentReconnect, PushOnReconnect, db
  <1>9. ASSUME NEW u \in Users, Controlling(u) PROVE UNCHANGED dbOwner
    BY <1>9 DEF Controlling, BeginServerControl, RegisterStream, EndControl, CloseStream, db
  <1>10. CASE AgentReload \/ AgentDrop \/ Expire \/ PruneRecovery \/ Restart \/ UNCHANGED vars
    BY <1>10 DEF AgentReload, AgentDrop, Expire, PruneRecovery, Restart, vars, db
  <1> QED BY <1>1, <1>2, <1>3, <1>4, <1>5, <1>6, <1>7, <1>8, <1>9, <1>10 DEF Next

(* When the dashboard serves one request at a time, no move, reversal or     *)
(* edit gives the server to a user who has been deleted, restarts in the     *)
(* middle of a deletion included: the deletion settles the leaving user's    *)
(* rows before it removes the user. A move that has passed its checks before *)
(* another handler deletes its destination is not stopped.                   *)
THEOREM LeaversOwnNothing ==
  ASSUME \A v \in Workers : \A w \in Workers : v = w
  PROVE  Spec => OwnerNotResurrected
  <1>1. Init => TypeInv /\ LiveInv
    BY TypeInit, LiveInit
  <1>2. TypeInv /\ LiveInv /\ [Next]_vars => (TypeInv /\ LiveInv)'
    BY TypeNext, LiveNext
  <1>3. TypeInv /\ LiveInv /\ [Next]_vars => [dbOwner' # dbOwner => dbOwner' \in users]_vars
    BY LiveStep
  <1> QED BY <1>1, <1>2, <1>3, PTL DEF Spec, OwnerNotResurrected

-----------------------------------------------------------------------------
(* The installed agent stays admissible.                                     *)

(* What the agent shows, and what has become long-term, it has in its file   *)
(* or had there; what it is about to write there is newer.                   *)
DiskHeld == disk # NoSecret
ReloadOfTransfer == reload.kind # "global"
ReloadNewer == reload # NoSecret => Rank(disk) <= Rank(reload)
OnlyAgentShows == \A c \in Clients \ {Agent} : cred[c].kind \notin {"forward", "revert"}
ShownHeld == Rank(cred[Agent]) <= Rank(disk)
LongTermHeld == Rank(verified) <= Rank(disk)
RollbackRows == \A t \in Transfers : RollbackKnown(t) => status[t] = "Reverted"
AgentInv ==
    /\ DiskHeld /\ ReloadOfTransfer /\ ReloadNewer /\ OnlyAgentShows /\ ShownHeld /\ LongTermHeld
    /\ RollbackRows

(* Where a handler has reverted a row that is not in the recovery slot yet. *)
SlotPCs == {"restore", "drop", "deliver", "recover"}
Reverter(t) == \E w \in Workers : pc[w] \in SlotPCs /\ tid[w] = t
Above(t) == {s \in Transfers : s > t}

RevertersNewest ==
    \A w \in Workers : pc[w] \in SlotPCs => \A t \in Above(tid[w]) : ~Settled(t)
RecoveryTops ==
    recovery # NoTransfer => \A t \in Above(recovery) :
      status[t] # "Verified" /\ (status[t] = "Reverted" => Reverter(t))
SlotOrReverter ==
    \A t \in Transfers : recovery = t \/ verified = Revert(t) => ~Reverter(t)
SlotHolds ==
    \A t \in Transfers :
      /\ status[t] = "Reverted" /\ fresh[t] /\ Rank(disk) <= 2 * t
      /\ \A s \in Above(t) : status[s] # "Reverted"
      => recovery = t \/ verified = Revert(t) \/ Reverter(t)
VerifiedHolds ==
    \A t \in Transfers :
      status[t] = "Verified" /\ Rank(disk) <= 2 * t - 1 => verified = Forward(t)
(* The slots of a server that is being deleted go with it. *)
SlotInv ==
    dbServer => RevertersNewest /\ RecoveryTops /\ SlotOrReverter /\ SlotHolds /\ VerifiedHolds

(* An agent that still has its first secret belongs to whom every row came   *)
(* from.                                                                     *)
UsersStay == users = Users
StartsOwn == \A w \in Workers : pc[w] = "insert" /\ dbServer => from[w] = dbOwner
FirstOwner ==
    dbServer /\ disk.kind = "global" =>
      /\ \A t \in Rows : fromUser[t] = disk.of
      /\ Rows = {} => dbOwner = disk.of
NewestExists == Latest(Rows) # {}
FirstInv == UsersStay /\ StartsOwn /\ FirstOwner /\ NewestExists

LEMMA RankIsNat ==
  /\ \A s \in Secrets : Rank(s) \in Nat
  /\ Rank(NoSecret) = 0 /\ \A u : Rank(Global(u)) = 0
  <1>1. \A t \in Transfers : t \in Nat /\ 2 * t - 1 \in Nat /\ 2 * t \in Nat
    BY NumbersAssumption DEF Transfers
  <1>2. Rank(NoSecret) = 0 /\ \A u : Rank(Global(u)) = 0
    BY DEF Rank, NoSecret, Global
  <1>3. \A t \in Transfers : Rank(Forward(t)) \in Nat /\ Rank(Revert(t)) \in Nat
    BY <1>1, RankOfForward, RankOfRevert
  <1> QED BY <1>2, <1>3 DEF Secrets

(* A settled row stays as it is. *)
LEMMA SettledStays ==
  ASSUME TypeInv, [Next]_vars
  PROVE  \A t \in Transfers : Settled(t) => status'[t] = status[t]
  <1> USE DEF Settled, TypeInv, TypeOK
  <1>1. ASSUME NEW w \in Workers, Insert(w)
        PROVE  \A t \in Transfers : Settled(t) => status'[t] = status[t]
    BY <1>1, LatestBelow DEF Insert
  <1>2. ASSUME NEW w \in Workers, RevertRow(w)
        PROVE  \A t \in Transfers : Settled(t) => status'[t] = status[t]
    BY <1>2 DEF RevertRow, StillPending
  <1>3. ASSUME NEW w \in Workers, NEW S \in SUBSET PendingRows,
               status' = [t \in Transfers |-> IF t \in S THEN "Reverted" ELSE status[t]]
        PROVE  \A t \in Transfers : Settled(t) => status'[t] = status[t]
    BY <1>3 DEF PendingRows
  <1>4. ASSUME NEW w \in Workers, OnServersDeletedRows(w) \/ OnUsersDeletedRows(w)
        PROVE  \A t \in Transfers : Settled(t) => status'[t] = status[t]
    <2>1. \A u : RowsOfUser(u) \in SUBSET PendingRows
      BY DEF RowsOfUser
    <2> QED BY <1>3, <1>4, <2>1 DEF OnServersDeletedRows, OnUsersDeletedRows, CancelRows, RowsOfServer
  <1>5. ASSUME NEW c \in Clients, MarkVerified(c)
        PROVE  \A t \in Transfers : Settled(t) => status'[t] = status[t]
    BY <1>5 DEF MarkVerified
  <1>6. ASSUME NEW w \in Workers, Initiating(w) \/ Reverting(w) \/ Deleting(w) \/ Editing(w),
               ~Insert(w), ~RevertRow(w), ~OnServersDeletedRows(w), ~OnUsersDeletedRows(w)
        PROVE  UNCHANGED status
    BY <1>6 DEF Initiating, BatchMove, Retry, Claim, SetOwner, Publish, Announce, Unclaim, Push,
       Reverting, StartRevert, RestoreOwner, DropPending, HealPending,
       RegisterRevertDelivery, RegisterTerminalSecretRecovery, PushRevert, Deleting, DeleteServer,
       OnServersDeletedSlots, DeleteCached, DeleteUser, OnUsersDeletedSlots, DeleteUserRow,
       Editing, UpdateServer, SaveServer, CopyServer, ReplaceServer, db
  <1>7. ASSUME NEW c \in Clients, Authenticating(c), ~MarkVerified(c) PROVE UNCHANGED status
    BY <1>7 DEF Authenticating, AuthStart, AuthPending, AuthRecovery, AckRow, Promote,
       AuthVerified, AuthGlobal, AuthOwner, AuthOwnerPending, AuthForeign, AuthForeignPending,
       Attach, OnAgentReconnect, PushOnReconnect, db
  <1>8. ASSUME NEW u \in Users, Controlling(u) PROVE UNCHANGED status
    BY <1>8 DEF Controlling, BeginServerControl, RegisterStream, EndControl, CloseStream, db
  <1>9. CASE AgentReload \/ AgentDrop \/ Expire \/ PruneRecovery \/ Restart \/ UNCHANGED vars
    BY <1>9 DEF AgentReload, AgentDrop, Expire, PruneRecovery, Restart, vars, db
  <1> QED BY <1>1, <1>2, <1>4, <1>5, <1>6, <1>7, <1>8, <1>9 DEF Next

LEMMA AgentInit == Init => AgentInv
  <1> SUFFICES ASSUME Init PROVE AgentInv
    OBVIOUS
  <1>1. Rank(disk) = 0 /\ Rank(verified) = 0 /\ Rank(cred[Agent]) = 0
    BY RankIsNat, AgentAssumption DEF Init
  <1>2. NoSecret.kind \notin {"forward", "revert", "global"}
    BY DEF NoSecret
  <1>3. \A t \in Transfers : ~RollbackKnown(t)
    BY GlobalsDiffer, SecretsDiffer, ZeroIsNoTransfer DEF Init, RollbackKnown, RollbackSent
  <1> QED BY <1>1, <1>2, <1>3, GlobalsDiffer DEF Init, AgentInv, DiskHeld, ReloadOfTransfer, ReloadNewer,
          OnlyAgentShows, ShownHeld, LongTermHeld, RollbackRows

(* A step that neither shows a secret nor writes the agent's file: it may    *)
(* push one, not an older one.                                               *)
NothingShown ==
    /\ UNCHANGED <<disk, verified>>
    /\ \A c \in Clients : cred'[c] \in {cred[c], NoSecret}
    /\ revertDelivery' \in {revertDelivery, NoTransfer}
    /\ \/ reload' \in {reload, NoSecret}
       \/ \E t \in Transfers : reload' = Forward(t) \/ (reload' = Revert(t) /\ revertDelivery = t)

LEMMA AgentKept ==
  ASSUME TypeInv, AgentInv, NoOlderPush, NothingShown, [Next]_vars
  PROVE  AgentInv'
  <1> USE DEF AgentInv, NothingShown
  <1>1. Rank(disk) \in Nat /\ Rank(NoSecret) = 0
    BY RankIsNat DEF TypeInv, TypeOK
  <1>2. NoSecret.kind \notin {"forward", "revert", "global"}
    BY DEF NoSecret
  <1>3. DiskHeld' /\ LongTermHeld'
    BY DEF DiskHeld, LongTermHeld
  <1>4. ReloadOfTransfer'
    BY <1>2, SecretKinds DEF ReloadOfTransfer
  <1>5. ReloadNewer'
    <2>1. CASE reload' \in {reload, NoSecret}
      BY <2>1 DEF ReloadNewer
    <2>2. CASE reload' \notin {reload, NoSecret}
      <3>1. Rank(reload') >= Rank(disk) /\ Rank(reload') \in Nat
        BY <2>2, RankIsNat, SecretsMembers DEF NoOlderPush
      <3> QED BY <3>1, <1>1 DEF ReloadNewer
    <2> QED BY <2>1, <2>2
  <1>6. OnlyAgentShows'
    BY <1>2 DEF OnlyAgentShows
  <1>7. ShownHeld'
    BY <1>1, AgentAssumption DEF ShownHeld
  <1>8. RollbackRows'
    <2>1. \A t \in Transfers : RollbackKnown(t)' => RollbackKnown(t)
      BY SecretsDiffer, ZeroIsNoTransfer DEF RollbackKnown, RollbackSent
    <2>2. \A t \in Transfers : status[t] = "Reverted" => status'[t] = "Reverted"
      BY SettledStays DEF Settled
    <2> QED BY <2>1, <2>2 DEF RollbackRows
  <1> QED BY <1>3, <1>4, <1>5, <1>6, <1>7, <1>8

(* Pushes. *)
LEMMA ForwardShows ==
  ASSUME NEW t \in Transfers, SendForward(t), UNCHANGED <<verified, cred>>
  PROVE  NothingShown
  BY DEF SendForward, SendApply, NothingShown, agent

LEMMA RollbackShows ==
  ASSUME NEW t \in Transfers, SendRevert(t), UNCHANGED <<verified, cred>>
  PROVE  NothingShown
  BY DEF SendRevert, SendApply, NothingShown, agent

LEMMA AgentAuthenticating ==
  ASSUME TypeInv, HeldOutInv, AgentInv, NoOlderPush, NEW c \in Clients, Authenticating(c), [Next]_vars
  PROVE  AgentInv'
  <1>1. CASE AuthStart(c)
    <2>1. UNCHANGED <<disk, reload, verified, revertDelivery, status>>
      BY <1>1 DEF AuthStart, agent, index, db
    <2>2. OnlyAgentShows'
      BY <1>1, SecretKinds, GlobalsDiffer DEF AuthStart, AgentInv, OnlyAgentShows, TypeInv, TypeOK, Global
    <2>3. ShownHeld'
      <3>1. Rank(disk) \in Nat
        BY RankIsNat DEF TypeInv, TypeOK
      <3> QED BY <1>1, <2>1, <3>1, AgentAssumption DEF AuthStart, AgentInv, ShownHeld, TypeInv, TypeOK
    <2> QED BY <2>1, <2>2, <2>3 DEF AgentInv, DiskHeld, ReloadOfTransfer, ReloadNewer, LongTermHeld,
            RollbackRows, RollbackKnown, RollbackSent
  <1>2. ASSUME NEW s \in Secrets, s.kind \in {"forward", "revert"}, verified' = s, cred[c] = s,
               UNCHANGED <<disk, reload>>, revertDelivery' \in {revertDelivery, NoTransfer},
               \A d \in Clients : cred'[d] \in {cred[d], NoSecret}
        PROVE  AgentInv'
    <2>1. c = Agent
      BY <1>2 DEF AgentInv, OnlyAgentShows
    <2>2. LongTermHeld'
      BY <1>2, <2>1 DEF AgentInv, LongTermHeld, ShownHeld
    <2>3. DiskHeld' /\ ReloadOfTransfer' /\ ReloadNewer'
      BY <1>2 DEF AgentInv, DiskHeld, ReloadOfTransfer, ReloadNewer
    <2>4. OnlyAgentShows'
      <3>1. NoSecret.kind \notin {"forward", "revert", "global"}
        BY DEF NoSecret
      <3> QED BY <1>2, <3>1 DEF AgentInv, OnlyAgentShows
    <2>5. ShownHeld'
      <3>1. Rank(disk) \in Nat
        BY RankIsNat DEF TypeInv, TypeOK
      <3> QED BY <1>2, <3>1, RankIsNat, AgentAssumption DEF AgentInv, ShownHeld
    <2>6. RollbackRows'
      <3>1. \A t \in Transfers : RollbackKnown(t)' => RollbackKnown(t)
        BY <1>2, ZeroIsNoTransfer DEF RollbackKnown, RollbackSent
      <3>2. \A t \in Transfers : status[t] = "Reverted" => status'[t] = "Reverted"
        BY SettledStays DEF Settled
      <3> QED BY <3>1, <3>2 DEF AgentInv, RollbackRows
    <2> QED BY <2>2, <2>3, <2>4, <2>5, <2>6 DEF AgentInv
  <1>3. CASE MarkVerified(c)
    <2>1. UNCHANGED <<disk, reload, revertDelivery>> /\ cred' \in {cred, [cred EXCEPT ![c] = NoSecret]}
      BY <1>3 DEF MarkVerified, AFind, AEnd, agent
    <2>2. \A d \in Clients : cred'[d] \in {cred[d], NoSecret}
      BY <2>1 DEF TypeInv, TypeOK
    <2>3. CASE verified' = verified
      BY <2>1, <2>2, <2>3, AgentKept DEF NothingShown
    <2>4. CASE verified' = Forward(pending) /\ pending = aid[c]
      <3>1. cred[c] = Forward(pending) /\ pending \in Transfers
        BY <1>3, <2>4 DEF MarkVerified, At, HeldOutInv, ShownSecrets, TypeInv, NamesTransfer
      <3>2. Forward(pending) \in Secrets /\ Forward(pending).kind = "forward"
        BY <3>1, SecretsMembers DEF Forward
      <3> QED BY <1>2, <2>1, <2>2, <2>4, <3>1, <3>2
    <2> QED BY <1>3, <2>3, <2>4 DEF MarkVerified
  <1>4. CASE Promote(c)
    <2>1. UNCHANGED <<disk, reload, cred>> /\ revertDelivery' \in {revertDelivery, NoTransfer}
      BY <1>4 DEF Promote, AFind, agent, DropIf
    <2>2. CASE verified' = verified
      BY <2>1, <2>2, AgentKept DEF NothingShown
    <2>3. CASE verified' = Revert(aid[c])
      <3>1. cred[c] = Revert(aid[c]) /\ aid[c] \in Transfers
        BY <1>4 DEF Promote, At, HeldOutInv, ShownSecrets, TypeInv, NamesTransfer
      <3>2. Revert(aid[c]) \in Secrets /\ Revert(aid[c]).kind = "revert"
        BY <3>1, SecretsMembers DEF Revert
      <3> QED BY <1>2, <2>1, <2>3, <3>1, <3>2
    <2> QED BY <1>4, <2>2, <2>3 DEF Promote, Promoted
  <1>5. CASE PushOnReconnect(c)
    <2>1. aid[c] \in Transfers
      BY <1>5 DEF PushOnReconnect, At, TypeInv, NamesTransfer
    <2>2. UNCHANGED verified /\ \A d \in Clients : cred'[d] \in {cred[d], NoSecret}
      BY <1>5 DEF PushOnReconnect, AEnd, TypeInv, TypeOK
    <2>3. NothingShown
      BY <1>5, <2>1, <2>2 DEF PushOnReconnect, SendForward, SendRevert, SendApply, NothingShown, agent
    <2> QED BY <2>3, AgentKept
  <1>6. CASE ~AuthStart(c) /\ ~MarkVerified(c) /\ ~Promote(c) /\ ~PushOnReconnect(c)
    <2>1. UNCHANGED <<disk, reload, verified>> /\ revertDelivery' \in {revertDelivery, NoTransfer}
      BY <1>6 DEF Authenticating, AuthPending, AuthRecovery, AckRow, AuthVerified, AuthGlobal, AuthOwner,
         AuthOwnerPending, AuthForeign, AuthForeignPending, Attach, OnAgentReconnect, agent, index
    <2>2. cred' \in {cred, [cred EXCEPT ![c] = NoSecret]}
      BY <1>6 DEF Authenticating, AuthPending, AuthRecovery, AckRow, AuthVerified, AuthGlobal, AuthOwner,
         AuthOwnerPending, AuthForeign, AuthForeignPending, Attach, OnAgentReconnect, AGo, AFind, AEnd
    <2>3. NothingShown
      BY <2>1, <2>2 DEF NothingShown, TypeInv, TypeOK
    <2> QED BY <2>3, AgentKept
  <1> QED BY <1>1, <1>3, <1>4, <1>5, <1>6

LEMMA AgentNext ==
  ASSUME "restart" \notin Ops, TypeInv, CredentialInv, HeldOutInv, StaleInv, AgentInv, [Next]_vars
  PROVE  AgentInv'
  <1> NoOlderPush
    BY StaleStep
  <1>1. ASSUME NEW w \in Workers, Initiating(w) PROVE AgentInv'
    <2>1. CASE Push(w)
      <3>1. tid[w] \in Transfers /\ SendForward(tid[w]) /\ UNCHANGED <<verified, cred>>
        BY <2>1 DEF Push, TypeInv, NamesTransfer, auth
      <3> QED BY <3>1, ForwardShows, AgentKept
    <2>2. CASE ~Push(w)
      <3>1. UNCHANGED <<disk, reload, verified, cred>> /\ revertDelivery' \in {revertDelivery, NoTransfer}
        BY <1>1, <2>2 DEF Initiating, BatchMove, Retry, Claim, Insert, SetOwner, Publish, Announce, Unclaim,
           agent, index, auth
      <3> QED BY <3>1, AgentKept DEF NothingShown
    <2> QED BY <2>1, <2>2
  <1>2. ASSUME NEW w \in Workers, Reverting(w) PROVE AgentInv'
    <2>1. CASE PushRevert(w)
      <3>1. tid[w] \in Transfers /\ SendRevert(tid[w]) /\ UNCHANGED <<verified, cred>>
        BY <2>1 DEF PushRevert, TypeInv, NamesTransfer, auth
      <3> QED BY <3>1, RollbackShows, AgentKept
    <2>2. CASE RegisterRevertDelivery(w)
      <3>1. status[tid[w]] = "Reverted" /\ tid[w] \in Transfers
        BY <2>2 DEF RegisterRevertDelivery, Step, TypeInv, NamesTransfer, CredentialInv, WorksOnReverted
      <3>2. RollbackRows'
        BY <2>2, <3>1 DEF RegisterRevertDelivery, AgentInv, RollbackRows, RollbackKnown, RollbackSent, db,
           agent
      <3> QED BY <2>2, <3>2 DEF RegisterRevertDelivery, AgentInv, DiskHeld, ReloadOfTransfer, ReloadNewer,
              OnlyAgentShows, ShownHeld, LongTermHeld, agent, auth
    <2>3. CASE ~PushRevert(w) /\ ~RegisterRevertDelivery(w)
      <3>1. UNCHANGED <<disk, reload, verified, cred, revertDelivery>>
        BY <1>2, <2>3 DEF Reverting, StartRevert, RevertRow, RestoreOwner, DropPending, HealPending,
           RegisterTerminalSecretRecovery, agent, index, auth
      <3> QED BY <3>1, AgentKept DEF NothingShown
    <2> QED BY <2>1, <2>2, <2>3
  <1>3. ASSUME NEW w \in Workers, Deleting(w) \/ Editing(w) PROVE AgentInv'
    <2>1. UNCHANGED <<disk, reload, verified, cred>> /\ revertDelivery' \in {revertDelivery, NoTransfer}
      BY <1>3 DEF Deleting, DeleteServer, OnServersDeletedRows, OnServersDeletedSlots, DeleteCached,
         DeleteUser, OnUsersDeletedRows, OnUsersDeletedSlots, DeleteUserRow, Editing, UpdateServer,
         SaveServer, CopyServer, ReplaceServer, agent, index, auth, DropIf
    <2> QED BY <2>1, AgentKept DEF NothingShown
  <1>4. ASSUME NEW c \in Clients, Authenticating(c) PROVE AgentInv'
    BY <1>4, AgentAuthenticating
  <1>5. ASSUME NEW u \in Users, Controlling(u) PROVE AgentInv'
    BY <1>5, AgentKept
       DEF Controlling, BeginServerControl, RegisterStream, EndControl, CloseStream, NothingShown, agent,
           index, auth
  <1>6. CASE AgentReload
    <2>1. disk' = reload /\ reload' = NoSecret /\ reload # NoSecret
          /\ UNCHANGED <<verified, cred, revertDelivery, status>>
      BY <1>6 DEF AgentReload, index, auth, db
    <2>2. /\ Rank(disk) \in Nat /\ Rank(reload) \in Nat /\ Rank(disk) <= Rank(reload)
          /\ Rank(verified) \in Nat /\ Rank(cred[Agent]) \in Nat
      BY <2>1, RankIsNat, AgentAssumption DEF TypeInv, TypeOK, AgentInv, ReloadNewer
    <2>3. ShownHeld' /\ LongTermHeld'
      BY <2>1, <2>2 DEF AgentInv, ShownHeld, LongTermHeld
    <2>4. NoSecret.kind # "global"
      BY SecretKinds
    <2>5. RollbackRows'
      BY <2>1, SecretsDiffer DEF AgentInv, RollbackRows, RollbackKnown, RollbackSent
    <2> QED BY <2>1, <2>3, <2>4, <2>5 DEF AgentInv, DiskHeld, ReloadOfTransfer, ReloadNewer, OnlyAgentShows
  <1>7. CASE AgentDrop \/ Expire \/ PruneRecovery \/ UNCHANGED vars
    BY <1>7, AgentKept DEF AgentDrop, Expire, PruneRecovery, vars, NothingShown, agent, index, auth
  <1> QED BY <1>1, <1>2, <1>3, <1>4, <1>5, <1>6, <1>7 DEF Next, Restart

LEMMA SlotInit == Init => SlotInv
  BY SecretsDiffer, ZeroIsNoTransfer DEF Init, SlotInv, RevertersNewest, RecoveryTops, SlotOrReverter,
     SlotHolds, VerifiedHolds, Settled, Idle, SlotPCs

(* A step that reverts, verifies and promotes nothing. *)
SlotStill ==
    /\ \A w \in Workers : /\ pc'[w] \in SlotPCs <=> pc[w] \in SlotPCs
                          /\ pc[w] \in SlotPCs => tid'[w] = tid[w]
    /\ \A t \in Transfers : Settled(t)' => status'[t] = status[t]
    /\ \A t \in Transfers : fresh'[t] => fresh[t]
    /\ recovery' = recovery \/ (recovery' = NoTransfer /\ ~fresh[recovery])
    /\ verified' = verified

LEMMA SlotKept ==
  ASSUME TypeInv, SlotInv, dbServer, SlotStill, Rank(disk) <= Rank(disk)', Rank(disk)' \in Nat,
         [Next]_vars
  PROVE  SlotInv'
  <1> USE DEF SlotInv, SlotStill
  <1>1. \A t \in Transfers : /\ Settled(t) <=> Settled(t)'
                             /\ status[t] = "Reverted" <=> status'[t] = "Reverted"
                             /\ status[t] = "Verified" <=> status'[t] = "Verified"
    BY SettledStays DEF Settled
  <1>2. \A t : Reverter(t)' <=> Reverter(t)
    BY DEF Reverter
  <1>3. \A t : Above(t)' = Above(t) /\ Above(t) \subseteq Transfers
    BY DEF Above
  <1>4. Rank(disk) \in Nat /\ \A t \in Transfers : 2 * t \in Nat /\ 2 * t - 1 \in Nat
    BY RankIsNat, NumbersAssumption DEF TypeInv, TypeOK, Transfers
  <1>5. RevertersNewest'
    BY <1>1, <1>3 DEF RevertersNewest
  <1>6. RecoveryTops'
    BY <1>1, <1>2, <1>3 DEF RecoveryTops
  <1>7. SlotOrReverter'
    BY <1>2, ZeroIsNoTransfer DEF SlotOrReverter
  <1>8. SlotHolds'
    <2> SUFFICES ASSUME NEW t \in Transfers, status'[t] = "Reverted", fresh'[t], Rank(disk)' <= 2 * t,
                        \A s \in Above(t)' : status'[s] # "Reverted"
                 PROVE  recovery' = t \/ verified' = Revert(t) \/ Reverter(t)'
      BY DEF SlotHolds
    <2>1. Rank(disk) <= 2 * t
      BY <1>4
    <2>2. status[t] = "Reverted" /\ fresh[t] /\ \A s \in Above(t) : status[s] # "Reverted"
      BY <1>1, <1>3
    <2>3. recovery = t \/ verified = Revert(t) \/ Reverter(t)
      BY <2>1, <2>2 DEF SlotHolds
    <2> QED BY <1>2, <2>2, <2>3
  <1>9. VerifiedHolds'
    <2> SUFFICES ASSUME NEW t \in Transfers, status'[t] = "Verified", Rank(disk)' <= 2 * t - 1
                 PROVE  verified' = Forward(t)
      BY DEF VerifiedHolds
    <2>1. status[t] = "Verified" /\ Rank(disk) <= 2 * t - 1
      BY <1>1, <1>4
    <2> QED BY <2>1 DEF VerifiedHolds
  <1> QED BY <1>5, <1>6, <1>7, <1>8, <1>9

(* The reverted row is the newest, its handler holds the lock. *)
LEMMA SlotReverts ==
  ASSUME TypeInv, LockInv, CredentialInv, NewestInv, SlotInv, dbServer,
         NEW w \in Workers, RevertRow(w)
  PROVE  SlotInv'
  <1> USE DEF SlotInv
  <1>1. UNCHANGED <<recovery, verified, disk, fresh>>
    BY DEF RevertRow, index, agent
  <1>2. \A t : Above(t)' = Above(t) /\ Above(t) \subseteq Transfers
    BY DEF Above
  <1>3. controlLock = NoWorker /\ \A v \in Workers : pc[v] \notin SlotPCs
    BY LockWorkers DEF RevertRow, TakeControl, LockInv, LockHeld, LockPCs, SlotPCs
  <1>4. pc[w] = "revert" /\ tid[w] \in Transfers
    BY DEF RevertRow, TypeInv, NamesTransfer
  <1>5. CASE status' = status
    <2>1. \A v \in Workers : pc'[v] \notin SlotPCs
      BY <1>3, <1>4, <1>5 DEF RevertRow, Step, Goto, Return, SlotPCs, Idle, TypeInv, TypeOK, StillPending
    <2>2. \A t : ~Reverter(t) /\ ~Reverter(t)'
      BY <1>3, <2>1 DEF Reverter
    <2> QED BY <1>1, <1>2, <1>5, <2>1, <2>2 DEF RevertersNewest, RecoveryTops, SlotOrReverter, SlotHolds,
            VerifiedHolds
  <1>6. CASE status[tid[w]] = "Pending" /\ status' = [status EXCEPT ![tid[w]] = "Reverted"]
             /\ Step(w, "revert", "restore")
    <2> DEFINE t == tid[w]
    <2>1. status'[t] = "Reverted" /\ \A s \in Transfers : s # t => status'[s] = status[s]
      BY <1>4, <1>6 DEF TypeInv, TypeOK
    <2>2. \A s \in Transfers : (\E v \in Workers : pc'[v] \in SlotPCs /\ tid'[v] = s) <=> s = t
      BY <1>3, <1>4, <1>6 DEF Step, Goto, SlotPCs, TypeInv, TypeOK
    <2>3. \A s \in Transfers : ~Reverter(s) /\ (Reverter(s)' <=> s = t)
      BY <1>3, <2>2 DEF Reverter
    <2>4. \A s \in Above(t) : status[s] = "none"
      <3>1. t \in Latest(Rows)
        BY <1>4, <1>6 DEF NewestInv, PendingNewest, PendingRows
      <3> QED BY <1>4, <3>1 DEF Latest, Rows, Above, Transfers, NoTransfer
    <2>5. RevertersNewest'
      <3> SUFFICES ASSUME NEW v \in Workers, pc'[v] \in SlotPCs, NEW s \in Above(tid'[v])
                   PROVE  ~Settled(s)'
        BY DEF RevertersNewest, Above
      <3>1. v = w /\ tid'[v] = t
        BY <1>3, <1>4, <1>6 DEF Step, Goto, SlotPCs, TypeInv, TypeOK
      <3>2. s \in Above(t) /\ s # t /\ s \in Transfers
        BY <3>1 DEF Above, Transfers
      <3> QED BY <2>1, <2>4, <3>2 DEF Settled
    <2>6. RecoveryTops'
      BY <1>1, <1>2, <2>1, <2>3, ZeroIsNoTransfer DEF RecoveryTops, TypeInv, TypeOK
    <2>7. SlotOrReverter'
      <3>1. recovery # t /\ verified # Revert(t)
        BY <1>4, <1>6, ZeroIsNoTransfer DEF CredentialInv, SlotReverted, LongTermCredentialProven
      <3> QED BY <1>1, <2>3, <3>1 DEF SlotOrReverter
    <2>8. SlotHolds'
      <3> SUFFICES ASSUME NEW s \in Transfers, s # t, status'[s] = "Reverted", fresh'[s], Rank(disk)' <= 2 * s,
                          \A r \in Above(s)' : status'[r] # "Reverted"
                   PROVE  recovery' = s \/ verified' = Revert(s)
        BY <2>3 DEF SlotHolds
      <3>1. status[s] = "Reverted" /\ fresh[s] /\ Rank(disk) <= 2 * s
        BY <1>1, <2>1
      <3>2. \A r \in Above(s) : status[r] # "Reverted"
        BY <1>2, <2>1
      <3> QED BY <1>1, <2>3, <3>1, <3>2 DEF SlotHolds
    <2>9. VerifiedHolds'
      BY <1>1, <2>1 DEF VerifiedHolds
    <2> QED BY <2>5, <2>6, <2>7, <2>8, <2>9
  <1> QED BY <1>5, <1>6 DEF RevertRow, StillPending

(* The handler that has reverted a row puts it into the slot, in place of an *)
(* older one.                                                                *)
LEMMA SlotFills ==
  ASSUME TypeInv, LockInv, CredentialInv, SlotInv, dbServer,
         NEW w \in Workers, RegisterTerminalSecretRecovery(w)
  PROVE  SlotInv'
  <1> USE DEF SlotInv
  <1> DEFINE t == tid[w]
  <1>1. UNCHANGED <<status, verified, disk, fresh>> /\ recovery' = t
    BY DEF RegisterTerminalSecretRecovery, db, agent
  <1>2. \A s : Above(s)' = Above(s) /\ Above(s) \subseteq Transfers
    BY DEF Above
  <1>3. pc[w] = "recover" /\ t \in Transfers /\ status[t] = "Reverted"
    BY DEF RegisterTerminalSecretRecovery, Step, TypeInv, NamesTransfer, CredentialInv, WorksOnReverted
  <1>4. \A v \in Workers : pc[v] \in SlotPCs => v = w
    BY <1>3 DEF LockInv, LockHeld, LockPCs, SlotPCs
  <1>5. \A v \in Workers : pc'[v] \notin SlotPCs
    BY <1>3, <1>4 DEF RegisterTerminalSecretRecovery, Step, Goto, SlotPCs, TypeInv, TypeOK
  <1>6. \A s : ~Reverter(s)' /\ (Reverter(s) => s = t)
    BY <1>4, <1>5 DEF Reverter
  <1>7. \A s \in Above(t) : ~Settled(s)
    BY <1>3 DEF RevertersNewest, SlotPCs
  <1>8. RevertersNewest' /\ SlotOrReverter'
    BY <1>5, <1>6 DEF RevertersNewest, SlotOrReverter
  <1>9. RecoveryTops'
    BY <1>1, <1>2, <1>7 DEF RecoveryTops, Settled
  <1>10. SlotHolds'
    <2> SUFFICES ASSUME NEW s \in Transfers, s # t, status[s] = "Reverted", fresh[s], Rank(disk) <= 2 * s,
                        \A r \in Above(s) : status[r] # "Reverted"
                 PROVE  verified = Revert(s)
      BY <1>1, <1>2 DEF SlotHolds
    <2>1. s \notin Above(t) /\ t \notin Above(s)
      BY <1>3, <1>7 DEF Settled
    <2> QED BY <1>3, <2>1 DEF Above, Transfers
  <1>11. VerifiedHolds'
    BY <1>1 DEF VerifiedHolds
  <1> QED BY <1>8, <1>9, <1>10, <1>11

(* The agent has proved the newest transfer: every older secret is behind    *)
(* what it has.                                                              *)
LEMMA SlotVerifies ==
  ASSUME TypeInv, RollbackInv, NewestInv, HeldOutInv, AgentInv, SlotInv, dbServer,
         NEW c \in Clients, MarkVerified(c), [Next]_vars
  PROVE  SlotInv'
  <1>1. UNCHANGED <<disk, fresh, pc, tid>>
    BY DEF MarkVerified, agent, worker
  <1>2. CASE UNCHANGED <<status, recovery, verified>>
    <2>1. Rank(disk)' = Rank(disk) /\ Rank(disk) \in Nat
      BY <1>1, RankIsNat DEF TypeInv, TypeOK
    <2>2. SlotStill
      BY <1>1, <1>2 DEF SlotStill, Settled
    <2> QED BY <2>1, <2>2, SlotKept
  <1>3. CASE /\ pending = aid[c] /\ status[pending] = "Pending"
             /\ status' = [status EXCEPT ![pending] = "Verified"]
             /\ verified' = Forward(pending) /\ recovery' = NoTransfer
    <2> DEFINE p == pending
    <2>1. p \in Transfers /\ cred[c] = Forward(p)
      BY <1>3 DEF MarkVerified, At, HeldOutInv, ShownSecrets, TypeInv, NamesTransfer
    <2>2. c = Agent
      BY <2>1 DEF AgentInv, OnlyAgentShows, Forward
    <2>3. 2 * p - 1 <= Rank(disk) /\ Rank(disk) \in Nat
      BY <2>1, <2>2, RankOfForward, RankIsNat DEF AgentInv, ShownHeld, TypeInv, TypeOK
    <2>4. \A s \in Transfers : status[s] # "none" => s <= p
      <3>1. p \in Latest(Rows)
        BY <1>3, <2>1 DEF NewestInv, PendingNewest, PendingRows
      <3> QED BY <2>1, <3>1 DEF Latest, Rows, NoTransfer, Transfers
    <2>5. status'[p] = "Verified" /\ \A s \in Transfers : s # p => status'[s] = status[s]
      BY <1>3, <2>1 DEF TypeInv, TypeOK
    <2>6. \A s : Reverter(s)' <=> Reverter(s)
      BY <1>1 DEF Reverter
    <2>7. RevertersNewest'
      <3> SUFFICES ASSUME NEW w \in Workers, pc[w] \in SlotPCs, NEW s \in Above(tid[w])
                   PROVE  ~Settled(s)'
        BY <1>1 DEF RevertersNewest, Above
      <3>1. p = tid[w]
        BY <2>1, ZeroIsNoTransfer DEF RollbackInv, EntryLeaving, SlotPCs
      <3>2. s \in Transfers /\ s # p
        BY <3>1 DEF Above, Transfers
      <3> QED BY <2>5, <3>2 DEF SlotInv, RevertersNewest, Settled
    <2>8. RecoveryTops'
      BY <1>3 DEF RecoveryTops
    <2>9. SlotOrReverter'
      BY <1>3, <2>6, SecretsDiffer, ZeroIsNoTransfer DEF SlotInv, SlotOrReverter
    <2>10. SlotHolds'
      <3> SUFFICES ASSUME NEW s \in Transfers, status'[s] = "Reverted", Rank(disk) <= 2 * s PROVE FALSE
        BY <1>1 DEF SlotHolds
      <3>1. s # p /\ s <= p
        BY <2>4, <2>5
      <3> QED BY <2>1, <2>3, <3>1 DEF Transfers
    <2>11. VerifiedHolds'
      <3> SUFFICES ASSUME NEW s \in Transfers, status'[s] = "Verified", Rank(disk) <= 2 * s - 1 PROVE s = p
        BY <1>1, <1>3 DEF VerifiedHolds
      <3>1. s <= p
        BY <2>1, <2>4, <2>5 DEF Transfers
      <3> QED BY <2>1, <2>3, <3>1 DEF Transfers
    <2> QED BY <2>7, <2>8, <2>9, <2>10, <2>11 DEF SlotInv
  <1> QED BY <1>2, <1>3 DEF MarkVerified

(* The revert secret of the row in the slot becomes long-term; it is newer   *)
(* than what was, or the slot has been taken by a reversal since.            *)
LEMMA SlotPromotes ==
  ASSUME TypeInv, HeldOutInv, AgentInv, SlotInv, dbServer,
         NEW c \in Clients, Promote(c), [Next]_vars
  PROVE  SlotInv'
  <1> DEFINE a == aid[c]
  <1>1. UNCHANGED <<disk, fresh, pc, tid, status>>
    BY DEF Promote, agent, worker, db
  <1>2. a \in Transfers /\ cred[c] = Revert(a)
    BY DEF Promote, At, HeldOutInv, ShownSecrets, TypeInv, NamesTransfer
  <1>3. c = Agent
    BY <1>2 DEF AgentInv, OnlyAgentShows, Revert
  <1>4. 2 * a <= Rank(disk) /\ Rank(disk) \in Nat
    BY <1>2, <1>3, RankOfRevert, RankIsNat DEF AgentInv, ShownHeld, TypeInv, TypeOK
  <1>5. CASE recovery # a
    <2>1. Rank(disk)' = Rank(disk)
      BY <1>1
    <2>2. SlotStill
      BY <1>1, <1>5 DEF Promote, Promoted, DropIf, SlotStill, Settled
    <2> QED BY <1>4, <2>1, <2>2, SlotKept
  <1>6. CASE recovery = a
    <2>1. verified' = Revert(a) /\ recovery' = NoTransfer
      BY <1>6 DEF Promote, Promoted, DropIf
    <2>2. \A s : (Reverter(s)' <=> Reverter(s)) /\ Above(s)' = Above(s)
      BY <1>1 DEF Reverter, Above
    <2>3. RevertersNewest' /\ RecoveryTops'
      BY <1>1, <2>1, <2>2 DEF SlotInv, RevertersNewest, RecoveryTops, Settled, Above
    <2>4. SlotOrReverter'
      BY <1>6, <2>1, <2>2, SecretsDiffer, ZeroIsNoTransfer DEF SlotInv, SlotOrReverter
    <2>5. SlotHolds'
      <3> SUFFICES ASSUME NEW s \in Transfers, s # a, status[s] = "Reverted", fresh[s], Rank(disk) <= 2 * s
                   PROVE  Reverter(s)
        BY <1>1, <2>1, <2>2 DEF SlotHolds
      <3>1. s \in Above(a)
        BY <1>2, <1>4 DEF Above, Transfers
      <3> QED BY <1>2, <1>6, <3>1, ZeroIsNoTransfer DEF SlotInv, RecoveryTops
    <2>6. VerifiedHolds'
      <3> SUFFICES ASSUME NEW s \in Transfers, status[s] = "Verified", Rank(disk) <= 2 * s - 1 PROVE FALSE
        BY <1>1 DEF VerifiedHolds
      <3>1. s \in Above(a)
        BY <1>2, <1>4 DEF Above, Transfers
      <3> QED BY <1>2, <1>6, <3>1, ZeroIsNoTransfer DEF SlotInv, RecoveryTops
    <2> QED BY <2>3, <2>4, <2>5, <2>6 DEF SlotInv
  <1> QED BY <1>5, <1>6

LEMMA SlotNext ==
  ASSUME "edit" \notin Ops, "restart" \notin Ops, "deleteUser" \notin Ops,
         TypeInv, LockInv, RollbackInv, CredentialInv, DeletionInv, NoUserLeaves, NewestInv,
         HeldOutInv, AgentInv, SlotInv, [Next]_vars
  PROVE  SlotInv'
  <1> SUFFICES ASSUME dbServer' PROVE SlotInv'
    BY DEF SlotInv
  <1> USE DEF SlotStill, SlotPCs, Settled, db, index, worker, agent, Step, Goto, Call, Return, Idle
  <1>1. Rank(disk) \in Nat /\ (disk' = disk => Rank(disk)' = Rank(disk))
    BY RankIsNat DEF TypeInv, TypeOK
  <1>2. ASSUME dbServer, UNCHANGED <<status, fresh, recovery, verified, disk>>,
               \A w \in Workers : /\ pc'[w] \in SlotPCs <=> pc[w] \in SlotPCs
                                  /\ pc[w] \in SlotPCs => tid'[w] = tid[w]
        PROVE  SlotInv'
    BY <1>1, <1>2, SlotKept
  <1>3. ASSUME NEW w \in Workers, Initiating(w) PROVE SlotInv'
    <2>1. CASE Insert(w)
      <3>1. \A t \in Transfers : Settled(t)' => status'[t] = status[t]
        BY <2>1 DEF Insert, TypeInv, TypeOK
      <3>2. dbServer /\ UNCHANGED <<fresh, recovery, verified, disk>>
        BY <2>1 DEF Insert
      <3>3. \A v \in Workers : /\ pc'[v] \in SlotPCs <=> pc[v] \in SlotPCs
                               /\ pc[v] \in SlotPCs => tid'[v] = tid[v]
        BY <2>1 DEF Insert, TypeInv, TypeOK
      <3> QED BY <1>1, <3>1, <3>2, <3>3, SlotKept
    <2>2. CASE ~Insert(w)
      <3>1. dbServer /\ UNCHANGED <<status, fresh, recovery, verified>>
        BY <1>3, <2>2 DEF Initiating, BatchMove, Retry, Claim, SetOwner, Publish, Announce, Unclaim, Push
      <3>2. UNCHANGED disk
        <4>1. CASE Push(w)
          BY <4>1 DEF Push, SendForward, SendApply
        <4>2. CASE BatchMove(w) \/ Retry(w) \/ Claim(w) \/ SetOwner(w)
          BY <4>2 DEF BatchMove, Retry, Claim, SetOwner
        <4>3. CASE Publish(w) \/ Announce(w) \/ Unclaim(w)
          BY <4>3 DEF Publish, Announce, Unclaim
        <4> QED BY <1>3, <2>2, <4>1, <4>2, <4>3 DEF Initiating
      <3>3. \A v \in Workers : /\ pc'[v] \in SlotPCs <=> pc[v] \in SlotPCs
                               /\ pc[v] \in SlotPCs => tid'[v] = tid[v]
        <4>1. CASE BatchMove(w) \/ Retry(w) \/ Claim(w)
          BY <4>1, ZenonT(40) DEF BatchMove, Retry, Claim, TypeInv, TypeOK
        <4>2. CASE SetOwner(w) \/ Publish(w) \/ Announce(w)
          BY <4>2, ZenonT(40) DEF SetOwner, Publish, Announce, TypeInv, TypeOK
        <4>3. CASE Unclaim(w) \/ Push(w)
          BY <4>3, ZenonT(40) DEF Unclaim, Push, TypeInv, TypeOK
        <4> QED BY <1>3, <2>2, <4>1, <4>2, <4>3 DEF Initiating
      <3> QED BY <1>2, <3>1, <3>2, <3>3
    <2> QED BY <2>1, <2>2
  <1>4. ASSUME NEW w \in Workers, Reverting(w) PROVE SlotInv'
    <2>1. CASE RevertRow(w)
      <3>1. dbServer
        BY <2>1 DEF RevertRow
      <3> QED BY <2>1, <3>1, SlotReverts
    <2>2. CASE RegisterTerminalSecretRecovery(w)
      <3>1. dbServer
        BY <2>2 DEF RegisterTerminalSecretRecovery
      <3> QED BY <2>2, <3>1, SlotFills
    <2>3. CASE ~RevertRow(w) /\ ~RegisterTerminalSecretRecovery(w)
      <3>1. dbServer /\ UNCHANGED <<status, fresh, recovery, verified, disk>>
        BY <1>4, <2>3 DEF Reverting, StartRevert, RestoreOwner, DropPending, HealPending,
           RegisterRevertDelivery, PushRevert, SendRevert, SendApply
      <3>2. \A v \in Workers : /\ pc'[v] \in SlotPCs <=> pc[v] \in SlotPCs
                               /\ pc[v] \in SlotPCs => tid'[v] = tid[v]
        BY <1>4, <2>3, ZenonT(40) DEF Reverting, StartRevert, RestoreOwner, DropPending, HealPending,
           RegisterRevertDelivery, PushRevert, TypeInv, TypeOK
      <3> QED BY <1>2, <3>1, <3>2
    <2> QED BY <2>1, <2>2, <2>3
  <1>5. ASSUME NEW w \in Workers, Deleting(w) PROVE FALSE
    <2>1. pc[w] \in DeletionPCs => ~dbServer
      BY DEF DeletionInv, DeletersGone
    <2> QED BY <1>5, <2>1
         DEF Deleting, DeleteServer, OnServersDeletedRows, OnServersDeletedSlots, DeleteCached, DeleteUser,
             OnUsersDeletedRows, OnUsersDeletedSlots, DeleteUserRow, CancelRows, NoUserLeaves, DeletionPCs
  <1>6. ASSUME NEW c \in Clients, Authenticating(c) PROVE SlotInv'
    <2>1. dbServer /\ UNCHANGED <<pc, tid>>
      BY <1>6 DEF Authenticating, AuthStart, AuthPending, MarkVerified, AuthRecovery, AckRow, Promote,
         AuthVerified, AuthGlobal, AuthOwner, AuthOwnerPending, AuthForeign, AuthForeignPending,
         Attach, OnAgentReconnect, PushOnReconnect
    <2>2. CASE MarkVerified(c)
      BY <2>1, <2>2, SlotVerifies
    <2>3. CASE Promote(c)
      BY <2>1, <2>3, SlotPromotes
    <2>4. CASE AuthRecovery(c)
      <3>1. /\ UNCHANGED <<status, fresh, verified, disk>>
            /\ recovery' = recovery \/ (recovery' = NoTransfer /\ ~fresh[recovery])
        BY <2>4 DEF AuthRecovery
      <3>2. SlotStill
        BY <2>1, <3>1
      <3> QED BY <1>1, <2>1, <3>1, <3>2, SlotKept
    <2>5. CASE ~MarkVerified(c) /\ ~Promote(c) /\ ~AuthRecovery(c)
      <3>1. UNCHANGED <<status, fresh, recovery, verified, disk>>
        BY <1>6, <2>5 DEF Authenticating, AuthStart, AuthPending, AckRow, AuthVerified, AuthGlobal,
           AuthOwner, AuthOwnerPending, AuthForeign, AuthForeignPending, Attach, OnAgentReconnect,
           PushOnReconnect, SendForward, SendRevert, SendApply
      <3> QED BY <1>2, <2>1, <3>1
    <2> QED BY <2>2, <2>3, <2>4, <2>5
  <1>7. ASSUME NEW u \in Users, Controlling(u) PROVE SlotInv'
    BY <1>2, <1>7 DEF Controlling, BeginServerControl, RegisterStream, EndControl, CloseStream
  <1>8. CASE AgentReload
    <2>1. Rank(disk) <= Rank(disk)' /\ Rank(disk)' \in Nat
      BY <1>8, RankIsNat DEF AgentReload, AgentInv, ReloadNewer, TypeInv, TypeOK
    <2>2. dbServer /\ SlotStill
      BY <1>8 DEF AgentReload
    <2> QED BY <2>1, <2>2, SlotKept
  <1>9. CASE Expire \/ PruneRecovery
    <2>1. dbServer /\ UNCHANGED disk /\ SlotStill
      BY <1>9 DEF Expire, PruneRecovery, TypeInv, TypeOK
    <2> QED BY <1>1, <2>1, SlotKept
  <1>10. CASE AgentDrop \/ UNCHANGED vars
    BY <1>2, <1>10 DEF AgentDrop, vars
  <1> QED BY <1>3, <1>4, <1>5, <1>6, <1>7, <1>8, <1>9, <1>10 DEF Next, Restart, Editing

LEMMA FirstInit == Init => FirstInv
  <1> SUFFICES ASSUME Init PROVE FirstInv
    OBVIOUS
  <1>1. Rows = {} /\ disk.of = dbOwner
    BY DEF Init, Rows, Global
  <1> QED BY <1>1 DEF Init, FirstInv, UsersStay, StartsOwn, FirstOwner, NewestExists, Latest, Idle

(* A step that moves nothing. *)
NothingMoves ==
    /\ UNCHANGED <<users, dbOwner, fromUser>> /\ Rows' = Rows
    /\ dbServer' => dbServer
    /\ disk' = disk \/ disk'.kind # "global"
    /\ \A w \in Workers : pc'[w] = "insert" => pc[w] = "insert" /\ from'[w] = from[w]

LEMMA FirstKept ==
  ASSUME FirstInv, NothingMoves
  PROVE  FirstInv'
  <1>1. FirstOwner'
    BY DEF FirstInv, FirstOwner, NothingMoves
  <1>2. NewestExists'
    BY DEF FirstInv, NewestExists, NothingMoves, Latest
  <1> QED BY <1>1, <1>2 DEF FirstInv, UsersStay, StartsOwn, NothingMoves

(* While the agent has its first secret the owner is whom every row came     *)
(* from, when nothing is pending.                                            *)
LEMMA FirstOwns ==
  ASSUME TypeInv, NewestInv, AgentInv, SlotInv, FirstInv, dbServer, disk.kind = "global",
         PendingRows = {}
  PROVE  dbOwner = disk.of
  <1>1. CASE Rows = {}
    BY <1>1 DEF FirstInv, FirstOwner
  <1>2. CASE Rows # {}
    <2>1. PICK t \in Latest(Rows) : TRUE
      BY DEF FirstInv, NewestExists
    <2>2. t \in Latest(Rows) \ {NoTransfer} /\ t \in Rows /\ t \in Transfers
      BY <1>2, <2>1, ZeroIsNoTransfer DEF Latest, Rows
    <2>3. fromUser[t] = disk.of
      BY <2>2 DEF FirstInv, FirstOwner
    <2>4. status[t] # "Verified"
      <3>1. t \in Nat /\ 2 * t - 1 > 0
        BY <2>2, NumbersAssumption DEF Transfers
      <3>2. Rank(disk) = 0
        BY DEF Rank
      <3>3. SUFFICES ASSUME status[t] = "Verified" PROVE FALSE
        OBVIOUS
      <3>4. verified = Forward(t)
        BY <2>2, <3>1, <3>2, <3>3 DEF SlotInv, VerifiedHolds
      <3>5. Rank(verified) = 2 * t - 1 /\ Rank(verified) <= 0
        BY <3>2, <3>4, RankOfForward DEF AgentInv, LongTermHeld
      <3> QED BY <3>1, <3>5
    <2>5. status[t] = "Reverted"
      BY <2>2, <2>4 DEF PendingRows, Rows, TypeInv, TypeOK
    <2> QED BY <2>2, <2>3, <2>5 DEF NewestInv, NewestRowDecidesOwner
  <1> QED BY <1>1, <1>2

LEMMA FirstInserts ==
  ASSUME TypeInv, ClaimInv, NewestInv, AgentInv, SlotInv, FirstInv, NEW w \in Workers, Insert(w)
  PROVE  FirstInv'
  <1>1. UNCHANGED <<users, disk, dbServer>> /\ pc[w] = "insert"
    BY DEF Insert, agent
  <1>2. CASE ~dbServer \/ UNCHANGED status
    <2>1. UNCHANGED <<fromUser, toUser, dbOwner, status, from>> /\ Call(w, "unclaim", NoTransfer)
      BY <1>2, LatestBelow DEF Insert, TypeInv, TypeOK, Call
    <2>2. NothingMoves
      BY <1>1, <2>1 DEF NothingMoves, Rows, Call, Goto, TypeInv, TypeOK
    <2> QED BY <2>2, FirstKept
  <1>3. CASE dbServer /\ ~UNCHANGED status
    <2>1. PICK t \in Transfers :
            /\ t - 1 \in Latest(Rows)
            /\ status' = [status EXCEPT ![t] = "Pending"]
            /\ fromUser' = [fromUser EXCEPT ![t] = from[w]]
            /\ dbOwner' = to[w]
            /\ Call(w, "setOwner", t)
      BY <1>3 DEF Insert
    <2>2. Rows' = Rows \cup {t} /\ Latest(Rows') = {t}
      BY <2>1, InsertTops
    <2>3. UsersStay' /\ NewestExists'
      BY <1>1, <2>2 DEF FirstInv, UsersStay, NewestExists, Latest
    <2>4. StartsOwn'
      <3>1. \A v \in Workers : pc'[v] = "insert" => pc[v] = "insert" /\ v # w
        BY <2>1 DEF Call, Goto, TypeInv, TypeOK
      <3>2. \A v \in Workers : pc'[v] # "insert"
        BY <1>1, <3>1 DEF ClaimInv, ClaimExclusive, Claimed, ClaimPCs
      <3> QED BY <3>2 DEF StartsOwn
    <2>5. FirstOwner'
      <3> SUFFICES ASSUME disk.kind = "global" PROVE \A s \in Rows' : fromUser'[s] = disk.of
        BY <1>1, <2>2 DEF FirstOwner
      <3>1. from[w] = dbOwner
        BY <1>1, <1>3 DEF FirstInv, StartsOwn
      <3>2. PendingRows = {}
        BY <1>1, <1>3, InsertsAlone
      <3>3. dbOwner = disk.of
        BY <1>3, <3>2, FirstOwns
      <3>4. fromUser'[t] = disk.of /\ \A s \in Rows : s # t => fromUser'[s] = fromUser[s]
        BY <2>1, <3>1, <3>3 DEF TypeInv, TypeOK, Rows
      <3> QED BY <1>3, <2>2, <3>4 DEF FirstInv, FirstOwner
    <2> QED BY <2>3, <2>4, <2>5 DEF FirstInv
  <1> QED BY <1>2, <1>3

LEMMA FirstNext ==
  ASSUME "edit" \notin Ops, "restart" \notin Ops, "deleteUser" \notin Ops, "staleOwner" \notin Ops,
         TypeInv, ClaimInv, NewestInv, NoUserLeaves, AgentInv, SlotInv, FirstInv, [Next]_vars
  PROVE  FirstInv'
  <1> USE DEF Step, Goto, Call, Return, Idle, NothingMoves
  <1>1. ASSUME NEW w \in Workers, Initiating(w) PROVE FirstInv'
    <2>1. CASE Insert(w)
      BY <2>1, FirstInserts
    <2>2. CASE Claim(w)
      <3>1. UNCHANGED <<users, dbOwner, fromUser, status, dbServer, disk>>
        BY <2>2 DEF Claim, db, agent
      <3>2. \A v \in Workers : pc'[v] = "insert" =>
              (pc[v] = "insert" /\ from'[v] = from[v]) \/ from'[v] = dbOwner
        BY <2>2 DEF Claim, OwnerUnmoved, TypeInv, TypeOK
      <3>3. Rows' = Rows
        BY <3>1 DEF Rows
      <3> QED BY <3>1, <3>2, <3>3 DEF FirstInv, UsersStay, StartsOwn, FirstOwner, NewestExists, Latest
    <2>3. CASE ~Insert(w) /\ ~Claim(w)
      <3>1. UNCHANGED <<users, dbOwner, fromUser, status, dbServer, disk>>
        BY <1>1, <2>3 DEF Initiating, BatchMove, Retry, SetOwner, Publish, Announce, Unclaim, Push,
           SendForward, SendApply, db, agent
      <3>2. \A v \in Workers : pc'[v] = "insert" => pc[v] = "insert" /\ from'[v] = from[v]
        BY <1>1, <2>3 DEF Initiating, BatchMove, Retry, SetOwner, Publish, Announce, Unclaim, Push, worker,
           TypeInv, TypeOK
      <3> QED BY <3>1, <3>2, FirstKept DEF Rows
    <2> QED BY <2>1, <2>2, <2>3
  <1>2. ASSUME NEW w \in Workers, Reverting(w) PROVE FirstInv'
    <2>1. UNCHANGED <<users, fromUser, dbServer, disk>> /\ Rows' = Rows
      BY <1>2 DEF Reverting, StartRevert, RevertRow, RestoreOwner, DropPending, HealPending,
         RegisterRevertDelivery, RegisterTerminalSecretRecovery, PushRevert, SendRevert, SendApply, db,
         agent, Rows, StillPending, TypeInv, TypeOK, NamesTransfer
    <2>2. \A v \in Workers : pc'[v] = "insert" => pc[v] = "insert" /\ from'[v] = from[v]
      BY <1>2 DEF Reverting, StartRevert, RevertRow, RestoreOwner, DropPending, HealPending,
         RegisterRevertDelivery, RegisterTerminalSecretRecovery, PushRevert, worker, TypeInv, TypeOK
    <2>3. CASE UNCHANGED dbOwner
      BY <2>1, <2>2, <2>3, FirstKept
    <2>4. CASE status[tid[w]] = "Pending" /\ tid[w] \in Transfers /\ dbServer
      <3>1. Rows # {} /\ PendingRows # {}
        BY <2>4 DEF Rows, PendingRows
      <3>2. \A v \in Workers : pc[v] # "insert"
        BY <2>4, <3>1, InsertsAlone
      <3> QED BY <2>1, <2>2, <3>1, <3>2 DEF FirstInv, UsersStay, StartsOwn, FirstOwner, NewestExists, Latest
    <2>5. \/ UNCHANGED dbOwner
          \/ status[tid[w]] = "Pending" /\ tid[w] \in Transfers /\ dbServer
      BY <1>2 DEF Reverting, StartRevert, RevertRow, RestoreOwner, DropPending, HealPending,
         RegisterRevertDelivery, RegisterTerminalSecretRecovery, PushRevert, db, StillPending,
         TypeInv, NamesTransfer
    <2> QED BY <2>3, <2>4, <2>5
  <1>3. ASSUME NEW w \in Workers, Deleting(w) PROVE FirstInv'
    <2>1. UNCHANGED <<users, dbOwner, fromUser, disk>> /\ (dbServer' => dbServer)
      BY <1>3 DEF Deleting, DeleteServer, OnServersDeletedRows, OnServersDeletedSlots, DeleteCached,
         DeleteUser, OnUsersDeletedRows, OnUsersDeletedSlots, DeleteUserRow, CancelRows, NoUserLeaves, db,
         agent
    <2>2. Rows' = Rows
      BY <1>3 DEF Deleting, DeleteServer, OnServersDeletedRows, OnServersDeletedSlots, DeleteCached,
         DeleteUser, OnUsersDeletedRows, OnUsersDeletedSlots, DeleteUserRow, CancelRows, NoUserLeaves, db,
         Rows, RowsOfServer, PendingRows
    <2>3. \A v \in Workers : pc'[v] = "insert" => pc[v] = "insert" /\ from'[v] = from[v]
      BY <1>3 DEF Deleting, DeleteServer, OnServersDeletedRows, OnServersDeletedSlots, DeleteCached,
         DeleteUser, OnUsersDeletedRows, OnUsersDeletedSlots, DeleteUserRow, CancelRows, NoUserLeaves,
         TypeInv, TypeOK
    <2> QED BY <2>1, <2>2, <2>3, FirstKept
  <1>4. ASSUME NEW c \in Clients, Authenticating(c) PROVE FirstInv'
    <2>1. UNCHANGED <<users, dbOwner, fromUser, dbServer, disk, pc, from>>
      BY <1>4 DEF Authenticating, AuthStart, AuthPending, MarkVerified, AuthRecovery, AckRow, Promote,
         AuthVerified, AuthGlobal, AuthOwner, AuthOwnerPending, AuthForeign, AuthForeignPending,
         Attach, OnAgentReconnect, PushOnReconnect, SendForward, SendRevert, SendApply, db, worker, agent
    <2>2. Rows' = Rows
      BY <1>4 DEF Authenticating, AuthStart, AuthPending, MarkVerified, AuthRecovery, AckRow, Promote,
         AuthVerified, AuthGlobal, AuthOwner, AuthOwnerPending, AuthForeign, AuthForeignPending,
         Attach, OnAgentReconnect, PushOnReconnect, db, Rows, TypeInv, TypeOK
    <2> QED BY <2>1, <2>2, FirstKept
  <1>5. ASSUME NEW u \in Users, Controlling(u) PROVE FirstInv'
    BY <1>5, FirstKept
       DEF Controlling, BeginServerControl, RegisterStream, EndControl, CloseStream, db, worker, agent, Rows
  <1>6. CASE AgentReload
    BY <1>6, FirstKept DEF AgentReload, AgentInv, ReloadOfTransfer, db, worker, Rows
  <1>7. CASE AgentDrop \/ Expire \/ PruneRecovery \/ UNCHANGED vars
    BY <1>7, FirstKept DEF AgentDrop, Expire, PruneRecovery, vars, db, worker, agent, Rows
  <1> QED BY <1>1, <1>2, <1>3, <1>4, <1>5, <1>6, <1>7 DEF Next, Restart, Editing

LEMMA AgentAdmits ==
  ASSUME TypeInv, OnePendingRow, DeletionInv, RowsNameUsers, RowsApart, KnownRows, NewestInv, SlotReverted,
         AgentInv, SlotInv, FirstInv, OwnerCoherent, IndexCoherent
  PROVE  AgentAdmissible
  <1> SUFFICES ASSUME Quiet, memServer, \A t \in Transfers : fresh[t], ~SlotTaken(disk)
               PROVE  Admits(disk)
    BY DEF AgentAdmissible
  <1>1. dbServer /\ SlotHolds /\ VerifiedHolds
    BY DEF DeletionInv, DeletionRuns, DeletionPCs, Quiet, SlotInv, Idle
  <1>2. \A t : ~Reverter(t)
    BY DEF Reverter, SlotPCs, Quiet, Idle
  <1>3. memOwner = dbOwner /\ pending \in Latest(PendingRows)
    BY <1>1 DEF OwnerCoherent, IndexCoherent
  <1>4. \A t \in PendingRows : pending = t
    BY <1>3 DEF Latest, OnePendingRow
  <1>5. Rank(disk) \in Nat /\ Rank(verified) \in Nat /\ Rank(verified) <= Rank(disk)
    BY RankIsNat DEF TypeInv, TypeOK, AgentInv, LongTermHeld
  <1>6. ASSUME NEW t \in Transfers, status[t] = "Reverted", Rank(disk) <= 2 * t, verified # Revert(t),
               \A s \in Above(t) : status[s] # "Reverted"
        PROVE  recovery = t
    BY <1>1, <1>2, <1>6 DEF SlotHolds
  <1>7. ASSUME NEW t \in Transfers, disk = Forward(t) PROVE Admits(disk)
    <2>1. disk.kind = "forward" /\ disk.of = t /\ Rank(disk) = 2 * t - 1 /\ t \in Nat
      BY <1>7, RankOfForward, NumbersAssumption DEF Forward, Transfers
    <2>2. t \in Rows
      BY <1>7 DEF KnownRows, Known, Sent
    <2>3. CASE status[t] = "Pending"
      <3>1. pending = t
        BY <1>4, <2>3 DEF PendingRows
      <3> QED BY <1>7, <2>3, <3>1, ZeroIsNoTransfer DEF Admits
    <2>4. CASE status[t] = "Verified"
      <3>1. verified = Forward(t)
        BY <1>1, <2>1, <2>4 DEF VerifiedHolds
      <3> QED BY <1>7, <3>1 DEF Admits
    <2>5. CASE status[t] = "Reverted"
      <3>1. verified # Revert(t)
        BY <1>5, <2>1, RankOfRevert
      <3>2. CASE disk = verified
        BY <3>2 DEF Admits
      <3>3. CASE disk # verified
        <4>1. \A s \in Above(t) : status[s] # "Reverted"
          BY <2>1, <2>5, <3>3 DEF SlotTaken, Above
        <4>2. recovery = t
          BY <1>6, <2>1, <2>5, <3>1, <4>1
        <4> QED BY <1>7, <4>2, ZeroIsNoTransfer DEF Admits
      <3> QED BY <3>2, <3>3
    <2> QED BY <2>2, <2>3, <2>4, <2>5 DEF Rows, TypeInv, TypeOK
  <1>8. ASSUME NEW t \in Transfers, disk = Revert(t) PROVE Admits(disk)
    <2>1. disk.kind = "revert" /\ disk.of = t /\ Rank(disk) = 2 * t /\ t \in Nat
      BY <1>8, RankOfRevert, NumbersAssumption DEF Revert, Transfers
    <2>2. status[t] = "Reverted"
      BY <1>8 DEF AgentInv, RollbackRows, RollbackKnown, RollbackSent
    <2>3. CASE disk = verified
      BY <2>3 DEF Admits
    <2>4. CASE disk # verified
      <3>1. \A s \in Above(t) : status[s] # "Reverted"
        BY <2>1, <2>2, <2>4 DEF SlotTaken, Above
      <3>2. recovery = t
        BY <1>6, <1>8, <2>1, <2>2, <2>4, <3>1
      <3> QED BY <1>8, <3>2, ZeroIsNoTransfer DEF Admits
    <2> QED BY <2>3, <2>4
  <1>9. ASSUME NEW u \in Users, disk = Global(u) PROVE Admits(disk)
    <2>1. disk.kind = "global" /\ disk.of = u /\ u \in users
      BY <1>9 DEF Global, FirstInv, UsersStay
    <2>2. CASE PendingRows = {}
      <3>1. pending = NoTransfer
        BY <1>3, <2>2 DEF Latest
      <3>2. memOwner = u
        BY <1>1, <1>3, <2>1, <2>2, FirstOwns
      <3> QED BY <2>1, <3>1, <3>2 DEF Admits
    <2>3. ASSUME NEW t \in PendingRows PROVE Admits(disk)
      <3>1. pending = t /\ t \in Transfers /\ t \in Rows /\ status[t] = "Pending"
        BY <1>4 DEF PendingRows, Rows
      <3>2. fromUser[t] = u
        BY <1>1, <2>1, <3>1 DEF FirstInv, FirstOwner
      <3>3. dbOwner = toUser[t]
        <4>1. t \in Latest(Rows) \ {NoTransfer}
          BY <3>1, ZeroIsNoTransfer DEF NewestInv, PendingNewest
        <4> QED BY <1>1, <3>1, <4>1 DEF NewestInv, NewestRowDecidesOwner
      <3>4. toUser[t] # fromUser[t]
        BY <3>1, UserAssumption DEF RowsApart, RowsNameUsers
      <3> QED BY <1>3, <2>1, <3>1, <3>2, <3>3, <3>4, ZeroIsNoTransfer DEF Admits
    <2> QED BY <2>2, <2>3
  <1> QED BY <1>7, <1>8, <1>9 DEF Secrets, TypeInv, TypeOK, AgentInv, DiskHeld

(* The agent is admitted whenever no handler is at work, with its first      *)
(* secret, the secret of a pending, verified or rolled back transfer, and    *)
(* whatever was in its file when it was away: what the index forgets is      *)
(* older than what the agent has. Only a second rollback takes the slot of   *)
(* a first one away. Within one life of the process, for requests that start *)
(* from the owner of the moment, and without edits of the row, deletions of  *)
(* users and a Cancel that overtakes its own Register.                       *)
THEOREM AgentStaysAdmissible ==
  ASSUME "edit" \notin Ops, "restart" \notin Ops, "cancelEarly" \notin Ops, "deleteUser" \notin Ops,
         "staleOwner" \notin Ops
  PROVE  Spec => []AgentAdmissible
  <1> DEFINE Rest == /\ TypeInv /\ ClaimInv /\ LockInv /\ RollbackInv /\ CredentialInv /\ PartiesInv
                     /\ DeletionInv /\ RevertsPublished /\ NoUserLeaves /\ NewestInv /\ HeldOutInv
                     /\ StaleInv
             Inv == Rest /\ AgentInv /\ SlotInv /\ FirstInv
  <1>1. Init => Inv
    BY TypeInit, ClaimInit, LockInit, RollbackInit, CredentialInit, PartiesInit, DeletionInit,
       PublishedInit, StayInit, NewestInit, HeldOutInit, StaleInit, AgentInit, SlotInit, FirstInit
  <1>2. Rest /\ [Next]_vars => Rest'
    BY TypeNext, ClaimNext, LockNext, RollbackNext, CredentialNext, PartiesNext, DeletionNext,
       PublishedNext, StayNext, NewestNext, HeldOutNext, StaleNext
  <1>3. Inv /\ [Next]_vars => AgentInv' /\ SlotInv' /\ FirstInv'
    BY AgentNext, SlotNext, FirstNext
  <1>4. Inv /\ [Next]_vars => Inv'
    BY <1>2, <1>3
  <1>5. Inv /\ OwnerCoherent /\ IndexCoherent => AgentAdmissible
    BY AgentAdmits DEF ClaimInv, PartiesInv, CredentialInv, HeldOutInv, StaleInv
  <1>6. Spec => []OwnerCoherent /\ []IndexCoherent
    BY OwnersAgree, IndexAgrees
  <1> QED BY <1>1, <1>4, <1>5, <1>6, PTL DEF Spec

=============================================================================
