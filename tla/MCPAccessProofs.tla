--------------------------- MODULE MCPAccessProofs ---------------------------
(* Theorems about MCPAccess and their proofs.                                *)
EXTENDS MCPAccess, TLAPS

(* What a change of the switch has ended by the time it is at each of its    *)
(* steps, and what the table of calls and its sweep leave between them.      *)
SwitchInv ==
    /\ IF enabled THEN change \in {"none", "enabling"}
       ELSE change \in {"none", "disabling", "purge", "revoke", "cancel"}
    /\ ~enabled /\ change \in {"none", "cancel"} => \A r \in streams : redeem[r] = "created"
CallInv ==
    /\ \A c \in Calls : call[c] \in {"stored", "sending", "waiting"} =>
          c \in inflight \cup swept /\ c \notin claimed
    /\ \A c \in claimed : call[c] \in {"claimed", "ok"}
    /\ ~enabled /\ change = "none" =>
          \A c \in Calls : call[c] \in {"sending", "waiting"} => c \in swept

(* A URL leaves the table with one request, and only what was minted under   *)
(* an earlier epoch has been outlived; no transfer begins under a lease.     *)
UrlInv ==
    /\ entries \subseteq Minted
    /\ \A r \in Redeemers :
          /\ redeem[r] = "off" <=> url[r] = NoUrl
          /\ url[r] # NoUrl => url[r] \in Minted \ entries
          /\ \A q \in Redeemers : url[q] = url[r] /\ url[r] # NoUrl => q = r
EpochInv ==
    /\ outlived \subseteq Minted
    /\ \A u \in Minted : minted[u] <= epoch
    /\ \A u \in outlived : minted[u] < epoch
    /\ \A r \in Redeemers : redeem[r] = "admitted" => url[r] \notin outlived

(* The save that switches MCP on does not fail; when it does, the flag goes  *)
(* back without ending what it let through in between.                       *)
EnablingIsSaved == "enabling" \notin SaveFails

LEMMA Numbers == NoUrl \notin Urls /\ MaxEpoch \in Nat /\ Admin \notin Owners
  BY MCPAssumption DEF Urls, NoUrl

LEMMA FailedSaves == EnablingIsSaved => SaveFails \subseteq {"disabling"}
  BY MCPAssumption DEF EnablingIsSaved

LEMMA InitInv == MCPInit => MCPTypeOK /\ SwitchInv /\ CallInv /\ UrlInv /\ EpochInv
  <1> SUFFICES ASSUME MCPInit PROVE MCPTypeOK /\ SwitchInv /\ CallInv /\ UrlInv /\ EpochInv
    OBVIOUS
  <1>1. MCPTypeOK
    <2>1. epoch \in 0 .. MaxEpoch /\ minted \in [Urls -> 0 .. MaxEpoch] /\ minter \in [Urls -> Minters]
      BY Numbers DEF MCPInit, Minters
    <2>2. enabled \in BOOLEAN /\ turnover \in BOOLEAN
      BY DEF MCPInit
    <2> QED BY <2>1, <2>2 DEF MCPInit, MCPTypeOK
  <1>2. SwitchInv /\ CallInv
    BY DEF MCPInit, SwitchInv, CallInv
  <1>3. UrlInv /\ EpochInv
    BY DEF MCPInit, UrlInv, EpochInv, Minted
  <1> QED BY <1>1, <1>2, <1>3

LEMMA StepTypes ==
  ASSUME MCPTypeOK, UrlInv, MCPNext
  PROVE  MCPTypeOK'
  <1>1. ASSUME NEW u \in Owners, BeginTransfer(u) PROVE MCPTypeOK'
    BY <1>1, Numbers DEF BeginTransfer, Leases, Minted, MCPTypeOK, Minted, setting, urls, redeemers,
        calls
  <1>2. ASSUME NEW u \in Owners, RollBack(u) PROVE MCPTypeOK'
    BY <1>2, Numbers DEF RollBack, Leases, MCPTypeOK, setting, urls, redeemers, calls
  <1>3. ASSUME EndTurnover PROVE MCPTypeOK'
    BY <1>3, Numbers DEF EndTurnover, MCPTypeOK, setting, urls, calls
  <1>4. ASSUME Rotated PROVE MCPTypeOK'
    BY <1>4, Numbers DEF Rotated, MCPTypeOK, setting, urls, redeemers, calls
  <1>5. ASSUME NEW b \in BOOLEAN, SetMCPEnabled(b) PROVE MCPTypeOK'
    BY <1>5, Numbers DEF SetMCPEnabled, MCPTypeOK, ownership, urls, redeemers, calls
  <1>6. ASSUME Saved PROVE MCPTypeOK'
    BY <1>6, Numbers DEF Saved, MCPTypeOK, ownership, urls, redeemers, calls
  <1>7. ASSUME SaveFailed PROVE MCPTypeOK'
    BY <1>7, Numbers DEF SaveFailed, MCPTypeOK, ownership, urls, redeemers, calls
  <1>8. ASSUME PurgeTransferEntries PROVE MCPTypeOK'
    BY <1>8, Numbers DEF PurgeTransferEntries, MCPTypeOK, ownership, redeemers, calls
  <1>9. ASSUME RevokeStreamsForPurpose PROVE MCPTypeOK'
    BY <1>9, Numbers DEF RevokeStreamsForPurpose, MCPTypeOK, ownership, urls, calls
  <1>10. ASSUME CancelAllMCPInflight PROVE MCPTypeOK'
    BY <1>10, Numbers DEF CancelAllMCPInflight, MCPTypeOK, ownership, urls, redeemers
  <1>11. ASSUME NEW u \in Urls, NEW m \in Minters, ToolCall(u, m) PROVE MCPTypeOK'
    BY <1>11, Numbers DEF ToolCall, MCPTypeOK, Minters, setting, ownership, redeemers, calls
  <1>12. ASSUME NEW u \in Urls, MintTransferToken(u) PROVE MCPTypeOK'
    BY <1>12, Numbers DEF MintTransferToken, MayControl, MCPTypeOK, setting, ownership, redeemers,
        calls
  <1>13. ASSUME NEW u \in Urls, MintRefused(u) PROVE MCPTypeOK'
    BY <1>13, Numbers DEF MintRefused, MCPTypeOK, setting, ownership, redeemers, calls
  <1>14. ASSUME NEW u \in Urls, Expire(u) PROVE MCPTypeOK'
    BY <1>14, Numbers DEF Expire, MCPTypeOK, setting, ownership, redeemers, calls
  <1>15. ASSUME NEW u \in Urls, NEW r \in Redeemers, ConsumeTransferToken(r, u) PROVE MCPTypeOK'
    BY <1>15, Numbers DEF ConsumeTransferToken, Redeem, MCPTypeOK, setting, ownership, calls
  <1>16. ASSUME NEW r \in Redeemers, RevalidateTransferEntry(r) PROVE MCPTypeOK'
    BY <1>16, Numbers DEF RevalidateTransferEntry, Redeem, MCPTypeOK, setting, ownership, urls,
        calls
  <1>17. ASSUME NEW r \in Redeemers, TransferRevokableContext(r) PROVE MCPTypeOK'
    BY <1>17, Numbers DEF TransferRevokableContext, Redeem, MCPTypeOK, setting, ownership, urls,
        calls
  <1>18. ASSUME NEW r \in Redeemers, BeginServerControl(r) PROVE MCPTypeOK'
    BY <1>18, Numbers DEF BeginServerControl, Redeem, MCPTypeOK, setting, ownership, urls, calls
  <1>19. ASSUME NEW r \in Redeemers, CreateStream(r) PROVE MCPTypeOK'
    BY <1>19, Numbers DEF CreateStream, Redeem, MCPTypeOK, UrlInv, Minted, setting, ownership, urls,
        calls
  <1>20. ASSUME NEW r \in Redeemers, Recheck(r) PROVE MCPTypeOK'
    BY <1>20, Numbers DEF Recheck, Redeem, MCPTypeOK, setting, ownership, urls, calls
  <1>21. ASSUME NEW r \in Redeemers, SendTask(r) PROVE MCPTypeOK'
    BY <1>21, Numbers DEF SendTask, Redeem, MCPTypeOK, setting, ownership, urls, calls
  <1>22. ASSUME NEW r \in Redeemers, WaitForAgent(r) PROVE MCPTypeOK'
    BY <1>22, Numbers DEF WaitForAgent, Redeem, MCPTypeOK, setting, ownership, urls, calls
  <1>23. ASSUME NEW r \in Redeemers, Refused(r) PROVE MCPTypeOK'
    BY <1>23, Numbers DEF Refused, MCPTypeOK, setting, ownership, urls, calls
  <1>24. ASSUME NEW r \in Redeemers, RelayEnds(r) PROVE MCPTypeOK'
    BY <1>24, Numbers DEF RelayEnds, Redeem, MCPTypeOK, setting, ownership, urls, calls
  <1>25. ASSUME NEW r \in Redeemers, ContextDone(r) PROVE MCPTypeOK'
    BY <1>25, Numbers DEF ContextDone, MCPTypeOK, setting, ownership, urls, calls
  <1>26. ASSUME NEW r \in Redeemers, Watcher(r) PROVE MCPTypeOK'
    BY <1>26, Numbers DEF Watcher, MCPTypeOK, setting, ownership, urls, calls
  <1>27. ASSUME DeleteToken PROVE MCPTypeOK'
    BY <1>27, Numbers DEF DeleteToken, MCPTypeOK, setting, ownership, urls, redeemers, calls
  <1>28. ASSUME RevokeToken PROVE MCPTypeOK'
    BY <1>28, Numbers DEF RevokeToken, Bound, MCPTypeOK, setting, ownership, urls, calls
  <1>29. ASSUME NEW c \in Calls, UpfrontCheck(c) PROVE MCPTypeOK'
    BY <1>29, Numbers DEF UpfrontCheck, Calling, MCPTypeOK, setting, ownership, urls, redeemers
  <1>30. ASSUME NEW c \in Calls, Store(c) PROVE MCPTypeOK'
    BY <1>30, Numbers DEF Store, Calling, MCPTypeOK, setting, ownership, urls, redeemers
  <1>31. ASSUME NEW c \in Calls, KillSwitchCheck(c) PROVE MCPTypeOK'
    BY <1>31, Numbers DEF KillSwitchCheck, Calling, MCPTypeOK, setting, ownership, urls, redeemers
  <1>32. ASSUME NEW c \in Calls, SendTaskGuarded(c) PROVE MCPTypeOK'
    BY <1>32, Numbers DEF SendTaskGuarded, Calling, MCPTypeOK, setting, ownership, urls, redeemers
  <1>33. ASSUME NEW c \in Calls, DeliverMCPResult(c) PROVE MCPTypeOK'
    BY <1>33, Numbers DEF DeliverMCPResult, MCPTypeOK, setting, ownership, urls, redeemers
  <1>34. ASSUME NEW c \in Calls, ClaimResult(c) PROVE MCPTypeOK'
    BY <1>34, Numbers DEF ClaimResult, Calling, MCPTypeOK, setting, ownership, urls, redeemers
  <1>35. ASSUME NEW c \in Calls, Return(c) PROVE MCPTypeOK'
    BY <1>35, Numbers DEF Return, MCPTypeOK, setting, ownership, urls, redeemers
  <1> QED BY <1>1, <1>2, <1>3, <1>4, <1>5, <1>6, <1>7, <1>8, <1>9, <1>10, <1>11, <1>12, <1>13,
         <1>14, <1>15, <1>16, <1>17, <1>18, <1>19, <1>20, <1>21, <1>22, <1>23, <1>24, <1>25, <1>26,
         <1>27, <1>28, <1>29, <1>30, <1>31, <1>32, <1>33, <1>34, <1>35
  DEF MCPNext, RequestStep, CallStep

LEMMA StepSwitchInv ==
  ASSUME EnablingIsSaved, MCPTypeOK, SwitchInv, MCPNext
  PROVE  SwitchInv'
  <1>1. ASSUME EndTurnover PROVE SwitchInv'
    BY <1>1 DEF EndTurnover, MCPTypeOK, SwitchInv, setting, urls, calls
  <1>2. ASSUME NEW b \in BOOLEAN, SetMCPEnabled(b) PROVE SwitchInv'
    BY <1>2 DEF SetMCPEnabled, MCPTypeOK, SwitchInv, ownership, urls, redeemers, calls
  <1>3. ASSUME Saved PROVE SwitchInv'
    BY <1>3 DEF Saved, MCPTypeOK, SwitchInv, ownership, urls, redeemers, calls
  <1>4. ASSUME SaveFailed PROVE SwitchInv'
    <2>1. change = "disabling" /\ ~enabled
      BY <1>4, EnablingIsSaved, FailedSaves DEF SaveFailed, SwitchInv, MCPTypeOK
    <2> QED BY <1>4, <2>1 DEF SaveFailed, SwitchInv, CallInv, MCPTypeOK, redeemers, calls
  <1>5. ASSUME PurgeTransferEntries PROVE SwitchInv'
    BY <1>5 DEF PurgeTransferEntries, MCPTypeOK, SwitchInv, ownership, redeemers, calls
  <1>6. ASSUME RevokeStreamsForPurpose PROVE SwitchInv'
    BY <1>6 DEF RevokeStreamsForPurpose, MCPTypeOK, SwitchInv, ownership, urls, calls
  <1>7. ASSUME CancelAllMCPInflight PROVE SwitchInv'
    BY <1>7 DEF CancelAllMCPInflight, MCPTypeOK, SwitchInv, ownership, urls, redeemers
  <1>8. ASSUME NEW u \in Urls, NEW r \in Redeemers, ConsumeTransferToken(r, u) PROVE SwitchInv'
    BY <1>8 DEF ConsumeTransferToken, Redeem, MCPTypeOK, SwitchInv, setting, ownership, calls
  <1>9. ASSUME NEW r \in Redeemers, RevalidateTransferEntry(r) PROVE SwitchInv'
    BY <1>9 DEF RevalidateTransferEntry, Redeem, MCPTypeOK, SwitchInv, setting, ownership, urls,
        calls
  <1>10. ASSUME NEW r \in Redeemers, TransferRevokableContext(r) PROVE SwitchInv'
    BY <1>10 DEF TransferRevokableContext, Redeem, MCPTypeOK, SwitchInv, setting, ownership, urls,
        calls
  <1>11. ASSUME NEW r \in Redeemers, BeginServerControl(r) PROVE SwitchInv'
    BY <1>11 DEF BeginServerControl, Redeem, MCPTypeOK, SwitchInv, setting, ownership, urls, calls
  <1>12. ASSUME NEW r \in Redeemers, CreateStream(r) PROVE SwitchInv'
    BY <1>12 DEF CreateStream, Redeem, MCPTypeOK, SwitchInv, setting, ownership, urls, calls
  <1>13. ASSUME NEW r \in Redeemers, Recheck(r) PROVE SwitchInv'
    BY <1>13 DEF Recheck, Redeem, MCPTypeOK, SwitchInv, setting, ownership, urls, calls
  <1>14. ASSUME NEW r \in Redeemers, SendTask(r) PROVE SwitchInv'
    BY <1>14 DEF SendTask, Redeem, MCPTypeOK, SwitchInv, setting, ownership, urls, calls
  <1>15. ASSUME NEW r \in Redeemers, WaitForAgent(r) PROVE SwitchInv'
    BY <1>15 DEF WaitForAgent, Redeem, MCPTypeOK, SwitchInv, setting, ownership, urls, calls
  <1>16. ASSUME NEW r \in Redeemers, Refused(r) PROVE SwitchInv'
    BY <1>16 DEF Refused, MCPTypeOK, SwitchInv, setting, ownership, urls, calls
  <1>17. ASSUME NEW r \in Redeemers, RelayEnds(r) PROVE SwitchInv'
    BY <1>17 DEF RelayEnds, Redeem, MCPTypeOK, SwitchInv, setting, ownership, urls, calls
  <1>18. ASSUME NEW r \in Redeemers, Watcher(r) PROVE SwitchInv'
    BY <1>18 DEF Watcher, MCPTypeOK, SwitchInv, setting, ownership, urls, calls
  <1>19. ASSUME \/ (\E u \in Owners : BeginTransfer(u))
           \/ (\E u \in Owners : RollBack(u))
           \/ Rotated
           \/ (\E u \in Urls, m \in Minters : ToolCall(u, m))
           \/ (\E u \in Urls : MintTransferToken(u))
           \/ (\E u \in Urls : MintRefused(u))
           \/ (\E u \in Urls : Expire(u))
           \/ (\E r \in Redeemers : ContextDone(r))
           \/ DeleteToken
           \/ RevokeToken
           \/ (\E c \in Calls : UpfrontCheck(c))
           \/ (\E c \in Calls : Store(c))
           \/ (\E c \in Calls : KillSwitchCheck(c))
           \/ (\E c \in Calls : SendTaskGuarded(c))
           \/ (\E c \in Calls : DeliverMCPResult(c))
           \/ (\E c \in Calls : ClaimResult(c))
           \/ (\E c \in Calls : Return(c))
         PROVE  UNCHANGED <<enabled, change, streams, redeem>>
    BY <1>19 DEF BeginTransfer, RollBack, Rotated, ToolCall, MintTransferToken, MintRefused, Expire,
        ContextDone, DeleteToken, RevokeToken, UpfrontCheck, Store, KillSwitchCheck,
        SendTaskGuarded, DeliverMCPResult, ClaimResult, Return, Bound, Calling, Leases, MayControl,
        Minted, setting, ownership, urls, redeemers, calls
  <1>20. ASSUME UNCHANGED <<enabled, change, streams, redeem>> PROVE SwitchInv'
    BY <1>20 DEF MCPTypeOK, SwitchInv
  <1> QED BY <1>1, <1>2, <1>3, <1>4, <1>5, <1>6, <1>7, <1>8, <1>9, <1>10, <1>11, <1>12, <1>13,
         <1>14, <1>15, <1>16, <1>17, <1>18, <1>19, <1>20
  DEF MCPNext, RequestStep, CallStep

LEMMA StepCallInv ==
  ASSUME EnablingIsSaved, MCPTypeOK, SwitchInv, CallInv, MCPNext
  PROVE  CallInv'
  <1>1. ASSUME NEW b \in BOOLEAN, SetMCPEnabled(b) PROVE CallInv'
    BY <1>1 DEF SetMCPEnabled, MCPTypeOK, SwitchInv, CallInv, ownership, urls, redeemers, calls
  <1>2. ASSUME Saved PROVE CallInv'
    BY <1>2 DEF Saved, MCPTypeOK, SwitchInv, CallInv, ownership, urls, redeemers, calls
  <1>3. ASSUME SaveFailed PROVE CallInv'
    <2>1. change = "disabling" /\ ~enabled
      BY <1>3, EnablingIsSaved, FailedSaves DEF SaveFailed, SwitchInv, MCPTypeOK
    <2> QED BY <1>3, <2>1 DEF SaveFailed, SwitchInv, CallInv, MCPTypeOK, redeemers, calls
  <1>4. ASSUME PurgeTransferEntries PROVE CallInv'
    BY <1>4 DEF PurgeTransferEntries, MCPTypeOK, SwitchInv, CallInv, ownership, redeemers, calls
  <1>5. ASSUME RevokeStreamsForPurpose PROVE CallInv'
    BY <1>5 DEF RevokeStreamsForPurpose, MCPTypeOK, SwitchInv, CallInv, ownership, urls, calls
  <1>6. ASSUME CancelAllMCPInflight PROVE CallInv'
    BY <1>6 DEF CancelAllMCPInflight, MCPTypeOK, SwitchInv, CallInv, ownership, urls, redeemers
  <1>7. ASSUME NEW c \in Calls, UpfrontCheck(c) PROVE CallInv'
    BY <1>7 DEF UpfrontCheck, Calling, MCPTypeOK, SwitchInv, CallInv, setting, ownership, urls,
        redeemers
  <1>8. ASSUME NEW c \in Calls, Store(c) PROVE CallInv'
    BY <1>8 DEF Store, Calling, MCPTypeOK, SwitchInv, CallInv, setting, ownership, urls, redeemers
  <1>9. ASSUME NEW c \in Calls, KillSwitchCheck(c) PROVE CallInv'
    BY <1>9 DEF KillSwitchCheck, Calling, MCPTypeOK, SwitchInv, CallInv, setting, ownership, urls,
        redeemers
  <1>10. ASSUME NEW c \in Calls, SendTaskGuarded(c) PROVE CallInv'
    BY <1>10 DEF SendTaskGuarded, Calling, MCPTypeOK, SwitchInv, CallInv, setting, ownership, urls,
        redeemers
  <1>11. ASSUME NEW c \in Calls, ClaimResult(c) PROVE CallInv'
    BY <1>11 DEF ClaimResult, Calling, MCPTypeOK, SwitchInv, CallInv, setting, ownership, urls,
        redeemers
  <1>12. ASSUME NEW c \in Calls, Return(c) PROVE CallInv'
    BY <1>12 DEF Return, MCPTypeOK, SwitchInv, CallInv, setting, ownership, urls, redeemers
  <1>13. ASSUME \/ (\E u \in Owners : BeginTransfer(u))
           \/ (\E u \in Owners : RollBack(u))
           \/ EndTurnover
           \/ Rotated
           \/ (\E u \in Urls, m \in Minters : ToolCall(u, m))
           \/ (\E u \in Urls : MintTransferToken(u))
           \/ (\E u \in Urls : MintRefused(u))
           \/ (\E u \in Urls : Expire(u))
           \/ (\E u \in Urls, r \in Redeemers : ConsumeTransferToken(r, u))
           \/ (\E r \in Redeemers : RevalidateTransferEntry(r))
           \/ (\E r \in Redeemers : TransferRevokableContext(r))
           \/ (\E r \in Redeemers : BeginServerControl(r))
           \/ (\E r \in Redeemers : CreateStream(r))
           \/ (\E r \in Redeemers : Recheck(r))
           \/ (\E r \in Redeemers : SendTask(r))
           \/ (\E r \in Redeemers : WaitForAgent(r))
           \/ (\E r \in Redeemers : Refused(r))
           \/ (\E r \in Redeemers : RelayEnds(r))
           \/ (\E r \in Redeemers : ContextDone(r))
           \/ (\E r \in Redeemers : Watcher(r))
           \/ DeleteToken
           \/ RevokeToken
           \/ (\E c \in Calls : DeliverMCPResult(c))
         PROVE  UNCHANGED <<enabled, change, call, inflight, swept, claimed>>
    BY <1>13 DEF BeginTransfer, RollBack, EndTurnover, Rotated, ToolCall, MintTransferToken,
        MintRefused, Expire, ConsumeTransferToken, RevalidateTransferEntry,
        TransferRevokableContext, BeginServerControl, CreateStream, Recheck, SendTask, WaitForAgent,
        Refused, RelayEnds, ContextDone, Watcher, DeleteToken, RevokeToken, DeliverMCPResult, Bound,
        Leases, MayControl, Minted, Redeem, setting, ownership, urls, redeemers, calls
  <1>14. ASSUME UNCHANGED <<enabled, change, call, inflight, swept, claimed>> PROVE CallInv'
    BY <1>14 DEF MCPTypeOK, SwitchInv, CallInv
  <1> QED BY <1>1, <1>2, <1>3, <1>4, <1>5, <1>6, <1>7, <1>8, <1>9, <1>10, <1>11, <1>12, <1>13, <1>14
  DEF MCPNext, RequestStep, CallStep

LEMMA StepUrlInv ==
  ASSUME MCPTypeOK, UrlInv, MCPNext
  PROVE  UrlInv'
  <1>1. ASSUME PurgeTransferEntries PROVE UrlInv'
    BY <1>1, Numbers DEF PurgeTransferEntries, MCPTypeOK, UrlInv, Minted, ownership, redeemers,
        calls
  <1>2. ASSUME NEW u \in Urls, NEW m \in Minters, ToolCall(u, m) PROVE UrlInv'
    BY <1>2, Numbers DEF ToolCall, MCPTypeOK, UrlInv, Minted, setting, ownership, redeemers, calls
  <1>3. ASSUME NEW u \in Urls, MintTransferToken(u) PROVE UrlInv'
    BY <1>3, Numbers DEF MintTransferToken, MayControl, MCPTypeOK, UrlInv, Minted, setting,
        ownership, redeemers, calls
  <1>4. ASSUME NEW u \in Urls, MintRefused(u) PROVE UrlInv'
    BY <1>4, Numbers DEF MintRefused, MCPTypeOK, UrlInv, Minted, setting, ownership, redeemers,
        calls
  <1>5. ASSUME NEW u \in Urls, Expire(u) PROVE UrlInv'
    BY <1>5, Numbers DEF Expire, MCPTypeOK, UrlInv, Minted, setting, ownership, redeemers, calls
  <1>6. ASSUME NEW u \in Urls, NEW r \in Redeemers, ConsumeTransferToken(r, u) PROVE UrlInv'
    BY <1>6, Numbers DEF ConsumeTransferToken, Redeem, MCPTypeOK, UrlInv, Minted, setting,
        ownership, calls
  <1>7. ASSUME NEW r \in Redeemers, RevalidateTransferEntry(r) PROVE UrlInv'
    BY <1>7, Numbers DEF RevalidateTransferEntry, Redeem, MCPTypeOK, UrlInv, Minted, setting,
        ownership, urls, calls
  <1>8. ASSUME NEW r \in Redeemers, TransferRevokableContext(r) PROVE UrlInv'
    BY <1>8, Numbers DEF TransferRevokableContext, Redeem, MCPTypeOK, UrlInv, Minted, setting,
        ownership, urls, calls
  <1>9. ASSUME NEW r \in Redeemers, BeginServerControl(r) PROVE UrlInv'
    BY <1>9, Numbers DEF BeginServerControl, Redeem, MCPTypeOK, UrlInv, Minted, setting, ownership,
        urls, calls
  <1>10. ASSUME NEW r \in Redeemers, CreateStream(r) PROVE UrlInv'
    BY <1>10, Numbers DEF CreateStream, Redeem, MCPTypeOK, UrlInv, Minted, setting, ownership, urls,
        calls
  <1>11. ASSUME NEW r \in Redeemers, Recheck(r) PROVE UrlInv'
    BY <1>11, Numbers DEF Recheck, Redeem, MCPTypeOK, UrlInv, Minted, setting, ownership, urls,
        calls
  <1>12. ASSUME NEW r \in Redeemers, SendTask(r) PROVE UrlInv'
    BY <1>12, Numbers DEF SendTask, Redeem, MCPTypeOK, UrlInv, Minted, setting, ownership, urls,
        calls
  <1>13. ASSUME NEW r \in Redeemers, WaitForAgent(r) PROVE UrlInv'
    BY <1>13, Numbers DEF WaitForAgent, Redeem, MCPTypeOK, UrlInv, Minted, setting, ownership, urls,
        calls
  <1>14. ASSUME NEW r \in Redeemers, Refused(r) PROVE UrlInv'
    BY <1>14, Numbers DEF Refused, MCPTypeOK, UrlInv, Minted, setting, ownership, urls, calls
  <1>15. ASSUME NEW r \in Redeemers, RelayEnds(r) PROVE UrlInv'
    BY <1>15, Numbers DEF RelayEnds, Redeem, MCPTypeOK, UrlInv, Minted, setting, ownership, urls,
        calls
  <1>16. ASSUME \/ (\E u \in Owners : BeginTransfer(u))
           \/ (\E u \in Owners : RollBack(u))
           \/ EndTurnover
           \/ Rotated
           \/ (\E b \in BOOLEAN : SetMCPEnabled(b))
           \/ Saved
           \/ SaveFailed
           \/ RevokeStreamsForPurpose
           \/ CancelAllMCPInflight
           \/ (\E r \in Redeemers : ContextDone(r))
           \/ (\E r \in Redeemers : Watcher(r))
           \/ DeleteToken
           \/ RevokeToken
           \/ (\E c \in Calls : UpfrontCheck(c))
           \/ (\E c \in Calls : Store(c))
           \/ (\E c \in Calls : KillSwitchCheck(c))
           \/ (\E c \in Calls : SendTaskGuarded(c))
           \/ (\E c \in Calls : DeliverMCPResult(c))
           \/ (\E c \in Calls : ClaimResult(c))
           \/ (\E c \in Calls : Return(c))
         PROVE  UNCHANGED <<mint, entries, redeem, url>>
    BY <1>16 DEF BeginTransfer, RollBack, EndTurnover, Rotated, SetMCPEnabled, Saved, SaveFailed,
        RevokeStreamsForPurpose, CancelAllMCPInflight, ContextDone, Watcher, DeleteToken,
        RevokeToken, UpfrontCheck, Store, KillSwitchCheck, SendTaskGuarded, DeliverMCPResult,
        ClaimResult, Return, Bound, Calling, Leases, Minted, setting, ownership, urls, redeemers,
        calls
  <1>17. ASSUME UNCHANGED <<mint, entries, redeem, url>> PROVE UrlInv'
    BY <1>17 DEF MCPTypeOK, UrlInv, Minted
  <1> QED BY <1>1, <1>2, <1>3, <1>4, <1>5, <1>6, <1>7, <1>8, <1>9, <1>10, <1>11, <1>12, <1>13,
         <1>14, <1>15, <1>16, <1>17
  DEF MCPNext, RequestStep, CallStep

LEMMA StepEpochInv ==
  ASSUME MCPTypeOK, UrlInv, EpochInv, MCPNext
  PROVE  EpochInv'
  <1>1. ASSUME NEW u \in Owners, BeginTransfer(u) PROVE EpochInv'
    BY <1>1, Numbers DEF BeginTransfer, Leases, Minted, MCPTypeOK, UrlInv, EpochInv, setting, urls,
        redeemers, calls
  <1>2. ASSUME NEW u \in Urls, NEW m \in Minters, ToolCall(u, m) PROVE EpochInv'
    BY <1>2, Numbers DEF ToolCall, MCPTypeOK, UrlInv, EpochInv, Minted, setting, ownership,
        redeemers, calls
  <1>3. ASSUME NEW u \in Urls, MintTransferToken(u) PROVE EpochInv'
    BY <1>3, Numbers DEF MintTransferToken, MayControl, MCPTypeOK, UrlInv, EpochInv, Minted,
        setting, ownership, redeemers, calls
  <1>4. ASSUME NEW u \in Urls, MintRefused(u) PROVE EpochInv'
    BY <1>4, Numbers DEF MintRefused, MCPTypeOK, UrlInv, EpochInv, Minted, setting, ownership,
        redeemers, calls
  <1>5. ASSUME NEW u \in Urls, NEW r \in Redeemers, ConsumeTransferToken(r, u) PROVE EpochInv'
    BY <1>5, Numbers DEF ConsumeTransferToken, Redeem, MCPTypeOK, UrlInv, EpochInv, Minted, setting,
        ownership, calls
  <1>6. ASSUME NEW r \in Redeemers, RevalidateTransferEntry(r) PROVE EpochInv'
    BY <1>6, Numbers DEF RevalidateTransferEntry, Redeem, MCPTypeOK, UrlInv, EpochInv, Minted,
        setting, ownership, urls, calls
  <1>7. ASSUME NEW r \in Redeemers, TransferRevokableContext(r) PROVE EpochInv'
    BY <1>7, Numbers DEF TransferRevokableContext, Redeem, MCPTypeOK, UrlInv, EpochInv, Minted,
        setting, ownership, urls, calls
  <1>8. ASSUME NEW r \in Redeemers, BeginServerControl(r) PROVE EpochInv'
    BY <1>8, Numbers DEF BeginServerControl, Redeem, MCPTypeOK, UrlInv, EpochInv, Minted, setting,
        ownership, urls, calls
  <1>9. ASSUME NEW r \in Redeemers, CreateStream(r) PROVE EpochInv'
    BY <1>9, Numbers DEF CreateStream, Redeem, MCPTypeOK, UrlInv, EpochInv, Minted, setting,
        ownership, urls, calls
  <1>10. ASSUME NEW r \in Redeemers, Recheck(r) PROVE EpochInv'
    BY <1>10, Numbers DEF Recheck, Redeem, MCPTypeOK, UrlInv, EpochInv, Minted, setting, ownership,
        urls, calls
  <1>11. ASSUME NEW r \in Redeemers, SendTask(r) PROVE EpochInv'
    BY <1>11, Numbers DEF SendTask, Redeem, MCPTypeOK, UrlInv, EpochInv, Minted, setting, ownership,
        urls, calls
  <1>12. ASSUME NEW r \in Redeemers, WaitForAgent(r) PROVE EpochInv'
    BY <1>12, Numbers DEF WaitForAgent, Redeem, MCPTypeOK, UrlInv, EpochInv, Minted, setting,
        ownership, urls, calls
  <1>13. ASSUME NEW r \in Redeemers, Refused(r) PROVE EpochInv'
    BY <1>13, Numbers DEF Refused, MCPTypeOK, UrlInv, EpochInv, Minted, setting, ownership, urls,
        calls
  <1>14. ASSUME NEW r \in Redeemers, RelayEnds(r) PROVE EpochInv'
    BY <1>14, Numbers DEF RelayEnds, Redeem, MCPTypeOK, UrlInv, EpochInv, Minted, setting,
        ownership, urls, calls
  <1>15. ASSUME \/ (\E u \in Owners : RollBack(u))
           \/ EndTurnover
           \/ Rotated
           \/ (\E b \in BOOLEAN : SetMCPEnabled(b))
           \/ Saved
           \/ SaveFailed
           \/ PurgeTransferEntries
           \/ RevokeStreamsForPurpose
           \/ CancelAllMCPInflight
           \/ (\E u \in Urls : Expire(u))
           \/ (\E r \in Redeemers : ContextDone(r))
           \/ (\E r \in Redeemers : Watcher(r))
           \/ DeleteToken
           \/ RevokeToken
           \/ (\E c \in Calls : UpfrontCheck(c))
           \/ (\E c \in Calls : Store(c))
           \/ (\E c \in Calls : KillSwitchCheck(c))
           \/ (\E c \in Calls : SendTaskGuarded(c))
           \/ (\E c \in Calls : DeliverMCPResult(c))
           \/ (\E c \in Calls : ClaimResult(c))
           \/ (\E c \in Calls : Return(c))
         PROVE  UNCHANGED <<mint, minted, epoch, outlived, redeem, url>>
    BY <1>15 DEF RollBack, EndTurnover, Rotated, SetMCPEnabled, Saved, SaveFailed,
        PurgeTransferEntries, RevokeStreamsForPurpose, CancelAllMCPInflight, Expire, ContextDone,
        Watcher, DeleteToken, RevokeToken, UpfrontCheck, Store, KillSwitchCheck, SendTaskGuarded,
        DeliverMCPResult, ClaimResult, Return, Bound, Calling, Leases, setting, ownership, urls,
        redeemers, calls
  <1>16. ASSUME UNCHANGED <<mint, minted, epoch, outlived, redeem, url>> PROVE EpochInv'
    BY <1>16 DEF MCPTypeOK, UrlInv, EpochInv, Minted
  <1> QED BY <1>1, <1>2, <1>3, <1>4, <1>5, <1>6, <1>7, <1>8, <1>9, <1>10, <1>11, <1>12, <1>13,
         <1>14, <1>15, <1>16
  DEF MCPNext, RequestStep, CallStep

-----------------------------------------------------------------------------
LEMMA UrlInvHolds == MCPSpec => [](MCPTypeOK /\ UrlInv /\ EpochInv)
  <1>1. MCPTypeOK /\ UrlInv /\ EpochInv /\ MCPNext => (MCPTypeOK /\ UrlInv /\ EpochInv)'
    BY StepTypes, StepUrlInv, StepEpochInv
  <1>2. MCPTypeOK /\ UrlInv /\ EpochInv /\ UNCHANGED mcpVars => (MCPTypeOK /\ UrlInv /\ EpochInv)'
    BY DEF MCPTypeOK, UrlInv, EpochInv, Minted, mcpVars, setting, ownership, urls, redeemers, calls
  <1> QED BY <1>1, <1>2, InitInv, PTL DEF MCPSpec

LEMMA SwitchInvHolds ==
  ASSUME EnablingIsSaved
  PROVE  MCPSpec => [](MCPTypeOK /\ SwitchInv /\ CallInv)
  <1>1. MCPTypeOK /\ SwitchInv /\ CallInv /\ MCPNext => (SwitchInv /\ CallInv)'
    BY EnablingIsSaved, StepSwitchInv, StepCallInv
  <1>2. SwitchInv /\ CallInv /\ UNCHANGED mcpVars => (SwitchInv /\ CallInv)'
    BY DEF SwitchInv, CallInv, mcpVars, setting, ownership, urls, redeemers, calls
  <1> QED BY <1>1, <1>2, InitInv, UrlInvHolds, PTL DEF MCPSpec

(* Every variable keeps its declared type.                                   *)
THEOREM MCPTypes == MCPSpec => []MCPTypeOK
  BY UrlInvHolds, PTL

(* For any number of requests, calls and changes of the switch, if the save  *)
(* that switches MCP on does not fail: once a PATCH that turned it off has   *)
(* returned, no stream and no call that was let through earlier is left.     *)
THEOREM SwitchEndsAccess == EnablingIsSaved => (MCPSpec => []KillSwitchComplete)
  <1> SUFFICES ASSUME EnablingIsSaved PROVE MCPSpec => []KillSwitchComplete
    OBVIOUS
  <1>1. SwitchInv /\ CallInv => KillSwitchComplete
    BY DEF SwitchInv, CallInv, KillSwitchComplete
  <1> QED BY <1>1, SwitchInvHolds, PTL

(* And no call claims an agent's result from then on.                        *)
THEOREM NoLateResult == EnablingIsSaved => (MCPSpec => NoResultAfterKill)
  <1> SUFFICES ASSUME EnablingIsSaved PROVE MCPSpec => NoResultAfterKill
    OBVIOUS
  <1>1. ASSUME CallInv, MCPNext, claimed' # claimed
        PROVE  enabled \/ change # "none"
    <2>1. PICK c \in Calls : ClaimResult(c)
      <3>1. ASSUME \/ (\E u \in Owners : BeginTransfer(u))
               \/ (\E u \in Owners : RollBack(u))
               \/ EndTurnover
               \/ Rotated
               \/ (\E b \in BOOLEAN : SetMCPEnabled(b))
               \/ Saved
               \/ SaveFailed
               \/ PurgeTransferEntries
               \/ RevokeStreamsForPurpose
               \/ CancelAllMCPInflight
               \/ (\E u \in Urls, m \in Minters : ToolCall(u, m))
               \/ (\E u \in Urls : MintTransferToken(u))
               \/ (\E u \in Urls : MintRefused(u))
               \/ (\E u \in Urls : Expire(u))
               \/ (\E u \in Urls, r \in Redeemers : ConsumeTransferToken(r, u))
               \/ (\E r \in Redeemers : RevalidateTransferEntry(r))
               \/ (\E r \in Redeemers : TransferRevokableContext(r))
               \/ (\E r \in Redeemers : BeginServerControl(r))
               \/ (\E r \in Redeemers : CreateStream(r))
               \/ (\E r \in Redeemers : Recheck(r))
               \/ (\E r \in Redeemers : SendTask(r))
               \/ (\E r \in Redeemers : WaitForAgent(r))
               \/ (\E r \in Redeemers : Refused(r))
               \/ (\E r \in Redeemers : RelayEnds(r))
               \/ (\E r \in Redeemers : ContextDone(r))
               \/ (\E r \in Redeemers : Watcher(r))
               \/ DeleteToken
               \/ RevokeToken
               \/ (\E c \in Calls : UpfrontCheck(c))
               \/ (\E c \in Calls : Store(c))
               \/ (\E c \in Calls : KillSwitchCheck(c))
               \/ (\E c \in Calls : SendTaskGuarded(c))
               \/ (\E c \in Calls : DeliverMCPResult(c))
               \/ (\E c \in Calls : Return(c))
            PROVE  claimed' = claimed
        BY <3>1 DEF BeginTransfer, RollBack, EndTurnover, Rotated, SetMCPEnabled, Saved, SaveFailed,
               PurgeTransferEntries, RevokeStreamsForPurpose, CancelAllMCPInflight,
               ToolCall, MintTransferToken, MintRefused, Expire, ConsumeTransferToken,
               RevalidateTransferEntry, TransferRevokableContext, BeginServerControl,
               CreateStream, Recheck, SendTask, WaitForAgent, Refused, RelayEnds,
               ContextDone, Watcher, DeleteToken, RevokeToken, UpfrontCheck, Store,
               KillSwitchCheck, SendTaskGuarded, DeliverMCPResult, Return, Bound,
               Calling, Leases, MayControl, Minted, Redeem, calls
      <3> QED BY <1>1, <3>1 DEF MCPNext, RequestStep, CallStep
    <2> QED BY <1>1, <2>1 DEF ClaimResult, Calling, CallInv
  <1>2. CallInv /\ [MCPNext]_mcpVars => [claimed' # claimed => enabled \/ change # "none"]_mcpVars
    BY <1>1
  <1> QED BY <1>2, SwitchInvHolds, PTL DEF MCPSpec, NoResultAfterKill

-----------------------------------------------------------------------------
(* The refinement: what a step does to the lives of the URLs.                *)

LEMMA EndsLives ==
  ASSUME mint' = mint, outlived \subseteq outlived', used' = used,
         \A u \in Urls : Redeemable(u)' => Redeemable(u)
  PROVE  URL!Ended
  BY DEF URL!Ended, Life, Minted

LEMMA StepImplements ==
  ASSUME MCPTypeOK, UrlInv, EpochInv, MCPNext
  PROVE  URL!URLNext \/ UNCHANGED URL!urlVars
  <1> SUFFICES URL!Ended \/ \E u \in Urls : URL!Minted(u) \/ URL!Opened(u)
    BY DEF URL!URLNext
  <1>1. ASSUME NEW u \in Urls, MintTransferToken(u) PROVE URL!Minted(u)
    <2>1. u \notin Minted /\ u \notin outlived /\ Minted' = Minted \cup {u}
      BY <1>1 DEF MintTransferToken, EpochInv, Minted, MCPTypeOK
    <2>2. Redeemable(u)' /\ \A v \in Urls \ {u} : Redeemable(v)' = Redeemable(v)
      BY <1>1 DEF MintTransferToken, Redeemable, redeemers
    <2>3. Life'[u] = "minted" /\ \A v \in Urls \ {u} : Life'[v] = Life[v]
      BY <1>1, <2>1, <2>2 DEF Life, MintTransferToken, ownership
    <2> QED BY <1>1, <2>1, <2>3 DEF URL!Minted, Life, MintTransferToken, redeemers
  <1>2. ASSUME NEW r \in Redeemers, CreateStream(r) PROVE \E u \in Urls : URL!Opened(u)
    <2>0. PICK u \in Urls : u = url[r]
      BY <1>2 DEF CreateStream, Redeem, UrlInv, Minted
    <2>1. u \in Minted /\ u \notin outlived /\ u \notin entries
      BY <1>2, <2>0 DEF CreateStream, Redeem, UrlInv, EpochInv, Minted
    <2>2. Redeemable(u) /\ ~Redeemable(u)' /\ \A v \in Urls \ {u} : Redeemable(v)' = Redeemable(v)
      BY <1>2, <2>0, <2>1 DEF CreateStream, Redeem, Redeemable, UrlInv, MCPTypeOK, urls
    <2>3. Minted' = Minted /\ outlived' = outlived
      BY <1>2 DEF CreateStream, Minted, urls, ownership
    <2>4. Life[u] = "minted" /\ Life'[u] = "dead" /\ \A v \in Urls \ {u} : Life'[v] = Life[v]
      BY <2>1, <2>2, <2>3 DEF Life
    <2>5. URL!Opened(u)
      BY <1>2, <2>0, <2>4 DEF URL!Opened, Life, CreateStream
    <2> QED BY <2>5
  <1>3. ASSUME NEW u \in Owners, BeginTransfer(u) PROVE URL!Ended
    BY <1>3, EndsLives DEF BeginTransfer, Redeemable, urls, redeemers
  <1>4. ASSUME PurgeTransferEntries \/ (\E u \in Urls : Expire(u)) PROVE URL!Ended
    <2>1. \A u \in Urls : Redeemable(u)' => Redeemable(u)
      BY <1>4 DEF PurgeTransferEntries, Expire, Redeemable, redeemers
    <2> QED BY <1>4, <2>1, EndsLives DEF PurgeTransferEntries, Expire, ownership, redeemers
  <1>5. ASSUME NEW u \in Urls, (\E m \in Minters : ToolCall(u, m)) \/ MintRefused(u)
        PROVE  URL!Ended
    <2>1. Minted' = Minted /\ (\A v \in Urls : Redeemable(v)' = Redeemable(v)) /\ outlived' = outlived
      BY <1>5 DEF ToolCall, MintRefused, Minted, Redeemable, MCPTypeOK, ownership, redeemers
    <2> QED BY <1>5, <2>1 DEF URL!Ended, Life, ToolCall, MintRefused, redeemers
  <1>6. ASSUME NEW r \in Redeemers, NEW u \in Urls, ConsumeTransferToken(r, u) PROVE URL!Ended
    <2>1. \A v \in Urls : Redeemable(v)' => Redeemable(v)
      BY <1>6 DEF ConsumeTransferToken, Redeem, Redeemable, MCPTypeOK
    <2> QED BY <1>6, <2>1, EndsLives DEF ConsumeTransferToken, ownership
  <1>7. ASSUME NEW r \in Redeemers,
               \/ RevalidateTransferEntry(r) \/ TransferRevokableContext(r) \/ BeginServerControl(r)
               \/ Recheck(r) \/ SendTask(r) \/ WaitForAgent(r) \/ Refused(r) \/ RelayEnds(r)
        PROVE  URL!Ended
    <2>1. /\ mint' = mint /\ outlived' = outlived /\ used' = used /\ entries' = entries /\ url' = url
          /\ \E p \in {"valid", "bound", "admitted", "checked", "sent", "relay", "done"} :
               redeem' = [redeem EXCEPT ![r] = p]
          /\ redeem'[r] \in {"valid", "bound", "admitted"} =>
               redeem[r] \in {"consumed", "valid", "bound"}
      BY <1>7 DEF RevalidateTransferEntry, TransferRevokableContext, BeginServerControl, Recheck,
                  SendTask, WaitForAgent, Refused, RelayEnds, Redeem, MCPTypeOK, ownership, urls
    <2>2. \A v \in Urls : Redeemable(v)' => Redeemable(v)
      BY <2>1 DEF Redeemable, MCPTypeOK
    <2> QED BY <2>1, <2>2, EndsLives
  <1>8. ASSUME \/ (\E u \in Owners : RollBack(u))
               \/ EndTurnover
               \/ Rotated
               \/ (\E b \in BOOLEAN : SetMCPEnabled(b))
               \/ Saved
               \/ SaveFailed
               \/ RevokeStreamsForPurpose
               \/ CancelAllMCPInflight
               \/ (\E r \in Redeemers : ContextDone(r))
               \/ (\E r \in Redeemers : Watcher(r))
               \/ DeleteToken
               \/ RevokeToken
               \/ (\E c \in Calls : UpfrontCheck(c))
               \/ (\E c \in Calls : Store(c))
               \/ (\E c \in Calls : KillSwitchCheck(c))
               \/ (\E c \in Calls : SendTaskGuarded(c))
               \/ (\E c \in Calls : DeliverMCPResult(c))
               \/ (\E c \in Calls : ClaimResult(c))
               \/ (\E c \in Calls : Return(c))
        PROVE  URL!Ended
    <2>1. UNCHANGED <<mint, outlived, entries, redeem, url, used>>
      BY <1>8 DEF RollBack, EndTurnover, Rotated, SetMCPEnabled, Saved, SaveFailed,
               RevokeStreamsForPurpose, CancelAllMCPInflight, ContextDone, Watcher,
               DeleteToken, RevokeToken, UpfrontCheck, Store, KillSwitchCheck,
               SendTaskGuarded, DeliverMCPResult, ClaimResult, Return, Bound, Calling,
               Leases, ownership, urls, redeemers
    <2>2. \A v \in Urls : Redeemable(v)' => Redeemable(v)
      BY <2>1 DEF Redeemable
    <2> QED BY <2>1, <2>2, EndsLives
  <1> QED BY <1>1, <1>2, <1>3, <1>4, <1>5, <1>6, <1>7, <1>8 DEF MCPNext, RequestStep, CallStep

(* For any number of URLs and requests: a one-time URL opens at most one     *)
(* stream, and none after the server was given away.                         *)
THEOREM UrlsAreOneTime == MCPSpec => ImplementsOneTimeURL
  <1>1. MCPInit => URL!Unused
    BY DEF MCPInit, URL!Unused, Life, Minted
  <1>2. MCPTypeOK /\ UrlInv /\ EpochInv /\ [MCPNext]_mcpVars => [URL!URLNext]_(URL!urlVars)
    <2>1. ASSUME UNCHANGED mcpVars PROVE UNCHANGED URL!urlVars
      BY <2>1 DEF mcpVars, setting, ownership, urls, redeemers, calls, URL!urlVars, Life, Minted, Redeemable
    <2> QED BY <2>1, StepImplements
  <1> QED BY <1>1, <1>2, UrlInvHolds, PTL DEF MCPSpec, ImplementsOneTimeURL, URL!OneTime
=============================================================================
