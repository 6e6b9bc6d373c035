------------------------------ MODULE MCPAccess ------------------------------
(* Remote access over MCP: the calls in flight (service/rpc/mcp_rpc.go), the *)
(* one-time URLs and the streams they open (controller/mcp_transfer*.go),    *)
(* the kill switch that ends both (controller/setting.go), and the changes   *)
(* of ownership and of the API token that they must not outlive.             *)
EXTENDS Naturals, FiniteSets

CONSTANTS
    Owners, Admin,            \* users that may own the server; an administrator
    MaxUrls, MaxRedeemers,    \* bounds: URLs minted, requests that redeem them
    MaxCalls,                 \* bound: calls
    MaxEpoch,                 \* bound: transfers
    SaveFails                 \* changes of the switch whose save may fail

ASSUME MCPAssumption ==
    /\ Owners # {} /\ Admin \notin Owners
    /\ {MaxUrls, MaxRedeemers, MaxCalls, MaxEpoch} \subseteq Nat
    /\ SaveFails \subseteq {"enabling", "disabling"}

Urls == 1 .. MaxUrls
Redeemers == 1 .. MaxRedeemers
Calls == 1 .. MaxCalls
Minters == Owners \cup {Admin}
NoUrl == 0

VARIABLES
    enabled, change,    \* Config.EnableMCP; how far a PATCH /setting has come
    ownedBy,            \* Server.UserID
    rotating,           \* the transition ServerControlTransitioning sees, or "no"
    turnover,           \* Register holds the control lock
    epoch,              \* controlEpoch of the server
    outlived,           \* history: URLs minted before a transfer that has begun
    pat,                \* the API token: "live", "deleted", "revoked"
    mint, minter, minted, \* each URL: its request, user and ControlEpoch
    entries,            \* transferEntries
    redeem, url,        \* each redeeming request: position, URL
    cancelled,          \* requests whose context the token's revocation ended
    streams,            \* redeeming requests whose IO stream is registered
    used,               \* URLs that opened a stream
    call,               \* each CallAgent
    inflight, swept, claimed, answered  \* mcpInflight and its entries

setting == <<enabled, change>>
ownership == <<ownedBy, rotating, turnover, epoch, outlived>>
urls == <<mint, minter, minted, entries>>
redeemers == <<redeem, url, cancelled, streams, used>>
calls == <<call, inflight, swept, claimed, answered>>
mcpVars == <<setting, ownership, pat, urls, redeemers, calls>>

MCPInit ==
    /\ enabled \in BOOLEAN /\ change = "none"
    /\ ownedBy \in Owners /\ rotating = "no" /\ turnover = FALSE /\ epoch = 0 /\ outlived = {}
    /\ pat = "live"
    /\ mint = [u \in Urls |-> "off"] /\ minter = [u \in Urls |-> Admin]
    /\ minted = [u \in Urls |-> 0] /\ entries = {}
    /\ redeem = [r \in Redeemers |-> "off"] /\ url = [r \in Redeemers |-> NoUrl]
    /\ cancelled = {} /\ streams = {} /\ used = {}
    /\ call = [c \in Calls |-> "off"]
    /\ inflight = {} /\ swept = {} /\ claimed = {} /\ answered = {}

-----------------------------------------------------------------------------
(* The control lease of a user's request.                                    *)

MayControl(u) == u = Admin \/ (u = ownedBy /\ rotating = "no")
Leases == {r \in Redeemers : redeem[r] \in {"admitted", "created", "checked"}}

Minted == {u \in Urls : mint[u] = "minted"}

(* Register waits for the leases, and revokes the streams before it lets go. *)
BeginTransferSameEpoch(u) ==   \* mutant: the epoch stays
    /\ ~turnover /\ Leases = {} /\ u # ownedBy /\ epoch < MaxEpoch
    /\ ownedBy' = u /\ rotating' = "transfer" /\ turnover' = TRUE /\ outlived' = outlived \cup Minted
    /\ UNCHANGED <<epoch, setting, pat, urls, redeemers, calls>>
BeginTransfer(u) ==
    /\ ~turnover /\ Leases = {} /\ u # ownedBy /\ epoch < MaxEpoch
    /\ ownedBy' = u /\ rotating' = "transfer" /\ turnover' = TRUE
    /\ epoch' = epoch + 1 /\ outlived' = outlived \cup Minted
    /\ UNCHANGED <<setting, pat, urls, redeemers, calls>>

(* A rollback gives the server back under the same lock; the epoch stays. *)
RollBack(u) ==
    /\ ~turnover /\ Leases = {} /\ rotating = "transfer" /\ u # ownedBy
    /\ ownedBy' = u /\ rotating' = "rollback" /\ turnover' = TRUE
    /\ UNCHANGED <<epoch, outlived, setting, pat, urls, redeemers, calls>>

EndTurnover ==
    /\ turnover /\ turnover' = FALSE /\ streams' = {}
    /\ UNCHANGED <<setting, ownedBy, rotating, epoch, outlived, pat, urls, redeem, url, cancelled, used, calls>>

Rotated ==
    /\ rotating # "no" /\ ~turnover /\ rotating' = "no"
    /\ UNCHANGED <<setting, ownedBy, turnover, epoch, outlived, pat, urls, redeemers, calls>>

-----------------------------------------------------------------------------
(* PATCH /setting: the flag is set, the configuration saved, and only then   *)
(* is what was admitted before ended. One request at a time goes through.    *)

SetMCPEnabled(b) ==
    /\ change = "none" /\ b # enabled
    /\ enabled' = b /\ change' = IF b THEN "enabling" ELSE "disabling"
    /\ UNCHANGED <<ownership, pat, urls, redeemers, calls>>

Saved ==
    /\ \/ change = "enabling" /\ change' = "none"
       \/ change = "disabling" /\ change' = "purge"
    /\ UNCHANGED <<enabled, ownership, pat, urls, redeemers, calls>>

(* A failed save puts the flag back and ends nothing. *)
SaveFailed ==
    /\ change \in SaveFails
    /\ enabled' = ~enabled /\ change' = "none"
    /\ UNCHANGED <<ownership, pat, urls, redeemers, calls>>

PurgeTransferEntries ==
    /\ change = "purge" /\ change' = "revoke" /\ entries' = {}
    /\ UNCHANGED <<enabled, ownership, pat, mint, minter, minted, redeemers, calls>>

RevokeStreamsForPurpose ==
    /\ change = "revoke" /\ change' = "cancel" /\ streams' = {}
    /\ UNCHANGED <<enabled, ownership, pat, urls, redeem, url, cancelled, used, calls>>

(* A call that has claimed its result is past cancelling. *)
CancelAllMCPInflight ==
    /\ change = "cancel" /\ change' = "none"
    /\ swept' = swept \cup (inflight \ claimed) /\ inflight' = {}
    /\ UNCHANGED <<enabled, ownership, pat, urls, redeemers, call, claimed, answered>>

-----------------------------------------------------------------------------
(* URLs: fs.download_url and fs.upload_url mint them.                        *)

ToolCall(u, m) ==
    /\ mint[u] = "off" /\ \A v \in Urls : v < u => mint[v] # "off"
    /\ enabled /\ pat = "live"
    /\ mint' = [mint EXCEPT ![u] = "called"] /\ minter' = [minter EXCEPT ![u] = m]
    /\ UNCHANGED <<setting, ownership, pat, minted, entries, redeemers, calls>>

(* The epoch is read, and the URL stored, under a control lease. *)
MintTransferToken(u) ==
    /\ mint[u] = "called" /\ ~turnover /\ MayControl(minter[u])
    /\ mint' = [mint EXCEPT ![u] = "minted"] /\ minted' = [minted EXCEPT ![u] = epoch]
    /\ entries' = entries \cup {u}
    /\ UNCHANGED <<setting, ownership, pat, minter, redeemers, calls>>

MintRefused(u) ==
    /\ mint[u] = "called" /\ ~turnover /\ ~MayControl(minter[u])
    /\ mint' = [mint EXCEPT ![u] = "refused"]
    /\ UNCHANGED <<setting, ownership, pat, minter, minted, entries, redeemers, calls>>

Expire(u) ==
    /\ u \in entries /\ entries' = entries \ {u}
    /\ UNCHANGED <<setting, ownership, pat, mint, minter, minted, redeemers, calls>>

-----------------------------------------------------------------------------
(* A request that redeems a URL: the download and upload handlers, and       *)
(* openFsTransferStream.                                                     *)

Redeem(r, here, there) == redeem[r] = here /\ redeem' = [redeem EXCEPT ![r] = there]

ConsumeTransferToken(r, u) ==
    /\ Redeem(r, "off", "consumed") /\ \A q \in Redeemers : q < r => redeem[q] # "off"
    /\ enabled /\ u \in entries
    /\ entries' = entries \ {u} /\ url' = [url EXCEPT ![r] = u]
    /\ UNCHANGED <<setting, ownership, pat, mint, minter, minted, cancelled, streams, used, calls>>

RevalidateTransferEntry(r) ==
    /\ Redeem(r, "consumed", "valid")
    /\ minted[url[r]] = epoch /\ enabled /\ pat = "live" /\ MayControl(minter[url[r]])
    /\ UNCHANGED <<setting, ownership, pat, urls, url, cancelled, streams, used, calls>>

(* The context joins the token's connections; a revoked token ends it. *)
TransferRevokableContext(r) ==
    /\ Redeem(r, "valid", "bound")
    /\ cancelled' = cancelled \cup {q \in {r} : pat = "revoked"}
    /\ UNCHANGED <<setting, ownership, pat, urls, url, streams, used, calls>>

(* The lease, with the epoch of the URL compared again under it. *)
BeginServerControl(r) ==
    /\ Redeem(r, "bound", "admitted") /\ enabled
    /\ ~turnover /\ MayControl(minter[url[r]]) /\ minted[url[r]] = epoch
    /\ UNCHANGED <<setting, ownership, pat, urls, url, cancelled, streams, used, calls>>

CreateStream(r) ==
    /\ Redeem(r, "admitted", "created")
    /\ streams' = streams \cup {r} /\ used' = used \cup {url[r]}
    /\ UNCHANGED <<setting, ownership, pat, urls, url, cancelled, calls>>

Recheck(r) ==
    /\ Redeem(r, "created", "checked") /\ enabled /\ r \notin cancelled
    /\ UNCHANGED <<setting, ownership, pat, urls, url, cancelled, streams, used, calls>>

SendTask(r) ==
    /\ Redeem(r, "checked", "sent")
    /\ UNCHANGED <<setting, ownership, pat, urls, url, cancelled, streams, used, calls>>

WaitForAgent(r) ==
    /\ Redeem(r, "sent", "relay") /\ r \in streams
    /\ UNCHANGED <<setting, ownership, pat, urls, url, cancelled, streams, used, calls>>

(* A check or the send fails, or the agent does not come in time.            *)
Refused(r) ==
    /\ \/ redeem[r] \in {"consumed", "valid", "admitted", "created", "checked", "sent"}
       \/ redeem[r] = "bound" /\ ~(enabled /\ turnover)
    /\ redeem' = [redeem EXCEPT ![r] = "done"] /\ streams' = streams \ {r}
    /\ UNCHANGED <<setting, ownership, pat, urls, url, cancelled, used, calls>>

(* The relay is over, by itself or because its stream was closed. *)
RelayEnds(r) ==
    /\ Redeem(r, "relay", "done") /\ streams' = streams \ {r}
    /\ UNCHANGED <<setting, ownership, pat, urls, url, cancelled, used, calls>>

(* The client leaves, or maxTransferDuration passes. *)
ContextDone(r) ==
    /\ redeem[r] \in {"bound", "admitted", "created", "checked", "sent", "relay"}
    /\ r \notin cancelled /\ cancelled' = cancelled \cup {r}
    /\ UNCHANGED <<setting, ownership, pat, urls, redeem, url, streams, used, calls>>

(* The watcher that runs beside the relay closes the stream. *)
WatcherOfHandshake(r) ==   \* mutant: the watcher ends when the agent has come
    /\ redeem[r] = "sent" /\ r \in cancelled /\ r \in streams
    /\ streams' = streams \ {r}
    /\ UNCHANGED <<setting, ownership, pat, urls, redeem, url, cancelled, used, calls>>
Watcher(r) ==
    /\ redeem[r] = "relay" /\ r \in cancelled /\ r \in streams
    /\ streams' = streams \ {r}
    /\ UNCHANGED <<setting, ownership, pat, urls, redeem, url, cancelled, used, calls>>

-----------------------------------------------------------------------------
(* The API token is deleted, then its connections are cancelled.             *)

DeleteToken ==
    /\ pat = "live" /\ pat' = "deleted"
    /\ UNCHANGED <<setting, ownership, urls, redeemers, calls>>

Bound(r) == redeem[r] \in {"bound", "admitted", "created", "checked", "sent", "relay"}
RevokeToken ==
    /\ pat = "deleted" /\ pat' = "revoked"
    /\ cancelled' = cancelled \cup {r \in Redeemers : Bound(r)}
    /\ UNCHANGED <<setting, ownership, urls, redeem, url, streams, used, calls>>

-----------------------------------------------------------------------------
(* CallAgent.                                                                *)

Calling(c, here, there) == call[c] = here /\ call' = [call EXCEPT ![c] = there]

UpfrontCheck(c) ==
    /\ Calling(c, "off", "checked") /\ \A d \in Calls : d < c => call[d] # "off"
    /\ enabled
    /\ UNCHANGED <<setting, ownership, pat, urls, redeemers, inflight, swept, claimed, answered>>

Store(c) ==
    /\ Calling(c, "checked", "stored") /\ inflight' = inflight \cup {c}
    /\ UNCHANGED <<setting, ownership, pat, urls, redeemers, swept, claimed, answered>>

(* The switch is read again once the call can be swept. *)
SendUnchecked(c) ==   \* mutant: the second look at the switch is missing
    /\ Calling(c, "stored", "sending")
    /\ UNCHANGED <<setting, ownership, pat, urls, redeemers, inflight, swept, claimed, answered>>
KillSwitchCheck(c) ==
    /\ Calling(c, "stored", "sending") /\ enabled /\ c \notin swept
    /\ UNCHANGED <<setting, ownership, pat, urls, redeemers, inflight, swept, claimed, answered>>

SendTaskGuarded(c) ==
    /\ Calling(c, "sending", "waiting")
    /\ UNCHANGED <<setting, ownership, pat, urls, redeemers, inflight, swept, claimed, answered>>

(* A result from the agent that was asked, while the call is in the table. *)
DeliverMCPResult(c) ==
    /\ call[c] = "waiting" /\ c \in inflight /\ c \notin answered
    /\ answered' = answered \cup {c}
    /\ UNCHANGED <<setting, ownership, pat, urls, redeemers, call, inflight, swept, claimed>>

ClaimResult(c) ==
    /\ Calling(c, "waiting", "claimed") /\ c \in answered /\ c \notin swept
    /\ claimed' = claimed \cup {c}
    /\ UNCHANGED <<setting, ownership, pat, urls, redeemers, inflight, swept, answered>>

(* It returns: with the result it claimed, or because the switch was thrown, *)
(* the send failed, the time was up, or the context has ended.               *)
Return(c) ==
    /\ call[c] \in {"stored", "sending", "waiting", "claimed"}
    /\ call' = [call EXCEPT ![c] = IF @ = "claimed" THEN "ok" ELSE "failed"]
    /\ inflight' = inflight \ {c}
    /\ UNCHANGED <<setting, ownership, pat, urls, redeemers, swept, claimed, answered>>

-----------------------------------------------------------------------------
RequestStep(r) ==
    \/ RevalidateTransferEntry(r) \/ TransferRevokableContext(r) \/ BeginServerControl(r)
    \/ CreateStream(r) \/ Recheck(r) \/ SendTask(r) \/ WaitForAgent(r) \/ Refused(r)
CallStep(c) ==
    \/ UpfrontCheck(c) \/ Store(c) \/ KillSwitchCheck(c) \/ SendTaskGuarded(c)
    \/ DeliverMCPResult(c) \/ ClaimResult(c) \/ Return(c)

MCPNext ==
    \/ \E u \in Owners : BeginTransfer(u) \/ RollBack(u)
    \/ EndTurnover \/ Rotated
    \/ \E b \in BOOLEAN : SetMCPEnabled(b)
    \/ Saved \/ SaveFailed \/ PurgeTransferEntries \/ RevokeStreamsForPurpose \/ CancelAllMCPInflight
    \/ \E u \in Urls :
        \/ \E m \in Minters : ToolCall(u, m)
        \/ MintTransferToken(u) \/ MintRefused(u) \/ Expire(u)
        \/ \E r \in Redeemers : ConsumeTransferToken(r, u)
    \/ \E r \in Redeemers : RequestStep(r) \/ RelayEnds(r) \/ ContextDone(r) \/ Watcher(r)
    \/ DeleteToken \/ RevokeToken
    \/ \E c \in Calls : CallStep(c)

(* Handlers go on, critical sections end, and a relay whose stream was       *)
(* closed reads an error. An agent need not answer or finish.                *)
MCPFairness ==
    /\ WF_mcpVars(EndTurnover)
    /\ \A r \in Redeemers :
        /\ WF_mcpVars(RequestStep(r)) /\ WF_mcpVars(Watcher(r))
        /\ WF_mcpVars(r \notin streams /\ RelayEnds(r))

MCPSpec == MCPInit /\ [][MCPNext]_mcpVars /\ MCPFairness

-----------------------------------------------------------------------------
MCPTypeOK ==
    /\ enabled \in BOOLEAN /\ change \in {"none", "enabling", "disabling", "purge", "revoke", "cancel"}
    /\ ownedBy \in Owners /\ rotating \in {"no", "transfer", "rollback"} /\ turnover \in BOOLEAN
    /\ epoch \in 0 .. MaxEpoch /\ outlived \subseteq Urls
    /\ pat \in {"live", "deleted", "revoked"}
    /\ mint \in [Urls -> {"off", "called", "minted", "refused"}] /\ minter \in [Urls -> Minters]
    /\ minted \in [Urls -> 0 .. MaxEpoch] /\ entries \subseteq Urls
    /\ redeem \in [Redeemers -> {"off", "consumed", "valid", "bound", "admitted", "created",
                                 "checked", "sent", "relay", "done"}]
    /\ url \in [Redeemers -> Urls \cup {NoUrl}] /\ used \subseteq Urls
    /\ cancelled \subseteq Redeemers /\ streams \subseteq Redeemers
    /\ call \in [Calls -> {"off", "checked", "stored", "sending", "waiting", "claimed", "ok", "failed"}]
    /\ inflight \cup swept \cup claimed \cup answered \subseteq Calls

(* Once a PATCH that turned MCP off has returned, the agent is served over   *)
(* no stream and no call that the switch let through earlier is left: what   *)
(* was registered was ended, and what registered too late sees the flag.     *)
KillSwitchComplete == (~enabled /\ change = "none") =>
    /\ \A r \in streams : redeem[r] = "created"
    /\ \A c \in Calls : call[c] \in {"sending", "waiting"} => c \in swept

(* Nor does any call return an agent's result from then on, whichever of the *)
(* result, the cancellation and the deadline select happens to see.          *)
NoResultAfterKill == [][claimed' # claimed => enabled \/ change # "none"]_mcpVars

(* A transfer whose context has ended - the client left, its time is up, the *)
(* token was revoked - lets go of its request and so of its stream.          *)
TransfersEnd == \A r \in Redeemers : r \in cancelled ~> redeem[r] = "done"

(* A URL opens at most one stream, and only before the server changes hands: *)
(* the one-time URLs as OneTimeURL specifies them. A URL is alive while it   *)
(* is stored or being redeemed, and no transfer has been registered since.   *)
Redeemable(u) ==
    \/ u \in entries
    \/ \E r \in Redeemers : url[r] = u /\ redeem[r] \in {"consumed", "valid", "bound", "admitted"}
Life == [u \in Urls |->
    IF u \notin Minted THEN "none"
    ELSE IF Redeemable(u) /\ u \notin outlived THEN "minted" ELSE "dead"]
URL == INSTANCE OneTimeURL WITH URLs <- Urls, life <- Life, opened <- used
ImplementsOneTimeURL == URL!OneTime
=============================================================================
