------------------------------ MODULE IOStreams ------------------------------
(* The IO streams of one server: the registry of service/rpc/io_stream*.go,  *)
(* the requests that open them (terminal, file manager, NAT), the sessions   *)
(* that attach to them and relay bytes, the agent's connections, transfers   *)
(* that revoke them, and the API tokens that cut sessions short.             *)
EXTENDS Naturals, FiniteSets

CONSTANTS
    Owners, Admin,   \* users that may own the server, and an administrator
    MaxStreams,      \* bound: streams opened
    MaxSessions,     \* bound: user requests that attach to a stream
    MaxConns,        \* bound: IOStream calls of the agent
    Tokens,          \* API tokens
    UserCap, ServerCap  \* maxStreamsPerUser, maxStreamsPerServer

ASSUME StreamsAssumption ==
    /\ Owners # {} /\ Admin \notin Owners /\ 0 \notin Tokens
    /\ {MaxStreams, MaxSessions, MaxConns, UserCap, ServerCap} \subseteq Nat

Nobody == 0   \* no endpoint, no stream; the absence of a token
IDs == 1 .. MaxStreams
Sessions == 1 .. MaxSessions
Conns == 1 .. MaxConns
Callers == Owners \cup {Admin}
UserEnd(h) == <<"user", h>>     \* a session's WebSocket or hijacked connection
AgentEnd(a) == <<"agent", a>>   \* the wrapper of an IOStream call

VARIABLES
    registered,      \* NezhaHandler.ioStreams
    maker,           \* position of the request that opens each stream
    by, nat,         \* who opens it, and whether for NAT (creatorUserID 0)
    userIo, agentIo, \* the endpoints of each stream's ioStreamContext
    session, sstream, token, \* each session: position, stream, API token
    pipe,            \* the endpoints it copies between
    conn, cstream,   \* each call of the agent: position, stream
    closing, closed, \* endpoints detached and not yet closed; closed by Close
    broken,          \* endpoints not closed whose peer has gone away
    owner, moving,   \* Server.UserID, ServerControlTransitioning
    turning,         \* a transition holds the control lock, streams not revoked
    tstate,          \* each token: a row, deleted, revoked, tombstone expired
    cutting          \* sessions whose cancel hook revokeToken will run

registry == <<registered, maker, by, nat, userIo, agentIo>>
sessions == <<session, sstream, token, pipe>>
conns == <<conn, cstream>>
ends == <<closing, closed, broken>>
control == <<owner, moving, turning>>
tokens == <<tstate, cutting>>
streamVars == <<registry, sessions, conns, ends, control, tokens>>

StreamsInit ==
    /\ registered = {} /\ maker = [s \in IDs |-> "new"]
    /\ by = [s \in IDs |-> Admin] /\ nat = [s \in IDs |-> FALSE]
    /\ userIo = [s \in IDs |-> Nobody] /\ agentIo = userIo
    /\ session = [h \in Sessions |-> "off"] /\ sstream = [h \in Sessions |-> Nobody]
    /\ token = sstream /\ pipe = [h \in Sessions |-> {}]
    /\ conn = [a \in Conns |-> "off"] /\ cstream = [a \in Conns |-> Nobody]
    /\ closing = {} /\ closed = {} /\ broken = {}
    /\ owner \in Owners /\ moving = FALSE /\ turning = FALSE
    /\ tstate = [t \in Tokens |-> "live"] /\ cutting = {}

-----------------------------------------------------------------------------
(* Opening and detaching streams.                                            *)

Endpoints(s) == {UserEnd(h) : h \in {userIo[s]} \ {Nobody}}
                  \cup {AgentEnd(a) : a \in {agentIo[s]} \ {Nobody}}

(* The registry entries go under the mutex, their endpoints are closed after *)
(* it is released.                                                           *)
Without(io, S) == [s \in IDs |-> IF s \in S THEN Nobody ELSE io[s]]
Detach(S) ==
    /\ registered' = registered \ S
    /\ userIo' = Without(userIo, S) /\ agentIo' = Without(agentIo, S)
    /\ closing' = closing \cup UNION {Endpoints(s) : s \in registered \cap S}

Close(E) == closed' = closed \cup E /\ broken' = broken \ E

CloseEndpoint(e) ==
    /\ e \in closing
    /\ closing' = closing \ {e} /\ Close({e})
    /\ UNCHANGED <<registry, sessions, conns, control, tokens>>

Leases == {s \in IDs : maker[s] \in {"admitted", "open"}}

BeginControl(s, u, n) ==
    /\ ~turning /\ (u = Admin \/ (u = owner /\ ~moving))
    /\ maker[s] = "new" /\ \A r \in IDs : r < s => maker[r] # "new"
    /\ maker' = [maker EXCEPT ![s] = "admitted"]
    /\ by' = [by EXCEPT ![s] = u] /\ nat' = [nat EXCEPT ![s] = n]
    /\ UNCHANGED <<registered, userIo, agentIo, sessions, conns, ends, control, tokens>>

WithinCaps(s) ==
    /\ nat[s] \/ Cardinality({r \in registered : ~nat[r] /\ by[r] = by[s]}) < UserCap
    /\ Cardinality(registered) < ServerCap

CreateStream(s) ==
    /\ maker[s] = "admitted"
    /\ \/ /\ WithinCaps(s)
          /\ registered' = registered \cup {s} /\ maker' = [maker EXCEPT ![s] = "open"]
       \/ /\ ~WithinCaps(s)
          /\ maker' = [maker EXCEPT ![s] = "failed"] /\ UNCHANGED registered
    /\ UNCHANGED <<by, nat, userIo, agentIo, sessions, conns, ends, control, tokens>>

(* The agent is told, or the stream is cleaned up; then the lease ends. *)
SendTask(s) ==
    /\ maker[s] = "open"
    /\ \/ maker' = [maker EXCEPT ![s] = "told"] /\ UNCHANGED <<registered, userIo, agentIo, closing>>
       \/ maker' = [maker EXCEPT ![s] = "failed"] /\ Detach({s})
    /\ UNCHANGED <<by, nat, sessions, conns, closed, broken, control, tokens>>

-----------------------------------------------------------------------------
(* Transfers. Register and a rollback publish the new owner and revoke the   *)
(* server's streams in one critical section of the control lock, which waits *)
(* for the leases.                                                           *)

BeginTurnAtOnce(u) ==   \* mutant: leases are not waited for
    /\ ~turning /\ u # owner
    /\ owner' = u /\ moving' = TRUE /\ turning' = TRUE
    /\ UNCHANGED <<registry, sessions, conns, ends, tokens>>
BeginTurn(u) ==
    /\ ~turning /\ Leases = {} /\ u # owner
    /\ owner' = u /\ moving' = TRUE /\ turning' = TRUE
    /\ UNCHANGED <<registry, sessions, conns, ends, tokens>>

RevokeStreamsForServer ==
    /\ turning /\ turning' = FALSE
    /\ Detach(IDs)
    /\ UNCHANGED <<maker, by, nat, sessions, conns, closed, broken, owner, moving, tokens>>

(* The agent has proved the new credential, or acknowledged the rollback. *)
Settle ==
    /\ moving /\ ~turning /\ moving' = FALSE
    /\ UNCHANGED <<registry, sessions, conns, ends, owner, turning, tokens>>

-----------------------------------------------------------------------------
(* Sessions: terminalStream and fmStream, or the rest of a NAT request.      *)

StepTo(h, here, there) == session[h] = here /\ session' = [session EXCEPT ![h] = there]

(* The request is authenticated and may attach: it comes from the creator    *)
(* outside a transition, or from an administrator.                           *)
StreamAttachAllowed(h, s, t, u) ==
    /\ StepTo(h, "off", "found") /\ \A g \in Sessions : g < h => session[g] # "off"
    /\ s \in registered /\ ~nat[s] /\ (t \in Tokens => tstate[t] = "live")
    /\ u = Admin \/ (u = by[s] /\ ~moving)
    /\ sstream' = [sstream EXCEPT ![h] = s] /\ token' = [token EXCEPT ![h] = t]
    /\ UNCHANGED <<registry, pipe, conns, ends, control, tokens>>

(* A NAT request goes on to its own stream after it released its lease. *)
ServeNAT(h, s) ==
    /\ StepTo(h, "off", "ready") /\ \A g \in Sessions : g < h => session[g] # "off"
    /\ nat[s] /\ maker[s] = "told" /\ s \notin {sstream[g] : g \in Sessions}
    /\ sstream' = [sstream EXCEPT ![h] = s]
    /\ UNCHANGED <<registry, token, pipe, conns, ends, control, tokens>>

Tombstone(t) == t \in Tokens /\ tstate[t] = "revoked"

(* A connection of a revoked token is closed as it registers, and goes on. *)
RegisterUnchecked(h) ==   \* mutant: no tombstone is looked for
    /\ StepTo(h, "found", "ready")
    /\ UNCHANGED <<registry, sstream, token, pipe, conns, ends, control, tokens>>
RegisterPATConnection(h) ==
    /\ StepTo(h, "found", "ready")
    /\ Close({UserEnd(g) : g \in {x \in {h} : Tombstone(token[x])}})
    /\ UNCHANGED <<registry, sstream, token, pipe, conns, closing, control, tokens>>

UpgradeFails(h) ==   \* of the WebSocket, or of a NAT request's wrapper
    /\ StepTo(h, "found", "leave") \/ (StepTo(h, "ready", "leave") /\ nat[sstream[h]])
    /\ UNCHANGED <<registry, sstream, token, pipe, conns, ends, control, tokens>>

UserConnected(h) ==
    /\ \/ /\ sstream[h] \in registered /\ StepTo(h, "ready", "wait")
          /\ userIo' = [userIo EXCEPT ![sstream[h]] = h]
       \/ /\ sstream[h] \notin registered /\ StepTo(h, "ready", "leave") /\ UNCHANGED userIo
    /\ UNCHANGED <<registered, maker, by, nat, agentIo, sstream, token, pipe, conns, ends, control, tokens>>

(* StartStream: both endpoints, the stream revoked, or ten seconds. *)
StartStream(h) ==
    /\ sstream[h] \in registered /\ agentIo[sstream[h]] # Nobody
    /\ StepTo(h, "wait", "relay")
    /\ pipe' = [pipe EXCEPT ![h] = Endpoints(sstream[h])]
    /\ UNCHANGED <<registry, sstream, token, conns, ends, control, tokens>>

StreamRevoked(h) ==
    /\ sstream[h] \notin registered /\ StepTo(h, "wait", "leave")
    /\ UNCHANGED <<registry, sstream, token, pipe, conns, ends, control, tokens>>

StartTimeout(h) ==
    /\ sstream[h] \in registered /\ StepTo(h, "wait", "leave")
    /\ UNCHANGED <<registry, sstream, token, pipe, conns, ends, control, tokens>>

CopyEnds(h) ==
    /\ pipe[h] \cap (closed \cup broken) # {} /\ StepTo(h, "relay", "leave")
    /\ pipe' = [pipe EXCEPT ![h] = {}]
    /\ UNCHANGED <<registry, sstream, token, conns, ends, control, tokens>>

(* The deferred calls: close the own connection, leave the token registry,   *)
(* close the stream. Only the first to close it finds it.                    *)
Leave(h) ==
    /\ StepTo(h, "leave", "done")
    /\ Close({UserEnd(h)}) /\ cutting' = cutting \ {h} /\ token' = [token EXCEPT ![h] = Nobody]
    /\ Detach({sstream[h]})
    /\ UNCHANGED <<maker, by, nat, sstream, pipe, conns, control, tstate>>

(* Either side may go away on its own; the agent's handler keeps waiting. *)
PeerGone(e) ==
    /\ e \notin closing \cup closed \cup broken
    /\ \/ \E h \in Sessions : e = UserEnd(h) /\ session[h] \in {"wait", "relay"}
       \/ \E a \in Conns : e = AgentEnd(a) /\ conn[a] = "serve"
    /\ broken' = broken \cup {e}
    /\ UNCHANGED <<registry, sessions, conns, closing, closed, control, tokens>>

-----------------------------------------------------------------------------
(* IOStream, the agent's call.                                               *)

Authorized(a, s) ==
    /\ conn[a] = "off" /\ \A b \in Conns : b < a => conn[b] # "off"
    /\ s \in registered
    /\ conn' = [conn EXCEPT ![a] = "found"] /\ cstream' = [cstream EXCEPT ![a] = s]
    /\ UNCHANGED <<registry, sessions, ends, control, tokens>>

Accept(a) ==
    /\ conn' = [conn EXCEPT ![a] = "serve"]
    /\ agentIo' = [agentIo EXCEPT ![cstream[a]] = a]
    /\ UNCHANGED <<registered, maker, by, nat, userIo, sessions, cstream, ends, control, tokens>>
AgentConnectedAnyway(a) ==   \* mutant: a second agent takes the place of the first
    conn[a] = "found" /\ cstream[a] \in registered /\ Accept(a)
AgentConnected(a) ==
    conn[a] = "found" /\ cstream[a] \in registered /\ agentIo[cstream[a]] = Nobody /\ Accept(a)

(* The stream has gone, or has its agent: the wrapper is closed at once. *)
AgentRefused(a) ==
    /\ conn[a] = "found"
    /\ cstream[a] \notin registered \/ agentIo[cstream[a]] # Nobody
    /\ conn' = [conn EXCEPT ![a] = "done"] /\ Close({AgentEnd(a)})
    /\ UNCHANGED <<registry, sessions, cstream, closing, control, tokens>>

AgentReturns(a) ==   \* wrapper.Wait
    /\ conn[a] = "serve" /\ AgentEnd(a) \in closed
    /\ conn' = [conn EXCEPT ![a] = "done"]
    /\ UNCHANGED <<registry, sessions, cstream, ends, control, tokens>>

-----------------------------------------------------------------------------
(* The revocation of an API token: deleteAPIToken and its registry.          *)

DeleteToken(t) ==
    /\ tstate[t] = "live" /\ tstate' = [tstate EXCEPT ![t] = "deleted"]
    /\ UNCHANGED <<registry, sessions, conns, ends, control, cutting>>

InRegistry(t) == {h \in Sessions : token[h] = t /\ session[h] \in {"ready", "wait", "relay", "leave"}}

RevokeToken(t) ==
    /\ tstate[t] = "deleted" /\ tstate' = [tstate EXCEPT ![t] = "revoked"]
    /\ cutting' = cutting \cup InRegistry(t)
    /\ UNCHANGED <<registry, sessions, conns, ends, control>>

CancelHook(h) ==
    /\ h \in cutting /\ cutting' = cutting \ {h} /\ Close({UserEnd(h)})
    /\ UNCHANGED <<registry, sessions, conns, closing, control, tstate>>

(* Tombstones live ten minutes; a request that was authenticated before the  *)
(* row went is taken to register within them.                                *)
PruneRevoked(t) ==
    /\ tstate[t] = "revoked" /\ \A h \in Sessions : token[h] = t => session[h] # "found"
    /\ tstate' = [tstate EXCEPT ![t] = "expired"]
    /\ UNCHANGED <<registry, sessions, conns, ends, control, cutting>>

-----------------------------------------------------------------------------
SessionStep(h) ==
    \/ RegisterPATConnection(h) \/ UpgradeFails(h) \/ UserConnected(h)
    \/ StartStream(h) \/ StreamRevoked(h) \/ StartTimeout(h) \/ CopyEnds(h) \/ Leave(h)
ConnStep(a) == AgentConnected(a) \/ AgentRefused(a) \/ AgentReturns(a)

StreamsNext ==
    \/ \E s \in IDs :
        \/ \E u \in Callers, n \in BOOLEAN : BeginControl(s, u, n)
        \/ CreateStream(s) \/ SendTask(s)
        \/ \E h \in Sessions, t \in Tokens \cup {Nobody}, u \in Callers : StreamAttachAllowed(h, s, t, u)
        \/ \E h \in Sessions : ServeNAT(h, s)
        \/ \E a \in Conns : Authorized(a, s)
    \/ \E u \in Owners : BeginTurn(u)
    \/ RevokeStreamsForServer \/ Settle
    \/ \E h \in Sessions : SessionStep(h) \/ PeerGone(UserEnd(h)) \/ CancelHook(h) \/ CloseEndpoint(UserEnd(h))
    \/ \E a \in Conns : ConnStep(a) \/ PeerGone(AgentEnd(a)) \/ CloseEndpoint(AgentEnd(a))
    \/ \E t \in Tokens : DeleteToken(t) \/ RevokeToken(t) \/ PruneRevoked(t)

(* Goroutines that can go on do: handlers, the closing of what was detached, *)
(* and the copying that an ended endpoint interrupts.                        *)
StreamsFairness ==
    /\ \A h \in Sessions : WF_streamVars(SessionStep(h)) /\ WF_streamVars(CloseEndpoint(UserEnd(h)))
    /\ \A a \in Conns : WF_streamVars(ConnStep(a)) /\ WF_streamVars(CloseEndpoint(AgentEnd(a)))

StreamsSpec == StreamsInit /\ [][StreamsNext]_streamVars /\ StreamsFairness

-----------------------------------------------------------------------------
AllEnds == {UserEnd(h) : h \in Sessions} \cup {AgentEnd(a) : a \in Conns}
RegistryTypes ==
    /\ registered \subseteq IDs
    /\ maker \in [IDs -> {"new", "admitted", "open", "told", "failed"}]
    /\ by \in [IDs -> Callers] /\ nat \in [IDs -> BOOLEAN]
    /\ userIo \in [IDs -> Sessions \cup {Nobody}] /\ agentIo \in [IDs -> Conns \cup {Nobody}]
SessionTypes ==
    /\ session \in [Sessions -> {"off", "found", "ready", "wait", "relay", "leave", "done"}]
    /\ sstream \in [Sessions -> IDs \cup {Nobody}] /\ token \in [Sessions -> Tokens \cup {Nobody}]
    /\ pipe \in [Sessions -> SUBSET AllEnds]
    /\ \A h \in Sessions : session[h] # "off" => sstream[h] \in IDs
ConnTypes ==
    /\ conn \in [Conns -> {"off", "found", "serve", "done"}] /\ cstream \in [Conns -> IDs \cup {Nobody}]
    /\ \A a \in Conns : conn[a] # "off" => cstream[a] \in IDs
EndTypes == closing \subseteq AllEnds /\ closed \subseteq AllEnds /\ broken \subseteq AllEnds
ControlTypes == owner \in Owners /\ moving \in BOOLEAN /\ turning \in BOOLEAN
TokenTypes ==
    tstate \in [Tokens -> {"live", "deleted", "revoked", "expired"}] /\ cutting \subseteq Sessions
StreamsTypeOK == RegistryTypes /\ SessionTypes /\ ConnTypes /\ EndTypes /\ ControlTypes /\ TokenTypes

(* Every endpoint of the agent that a handler serves belongs to a registered *)
(* stream, or its Close is done or due: AgentConnected refuses a second      *)
(* agent and a stream that has gone, so no handler waits for a Close that    *)
(* nobody will call.                                                         *)
AgentsReleased == \A a \in Conns : conn[a] = "serve" =>
    \/ cstream[a] \in registered /\ agentIo[cstream[a]] = a
    \/ AgentEnd(a) \in closing \cup closed

(* Outside the critical section of a transition, and once the endpoints it   *)
(* detached are closed, every pipe that is open belongs to a stream that the *)
(* present owner or an administrator opened: a session that captured its     *)
(* endpoints before the transfer, or whose place in the stream was taken by  *)
(* a second session, is cut as well.                                         *)
PipesOfOwner == (~turning /\ closing = {}) =>
    \A h \in Sessions : (session[h] = "relay" /\ pipe[h] \cap closed = {}) =>
        by[sstream[h]] \in {owner, Admin}

(* Once revokeToken has walked the registry, a session that the token        *)
(* authenticated is closed or about to be, whether it had registered before, *)
(* registers later, or registers after the tombstone has expired.            *)
RevokedTokenCut == \A h \in Sessions :
    (token[h] \in Tokens /\ tstate[token[h]] \in {"revoked", "expired"}
       /\ session[h] \in {"ready", "wait", "relay"}) => h \in cutting \/ UserEnd(h) \in closed

(* A stream that was closed or revoked lets go of everybody: the sessions    *)
(* that attached to it and the agent's handler return.                       *)
SessionsEnd == \A s \in IDs : (maker[s] \in {"told", "failed"} /\ s \notin registered) ~>
    /\ \A h \in Sessions : sstream[h] = s => session[h] \in {"off", "done"}
    /\ \A a \in Conns : cstream[a] = s => conn[a] \in {"off", "done"}
=============================================================================
