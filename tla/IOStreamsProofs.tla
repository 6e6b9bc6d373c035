--------------------------- MODULE IOStreamsProofs ---------------------------
(* Theorems about IOStreams and their proofs.                                *)
EXTENDS IOStreams, TLAPS

(* Only a stream that was opened, and not cleaned up, is in the registry.    *)
MakersOpened == \A s \in registered : maker[s] \in {"open", "told"}

(* A lease ends before the owner changes, and what it opens is the owner's,  *)
(* until the transition that revokes it.                                     *)
LeasesOfOwner ==
    /\ turning => Leases = {}
    /\ \A s \in Leases : by[s] \in {owner, Admin}
    /\ ~turning => \A s \in registered : by[s] \in {owner, Admin}

(* A session that relays holds the endpoint of an agent that still is its    *)
(* stream's, or is closed, or is about to be.                                *)
RelayInv == \A h \in Sessions : session[h] = "relay" =>
    /\ maker[sstream[h]] \in {"told", "open", "failed"}
    /\ \E a \in Conns :
        /\ AgentEnd(a) \in pipe[h]
        /\ \/ sstream[h] \in registered /\ agentIo[sstream[h]] = a
           \/ AgentEnd(a) \in closing \cup closed

(* Sessions that have not begun use no token, and a tombstone outlasts the   *)
(* requests that were authenticated before it.                               *)
TokenInv == \A h \in Sessions :
    /\ session[h] = "off" => token[h] = Nobody
    /\ session[h] = "found" /\ token[h] \in Tokens => tstate[token[h]] # "expired"

StreamsInv == /\ StreamsTypeOK /\ MakersOpened /\ LeasesOfOwner /\ RelayInv /\ TokenInv
              /\ AgentsReleased /\ RevokedTokenCut

LEMMA Numbers == /\ Nobody \notin IDs /\ Nobody \notin Sessions /\ Nobody \notin Conns /\ Nobody \notin Tokens
                 /\ Admin \notin Owners /\ Owners # {}
  BY StreamsAssumption DEF Nobody, IDs, Sessions, Conns

LEMMA InitInv == StreamsInit => StreamsInv
  <1> SUFFICES ASSUME StreamsInit PROVE StreamsInv
    OBVIOUS
  <1>1. StreamsTypeOK
    BY Numbers DEF StreamsInit, StreamsTypeOK, RegistryTypes, SessionTypes, ConnTypes, EndTypes, ControlTypes, TokenTypes, Callers
  <1>2. MakersOpened /\ LeasesOfOwner /\ RelayInv /\ AgentsReleased
    BY DEF StreamsInit, MakersOpened, LeasesOfOwner, Leases, RelayInv, AgentsReleased
  <1>3. TokenInv /\ RevokedTokenCut
    BY Numbers DEF StreamsInit, TokenInv, RevokedTokenCut
  <1> QED BY <1>1, <1>2, <1>3 DEF StreamsInv

LEMMA StepRegistryTypes ==
  ASSUME StreamsTypeOK, StreamsNext
  PROVE  RegistryTypes'
  <1>1. ASSUME NEW s \in IDs, NEW u \in Callers, NEW n \in BOOLEAN, BeginControl(s, u, n)
       PROVE  RegistryTypes'
    BY <1>1, Numbers DEF BeginControl, StreamsTypeOK, RegistryTypes, Callers, sessions, conns, ends,
        control, tokens
  <1>2. ASSUME NEW s \in IDs, CreateStream(s) PROVE RegistryTypes'
    BY <1>2, Numbers DEF CreateStream, StreamsTypeOK, RegistryTypes, Callers, sessions, conns, ends,
        control, tokens
  <1>3. ASSUME NEW s \in IDs, SendTask(s) PROVE RegistryTypes'
    BY <1>3, Numbers DEF SendTask, Detach, Without, Endpoints, StreamsTypeOK, RegistryTypes,
        Callers, sessions, conns, control, tokens
  <1>4. ASSUME RevokeStreamsForServer PROVE RegistryTypes'
    BY <1>4, Numbers DEF RevokeStreamsForServer, Detach, Without, Endpoints, StreamsTypeOK,
        RegistryTypes, Callers, sessions, conns, tokens
  <1>5. ASSUME NEW h \in Sessions, UserConnected(h) PROVE RegistryTypes'
    BY <1>5, Numbers DEF UserConnected, StepTo, StreamsTypeOK, RegistryTypes, Callers, SessionTypes,
        conns, ends, control, tokens
  <1>6. ASSUME NEW h \in Sessions, Leave(h) PROVE RegistryTypes'
    BY <1>6, Numbers DEF Leave, StepTo, Close, Detach, Without, Endpoints, StreamsTypeOK,
        RegistryTypes, Callers, conns, control
  <1>7. ASSUME NEW a \in Conns, AgentConnected(a) PROVE RegistryTypes'
    BY <1>7, Numbers DEF AgentConnected, Accept, StreamsTypeOK, RegistryTypes, Callers, ConnTypes,
        sessions, ends, control, tokens
  <1>8. ASSUME \/ (\E h \in Sessions, s \in IDs, t \in Tokens \cup {Nobody}, u \in Callers : StreamAttachAllowed(h, s, t, u))
           \/ (\E h \in Sessions, s \in IDs : ServeNAT(h, s))
           \/ (\E a \in Conns, s \in IDs : Authorized(a, s))
           \/ (\E u \in Owners : BeginTurn(u))
           \/ Settle
           \/ (\E h \in Sessions : RegisterPATConnection(h))
           \/ (\E h \in Sessions : UpgradeFails(h))
           \/ (\E h \in Sessions : StartStream(h))
           \/ (\E h \in Sessions : StreamRevoked(h))
           \/ (\E h \in Sessions : StartTimeout(h))
           \/ (\E h \in Sessions : CopyEnds(h))
           \/ (\E e \in AllEnds : PeerGone(e))
           \/ (\E h \in Sessions : CancelHook(h))
           \/ (\E e \in AllEnds : CloseEndpoint(e))
           \/ (\E a \in Conns : AgentRefused(a))
           \/ (\E a \in Conns : AgentReturns(a))
           \/ (\E t \in Tokens : DeleteToken(t))
           \/ (\E t \in Tokens : RevokeToken(t))
           \/ (\E t \in Tokens : PruneRevoked(t))
         PROVE  UNCHANGED <<registered, maker, by, nat, userIo, agentIo>>
    BY <1>8 DEF StreamAttachAllowed, ServeNAT, Authorized, BeginTurn, Settle, RegisterPATConnection,
        UpgradeFails, StartStream, StreamRevoked, StartTimeout, CopyEnds, PeerGone, CancelHook,
        CloseEndpoint, AgentRefused, AgentReturns, DeleteToken, RevokeToken, PruneRevoked, Close,
        Endpoints, InRegistry, StepTo, Tombstone, registry, sessions, conns, ends, control, tokens
  <1>9. ASSUME UNCHANGED <<registered, maker, by, nat, userIo, agentIo>> PROVE RegistryTypes'
    BY <1>9 DEF StreamsTypeOK, RegistryTypes, Callers
  <1> QED BY <1>1, <1>2, <1>3, <1>4, <1>5, <1>6, <1>7, <1>8, <1>9 DEF StreamsNext, SessionStep,
         ConnStep, AllEnds

LEMMA StepSessionTypes ==
  ASSUME StreamsTypeOK, StreamsNext
  PROVE  SessionTypes'
  <1>1. ASSUME NEW h \in Sessions, NEW s \in IDs, NEW t \in Tokens \cup {Nobody}, NEW u \in Callers,
              StreamAttachAllowed(h, s, t, u)
       PROVE  SessionTypes'
    BY <1>1, Numbers DEF StreamAttachAllowed, StepTo, StreamsTypeOK, SessionTypes, AllEnds,
        registry, conns, ends, control, tokens
  <1>2. ASSUME NEW h \in Sessions, NEW s \in IDs, ServeNAT(h, s) PROVE SessionTypes'
    BY <1>2, Numbers DEF ServeNAT, StepTo, StreamsTypeOK, SessionTypes, AllEnds, registry, conns,
        ends, control, tokens
  <1>3. ASSUME NEW h \in Sessions, RegisterPATConnection(h) PROVE SessionTypes'
    BY <1>3, Numbers DEF RegisterPATConnection, StepTo, Close, Tombstone, StreamsTypeOK,
        SessionTypes, AllEnds, registry, conns, control, tokens
  <1>4. ASSUME NEW h \in Sessions, UpgradeFails(h) PROVE SessionTypes'
    BY <1>4, Numbers DEF UpgradeFails, StepTo, StreamsTypeOK, SessionTypes, AllEnds, registry,
        conns, ends, control, tokens
  <1>5. ASSUME NEW h \in Sessions, UserConnected(h) PROVE SessionTypes'
    BY <1>5, Numbers DEF UserConnected, StepTo, StreamsTypeOK, SessionTypes, AllEnds, conns, ends,
        control, tokens
  <1>6. ASSUME NEW h \in Sessions, StartStream(h) PROVE SessionTypes'
    BY <1>6, Numbers DEF StartStream, StepTo, Endpoints, StreamsTypeOK, SessionTypes, AllEnds,
        RegistryTypes, registry, conns, ends, control, tokens
  <1>7. ASSUME NEW h \in Sessions, StreamRevoked(h) PROVE SessionTypes'
    BY <1>7, Numbers DEF StreamRevoked, StepTo, StreamsTypeOK, SessionTypes, AllEnds, registry,
        conns, ends, control, tokens
  <1>8. ASSUME NEW h \in Sessions, StartTimeout(h) PROVE SessionTypes'
    BY <1>8, Numbers DEF StartTimeout, StepTo, StreamsTypeOK, SessionTypes, AllEnds, registry,
        conns, ends, control, tokens
  <1>9. ASSUME NEW h \in Sessions, CopyEnds(h) PROVE SessionTypes'
    BY <1>9, Numbers DEF CopyEnds, StepTo, StreamsTypeOK, SessionTypes, AllEnds, registry, conns,
        ends, control, tokens
  <1>10. ASSUME NEW h \in Sessions, Leave(h) PROVE SessionTypes'
    BY <1>10, Numbers DEF Leave, StepTo, Close, Detach, Without, Endpoints, StreamsTypeOK,
        SessionTypes, AllEnds, conns, control
  <1>11. ASSUME \/ (\E s \in IDs, u \in Callers, n \in BOOLEAN : BeginControl(s, u, n))
           \/ (\E s \in IDs : CreateStream(s))
           \/ (\E s \in IDs : SendTask(s))
           \/ (\E a \in Conns, s \in IDs : Authorized(a, s))
           \/ (\E u \in Owners : BeginTurn(u))
           \/ RevokeStreamsForServer
           \/ Settle
           \/ (\E e \in AllEnds : PeerGone(e))
           \/ (\E h \in Sessions : CancelHook(h))
           \/ (\E e \in AllEnds : CloseEndpoint(e))
           \/ (\E a \in Conns : AgentConnected(a))
           \/ (\E a \in Conns : AgentRefused(a))
           \/ (\E a \in Conns : AgentReturns(a))
           \/ (\E t \in Tokens : DeleteToken(t))
           \/ (\E t \in Tokens : RevokeToken(t))
           \/ (\E t \in Tokens : PruneRevoked(t))
         PROVE  UNCHANGED <<session, sstream, token, pipe>>
    BY <1>11 DEF BeginControl, CreateStream, SendTask, Authorized, BeginTurn,
        RevokeStreamsForServer, Settle, PeerGone, CancelHook, CloseEndpoint, AgentConnected,
        AgentRefused, AgentReturns, DeleteToken, RevokeToken, PruneRevoked, Accept, Close, Detach,
        Endpoints, InRegistry, Without, registry, sessions, conns, ends, control, tokens
  <1>12. ASSUME UNCHANGED <<session, sstream, token, pipe>> PROVE SessionTypes'
    BY <1>12 DEF StreamsTypeOK, SessionTypes, AllEnds
  <1> QED BY <1>1, <1>2, <1>3, <1>4, <1>5, <1>6, <1>7, <1>8, <1>9, <1>10, <1>11, <1>12
  DEF StreamsNext, SessionStep, ConnStep, AllEnds

LEMMA StepConnTypes ==
  ASSUME StreamsTypeOK, StreamsNext
  PROVE  ConnTypes'
  <1>1. ASSUME NEW a \in Conns, NEW s \in IDs, Authorized(a, s) PROVE ConnTypes'
    BY <1>1, Numbers DEF Authorized, StreamsTypeOK, ConnTypes, registry, sessions, ends, control,
        tokens
  <1>2. ASSUME NEW a \in Conns, AgentConnected(a) PROVE ConnTypes'
    BY <1>2, Numbers DEF AgentConnected, Accept, StreamsTypeOK, ConnTypes, sessions, ends, control,
        tokens
  <1>3. ASSUME NEW a \in Conns, AgentRefused(a) PROVE ConnTypes'
    BY <1>3, Numbers DEF AgentRefused, Close, StreamsTypeOK, ConnTypes, registry, sessions, control,
        tokens
  <1>4. ASSUME NEW a \in Conns, AgentReturns(a) PROVE ConnTypes'
    BY <1>4, Numbers DEF AgentReturns, StreamsTypeOK, ConnTypes, registry, sessions, ends, control,
        tokens
  <1>5. ASSUME \/ (\E s \in IDs, u \in Callers, n \in BOOLEAN : BeginControl(s, u, n))
           \/ (\E s \in IDs : CreateStream(s))
           \/ (\E s \in IDs : SendTask(s))
           \/ (\E h \in Sessions, s \in IDs, t \in Tokens \cup {Nobody}, u \in Callers : StreamAttachAllowed(h, s, t, u))
           \/ (\E h \in Sessions, s \in IDs : ServeNAT(h, s))
           \/ (\E u \in Owners : BeginTurn(u))
           \/ RevokeStreamsForServer
           \/ Settle
           \/ (\E h \in Sessions : RegisterPATConnection(h))
           \/ (\E h \in Sessions : UpgradeFails(h))
           \/ (\E h \in Sessions : UserConnected(h))
           \/ (\E h \in Sessions : StartStream(h))
           \/ (\E h \in Sessions : StreamRevoked(h))
           \/ (\E h \in Sessions : StartTimeout(h))
           \/ (\E h \in Sessions : CopyEnds(h))
           \/ (\E h \in Sessions : Leave(h))
           \/ (\E e \in AllEnds : PeerGone(e))
           \/ (\E h \in Sessions : CancelHook(h))
           \/ (\E e \in AllEnds : CloseEndpoint(e))
           \/ (\E t \in Tokens : DeleteToken(t))
           \/ (\E t \in Tokens : RevokeToken(t))
           \/ (\E t \in Tokens : PruneRevoked(t))
         PROVE  UNCHANGED <<conn, cstream>>
    BY <1>5 DEF BeginControl, CreateStream, SendTask, StreamAttachAllowed, ServeNAT, BeginTurn,
        RevokeStreamsForServer, Settle, RegisterPATConnection, UpgradeFails, UserConnected,
        StartStream, StreamRevoked, StartTimeout, CopyEnds, Leave, PeerGone, CancelHook,
        CloseEndpoint, DeleteToken, RevokeToken, PruneRevoked, Close, Detach, Endpoints, InRegistry,
        StepTo, Tombstone, Without, registry, sessions, conns, ends, control, tokens
  <1>6. ASSUME UNCHANGED <<conn, cstream>> PROVE ConnTypes'
    BY <1>6 DEF StreamsTypeOK, ConnTypes
  <1> QED BY <1>1, <1>2, <1>3, <1>4, <1>5, <1>6 DEF StreamsNext, SessionStep, ConnStep, AllEnds

LEMMA StepEndTypes ==
  ASSUME StreamsTypeOK, StreamsNext
  PROVE  EndTypes'
  <1>1. ASSUME NEW s \in IDs, SendTask(s) PROVE EndTypes'
    BY <1>1, Numbers DEF SendTask, Detach, Without, Endpoints, StreamsTypeOK, EndTypes, AllEnds,
        RegistryTypes, sessions, conns, control, tokens
  <1>2. ASSUME RevokeStreamsForServer PROVE EndTypes'
    BY <1>2, Numbers DEF RevokeStreamsForServer, Detach, Without, Endpoints, StreamsTypeOK,
        EndTypes, AllEnds, RegistryTypes, sessions, conns, tokens
  <1>3. ASSUME NEW h \in Sessions, RegisterPATConnection(h) PROVE EndTypes'
    BY <1>3, Numbers DEF RegisterPATConnection, StepTo, Close, Tombstone, StreamsTypeOK, EndTypes,
        AllEnds, registry, conns, control, tokens
  <1>4. ASSUME NEW h \in Sessions, Leave(h) PROVE EndTypes'
    BY <1>4, Numbers DEF Leave, StepTo, Close, Detach, Without, Endpoints, StreamsTypeOK, EndTypes,
        AllEnds, RegistryTypes, conns, control
  <1>5. ASSUME NEW e \in AllEnds, PeerGone(e) PROVE EndTypes'
    BY <1>5, Numbers DEF PeerGone, StreamsTypeOK, EndTypes, AllEnds, registry, sessions, conns,
        control, tokens
  <1>6. ASSUME NEW h \in Sessions, CancelHook(h) PROVE EndTypes'
    BY <1>6, Numbers DEF CancelHook, Close, StreamsTypeOK, EndTypes, AllEnds, registry, sessions,
        conns, control
  <1>7. ASSUME NEW e \in AllEnds, CloseEndpoint(e) PROVE EndTypes'
    BY <1>7, Numbers DEF CloseEndpoint, Close, StreamsTypeOK, EndTypes, AllEnds, registry, sessions,
        conns, control, tokens
  <1>8. ASSUME NEW a \in Conns, AgentRefused(a) PROVE EndTypes'
    BY <1>8, Numbers DEF AgentRefused, Close, StreamsTypeOK, EndTypes, AllEnds, registry, sessions,
        control, tokens
  <1>9. ASSUME \/ (\E s \in IDs, u \in Callers, n \in BOOLEAN : BeginControl(s, u, n))
           \/ (\E s \in IDs : CreateStream(s))
           \/ (\E h \in Sessions, s \in IDs, t \in Tokens \cup {Nobody}, u \in Callers : StreamAttachAllowed(h, s, t, u))
           \/ (\E h \in Sessions, s \in IDs : ServeNAT(h, s))
           \/ (\E a \in Conns, s \in IDs : Authorized(a, s))
           \/ (\E u \in Owners : BeginTurn(u))
           \/ Settle
           \/ (\E h \in Sessions : UpgradeFails(h))
           \/ (\E h \in Sessions : UserConnected(h))
           \/ (\E h \in Sessions : StartStream(h))
           \/ (\E h \in Sessions : StreamRevoked(h))
           \/ (\E h \in Sessions : StartTimeout(h))
           \/ (\E h \in Sessions : CopyEnds(h))
           \/ (\E a \in Conns : AgentConnected(a))
           \/ (\E a \in Conns : AgentReturns(a))
           \/ (\E t \in Tokens : DeleteToken(t))
           \/ (\E t \in Tokens : RevokeToken(t))
           \/ (\E t \in Tokens : PruneRevoked(t))
         PROVE  UNCHANGED <<closing, closed, broken>>
    BY <1>9 DEF BeginControl, CreateStream, StreamAttachAllowed, ServeNAT, Authorized, BeginTurn,
        Settle, UpgradeFails, UserConnected, StartStream, StreamRevoked, StartTimeout, CopyEnds,
        AgentConnected, AgentReturns, DeleteToken, RevokeToken, PruneRevoked, Accept, Endpoints,
        InRegistry, StepTo, registry, sessions, conns, ends, control, tokens
  <1>10. ASSUME UNCHANGED <<closing, closed, broken>> PROVE EndTypes'
    BY <1>10 DEF StreamsTypeOK, EndTypes, AllEnds
  <1> QED BY <1>1, <1>2, <1>3, <1>4, <1>5, <1>6, <1>7, <1>8, <1>9, <1>10
  DEF StreamsNext, SessionStep, ConnStep, AllEnds

LEMMA StepControlTypes ==
  ASSUME StreamsTypeOK, StreamsNext
  PROVE  ControlTypes'
  <1>1. ASSUME NEW u \in Owners, BeginTurn(u) PROVE ControlTypes'
    BY <1>1, Numbers DEF BeginTurn, StreamsTypeOK, ControlTypes, registry, sessions, conns, ends,
        tokens
  <1>2. ASSUME RevokeStreamsForServer PROVE ControlTypes'
    BY <1>2, Numbers DEF RevokeStreamsForServer, Detach, Without, Endpoints, StreamsTypeOK,
        ControlTypes, sessions, conns, tokens
  <1>3. ASSUME Settle PROVE ControlTypes'
    BY <1>3, Numbers DEF Settle, StreamsTypeOK, ControlTypes, registry, sessions, conns, ends,
        tokens
  <1>4. ASSUME \/ (\E s \in IDs, u \in Callers, n \in BOOLEAN : BeginControl(s, u, n))
           \/ (\E s \in IDs : CreateStream(s))
           \/ (\E s \in IDs : SendTask(s))
           \/ (\E h \in Sessions, s \in IDs, t \in Tokens \cup {Nobody}, u \in Callers : StreamAttachAllowed(h, s, t, u))
           \/ (\E h \in Sessions, s \in IDs : ServeNAT(h, s))
           \/ (\E a \in Conns, s \in IDs : Authorized(a, s))
           \/ (\E h \in Sessions : RegisterPATConnection(h))
           \/ (\E h \in Sessions : UpgradeFails(h))
           \/ (\E h \in Sessions : UserConnected(h))
           \/ (\E h \in Sessions : StartStream(h))
           \/ (\E h \in Sessions : StreamRevoked(h))
           \/ (\E h \in Sessions : StartTimeout(h))
           \/ (\E h \in Sessions : CopyEnds(h))
           \/ (\E h \in Sessions : Leave(h))
           \/ (\E e \in AllEnds : PeerGone(e))
           \/ (\E h \in Sessions : CancelHook(h))
           \/ (\E e \in AllEnds : CloseEndpoint(e))
           \/ (\E a \in Conns : AgentConnected(a))
           \/ (\E a \in Conns : AgentRefused(a))
           \/ (\E a \in Conns : AgentReturns(a))
           \/ (\E t \in Tokens : DeleteToken(t))
           \/ (\E t \in Tokens : RevokeToken(t))
           \/ (\E t \in Tokens : PruneRevoked(t))
         PROVE  UNCHANGED <<owner, moving, turning>>
    BY <1>4 DEF BeginControl, CreateStream, SendTask, StreamAttachAllowed, ServeNAT, Authorized,
        RegisterPATConnection, UpgradeFails, UserConnected, StartStream, StreamRevoked,
        StartTimeout, CopyEnds, Leave, PeerGone, CancelHook, CloseEndpoint, AgentConnected,
        AgentRefused, AgentReturns, DeleteToken, RevokeToken, PruneRevoked, Accept, Close, Detach,
        Endpoints, InRegistry, StepTo, Tombstone, Without, registry, sessions, conns, ends, control,
        tokens
  <1>5. ASSUME UNCHANGED <<owner, moving, turning>> PROVE ControlTypes'
    BY <1>5 DEF StreamsTypeOK, ControlTypes
  <1> QED BY <1>1, <1>2, <1>3, <1>4, <1>5 DEF StreamsNext, SessionStep, ConnStep, AllEnds

LEMMA StepTokenTypes ==
  ASSUME StreamsTypeOK, StreamsNext
  PROVE  TokenTypes'
  <1>1. ASSUME NEW h \in Sessions, Leave(h) PROVE TokenTypes'
    BY <1>1, Numbers DEF Leave, StepTo, Close, Detach, Without, Endpoints, StreamsTypeOK,
        TokenTypes, conns, control
  <1>2. ASSUME NEW h \in Sessions, CancelHook(h) PROVE TokenTypes'
    BY <1>2, Numbers DEF CancelHook, Close, StreamsTypeOK, TokenTypes, registry, sessions, conns,
        control
  <1>3. ASSUME NEW t \in Tokens, DeleteToken(t) PROVE TokenTypes'
    BY <1>3, Numbers DEF DeleteToken, StreamsTypeOK, TokenTypes, registry, sessions, conns, ends,
        control
  <1>4. ASSUME NEW t \in Tokens, RevokeToken(t) PROVE TokenTypes'
    BY <1>4, Numbers DEF RevokeToken, InRegistry, StreamsTypeOK, TokenTypes, registry, sessions,
        conns, ends, control
  <1>5. ASSUME NEW t \in Tokens, PruneRevoked(t) PROVE TokenTypes'
    BY <1>5, Numbers DEF PruneRevoked, StreamsTypeOK, TokenTypes, registry, sessions, conns, ends,
        control
  <1>6. ASSUME \/ (\E s \in IDs, u \in Callers, n \in BOOLEAN : BeginControl(s, u, n))
           \/ (\E s \in IDs : CreateStream(s))
           \/ (\E s \in IDs : SendTask(s))
           \/ (\E h \in Sessions, s \in IDs, t \in Tokens \cup {Nobody}, u \in Callers : StreamAttachAllowed(h, s, t, u))
           \/ (\E h \in Sessions, s \in IDs : ServeNAT(h, s))
           \/ (\E a \in Conns, s \in IDs : Authorized(a, s))
           \/ (\E u \in Owners : BeginTurn(u))
           \/ RevokeStreamsForServer
           \/ Settle
           \/ (\E h \in Sessions : RegisterPATConnection(h))
           \/ (\E h \in Sessions : UpgradeFails(h))
           \/ (\E h \in Sessions : UserConnected(h))
           \/ (\E h \in Sessions : StartStream(h))
           \/ (\E h \in Sessions : StreamRevoked(h))
           \/ (\E h \in Sessions : StartTimeout(h))
           \/ (\E h \in Sessions : CopyEnds(h))
           \/ (\E e \in AllEnds : PeerGone(e))
           \/ (\E e \in AllEnds : CloseEndpoint(e))
           \/ (\E a \in Conns : AgentConnected(a))
           \/ (\E a \in Conns : AgentRefused(a))
           \/ (\E a \in Conns : AgentReturns(a))
         PROVE  UNCHANGED <<tstate, cutting>>
    BY <1>6 DEF BeginControl, CreateStream, SendTask, StreamAttachAllowed, ServeNAT, Authorized,
        BeginTurn, RevokeStreamsForServer, Settle, RegisterPATConnection, UpgradeFails,
        UserConnected, StartStream, StreamRevoked, StartTimeout, CopyEnds, PeerGone, CloseEndpoint,
        AgentConnected, AgentRefused, AgentReturns, Accept, Close, Detach, Endpoints, StepTo,
        Tombstone, Without, registry, sessions, conns, ends, control, tokens
  <1>7. ASSUME UNCHANGED <<tstate, cutting>> PROVE TokenTypes'
    BY <1>7 DEF StreamsTypeOK, TokenTypes
  <1> QED BY <1>1, <1>2, <1>3, <1>4, <1>5, <1>6, <1>7 DEF StreamsNext, SessionStep, ConnStep,
         AllEnds

LEMMA StepMakersOpened ==
  ASSUME StreamsTypeOK, MakersOpened, StreamsNext
  PROVE  MakersOpened'
  <1>1. ASSUME NEW s \in IDs, NEW u \in Callers, NEW n \in BOOLEAN, BeginControl(s, u, n)
       PROVE  MakersOpened'
    BY <1>1, Numbers DEF BeginControl, MakersOpened, StreamsTypeOK, RegistryTypes, sessions, conns,
        ends, control, tokens
  <1>2. ASSUME NEW s \in IDs, CreateStream(s) PROVE MakersOpened'
    BY <1>2, Numbers DEF CreateStream, MakersOpened, StreamsTypeOK, RegistryTypes, sessions, conns,
        ends, control, tokens
  <1>3. ASSUME NEW s \in IDs, SendTask(s) PROVE MakersOpened'
    BY <1>3, Numbers DEF SendTask, Detach, Without, Endpoints, MakersOpened, StreamsTypeOK,
        RegistryTypes, sessions, conns, control, tokens
  <1>4. ASSUME RevokeStreamsForServer PROVE MakersOpened'
    BY <1>4, Numbers DEF RevokeStreamsForServer, Detach, Without, Endpoints, MakersOpened,
        StreamsTypeOK, RegistryTypes, sessions, conns, tokens
  <1>5. ASSUME NEW h \in Sessions, Leave(h) PROVE MakersOpened'
    BY <1>5, Numbers DEF Leave, StepTo, Close, Detach, Without, Endpoints, MakersOpened,
        StreamsTypeOK, RegistryTypes, conns, control
  <1>6. ASSUME \/ (\E h \in Sessions, s \in IDs, t \in Tokens \cup {Nobody}, u \in Callers : StreamAttachAllowed(h, s, t, u))
           \/ (\E h \in Sessions, s \in IDs : ServeNAT(h, s))
           \/ (\E a \in Conns, s \in IDs : Authorized(a, s))
           \/ (\E u \in Owners : BeginTurn(u))
           \/ Settle
           \/ (\E h \in Sessions : RegisterPATConnection(h))
           \/ (\E h \in Sessions : UpgradeFails(h))
           \/ (\E h \in Sessions : UserConnected(h))
           \/ (\E h \in Sessions : StartStream(h))
           \/ (\E h \in Sessions : StreamRevoked(h))
           \/ (\E h \in Sessions : StartTimeout(h))
           \/ (\E h \in Sessions : CopyEnds(h))
           \/ (\E e \in AllEnds : PeerGone(e))
           \/ (\E h \in Sessions : CancelHook(h))
           \/ (\E e \in AllEnds : CloseEndpoint(e))
           \/ (\E a \in Conns : AgentConnected(a))
           \/ (\E a \in Conns : AgentRefused(a))
           \/ (\E a \in Conns : AgentReturns(a))
           \/ (\E t \in Tokens : DeleteToken(t))
           \/ (\E t \in Tokens : RevokeToken(t))
           \/ (\E t \in Tokens : PruneRevoked(t))
         PROVE  UNCHANGED <<registered, maker>>
    BY <1>6 DEF StreamAttachAllowed, ServeNAT, Authorized, BeginTurn, Settle, RegisterPATConnection,
        UpgradeFails, UserConnected, StartStream, StreamRevoked, StartTimeout, CopyEnds, PeerGone,
        CancelHook, CloseEndpoint, AgentConnected, AgentRefused, AgentReturns, DeleteToken,
        RevokeToken, PruneRevoked, Accept, Close, Endpoints, InRegistry, StepTo, Tombstone,
        registry, sessions, conns, ends, control, tokens
  <1>7. ASSUME UNCHANGED <<registered, maker>> PROVE MakersOpened'
    BY <1>7 DEF MakersOpened, StreamsTypeOK, RegistryTypes
  <1> QED BY <1>1, <1>2, <1>3, <1>4, <1>5, <1>6, <1>7 DEF StreamsNext, SessionStep, ConnStep,
         AllEnds

LEMMA StepLeasesOfOwner ==
  ASSUME StreamsTypeOK, MakersOpened, LeasesOfOwner, StreamsNext
  PROVE  LeasesOfOwner'
  <1>1. ASSUME NEW s \in IDs, NEW u \in Callers, NEW n \in BOOLEAN, BeginControl(s, u, n)
       PROVE  LeasesOfOwner'
    BY <1>1, Numbers DEF BeginControl, MakersOpened, LeasesOfOwner, Leases, StreamsTypeOK,
        RegistryTypes, ControlTypes, sessions, conns, ends, control, tokens
  <1>2. ASSUME NEW s \in IDs, CreateStream(s) PROVE LeasesOfOwner'
    BY <1>2, Numbers DEF CreateStream, MakersOpened, LeasesOfOwner, Leases, StreamsTypeOK,
        RegistryTypes, ControlTypes, sessions, conns, ends, control, tokens
  <1>3. ASSUME NEW s \in IDs, SendTask(s) PROVE LeasesOfOwner'
    BY <1>3, Numbers DEF SendTask, Detach, Without, Endpoints, MakersOpened, LeasesOfOwner, Leases,
        StreamsTypeOK, RegistryTypes, ControlTypes, sessions, conns, control, tokens
  <1>4. ASSUME NEW u \in Owners, BeginTurn(u) PROVE LeasesOfOwner'
    BY <1>4, Numbers DEF BeginTurn, MakersOpened, LeasesOfOwner, Leases, StreamsTypeOK,
        RegistryTypes, ControlTypes, registry, sessions, conns, ends, tokens
  <1>5. ASSUME RevokeStreamsForServer PROVE LeasesOfOwner'
    BY <1>5, Numbers DEF RevokeStreamsForServer, Detach, Without, Endpoints, MakersOpened,
        LeasesOfOwner, Leases, StreamsTypeOK, RegistryTypes, ControlTypes, sessions, conns, tokens
  <1>6. ASSUME NEW h \in Sessions, Leave(h) PROVE LeasesOfOwner'
    BY <1>6, Numbers DEF Leave, StepTo, Close, Detach, Without, Endpoints, MakersOpened,
        LeasesOfOwner, Leases, StreamsTypeOK, RegistryTypes, ControlTypes, conns, control
  <1>7. ASSUME \/ (\E h \in Sessions, s \in IDs, t \in Tokens \cup {Nobody}, u \in Callers : StreamAttachAllowed(h, s, t, u))
           \/ (\E h \in Sessions, s \in IDs : ServeNAT(h, s))
           \/ (\E a \in Conns, s \in IDs : Authorized(a, s))
           \/ Settle
           \/ (\E h \in Sessions : RegisterPATConnection(h))
           \/ (\E h \in Sessions : UpgradeFails(h))
           \/ (\E h \in Sessions : UserConnected(h))
           \/ (\E h \in Sessions : StartStream(h))
           \/ (\E h \in Sessions : StreamRevoked(h))
           \/ (\E h \in Sessions : StartTimeout(h))
           \/ (\E h \in Sessions : CopyEnds(h))
           \/ (\E e \in AllEnds : PeerGone(e))
           \/ (\E h \in Sessions : CancelHook(h))
           \/ (\E e \in AllEnds : CloseEndpoint(e))
           \/ (\E a \in Conns : AgentConnected(a))
           \/ (\E a \in Conns : AgentRefused(a))
           \/ (\E a \in Conns : AgentReturns(a))
           \/ (\E t \in Tokens : DeleteToken(t))
           \/ (\E t \in Tokens : RevokeToken(t))
           \/ (\E t \in Tokens : PruneRevoked(t))
         PROVE  UNCHANGED <<registered, maker, by, owner, turning>>
    BY <1>7 DEF StreamAttachAllowed, ServeNAT, Authorized, Settle, RegisterPATConnection,
        UpgradeFails, UserConnected, StartStream, StreamRevoked, StartTimeout, CopyEnds, PeerGone,
        CancelHook, CloseEndpoint, AgentConnected, AgentRefused, AgentReturns, DeleteToken,
        RevokeToken, PruneRevoked, Accept, Close, Endpoints, InRegistry, StepTo, Tombstone,
        registry, sessions, conns, ends, control, tokens
  <1>8. ASSUME UNCHANGED <<registered, maker, by, owner, turning>> PROVE LeasesOfOwner'
    BY <1>8 DEF MakersOpened, LeasesOfOwner, Leases, StreamsTypeOK, RegistryTypes, ControlTypes
  <1> QED BY <1>1, <1>2, <1>3, <1>4, <1>5, <1>6, <1>7, <1>8 DEF StreamsNext, SessionStep, ConnStep,
         AllEnds

LEMMA StepRelayInv ==
  ASSUME StreamsTypeOK, MakersOpened, RelayInv, StreamsNext
  PROVE  RelayInv'
  <1>1. ASSUME NEW s \in IDs, NEW u \in Callers, NEW n \in BOOLEAN, BeginControl(s, u, n)
       PROVE  RelayInv'
    BY <1>1, Numbers DEF BeginControl, MakersOpened, RelayInv, StreamsTypeOK, RegistryTypes,
        SessionTypes, sessions, conns, ends, control, tokens
  <1>2. ASSUME NEW s \in IDs, CreateStream(s) PROVE RelayInv'
    BY <1>2, Numbers DEF CreateStream, MakersOpened, RelayInv, StreamsTypeOK, RegistryTypes,
        SessionTypes, sessions, conns, ends, control, tokens
  <1>3. ASSUME NEW s \in IDs, SendTask(s) PROVE RelayInv'
    BY <1>3, Numbers DEF SendTask, Detach, Without, Endpoints, MakersOpened, RelayInv,
        StreamsTypeOK, RegistryTypes, SessionTypes, sessions, conns, control, tokens
  <1>4. ASSUME NEW h \in Sessions, NEW s \in IDs, NEW t \in Tokens \cup {Nobody}, NEW u \in Callers,
              StreamAttachAllowed(h, s, t, u)
       PROVE  RelayInv'
    BY <1>4, Numbers DEF StreamAttachAllowed, StepTo, MakersOpened, RelayInv, StreamsTypeOK,
        RegistryTypes, SessionTypes, registry, conns, ends, control, tokens
  <1>5. ASSUME NEW h \in Sessions, NEW s \in IDs, ServeNAT(h, s) PROVE RelayInv'
    BY <1>5, Numbers DEF ServeNAT, StepTo, MakersOpened, RelayInv, StreamsTypeOK, RegistryTypes,
        SessionTypes, registry, conns, ends, control, tokens
  <1>6. ASSUME RevokeStreamsForServer PROVE RelayInv'
    BY <1>6, Numbers DEF RevokeStreamsForServer, Detach, Without, Endpoints, MakersOpened, RelayInv,
        StreamsTypeOK, RegistryTypes, SessionTypes, sessions, conns, tokens
  <1>7. ASSUME NEW h \in Sessions, RegisterPATConnection(h) PROVE RelayInv'
    BY <1>7, Numbers DEF RegisterPATConnection, StepTo, Close, Tombstone, MakersOpened, RelayInv,
        StreamsTypeOK, RegistryTypes, SessionTypes, registry, conns, control, tokens
  <1>8. ASSUME NEW h \in Sessions, UpgradeFails(h) PROVE RelayInv'
    BY <1>8, Numbers DEF UpgradeFails, StepTo, MakersOpened, RelayInv, StreamsTypeOK, RegistryTypes,
        SessionTypes, registry, conns, ends, control, tokens
  <1>9. ASSUME NEW h \in Sessions, UserConnected(h) PROVE RelayInv'
    BY <1>9, Numbers DEF UserConnected, StepTo, MakersOpened, RelayInv, StreamsTypeOK,
        RegistryTypes, SessionTypes, conns, ends, control, tokens
  <1>10. ASSUME NEW h \in Sessions, StartStream(h) PROVE RelayInv'
    BY <1>10, Numbers DEF StartStream, StepTo, Endpoints, MakersOpened, RelayInv, StreamsTypeOK,
        RegistryTypes, SessionTypes, registry, conns, ends, control, tokens
  <1>11. ASSUME NEW h \in Sessions, StreamRevoked(h) PROVE RelayInv'
    BY <1>11, Numbers DEF StreamRevoked, StepTo, MakersOpened, RelayInv, StreamsTypeOK,
        RegistryTypes, SessionTypes, registry, conns, ends, control, tokens
  <1>12. ASSUME NEW h \in Sessions, StartTimeout(h) PROVE RelayInv'
    BY <1>12, Numbers DEF StartTimeout, StepTo, MakersOpened, RelayInv, StreamsTypeOK,
        RegistryTypes, SessionTypes, registry, conns, ends, control, tokens
  <1>13. ASSUME NEW h \in Sessions, CopyEnds(h) PROVE RelayInv'
    BY <1>13, Numbers DEF CopyEnds, StepTo, MakersOpened, RelayInv, StreamsTypeOK, RegistryTypes,
        SessionTypes, registry, conns, ends, control, tokens
  <1>14. ASSUME NEW h \in Sessions, Leave(h) PROVE RelayInv'
    BY <1>14, Numbers DEF Leave, StepTo, Close, Detach, Without, Endpoints, MakersOpened, RelayInv,
        StreamsTypeOK, RegistryTypes, SessionTypes, conns, control
  <1>15. ASSUME NEW h \in Sessions, CancelHook(h) PROVE RelayInv'
    BY <1>15, Numbers DEF CancelHook, Close, MakersOpened, RelayInv, StreamsTypeOK, RegistryTypes,
        SessionTypes, registry, sessions, conns, control
  <1>16. ASSUME NEW e \in AllEnds, CloseEndpoint(e) PROVE RelayInv'
    BY <1>16, Numbers DEF CloseEndpoint, Close, MakersOpened, RelayInv, StreamsTypeOK,
        RegistryTypes, SessionTypes, registry, sessions, conns, control, tokens
  <1>17. ASSUME NEW a \in Conns, AgentConnected(a) PROVE RelayInv'
    BY <1>17, Numbers DEF AgentConnected, Accept, MakersOpened, RelayInv, StreamsTypeOK,
        RegistryTypes, SessionTypes, sessions, ends, control, tokens
  <1>18. ASSUME NEW a \in Conns, AgentRefused(a) PROVE RelayInv'
    BY <1>18, Numbers DEF AgentRefused, Close, MakersOpened, RelayInv, StreamsTypeOK, RegistryTypes,
        SessionTypes, registry, sessions, control, tokens
  <1>19. ASSUME \/ (\E a \in Conns, s \in IDs : Authorized(a, s))
           \/ (\E u \in Owners : BeginTurn(u))
           \/ Settle
           \/ (\E e \in AllEnds : PeerGone(e))
           \/ (\E a \in Conns : AgentReturns(a))
           \/ (\E t \in Tokens : DeleteToken(t))
           \/ (\E t \in Tokens : RevokeToken(t))
           \/ (\E t \in Tokens : PruneRevoked(t))
         PROVE  UNCHANGED <<session, sstream, pipe, registered, agentIo, maker, closing, closed>>
    BY <1>19 DEF Authorized, BeginTurn, Settle, PeerGone, AgentReturns, DeleteToken, RevokeToken,
        PruneRevoked, InRegistry, registry, sessions, conns, ends, control, tokens
  <1>20. ASSUME UNCHANGED <<session, sstream, pipe, registered, agentIo, maker, closing, closed>>
       PROVE  RelayInv'
    BY <1>20 DEF MakersOpened, RelayInv, StreamsTypeOK, RegistryTypes, SessionTypes
  <1> QED BY <1>1, <1>2, <1>3, <1>4, <1>5, <1>6, <1>7, <1>8, <1>9, <1>10, <1>11, <1>12, <1>13,
         <1>14, <1>15, <1>16, <1>17, <1>18, <1>19, <1>20
  DEF StreamsNext, SessionStep, ConnStep, AllEnds

LEMMA StepAgentsReleased ==
  ASSUME StreamsTypeOK, AgentsReleased, StreamsNext
  PROVE  AgentsReleased'
  <1>1. ASSUME NEW s \in IDs, CreateStream(s) PROVE AgentsReleased'
    BY <1>1, Numbers DEF CreateStream, AgentsReleased, StreamsTypeOK, RegistryTypes, ConnTypes,
        sessions, conns, ends, control, tokens
  <1>2. ASSUME NEW s \in IDs, SendTask(s) PROVE AgentsReleased'
    BY <1>2, Numbers DEF SendTask, Detach, Without, Endpoints, AgentsReleased, StreamsTypeOK,
        RegistryTypes, ConnTypes, sessions, conns, control, tokens
  <1>3. ASSUME NEW a \in Conns, NEW s \in IDs, Authorized(a, s) PROVE AgentsReleased'
    BY <1>3, Numbers DEF Authorized, AgentsReleased, StreamsTypeOK, RegistryTypes, ConnTypes,
        registry, sessions, ends, control, tokens
  <1>4. ASSUME RevokeStreamsForServer PROVE AgentsReleased'
    BY <1>4, Numbers DEF RevokeStreamsForServer, Detach, Without, Endpoints, AgentsReleased,
        StreamsTypeOK, RegistryTypes, ConnTypes, sessions, conns, tokens
  <1>5. ASSUME NEW h \in Sessions, RegisterPATConnection(h) PROVE AgentsReleased'
    BY <1>5, Numbers DEF RegisterPATConnection, StepTo, Close, Tombstone, AgentsReleased,
        StreamsTypeOK, RegistryTypes, ConnTypes, registry, conns, control, tokens
  <1>6. ASSUME NEW h \in Sessions, Leave(h) PROVE AgentsReleased'
    BY <1>6, Numbers DEF Leave, StepTo, Close, Detach, Without, Endpoints, AgentsReleased,
        StreamsTypeOK, RegistryTypes, ConnTypes, conns, control
  <1>7. ASSUME NEW h \in Sessions, CancelHook(h) PROVE AgentsReleased'
    BY <1>7, Numbers DEF CancelHook, Close, AgentsReleased, StreamsTypeOK, RegistryTypes, ConnTypes,
        registry, sessions, conns, control
  <1>8. ASSUME NEW e \in AllEnds, CloseEndpoint(e) PROVE AgentsReleased'
    BY <1>8, Numbers DEF CloseEndpoint, Close, AgentsReleased, StreamsTypeOK, RegistryTypes,
        ConnTypes, registry, sessions, conns, control, tokens
  <1>9. ASSUME NEW a \in Conns, AgentConnected(a) PROVE AgentsReleased'
    BY <1>9, Numbers DEF AgentConnected, Accept, AgentsReleased, StreamsTypeOK, RegistryTypes,
        ConnTypes, sessions, ends, control, tokens
  <1>10. ASSUME NEW a \in Conns, AgentRefused(a) PROVE AgentsReleased'
    BY <1>10, Numbers DEF AgentRefused, Close, AgentsReleased, StreamsTypeOK, RegistryTypes,
        ConnTypes, registry, sessions, control, tokens
  <1>11. ASSUME NEW a \in Conns, AgentReturns(a) PROVE AgentsReleased'
    BY <1>11, Numbers DEF AgentReturns, AgentsReleased, StreamsTypeOK, RegistryTypes, ConnTypes,
        registry, sessions, ends, control, tokens
  <1>12. ASSUME \/ (\E s \in IDs, u \in Callers, n \in BOOLEAN : BeginControl(s, u, n))
           \/ (\E h \in Sessions, s \in IDs, t \in Tokens \cup {Nobody}, u \in Callers : StreamAttachAllowed(h, s, t, u))
           \/ (\E h \in Sessions, s \in IDs : ServeNAT(h, s))
           \/ (\E u \in Owners : BeginTurn(u))
           \/ Settle
           \/ (\E h \in Sessions : UpgradeFails(h))
           \/ (\E h \in Sessions : UserConnected(h))
           \/ (\E h \in Sessions : StartStream(h))
           \/ (\E h \in Sessions : StreamRevoked(h))
           \/ (\E h \in Sessions : StartTimeout(h))
           \/ (\E h \in Sessions : CopyEnds(h))
           \/ (\E e \in AllEnds : PeerGone(e))
           \/ (\E t \in Tokens : DeleteToken(t))
           \/ (\E t \in Tokens : RevokeToken(t))
           \/ (\E t \in Tokens : PruneRevoked(t))
         PROVE  UNCHANGED <<conn, cstream, registered, agentIo, closing, closed>>
    BY <1>12 DEF BeginControl, StreamAttachAllowed, ServeNAT, BeginTurn, Settle, UpgradeFails,
        UserConnected, StartStream, StreamRevoked, StartTimeout, CopyEnds, PeerGone, DeleteToken,
        RevokeToken, PruneRevoked, Endpoints, InRegistry, StepTo, registry, sessions, conns, ends,
        control, tokens
  <1>13. ASSUME UNCHANGED <<conn, cstream, registered, agentIo, closing, closed>>
       PROVE  AgentsReleased'
    BY <1>13 DEF AgentsReleased, StreamsTypeOK, RegistryTypes, ConnTypes
  <1> QED BY <1>1, <1>2, <1>3, <1>4, <1>5, <1>6, <1>7, <1>8, <1>9, <1>10, <1>11, <1>12, <1>13
  DEF StreamsNext, SessionStep, ConnStep, AllEnds

LEMMA StepTokenInv ==
  ASSUME StreamsTypeOK, TokenInv, StreamsNext
  PROVE  TokenInv'
  <1>1. ASSUME NEW h \in Sessions, NEW s \in IDs, NEW t \in Tokens \cup {Nobody}, NEW u \in Callers,
              StreamAttachAllowed(h, s, t, u)
       PROVE  TokenInv'
    BY <1>1, Numbers DEF StreamAttachAllowed, StepTo, TokenInv, StreamsTypeOK, SessionTypes,
        TokenTypes, registry, conns, ends, control, tokens
  <1>2. ASSUME NEW h \in Sessions, NEW s \in IDs, ServeNAT(h, s) PROVE TokenInv'
    BY <1>2, Numbers DEF ServeNAT, StepTo, TokenInv, StreamsTypeOK, SessionTypes, TokenTypes,
        registry, conns, ends, control, tokens
  <1>3. ASSUME NEW h \in Sessions, RegisterPATConnection(h) PROVE TokenInv'
    BY <1>3, Numbers DEF RegisterPATConnection, StepTo, Close, Tombstone, TokenInv, StreamsTypeOK,
        SessionTypes, TokenTypes, registry, conns, control, tokens
  <1>4. ASSUME NEW h \in Sessions, UpgradeFails(h) PROVE TokenInv'
    BY <1>4, Numbers DEF UpgradeFails, StepTo, TokenInv, StreamsTypeOK, SessionTypes, TokenTypes,
        registry, conns, ends, control, tokens
  <1>5. ASSUME NEW h \in Sessions, UserConnected(h) PROVE TokenInv'
    BY <1>5, Numbers DEF UserConnected, StepTo, TokenInv, StreamsTypeOK, SessionTypes, TokenTypes,
        conns, ends, control, tokens
  <1>6. ASSUME NEW h \in Sessions, StartStream(h) PROVE TokenInv'
    BY <1>6, Numbers DEF StartStream, StepTo, Endpoints, TokenInv, StreamsTypeOK, SessionTypes,
        TokenTypes, registry, conns, ends, control, tokens
  <1>7. ASSUME NEW h \in Sessions, StreamRevoked(h) PROVE TokenInv'
    BY <1>7, Numbers DEF StreamRevoked, StepTo, TokenInv, StreamsTypeOK, SessionTypes, TokenTypes,
        registry, conns, ends, control, tokens
  <1>8. ASSUME NEW h \in Sessions, StartTimeout(h) PROVE TokenInv'
    BY <1>8, Numbers DEF StartTimeout, StepTo, TokenInv, StreamsTypeOK, SessionTypes, TokenTypes,
        registry, conns, ends, control, tokens
  <1>9. ASSUME NEW h \in Sessions, CopyEnds(h) PROVE TokenInv'
    BY <1>9, Numbers DEF CopyEnds, StepTo, TokenInv, StreamsTypeOK, SessionTypes, TokenTypes,
        registry, conns, ends, control, tokens
  <1>10. ASSUME NEW h \in Sessions, Leave(h) PROVE TokenInv'
    BY <1>10, Numbers DEF Leave, StepTo, Close, Detach, Without, Endpoints, TokenInv, StreamsTypeOK,
        SessionTypes, TokenTypes, conns, control
  <1>11. ASSUME NEW t \in Tokens, DeleteToken(t) PROVE TokenInv'
    BY <1>11, Numbers DEF DeleteToken, TokenInv, StreamsTypeOK, SessionTypes, TokenTypes, registry,
        sessions, conns, ends, control
  <1>12. ASSUME NEW t \in Tokens, RevokeToken(t) PROVE TokenInv'
    BY <1>12, Numbers DEF RevokeToken, InRegistry, TokenInv, StreamsTypeOK, SessionTypes,
        TokenTypes, registry, sessions, conns, ends, control
  <1>13. ASSUME NEW t \in Tokens, PruneRevoked(t) PROVE TokenInv'
    BY <1>13, Numbers DEF PruneRevoked, TokenInv, StreamsTypeOK, SessionTypes, TokenTypes, registry,
        sessions, conns, ends, control
  <1>14. ASSUME \/ (\E s \in IDs, u \in Callers, n \in BOOLEAN : BeginControl(s, u, n))
           \/ (\E s \in IDs : CreateStream(s))
           \/ (\E s \in IDs : SendTask(s))
           \/ (\E a \in Conns, s \in IDs : Authorized(a, s))
           \/ (\E u \in Owners : BeginTurn(u))
           \/ RevokeStreamsForServer
           \/ Settle
           \/ (\E e \in AllEnds : PeerGone(e))
           \/ (\E h \in Sessions : CancelHook(h))
           \/ (\E e \in AllEnds : CloseEndpoint(e))
           \/ (\E a \in Conns : AgentConnected(a))
           \/ (\E a \in Conns : AgentRefused(a))
           \/ (\E a \in Conns : AgentReturns(a))
         PROVE  UNCHANGED <<session, token, tstate>>
    BY <1>14 DEF BeginControl, CreateStream, SendTask, Authorized, BeginTurn,
        RevokeStreamsForServer, Settle, PeerGone, CancelHook, CloseEndpoint, AgentConnected,
        AgentRefused, AgentReturns, Accept, Close, Detach, Endpoints, Without, registry, sessions,
        conns, ends, control, tokens
  <1>15. ASSUME UNCHANGED <<session, token, tstate>> PROVE TokenInv'
    BY <1>15 DEF TokenInv, StreamsTypeOK, SessionTypes, TokenTypes
  <1> QED BY <1>1, <1>2, <1>3, <1>4, <1>5, <1>6, <1>7, <1>8, <1>9, <1>10, <1>11, <1>12, <1>13,
         <1>14, <1>15
  DEF StreamsNext, SessionStep, ConnStep, AllEnds

LEMMA StepRevokedTokenCut ==
  ASSUME StreamsTypeOK, TokenInv, RevokedTokenCut, StreamsNext
  PROVE  RevokedTokenCut'
  <1>1. ASSUME NEW h \in Sessions, NEW s \in IDs, NEW t \in Tokens \cup {Nobody}, NEW u \in Callers,
              StreamAttachAllowed(h, s, t, u)
       PROVE  RevokedTokenCut'
    BY <1>1, Numbers DEF StreamAttachAllowed, StepTo, RevokedTokenCut, TokenInv, StreamsTypeOK,
        SessionTypes, TokenTypes, UserEnd, registry, conns, ends, control, tokens
  <1>2. ASSUME NEW h \in Sessions, NEW s \in IDs, ServeNAT(h, s) PROVE RevokedTokenCut'
    BY <1>2, Numbers DEF ServeNAT, StepTo, RevokedTokenCut, TokenInv, StreamsTypeOK, SessionTypes,
        TokenTypes, UserEnd, registry, conns, ends, control, tokens
  <1>3. ASSUME NEW h \in Sessions, RegisterPATConnection(h) PROVE RevokedTokenCut'
    BY <1>3, Numbers DEF RegisterPATConnection, StepTo, Close, Tombstone, RevokedTokenCut, TokenInv,
        StreamsTypeOK, SessionTypes, TokenTypes, UserEnd, registry, conns, control, tokens
  <1>4. ASSUME NEW h \in Sessions, UpgradeFails(h) PROVE RevokedTokenCut'
    BY <1>4, Numbers DEF UpgradeFails, StepTo, RevokedTokenCut, TokenInv, StreamsTypeOK,
        SessionTypes, TokenTypes, UserEnd, registry, conns, ends, control, tokens
  <1>5. ASSUME NEW h \in Sessions, UserConnected(h) PROVE RevokedTokenCut'
    BY <1>5, Numbers DEF UserConnected, StepTo, RevokedTokenCut, TokenInv, StreamsTypeOK,
        SessionTypes, TokenTypes, UserEnd, conns, ends, control, tokens
  <1>6. ASSUME NEW h \in Sessions, StartStream(h) PROVE RevokedTokenCut'
    BY <1>6, Numbers DEF StartStream, StepTo, Endpoints, RevokedTokenCut, TokenInv, StreamsTypeOK,
        SessionTypes, TokenTypes, UserEnd, registry, conns, ends, control, tokens
  <1>7. ASSUME NEW h \in Sessions, StreamRevoked(h) PROVE RevokedTokenCut'
    BY <1>7, Numbers DEF StreamRevoked, StepTo, RevokedTokenCut, TokenInv, StreamsTypeOK,
        SessionTypes, TokenTypes, UserEnd, registry, conns, ends, control, tokens
  <1>8. ASSUME NEW h \in Sessions, StartTimeout(h) PROVE RevokedTokenCut'
    BY <1>8, Numbers DEF StartTimeout, StepTo, RevokedTokenCut, TokenInv, StreamsTypeOK,
        SessionTypes, TokenTypes, UserEnd, registry, conns, ends, control, tokens
  <1>9. ASSUME NEW h \in Sessions, CopyEnds(h) PROVE RevokedTokenCut'
    BY <1>9, Numbers DEF CopyEnds, StepTo, RevokedTokenCut, TokenInv, StreamsTypeOK, SessionTypes,
        TokenTypes, UserEnd, registry, conns, ends, control, tokens
  <1>10. ASSUME NEW h \in Sessions, Leave(h) PROVE RevokedTokenCut'
    BY <1>10, Numbers DEF Leave, StepTo, Close, Detach, Without, Endpoints, RevokedTokenCut,
        TokenInv, StreamsTypeOK, SessionTypes, TokenTypes, UserEnd, conns, control
  <1>11. ASSUME NEW h \in Sessions, CancelHook(h) PROVE RevokedTokenCut'
    BY <1>11, Numbers DEF CancelHook, Close, RevokedTokenCut, TokenInv, StreamsTypeOK, SessionTypes,
        TokenTypes, UserEnd, registry, sessions, conns, control
  <1>12. ASSUME NEW e \in AllEnds, CloseEndpoint(e) PROVE RevokedTokenCut'
    BY <1>12, Numbers DEF CloseEndpoint, Close, RevokedTokenCut, TokenInv, StreamsTypeOK,
        SessionTypes, TokenTypes, UserEnd, registry, sessions, conns, control, tokens
  <1>13. ASSUME NEW a \in Conns, AgentRefused(a) PROVE RevokedTokenCut'
    BY <1>13, Numbers DEF AgentRefused, Close, RevokedTokenCut, TokenInv, StreamsTypeOK,
        SessionTypes, TokenTypes, UserEnd, registry, sessions, control, tokens
  <1>14. ASSUME NEW t \in Tokens, DeleteToken(t) PROVE RevokedTokenCut'
    BY <1>14, Numbers DEF DeleteToken, RevokedTokenCut, TokenInv, StreamsTypeOK, SessionTypes,
        TokenTypes, UserEnd, registry, sessions, conns, ends, control
  <1>15. ASSUME NEW t \in Tokens, RevokeToken(t) PROVE RevokedTokenCut'
    BY <1>15, Numbers DEF RevokeToken, InRegistry, RevokedTokenCut, TokenInv, StreamsTypeOK,
        SessionTypes, TokenTypes, UserEnd, registry, sessions, conns, ends, control
  <1>16. ASSUME NEW t \in Tokens, PruneRevoked(t) PROVE RevokedTokenCut'
    BY <1>16, Numbers DEF PruneRevoked, RevokedTokenCut, TokenInv, StreamsTypeOK, SessionTypes,
        TokenTypes, UserEnd, registry, sessions, conns, ends, control
  <1>17. ASSUME \/ (\E s \in IDs, u \in Callers, n \in BOOLEAN : BeginControl(s, u, n))
           \/ (\E s \in IDs : CreateStream(s))
           \/ (\E s \in IDs : SendTask(s))
           \/ (\E a \in Conns, s \in IDs : Authorized(a, s))
           \/ (\E u \in Owners : BeginTurn(u))
           \/ RevokeStreamsForServer
           \/ Settle
           \/ (\E e \in AllEnds : PeerGone(e))
           \/ (\E a \in Conns : AgentConnected(a))
           \/ (\E a \in Conns : AgentReturns(a))
         PROVE  UNCHANGED <<session, token, tstate, cutting, closed>>
    BY <1>17 DEF BeginControl, CreateStream, SendTask, Authorized, BeginTurn,
        RevokeStreamsForServer, Settle, PeerGone, AgentConnected, AgentReturns, Accept, Detach,
        Endpoints, Without, registry, sessions, conns, ends, control, tokens
  <1>18. ASSUME UNCHANGED <<session, token, tstate, cutting, closed>> PROVE RevokedTokenCut'
    BY <1>18 DEF RevokedTokenCut, TokenInv, StreamsTypeOK, SessionTypes, TokenTypes, UserEnd
  <1> QED BY <1>1, <1>2, <1>3, <1>4, <1>5, <1>6, <1>7, <1>8, <1>9, <1>10, <1>11, <1>12, <1>13,
         <1>14, <1>15, <1>16, <1>17, <1>18
  DEF StreamsNext, SessionStep, ConnStep, AllEnds

LEMMA InvHolds == StreamsSpec => []StreamsInv
  <1>1. StreamsInv /\ StreamsNext => StreamsInv'
    BY StepRegistryTypes, StepSessionTypes, StepConnTypes, StepEndTypes, StepControlTypes, StepTokenTypes,
       StepMakersOpened, StepLeasesOfOwner, StepRelayInv, StepAgentsReleased, StepTokenInv, StepRevokedTokenCut
    DEF StreamsInv, StreamsTypeOK
  <1>2. StreamsInv /\ UNCHANGED streamVars => StreamsInv'
    BY DEF StreamsInv, streamVars, registry, sessions, conns, ends, control, tokens, StreamsTypeOK, RegistryTypes,
           SessionTypes, ConnTypes, EndTypes, ControlTypes, TokenTypes, MakersOpened, LeasesOfOwner, Leases,
           RelayInv, AgentsReleased, TokenInv, RevokedTokenCut
  <1> QED BY <1>1, <1>2, InitInv, PTL DEF StreamsSpec

(* Every variable keeps its declared type: a session that has begun has a    *)
(* stream, and endpoints are those of sessions and calls that exist.         *)
THEOREM StreamTypes == StreamsSpec => []StreamsTypeOK
  <1>1. StreamsInv => StreamsTypeOK
    BY DEF StreamsInv
  <1> QED BY <1>1, InvHolds, PTL

(* For any number of streams, sessions and calls of the agent: a call of     *)
(* IOStream that waits serves the endpoint of a registered stream, or its    *)
(* Close has been called or is due.                                          *)
THEOREM AgentsAreReleased == StreamsSpec => []AgentsReleased
  <1>1. StreamsInv => AgentsReleased
    BY DEF StreamsInv
  <1> QED BY <1>1, InvHolds, PTL

(* Between transitions no pipe is open on a stream that somebody other than  *)
(* the present owner or an administrator opened.                             *)
THEOREM PipesFollowOwner == StreamsSpec => []PipesOfOwner
  <1>1. StreamsInv => PipesOfOwner
    <2> SUFFICES ASSUME StreamsInv, ~turning, closing = {}, NEW h \in Sessions, session[h] = "relay", pipe[h] \cap closed = {}
                 PROVE  by[sstream[h]] \in {owner, Admin}
      BY DEF PipesOfOwner
    <2>1. PICK a \in Conns : AgentEnd(a) \in pipe[h] /\ (sstream[h] \in registered \/ AgentEnd(a) \in closing \cup closed)
      BY DEF StreamsInv, RelayInv
    <2>2. sstream[h] \in registered
      BY <2>1
    <2> QED BY <2>2 DEF StreamsInv, LeasesOfOwner
  <1> QED BY <1>1, InvHolds, PTL

(* After revokeToken has walked the registry, every session of the token is  *)
(* closed or about to be, whenever it registered.                            *)
THEOREM RevokedTokensCut == StreamsSpec => []RevokedTokenCut
  <1>1. StreamsInv => RevokedTokenCut
    BY DEF StreamsInv
  <1> QED BY <1>1, InvHolds, PTL
=============================================================================
