-------------------------- MODULE OAuthGrantsProofs --------------------------
(* Theorems about SignIn and OAuthGrants and their proofs.                   *)
EXTENDS OAuthGrants, TLAPS

(* Two updates of the profile do not overlap; when they do, both write the   *)
(* same version, and a session of the first password outlives the second.    *)
UpdatesInTurn == OverlappingUpdates = FALSE

(* What carries a version was made for the password the user had under that  *)
(* version: sessions, the rows of requests, and what was consented to.       *)
SessionInv == \A s \in Sessions :
    stamp[s] <= version /\ (stamp[s] = version => proof[s] = password)
UpdateInv ==
    /\ \A q, r \in Requests : Updating(q) /\ Updating(r) => q = r
    /\ \A r \in Requests : intent[r] = "profile" =>
          /\ request[r] = "in" => row[r].version = version
          /\ request[r] = "counted" => row[r].version = version + 1
ConsentInv == \A r \in Requests :
    intent[r] = "consent" /\ request[r] \in {"in", "asked"} =>
        row[r].version <= version /\ (row[r].version = version => row[r].password = password)
SignInv == SessionInv /\ UpdateInv /\ ConsentInv

(* A code is stored once, a grant made of it once, and a permission exists   *)
(* with its grant only.                                                      *)
CodeInv == \A g \in Grants :
    /\ request[g] # "done" => code[g] = "none"
    /\ code[g] \in {"none", "stored"} => grant[g] = "none"
    /\ code[g] = "used" => grant[g] # "none"
    /\ g \in permission => grant[g] = "live"
    /\ rotation[g] > 0 => grant[g] # "none"
AgreedInv == \A g \in Grants :
    /\ codeVersion[g] <= version
    /\ code[g] # "none" /\ codeVersion[g] = version => agreed[g] = password
    /\ grant[g] # "none" =>
          grantVersion[g] <= version /\ (grantVersion[g] = version => agreed[g] = password)
ClientInv == client # "enabled" => \A g \in Grants : grant[g] # "live" /\ code[g] # "stored"

(* What cannot become usable again, by replay or before a call looks.        *)
Spent(g) == grant[g] # "none" /\ (g \in permission => grantVersion[g] # version)
ReplayInv == \A g \in replayed : Spent(g)
AccessInv == \A a \in Accesses :
    /\ access[a] # "off" => grant[of[a]] # "none"
    /\ access[a] \in {"grant", "client"} /\ a \notin valid => Spent(of[a])
    /\ access[a] = "permission" /\ a \notin valid => grantVersion[of[a]] # version
GrantInv == CodeInv /\ AgreedInv /\ ClientInv /\ ReplayInv /\ AccessInv

(* The steps of OAuthNext that are not the sign-in's. *)
GrantNext ==
    \/ \E g \in Grants : GrantStep(g)
    \/ DisableClient \/ EnableClient \/ PruneClient
    \/ \E x \in Exchanges : ExchangeStep(x)
    \/ \E a \in Accesses : AccessStep(a)

LEMMA Numbers == MaxRequests \in Nat /\ MaxSessions \in Nat
  BY SignInAssumption

LEMMA MoreNumbers == MaxExchanges \in Nat /\ MaxAccesses \in Nat /\ MaxRotations \in Nat /\ MaxDisables \in Nat
  BY OAuthAssumption

LEMMA SignInInitInv == SignInInit => SignInTypeOK /\ SignInv
  <1> SUFFICES ASSUME SignInInit PROVE SignInTypeOK /\ SignInv
    OBVIOUS
  <1>1. SignInTypeOK
    <2>1. [password |-> 0, version |-> 0, reject |-> FALSE] \in
              [password : 0 .. MaxRequests, version : Nat, reject : BOOLEAN]
      BY Numbers
    <2>2. row \in [Requests -> [password : 0 .. MaxRequests, version : Nat, reject : BOOLEAN]]
      BY <2>1 DEF SignInInit, User
    <2>3. reject \in BOOLEAN /\ binds \subseteq Accounts
      BY DEF SignInInit
    <2> QED BY Numbers, <2>2, <2>3 DEF SignInInit, SignInTypeOK, Intents, NoSession
  <1>2. SignInv
    BY Numbers DEF SignInInit, SignInv, SessionInv, UpdateInv, Updating, ConsentInv
  <1> QED BY <1>1, <1>2

LEMMA GrantsInitInv == SignInInit /\ OAuthInit => OAuthTypeOK /\ GrantInv
  <1> SUFFICES ASSUME SignInInit, OAuthInit PROVE OAuthTypeOK /\ GrantInv
    OBVIOUS
  <1>1. OAuthTypeOK
    BY Numbers, MoreNumbers DEF OAuthInit, OAuthTypeOK, NoGrant, Grants, Requests
  <1>2. GrantInv
    BY Numbers DEF SignInInit, OAuthInit, GrantInv, CodeInv, AgreedInv, ClientInv, ReplayInv, AccessInv, Grants
  <1> QED BY <1>1, <1>2

LEMMA SignInTypes ==
  ASSUME SignInTypeOK, SignInNext
  PROVE  SignInTypeOK'
  <1>1. ASSUME NEW s \in Sessions, Authenticator(s) PROVE SignInTypeOK'
    BY <1>1, Numbers DEF Authenticator, Session, ReadUser, SignInTypeOK, Requests, Sessions, user,
        requests
  <1>2. ASSUME NEW s \in Sessions, OAuth2Callback(s) PROVE SignInTypeOK'
    BY <1>2, Numbers DEF OAuth2Callback, Session, SignInTypeOK, Requests, Sessions, user, requests
  <1>3. ASSUME NEW s \in Sessions, ReadBoundUser(s) PROVE SignInTypeOK'
    BY <1>3, Numbers DEF ReadBoundUser, Session, ReadUser, SignInTypeOK, Requests, Sessions, user,
        requests
  <1>4. ASSUME NEW s \in Sessions, IssueJWTSession(s) PROVE SignInTypeOK'
    BY <1>4, Numbers DEF IssueJWTSession, Session, SignInTypeOK, Requests, Sessions, user, requests
  <1>5. ASSUME NEW s \in Sessions, SessionExpires(s) PROVE SignInTypeOK'
    BY <1>5, Numbers DEF SessionExpires, SignInTypeOK, Requests, Sessions, user, requests
  <1>6. ASSUME NEW r \in Requests, NEW s \in Sessions, NEW i \in Intents, FindSession(r, s, i)
       PROVE  SignInTypeOK'
    BY <1>6, Numbers DEF FindSession, Request, SignInTypeOK, Requests, Sessions, user, sessions
  <1>7. ASSUME NEW r \in Requests, FindUser(r) PROVE SignInTypeOK'
    BY <1>7, Numbers DEF FindUser, Request, SignInTypeOK, Requests, Sessions, User, user, sessions
  <1>8. ASSUME NEW r \in Requests, Unauthorized(r) PROVE SignInTypeOK'
    BY <1>8, Numbers DEF Unauthorized, Request, SignInTypeOK, Requests, Sessions, user, sessions
  <1>9. ASSUME NEW r \in Requests, Ends(r) PROVE SignInTypeOK'
    BY <1>9, Numbers DEF Ends, SignInTypeOK, Requests, Sessions, user, sessions
  <1>10. ASSUME NEW r \in Requests, CountBindings(r) PROVE SignInTypeOK'
    <2>1. PICK p \in {r, row[r].password}, b \in BOOLEAN :
              row' = [row EXCEPT ![r] = [password |-> p, version |-> @.version + 1, reject |-> b]]
      BY <1>10 DEF CountBindings
    <2>2. [password |-> p, version |-> row[r].version + 1, reject |-> b] \in
              [password : 0 .. MaxRequests, version : Nat, reject : BOOLEAN]
      BY <2>1, <1>10, Numbers DEF SignInTypeOK, Requests
    <2>3. row' \in [Requests -> [password : 0 .. MaxRequests, version : Nat, reject : BOOLEAN]]
      BY <2>1, <2>2 DEF SignInTypeOK
    <2> QED BY <1>10, <2>3 DEF CountBindings, Request, SignInTypeOK, user, sessions
  <1>11. ASSUME NEW r \in Requests, SaveUser(r) PROVE SignInTypeOK'
    BY <1>11, Numbers DEF SaveUser, Request, SignInTypeOK, Requests, Sessions, sessions
  <1>12. ASSUME NEW r \in Requests, RevokeJWTSessionsByUser(r) PROVE SignInTypeOK'
    BY <1>12, Numbers DEF RevokeJWTSessionsByUser, Request, SignInTypeOK, Requests, Sessions, user
  <1>13. ASSUME NEW r \in Requests, NEW p \in Providers, CountOfProvider(r, p) PROVE SignInTypeOK'
    BY <1>13, Numbers DEF CountOfProvider, Request, SignInTypeOK, Requests, Sessions, Of, user,
        sessions
  <1>14. ASSUME NEW r \in Requests, DeleteBindings(r) PROVE SignInTypeOK'
    BY <1>14, Numbers DEF DeleteBindings, Request, SignInTypeOK, Requests, Sessions, sessions
  <1>15. ASSUME NEW r \in Requests, NEW a \in Accounts, NEW s \in Sessions, Bind(r, a, s)
       PROVE  SignInTypeOK'
    BY <1>15, Numbers DEF Bind, Request, Session, SignInTypeOK, Requests, Sessions
  <1>16. ASSUME NEW a \in Accounts, BoundElsewhere(a) PROVE SignInTypeOK'
    BY <1>16, Numbers DEF BoundElsewhere, SignInTypeOK, Requests, Sessions, sessions, requests
  <1> QED BY <1>1, <1>2, <1>3, <1>4, <1>5, <1>6, <1>7, <1>8, <1>9, <1>10, <1>11, <1>12, <1>13,
         <1>14, <1>15, <1>16
  DEF SignInNext, SessionStep, VisitStep

LEMMA StepSessionInv ==
  ASSUME SignInTypeOK, SignInv, SignInNext
  PROVE  SessionInv'
  <1>1. ASSUME NEW s \in Sessions, Authenticator(s) PROVE SessionInv'
    BY <1>1, Numbers DEF Authenticator, Session, ReadUser, SignInTypeOK, SignInv, SessionInv,
        UpdateInv, user, requests
  <1>2. ASSUME NEW s \in Sessions, ReadBoundUser(s) PROVE SessionInv'
    BY <1>2, Numbers DEF ReadBoundUser, Session, ReadUser, SignInTypeOK, SignInv, SessionInv,
        UpdateInv, user, requests
  <1>3. ASSUME NEW r \in Requests, SaveUser(r) PROVE SessionInv'
    BY <1>3, Numbers DEF SaveUser, Request, SignInTypeOK, SignInv, SessionInv, UpdateInv, sessions
  <1>4. ASSUME \/ (\E s \in Sessions : OAuth2Callback(s))
           \/ (\E s \in Sessions : IssueJWTSession(s))
           \/ (\E s \in Sessions : SessionExpires(s))
           \/ (\E r \in Requests, s \in Sessions, i \in Intents : FindSession(r, s, i))
           \/ (\E r \in Requests : FindUser(r))
           \/ (\E r \in Requests : Unauthorized(r))
           \/ (\E r \in Requests : Ends(r))
           \/ (\E r \in Requests : CountBindings(r))
           \/ (\E r \in Requests : RevokeJWTSessionsByUser(r))
           \/ (\E r \in Requests, p \in Providers : CountOfProvider(r, p))
           \/ (\E r \in Requests : DeleteBindings(r))
           \/ (\E r \in Requests, a \in Accounts, s \in Sessions : Bind(r, a, s))
           \/ (\E a \in Accounts : BoundElsewhere(a))
         PROVE  UNCHANGED <<password, version, stamp, proof>>
    BY <1>4 DEF OAuth2Callback, IssueJWTSession, SessionExpires, FindSession, FindUser,
        Unauthorized, Ends, CountBindings, RevokeJWTSessionsByUser, CountOfProvider, DeleteBindings,
        Bind, BoundElsewhere, Request, Session, user, sessions, requests
  <1>5. ASSUME UNCHANGED <<password, version, stamp, proof>> PROVE SessionInv'
    BY <1>5 DEF SignInTypeOK, SignInv, SessionInv, UpdateInv
  <1> QED BY <1>1, <1>2, <1>3, <1>4, <1>5 DEF SignInNext, SessionStep, VisitStep

LEMMA StepUpdateInv ==
  ASSUME UpdatesInTurn, SignInTypeOK, SignInv, SignInNext
  PROVE  UpdateInv'
  <1>1. ASSUME NEW r \in Requests, NEW s \in Sessions, NEW i \in Intents, FindSession(r, s, i)
       PROVE  UpdateInv'
    BY <1>1, Numbers DEF FindSession, Request, SignInTypeOK, SignInv, UpdateInv, Updating, user,
        sessions
  <1>2. ASSUME NEW r \in Requests, FindUser(r) PROVE UpdateInv'
    BY <1>2, Numbers DEF FindUser, Request, SignInTypeOK, SignInv, UpdateInv, Updating, User,
        UpdatesInTurn, user, sessions
  <1>3. ASSUME NEW r \in Requests, Unauthorized(r) PROVE UpdateInv'
    BY <1>3, Numbers DEF Unauthorized, Request, SignInTypeOK, SignInv, UpdateInv, Updating, user,
        sessions
  <1>4. ASSUME NEW r \in Requests, Ends(r) PROVE UpdateInv'
    BY <1>4, Numbers DEF Ends, SignInTypeOK, SignInv, UpdateInv, Updating, user, sessions
  <1>5. ASSUME NEW r \in Requests, CountBindings(r) PROVE UpdateInv'
    BY <1>5, Numbers DEF CountBindings, Request, SignInTypeOK, SignInv, UpdateInv, Updating, user,
        sessions
  <1>6. ASSUME NEW r \in Requests, SaveUser(r) PROVE UpdateInv'
    BY <1>6, Numbers DEF SaveUser, Request, SignInTypeOK, SignInv, UpdateInv, Updating, sessions
  <1>7. ASSUME NEW r \in Requests, RevokeJWTSessionsByUser(r) PROVE UpdateInv'
    BY <1>7, Numbers DEF RevokeJWTSessionsByUser, Request, SignInTypeOK, SignInv, UpdateInv,
        Updating, user
  <1>8. ASSUME NEW r \in Requests, NEW p \in Providers, CountOfProvider(r, p) PROVE UpdateInv'
    BY <1>8, Numbers DEF CountOfProvider, Request, SignInTypeOK, SignInv, UpdateInv, Updating, user,
        sessions
  <1>9. ASSUME NEW r \in Requests, DeleteBindings(r) PROVE UpdateInv'
    BY <1>9, Numbers DEF DeleteBindings, Request, SignInTypeOK, SignInv, UpdateInv, Updating,
        sessions
  <1>10. ASSUME NEW r \in Requests, NEW a \in Accounts, NEW s \in Sessions, Bind(r, a, s)
       PROVE  UpdateInv'
    BY <1>10, Numbers DEF Bind, Request, Session, SignInTypeOK, SignInv, UpdateInv, Updating
  <1>11. ASSUME \/ (\E s \in Sessions : Authenticator(s))
           \/ (\E s \in Sessions : OAuth2Callback(s))
           \/ (\E s \in Sessions : ReadBoundUser(s))
           \/ (\E s \in Sessions : IssueJWTSession(s))
           \/ (\E s \in Sessions : SessionExpires(s))
           \/ (\E a \in Accounts : BoundElsewhere(a))
         PROVE  UNCHANGED <<version, request, intent, row>>
    BY <1>11 DEF Authenticator, OAuth2Callback, ReadBoundUser, IssueJWTSession, SessionExpires,
        BoundElsewhere, ReadUser, Session, user, sessions, requests
  <1>12. ASSUME UNCHANGED <<version, request, intent, row>> PROVE UpdateInv'
    BY <1>12 DEF SignInTypeOK, SignInv, UpdateInv, Updating
  <1> QED BY <1>1, <1>2, <1>3, <1>4, <1>5, <1>6, <1>7, <1>8, <1>9, <1>10, <1>11, <1>12
  DEF SignInNext, SessionStep, VisitStep

LEMMA StepConsentInv ==
  ASSUME SignInTypeOK, SignInv, SignInNext
  PROVE  ConsentInv'
  <1>1. ASSUME NEW r \in Requests, NEW s \in Sessions, NEW i \in Intents, FindSession(r, s, i)
       PROVE  ConsentInv'
    BY <1>1, Numbers DEF FindSession, Request, SignInTypeOK, SignInv, UpdateInv, ConsentInv, user,
        sessions
  <1>2. ASSUME NEW r \in Requests, FindUser(r) PROVE ConsentInv'
    BY <1>2, Numbers DEF FindUser, Request, SignInTypeOK, SignInv, UpdateInv, ConsentInv, User,
        user, sessions
  <1>3. ASSUME NEW r \in Requests, Unauthorized(r) PROVE ConsentInv'
    BY <1>3, Numbers DEF Unauthorized, Request, SignInTypeOK, SignInv, UpdateInv, ConsentInv, user,
        sessions
  <1>4. ASSUME NEW r \in Requests, Ends(r) PROVE ConsentInv'
    BY <1>4, Numbers DEF Ends, SignInTypeOK, SignInv, UpdateInv, ConsentInv, user, sessions
  <1>5. ASSUME NEW r \in Requests, CountBindings(r) PROVE ConsentInv'
    BY <1>5, Numbers DEF CountBindings, Request, SignInTypeOK, SignInv, UpdateInv, ConsentInv, user,
        sessions
  <1>6. ASSUME NEW r \in Requests, SaveUser(r) PROVE ConsentInv'
    BY <1>6, Numbers DEF SaveUser, Request, SignInTypeOK, SignInv, UpdateInv, ConsentInv, sessions
  <1>7. ASSUME NEW r \in Requests, RevokeJWTSessionsByUser(r) PROVE ConsentInv'
    BY <1>7, Numbers DEF RevokeJWTSessionsByUser, Request, SignInTypeOK, SignInv, UpdateInv,
        ConsentInv, user
  <1>8. ASSUME NEW r \in Requests, NEW p \in Providers, CountOfProvider(r, p) PROVE ConsentInv'
    BY <1>8, Numbers DEF CountOfProvider, Request, SignInTypeOK, SignInv, UpdateInv, ConsentInv,
        user, sessions
  <1>9. ASSUME NEW r \in Requests, DeleteBindings(r) PROVE ConsentInv'
    BY <1>9, Numbers DEF DeleteBindings, Request, SignInTypeOK, SignInv, UpdateInv, ConsentInv,
        sessions
  <1>10. ASSUME NEW r \in Requests, NEW a \in Accounts, NEW s \in Sessions, Bind(r, a, s)
       PROVE  ConsentInv'
    BY <1>10, Numbers DEF Bind, Request, Session, SignInTypeOK, SignInv, UpdateInv, ConsentInv
  <1>11. ASSUME \/ (\E s \in Sessions : Authenticator(s))
           \/ (\E s \in Sessions : OAuth2Callback(s))
           \/ (\E s \in Sessions : ReadBoundUser(s))
           \/ (\E s \in Sessions : IssueJWTSession(s))
           \/ (\E s \in Sessions : SessionExpires(s))
           \/ (\E a \in Accounts : BoundElsewhere(a))
         PROVE  UNCHANGED <<password, version, request, intent, row>>
    BY <1>11 DEF Authenticator, OAuth2Callback, ReadBoundUser, IssueJWTSession, SessionExpires,
        BoundElsewhere, ReadUser, Session, user, sessions, requests
  <1>12. ASSUME UNCHANGED <<password, version, request, intent, row>> PROVE ConsentInv'
    BY <1>12 DEF SignInTypeOK, SignInv, UpdateInv, ConsentInv
  <1> QED BY <1>1, <1>2, <1>3, <1>4, <1>5, <1>6, <1>7, <1>8, <1>9, <1>10, <1>11, <1>12
  DEF SignInNext, SessionStep, VisitStep

(* Saving a profile is what changes the user, and it raises the version.     *)
UserMoved == version' > version \/ (version' = version /\ password' = password)

LEMMA UserMoves ==
  ASSUME SignInTypeOK, SignInv, SignInNext
  PROVE  UserMoved
  <1>1. ASSUME NEW r \in Requests, SaveUser(r) PROVE UserMoved
    BY <1>1, Numbers DEF UserMoved, SaveUser, Request, SignInTypeOK, SignInv, UpdateInv, sessions
  <1>2. ASSUME \/ (\E s \in Sessions : Authenticator(s))
           \/ (\E s \in Sessions : OAuth2Callback(s))
           \/ (\E s \in Sessions : ReadBoundUser(s))
           \/ (\E s \in Sessions : IssueJWTSession(s))
           \/ (\E s \in Sessions : SessionExpires(s))
           \/ (\E r \in Requests, s \in Sessions, i \in Intents : FindSession(r, s, i))
           \/ (\E r \in Requests : FindUser(r))
           \/ (\E r \in Requests : Unauthorized(r))
           \/ (\E r \in Requests : Ends(r))
           \/ (\E r \in Requests : CountBindings(r))
           \/ (\E r \in Requests : RevokeJWTSessionsByUser(r))
           \/ (\E r \in Requests, p \in Providers : CountOfProvider(r, p))
           \/ (\E r \in Requests : DeleteBindings(r))
           \/ (\E r \in Requests, a \in Accounts, s \in Sessions : Bind(r, a, s))
           \/ (\E a \in Accounts : BoundElsewhere(a))
         PROVE  UNCHANGED <<password, version>>
    BY <1>2 DEF UserMoved, Authenticator, OAuth2Callback, ReadBoundUser, IssueJWTSession, SessionExpires,
        FindSession, FindUser, Unauthorized, Ends, CountBindings, RevokeJWTSessionsByUser,
        CountOfProvider, DeleteBindings, Bind, BoundElsewhere, ReadUser, Request, Session, user,
        sessions, requests
  <1>3. ASSUME UNCHANGED <<password, version>> PROVE UserMoved
    BY <1>3 DEF UserMoved, SignInTypeOK, SignInv, UpdateInv
  <1> QED BY <1>1, <1>2, <1>3 DEF UserMoved, SignInNext, SessionStep, VisitStep

(* A request never comes back.                                               *)
DoneStays == \A r \in Requests : request[r] = "done" => request'[r] = "done"

LEMMA RequestsEnd ==
  ASSUME SignInTypeOK, SignInNext
  PROVE  DoneStays
  <1>1. ASSUME NEW r \in Requests, NEW s \in Sessions, NEW i \in Intents, FindSession(r, s, i)
       PROVE  DoneStays
    BY <1>1, Numbers DEF DoneStays, FindSession, Request, SignInTypeOK, user, sessions
  <1>2. ASSUME NEW r \in Requests, FindUser(r) PROVE DoneStays
    BY <1>2, Numbers DEF DoneStays, FindUser, Request, SignInTypeOK, user, sessions
  <1>3. ASSUME NEW r \in Requests, Unauthorized(r) PROVE DoneStays
    BY <1>3, Numbers DEF DoneStays, Unauthorized, Request, SignInTypeOK, user, sessions
  <1>4. ASSUME NEW r \in Requests, Ends(r) PROVE DoneStays
    BY <1>4, Numbers DEF DoneStays, Ends, SignInTypeOK, user, sessions
  <1>5. ASSUME NEW r \in Requests, CountBindings(r) PROVE DoneStays
    BY <1>5, Numbers DEF DoneStays, CountBindings, Request, SignInTypeOK, user, sessions
  <1>6. ASSUME NEW r \in Requests, SaveUser(r) PROVE DoneStays
    BY <1>6, Numbers DEF DoneStays, SaveUser, Request, SignInTypeOK, sessions
  <1>7. ASSUME NEW r \in Requests, RevokeJWTSessionsByUser(r) PROVE DoneStays
    BY <1>7, Numbers DEF DoneStays, RevokeJWTSessionsByUser, Request, SignInTypeOK, user
  <1>8. ASSUME NEW r \in Requests, NEW p \in Providers, CountOfProvider(r, p) PROVE DoneStays
    BY <1>8, Numbers DEF DoneStays, CountOfProvider, Request, SignInTypeOK, user, sessions
  <1>9. ASSUME NEW r \in Requests, DeleteBindings(r) PROVE DoneStays
    BY <1>9, Numbers DEF DoneStays, DeleteBindings, Request, SignInTypeOK, sessions
  <1>10. ASSUME NEW r \in Requests, NEW a \in Accounts, NEW s \in Sessions, Bind(r, a, s)
       PROVE  DoneStays
    BY <1>10, Numbers DEF DoneStays, Bind, Request, Session, SignInTypeOK
  <1>11. ASSUME \/ (\E s \in Sessions : Authenticator(s))
           \/ (\E s \in Sessions : OAuth2Callback(s))
           \/ (\E s \in Sessions : ReadBoundUser(s))
           \/ (\E s \in Sessions : IssueJWTSession(s))
           \/ (\E s \in Sessions : SessionExpires(s))
           \/ (\E a \in Accounts : BoundElsewhere(a))
         PROVE  UNCHANGED <<request>>
    BY <1>11 DEF DoneStays, Authenticator, OAuth2Callback, ReadBoundUser, IssueJWTSession, SessionExpires,
        BoundElsewhere, ReadUser, Session, user, sessions, requests
  <1>12. ASSUME UNCHANGED <<request>> PROVE DoneStays
    BY <1>12 DEF DoneStays, SignInTypeOK
  <1> QED BY <1>1, <1>2, <1>3, <1>4, <1>5, <1>6, <1>7, <1>8, <1>9, <1>10, <1>11, <1>12
  DEF DoneStays, SignInNext, SessionStep, VisitStep

LEMMA GrantTypes ==
  ASSUME SignInTypeOK, OAuthTypeOK, GrantNext
  PROVE  (SignInTypeOK /\ OAuthTypeOK)'
  <1>1. ASSUME NEW g \in Grants, ReadConsentTicket(g) PROVE (SignInTypeOK /\ OAuthTypeOK)'
    BY <1>1, Numbers, MoreNumbers DEF ReadConsentTicket, Request, SignInTypeOK, OAuthTypeOK, Grants,
        user, sessions, oauthVars, grants, accesses
  <1>2. ASSUME NEW g \in Grants, StoreCode(g) PROVE (SignInTypeOK /\ OAuthTypeOK)'
    BY <1>2, Numbers, MoreNumbers DEF StoreCode, Consent, Request, SignInTypeOK, OAuthTypeOK,
        Grants, user, sessions, accesses
  <1>3. ASSUME NEW g \in Grants, ConsentRefused(g) PROVE (SignInTypeOK /\ OAuthTypeOK)'
    BY <1>3, Numbers, MoreNumbers DEF ConsentRefused, Request, SignInTypeOK, OAuthTypeOK, Grants,
        user, sessions, oauthVars, grants, accesses
  <1>4. ASSUME NEW g \in Grants, CodeExpires(g) PROVE (SignInTypeOK /\ OAuthTypeOK)'
    BY <1>4, Numbers, MoreNumbers DEF CodeExpires, SignInTypeOK, OAuthTypeOK, Grants, signInVars,
        accesses, user, sessions, requests
  <1>5. ASSUME NEW g \in Grants, RevokeGrant(g) PROVE (SignInTypeOK /\ OAuthTypeOK)'
    BY <1>5, Numbers, MoreNumbers DEF RevokeGrant, DeleteGrants, SignInTypeOK, OAuthTypeOK, Grants,
        signInVars, accesses, user, sessions, requests
  <1>6. ASSUME NEW g \in Grants, DeleteAPIToken(g) PROVE (SignInTypeOK /\ OAuthTypeOK)'
    BY <1>6, Numbers, MoreNumbers DEF DeleteAPIToken, SignInTypeOK, OAuthTypeOK, Grants, signInVars,
        accesses, user, sessions, requests
  <1>7. ASSUME DisableClient PROVE (SignInTypeOK /\ OAuthTypeOK)'
    BY <1>7, Numbers, MoreNumbers DEF DisableClient, DeleteGrants, SignInTypeOK, OAuthTypeOK,
        Grants, signInVars, accesses, user, sessions, requests
  <1>8. ASSUME EnableClient PROVE (SignInTypeOK /\ OAuthTypeOK)'
    BY <1>8, Numbers, MoreNumbers DEF EnableClient, SignInTypeOK, OAuthTypeOK, Grants, signInVars,
        grants, accesses, user, sessions, requests
  <1>9. ASSUME PruneClient PROVE (SignInTypeOK /\ OAuthTypeOK)'
    BY <1>9, Numbers, MoreNumbers DEF PruneClient, SignInTypeOK, OAuthTypeOK, Grants, signInVars,
        grants, accesses, user, sessions, requests
  <1>10. ASSUME NEW x \in Exchanges, ClientFromForm(x) PROVE (SignInTypeOK /\ OAuthTypeOK)'
    BY <1>10, Numbers, MoreNumbers DEF ClientFromForm, Exchange, SignInTypeOK, OAuthTypeOK, Grants,
        signInVars, grants, accesses, user, sessions, requests
  <1>11. ASSUME NEW x \in Exchanges, NEW g \in Grants, ExchangeCode(x, g)
       PROVE  (SignInTypeOK /\ OAuthTypeOK)'
    BY <1>11, Numbers, MoreNumbers DEF ExchangeCode, Exchange, Orphans, SignInTypeOK, OAuthTypeOK,
        Grants, signInVars, accesses, user, sessions, requests
  <1>12. ASSUME NEW x \in Exchanges, NEW g \in Grants, ReplayCode(x, g)
       PROVE  (SignInTypeOK /\ OAuthTypeOK)'
    BY <1>12, Numbers, MoreNumbers DEF ReplayCode, Exchange, Orphans, DeleteGrants, SignInTypeOK,
        OAuthTypeOK, Grants, signInVars, accesses, user, sessions, requests
  <1>13. ASSUME NEW x \in Exchanges, NEW g \in Grants, ExchangeRefresh(x, g)
       PROVE  (SignInTypeOK /\ OAuthTypeOK)'
    BY <1>13, Numbers, MoreNumbers DEF ExchangeRefresh, Exchange, Orphans, DeleteGrants, Usable,
        SignInTypeOK, OAuthTypeOK, Grants, signInVars, accesses, user, sessions, requests
  <1>14. ASSUME NEW x \in Exchanges, NEW g \in Grants, ReplayRefresh(x, g)
       PROVE  (SignInTypeOK /\ OAuthTypeOK)'
    BY <1>14, Numbers, MoreNumbers DEF ReplayRefresh, Exchange, Orphans, DeleteGrants, Usable,
        SignInTypeOK, OAuthTypeOK, Grants, signInVars, accesses, user, sessions, requests
  <1>15. ASSUME NEW x \in Exchanges, ExchangeRefused(x) PROVE (SignInTypeOK /\ OAuthTypeOK)'
    BY <1>15, Numbers, MoreNumbers DEF ExchangeRefused, Exchange, SignInTypeOK, OAuthTypeOK, Grants,
        signInVars, grants, accesses, user, sessions, requests
  <1>16. ASSUME NEW a \in Accesses, NEW g \in Grants, FindGrant(a, g)
       PROVE  (SignInTypeOK /\ OAuthTypeOK)'
    <2>1. g \in 0 .. MaxRequests /\ valid' \subseteq Accesses
      BY <1>16, Numbers DEF FindGrant, Grants, Requests, OAuthTypeOK
    <2>2. SignInTypeOK'
      BY <1>16 DEF FindGrant, signInVars, user, sessions, requests, SignInTypeOK
    <2>3. /\ access' \in [Accesses -> {"off", "grant", "client", "permission", "in", "refused"}]
          /\ of' \in [Accesses -> 0 .. MaxRequests]
          /\ \A b \in Accesses : access'[b] # "off" => of'[b] \in Grants
      BY <1>16, <2>1 DEF FindGrant, Access, OAuthTypeOK
    <2> QED BY <1>16, <2>1, <2>2, <2>3 DEF FindGrant, grants, OAuthTypeOK
  <1>17. ASSUME NEW a \in Accesses, RequireEnabledClient(a) PROVE (SignInTypeOK /\ OAuthTypeOK)'
    BY <1>17, Numbers, MoreNumbers DEF RequireEnabledClient, Access, SignInTypeOK, OAuthTypeOK,
        Grants, signInVars, grants, user, sessions, requests
  <1>18. ASSUME NEW a \in Accesses, FindPermission(a) PROVE (SignInTypeOK /\ OAuthTypeOK)'
    BY <1>18, Numbers, MoreNumbers DEF FindPermission, Access, StillValid, Honest, Usable,
        SignInTypeOK, OAuthTypeOK, Grants, signInVars, grants, user, sessions, requests
  <1>19. ASSUME NEW a \in Accesses, FindOwner(a) PROVE (SignInTypeOK /\ OAuthTypeOK)'
    BY <1>19, Numbers, MoreNumbers DEF FindOwner, Access, SignInTypeOK, OAuthTypeOK, Grants,
        signInVars, grants, user, sessions, requests
  <1>20. ASSUME NEW a \in Accesses, AccessRefused(a) PROVE (SignInTypeOK /\ OAuthTypeOK)'
    BY <1>20, Numbers, MoreNumbers DEF AccessRefused, SignInTypeOK, OAuthTypeOK, Grants, signInVars,
        grants, user, sessions, requests
  <1> QED BY <1>1, <1>2, <1>3, <1>4, <1>5, <1>6, <1>7, <1>8, <1>9, <1>10, <1>11, <1>12, <1>13,
         <1>14, <1>15, <1>16, <1>17, <1>18, <1>19, <1>20
  DEF GrantNext, GrantStep, ExchangeStep, AccessStep

LEMMA GrantStepSignInv ==
  ASSUME SignInTypeOK, SignInv, GrantNext
  PROVE  SignInv'
  <1>1. ASSUME NEW g \in Grants, ReadConsentTicket(g) PROVE SignInv'
    BY <1>1, Numbers DEF ReadConsentTicket, Request, SignInTypeOK, SignInv, SessionInv, UpdateInv,
        Updating, ConsentInv, Grants, user, sessions, oauthVars, grants, accesses
  <1>2. ASSUME NEW g \in Grants, StoreCode(g) PROVE SignInv'
    BY <1>2, Numbers DEF StoreCode, Consent, Request, SignInTypeOK, SignInv, SessionInv, UpdateInv,
        Updating, ConsentInv, Grants, user, sessions, accesses
  <1>3. ASSUME NEW g \in Grants, ConsentRefused(g) PROVE SignInv'
    BY <1>3, Numbers DEF ConsentRefused, Request, SignInTypeOK, SignInv, SessionInv, UpdateInv,
        Updating, ConsentInv, Grants, user, sessions, oauthVars, grants, accesses
  <1>4. ASSUME \/ (\E g \in Grants : CodeExpires(g))
           \/ (\E g \in Grants : RevokeGrant(g))
           \/ (\E g \in Grants : DeleteAPIToken(g))
           \/ DisableClient
           \/ EnableClient
           \/ PruneClient
           \/ (\E x \in Exchanges : ClientFromForm(x))
           \/ (\E x \in Exchanges, g \in Grants : ExchangeCode(x, g))
           \/ (\E x \in Exchanges, g \in Grants : ReplayCode(x, g))
           \/ (\E x \in Exchanges, g \in Grants : ExchangeRefresh(x, g))
           \/ (\E x \in Exchanges, g \in Grants : ReplayRefresh(x, g))
           \/ (\E x \in Exchanges : ExchangeRefused(x))
           \/ (\E a \in Accesses, g \in Grants : FindGrant(a, g))
           \/ (\E a \in Accesses : RequireEnabledClient(a))
           \/ (\E a \in Accesses : FindPermission(a))
           \/ (\E a \in Accesses : FindOwner(a))
           \/ (\E a \in Accesses : AccessRefused(a))
         PROVE  UNCHANGED <<password, version, stamp, proof, request, intent, row>>
    BY <1>4 DEF CodeExpires, RevokeGrant, DeleteAPIToken, DisableClient, EnableClient, PruneClient,
        ClientFromForm, ExchangeCode, ReplayCode, ExchangeRefresh, ReplayRefresh, ExchangeRefused,
        FindGrant, RequireEnabledClient, FindPermission, FindOwner, AccessRefused, Access,
        DeleteGrants, Exchange, Honest, Orphans, StillValid, Usable, signInVars, grants, accesses,
        user, sessions, requests
  <1>5. ASSUME UNCHANGED <<password, version, stamp, proof, request, intent, row>> PROVE SignInv'
    BY <1>5 DEF SignInTypeOK, SignInv, SessionInv, UpdateInv, Updating, ConsentInv, Grants
  <1> QED BY <1>1, <1>2, <1>3, <1>4, <1>5 DEF GrantNext, GrantStep, ExchangeStep, AccessStep

LEMMA StepCodeInv ==
  ASSUME SignInTypeOK, OAuthTypeOK, CodeInv, GrantNext
  PROVE  CodeInv'
  <1>1. ASSUME NEW g \in Grants, ReadConsentTicket(g) PROVE CodeInv'
    BY <1>1, Numbers DEF ReadConsentTicket, Request, SignInTypeOK, OAuthTypeOK, Grants, CodeInv,
        user, sessions, oauthVars, grants, accesses
  <1>2. ASSUME NEW g \in Grants, StoreCode(g) PROVE CodeInv'
    BY <1>2, Numbers DEF StoreCode, Consent, Request, SignInTypeOK, OAuthTypeOK, Grants, CodeInv,
        user, sessions, accesses
  <1>3. ASSUME NEW g \in Grants, ConsentRefused(g) PROVE CodeInv'
    BY <1>3, Numbers DEF ConsentRefused, Request, SignInTypeOK, OAuthTypeOK, Grants, CodeInv, user,
        sessions, oauthVars, grants, accesses
  <1>4. ASSUME NEW g \in Grants, CodeExpires(g) PROVE CodeInv'
    BY <1>4, Numbers DEF CodeExpires, SignInTypeOK, OAuthTypeOK, Grants, CodeInv, signInVars,
        accesses, user, sessions, requests
  <1>5. ASSUME NEW g \in Grants, RevokeGrant(g) PROVE CodeInv'
    BY <1>5, Numbers DEF RevokeGrant, DeleteGrants, SignInTypeOK, OAuthTypeOK, Grants, CodeInv,
        signInVars, accesses, user, sessions, requests
  <1>6. ASSUME NEW g \in Grants, DeleteAPIToken(g) PROVE CodeInv'
    BY <1>6, Numbers DEF DeleteAPIToken, SignInTypeOK, OAuthTypeOK, Grants, CodeInv, signInVars,
        accesses, user, sessions, requests
  <1>7. ASSUME DisableClient PROVE CodeInv'
    BY <1>7, Numbers DEF DisableClient, DeleteGrants, SignInTypeOK, OAuthTypeOK, Grants, CodeInv,
        signInVars, accesses, user, sessions, requests
  <1>8. ASSUME NEW x \in Exchanges, NEW g \in Grants, ExchangeCode(x, g) PROVE CodeInv'
    BY <1>8, Numbers DEF ExchangeCode, Exchange, Orphans, SignInTypeOK, OAuthTypeOK, Grants,
        CodeInv, signInVars, accesses, user, sessions, requests
  <1>9. ASSUME NEW x \in Exchanges, NEW g \in Grants, ReplayCode(x, g) PROVE CodeInv'
    BY <1>9, Numbers DEF ReplayCode, Exchange, Orphans, DeleteGrants, SignInTypeOK, OAuthTypeOK,
        Grants, CodeInv, signInVars, accesses, user, sessions, requests
  <1>10. ASSUME NEW x \in Exchanges, NEW g \in Grants, ExchangeRefresh(x, g) PROVE CodeInv'
    BY <1>10, Numbers DEF ExchangeRefresh, Exchange, Orphans, DeleteGrants, Usable, SignInTypeOK,
        OAuthTypeOK, Grants, CodeInv, signInVars, accesses, user, sessions, requests
  <1>11. ASSUME NEW x \in Exchanges, NEW g \in Grants, ReplayRefresh(x, g) PROVE CodeInv'
    BY <1>11, Numbers DEF ReplayRefresh, Exchange, Orphans, DeleteGrants, Usable, SignInTypeOK,
        OAuthTypeOK, Grants, CodeInv, signInVars, accesses, user, sessions, requests
  <1>12. ASSUME \/ EnableClient
           \/ PruneClient
           \/ (\E x \in Exchanges : ClientFromForm(x))
           \/ (\E x \in Exchanges : ExchangeRefused(x))
           \/ (\E a \in Accesses, g \in Grants : FindGrant(a, g))
           \/ (\E a \in Accesses : RequireEnabledClient(a))
           \/ (\E a \in Accesses : FindPermission(a))
           \/ (\E a \in Accesses : FindOwner(a))
           \/ (\E a \in Accesses : AccessRefused(a))
         PROVE  UNCHANGED <<request, code, grant, permission, rotation>>
    BY <1>12 DEF EnableClient, PruneClient, ClientFromForm, ExchangeRefused, FindGrant,
        RequireEnabledClient, FindPermission, FindOwner, AccessRefused, Access, Exchange, Honest,
        StillValid, Usable, signInVars, grants, accesses, user, sessions, requests
  <1>13. ASSUME UNCHANGED <<request, code, grant, permission, rotation>> PROVE CodeInv'
    BY <1>13 DEF SignInTypeOK, OAuthTypeOK, Grants, CodeInv
  <1> QED BY <1>1, <1>2, <1>3, <1>4, <1>5, <1>6, <1>7, <1>8, <1>9, <1>10, <1>11, <1>12, <1>13
  DEF GrantNext, GrantStep, ExchangeStep, AccessStep

LEMMA StepAgreedInv ==
  ASSUME SignInTypeOK, OAuthTypeOK, ConsentInv, CodeInv, AgreedInv, GrantNext
  PROVE  AgreedInv'
  <1>1. ASSUME NEW g \in Grants, StoreCode(g) PROVE AgreedInv'
    BY <1>1, Numbers DEF StoreCode, Consent, Request, SignInTypeOK, OAuthTypeOK, Grants, CodeInv,
        AgreedInv, ConsentInv, user, sessions, accesses
  <1>2. ASSUME NEW g \in Grants, CodeExpires(g) PROVE AgreedInv'
    BY <1>2, Numbers DEF CodeExpires, SignInTypeOK, OAuthTypeOK, Grants, CodeInv, AgreedInv,
        signInVars, accesses, user, sessions, requests
  <1>3. ASSUME NEW g \in Grants, RevokeGrant(g) PROVE AgreedInv'
    BY <1>3, Numbers DEF RevokeGrant, DeleteGrants, SignInTypeOK, OAuthTypeOK, Grants, CodeInv,
        AgreedInv, signInVars, accesses, user, sessions, requests
  <1>4. ASSUME DisableClient PROVE AgreedInv'
    BY <1>4, Numbers DEF DisableClient, DeleteGrants, SignInTypeOK, OAuthTypeOK, Grants, CodeInv,
        AgreedInv, signInVars, accesses, user, sessions, requests
  <1>5. ASSUME NEW x \in Exchanges, NEW g \in Grants, ExchangeCode(x, g) PROVE AgreedInv'
    BY <1>5, Numbers DEF ExchangeCode, Exchange, Orphans, SignInTypeOK, OAuthTypeOK, Grants,
        CodeInv, AgreedInv, signInVars, accesses, user, sessions, requests
  <1>6. ASSUME NEW x \in Exchanges, NEW g \in Grants, ReplayCode(x, g) PROVE AgreedInv'
    BY <1>6, Numbers DEF ReplayCode, Exchange, Orphans, DeleteGrants, SignInTypeOK, OAuthTypeOK,
        Grants, CodeInv, AgreedInv, signInVars, accesses, user, sessions, requests
  <1>7. ASSUME NEW x \in Exchanges, NEW g \in Grants, ExchangeRefresh(x, g) PROVE AgreedInv'
    BY <1>7, Numbers DEF ExchangeRefresh, Exchange, Orphans, DeleteGrants, Usable, SignInTypeOK,
        OAuthTypeOK, Grants, CodeInv, AgreedInv, signInVars, accesses, user, sessions, requests
  <1>8. ASSUME NEW x \in Exchanges, NEW g \in Grants, ReplayRefresh(x, g) PROVE AgreedInv'
    BY <1>8, Numbers DEF ReplayRefresh, Exchange, Orphans, DeleteGrants, Usable, SignInTypeOK,
        OAuthTypeOK, Grants, CodeInv, AgreedInv, signInVars, accesses, user, sessions, requests
  <1>9. ASSUME \/ (\E g \in Grants : ReadConsentTicket(g))
           \/ (\E g \in Grants : ConsentRefused(g))
           \/ (\E g \in Grants : DeleteAPIToken(g))
           \/ EnableClient
           \/ PruneClient
           \/ (\E x \in Exchanges : ClientFromForm(x))
           \/ (\E x \in Exchanges : ExchangeRefused(x))
           \/ (\E a \in Accesses, g \in Grants : FindGrant(a, g))
           \/ (\E a \in Accesses : RequireEnabledClient(a))
           \/ (\E a \in Accesses : FindPermission(a))
           \/ (\E a \in Accesses : FindOwner(a))
           \/ (\E a \in Accesses : AccessRefused(a))
         PROVE  UNCHANGED <<password, version, code, codeVersion, grant, grantVersion, agreed>>
    BY <1>9 DEF ReadConsentTicket, ConsentRefused, DeleteAPIToken, EnableClient, PruneClient,
        ClientFromForm, ExchangeRefused, FindGrant, RequireEnabledClient, FindPermission, FindOwner,
        AccessRefused, Access, Exchange, Honest, Request, StillValid, Usable, signInVars, oauthVars,
        grants, accesses, user, sessions, requests
  <1>10. ASSUME UNCHANGED <<password, version, code, codeVersion, grant, grantVersion, agreed>>
       PROVE  AgreedInv'
    BY <1>10 DEF SignInTypeOK, OAuthTypeOK, Grants, CodeInv, AgreedInv
  <1> QED BY <1>1, <1>2, <1>3, <1>4, <1>5, <1>6, <1>7, <1>8, <1>9, <1>10
  DEF GrantNext, GrantStep, ExchangeStep, AccessStep

LEMMA StepClientInv ==
  ASSUME OAuthTypeOK, ClientInv, GrantNext
  PROVE  ClientInv'
  <1>1. ASSUME NEW g \in Grants, StoreCode(g) PROVE ClientInv'
    BY <1>1, Numbers DEF StoreCode, Consent, Request, OAuthTypeOK, ClientInv, user, sessions,
        accesses
  <1>2. ASSUME NEW g \in Grants, CodeExpires(g) PROVE ClientInv'
    BY <1>2, Numbers DEF CodeExpires, OAuthTypeOK, ClientInv, signInVars, accesses, user, sessions,
        requests
  <1>3. ASSUME NEW g \in Grants, RevokeGrant(g) PROVE ClientInv'
    BY <1>3, Numbers DEF RevokeGrant, DeleteGrants, OAuthTypeOK, ClientInv, signInVars, accesses,
        user, sessions, requests
  <1>4. ASSUME DisableClient PROVE ClientInv'
    BY <1>4, Numbers DEF DisableClient, DeleteGrants, OAuthTypeOK, ClientInv, signInVars, accesses,
        user, sessions, requests
  <1>5. ASSUME EnableClient PROVE ClientInv'
    BY <1>5, Numbers DEF EnableClient, OAuthTypeOK, ClientInv, signInVars, grants, accesses, user,
        sessions, requests
  <1>6. ASSUME PruneClient PROVE ClientInv'
    BY <1>6, Numbers DEF PruneClient, OAuthTypeOK, ClientInv, signInVars, grants, accesses, user,
        sessions, requests
  <1>7. ASSUME NEW x \in Exchanges, NEW g \in Grants, ExchangeCode(x, g) PROVE ClientInv'
    BY <1>7, Numbers DEF ExchangeCode, Exchange, Orphans, OAuthTypeOK, ClientInv, signInVars,
        accesses, user, sessions, requests
  <1>8. ASSUME NEW x \in Exchanges, NEW g \in Grants, ReplayCode(x, g) PROVE ClientInv'
    BY <1>8, Numbers DEF ReplayCode, Exchange, Orphans, DeleteGrants, OAuthTypeOK, ClientInv,
        signInVars, accesses, user, sessions, requests
  <1>9. ASSUME NEW x \in Exchanges, NEW g \in Grants, ExchangeRefresh(x, g) PROVE ClientInv'
    BY <1>9, Numbers DEF ExchangeRefresh, Exchange, Orphans, DeleteGrants, Usable, OAuthTypeOK,
        ClientInv, signInVars, accesses, user, sessions, requests
  <1>10. ASSUME NEW x \in Exchanges, NEW g \in Grants, ReplayRefresh(x, g) PROVE ClientInv'
    BY <1>10, Numbers DEF ReplayRefresh, Exchange, Orphans, DeleteGrants, Usable, OAuthTypeOK,
        ClientInv, signInVars, accesses, user, sessions, requests
  <1>11. ASSUME \/ (\E g \in Grants : ReadConsentTicket(g))
           \/ (\E g \in Grants : ConsentRefused(g))
           \/ (\E g \in Grants : DeleteAPIToken(g))
           \/ (\E x \in Exchanges : ClientFromForm(x))
           \/ (\E x \in Exchanges : ExchangeRefused(x))
           \/ (\E a \in Accesses, g \in Grants : FindGrant(a, g))
           \/ (\E a \in Accesses : RequireEnabledClient(a))
           \/ (\E a \in Accesses : FindPermission(a))
           \/ (\E a \in Accesses : FindOwner(a))
           \/ (\E a \in Accesses : AccessRefused(a))
         PROVE  UNCHANGED <<client, code, grant>>
    BY <1>11 DEF ReadConsentTicket, ConsentRefused, DeleteAPIToken, ClientFromForm, ExchangeRefused,
        FindGrant, RequireEnabledClient, FindPermission, FindOwner, AccessRefused, Access, Exchange,
        Honest, Request, StillValid, Usable, signInVars, oauthVars, grants, accesses, user,
        sessions, requests
  <1>12. ASSUME UNCHANGED <<client, code, grant>> PROVE ClientInv'
    BY <1>12 DEF OAuthTypeOK, ClientInv
  <1> QED BY <1>1, <1>2, <1>3, <1>4, <1>5, <1>6, <1>7, <1>8, <1>9, <1>10, <1>11, <1>12
  DEF GrantNext, GrantStep, ExchangeStep, AccessStep

LEMMA StepReplayInv ==
  ASSUME OAuthTypeOK, CodeInv, AgreedInv, ClientInv, ReplayInv, GrantNext
  PROVE  ReplayInv'
  <1>1. ASSUME NEW g \in Grants, RevokeGrant(g) PROVE ReplayInv'
    BY <1>1, Numbers DEF RevokeGrant, DeleteGrants, OAuthTypeOK, CodeInv, ClientInv, ReplayInv,
        Spent, signInVars, accesses, user, sessions, requests
  <1>2. ASSUME NEW g \in Grants, DeleteAPIToken(g) PROVE ReplayInv'
    BY <1>2, Numbers DEF DeleteAPIToken, OAuthTypeOK, CodeInv, ClientInv, ReplayInv, Spent,
        signInVars, accesses, user, sessions, requests
  <1>3. ASSUME DisableClient PROVE ReplayInv'
    BY <1>3, Numbers DEF DisableClient, DeleteGrants, OAuthTypeOK, CodeInv, ClientInv, ReplayInv,
        Spent, signInVars, accesses, user, sessions, requests
  <1>4. ASSUME NEW x \in Exchanges, NEW g \in Grants, ExchangeCode(x, g) PROVE ReplayInv'
    BY <1>4, Numbers DEF ExchangeCode, Exchange, Orphans, OAuthTypeOK, CodeInv, ClientInv,
        ReplayInv, Spent, signInVars, accesses, user, sessions, requests
  <1>5. ASSUME NEW x \in Exchanges, NEW g \in Grants, ReplayCode(x, g) PROVE ReplayInv'
    BY <1>5, Numbers DEF ReplayCode, Exchange, Orphans, DeleteGrants, OAuthTypeOK, CodeInv,
        ClientInv, ReplayInv, Spent, signInVars, accesses, user, sessions, requests
  <1>6. ASSUME NEW x \in Exchanges, NEW g \in Grants, ExchangeRefresh(x, g) PROVE ReplayInv'
    BY <1>6, Numbers DEF ExchangeRefresh, Exchange, Orphans, DeleteGrants, Usable, OAuthTypeOK,
        CodeInv, ClientInv, ReplayInv, Spent, signInVars, accesses, user, sessions, requests
  <1>7. ASSUME NEW x \in Exchanges, NEW g \in Grants, ReplayRefresh(x, g) PROVE ReplayInv'
    BY <1>7, Numbers DEF ReplayRefresh, Exchange, Orphans, DeleteGrants, Usable, OAuthTypeOK,
        CodeInv, ClientInv, ReplayInv, Spent, signInVars, accesses, user, sessions, requests
  <1>8. ASSUME \/ (\E g \in Grants : ReadConsentTicket(g))
           \/ (\E g \in Grants : StoreCode(g))
           \/ (\E g \in Grants : ConsentRefused(g))
           \/ (\E g \in Grants : CodeExpires(g))
           \/ EnableClient
           \/ PruneClient
           \/ (\E x \in Exchanges : ClientFromForm(x))
           \/ (\E x \in Exchanges : ExchangeRefused(x))
           \/ (\E a \in Accesses, g \in Grants : FindGrant(a, g))
           \/ (\E a \in Accesses : RequireEnabledClient(a))
           \/ (\E a \in Accesses : FindPermission(a))
           \/ (\E a \in Accesses : FindOwner(a))
           \/ (\E a \in Accesses : AccessRefused(a))
         PROVE  UNCHANGED <<version, grant, grantVersion, permission, replayed>>
    BY <1>8 DEF ReadConsentTicket, StoreCode, ConsentRefused, CodeExpires, EnableClient,
        PruneClient, ClientFromForm, ExchangeRefused, FindGrant, RequireEnabledClient,
        FindPermission, FindOwner, AccessRefused, Access, Consent, Exchange, Honest, Request,
        StillValid, Usable, signInVars, oauthVars, grants, accesses, user, sessions, requests
  <1>9. ASSUME UNCHANGED <<version, grant, grantVersion, permission, replayed>> PROVE ReplayInv'
    BY <1>9 DEF OAuthTypeOK, CodeInv, ClientInv, ReplayInv, Spent
  <1> QED BY <1>1, <1>2, <1>3, <1>4, <1>5, <1>6, <1>7, <1>8, <1>9 DEF GrantNext, GrantStep,
         ExchangeStep, AccessStep

LEMMA StepAccessInv ==
  ASSUME OAuthTypeOK, CodeInv, ClientInv, ReplayInv, AccessInv, GrantNext
  PROVE  AccessInv'
  <1>1. ASSUME NEW g \in Grants, RevokeGrant(g) PROVE AccessInv'
    BY <1>1, Numbers DEF RevokeGrant, DeleteGrants, OAuthTypeOK, CodeInv, ClientInv, AccessInv,
        Spent, signInVars, accesses, user, sessions, requests
  <1>2. ASSUME NEW g \in Grants, DeleteAPIToken(g) PROVE AccessInv'
    BY <1>2, Numbers DEF DeleteAPIToken, OAuthTypeOK, CodeInv, ClientInv, AccessInv, Spent,
        signInVars, accesses, user, sessions, requests
  <1>3. ASSUME DisableClient PROVE AccessInv'
    BY <1>3, Numbers DEF DisableClient, DeleteGrants, OAuthTypeOK, CodeInv, ClientInv, AccessInv,
        Spent, signInVars, accesses, user, sessions, requests
  <1>4. ASSUME NEW x \in Exchanges, NEW g \in Grants, ExchangeCode(x, g) PROVE AccessInv'
    BY <1>4, Numbers DEF ExchangeCode, Exchange, Orphans, OAuthTypeOK, CodeInv, ClientInv,
        AccessInv, Spent, signInVars, accesses, user, sessions, requests
  <1>5. ASSUME NEW x \in Exchanges, NEW g \in Grants, ReplayCode(x, g) PROVE AccessInv'
    BY <1>5, Numbers DEF ReplayCode, Exchange, Orphans, DeleteGrants, OAuthTypeOK, CodeInv,
        ClientInv, AccessInv, Spent, signInVars, accesses, user, sessions, requests
  <1>6. ASSUME NEW x \in Exchanges, NEW g \in Grants, ExchangeRefresh(x, g) PROVE AccessInv'
    BY <1>6, Numbers DEF ExchangeRefresh, Exchange, Orphans, DeleteGrants, Usable, OAuthTypeOK,
        CodeInv, ClientInv, AccessInv, Spent, signInVars, accesses, user, sessions, requests
  <1>7. ASSUME NEW x \in Exchanges, NEW g \in Grants, ReplayRefresh(x, g) PROVE AccessInv'
    BY <1>7, Numbers DEF ReplayRefresh, Exchange, Orphans, DeleteGrants, Usable, OAuthTypeOK,
        CodeInv, ClientInv, AccessInv, Spent, signInVars, accesses, user, sessions, requests
  <1>8. ASSUME NEW a \in Accesses, NEW g \in Grants, FindGrant(a, g) PROVE AccessInv'
    BY <1>8, Numbers DEF FindGrant, Access, Honest, Usable, OAuthTypeOK, CodeInv, ClientInv,
        AccessInv, Spent, ReplayInv, signInVars, grants, user, sessions, requests
  <1>9. ASSUME NEW a \in Accesses, RequireEnabledClient(a) PROVE AccessInv'
    BY <1>9, Numbers DEF RequireEnabledClient, Access, OAuthTypeOK, CodeInv, ClientInv, AccessInv,
        Spent, signInVars, grants, user, sessions, requests
  <1>10. ASSUME NEW a \in Accesses, FindPermission(a) PROVE AccessInv'
    BY <1>10, Numbers DEF FindPermission, Access, StillValid, Honest, Usable, OAuthTypeOK, CodeInv,
        ClientInv, AccessInv, Spent, ReplayInv, signInVars, grants, user, sessions, requests
  <1>11. ASSUME NEW a \in Accesses, FindOwner(a) PROVE AccessInv'
    BY <1>11, Numbers DEF FindOwner, Access, OAuthTypeOK, CodeInv, ClientInv, AccessInv, Spent,
        signInVars, grants, user, sessions, requests
  <1>12. ASSUME NEW a \in Accesses, AccessRefused(a) PROVE AccessInv'
    BY <1>12, Numbers DEF AccessRefused, OAuthTypeOK, CodeInv, ClientInv, AccessInv, Spent,
        signInVars, grants, user, sessions, requests
  <1>13. ASSUME \/ (\E g \in Grants : ReadConsentTicket(g))
           \/ (\E g \in Grants : StoreCode(g))
           \/ (\E g \in Grants : ConsentRefused(g))
           \/ (\E g \in Grants : CodeExpires(g))
           \/ EnableClient
           \/ PruneClient
           \/ (\E x \in Exchanges : ClientFromForm(x))
           \/ (\E x \in Exchanges : ExchangeRefused(x))
         PROVE  UNCHANGED <<version, grant, grantVersion, permission, access, of, valid>>
    BY <1>13 DEF ReadConsentTicket, StoreCode, ConsentRefused, CodeExpires, EnableClient,
        PruneClient, ClientFromForm, ExchangeRefused, Consent, Exchange, Request, signInVars,
        oauthVars, grants, accesses, user, sessions, requests
  <1>14. ASSUME UNCHANGED <<version, grant, grantVersion, permission, access, of, valid>>
       PROVE  AccessInv'
    BY <1>14 DEF OAuthTypeOK, CodeInv, ClientInv, AccessInv, Spent
  <1> QED BY <1>1, <1>2, <1>3, <1>4, <1>5, <1>6, <1>7, <1>8, <1>9, <1>10, <1>11, <1>12, <1>13, <1>14
  DEF GrantNext, GrantStep, ExchangeStep, AccessStep

(* Whatever the sign-in does leaves the grants as sound as they were. *)
LEMMA SignInKeepsGrants ==
  ASSUME SignInTypeOK, SignInv, OAuthTypeOK, GrantInv, SignInNext, UNCHANGED oauthVars
  PROVE  (AgreedInv /\ ReplayInv /\ AccessInv)'
  <1>1. UserMoved /\ version' \in Nat
    BY UserMoves, SignInTypes DEF SignInTypeOK
  <1>2. UNCHANGED <<client, disables, code, codeVersion, grant, grantVersion, agreed, permission,
                    rotation, exchange, replayed, access, of, valid>>
    BY DEF oauthVars, grants, accesses
  <1>3. AgreedInv'
    BY <1>1, <1>2 DEF GrantInv, AgreedInv, UserMoved, SignInTypeOK, OAuthTypeOK
  <1>4. \A g \in Grants : Spent(g) => Spent(g)'
    BY <1>1, <1>2 DEF GrantInv, AgreedInv, Spent, UserMoved, SignInTypeOK, OAuthTypeOK
  <1>5. ReplayInv'
    BY <1>2, <1>4 DEF GrantInv, ReplayInv, OAuthTypeOK
  <1>6. AccessInv'
    <2>1. SUFFICES ASSUME NEW a \in Accesses, access[a] # "off"
          PROVE  /\ grant[of[a]] # "none"
                 /\ access[a] \in {"grant", "client"} /\ a \notin valid => Spent(of[a])'
                 /\ access[a] = "permission" /\ a \notin valid => grantVersion[of[a]] # version'
      BY <1>2 DEF AccessInv
    <2>2. of[a] \in Grants /\ grant[of[a]] # "none"
      BY <2>1 DEF OAuthTypeOK, GrantInv, AccessInv
    <2>3. grantVersion[of[a]] <= version /\ grantVersion[of[a]] \in Nat
      BY <2>2 DEF OAuthTypeOK, GrantInv, AgreedInv
    <2>4. Spent(of[a]) => Spent(of[a])'
      BY <1>2, <1>4, <2>2
    <2>5. grantVersion[of[a]] # version => grantVersion[of[a]] # version'
      BY <1>1, <2>3 DEF UserMoved, SignInTypeOK
    <2> QED BY <2>1, <2>2, <2>4, <2>5 DEF GrantInv, AccessInv
  <1> QED BY <1>3, <1>5, <1>6

-----------------------------------------------------------------------------
(* What holds whether or not updates take turns. *)
GrantShape == SignInTypeOK /\ OAuthTypeOK /\ CodeInv /\ ClientInv

LEMMA ShapeKept ==
  ASSUME GrantShape, [OAuthNext]_<<signInVars, oauthVars>>
  PROVE  GrantShape'
  <1>1. CASE SignInNext /\ UNCHANGED oauthVars
    <2>1. SignInTypeOK' /\ DoneStays
      BY <1>1, SignInTypes, RequestsEnd DEF GrantShape
    <2>2. UNCHANGED <<client, disables, code, codeVersion, grant, grantVersion, agreed, permission,
                      rotation, exchange, replayed, access, of, valid>>
      BY <1>1 DEF oauthVars, grants, accesses
    <2>3. (OAuthTypeOK /\ ClientInv)'
      BY <2>2 DEF GrantShape, OAuthTypeOK, ClientInv
    <2>4. CodeInv'
      BY <2>1, <2>2 DEF GrantShape, CodeInv, DoneStays, Grants
    <2> QED BY <2>1, <2>3, <2>4 DEF GrantShape
  <1>2. CASE GrantNext
    BY <1>2, GrantTypes, StepCodeInv, StepClientInv DEF GrantShape
  <1>3. CASE UNCHANGED <<signInVars, oauthVars>>
    BY <1>3 DEF signInVars, user, sessions, requests, oauthVars, grants, accesses, GrantShape,
                SignInTypeOK, OAuthTypeOK, CodeInv, ClientInv
  <1> QED BY <1>1, <1>2, <1>3 DEF OAuthNext, GrantNext

LEMMA SignInKept ==
  ASSUME UpdatesInTurn, SignInTypeOK, SignInv, [SignInNext]_signInVars
  PROVE  (SignInTypeOK /\ SignInv)'
  <1>1. CASE SignInNext
    BY <1>1, UpdatesInTurn, SignInTypes, StepSessionInv, StepUpdateInv, StepConsentInv DEF SignInv
  <1>2. CASE UNCHANGED signInVars
    BY <1>2 DEF signInVars, user, sessions, requests, SignInTypeOK, SignInv, SessionInv, UpdateInv,
                Updating, ConsentInv
  <1> QED BY <1>1, <1>2

LEMMA OAuthKept ==
  ASSUME UpdatesInTurn, GrantShape, SignInv, GrantInv, [OAuthNext]_<<signInVars, oauthVars>>
  PROVE  (GrantShape /\ SignInv /\ GrantInv)'
  <1>1. CASE SignInNext /\ UNCHANGED oauthVars
    BY <1>1, UpdatesInTurn, ShapeKept, SignInKept, SignInKeepsGrants DEF GrantShape, GrantInv
  <1>2. CASE GrantNext
    BY <1>2, ShapeKept, GrantStepSignInv, StepAgreedInv, StepReplayInv, StepAccessInv
       DEF GrantShape, SignInv, GrantInv
  <1>3. CASE UNCHANGED <<signInVars, oauthVars>>
    <2>1. SignInv'
      BY <1>3, UpdatesInTurn, SignInKept DEF GrantShape
    <2>2. (AgreedInv /\ ReplayInv /\ AccessInv)'
      BY <1>3 DEF signInVars, user, oauthVars, grants, accesses, GrantInv, AgreedInv, ReplayInv, Spent, AccessInv
    <2> QED BY <2>1, <2>2, ShapeKept DEF GrantShape, GrantInv
  <1> QED BY <1>1, <1>2, <1>3 DEF OAuthNext, GrantNext

LEMMA ShapeHolds == OAuthSpec => []GrantShape
  <1>1. GrantShape /\ [OAuthNext]_<<signInVars, oauthVars>> => GrantShape'
    BY ShapeKept
  <1>2. SignInInit /\ OAuthInit => GrantShape
    BY SignInInitInv, GrantsInitInv DEF GrantShape, GrantInv
  <1> QED BY <1>1, <1>2, PTL DEF OAuthSpec

LEMMA OAuthInvHolds ==
  ASSUME UpdatesInTurn
  PROVE  OAuthSpec => [](GrantShape /\ SignInv /\ GrantInv)
  <1>1. GrantShape /\ SignInv /\ GrantInv /\ [OAuthNext]_<<signInVars, oauthVars>> =>
            (GrantShape /\ SignInv /\ GrantInv)'
    BY UpdatesInTurn, OAuthKept
  <1>2. SignInInit /\ OAuthInit => GrantShape /\ SignInv /\ GrantInv
    BY SignInInitInv, GrantsInitInv DEF GrantShape, GrantInv
  <1> QED BY <1>1, <1>2, PTL DEF OAuthSpec

(* Every variable of the sign-in and of the grants keeps its declared type,  *)
(* also when profile updates overlap.                                        *)
THEOREM AccessTypes == OAuthSpec => [](SignInTypeOK /\ OAuthTypeOK)
  <1>1. GrantShape => SignInTypeOK /\ OAuthTypeOK
    BY DEF GrantShape
  <1> QED BY <1>1, ShapeHolds, PTL

(* For any number of sessions and requests, if profile updates take turns:   *)
(* a session lets in whoever knew the present password when it was issued,   *)
(* although revoking the sessions and storing a new one may overlap.         *)
THEOREM SessionsFollowPassword == UpdatesInTurn => (SignInSpec => SessionsOfPassword)
  <1> SUFFICES ASSUME UpdatesInTurn PROVE SignInSpec => SessionsOfPassword
    OBVIOUS
  <1>1. SignInTypeOK /\ SignInv /\ [SignInNext]_signInVars => (SignInTypeOK /\ SignInv)'
    BY UpdatesInTurn, SignInKept
  <1>2. ASSUME SignInTypeOK, SignInv, SignInNext, NEW r \in Requests, request[r] = "found", request'[r] = "in"
        PROVE  proof[shows[r]] = password
    <2>1. PICK q \in Requests : FindUser(q)
      <3>1. ASSUME \/ (\E s \in Sessions : Authenticator(s))
               \/ (\E s \in Sessions : OAuth2Callback(s))
               \/ (\E s \in Sessions : ReadBoundUser(s))
               \/ (\E s \in Sessions : IssueJWTSession(s))
               \/ (\E s \in Sessions : SessionExpires(s))
               \/ (\E q \in Requests, s \in Sessions, i \in Intents : FindSession(q, s, i))
               \/ (\E q \in Requests : Unauthorized(q))
               \/ (\E q \in Requests : Ends(q))
               \/ (\E q \in Requests : CountBindings(q))
               \/ (\E q \in Requests : SaveUser(q))
               \/ (\E q \in Requests : RevokeJWTSessionsByUser(q))
               \/ (\E q \in Requests, p \in Providers : CountOfProvider(q, p))
               \/ (\E q \in Requests : DeleteBindings(q))
               \/ (\E q \in Requests, a \in Accounts, s \in Sessions : Bind(q, a, s))
               \/ (\E a \in Accounts : BoundElsewhere(a))
            PROVE  request'[r] # "in"
        BY <1>2, <3>1 DEF Authenticator, OAuth2Callback, ReadBoundUser, IssueJWTSession, SessionExpires,
               FindSession, Unauthorized, Ends, CountBindings, SaveUser,
               RevokeJWTSessionsByUser, CountOfProvider, DeleteBindings, Bind,
               BoundElsewhere, Session, ReadUser, Request, user, sessions,
               requests, SignInTypeOK
      <3> QED BY <1>2, <3>1 DEF SignInNext, SessionStep, VisitStep
    <2>2. q = r
      BY <1>2, <2>1 DEF FindUser, Request, SignInTypeOK
    <2> QED BY <1>2, <2>1, <2>2 DEF FindUser, SignInTypeOK, SignInv, SessionInv
  <1>3. SignInTypeOK /\ SignInv /\ [SignInNext]_signInVars =>
            [\A r \in Requests : request[r] = "found" /\ request'[r] = "in" =>
                proof[shows[r]] = password]_signInVars
    BY <1>2
  <1> QED BY <1>1, <1>3, SignInInitInv, PTL DEF SignInSpec, SessionsOfPassword

(* For any number of consents, exchanges and calls: a client that is not     *)
(* enabled holds no grant, no permission and no code, also when a consent or *)
(* an exchange began before it was disabled.                                 *)
THEOREM DisablingEndsAll == OAuthSpec => []DisabledHoldsNothing
  <1>1. GrantShape => DisabledHoldsNothing
    BY DEF GrantShape, OAuthTypeOK, CodeInv, ClientInv, DisabledHoldsNothing
  <1> QED BY <1>1, ShapeHolds, PTL

(* If profile updates take turns, a grant stays dead once one of its used    *)
(* credentials was presented.                                                *)
THEOREM ReplayEndsGrant == UpdatesInTurn => (OAuthSpec => []ReplayedIsDead)
  <1> SUFFICES ASSUME UpdatesInTurn PROVE OAuthSpec => []ReplayedIsDead
    OBVIOUS
  <1>1. GrantShape /\ GrantInv => ReplayedIsDead
    BY DEF GrantShape, OAuthTypeOK, GrantInv, ReplayInv, Spent, Usable, ReplayedIsDead
  <1> QED BY <1>1, OAuthInvHolds, PTL

(* And a call is let in only if its grant was usable at two of its four      *)
(* reads, for the password under which the user agreed.                      *)
THEOREM CallsOfValidGrants == UpdatesInTurn => (OAuthSpec => LetInWasValid)
  <1> SUFFICES ASSUME UpdatesInTurn PROVE OAuthSpec => LetInWasValid
    OBVIOUS
  <1>1. ASSUME OAuthTypeOK, GrantInv, OAuthNext, NEW a \in Accesses, access[a] # "in", access'[a] = "in"
        PROVE  a \in valid /\ agreed[of[a]] = password
    <2>1. access' # access /\ ~UNCHANGED oauthVars
      BY <1>1 DEF oauthVars, accesses
    <2>2. PICK b \in Accesses : FindOwner(b)
      <3>1. ASSUME \/ (\E g \in Grants : ReadConsentTicket(g))
               \/ (\E g \in Grants : StoreCode(g))
               \/ (\E g \in Grants : ConsentRefused(g))
               \/ (\E g \in Grants : CodeExpires(g))
               \/ (\E g \in Grants : RevokeGrant(g))
               \/ (\E g \in Grants : DeleteAPIToken(g))
               \/ DisableClient
               \/ EnableClient
               \/ PruneClient
               \/ (\E x \in Exchanges : ClientFromForm(x))
               \/ (\E x \in Exchanges, g \in Grants : ExchangeCode(x, g))
               \/ (\E x \in Exchanges, g \in Grants : ReplayCode(x, g))
               \/ (\E x \in Exchanges, g \in Grants : ExchangeRefresh(x, g))
               \/ (\E x \in Exchanges, g \in Grants : ReplayRefresh(x, g))
               \/ (\E x \in Exchanges : ExchangeRefused(x))
               \/ (\E b \in Accesses, g \in Grants : FindGrant(b, g))
               \/ (\E b \in Accesses : RequireEnabledClient(b))
               \/ (\E b \in Accesses : FindPermission(b))
               \/ (\E b \in Accesses : AccessRefused(b))
            PROVE  access'[a] # "in"
        BY <1>1, <3>1 DEF ReadConsentTicket, StoreCode, ConsentRefused, CodeExpires, RevokeGrant,
               DeleteAPIToken, DisableClient, EnableClient, PruneClient,
               ClientFromForm, ExchangeCode, ReplayCode, ExchangeRefresh,
               ReplayRefresh, ExchangeRefused, FindGrant, RequireEnabledClient,
               FindPermission, AccessRefused, Request, Consent, DeleteGrants,
               Exchange, Orphans, Usable, Access, Honest, StillValid, signInVars,
               oauthVars, grants, accesses, user, sessions, requests, OAuthTypeOK
      <3> QED BY <1>1, <2>1, <3>1 DEF OAuthNext, GrantStep, ExchangeStep, AccessStep
    <2>3. b = a
      BY <1>1, <2>2 DEF FindOwner, Access, OAuthTypeOK
    <2>4. access[a] = "permission" /\ grantVersion[of[a]] = version /\ of[a] \in Grants
      BY <2>2, <2>3, <1>1 DEF FindOwner, Access, OAuthTypeOK
    <2> QED BY <1>1, <2>4 DEF GrantInv, AccessInv, AgreedInv
  <1>2. GrantShape /\ GrantInv /\ [OAuthNext]_<<signInVars, oauthVars>> =>
            [\A a \in Accesses : access[a] # "in" /\ access'[a] = "in" =>
                a \in valid /\ agreed[of[a]] = password]_oauthVars
    BY <1>1 DEF GrantShape
  <1> QED BY <1>2, OAuthInvHolds, PTL DEF OAuthSpec, LetInWasValid
=============================================================================
