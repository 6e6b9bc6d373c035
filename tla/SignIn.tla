------------------------------- MODULE SignIn -------------------------------
(* The sign-in of one user: sessions issued for a password or a bound        *)
(* account (controller/jwt.go, oauth2.go), the requests that show them, and  *)
(* what such a request changes of the user: the profile (controller/user.go) *)
(* and the bindings (oauth2.go).                                             *)
EXTENDS Naturals, FiniteSets

CONSTANTS
    Providers, OpenIds,  \* OAuth2 providers, and the user's accounts at each
    MaxSessions,         \* bound: sessions issued
    MaxRequests,         \* bound: requests that show a session
    OverlappingUpdates   \* whether two profile updates may overlap

ASSUME SignInAssumption ==
    /\ MaxSessions \in Nat /\ MaxRequests \in Nat /\ OverlappingUpdates \in BOOLEAN

Accounts == Providers \X OpenIds
Of(p) == {p} \X OpenIds
Sessions == 1 .. MaxSessions
Requests == 1 .. MaxRequests
Intents == {"visit", "profile", "unbind", "bind", "consent"}
NoSession == 0

VARIABLES
    password,  \* which request set it; 0 for the first one
    version,   \* User.TokenVersion
    reject,    \* User.RejectPassword
    binds,     \* the user's oauth2_binds
    session,   \* each session: on its way, live, revoked, gone
    stamp,     \* JWTSession.TokenVersion
    proof,     \* history: the password of the user row it was issued for
    request, intent, shows,  \* each request: position, purpose, session
    row,       \* the user row it was authenticated with, or is to save
    provider   \* the providers it is to unbind

user == <<password, version, reject, binds>>
sessions == <<session, stamp, proof>>
requests == <<request, intent, shows, row, provider>>
signInVars == <<user, sessions, requests>>

User == [password |-> password, version |-> version, reject |-> reject]

SignInInit ==
    /\ password = 0 /\ version = 0 /\ reject = FALSE /\ binds = {}
    /\ session = [s \in Sessions |-> "off"] /\ stamp = [s \in Sessions |-> 0] /\ proof = stamp
    /\ request = [r \in Requests |-> "off"] /\ intent = [r \in Requests |-> "visit"]
    /\ shows = [r \in Requests |-> NoSession] /\ row = [r \in Requests |-> User]
    /\ provider = [r \in Requests |-> {}]

-----------------------------------------------------------------------------
(* Signing in. Between the user row and the session row anything may happen. *)

Session(s, here, there) == session[s] = here /\ session' = [session EXCEPT ![s] = there]
New(s) == \A q \in Sessions : q < s => session[q] # "off"

ReadUser(s) ==
    /\ stamp' = [stamp EXCEPT ![s] = version] /\ proof' = [proof EXCEPT ![s] = password]

Authenticator(s) ==
    /\ New(s) /\ ~reject /\ Session(s, "off", "read") /\ ReadUser(s)
    /\ UNCHANGED <<user, requests>>

(* The callback of a login: one state admits one callback.                   *)
OAuth2Callback(s) ==
    /\ New(s) /\ binds # {} /\ Session(s, "off", "bound")
    /\ UNCHANGED <<user, stamp, proof, requests>>

ReadBoundUser(s) ==
    /\ Session(s, "bound", "read") /\ ReadUser(s)
    /\ UNCHANGED <<user, requests>>

IssueJWTSessionNow(s) ==   \* mutant: it is stamped when it is stored
    /\ Session(s, "read", "live") /\ stamp' = [stamp EXCEPT ![s] = version]
    /\ UNCHANGED <<user, proof, requests>>
IssueJWTSession(s) ==
    /\ Session(s, "read", "live")
    /\ UNCHANGED <<user, stamp, proof, requests>>

(* It expires or is dropped by the collector; RefreshResponse puts that off. *)
SessionExpires(s) ==
    /\ session[s] \in {"live", "revoked"} /\ session' = [session EXCEPT ![s] = "gone"]
    /\ UNCHANGED <<user, stamp, proof, requests>>

-----------------------------------------------------------------------------
(* A request is authenticated: the session first, then the user.             *)

Request(r, here, there) == request[r] = here /\ request' = [request EXCEPT ![r] = there]

FindSession(r, s, i) ==
    /\ Request(r, "off", "found") /\ \A q \in Requests : q < r => request[q] # "off"
    /\ session[s] = "live"
    /\ shows' = [shows EXCEPT ![r] = s] /\ intent' = [intent EXCEPT ![r] = i]
    /\ UNCHANGED <<user, sessions, row, provider>>

Updating(r) == intent[r] = "profile" /\ request[r] \in {"in", "counted"}
FindUser(r) ==
    /\ Request(r, "found", "in") /\ stamp[shows[r]] = version
    /\ OverlappingUpdates \/ intent[r] # "profile" \/ \A q \in Requests : ~Updating(q)
    /\ row' = [row EXCEPT ![r] = User]
    /\ UNCHANGED <<user, sessions, intent, shows, provider>>

Unauthorized(r) ==
    /\ Request(r, "found", "done") /\ stamp[shows[r]] # version
    /\ UNCHANGED <<user, sessions, intent, shows, row, provider>>

(* A request that is let in does its work and ends, or gives up at any step. *)
Ends(r) ==
    /\ request[r] \in {"in", "counted", "saved"} /\ request' = [request EXCEPT ![r] = "done"]
    /\ UNCHANGED <<user, sessions, intent, shows, row, provider>>

-----------------------------------------------------------------------------
(* updateProfile: the whole row it was authenticated with is saved, changed. *)

CountBindings(r) ==
    /\ intent[r] = "profile" /\ Request(r, "in", "counted")
    /\ \E p \in {r, row[r].password}, b \in BOOLEAN :
        /\ b => binds # {}
        /\ row' = [row EXCEPT ![r] = [password |-> p, version |-> @.version + 1, reject |-> b]]
    /\ UNCHANGED <<user, sessions, intent, shows, provider>>

SaveUser(r) ==
    /\ intent[r] = "profile" /\ Request(r, "counted", "saved")
    /\ password' = row[r].password /\ version' = row[r].version /\ reject' = row[r].reject
    /\ UNCHANGED <<binds, sessions, intent, shows, row, provider>>

RevokeJWTSessionsByUser(r) ==
    /\ Request(r, "saved", "done")
    /\ session' = [s \in Sessions |-> IF session[s] = "live" THEN "revoked" ELSE session[s]]
    /\ UNCHANGED <<user, stamp, proof, intent, shows, row, provider>>

-----------------------------------------------------------------------------
(* Bindings.                                                                 *)

CountOfProvider(r, p) ==
    /\ intent[r] = "unbind" /\ Request(r, "in", "counted")
    /\ ~row[r].reject \/ Cardinality(binds \cap Of(p)) >= 2
    /\ provider' = [provider EXCEPT ![r] = {p}]
    /\ UNCHANGED <<user, sessions, intent, shows, row>>

DeleteBindings(r) ==
    /\ intent[r] = "unbind" /\ Request(r, "counted", "done")
    /\ binds' = binds \ UNION {Of(p) : p \in provider[r]}
    /\ UNCHANGED <<password, version, reject, sessions, intent, shows, row, provider>>

(* The callback of a binding signs the user in again.                        *)
Bind(r, a, s) ==
    /\ intent[r] = "bind" /\ Request(r, "in", "done") /\ binds' = binds \cup {a}
    /\ New(s) /\ Session(s, "off", "bound")
    /\ UNCHANGED <<password, version, reject, stamp, proof, intent, shows, row, provider>>

(* Another user binds the same account, and takes the row over. *)
BoundElsewhere(a) ==
    /\ a \in binds /\ binds' = binds \ {a}
    /\ UNCHANGED <<password, version, reject, sessions, requests>>

-----------------------------------------------------------------------------
SessionStep(s) ==
    Authenticator(s) \/ OAuth2Callback(s) \/ ReadBoundUser(s) \/ IssueJWTSession(s) \/ SessionExpires(s)
VisitStep(r) ==
    \/ FindUser(r) \/ Unauthorized(r) \/ Ends(r)
    \/ CountBindings(r) \/ SaveUser(r) \/ RevokeJWTSessionsByUser(r)
    \/ DeleteBindings(r) \/ \E p \in Providers : CountOfProvider(r, p)

SignInNext ==
    \/ \E s \in Sessions : SessionStep(s)
    \/ \E r \in Requests :
        \/ VisitStep(r)
        \/ \E s \in Sessions : (\E i \in Intents : FindSession(r, s, i)) \/ (\E a \in Accounts : Bind(r, a, s))
    \/ \E a \in Accounts : BoundElsewhere(a)

SignInSpec == SignInInit /\ [][SignInNext]_signInVars

-----------------------------------------------------------------------------
SignInTypeOK ==
    /\ password \in 0 .. MaxRequests /\ version \in Nat /\ reject \in BOOLEAN /\ binds \subseteq Accounts
    /\ session \in [Sessions -> {"off", "bound", "read", "live", "revoked", "gone"}]
    /\ stamp \in [Sessions -> Nat] /\ proof \in [Sessions -> 0 .. MaxRequests]
    /\ request \in [Requests -> {"off", "found", "in", "counted", "asked", "saved", "done"}]
    /\ intent \in [Requests -> Intents] /\ shows \in [Requests -> 0 .. MaxSessions]
    /\ \A r \in Requests : request[r] # "off" => shows[r] \in Sessions
    /\ row \in [Requests -> [password : 0 .. MaxRequests, version : Nat, reject : BOOLEAN]]
    /\ provider \in [Requests -> SUBSET Providers]

(* A session lets in whoever knew the present password when it was issued,   *)
(* or was signed in by a provider under it: a login that a change overtook   *)
(* between its two rows is not among them, nor is one that the revocation    *)
(* of sessions missed or failed to reach.                                    *)
SessionsOfPassword == [][\A r \in Requests :
    request[r] = "found" /\ request'[r] = "in" => proof[shows[r]] = password]_signInVars

(* Who may not sign in with the password cannot unbind the last account.     *)
UnbindKeepsOne == [][\A r \in Requests :
    intent[r] = "unbind" /\ DeleteBindings(r) /\ reject => binds' # {}]_signInVars
=============================================================================
