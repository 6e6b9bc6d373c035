---------------------------- MODULE OAuthGrants ----------------------------
(* What a user of SignIn lets an MCP client do: authorization codes, grants  *)
(* with rotating tokens and the API tokens that carry their permissions, the *)
(* transactions that change them (controller/mcp_oauth*.go), and the calls   *)
(* of /mcp that look them up one after the other.                            *)
EXTENDS SignIn

CONSTANTS
    MaxExchanges,  \* bound: requests to the token endpoint
    MaxAccesses,   \* bound: calls with an access token
    MaxRotations,  \* bound: refreshes of a grant
    MaxDisables    \* bound: times the client is disabled

ASSUME OAuthAssumption ==
    {MaxExchanges, MaxAccesses, MaxRotations, MaxDisables} \subseteq Nat

Grants == Requests   \* named by the request that consented
Exchanges == 1 .. MaxExchanges
Accesses == 1 .. MaxAccesses
NoGrant == 0

VARIABLES
    client, disables,     \* the client's row; how often it was disabled
    code, codeVersion,    \* each MCPOAuthCode and its UserVersion
    grant, grantVersion,  \* each MCPOAuthGrant and its UserVersion
    agreed,               \* history: the password under which it was consented to
    permission,           \* grants whose API token exists
    rotation,             \* number of the present access and refresh tokens
    exchange,             \* each request to the token endpoint
    replayed,             \* history: grants of which an old credential was seen
    access, of,           \* each call: position, grant
    valid                 \* history: calls whose grant was usable, and of no replayed
                          \* credential, when it was looked up

grants == <<code, codeVersion, grant, grantVersion, agreed, permission, rotation>>
accesses == <<access, of, valid>>
oauthVars == <<client, disables, grants, exchange, replayed, accesses>>

OAuthInit ==
    /\ client = "enabled" /\ disables = 0
    /\ code = [g \in Grants |-> "none"] /\ codeVersion = [g \in Grants |-> 0]
    /\ grant = code /\ grantVersion = codeVersion /\ agreed = codeVersion
    /\ permission = {} /\ rotation = codeVersion
    /\ exchange = [x \in Exchanges |-> "off"] /\ replayed = {}
    /\ access = [a \in Accesses |-> "off"] /\ of = [a \in Accesses |-> NoGrant] /\ valid = {}

(* What an access or refresh token of the grant needs to be honoured.        *)
Usable(g) ==
    client = "enabled" /\ grant[g] = "live" /\ g \in permission /\ grantVersion[g] = version

-----------------------------------------------------------------------------
(* Consent: the client is read, later the code stored, by a request of the   *)
(* user. The ticket of the consent page carries the same user version.       *)

ReadConsentTicket(r) ==
    /\ intent[r] = "consent" /\ Request(r, "in", "asked") /\ client = "enabled"
    /\ UNCHANGED <<user, sessions, intent, shows, row, provider, oauthVars>>

Consent(r) ==
    /\ intent[r] = "consent" /\ Request(r, "asked", "done")
    /\ code' = [code EXCEPT ![r] = "stored"]
    /\ codeVersion' = [codeVersion EXCEPT ![r] = row[r].version]
    /\ agreed' = [agreed EXCEPT ![r] = row[r].password]
    /\ UNCHANGED <<user, sessions, intent, shows, row, provider, client, disables,
                   grant, grantVersion, permission, rotation, exchange, replayed, accesses>>
StoreCodeUnchecked(r) == Consent(r)   \* mutant: the client is not read again
StoreCode(r) == client = "enabled" /\ Consent(r)

ConsentRefused(r) ==
    /\ Request(r, "asked", "done")
    /\ UNCHANGED <<user, sessions, intent, shows, row, provider, oauthVars>>

CodeExpires(g) ==
    /\ code[g] \in {"stored", "used"} /\ code' = [code EXCEPT ![g] = "gone"]
    /\ UNCHANGED <<signInVars, client, disables, codeVersion, grant, grantVersion, agreed,
                   permission, rotation, exchange, replayed, accesses>>

-----------------------------------------------------------------------------
(* Grants end: revoked by the user or the client, expired, deleted in part   *)
(* as an API token, or replayed. One transaction removes both rows, and both *)
(* expire at the same time.                                                  *)

DeleteGrants(G) ==
    /\ grant' = [g \in Grants |-> IF g \in G /\ grant[g] = "live" THEN "gone" ELSE grant[g]]
    /\ permission' = permission \ G

RevokeGrant(g) ==
    /\ grant[g] = "live" /\ DeleteGrants({g})
    /\ UNCHANGED <<signInVars, client, disables, code, codeVersion, grantVersion, agreed, rotation,
                   exchange, replayed, accesses>>

DeleteAPIToken(g) ==
    /\ g \in permission /\ permission' = permission \ {g}
    /\ UNCHANGED <<signInVars, client, disables, code, codeVersion, grant, grantVersion, agreed,
                   rotation, exchange, replayed, accesses>>

-----------------------------------------------------------------------------
(* The client. Disabling it ends what it holds; one that is unused for 90    *)
(* days, longer than any grant lives, is pruned.                             *)

DisableClient ==
    /\ client = "enabled" /\ disables < MaxDisables
    /\ client' = "disabled" /\ disables' = disables + 1 /\ DeleteGrants(Grants)
    /\ code' = [g \in Grants |-> IF code[g] = "none" THEN "none" ELSE "gone"]
    /\ UNCHANGED <<signInVars, codeVersion, grantVersion, agreed, rotation, exchange, replayed, accesses>>

EnableClient ==
    /\ client = "disabled" /\ client' = "enabled"
    /\ UNCHANGED <<signInVars, disables, grants, exchange, replayed, accesses>>

PruneClient ==
    /\ client = "enabled" /\ client' = "pruned"
    /\ \A g \in Grants : code[g] # "stored" /\ grant[g] # "live"
    /\ UNCHANGED <<signInVars, disables, grants, exchange, replayed, accesses>>

-----------------------------------------------------------------------------
(* The token endpoint: the client is authenticated, then one transaction,    *)
(* which also drops the grants whose permission is gone, unless it fails.    *)

Exchange(x, here, there) == exchange[x] = here /\ exchange' = [exchange EXCEPT ![x] = there]

Orphans == {g \in Grants : grant[g] = "live" /\ g \notin permission}

ClientFromForm(x) ==
    /\ Exchange(x, "off", "client") /\ client = "enabled"
    /\ \A y \in Exchanges : y < x => exchange[y] # "off"
    /\ UNCHANGED <<signInVars, client, disables, grants, replayed, accesses>>

ExchangeCode(x, g) ==
    /\ Exchange(x, "client", "done") /\ client = "enabled"
    /\ code[g] = "stored" /\ codeVersion[g] = version
    /\ code' = [code EXCEPT ![g] = "used"]
    /\ grant' = [h \in Grants |-> IF h = g THEN "live" ELSE IF h \in Orphans THEN "gone" ELSE grant[h]]
    /\ permission' = permission \cup {g}
    /\ grantVersion' = [grantVersion EXCEPT ![g] = version]
    /\ UNCHANGED <<signInVars, client, disables, codeVersion, agreed, rotation, replayed, accesses>>

(* A code that comes back ends the grant it was exchanged for. *)
ReplayCode(x, g) ==
    /\ Exchange(x, "client", "done") /\ client = "enabled" /\ code[g] = "used"
    /\ replayed' = replayed \cup {g}
    /\ IF g \in permission THEN DeleteGrants({g} \cup Orphans) ELSE UNCHANGED <<grant, permission>>
    /\ UNCHANGED <<signInVars, client, disables, code, codeVersion, grantVersion, agreed, rotation, accesses>>

ExchangeRefresh(x, g) ==
    /\ Exchange(x, "client", "done") /\ Usable(g) /\ rotation[g] < MaxRotations
    /\ rotation' = [rotation EXCEPT ![g] = @ + 1] /\ DeleteGrants(Orphans)
    /\ UNCHANGED <<signInVars, client, disables, code, codeVersion, grantVersion, agreed,
                   replayed, accesses>>

(* So does a refresh token that has been rotated away, unless the grant is   *)
(* of no use any more.                                                       *)
ReplayRolledBack(x, g) ==   \* mutant: the deletion does not survive the error
    /\ Exchange(x, "client", "done") /\ rotation[g] > 0 /\ replayed' = replayed \cup {g}
    /\ UNCHANGED <<signInVars, client, disables, grants, accesses>>
ReplayRefresh(x, g) ==
    /\ Exchange(x, "client", "done") /\ rotation[g] > 0 /\ replayed' = replayed \cup {g}
    /\ IF Usable(g) THEN DeleteGrants({g} \cup Orphans) ELSE UNCHANGED <<grant, permission>>
    /\ UNCHANGED <<signInVars, client, disables, code, codeVersion, grantVersion, agreed, rotation, accesses>>

ExchangeRefused(x) ==
    /\ Exchange(x, "client", "done")
    /\ UNCHANGED <<signInVars, client, disables, grants, replayed, accesses>>

-----------------------------------------------------------------------------
(* A call of /mcp: the grant of its access token, the client, the permission *)
(* and the user are read one after the other, in no transaction.             *)

Access(a, here, there) == access[a] = here /\ access' = [access EXCEPT ![a] = there]
Honest(g) == Usable(g) /\ g \notin replayed
StillValid(a, g) == valid' = IF Honest(g) THEN valid ELSE valid \ {a}

FindGrant(a, g) ==
    /\ Access(a, "off", "grant") /\ \A b \in Accesses : b < a => access[b] # "off"
    /\ grant[g] = "live" /\ of' = [of EXCEPT ![a] = g]
    /\ valid' = IF Honest(g) THEN valid \cup {a} ELSE valid
    /\ UNCHANGED <<signInVars, client, disables, grants, exchange, replayed>>

RequireEnabledClient(a) ==
    /\ Access(a, "grant", "client") /\ client = "enabled"
    /\ UNCHANGED <<signInVars, client, disables, grants, exchange, replayed, of, valid>>

FindPermission(a) ==
    /\ Access(a, "client", "permission") /\ of[a] \in permission /\ StillValid(a, of[a])
    /\ UNCHANGED <<signInVars, client, disables, grants, exchange, replayed, of>>

FindOwner(a) ==
    /\ Access(a, "permission", "in") /\ grantVersion[of[a]] = version
    /\ UNCHANGED <<signInVars, client, disables, grants, exchange, replayed, of, valid>>

AccessRefused(a) ==
    /\ access[a] \in {"grant", "client", "permission"} /\ access' = [access EXCEPT ![a] = "refused"]
    /\ UNCHANGED <<signInVars, client, disables, grants, exchange, replayed, of, valid>>

-----------------------------------------------------------------------------
GrantStep(g) ==
    \/ ReadConsentTicket(g) \/ StoreCode(g) \/ ConsentRefused(g) \/ CodeExpires(g)
    \/ RevokeGrant(g) \/ DeleteAPIToken(g)
ExchangeStep(x) ==
    \/ ClientFromForm(x) \/ ExchangeRefused(x)
    \/ \E g \in Grants :
        ExchangeCode(x, g) \/ ReplayCode(x, g) \/ ExchangeRefresh(x, g) \/ ReplayRefresh(x, g)
AccessStep(a) ==
    \/ RequireEnabledClient(a) \/ FindPermission(a) \/ FindOwner(a) \/ AccessRefused(a)
    \/ \E g \in Grants : FindGrant(a, g)

OAuthNext ==
    \/ SignInNext /\ UNCHANGED oauthVars
    \/ \E g \in Grants : GrantStep(g)
    \/ DisableClient \/ EnableClient \/ PruneClient
    \/ \E x \in Exchanges : ExchangeStep(x)
    \/ \E a \in Accesses : AccessStep(a)

OAuthSpec == SignInInit /\ OAuthInit /\ [][OAuthNext]_<<signInVars, oauthVars>>

-----------------------------------------------------------------------------
OAuthTypeOK ==
    /\ client \in {"enabled", "disabled", "pruned"} /\ disables \in 0 .. MaxDisables
    /\ code \in [Grants -> {"none", "stored", "used", "gone"}] /\ codeVersion \in [Grants -> Nat]
    /\ grant \in [Grants -> {"none", "live", "gone"}] /\ grantVersion \in [Grants -> Nat]
    /\ agreed \in [Grants -> 0 .. MaxRequests]
    /\ permission \subseteq Grants /\ rotation \in [Grants -> 0 .. MaxRotations]
    /\ exchange \in [Exchanges -> {"off", "client", "done"}] /\ replayed \subseteq Grants
    /\ access \in [Accesses -> {"off", "grant", "client", "permission", "in", "refused"}]
    /\ of \in [Accesses -> 0 .. MaxRequests] /\ valid \subseteq Accesses
    /\ \A a \in Accesses : access[a] # "off" => of[a] \in Grants

(* A disabled client holds nothing that enabling it could revive: no grant,  *)
(* no permission, no code, not even one whose consent was under way.         *)
DisabledHoldsNothing == client = "disabled" =>
    permission = {} /\ \A g \in Grants : grant[g] # "live" /\ code[g] # "stored"

(* A grant of which a used code or a rotated refresh token was presented is  *)
(* of no use from then on, to whoever presented it and to whoever did not.   *)
ReplayedIsDead == \A g \in replayed : ~Usable(g)

(* A call is let in only if its grant was usable both when its token was     *)
(* found and when its permission was, whatever was disabled, enabled, rotated*)
(* or revoked between the four reads, and its user, who has the password     *)
(* under which it was agreed to.                                             *)
LetInWasValid == [][\A a \in Accesses :
    access[a] # "in" /\ access'[a] = "in" => a \in valid /\ agreed[of[a]] = password]_oauthVars
=============================================================================
