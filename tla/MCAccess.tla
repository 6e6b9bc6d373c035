------------------------------ MODULE MCAccess ------------------------------
(* Small instances of what lets somebody in: remote access over MCP, the     *)
(* sign-in of a user, and the OAuth grants of that user. A behaviour runs    *)
(* one of them and leaves the others as they were; the grants run together   *)
(* with one session of the user and what is done with it.                    *)
EXTENDS MCPAccess, OAuthGrants

CONSTANT FirstOwner

VARIABLE part   \* "mcp", "signin" or "grants"; never changes
accessVars == <<mcpVars, signInVars, oauthVars, part>>

PartsInit ==
    /\ MCPInit /\ SignInInit /\ OAuthInit /\ part \in {"mcp", "signin", "grants"}
    /\ part # "mcp" => enabled /\ ownedBy = FirstOwner

SignInPart ==
    /\ part = "signin" /\ SignInNext /\ UNCHANGED <<mcpVars, oauthVars>>
    /\ \A r \in Requests : intent'[r] # "consent"
GrantsPart ==
    /\ part = "grants" /\ OAuthNext /\ UNCHANGED mcpVars
    /\ \A s \in Sessions \ {1} : session'[s] = "off"
    /\ \A r \in Requests : intent'[r] \notin {"bind", "unbind"}

PartsNext ==
    /\ UNCHANGED part
    /\ \/ part = "mcp" /\ MCPNext /\ UNCHANGED <<signInVars, oauthVars>>
       \/ SignInPart \/ GrantsPart

AccessSpec == PartsInit /\ [][PartsNext]_accessVars /\ MCPFairness
=============================================================================
