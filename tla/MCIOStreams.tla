----------------------------- MODULE MCIOStreams -----------------------------
(* A small instance of IOStreams. Three questions are asked apart, so that   *)
(* each can have the agents, sessions or streams it needs.                   *)
EXTENDS IOStreams

CONSTANT FirstOwner

VARIABLE part   \* "token", "transfer" or "caps"; never changes

PartsInit == StreamsInit /\ owner = FirstOwner /\ part \in {"token", "transfer", "caps"}

(* An API token is revoked, and nothing else changes what a session may do. *)
TokenNext == part = "token" /\ StreamsNext /\ ~moving' /\ \A s \in IDs \ {1} : maker'[s] = "new"

(* The server is transferred under sessions that use no token. *)
TransferNext ==
    /\ part = "transfer" /\ StreamsNext /\ tokens' = tokens
    /\ \A h \in Sessions : token'[h] = Nobody
    /\ \A s \in IDs \ {1} : maker'[s] = "new"

(* Several streams meet the caps, with one session and one call. *)
CapsNext ==
    /\ part = "caps" /\ StreamsNext /\ tokens' = tokens /\ ~moving'
    /\ \A h \in Sessions \ {1} : session'[h] = "off"
    /\ \A h \in Sessions : token'[h] = Nobody
    /\ \A a \in Conns \ {1} : conn'[a] = "off"

PartsNext == (TokenNext \/ TransferNext \/ CapsNext) /\ UNCHANGED part
PartsSpec == PartsInit /\ [][PartsNext]_<<streamVars, part>> /\ StreamsFairness
=============================================================================
