----------------------------- MODULE OneTimeURL -----------------------------
(* What a one-time transfer URL promises: it opens at most one stream, and   *)
(* only while the server has not changed hands since it was minted.          *)
CONSTANT URLs

VARIABLES life, opened   \* each URL's life, and those that opened a stream
urlVars == <<life, opened>>

Unused == life = [u \in URLs |-> "none"] /\ opened = {}

Minted(u) ==
    /\ life[u] = "none"
    /\ life' = [life EXCEPT ![u] = "minted"] /\ UNCHANGED opened

(* A URL is used up by being redeemed, whether a stream comes of it or not. *)
Opened(u) ==
    /\ life[u] = "minted"
    /\ life' = [life EXCEPT ![u] = "dead"] /\ opened' = opened \cup {u}

(* Any number of URLs may expire, be purged or be redeemed in vain; a        *)
(* transfer ends the life of all.                                            *)
Ended ==
    /\ \A u \in URLs : life'[u] \in {life[u]} \cup {d \in {"dead"} : life[u] = "minted"}
    /\ UNCHANGED opened

URLNext == (\E u \in URLs : Minted(u) \/ Opened(u)) \/ Ended
OneTime == Unused /\ [][URLNext]_urlVars
=============================================================================
