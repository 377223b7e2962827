------------------------------ MODULE ClientIP ------------------------------
(***************************************************************************)
(* The address a request is rate limited by: ClientIP in logging.go.       *)
(*                                                                         *)
(* A hop is the trimmed text between two commas of X-Forwarded-For: an     *)
(* address, Blank, or some other text.  No hops is a missing header.       *)
(***************************************************************************)
EXTENDS Integers, Sequences, FiniteSetsExt

CONSTANTS Addresses, Texts, Blank

ASSUME HopAssumption == Addresses \cap Texts = {} /\ Blank \notin Addresses \cup Texts

Hops == Addresses \cup Texts \cup {Blank}

\* The places of the hops that are addresses outside the trusted ranges.
Untrusted(trusted, hops) == {i \in DOMAIN hops : hops[i] \in Addresses \ trusted}

NonBlank(hops) == {i \in DOMAIN hops : hops[i] # Blank}

\* Variant: reads the header from the left.
FromTheLeft(trusted, peer, hops) ==
    IF peer \notin trusted \/ hops = <<>> THEN peer
    ELSE IF Untrusted(trusted, hops) # {} THEN hops[Min(Untrusted(trusted, hops))]
    ELSE IF NonBlank(hops) # {} THEN hops[Min(NonBlank(hops))]
    ELSE peer

\* The header counts only when a trusted proxy sends it.  The client is the
\* rightmost hop that is no trusted proxy, else the leftmost text.
ClientKey(trusted, peer, hops) ==
    IF peer \notin trusted \/ hops = <<>> THEN peer
    ELSE IF Untrusted(trusted, hops) # {} THEN hops[Max(Untrusted(trusted, hops))]
    ELSE IF NonBlank(hops) # {} THEN hops[Min(NonBlank(hops))]
    ELSE peer

-----------------------------------------------------------------------------

\* What proxies do: each appends the address it was called from.
Forwarded(claimed, client, proxies) == claimed \o <<client>> \o proxies

\* Whatever header a client claims, it is charged to its own address: alone when
\* it calls the server directly, and behind any chain of trusted proxies.
KeyIsClient(trusted, Claims, Chains) ==
    \A client \in Addresses \ trusted, claimed \in Claims :
        /\ ClientKey(trusted, client, claimed) = client
        /\ \A peer \in trusted, proxies \in Chains :
               ClientKey(trusted, peer, Forwarded(claimed, client, proxies)) = client
=============================================================================
