--------------------------- MODULE AgentHandshake ---------------------------
(***************************************************************************)
(* How the relay decides on the first frame of an agent socket: the frame  *)
(* checks, the RateLimiter of the sender's address, the clock window, the  *)
(* table of nonces it has seen (OneTimeValues) and the signature, in the   *)
(* order of handleAgentSocket.  What it does with an admitted socket is    *)
(* AgentTunnel's.  The network may deliver a hello late, several times or  *)
(* never, on any connection, and both clocks go at one pace but may differ.*)
(***************************************************************************)
EXTENDS Integers, Sequences, FiniteSets, SequencesExt

CONSTANTS
    Agent,         \* machines registered with the relay
    Nonce,         \* values a host may draw; none is drawn twice
    Address,       \* addresses of TCP peers, and of those a proxy speaks for
    None,          \* no x-forwarded-for header
    TrustProxy,    \* options.trustProxy
    Drift,         \* differences between a host's clock and the relay's
    Skew,          \* AUTH_PROOF_SKEW_MS, in ticks
    TableLimit,    \* OneTimeValues' limit
    AgentLimit,    \* agentLimiter's limit
    LimitWindow,   \* agentLimiter's windowMs, in ticks
    MaxTime,       \* bound: ticks of the clock
    MaxRestarts    \* bound: restarts of the relay

ASSUME HandshakeAssumption ==
    /\ None \notin Address
    /\ TrustProxy \in BOOLEAN
    /\ Drift \subseteq Int
    /\ Skew \in Nat /\ TableLimit \in Nat
    /\ AgentLimit \in Nat \ {0} /\ LimitWindow \in Nat \ {0}
    /\ MaxTime \in Nat /\ MaxRestarts \in Nat

VARIABLES
    now,        \* the relay's clock
    live,       \* machines whose record is not revoked
    hellos,     \* hello frames that were sent
    seen,       \* handshakeNonces.#seen, entries [nonce, at]
    hits,       \* agentLimiter.#hits, NoHits for an absent address
    admitted,   \* history: admissions by nonce, since the relay started
    tries,      \* history: times of the attempts of an address that the limiter
                \* let through since its last success, back to one window
    restarts    \* counter for MaxRestarts

vars == <<now, live, hellos, seen, hits, admitted, tries, restarts>>

Hello == [agent : Agent, ts : Int, nonce : Nonce, matches : BOOLEAN]

NoHits == [count |-> 0, resetAt |-> 0]

Init ==
    /\ now = 0
    /\ live = Agent
    /\ hellos = {}
    /\ seen = {}
    /\ hits = [a \in Address |-> NoHits]
    /\ admitted = [n \in Nonce |-> 0]
    /\ tries = [a \in Address |-> <<>>]
    /\ restarts = 0

-----------------------------------------------------------------------------
(* OneTimeValues, for the handshake: the default window is twice the skew. *)

Window == 2 * Skew

\* Mutant: a value is forgotten as soon as its window is reached.
PruneEarly(entries) == {e \in entries : now - e.at < Window}

Prune(entries) == {e \in entries : now - e.at <= Window}

MayAdd(n) ==
    /\ \A e \in Prune(seen) : e.nonce # n
    /\ Cardinality(Prune(seen)) < TableLimit

Add(n) == Prune(seen) \cup {[nonce |-> n, at |-> now]}

-----------------------------------------------------------------------------
(* RateLimiter: a window starts with the first attempt and does not slide. *)

Expired(h) == h.resetAt <= now

Lapse(a) == IF Expired(hits[a]) THEN NoHits ELSE hits[a]

Allowed(a) == Lapse(a).count < AgentLimit

\* Mutant: the count of a running window starts again with each attempt.
CountAlways(a) ==
    [b \in Address |-> IF b = a THEN [count |-> 1, resetAt |-> now + LimitWindow] ELSE Lapse(b)]

\* The attempt counts; the first of a window sets its end.
Count(a) ==
    [b \in Address |->
        IF b # a THEN Lapse(b)
        ELSE IF Lapse(a) = NoHits THEN [count |-> 1, resetAt |-> now + LimitWindow]
        ELSE [hits[a] EXCEPT !.count = @ + 1]]

\* RateLimiter.reset.
Reset(table, a) == [table EXCEPT ![a] = NoHits]

\* clientKey: the first forwarded address behind a trusted proxy, else the peer.
clientKey(peer, forwarded) ==
    IF TrustProxy /\ forwarded # None THEN forwarded ELSE peer

\* What comes after the last time that is a window old.
Recent(times) ==
    SubSeq(times, SelectLastInSeq(times, LAMBDA t : t <= now - LimitWindow) + 1, Len(times))

Tried(a) == [tries EXCEPT ![a] = Append(Recent(@), now)]

-----------------------------------------------------------------------------
(* The hosts.                                                              *)

Drawn == {h.nonce : h \in hellos}

\* A host signs its hello with the key in its credential file.  The flags of
\* `setup` allow a key that does not match the machine they name.
HostSaysHello(a, matches, drift) ==
    /\ \E n \in Nonce \ Drawn :
         hellos' = hellos \cup
             {[agent |-> a, ts |-> now + drift, nonce |-> n, matches |-> matches]}
    /\ UNCHANGED <<now, live, seen, hits, admitted, tries, restarts>>

-----------------------------------------------------------------------------
(* The relay: the message handler of handleAgentSocket before there is a   *)
(* tunnel.  A binary or malformed frame, one that is not a hello and a     *)
(* hello of another version close the socket and change none of its state. *)

Timely(h) == now - h.ts <= Skew /\ h.ts - now <= Skew

\* verifyAgentSignature: the signature is that of the machine's key.
Verifies(h) == h.agent \in live /\ h.matches

\* The limiter refuses: CLOSE_RATE_LIMITED.
Throttle(a) ==
    /\ ~Allowed(a)
    /\ hits' = [b \in Address |-> Lapse(b)]
    /\ UNCHANGED <<seen, admitted, tries>>

\* An unknown or revoked machine, or a clock too far off: CLOSE_AUTH_FAILED.
RefuseUnread(a, h) ==
    /\ Allowed(a)
    /\ h.agent \notin live \/ ~Timely(h)
    /\ hits' = Count(a)
    /\ tries' = Tried(a)
    /\ UNCHANGED <<seen, admitted>>

\* The nonce is known, or the table is full: CLOSE_AUTH_FAILED.
RefuseNonce(a, h) ==
    /\ Allowed(a)
    /\ h.agent \in live /\ Timely(h)
    /\ ~MayAdd(h.nonce)
    /\ hits' = Count(a)
    /\ tries' = Tried(a)
    /\ seen' = Prune(seen)
    /\ UNCHANGED admitted

\* The nonce is kept and the signature refused: CLOSE_AUTH_FAILED.
RefuseSignature(a, h) ==
    /\ Allowed(a)
    /\ h.agent \in live /\ Timely(h)
    /\ MayAdd(h.nonce) /\ ~Verifies(h)
    /\ hits' = Count(a)
    /\ tries' = Tried(a)
    /\ seen' = Add(h.nonce)
    /\ UNCHANGED admitted

\* The machine is who it says: the address starts afresh and the tunnel opens.
Admit(a, h) ==
    /\ Allowed(a)
    /\ Timely(h)
    /\ MayAdd(h.nonce) /\ Verifies(h)
    /\ hits' = Reset(Count(a), a)
    /\ tries' = [tries EXCEPT ![a] = <<>>]
    /\ seen' = Add(h.nonce)
    /\ admitted' = [admitted EXCEPT ![h.nonce] = @ + 1]

RelayGetsHello(h, peer, forwarded) ==
    LET a == clientKey(peer, forwarded) IN
    /\ h \in hellos
    /\ \/ Throttle(a)
       \/ RefuseUnread(a, h)
       \/ RefuseNonce(a, h)
       \/ RefuseSignature(a, h)
       \/ Admit(a, h)
    /\ UNCHANGED <<now, live, hellos, restarts>>

-----------------------------------------------------------------------------
(* The rest of the world.                                                  *)

\* `agent revoke`; a revoked machine is registered anew under another id.
Revoke(a) ==
    /\ live' = live \ {a}
    /\ UNCHANGED <<now, hellos, seen, hits, admitted, tries, restarts>>

Tick ==
    /\ now < MaxTime
    /\ now' = now + 1
    /\ UNCHANGED <<live, hellos, seen, hits, admitted, tries, restarts>>

\* The relay's process ends and starts again: both tables are in its memory.
Restart ==
    /\ restarts < MaxRestarts
    /\ restarts' = restarts + 1
    /\ seen' = {}
    /\ hits' = [a \in Address |-> NoHits]
    /\ admitted' = [n \in Nonce |-> 0]
    /\ tries' = [a \in Address |-> <<>>]
    /\ UNCHANGED <<now, live, hellos>>

Next ==
    \/ \E a \in Agent, m \in BOOLEAN, d \in Drift : HostSaysHello(a, m, d)
    \/ \E h \in hellos, peer \in Address, forwarded \in Address \cup {None} :
          RelayGetsHello(h, peer, forwarded)
    \/ \E a \in Agent : Revoke(a)
    \/ Tick
    \/ Restart

Spec == Init /\ [][Next]_vars

-----------------------------------------------------------------------------
(* Properties.                                                             *)

\* The state has its type.
TypeOK ==
    /\ now \in Nat
    /\ live \subseteq Agent
    /\ hellos \subseteq Hello
    /\ seen \subseteq [nonce : Nonce, at : Nat]
    /\ hits \in [Address -> [count : 0 .. AgentLimit, resetAt : Nat]]
    /\ admitted \in [Nonce -> Nat]
    /\ tries \in [Address -> Seq(Nat)]
    /\ restarts \in Nat

\* A captured hello "expires and cannot repeat" (protocol.ts:91): between two
\* starts of the relay none is admitted twice, however late it comes again and
\* whatever the sender's clock.  The two windows have to fit to the tick: a nonce
\* may be forgotten only when its hello has become too old (auth.ts:85).
NoReplay == \A n \in Nonce : admitted[n] <= 1

\* What the limiter bounds (auth.ts:135-141): fixed windows allow a burst on both
\* sides of their border, and a success starts afresh, but in no window's length
\* are there twice AgentLimit attempts without a success.
BurstBounded == \A a \in Address : Len(Recent(tries[a])) < 2 * AgentLimit
=============================================================================
