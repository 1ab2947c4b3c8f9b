---------------------------- MODULE AgentTunnel ----------------------------
(***************************************************************************)
(* The tunnel between the relay and the machines that run DSH.             *)
(*                                                                         *)
(* Host side: src/plugin/tunnel.ts, a TunnelClient that dials the relay,   *)
(* redials when the socket closes and gives up on a terminal close code.   *)
(* Relay side: handleAgentSocket and liveAuthorizedTunnel of               *)
(* src/relay/server.ts with the registry of src/relay/tunnels.ts.  The two *)
(* are joined by WebSockets: ordered, reliable until the network breaks,   *)
(* closed by a handshake of close frames during which an end that has      *)
(* called close() still receives what the other sent before.               *)
(*                                                                         *)
(* An exchange is a browser's request (or WebSocket) routed through the    *)
(* tunnel: what it carries is the subject of HttpExchange.                 *)
(***************************************************************************)
EXTENDS Integers, Sequences, FiniteSets

CONSTANTS
    Client,         \* TunnelClient objects; the plugin makes one per start
    Agent,          \* registered machines
    agentOf,        \* the agent whose credentials a client holds
    Conn,           \* WebSockets between a client and the relay
    Exchange,       \* exchanges the browsers start
    None,
    Mishaps,        \* what may go wrong, of MishapKinds
    MaxMishaps      \* bound: how often

MishapKinds == {"break", "slow", "proof", "throttle", "restart", "shutdown", "lock",
                "address"}

ASSUME ConstantsAssumption ==
    /\ agentOf \in [Client -> Agent]
    /\ None \notin Client \cup Agent \cup Conn \cup Exchange
    /\ Mishaps \subseteq MishapKinds
    /\ MaxMishaps \in Nat

VARIABLES
    \* TunnelClient
    state,      \* #state
    stopped,    \* #stopped
    sock,       \* #socket
    retry,      \* #retryTimer is set
    armed,      \* #livenessTimer is set
    work,       \* #requests and #sockets: exchanges under way on the host
    \* the WebSockets
    owner,      \* the client that dialed
    hostEnd,    \* readyState at the client
    relayEnd,   \* readyState at the relay
    hostCode,   \* close code the client has received
    toRelay,    \* frames on their way to the relay
    toHost,     \* frames on their way to the client
    dead,       \* the network dropped the connection and told nobody
    \* relay
    serving,    \* whether it takes connections: not while it shuts down
    attached,   \* sockets whose handshake made a Tunnel
    registry,   \* TunnelRegistry: the socket of each agent's tunnel
    carrier,    \* the tunnel an exchange is attached to
    outcome,    \* what became of an exchange
    crashed,    \* an exception escaped every handler of the relay
    \* outside
    revoked,    \* agents the operator has revoked
    mishaps

hostVars == <<state, stopped, sock, retry, armed, work>>
hostEndVars == <<hostEnd, hostCode>>
queueVars == <<toRelay, toHost>>
tunnelVars == <<attached, registry>>
exchangeVars == <<carrier, outcome>>
worldVars == <<serving, crashed, revoked, mishaps>>
vars == <<hostVars, owner, hostEndVars, relayEnd, queueVars, dead, tunnelVars,
          exchangeVars, worldVars>>

\* Close codes, by what they stand for (src/shared/protocol.ts).
Codes == {"normal",     \* 1000, 1001: closed on purpose or gone quiet
          "lost",       \* 1006: the connection broke
          "auth",       \* CLOSE_AUTH_FAILED
          "replaced",   \* CLOSE_AGENT_REPLACED
          "offline",    \* CLOSE_AGENT_OFFLINE
          "limited",    \* CLOSE_RATE_LIMITED
          "revoked"}    \* CLOSE_REVOKED

\* Mutant: being throttled counts as a refusal.
TerminalIfLimited == {"auth", "revoked", "limited"}

\* CLOSE_UNSUPPORTED_VERSION is terminal too; no client here speaks another version.
TERMINAL_CLOSE_CODES == {"auth", "revoked"}

Frame(type, arg) == [type |-> type, arg |-> arg]
Frames == [type : {"hello", "ack"}, arg : {None}]
          \cup [type : {"request", "response", "abort"}, arg : Exchange]
          \cup [type : {"close"}, arg : Codes]

Init ==
    /\ state = [k \in Client |-> "disabled"]
    /\ stopped = [k \in Client |-> TRUE]
    /\ sock = [k \in Client |-> None]
    /\ retry = [k \in Client |-> FALSE]
    /\ armed = [k \in Client |-> FALSE]
    /\ work = [k \in Client |-> {}]
    /\ owner = [c \in Conn |-> None]
    /\ hostEnd = [c \in Conn |-> "closed"]
    /\ relayEnd = [c \in Conn |-> "closed"]
    /\ hostCode = [c \in Conn |-> "normal"]
    /\ toRelay = [c \in Conn |-> <<>>]
    /\ toHost = [c \in Conn |-> <<>>]
    /\ dead = [c \in Conn |-> FALSE]
    /\ serving = TRUE
    /\ attached = {}
    /\ registry = [a \in Agent |-> None]
    /\ carrier = [x \in Exchange |-> None]
    /\ outcome = [x \in Exchange |-> "new"]
    /\ crashed = FALSE
    /\ revoked = {}
    /\ mishaps = 0

-----------------------------------------------------------------------------
(* WebSockets.                                                             *)

\* A frame put on a broken connection is lost.
Sent(queue, c, frame) ==
    IF dead[c] THEN queue ELSE [queue EXCEPT ![c] = Append(@, frame)]

\* ws.close(code) at the client: the close frame goes out once.
HostCloses(c, code) ==
    IF hostEnd[c] = "open"
    THEN /\ hostEnd' = [hostEnd EXCEPT ![c] = "closing"]
         /\ toRelay' = Sent(toRelay, c, Frame("close", code))
         /\ UNCHANGED hostCode
    ELSE IF hostEnd[c] = "connecting"
    THEN \* aborts the upgrade; the close event follows
         /\ hostEnd' = [hostEnd EXCEPT ![c] = "ending"]
         /\ hostCode' = [hostCode EXCEPT ![c] = "lost"]
         /\ UNCHANGED toRelay
    ELSE UNCHANGED <<hostEndVars, toRelay>>

\* Mutant: close() without its code.
RelayClosesBare(cs, code) ==
    LET open == {c \in cs : relayEnd[c] = "open"} IN
    /\ relayEnd' = [c \in Conn |-> IF c \in open THEN "closing" ELSE relayEnd[c]]
    /\ toHost' = [c \in Conn |-> IF c \in open /\ ~dead[c]
                                 THEN Append(toHost[c], Frame("close", None))
                                 ELSE toHost[c]]

\* ws.close(code) at the relay on the sockets cs.
RelayCloses(cs, code) ==
    LET open == {c \in cs : relayEnd[c] = "open"} IN
    /\ relayEnd' = [c \in Conn |-> IF c \in open THEN "closing" ELSE relayEnd[c]]
    /\ toHost' = [c \in Conn |-> IF c \in open /\ ~dead[c]
                                 THEN Append(toHost[c], Frame("close", code))
                                 ELSE toHost[c]]

\* A close frame arrives: it is echoed unless this end has already sent its own,
\* and nothing is received after it.
HostGetsClose(c, code) ==
    /\ hostEnd' = [hostEnd EXCEPT ![c] = "ending"]
    /\ hostCode' = [hostCode EXCEPT ![c] = code]
    /\ toRelay' = IF hostEnd[c] = "open" THEN Sent(toRelay, c, Frame("close", code)) ELSE toRelay

RelayGetsClose(c, code) ==
    /\ relayEnd' = [relayEnd EXCEPT ![c] = "ending"]
    /\ toHost' = IF relayEnd[c] = "open" THEN Sent(toHost, c, Frame("close", code)) ELSE toHost

-----------------------------------------------------------------------------
(* TunnelClient.                                                           *)

Conns(k) == {c \in Conn : owner[c] = k}

\* #connect: a new socket and a new liveness timer.  A connection that is over at
\* both ends lends its name to the next one.
Connect(k, c) ==
    /\ hostEnd[c] = "closed" /\ relayEnd[c] = "closed"
    /\ state' = [state EXCEPT ![k] = "connecting"]
    /\ sock' = [sock EXCEPT ![k] = c]
    /\ armed' = [armed EXCEPT ![k] = TRUE]
    /\ owner' = [owner EXCEPT ![c] = k]
    /\ hostEnd' = [hostEnd EXCEPT ![c] = "connecting"]
    /\ hostCode' = [hostCode EXCEPT ![c] = "normal"]
    /\ toRelay' = [toRelay EXCEPT ![c] = <<>>]
    /\ toHost' = [toHost EXCEPT ![c] = <<>>]
    /\ dead' = [dead EXCEPT ![c] = FALSE]

\* start(), on an object the plugin has just made: one whose sockets are all over
\* is no different.
Start(k, c) ==
    /\ stopped[k] /\ \A d \in Conns(k) : hostEnd[d] = "closed"
    /\ stopped' = [stopped EXCEPT ![k] = FALSE]
    /\ Connect(k, c)
    /\ UNCHANGED <<retry, work, relayEnd, tunnelVars, exchangeVars, worldVars>>

\* The same where the address in the credentials is no URL, as a hand edit can leave
\* it: the constructor throws, which is a failed attempt.  (So does every retry.)
StartThrows(k) ==
    /\ "address" \in Mishaps
    /\ stopped[k] /\ \A d \in Conns(k) : hostEnd[d] = "closed"
    /\ stopped' = [stopped EXCEPT ![k] = FALSE]
    /\ state' = [state EXCEPT ![k] = "retrying"]
    /\ retry' = [retry EXCEPT ![k] = TRUE]
    /\ UNCHANGED <<sock, armed, work, owner, hostEndVars, relayEnd, queueVars, dead,
                   tunnelVars, exchangeVars, worldVars>>

RetryFires(k, c) ==
    /\ retry[k]
    /\ retry' = [retry EXCEPT ![k] = FALSE]
    /\ Connect(k, c)
    /\ UNCHANGED <<stopped, work, relayEnd, tunnelVars, exchangeVars, worldVars>>

\* stop(): the socket is let go before its close event.
Stop(k) ==
    /\ ~stopped[k]
    /\ stopped' = [stopped EXCEPT ![k] = TRUE]
    /\ state' = [state EXCEPT ![k] = "disabled"]
    /\ retry' = [retry EXCEPT ![k] = FALSE]
    /\ armed' = [armed EXCEPT ![k] = FALSE]
    /\ work' = [work EXCEPT ![k] = {}]
    /\ sock' = [sock EXCEPT ![k] = None]
    /\ IF sock[k] = None THEN UNCHANGED <<hostEndVars, toRelay>>
       ELSE HostCloses(sock[k], "normal")
    /\ UNCHANGED <<owner, relayEnd, toHost, dead, tunnelVars, exchangeVars, worldVars>>

\* The 'open' event: the hello frame is signed and sent.
HostOpens(c) ==
    /\ hostEnd[c] = "connecting" /\ relayEnd[c] # "closed" /\ ~dead[c]
    /\ hostEnd' = [hostEnd EXCEPT ![c] = "open"]
    /\ toRelay' = Sent(toRelay, c, Frame("hello", None))
    /\ UNCHANGED <<hostVars, owner, relayEnd, hostCode, toHost, dead, tunnelVars,
                   exchangeVars, worldVars>>

\* The upgrade fails, or a broken connection is noticed: 'error', then 'close'.
HostLoses(c) ==
    /\ \/ hostEnd[c] \in {"connecting", "open", "closing"} /\ dead[c]
       \/ hostEnd[c] = "connecting" /\ relayEnd[c] = "closed" /\ ~serving
    /\ hostEnd' = [hostEnd EXCEPT ![c] = "ending"]
    /\ hostCode' = [hostCode EXCEPT ![c] = "lost"]
    /\ UNCHANGED <<hostVars, owner, relayEnd, queueVars, dead, tunnelVars, exchangeVars, worldVars>>

\* Mutant: a client with nothing under way does not care.
HostGoesQuietAtWork(k) ==
    /\ armed[k] /\ sock[k] # None /\ hostEnd[sock[k]] = "open" /\ work[k] # {}
    /\ dead[sock[k]] \/ ~serving
    /\ HostCloses(sock[k], "normal")
    /\ UNCHANGED <<hostVars, owner, relayEnd, toHost, dead, tunnelVars, exchangeVars, worldVars>>

\* #livenessTimer, on the socket it was set for: 75 s without a frame, as the
\* connection is broken or the relay, about to end, has stopped its heartbeat.
HostGoesQuiet(k) ==
    /\ armed[k] /\ sock[k] # None /\ hostEnd[sock[k]] = "open"
    /\ dead[sock[k]] \/ ~serving
    /\ HostCloses(sock[k], "normal")
    /\ UNCHANGED <<hostVars, owner, relayEnd, toHost, dead, tunnelVars, exchangeVars, worldVars>>

\* Mutants: a retry is scheduled whether or not the client was stopped; exchanges
\* outlive the socket.
HostCloseEventRetries(c) ==
    LET k == owner[c] IN
    /\ hostEnd[c] = "ending"
    /\ hostEnd' = [hostEnd EXCEPT ![c] = "closed"]
    /\ armed' = [armed EXCEPT ![k] = FALSE]
    /\ work' = [work EXCEPT ![k] = {}]
    /\ sock' = IF sock[k] = c THEN [sock EXCEPT ![k] = None] ELSE sock
    /\ IF hostCode[c] \in TERMINAL_CLOSE_CODES
       THEN state' = [state EXCEPT ![k] = "refused"] /\ UNCHANGED retry
       ELSE /\ state' = [state EXCEPT ![k] = "retrying"]
            /\ retry' = [retry EXCEPT ![k] = TRUE]
    /\ dead' = [dead EXCEPT ![c] = TRUE]
    /\ UNCHANGED <<stopped, owner, relayEnd, hostCode, queueVars, tunnelVars,
                   exchangeVars, worldVars>>

HostCloseEventKeepsWork(c) ==
    LET k == owner[c] IN
    /\ hostEnd[c] = "ending"
    /\ hostEnd' = [hostEnd EXCEPT ![c] = "closed"]
    /\ armed' = [armed EXCEPT ![k] = FALSE]
    /\ sock' = IF sock[k] = c THEN [sock EXCEPT ![k] = None] ELSE sock
    /\ IF stopped[k] THEN UNCHANGED <<state, retry>>
       ELSE IF hostCode[c] \in TERMINAL_CLOSE_CODES
       THEN state' = [state EXCEPT ![k] = "refused"] /\ UNCHANGED retry
       ELSE /\ state' = [state EXCEPT ![k] = "retrying"]
            /\ retry' = [retry EXCEPT ![k] = TRUE]
    /\ dead' = [dead EXCEPT ![c] = TRUE]
    /\ UNCHANGED <<stopped, work, owner, relayEnd, hostCode, queueVars, tunnelVars,
                   exchangeVars, worldVars>>

\* The 'close' event of a socket.
HostCloseEvent(c) ==
    LET k == owner[c] IN
    /\ hostEnd[c] = "ending"
    /\ hostEnd' = [hostEnd EXCEPT ![c] = "closed"]
    /\ armed' = [armed EXCEPT ![k] = FALSE]
    /\ work' = [work EXCEPT ![k] = {}]
    /\ sock' = IF sock[k] = c THEN [sock EXCEPT ![k] = None] ELSE sock
    /\ IF stopped[k] THEN UNCHANGED <<state, retry>>
       ELSE IF hostCode[c] \in TERMINAL_CLOSE_CODES
       THEN state' = [state EXCEPT ![k] = "refused"] /\ UNCHANGED retry
       ELSE /\ state' = [state EXCEPT ![k] = "retrying"]
            /\ retry' = [retry EXCEPT ![k] = TRUE]
    /\ dead' = [dead EXCEPT ![c] = TRUE]
    /\ UNCHANGED <<stopped, owner, relayEnd, hostCode, queueVars, tunnelVars,
                   exchangeVars, worldVars>>

\* #handleFrame.  Nothing in it asks whether the client was stopped.
HostReceives(c) ==
    LET k == owner[c]
        frame == Head(toHost[c])
    IN
    /\ hostEnd[c] \in {"open", "closing"} /\ toHost[c] # <<>>
    /\ toHost' = [toHost EXCEPT ![c] = Tail(@)]
    /\ \/ /\ frame.type = "ack"
          /\ state' = [state EXCEPT ![k] = "online"]
          /\ UNCHANGED <<work, hostEndVars, toRelay>>
       \/ /\ frame.type = "request"
          /\ work' = [work EXCEPT ![k] = @ \cup {frame.arg}]
          /\ UNCHANGED <<state, hostEndVars, toRelay>>
       \/ /\ frame.type = "abort"
          /\ work' = [work EXCEPT ![k] = @ \ {frame.arg}]
          /\ UNCHANGED <<state, hostEndVars, toRelay>>
       \/ /\ frame.type = "close"
          /\ HostGetsClose(c, frame.arg)
          /\ UNCHANGED <<state, work>>
    /\ UNCHANGED <<stopped, sock, retry, armed, owner, relayEnd, dead, tunnelVars,
                   exchangeVars, worldVars>>

\* The local DSH is done with an exchange: #send uses the socket of the moment.
HostAnswers(k, x) ==
    /\ x \in work[k]
    /\ work' = [work EXCEPT ![k] = @ \ {x}]
    /\ toRelay' = IF sock[k] # None /\ hostEnd[sock[k]] = "open"
                  THEN Sent(toRelay, sock[k], Frame("response", x)) ELSE toRelay
    /\ UNCHANGED <<state, stopped, sock, retry, armed, owner, hostEndVars, relayEnd, toHost,
                   dead, tunnelVars, exchangeVars, worldVars>>

-----------------------------------------------------------------------------
(* The relay.                                                              *)

\* Tunnel.failAll on the tunnels cs: their exchanges hear onTunnelLost.
FailAll(cs) ==
    /\ carrier' = [x \in Exchange |-> IF carrier[x] \in cs THEN None ELSE carrier[x]]
    /\ outcome' = [x \in Exchange |-> IF carrier[x] \in cs THEN "lost" ELSE outcome[x]]

\* Mutants: whatever tunnel the agent has is dropped; nobody hears of the loss.
RemoveAny(c) ==
    /\ registry' = [registry EXCEPT ![agentOf[owner[c]]] = None]
    /\ FailAll({c})

RemoveQuietly(c) ==
    /\ registry' = [a \in Agent |-> IF registry[a] = c THEN None ELSE registry[a]]
    /\ UNCHANGED exchangeVars

\* TunnelRegistry.remove: the registry is touched only if c is still registered.
Remove(c) ==
    /\ registry' = [a \in Agent |-> IF registry[a] = c THEN None ELSE registry[a]]
    /\ FailAll({c})

\* TunnelRegistry.add: the exchanges of the tunnel that was there fail.
Add(c) ==
    LET a == agentOf[owner[c]] IN
    /\ registry' = [registry EXCEPT ![a] = c]
    /\ FailAll({registry[a]} \ {None})

RelayAccepts(c) ==
    /\ serving
    /\ hostEnd[c] = "connecting" /\ relayEnd[c] = "closed" /\ ~dead[c]
    /\ relayEnd' = [relayEnd EXCEPT ![c] = "open"]
    /\ attached' = attached \ {c}
    /\ UNCHANGED <<hostVars, owner, hostEndVars, queueVars, dead, registry, exchangeVars,
                   worldVars>>

\* The handshake timer, ten seconds after the upgrade.
HandshakeTimeout(c) ==
    /\ relayEnd[c] = "open" /\ c \notin attached
    /\ \/ dead[c] /\ UNCHANGED mishaps
       \/ /\ ~dead[c] /\ "slow" \in Mishaps /\ mishaps < MaxMishaps
          /\ mishaps' = mishaps + 1
    /\ RelayCloses({c}, "auth")
    /\ UNCHANGED <<hostVars, owner, hostEndVars, toRelay, dead, tunnelVars, exchangeVars,
                   serving, crashed, revoked>>

\* Mutant: the displaced tunnel is closed but its exchanges are not failed.
AttachTunnelQuietly(c) ==
    LET a == agentOf[owner[c]]
        displaced == {registry[a]} \ {None}
        open == {d \in displaced : relayEnd[d] = "open"}
    IN
    /\ attached' = attached \cup {c}
    /\ registry' = [registry EXCEPT ![a] = c]
    /\ UNCHANGED exchangeVars
    /\ relayEnd' = [d \in Conn |-> IF d \in open THEN "closing" ELSE relayEnd[d]]
    /\ toHost' = [d \in Conn |->
                    IF dead[d] THEN toHost[d]
                    ELSE IF d \in open THEN Append(toHost[d], Frame("close", "replaced"))
                    ELSE IF d = c /\ relayEnd[c] = "open" THEN Append(toHost[d], Frame("ack", None))
                    ELSE toHost[d]]
    /\ UNCHANGED <<crashed, mishaps>>

\* A hello that passes every check: the new tunnel displaces the agent's old one,
\* whose exchanges fail and whose socket is closed, and the store is touched.
\* hello.ack goes out only if this socket is still open.
AttachTunnel(c) ==
    LET a == agentOf[owner[c]]
        displaced == {registry[a]} \ {None}
        open == {d \in displaced : relayEnd[d] = "open"}
    IN
    /\ attached' = attached \cup {c}
    /\ Add(c)
    /\ relayEnd' = [d \in Conn |-> IF d \in open THEN "closing" ELSE relayEnd[d]]
    /\ toHost' = [d \in Conn |->
                    IF dead[d] THEN toHost[d]
                    ELSE IF d \in open THEN Append(toHost[d], Frame("close", "replaced"))
                    ELSE IF d = c /\ relayEnd[c] = "open" THEN Append(toHost[d], Frame("ack", None))
                    ELSE toHost[d]]
    /\ UNCHANGED <<crashed, mishaps>>

RefuseHello(c, code) ==
    /\ RelayCloses({c}, code)
    /\ UNCHANGED <<tunnelVars, exchangeVars, crashed>>

\* A genuine hello is refused all the same: too many attempts from the address,
\* a clock two minutes off, or a table of seen nonces that is full.
Misjudged(c) ==
    /\ mishaps < MaxMishaps
    /\ mishaps' = mishaps + 1
    /\ \/ "throttle" \in Mishaps /\ RefuseHello(c, "limited")
       \/ "proof" \in Mishaps /\ RefuseHello(c, "auth")

\* Everything the relay holds in memory is gone, and every connection with it.
RelayGone ==
    /\ relayEnd' = [c \in Conn |-> "closed"]
    /\ dead' = [c \in Conn |-> dead[c] \/ relayEnd[c] # "closed"]
    /\ toRelay' = [c \in Conn |-> <<>>]
    /\ toHost' = [c \in Conn |-> <<>>]
    /\ serving' = TRUE
    /\ attached' = {}
    /\ registry' = [a \in Agent |-> None]
    /\ FailAll(Conn)

\* store.touchAgent throws on a lock timeout, out of the 'message' listener.
TouchThrows ==
    /\ "lock" \in Mishaps /\ mishaps < MaxMishaps
    /\ mishaps' = mishaps + 1
    /\ crashed' = TRUE
    /\ RelayGone

\* Mutant: the signature is checked, the revocation is not.
RelayGetsHelloUnchecked(c) ==
    IF c \in attached
    THEN UNCHANGED <<relayEnd, toHost, tunnelVars, exchangeVars, crashed, mishaps>>
    ELSE Misjudged(c) \/ AttachTunnel(c)

RelayGetsHello(c) ==
    IF c \in attached
    THEN UNCHANGED <<relayEnd, toHost, tunnelVars, exchangeVars, crashed, mishaps>>
    ELSE \/ Misjudged(c)
         \/ agentOf[owner[c]] \in revoked /\ RefuseHello(c, "auth") /\ UNCHANGED mishaps
         \/ agentOf[owner[c]] \notin revoked /\ AttachTunnel(c)

\* A response frame reaches its exchange if this very tunnel carries it.
RelayGetsResponse(c, x) ==
    /\ IF c \in attached /\ carrier[x] = c
       THEN /\ carrier' = [carrier EXCEPT ![x] = None]
            /\ outcome' = [outcome EXCEPT ![x] = "answered"]
       ELSE UNCHANGED exchangeVars
    /\ UNCHANGED <<relayEnd, toHost, tunnelVars, crashed, mishaps>>

RelayReceives(c) ==
    LET frame == Head(toRelay[c]) IN
    /\ relayEnd[c] \in {"open", "closing"} /\ toRelay[c] # <<>>
    /\ toRelay' = [toRelay EXCEPT ![c] = Tail(@)]
    /\ \/ frame.type = "hello" /\ RelayGetsHello(c)
       \/ frame.type = "response" /\ RelayGetsResponse(c, frame.arg)
       \/ /\ frame.type = "close"
          /\ RelayGetsClose(c, frame.arg)
          /\ UNCHANGED <<tunnelVars, exchangeVars, crashed, mishaps>>
    /\ UNCHANGED <<hostVars, owner, hostEndVars, dead, serving, revoked>>

\* The same hello, but recording it fails.
RelayCrashesOnHello(c) ==
    /\ relayEnd[c] \in {"open", "closing"} /\ toRelay[c] # <<>>
    /\ Head(toRelay[c]).type = "hello" /\ c \notin attached
    /\ agentOf[owner[c]] \notin revoked
    /\ TouchThrows
    /\ UNCHANGED <<hostVars, owner, hostEndVars, revoked>>

\* A broken connection is noticed at the relay (reset, or the close timeout of ws).
RelayLoses(c) ==
    /\ relayEnd[c] \in {"open", "closing"} /\ dead[c]
    /\ relayEnd' = [relayEnd EXCEPT ![c] = "ending"]
    /\ UNCHANGED <<hostVars, owner, hostEndVars, queueVars, dead, tunnelVars, exchangeVars,
                   worldVars>>

\* Mutant: only a tunnel that is still open when its socket closes is removed.
RelayCloseEventKeeps(c) ==
    /\ relayEnd[c] = "ending"
    /\ relayEnd' = [relayEnd EXCEPT ![c] = "closed"]
    /\ dead' = [dead EXCEPT ![c] = TRUE]
    /\ attached' = attached \ {c}
    /\ UNCHANGED <<registry, exchangeVars, hostVars, owner, hostEndVars, queueVars, worldVars>>

\* The 'close' event of the relay's socket.
RelayCloseEvent(c) ==
    /\ relayEnd[c] = "ending"
    /\ relayEnd' = [relayEnd EXCEPT ![c] = "closed"]
    /\ dead' = [dead EXCEPT ![c] = TRUE]
    /\ IF c \in attached THEN Remove(c) /\ attached' = attached \ {c}
       ELSE UNCHANGED <<tunnelVars, exchangeVars>>
    /\ UNCHANGED <<hostVars, owner, hostEndVars, queueVars, worldVars>>

\* TunnelRegistry.evictStale on the tunnel of an agent: 75 s without a frame.
EvictStale(a) ==
    LET c == registry[a] IN
    /\ c # None /\ dead[c]
    /\ Remove(c)
    /\ RelayCloses({c}, "offline")

\* The heartbeat.  Its pings keep every other connection from going quiet.
Heartbeat(a) ==
    /\ serving
    /\ EvictStale(a)
    /\ UNCHANGED <<hostVars, owner, hostEndVars, toRelay, dead, attached, worldVars>>

\* Tunnel.attach: the exchange hears of the frames and of the loss of the tunnel.
Attach(x, c) ==
    /\ carrier' = [carrier EXCEPT ![x] = c]
    /\ outcome' = [outcome EXCEPT ![x] = "open"]

\* A browser's request for agent a: liveAuthorizedTunnel, then forwardHttp or
\* proxyClientSocket.
BrowserAsks(x, a) ==
    LET c == registry[a] IN
    /\ serving /\ outcome[x] = "new"
    /\ IF c = None
       THEN \* 503
            /\ outcome' = [outcome EXCEPT ![x] = "lost"]
            /\ UNCHANGED <<relayEnd, toHost, registry, carrier>>
       ELSE IF a \in revoked
       THEN /\ registry' = [registry EXCEPT ![a] = None]
            /\ RelayCloses({c}, "revoked")
            /\ carrier' = [y \in Exchange |-> IF carrier[y] = c THEN None ELSE carrier[y]]
            /\ outcome' = [y \in Exchange |->
                              IF carrier[y] = c \/ y = x THEN "lost" ELSE outcome[y]]
       ELSE IF relayEnd[c] = "open"
       THEN /\ Attach(x, c)
            /\ toHost' = Sent(toHost, c, Frame("request", x))
            /\ UNCHANGED <<relayEnd, registry>>
       ELSE \* Tunnel.send returns false: ignored for a socket, 503 for a request
            /\ \/ Attach(x, c)
               \/ outcome' = [outcome EXCEPT ![x] = "lost"] /\ UNCHANGED carrier
            /\ UNCHANGED <<relayEnd, toHost, registry>>
    /\ UNCHANGED <<hostVars, owner, hostEndVars, toRelay, dead, attached, worldVars>>

\* The browser goes away: the exchange is detached and the host told to drop it.
BrowserLeaves(x) ==
    LET c == carrier[x] IN
    /\ c # None
    /\ carrier' = [carrier EXCEPT ![x] = None]
    /\ outcome' = [outcome EXCEPT ![x] = "left"]
    /\ toHost' = IF relayEnd[c] = "open" THEN Sent(toHost, c, Frame("abort", x)) ELSE toHost
    /\ UNCHANGED <<hostVars, owner, hostEndVars, relayEnd, toRelay, dead, tunnelVars, worldVars>>

-----------------------------------------------------------------------------
(* Outside.                                                                *)

\* `agent revoke`, in another process: the store is all it changes.
Revoke(a) ==
    /\ a \notin revoked
    /\ revoked' = revoked \cup {a}
    /\ UNCHANGED <<hostVars, owner, hostEndVars, relayEnd, queueVars, dead, tunnelVars,
                   exchangeVars, serving, crashed, mishaps>>

\* The network drops a connection, with all that is under way.
Break(c) ==
    /\ "break" \in Mishaps /\ mishaps < MaxMishaps
    /\ ~dead[c] /\ hostEnd[c] # "closed"
    /\ dead' = [dead EXCEPT ![c] = TRUE]
    /\ toRelay' = [toRelay EXCEPT ![c] = <<>>]
    /\ toHost' = [toHost EXCEPT ![c] = <<>>]
    /\ mishaps' = mishaps + 1
    /\ UNCHANGED <<hostVars, owner, hostEndVars, relayEnd, tunnelVars, exchangeVars, serving,
                   crashed, revoked>>

\* The relay is killed and started again.
RelayRestarts ==
    /\ "restart" \in Mishaps /\ mishaps < MaxMishaps
    /\ mishaps' = mishaps + 1
    /\ RelayGone
    /\ UNCHANGED <<hostVars, owner, hostEndVars, crashed, revoked>>

\* TunnelRegistry.closeAll.
CloseAll(code) ==
    LET tunnels == {registry[a] : a \in Agent} \ {None} IN
    /\ registry' = [a \in Agent |-> None]
    /\ FailAll(tunnels)
    /\ RelayCloses(tunnels, code)

\* SIGTERM: the heartbeat stops, the tunnels are closed and nothing new is let in.
\* A socket that is not a tunnel yet stays, and may still become one.
RelayShutsDown ==
    /\ serving /\ "shutdown" \in Mishaps /\ mishaps < MaxMishaps
    /\ mishaps' = mishaps + 1
    /\ serving' = FALSE
    /\ CloseAll("offline")
    /\ UNCHANGED <<hostVars, owner, hostEndVars, toRelay, dead, attached, crashed, revoked>>

\* server.close() calls back when the last socket is gone; the process ends and is
\* started again.
RelayExits ==
    /\ ~serving /\ \A c \in Conn : relayEnd[c] = "closed"
    /\ serving' = TRUE
    /\ UNCHANGED <<hostVars, owner, hostEndVars, relayEnd, queueVars, dead, tunnelVars,
                   exchangeVars, crashed, revoked, mishaps>>
-----------------------------------------------------------------------------
HostStep(c) == HostOpens(c) \/ HostLoses(c) \/ HostCloseEvent(c) \/ HostReceives(c)

RelayStep(c) ==
    RelayAccepts(c) \/ RelayReceives(c) \/ RelayLoses(c) \/ RelayCloseEvent(c)

Next ==
    \/ \E k \in Client, c \in Conn : Start(k, c) \/ RetryFires(k, c)
    \/ \E k \in Client : Stop(k) \/ HostGoesQuiet(k) \/ StartThrows(k)
    \/ \E k \in Client, x \in Exchange : HostAnswers(k, x)
    \/ \E c \in Conn : HostStep(c) \/ RelayStep(c) \/ HandshakeTimeout(c)
                      \/ RelayCrashesOnHello(c) \/ Break(c)
    \/ \E a \in Agent : Heartbeat(a) \/ Revoke(a)
    \/ \E x \in Exchange, a \in Agent : BrowserAsks(x, a)
    \/ \E x \in Exchange : BrowserLeaves(x)
    \/ RelayRestarts \/ RelayShutsDown \/ RelayExits

Spec == Init /\ [][Next]_vars

\* The event loops of both programs run, timers fire, frames arrive and DSH
\* answers what it is asked.  Nothing but the timers is sure to notice that the
\* network dropped an open connection; one that is being opened or closed ends by
\* the handshake and close timeouts of ws.
Fairness ==
    /\ \A c \in Conn : /\ WF_vars((dead[c] => hostEnd[c] # "open") /\ HostStep(c))
                       /\ WF_vars((dead[c] => relayEnd[c] # "open") /\ RelayStep(c))
                       /\ WF_vars(HandshakeTimeout(c) /\ dead[c])
    /\ \A k \in Client : /\ WF_vars(HostGoesQuiet(k))
                         /\ WF_vars(\E c \in Conn : RetryFires(k, c))
                         /\ \A x \in Exchange : WF_vars(HostAnswers(k, x))
    /\ \A a \in Agent : WF_vars(Heartbeat(a))
    /\ WF_vars(RelayExits)

FairSpec == Spec /\ Fairness

-----------------------------------------------------------------------------
(* Properties.                                                             *)

Ends == {"connecting", "open", "closing", "ending", "closed"}

\* The state has its type.
TypeOK ==
    /\ state \in [Client -> {"disabled", "connecting", "online", "retrying", "refused"}]
    /\ stopped \in [Client -> BOOLEAN]
    /\ sock \in [Client -> Conn \cup {None}]
    /\ retry \in [Client -> BOOLEAN]
    /\ armed \in [Client -> BOOLEAN]
    /\ work \in [Client -> SUBSET Exchange]
    /\ owner \in [Conn -> Client \cup {None}]
    /\ hostEnd \in [Conn -> Ends]
    /\ relayEnd \in [Conn -> Ends \ {"connecting"}]
    /\ hostCode \in [Conn -> Codes]
    /\ toRelay \in [Conn -> Seq(Frames)]
    /\ toHost \in [Conn -> Seq(Frames)]
    /\ dead \in [Conn -> BOOLEAN]
    /\ attached \in SUBSET Conn
    /\ registry \in [Agent -> Conn \cup {None}]
    /\ carrier \in [Exchange -> Conn \cup {None}]
    /\ outcome \in [Exchange -> {"new", "open", "answered", "lost", "left"}]
    /\ serving \in BOOLEAN /\ crashed \in BOOLEAN
    /\ revoked \in SUBSET Agent
    /\ mishaps \in 0 .. MaxMishaps

\* "At most one tunnel per agent id" (tunnels.ts:97-103), and none forgotten: a
\* socket that completed its handshake and is still open at the relay is the
\* registered tunnel of its agent, through every order of displacement, late
\* close events, eviction and revocation.
OpenTunnelIsRegistered ==
    \A c \in attached : relayEnd[c] = "open" => registry[agentOf[owner[c]]] = c

\* A browser never waits on a tunnel the relay has given up: an exchange is
\* attached to a registered tunnel or to none.
NoOrphanExchange ==
    \A x \in Exchange :
        /\ carrier[x] # None => \E a \in Agent : registry[a] = carrier[x]
        /\ outcome[x] = "open" <=> carrier[x] # None

\* A client that runs is always driven by exactly one thing, a socket, a retry
\* timer or a refusal the operator has to lift: it neither stalls nor dials
\* twice, and the liveness timer watches the socket it has.
OneAttempt ==
    \A k \in Client :
        /\ ~stopped[k] =>
              /\ (sock[k] # None) # (retry[k] \/ (sock[k] = None /\ state[k] = "refused"))
              /\ retry[k] => state[k] = "retrying"
              /\ armed[k] <=> sock[k] # None
              /\ \A c \in Conns(k) : hostEnd[c] # "closed" => sock[k] = c
        /\ stopped[k] => sock[k] = None /\ ~retry[k] /\ ~armed[k]

\* Nothing runs on the host for a tunnel that is gone: work under way has a
\* socket whose close event, still to come, will stop it.
WorkHasSocket ==
    \A k \in Client : work[k] # {} => \E c \in Conns(k) : hostEnd[c] # "closed"

\* A host gives up only on what the operator has to settle (tunnel.ts:72-77 and
\* 88-91): here, on a revocation.
RefusedOnlyIfRevoked ==
    \A k \in Client : state[k] = "refused" => agentOf[k] \in revoked

\* After a revocation no browser reaches the machine, and once its tunnel is gone
\* it does not come back (server.ts:520-527).
RevokedStaysOut ==
    [][\A a \in revoked :
          /\ registry[a] = None => registry'[a] = None
          /\ \A x \in Exchange : carrier[x] = None /\ carrier'[x] # None
                                  => carrier'[x] # registry[a]]_vars

\* Every exchange ends for its browser, whatever happens to the tunnel.
ExchangesEnd == \A x \in Exchange : carrier[x] # None ~> carrier[x] = None

\* "Keeps redialing until stop()" (tunnel.ts:86-91): a client that keeps running
\* and is not refused ends up with the registered tunnel of its agent.
Reattached ==
    \A k \in Client : <>[](~stopped[k]) =>
        <>[](state[k] = "refused" \/ (sock[k] # None /\ registry[agentOf[k]] = sock[k]))

\* A tunnel attached to a socket that is already closing, by a hello that the
\* handshake timer overtook, does not hold its agent's place for good.
ClosingTunnelsLeave ==
    \A a \in Agent, c \in Conn :
        registry[a] = c /\ relayEnd[c] # "open" ~> registry[a] # c \/ relayEnd[c] = "open"

\* An orderly shutdown comes to its end (cli.ts:372-375): also when a hello in flight
\* makes a tunnel after closeAll, which nothing at the relay closes any more.  A
\* tunnel of that kind whose connection then breaks is the exception: without its
\* heartbeat the relay never hears of it.
ShutdownEnds ==
    []<>serving \/ <>[](\E c \in attached : relayEnd[c] = "open" /\ dead[c])
=============================================================================
