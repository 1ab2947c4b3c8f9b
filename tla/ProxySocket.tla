---------------------------- MODULE ProxySocket ----------------------------
(***************************************************************************)
(* One browser WebSocket carried through a tunnel to a WebSocket of the    *)
(* local DSH server: proxyClientSocket of src/relay/server.ts,             *)
(* #openLocalSocket and #handleFrame of src/plugin/tunnel.ts.              *)
(*                                                                         *)
(* The relay accepts the browser's socket at once and asks the host to     *)
(* open its own, so the browser may be sending while the host is still     *)
(* connecting.  Either end closes by a frame with a close code; closing is *)
(* not immediate, and either end of the tunnel may lose it at any time.    *)
(* A message is its position in what its sender sent.  Its frame may be    *)
(* longer than a socket of the tunnel takes, which then fails.             *)
(***************************************************************************)
EXTENDS Integers, Sequences, SequencesExt

CONSTANTS
    MaxUp,      \* bound: messages of the browser
    MaxDown,    \* bound: messages of DSH
    LongUp,     \* messages whose frame is longer than MAX_CONTROL_FRAME_BYTES
    LongDown    \* though they are no longer than a socket at either end accepts

ASSUME ConstantsAssumption ==
    /\ MaxUp \in Nat /\ MaxDown \in Nat
    /\ LongUp \subseteq 1 .. MaxUp /\ LongDown \subseteq 1 .. MaxDown

\* Close codes: one that an end chose (1000 and the like), one that says there was
\* none (1005, 1006), 1001, 1011, CLOSE_AGENT_OFFLINE.
Codes == {"chosen", "absent", "gone", "failed", "offline"}

VARIABLES
    \* relay
    browserSock,    \* socket of the browser at the relay
    closed,         \* the exchange is over for the relay, and detached
    up,             \* messages of the browser so far
    down,           \* messages of DSH written to the browser
    \* tunnel
    relaySock,      \* the socket at the relay: open, closing, or lost
    hostSock,       \* the socket at the host: open or lost
    toHost, toRelay,    \* frames under way
    \* host
    localSock,      \* socket to DSH
    tracked,        \* it is in #sockets
    upDone,         \* messages of the browser written to DSH
    sent            \* messages of DSH so far

relayVars == <<browserSock, closed, up, down>>
tunnelVars == <<relaySock, hostSock, toHost, toRelay>>
hostVars == <<localSock, tracked, upDone, sent>>
vars == <<relayVars, tunnelVars, hostVars>>

Frame(type, arg) == [type |-> type, arg |-> arg]

\* The next frame of a channel exceeds maxPayload: the socket that receives it emits
\* an error and closes.
Jammed(channel, long) ==
    channel # <<>> /\ Head(channel).type = "message" /\ Head(channel).arg \in long

Init ==
    /\ browserSock = "none"
    /\ closed = FALSE
    /\ up = 0
    /\ down = <<>>
    /\ relaySock \in {"open", "closing"}
    /\ hostSock = "open"
    /\ toHost = <<>>
    /\ toRelay = <<>>
    /\ localSock = "none"
    /\ tracked = FALSE
    /\ upDone = <<>>
    /\ sent = 0

-----------------------------------------------------------------------------
(* The relay.                                                              *)

\* Mutant: a frame is dropped while others wait.
ToHostIfIdle(frame) ==
    toHost' = IF relaySock = "open" /\ hostSock = "open" /\ Len(toHost) < 2
              THEN Append(toHost, frame) ELSE toHost

\* Tunnel.send, whose result nobody looks at here.
ToHost(frame) ==
    toHost' = IF relaySock = "open" /\ hostSock = "open" THEN Append(toHost, frame) ELSE toHost

ProxyClientSocket ==
    /\ browserSock = "none"
    /\ browserSock' = "open"
    /\ ToHost(Frame("open", 0))
    /\ UNCHANGED <<closed, up, down, relaySock, hostSock, toRelay, hostVars>>

BrowserSends ==
    /\ browserSock = "open" /\ up < MaxUp
    /\ up' = up + 1
    /\ ToHost(Frame("message", up'))
    /\ UNCHANGED <<browserSock, closed, down, relaySock, hostSock, toRelay, hostVars>>

\* The 'close' event; the host hears of it if this is news to the relay.
BrowserCloses(code) ==
    /\ browserSock \in {"open", "closing"}
    /\ browserSock' = "closed"
    /\ closed' = TRUE
    /\ IF closed THEN UNCHANGED toHost ELSE ToHost(Frame("close", code))
    /\ UNCHANGED <<up, down, relaySock, hostSock, toRelay, hostVars>>

\* The 'error' event, with a 'close' event to follow.
BrowserFails ==
    /\ browserSock = "open"
    /\ browserSock' = "closing"
    /\ closed' = TRUE
    /\ ToHost(Frame("close", "failed"))
    /\ UNCHANGED <<up, down, relaySock, hostSock, toRelay, hostVars>>

\* close(), or terminate() when the code is one that close() refuses.
CloseBrowserSocket(code) ==
    browserSock' = IF browserSock = "open"
                   THEN IF code = "absent" THEN "closed" ELSE "closing"
                   ELSE browserSock

\* onFrame, for as long as the exchange is attached.
OnFrame(frame) ==
    \/ /\ frame.type = "ack"
       /\ UNCHANGED relayVars
    \/ /\ frame.type = "message"
       /\ down' = IF browserSock = "open" THEN Append(down, frame.arg) ELSE down
       /\ UNCHANGED <<browserSock, closed, up>>
    \/ /\ frame.type = "close"
       /\ closed' = TRUE
       /\ CloseBrowserSocket(frame.arg)
       /\ UNCHANGED <<up, down>>

RelayReceives ==
    /\ relaySock # "lost" /\ toRelay # <<>> /\ ~Jammed(toRelay, LongDown)
    /\ toRelay' = Tail(toRelay)
    /\ IF closed THEN UNCHANGED relayVars ELSE OnFrame(Head(toRelay))
    /\ UNCHANGED <<relaySock, hostSock, toHost, hostVars>>

TunnelCloses ==
    /\ relaySock = "open"
    /\ relaySock' = "closing"
    /\ UNCHANGED <<relayVars, hostSock, toHost, toRelay, hostVars>>

\* onTunnelLost, which only a socket that is attached can hear.
RelayLosesTunnel ==
    /\ relaySock # "lost" /\ browserSock # "none"
    /\ relaySock' = "lost"
    /\ toRelay' = <<>>
    /\ closed' = TRUE
    /\ IF closed THEN UNCHANGED browserSock ELSE CloseBrowserSocket("offline")
    /\ UNCHANGED <<up, down, hostSock, toHost, hostVars>>

-----------------------------------------------------------------------------
(* The host.                                                               *)

\* Mutant: as for ToHost.
ToRelayIfIdle(frame) ==
    toRelay' = IF relaySock # "lost" /\ hostSock = "open" /\ toRelay = <<>>
               THEN Append(toRelay, frame) ELSE toRelay

\* #send, on a tunnel that may be gone.
ToRelay(frame) ==
    toRelay' = IF relaySock # "lost" /\ hostSock = "open" THEN Append(toRelay, frame) ELSE toRelay

\* close() or terminate() on the socket to DSH; while it is connecting that is an
\* error of the attempt.
CloseLocalSocket ==
    localSock' = CASE localSock = "connecting" -> "aborted"
                   [] localSock = "open" -> "closing"
                   [] OTHER -> localSock

\* #openLocalSocket.  The host checks the path by the function the relay has used
\* on the same string, so it does not refuse.  The constructor may throw, at a
\* header or an address: then there is no socket and nothing to track.
OpenLocalSocket ==
    /\ \/ /\ localSock' = "connecting"
          /\ tracked' = TRUE
          /\ UNCHANGED toRelay
       \/ /\ localSock' = "closed"
          /\ ToRelay(Frame("close", "failed"))
          /\ UNCHANGED tracked
    /\ UNCHANGED upDone

\* Dropped unless the socket to DSH is open.
MessageForLocal(n) ==
    /\ upDone' = IF tracked /\ localSock = "open" THEN Append(upDone, n) ELSE upDone
    /\ UNCHANGED <<localSock, tracked>>

\* Mutant: the entry is deleted before it is looked up.
CloseForLocalForgets ==
    /\ tracked' = FALSE
    /\ UNCHANGED <<localSock, upDone>>

CloseForLocal ==
    /\ tracked' = FALSE
    /\ IF tracked THEN CloseLocalSocket ELSE UNCHANGED localSock
    /\ UNCHANGED upDone

HostReceives ==
    LET frame == Head(toHost) IN
    /\ hostSock = "open" /\ toHost # <<>> /\ ~Jammed(toHost, LongUp)
    /\ toHost' = Tail(toHost)
    /\ \/ frame.type = "open" /\ OpenLocalSocket
       \/ frame.type = "message" /\ MessageForLocal(frame.arg) /\ UNCHANGED toRelay
       \/ frame.type = "close" /\ CloseForLocal /\ UNCHANGED toRelay
    /\ UNCHANGED <<relayVars, relaySock, hostSock, sent>>

LocalOpens ==
    /\ localSock = "connecting"
    /\ localSock' = "open"
    /\ ToRelay(Frame("ack", 0))
    /\ UNCHANGED <<relayVars, relaySock, hostSock, toHost, tracked, upDone, sent>>

\* Still delivered while the socket is closing, and whether or not it is tracked.
LocalSends ==
    /\ localSock \in {"open", "closing"} /\ sent < MaxDown
    /\ sent' = sent + 1
    /\ ToRelay(Frame("message", sent'))
    /\ UNCHANGED <<relayVars, relaySock, hostSock, toHost, localSock, tracked, upDone>>

\* The 'error' event: DSH refuses, the attempt was aborted, or the connection broke.
LocalFails ==
    /\ localSock \in {"connecting", "aborted", "open", "closing"}
    /\ localSock' = "ending"
    /\ tracked' = FALSE
    /\ ToRelay(Frame("close", "failed"))
    /\ UNCHANGED <<relayVars, relaySock, hostSock, toHost, upDone, sent>>

\* Mutant: the browser's side is not told.
LocalClosesQuietly(code) ==
    /\ localSock \in {"open", "closing", "ending"}
    /\ localSock' = "closed"
    /\ tracked' = FALSE
    /\ UNCHANGED <<relayVars, tunnelVars, upDone, sent>>

\* The 'close' event.
LocalCloses(code) ==
    /\ localSock \in {"open", "closing", "ending"}
    /\ localSock' = "closed"
    /\ tracked' = FALSE
    /\ ToRelay(Frame("close", code))
    /\ UNCHANGED <<relayVars, relaySock, hostSock, toHost, upDone, sent>>

\* #teardownExchanges, from the close event or stop().
HostLosesTunnel ==
    /\ hostSock = "open"
    /\ hostSock' = "lost"
    /\ toHost' = <<>>
    /\ tracked' = FALSE
    /\ IF tracked THEN CloseLocalSocket ELSE UNCHANGED localSock
    /\ UNCHANGED <<relayVars, relaySock, toRelay, upDone, sent>>

-----------------------------------------------------------------------------
\* Both ends are closed.
Terminated ==
    /\ browserSock = "closed" /\ localSock \in {"none", "closed"}
    /\ relaySock = "lost" /\ hostSock = "lost"
    /\ UNCHANGED vars

EndCodes == {"chosen", "absent"}

Next ==
    \/ ProxyClientSocket \/ BrowserSends \/ BrowserFails
    \/ \E code \in EndCodes : BrowserCloses(code) \/ LocalCloses(code)
    \/ RelayReceives \/ TunnelCloses \/ RelayLosesTunnel
    \/ HostReceives \/ LocalOpens \/ LocalSends \/ LocalFails \/ HostLosesTunnel
    \/ Terminated

Spec == Init /\ [][Next]_vars

\* Frames arrive; a socket that was closed comes to its close event, if need be by the
\* close timeout of ws; a connection attempt succeeds or fails; a tunnel that one end
\* closes or loses, or that is jammed, is lost to both (AgentTunnel).
Fairness ==
    /\ WF_vars(ProxyClientSocket) /\ WF_vars(RelayReceives) /\ WF_vars(HostReceives)
    /\ WF_vars(browserSock = "closing" /\ BrowserCloses("absent"))
    /\ WF_vars(localSock \in {"connecting", "aborted"} /\ (LocalOpens \/ LocalFails))
    /\ WF_vars(localSock \in {"closing", "ending"} /\ LocalCloses("absent"))
    /\ WF_vars(/\ relaySock = "closing" \/ hostSock = "lost" \/ Jammed(toRelay, LongDown)
               /\ RelayLosesTunnel)
    /\ WF_vars((relaySock # "open" \/ Jammed(toHost, LongUp)) /\ HostLosesTunnel)

FairSpec == Spec /\ Fairness

-----------------------------------------------------------------------------
(* Properties.                                                             *)

Frames(first, last) == [type : {first}, arg : {0}]
                       \cup [type : {"message"}, arg : 1 .. last]
                       \cup [type : {"close"}, arg : Codes]

\* The state has its type.
TypeOK ==
    /\ browserSock \in {"none", "open", "closing", "closed"}
    /\ closed \in BOOLEAN
    /\ up \in 0 .. MaxUp /\ sent \in 0 .. MaxDown
    /\ upDone \in Seq(1 .. MaxUp) /\ down \in Seq(1 .. MaxDown)
    /\ relaySock \in {"open", "closing", "lost"} /\ hostSock \in {"open", "lost"}
    /\ toHost \in Seq(Frames("open", MaxUp)) /\ toRelay \in Seq(Frames("ack", MaxDown))
    /\ localSock \in {"none", "connecting", "aborted", "open", "closing", "ending", "closed"}
    /\ tracked \in BOOLEAN

\* The browser gets DSH's messages in order and none is missing in between.
DownIsPrefix == IsPrefix(down, [i \in 1 .. sent |-> i])

\* DSH gets the browser's messages in order and none is missing in between; those
\* that come before its socket is open are lost, so the first may not be message 1.
UpIsContiguous ==
    \A i \in 1 .. Len(upDone) : upDone[i] = upDone[1] + i - 1

\* "Largest WebSocket message proxied in either direction (8 MiB)" (protocol.ts:38):
\* a message that the host's socket to DSH has accepted goes through, and does not
\* take the tunnel down with everything else on it.
LongMessagesPass == relaySock # "lost" => ~Jammed(toRelay, LongDown)

\* A running socket to DSH can be closed by its id, or with the tunnel.
RunningIsTracked == localSock \in {"connecting", "open"} => tracked

\* When one end closes the other follows, through errors, aborted attempts and the
\* loss of the tunnel.
BothEndsClose ==
    /\ browserSock \in {"closing", "closed"} ~> [](localSock \in {"none", "closed"})
    /\ localSock = "closed" ~> browserSock = "closed"
=============================================================================
