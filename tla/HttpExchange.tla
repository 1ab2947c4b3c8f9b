---------------------------- MODULE HttpExchange ----------------------------
(***************************************************************************)
(* One browser request carried through a tunnel: forwardHttp of            *)
(* src/relay/server.ts at the relay, #openLocalRequest and #handleFrame of *)
(* src/plugin/tunnel.ts at the host, and the local DSH server behind it.   *)
(*                                                                         *)
(* The request body goes one way and the response the other in frames that *)
(* carry the id of the exchange, both at once: DSH may answer before it    *)
(* has read the body.  A body is a number of chunks; a response chunk is   *)
(* its position in what DSH sent.  Exchanges share only the tunnel, so one *)
(* is modelled; what happens to tunnels is the subject of AgentTunnel, and *)
(* here either end may lose this one at any time.                          *)
(***************************************************************************)
EXTENDS Integers, Sequences, SequencesExt

CONSTANTS
    Limit,      \* MAX_REQUEST_BODY_BYTES, in chunks
    MaxBody,    \* bound: longest request body
    MaxAnswer   \* bound: longest response body

ASSUME ConstantsAssumption == Limit \in Nat /\ MaxBody \in Nat /\ MaxAnswer \in Nat

VARIABLES
    noBody,     \* a GET or HEAD: no body is read
    size,       \* chunks of the request body
    answer,     \* chunks of DSH's response
    \* browser
    browser,    \* there, left, or cut off by the relay
    uploaded,   \* chunks of the request the relay has read
    uploadOver, \* the request's 'end' event has been handled
    \* relay
    exchange,   \* new, refused at once, attached to the tunnel, or finished
    head,       \* response head: none, that of the host, or that of an error page
    got,        \* response chunks written to the browser
    ended,      \* response.end() was called
    \* tunnel
    relaySock,  \* the socket at the relay: open, closing, or lost
    hostSock,   \* the socket at the host: open or lost
    toHost, toRelay,    \* frames under way
    \* host
    entry,      \* the request is in #requests
    received,   \* chunks counted by the entry
    upstream,   \* request to DSH: none, open, ended or destroyed
    \* DSH
    reply,      \* none, head, ended or failed
    sent        \* response chunks so far

inputVars == <<noBody, size, answer>>
browserVars == <<browser, uploaded, uploadOver>>
relayVars == <<exchange, head, got, ended>>
tunnelVars == <<relaySock, hostSock, toHost, toRelay>>
hostVars == <<entry, received, upstream>>
dshVars == <<reply, sent>>
vars == <<inputVars, browserVars, relayVars, tunnelVars, hostVars, dshVars>>

Frame(type, n) == [type |-> type, n |-> n]

Init ==
    /\ noBody \in BOOLEAN
    /\ size \in 0 .. IF noBody THEN 0 ELSE MaxBody
    /\ answer \in 0 .. MaxAnswer
    /\ browser = "there"
    /\ uploaded = 0
    /\ uploadOver = FALSE
    /\ exchange = "new"
    /\ head = "none"
    /\ got = <<>>
    /\ ended = FALSE
    /\ relaySock \in {"open", "closing"}
    /\ hostSock = "open"
    /\ toHost = <<>>
    /\ toRelay = <<>>
    /\ entry = FALSE
    /\ received = 0
    /\ upstream = "none"
    /\ reply = "none"
    /\ sent = 0

-----------------------------------------------------------------------------
(* The relay.                                                              *)

\* Tunnel.send does nothing unless the socket is open, and what is sent to a host
\* that has lost the tunnel is lost.
ToHost(frames) ==
    toHost' = IF relaySock = "open" /\ hostSock = "open" THEN toHost \o frames ELSE toHost

\* Mutant: the page is written over a response under way.
ErrorPageAlways == head' = "page" /\ ended' = TRUE

\* sendHtml: a page of the relay's own, unless the head has gone out.
ErrorPage ==
    /\ head' = IF head = "none" THEN "page" ELSE head
    /\ ended' = TRUE

\* forwardHttp: attach, then send the request frame; if that fails nothing of the
\* browser's is listened to.
ForwardHttp ==
    /\ exchange = "new"
    /\ IF relaySock = "open"
       THEN exchange' = "attached" /\ UNCHANGED <<head, ended>>
       ELSE exchange' = "refused" /\ ErrorPage
    /\ ToHost(<<Frame("request", 0)>>)
    /\ UNCHANGED <<inputVars, browserVars, got, relaySock, hostSock, toRelay, hostVars, dshVars>>

Listening == exchange \in {"attached", "finished"} /\ ~noBody

\* Mutants: the limit lets one more chunk through; an upload that is too long ends
\* a response under way instead of cutting the connection.
UploadPastLimit ==
    /\ Listening
    /\ browser = "there" /\ uploaded < size
    /\ uploaded' = uploaded + 1
    /\ IF uploaded > Limit
       THEN /\ ToHost(<<Frame("abort", 0)>>)
            /\ IF head = "none" THEN ErrorPage ELSE UNCHANGED <<head, ended>>
            /\ browser' = "cut"
            /\ exchange' = "finished"
       ELSE /\ ToHost(<<Frame("chunk", uploaded')>>)
            /\ UNCHANGED <<browser, exchange, head, ended>>
    /\ UNCHANGED <<inputVars, uploadOver, got, relaySock, hostSock, toRelay, hostVars, dshVars>>

UploadEndsResponse ==
    /\ Listening
    /\ browser = "there" /\ uploaded < size
    /\ uploaded' = uploaded + 1
    /\ IF uploaded' > Limit
       THEN /\ ToHost(<<Frame("abort", 0)>>)
            /\ ErrorPage
            /\ browser' = "cut"
            /\ exchange' = "finished"
       ELSE /\ ToHost(<<Frame("chunk", uploaded')>>)
            /\ UNCHANGED <<browser, exchange, head, ended>>
    /\ UNCHANGED <<inputVars, uploadOver, got, relaySock, hostSock, toRelay, hostVars, dshVars>>

\* A chunk of the request is read, whether or not the exchange is finished.
Upload ==
    /\ Listening
    /\ browser = "there" /\ uploaded < size
    /\ uploaded' = uploaded + 1
    /\ IF uploaded' > Limit
       THEN /\ ToHost(<<Frame("abort", 0)>>)
            /\ IF head = "none" THEN ErrorPage ELSE UNCHANGED <<head, ended>>
            /\ browser' = "cut"
            /\ exchange' = "finished"
       ELSE /\ ToHost(<<Frame("chunk", uploaded')>>)
            /\ UNCHANGED <<browser, exchange, head, ended>>
    /\ UNCHANGED <<inputVars, uploadOver, got, relaySock, hostSock, toRelay, hostVars, dshVars>>

UploadEnds ==
    /\ Listening
    /\ browser = "there" /\ uploaded = size /\ ~uploadOver
    /\ uploadOver' = TRUE
    /\ ToHost(IF exchange = "attached" THEN <<Frame("end", 0)>> ELSE <<>>)
    /\ UNCHANGED <<inputVars, browser, uploaded, relayVars, relaySock, hostSock, toRelay,
                   hostVars, dshVars>>

\* Mutants: the host is told that the body is complete, or nothing.
BrowserLeavesAsEnd ==
    /\ exchange \in {"attached", "finished"} /\ browser = "there"
    /\ browser' = "left"
    /\ exchange' = "finished"
    /\ ToHost(IF exchange = "attached" THEN <<Frame("end", 0)>> ELSE <<>>)
    /\ UNCHANGED <<inputVars, uploaded, uploadOver, head, got, ended, relaySock, hostSock,
                   toRelay, hostVars, dshVars>>

BrowserLeavesQuietly ==
    /\ exchange \in {"attached", "finished"} /\ browser = "there"
    /\ browser' = "left"
    /\ exchange' = "finished"
    /\ UNCHANGED <<inputVars, uploaded, uploadOver, head, got, ended, tunnelVars, hostVars,
                   dshVars>>

\* The response's 'close' event.
BrowserLeaves ==
    /\ exchange \in {"attached", "finished"} /\ browser = "there"
    /\ browser' = "left"
    /\ exchange' = "finished"
    /\ ToHost(IF exchange = "attached" THEN <<Frame("abort", 0)>> ELSE <<>>)
    /\ UNCHANGED <<inputVars, uploaded, uploadOver, head, got, ended, relaySock, hostSock,
                   toRelay, hostVars, dshVars>>

\* onFrame, for as long as the exchange is attached.
OnFrame(frame) ==
    \/ /\ frame.type = "response"
       /\ head' = IF head = "none" THEN "host" ELSE head
       /\ UNCHANGED <<exchange, got, ended>>
    \/ /\ frame.type = "chunk"
       /\ got' = IF ended THEN got ELSE Append(got, frame.n)
       /\ UNCHANGED <<exchange, head, ended>>
    \/ /\ frame.type = "end"
       /\ ended' = TRUE
       /\ exchange' = "finished"
       /\ UNCHANGED <<head, got>>
    \/ /\ frame.type = "abort"
       /\ ErrorPage
       /\ exchange' = "finished"
       /\ UNCHANGED got

RelayReceives ==
    /\ relaySock # "lost" /\ toRelay # <<>>
    /\ toRelay' = Tail(toRelay)
    /\ IF exchange = "attached" THEN OnFrame(Head(toRelay)) ELSE UNCHANGED relayVars
    /\ UNCHANGED <<inputVars, browserVars, relaySock, hostSock, toHost, hostVars, dshVars>>

\* The relay closes the tunnel's socket, which it has not removed: frames still
\* come in, none goes out.
TunnelCloses ==
    /\ relaySock = "open"
    /\ relaySock' = "closing"
    /\ UNCHANGED <<inputVars, browserVars, relayVars, hostSock, toHost, toRelay, hostVars, dshVars>>

\* Mutant: the browser is not told.
RelayLosesQuietly ==
    /\ relaySock # "lost"
    /\ relaySock' = "lost"
    /\ toRelay' = <<>>
    /\ UNCHANGED <<inputVars, browserVars, relayVars, hostSock, toHost, hostVars, dshVars>>

\* onTunnelLost.
RelayLosesTunnel ==
    /\ relaySock # "lost"
    /\ relaySock' = "lost"
    /\ toRelay' = <<>>
    /\ IF exchange = "attached"
       THEN exchange' = "finished" /\ ErrorPage
       ELSE UNCHANGED <<exchange, head, ended>>
    /\ UNCHANGED <<inputVars, browserVars, got, hostSock, toHost, hostVars, dshVars>>

-----------------------------------------------------------------------------
(* The host.                                                               *)

\* #send, on a tunnel that may be gone.
ToRelay(frames) ==
    toRelay' = IF relaySock # "lost" /\ hostSock = "open" THEN toRelay \o frames ELSE toRelay

\* #openLocalRequest.  The relay has checked the path with its /a/<agent> prefix,
\* so the host may still refuse what is left of it.
OpenLocalRequest ==
    \/ /\ entry' = TRUE
       /\ upstream' = IF noBody THEN "ended" ELSE "open"
       /\ UNCHANGED <<received, toRelay>>
    \/ ToRelay(<<Frame("abort", 0)>>) /\ UNCHANGED hostVars

DestroyUpstream ==
    /\ upstream' = IF entry THEN "destroyed" ELSE upstream
    /\ entry' = FALSE

BodyChunk ==
    IF ~entry THEN UNCHANGED <<hostVars, toRelay>>
    ELSE /\ received' = received + 1
         /\ IF received' > Limit
            THEN ToRelay(<<Frame("abort", 0)>>) /\ DestroyUpstream
            ELSE UNCHANGED <<entry, upstream, toRelay>>

\* Mutant: the entry goes with the end of the request body.
BodyEndForgets ==
    /\ upstream' = IF entry THEN "ended" ELSE upstream
    /\ entry' = FALSE
    /\ UNCHANGED <<received, toRelay>>

\* The entry stays: the body is complete, the response is not.
BodyEnd ==
    /\ upstream' = IF entry THEN "ended" ELSE upstream
    /\ UNCHANGED <<entry, received, toRelay>>

HostReceives ==
    LET frame == Head(toHost) IN
    /\ hostSock = "open" /\ toHost # <<>>
    /\ toHost' = Tail(toHost)
    /\ \/ frame.type = "request" /\ OpenLocalRequest
       \/ frame.type = "chunk" /\ BodyChunk
       \/ frame.type = "end" /\ BodyEnd
       \/ frame.type = "abort" /\ DestroyUpstream /\ UNCHANGED <<received, toRelay>>
    /\ UNCHANGED <<inputVars, browserVars, relayVars, relaySock, hostSock, dshVars>>

\* #teardownExchanges, from the close event or stop().
HostLosesTunnel ==
    /\ hostSock = "open"
    /\ hostSock' = "lost"
    /\ toHost' = <<>>
    /\ DestroyUpstream
    /\ UNCHANGED <<inputVars, browserVars, relayVars, relaySock, toRelay, received, dshVars>>

-----------------------------------------------------------------------------
(* DSH, and what the host does with its response.                          *)

Running == upstream \in {"open", "ended"} /\ reply \in {"none", "head"}

LocalHead ==
    /\ Running /\ reply = "none"
    /\ reply' = "head"
    /\ ToRelay(<<Frame("response", 0)>>)
    /\ UNCHANGED <<inputVars, browserVars, relayVars, relaySock, hostSock, toHost, hostVars, sent>>

LocalChunk ==
    /\ Running /\ reply = "head" /\ sent < answer
    /\ sent' = sent + 1
    /\ ToRelay(<<Frame("chunk", sent')>>)
    /\ UNCHANGED <<inputVars, browserVars, relayVars, relaySock, hostSock, toHost, hostVars, reply>>

LocalEnds ==
    /\ Running /\ reply = "head" /\ sent = answer
    /\ reply' = "ended"
    /\ entry' = FALSE
    /\ ToRelay(<<Frame("end", 0)>>)
    /\ UNCHANGED <<inputVars, browserVars, relayVars, relaySock, hostSock, toHost, received,
                   upstream, sent>>

\* The 'error' event of the request or of the response: DSH broke off, or the
\* request was destroyed.
LocalFails ==
    /\ upstream # "none" /\ reply \in {"none", "head"}
    /\ reply' = "failed"
    /\ entry' = FALSE
    /\ upstream' = "destroyed"
    /\ ToRelay(<<Frame("abort", 0)>>)
    /\ UNCHANGED <<inputVars, browserVars, relayVars, relaySock, hostSock, toHost, received, sent>>

-----------------------------------------------------------------------------
\* Everything has been said.
Terminated ==
    /\ exchange = "refused" \/ (exchange = "finished" /\ browser # "there")
    /\ relaySock = "lost" /\ hostSock = "lost"
    /\ upstream # "none" => reply \in {"ended", "failed"}
    /\ UNCHANGED vars

Relay == ForwardHttp \/ RelayReceives
Browser == Upload \/ UploadEnds
Local == LocalHead \/ LocalChunk \/ LocalEnds \/ LocalFails

Next ==
    \/ Relay \/ Browser \/ BrowserLeaves \/ TunnelCloses \/ RelayLosesTunnel
    \/ HostReceives \/ HostLosesTunnel \/ Local
    \/ Terminated

Spec == Init /\ [][Next]_vars

\* Frames arrive, browsers upload, and a tunnel that one end closes or loses is lost
\* to both (AgentTunnel).  Nothing is assumed of DSH, whose response may be a
\* stream without an end.
Fairness ==
    /\ WF_vars(Relay) /\ WF_vars(HostReceives) /\ WF_vars(Browser)
    /\ WF_vars((relaySock = "closing" \/ hostSock = "lost") /\ RelayLosesTunnel)
    /\ WF_vars(relaySock # "open" /\ HostLosesTunnel)

FairSpec == Spec /\ Fairness

-----------------------------------------------------------------------------
(* Properties.                                                             *)

FrameTypes == {"request", "response", "chunk", "end", "abort"}
Frames == [type : FrameTypes, n : 0 .. MaxBody + MaxAnswer]

\* The state has its type.  The host counts no more than Limit: the relay stops an
\* upload first.
TypeOK ==
    /\ noBody \in BOOLEAN /\ size \in 0 .. MaxBody /\ answer \in 0 .. MaxAnswer
    /\ browser \in {"there", "left", "cut"}
    /\ uploaded \in 0 .. MaxBody /\ uploadOver \in BOOLEAN
    /\ exchange \in {"new", "refused", "attached", "finished"}
    /\ head \in {"none", "host", "page"}
    /\ got \in Seq(1 .. MaxAnswer)
    /\ ended \in BOOLEAN
    /\ relaySock \in {"open", "closing", "lost"} /\ hostSock \in {"open", "lost"}
    /\ toHost \in Seq(Frames) /\ toRelay \in Seq(Frames)
    /\ entry \in BOOLEAN /\ received \in 0 .. Limit
    /\ upstream \in {"none", "open", "ended", "destroyed"}
    /\ reply \in {"none", "head", "ended", "failed"}
    /\ sent \in 0 .. MaxAnswer

\* DSH takes a request body for complete only if it is: not when the browser left in
\* the middle, not when it was too long, not when the tunnel was lost.
UploadIntact == upstream = "ended" => received = size /\ size <= Limit

\* The browser gets what DSH sent, in order, or a page of the relay and nothing of
\* DSH's.
AnswerIsPrefix ==
    /\ IsPrefix(got, [i \in 1 .. sent |-> i])
    /\ head = "page" => got = <<>>
    /\ got # <<>> => head = "host"

\* A response that ends is whole, unless DSH or the tunnel failed meanwhile.
CleanEndIsWhole ==
    ended /\ head = "host" => Len(got) = answer \/ reply = "failed" \/ relaySock = "lost"

\* The browser's side of the exchange is an AnswerStream: also, the host's head is
\* the first thing and there is one, a page never comes into a response that has
\* begun, and nothing at all comes after the end.
Stream == INSTANCE AnswerStream WITH lost <- relaySock = "lost"

AnswerIsStream == Stream!Spec

\* A request to DSH that is not answered yet can be stopped: the host still knows it
\* by its id.
RunningIsTracked == Running => entry

\* When the exchange is over for the relay the host stops too, and for good.
HostReleases == exchange = "finished" ~> []~Running

\* If DSH ends every response, the browser gets an end, too.
ResponseEnds ==
    (upstream # "none" ~> reply \in {"ended", "failed"})
    => (exchange = "attached" ~> exchange = "finished" /\ (ended \/ browser # "there"))
=============================================================================
