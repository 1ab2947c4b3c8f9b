------------------------- MODULE AgentTunnelProofs -------------------------
(***************************************************************************)
(* Theorems about AgentTunnel, for any number of machines, clients,        *)
(* connections and exchanges, and any mishaps.                             *)
(***************************************************************************)
EXTENDS AgentTunnel, TLAPS

-----------------------------------------------------------------------------
(* Types.                                                                  *)

Queues == [Conn -> Seq(Frames)]

\* What is sent can be read.
LEMMA FramesSent ==
    /\ Frame("hello", None) \in Frames /\ Frame("ack", None) \in Frames
    /\ \A x \in Exchange : /\ Frame("request", x) \in Frames
                           /\ Frame("response", x) \in Frames
                           /\ Frame("abort", x) \in Frames
    /\ \A code \in Codes : Frame("close", code) \in Frames
BY DEF Frame, Frames

LEMMA FramesRead ==
    \A frame \in Frames :
        /\ frame.type = "close" => frame.arg \in Codes
        /\ frame.type \in {"request", "response", "abort"} => frame.arg \in Exchange
BY DEF Frames

\* Queues stay queues.
LEMMA QueueTypes ==
    ASSUME NEW q \in Queues, NEW c \in Conn
    PROVE  /\ \A frame \in Frames : /\ Append(q[c], frame) \in Seq(Frames)
                                    /\ Sent(q, c, frame) \in Queues
           /\ q[c] # <<>> => /\ Head(q[c]) \in Frames
                             /\ [q EXCEPT ![c] = Tail(@)] \in Queues
           /\ [q EXCEPT ![c] = <<>>] \in Queues
           /\ [d \in Conn |-> <<>>] \in Queues
<1>1. q[c] \in Seq(Frames) /\ <<>> \in Seq(Frames)
    BY DEF Queues
<1>2. \A frame \in Frames : Append(q[c], frame) \in Seq(Frames)
    BY <1>1
<1>3. q[c] # <<>> => Head(q[c]) \in Frames /\ Tail(q[c]) \in Seq(Frames)
    BY <1>1
<1> QED
    BY <1>1, <1>2, <1>3 DEF Queues, Sent

\* close() at either end keeps the types of both ends' variables.
LEMMA HostClosesTypes ==
    ASSUME TypeOK, NEW c \in Conn, NEW code \in Codes, HostCloses(c, code)
    PROVE  /\ hostEnd' \in [Conn -> Ends] /\ hostCode' \in [Conn -> Codes]
           /\ toRelay' \in Queues
<1>1. Sent(toRelay, c, Frame("close", code)) \in Queues
    BY QueueTypes, FramesSent DEF TypeOK, Queues
<1> QED
    BY <1>1 DEF HostCloses, TypeOK, Queues, Ends, Codes, hostEndVars

LEMMA RelayClosesTypes ==
    ASSUME TypeOK, NEW cs, NEW code \in Codes, RelayCloses(cs, code)
    PROVE  relayEnd' \in [Conn -> Ends \ {"connecting"}] /\ toHost' \in Queues
<1>1. \A c \in Conn : Append(toHost[c], Frame("close", code)) \in Seq(Frames)
    BY QueueTypes, FramesSent DEF TypeOK, Queues
<1> QED
    BY <1>1 DEF RelayCloses, TypeOK, Queues, Ends

LEMMA FailAllTypes ==
    ASSUME TypeOK, NEW cs, FailAll(cs)
    PROVE  /\ carrier' \in [Exchange -> Conn \cup {None}]
           /\ outcome' \in [Exchange -> {"new", "open", "answered", "lost", "left"}]
BY DEF FailAll, TypeOK

\* The steps of a host keep the type.
LEMMA HostTypes ==
    ASSUME TypeOK,
           \/ \E k \in Client, c \in Conn : Start(k, c) \/ RetryFires(k, c)
           \/ \E k \in Client : Stop(k) \/ HostGoesQuiet(k) \/ StartThrows(k)
           \/ \E k \in Client, x \in Exchange : HostAnswers(k, x)
           \/ \E c \in Conn : HostStep(c)
    PROVE  TypeOK'
<1>1. ASSUME NEW k \in Client, NEW c \in Conn, Start(k, c) \/ RetryFires(k, c) PROVE TypeOK'
  <2>1. [toRelay EXCEPT ![c] = <<>>] \in Queues /\ [toHost EXCEPT ![c] = <<>>] \in Queues
    BY QueueTypes DEF TypeOK, Queues
  <2>2. /\ Connect(k, c)
        /\ stopped' \in [Client -> BOOLEAN] /\ retry' \in [Client -> BOOLEAN]
        /\ UNCHANGED <<work, relayEnd, tunnelVars, exchangeVars, worldVars>>
    BY <1>1 DEF Start, RetryFires, TypeOK
  <2>3. /\ state' \in [Client -> {"disabled", "connecting", "online", "retrying", "refused"}]
        /\ sock' \in [Client -> Conn \cup {None}] /\ armed' \in [Client -> BOOLEAN]
        /\ owner' \in [Conn -> Client \cup {None}] /\ hostEnd' \in [Conn -> Ends]
        /\ hostCode' \in [Conn -> Codes] /\ dead' \in [Conn -> BOOLEAN]
    BY <2>2 DEF Connect, TypeOK, Ends, Codes
  <2>4. toRelay' \in Queues /\ toHost' \in Queues
    BY <2>1, <2>2 DEF Connect
  <2> QED
    BY <2>2, <2>3, <2>4 DEF TypeOK, Queues, tunnelVars, exchangeVars, worldVars
<1>2. ASSUME NEW k \in Client, Stop(k) PROVE TypeOK'
  <2>1. /\ hostEnd' \in [Conn -> Ends] /\ hostCode' \in [Conn -> Codes]
        /\ toRelay' \in Queues
    BY <1>2, HostClosesTypes DEF Stop, TypeOK, Queues, Codes, hostEndVars
  <2> QED
    BY <1>2, <2>1 DEF Stop, TypeOK, Queues, tunnelVars, exchangeVars, worldVars
<1>3. ASSUME NEW k \in Client, HostGoesQuiet(k) PROVE TypeOK'
  <2>1. /\ hostEnd' \in [Conn -> Ends] /\ hostCode' \in [Conn -> Codes]
        /\ toRelay' \in Queues
    BY <1>3, HostClosesTypes DEF HostGoesQuiet, TypeOK, Codes
  <2> QED
    BY <1>3, <2>1 DEF HostGoesQuiet, TypeOK, Queues, hostVars, tunnelVars, exchangeVars, worldVars
<1>4. ASSUME NEW c \in Conn, HostOpens(c) PROVE TypeOK'
  <2>1. toRelay' \in Queues
    BY <1>4, QueueTypes, FramesSent DEF HostOpens, TypeOK, Queues
  <2> QED
    BY <1>4, <2>1 DEF HostOpens, TypeOK, Queues, Ends, hostVars, tunnelVars, exchangeVars, worldVars
<1>5. ASSUME NEW c \in Conn, HostLoses(c) PROVE TypeOK'
    BY <1>5 DEF HostLoses, TypeOK, Ends, Codes, hostVars, queueVars, tunnelVars, exchangeVars,
                worldVars
<1>6. ASSUME NEW c \in Conn, HostCloseEvent(c) PROVE TypeOK'
    BY <1>6 DEF HostCloseEvent, TypeOK, Ends, queueVars, tunnelVars, exchangeVars, worldVars
<1>7. ASSUME NEW c \in Conn, HostReceives(c) PROVE TypeOK'
  <2>1. Head(toHost[c]) \in Frames /\ toHost' \in Queues
    BY <1>7, QueueTypes DEF HostReceives, TypeOK, Queues
  <2>2. /\ hostEnd' \in [Conn -> Ends] /\ hostCode' \in [Conn -> Codes]
        /\ toRelay' \in Queues
    <3>1. CASE UNCHANGED <<hostEndVars, toRelay>>
      BY <3>1 DEF TypeOK, Queues, hostEndVars
    <3>2. CASE Head(toHost[c]).type = "close" /\ HostGetsClose(c, Head(toHost[c]).arg)
      <4>1. Head(toHost[c]).arg \in Codes
        BY <2>1, <3>2, FramesRead
      <4>2. Sent(toRelay, c, Frame("close", Head(toHost[c]).arg)) \in Queues
        BY <4>1, QueueTypes, FramesSent DEF TypeOK, Queues
      <4> QED
        BY <3>2, <4>1, <4>2 DEF HostGetsClose, TypeOK, Queues, Ends
    <3> QED
      BY <1>7, <3>1, <3>2 DEF HostReceives
  <2>3. /\ state' \in [Client -> {"disabled", "connecting", "online", "retrying", "refused"}]
        /\ work' \in [Client -> SUBSET Exchange]
    <3>1. Head(toHost[c]).type \in {"request", "abort"} => Head(toHost[c]).arg \in Exchange
      BY <2>1, FramesRead
    <3>2. \/ UNCHANGED state
          \/ state' = [state EXCEPT ![owner[c]] = "online"]
      BY <1>7 DEF HostReceives
    <3>3. \/ UNCHANGED work
          \/ \E x \in Exchange : \/ work' = [work EXCEPT ![owner[c]] = @ \cup {x}]
                               \/ work' = [work EXCEPT ![owner[c]] = @ \ {x}]
      BY <1>7, <3>1 DEF HostReceives
    <3>4. work' \in [Client -> SUBSET Exchange]
      <4>1. CASE UNCHANGED work
        BY <4>1 DEF TypeOK
      <4>2. ASSUME NEW x \in Exchange, work' = [work EXCEPT ![owner[c]] = @ \cup {x}]
            PROVE  work' \in [Client -> SUBSET Exchange]
        BY <4>2 DEF TypeOK
      <4>3. ASSUME NEW x \in Exchange, work' = [work EXCEPT ![owner[c]] = @ \ {x}]
            PROVE  work' \in [Client -> SUBSET Exchange]
        BY <4>3 DEF TypeOK
      <4> QED
        BY <3>3, <4>1, <4>2, <4>3
    <3> QED
      BY <3>2, <3>4 DEF TypeOK
  <2> QED
    BY <1>7, <2>1, <2>2, <2>3 DEF HostReceives, TypeOK, Queues, tunnelVars, exchangeVars, worldVars
<1>8. ASSUME NEW k \in Client, NEW x \in Exchange, HostAnswers(k, x) PROVE TypeOK'
  <2>1. toRelay' \in Queues
    <3>1. toRelay \in Queues /\ (sock[k] # None => sock[k] \in Conn)
      BY DEF TypeOK, Queues
    <3>2. sock[k] # None => Sent(toRelay, sock[k], Frame("response", x)) \in Queues
      BY <3>1, QueueTypes, FramesSent
    <3> QED
      BY <1>8, <3>1, <3>2 DEF HostAnswers
  <2> QED
    BY <1>8, <2>1 DEF HostAnswers, TypeOK, Queues, hostEndVars, tunnelVars, exchangeVars, worldVars
<1>9. ASSUME NEW k \in Client, StartThrows(k) PROVE TypeOK'
    BY <1>9 DEF StartThrows, TypeOK, hostEndVars, queueVars, tunnelVars, exchangeVars, worldVars
<1> QED
    BY <1>1, <1>2, <1>3, <1>4, <1>5, <1>6, <1>7, <1>8, <1>9 DEF HostStep

\* A hello, whatever is made of it, keeps the type.
LEMMA HelloTypes ==
    ASSUME TypeOK, NEW c \in Conn, RelayGetsHello(c),
           toRelay' \in Queues, UNCHANGED <<hostVars, owner, hostEndVars, dead, serving, revoked>>
    PROVE  TypeOK'
<1> USE DEF hostVars, hostEndVars, tunnelVars, exchangeVars
<1>1. CASE UNCHANGED <<relayEnd, toHost, tunnelVars, exchangeVars, crashed, mishaps>>
    BY <1>1 DEF TypeOK, Queues
<1>2. ASSUME NEW code \in Codes, RefuseHello(c, code), mishaps' \in 0 .. MaxMishaps
      PROVE  TypeOK'
  <2>1. relayEnd' \in [Conn -> Ends \ {"connecting"}] /\ toHost' \in Queues
    BY <1>2, RelayClosesTypes DEF RefuseHello
  <2> QED
    BY <1>2, <2>1 DEF RefuseHello, TypeOK, Queues
<1>3. CASE Misjudged(c)
  <2>1. mishaps' \in 0 .. MaxMishaps
    BY <1>3, ConstantsAssumption DEF Misjudged, TypeOK
  <2> QED
    BY <1>2, <1>3, <2>1 DEF Misjudged, Codes
<1>4. CASE AttachTunnel(c)
  <2>1. \A d \in Conn : /\ Append(toHost[d], Frame("close", "replaced")) \in Seq(Frames)
                        /\ Append(toHost[d], Frame("ack", None)) \in Seq(Frames)
                        /\ toHost[d] \in Seq(Frames)
    BY QueueTypes, FramesSent DEF TypeOK, Queues, Codes
  <2>2. toHost' \in Queues
    BY <1>4, <2>1 DEF AttachTunnel, Queues
  <2>3. relayEnd' \in [Conn -> Ends \ {"connecting"}]
    BY <1>4 DEF AttachTunnel, TypeOK, Ends
  <2>4. /\ carrier' \in [Exchange -> Conn \cup {None}]
        /\ outcome' \in [Exchange -> {"new", "open", "answered", "lost", "left"}]
        /\ registry' \in [Agent -> Conn \cup {None}]
    BY <1>4, FailAllTypes DEF AttachTunnel, Add, TypeOK
  <2> QED
    BY <1>4, <2>2, <2>3, <2>4 DEF AttachTunnel, TypeOK, Queues
<1> QED
    BY <1>1, <1>2, <1>3, <1>4 DEF RelayGetsHello, Codes, TypeOK

LEMMA RelayGoneTypes ==
    ASSUME TypeOK, RelayGone, mishaps' \in 0 .. MaxMishaps, crashed' \in BOOLEAN,
           UNCHANGED <<hostVars, owner, hostEndVars, revoked>>
    PROVE  TypeOK'
<1>1. toRelay' \in Queues /\ toHost' \in Queues
    BY DEF RelayGone, Queues
<1>2. /\ carrier' \in [Exchange -> Conn \cup {None}]
      /\ outcome' \in [Exchange -> {"new", "open", "answered", "lost", "left"}]
    BY FailAllTypes DEF RelayGone
<1> QED
    BY <1>1, <1>2 DEF RelayGone, TypeOK, Queues, Ends, hostVars, hostEndVars

\* The steps of a socket at the relay keep the type.
LEMMA RelaySocketTypes ==
    ASSUME TypeOK, NEW c \in Conn,
           RelayStep(c) \/ HandshakeTimeout(c) \/ RelayCrashesOnHello(c) \/ Break(c)
    PROVE  TypeOK'
<1> USE DEF hostVars, hostEndVars, queueVars, tunnelVars, exchangeVars, worldVars
<1>1. CASE RelayAccepts(c) \/ RelayLoses(c)
    BY <1>1 DEF RelayAccepts, RelayLoses, TypeOK, Ends
<1>2. CASE RelayReceives(c)
  <2>1. Head(toRelay[c]) \in Frames /\ toRelay' \in Queues
    BY <1>2, QueueTypes DEF RelayReceives, TypeOK, Queues
  <2>2. UNCHANGED <<hostVars, owner, hostEndVars, dead, serving, revoked>>
    BY <1>2 DEF RelayReceives
  <2>3. CASE RelayGetsHello(c)
    BY <2>1, <2>2, <2>3, HelloTypes
  <2>4. ASSUME NEW x \in Exchange, RelayGetsResponse(c, x) PROVE TypeOK'
    BY <2>1, <2>2, <2>4 DEF RelayGetsResponse, TypeOK, Queues
  <2>5. ASSUME NEW code \in Codes, RelayGetsClose(c, code),
               UNCHANGED <<tunnelVars, exchangeVars, crashed, mishaps>>
        PROVE  TypeOK'
    <3>1. toHost' \in Queues
      BY <2>5, QueueTypes, FramesSent DEF RelayGetsClose, TypeOK, Queues
    <3>2. relayEnd' \in [Conn -> Ends \ {"connecting"}]
      BY <2>5 DEF RelayGetsClose, TypeOK, Ends
    <3> QED
      BY <2>1, <2>2, <2>5, <3>1, <3>2 DEF TypeOK, Queues
  <2> QED
    BY <1>2, <2>1, <2>3, <2>4, <2>5, FramesRead DEF RelayReceives
<1>3. CASE RelayCloseEvent(c)
  <2>1. /\ carrier' \in [Exchange -> Conn \cup {None}]
        /\ outcome' \in [Exchange -> {"new", "open", "answered", "lost", "left"}]
        /\ registry' \in [Agent -> Conn \cup {None}] /\ attached' \in SUBSET Conn
    BY <1>3, FailAllTypes DEF RelayCloseEvent, Remove, TypeOK
  <2> QED
    BY <1>3, <2>1 DEF RelayCloseEvent, TypeOK, Ends
<1>4. CASE HandshakeTimeout(c)
  <2>1. relayEnd' \in [Conn -> Ends \ {"connecting"}] /\ toHost' \in Queues
    BY <1>4, RelayClosesTypes DEF HandshakeTimeout, Codes
  <2>2. mishaps' \in 0 .. MaxMishaps
    BY <1>4, ConstantsAssumption DEF HandshakeTimeout, TypeOK
  <2> QED
    BY <1>4, <2>1, <2>2 DEF HandshakeTimeout, TypeOK, Queues
<1>5. CASE RelayCrashesOnHello(c)
  <2>1. mishaps' \in 0 .. MaxMishaps
    BY <1>5, ConstantsAssumption DEF RelayCrashesOnHello, TouchThrows, TypeOK
  <2> QED
    BY <1>5, <2>1, RelayGoneTypes DEF RelayCrashesOnHello, TouchThrows
<1>6. CASE Break(c)
  <2>1. toRelay' \in Queues /\ toHost' \in Queues
    BY <1>6, QueueTypes DEF Break, TypeOK, Queues
  <2>2. mishaps' \in 0 .. MaxMishaps
    BY <1>6, ConstantsAssumption DEF Break, TypeOK
  <2> QED
    BY <1>6, <2>1, <2>2 DEF Break, TypeOK, Queues
<1> QED
    BY <1>1, <1>2, <1>3, <1>4, <1>5, <1>6 DEF RelayStep

\* The heartbeat, the browsers and the operator keep the type.
LEMMA OutsideTypes ==
    ASSUME TypeOK,
           \/ \E a \in Agent : Heartbeat(a) \/ Revoke(a)
           \/ \E x \in Exchange, a \in Agent : BrowserAsks(x, a)
           \/ \E x \in Exchange : BrowserLeaves(x)
           \/ RelayRestarts \/ RelayShutsDown \/ RelayExits
    PROVE  TypeOK'
<1> USE DEF hostVars, hostEndVars, queueVars, tunnelVars, exchangeVars, worldVars
<1>1. ASSUME NEW a \in Agent, Heartbeat(a) PROVE TypeOK'
  <2>1. relayEnd' \in [Conn -> Ends \ {"connecting"}] /\ toHost' \in Queues
    BY <1>1, RelayClosesTypes DEF Heartbeat, EvictStale, Codes
  <2>2. /\ carrier' \in [Exchange -> Conn \cup {None}]
        /\ outcome' \in [Exchange -> {"new", "open", "answered", "lost", "left"}]
        /\ registry' \in [Agent -> Conn \cup {None}]
    BY <1>1, FailAllTypes DEF Heartbeat, EvictStale, Remove, TypeOK
  <2> QED
    BY <1>1, <2>1, <2>2 DEF Heartbeat, TypeOK, Queues
<1>2. ASSUME NEW a \in Agent, Revoke(a) PROVE TypeOK'
    BY <1>2 DEF Revoke, TypeOK
<1>3. ASSUME NEW x \in Exchange, NEW a \in Agent, BrowserAsks(x, a) PROVE TypeOK'
  <2>1. relayEnd' \in [Conn -> Ends \ {"connecting"}] /\ toHost' \in Queues
    <3>1. CASE RelayCloses({registry[a]}, "revoked")
      BY <3>1, RelayClosesTypes DEF Codes
    <3>2. CASE registry[a] # None /\ toHost' = Sent(toHost, registry[a], Frame("request", x))
               /\ UNCHANGED relayEnd
      <4>1. registry[a] \in Conn
        BY <3>2 DEF TypeOK
      <4> QED
        BY <3>2, <4>1, QueueTypes, FramesSent DEF TypeOK, Queues
    <3>3. CASE UNCHANGED <<relayEnd, toHost>>
      BY <3>3 DEF TypeOK, Queues
    <3> QED
      BY <1>3, <3>1, <3>2, <3>3 DEF BrowserAsks
  <2>2. carrier' \in [Exchange -> Conn \cup {None}]
    <3> DEFINE Left == [y \in Exchange |-> IF carrier[y] = registry[a] THEN None ELSE carrier[y]]
    <3>1. \/ UNCHANGED carrier
          \/ carrier' = [carrier EXCEPT ![x] = registry[a]]
          \/ carrier' = Left
      BY <1>3 DEF BrowserAsks, Attach
    <3> QED
      BY <3>1 DEF TypeOK
  <2>3. outcome' \in [Exchange -> {"new", "open", "answered", "lost", "left"}]
    <3> DEFINE Lost == [y \in Exchange |->
                           IF carrier[y] = registry[a] \/ y = x THEN "lost" ELSE outcome[y]]
    <3>1. \/ outcome' = [outcome EXCEPT ![x] = "lost"]
          \/ outcome' = [outcome EXCEPT ![x] = "open"]
          \/ outcome' = Lost
      BY <1>3 DEF BrowserAsks, Attach
    <3> QED
      BY <3>1 DEF TypeOK
  <2>4. registry' \in [Agent -> Conn \cup {None}]
    BY <1>3 DEF BrowserAsks, TypeOK
  <2> QED
    BY <1>3, <2>1, <2>2, <2>3, <2>4 DEF BrowserAsks, TypeOK, Queues
<1>4. ASSUME NEW x \in Exchange, BrowserLeaves(x) PROVE TypeOK'
  <2>1. toHost' \in Queues
    <3>1. carrier[x] \in Conn
      BY <1>4 DEF BrowserLeaves, TypeOK
    <3> QED
      BY <1>4, <3>1, QueueTypes, FramesSent DEF BrowserLeaves, TypeOK, Queues
  <2> QED
    BY <1>4, <2>1 DEF BrowserLeaves, TypeOK, Queues
<1>5. CASE RelayRestarts
  <2>1. mishaps' \in 0 .. MaxMishaps /\ crashed' \in BOOLEAN
    BY <1>5, ConstantsAssumption DEF RelayRestarts, TypeOK
  <2> QED
    BY <1>5, <2>1, RelayGoneTypes DEF RelayRestarts
<1>6. CASE RelayShutsDown
  <2>1. relayEnd' \in [Conn -> Ends \ {"connecting"}] /\ toHost' \in Queues
    BY <1>6, RelayClosesTypes DEF RelayShutsDown, CloseAll, Codes
  <2>2. /\ carrier' \in [Exchange -> Conn \cup {None}]
        /\ outcome' \in [Exchange -> {"new", "open", "answered", "lost", "left"}]
        /\ registry' \in [Agent -> Conn \cup {None}]
    BY <1>6, FailAllTypes DEF RelayShutsDown, CloseAll, TypeOK
  <2>3. mishaps' \in 0 .. MaxMishaps
    BY <1>6, ConstantsAssumption DEF RelayShutsDown, TypeOK
  <2> QED
    BY <1>6, <2>1, <2>2, <2>3 DEF RelayShutsDown, TypeOK, Queues
<1>7. CASE RelayExits
    BY <1>7 DEF RelayExits, TypeOK
<1> QED
    BY <1>1, <1>2, <1>3, <1>4, <1>5, <1>6, <1>7

LEMMA TypeInit == Init => TypeOK
<1>1. [c \in Conn |-> <<>>] \in Queues
    BY DEF Queues
<1>2. mishaps = 0 => mishaps \in 0 .. MaxMishaps
    BY ConstantsAssumption
<1> SUFFICES ASSUME Init PROVE TypeOK
    OBVIOUS
<1>3. toRelay \in Queues /\ toHost \in Queues
    BY <1>1 DEF Init
<1>4. /\ hostEnd \in [Conn -> Ends] /\ relayEnd \in [Conn -> Ends \ {"connecting"}]
      /\ hostCode \in [Conn -> Codes]
    BY DEF Init, Ends, Codes
<1> QED
    BY <1>2, <1>3, <1>4 DEF Init, TypeOK, Queues

LEMMA TypePreserved == TypeOK /\ [Next]_vars => TypeOK'
<1> SUFFICES ASSUME TypeOK, [Next]_vars PROVE TypeOK'
    OBVIOUS
<1>1. CASE UNCHANGED vars
    BY <1>1 DEF vars, TypeOK, hostVars, hostEndVars, queueVars, tunnelVars, exchangeVars, worldVars
<1> QED
    BY <1>1, HostTypes, RelaySocketTypes, OutsideTypes DEF Next

\* Every reachable state has its type: frames, codes and close events of any order
\* never leave it.
THEOREM TypeCorrect == Spec => []TypeOK
BY TypeInit, TypePreserved, PTL DEF Spec

-----------------------------------------------------------------------------
(* The client.                                                             *)

\* Whoever is at an end of a connection that is not over has been dialed.
Dialed == \A c \in Conn : hostEnd[c] # "closed" \/ relayEnd[c] # "closed" => owner[c] \in Client

\* The socket of a client is its own, and its close event is still to come.
SockIsLive ==
    \A k \in Client : sock[k] # None => owner[sock[k]] = k /\ hostEnd[sock[k]] # "closed"

HostInv == TypeOK /\ Dialed /\ SockIsLive /\ OneAttempt /\ WorkHasSocket

LEMMA HostInit == Init => HostInv
BY TypeInit DEF Init, HostInv, Dialed, SockIsLive, OneAttempt, WorkHasSocket, Conns

\* A step that starts and ends no socket and leaves the client's timers alone.
LEMMA HostIdle ==
    ASSUME HostInv, TypeOK', UNCHANGED <<state, stopped, sock, retry, armed, owner>>,
           \A k \in Client : work'[k] \subseteq work[k],
           \A c \in Conn : hostEnd'[c] = "closed" <=> hostEnd[c] = "closed",
           \A c \in Conn :
               relayEnd'[c] # "closed" => relayEnd[c] # "closed" \/ hostEnd[c] # "closed"
    PROVE  HostInv'
<1> USE DEF HostInv
<1>1. Dialed'
    BY DEF Dialed
<1>2. SockIsLive'
    BY DEF SockIsLive, TypeOK
<1>3. OneAttempt'
    BY DEF OneAttempt, Conns
<1>4. WorkHasSocket'
    BY DEF WorkHasSocket, Conns
<1> QED
    BY <1>1, <1>2, <1>3, <1>4

\* close() starts a close handshake, or aborts the upgrade.
LEMMA ClosingIsNotClosed ==
    ASSUME TypeOK, NEW c \in Conn, NEW code, HostCloses(c, code)
    PROVE  \A d \in Conn : hostEnd'[d] = "closed" <=> hostEnd[d] = "closed"
BY DEF HostCloses, TypeOK, hostEndVars

\* connect() for a client that has neither socket nor timer (start(), retry timer).
LEMMA Connects ==
    ASSUME HostInv, TypeOK', NEW k \in Client, NEW c \in Conn, Connect(k, c),
           \A d \in Conns(k) : hostEnd[d] = "closed",
           sock[k] = None, stopped' = [stopped EXCEPT ![k] = FALSE],
           retry' = [retry EXCEPT ![k] = FALSE], UNCHANGED <<work, relayEnd>>
    PROVE  HostInv'
<1> USE DEF HostInv
<1>1. /\ hostEnd[c] = "closed" /\ relayEnd[c] = "closed"
      /\ hostEnd' = [hostEnd EXCEPT ![c] = "connecting"]
      /\ owner' = [owner EXCEPT ![c] = k] /\ sock' = [sock EXCEPT ![k] = c]
      /\ armed' = [armed EXCEPT ![k] = TRUE] /\ state' = [state EXCEPT ![k] = "connecting"]
    BY DEF Connect
<1>2. c # None
    BY ConstantsAssumption
<1>3. \A d \in Conn \ {c} : hostEnd'[d] = hostEnd[d] /\ owner'[d] = owner[d]
    BY <1>1 DEF TypeOK
<1>4. hostEnd'[c] = "connecting" /\ owner'[c] = k
    BY <1>1 DEF TypeOK
<1>5. \A j \in Client \ {k} : /\ sock'[j] = sock[j] /\ retry'[j] = retry[j]
                              /\ armed'[j] = armed[j] /\ state'[j] = state[j]
                              /\ stopped'[j] = stopped[j]
    BY <1>1 DEF TypeOK
<1>6. /\ sock'[k] = c /\ ~retry'[k] /\ armed'[k] /\ ~stopped'[k]
    BY <1>1 DEF TypeOK
<1>7. Dialed'
    BY <1>3, <1>4 DEF Dialed
<1>8. \A j \in Client \ {k} : sock[j] # c
    BY <1>1, <1>2 DEF SockIsLive
<1>9. SockIsLive'
  <2> SUFFICES ASSUME NEW j \in Client, sock'[j] # None
               PROVE  owner'[sock'[j]] = j /\ hostEnd'[sock'[j]] # "closed"
    BY DEF SockIsLive
  <2>1. CASE j = k
    BY <1>4, <1>6, <2>1
  <2>2. CASE j # k
    <3>1. sock'[j] = sock[j] /\ sock[j] \in Conn \ {c}
      BY <1>5, <1>8, <2>2 DEF TypeOK
    <3> QED
      BY <1>3, <3>1 DEF SockIsLive
  <2> QED
    BY <2>1, <2>2
<1>10. OneAttempt'
  <2> SUFFICES ASSUME NEW j \in Client
               PROVE  /\ ~stopped'[j] =>
                           /\ (sock'[j] # None)
                                # (retry'[j] \/ (sock'[j] = None /\ state'[j] = "refused"))
                           /\ retry'[j] => state'[j] = "retrying"
                           /\ armed'[j] <=> sock'[j] # None
                           /\ \A d \in Conns(j)' : hostEnd'[d] # "closed" => sock'[j] = d
                      /\ stopped'[j] => sock'[j] = None /\ ~retry'[j] /\ ~armed'[j]
    BY DEF OneAttempt
  <2>1. CASE j = k
    <3>1. \A d \in Conns(k)' : hostEnd'[d] # "closed" => sock'[k] = d
      BY <1>3, <1>4, <1>6 DEF Conns
    <3> QED
      BY <1>2, <1>6, <2>1, <3>1
  <2>2. CASE j # k
    <3>1. \A d \in Conns(j)' : d \in Conns(j) /\ hostEnd'[d] = hostEnd[d]
      BY <1>3, <1>4, <2>2 DEF Conns
    <3> QED
      BY <1>5, <2>2, <3>1 DEF OneAttempt
  <2> QED
    BY <2>1, <2>2
<1>11. WorkHasSocket'
  <2> SUFFICES ASSUME NEW j \in Client, work[j] # {}
               PROVE  \E d \in Conns(j)' : hostEnd'[d] # "closed"
    BY DEF WorkHasSocket
  <2>1. PICK d \in Conns(j) : hostEnd[d] # "closed"
    BY DEF WorkHasSocket
  <2>2. d \in Conn \ {c}
    BY <1>1, <2>1 DEF Conns
  <2> QED
    BY <1>3, <2>1, <2>2 DEF Conns
<1> QED
    BY <1>7, <1>9, <1>10, <1>11

\* The close event of a socket ends what its client had on it and leaves the client
\* with a timer, a refusal, or stopped.
LEMMA Closes ==
    ASSUME HostInv, TypeOK', NEW c \in Conn, HostCloseEvent(c)
    PROVE  HostInv'
<1> USE DEF HostInv
<1> DEFINE k == owner[c]
<1>1. k \in Client
    BY DEF HostCloseEvent, Dialed
<1>2. hostEnd[c] = "ending" /\ hostEnd' = [hostEnd EXCEPT ![c] = "closed"] /\ UNCHANGED owner
    BY DEF HostCloseEvent
<1>3. hostEnd'[c] = "closed" /\ \A d \in Conn \ {c} : hostEnd'[d] = hostEnd[d]
    BY <1>2 DEF TypeOK
<1>4. stopped[k] => sock[k] = None
    BY <1>1 DEF OneAttempt
<1>5. ~stopped[k] => sock[k] = c /\ ~retry[k]
  <2>1. c \in Conns(k)
    BY DEF Conns
  <2> QED
    BY <1>1, <1>2, <2>1, ConstantsAssumption DEF OneAttempt
<1>6. sock'[k] = None /\ ~armed'[k] /\ work'[k] = {}
    BY <1>1, <1>4, <1>5 DEF HostCloseEvent, TypeOK
<1>7. \A j \in Client \ {k} : /\ sock'[j] = sock[j] /\ armed'[j] = armed[j] /\ work'[j] = work[j]
                              /\ retry'[j] = retry[j] /\ state'[j] = state[j] /\ sock[j] # c
  <2>1. \A j \in Client \ {k} : sock[j] # c
    BY ConstantsAssumption DEF SockIsLive
  <2> QED
    BY <2>1 DEF HostCloseEvent, TypeOK
<1>8. \/ stopped[k] /\ retry'[k] = retry[k]
      \/ ~stopped[k] /\ state'[k] = "refused" /\ ~retry'[k]
      \/ ~stopped[k] /\ state'[k] = "retrying" /\ retry'[k]
    BY <1>1, <1>5 DEF HostCloseEvent, TypeOK
<1>9. UNCHANGED <<stopped, relayEnd>>
    BY DEF HostCloseEvent
<1>10. Dialed'
    BY <1>2, <1>3, <1>9 DEF Dialed
<1>11. SockIsLive'
  <2> SUFFICES ASSUME NEW j \in Client, sock'[j] # None
               PROVE  owner[sock'[j]] = j /\ hostEnd'[sock'[j]] # "closed"
    BY <1>2 DEF SockIsLive
  <2>1. j # k /\ sock'[j] = sock[j] /\ sock[j] # c /\ sock[j] \in Conn
    BY <1>6, <1>7 DEF TypeOK
  <2> QED
    BY <1>3, <2>1 DEF SockIsLive
<1>12. OneAttempt'
  <2> SUFFICES ASSUME NEW j \in Client
               PROVE  /\ ~stopped[j] =>
                           /\ (sock'[j] # None)
                                # (retry'[j] \/ (sock'[j] = None /\ state'[j] = "refused"))
                           /\ retry'[j] => state'[j] = "retrying"
                           /\ armed'[j] <=> sock'[j] # None
                           /\ \A d \in Conns(j) : hostEnd'[d] # "closed" => sock'[j] = d
                      /\ stopped[j] => sock'[j] = None /\ ~retry'[j] /\ ~armed'[j]
    BY <1>2, <1>9 DEF OneAttempt, Conns
  <2>1. CASE j = k
    <3>1. stopped[k] => ~retry[k]
      BY <1>1 DEF OneAttempt
    <3>2. ~stopped[k] => \A d \in Conns(k) : hostEnd'[d] = "closed"
      BY <1>1, <1>3, <1>5 DEF OneAttempt, Conns
    <3> HIDE DEF k
    <3> QED
      BY <1>6, <1>8, <2>1, <3>1, <3>2
  <2>2. CASE j # k
    <3>1. \A d \in Conns(j) : d # c /\ hostEnd'[d] = hostEnd[d]
      BY <1>3, <2>2 DEF Conns
    <3> HIDE DEF k
    <3> QED
      BY <1>7, <2>2, <3>1 DEF OneAttempt
  <2> QED
    BY <2>1, <2>2
<1>13. WorkHasSocket'
  <2> SUFFICES ASSUME NEW j \in Client, work'[j] # {}
               PROVE  \E d \in Conns(j) : hostEnd'[d] # "closed"
    BY <1>2 DEF WorkHasSocket, Conns
  <2>1. j # k /\ work[j] # {}
    BY <1>6, <1>7
  <2>2. PICK d \in Conns(j) : hostEnd[d] # "closed"
    BY <2>1 DEF WorkHasSocket
  <2>3. d \in Conn \ {c}
    BY <2>1, <2>2 DEF Conns
  <2> QED
    BY <1>3, <2>2, <2>3
<1> QED
    BY <1>10, <1>11, <1>12, <1>13

\* A frame is handled whether or not the client was stopped, but never after its
\* socket's close event.
LEMMA Receives ==
    ASSUME HostInv, TypeOK', NEW c \in Conn, HostReceives(c)
    PROVE  HostInv'
<1> USE DEF HostInv
<1> DEFINE k == owner[c]
<1>1. k \in Client /\ hostEnd[c] \in {"open", "closing"}
    BY DEF HostReceives, Dialed
<1>2. UNCHANGED <<stopped, sock, retry, armed, owner, relayEnd>>
    BY DEF HostReceives
<1>3. \A d \in Conn : hostEnd'[d] = "closed" <=> hostEnd[d] = "closed"
  <2>1. UNCHANGED hostEnd \/ hostEnd' = [hostEnd EXCEPT ![c] = "ending"]
    BY DEF HostReceives, HostGetsClose, hostEndVars
  <2> QED
    BY <1>1, <2>1 DEF TypeOK
<1>4. \A j \in Client \ {k} : state'[j] = state[j] /\ work'[j] = work[j]
    BY DEF HostReceives, TypeOK
<1>5. state'[k] = state[k] \/ state'[k] = "online"
    BY <1>1 DEF HostReceives, TypeOK
<1>6. c \in Conns(k)
    BY DEF Conns
<1>7. ~stopped[k] => sock[k] = c /\ ~retry[k]
    BY <1>1, <1>6, ConstantsAssumption DEF OneAttempt
<1>8. Dialed' /\ SockIsLive'
    BY <1>2, <1>3 DEF Dialed, SockIsLive, TypeOK
<1>9. OneAttempt'
  <2>1. c # None
    BY ConstantsAssumption
  <2> HIDE DEF k
  <2> QED
    BY <1>2, <1>3, <1>4, <1>5, <1>7, <2>1 DEF OneAttempt, Conns
<1>10. WorkHasSocket'
  <2> HIDE DEF k
  <2> QED
    BY <1>1, <1>2, <1>3, <1>4, <1>6 DEF WorkHasSocket, Conns
<1> QED
    BY <1>8, <1>9, <1>10

\* stop(): whatever the client had is let go.
LEMMA Stops ==
    ASSUME HostInv, TypeOK', NEW k \in Client, Stop(k)
    PROVE  HostInv'
<1> USE DEF HostInv
<1>1. \A d \in Conn : hostEnd'[d] = "closed" <=> hostEnd[d] = "closed"
  <2>1. UNCHANGED hostEnd \/ (sock[k] \in Conn /\ HostCloses(sock[k], "normal"))
    <3>1. sock[k] \in Conn \cup {None}
      BY DEF TypeOK
    <3>2. sock[k] = None => UNCHANGED hostEnd
      BY DEF Stop, hostEndVars
    <3>3. sock[k] # None => HostCloses(sock[k], "normal")
      BY DEF Stop
    <3> QED
      BY <3>1, <3>2, <3>3
  <2> QED
    BY <2>1, ClosingIsNotClosed DEF TypeOK
<1>2. UNCHANGED <<owner, relayEnd>>
    BY DEF Stop
<1>3. sock'[k] = None /\ ~retry'[k] /\ ~armed'[k] /\ stopped'[k] /\ work'[k] = {}
    BY DEF Stop, TypeOK
<1>4. \A j \in Client \ {k} : /\ sock'[j] = sock[j] /\ retry'[j] = retry[j]
                              /\ armed'[j] = armed[j] /\ state'[j] = state[j]
                              /\ stopped'[j] = stopped[j] /\ work'[j] = work[j]
    BY DEF Stop, TypeOK
<1>5. Dialed'
    BY <1>1, <1>2 DEF Dialed
<1>6. SockIsLive'
  <2> SUFFICES ASSUME NEW j \in Client, sock'[j] # None
               PROVE  owner[sock'[j]] = j /\ hostEnd'[sock'[j]] # "closed"
    BY <1>2 DEF SockIsLive
  <2>1. j # k /\ sock'[j] = sock[j] /\ sock[j] \in Conn
    BY <1>3, <1>4 DEF TypeOK
  <2> QED
    BY <1>1, <2>1 DEF SockIsLive
<1>7. OneAttempt'
    BY <1>1, <1>2, <1>3, <1>4 DEF OneAttempt, Conns
<1>8. WorkHasSocket'
    BY <1>1, <1>2, <1>3, <1>4 DEF WorkHasSocket, Conns
<1> QED
    BY <1>5, <1>6, <1>7, <1>8

\* No step of the relay or of the world starts or ends a socket of a client.
LEMMA RelayLeavesHost ==
    ASSUME HostInv, TypeOK',
           \/ \E c \in Conn : \/ RelayStep(c) \/ HandshakeTimeout(c)
                              \/ RelayCrashesOnHello(c) \/ Break(c)
           \/ \E a \in Agent : Heartbeat(a) \/ Revoke(a)
           \/ \E x \in Exchange, a \in Agent : BrowserAsks(x, a)
           \/ \E x \in Exchange : BrowserLeaves(x)
           \/ RelayRestarts \/ RelayShutsDown \/ RelayExits
    PROVE  HostInv'
<1>1. UNCHANGED <<hostVars, owner, hostEnd>>
    BY DEF RelayStep, RelayAccepts, RelayReceives, RelayLoses, RelayCloseEvent, HandshakeTimeout,
           RelayCrashesOnHello, Break, Heartbeat, Revoke, BrowserAsks, BrowserLeaves,
           RelayRestarts, RelayShutsDown, RelayExits, hostEndVars
<1>2. \A d \in Conn : relayEnd'[d] # "closed" => relayEnd[d] # "closed" \/ hostEnd[d] # "closed"
  <2>1. ASSUME NEW cs, NEW code, RelayCloses(cs, code)
        PROVE  \A d \in Conn : relayEnd'[d] # "closed" => relayEnd[d] # "closed"
    BY <2>1 DEF RelayCloses
  <2>2. ASSUME NEW c \in Conn, RelayGetsHello(c)
        PROVE  \A d \in Conn : relayEnd'[d] # "closed" => relayEnd[d] # "closed"
    BY <2>1, <2>2 DEF RelayGetsHello, Misjudged, RefuseHello, AttachTunnel
  <2>3. ASSUME NEW c \in Conn, RelayReceives(c)
        PROVE  \A d \in Conn : relayEnd'[d] # "closed" => relayEnd[d] # "closed"
    BY <2>2, <2>3 DEF RelayReceives, RelayGetsResponse, RelayGetsClose, HostInv, TypeOK
  <2>4. ASSUME NEW c \in Conn,
               \/ RelayAccepts(c) \/ RelayLoses(c) \/ RelayCloseEvent(c) \/ HandshakeTimeout(c)
               \/ RelayCrashesOnHello(c) \/ Break(c)
        PROVE  \A d \in Conn : relayEnd'[d] # "closed" =>
                   relayEnd[d] # "closed" \/ hostEnd[d] # "closed"
    BY <2>1, <2>4 DEF RelayAccepts, RelayLoses, RelayCloseEvent, HandshakeTimeout,
                      RelayCrashesOnHello, TouchThrows, RelayGone, Break, HostInv, TypeOK
  <2>5. ASSUME NEW a \in Agent, Heartbeat(a) \/ Revoke(a)
        PROVE  \A d \in Conn : relayEnd'[d] # "closed" => relayEnd[d] # "closed"
    BY <2>1, <2>5 DEF Heartbeat, EvictStale, Revoke
  <2>6. ASSUME NEW x \in Exchange, BrowserLeaves(x) \/ \E a \in Agent : BrowserAsks(x, a)
        PROVE  \A d \in Conn : relayEnd'[d] # "closed" => relayEnd[d] # "closed"
    BY <2>1, <2>6 DEF BrowserAsks, BrowserLeaves
  <2>7. ASSUME RelayRestarts \/ RelayShutsDown \/ RelayExits
        PROVE  \A d \in Conn : relayEnd'[d] # "closed" => relayEnd[d] # "closed"
    BY <2>1, <2>7 DEF RelayRestarts, RelayGone, RelayShutsDown, CloseAll, RelayExits
  <2> QED
    BY <2>3, <2>4, <2>5, <2>6, <2>7 DEF RelayStep
<1> QED
    BY <1>1, <1>2, HostIdle DEF hostVars

LEMMA HostPreserved == HostInv /\ [Next]_vars => HostInv'
<1> SUFFICES ASSUME HostInv, [Next]_vars PROVE HostInv'
    OBVIOUS
<1>1. TypeOK'
    BY TypePreserved DEF HostInv
<1>2. ASSUME NEW k \in Client, NEW c \in Conn, Start(k, c) PROVE HostInv'
  <2>1. /\ sock[k] = None /\ ~retry[k]
        /\ \A d \in Conns(k) : hostEnd[d] = "closed"
    BY <1>2 DEF Start, HostInv, OneAttempt
  <2>2. retry' = [retry EXCEPT ![k] = FALSE]
    BY <1>2, <2>1 DEF Start, HostInv, TypeOK
  <2> QED
    BY <1>1, <1>2, <2>1, <2>2, Connects DEF Start
<1>3. ASSUME NEW k \in Client, NEW c \in Conn, RetryFires(k, c) PROVE HostInv'
  <2>1. ~stopped[k] /\ sock[k] = None
    BY <1>3 DEF RetryFires, HostInv, OneAttempt, TypeOK
  <2>2. \A d \in Conns(k) : hostEnd[d] = "closed"
    BY <2>1, ConstantsAssumption DEF HostInv, OneAttempt, Conns
  <2>3. stopped' = [stopped EXCEPT ![k] = FALSE]
    BY <1>3, <2>1 DEF RetryFires, HostInv, TypeOK
  <2> QED
    BY <1>1, <1>3, <2>1, <2>2, <2>3, Connects DEF RetryFires
<1>4. ASSUME NEW k \in Client, Stop(k) PROVE HostInv'
    BY <1>1, <1>4, Stops
<1>5. ASSUME NEW k \in Client, HostGoesQuiet(k) PROVE HostInv'
  <2>1. \A d \in Conn : hostEnd'[d] = "closed" <=> hostEnd[d] = "closed"
    BY <1>5, ClosingIsNotClosed DEF HostGoesQuiet, HostInv, TypeOK
  <2> QED
    BY <1>1, <1>5, <2>1, HostIdle DEF HostGoesQuiet, hostVars
<1>6. ASSUME NEW k \in Client, NEW x \in Exchange, HostAnswers(k, x) PROVE HostInv'
  <2>1. \A j \in Client : work'[j] \subseteq work[j]
    BY <1>6 DEF HostAnswers, HostInv, TypeOK
  <2> QED
    BY <1>1, <1>6, <2>1, HostIdle DEF HostAnswers, hostEndVars
<1>7. ASSUME NEW c \in Conn, HostOpens(c) \/ HostLoses(c) PROVE HostInv'
  <2>1. \A d \in Conn : hostEnd'[d] = "closed" <=> hostEnd[d] = "closed"
    BY <1>7 DEF HostOpens, HostLoses, HostInv, TypeOK
  <2> QED
    BY <1>1, <1>7, <2>1, HostIdle DEF HostOpens, HostLoses, hostVars
<1>9. ASSUME NEW k \in Client, StartThrows(k) PROVE HostInv'
  <2> USE DEF HostInv
  <2>1. /\ stopped[k] /\ sock[k] = None /\ ~armed[k]
        /\ \A d \in Conns(k) : hostEnd[d] = "closed"
    BY <1>9 DEF StartThrows, OneAttempt
  <2>2. /\ UNCHANGED <<sock, armed, work, owner, hostEnd, relayEnd>>
        /\ state'[k] = "retrying" /\ retry'[k] /\ ~stopped'[k]
        /\ \A j \in Client \ {k} : /\ state'[j] = state[j] /\ retry'[j] = retry[j]
                                  /\ stopped'[j] = stopped[j]
    BY <1>9 DEF StartThrows, TypeOK, hostEndVars
  <2>3. OneAttempt'
    BY <2>1, <2>2 DEF OneAttempt, Conns
  <2>4. Dialed' /\ SockIsLive' /\ WorkHasSocket'
    BY <2>2 DEF Dialed, SockIsLive, WorkHasSocket, Conns
  <2> QED
    BY <1>1, <2>3, <2>4
<1>8. CASE UNCHANGED vars
    BY <1>1, <1>8, HostIdle DEF vars, hostVars, hostEndVars
<1> QED
    BY <1>1, <1>2, <1>3, <1>4, <1>5, <1>6, <1>7, <1>8, <1>9, Closes, Receives, RelayLeavesHost
    DEF Next, HostStep

\* A client that runs has a socket, a retry timer or a refusal, and one of them only:
\* through stops, restarts and close events of any order (#connect, handleClose, stop).
THEOREM SingleAttempt == Spec => []OneAttempt
<1>1. HostInv => OneAttempt
    BY DEF HostInv
<1> QED
    BY <1>1, HostInit, HostPreserved, PTL DEF Spec

\* What runs on the host for a tunnel is stopped by a close event to come
\* (#teardownExchanges), also what a frame starts after stop().
THEOREM WorkIsStopped == Spec => []WorkHasSocket
<1>1. HostInv => WorkHasSocket
    BY DEF HostInv
<1> QED
    BY <1>1, HostInit, HostPreserved, PTL DEF Spec

-----------------------------------------------------------------------------
(* The relay.                                                              *)

\* A registered tunnel is one of its agent's, attached, with a close event to come.
RegisteredIsAttached ==
    \A a \in Agent : registry[a] # None =>
        /\ registry[a] \in attached /\ relayEnd[registry[a]] # "closed"
        /\ agentOf[owner[registry[a]]] = a

RelayInv == HostInv /\ OpenTunnelIsRegistered /\ NoOrphanExchange /\ RegisteredIsAttached

LEMMA RelayInit == Init => RelayInv
BY HostInit DEF Init, RelayInv, OpenTunnelIsRegistered, NoOrphanExchange, RegisteredIsAttached

\* A step that changes neither registry nor exchanges, opens no socket that is attached
\* and ends none that is registered.
LEMMA RelayIdle ==
    ASSUME RelayInv, HostInv', UNCHANGED <<registry, exchangeVars>>, attached' = attached,
           \A c \in Conn : relayEnd[c] # "closed" => owner'[c] = owner[c],
           \A c \in attached : relayEnd'[c] = "open" => relayEnd[c] = "open",
           \A a \in Agent : registry[a] # None => relayEnd'[registry[a]] # "closed"
    PROVE  RelayInv'
<1> USE DEF RelayInv, HostInv
<1>1. OpenTunnelIsRegistered'
    BY DEF OpenTunnelIsRegistered, TypeOK
<1>2. NoOrphanExchange'
    BY DEF NoOrphanExchange, exchangeVars
<1>3. RegisteredIsAttached'
    BY DEF RegisteredIsAttached, TypeOK
<1> QED
    BY <1>1, <1>2, <1>3

\* Tunnels that leave the registry, closed by the relay or with their close event
\* (remove, evictStale, closeAll), take their exchanges with them.
LEMMA Leaves ==
    ASSUME RelayInv, HostInv', NEW cs \in SUBSET Conn,
           registry' = [a \in Agent |-> IF registry[a] \in cs THEN None ELSE registry[a]],
           FailAll(cs), owner' = owner,
           attached' \subseteq attached, attached \ attached' \subseteq cs,
           \A c \in Conn : relayEnd'[c] = "open" => relayEnd[c] = "open" /\ c \notin cs,
           \A c \in Conn \ cs : relayEnd[c] # "closed" => relayEnd'[c] # "closed"
    PROVE  RelayInv'
<1> USE DEF RelayInv, HostInv
<1>1. \A a \in Agent : registry'[a] = IF registry[a] \in cs THEN None ELSE registry[a]
    OBVIOUS
<1>2. OpenTunnelIsRegistered'
  <2> SUFFICES ASSUME NEW c \in attached', relayEnd'[c] = "open"
               PROVE  registry'[agentOf[owner[c]]] = c
    BY DEF OpenTunnelIsRegistered
  <2>1. c \in Conn /\ c \in attached /\ c \notin cs /\ relayEnd[c] = "open"
    BY DEF TypeOK
  <2>2. registry[agentOf[owner[c]]] = c
    BY <2>1 DEF OpenTunnelIsRegistered
  <2>3. agentOf[owner[c]] \in Agent
    BY <2>1, ConstantsAssumption DEF Dialed
  <2> QED
    BY <1>1, <2>1, <2>2, <2>3
<1>3. \A x \in Exchange : /\ carrier'[x] = IF carrier[x] \in cs THEN None ELSE carrier[x]
                          /\ outcome'[x] = IF carrier[x] \in cs THEN "lost" ELSE outcome[x]
    BY DEF FailAll
<1>4. None \notin cs
    BY ConstantsAssumption
<1>5. NoOrphanExchange'
  <2> SUFFICES ASSUME NEW x \in Exchange
               PROVE  /\ carrier'[x] # None => \E a \in Agent : registry'[a] = carrier'[x]
                      /\ outcome'[x] = "open" <=> carrier'[x] # None
    BY DEF NoOrphanExchange
  <2> QED
    BY <1>1, <1>3, <1>4 DEF NoOrphanExchange
<1>6. RegisteredIsAttached'
  <2> SUFFICES ASSUME NEW a \in Agent, registry'[a] # None
               PROVE  /\ registry'[a] \in attached' /\ relayEnd'[registry'[a]] # "closed"
                      /\ agentOf[owner[registry'[a]]] = a
    BY DEF RegisteredIsAttached
  <2>1. registry'[a] = registry[a] /\ registry[a] \notin cs /\ registry[a] \in Conn
    BY <1>1 DEF TypeOK
  <2> QED
    BY <2>1 DEF RegisteredIsAttached
<1> QED
    BY <1>2, <1>5, <1>6

\* A hello that passes: the tunnel that was registered for the agent loses its place,
\* its exchanges and, if it is open, its socket (TunnelRegistry.add).
LEMMA Attaches ==
    ASSUME RelayInv, HostInv', NEW c \in Conn, relayEnd[c] \in {"open", "closing"},
           c \notin attached, AttachTunnel(c), owner' = owner
    PROVE  RelayInv'
<1> USE DEF RelayInv, HostInv
<1> DEFINE a == agentOf[owner[c]]
<1>1. a \in Agent /\ c # None
    BY ConstantsAssumption DEF Dialed
<1> DEFINE d == registry[a]
<1>2. /\ registry'[a] = c
      /\ \A b \in Agent \ {a} : registry'[b] = registry[b]
    BY <1>1 DEF AttachTunnel, Add, TypeOK
<1>3. \A e \in Conn :
          relayEnd'[e] = IF e = d /\ relayEnd[e] = "open" THEN "closing" ELSE relayEnd[e]
    BY ConstantsAssumption DEF AttachTunnel
<1>4. attached' = attached \cup {c}
    BY DEF AttachTunnel
<1>5. \A x \in Exchange :
        /\ carrier'[x] = IF carrier[x] # None /\ carrier[x] = d THEN None ELSE carrier[x]
        /\ outcome'[x] = IF carrier[x] # None /\ carrier[x] = d THEN "lost" ELSE outcome[x]
    BY DEF AttachTunnel, Add, FailAll
<1>6. d # c
    BY <1>1 DEF RegisteredIsAttached
<1>7. \A b \in Agent \ {a} : registry[b] # None => registry[b] # d
    BY <1>1 DEF RegisteredIsAttached
<1> HIDE DEF d
<1>8. OpenTunnelIsRegistered'
  <2> SUFFICES ASSUME NEW e \in attached', relayEnd'[e] = "open"
               PROVE  registry'[agentOf[owner[e]]] = e
    BY DEF OpenTunnelIsRegistered
  <2>1. CASE e = c
    BY <1>2, <2>1
  <2>2. CASE e # c
    <3>1. e \in attached /\ e \in Conn
      BY <1>4, <2>2 DEF TypeOK
    <3>2. e # d /\ relayEnd[e] = "open"
      BY <1>3, <3>1
    <3>3. registry[agentOf[owner[e]]] = e /\ agentOf[owner[e]] \in Agent
      BY <3>1, <3>2, ConstantsAssumption DEF OpenTunnelIsRegistered, Dialed
    <3>4. agentOf[owner[e]] # a
      BY <3>2, <3>3 DEF d
    <3> HIDE DEF a
    <3> QED
      BY <1>2, <3>3, <3>4
  <2> QED
    BY <2>1, <2>2
<1>9. NoOrphanExchange'
  <2> SUFFICES ASSUME NEW x \in Exchange
               PROVE  /\ carrier'[x] # None => \E b \in Agent : registry'[b] = carrier'[x]
                      /\ outcome'[x] = "open" <=> carrier'[x] # None
    BY DEF NoOrphanExchange
  <2>1. carrier[x] # None /\ carrier[x] # d => \E b \in Agent \ {a} : registry[b] = carrier[x]
    BY DEF NoOrphanExchange, d
  <2>2. outcome[x] = "open" <=> carrier[x] # None
    BY DEF NoOrphanExchange
  <2> HIDE DEF a
  <2> QED
    BY <1>2, <1>5, <2>1, <2>2
<1>10. RegisteredIsAttached'
  <2> SUFFICES ASSUME NEW b \in Agent, registry'[b] # None
               PROVE  /\ registry'[b] \in attached' /\ relayEnd'[registry'[b]] # "closed"
                      /\ agentOf[owner[registry'[b]]] = b
    BY DEF RegisteredIsAttached
  <2>1. CASE b = a
    BY <1>2, <1>3, <1>4, <2>1
  <2>2. CASE b # a
    <3>1. registry'[b] = registry[b] /\ registry[b] \in Conn
      BY <1>2, <2>2 DEF TypeOK
    <3> QED
      BY <1>3, <1>4, <3>1 DEF RegisteredIsAttached
  <2> QED
    BY <2>1, <2>2
<1> QED
    BY <1>8, <1>9, <1>10

\* A socket that the relay accepts is neither attached nor registered.
LEMMA Accepts ==
    ASSUME RelayInv, HostInv', NEW c \in Conn, RelayAccepts(c)
    PROVE  RelayInv'
<1> USE DEF RelayInv, HostInv
<1>1. /\ \A d \in Conn \ {c} : relayEnd'[d] = relayEnd[d]
      /\ relayEnd[c] = "closed" /\ relayEnd'[c] = "open" /\ attached' = attached \ {c}
      /\ UNCHANGED <<registry, carrier, outcome, owner>>
    BY DEF RelayAccepts, TypeOK, exchangeVars
<1>2. \A a \in Agent : registry[a] # None => registry[a] # c
    BY <1>1 DEF RegisteredIsAttached
<1>3. OpenTunnelIsRegistered'
    BY <1>1 DEF OpenTunnelIsRegistered, TypeOK
<1>4. NoOrphanExchange'
    BY <1>1 DEF NoOrphanExchange
<1>5. RegisteredIsAttached'
    BY <1>1, <1>2 DEF RegisteredIsAttached, TypeOK
<1> QED
    BY <1>3, <1>4, <1>5

\* A relay that ends has no tunnel and no exchange left.
LEMMA RelayEnds ==
    ASSUME RelayInv, HostInv', RelayGone, UNCHANGED owner
    PROVE  RelayInv'
<1>1. registry' = [a \in Agent |-> IF registry[a] \in Conn THEN None ELSE registry[a]]
    BY DEF RelayGone, RelayInv, HostInv, TypeOK
<1> QED
    BY <1>1, Leaves DEF RelayGone, RelayInv, HostInv, TypeOK

\* A frame that arrives at the relay.
LEMMA RelayReads ==
    ASSUME RelayInv, HostInv', NEW c \in Conn, RelayReceives(c)
    PROVE  RelayInv'
<1> USE DEF RelayInv, HostInv
<1>1. owner' = owner /\ relayEnd[c] \in {"open", "closing"}
    BY DEF RelayReceives
<1>2. ASSUME UNCHANGED <<relayEnd, tunnelVars, exchangeVars>> PROVE RelayInv'
    BY <1>1, <1>2, RelayIdle DEF tunnelVars, RegisteredIsAttached
<1>3. ASSUME NEW code, RefuseHello(c, code) PROVE RelayInv'
  <2>1. \A d \in Conn : /\ relayEnd'[d] = "open" => relayEnd[d] = "open"
                        /\ relayEnd[d] # "closed" => relayEnd'[d] # "closed"
    BY <1>3 DEF RefuseHello, RelayCloses
  <2> QED
    BY <1>1, <1>3, <2>1, RelayIdle DEF RefuseHello, tunnelVars, RegisteredIsAttached, TypeOK
<1>4. CASE RelayGetsHello(c)
  <2>1. CASE c \in attached
    BY <1>2, <1>4, <2>1 DEF RelayGetsHello
  <2>2. CASE c \notin attached
    BY <1>1, <1>3, <1>4, <2>2, Attaches DEF RelayGetsHello, Misjudged
  <2> QED
    BY <2>1, <2>2
<1>5. ASSUME NEW x \in Exchange, RelayGetsResponse(c, x) PROVE RelayInv'
  <2>1. CASE UNCHANGED exchangeVars
    BY <1>2, <1>5, <2>1 DEF RelayGetsResponse
  <2>2. CASE ~UNCHANGED exchangeVars
    <3>1. /\ carrier' = [carrier EXCEPT ![x] = None]
          /\ outcome' = [outcome EXCEPT ![x] = "answered"]
          /\ UNCHANGED <<relayEnd, attached, registry>>
      BY <1>5, <2>2 DEF RelayGetsResponse, tunnelVars
    <3>2. NoOrphanExchange'
      BY <3>1 DEF NoOrphanExchange, TypeOK
    <3> QED
      BY <1>1, <3>1, <3>2 DEF OpenTunnelIsRegistered, RegisteredIsAttached
  <2> QED
    BY <2>1, <2>2
<1>6. ASSUME NEW code, RelayGetsClose(c, code), UNCHANGED <<tunnelVars, exchangeVars>>
      PROVE  RelayInv'
  <2>1. \A d \in Conn : /\ relayEnd'[d] = "open" => relayEnd[d] = "open"
                        /\ relayEnd[d] # "closed" => relayEnd'[d] # "closed"
    BY <1>6 DEF RelayGetsClose, TypeOK
  <2> QED
    BY <1>1, <1>6, <2>1, RelayIdle DEF tunnelVars, RegisteredIsAttached, TypeOK
<1>7. Head(toRelay[c]).type = "response" => Head(toRelay[c]).arg \in Exchange
    BY QueueTypes, FramesRead DEF RelayReceives, TypeOK, Queues
<1> QED
    BY <1>4, <1>5, <1>6, <1>7 DEF RelayReceives

\* The other events of a socket at the relay.
LEMMA RelaySocket ==
    ASSUME RelayInv, HostInv', NEW c \in Conn,
           \/ RelayLoses(c) \/ RelayCloseEvent(c) \/ HandshakeTimeout(c)
           \/ RelayCrashesOnHello(c) \/ Break(c)
    PROVE  RelayInv'
<1> USE DEF RelayInv, HostInv
<1>1. CASE RelayLoses(c)
  <2>1. \A d \in Conn : /\ relayEnd'[d] = "open" => relayEnd[d] = "open"
                        /\ relayEnd[d] # "closed" => relayEnd'[d] # "closed"
    BY <1>1 DEF RelayLoses, TypeOK
  <2> QED
    BY <1>1, <2>1, RelayIdle DEF RelayLoses, tunnelVars, RegisteredIsAttached, TypeOK
<1>2. CASE RelayCloseEvent(c)
  <2>1. \A d \in Conn : relayEnd'[d] = IF d = c THEN "closed" ELSE relayEnd[d]
    BY <1>2 DEF RelayCloseEvent, TypeOK
  <2>2. owner' = owner
    BY <1>2 DEF RelayCloseEvent
  <2>3. CASE c \in attached
    <3>1. registry' = [a \in Agent |-> IF registry[a] \in {c} THEN None ELSE registry[a]]
      BY <1>2, <2>3 DEF RelayCloseEvent, Remove
    <3> QED
      BY <1>2, <2>1, <2>2, <2>3, <3>1, Leaves DEF RelayCloseEvent, Remove
  <2>4. CASE c \notin attached
    <3>1. UNCHANGED <<tunnelVars, exchangeVars>>
      BY <1>2, <2>4 DEF RelayCloseEvent
    <3>2. \A a \in Agent : registry[a] # None => relayEnd'[registry[a]] # "closed"
      BY <2>1, <2>4 DEF RegisteredIsAttached, TypeOK
    <3> QED
      BY <2>1, <2>2, <3>1, <3>2, RelayIdle DEF tunnelVars, TypeOK
  <2> QED
    BY <2>3, <2>4
<1>3. CASE HandshakeTimeout(c)
  <2>1. \A d \in Conn : /\ relayEnd'[d] = "open" => relayEnd[d] = "open"
                        /\ relayEnd[d] # "closed" => relayEnd'[d] # "closed"
    BY <1>3 DEF HandshakeTimeout, RelayCloses
  <2> QED
    BY <1>3, <2>1, RelayIdle DEF HandshakeTimeout, tunnelVars, RegisteredIsAttached, TypeOK
<1>4. CASE RelayCrashesOnHello(c)
    BY <1>4, RelayEnds DEF RelayCrashesOnHello, TouchThrows
<1>5. CASE Break(c)
    BY <1>5, RelayIdle DEF Break, tunnelVars, RegisteredIsAttached
<1> QED
    BY <1>1, <1>2, <1>3, <1>4, <1>5

\* A browser's request: the tunnel of a revoked machine leaves the registry with every
\* exchange on it (liveAuthorizedTunnel), any other may carry it.
LEMMA Asks ==
    ASSUME RelayInv, HostInv', NEW x \in Exchange, NEW a \in Agent, BrowserAsks(x, a)
    PROVE  RelayInv'
<1> USE DEF RelayInv, HostInv
<1> DEFINE c == registry[a]
<1>1. /\ outcome[x] = "new" /\ carrier[x] = None
      /\ owner' = owner /\ attached' = attached
    BY DEF BrowserAsks, NoOrphanExchange
<1>2. CASE /\ outcome' = [outcome EXCEPT ![x] = "lost"]
           /\ UNCHANGED <<relayEnd, registry, carrier>>
  <2>1. NoOrphanExchange'
    BY <1>1, <1>2 DEF NoOrphanExchange, TypeOK
  <2> QED
    BY <1>1, <1>2, <2>1 DEF OpenTunnelIsRegistered, RegisteredIsAttached
<1>3. CASE c # None /\ Attach(x, c) /\ UNCHANGED <<relayEnd, registry>>
  <2>1. NoOrphanExchange'
    BY <1>1, <1>3 DEF Attach, NoOrphanExchange, TypeOK
  <2> QED
    BY <1>1, <1>3, <2>1 DEF OpenTunnelIsRegistered, RegisteredIsAttached
<1>4. CASE /\ c # None
           /\ registry' = [registry EXCEPT ![a] = None]
           /\ RelayCloses({c}, "revoked")
           /\ carrier' = [y \in Exchange |-> IF carrier[y] = c THEN None ELSE carrier[y]]
           /\ outcome' = [y \in Exchange |-> IF carrier[y] = c \/ y = x THEN "lost" ELSE outcome[y]]
  <2>1. /\ registry'[a] = None /\ \A b \in Agent \ {a} : registry'[b] = registry[b]
        /\ \A b \in Agent \ {a} : registry[b] # None => registry[b] # c
    BY <1>4 DEF RegisteredIsAttached, TypeOK
  <2>2. \A d \in Conn :
            relayEnd'[d] = IF d = c /\ relayEnd[d] = "open" THEN "closing" ELSE relayEnd[d]
    BY <1>4 DEF RelayCloses
  <2>3. OpenTunnelIsRegistered'
    <3> SUFFICES ASSUME NEW d \in attached, relayEnd'[d] = "open"
                 PROVE  registry'[agentOf[owner[d]]] = d
      BY <1>1 DEF OpenTunnelIsRegistered
    <3>1. d \in Conn /\ d # c /\ relayEnd[d] = "open"
      BY <2>2 DEF TypeOK
    <3>2. registry[agentOf[owner[d]]] = d /\ agentOf[owner[d]] \in Agent
      BY <3>1, ConstantsAssumption DEF OpenTunnelIsRegistered, Dialed
    <3> QED
      BY <2>1, <3>1, <3>2
  <2>4. NoOrphanExchange'
    <3> SUFFICES ASSUME NEW y \in Exchange
                 PROVE  /\ carrier'[y] # None => \E b \in Agent : registry'[b] = carrier'[y]
                        /\ outcome'[y] = "open" <=> carrier'[y] # None
      BY DEF NoOrphanExchange
    <3>1. /\ carrier[y] # None => \E b \in Agent : registry[b] = carrier[y]
          /\ outcome[y] = "open" <=> carrier[y] # None
      BY DEF NoOrphanExchange
    <3>2. /\ carrier'[y] = IF carrier[y] = c THEN None ELSE carrier[y]
          /\ outcome'[y] = IF carrier[y] = c \/ y = x THEN "lost" ELSE outcome[y]
      BY <1>4
    <3>3. carrier'[y] # None => \E b \in Agent \ {a} : registry[b] = carrier'[y]
      BY <3>1, <3>2
    <3> HIDE DEF c
    <3> QED
      BY <1>1, <1>4, <2>1, <3>1, <3>2, <3>3
  <2>5. RegisteredIsAttached'
    <3> SUFFICES ASSUME NEW b \in Agent, registry'[b] # None
                 PROVE  /\ registry'[b] \in attached /\ relayEnd'[registry'[b]] # "closed"
                        /\ agentOf[owner[registry'[b]]] = b
      BY <1>1 DEF RegisteredIsAttached
    <3>1. registry'[b] = registry[b] /\ registry[b] \in Conn
      BY <2>1 DEF TypeOK
    <3> QED
      BY <2>2, <3>1 DEF RegisteredIsAttached
  <2> QED
    BY <2>3, <2>4, <2>5
<1> QED
    BY <1>2, <1>3, <1>4 DEF BrowserAsks

\* No step of a client touches the registry, and a connection is lent a new owner only
\* when it is over at the relay.
LEMMA HostLeavesRelay ==
    ASSUME RelayInv, HostInv',
           \/ \E k \in Client, c \in Conn : Start(k, c) \/ RetryFires(k, c)
           \/ \E k \in Client : Stop(k) \/ HostGoesQuiet(k) \/ StartThrows(k)
           \/ \E k \in Client, x \in Exchange : HostAnswers(k, x)
           \/ \E c \in Conn : HostStep(c)
    PROVE  RelayInv'
<1>1. UNCHANGED <<relayEnd, registry, attached, exchangeVars>>
    BY DEF Start, StartThrows, RetryFires, Stop, HostGoesQuiet, HostAnswers, HostStep, HostOpens,
           HostLoses, HostCloseEvent, HostReceives, tunnelVars
<1>2. \A d \in Conn : relayEnd[d] # "closed" => owner'[d] = owner[d]
  <2>1. ASSUME NEW k \in Client, NEW c \in Conn, Connect(k, c)
        PROVE  \A d \in Conn : relayEnd[d] # "closed" => owner'[d] = owner[d]
    BY <2>1 DEF Connect, RelayInv, HostInv, TypeOK
  <2>2. \/ owner' = owner
        \/ \E k \in Client, c \in Conn : Connect(k, c)
    BY DEF Start, StartThrows, RetryFires, Stop, HostGoesQuiet, HostAnswers, HostStep, HostOpens,
           HostLoses, HostCloseEvent, HostReceives
  <2> QED
    BY <2>1, <2>2
<1> QED
    BY <1>1, <1>2, RelayIdle DEF RelayInv, RegisteredIsAttached

LEMMA RelayPreserved == RelayInv /\ [Next]_vars => RelayInv'
<1> SUFFICES ASSUME RelayInv, [Next]_vars PROVE RelayInv'
    OBVIOUS
<1> USE DEF RelayInv
<1>1. HostInv'
    BY HostPreserved
<1>2. ASSUME NEW a \in Agent, Heartbeat(a) PROVE RelayInv'
  <2>1. registry[a] \in Conn
    BY <1>2 DEF Heartbeat, EvictStale, HostInv, TypeOK
  <2>2. registry' = [b \in Agent |-> IF registry[b] \in {registry[a]} THEN None ELSE registry[b]]
    BY <1>2 DEF Heartbeat, EvictStale, Remove
  <2>3. \A d \in Conn : relayEnd'[d] = IF d = registry[a] /\ relayEnd[d] = "open"
                                       THEN "closing" ELSE relayEnd[d]
    BY <1>2 DEF Heartbeat, EvictStale, RelayCloses
  <2> QED
    BY <1>1, <1>2, <2>1, <2>2, <2>3, Leaves DEF Heartbeat, EvictStale, Remove
<1>3. ASSUME NEW a \in Agent, Revoke(a) PROVE RelayInv'
    BY <1>1, <1>3, RelayIdle DEF Revoke, tunnelVars, RegisteredIsAttached
<1>4. ASSUME NEW x \in Exchange, BrowserLeaves(x) PROVE RelayInv'
  <2>1. /\ carrier' = [carrier EXCEPT ![x] = None] /\ outcome' = [outcome EXCEPT ![x] = "left"]
        /\ UNCHANGED <<relayEnd, registry, attached, owner>>
    BY <1>4 DEF BrowserLeaves, tunnelVars
  <2>2. NoOrphanExchange'
    BY <2>1 DEF NoOrphanExchange, HostInv, TypeOK
  <2> QED
    BY <1>1, <2>1, <2>2 DEF OpenTunnelIsRegistered, RegisteredIsAttached
<1>5. CASE RelayRestarts
    BY <1>1, <1>5, RelayEnds DEF RelayRestarts
<1>6. CASE RelayShutsDown
  <2> DEFINE tunnels == {registry[a] : a \in Agent} \ {None}
  <2>1. tunnels \in SUBSET Conn
    BY DEF HostInv, TypeOK
  <2>2. registry' = [a \in Agent |-> IF registry[a] \in tunnels THEN None ELSE registry[a]]
    BY <1>6 DEF RelayShutsDown, CloseAll
  <2>3. FailAll(tunnels) /\ RelayCloses(tunnels, "offline") /\ UNCHANGED <<owner, attached>>
    BY <1>6 DEF RelayShutsDown, CloseAll
  <2> HIDE DEF tunnels
  <2>4. \A d \in Conn : relayEnd'[d] = IF d \in tunnels /\ relayEnd[d] = "open"
                                       THEN "closing" ELSE relayEnd[d]
    BY <2>3 DEF RelayCloses
  <2> QED
    BY <1>1, <2>1, <2>2, <2>3, <2>4, Leaves
<1>7. CASE RelayExits
    BY <1>1, <1>7, RelayIdle DEF RelayExits, tunnelVars, RegisteredIsAttached
<1>8. CASE UNCHANGED vars
    BY <1>1, <1>8, RelayIdle DEF vars, tunnelVars, RegisteredIsAttached
<1> QED
    BY <1>1, <1>2, <1>3, <1>4, <1>5, <1>6, <1>7, <1>8, Accepts, RelayReads, RelaySocket, Asks,
       HostLeavesRelay
    DEF Next, RelayStep

\* A tunnel that is open at the relay is the registered one of its agent
\* (TunnelRegistry.add, remove, evictStale), in every order of displacement and close events.
THEOREM OneTunnel == Spec => []OpenTunnelIsRegistered
<1>1. RelayInv => OpenTunnelIsRegistered
    BY DEF RelayInv
<1> QED
    BY <1>1, RelayInit, RelayPreserved, PTL DEF Spec

\* No exchange is left on a tunnel that the relay has given up (Tunnel.failAll).
THEOREM NoOrphans == Spec => []NoOrphanExchange
<1>1. RelayInv => NoOrphanExchange
    BY DEF RelayInv
<1> QED
    BY <1>1, RelayInit, RelayPreserved, PTL DEF Spec

\* A revoked machine gets no exchange and does not come back (liveAuthorizedTunnel and
\* the check of a hello).
THEOREM Revocation == Spec => RevokedStaysOut
<1> DEFINE Out ==
        \A a \in revoked :
            /\ registry[a] = None => registry'[a] = None
            /\ \A x \in Exchange : carrier[x] = None /\ carrier'[x] # None
                                    => carrier'[x] # registry[a]
<1>1. ASSUME RelayInv, Next PROVE Out
  <2> SUFFICES ASSUME NEW a \in revoked
               PROVE  /\ registry[a] = None => registry'[a] = None
                      /\ \A x \in Exchange : carrier[x] = None /\ carrier'[x] # None
                                              => carrier'[x] # registry[a]
    OBVIOUS
  <2>1. a \in Agent /\ TypeOK
    BY <1>1 DEF RelayInv, HostInv, TypeOK
  <2>2. ASSUME UNCHANGED <<registry, carrier>> PROVE Out
    BY <2>2
  <2>3. ASSUME NEW cs, FailAll(cs) PROVE \A x \in Exchange : carrier'[x] \in {carrier[x], None}
    BY <2>3 DEF FailAll
  <2>4. ASSUME NEW c \in Conn, agentOf[owner[c]] \notin revoked, AttachTunnel(c)
        PROVE  registry'[a] = registry[a] /\ \A x \in Exchange : carrier'[x] \in {carrier[x], None}
    BY <2>1, <2>3, <2>4 DEF AttachTunnel, Add, TypeOK
  <2>5. ASSUME NEW c \in Conn, RelayReceives(c)
        PROVE  /\ registry[a] = None => registry'[a] = None
               /\ \A x \in Exchange : carrier'[x] \in {carrier[x], None}
    BY <2>1, <2>4, <2>5 DEF RelayReceives, RelayGetsHello, Misjudged, RefuseHello,
                            RelayGetsResponse, tunnelVars, exchangeVars, TypeOK
  <2>6. ASSUME NEW x \in Exchange, NEW b \in Agent, BrowserAsks(x, b)
        PROVE  /\ registry[a] = None => registry'[a] = None
               /\ \A y \in Exchange : carrier[y] = None /\ carrier'[y] # None
                                       => carrier'[y] # registry[a]
    <3>1. registry[a] = None => registry'[a] = None
      BY <2>1, <2>6 DEF BrowserAsks, TypeOK
    <3>2. ASSUME NEW y \in Exchange, carrier[y] = None, carrier'[y] # None
          PROVE  carrier'[y] # registry[a]
      <4>1. b \notin revoked /\ registry[b] # None /\ carrier'[y] = registry[b]
        BY <2>1, <2>6, <3>2 DEF BrowserAsks, Attach, TypeOK
      <4> QED
        BY <1>1, <2>1, <4>1 DEF RelayInv, RegisteredIsAttached
    <3> QED
      BY <3>1, <3>2
  <2>7. ASSUME RelayGone
        PROVE  registry'[a] = None /\ \A x \in Exchange : carrier'[x] \in {carrier[x], None}
    BY <2>1, <2>3, <2>7 DEF RelayGone
  <2>8. ASSUME NEW c \in Conn, Remove(c)
        PROVE  /\ registry[a] = None => registry'[a] = None
               /\ \A x \in Exchange : carrier'[x] \in {carrier[x], None}
    BY <2>1, <2>3, <2>8 DEF Remove
  <2>9. ASSUME NEW x \in Exchange, BrowserLeaves(x)
        PROVE  registry' = registry /\ \A y \in Exchange : carrier'[y] \in {carrier[y], None}
    BY <2>1, <2>9 DEF BrowserLeaves, tunnelVars, TypeOK
  <2>10. ASSUME RelayShutsDown
         PROVE  registry'[a] = None /\ \A x \in Exchange : carrier'[x] \in {carrier[x], None}
    BY <2>1, <2>3, <2>10 DEF RelayShutsDown, CloseAll
  <2>11. ASSUME NEW b \in Agent, Heartbeat(b)
         PROVE  /\ registry[a] = None => registry'[a] = None
                /\ \A x \in Exchange : carrier'[x] \in {carrier[x], None}
    BY <2>1, <2>8, <2>11 DEF Heartbeat, EvictStale, TypeOK
  <2>12. ASSUME NEW c \in Conn,
                \/ RelayAccepts(c) \/ RelayLoses(c) \/ RelayCloseEvent(c) \/ HandshakeTimeout(c)
                \/ RelayCrashesOnHello(c) \/ Break(c)
         PROVE  /\ registry[a] = None => registry'[a] = None
                /\ \A x \in Exchange : carrier'[x] \in {carrier[x], None}
    BY <2>7, <2>8, <2>12 DEF RelayAccepts, RelayLoses, RelayCloseEvent, HandshakeTimeout,
       RelayCrashesOnHello, TouchThrows, Break, tunnelVars, exchangeVars
  <2>13. ASSUME \/ \E k \in Client, c \in Conn : Start(k, c) \/ RetryFires(k, c)
                \/ \E k \in Client : Stop(k) \/ HostGoesQuiet(k) \/ StartThrows(k)
                \/ \E k \in Client, x \in Exchange : HostAnswers(k, x)
                \/ \E c \in Conn : HostStep(c)
                \/ \E b \in Agent : Revoke(b)
                \/ RelayExits
         PROVE  UNCHANGED <<registry, carrier>>
    BY <2>13 DEF Start, StartThrows, RetryFires, Stop, HostGoesQuiet, HostAnswers, HostStep,
       HostOpens, HostLoses, HostCloseEvent, HostReceives, Revoke, RelayExits,
       tunnelVars, exchangeVars
  <2> QED
    BY <1>1, <2>2, <2>5, <2>6, <2>7, <2>9, <2>10, <2>11, <2>12, <2>13
    DEF Next, RelayStep, RelayRestarts
<1>2. RelayInv /\ [Next]_vars => [Out]_vars
    BY <1>1
<1>3. Spec => [][Out]_vars
    BY <1>2, RelayInit, RelayPreserved, PTL DEF Spec
<1> QED
    BY <1>3 DEF RevokedStaysOut

-----------------------------------------------------------------------------
(* Refusals.                                                               *)

\* A close frame on its way that makes a client give up.
Refusing(queue) ==
    \E i \in 1 .. Len(queue) :
        queue[i].type = "close" /\ queue[i].arg \in TERMINAL_CLOSE_CODES

\* The client of this connection is being refused, or is about to.
Doomed(c) ==
    Refusing(toHost[c]) \/ Refusing(toRelay[c]) \/ hostCode[c] \in TERMINAL_CLOSE_CODES

RefusalInv ==
    /\ RelayInv /\ RefusedOnlyIfRevoked
    /\ \A c \in Conn : Doomed(c) => agentOf[owner[c]] \in revoked

LEMMA RefusalInit == Init => RefusalInv
BY RelayInit DEF Init, RefusalInv, RefusedOnlyIfRevoked, Doomed, Refusing, TERMINAL_CLOSE_CODES

\* What queueing and reading do to refusals on their way.
LEMMA RefusingQueues ==
    ASSUME NEW q \in Queues, NEW c \in Conn
    PROVE  /\ \A frame \in Frames :
                 /\ Refusing(Append(q[c], frame)) =>
                       \/ Refusing(q[c])
                       \/ frame.type = "close" /\ frame.arg \in TERMINAL_CLOSE_CODES
                 /\ \A d \in Conn : Refusing(Sent(q, c, frame)[d]) =>
                       \/ Refusing(q[d])
                       \/ d = c /\ frame.type = "close" /\ frame.arg \in TERMINAL_CLOSE_CODES
           /\ q[c] # <<>> =>
                 /\ Refusing(Tail(q[c])) => Refusing(q[c])
                 /\ Head(q[c]).type = "close" /\ Head(q[c]).arg \in TERMINAL_CLOSE_CODES
                       => Refusing(q[c])
           /\ ~Refusing(<<>>)
<1>1. q[c] \in Seq(Frames)
    BY DEF Queues
<1>2. ASSUME NEW frame \in Frames, Refusing(Append(q[c], frame))
      PROVE  \/ Refusing(q[c])
             \/ frame.type = "close" /\ frame.arg \in TERMINAL_CLOSE_CODES
    BY <1>1, <1>2 DEF Refusing
<1>3. ASSUME NEW frame \in Frames, NEW d \in Conn, Refusing(Sent(q, c, frame)[d])
      PROVE  \/ Refusing(q[d])
             \/ d = c /\ frame.type = "close" /\ frame.arg \in TERMINAL_CLOSE_CODES
    BY <1>2, <1>3 DEF Sent, Queues
<1>4. ASSUME q[c] # <<>>, Refusing(Tail(q[c])) PROVE Refusing(q[c])
  <2>1. PICK i \in 1 .. Len(Tail(q[c])) :
           /\ Tail(q[c])[i].type = "close"
           /\ Tail(q[c])[i].arg \in TERMINAL_CLOSE_CODES
    BY <1>4 DEF Refusing
  <2>2. Tail(q[c])[i] = q[c][i + 1] /\ i + 1 \in 1 .. Len(q[c])
    BY <1>1, <1>4
  <2> QED
    BY <2>1, <2>2 DEF Refusing
<1>5. ASSUME q[c] # <<>>, Head(q[c]).type = "close", Head(q[c]).arg \in TERMINAL_CLOSE_CODES
      PROVE  Refusing(q[c])
    BY <1>1, <1>5 DEF Refusing
<1>6. ~Refusing(<<>>)
    BY DEF Refusing
<1> QED
    BY <1>2, <1>3, <1>4, <1>5, <1>6

\* A step that dooms no client whose machine is not revoked.
LEMMA Spares ==
    ASSUME RefusalInv, RelayInv', revoked \subseteq revoked',
           \A c \in Conn : Doomed(c)' => \/ owner'[c] = owner[c] /\ Doomed(c)
                                         \/ agentOf[owner'[c]] \in revoked',
           \A k \in Client : state'[k] = "refused" =>
               state[k] = "refused" \/ agentOf[k] \in revoked
    PROVE  RefusalInv'
BY DEF RefusalInv, RefusedOnlyIfRevoked

\* close() at the relay with a code that is no refusal, or for a reason.
LEMMA ClosesSpare ==
    ASSUME TypeOK, NEW cs, NEW code \in Codes, RelayCloses(cs, code), NEW c \in Conn,
           Refusing(toHost'[c])
    PROVE  Refusing(toHost[c]) \/ (c \in cs /\ ~dead[c] /\ code \in TERMINAL_CLOSE_CODES)
<1>1. toHost \in Queues /\ Frame("close", code) \in Frames
    BY FramesSent DEF TypeOK, Queues
<1>2. \/ toHost'[c] = toHost[c]
      \/ c \in cs /\ ~dead[c] /\ toHost'[c] = Append(toHost[c], Frame("close", code))
    BY DEF RelayCloses
<1>3. /\ Frame("close", code).type = "close" /\ Frame("close", code).arg = code
      /\ Refusing(Append(toHost[c], Frame("close", code))) =>
            Refusing(toHost[c]) \/ Frame("close", code).arg \in TERMINAL_CLOSE_CODES
  <2>1. Frame("close", code).type = "close" /\ Frame("close", code).arg = code
    BY DEF Frame
  <2> QED
    BY <1>1, <2>1, RefusingQueues
<1>4. CASE toHost'[c] = toHost[c]
    BY <1>4 DEF Refusing
<1>5. CASE /\ c \in cs /\ ~dead[c]
           /\ toHost'[c] = Append(toHost[c], Frame("close", code))
  <2>1. Refusing(Append(toHost[c], Frame("close", code)))
    BY <1>5 DEF Refusing
  <2> QED
    BY <1>3, <1>5, <2>1
<1> QED
    BY <1>2, <1>4, <1>5

\* The steps of a host: it gives up on a code that it has received.
LEMMA HostSpares ==
    ASSUME RefusalInv, RelayInv',
           \/ \E k \in Client, c \in Conn : Start(k, c) \/ RetryFires(k, c)
           \/ \E k \in Client : Stop(k) \/ HostGoesQuiet(k) \/ StartThrows(k)
           \/ \E k \in Client, x \in Exchange : HostAnswers(k, x)
           \/ \E c \in Conn : HostStep(c)
    PROVE  RefusalInv'
<1>1. TypeOK /\ toHost \in Queues /\ toRelay \in Queues
    BY DEF RefusalInv, RelayInv, HostInv, TypeOK, Queues
<1>2. ASSUME NEW k \in Client, NEW c \in Conn, Connect(k, c), UNCHANGED revoked
      PROVE  RefusalInv'
  <2>1. ~Doomed(c)'
    BY <1>1, <1>2, RefusingQueues DEF Connect, Doomed, TypeOK, TERMINAL_CLOSE_CODES
  <2>2. \A d \in Conn \ {c} : owner'[d] = owner[d] /\ (Doomed(d)' => Doomed(d))
    BY <1>1, <1>2 DEF Connect, Doomed, TypeOK
  <2>3. \A j \in Client : state'[j] = "refused" => state[j] = "refused"
    BY <1>1, <1>2 DEF Connect, TypeOK
  <2> QED
    BY <1>2, <2>1, <2>2, <2>3, Spares
<1>11. ASSUME NEW k \in Client, StartThrows(k) PROVE RefusalInv'
  <2>1. \A d \in Conn : owner'[d] = owner[d] /\ (Doomed(d)' => Doomed(d))
    BY <1>11 DEF StartThrows, Doomed, hostEndVars, queueVars
  <2>2. revoked' = revoked /\ \A j \in Client : state'[j] = "refused" => state[j] = "refused"
    BY <1>1, <1>11 DEF StartThrows, worldVars, TypeOK
  <2> QED
    BY <2>1, <2>2, Spares
<1>3. ASSUME NEW c \in Conn, HostCloses(c, "normal")
      PROVE  \A d \in Conn : Refusing(toRelay'[d]) \/ hostCode'[d] \in TERMINAL_CLOSE_CODES
                              => Refusing(toRelay[d]) \/ hostCode[d] \in TERMINAL_CLOSE_CODES
  <2>1. Frame("close", "normal") \in Frames /\ "normal" \notin TERMINAL_CLOSE_CODES
    BY FramesSent DEF Codes, TERMINAL_CLOSE_CODES
  <2>2. \A d \in Conn : Refusing(Sent(toRelay, c, Frame("close", "normal"))[d])
                          => Refusing(toRelay[d])
    BY <1>1, <2>1, RefusingQueues DEF Frame
  <2>3. \A d \in Conn : Refusing(toRelay'[d]) => Refusing(toRelay[d])
    BY <1>3, <2>2 DEF HostCloses, hostEndVars
  <2>4. \A d \in Conn : hostCode'[d] \in {hostCode[d], "lost"}
    BY <1>1, <1>3 DEF HostCloses, hostEndVars, TypeOK
  <2> QED
    BY <2>3, <2>4 DEF TERMINAL_CLOSE_CODES
<1>4. ASSUME NEW k \in Client, Stop(k) PROVE RefusalInv'
  <2>1. UNCHANGED <<hostCode, toRelay>> \/ (sock[k] \in Conn /\ HostCloses(sock[k], "normal"))
    <3>1. sock[k] \in Conn \cup {None}
      BY <1>1 DEF TypeOK
    <3>2. sock[k] = None => UNCHANGED <<hostCode, toRelay>>
      BY <1>4 DEF Stop, hostEndVars
    <3>3. sock[k] # None => HostCloses(sock[k], "normal")
      BY <1>4 DEF Stop
    <3> QED
      BY <3>1, <3>2, <3>3
  <2>2. \A d \in Conn : Doomed(d)' => Doomed(d)
    BY <1>3, <1>4, <2>1 DEF Stop, Doomed
  <2>3. \A j \in Client : state'[j] = "refused" => state[j] = "refused"
    BY <1>1, <1>4 DEF Stop, TypeOK
  <2> QED
    BY <1>4, <2>2, <2>3, Spares DEF Stop, worldVars
<1>5. ASSUME NEW k \in Client, HostGoesQuiet(k) PROVE RefusalInv'
  <2>1. sock[k] \in Conn /\ HostCloses(sock[k], "normal") /\ UNCHANGED toHost
    BY <1>1, <1>5 DEF HostGoesQuiet, TypeOK
  <2>2. \A d \in Conn : Doomed(d)' => Doomed(d)
    BY <1>3, <2>1 DEF Doomed
  <2> QED
    BY <1>5, <2>2, Spares DEF HostGoesQuiet, hostVars, worldVars
<1>6. ASSUME NEW k \in Client, NEW x \in Exchange, HostAnswers(k, x) PROVE RefusalInv'
  <2>1. Frame("response", x) \in Frames
    BY FramesSent
  <2>2. \A c \in Conn : \A d \in Conn : Refusing(Sent(toRelay, c, Frame("response", x))[d])
                                          => Refusing(toRelay[d])
    BY <1>1, <2>1, RefusingQueues DEF Frame
  <2>3. sock[k] # None => sock[k] \in Conn
    BY <1>1 DEF TypeOK
  <2>4. \A d \in Conn : Doomed(d)' => Doomed(d)
    BY <1>6, <2>2, <2>3 DEF HostAnswers, Doomed, hostEndVars
  <2> QED
    BY <1>6, <2>4, Spares DEF HostAnswers, worldVars
<1>7. ASSUME NEW c \in Conn, HostOpens(c) PROVE RefusalInv'
  <2>1. Frame("hello", None) \in Frames
    BY FramesSent
  <2>2. \A d \in Conn : Refusing(Sent(toRelay, c, Frame("hello", None))[d])
                          => Refusing(toRelay[d])
    BY <1>1, <2>1, RefusingQueues DEF Frame
  <2>3. \A d \in Conn : Doomed(d)' => Doomed(d)
    BY <1>7, <2>2 DEF HostOpens, Doomed
  <2> QED
    BY <1>7, <2>3, Spares DEF HostOpens, hostVars, worldVars
<1>8. ASSUME NEW c \in Conn, HostLoses(c) PROVE RefusalInv'
  <2>1. \A d \in Conn : Doomed(d)' => Doomed(d)
    BY <1>1, <1>8 DEF HostLoses, Doomed, queueVars, TypeOK, TERMINAL_CLOSE_CODES
  <2> QED
    BY <1>8, <2>1, Spares DEF HostLoses, hostVars, worldVars
<1>9. ASSUME NEW c \in Conn, HostCloseEvent(c) PROVE RefusalInv'
  <2>1. \A d \in Conn : Doomed(d)' => Doomed(d)
    BY <1>9 DEF HostCloseEvent, Doomed, queueVars
  <2>2. \A j \in Client : state'[j] = "refused" =>
            state[j] = "refused" \/ (j = owner[c] /\ hostCode[c] \in TERMINAL_CLOSE_CODES)
    BY <1>1, <1>9 DEF HostCloseEvent, TypeOK
  <2>3. \A j \in Client : state'[j] = "refused" => state[j] = "refused" \/ agentOf[j] \in revoked
    BY <2>2 DEF RefusalInv, Doomed
  <2> QED
    BY <1>9, <2>1, <2>3, Spares DEF HostCloseEvent, worldVars
<1>10. ASSUME NEW c \in Conn, HostReceives(c) PROVE RefusalInv'
  <2> DEFINE frame == Head(toHost[c])
  <2>1. toHost[c] # <<>> /\ toHost' = [toHost EXCEPT ![c] = Tail(@)] /\ frame \in Frames
    BY <1>1, <1>10, QueueTypes DEF HostReceives
  <2>2. \A d \in Conn : Refusing(toHost'[d]) => Refusing(toHost[d])
    BY <1>1, <2>1, RefusingQueues DEF Queues
  <2>3. \A j \in Client : state'[j] = "refused" => state[j] = "refused"
    BY <1>1, <1>10 DEF HostReceives, TypeOK
  <2>4. CASE UNCHANGED <<hostCode, toRelay>>
    <3>1. \A d \in Conn : Doomed(d)' => Doomed(d)
      BY <2>2, <2>4 DEF Doomed
    <3> QED
      BY <1>10, <2>3, <3>1, Spares DEF HostReceives, worldVars
  <2>5. CASE frame.type = "close" /\ HostGetsClose(c, frame.arg)
    <3>1. frame.arg \in Codes /\ Frame("close", frame.arg) \in Frames
      BY <2>1, <2>5, FramesRead, FramesSent
    <3>2. frame.arg \in TERMINAL_CLOSE_CODES => Doomed(c)
      BY <1>1, <2>1, <2>5, RefusingQueues DEF Doomed
    <3>3. \A d \in Conn : Refusing(toRelay'[d]) =>
              Refusing(toRelay[d]) \/ (d = c /\ frame.arg \in TERMINAL_CLOSE_CODES)
      BY <1>1, <2>5, <3>1, RefusingQueues DEF HostGetsClose, Frame
    <3>4. \A d \in Conn : hostCode'[d] = IF d = c THEN frame.arg ELSE hostCode[d]
      BY <1>1, <2>5 DEF HostGetsClose, TypeOK
    <3>5. \A d \in Conn : Doomed(d)' => Doomed(d)
      BY <2>2, <3>2, <3>3, <3>4 DEF Doomed
    <3> QED
      BY <1>10, <2>3, <3>5, Spares DEF HostReceives, worldVars
  <2> QED
    BY <1>10, <2>4, <2>5 DEF HostReceives, hostEndVars
<1> QED
    BY <1>2, <1>4, <1>5, <1>6, <1>7, <1>8, <1>9, <1>10, <1>11
    DEF Start, RetryFires, worldVars, HostStep

\* A step of the relay that leaves the hosts alone and dooms no client at all, or
\* only the client of a revoked machine.
LEMMA RelaySpare ==
    ASSUME RefusalInv, RelayInv', revoked \subseteq revoked',
           UNCHANGED <<state, owner, hostCode>>,
           \A c \in Conn : Refusing(toHost'[c]) \/ Refusing(toRelay'[c]) =>
               Doomed(c) \/ agentOf[owner[c]] \in revoked'
    PROVE  RefusalInv'
<1>1. \A c \in Conn : Doomed(c)' =>
          \/ owner'[c] = owner[c] /\ Doomed(c)
          \/ agentOf[owner'[c]] \in revoked'
    BY DEF Doomed
<1> QED
    BY <1>1, Spares

\* The relay reads a frame.
LEMMA ReadingSpares ==
    ASSUME RefusalInv, RelayInv', "proof" \notin Mishaps, NEW c \in Conn, RelayReceives(c)
    PROVE  RefusalInv'
<1> DEFINE frame == Head(toRelay[c])
<1>1. TypeOK /\ toHost \in Queues /\ toRelay \in Queues
    BY DEF RefusalInv, RelayInv, HostInv, TypeOK, Queues
<1>2. toRelay[c] # <<>> /\ toRelay' = [toRelay EXCEPT ![c] = Tail(@)] /\ frame \in Frames
    BY <1>1, QueueTypes DEF RelayReceives
<1>3. \A d \in Conn : Refusing(toRelay'[d]) => Refusing(toRelay[d])
    BY <1>1, <1>2, RefusingQueues DEF Queues
<1>4. SUFFICES \A d \in Conn : Refusing(toHost'[d]) =>
                   Doomed(d) \/ agentOf[owner[d]] \in revoked
  <2>1. UNCHANGED <<state, owner, hostCode, revoked>>
    BY DEF RelayReceives, hostVars, hostEndVars
  <2>2. ASSUME \A d \in Conn : Refusing(toHost'[d]) =>
                   Doomed(d) \/ agentOf[owner[d]] \in revoked
        PROVE  RefusalInv'
    <3>1. \A d \in Conn : Refusing(toRelay'[d]) => Doomed(d)
      BY <1>3 DEF Doomed
    <3> QED
      BY <2>1, <2>2, <3>1, RelaySpare
  <2> QED
    BY <2>2
<1>5. CASE frame.type = "response" /\ RelayGetsResponse(c, frame.arg)
    BY <1>5 DEF RelayGetsResponse, Doomed
<1>6. CASE frame.type = "close" /\ RelayGetsClose(c, frame.arg)
  <2>1. Frame("close", frame.arg) \in Frames
    BY <1>2, <1>6, FramesRead, FramesSent
  <2>2. frame.arg \in TERMINAL_CLOSE_CODES => Doomed(c)
    BY <1>1, <1>2, <1>6, RefusingQueues DEF Doomed
  <2>3. \A d \in Conn : Refusing(toHost'[d]) =>
            Refusing(toHost[d]) \/ (d = c /\ frame.arg \in TERMINAL_CLOSE_CODES)
    BY <1>1, <1>6, <2>1, RefusingQueues DEF RelayGetsClose, Frame
  <2> QED
    BY <2>2, <2>3 DEF Doomed
<1>7. CASE frame.type = "hello" /\ RelayGetsHello(c)
  <2>1. ASSUME NEW code \in Codes, RefuseHello(c, code), NEW d \in Conn, Refusing(toHost'[d])
        PROVE  Refusing(toHost[d]) \/ (d = c /\ code \in TERMINAL_CLOSE_CODES)
    BY <1>1, <2>1, ClosesSpare DEF RefuseHello
  <2>2. CASE toHost' = toHost
    BY <2>2 DEF Doomed
  <2>3. CASE Misjudged(c)
    <3>1. RefuseHello(c, "limited") /\ "limited" \in Codes /\ "limited" \notin TERMINAL_CLOSE_CODES
      BY <2>3 DEF Misjudged, Codes, TERMINAL_CLOSE_CODES
    <3> QED
      BY <2>1, <3>1 DEF Doomed
  <2>4. CASE agentOf[owner[c]] \in revoked /\ RefuseHello(c, "auth")
    <3>1. "auth" \in Codes
      BY DEF Codes
    <3> QED
      BY <2>1, <2>4, <3>1 DEF Doomed
  <2>5. CASE AttachTunnel(c)
    <3>1. /\ Frame("close", "replaced") \in Frames /\ Frame("ack", None) \in Frames
          /\ Frame("close", "replaced").arg \notin TERMINAL_CLOSE_CODES
          /\ Frame("ack", None).type # "close"
      BY FramesSent DEF Frame, Codes, TERMINAL_CLOSE_CODES
    <3>2. \A d \in Conn : toHost'[d] \in {toHost[d],
                                          Append(toHost[d], Frame("close", "replaced")),
                                          Append(toHost[d], Frame("ack", None))}
      BY <2>5 DEF AttachTunnel
    <3>3. \A d \in Conn :
              /\ ~Refusing(toHost[d]) => ~Refusing(Append(toHost[d], Frame("close", "replaced")))
              /\ ~Refusing(toHost[d]) => ~Refusing(Append(toHost[d], Frame("ack", None)))
      BY <1>1, <3>1, RefusingQueues
    <3>4. \A d \in Conn : Refusing(toHost'[d]) => Refusing(toHost[d])
      BY <3>2, <3>3
    <3> QED
      BY <3>4 DEF Doomed
  <2> QED
    BY <1>7, <2>2, <2>3, <2>4, <2>5 DEF RelayGetsHello
<1> QED
    BY <1>5, <1>6, <1>7 DEF RelayReceives

\* The other steps of the relay, of the browsers and of the world outside.
LEMMA OthersSpare ==
    ASSUME RefusalInv, RelayInv', "slow" \notin Mishaps,
           \/ \E c \in Conn : \/ RelayAccepts(c) \/ RelayLoses(c) \/ RelayCloseEvent(c)
                            \/ HandshakeTimeout(c) \/ RelayCrashesOnHello(c) \/ Break(c)
           \/ \E a \in Agent : Heartbeat(a) \/ Revoke(a)
           \/ \E x \in Exchange, a \in Agent : BrowserAsks(x, a)
           \/ \E x \in Exchange : BrowserLeaves(x)
           \/ RelayRestarts \/ RelayShutsDown \/ RelayExits
    PROVE  RefusalInv'
<1>1. TypeOK /\ toHost \in Queues /\ toRelay \in Queues
    BY DEF RefusalInv, RelayInv, HostInv, TypeOK, Queues
<1>2. /\ UNCHANGED <<state, owner, hostCode>> /\ revoked \subseteq revoked'
      /\ \/ \A c \in Conn : toRelay'[c] = toRelay[c]
         \/ \E c \in Conn : toRelay' = [toRelay EXCEPT ![c] = <<>>]
         \/ \A c \in Conn : toRelay'[c] = <<>>
    BY DEF RelayAccepts, RelayLoses, RelayCloseEvent, HandshakeTimeout, RelayCrashesOnHello,
       TouchThrows, RelayGone, Break, Heartbeat, Revoke, BrowserAsks, BrowserLeaves,
       RelayRestarts, RelayShutsDown, RelayExits, hostVars, hostEndVars, queueVars, worldVars
<1>3. \A c \in Conn : Refusing(toRelay'[c]) => Refusing(toRelay[c])
  <2>1. \A c \in Conn : toRelay'[c] \in {toRelay[c], <<>>}
    BY <1>1, <1>2 DEF Queues
  <2> QED
    BY <2>1, RefusingQueues, <1>1
<1>4. SUFFICES \A d \in Conn : Refusing(toHost'[d]) =>
                   Refusing(toHost[d]) \/ agentOf[owner[d]] \in revoked
  <2>1. ASSUME \A d \in Conn : Refusing(toHost'[d]) =>
                   Refusing(toHost[d]) \/ agentOf[owner[d]] \in revoked
        PROVE  \A d \in Conn : Refusing(toHost'[d]) \/ Refusing(toRelay'[d]) =>
                   Doomed(d) \/ agentOf[owner[d]] \in revoked'
    BY <1>2, <1>3, <2>1 DEF Doomed
  <2> QED
    BY <1>2, <2>1, RelaySpare
<1>5. ASSUME NEW cs, NEW code \in Codes \ TERMINAL_CLOSE_CODES, RelayCloses(cs, code),
             NEW d \in Conn, Refusing(toHost'[d])
      PROVE  Refusing(toHost[d])
    BY <1>1, <1>5, ClosesSpare
<1>6. ASSUME UNCHANGED toHost \/ (\A d \in Conn : toHost'[d] \in {toHost[d], <<>>})
      PROVE  \A d \in Conn : Refusing(toHost'[d]) => Refusing(toHost[d])
    BY <1>1, <1>6, RefusingQueues
<1>7. ASSUME NEW c \in Conn,
             \/ RelayAccepts(c) \/ RelayLoses(c) \/ RelayCloseEvent(c)
             \/ RelayCrashesOnHello(c) \/ Break(c)
      PROVE  UNCHANGED toHost \/ (\A d \in Conn : toHost'[d] \in {toHost[d], <<>>})
    BY <1>1, <1>7 DEF RelayAccepts, RelayLoses, RelayCloseEvent, RelayCrashesOnHello,
       TouchThrows, RelayGone, Break, queueVars, Queues
<1>8. ASSUME NEW c \in Conn, HandshakeTimeout(c), NEW d \in Conn, Refusing(toHost'[d])
      PROVE  Refusing(toHost[d])
  <2>1. dead[c] /\ RelayCloses({c}, "auth") /\ "auth" \in Codes
    BY <1>8 DEF HandshakeTimeout, Codes
  <2> QED
    BY <1>1, <1>8, <2>1, ClosesSpare
<1>9. ASSUME NEW a \in Agent, Heartbeat(a)
      PROVE  \A d \in Conn : Refusing(toHost'[d]) => Refusing(toHost[d])
  <2>1. RelayCloses({registry[a]}, "offline")
    BY <1>9 DEF Heartbeat, EvictStale
  <2>2. "offline" \in Codes \ TERMINAL_CLOSE_CODES
    BY DEF Codes, TERMINAL_CLOSE_CODES
  <2> QED
    BY <1>5, <2>1, <2>2
<1>10. ASSUME NEW x \in Exchange, NEW a \in Agent, BrowserAsks(x, a),
              NEW d \in Conn, Refusing(toHost'[d])
       PROVE  Refusing(toHost[d]) \/ agentOf[owner[d]] \in revoked
  <2> DEFINE c == registry[a]
  <2>1. CASE UNCHANGED toHost
    BY <1>10, <2>1
  <2>2. CASE c # None /\ a \in revoked /\ RelayCloses({c}, "revoked")
    <3>1. Refusing(toHost[d]) \/ d = c
      <4>1. "revoked" \in Codes
        BY DEF Codes
      <4> QED
        BY <1>1, <1>10, <2>2, <4>1, ClosesSpare
    <3>2. d = c => agentOf[owner[d]] = a
      BY <2>2 DEF RefusalInv, RelayInv, RegisteredIsAttached
    <3> QED
      BY <2>2, <3>1, <3>2
  <2>3. CASE c # None /\ toHost' = Sent(toHost, c, Frame("request", x))
    <3>1. c \in Conn /\ Frame("request", x) \in Frames
      BY <1>1, <2>3, FramesSent DEF TypeOK
    <3>2. Frame("request", x).type # "close"
      BY DEF Frame
    <3> QED
      BY <1>1, <1>10, <2>3, <3>1, <3>2, RefusingQueues
  <2> QED
    BY <1>10, <2>1, <2>2, <2>3 DEF BrowserAsks
<1>11. ASSUME NEW x \in Exchange, BrowserLeaves(x), NEW d \in Conn, Refusing(toHost'[d])
       PROVE  Refusing(toHost[d])
  <2> DEFINE c == carrier[x]
  <2>1. c \in Conn /\ Frame("abort", x) \in Frames
    BY <1>1, <1>11, FramesSent DEF TypeOK, BrowserLeaves
  <2>2. Frame("abort", x).type # "close"
    BY DEF Frame
  <2>3. toHost' = toHost \/ toHost' = Sent(toHost, c, Frame("abort", x))
    BY <1>11 DEF BrowserLeaves
  <2> QED
    BY <1>1, <1>11, <2>1, <2>2, <2>3, RefusingQueues
<1>12. ASSUME RelayShutsDown
       PROVE  \A d \in Conn : Refusing(toHost'[d]) => Refusing(toHost[d])
  <2>1. PICK cs : RelayCloses(cs, "offline")
    BY <1>12 DEF RelayShutsDown, CloseAll
  <2>2. "offline" \in Codes \ TERMINAL_CLOSE_CODES
    BY DEF Codes, TERMINAL_CLOSE_CODES
  <2> QED
    BY <1>5, <2>1, <2>2
<1>13. ASSUME \/ \E a \in Agent : Revoke(a)
              \/ RelayRestarts \/ RelayExits
       PROVE  UNCHANGED toHost \/ (\A d \in Conn : toHost'[d] \in {toHost[d], <<>>})
    BY <1>13 DEF Revoke, RelayRestarts, RelayGone, RelayExits, queueVars
<1> QED
    BY <1>6, <1>7, <1>8, <1>9, <1>10, <1>11, <1>12, <1>13

\* A host gives up only on what the operator has to settle: while nobody's clock
\* and nobody's timer gets in the way, on a revocation.
THEOREM RefusalIsJust ==
    Mishaps \cap {"slow", "proof"} = {} => (Spec => []RefusedOnlyIfRevoked)
<1> SUFFICES ASSUME Mishaps \cap {"slow", "proof"} = {}
             PROVE  Spec => []RefusedOnlyIfRevoked
    OBVIOUS
<1>1. ASSUME RefusalInv, RelayInv', UNCHANGED vars PROVE RefusalInv'
  <2>1. UNCHANGED <<state, owner, hostCode, revoked, toHost, toRelay>>
    BY <1>1 DEF vars, hostVars, hostEndVars, queueVars, worldVars
  <2>2. \A c \in Conn : Refusing(toHost'[c]) \/ Refusing(toRelay'[c]) => Doomed(c)
    BY <2>1 DEF Doomed
  <2> QED
    BY <1>1, <2>1, <2>2, RelaySpare
<1>2. RefusalInv /\ [Next]_vars => RefusalInv'
  <2>1. RefusalInv /\ [Next]_vars => RelayInv'
    BY RelayPreserved DEF RefusalInv
  <2>2. RefusalInv /\ Next => RefusalInv'
    BY <2>1, HostSpares, ReadingSpares, OthersSpare DEF Next, RelayStep
  <2> QED
    BY <1>1, <2>1, <2>2
<1> QED
    BY <1>2, RefusalInit, PTL DEF Spec, RefusalInv
=============================================================================
