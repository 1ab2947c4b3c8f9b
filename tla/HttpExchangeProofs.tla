------------------------- MODULE HttpExchangeProofs -------------------------
(***************************************************************************)
(* Theorems about HttpExchange, for bodies, responses and limits of any    *)
(* length.                                                                 *)
(***************************************************************************)
EXTENDS HttpExchange, TLAPS

\* A request to DSH that is not answered yet can be stopped by its id
\* (#openLocalRequest, #handleFrame of src/plugin/tunnel.ts).
THEOREM Tracked == Spec => []RunningIsTracked
<1>1. Init => RunningIsTracked
    BY DEF Init, RunningIsTracked, Running
<1>2. RunningIsTracked /\ [Next]_vars => RunningIsTracked'
  <2> SUFFICES ASSUME RunningIsTracked, [Next]_vars PROVE RunningIsTracked'
    OBVIOUS
  <2> USE DEF RunningIsTracked, Running
  <2>1. CASE UNCHANGED <<hostVars, dshVars>>
    BY <2>1 DEF hostVars, dshVars
  <2>2. CASE ForwardHttp
    BY <2>1, <2>2 DEF ForwardHttp
  <2>3. CASE RelayReceives
    BY <2>1, <2>3 DEF RelayReceives
  <2>4. CASE Browser \/ BrowserLeaves
    BY <2>1, <2>4 DEF Browser, Upload, UploadEnds, BrowserLeaves
  <2>5. CASE TunnelCloses \/ RelayLosesTunnel
    BY <2>1, <2>5 DEF TunnelCloses, RelayLosesTunnel
  <2>6. CASE HostReceives
    BY <2>6 DEF HostReceives, OpenLocalRequest, BodyChunk, BodyEnd, DestroyUpstream,
                hostVars, dshVars
  <2>7. CASE HostLosesTunnel
    BY <2>7 DEF HostLosesTunnel, DestroyUpstream, dshVars
  <2>8. CASE Local
    BY <2>8 DEF Local, LocalHead, LocalChunk, LocalEnds, LocalFails, hostVars
  <2>9. CASE UNCHANGED vars
    BY <2>1, <2>9 DEF vars
  <2> QED
    BY <2>2, <2>3, <2>4, <2>5, <2>6, <2>7, <2>8, <2>9 DEF Next, Relay, Terminated
<1> QED
    BY <1>1, <1>2, PTL DEF Spec

-----------------------------------------------------------------------------
(* The type, and what the host counts.                                     *)

\* What the host sends: a chunk of DSH's response is numbered, nothing else is.
AnswerFrame ==
    [type : {"response", "end", "abort"}, n : {0}] \cup [type : {"chunk"}, n : 1 .. MaxAnswer]

IsChunk(q, i) == q[i].type = "chunk"

\* The host has counted fewer chunks than the number of any that is on its way says, and
\* the relay sends none beyond the limit.
Counted ==
    /\ received <= uploaded
    /\ \A i \in 1 .. Len(toHost) : IsChunk(toHost, i) =>
          received < toHost[i].n /\ toHost[i].n <= Limit /\ toHost[i].n <= uploaded
    /\ \A i, j \in 1 .. Len(toHost) : i < j /\ IsChunk(toHost, i) /\ IsChunk(toHost, j) =>
          toHost[i].n < toHost[j].n

TypeInv == TypeOK /\ toRelay \in Seq(AnswerFrame) /\ Counted

\* The frames that the two ends send.
LEMMA FramesSent ==
    /\ \A type \in FrameTypes, n \in 0 .. MaxBody : Frame(type, n) \in Frames
    /\ \A type \in {"response", "end", "abort"} : Frame(type, 0) \in AnswerFrame
    /\ \A n \in 1 .. MaxAnswer : Frame("chunk", n) \in AnswerFrame
    /\ AnswerFrame \subseteq Frames
<1>1. 0 \in 0 .. MaxBody + MaxAnswer /\ 1 .. MaxAnswer \subseteq 0 .. MaxBody + MaxAnswer
      /\ 0 .. MaxBody \subseteq 0 .. MaxBody + MaxAnswer
    BY ConstantsAssumption
<1> QED
    BY <1>1 DEF Frame, Frames, FrameTypes, AnswerFrame

\* A frame of the host arrives on the tunnel, or is lost.
LEMMA AnswerCarried ==
    ASSUME toRelay \in Seq(AnswerFrame), NEW frame \in AnswerFrame, ToRelay(<<frame>>)
    PROVE  toRelay' \in Seq(AnswerFrame) /\ toRelay' \in Seq(Frames)
<1>1. toRelay \o <<frame>> \in Seq(AnswerFrame)
    OBVIOUS
<1>2. toRelay' \in Seq(AnswerFrame)
    BY <1>1 DEF ToRelay
<1>3. \A q \in Seq(AnswerFrame) : q \in Seq(Frames)
    BY FramesSent
<1> QED
    BY <1>2, <1>3

\* One frame of the relay, or what is on its way is left alone; the chunk of a request is
\* numbered one above those that were read.
LEMMA UploadCarried ==
    ASSUME TypeInv, received' = received, uploaded' \in 0 .. MaxBody, uploaded <= uploaded',
           NEW frame \in Frames,
           toHost' = toHost \/ toHost' = <<>> \/ toHost' = toHost \o <<frame>>,
           frame.type = "chunk" =>
               frame.n = uploaded' /\ uploaded' = uploaded + 1 /\ uploaded' <= Limit
    PROVE  toHost' \in Seq(Frames) /\ Counted'
<1>1. /\ toHost \in Seq(Frames) /\ uploaded \in Nat /\ received \in Nat
      /\ Limit \in Nat /\ uploaded' \in Nat
    BY ConstantsAssumption DEF TypeInv, TypeOK
<1>2. \A i \in 1 .. Len(toHost) : toHost[i].n \in Nat
  <2>1. \A f \in Frames : f.n \in Nat
    BY ConstantsAssumption DEF Frames
  <2> QED
    BY <1>1, <2>1
<1>3. CASE toHost' = toHost
    BY <1>1, <1>2, <1>3 DEF TypeInv, Counted, IsChunk
<1>4. CASE toHost' = <<>>
    BY <1>1, <1>4 DEF TypeInv, Counted
<1>5. CASE toHost' = toHost \o <<frame>>
  <2>1. /\ toHost' \in Seq(Frames) /\ Len(toHost') = Len(toHost) + 1 /\ Len(toHost) \in Nat
        /\ \A i \in 1 .. Len(toHost) : toHost'[i] = toHost[i]
        /\ toHost'[Len(toHost) + 1] = frame
    BY <1>1, <1>5
  <2>2. \A i \in 1 .. Len(toHost) : IsChunk(toHost', i) =>
            /\ IsChunk(toHost, i) /\ toHost'[i].n = toHost[i].n
            /\ received < toHost[i].n /\ toHost[i].n <= Limit /\ toHost[i].n <= uploaded
    BY <2>1 DEF TypeInv, Counted, IsChunk
  <2>3. frame.type = "chunk" => received < frame.n
    BY <1>1 DEF TypeInv, Counted
  <2>4. \A i \in 1 .. Len(toHost') : IsChunk(toHost', i) =>
            received < toHost'[i].n /\ toHost'[i].n <= Limit /\ toHost'[i].n <= uploaded'
    <3> SUFFICES ASSUME NEW i \in 1 .. Len(toHost'), IsChunk(toHost', i)
                 PROVE  /\ received < toHost'[i].n /\ toHost'[i].n <= Limit
                        /\ toHost'[i].n <= uploaded'
      OBVIOUS
    <3>1. CASE i \in 1 .. Len(toHost)
      BY <1>1, <1>2, <2>1, <2>2, <3>1
    <3>2. CASE i = Len(toHost) + 1
      BY <1>1, <2>1, <2>3, <3>2 DEF IsChunk
    <3> QED
      BY <2>1, <3>1, <3>2
  <2>5. \A i, j \in 1 .. Len(toHost') : i < j /\ IsChunk(toHost', i) /\ IsChunk(toHost', j) =>
            toHost'[i].n < toHost'[j].n
    <3> SUFFICES ASSUME NEW i \in 1 .. Len(toHost'), NEW j \in 1 .. Len(toHost'), i < j,
                        IsChunk(toHost', i), IsChunk(toHost', j)
                 PROVE  toHost'[i].n < toHost'[j].n
      OBVIOUS
    <3>1. i \in 1 .. Len(toHost)
      BY <2>1
    <3>2. CASE j \in 1 .. Len(toHost)
      BY <2>2, <3>1, <3>2 DEF TypeInv, Counted
    <3>3. CASE j = Len(toHost) + 1
      BY <1>1, <1>2, <2>1, <2>2, <3>1, <3>3 DEF IsChunk
    <3> QED
      BY <2>1, <3>2, <3>3
  <2> QED
    BY <1>1, <2>1, <2>4, <2>5 DEF TypeInv, Counted
<1> QED
    BY <1>1, <1>3, <1>4, <1>5

\* The host takes a frame off; what it then counts does not pass the limit.
LEMMA UploadTakenOff ==
    ASSUME TypeInv, toHost # <<>>, toHost' = Tail(toHost), uploaded' = uploaded,
           received' \in {received, received + 1},
           received' # received => Head(toHost).type = "chunk"
    PROVE  toHost' \in Seq(Frames) /\ Counted' /\ received' \in 0 .. Limit
<1>1. toHost \in Seq(Frames) /\ received \in 0 .. Limit /\ uploaded \in Nat /\ Limit \in Nat
    BY ConstantsAssumption DEF TypeInv, TypeOK
<1>2. /\ toHost' \in Seq(Frames) /\ Len(toHost) \in Nat /\ Len(toHost') = Len(toHost) - 1
      /\ \A i \in 1 .. Len(toHost') : i + 1 \in 1 .. Len(toHost) /\ toHost'[i] = toHost[i + 1]
      /\ Head(toHost) = toHost[1] /\ 1 \in 1 .. Len(toHost)
    BY <1>1
<1>3. \A i \in 1 .. Len(toHost) : toHost[i].n \in Nat
  <2>1. \A f \in Frames : f.n \in Nat
    BY ConstantsAssumption DEF Frames
  <2> QED
    BY <1>1, <2>1
<1>4. ASSUME NEW i \in 1 .. Len(toHost'), IsChunk(toHost', i)
      PROVE  received' < toHost'[i].n /\ toHost'[i].n <= Limit /\ toHost'[i].n <= uploaded
  <2>1. /\ i + 1 \in 1 .. Len(toHost) /\ IsChunk(toHost, i + 1) /\ toHost'[i].n = toHost[i + 1].n
        /\ toHost[i + 1].n \in Nat
    BY <1>2, <1>3, <1>4 DEF IsChunk
  <2>2. received < toHost[i + 1].n /\ toHost[i + 1].n <= Limit /\ toHost[i + 1].n <= uploaded
    BY <2>1 DEF TypeInv, Counted
  <2>3. CASE received' = received
    BY <2>1, <2>2, <2>3
  <2>4. CASE Head(toHost).type = "chunk" /\ received' = received + 1
    <3>1. IsChunk(toHost, 1) /\ 1 < i + 1 /\ toHost[1].n \in Nat
      BY <1>2, <1>3, <2>4 DEF IsChunk
    <3>2. received < toHost[1].n /\ toHost[1].n < toHost[i + 1].n
      BY <1>2, <2>1, <3>1 DEF TypeInv, Counted
    <3> QED
      BY <1>1, <2>1, <2>2, <2>4, <3>1, <3>2
  <2> QED
    BY <2>3, <2>4
<1>5. ASSUME NEW i \in 1 .. Len(toHost'), NEW j \in 1 .. Len(toHost'), i < j,
             IsChunk(toHost', i), IsChunk(toHost', j)
      PROVE  toHost'[i].n < toHost'[j].n
  <2>1. i + 1 < j + 1
    BY <1>2, <1>5
  <2>2. IsChunk(toHost, i + 1) /\ IsChunk(toHost, j + 1)
    BY <1>2, <1>5 DEF IsChunk
  <2> QED
    BY <1>2, <2>1, <2>2 DEF TypeInv, Counted
<1>6. received' \in 0 .. Limit /\ received' <= uploaded
  <2>1. CASE received' = received
    BY <1>1, <2>1 DEF TypeInv, Counted
  <2>2. CASE Head(toHost).type = "chunk" /\ received' = received + 1
    <3>1. received < toHost[1].n /\ toHost[1].n <= Limit /\ toHost[1].n <= uploaded
      BY <1>2, <2>2 DEF TypeInv, Counted, IsChunk
    <3> QED
      BY <1>1, <1>2, <1>3, <2>2, <3>1
  <2> QED
    BY <2>1, <2>2
<1> QED
    BY <1>2, <1>4, <1>5, <1>6 DEF Counted

\* Nothing has been counted or sent at the start.
LEMMA TypeInit == Init => TypeInv
<1> SUFFICES ASSUME Init PROVE TypeInv
    OBVIOUS
<1>1. size \in 0 .. MaxBody /\ 0 \in 0 .. MaxBody /\ 0 \in 0 .. MaxAnswer /\ 0 \in 0 .. Limit
    BY ConstantsAssumption DEF Init
<1>2. <<>> \in Seq(Frames) /\ <<>> \in Seq(AnswerFrame) /\ <<>> \in Seq(1 .. MaxAnswer)
    OBVIOUS
<1>3. TypeOK
    BY <1>1, <1>2 DEF Init, TypeOK
<1> QED
    BY <1>2, <1>3 DEF Init, TypeInv, Counted

\* The steps of the browser, and what the relay makes of them.
LEMMA BrowserTypes ==
    ASSUME TypeInv, ForwardHttp \/ Browser \/ BrowserLeaves
    PROVE  TypeInv'
<1> USE DEF inputVars, browserVars, relayVars, tunnelVars, hostVars, dshVars
<1>1. TypeOK /\ uploaded \in 0 .. MaxBody /\ toHost \in Seq(Frames) /\ toHost \o <<>> = toHost
    BY DEF TypeInv, TypeOK
<1>2. \A type \in FrameTypes, n \in 0 .. MaxBody :
          ToHost(<<Frame(type, n)>>) =>
              toHost' = toHost \/ toHost' = toHost \o <<Frame(type, n)>>
    BY DEF ToHost
<1>3. 0 \in 0 .. MaxBody /\ MaxBody \in Nat
    BY ConstantsAssumption
<1>4. \A type \in FrameTypes \ {"chunk"} :
          /\ Frame(type, 0) \in Frames /\ Frame(type, 0).type # "chunk"
          /\ ToHost(<<Frame(type, 0)>>) =>
                toHost' = toHost \/ toHost' = toHost \o <<Frame(type, 0)>>
    BY <1>2, <1>3, FramesSent DEF Frame
<1>5. ASSUME UNCHANGED <<received, uploaded>>,
             toHost' = toHost
             \/ \E type \in FrameTypes \ {"chunk"} : ToHost(<<Frame(type, 0)>>)
      PROVE  toHost' \in Seq(Frames) /\ Counted'
  <2>1. PICK type \in FrameTypes \ {"chunk"} :
            toHost' = toHost \/ toHost' = toHost \o <<Frame(type, 0)>>
    BY <1>4, <1>5 DEF FrameTypes
  <2> QED
    BY <1>1, <1>3, <1>4, <1>5, <2>1, UploadCarried
<1>6. CASE ForwardHttp
  <2>1. toHost' \in Seq(Frames) /\ Counted'
    BY <1>5, <1>6 DEF ForwardHttp, FrameTypes
  <2>2. /\ exchange' \in {"refused", "attached"}
        /\ head' \in {"none", "host", "page"} /\ ended' \in BOOLEAN
    BY <1>1, <1>6 DEF ForwardHttp, ErrorPage, TypeOK
  <2> QED
    BY <1>6, <2>1, <2>2 DEF ForwardHttp, TypeInv, TypeOK
<1>7. CASE Upload
  <2>1. /\ uploaded' = uploaded + 1 /\ uploaded' \in 0 .. MaxBody /\ uploaded <= uploaded'
        /\ received' = received
    BY <1>1, <1>3, <1>7 DEF Upload, TypeInv, TypeOK
  <2>2. CASE uploaded' > Limit
    <3>1. toHost' = toHost \/ toHost' = toHost \o <<Frame("abort", 0)>>
      BY <1>4, <1>7, <2>2 DEF Upload, FrameTypes
    <3>2. toHost' \in Seq(Frames) /\ Counted'
      BY <1>4, <2>1, <3>1, UploadCarried DEF FrameTypes
    <3>3. head' \in {"none", "host", "page"} /\ ended' \in BOOLEAN
      BY <1>1, <1>7, <2>2 DEF Upload, ErrorPage, TypeOK
    <3> QED
      BY <1>7, <2>1, <2>2, <3>2, <3>3 DEF Upload, TypeInv, TypeOK
  <2>3. CASE ~(uploaded' > Limit)
    <3>1. Frame("chunk", uploaded') \in Frames
      BY <2>1, FramesSent DEF FrameTypes
    <3>2. toHost' = toHost \/ toHost' = toHost \o <<Frame("chunk", uploaded')>>
      BY <1>7, <2>3 DEF Upload, ToHost
    <3>3. uploaded' <= Limit
      BY <2>1, <2>3, ConstantsAssumption
    <3>4. toHost' \in Seq(Frames) /\ Counted'
      BY <2>1, <3>1, <3>2, <3>3, UploadCarried DEF Frame
    <3> QED
      BY <1>7, <2>1, <2>3, <3>4 DEF Upload, TypeInv, TypeOK
  <2> QED
    BY <2>2, <2>3
<1>8. CASE UploadEnds
  <2>1. toHost' = toHost \/ ToHost(<<Frame("end", 0)>>)
    BY <1>1, <1>8 DEF UploadEnds, ToHost
  <2>2. toHost' \in Seq(Frames) /\ Counted'
    BY <1>5, <1>8, <2>1 DEF UploadEnds, FrameTypes
  <2> QED
    BY <1>8, <2>2 DEF UploadEnds, TypeInv, TypeOK
<1>9. CASE BrowserLeaves
  <2>1. toHost' = toHost \/ ToHost(<<Frame("abort", 0)>>)
    BY <1>1, <1>9 DEF BrowserLeaves, ToHost
  <2>2. toHost' \in Seq(Frames) /\ Counted'
    BY <1>5, <1>9, <2>1 DEF BrowserLeaves, FrameTypes
  <2> QED
    BY <1>9, <2>2 DEF BrowserLeaves, TypeInv, TypeOK
<1> QED
    BY <1>6, <1>7, <1>8, <1>9 DEF Browser

\* The steps of the tunnel: the relay reads a frame, closes the socket or loses it.
LEMMA TunnelTypes ==
    ASSUME TypeInv, RelayReceives \/ TunnelCloses \/ RelayLosesTunnel
    PROVE  TypeInv'
<1> USE DEF inputVars, browserVars, relayVars, hostVars, dshVars
<1>1. UNCHANGED <<toHost, received, uploaded>> /\ Counted'
    BY DEF RelayReceives, TunnelCloses, RelayLosesTunnel, TypeInv, Counted
<1>2. TypeOK /\ toRelay \in Seq(AnswerFrame) /\ toRelay \in Seq(Frames)
    BY DEF TypeInv, TypeOK
<1>3. CASE RelayReceives
  <2>1. /\ Head(toRelay) \in AnswerFrame
        /\ toRelay' \in Seq(AnswerFrame) /\ toRelay' \in Seq(Frames)
    BY <1>2, <1>3 DEF RelayReceives
  <2>2. got' \in Seq(1 .. MaxAnswer)
    <3>1. Head(toRelay).type = "chunk" => Head(toRelay).n \in 1 .. MaxAnswer
      BY <2>1 DEF AnswerFrame
    <3>2. /\ got \in Seq(1 .. MaxAnswer)
          /\ \A n \in 1 .. MaxAnswer : Append(got, n) \in Seq(1 .. MaxAnswer)
      BY <1>2 DEF TypeOK
    <3> QED
      BY <1>3, <3>1, <3>2 DEF RelayReceives, OnFrame
  <2>3. /\ exchange' \in {"new", "refused", "attached", "finished"}
        /\ head' \in {"none", "host", "page"} /\ ended' \in BOOLEAN
    BY <1>2, <1>3 DEF RelayReceives, OnFrame, ErrorPage, TypeOK
  <2> QED
    BY <1>1, <1>2, <1>3, <2>1, <2>2, <2>3 DEF RelayReceives, TypeInv, TypeOK
<1>4. CASE TunnelCloses
    BY <1>1, <1>2, <1>4 DEF TunnelCloses, TypeInv, TypeOK
<1>5. CASE RelayLosesTunnel
  <2>1. toRelay' \in Seq(AnswerFrame) /\ toRelay' \in Seq(Frames)
    BY <1>5 DEF RelayLosesTunnel
  <2>2. /\ exchange' \in {"new", "refused", "attached", "finished"}
        /\ head' \in {"none", "host", "page"} /\ ended' \in BOOLEAN
    BY <1>2, <1>5 DEF RelayLosesTunnel, ErrorPage, TypeOK
  <2> QED
    BY <1>1, <1>2, <1>5, <2>1, <2>2 DEF RelayLosesTunnel, TypeInv, TypeOK
<1> QED
    BY <1>3, <1>4, <1>5

\* The steps of the host and of DSH.
LEMMA HostTypes ==
    ASSUME TypeInv, HostReceives \/ HostLosesTunnel \/ Local
    PROVE  TypeInv'
<1> USE DEF inputVars, browserVars, relayVars, hostVars, dshVars
<1>1. TypeOK /\ toRelay \in Seq(AnswerFrame) /\ toRelay \in Seq(Frames) /\ received \in 0 .. Limit
    BY DEF TypeInv, TypeOK
<1>2. \A frame \in AnswerFrame :
          ToRelay(<<frame>>) => toRelay' \in Seq(AnswerFrame) /\ toRelay' \in Seq(Frames)
    BY <1>1, AnswerCarried
<1>3. \A type \in {"response", "end", "abort"} : Frame(type, 0) \in AnswerFrame
    BY FramesSent
<1>4. CASE HostReceives
  <2>1. /\ received' \in {received, received + 1}
        /\ received' # received => Head(toHost).type = "chunk"
    BY <1>4 DEF HostReceives, OpenLocalRequest, BodyChunk, BodyEnd
  <2>2. toHost # <<>> /\ toHost' = Tail(toHost) /\ uploaded' = uploaded
    BY <1>4 DEF HostReceives
  <2>3. toHost' \in Seq(Frames) /\ Counted' /\ received' \in 0 .. Limit
    BY <2>1, <2>2, UploadTakenOff
  <2>4. toRelay' \in Seq(AnswerFrame) /\ toRelay' \in Seq(Frames)
    BY <1>1, <1>2, <1>3, <1>4 DEF HostReceives, OpenLocalRequest, BodyChunk, BodyEnd
  <2>5. entry' \in BOOLEAN /\ upstream' \in {"none", "open", "ended", "destroyed"}
    BY <1>1, <1>4 DEF HostReceives, OpenLocalRequest, BodyChunk, BodyEnd, DestroyUpstream, TypeOK
  <2> QED
    BY <1>1, <1>4, <2>3, <2>4, <2>5 DEF HostReceives, TypeInv, TypeOK
<1>5. CASE HostLosesTunnel
  <2>1. toHost' = <<>> /\ toHost' \in Seq(Frames) /\ UNCHANGED <<received, uploaded>>
    BY <1>5 DEF HostLosesTunnel
  <2>2. Counted'
    BY <2>1 DEF TypeInv, Counted
  <2>3. entry' \in BOOLEAN /\ upstream' \in {"none", "open", "ended", "destroyed"}
    BY <1>1, <1>5 DEF HostLosesTunnel, DestroyUpstream, TypeOK
  <2> QED
    BY <1>1, <1>5, <2>1, <2>2, <2>3 DEF HostLosesTunnel, TypeInv, TypeOK
<1>6. CASE Local
  <2>1. UNCHANGED <<toHost, received, uploaded>> /\ Counted'
    BY <1>6 DEF Local, LocalHead, LocalChunk, LocalEnds, LocalFails, TypeInv, Counted
  <2>2. CASE LocalHead \/ LocalEnds \/ LocalFails
    <3>1. toRelay' \in Seq(AnswerFrame) /\ toRelay' \in Seq(Frames)
      BY <1>2, <1>3, <2>2 DEF LocalHead, LocalEnds, LocalFails
    <3> QED
      BY <1>1, <2>1, <2>2, <3>1 DEF LocalHead, LocalEnds, LocalFails, TypeInv, TypeOK
  <2>3. CASE LocalChunk
    <3>1. sent' \in 1 .. MaxAnswer /\ sent' \in 0 .. MaxAnswer
      BY <1>1, <2>3, ConstantsAssumption DEF LocalChunk, TypeOK
    <3>2. Frame("chunk", sent') \in AnswerFrame
      BY <3>1, FramesSent
    <3>3. toRelay' \in Seq(AnswerFrame) /\ toRelay' \in Seq(Frames)
      BY <1>2, <2>3, <3>2 DEF LocalChunk
    <3> QED
      BY <1>1, <2>1, <2>3, <3>1, <3>3 DEF LocalChunk, TypeInv, TypeOK
  <2> QED
    BY <1>6, <2>2, <2>3 DEF Local
<1> QED
    BY <1>4, <1>5, <1>6

LEMMA TypePreserved == TypeInv /\ [Next]_vars => TypeInv'
<1>1. ASSUME TypeInv, UNCHANGED vars PROVE TypeInv'
    BY <1>1 DEF TypeInv, TypeOK, Counted, vars, inputVars, browserVars, relayVars, tunnelVars,
                hostVars, dshVars
<1> QED
    BY <1>1, BrowserTypes, TunnelTypes, HostTypes DEF Next, Relay, Terminated

\* The state has its type, and the host never counts more chunks than the limit: its own
\* check (BODY_CHUNK in #handleFrame) can only stop what the relay's has let through.
THEOREM TypeCorrect == Spec => []TypeOK
<1>1. TypeInv => TypeOK
    BY DEF TypeInv
<1> QED
    BY <1>1, TypeInit, TypePreserved, PTL DEF Spec

-----------------------------------------------------------------------------
(* The upload.                                                             *)

\* What the upload's state looks like.
UploadType ==
    /\ noBody \in BOOLEAN /\ size \in Nat
    /\ noBody => size = 0 /\ uploaded = 0
    /\ uploaded \in Nat /\ received \in Nat
    /\ entry \in BOOLEAN
    /\ toHost \in Seq([type : FrameTypes, n : Nat])

\* Before forwardHttp has run nothing has happened.
NothingBefore ==
    exchange = "new" => toHost = <<>> /\ upstream = "none" /\ ~entry /\ received = 0 /\ uploaded = 0

\* The request is still to come.
Waiting == toHost # <<>> /\ toHost[1].type = "request"

\* The first k frames for the host, but for the request itself, are chunks.
OnlyChunks(k) == \A j \in 1 .. k : (j = 1 /\ Waiting) \/ toHost[j].type = "chunk"

\* What the host will have counted when it has handled the first k of them.
Count(k) == received + k - (IF Waiting THEN 1 ELSE 0)

\* The request comes once, and first.
RequestFirst ==
    \A i \in 1 .. Len(toHost) : toHost[i].type = "request" =>
        i = 1 /\ upstream = "none" /\ ~entry /\ received = 0

\* The host will have all that the relay has read, unless there is more to come than
\* chunks.
InStep ==
    (entry \/ Waiting) /\ OnlyChunks(Len(toHost)) /\ relaySock = "open" /\ hostSock = "open"
    => Count(Len(toHost)) = uploaded

\* A body.end comes behind the whole body.
EndIsLast ==
    \A i \in 1 .. Len(toHost) : toHost[i].type = "end" =>
        /\ uploaded = size /\ size <= Limit
        /\ \A j \in i .. Len(toHost) : toHost[j].type # "chunk"
        /\ (entry \/ Waiting) /\ OnlyChunks(i - 1) => Count(i - 1) = size

\* Chunks are of a request that may have a body and that is not complete at DSH.
ChunkHasBody ==
    \A i \in 1 .. Len(toHost) : toHost[i].type = "chunk" => ~noBody /\ upstream # "ended"

\* UploadIntact, and that the relay had read all of it.
EndedIsWhole == upstream = "ended" => received = size /\ uploaded = size /\ size <= Limit

\* Past the limit the relay has given the upload up (request.destroy).
WithinLimit == browser = "there" => uploaded <= Limit

\* The inductive invariant of the upload.
UploadInv ==
    UploadType /\ NothingBefore /\ RequestFirst /\ InStep /\ EndIsLast /\ ChunkHasBody
    /\ EndedIsWhole /\ WithinLimit

\* It holds before forwardHttp runs.
LEMMA UploadInit == Init => UploadInv
<1> SUFFICES ASSUME Init PROVE UploadInv
    OBVIOUS
<1>1. toHost = <<>> /\ Len(toHost) = 0 /\ ~entry /\ ~Waiting /\ uploaded = 0
    BY DEF Init, Waiting
<1>2. UploadType
  <2>1. size \in Nat /\ (noBody => size = 0)
    BY ConstantsAssumption DEF Init
  <2>2. toHost \in Seq([type : FrameTypes, n : Nat])
    BY <1>1
  <2>3. noBody \in BOOLEAN /\ entry \in BOOLEAN
    BY DEF Init
  <2>4. uploaded \in Nat /\ received \in Nat
    BY DEF Init
  <2> QED
    BY <1>1, <2>1, <2>2, <2>3, <2>4 DEF UploadType
<1>3. NothingBefore /\ EndedIsWhole /\ WithinLimit
    BY ConstantsAssumption DEF Init, NothingBefore, EndedIsWhole, WithinLimit
<1>4. RequestFirst /\ InStep /\ EndIsLast /\ ChunkHasBody
    BY <1>1 DEF RequestFirst, InStep, EndIsLast, ChunkHasBody
<1> QED
    BY <1>2, <1>3, <1>4 DEF UploadInv

\* A step that leaves the frames for the host and what the host has counted alone.
LEMMA UploadIdle ==
    ASSUME UploadInv,
           UNCHANGED <<inputVars, browserVars, toHost, received>>,
           exchange' # exchange => exchange' # "new",
           relaySock' = "open" => relaySock = "open",
           hostSock' = "open" => hostSock = "open",
           \/ UNCHANGED <<entry, upstream>>
           \/ entry' = FALSE /\ upstream # "none" /\ upstream' \in {upstream, "destroyed"}
    PROVE  UploadInv'
<1> USE DEF UploadInv, inputVars, browserVars
<1>1. UploadType' /\ EndedIsWhole' /\ WithinLimit'
    BY DEF UploadType, EndedIsWhole, WithinLimit
<1>2. NothingBefore' /\ ChunkHasBody'
    BY DEF NothingBefore, ChunkHasBody
<1>3. Waiting' = Waiting /\ \A k : OnlyChunks(k)' = OnlyChunks(k) /\ Count(k)' = Count(k)
    BY DEF Waiting, OnlyChunks, Count
<1>4. entry' => entry
    OBVIOUS
<1>5. RequestFirst'
    BY DEF RequestFirst
<1>6. InStep'
    BY <1>3, <1>4 DEF InStep
<1>7. EndIsLast'
    BY <1>3, <1>4 DEF EndIsLast
<1> QED
    BY <1>1, <1>2, <1>5, <1>6, <1>7

\* What a frame more does to the definitions that look at the frames for the host.
LEMMA FrameSent ==
    ASSUME UploadType, NEW f \in [type : FrameTypes, n : Nat], f.type # "request",
           toHost' = Append(toHost, f), received' = received
    PROVE  /\ Len(toHost') = Len(toHost) + 1
           /\ toHost' \in Seq([type : FrameTypes, n : Nat])
           /\ \A i \in 1 .. Len(toHost) : toHost'[i] = toHost[i]
           /\ toHost'[Len(toHost')] = f
           /\ Waiting' = Waiting
           /\ \A k \in 0 .. Len(toHost) : OnlyChunks(k)' = OnlyChunks(k)
           /\ \A k : Count(k)' = Count(k)
<1> DEFINE F == [type : FrameTypes, n : Nat]
<1>1. toHost \in Seq(F) /\ toHost' \in Seq(F)
    BY DEF UploadType
<1>2. /\ Len(toHost') = Len(toHost) + 1
      /\ \A i \in 1 .. Len(toHost) : toHost'[i] = toHost[i]
      /\ toHost'[Len(toHost')] = f
    BY <1>1
<1>3. Waiting' = Waiting
  <2>1. CASE toHost = <<>>
    BY <1>1, <1>2, <2>1 DEF Waiting
  <2>2. CASE toHost # <<>>
    BY <1>1, <1>2, <2>2 DEF Waiting
  <2> QED
    BY <2>1, <2>2
<1>4. ASSUME NEW k \in 0 .. Len(toHost) PROVE OnlyChunks(k)' = OnlyChunks(k)
    BY <1>1, <1>2, <1>3 DEF OnlyChunks
<1>5. \A k : Count(k)' = Count(k)
    BY <1>3 DEF Count
<1> QED
    BY <1>1, <1>2, <1>3, <1>4, <1>5

\* forwardHttp keeps it: the first frame is the request.
LEMMA UploadForward == UploadInv /\ ForwardHttp => UploadInv'
<1> SUFFICES ASSUME UploadInv, ForwardHttp PROVE UploadInv'
    OBVIOUS
<1> DEFINE f == Frame("request", 0)
<1>1. /\ toHost = <<>> /\ upstream = "none" /\ ~entry /\ received = 0 /\ uploaded = 0
      /\ UNCHANGED <<inputVars, browserVars, hostVars, relaySock, hostSock>>
      /\ exchange' # "new"
    BY DEF UploadInv, NothingBefore, ForwardHttp
<1> USE DEF inputVars, browserVars, hostVars
<1>2. toHost' = <<>> \/ toHost' = <<f>>
    BY <1>1 DEF ForwardHttp, ToHost
<1>3. f \in [type : FrameTypes, n : Nat] /\ f.type = "request"
    BY DEF Frame, FrameTypes
<1> HIDE DEF f
<1>4. toHost' \in Seq([type : FrameTypes, n : Nat])
  <2> DEFINE F == [type : FrameTypes, n : Nat]
  <2>1. f \in F
    BY <1>3
  <2> HIDE DEF F
  <2>2. <<>> \in Seq(F) /\ <<f>> \in Seq(F)
    BY <2>1
  <2>3. toHost' \in Seq(F)
    BY <1>2, <2>2
  <2> QED
    BY <2>3 DEF F
<1>5. UploadType' /\ NothingBefore' /\ EndedIsWhole' /\ WithinLimit'
    BY <1>1, <1>4 DEF UploadInv, UploadType, NothingBefore, EndedIsWhole, WithinLimit
<1>6. \A i \in 1 .. Len(toHost') : i = 1 /\ toHost'[i].type = "request"
  <2>1. CASE toHost' = <<>>
    BY <2>1
  <2>2. CASE toHost' = <<f>>
    BY <1>3, <2>2
  <2> QED
    BY <1>2, <2>1, <2>2
<1>7. RequestFirst' /\ EndIsLast' /\ ChunkHasBody'
    BY <1>1, <1>6 DEF RequestFirst, EndIsLast, ChunkHasBody
<1>8. InStep'
  <2>1. Waiting' => Len(toHost') = 1
    BY <1>2 DEF Waiting
  <2> QED
    BY <1>1, <2>1 DEF InStep, Count
<1> QED
    BY <1>5, <1>7, <1>8 DEF UploadInv

\* A frame of the relay arrives on the tunnel.
LEMMA UploadSent ==
    ASSUME UploadInv, NEW f \in [type : FrameTypes, n : Nat],
           toHost' = Append(toHost, f),
           UNCHANGED <<inputVars, hostVars, relaySock, hostSock>>,
           exchange' # "new", uploaded' \in Nat, noBody => uploaded' = uploaded,
           WithinLimit', EndedIsWhole',
           relaySock = "open", hostSock = "open",
           \/ f.type = "chunk" /\ ~noBody /\ uploaded' = uploaded + 1 /\ uploaded < size
           \/ f.type = "abort" /\ (uploaded' = uploaded \/ uploaded < size)
           \/ f.type = "end" /\ uploaded' = uploaded /\ uploaded = size /\ size <= Limit
    PROVE  UploadInv'
<1> USE DEF UploadInv, inputVars, hostVars
<1> PICK n \in Nat : n = Len(toHost)
    BY DEF UploadType
<1>1. /\ Len(toHost') = n + 1
      /\ toHost' \in Seq([type : FrameTypes, n : Nat])
      /\ \A i \in 1 .. n : toHost'[i] = toHost[i]
      /\ toHost'[n + 1] = f
      /\ Waiting' = Waiting
      /\ \A k \in 0 .. n : OnlyChunks(k)' = OnlyChunks(k)
      /\ \A k : Count(k)' = Count(k)
    BY FrameSent
<1>2. UploadType' /\ NothingBefore'
    BY <1>1 DEF UploadType, NothingBefore
<1>3. uploaded < size => upstream # "ended" /\ \A i \in 1 .. n : toHost[i].type # "end"
    BY DEF EndedIsWhole, EndIsLast, UploadType
<1>4. RequestFirst'
    BY <1>1 DEF RequestFirst
<1>5. ChunkHasBody'
    BY <1>1, <1>3 DEF ChunkHasBody
<1>6. (entry \/ Waiting) /\ OnlyChunks(n) => Count(n) = uploaded
    BY DEF InStep
<1>7. InStep'
  <2>1. OnlyChunks(n + 1)' => f.type = "chunk" /\ OnlyChunks(n)'
    BY <1>1 DEF OnlyChunks, Waiting
  <2>2. Count(n + 1)' = Count(n) + 1
    BY <1>1 DEF Count, UploadType
  <2> QED
    BY <1>1, <1>6, <2>1, <2>2 DEF InStep
<1>8. EndIsLast'
  <2> SUFFICES ASSUME NEW i \in 1 .. n + 1, toHost'[i].type = "end"
               PROVE  /\ uploaded' = size /\ size <= Limit
                      /\ \A j \in i .. n + 1 : toHost'[j].type # "chunk"
                      /\ (entry \/ Waiting) /\ OnlyChunks(i - 1)' => Count(i - 1)' = size
    BY <1>1 DEF EndIsLast
  <2>1. CASE i = n + 1
    BY <1>1, <1>6, <2>1
  <2>2. CASE i \in 1 .. n
    <3>1. toHost[i].type = "end"
      BY <1>1, <2>2
    <3>2. /\ uploaded = size /\ size <= Limit
          /\ \A j \in i .. n : toHost[j].type # "chunk"
          /\ (entry \/ Waiting) /\ OnlyChunks(i - 1) => Count(i - 1) = size
      BY <2>2, <3>1 DEF EndIsLast
    <3>3. ~(uploaded < size)
      BY <3>2 DEF UploadType
    <3>4. uploaded' = size /\ f.type # "chunk"
      BY <3>2, <3>3
    <3>5. ASSUME NEW j \in i .. n + 1 PROVE toHost'[j].type # "chunk"
      <4>1. CASE j = n + 1
        BY <1>1, <3>4, <4>1
      <4>2. CASE j \in i .. n
        <5>1. j \in 1 .. n
          BY <2>2, <4>2
        <5>2. toHost'[j] = toHost[j]
          BY <1>1, <5>1
        <5> QED
          BY <3>2, <4>2, <5>2
      <4> QED
        BY <2>2, <4>1, <4>2
    <3>6. i - 1 \in 0 .. n
      BY <2>2
    <3>7. OnlyChunks(i - 1)' = OnlyChunks(i - 1) /\ Count(i - 1)' = Count(i - 1)
      BY <1>1, <3>6
    <3> QED
      BY <3>2, <3>4, <3>5, <3>7
  <2> QED
    BY <2>1, <2>2
<1> QED
    BY <1>2, <1>4, <1>5, <1>7, <1>8

\* A frame of the relay is lost, and with it all that follow.
LEMMA UploadLost ==
    ASSUME UploadInv, toHost' = toHost,
           UNCHANGED <<inputVars, hostVars, relaySock, hostSock>>,
           exchange' # "new", uploaded' \in Nat, noBody => uploaded' = uploaded,
           WithinLimit', EndedIsWhole',
           uploaded' = uploaded \/ (uploaded < size /\ ~(relaySock = "open" /\ hostSock = "open"))
    PROVE  UploadInv'
<1> USE DEF UploadInv, inputVars, hostVars
<1>1. UploadType' /\ NothingBefore' /\ RequestFirst' /\ ChunkHasBody'
    BY DEF UploadType, NothingBefore, RequestFirst, ChunkHasBody
<1>2. Waiting' = Waiting /\ \A k : OnlyChunks(k)' = OnlyChunks(k) /\ Count(k)' = Count(k)
    BY DEF Waiting, OnlyChunks, Count
<1>3. InStep'
    BY <1>2 DEF InStep
<1>4. EndIsLast'
    BY <1>2 DEF EndIsLast, UploadType
<1> QED
    BY <1>1, <1>3, <1>4

\* The listener for 'data' keeps it: one chunk more is read and sent, or one too many aborts.
LEMMA UploadReads == UploadInv /\ Upload => UploadInv'
<1> SUFFICES ASSUME UploadInv, Upload PROVE UploadInv'
    OBVIOUS
<1> DEFINE f == IF uploaded' > Limit THEN Frame("abort", 0) ELSE Frame("chunk", uploaded')
<1>1. UploadType /\ EndedIsWhole /\ WithinLimit
    BY DEF UploadInv
<1>2. /\ UNCHANGED <<inputVars, hostVars, relaySock, hostSock>>
      /\ ~noBody /\ exchange' # "new"
      /\ uploaded' = uploaded + 1 /\ uploaded < size
    BY DEF Upload, Listening
<1>3. uploaded' \in Nat /\ EndedIsWhole'
    BY <1>1, <1>2 DEF UploadType, EndedIsWhole, inputVars, hostVars
<1>4. WithinLimit'
    BY <1>1, <1>2, ConstantsAssumption DEF Upload, UploadType, WithinLimit
<1>5. toHost' = IF relaySock = "open" /\ hostSock = "open" THEN toHost \o <<f>> ELSE toHost
    BY DEF Upload, ToHost
<1>6. f \in [type : FrameTypes, n : Nat] /\ f.type \in {"abort", "chunk"}
    BY <1>3 DEF Frame, FrameTypes
<1> HIDE DEF f
<1>7. CASE relaySock = "open" /\ hostSock = "open"
  <2>1. toHost' = Append(toHost, f)
    BY <1>1, <1>5, <1>6, <1>7 DEF UploadType
  <2> QED
    BY <1>2, <1>3, <1>4, <1>6, <1>7, <2>1, UploadSent
<1>8. CASE ~(relaySock = "open" /\ hostSock = "open")
    BY <1>2, <1>3, <1>4, <1>5, <1>8, UploadLost
<1> QED
    BY <1>7, <1>8

\* The listener for 'end' keeps it: the whole body is read and within the limit.
LEMMA UploadCompletes == UploadInv /\ UploadEnds => UploadInv'
<1> SUFFICES ASSUME UploadInv, UploadEnds PROVE UploadInv'
    OBVIOUS
<1> DEFINE f == Frame("end", 0)
<1>1. UploadType /\ EndedIsWhole /\ WithinLimit
    BY DEF UploadInv
<1>2. /\ UNCHANGED <<inputVars, hostVars, relaySock, hostSock>>
      /\ uploaded' = uploaded /\ browser' = browser /\ exchange' # "new"
      /\ uploaded = size /\ size <= Limit
    BY <1>1 DEF UploadEnds, Listening, relayVars, WithinLimit
<1>3. uploaded' \in Nat /\ EndedIsWhole' /\ WithinLimit'
    BY <1>1, <1>2 DEF UploadType, EndedIsWhole, WithinLimit, inputVars, hostVars
<1>4. f \in [type : FrameTypes, n : Nat] /\ f.type = "end"
    BY DEF Frame, FrameTypes
<1>5. \/ toHost' = toHost
      \/ toHost' = toHost \o <<f>> /\ relaySock = "open" /\ hostSock = "open"
      \/ toHost' = toHost \o <<>>
    BY DEF UploadEnds, ToHost
<1> HIDE DEF f
<1>6. toHost \o <<>> = toHost /\ toHost \o <<f>> = Append(toHost, f)
    BY <1>1, <1>4 DEF UploadType
<1>7. CASE toHost' = toHost
    BY <1>2, <1>3, <1>7, UploadLost
<1>8. CASE toHost' = Append(toHost, f) /\ relaySock = "open" /\ hostSock = "open"
    BY <1>2, <1>3, <1>4, <1>8, UploadSent
<1> QED
    BY <1>5, <1>6, <1>7, <1>8

\* The listener for 'close' keeps it: an abort, never an end.
LEMMA UploadBreaksOff == UploadInv /\ BrowserLeaves => UploadInv'
<1> SUFFICES ASSUME UploadInv, BrowserLeaves PROVE UploadInv'
    OBVIOUS
<1> DEFINE f == Frame("abort", 0)
<1>1. UploadType /\ EndedIsWhole
    BY DEF UploadInv
<1>2. /\ UNCHANGED <<inputVars, hostVars, relaySock, hostSock>>
      /\ uploaded' = uploaded /\ browser' # "there" /\ exchange' # "new"
    BY DEF BrowserLeaves
<1>3. uploaded' \in Nat /\ EndedIsWhole' /\ WithinLimit'
    BY <1>1, <1>2 DEF UploadType, EndedIsWhole, WithinLimit, inputVars, hostVars
<1>4. f \in [type : FrameTypes, n : Nat] /\ f.type = "abort"
    BY DEF Frame, FrameTypes
<1>5. \/ toHost' = toHost
      \/ toHost' = toHost \o <<f>> /\ relaySock = "open" /\ hostSock = "open"
      \/ toHost' = toHost \o <<>>
    BY DEF BrowserLeaves, ToHost
<1> HIDE DEF f
<1>6. toHost \o <<>> = toHost /\ toHost \o <<f>> = Append(toHost, f)
    BY <1>1, <1>4 DEF UploadType
<1>7. CASE toHost' = toHost
    BY <1>2, <1>3, <1>7, UploadLost
<1>8. CASE toHost' = Append(toHost, f) /\ relaySock = "open" /\ hostSock = "open"
    BY <1>2, <1>3, <1>4, <1>8, UploadSent
<1> QED
    BY <1>5, <1>6, <1>7, <1>8

\* The host takes a frame off.
LEMMA FrameTaken ==
    ASSUME UploadType, RequestFirst, toHost # <<>>, toHost' = Tail(toHost), received' \in Nat
    PROVE  /\ Len(toHost) \in Nat \ {0}
           /\ Len(toHost') = Len(toHost) - 1
           /\ toHost' \in Seq([type : FrameTypes, n : Nat])
           /\ \A i \in 1 .. Len(toHost') : toHost'[i] = toHost[i + 1]
           /\ Head(toHost) = toHost[1]
           /\ ~Waiting'
           /\ \A k \in 0 .. Len(toHost') :
                  OnlyChunks(k)' /\ (Waiting \/ toHost[1].type = "chunk") => OnlyChunks(k + 1)
           /\ \A k \in Nat : Count(k)' = received' + k
<1> DEFINE F == [type : FrameTypes, n : Nat]
<1>1. toHost \in Seq(F)
    BY DEF UploadType
<1> HIDE DEF F
<1>2. /\ Len(toHost) \in Nat \ {0}
      /\ Len(toHost') = Len(toHost) - 1
      /\ toHost' \in Seq(F)
      /\ \A i \in 1 .. Len(toHost') : toHost'[i] = toHost[i + 1]
      /\ Head(toHost) = toHost[1]
    BY <1>1
<1>3. \A i \in 1 .. Len(toHost') : toHost'[i].type # "request"
    BY <1>2 DEF RequestFirst
<1>4. ~Waiting'
  <2>1. toHost' # <<>> => 1 \in 1 .. Len(toHost')
    BY <1>2
  <2> QED
    BY <1>3, <2>1 DEF Waiting
<1>5. ASSUME NEW k \in 0 .. Len(toHost'), OnlyChunks(k)', Waiting \/ toHost[1].type = "chunk"
      PROVE  OnlyChunks(k + 1)
  <2> SUFFICES ASSUME NEW j \in 1 .. k + 1 PROVE (j = 1 /\ Waiting) \/ toHost[j].type = "chunk"
    BY DEF OnlyChunks
  <2>1. CASE j = 1
    BY <1>5, <2>1
  <2>2. CASE j # 1
    <3>1. j - 1 \in 1 .. k /\ j - 1 \in 1 .. Len(toHost')
      BY <1>2, <2>2
    <3>2. toHost'[j - 1].type = "chunk"
      BY <1>4, <1>5, <3>1 DEF OnlyChunks
    <3> QED
      BY <1>2, <3>1, <3>2
  <2> QED
    BY <2>1, <2>2
<1>6. \A k \in Nat : Count(k)' = received' + k
    BY <1>2, <1>4 DEF Count
<1> QED
    BY <1>2, <1>4, <1>5, <1>6 DEF F

\* Of a frame that the host has handled the invariant wants little: that the request
\* and the chunks of an upload that goes on are counted, and that what is taken for
\* complete is.
LEMMA UploadTaken ==
    ASSUME UploadInv, toHost # <<>>, toHost' = Tail(toHost),
           UNCHANGED <<inputVars, browserVars, relayVars, relaySock, hostSock>>,
           exchange # "new", entry' \in BOOLEAN, received' \in Nat,
           EndedIsWhole',
           upstream' = "ended" => upstream = "ended" \/ noBody
                                  \/ \A i \in 1 .. Len(toHost) : toHost[i].type # "chunk",
           entry' => \/ Waiting /\ received' = received
                     \/ entry /\ toHost[1].type = "chunk" /\ received' = received + 1
                     \/ entry /\ toHost[1].type = "end" /\ received' = received
    PROVE  UploadInv'
<1> USE DEF UploadInv, inputVars, browserVars, relayVars
<1>0. /\ Len(toHost) \in Nat \ {0}
      /\ Len(toHost') = Len(toHost) - 1
      /\ toHost' \in Seq([type : FrameTypes, n : Nat])
      /\ \A i \in 1 .. Len(toHost') : toHost'[i] = toHost[i + 1]
      /\ ~Waiting'
      /\ \A k \in 0 .. Len(toHost') :
             OnlyChunks(k)' /\ (Waiting \/ toHost[1].type = "chunk") => OnlyChunks(k + 1)
      /\ \A k \in Nat : Count(k)' = received' + k
    BY FrameTaken
<1> PICK n \in Nat : n = Len(toHost') /\ n + 1 = Len(toHost)
  <2>1. Len(toHost') \in Nat /\ Len(toHost') + 1 = Len(toHost)
    BY <1>0
  <2> QED
    BY <2>1
<1>1. /\ Len(toHost') = n /\ Len(toHost) = n + 1
      /\ toHost' \in Seq([type : FrameTypes, n : Nat])
      /\ \A i \in 1 .. n : toHost'[i] = toHost[i + 1]
      /\ ~Waiting'
      /\ \A k \in 0 .. n :
             OnlyChunks(k)' /\ (Waiting \/ toHost[1].type = "chunk") => OnlyChunks(k + 1)
      /\ \A k \in Nat : Count(k)' = received' + k
    BY <1>0
<1>2. UploadType' /\ NothingBefore' /\ WithinLimit'
    BY <1>1 DEF UploadType, NothingBefore, WithinLimit
<1>3. RequestFirst'
    BY <1>1 DEF RequestFirst
<1>4. ChunkHasBody'
  <2> SUFFICES ASSUME NEW i \in 1 .. n, toHost'[i].type = "chunk"
               PROVE  ~noBody /\ upstream' # "ended"
    BY <1>1 DEF ChunkHasBody
  <2>1. i + 1 \in 1 .. Len(toHost) /\ toHost[i + 1].type = "chunk"
    BY <1>1
  <2>2. ~noBody /\ upstream # "ended"
    BY <2>1 DEF ChunkHasBody
  <2> QED
    BY <2>1, <2>2
<1>5. entry' => \/ Waiting \/ toHost[1].type = "chunk"
                \/ entry /\ toHost[1].type = "end" /\ received' = received
    OBVIOUS
<1>6. ASSUME entry', Waiting \/ toHost[1].type = "chunk", NEW k \in 0 .. n
      PROVE  Count(k)' = Count(k + 1) /\ (entry \/ Waiting)
  <2>1. k \in Nat /\ Count(k)' = received' + k
    BY <1>1
  <2>2. CASE Waiting
    <3>1. received' = received
      BY <1>6, <2>2 DEF Waiting
    <3> QED
      BY <2>1, <2>2, <3>1 DEF Count, UploadType
  <2>3. CASE ~Waiting
    <3>1. received' = received + 1 /\ entry
      BY <1>6, <2>3
    <3> QED
      BY <2>1, <2>3, <3>1 DEF Count, UploadType
  <2> QED
    BY <2>2, <2>3
<1>7. ASSUME entry, toHost[1].type = "end", received' = received
      PROVE  received' = size /\ uploaded = size /\ \A j \in 1 .. n + 1 : toHost[j].type # "chunk"
  <2>1. ~Waiting /\ 1 \in 1 .. Len(toHost) /\ OnlyChunks(0) /\ Count(0) = received
    BY <1>7 DEF Waiting, OnlyChunks, Count, UploadType
  <2> QED
    BY <1>7, <2>1 DEF EndIsLast
<1>8. InStep'
  <2> SUFFICES ASSUME entry', OnlyChunks(n)', relaySock = "open", hostSock = "open"
               PROVE  Count(n)' = uploaded
    BY <1>1 DEF InStep
  <2>1. CASE Waiting \/ toHost[1].type = "chunk"
    <3>1. n \in 0 .. n /\ OnlyChunks(n + 1)
      BY <1>1, <2>1
    <3>2. Count(n)' = Count(n + 1) /\ (entry \/ Waiting)
      BY <1>6, <2>1, <3>1
    <3>3. Count(n + 1) = uploaded
      BY <1>1, <3>1, <3>2 DEF InStep
    <3> QED
      BY <3>2, <3>3
  <2>2. CASE entry /\ toHost[1].type = "end" /\ received' = received
    <3>1. n = 0
      <4> SUFFICES ASSUME n # 0 PROVE FALSE
        OBVIOUS
      <4>1. 1 \in 1 .. n
        OBVIOUS
      <4>2. toHost'[1].type = "chunk"
        BY <1>1, <4>1 DEF OnlyChunks
      <4>3. 2 \in 1 .. n + 1 /\ toHost'[1] = toHost[2]
        BY <1>1, <4>1
      <4>4. toHost[2].type # "chunk"
        BY <1>7, <2>2, <4>3
      <4> QED
        BY <4>2, <4>3, <4>4
    <3>2. received' = size /\ uploaded = size
      BY <1>7, <2>2
    <3>3. Count(n)' = received' + n
      BY <1>1
    <3> QED
      BY <3>1, <3>2, <3>3 DEF UploadType
  <2> QED
    BY <1>5, <2>1, <2>2
<1>9. EndIsLast'
  <2> SUFFICES ASSUME NEW i \in 1 .. n, toHost'[i].type = "end"
               PROVE  /\ uploaded = size /\ size <= Limit
                      /\ \A j \in i .. n : toHost'[j].type # "chunk"
                      /\ entry' /\ OnlyChunks(i - 1)' => Count(i - 1)' = size
    BY <1>1 DEF EndIsLast
  <2>1. /\ uploaded = size /\ size <= Limit
        /\ \A j \in i + 1 .. n + 1 : toHost[j].type # "chunk"
        /\ (entry \/ Waiting) /\ OnlyChunks(i) => Count(i) = size
    <3>1. i + 1 \in 1 .. Len(toHost) /\ toHost[i + 1].type = "end" /\ (i + 1) - 1 = i
      BY <1>1
    <3> QED
      BY <3>1 DEF EndIsLast
  <2>2. \A j \in i .. n : toHost'[j].type # "chunk"
    BY <1>1, <2>1
  <2>3. ASSUME entry', OnlyChunks(i - 1)' PROVE Count(i - 1)' = size
    <3>1. i - 1 \in 0 .. n /\ (i - 1) + 1 = i
      OBVIOUS
    <3>2. CASE Waiting \/ toHost[1].type = "chunk"
      BY <1>1, <1>6, <2>1, <2>3, <3>1, <3>2
    <3>3. CASE entry /\ toHost[1].type = "end" /\ received' = received
      <4>1. i = 1
        <5> SUFFICES ASSUME i # 1 PROVE FALSE
          OBVIOUS
        <5>1. 1 \in 1 .. i - 1 /\ 1 \in 1 .. n
          OBVIOUS
        <5>2. toHost'[1].type = "chunk"
          BY <1>1, <2>3, <5>1 DEF OnlyChunks
        <5>3. 2 \in 1 .. n + 1 /\ toHost'[1] = toHost[2]
          BY <1>1, <5>1
        <5>4. toHost[2].type # "chunk"
          BY <1>7, <3>3, <5>3
        <5> QED
          BY <5>2, <5>3, <5>4
      <4> QED
        BY <1>1, <1>7, <3>3, <4>1 DEF UploadType
    <3> QED
      BY <1>5, <2>3, <3>2, <3>3
  <2> QED
    BY <2>1, <2>2, <2>3
<1> QED
    BY <1>2, <1>3, <1>4, <1>8, <1>9

\* The handlers of the host keep it, for each kind of frame.
LEMMA UploadHandled == UploadInv /\ HostReceives => UploadInv'
<1> SUFFICES ASSUME UploadInv, HostReceives PROVE UploadInv'
    OBVIOUS
<1>1. /\ toHost # <<>> /\ toHost' = Tail(toHost)
      /\ UNCHANGED <<inputVars, browserVars, relayVars, relaySock, hostSock>>
    BY DEF HostReceives
<1>2. UploadType /\ RequestFirst /\ EndIsLast /\ ChunkHasBody /\ EndedIsWhole /\ exchange # "new"
    BY <1>1 DEF UploadInv, NothingBefore
<1>3. 1 \in 1 .. Len(toHost) /\ Head(toHost) = toHost[1]
    BY <1>1, <1>2 DEF UploadType
<1> DEFINE frame == toHost[1]
<1>4. CASE frame.type = "request" /\ OpenLocalRequest
  <2>1. Waiting /\ upstream = "none" /\ ~entry /\ received = 0 /\ received' = received
    BY <1>1, <1>2, <1>3, <1>4 DEF Waiting, RequestFirst, OpenLocalRequest, hostVars
  <2>2. entry' \in BOOLEAN /\ received' \in Nat /\ (upstream' = "ended" => noBody)
    BY <1>2, <1>4, <2>1 DEF OpenLocalRequest, hostVars, UploadType
  <2>3. EndedIsWhole'
    BY <1>1, <1>2, <2>1, <2>2, ConstantsAssumption
       DEF EndedIsWhole, UploadType, inputVars, browserVars
  <2> QED
    BY <1>1, <1>2, <2>1, <2>2, <2>3, UploadTaken
<1>5. CASE frame.type = "chunk" /\ BodyChunk
  <2>1. upstream # "ended" /\ ~Waiting
    BY <1>2, <1>3, <1>5 DEF ChunkHasBody, Waiting
  <2>2. /\ entry' \in BOOLEAN /\ received' \in Nat /\ upstream' # "ended"
        /\ entry' => entry /\ received' = received + 1
    <3>1. CASE ~entry
      BY <1>2, <1>5, <2>1, <3>1 DEF BodyChunk, UploadType, hostVars
    <3>2. CASE entry /\ received + 1 > Limit
      <4>1. received' = received + 1 /\ DestroyUpstream
        BY <1>5, <3>2 DEF BodyChunk
      <4>2. entry' = FALSE /\ upstream' = "destroyed"
        BY <3>2, <4>1 DEF DestroyUpstream
      <4>3. received' \in Nat
        BY <1>2, <4>1 DEF UploadType
      <4> QED
        BY <4>2, <4>3
    <3>3. CASE entry /\ ~(received + 1 > Limit)
      BY <1>2, <1>5, <2>1, <3>3 DEF BodyChunk, UploadType
    <3> QED
      BY <3>1, <3>2, <3>3
  <2>3. EndedIsWhole'
    BY <2>2 DEF EndedIsWhole
  <2> QED
    BY <1>1, <1>2, <1>5, <2>2, <2>3, UploadTaken
<1>6. CASE frame.type = "end" /\ BodyEnd
  <2>1. /\ entry' = entry /\ received' = received
        /\ upstream' = IF entry THEN "ended" ELSE upstream
    BY <1>6 DEF BodyEnd
  <2>2. /\ uploaded = size /\ size <= Limit
        /\ \A j \in 1 .. Len(toHost) : toHost[j].type # "chunk"
        /\ entry => received = size
    <3>1. OnlyChunks(1 - 1) /\ Count(1 - 1) = received
      BY <1>2, <1>6 DEF OnlyChunks, Count, Waiting, UploadType
    <3> QED
      BY <1>2, <1>3, <1>6, <3>1 DEF EndIsLast
  <2>3. EndedIsWhole'
    BY <1>1, <1>2, <2>1, <2>2 DEF EndedIsWhole, inputVars, browserVars
  <2>4. entry' \in BOOLEAN /\ received' \in Nat
    BY <1>2, <2>1 DEF UploadType
  <2>5. entry' => entry /\ toHost[1].type = "end" /\ received' = received
    BY <1>6, <2>1
  <2> QED
    BY <1>1, <1>2, <2>2, <2>3, <2>4, <2>5, UploadTaken
<1>7. CASE frame.type = "abort" /\ DestroyUpstream /\ UNCHANGED <<received, toRelay>>
  <2>1. /\ ~entry' /\ entry' \in BOOLEAN /\ received' = received
        /\ upstream' \in {upstream, "destroyed"}
    BY <1>7 DEF DestroyUpstream
  <2>2. EndedIsWhole'
    BY <1>1, <1>2, <2>1 DEF EndedIsWhole, inputVars, browserVars
  <2> QED
    BY <1>1, <1>2, <2>1, <2>2, UploadTaken DEF UploadType
<1> QED
    BY <1>3, <1>4, <1>5, <1>6, <1>7 DEF HostReceives

\* The loss of the tunnel keeps it: the host destroys the request to DSH.
LEMMA UploadTornDown == UploadInv /\ HostLosesTunnel => UploadInv'
<1> SUFFICES ASSUME UploadInv, HostLosesTunnel PROVE UploadInv'
    OBVIOUS
<1> USE DEF UploadInv, inputVars, browserVars, relayVars
<1>1. /\ UNCHANGED <<inputVars, browserVars, relayVars, relaySock, received>>
      /\ toHost' = <<>> /\ ~entry' /\ entry' \in BOOLEAN
      /\ upstream' \in {upstream, IF entry THEN "destroyed" ELSE upstream}
    BY DEF HostLosesTunnel, DestroyUpstream
<1>2. Len(toHost') = 0 /\ ~Waiting'
    BY <1>1 DEF Waiting
<1>3. toHost' \in Seq([type : FrameTypes, n : Nat])
    BY <1>1
<1>4. UploadType' /\ NothingBefore' /\ EndedIsWhole' /\ WithinLimit'
    BY <1>1, <1>3 DEF UploadType, NothingBefore, EndedIsWhole, WithinLimit
<1>5. RequestFirst' /\ InStep' /\ EndIsLast' /\ ChunkHasBody'
    BY <1>1, <1>2 DEF RequestFirst, InStep, EndIsLast, ChunkHasBody
<1> QED
    BY <1>4, <1>5

\* Every step keeps the upload intact.
LEMMA UploadPreserved == UploadInv /\ [Next]_vars => UploadInv'
<1> SUFFICES ASSUME UploadInv, [Next]_vars PROVE UploadInv'
    OBVIOUS
<1> USE DEF inputVars, browserVars, relayVars, tunnelVars, hostVars, dshVars
<1>1. CASE ForwardHttp
    BY <1>1, UploadForward
<1>2. CASE RelayReceives
  <2>1. exchange = "attached" \/ exchange' = exchange
    BY <1>2 DEF RelayReceives
  <2>2. exchange' # exchange => exchange' # "new"
    BY <1>2, <2>1 DEF RelayReceives, OnFrame
  <2> QED
    BY <1>2, <2>2, UploadIdle DEF RelayReceives
<1>3. CASE Browser
    BY <1>3, UploadReads, UploadCompletes DEF Browser
<1>4. CASE BrowserLeaves
    BY <1>4, UploadBreaksOff
<1>5. CASE TunnelCloses
    BY <1>5, UploadIdle DEF TunnelCloses
<1>6. CASE RelayLosesTunnel
    BY <1>6, UploadIdle DEF RelayLosesTunnel
<1>7. CASE HostReceives
    BY <1>7, UploadHandled
<1>8. CASE HostLosesTunnel
    BY <1>8, UploadTornDown
<1>9. CASE LocalHead \/ LocalChunk
    BY <1>9, UploadIdle DEF LocalHead, LocalChunk
<1>10. CASE LocalEnds
    BY <1>10, UploadIdle DEF LocalEnds, Running
<1>11. CASE LocalFails
    BY <1>11, UploadIdle DEF LocalFails
<1>12. CASE UNCHANGED vars
    BY <1>12, UploadIdle DEF vars
<1> QED
    BY <1>1, <1>2, <1>3, <1>4, <1>5, <1>6, <1>7, <1>8, <1>9, <1>10, <1>11, <1>12
       DEF Next, Relay, Local, Terminated

\* DSH takes a body for complete only if it is, whatever the browser, the limit and the
\* loss of the tunnel cut off (forwardHttp, #handleFrame).
THEOREM Uploads == Spec => []UploadIntact
<1>1. Init => UploadInv
    BY UploadInit
<1>2. UploadInv => UploadIntact
    BY DEF UploadInv, EndedIsWhole, UploadIntact
<1> QED
    BY <1>1, <1>2, UploadPreserved, PTL DEF Spec

-----------------------------------------------------------------------------
(* The response.                                                           *)

\* The response's head is the next frame that the relay gets.
Opening == toRelay # <<>> /\ toRelay[1].type = "response"

\* If the first i frames for the relay are the response's head and chunks, the i-th is
\* this chunk.
Position(i) == Len(got) + i - (IF Opening THEN 1 ELSE 0)

\* The request is not at DSH and not on its way to the host.
Refused == upstream = "none" /\ \A i \in 1 .. Len(toHost) : toHost[i].type # "request"

\* The host can send to the relay.
RelayHears == relaySock # "lost" /\ hostSock = "open"

\* Before there is an exchange nothing has happened; before the tunnel is lost or the
\* exchange over the relay has ended no response; DSH answers no request that it has not.
Begun ==
    /\ exchange = "new" =>
          toRelay = <<>> /\ toHost = <<>> /\ ~ended /\ head = "none" /\ upstream = "none"
    /\ exchange = "attached" => ~ended /\ head # "page" /\ relaySock # "lost"
    /\ upstream = "none" => ~entry /\ reply = "none"
    /\ reply = "none" => sent = 0 /\ head # "host"

\* AnswerIsPrefix, chunk by chunk.
Delivered ==
    /\ Len(got) <= sent /\ \A i \in 1 .. Len(got) : got[i] = i
    /\ head = "page" => got = <<>>
    /\ got # <<>> => head = "host"

\* The head comes first, the chunks follow in order, and the last frame is an end behind
\* the whole response, or an abort by which the host says that there is none.
OnTheirWay ==
    \A i \in 1 .. Len(toRelay) :
        /\ toRelay[i].type = "response" => i = 1 /\ head = "none" /\ reply # "none"
        /\ toRelay[i].type = "chunk" =>
              toRelay[i].n = Position(i) /\ Position(i) <= sent /\ (head = "host" \/ Opening)
        /\ toRelay[i].type = "end" =>
              /\ i = Len(toRelay) /\ reply = "ended" /\ Position(i) = answer + 1
              /\ head = "host" \/ Opening
        /\ toRelay[i].type = "abort" => i = Len(toRelay) /\ (reply = "failed" \/ Refused)

\* As long as the response goes on and the tunnel stands, nothing of it is missing.
UpToDate ==
    RelayHears /\ reply \in {"none", "head"} /\ ~Refused =>
        /\ \A i \in 1 .. Len(toRelay) : toRelay[i].type \in {"response", "chunk"}
        /\ Position(Len(toRelay)) = sent
        /\ reply = "none" => toRelay = <<>>
        /\ reply = "head" => head = "host" \/ Opening

\* The inductive invariant of the response.
AnswerInv ==
    /\ TypeInv /\ UploadInv /\ Begun /\ Delivered /\ CleanEndIsWhole
    /\ exchange = "attached" => OnTheirWay /\ UpToDate

\* Types that the proofs below use.
LEMMA AnswerTypes ==
    TypeInv => /\ toRelay \in Seq(AnswerFrame) /\ Len(toRelay) \in Nat
               /\ toHost \in Seq(Frames) /\ Len(toHost) \in Nat
               /\ got \in Seq(1 .. MaxAnswer) /\ Len(got) \in Nat
               /\ sent \in Nat /\ answer \in Nat
               /\ \A i \in 1 .. Len(toRelay) :
                     toRelay[i].type \in {"response", "end", "abort", "chunk"}
<1> SUFFICES ASSUME TypeInv
             PROVE  /\ toRelay \in Seq(AnswerFrame) /\ Len(toRelay) \in Nat
                    /\ toHost \in Seq(Frames) /\ Len(toHost) \in Nat
                    /\ got \in Seq(1 .. MaxAnswer) /\ Len(got) \in Nat
                    /\ sent \in Nat /\ answer \in Nat
                    /\ \A i \in 1 .. Len(toRelay) :
                          toRelay[i].type \in {"response", "end", "abort", "chunk"}
    OBVIOUS
<1>1. toRelay \in Seq(AnswerFrame) /\ toHost \in Seq(Frames) /\ got \in Seq(1 .. MaxAnswer)
      /\ sent \in Nat /\ answer \in Nat
    BY ConstantsAssumption DEF TypeInv, TypeOK
<1>2. \A f \in AnswerFrame : f.type \in {"response", "end", "abort", "chunk"}
    BY DEF AnswerFrame
<1> QED
    BY <1>1, <1>2

\* A request that was refused, or lost, does not come again.
LEMMA RefusedStays ==
    ASSUME TypeInv, Begun, [Next]_vars, exchange # "new", Refused
    PROVE  Refused'
<1> USE DEF inputVars, browserVars, relayVars, tunnelVars, hostVars, dshVars
<1>1. toHost \in Seq(Frames) /\ Len(toHost) \in Nat /\ ~entry /\ upstream = "none"
    BY AnswerTypes DEF Refused, Begun
<1>2. CASE UNCHANGED <<toHost, upstream>>
    BY <1>2 DEF Refused
<1>3. ASSUME NEW frame \in Frames, frame.type # "request", toHost' = toHost \o <<frame>>,
             upstream' = upstream
      PROVE  Refused'
  <2>1. /\ Len(toHost') = Len(toHost) + 1
        /\ \A i \in 1 .. Len(toHost) : toHost'[i] = toHost[i]
        /\ toHost'[Len(toHost) + 1] = frame
    BY <1>1, <1>3
  <2> QED
    BY <1>1, <1>3, <2>1 DEF Refused
<1>4. ASSUME NEW type \in FrameTypes \ {"request"}, NEW n \in 0 .. MaxBody,
             ToHost(<<Frame(type, n)>>), upstream' = upstream
      PROVE  Refused'
    BY <1>2, <1>3, <1>4, FramesSent DEF ToHost, Frame
<1>5. CASE Browser \/ BrowserLeaves
  <2>1. uploaded' \in 0 .. MaxBody /\ 0 \in 0 .. MaxBody /\ upstream' = upstream
    <3>1. TypeOK'
      BY TypePreserved DEF TypeInv
    <3>2. upstream' = upstream
      BY <1>5 DEF Browser, Upload, UploadEnds, BrowserLeaves
    <3> QED
      BY <3>1, <3>2, ConstantsAssumption DEF TypeOK
  <2>2. \/ toHost' = toHost \/ toHost' = toHost \o <<>>
        \/ ToHost(<<Frame("abort", 0)>>) \/ ToHost(<<Frame("end", 0)>>)
        \/ ToHost(<<Frame("chunk", uploaded')>>)
    BY <1>5 DEF Browser, Upload, UploadEnds, BrowserLeaves, ToHost
  <2>3. toHost \o <<>> = toHost
    BY <1>1
  <2> QED
    BY <1>2, <1>4, <2>1, <2>2, <2>3 DEF FrameTypes
<1>6. CASE RelayReceives \/ TunnelCloses \/ RelayLosesTunnel \/ UNCHANGED vars
    BY <1>2, <1>6 DEF RelayReceives, TunnelCloses, RelayLosesTunnel, vars
<1>7. CASE HostReceives
  <2>1. toHost # <<>> /\ toHost' = Tail(toHost)
    BY <1>7 DEF HostReceives
  <2>2. /\ Head(toHost) = toHost[1] /\ 1 \in 1 .. Len(toHost)
        /\ \A i \in 1 .. Len(toHost') : i + 1 \in 1 .. Len(toHost) /\ toHost'[i] = toHost[i + 1]
    BY <1>1, <2>1
  <2>3. upstream' = upstream
    BY <1>1, <1>7, <2>2
       DEF HostReceives, OpenLocalRequest, BodyChunk, BodyEnd, DestroyUpstream, Refused
  <2> QED
    BY <2>2, <2>3 DEF Refused
<1>8. CASE HostLosesTunnel
    BY <1>1, <1>8 DEF HostLosesTunnel, DestroyUpstream, Refused
<1>9. CASE Local
    BY <1>1, <1>2, <1>9 DEF Local, LocalHead, LocalChunk, LocalEnds, LocalFails, Running
<1> QED
    BY <1>5, <1>6, <1>7, <1>8, <1>9 DEF Next, Relay, ForwardHttp, Terminated

\* A step that leaves the frames for the relay and what DSH and the browser made of the
\* response alone.
LEMMA AnswerIdle ==
    ASSUME AnswerInv, TypeInv', UploadInv', Begun', [Next]_vars,
           UNCHANGED <<got, toRelay, reply, sent, answer>>,
           exchange' = "attached" => exchange = "attached" /\ head' = head,
           RelayHears' => RelayHears,
           Delivered', CleanEndIsWhole'
    PROVE  AnswerInv'
<1> SUFFICES ASSUME exchange' = "attached" PROVE OnTheirWay' /\ UpToDate'
    BY DEF AnswerInv
<1>1. OnTheirWay /\ UpToDate /\ head' = head
    BY DEF AnswerInv
<1>2. Refused => Refused'
    BY RefusedStays DEF AnswerInv
<1>3. Opening' = Opening /\ \A i : Position(i)' = Position(i)
    BY DEF Opening, Position
<1>4. OnTheirWay'
    BY <1>1, <1>2, <1>3 DEF OnTheirWay
<1>5. UpToDate'
    BY <1>1, <1>2, <1>3 DEF UpToDate
<1> QED
    BY <1>4, <1>5

\* What a further frame of the host does to what the relay is going to read.
LEMMA AnswerAppended ==
    ASSUME TypeInv, NEW frame \in AnswerFrame, toRelay' = Append(toRelay, frame), got' = got
    PROVE  /\ Len(toRelay) \in Nat /\ Len(toRelay') = Len(toRelay) + 1
           /\ \A i \in 1 .. Len(toRelay) : toRelay'[i] = toRelay[i]
           /\ toRelay'[Len(toRelay) + 1] = frame
           /\ toRelay = <<>> /\ frame.type = "response" => Opening'
           /\ toRelay # <<>> \/ frame.type # "response" => (Opening' <=> Opening)
           /\ (Opening' <=> Opening) => \A i \in Int : Position(i)' = Position(i)
<1>1. /\ Len(toRelay) \in Nat /\ Len(toRelay') = Len(toRelay) + 1
      /\ \A i \in 1 .. Len(toRelay) : toRelay'[i] = toRelay[i]
      /\ toRelay'[Len(toRelay) + 1] = frame
      /\ toRelay' # <<>> /\ (toRelay = <<>> <=> Len(toRelay) = 0)
  <2>1. toRelay \in Seq(AnswerFrame)
    BY AnswerTypes
  <2> QED
    BY <2>1
<1>2. /\ toRelay = <<>> /\ frame.type = "response" => Opening'
      /\ toRelay # <<>> \/ frame.type # "response" => (Opening' <=> Opening)
  <2>1. CASE toRelay = <<>>
    BY <1>1, <2>1 DEF Opening
  <2>2. CASE toRelay # <<>>
    <3>1. 1 \in 1 .. Len(toRelay)
      BY <1>1, <2>2
    <3>2. toRelay'[1] = toRelay[1] /\ toRelay' # <<>>
      BY <1>1, <3>1
    <3>3. Opening' <=> Opening
      BY <2>2, <3>2 DEF Opening
    <3> QED
      BY <2>2, <3>3
  <2> QED
    BY <2>1, <2>2
<1>3. (Opening' <=> Opening) => \A i \in Int : Position(i)' = Position(i)
    BY DEF Position
<1> QED
    BY <1>1, <1>2, <1>3

\* The host sends a frame of a response that goes on until then, or refuses the request.
LEMMA AnswerSent ==
    ASSUME AnswerInv, TypeInv', UploadInv', Begun', Delivered', CleanEndIsWhole',
           UNCHANGED <<answer, relayVars, relaySock, hostSock>>,
           reply \in {"none", "head"}, ~Refused,
           NEW frame \in AnswerFrame, ToRelay(<<frame>>),
           \/ /\ frame.type = "response" /\ reply = "none" /\ reply' = "head"
              /\ sent' = sent /\ ~Refused'
           \/ /\ frame.type = "chunk" /\ frame.n = sent + 1 /\ reply = "head" /\ reply' = "head"
              /\ sent' = sent + 1 /\ ~Refused'
           \/ /\ frame.type = "end" /\ reply = "head" /\ reply' = "ended"
              /\ sent' = sent /\ sent = answer
           \/ /\ frame.type = "abort" /\ sent' = sent
              /\ reply' # "failed" => reply = "none" /\ reply' = "none" /\ Refused'
    PROVE  AnswerInv'
<1> SUFFICES ASSUME exchange' = "attached" PROVE OnTheirWay' /\ UpToDate'
    BY DEF AnswerInv
<1> USE DEF relayVars
<1>1. /\ toRelay \in Seq(AnswerFrame) /\ Len(toRelay) \in Nat /\ Len(got) \in Nat
      /\ sent \in Nat /\ answer \in Nat
    BY AnswerTypes DEF AnswerInv
<1>2. /\ OnTheirWay /\ UpToDate /\ got' = got /\ head' = head /\ answer' = answer
      /\ (RelayHears' <=> RelayHears) /\ (reply = "none" => head # "host" /\ sent = 0)
      /\ (got # <<>> => head = "host") /\ head # "page"
    BY DEF AnswerInv, RelayHears, Begun, Delivered
<1>3. \A i \in 1 .. Len(toRelay) : toRelay[i].type \in {"response", "chunk"}
  <2>1. \A i \in 1 .. Len(toRelay) : toRelay[i].type \in {"response", "end", "abort", "chunk"}
    BY AnswerTypes DEF AnswerInv
  <2> QED
    BY <1>2, <2>1 DEF OnTheirWay
<1>4. CASE ~RelayHears
  <2>1. toRelay' = toRelay
    BY <1>4 DEF ToRelay, RelayHears
  <2>2. (Opening' <=> Opening) /\ \A i \in Int : Position(i)' = Position(i)
    BY <1>2, <2>1 DEF Opening, Position
  <2>3. \A i \in Int : Position(i) <= sent => Position(i) <= sent'
    <3>1. \A i \in Int : Position(i) \in Int
      BY <1>1 DEF Position
    <3>2. sent \in Nat /\ (sent' = sent \/ sent' = sent + 1)
      BY <1>1
    <3> QED
      BY <3>1, <3>2
  <2>4. OnTheirWay'
    BY <1>2, <1>3, <2>1, <2>2, <2>3 DEF OnTheirWay
  <2>5. UpToDate'
    BY <1>2, <1>4 DEF UpToDate
  <2> QED
    BY <2>4, <2>5
<1>5. CASE RelayHears
  <2>1. toRelay' = Append(toRelay, frame)
    <3>1. toRelay \o <<frame>> = Append(toRelay, frame)
      BY <1>1
    <3> QED
      BY <1>5, <3>1 DEF ToRelay, RelayHears
  <2>0. PICK k \in Nat : k = Len(toRelay)
    BY <1>1
  <2>2. /\ Len(toRelay') = k + 1
        /\ \A i \in 1 .. k : toRelay'[i] = toRelay[i]
        /\ toRelay'[k + 1] = frame
        /\ toRelay = <<>> /\ frame.type = "response" => Opening'
        /\ toRelay # <<>> \/ frame.type # "response" => (Opening' <=> Opening)
        /\ (Opening' <=> Opening) => \A i \in Int : Position(i)' = Position(i)
    BY <1>2, <2>0, <2>1, AnswerAppended DEF AnswerInv
  <2>3. /\ Position(k) = sent
        /\ reply = "none" => toRelay = <<>>
        /\ reply = "head" => head = "host" \/ Opening
    BY <1>2, <1>5, <2>0 DEF UpToDate
  <2>4. CASE frame.type = "response"
    <3>1. toRelay = <<>> /\ head = "none" /\ got = <<>> /\ sent = 0 /\ k = 0
      BY <1>1, <1>2, <2>0, <2>3, <2>4, AnswerTypes DEF AnswerInv, TypeInv, TypeOK
    <3>2. /\ Len(toRelay') = 1 /\ toRelay'[1] = frame /\ Opening'
      BY <2>2, <2>4, <3>1
    <3>3. Position(1)' = 0
      BY <1>2, <3>1, <3>2 DEF Position
    <3>4. OnTheirWay'
      BY <1>2, <2>4, <3>1, <3>2 DEF OnTheirWay
    <3>5. UpToDate'
      BY <2>4, <3>1, <3>2, <3>3 DEF UpToDate
    <3> QED
      BY <3>4, <3>5
  <2>5. CASE frame.type # "response"
    <3>0. Opening' <=> Opening
      BY <2>2, <2>5
    <3>1. (Opening' <=> Opening) /\ \A i \in Int : Position(i)' = Position(i)
      BY <2>2, <3>0
    <3>2. Position(k + 1) = sent + 1 /\ \A i \in Int : Position(i) \in Int
      BY <1>1, <2>3 DEF Position
    <3>3. \A i \in 1 .. k : Position(i) <= sent' /\ i # k + 1
      <4>1. sent' \in Nat /\ sent <= sent'
        BY <1>1
      <4>2. \A i \in 1 .. k : Position(i) <= Position(k) /\ Position(i) \in Int
        BY <1>1 DEF Position
      <4> QED
        BY <1>1, <2>3, <4>1, <4>2
    <3>4. ASSUME NEW i \in 1 .. k
          PROVE  /\ toRelay'[i].type = "response" => i = 1 /\ head' = "none" /\ reply' # "none"
                 /\ toRelay'[i].type = "chunk" =>
                      /\ toRelay'[i].n = Position(i)' /\ Position(i)' <= sent'
                      /\ head' = "host" \/ Opening'
                 /\ toRelay'[i].type \in {"response", "chunk"}
      <4>1. toRelay'[i] = toRelay[i] /\ toRelay[i].type \in {"response", "chunk"}
        BY <1>3, <2>0, <2>2
      <4>2. /\ toRelay[i].type = "response" => i = 1 /\ head = "none" /\ reply # "none"
            /\ toRelay[i].type = "chunk" =>
                 /\ toRelay[i].n = Position(i)
                 /\ head = "host" \/ Opening
        BY <1>2, <2>0 DEF OnTheirWay
      <4>3. Position(i)' = Position(i) /\ Position(i) <= sent'
        BY <3>1, <3>3
      <4>4. reply # "none" => reply' # "none"
        BY <2>5
      <4> QED
        BY <1>2, <3>1, <4>1, <4>2, <4>3, <4>4
    <3>5. /\ toRelay'[k + 1].type = "chunk" =>
               /\ toRelay'[k + 1].n = Position(k + 1)' /\ Position(k + 1)' <= sent'
               /\ head' = "host" \/ Opening'
          /\ toRelay'[k + 1].type = "end" =>
               /\ reply' = "ended" /\ Position(k + 1)' = answer' + 1
               /\ head' = "host" \/ Opening'
          /\ toRelay'[k + 1].type = "abort" => reply' = "failed" \/ Refused'
          /\ toRelay'[k + 1].type # "response"
      <4>1. Position(k + 1)' = sent + 1 /\ toRelay'[k + 1] = frame
        BY <2>2, <3>1, <3>2
      <4>2. CASE frame.type = "chunk"
        BY <1>1, <1>2, <2>3, <3>1, <4>1, <4>2
      <4>3. CASE frame.type # "chunk"
        BY <1>1, <1>2, <2>3, <2>5, <3>1, <4>1, <4>3
      <4> QED
        BY <4>2, <4>3
    <3>6. Len(toRelay') = k + 1 /\ \A i \in 1 .. k + 1 : i \in 1 .. k \/ i = k + 1
      BY <2>2
    <3>7. OnTheirWay'
      BY <3>4, <3>5, <3>6 DEF OnTheirWay
    <3>8. UpToDate'
      <4> SUFFICES ASSUME reply' \in {"none", "head"}, ~Refused' PROVE UpToDate'
        BY DEF UpToDate
      <4>1. frame.type = "chunk" /\ reply' = "head" /\ sent' = sent + 1 /\ reply = "head"
        BY <2>5
      <4>2. Position(k + 1)' = sent'
        BY <3>1, <3>2, <4>1
      <4> QED
        BY <1>2, <2>2, <2>3, <3>1, <3>4, <3>6, <4>1, <4>2 DEF UpToDate
    <3> QED
      BY <3>7, <3>8
  <2> QED
    BY <2>4, <2>5
<1> QED
    BY <1>4, <1>5

\* The relay reads a frame of an exchange that it attached.
LEMMA AnswerReads ==
    ASSUME AnswerInv, RelayReceives, exchange = "attached"
    PROVE  /\ Delivered' /\ CleanEndIsWhole'
           /\ exchange' = "attached" => OnTheirWay' /\ UpToDate'
           /\ exchange' \in {"attached", "finished"}
           /\ exchange' = "attached" => ~ended' /\ head' # "page"
           /\ reply = "none" => head' # "host"
<1> DEFINE frame == toRelay[1]
<1>1. /\ toRelay \in Seq(AnswerFrame) /\ Len(toRelay) \in Nat
      /\ got \in Seq(1 .. MaxAnswer) /\ Len(got) \in Nat
      /\ sent \in Nat /\ answer \in Nat
      /\ \A i \in 1 .. Len(toRelay) : toRelay[i].type \in {"response", "end", "abort", "chunk"}
    BY AnswerTypes DEF AnswerInv
<1>2. /\ toRelay # <<>> /\ toRelay' = Tail(toRelay) /\ OnFrame(Head(toRelay))
      /\ UNCHANGED <<answer, sent, reply, relaySock, hostSock, toHost, upstream>>
    BY DEF RelayReceives, inputVars, hostVars, dshVars
<1>3. PICK k \in Nat : Len(toRelay) = k + 1 /\ Len(toRelay') = k
  <2>1. Len(toRelay) \in Nat \ {0} /\ Len(toRelay') = Len(toRelay) - 1
    BY <1>1, <1>2
  <2>2. Len(toRelay) - 1 \in Nat /\ Len(toRelay) = (Len(toRelay) - 1) + 1
    BY <2>1
  <2> QED
    BY <2>1, <2>2
<1>4. /\ \A i \in 1 .. k : toRelay'[i] = toRelay[i + 1] /\ i + 1 \in 1 .. k + 1
      /\ Head(toRelay) = frame /\ 1 \in 1 .. k + 1
    BY <1>1, <1>2, <1>3
<1>5. OnTheirWay /\ UpToDate /\ Delivered /\ ~ended /\ head \in {"none", "host"}
      /\ (reply = "none" => head # "host") /\ (upstream = "none" => reply = "none")
    BY DEF AnswerInv, Begun, TypeInv, TypeOK
<1>6. \A i \in 1 .. k + 1 :
          /\ toRelay[i].type = "response" => i = 1 /\ head = "none" /\ reply # "none"
          /\ toRelay[i].type = "chunk" =>
                toRelay[i].n = Position(i) /\ Position(i) <= sent /\ (head = "host" \/ Opening)
          /\ toRelay[i].type = "end" =>
                /\ i = k + 1 /\ reply = "ended" /\ Position(i) = answer + 1
                /\ head = "host" \/ Opening
          /\ toRelay[i].type = "abort" => i = k + 1 /\ (reply = "failed" \/ Refused)
    BY <1>3, <1>5 DEF OnTheirWay
<1>7. (RelayHears' <=> RelayHears) /\ (Refused' <=> Refused)
    BY <1>2 DEF RelayHears, Refused
<1>8. frame.type \in {"response", "end", "abort", "chunk"}
    BY <1>1, <1>3, <1>4
<1>9. ASSUME exchange' = "attached", head' = "host", Delivered',
             \A i \in Int : Position(i)' = Position(i + 1)
      PROVE  OnTheirWay' /\ UpToDate'
  <2>1. OnTheirWay'
    <3> SUFFICES ASSUME NEW i \in 1 .. k
                 PROVE  /\ toRelay'[i].type # "response"
                        /\ toRelay'[i].type = "chunk" =>
                              toRelay'[i].n = Position(i)' /\ Position(i)' <= sent'
                        /\ toRelay'[i].type = "end" =>
                              i = k /\ reply' = "ended" /\ Position(i)' = answer' + 1
                        /\ toRelay'[i].type = "abort" => i = k /\ (reply' = "failed" \/ Refused')
      BY <1>3, <1>9 DEF OnTheirWay
    <3>1. /\ toRelay'[i] = toRelay[i + 1] /\ i + 1 \in 1 .. k + 1 /\ i + 1 # 1
          /\ i + 1 = k + 1 => i = k
      BY <1>4
    <3>2. Position(i)' = Position(i + 1)
      BY <1>9
    <3> QED
      BY <1>2, <1>6, <1>7, <3>1, <3>2
  <2>2. UpToDate'
    <3> SUFFICES ASSUME RelayHears', reply' \in {"none", "head"}, ~Refused' PROVE UpToDate'
      BY DEF UpToDate
    <3>1. /\ \A i \in 1 .. k + 1 : toRelay[i].type \in {"response", "chunk"}
          /\ Position(k + 1) = sent
          /\ reply # "none"
      BY <1>2, <1>3, <1>5, <1>7 DEF UpToDate
    <3>2. \A i \in 1 .. k : toRelay'[i].type \in {"response", "chunk"}
      BY <1>4, <3>1
    <3>3. Position(k)' = sent'
      BY <1>2, <1>9, <3>1
    <3> QED
      BY <1>2, <1>3, <1>9, <3>1, <3>2, <3>3 DEF UpToDate
  <2> QED
    BY <2>1, <2>2
<1>10. CASE frame.type = "response"
  <2>1. /\ head = "none" /\ head' = "host" /\ got = <<>> /\ got' = got /\ Opening /\ ended' = ended
        /\ exchange' = "attached" /\ reply # "none"
    BY <1>2, <1>4, <1>5, <1>6, <1>10 DEF OnFrame, Delivered, Opening
  <2>2. ~Opening'
    <3> SUFFICES ASSUME Opening' PROVE FALSE
      OBVIOUS
    <3>1. k # 0
      BY <1>3 DEF Opening
    <3>2. 1 \in 1 .. k /\ 1 + 1 # 1
      BY <3>1
    <3> QED
      BY <1>4, <1>6, <3>2 DEF Opening
  <2>3. \A i \in Int : Position(i)' = Position(i + 1)
    BY <1>1, <2>1, <2>2 DEF Position
  <2>4. Delivered' /\ CleanEndIsWhole'
    BY <1>2, <1>5, <2>1 DEF Delivered, CleanEndIsWhole
  <2> QED
    BY <1>2, <1>5, <1>9, <2>1, <2>3, <2>4
<1>11. CASE frame.type = "chunk"
  <2>1. ~Opening /\ Position(1) = Len(got) + 1
    BY <1>1, <1>11 DEF Opening, Position
  <2>2. head = "host" /\ frame.n = Len(got) + 1 /\ Len(got) + 1 <= sent
    BY <1>4, <1>6, <1>11, <2>1
  <2>3. /\ head' = head /\ got' = Append(got, Len(got) + 1) /\ ended' = ended
        /\ exchange' = "attached"
    BY <1>2, <1>4, <1>5, <1>11, <2>2 DEF OnFrame
  <2>4. /\ Len(got') = Len(got) + 1
        /\ \A i \in 1 .. Len(got) : got'[i] = got[i]
        /\ got'[Len(got) + 1] = Len(got) + 1
    BY <1>1, <2>3
  <2>5. ~Opening'
    <3> SUFFICES ASSUME Opening' PROVE FALSE
      OBVIOUS
    <3>1. k # 0
      BY <1>3 DEF Opening
    <3>2. 1 \in 1 .. k /\ 1 + 1 # 1
      BY <3>1
    <3> QED
      BY <1>4, <1>6, <3>2 DEF Opening
  <2>6. \A i \in Int : Position(i)' = Position(i + 1)
    BY <1>1, <2>1, <2>4, <2>5 DEF Position
  <2>7. Delivered'
    <3>1. \A i \in 1 .. Len(got') : got'[i] = i
      BY <1>1, <1>5, <2>4 DEF Delivered
    <3>2. head' = "host" /\ Len(got') <= sent'
      BY <1>2, <2>2, <2>3, <2>4
    <3> QED
      BY <3>1, <3>2 DEF Delivered
  <2>8. CleanEndIsWhole'
    BY <1>5, <2>3 DEF CleanEndIsWhole
  <2> QED
    BY <1>2, <1>5, <1>9, <2>2, <2>3, <2>6, <2>7, <2>8
<1>12. CASE frame.type = "end"
  <2>1. UNCHANGED <<head, got>> /\ exchange' = "finished"
    BY <1>2, <1>4, <1>12 DEF OnFrame
  <2>2. ~Opening /\ Position(1) = Len(got) + 1
    BY <1>1, <1>12 DEF Opening, Position
  <2>3. Position(1) = answer + 1
    BY <1>4, <1>6, <1>12
  <2>4. Len(got) = answer
    BY <1>1, <2>2, <2>3
  <2> QED
    BY <1>2, <1>5, <2>1, <2>4 DEF Delivered, CleanEndIsWhole
<1>13. CASE frame.type = "abort"
  <2>1. got' = got /\ exchange' = "finished" /\ head' = IF head = "none" THEN "page" ELSE head
    BY <1>2, <1>4, <1>13 DEF OnFrame, ErrorPage
  <2>2. reply = "failed" \/ reply = "none"
    BY <1>4, <1>5, <1>6, <1>13 DEF Refused
  <2>3. Delivered'
    BY <1>2, <1>5, <2>1 DEF Delivered
  <2>4. CleanEndIsWhole'
    BY <1>2, <1>5, <2>1, <2>2 DEF CleanEndIsWhole
  <2> QED
    BY <1>5, <2>1, <2>3, <2>4
<1> QED
    BY <1>8, <1>10, <1>11, <1>12, <1>13

\* Before the relay attaches the exchange nothing has happened.
LEMMA BegunPreserved == AnswerInv /\ [Next]_vars => Begun'
<1> SUFFICES ASSUME AnswerInv, [Next]_vars PROVE Begun'
    OBVIOUS
<1> USE DEF inputVars, browserVars, relayVars, tunnelVars, hostVars, dshVars
<1>1. /\ Begun /\ entry \in BOOLEAN /\ head \in {"none", "host", "page"}
      /\ (exchange = "attached" => head \in {"none", "host"})
    BY DEF AnswerInv, TypeInv, TypeOK, Begun
<1>2. CASE ForwardHttp
    BY <1>1, <1>2 DEF ForwardHttp, ErrorPage, Begun
<1>3. CASE Browser
  <2>1. CASE Upload
    BY <1>1, <2>1 DEF Upload, ErrorPage, Begun, Listening
  <2>2. CASE UploadEnds
    BY <1>1, <2>2 DEF UploadEnds, Begun, Listening
  <2> QED
    BY <1>3, <2>1, <2>2 DEF Browser
<1>4. CASE BrowserLeaves
    BY <1>1, <1>4 DEF BrowserLeaves, Begun
<1>5. CASE TunnelCloses
    BY <1>1, <1>5 DEF TunnelCloses, Begun
<1>6. CASE RelayLosesTunnel
    BY <1>1, <1>6 DEF RelayLosesTunnel, ErrorPage, Begun
<1>7. CASE RelayReceives
  <2>1. /\ UNCHANGED <<hostVars, dshVars, relaySock>>
        /\ exchange # "new" /\ (exchange # "attached" => UNCHANGED relayVars)
    BY <1>1, <1>7 DEF RelayReceives, Begun
  <2>2. CASE exchange = "attached"
    BY <1>1, <1>7, <2>1, <2>2, AnswerReads DEF Begun
  <2>3. CASE exchange # "attached"
    BY <1>1, <2>1, <2>3 DEF Begun
  <2> QED
    BY <2>2, <2>3
<1>8. CASE HostReceives
  <2>1. /\ UNCHANGED <<relayVars, relaySock, dshVars>> /\ exchange # "new"
        /\ upstream' = "none" => upstream = "none"
    BY <1>1, <1>8 DEF HostReceives, OpenLocalRequest, BodyChunk, BodyEnd, DestroyUpstream, Begun
  <2>2. upstream' = "none" => ~entry'
    BY <1>1, <1>8 DEF HostReceives, OpenLocalRequest, BodyChunk, BodyEnd, DestroyUpstream, Begun
  <2> QED
    BY <1>1, <2>1, <2>2 DEF Begun
<1>9. CASE HostLosesTunnel
    BY <1>1, <1>9 DEF HostLosesTunnel, DestroyUpstream, Begun
<1>10. CASE Local
  <2>1. upstream # "none" /\ reply \in {"none", "head"} /\ exchange # "new"
    BY <1>1, <1>10 DEF Local, LocalHead, LocalChunk, LocalEnds, LocalFails, Running, Begun
  <2>2. UNCHANGED <<relayVars, relaySock>> /\ upstream' # "none" /\ reply' # "none"
    BY <1>10, <2>1 DEF Local, LocalHead, LocalChunk, LocalEnds, LocalFails
  <2> QED
    BY <1>1, <2>1, <2>2 DEF Begun
<1>11. CASE UNCHANGED vars
    BY <1>1, <1>11 DEF vars, Begun
<1> QED
    BY <1>2, <1>3, <1>4, <1>5, <1>6, <1>7, <1>8, <1>9, <1>10, <1>11 DEF Next, Relay, Terminated

\* What the browser got is right, and what it got to the end is whole, if that was so
\* before and the step is not the relay's that reads a frame.
LEMMA DeliveredPreserved ==
    ASSUME AnswerInv, got' = got, answer' = answer, sent \in Nat, sent' \in {sent, sent + 1},
           head' # head => head = "none" /\ head' = "page",
           ended' => ended \/ head' = "page" \/ relaySock' = "lost",
           reply = "failed" => reply' = "failed",
           relaySock = "lost" => relaySock' = "lost"
    PROVE  Delivered' /\ CleanEndIsWhole'
<1>1. Len(got) \in Nat /\ sent <= sent' /\ sent' \in Nat
    BY AnswerTypes DEF AnswerInv
<1>2. Len(got) <= sent' /\ \A i \in 1 .. Len(got) : got[i] = i
    BY <1>1 DEF AnswerInv, Delivered
<1>3. Delivered'
    BY <1>2 DEF AnswerInv, Delivered
<1>4. CleanEndIsWhole'
    BY DEF AnswerInv, CleanEndIsWhole
<1> QED
    BY <1>3, <1>4

\* Every step keeps the response whole and in order.
LEMMA AnswerPreserved == AnswerInv /\ [Next]_vars => AnswerInv'
<1> SUFFICES ASSUME AnswerInv, [Next]_vars PROVE AnswerInv'
    OBVIOUS
<1> USE DEF inputVars, browserVars, relayVars, tunnelVars, hostVars, dshVars
<1>1. TypeInv' /\ UploadInv' /\ Begun'
    BY TypePreserved, UploadPreserved, BegunPreserved DEF AnswerInv
<1>2. Begun /\ sent \in Nat /\ toRelay \in Seq(AnswerFrame)
    BY AnswerTypes DEF AnswerInv
<1>3. ASSUME UNCHANGED <<got, answer, toRelay, reply, sent>>,
             head' # head => head = "none" /\ head' = "page" /\ exchange' # "attached",
             ended' => ended \/ head' = "page" \/ relaySock' = "lost",
             relaySock = "lost" => relaySock' = "lost",
             exchange' = "attached" => exchange = "attached",
             hostSock' = "open" => hostSock = "open"
      PROVE  AnswerInv'
  <2>1. Delivered' /\ CleanEndIsWhole'
    BY <1>2, <1>3, DeliveredPreserved
  <2>2. RelayHears' => RelayHears
    BY <1>3 DEF RelayHears
  <2> QED
    BY <1>1, <1>3, <2>1, <2>2, AnswerIdle
<1>4. CASE ForwardHttp
  <2>1. exchange = "new" /\ toRelay = <<>> /\ toRelay' = <<>> /\ head = "none" /\ ~ended
        /\ UNCHANGED <<got, answer, sent, reply, relaySock>> /\ reply = "none" /\ sent = 0
    BY <1>2, <1>4 DEF ForwardHttp, Begun
  <2>2. Delivered' /\ CleanEndIsWhole'
    BY <1>2, <1>4, <2>1, DeliveredPreserved DEF ForwardHttp, ErrorPage
  <2>3. OnTheirWay'
    BY <2>1 DEF OnTheirWay
  <2>4. UpToDate'
    <3>1. got' = <<>>
      BY <2>1 DEF AnswerInv, Delivered
    <3>2. Len(toRelay') = 0 /\ Len(got') = 0 /\ ~Opening'
      BY <2>1, <3>1 DEF Opening
    <3> QED
      BY <2>1, <3>2 DEF UpToDate, Position
  <2> QED
    BY <1>1, <2>2, <2>3, <2>4 DEF AnswerInv
<1>5. CASE Upload
  <2>1. exchange' = exchange \/ exchange' = "finished"
    BY <1>5 DEF Upload
  <2>2. /\ head' # head => head = "none" /\ head' = "page" /\ exchange' = "finished"
        /\ ended' => ended \/ head' = "page"
    BY <1>5 DEF Upload, ErrorPage
  <2> QED
    BY <1>3, <1>5, <2>1, <2>2 DEF Upload
<1>6. CASE UploadEnds
    BY <1>3, <1>6 DEF UploadEnds
<1>7. CASE BrowserLeaves
    BY <1>3, <1>7 DEF BrowserLeaves
<1>8. CASE TunnelCloses
    BY <1>3, <1>8 DEF TunnelCloses
<1>9. CASE RelayLosesTunnel
  <2>1. /\ UNCHANGED <<got, answer, sent, reply>> /\ relaySock' = "lost"
        /\ exchange' # "attached"
        /\ head' # head => head = "none" /\ head' = "page"
    BY <1>9 DEF RelayLosesTunnel, ErrorPage
  <2>2. Delivered' /\ CleanEndIsWhole'
    BY <1>2, <2>1, DeliveredPreserved
  <2> QED
    BY <1>1, <2>1, <2>2 DEF AnswerInv
<1>10. CASE RelayReceives
  <2>1. CASE exchange = "attached"
    BY <1>1, <1>10, <2>1, AnswerReads DEF AnswerInv
  <2>2. CASE exchange # "attached"
    <3>1. UNCHANGED <<got, answer, sent, reply, relaySock, head, ended, exchange>>
      BY <1>10, <2>2 DEF RelayReceives
    <3>2. Delivered' /\ CleanEndIsWhole'
      BY <1>2, <3>1, DeliveredPreserved
    <3> QED
      BY <1>1, <2>2, <3>1, <3>2 DEF AnswerInv
  <2> QED
    BY <2>1, <2>2
<1>11. CASE HostLosesTunnel
    BY <1>3, <1>11 DEF HostLosesTunnel
<1>12. CASE HostReceives
  <2>1. /\ UNCHANGED <<relayVars, relaySock, hostSock, reply, sent, answer>>
        /\ toHost # <<>> /\ exchange # "new"
    BY <1>2, <1>12 DEF HostReceives, Begun
  <2>2. Delivered' /\ CleanEndIsWhole'
    BY <1>2, <2>1, DeliveredPreserved
  <2>3. CASE toRelay' = toRelay
    BY <1>3, <2>1, <2>3
  <2>4. CASE Head(toHost).type = "request" /\ ToRelay(<<Frame("abort", 0)>>) /\ UNCHANGED hostVars
    <3>1. Head(toHost) = toHost[1] /\ 1 \in 1 .. Len(toHost)
      BY <2>1, AnswerTypes DEF AnswerInv
    <3>2. upstream = "none" /\ ~Refused /\ reply = "none"
      BY <1>2, <2>4, <3>1 DEF AnswerInv, UploadInv, RequestFirst, Refused, Begun
    <3>3. Refused'
      <4>1. /\ toHost' = Tail(toHost) /\ upstream' = "none"
            /\ toHost \in Seq(Frames)
        BY <1>12, <2>4, <3>2, AnswerTypes DEF HostReceives, AnswerInv
      <4>2. /\ Len(toHost') = Len(toHost) - 1 /\ Len(toHost) \in Nat
            /\ \A i \in 1 .. Len(toHost') : toHost'[i] = toHost[i + 1]
        BY <2>1, <4>1
      <4>3. \A i \in 1 .. Len(toHost') : toHost'[i].type # "request"
        BY <4>2 DEF AnswerInv, UploadInv, RequestFirst
      <4> QED
        BY <4>1, <4>3 DEF Refused
    <3>4. Frame("abort", 0) \in AnswerFrame /\ Frame("abort", 0).type = "abort"
      BY FramesSent DEF Frame
    <3> QED
      BY <1>1, <2>1, <2>2, <2>4, <3>2, <3>3, <3>4, AnswerSent
  <2>5. CASE Head(toHost).type = "chunk" /\ BodyChunk
    <3>1. ~(received' > Limit)
      BY <1>1, ConstantsAssumption DEF TypeInv, TypeOK
    <3>2. toRelay' = toRelay
      BY <2>5, <3>1 DEF BodyChunk
    <3> QED
      BY <2>3, <3>2
  <2> QED
    BY <1>12, <2>3, <2>4, <2>5 DEF HostReceives, OpenLocalRequest, BodyEnd
<1>13. CASE Local
  <2>1. /\ UNCHANGED <<relayVars, relaySock, hostSock, answer, toHost>>
        /\ upstream # "none" /\ upstream' # "none" /\ reply \in {"none", "head"}
        /\ sent' \in {sent, sent + 1}
    BY <1>13 DEF Local, LocalHead, LocalChunk, LocalEnds, LocalFails, Running
  <2>2. Delivered' /\ CleanEndIsWhole'
    BY <1>2, <2>1, DeliveredPreserved
  <2>3. ~Refused /\ ~Refused'
    BY <2>1 DEF Refused
  <2>4. CASE LocalHead
    <3>1. Frame("response", 0) \in AnswerFrame /\ Frame("response", 0).type = "response"
      BY FramesSent DEF Frame
    <3> QED
      BY <1>1, <2>1, <2>2, <2>3, <2>4, <3>1, AnswerSent DEF LocalHead
  <2>5. CASE LocalChunk
    <3>1. sent' = sent + 1 /\ sent' \in 1 .. MaxAnswer
      BY <1>1, <1>2, <2>5, ConstantsAssumption DEF LocalChunk, TypeInv, TypeOK
    <3>2. /\ Frame("chunk", sent + 1) \in AnswerFrame
          /\ Frame("chunk", sent + 1).type = "chunk" /\ Frame("chunk", sent + 1).n = sent + 1
      BY <3>1, FramesSent DEF Frame
    <3> QED
      BY <1>1, <2>1, <2>2, <2>3, <2>5, <3>1, <3>2, AnswerSent DEF LocalChunk
  <2>6. CASE LocalEnds
    <3>1. Frame("end", 0) \in AnswerFrame /\ Frame("end", 0).type = "end"
      BY FramesSent DEF Frame
    <3> QED
      BY <1>1, <2>1, <2>2, <2>3, <2>6, <3>1, AnswerSent DEF LocalEnds
  <2>7. CASE LocalFails
    <3>1. Frame("abort", 0) \in AnswerFrame /\ Frame("abort", 0).type = "abort"
      BY FramesSent DEF Frame
    <3>2. reply' = "failed" /\ sent' = sent /\ ToRelay(<<Frame("abort", 0)>>)
      BY <2>7 DEF LocalFails
    <3> QED
      BY <1>1, <2>1, <2>2, <2>3, <3>1, <3>2, AnswerSent
  <2> QED
    BY <1>13, <2>4, <2>5, <2>6, <2>7 DEF Local
<1>14. CASE UNCHANGED vars
    BY <1>3, <1>14 DEF vars
<1> QED
    BY <1>4, <1>5, <1>6, <1>7, <1>8, <1>9, <1>10, <1>11, <1>12, <1>13, <1>14
       DEF Next, Relay, Browser, Terminated

LEMMA AnswerInit == Init => AnswerInv
<1> SUFFICES ASSUME Init PROVE AnswerInv
    OBVIOUS
<1>1. TypeInv /\ UploadInv
    BY TypeInit, UploadInit
<1>2. exchange = "new" /\ got = <<>> /\ Len(got) = 0 /\ sent = 0 /\ head = "none" /\ ~ended
    BY DEF Init
<1>3. Begun /\ Delivered /\ CleanEndIsWhole
    BY <1>2 DEF Init, Begun, Delivered, CleanEndIsWhole
<1> QED
    BY <1>1, <1>2, <1>3 DEF AnswerInv

\* The browser gets what DSH sent, in order, or a page of the relay's and nothing of
\* DSH's, whatever is lost and whoever leaves (forwardHttp, #openLocalRequest).
THEOREM AnswerInOrder == Spec => []AnswerIsPrefix
<1>1. AnswerInv => AnswerIsPrefix
  <2> SUFFICES ASSUME AnswerInv PROVE AnswerIsPrefix
    OBVIOUS
  <2> DEFINE all == [i \in 1 .. sent |-> i]
  <2>1. sent \in Nat /\ got \in Seq(1 .. MaxAnswer) /\ Len(got) \in Nat
    BY AnswerTypes DEF AnswerInv
  <2>2. all \in Seq(Nat) /\ Len(all) = sent /\ \A i \in 1 .. sent : all[i] = i
    BY <2>1
  <2>3. Len(got) <= Len(all) /\ \A i \in 1 .. Len(got) : got[i] = all[i]
    BY <2>1, <2>2 DEF AnswerInv, Delivered
  <2> HIDE DEF all
  <2>4. IsPrefix(got, all)
    BY <2>1, <2>2, <2>3 DEF IsPrefix
  <2> QED
    BY <2>4 DEF AnswerIsPrefix, AnswerInv, Delivered, all
<1> QED
    BY <1>1, AnswerInit, AnswerPreserved, PTL DEF Spec

\* A response that the relay ends as DSH's own is the whole of it, unless DSH or the
\* tunnel failed meanwhile.
THEOREM EndsWhole == Spec => []CleanEndIsWhole
<1>1. AnswerInv => CleanEndIsWhole
    BY DEF AnswerInv
<1> QED
    BY <1>1, AnswerInit, AnswerPreserved, PTL DEF Spec

-----------------------------------------------------------------------------
(* The exchange is an AnswerStream.                                        *)

\* An end has a head before it, and DSH sends no more than it has.
Closed == (ended => head # "none") /\ sent <= answer

\* The inductive invariant of the refinement.
StreamInv == AnswerInv /\ Closed

LEMMA StreamInit == Init => StreamInv /\ Stream!Init
<1> SUFFICES ASSUME Init PROVE StreamInv /\ Stream!Init
    OBVIOUS
<1>1. sent <= answer
    BY ConstantsAssumption DEF Init
<1>2. relaySock # "lost"
    BY DEF Init
<1> QED
    BY <1>1, <1>2, AnswerInit DEF Init, StreamInv, Closed, Stream!Init

\* DSH and the tunnel make no other steps than an AnswerStream's source.
LEMMA StreamSource ==
    ASSUME StreamInv, [Next]_vars
    PROVE  Stream!Source /\ sent' <= answer'
<1> USE DEF inputVars, browserVars, relayVars, tunnelVars, hostVars, dshVars
<1>1. relaySock = "lost" => relaySock' = "lost"
    BY DEF Next, Relay, Browser, ForwardHttp, RelayReceives, Upload, UploadEnds, BrowserLeaves,
           TunnelCloses, RelayLosesTunnel, HostReceives, HostLosesTunnel, Local, LocalHead,
           LocalChunk, LocalEnds, LocalFails, Terminated, vars
<1>2. sent <= answer /\ sent \in Nat /\ answer \in Nat
    BY AnswerTypes DEF StreamInv, AnswerInv, Closed
<1>3. CASE Local
  <2>1. answer' = answer
    BY <1>3 DEF Local, LocalHead, LocalChunk, LocalEnds, LocalFails
  <2>2. CASE LocalHead
    BY <1>1, <1>2, <2>1, <2>2 DEF LocalHead, Stream!Source
  <2>3. CASE LocalChunk
    BY <1>1, <1>2, <2>1, <2>3 DEF LocalChunk, Stream!Source
  <2>4. CASE LocalEnds
    BY <1>1, <1>2, <2>1, <2>4 DEF LocalEnds, Stream!Source
  <2>5. CASE LocalFails
    BY <1>1, <1>2, <2>1, <2>5 DEF LocalFails, Stream!Source
  <2> QED
    BY <1>3, <2>2, <2>3, <2>4, <2>5 DEF Local
<1>4. CASE UNCHANGED <<dshVars, answer>>
    BY <1>1, <1>2, <1>4 DEF Stream!Source
<1>5. Local \/ UNCHANGED <<dshVars, answer>>
    BY DEF Next, Relay, Browser, ForwardHttp, RelayReceives, Upload, UploadEnds, BrowserLeaves,
           TunnelCloses, RelayLosesTunnel, HostReceives, HostLosesTunnel, Terminated, vars
<1> QED
    BY <1>3, <1>4, <1>5

\* A frame that the relay reads while the exchange is attached is a step at the browser.
LEMMA StreamReads ==
    ASSUME StreamInv, RelayReceives, exchange = "attached"
    PROVE  Stream!Browser
<1> DEFINE frame == toRelay[1]
<1>1. /\ toRelay \in Seq(AnswerFrame) /\ toRelay # <<>>
      /\ Head(toRelay) = frame /\ 1 \in 1 .. Len(toRelay)
      /\ frame.type \in {"response", "end", "abort", "chunk"}
  <2>1. toRelay \in Seq(AnswerFrame) /\ toRelay # <<>>
    BY AnswerTypes DEF StreamInv, AnswerInv, RelayReceives
  <2>2. Head(toRelay) = frame /\ 1 \in 1 .. Len(toRelay)
    BY <2>1
  <2> QED
    BY <2>1, <2>2, AnswerTypes DEF StreamInv, AnswerInv
<1>2. /\ ~ended /\ head \in {"none", "host"} /\ (reply = "none" => head # "host")
      /\ (upstream = "none" => reply = "none")
      /\ Len(got) <= sent /\ sent <= answer
      /\ Len(got) \in Nat /\ sent \in Nat /\ answer \in Nat
    BY AnswerTypes DEF StreamInv, AnswerInv, Closed, Begun, Delivered, TypeInv, TypeOK
<1>3. OnFrame(frame)
    BY <1>1 DEF RelayReceives
<1>4. /\ frame.type = "response" => head = "none" /\ reply # "none"
      /\ frame.type = "chunk" =>
            frame.n = Position(1) /\ Position(1) <= sent /\ (head = "host" \/ Opening)
      /\ frame.type = "end" =>
            reply = "ended" /\ Position(1) = answer + 1 /\ (head = "host" \/ Opening)
      /\ frame.type = "abort" => reply = "failed" \/ Refused
    BY <1>1 DEF StreamInv, AnswerInv, OnTheirWay
<1>5. frame.type # "response" => ~Opening /\ Position(1) = Len(got) + 1
    BY <1>1, <1>2 DEF Opening, Position
<1> HIDE DEF frame
<1>6. CASE frame.type = "response"
    BY <1>2, <1>3, <1>4, <1>6 DEF OnFrame, Stream!Browser, Stream!Begin
<1>7. CASE frame.type = "chunk"
  <2>1. head = "host" /\ Len(got) < sent /\ frame.n = Len(got) + 1
    BY <1>2, <1>4, <1>5, <1>7
  <2> QED
    BY <1>2, <1>3, <1>7, <2>1 DEF OnFrame, Stream!Browser, Stream!Read
<1>8. CASE frame.type = "end"
  <2>1. head = "host" /\ reply = "ended" /\ Len(got) = sent
    BY <1>2, <1>4, <1>5, <1>8
  <2> QED
    BY <1>2, <1>3, <1>8, <2>1 DEF OnFrame, Stream!Browser, Stream!End
<1>9. CASE frame.type = "abort"
  <2>1. head = "host" => reply = "failed"
    BY <1>2, <1>4, <1>9 DEF Refused
  <2> QED
    BY <1>2, <1>3, <1>9, <2>1
       DEF OnFrame, ErrorPage, Stream!Browser, Stream!End, Stream!Page
<1> QED
    BY <1>1, <1>6, <1>7, <1>8, <1>9

\* No step gives the browser anything else than an AnswerStream does.
LEMMA StreamBrowser ==
    ASSUME StreamInv, [Next]_vars
    PROVE  Stream!Browser \/ UNCHANGED <<head, got, ended>>
<1> USE DEF inputVars, browserVars, relayVars, tunnelVars, hostVars, dshVars
<1>1. /\ Begun /\ Closed /\ ended \in BOOLEAN /\ head \in {"none", "host", "page"}
    BY DEF StreamInv, AnswerInv, TypeInv, TypeOK
<1>2. CASE ForwardHttp
    BY <1>1, <1>2
       DEF ForwardHttp, ErrorPage, Begun, Stream!Browser, Stream!Page
<1>3. CASE Upload
    BY <1>1, <1>3
       DEF Upload, ErrorPage, Closed, Stream!Browser, Stream!Page
<1>4. CASE RelayLosesTunnel
    BY <1>1, <1>4
       DEF RelayLosesTunnel, ErrorPage, Begun, Stream!Browser, Stream!End, Stream!Page
<1>5. CASE RelayReceives
    BY <1>5, StreamReads DEF RelayReceives
<1> QED
    BY <1>2, <1>3, <1>4, <1>5
       DEF Next, Relay, Browser, UploadEnds, BrowserLeaves, TunnelCloses, HostReceives,
           HostLosesTunnel, Local, LocalHead, LocalChunk, LocalEnds, LocalFails, Terminated, vars

LEMMA StreamPreserved ==
    StreamInv /\ [Next]_vars => StreamInv' /\ Stream!Next
<1> SUFFICES ASSUME StreamInv, [Next]_vars PROVE StreamInv' /\ Stream!Next
    OBVIOUS
<1>1. Stream!Source /\ sent' <= answer'
    BY StreamSource
<1>2. Stream!Browser \/ UNCHANGED <<head, got, ended>>
    BY StreamBrowser
<1>3. ended' => head' # "none"
    BY <1>2 DEF StreamInv, Closed, Stream!Browser, Stream!Begin, Stream!Read, Stream!End,
                Stream!Page
<1>4. AnswerInv'
    BY AnswerPreserved DEF StreamInv
<1> QED
    BY <1>1, <1>2, <1>3, <1>4 DEF StreamInv, Closed, Stream!Next, Stream!browserVars

\* An exchange implements AnswerStream: the browser gets DSH's response from its head on,
\* in order and to an end behind which there is nothing, or a page of the relay's instead
\* (forwardHttp).
THEOREM Refinement == Spec => AnswerIsStream
<1>1. Init => StreamInv /\ Stream!Init
    BY StreamInit
<1>2. StreamInv /\ [Next]_vars
      => StreamInv' /\ [Stream!Next]_<<Stream!sourceVars, Stream!browserVars>>
    BY StreamPreserved
<1> QED
    BY <1>1, <1>2, PTL DEF Spec, AnswerIsStream, Stream!Spec
=============================================================================
