------------------------ MODULE ProxySocketProofs ------------------------
(***************************************************************************)
(* Theorems about ProxySocket.                                             *)
(***************************************************************************)
EXTENDS ProxySocket, TLAPS

\* A connecting or open socket to DSH can be closed by its id (#openLocalSocket,
\* #handleFrame), for any number of messages.
THEOREM Tracked == Spec => []RunningIsTracked
<1>1. Init => RunningIsTracked
    BY DEF Init, RunningIsTracked
<1>2. RunningIsTracked /\ [Next]_vars => RunningIsTracked'
  <2> SUFFICES ASSUME RunningIsTracked, [Next]_vars PROVE RunningIsTracked'
    OBVIOUS
  <2> USE DEF RunningIsTracked
  <2>1. CASE UNCHANGED <<localSock, tracked>>
    BY <2>1
  <2>2. CASE ProxyClientSocket \/ BrowserSends \/ BrowserFails
    BY <2>1, <2>2 DEF ProxyClientSocket, BrowserSends, BrowserFails, hostVars
  <2>3. CASE RelayReceives \/ TunnelCloses \/ RelayLosesTunnel
    BY <2>1, <2>3 DEF RelayReceives, TunnelCloses, RelayLosesTunnel, hostVars
  <2>4. ASSUME NEW code \in EndCodes, BrowserCloses(code) PROVE RunningIsTracked'
    BY <2>1, <2>4 DEF BrowserCloses, hostVars
  <2>5. ASSUME NEW code \in EndCodes, LocalCloses(code) PROVE RunningIsTracked'
    BY <2>5 DEF LocalCloses
  <2>6. CASE HostReceives
    BY <2>6 DEF HostReceives, OpenLocalSocket, MessageForLocal, CloseForLocal, CloseLocalSocket
  <2>7. CASE HostLosesTunnel
    BY <2>7 DEF HostLosesTunnel, CloseLocalSocket
  <2>8. CASE LocalOpens \/ LocalSends \/ LocalFails
    BY <2>8 DEF LocalOpens, LocalSends, LocalFails
  <2>9. CASE UNCHANGED vars
    BY <2>1, <2>9 DEF vars, hostVars
  <2> QED
    BY <2>2, <2>3, <2>4, <2>5, <2>6, <2>7, <2>8, <2>9 DEF Next, Terminated
<1> QED
    BY <1>1, <1>2, PTL DEF Spec

\* What a tunnel carries stays what it is, whether or not it takes one more frame.
LEMMA Carried ==
    ASSUME TypeOK
    PROVE  /\ \A frame \in Frames("open", MaxUp) :
                 ToHost(frame) => toHost' \in Seq(Frames("open", MaxUp))
           /\ \A frame \in Frames("ack", MaxDown) :
                 ToRelay(frame) => toRelay' \in Seq(Frames("ack", MaxDown))
<1>1. toHost \in Seq(Frames("open", MaxUp)) /\ toRelay \in Seq(Frames("ack", MaxDown))
    BY DEF TypeOK
<1>2. \A frame \in Frames("open", MaxUp) : Append(toHost, frame) \in Seq(Frames("open", MaxUp))
    BY <1>1
<1>3. \A frame \in Frames("ack", MaxDown) :
        Append(toRelay, frame) \in Seq(Frames("ack", MaxDown))
    BY <1>1
<1> QED
    BY <1>1, <1>2, <1>3 DEF ToHost, ToRelay

\* Every frame that an end sends is one that the other can read.
LEMMA FramesSent ==
    /\ \A n \in 1 .. MaxUp : Frame("message", n) \in Frames("open", MaxUp)
    /\ \A n \in 1 .. MaxDown : Frame("message", n) \in Frames("ack", MaxDown)
    /\ \A code \in Codes : /\ Frame("close", code) \in Frames("open", MaxUp)
                           /\ Frame("close", code) \in Frames("ack", MaxDown)
    /\ Frame("open", 0) \in Frames("open", MaxUp)
    /\ Frame("ack", 0) \in Frames("ack", MaxDown)
BY DEF Frame, Frames

\* A channel that is lost carries nothing.
LEMMA Empty ==
    /\ <<>> \in Seq(Frames("open", MaxUp)) /\ <<>> \in Seq(Frames("ack", MaxDown))
    /\ <<>> \in Seq(1 .. MaxUp) /\ <<>> \in Seq(1 .. MaxDown)
OBVIOUS

\* A message read from the tunnel has the number of one that was sent.
LEMMA MessagesRead ==
    /\ \A frame \in Frames("open", MaxUp) : frame.type = "message" => frame.arg \in 1 .. MaxUp
    /\ \A frame \in Frames("ack", MaxDown) : frame.type = "message" => frame.arg \in 1 .. MaxDown
BY DEF Frames

\* The steps of the relay keep the type.
LEMMA RelayTypes ==
    ASSUME TypeOK,
           \/ ProxyClientSocket \/ BrowserSends \/ BrowserFails
           \/ \E code \in EndCodes : BrowserCloses(code)
           \/ RelayReceives \/ TunnelCloses \/ RelayLosesTunnel
    PROVE  TypeOK'
<1> USE ConstantsAssumption DEF hostVars, relayVars
<1>1. CASE ProxyClientSocket
    BY <1>1, Carried, FramesSent DEF ProxyClientSocket, TypeOK
<1>2. CASE BrowserSends
  <2>1. up' \in 1 .. MaxUp
    BY <1>2 DEF BrowserSends, TypeOK
  <2>2. toHost' \in Seq(Frames("open", MaxUp))
    BY <1>2, <2>1, Carried, FramesSent DEF BrowserSends
  <2> QED
    BY <1>2, <2>1, <2>2 DEF BrowserSends, TypeOK
<1>3. CASE BrowserFails
    BY <1>3, Carried, FramesSent DEF BrowserFails, TypeOK, Codes
<1>4. ASSUME NEW code \in EndCodes, BrowserCloses(code) PROVE TypeOK'
  <2>1. toHost' \in Seq(Frames("open", MaxUp))
    BY <1>4, Carried, FramesSent DEF BrowserCloses, TypeOK, EndCodes, Codes
  <2> QED
    BY <1>4, <2>1 DEF BrowserCloses, TypeOK
<1>5. CASE RelayReceives
  <2>1. /\ Head(toRelay) \in Frames("ack", MaxDown)
        /\ Tail(toRelay) \in Seq(Frames("ack", MaxDown))
    BY <1>5 DEF RelayReceives, TypeOK
  <2>2. CASE UNCHANGED relayVars
    BY <1>5, <2>1, <2>2 DEF RelayReceives, TypeOK
  <2>3. CASE OnFrame(Head(toRelay))
    <3>1. Head(toRelay).type = "message" => Head(toRelay).arg \in 1 .. MaxDown
      BY <2>1, MessagesRead
    <3>2. \A n \in 1 .. MaxDown : Append(down, n) \in Seq(1 .. MaxDown)
      BY DEF TypeOK
    <3>3. \/ down' = down
          \/ Head(toRelay).type = "message" /\ down' = Append(down, Head(toRelay).arg)
      BY <2>3 DEF OnFrame
    <3>4. down' \in Seq(1 .. MaxDown)
      BY <3>1, <3>2, <3>3 DEF TypeOK
    <3> QED
      BY <1>5, <2>1, <2>3, <3>4 DEF RelayReceives, OnFrame, CloseBrowserSocket, TypeOK
  <2> QED
    BY <1>5, <2>2, <2>3 DEF RelayReceives
<1>6. CASE TunnelCloses
    BY <1>6 DEF TunnelCloses, TypeOK
<1>7. CASE RelayLosesTunnel
    BY <1>7, Empty DEF RelayLosesTunnel, CloseBrowserSocket, TypeOK
<1> QED
    BY <1>1, <1>2, <1>3, <1>4, <1>5, <1>6, <1>7

\* The steps of the host keep the type.
LEMMA HostTypes ==
    ASSUME TypeOK,
           \/ HostReceives \/ LocalOpens \/ LocalSends \/ LocalFails \/ HostLosesTunnel
           \/ \E code \in EndCodes : LocalCloses(code)
    PROVE  TypeOK'
<1> USE ConstantsAssumption DEF hostVars, relayVars
<1>1. CASE HostReceives
  <2>1. /\ Head(toHost) \in Frames("open", MaxUp)
        /\ Tail(toHost) \in Seq(Frames("open", MaxUp))
    BY <1>1 DEF HostReceives, TypeOK
  <2>2. Head(toHost).type = "message" => Head(toHost).arg \in 1 .. MaxUp
    BY <2>1, MessagesRead
  <2>3. upDone' \in Seq(1 .. MaxUp)
    <3>1. \A n \in 1 .. MaxUp : Append(upDone, n) \in Seq(1 .. MaxUp)
      BY DEF TypeOK
    <3>2. \/ upDone' = upDone
          \/ Head(toHost).type = "message" /\ upDone' = Append(upDone, Head(toHost).arg)
      BY <1>1 DEF HostReceives, OpenLocalSocket, MessageForLocal, CloseForLocal
    <3> QED
      BY <2>2, <3>1, <3>2 DEF TypeOK
  <2>4. toRelay' \in Seq(Frames("ack", MaxDown))
    <3>1. toRelay' = toRelay \/ ToRelay(Frame("close", "failed"))
      BY <1>1 DEF HostReceives, OpenLocalSocket
    <3>2. Frame("close", "failed") \in Frames("ack", MaxDown)
      BY FramesSent DEF Codes
    <3> QED
      BY <3>1, <3>2, Carried DEF TypeOK
  <2>5. /\ localSock' \in {"none", "connecting", "aborted", "open", "closing", "ending", "closed"}
        /\ tracked' \in BOOLEAN
    BY <1>1 DEF HostReceives, OpenLocalSocket, MessageForLocal, CloseForLocal, CloseLocalSocket,
                TypeOK
  <2> QED
    BY <1>1, <2>1, <2>3, <2>4, <2>5 DEF HostReceives, TypeOK
<1>2. CASE LocalOpens
    BY <1>2, Carried, FramesSent DEF LocalOpens, TypeOK
<1>3. CASE LocalSends
  <2>1. sent' \in 1 .. MaxDown
    BY <1>3 DEF LocalSends, TypeOK
  <2>2. toRelay' \in Seq(Frames("ack", MaxDown))
    BY <1>3, <2>1, Carried, FramesSent DEF LocalSends
  <2> QED
    BY <1>3, <2>1, <2>2 DEF LocalSends, TypeOK
<1>4. CASE LocalFails
    BY <1>4, Carried, FramesSent DEF LocalFails, TypeOK, Codes
<1>5. CASE HostLosesTunnel
    BY <1>5, Empty DEF HostLosesTunnel, CloseLocalSocket, TypeOK
<1>6. ASSUME NEW code \in EndCodes, LocalCloses(code) PROVE TypeOK'
  <2>1. toRelay' \in Seq(Frames("ack", MaxDown))
    BY <1>6, Carried, FramesSent DEF LocalCloses, EndCodes, Codes
  <2> QED
    BY <1>6, <2>1 DEF LocalCloses, TypeOK
<1> QED
    BY <1>1, <1>2, <1>3, <1>4, <1>5, <1>6

LEMMA TypeInit == Init => TypeOK
<1>1. 0 \in 0 .. MaxUp /\ 0 \in 0 .. MaxDown
    BY ConstantsAssumption
<1> QED
    BY <1>1, Empty DEF Init, TypeOK

LEMMA TypePreserved == TypeOK /\ [Next]_vars => TypeOK'
<1>1. ASSUME TypeOK, UNCHANGED vars PROVE TypeOK'
    BY <1>1 DEF TypeOK, vars, relayVars, tunnelVars, hostVars
<1> QED
    BY <1>1, RelayTypes, HostTypes DEF Next, Terminated

\* Each end reads only frames that it knows, and only messages that were sent reach
\* the other side (#send, Tunnel.send), for any number of messages.
THEOREM TypeCorrect == Spec => []TypeOK
BY TypeInit, TypePreserved, PTL DEF Spec

-----------------------------------------------------------------------------
(* Messages on their way.                                                  *)

\* The frames that carry a message number.
Channels == Seq([type : {"open", "ack", "close"}, arg : Codes \cup {0}]
                \cup [type : {"message"}, arg : Nat])

IsMessage(q, i) == q[i].type = "message"

\* The messages in q follow each other from the one after b on, none missing in
\* between, and come no further than n.
Run(q, b, n) ==
    /\ \A i \in 1 .. Len(q) : IsMessage(q, i) =>
          /\ b < q[i].arg /\ q[i].arg <= n
          /\ \A m \in b + 1 .. q[i].arg - 1 :
                \E j \in 1 .. i - 1 : IsMessage(q, j) /\ q[j].arg = m
    /\ \A i, j \in 1 .. Len(q) : i < j /\ IsMessage(q, i) /\ IsMessage(q, j) => q[i].arg < q[j].arg

\* And they come as far as n.
Whole(q, b, n) ==
    \A m \in b + 1 .. n : \E j \in 1 .. Len(q) : IsMessage(q, j) /\ q[j].arg = m

\* One frame more, or one message more that is not sent.
LEMMA RunGrows ==
    ASSUME NEW q \in Channels, NEW b \in Nat, NEW n \in Nat, Run(q, b, n), b <= n,
           NEW frame \in [type : {"open", "ack", "close"}, arg : Codes \cup {0}]
                         \cup [type : {"message"}, arg : Nat]
    PROVE  /\ Run(q, b, n + 1)
           /\ frame.type # "message" =>
                 /\ Run(Append(q, frame), b, n)
                 /\ Whole(q, b, n) => Whole(Append(q, frame), b, n)
           /\ frame.type = "message" /\ frame.arg = n + 1 /\ Whole(q, b, n) =>
                 Run(Append(q, frame), b, n + 1) /\ Whole(Append(q, frame), b, n + 1)
<1> DEFINE r == Append(q, frame)
<1>1. /\ Len(q) \in Nat /\ Len(r) = Len(q) + 1
      /\ \A i \in 1 .. Len(q) : r[i] = q[i]
      /\ r[Len(q) + 1] = frame
    BY DEF Channels
<1>2. \A i \in 1 .. Len(q) : IsMessage(q, i) => q[i].arg \in Nat
    BY DEF Channels, IsMessage
<1> HIDE DEF r
<1>3. Run(q, b, n + 1)
    BY <1>1, <1>2 DEF Run
<1>4. \A i \in 1 .. Len(q) : IsMessage(r, i) = IsMessage(q, i)
    BY <1>1 DEF IsMessage
<1>5. ASSUME frame.type # "message"
      PROVE  Run(r, b, n) /\ (Whole(q, b, n) => Whole(r, b, n))
  <2>1. ~IsMessage(r, Len(q) + 1)
    BY <1>1, <1>5 DEF IsMessage
  <2>2. Run(r, b, n)
    BY <1>1, <1>4, <2>1 DEF Run
  <2>3. Whole(q, b, n) => Whole(r, b, n)
    BY <1>1, <1>4 DEF Whole
  <2> QED
    BY <2>2, <2>3
<1>6. ASSUME frame.type = "message", frame.arg = n + 1, Whole(q, b, n)
      PROVE  Run(r, b, n + 1) /\ Whole(r, b, n + 1)
  <2>1. IsMessage(r, Len(q) + 1) /\ r[Len(q) + 1].arg = n + 1
    BY <1>1, <1>6 DEF IsMessage
  <2>2. \A m \in b + 1 .. n : \E j \in 1 .. Len(q) : IsMessage(r, j) /\ r[j].arg = m
    BY <1>1, <1>4, <1>6 DEF Whole
  <2>3. \A i \in 1 .. Len(q) : IsMessage(r, i) =>
            /\ b < r[i].arg /\ r[i].arg <= n
            /\ \A m \in b + 1 .. r[i].arg - 1 :
                  \E j \in 1 .. i - 1 : IsMessage(r, j) /\ r[j].arg = m
    BY <1>1, <1>4 DEF Run
  <2>4. \A i, j \in 1 .. Len(r) :
            i < j /\ IsMessage(r, i) /\ IsMessage(r, j) => r[i].arg < r[j].arg
    <3> SUFFICES ASSUME NEW i \in 1 .. Len(r), NEW j \in 1 .. Len(r),
                        i < j, IsMessage(r, i), IsMessage(r, j)
                 PROVE  r[i].arg < r[j].arg
      OBVIOUS
    <3>1. i \in 1 .. Len(q) /\ IsMessage(q, i) /\ r[i].arg = q[i].arg /\ q[i].arg \in Nat
      BY <1>1, <1>2, <1>4
    <3>2. CASE j = Len(q) + 1
      BY <2>1, <2>3, <3>1, <3>2
    <3>3. CASE j \in 1 .. Len(q)
      BY <1>1, <1>4, <3>1, <3>3 DEF Run
    <3> QED
      BY <1>1, <3>2, <3>3
  <2>5. Whole(r, b, n + 1)
    <3> SUFFICES ASSUME NEW m \in b + 1 .. n + 1
                 PROVE  \E j \in 1 .. Len(r) : IsMessage(r, j) /\ r[j].arg = m
      BY DEF Whole
    <3>1. CASE m = n + 1
      BY <1>1, <2>1, <3>1
    <3>2. CASE m \in b + 1 .. n
      BY <1>1, <2>2, <3>2
    <3> QED
      BY <3>1, <3>2
  <2>6. \A i \in 1 .. Len(r) : IsMessage(r, i) =>
            /\ b < r[i].arg /\ r[i].arg <= n + 1
            /\ \A m \in b + 1 .. r[i].arg - 1 :
                  \E j \in 1 .. i - 1 : IsMessage(r, j) /\ r[j].arg = m
    <3> SUFFICES ASSUME NEW i \in 1 .. Len(r), IsMessage(r, i)
                 PROVE  /\ b < r[i].arg /\ r[i].arg <= n + 1
                        /\ \A m \in b + 1 .. r[i].arg - 1 :
                              \E j \in 1 .. i - 1 : IsMessage(r, j) /\ r[j].arg = m
      OBVIOUS
    <3>1. CASE i = Len(q) + 1
      BY <1>1, <2>1, <2>2, <3>1
    <3>2. CASE i \in 1 .. Len(q)
      BY <1>1, <1>2, <1>4, <2>3, <3>2
    <3> QED
      BY <1>1, <3>1, <3>2
  <2> QED
    BY <2>4, <2>5, <2>6 DEF Run
<1> QED
    BY <1>3, <1>5, <1>6 DEF r

\* One frame less: if it is a message, it is the next.
LEMMA RunShrinks ==
    ASSUME NEW q \in Channels, NEW b \in Nat, NEW n \in Nat, Run(q, b, n), q # <<>>
    PROVE  /\ Head(q).type # "message" =>
                 Run(Tail(q), b, n) /\ (Whole(q, b, n) => Whole(Tail(q), b, n))
           /\ Head(q).type = "message" =>
                 /\ Head(q).arg = b + 1 /\ b + 1 <= n
                 /\ Run(Tail(q), b + 1, n) /\ (Whole(q, b, n) => Whole(Tail(q), b + 1, n))
<1> DEFINE r == Tail(q)
<1>1. /\ Len(q) \in Nat /\ Len(r) = Len(q) - 1 /\ Len(q) >= 1
      /\ \A i \in 1 .. Len(r) : r[i] = q[i + 1]
      /\ q[1] = Head(q)
    BY DEF Channels
<1>2. \A i \in 1 .. Len(q) : IsMessage(q, i) => q[i].arg \in Nat
    BY DEF Channels, IsMessage
<1> HIDE DEF r
<1>3. \A i \in 1 .. Len(r) : IsMessage(r, i) = IsMessage(q, i + 1) /\ r[i].arg = q[i + 1].arg
    BY <1>1 DEF IsMessage
<1>4. \A j \in 2 .. Len(q) : j - 1 \in 1 .. Len(r) /\ IsMessage(r, j - 1) = IsMessage(q, j)
                             /\ r[j - 1].arg = q[j].arg
    BY <1>1, <1>3
<1>5. \A i, j \in 1 .. Len(r) :
          i < j /\ IsMessage(r, i) /\ IsMessage(r, j) => r[i].arg < r[j].arg
    BY <1>1, <1>3 DEF Run
<1>6. ASSUME Head(q).type # "message"
      PROVE  Run(r, b, n) /\ (Whole(q, b, n) => Whole(r, b, n))
  <2>1. ~IsMessage(q, 1)
    BY <1>1, <1>6 DEF IsMessage
  <2>2. ASSUME NEW i \in 1 .. Len(r), IsMessage(r, i)
        PROVE  /\ b < r[i].arg /\ r[i].arg <= n
               /\ \A m \in b + 1 .. r[i].arg - 1 :
                     \E j \in 1 .. i - 1 : IsMessage(r, j) /\ r[j].arg = m
    <3>1. /\ b < q[i + 1].arg /\ q[i + 1].arg <= n
          /\ \A m \in b + 1 .. q[i + 1].arg - 1 :
                \E j \in 1 .. i : IsMessage(q, j) /\ q[j].arg = m
      BY <1>1, <1>3, <2>2 DEF Run
    <3>2. ASSUME NEW m \in b + 1 .. r[i].arg - 1
          PROVE  \E j \in 1 .. i - 1 : IsMessage(r, j) /\ r[j].arg = m
      <4>1. PICK j \in 1 .. i : IsMessage(q, j) /\ q[j].arg = m
        BY <1>3, <3>1, <3>2
      <4>2. j - 1 \in 1 .. i - 1 /\ j \in 2 .. Len(q)
        BY <1>1, <2>1, <4>1
      <4>3. IsMessage(r, j - 1) /\ r[j - 1].arg = m
        BY <1>4, <4>1, <4>2
      <4> QED
        BY <4>2, <4>3
    <3> QED
      BY <1>3, <3>1, <3>2
  <2>3. ASSUME Whole(q, b, n), NEW m \in b + 1 .. n
        PROVE  \E j \in 1 .. Len(r) : IsMessage(r, j) /\ r[j].arg = m
    <3>1. PICK j \in 1 .. Len(q) : IsMessage(q, j) /\ q[j].arg = m
      BY <2>3 DEF Whole
    <3>2. j \in 2 .. Len(q)
      BY <1>1, <2>1, <3>1
    <3>3. j - 1 \in 1 .. Len(r) /\ IsMessage(r, j - 1) /\ r[j - 1].arg = m
      BY <1>4, <3>1, <3>2
    <3> QED
      BY <3>3
  <2> QED
    BY <1>5, <2>2, <2>3 DEF Run, Whole
<1>7. ASSUME Head(q).type = "message"
      PROVE  /\ Head(q).arg = b + 1 /\ b + 1 <= n
             /\ Run(r, b + 1, n) /\ (Whole(q, b, n) => Whole(r, b + 1, n))
  <2>1. IsMessage(q, 1) /\ 1 \in 1 .. Len(q) /\ q[1].arg \in Nat
    BY <1>1, <1>2, <1>7 DEF IsMessage
  <2>2. b < q[1].arg /\ q[1].arg <= n
    BY <2>1 DEF Run
  <2>3. q[1].arg = b + 1
    <3> SUFFICES ASSUME b + 1 \in b + 1 .. q[1].arg - 1 PROVE FALSE
      BY <2>1, <2>2
    <3>1. PICK j \in 1 .. 1 - 1 : IsMessage(q, j)
      BY <2>1 DEF Run
    <3> QED
      BY <3>1
  <2>4. ASSUME NEW i \in 1 .. Len(r), IsMessage(r, i)
        PROVE  /\ b + 1 < r[i].arg /\ r[i].arg <= n
               /\ \A m \in b + 1 + 1 .. r[i].arg - 1 :
                     \E j \in 1 .. i - 1 : IsMessage(r, j) /\ r[j].arg = m
    <3>1. /\ i + 1 \in 1 .. Len(q) /\ IsMessage(q, i + 1) /\ r[i].arg = q[i + 1].arg
          /\ q[i + 1].arg \in Nat
      BY <1>1, <1>2, <1>3, <2>4
    <3>2. /\ q[i + 1].arg <= n
          /\ \A m \in b + 1 .. q[i + 1].arg - 1 :
                \E j \in 1 .. (i + 1) - 1 : IsMessage(q, j) /\ q[j].arg = m
          /\ q[1].arg < q[i + 1].arg
      BY <2>1, <3>1 DEF Run
    <3>3. ASSUME NEW m \in b + 1 + 1 .. r[i].arg - 1
          PROVE  \E j \in 1 .. i - 1 : IsMessage(r, j) /\ r[j].arg = m
      <4>1. PICK j \in 1 .. (i + 1) - 1 : IsMessage(q, j) /\ q[j].arg = m
        BY <3>1, <3>2, <3>3
      <4>2. j # 1 /\ j \in 2 .. Len(q)
        BY <1>1, <2>3, <3>3, <4>1
      <4> QED
        BY <1>4, <4>1, <4>2
    <3> QED
      BY <2>3, <3>1, <3>2, <3>3
  <2>5. ASSUME Whole(q, b, n), NEW m \in b + 1 + 1 .. n
        PROVE  \E j \in 1 .. Len(r) : IsMessage(r, j) /\ r[j].arg = m
    <3>1. PICK j \in 1 .. Len(q) : IsMessage(q, j) /\ q[j].arg = m
      BY <2>5 DEF Whole
    <3>2. j \in 2 .. Len(q)
      BY <1>1, <2>3, <2>5, <3>1
    <3> QED
      BY <1>4, <3>1, <3>2
  <2> QED
    BY <1>1, <1>5, <2>2, <2>3, <2>4, <2>5 DEF Run, Whole
<1> QED
    BY <1>6, <1>7 DEF r

-----------------------------------------------------------------------------
(* DSH's messages.                                                         *)

\* Before the browser's socket is accepted nothing has happened.
NothingBefore ==
    browserSock = "none" =>
        localSock = "none" /\ toHost = <<>> /\ toRelay = <<>> /\ sent = 0 /\ ~tracked

\* The relay writes the messages that arrive to the browser.
Delivering == browserSock \in {"none", "open"} /\ ~closed

\* The host can send to the relay.
RelayHears == relaySock # "lost" /\ hostSock = "open"

\* What the browser got and what is on its way are all that DSH sent.
DownInv ==
    /\ TypeOK /\ NothingBefore
    /\ Len(down) <= sent /\ \A i \in 1 .. Len(down) : down[i] = i
    /\ Delivering => Run(toRelay, Len(down), sent)
    /\ Delivering /\ RelayHears => Whole(toRelay, Len(down), sent)

LEMMA FramesAreChannels ==
    TypeOK => /\ toRelay \in Channels /\ toHost \in Channels
              /\ sent \in Nat /\ up \in Nat
              /\ down \in Seq(Nat) /\ Len(down) \in Nat
              /\ upDone \in Seq(Nat) /\ Len(upDone) \in Nat
<1> SUFFICES ASSUME TypeOK
             PROVE  /\ toRelay \in Channels /\ toHost \in Channels
                    /\ sent \in Nat /\ up \in Nat
                    /\ down \in Seq(Nat) /\ Len(down) \in Nat
                    /\ upDone \in Seq(Nat) /\ Len(upDone) \in Nat
    OBVIOUS
<1> DEFINE All == [type : {"open", "ack", "close"}, arg : Codes \cup {0}]
                  \cup [type : {"message"}, arg : Nat]
<1>1. Frames("open", MaxUp) \subseteq All /\ Frames("ack", MaxDown) \subseteq All
    BY ConstantsAssumption DEF Frames
<1> HIDE DEF All
<1>2. toRelay \in Seq(All) /\ toHost \in Seq(All)
    BY <1>1 DEF TypeOK
<1>3. ASSUME NEW S, NEW T, S \subseteq T, NEW q \in Seq(S) PROVE q \in Seq(T)
    BY <1>3
<1>4. 1 .. MaxUp \subseteq Nat /\ 1 .. MaxDown \subseteq Nat
    OBVIOUS
<1>5. down \in Seq(1 .. MaxDown) /\ upDone \in Seq(1 .. MaxUp)
    BY DEF TypeOK
<1>6. down \in Seq(Nat) /\ upDone \in Seq(Nat)
    BY <1>3, <1>4, <1>5
<1> QED
    BY <1>2, <1>6, ConstantsAssumption DEF Channels, All, TypeOK

\* A frame of the host arrives on the tunnel, or is lost.
LEMMA DownSent ==
    ASSUME DownInv, TypeOK', NothingBefore',
           UNCHANGED <<relayVars, relaySock, hostSock>>,
           \/ \E frame \in [type : {"ack", "close"}, arg : Codes \cup {0}] :
                 ToRelay(frame) /\ sent' = sent
           \/ ToRelay(Frame("message", sent')) /\ sent' = sent + 1
    PROVE  DownInv'
<1>1. /\ toRelay \in Channels /\ sent \in Nat /\ Len(down) \in Nat
      /\ Delivering' = Delivering /\ RelayHears' = RelayHears
    BY FramesAreChannels DEF DownInv, Delivering, RelayHears, relayVars
<1>2. Delivering => /\ Run(toRelay', Len(down), sent')
                    /\ RelayHears => Whole(toRelay', Len(down), sent')
  <2> SUFFICES ASSUME Delivering
               PROVE  /\ Run(toRelay', Len(down), sent')
                      /\ RelayHears => Whole(toRelay', Len(down), sent')
    OBVIOUS
  <2>1. Run(toRelay, Len(down), sent) /\ (RelayHears => Whole(toRelay, Len(down), sent))
    BY DEF DownInv
  <2>2. ASSUME NEW frame \in [type : {"ack", "close"}, arg : Codes \cup {0}],
               ToRelay(frame), sent' = sent
        PROVE  /\ Run(toRelay', Len(down), sent')
               /\ RelayHears => Whole(toRelay', Len(down), sent')
    <3>1. /\ frame \in [type : {"open", "ack", "close"}, arg : Codes \cup {0}]
                        \cup [type : {"message"}, arg : Nat]
          /\ frame.type # "message"
      OBVIOUS
    <3>2. toRelay' = IF RelayHears THEN Append(toRelay, frame) ELSE toRelay
      BY <2>2 DEF ToRelay, RelayHears
    <3> QED
      BY <1>1, <2>1, <2>2, <3>1, <3>2, RunGrows DEF DownInv
  <2>3. ASSUME ToRelay(Frame("message", sent')), sent' = sent + 1
        PROVE  /\ Run(toRelay', Len(down), sent')
               /\ RelayHears => Whole(toRelay', Len(down), sent')
    <3> DEFINE frame == Frame("message", sent')
    <3>1. /\ frame \in [type : {"open", "ack", "close"}, arg : Codes \cup {0}]
                        \cup [type : {"message"}, arg : Nat]
          /\ frame.type = "message" /\ frame.arg = sent + 1
      BY <1>1, <2>3 DEF Frame
    <3>2. toRelay' = IF RelayHears THEN Append(toRelay, frame) ELSE toRelay
      BY <2>3 DEF ToRelay, RelayHears
    <3> HIDE DEF frame
    <3> QED
      BY <1>1, <2>1, <2>3, <3>1, <3>2, RunGrows DEF DownInv
  <2> QED
    BY <2>2, <2>3
<1>3. Len(down) <= sent' /\ \A i \in 1 .. Len(down) : down[i] = i
    BY <1>1 DEF DownInv
<1> QED
    BY <1>1, <1>2, <1>3 DEF DownInv, relayVars

\* A step that leaves the messages of DSH alone.
LEMMA DownIdle ==
    ASSUME DownInv, TypeOK', NothingBefore', UNCHANGED <<down, sent>>,
           Delivering' => Delivering /\ toRelay' = toRelay /\ (RelayHears' => RelayHears)
    PROVE  DownInv'
BY DEF DownInv

\* The relay reads a frame.
LEMMA DownRead == DownInv /\ TypeOK' /\ NothingBefore' /\ RelayReceives => DownInv'
<1> SUFFICES ASSUME DownInv, TypeOK', NothingBefore', RelayReceives PROVE DownInv'
    OBVIOUS
<1>1. /\ toRelay \in Channels /\ sent \in Nat /\ Len(down) \in Nat /\ down \in Seq(Nat)
    BY FramesAreChannels DEF DownInv
<1>2. /\ toRelay # <<>> /\ toRelay' = Tail(toRelay) /\ UNCHANGED <<relaySock, hostSock, sent>>
      /\ browserSock # "none"
    BY DEF RelayReceives, DownInv, NothingBefore, hostVars
<1>3. RelayHears' = RelayHears
    BY <1>2 DEF RelayHears
<1>4. CASE closed \/ closed'
  <2>1. ~Delivering' /\ down' = down
    BY <1>4 DEF RelayReceives, OnFrame, Delivering, relayVars
  <2> QED
    BY <1>2, <2>1, DownIdle
<1>5. CASE ~closed /\ ~closed' /\ Head(toRelay).type = "message"
  <2>1. /\ UNCHANGED <<browserSock, closed>>
        /\ down' = IF browserSock = "open" THEN Append(down, Head(toRelay).arg) ELSE down
    BY <1>5 DEF RelayReceives, OnFrame
  <2>2. CASE browserSock # "open"
    <3>1. ~Delivering' /\ down' = down
      BY <1>2, <2>1, <2>2 DEF Delivering
    <3> QED
      BY <1>2, <3>1, DownIdle
  <2>3. CASE browserSock = "open"
    <3>1. Delivering /\ Delivering'
      BY <1>5, <2>1, <2>3 DEF Delivering
    <3>2. /\ Head(toRelay).arg = Len(down) + 1 /\ Len(down) + 1 <= sent
          /\ Run(Tail(toRelay), Len(down) + 1, sent)
          /\ RelayHears => Whole(Tail(toRelay), Len(down) + 1, sent)
      BY <1>1, <1>2, <1>5, <3>1, RunShrinks DEF DownInv
    <3>3. /\ Len(down') = Len(down) + 1
          /\ \A i \in 1 .. Len(down') : down'[i] = i
      BY <1>1, <2>1, <2>3, <3>2 DEF DownInv
    <3> QED
      BY <1>2, <1>3, <3>2, <3>3 DEF DownInv
  <2> QED
    BY <2>2, <2>3
<1>6. CASE ~closed /\ ~closed' /\ Head(toRelay).type # "message"
  <2>1. UNCHANGED <<browserSock, closed, down>>
    BY <1>6 DEF RelayReceives, OnFrame, relayVars
  <2>2. Delivering' = Delivering
    BY <2>1 DEF Delivering
  <2>3. Delivering => /\ Run(toRelay', Len(down), sent)
                      /\ RelayHears => Whole(toRelay', Len(down), sent)
    BY <1>1, <1>2, <1>6, RunShrinks DEF DownInv
  <2> QED
    BY <1>2, <1>3, <2>1, <2>2, <2>3 DEF DownInv
<1> QED
    BY <1>4, <1>5, <1>6

\* Nothing happens before the browser's socket is accepted.
LEMMA BeforePreserved ==
    ASSUME TypeOK, NothingBefore, [Next]_vars
    PROVE  NothingBefore' /\ (browserSock' = "none" => browserSock = "none")
<1>1. browserSock' = "none" => browserSock = "none"
    BY DEF Next, ProxyClientSocket, BrowserSends, BrowserFails, BrowserCloses, RelayReceives,
       OnFrame, CloseBrowserSocket, TunnelCloses, RelayLosesTunnel, HostReceives, LocalOpens,
       LocalSends, LocalFails, LocalCloses, HostLosesTunnel, Terminated, vars, relayVars
<1>2. ASSUME browserSock = "none", browserSock' = "none"
      PROVE  /\ localSock' = "none" /\ toHost' = <<>> /\ toRelay' = <<>> /\ sent' = 0
             /\ ~tracked'
    BY <1>2 DEF NothingBefore, EndCodes,
       Next, ProxyClientSocket, BrowserSends, BrowserFails, BrowserCloses, RelayReceives,
       TunnelCloses, RelayLosesTunnel, HostReceives, LocalOpens, LocalSends, LocalFails,
       LocalCloses, HostLosesTunnel, CloseLocalSocket, Terminated, vars, relayVars,
       tunnelVars, hostVars
<1> QED
    BY <1>1, <1>2 DEF NothingBefore

\* Every step keeps DSH's messages in order.
LEMMA DownPreserved == DownInv /\ [Next]_vars => DownInv'
<1> SUFFICES ASSUME DownInv, [Next]_vars PROVE DownInv'
    OBVIOUS
<1>1. TypeOK /\ TypeOK' /\ NothingBefore'
    BY TypePreserved, BeforePreserved DEF DownInv
<1> USE DEF hostVars, tunnelVars, relayVars
<1>2. CASE ProxyClientSocket \/ BrowserSends \/ BrowserFails \/ TunnelCloses \/ UNCHANGED vars
  <2>1. /\ UNCHANGED <<down, sent, toRelay>>
        /\ (Delivering' => Delivering) /\ (RelayHears' => RelayHears)
    BY <1>2 DEF ProxyClientSocket, BrowserSends, BrowserFails, TunnelCloses, vars,
                Delivering, RelayHears
  <2> QED
    BY <1>1, <2>1, DownIdle
<1>3. ASSUME NEW code \in EndCodes, BrowserCloses(code) PROVE DownInv'
  <2>1. UNCHANGED <<down, sent>> /\ ~Delivering'
    BY <1>3 DEF BrowserCloses, Delivering
  <2> QED
    BY <1>1, <2>1, DownIdle
<1>4. CASE RelayLosesTunnel
  <2>1. UNCHANGED <<down, sent>> /\ ~Delivering'
    BY <1>4 DEF RelayLosesTunnel, Delivering
  <2> QED
    BY <1>1, <2>1, DownIdle
<1>5. CASE HostReceives \/ HostLosesTunnel
  <2>1. CASE HostReceives /\ ToRelay(Frame("close", "failed"))
    <3>1. Frame("close", "failed") \in [type : {"ack", "close"}, arg : Codes \cup {0}]
      BY DEF Frame, Codes
    <3>2. UNCHANGED <<relayVars, relaySock, hostSock, sent>>
      BY <2>1 DEF HostReceives
    <3> QED
      BY <1>1, <2>1, <3>1, <3>2, DownSent
  <2>2. CASE toRelay' = toRelay
    <3>1. /\ UNCHANGED <<down, sent, browserSock, closed>>
          /\ (RelayHears' => RelayHears)
      BY <1>5 DEF HostReceives, HostLosesTunnel, RelayHears
    <3> QED
      BY <1>1, <2>2, <3>1, DownIdle DEF Delivering
  <2> QED
    BY <1>5, <2>1, <2>2 DEF HostReceives, OpenLocalSocket, HostLosesTunnel
<1>6. CASE LocalOpens
  <2>1. Frame("ack", 0) \in [type : {"ack", "close"}, arg : Codes \cup {0}]
    BY DEF Frame
  <2> QED
    BY <1>1, <1>6, <2>1, DownSent DEF LocalOpens
<1>7. CASE LocalFails
  <2>1. Frame("close", "failed") \in [type : {"ack", "close"}, arg : Codes \cup {0}]
    BY DEF Frame, Codes
  <2> QED
    BY <1>1, <1>7, <2>1, DownSent DEF LocalFails
<1>8. ASSUME NEW code \in EndCodes, LocalCloses(code) PROVE DownInv'
  <2>1. Frame("close", code) \in [type : {"ack", "close"}, arg : Codes \cup {0}]
    BY DEF Frame, EndCodes, Codes
  <2> QED
    BY <1>1, <1>8, <2>1, DownSent DEF LocalCloses
<1>9. CASE LocalSends
    BY <1>1, <1>9, DownSent DEF LocalSends
<1> QED
    BY <1>1, <1>2, <1>3, <1>4, <1>5, <1>6, <1>7, <1>8, <1>9, DownRead DEF Next, Terminated

\* The browser gets DSH's messages in order and none is missing in between, through
\* any closes and losses and for any number of messages.
THEOREM DownInOrder == Spec => []DownIsPrefix
<1>1. Init => DownInv
  <2> SUFFICES ASSUME Init PROVE DownInv
    OBVIOUS
  <2>1. TypeOK /\ NothingBefore
    BY TypeInit DEF Init, NothingBefore
  <2>2. down = <<>> /\ toRelay = <<>> /\ sent = 0
    BY DEF Init
  <2> QED
    BY <2>1, <2>2 DEF DownInv, Run, Whole
<1>2. DownInv => DownIsPrefix
  <2> SUFFICES ASSUME DownInv PROVE DownIsPrefix
    OBVIOUS
  <2> DEFINE all == [i \in 1 .. sent |-> i]
  <2>1. sent \in Nat /\ down \in Seq(Nat)
    BY FramesAreChannels DEF DownInv
  <2>2. all \in Seq(Nat) /\ Len(all) = sent /\ \A i \in 1 .. sent : all[i] = i
    BY <2>1
  <2>3. Len(down) <= Len(all) /\ \A i \in 1 .. Len(down) : down[i] = all[i]
    BY <2>1, <2>2 DEF DownInv
  <2> HIDE DEF all
  <2>4. IsPrefix(down, all)
    BY <2>1, <2>2, <2>3 DEF IsPrefix
  <2> QED
    BY <2>4 DEF DownIsPrefix, all
<1> QED
    BY <1>1, <1>2, DownPreserved, PTL DEF Spec

-----------------------------------------------------------------------------
(* The browser's messages.                                                 *)

\* The frame that opens the socket to DSH comes first, and once; until that socket
\* is open DSH gets nothing.
OpenFirst ==
    /\ \A i \in 1 .. Len(toHost) : toHost[i].type = "open" => i = 1 /\ localSock = "none"
    /\ localSock \in {"none", "connecting"} => upDone = <<>>

\* The relay can send to the host.
HostHears == relaySock = "open" /\ hostSock = "open"

\* DSH gets the messages that arrive.
Taking == tracked /\ localSock = "open"

\* The host has read the messages up to b, those that it dropped included, and what
\* DSH got ends there.
ReadUpTo(b) ==
    /\ b \in Nat /\ b <= up
    /\ Run(toHost, b, up)
    /\ HostHears => Whole(toHost, b, up)
    /\ Taking /\ upDone # <<>> => upDone[Len(upDone)] = b

UpInv ==
    TypeOK /\ NothingBefore /\ OpenFirst /\ UpIsContiguous /\ \E b \in Nat : ReadUpTo(b)

\* A frame of the relay arrives on the tunnel, or is lost.
LEMMA UpSent ==
    ASSUME UpInv, TypeOK', NothingBefore',
           UNCHANGED <<hostVars, relaySock, hostSock>>,
           \/ \E code \in Codes : ToHost(Frame("close", code)) /\ up' = up
           \/ ToHost(Frame("message", up')) /\ up' = up + 1
           \/ /\ ToHost(Frame("open", 0)) /\ up' = up
              /\ toHost = <<>> /\ localSock = "none"
    PROVE  UpInv'
<1>1. toHost \in Channels /\ up \in Nat /\ Len(toHost) \in Nat
    BY FramesAreChannels DEF UpInv, Channels
<1>2. PICK b \in Nat : ReadUpTo(b)
    BY DEF UpInv
<1> DEFINE All == [type : {"open", "ack", "close"}, arg : Codes \cup {0}]
                  \cup [type : {"message"}, arg : Nat]
<1>3. PICK frame \in All :
         /\ toHost' = IF HostHears THEN Append(toHost, frame) ELSE toHost
         /\ \/ frame.type = "close" /\ up' = up
            \/ frame.type = "message" /\ frame.arg = up + 1 /\ up' = up + 1
            \/ frame.type = "open" /\ up' = up /\ toHost = <<>> /\ localSock = "none"
  <2>1. \A code \in Codes : Frame("close", code) \in All
    BY DEF Frame
  <2>2. up' = up + 1 => Frame("message", up') \in All
    BY <1>1 DEF Frame
  <2>3. Frame("open", 0) \in All
    BY DEF Frame
  <2> HIDE DEF All
  <2> QED
    BY <2>1, <2>2, <2>3 DEF ToHost, HostHears, Frame
<1>4. HostHears' = HostHears /\ Taking' = Taking
    BY DEF HostHears, Taking, hostVars
<1>5. Run(toHost', b, up') /\ (HostHears => Whole(toHost', b, up'))
  <2>1. Run(toHost, b, up) /\ (HostHears => Whole(toHost, b, up)) /\ b <= up
    BY <1>2 DEF ReadUpTo
  <2>2. /\ Run(toHost, b, up + 1)
        /\ frame.type # "message" =>
              /\ Run(Append(toHost, frame), b, up)
              /\ Whole(toHost, b, up) => Whole(Append(toHost, frame), b, up)
        /\ frame.type = "message" /\ frame.arg = up + 1 /\ Whole(toHost, b, up) =>
              Run(Append(toHost, frame), b, up + 1) /\ Whole(Append(toHost, frame), b, up + 1)
    BY <1>1, <1>2, <2>1, RunGrows
  <2> HIDE DEF All
  <2> QED
    BY <1>3, <2>1, <2>2
<1>6. ReadUpTo(b)'
  <2>1. b \in Nat /\ b <= up'
    BY <1>1, <1>2, <1>3 DEF ReadUpTo
  <2> QED
    BY <1>2, <1>4, <1>5, <2>1 DEF ReadUpTo, hostVars
<1>7. OpenFirst'
  <2>1. CASE toHost' = toHost
    BY <2>1 DEF UpInv, OpenFirst, hostVars
  <2>2. CASE toHost' = Append(toHost, frame)
    <3>1. /\ Len(toHost') = Len(toHost) + 1
          /\ \A i \in 1 .. Len(toHost) : toHost'[i] = toHost[i]
          /\ toHost'[Len(toHost) + 1] = frame
      BY <1>1, <2>2 DEF Channels
    <3>2. frame.type = "open" => Len(toHost) = 0 /\ localSock = "none"
      BY <1>3
    <3> QED
      BY <1>1, <3>1, <3>2 DEF UpInv, OpenFirst, hostVars
  <2> QED
    BY <1>3, <2>1, <2>2
<1> QED
    BY <1>6, <1>7 DEF UpInv, UpIsContiguous, hostVars

\* A step that leaves the browser's messages alone.
LEMMA UpIdle ==
    ASSUME UpInv, TypeOK', NothingBefore', UNCHANGED <<up, upDone>>,
           toHost' = toHost \/ toHost' = <<>>,
           HostHears' => HostHears /\ toHost' = toHost,
           Taking' => Taking \/ upDone = <<>>,
           localSock' = "none" <=> localSock = "none",
           localSock' = "connecting" => localSock = "connecting"
    PROVE  UpInv'
<1>1. PICK b \in Nat : ReadUpTo(b)
    BY DEF UpInv
<1>2. Run(toHost', b, up')
    BY <1>1 DEF ReadUpTo, Run
<1>3. ReadUpTo(b)'
    BY <1>1, <1>2 DEF ReadUpTo
<1>4. OpenFirst'
    BY DEF UpInv, OpenFirst
<1> QED
    BY <1>3, <1>4 DEF UpInv, UpIsContiguous

\* The host reads a frame.
LEMMA UpRead == UpInv /\ TypeOK' /\ NothingBefore' /\ HostReceives => UpInv'
<1> SUFFICES ASSUME UpInv, TypeOK', NothingBefore', HostReceives PROVE UpInv'
    OBVIOUS
<1>1. /\ toHost \in Channels /\ up \in Nat /\ upDone \in Seq(Nat) /\ Len(upDone) \in Nat
      /\ tracked \in BOOLEAN
    BY FramesAreChannels DEF UpInv, TypeOK
<1>2. /\ toHost # <<>> /\ toHost' = Tail(toHost)
      /\ UNCHANGED <<up, relaySock, hostSock>>
    BY DEF HostReceives, relayVars
<1>3. /\ Len(toHost) \in Nat /\ Len(toHost') = Len(toHost) - 1
      /\ \A i \in 1 .. Len(toHost') : toHost'[i] = toHost[i + 1]
    BY <1>1, <1>2 DEF Channels
<1>4. \A i \in 1 .. Len(toHost') : toHost'[i].type # "open"
    BY <1>3 DEF UpInv, OpenFirst
<1>5. PICK b \in Nat : ReadUpTo(b)
    BY DEF UpInv
<1>6. HostHears' = HostHears
    BY <1>2 DEF HostHears
<1>7. b <= up /\ Run(toHost, b, up) /\ (HostHears => Whole(toHost, b, up))
    BY <1>5 DEF ReadUpTo
<1>8. CASE Head(toHost).type # "message"
  <2>1. Run(toHost', b, up) /\ (HostHears => Whole(toHost', b, up))
    BY <1>1, <1>2, <1>7, <1>8, RunShrinks
  <2>2. upDone' = upDone
    BY <1>8 DEF HostReceives, OpenLocalSocket, CloseForLocal
  <2>3. ~Taking'
    BY <1>8 DEF HostReceives, OpenLocalSocket, CloseForLocal, Taking
  <2>4. OpenFirst'
    <3>1. localSock' \in {"none", "connecting"} => localSock \in {"none", "connecting"}
      <4>1. CASE Head(toHost).type = "open"
        <5>1. toHost[1].type = "open" /\ 1 \in 1 .. Len(toHost)
          BY <1>1, <1>2, <1>3, <4>1 DEF Channels
        <5> QED
          BY <5>1 DEF UpInv, OpenFirst
      <4>2. CASE Head(toHost).type = "close"
        BY <4>2 DEF HostReceives, CloseForLocal, CloseLocalSocket
      <4> QED
        BY <1>8, <4>1, <4>2 DEF HostReceives
    <3> QED
      BY <1>4, <2>2, <3>1 DEF UpInv, OpenFirst
  <2>5. ReadUpTo(b)'
    BY <1>2, <1>6, <1>7, <2>1, <2>3 DEF ReadUpTo
  <2> QED
    BY <2>2, <2>4, <2>5 DEF UpInv, UpIsContiguous
<1>9. CASE Head(toHost).type = "message"
  <2>1. /\ Head(toHost).arg = b + 1 /\ b + 1 <= up
        /\ Run(toHost', b + 1, up) /\ (HostHears => Whole(toHost', b + 1, up))
    BY <1>1, <1>2, <1>7, <1>9, RunShrinks
  <2>2. /\ UNCHANGED <<localSock, tracked>>
        /\ upDone' = IF Taking THEN Append(upDone, b + 1) ELSE upDone
    BY <1>9, <2>1 DEF HostReceives, MessageForLocal, Taking
  <2>3. Taking' = Taking
    BY <2>2 DEF Taking
  <2>4. CASE ~Taking
    <3>1. ReadUpTo(b + 1)' /\ b + 1 \in Nat
      BY <1>2, <1>6, <2>1, <2>3, <2>4 DEF ReadUpTo
    <3>2. OpenFirst'
      BY <1>4, <2>2, <2>4 DEF UpInv, OpenFirst
    <3> QED
      BY <2>2, <2>4, <3>1, <3>2 DEF UpInv, UpIsContiguous
  <2>5. CASE Taking
    <3>1. /\ upDone' = Append(upDone, b + 1)
          /\ Len(upDone') = Len(upDone) + 1
          /\ \A i \in 1 .. Len(upDone) : upDone'[i] = upDone[i]
          /\ upDone'[Len(upDone')] = b + 1
          /\ upDone' # <<>>
      BY <1>1, <2>2, <2>5
    <3>2. ReadUpTo(b + 1)' /\ b + 1 \in Nat
      BY <1>2, <1>6, <2>1, <3>1 DEF ReadUpTo
    <3>3. OpenFirst'
      <4>1. localSock' = "open"
        BY <2>2, <2>5 DEF Taking
      <4> QED
        BY <1>4, <4>1 DEF OpenFirst
    <3>4. UpIsContiguous'
      <4>1. CASE upDone = <<>>
        <5>1. Len(upDone') = 1 /\ upDone'[1] \in Nat
          BY <3>1, <4>1
        <5> QED
          BY <5>1 DEF UpIsContiguous
      <4>2. CASE upDone # <<>>
        <5>1. /\ Len(upDone) >= 1 /\ upDone[1] \in Nat
              /\ upDone[Len(upDone)] = b /\ upDone'[1] = upDone[1]
          BY <1>1, <1>5, <2>5, <3>1, <4>2 DEF ReadUpTo
        <5>2. \A i \in 1 .. Len(upDone) : upDone[i] = upDone[1] + i - 1
          BY DEF UpInv, UpIsContiguous
        <5>3. b = upDone[1] + Len(upDone) - 1
          BY <1>1, <5>1, <5>2
        <5>4. ASSUME NEW i \in 1 .. Len(upDone') PROVE upDone'[i] = upDone'[1] + i - 1
          <6>1. CASE i = Len(upDone')
            BY <1>1, <3>1, <5>1, <5>3, <6>1
          <6>2. CASE i \in 1 .. Len(upDone)
            BY <3>1, <5>1, <5>2, <6>2
          <6> QED
            BY <1>1, <3>1, <6>1, <6>2
        <5> QED
          BY <5>4 DEF UpIsContiguous
      <4> QED
        BY <4>1, <4>2
    <3> QED
      BY <3>2, <3>3, <3>4 DEF UpInv
  <2> QED
    BY <2>4, <2>5
<1> QED
    BY <1>8, <1>9

\* Every step keeps the browser's messages in order.
LEMMA UpPreserved == UpInv /\ [Next]_vars => UpInv'
<1> SUFFICES ASSUME UpInv, [Next]_vars PROVE UpInv'
    OBVIOUS
<1>1. TypeOK /\ TypeOK' /\ NothingBefore'
    BY TypePreserved, BeforePreserved DEF UpInv
<1> USE DEF hostVars, tunnelVars, relayVars
<1>2. CASE ProxyClientSocket
  <2>1. toHost = <<>> /\ localSock = "none"
    BY <1>2 DEF ProxyClientSocket, UpInv, NothingBefore
  <2> QED
    BY <1>1, <1>2, <2>1, UpSent DEF ProxyClientSocket
<1>3. CASE BrowserSends
    BY <1>1, <1>3, UpSent DEF BrowserSends
<1>4. CASE BrowserFails
    BY <1>1, <1>4, UpSent DEF BrowserFails, Codes
<1>5. ASSUME NEW code \in EndCodes, BrowserCloses(code) PROVE UpInv'
  <2>1. CASE closed
    BY <1>1, <1>5, <2>1, UpIdle DEF BrowserCloses, HostHears, Taking
  <2>2. CASE ~closed
    BY <1>1, <1>5, <2>2, UpSent DEF BrowserCloses, EndCodes, Codes
  <2> QED
    BY <2>1, <2>2
<1>6. CASE RelayReceives \/ TunnelCloses \/ RelayLosesTunnel \/ LocalSends \/ UNCHANGED vars
  <2>1. /\ UNCHANGED <<up, upDone, toHost, localSock, tracked>>
        /\ (HostHears' => HostHears)
    BY <1>6 DEF RelayReceives, OnFrame, TunnelCloses, RelayLosesTunnel, LocalSends, vars,
                HostHears
  <2> QED
    BY <1>1, <2>1, UpIdle DEF Taking
<1>7. CASE LocalOpens
  <2>1. upDone = <<>>
    BY <1>7 DEF LocalOpens, UpInv, OpenFirst
  <2>2. UNCHANGED <<up, upDone, toHost, relaySock, hostSock>>
        /\ localSock = "connecting" /\ localSock' = "open"
    BY <1>7 DEF LocalOpens
  <2> QED
    BY <1>1, <2>1, <2>2, UpIdle DEF HostHears
<1>8. CASE LocalFails \/ HostLosesTunnel \/ \E code \in EndCodes : LocalCloses(code)
  <2>1. /\ UNCHANGED <<up, upDone, relaySock>> /\ ~tracked'
        /\ toHost' = toHost \/ toHost' = <<>>
        /\ HostHears' => HostHears /\ toHost' = toHost
    BY <1>8 DEF LocalFails, HostLosesTunnel, LocalCloses, HostHears
  <2>2. /\ localSock' = "none" <=> localSock = "none"
        /\ localSock' = "connecting" => localSock = "connecting"
    BY <1>8 DEF LocalFails, HostLosesTunnel, LocalCloses, CloseLocalSocket
  <2> QED
    BY <1>1, <2>1, <2>2, UpIdle DEF Taking
<1> QED
    BY <1>1, <1>2, <1>3, <1>4, <1>5, <1>6, <1>7, <1>8, UpRead DEF Next, Terminated

\* DSH gets the browser's messages in order and, from the first that it gets on, none
\* is missing.
THEOREM UpInOrder == Spec => []UpIsContiguous
<1>1. Init => UpInv
  <2> SUFFICES ASSUME Init PROVE UpInv
    OBVIOUS
  <2>1. TypeOK /\ NothingBefore
    BY TypeInit DEF Init, NothingBefore
  <2>2. toHost = <<>> /\ upDone = <<>> /\ up = 0
    BY DEF Init
  <2>3. ReadUpTo(0)
    BY <2>2 DEF ReadUpTo, Run, Whole
  <2> QED
    BY <2>1, <2>2, <2>3 DEF UpInv, OpenFirst, UpIsContiguous
<1>2. UpInv => UpIsContiguous
    BY DEF UpInv
<1> QED
    BY <1>1, <1>2, UpPreserved, PTL DEF Spec
=============================================================================
