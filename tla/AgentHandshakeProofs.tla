------------------------ MODULE AgentHandshakeProofs ------------------------
(***************************************************************************)
(* Theorems about AgentHandshake, for any skew, table limit, clocks and    *)
(* number of hellos.                                                       *)
(***************************************************************************)
EXTENDS AgentHandshake, TLAPS, WellFoundedInduction

Types ==
    /\ now \in Int
    /\ hellos \subseteq Hello
    /\ seen \subseteq [nonce : Nonce, at : Int]
    /\ admitted \in [Nonce -> Nat]

\* A nonce is drawn once.
OneHello == \A g, h \in hellos : g.nonce = h.nonce => g = h

\* Only what was sent was admitted.
SentFirst == \A n \in Nonce : admitted[n] > 0 => n \in Drawn

\* The nonce of an admitted hello is in the table, at a time the hello's own is not
\* further ahead of than the skew, or the hello has become too old.
Remembered ==
    \A h \in hellos :
       admitted[h.nonce] > 0 =>
          \/ \E e \in seen : e.nonce = h.nonce /\ h.ts <= e.at + Skew
          \/ now > h.ts + Skew

IInv == Types /\ OneHello /\ SentFirst /\ Remembered /\ NoReplay

\* Pruning forgets no hello that could still pass the clock check (OneTimeValues).
LEMMA PruneKeeps ==
    ASSUME IInv
    PROVE  \A h \in hellos :
              admitted[h.nonce] > 0 =>
                 \/ \E e \in Prune(seen) : e.nonce = h.nonce /\ h.ts <= e.at + Skew
                 \/ now > h.ts + Skew
<1> SUFFICES ASSUME NEW h \in hellos, admitted[h.nonce] > 0, ~(now > h.ts + Skew)
             PROVE  \E e \in Prune(seen) : e.nonce = h.nonce /\ h.ts <= e.at + Skew
    OBVIOUS
<1>1. PICK e \in seen : e.nonce = h.nonce /\ h.ts <= e.at + Skew
    BY DEF IInv, Remembered
<1>2. now \in Int /\ e.at \in Int /\ h.ts \in Int
    BY DEF IInv, Types, Hello
<1>3. now - e.at <= Window
    BY <1>1, <1>2, HandshakeAssumption DEF Window
<1> QED
    BY <1>1, <1>3 DEF Prune

LEMMA InitEstablishes == Init => IInv
BY HandshakeAssumption DEF Init, IInv, Types, OneHello, SentFirst, Remembered, NoReplay

\* A hello sent (HostSaysHello) has a nonce of its own, not admitted yet.
LEMMA HelloPreserves ==
    ASSUME IInv,
           NEW a \in Agent, NEW m \in BOOLEAN, NEW d \in Drift, HostSaysHello(a, m, d)
    PROVE  IInv'
<1>1. PICK n \in Nonce \ Drawn :
         hellos' = hellos \cup {[agent |-> a, ts |-> now + d, nonce |-> n, matches |-> m]}
    BY DEF HostSaysHello
<1> DEFINE new == [agent |-> a, ts |-> now + d, nonce |-> n, matches |-> m]
<1>2. UNCHANGED <<now, seen, admitted>>
    BY DEF HostSaysHello
<1>3. new \in Hello
    BY HandshakeAssumption DEF IInv, Types, Hello
<1>4. \A h \in hellos : h.nonce # n
    BY <1>1 DEF Drawn
<1>5. ~(admitted[n] > 0)
    BY <1>1 DEF IInv, SentFirst
<1>6. Types' /\ NoReplay'
    BY <1>1, <1>2, <1>3 DEF IInv, Types, NoReplay
<1>7. OneHello'
    BY <1>1, <1>4 DEF IInv, OneHello
<1>8. SentFirst'
    BY <1>1, <1>2 DEF IInv, SentFirst, Drawn
<1>9. Remembered'
    BY <1>1, <1>2, <1>5 DEF IInv, Remembered
<1> QED
    BY <1>6, <1>7, <1>8, <1>9 DEF IInv

\* A hello refused (Throttle, RefuseUnread, RefuseNonce, RefuseSignature) admits
\* nothing, and leaves the table pruned, extended, or as it was.
LEMMA RefusalPreserves ==
    ASSUME IInv,
           NEW h \in hellos, UNCHANGED <<now, hellos, admitted>>,
           seen' = seen \/ seen' = Prune(seen) \/ seen' = Add(h.nonce)
    PROVE  IInv'
<1>1. Types'
  <2>1. h.nonce \in Nonce
    BY DEF IInv, Types, Hello
  <2> QED
    BY <2>1 DEF IInv, Types, Prune, Add
<1>2. Skew \in Nat
    BY HandshakeAssumption
<1>3. seen \subseteq seen' \/ Prune(seen) \subseteq seen'
    BY DEF Add
<1>4. Remembered'
    BY <1>2, <1>3, PruneKeeps DEF IInv, Remembered
<1>5. OneHello' /\ SentFirst' /\ NoReplay'
    BY DEF IInv, OneHello, SentFirst, Drawn, NoReplay
<1> QED
    BY <1>1, <1>4, <1>5 DEF IInv

\* A hello that is admitted was not admitted before.
LEMMA AdmissionPreserves ==
    ASSUME IInv,
           NEW a, NEW h \in hellos, UNCHANGED <<now, hellos>>, Admit(a, h)
    PROVE  IInv'
<1>1. Skew \in Nat
    BY HandshakeAssumption
<1>2. h \in Hello /\ now \in Int /\ admitted \in [Nonce -> Nat]
    BY DEF IInv, Types
<1>3. h.nonce \in Nonce /\ h.ts \in Int
    BY <1>2 DEF Hello
<1>4. Timely(h) /\ \A e \in Prune(seen) : e.nonce # h.nonce
    BY DEF Admit, MayAdd
<1>5. ~(now > h.ts + Skew) /\ h.ts <= now + Skew
    BY <1>1, <1>2, <1>3, <1>4 DEF Timely
<1>6. admitted[h.nonce] = 0
    BY <1>1, <1>2, <1>3, <1>4, <1>5, PruneKeeps
<1>7. /\ seen' = Prune(seen) \cup {[nonce |-> h.nonce, at |-> now]}
      /\ admitted' = [admitted EXCEPT ![h.nonce] = @ + 1]
    BY DEF Admit, Add
<1>8. \A n \in Nonce : admitted'[n] = IF n = h.nonce THEN 1 ELSE admitted[n]
    BY <1>2, <1>3, <1>6, <1>7
<1>9. Types'
    BY <1>2, <1>3, <1>6, <1>7 DEF IInv, Types, Prune
<1>10. OneHello'
    BY DEF IInv, OneHello
<1>11. SentFirst'
    BY <1>8 DEF IInv, SentFirst, Drawn
<1>12. Remembered'
  <2> SUFFICES ASSUME NEW g \in hellos, admitted'[g.nonce] > 0
               PROVE  \/ \E e \in seen' : e.nonce = g.nonce /\ g.ts <= e.at + Skew
                      \/ now > g.ts + Skew
    BY DEF Remembered
  <2>1. CASE g.nonce = h.nonce
    <3>1. g = h
      BY <2>1 DEF IInv, OneHello
    <3> DEFINE e == [nonce |-> h.nonce, at |-> now]
    <3>2. e \in seen'
      BY <1>7
    <3>3. e.nonce = g.nonce /\ g.ts <= e.at + Skew
      BY <3>1, <1>5
    <3> QED
      BY <3>2, <3>3
  <2>2. CASE g.nonce # h.nonce
    <3>1. g.nonce \in Nonce
      BY DEF IInv, Types, Hello
    <3>2. admitted[g.nonce] > 0
      BY <2>2, <3>1, <1>8
    <3> QED
      BY <3>2, <1>1, <1>7, PruneKeeps
  <2> QED
    BY <2>1, <2>2
<1>13. NoReplay'
    BY <1>8 DEF IInv, NoReplay
<1> QED
    BY <1>9, <1>10, <1>11, <1>12, <1>13 DEF IInv

LEMMA StepPreserves == IInv /\ [Next]_vars => IInv'
<1> SUFFICES ASSUME IInv, [Next]_vars PROVE IInv'
    OBVIOUS
<1>1. ASSUME NEW a \in Agent, NEW m \in BOOLEAN, NEW d \in Drift, HostSaysHello(a, m, d)
      PROVE  IInv'
    BY <1>1, HelloPreserves
<1>2. ASSUME NEW h \in hellos, NEW peer, NEW forwarded, RelayGetsHello(h, peer, forwarded)
      PROVE  IInv'
  <2>1. UNCHANGED <<now, hellos>>
    BY <1>2 DEF RelayGetsHello
  <2>2. ASSUME NEW a, Throttle(a) \/ RefuseUnread(a, h) PROVE IInv'
    BY <2>1, <2>2, RefusalPreserves DEF Throttle, RefuseUnread
  <2>3. ASSUME NEW a, RefuseNonce(a, h) \/ RefuseSignature(a, h) PROVE IInv'
    BY <2>1, <2>3, RefusalPreserves DEF RefuseNonce, RefuseSignature
  <2>4. ASSUME NEW a, Admit(a, h) PROVE IInv'
    BY <2>1, <2>4, AdmissionPreserves
  <2> QED
    BY <1>2, <2>2, <2>3, <2>4 DEF RelayGetsHello
<1>3. CASE Tick
    BY <1>3, HandshakeAssumption DEF Tick, IInv, Types, OneHello, SentFirst, Drawn, Remembered,
                NoReplay, Hello
<1>4. CASE Restart
    BY <1>4 DEF Restart, IInv, Types, OneHello, SentFirst, Drawn, Remembered, NoReplay, Hello
<1>5. CASE UNCHANGED <<now, hellos, seen, admitted>>
    BY <1>5 DEF IInv, Types, OneHello, SentFirst, Drawn, Remembered, NoReplay
<1> QED
    BY <1>1, <1>2, <1>3, <1>4, <1>5 DEF Next, Revoke, vars

\* Between two starts of the relay no hello is admitted twice (OneTimeValues with
\* twice the skew, handleAgentSocket), whatever the clocks, the table's limit and the
\* order and number of deliveries.
THEOREM HelloOnce == Spec => []NoReplay
<1>1. IInv => NoReplay
    BY DEF IInv
<1> QED
    BY <1>1, InitEstablishes, StepPreserves, PTL DEF Spec

-----------------------------------------------------------------------------
(* The limiter.                                                            *)

\* A set of indices has its greatest element.
LEMMA Greatest ==
    ASSUME NEW n \in Nat, NEW I \in SUBSET (1 .. n), I # {}
    PROVE  Max(I) \in I /\ \A i \in I : i <= Max(I)
<1> DEFINE T == {n - i : i \in I}
<1>1. T \in SUBSET Nat /\ T # {}
  <2>1. \A i \in I : n - i \in Nat
    OBVIOUS
  <2> QED
    BY <2>1
<1>2. \E x \in T : \A y \in T : ~ (<<y, x>> \in OpToRel(<, Nat))
    BY <1>1, WFMin, NatLessThanWellFounded
<1>3. \A x, y \in Nat : x <= y <=> ~ (<<y, x>> \in OpToRel(<, Nat))
    BY DEF OpToRel
<1>4. \E x \in T : \A y \in T : x <= y
    BY <1>1, <1>2, <1>3
<1>5. \E m \in I : \A i \in I : m >= i
  <2>1. PICK m \in I : \A y \in T : n - m <= y
    BY <1>4
  <2>2. \A i \in I : n - m <= n - i
    BY <2>1
  <2> QED
    BY <2>2
<1> HIDE DEF T
<1>6. Max(I) \in I /\ \A i \in I : Max(I) >= i
    BY <1>5 DEF Max
<1> QED
    BY <1>6

\* Recent keeps the end of the history, and nothing in it is a window old.
LEMMA RecentIsEnd ==
    ASSUME NEW times \in Seq(Nat), now \in Nat
    PROVE  \E k \in 0 .. Len(times) :
              /\ Recent(times) = SubSeq(times, k + 1, Len(times))
              /\ \A i \in k + 1 .. Len(times) : times[i] > now - LimitWindow
<1> DEFINE I == {i \in 1 .. Len(times) : times[i] <= now - LimitWindow}
           k == IF I # {} THEN Max(I) ELSE 0
<1>1. Recent(times) = SubSeq(times, k + 1, Len(times))
    BY DEF Recent, SelectLastInSeq
<1>2. Len(times) \in Nat /\ LimitWindow \in Nat /\ \A i \in 1 .. Len(times) : times[i] \in Nat
    BY HandshakeAssumption
<1>3. k \in 0 .. Len(times) /\ \A i \in I : i <= k
  <2>1. I # {} => Max(I) \in I /\ \A i \in I : i <= Max(I)
    BY <1>2, Greatest
  <2> QED
    BY <1>2, <2>1
<1>4. \A i \in k + 1 .. Len(times) : times[i] > now - LimitWindow
    BY <1>2, <1>3
<1> QED
    BY <1>1, <1>3, <1>4

\* With no window running, all attempts but the last AgentLimit - 1 are a window old.
Rested(times) ==
    \A i \in 1 .. Len(times) :
       i <= Len(times) + 1 - AgentLimit => times[i] + LimitWindow <= now

\* While one runs, what came before its attempts came before its start, and what came
\* AgentLimit attempts earlier a whole window before.
Running(times, h) ==
    /\ h.count >= 1 /\ h.resetAt <= now + LimitWindow
    /\ \A i \in 1 .. Len(times) :
         /\ i <= Len(times) + 1 - h.count => times[i] + LimitWindow <= h.resetAt
         /\ i <= Len(times) + 1 - h.count - AgentLimit =>
               times[i] + 2 * LimitWindow <= h.resetAt

Paced(times, h) ==
    /\ Len(times) < 2 * AgentLimit
    /\ \A i \in 1 .. Len(times) : times[i] <= now
    /\ (h = NoHits /\ Rested(times)) \/ Running(times, h)

Hit == [count : 0 .. AgentLimit, resetAt : Nat]

LimiterInv ==
    /\ now \in Nat
    /\ hits \in [Address -> Hit]
    /\ tries \in [Address -> Seq(Nat)]
    /\ \A a \in Address : Paced(tries[a], hits[a])

\* With the time of one window over, none runs.
LEMMA RunOut ==
    ASSUME now \in Nat, NEW times \in Seq(Nat), NEW h \in Hit,
           Running(times, h), h.resetAt <= now
    PROVE  Rested(times)
<1> SUFFICES ASSUME NEW i \in 1 .. Len(times), i <= Len(times) + 1 - AgentLimit
             PROVE  times[i] + LimitWindow <= now
    BY DEF Rested
<1>1. AgentLimit \in Nat /\ LimitWindow \in Nat
    BY HandshakeAssumption
<1>2. h.count \in 0 .. AgentLimit /\ h.resetAt \in Nat
    BY DEF Hit
<1>3. Len(times) \in Nat /\ times[i] \in Nat
    OBVIOUS
<1>4. i <= Len(times) + 1 - h.count
    BY <1>1, <1>2, <1>3
<1>5. times[i] + LimitWindow <= h.resetAt
    BY <1>4 DEF Running
<1> QED
    BY <1>1, <1>2, <1>3, <1>5

\* What is a window old may be left out of the history.
LEMMA RecentPaced ==
    ASSUME now \in Nat, NEW times \in Seq(Nat), NEW h \in Hit, Paced(times, h)
    PROVE  /\ Recent(times) \in Seq(Nat)
           /\ Paced(Recent(times), h)
           /\ \A i \in 1 .. Len(Recent(times)) : Recent(times)[i] > now - LimitWindow
<1>1. AgentLimit \in Nat /\ LimitWindow \in Nat /\ h.count \in 0 .. AgentLimit
    BY HandshakeAssumption DEF Hit
<1>2. PICK k \in 0 .. Len(times) :
              /\ Recent(times) = SubSeq(times, k + 1, Len(times))
              /\ \A i \in k + 1 .. Len(times) : times[i] > now - LimitWindow
    BY RecentIsEnd
<1>3. PICK end \in Seq(Nat) : end = Recent(times)
  <2>1. SubSeq(times, k + 1, Len(times)) \in Seq(Nat)
    OBVIOUS
  <2> QED
    BY <1>2, <2>1
<1>4. PICK n \in Nat : n = Len(end) /\ Len(times) = n + k /\ k \in Nat
  <2>1. Len(times) \in Nat /\ k \in Nat /\ k <= Len(times)
    OBVIOUS
  <2>2. Len(end) = Len(times) - k
    BY <1>2, <1>3
  <2>3. Len(end) \in Nat /\ Len(times) = Len(end) + k
    BY <2>1, <2>2
  <2> QED
    BY <2>3
<1>5. \A i \in 1 .. n : end[i] = times[i + k]
    BY <1>2, <1>3, <1>4
<1>6. \A i \in 1 .. n : /\ i + k \in 1 .. n + k /\ i + k \in k + 1 .. n + k
                        /\ end[i] > now - LimitWindow
  <2>1. \A i \in 1 .. n : i + k \in 1 .. n + k /\ i + k \in k + 1 .. n + k
    BY <1>4
  <2> QED
    BY <1>2, <1>4, <1>5, <2>1
<1>7. n < 2 * AgentLimit /\ \A i \in 1 .. n : end[i] <= now
  <2>1. n + k < 2 * AgentLimit /\ \A i \in 1 .. n + k : times[i] <= now
    BY <1>4 DEF Paced
  <2>2. n < 2 * AgentLimit
    BY <1>1, <1>4, <2>1
  <2> QED
    BY <1>5, <1>6, <2>1, <2>2
<1>8. Rested(times) => Rested(end)
  <2> SUFFICES ASSUME Rested(times), NEW i \in 1 .. n, i <= n + 1 - AgentLimit
               PROVE  end[i] + LimitWindow <= now
    BY <1>4 DEF Rested
  <2>1. i + k <= n + k + 1 - AgentLimit
    BY <1>1, <1>4
  <2> QED
    BY <1>4, <1>5, <1>6, <2>1 DEF Rested
<1>9. Running(times, h) => Running(end, h)
  <2> SUFFICES ASSUME Running(times, h), NEW i \in 1 .. n
               PROVE  /\ i <= n + 1 - h.count => end[i] + LimitWindow <= h.resetAt
                      /\ i <= n + 1 - h.count - AgentLimit =>
                            end[i] + 2 * LimitWindow <= h.resetAt
    BY <1>4 DEF Running
  <2>1. PICK c \in Nat : c = h.count
    BY <1>1
  <2>2. i <= n + 1 - c => i + k <= n + k + 1 - c
    BY <1>4
  <2>3. i <= n + 1 - c - AgentLimit => i + k <= n + k + 1 - c - AgentLimit
    BY <1>1, <1>4
  <2> QED
    BY <1>4, <1>5, <1>6, <2>1, <2>2, <2>3 DEF Running
<1>10. Paced(end, h)
    BY <1>4, <1>7, <1>8, <1>9 DEF Paced
<1> QED
    BY <1>3, <1>4, <1>6, <1>10

\* One more attempt, in the window that runs or in a new one.
LEMMA AppendPaced ==
    ASSUME now \in Nat, NEW times \in Seq(Nat), NEW h \in Hit, h.count < AgentLimit,
           Paced(times, h), \A i \in 1 .. Len(times) : times[i] > now - LimitWindow,
           NEW new \in Hit,
           IF h = NoHits
           THEN new.count = 1 /\ new.resetAt = now + LimitWindow
           ELSE new.count = h.count + 1 /\ new.resetAt = h.resetAt
    PROVE  Paced(Append(times, now), new)
<1>1. AgentLimit \in Nat /\ AgentLimit >= 1 /\ LimitWindow \in Nat /\ LimitWindow >= 1
    BY HandshakeAssumption
<1>2. h.count \in Nat /\ h.resetAt \in Nat /\ new.count \in Nat /\ new.resetAt \in Nat
    BY <1>1 DEF Hit
<1>3. PICK n \in Nat : n = Len(times)
    OBVIOUS
<1>4. \A i \in 1 .. n : times[i] \in Nat /\ times[i] <= now
    BY <1>3 DEF Paced
<1>5. PICK later \in Seq(Nat) : later = Append(times, now)
  <2>1. Append(times, now) \in Seq(Nat)
    OBVIOUS
  <2> QED
    BY <2>1
<1>6. Len(later) = n + 1 /\ later[n + 1] = now /\ \A i \in 1 .. n : later[i] = times[i]
    BY <1>3, <1>5
<1>7. \A i \in 1 .. Len(later) : later[i] <= now
    BY <1>4, <1>6
<1>8. CASE h = NoHits /\ Rested(times)
  <2>1. new.count = 1 /\ new.resetAt = now + LimitWindow
    BY <1>8
  <2>2. \A i \in 1 .. n : i <= n + 1 - AgentLimit => times[i] + LimitWindow <= now
    BY <1>3, <1>8 DEF Rested
  <2>3. Len(later) < 2 * AgentLimit
    <3> SUFFICES ASSUME n + 1 >= 2 * AgentLimit PROVE FALSE
      BY <1>1, <1>6
    <3>1. 1 \in 1 .. n /\ 1 <= n + 1 - AgentLimit
      BY <1>1
    <3> QED
      BY <1>1, <1>3, <1>4, <2>2, <3>1
  <2>4. \A i \in 1 .. n + 1 :
           i <= n + 1 - AgentLimit => later[i] + 2 * LimitWindow <= now + LimitWindow
    <3> SUFFICES ASSUME NEW i \in 1 .. n + 1, i <= n + 1 - AgentLimit
                 PROVE  later[i] + 2 * LimitWindow <= now + LimitWindow
      OBVIOUS
    <3>1. i \in 1 .. n
      BY <1>1
    <3>2. later[i] \in Nat /\ later[i] + LimitWindow <= now
      BY <1>4, <1>6, <2>2, <3>1
    <3> QED
      BY <1>1, <3>2
  <2>5. \A i \in 1 .. n + 1 : later[i] + LimitWindow <= now + LimitWindow
    BY <1>1, <1>6, <1>7
  <2>6. Running(later, new)
    BY <1>1, <1>6, <2>1, <2>4, <2>5 DEF Running
  <2> QED
    BY <1>5, <1>7, <2>3, <2>6 DEF Paced
<1>9. CASE h # NoHits /\ Running(times, h)
  <2>1. new.count = h.count + 1 /\ new.resetAt = h.resetAt
    BY <1>9
  <2>2. /\ h.count >= 1 /\ h.resetAt <= now + LimitWindow
        /\ \A i \in 1 .. n :
             /\ i <= n + 1 - h.count => times[i] + LimitWindow <= h.resetAt
             /\ i <= n + 1 - h.count - AgentLimit => times[i] + 2 * LimitWindow <= h.resetAt
    BY <1>3, <1>9 DEF Running
  <2>3. Len(later) < 2 * AgentLimit
    <3> SUFFICES ASSUME n + 1 >= 2 * AgentLimit PROVE FALSE
      BY <1>1, <1>6
    <3>1. 1 \in 1 .. n /\ 1 <= n + 1 - h.count - AgentLimit
      BY <1>1, <1>2
    <3>2. times[1] + 2 * LimitWindow <= h.resetAt
      BY <2>2, <3>1
    <3>3. times[1] \in Nat /\ times[1] > now - LimitWindow
      BY <1>3, <1>4, <3>1
    <3>4. h.resetAt <= now + LimitWindow
      BY <2>2
    <3> QED
      BY <1>1, <1>2, <3>2, <3>3, <3>4
  <2>4. \A i \in 1 .. n + 1 :
           i <= n + 1 + 1 - new.count => later[i] + LimitWindow <= new.resetAt
    <3> SUFFICES ASSUME NEW i \in 1 .. n + 1, i <= n + 1 + 1 - new.count
                 PROVE  later[i] + LimitWindow <= h.resetAt
      BY <2>1
    <3>1. h.count >= 1
      BY <2>2
    <3>2. i \in 1 .. n /\ i <= n + 1 - h.count
      BY <1>2, <2>1, <3>1
    <3> QED
      BY <1>6, <2>2, <3>2
  <2>5. \A i \in 1 .. n + 1 :
           i <= n + 1 + 1 - new.count - AgentLimit =>
              later[i] + 2 * LimitWindow <= new.resetAt
    <3> SUFFICES ASSUME NEW i \in 1 .. n + 1, i <= n + 1 + 1 - new.count - AgentLimit
                 PROVE  later[i] + 2 * LimitWindow <= h.resetAt
      BY <2>1
    <3>1. h.count >= 1
      BY <2>2
    <3>2. i \in 1 .. n /\ i <= n + 1 - h.count - AgentLimit
      BY <1>1, <1>2, <2>1, <3>1
    <3> QED
      BY <1>6, <2>2, <3>2
  <2>6. Running(later, new)
    <3>1. new.count >= 1 /\ new.resetAt <= now + LimitWindow
      BY <1>2, <2>1, <2>2
    <3> QED
      BY <1>6, <2>4, <2>5, <3>1 DEF Running
  <2> QED
    BY <1>5, <1>7, <2>3, <2>6 DEF Paced
<1>10. ~(NoHits.count >= 1)
    BY DEF NoHits
<1> QED
    BY <1>8, <1>9, <1>10 DEF Paced, Running

\* An entry of RateLimiter that has run out may be dropped at any time.
LEMMA LapsePaced ==
    ASSUME LimiterInv, NEW a \in Address
    PROVE  Lapse(a) \in Hit /\ Paced(tries[a], Lapse(a))
<1>1. now \in Nat /\ tries[a] \in Seq(Nat) /\ hits[a] \in Hit /\ Paced(tries[a], hits[a])
    BY DEF LimiterInv
<1>2. NoHits \in Hit
    BY HandshakeAssumption DEF NoHits, Hit
<1>3. CASE Expired(hits[a])
  <2>1. Running(tries[a], hits[a]) => Rested(tries[a])
    BY <1>1, <1>3, RunOut DEF Expired
  <2> QED
    BY <1>1, <1>2, <1>3, <2>1 DEF Lapse, Paced
<1> QED
    BY <1>1, <1>3 DEF Lapse

\* An attempt that RateLimiter lets through.
LEMMA AttemptPaced ==
    ASSUME LimiterInv, NEW a \in Address, Allowed(a)
    PROVE  /\ Count(a) \in [Address -> Hit]
           /\ Append(Recent(tries[a]), now) \in Seq(Nat)
           /\ Paced(Append(Recent(tries[a]), now), Count(a)[a])
<1>1. now \in Nat /\ tries[a] \in Seq(Nat) /\ hits[a] \in Hit
    BY DEF LimiterInv
<1>2. Lapse(a) \in Hit /\ Paced(tries[a], Lapse(a)) /\ Lapse(a).count < AgentLimit
    BY LapsePaced DEF Allowed
<1>3. /\ Recent(tries[a]) \in Seq(Nat)
      /\ Paced(Recent(tries[a]), Lapse(a))
      /\ \A i \in 1 .. Len(Recent(tries[a])) : Recent(tries[a])[i] > now - LimitWindow
    BY <1>1, <1>2, RecentPaced
<1>4. AgentLimit \in Nat \ {0} /\ LimitWindow \in Nat
    BY HandshakeAssumption
<1>5. /\ Count(a)[a] \in Hit
      /\ IF Lapse(a) = NoHits
         THEN Count(a)[a].count = 1 /\ Count(a)[a].resetAt = now + LimitWindow
         ELSE Count(a)[a].count = Lapse(a).count + 1 /\ Count(a)[a].resetAt = Lapse(a).resetAt
  <2>1. CASE Lapse(a) = NoHits
    <3>1. Count(a)[a] = [count |-> 1, resetAt |-> now + LimitWindow]
      BY <2>1 DEF Count
    <3> QED
      BY <1>1, <1>4, <2>1, <3>1 DEF Hit
  <2>2. CASE Lapse(a) # NoHits
    <3>1. Lapse(a) = hits[a]
      BY <2>2 DEF Lapse
    <3>2. Count(a)[a] = [hits[a] EXCEPT !.count = @ + 1]
      BY <2>2 DEF Count
    <3>3. hits[a].count + 1 \in 0 .. AgentLimit
      BY <1>2, <1>4, <3>1 DEF Hit
    <3> QED
      BY <1>1, <2>2, <3>1, <3>2, <3>3 DEF Hit
  <2> QED
    BY <2>1, <2>2
<1>6. Paced(Append(Recent(tries[a]), now), Count(a)[a])
    BY <1>1, <1>2, <1>3, <1>5, AppendPaced
<1>7. Count(a) \in [Address -> Hit]
  <2>1. \A b \in Address : Lapse(b) \in Hit
    BY LapsePaced
  <2>2. \A b \in Address : b # a => Count(a)[b] = Lapse(b)
    BY DEF Count
  <2> QED
    BY <1>5, <2>1, <2>2 DEF Count
<1> QED
    BY <1>1, <1>3, <1>6, <1>7

\* An address without attempts.
LEMMA FreshPaced ==
    ASSUME now \in Nat
    PROVE  /\ NoHits \in Hit
           /\ <<>> \in Seq(Nat)
           /\ Paced(<<>>, NoHits)
<1>1. AgentLimit \in Nat \ {0}
    BY HandshakeAssumption
<1>2. Len(<<>>) = 0
    OBVIOUS
<1> QED
    BY <1>1, <1>2 DEF NoHits, Hit, Paced, Rested

LEMMA LimiterInit == Init => LimiterInv
BY FreshPaced DEF Init, LimiterInv

\* An attempt of one address leaves those of the others paced.
LEMMA HandlingPaced ==
    ASSUME LimiterInv, NEW a \in Address, now' = now,
           \/ hits' = [b \in Address |-> Lapse(b)] /\ tries' = tries
           \/ Allowed(a) /\ hits' = Count(a) /\ tries' = Tried(a)
           \/ Allowed(a) /\ hits' = Reset(Count(a), a) /\ tries' = [tries EXCEPT ![a] = <<>>]
    PROVE  LimiterInv'
<1>1. now \in Nat /\ tries \in [Address -> Seq(Nat)]
    BY DEF LimiterInv
<1>2. \A b \in Address : Lapse(b) \in Hit /\ Paced(tries[b], Lapse(b))
    BY LapsePaced
<1>3. \A b \in Address : b # a => Count(a)[b] = Lapse(b)
    BY DEF Count
<1>4. \A times, h : Paced(times, h)' <=> Paced(times, h)
    BY DEF Paced, Rested, Running
<1>5. CASE hits' = [b \in Address |-> Lapse(b)] /\ tries' = tries
    BY <1>1, <1>2, <1>4, <1>5 DEF LimiterInv
<1>6. CASE Allowed(a) /\ hits' = Count(a) /\ tries' = Tried(a)
    BY <1>1, <1>2, <1>3, <1>4, <1>6, AttemptPaced DEF LimiterInv, Tried
<1>7. CASE Allowed(a) /\ hits' = Reset(Count(a), a) /\ tries' = [tries EXCEPT ![a] = <<>>]
    BY <1>1, <1>2, <1>3, <1>4, <1>7, AttemptPaced, FreshPaced DEF LimiterInv, Reset
<1> QED
    BY <1>5, <1>6, <1>7

\* Time goes on: a window that ran still ends within one length, and what is old
\* stays so.
LEMMA TickPaced ==
    ASSUME LimiterInv, Tick
    PROVE  LimiterInv'
<1>1. now \in Nat /\ now' = now + 1 /\ UNCHANGED <<hits, tries>> /\ LimitWindow \in Nat
    BY HandshakeAssumption DEF Tick, LimiterInv
<1>2. ASSUME NEW a \in Address PROVE Paced(tries[a], hits[a])'
  <2>1. tries[a] \in Seq(Nat) /\ hits[a] \in Hit /\ Paced(tries[a], hits[a])
    BY DEF LimiterInv
  <2>2. \A i \in 1 .. Len(tries[a]) : tries[a][i] \in Nat
    BY <2>1
  <2>3. Rested(tries[a]) => Rested(tries[a])'
    BY <1>1, <2>2 DEF Rested
  <2>4. Running(tries[a], hits[a]) => Running(tries[a], hits[a])'
    BY <1>1, <2>1, <2>2 DEF Running, Hit
  <2> QED
    BY <1>1, <2>1, <2>2, <2>3, <2>4 DEF Paced
<1> QED
    BY <1>1, <1>2 DEF LimiterInv

\* In no window's length are there twice AgentLimit attempts without a success
\* (RateLimiter, auth.ts:135-141), for any limit, window and number of addresses.
THEOREM AttemptsBounded == Spec => []BurstBounded
<1>1. LimiterInv /\ [Next]_vars => LimiterInv'
  <2> SUFFICES ASSUME LimiterInv, [Next]_vars PROVE LimiterInv'
    OBVIOUS
  <2>1. ASSUME NEW h \in hellos, NEW peer \in Address, NEW forwarded \in Address \cup {None},
               RelayGetsHello(h, peer, forwarded)
        PROVE  LimiterInv'
    <3>1. clientKey(peer, forwarded) \in Address
      BY DEF clientKey
    <3>2. now' = now
      BY <2>1 DEF RelayGetsHello
    <3>3. PICK a \in Address :
             \/ Throttle(a) \/ RefuseUnread(a, h) \/ RefuseNonce(a, h)
             \/ RefuseSignature(a, h) \/ Admit(a, h)
      BY <2>1, <3>1 DEF RelayGetsHello
    <3> QED
      BY <3>2, <3>3, HandlingPaced
         DEF Throttle, RefuseUnread, RefuseNonce, RefuseSignature, Admit
  <2>2. CASE Tick
    BY <2>2, TickPaced
  <2>3. CASE Restart
    BY <2>3, FreshPaced DEF Restart, LimiterInv, Paced, Rested
  <2>4. CASE UNCHANGED <<now, hits, tries>>
    BY <2>4 DEF LimiterInv, Paced, Rested, Running
  <2> QED
    BY <2>1, <2>2, <2>3, <2>4 DEF Next, HostSaysHello, Revoke, vars
<1>2. LimiterInv => BurstBounded
  <2> SUFFICES ASSUME LimiterInv, NEW a \in Address
               PROVE  Len(Recent(tries[a])) < 2 * AgentLimit
    BY DEF BurstBounded
  <2>1. now \in Nat /\ tries[a] \in Seq(Nat) /\ hits[a] \in Hit /\ Paced(tries[a], hits[a])
    BY DEF LimiterInv
  <2>2. Paced(Recent(tries[a]), hits[a])
    BY <2>1, RecentPaced
  <2> QED
    BY <2>2 DEF Paced
<1> QED
    BY <1>1, <1>2, LimiterInit, PTL DEF Spec

-----------------------------------------------------------------------------
(* Types.                                                                  *)

\* The limiter's table keeps its type, and no count passes the limit (RateLimiter).
LEMMA LimiterTypes ==
    ASSUME TypeOK, NEW a \in Address
    PROVE  /\ [b \in Address |-> Lapse(b)] \in
                 [Address -> [count : 0 .. AgentLimit, resetAt : Nat]]
           /\ Allowed(a) => Count(a) \in [Address -> [count : 0 .. AgentLimit, resetAt : Nat]]
<1> USE DEF Hit
<1>1. AgentLimit \in Nat \ {0} /\ LimitWindow \in Nat
    BY HandshakeAssumption
<1>2. \A b \in Address : hits[b] \in Hit
    BY DEF TypeOK
<1>3. NoHits \in Hit
    BY <1>1 DEF NoHits
<1>4. \A b \in Address : Lapse(b) \in Hit
    BY <1>2, <1>3 DEF Lapse
<1>5. ASSUME Allowed(a) PROVE Count(a)[a] \in Hit
  <2>1. CASE Lapse(a) = NoHits
    <3>1. [count |-> 1, resetAt |-> now + LimitWindow] \in Hit
      BY <1>1 DEF TypeOK
    <3> QED
      BY <2>1, <3>1 DEF Count
  <2>2. CASE Lapse(a) # NoHits
    <3>1. hits[a].count < AgentLimit
      BY <1>5, <2>2 DEF Allowed, Lapse
    <3>2. [hits[a] EXCEPT !.count = @ + 1] \in Hit
      BY <1>1, <1>2, <3>1
    <3> QED
      BY <2>2, <3>2 DEF Count
  <2> QED
    BY <2>1, <2>2
<1>6. ASSUME Allowed(a) PROVE Count(a) \in [Address -> Hit]
  <2>1. \A b \in Address : Count(a)[b] \in Hit
    BY <1>4, <1>5, <1>6 DEF Count
  <2> QED
    BY <2>1 DEF Count
<1> QED
    BY <1>4, <1>6

\* A hello that is handled keeps the type, whatever becomes of it.
LEMMA HandlingTypes ==
    ASSUME TypeOK, NEW h \in hellos, NEW peer \in Address, NEW forwarded \in Address \cup {None},
           RelayGetsHello(h, peer, forwarded)
    PROVE  TypeOK'
<1> DEFINE a == clientKey(peer, forwarded)
<1>1. a \in Address
    BY DEF clientKey
<1>2. h.nonce \in Nonce
    BY DEF TypeOK, Hello
<1>3. hits' \in [Address -> [count : 0 .. AgentLimit, resetAt : Nat]]
  <2>1. \/ hits' = [b \in Address |-> Lapse(b)]
        \/ Allowed(a) /\ hits' = Count(a)
        \/ Allowed(a) /\ hits' = Reset(Count(a), a)
    BY DEF RelayGetsHello, Throttle, RefuseUnread, RefuseNonce, RefuseSignature, Admit
  <2>2. NoHits \in [count : 0 .. AgentLimit, resetAt : Nat]
    BY HandshakeAssumption DEF NoHits
  <2> HIDE DEF a
  <2> QED
    BY <1>1, <2>1, <2>2, LimiterTypes DEF Reset
<1>4. seen' = seen \/ seen' = Prune(seen) \/ seen' = Add(h.nonce)
    BY DEF RelayGetsHello, Throttle, RefuseUnread, RefuseNonce, RefuseSignature, Admit
<1>5. seen' \subseteq [nonce : Nonce, at : Nat]
    BY <1>2, <1>4 DEF TypeOK, Prune, Add
<1>6. admitted' \in [Nonce -> Nat]
  <2>1. admitted' = admitted \/ admitted' = [admitted EXCEPT ![h.nonce] = @ + 1]
    BY DEF RelayGetsHello, Throttle, RefuseUnread, RefuseNonce, RefuseSignature, Admit
  <2>2. admitted \in [Nonce -> Nat] /\ admitted[h.nonce] + 1 \in Nat
    BY <1>2 DEF TypeOK
  <2> QED
    BY <2>1, <2>2
<1>7. tries' \in [Address -> Seq(Nat)]
  <2>1. now \in Nat /\ tries \in [Address -> Seq(Nat)]
    BY DEF TypeOK
  <2>2. Append(Recent(tries[a]), now) \in Seq(Nat)
    <3>1. PICK k \in 0 .. Len(tries[a]) :
             Recent(tries[a]) = SubSeq(tries[a], k + 1, Len(tries[a]))
      BY <1>1, <2>1, RecentIsEnd
    <3>2. Recent(tries[a]) \in Seq(Nat)
      BY <1>1, <2>1, <3>1
    <3> QED
      BY <2>1, <3>2
  <2>3. tries' = tries \/ tries' = Tried(a) \/ tries' = [tries EXCEPT ![a] = <<>>]
    BY DEF RelayGetsHello, Throttle, RefuseUnread, RefuseNonce, RefuseSignature, Admit
  <2>4. <<>> \in Seq(Nat)
    OBVIOUS
  <2> HIDE DEF a
  <2> QED
    BY <1>1, <2>1, <2>2, <2>3, <2>4 DEF Tried
<1>8. UNCHANGED <<now, live, hellos, restarts>>
    BY DEF RelayGetsHello
<1> HIDE DEF a
<1> QED
    BY <1>3, <1>5, <1>6, <1>7, <1>8 DEF TypeOK

\* The state keeps its type for any constants: the table holds nonces and times, and
\* no address is counted past the limit (OneTimeValues, RateLimiter).
THEOREM TypeCorrect == Spec => []TypeOK
<1>1. Init => TypeOK
    BY HandshakeAssumption DEF Init, TypeOK, NoHits
<1>2. TypeOK /\ [Next]_vars => TypeOK'
  <2> SUFFICES ASSUME TypeOK, [Next]_vars PROVE TypeOK'
    OBVIOUS
  <2>1. ASSUME NEW a \in Agent, NEW m \in BOOLEAN, NEW d \in Drift, HostSaysHello(a, m, d)
        PROVE  TypeOK'
    BY <2>1, HandshakeAssumption DEF HostSaysHello, TypeOK, Hello
  <2>2. ASSUME NEW h \in hellos, NEW peer \in Address, NEW forwarded \in Address \cup {None},
               RelayGetsHello(h, peer, forwarded)
        PROVE  TypeOK'
    BY <2>2, HandlingTypes
  <2>3. ASSUME NEW a \in Agent, Revoke(a) PROVE TypeOK'
    BY <2>3 DEF Revoke, TypeOK
  <2>4. CASE Tick
    BY <2>4 DEF Tick, TypeOK
  <2>5. CASE Restart
    BY <2>5, HandshakeAssumption DEF Restart, TypeOK, NoHits
  <2>6. CASE UNCHANGED vars
    BY <2>6 DEF vars, TypeOK
  <2> QED
    BY <2>1, <2>2, <2>3, <2>4, <2>5, <2>6 DEF Next
<1> QED
    BY <1>1, <1>2, PTL DEF Spec
=============================================================================
