------------------------ MODULE BrowserAccessProofs ------------------------
(***************************************************************************)
(* Theorems about BrowserAccess, for any number of browsers, credentials   *)
(* and challenges and any lifetimes.                                       *)
(***************************************************************************)
EXTENDS BrowserAccess, TLAPS, WellFoundedInduction

\* What the state of the challenges looks like.
ChallengeType ==
    /\ DOMAIN challenges = Nonces
    /\ granted \in [Nonces -> 0 .. 1]
    /\ \A p \in posts : p.nonce \in Nonces
    /\ login # None => login.nonce \in Nonces \cup {None}

\* A challenge in the table has led to no session, and no login is about to.
PendingUnspent ==
    \A n \in Nonces : challenges[n] # None =>
        granted[n] = 0 /\ (login # None => login.nonce # n)

\* A login that is verified is the first for its challenge.
LoginIsFirst == login # None /\ login.nonce # None => granted[login.nonce] = 0

\* Who signed a challenge that is spent has kept the post, so the nonce is not new.
SpentIsKept ==
    \A n \in Nonces :
        granted[n] # 0 \/ (login # None /\ login.nonce = n) => \E p \in posts : p.nonce = n

\* The inductive invariant of the challenges.
ChallengeInv == ChallengeType /\ PendingUnspent /\ LoginIsFirst /\ SpentIsKept

\* It holds when the relay starts.
LEMMA ChallengeInit == Init => ChallengeInv
BY DEF Init, ChallengeInv, ChallengeType, PendingUnspent, LoginIsFirst, SpentIsKept

\* A step that only takes challenges off the table keeps it.
LEMMA ChallengeIdle ==
    ASSUME ChallengeInv, UNCHANGED <<granted, posts>>, login' \in {login, None},
           DOMAIN challenges' = Nonces,
           \A n \in Nonces : challenges'[n] # None => challenges[n] # None
    PROVE  ChallengeInv'
<1> USE DEF ChallengeInv
<1>1. ChallengeType'
    BY DEF ChallengeType
<1>2. PendingUnspent'
    BY DEF PendingUnspent
<1>3. LoginIsFirst'
    BY DEF LoginIsFirst
<1>4. SpentIsKept'
    BY DEF SpentIsKept
<1> QED
    BY <1>1, <1>2, <1>3, <1>4

\* A new challenge: nothing is left of an earlier use of its nonce (OneTimeValues.add).
LEMMA ChallengeIssued ==
    ASSUME ChallengeInv, NEW b \in Browsers, NEW n \in Nonces, Challenge(b, n)
    PROVE  ChallengeInv'
<1>1. granted[n] = 0 /\ login = None /\ login' = None /\ granted' = granted
    BY DEF Challenge, ChallengeInv, SpentIsKept
<1>2. posts \subseteq posts' /\ \A p \in posts' \ posts : p.nonce = n
    BY DEF Challenge, Post
<1>3. DOMAIN challenges' = Nonces
    BY DEF Challenge, Pruned
<1>4. \A m \in Nonces \ {n} : challenges'[m] # None => challenges[m] # None
    BY DEF Challenge, Pruned, Pending
<1>5. ChallengeType'
    BY <1>1, <1>2, <1>3 DEF ChallengeInv, ChallengeType
<1>6. PendingUnspent'
    BY <1>1, <1>4 DEF ChallengeInv, PendingUnspent
<1>7. LoginIsFirst'
    BY <1>1 DEF LoginIsFirst
<1>8. SpentIsKept'
    BY <1>1, <1>2 DEF ChallengeInv, SpentIsKept
<1> QED
    BY <1>5, <1>6, <1>7, <1>8 DEF ChallengeInv

\* The verify handler: taking the challenge is what makes its login the only one.
LEMMA ChallengeTaken ==
    ASSUME ChallengeInv, NEW p \in posts, Verify(p)
    PROVE  ChallengeInv'
<1>1. p.nonce \in Nonces /\ login = None /\ UNCHANGED <<posts, granted>>
    BY DEF Verify, browserVars, ChallengeInv, ChallengeType
<1>2. /\ DOMAIN challenges' = Nonces /\ challenges'[p.nonce] = None
      /\ \A n \in Nonces : challenges'[n] # None => challenges[n] # None
    BY <1>1 DEF Verify, Take, Pruned, Pending
<1>3. CASE login' = login
    BY <1>1, <1>2, <1>3, ChallengeIdle
<1>4. CASE p.nonce \in Pending /\ login' = p
  <2>1. granted[p.nonce] = 0
    BY <1>4 DEF Pending, ChallengeInv, PendingUnspent
  <2>2. ChallengeType'
    BY <1>1, <1>2, <1>4 DEF ChallengeInv, ChallengeType
  <2>3. PendingUnspent'
    BY <1>1, <1>2, <1>4 DEF ChallengeInv, PendingUnspent
  <2>4. LoginIsFirst'
    BY <1>1, <1>4, <2>1 DEF LoginIsFirst
  <2>5. SpentIsKept'
    BY <1>1, <1>4 DEF ChallengeInv, SpentIsKept
  <2> QED
    BY <2>2, <2>3, <2>4, <2>5 DEF ChallengeInv
<1> QED
    BY <1>3, <1>4 DEF Verify

\* A login by token has no challenge.
LEMMA TokenHasNoChallenge ==
    ASSUME ChallengeInv, NEW b \in Browsers, NEW c \in Tokens[b], LoginWithToken(b, c)
    PROVE  ChallengeInv'
<1>1. login'.nonce = None /\ UNCHANGED <<challenges, posts, granted>>
    BY DEF LoginWithToken
<1> QED
    BY <1>1, ConstantsAssumption
    DEF ChallengeInv, ChallengeType, PendingUnspent, LoginIsFirst, SpentIsKept

\* The session is created: the first for its challenge, which is off the table.
LEMMA ChallengeGranted == ChallengeInv /\ CreateSession => ChallengeInv'
<1> SUFFICES ASSUME ChallengeInv, CreateSession PROVE ChallengeInv'
    OBVIOUS
<1>1. login # None /\ login' = None /\ UNCHANGED <<challenges, posts>>
    BY DEF CreateSession
<1>2. CASE login.nonce = None
    BY <1>1, <1>2, ChallengeIdle DEF CreateSession, ChallengeInv, ChallengeType
<1>3. CASE login.nonce # None
  <2>1. login.nonce \in Nonces /\ granted[login.nonce] = 0 /\ challenges[login.nonce] = None
    BY <1>1, <1>3 DEF ChallengeInv, ChallengeType, LoginIsFirst, PendingUnspent
  <2>2. granted' = [granted EXCEPT ![login.nonce] = 1]
    BY <1>3, <2>1 DEF CreateSession, ChallengeInv, ChallengeType
  <2>3. ChallengeType'
    BY <1>1, <2>1, <2>2 DEF ChallengeInv, ChallengeType
  <2>4. PendingUnspent'
    BY <1>1, <2>1, <2>2 DEF ChallengeInv, ChallengeType, PendingUnspent
  <2>5. LoginIsFirst'
    BY <1>1 DEF LoginIsFirst
  <2>6. SpentIsKept'
    BY <1>1, <2>1, <2>2 DEF ChallengeInv, ChallengeType, SpentIsKept
  <2> QED
    BY <2>3, <2>4, <2>5, <2>6 DEF ChallengeInv
<1> QED
    BY <1>2, <1>3

\* When a post is gone its nonce is new again.
LEMMA PostForgotten ==
    ASSUME ChallengeInv, NEW p \in posts, PostGone(p)
    PROVE  ChallengeInv'
<1>1. /\ login = None /\ login' = None /\ challenges' = challenges
      /\ posts' = posts \ {p} /\ granted' = [granted EXCEPT ![p.nonce] = 0]
    BY DEF PostGone
<1>2. p.nonce \in Nonces /\ \A n \in Nonces : granted'[n] # 0 => n # p.nonce /\ granted[n] # 0
    BY <1>1 DEF ChallengeInv, ChallengeType
<1>3. ChallengeType'
    BY <1>1, <1>2 DEF ChallengeInv, ChallengeType
<1>4. PendingUnspent'
    BY <1>1, <1>2 DEF ChallengeInv, PendingUnspent
<1>5. LoginIsFirst'
    BY <1>1 DEF LoginIsFirst
<1>6. SpentIsKept'
    BY <1>1, <1>2 DEF ChallengeInv, SpentIsKept
<1> QED
    BY <1>3, <1>4, <1>5, <1>6 DEF ChallengeInv

\* Every step keeps the invariant of the challenges.
LEMMA ChallengeStep == ChallengeInv /\ [Next]_vars => ChallengeInv'
<1> SUFFICES ASSUME ChallengeInv, [Next]_vars PROVE ChallengeInv'
    OBVIOUS
<1>1. ASSUME UNCHANGED <<challenges, login, posts, granted>> PROVE ChallengeInv'
    BY <1>1, ChallengeIdle DEF ChallengeInv, ChallengeType
<1>2. ASSUME NEW b \in Browsers, NEW n \in Nonces, Challenge(b, n) PROVE ChallengeInv'
    BY <1>2, ChallengeIssued
<1>3. ASSUME NEW b \in Browsers, Logout(b) \/ CookieGone(b) \/ TokenRefused(b)
      PROVE  ChallengeInv'
    BY <1>1, <1>3 DEF Logout, CookieGone, TokenRefused
<1>4. ASSUME NEW p \in posts, Verify(p) PROVE ChallengeInv'
    BY <1>4, ChallengeTaken
<1>5. ASSUME NEW p \in posts, PostGone(p) PROVE ChallengeInv'
    BY <1>5, PostForgotten
<1>6. ASSUME NEW b \in Browsers, NEW c \in Tokens[b], LoginWithToken(b, c) PROVE ChallengeInv'
    BY <1>6, TokenHasNoChallenge
<1>7. CASE CreateSession
    BY <1>7, ChallengeGranted
<1>8. ASSUME NEW b \in Browsers, NEW a \in Agents, Request(b, a) \/ Upgrade(b, a)
      PROVE  ChallengeInv'
    BY <1>1, <1>8 DEF Request, Upgrade
<1>9. ASSUME NEW x \in exchanges, ExchangeEnds(x) PROVE ChallengeInv'
    BY <1>1, <1>9 DEF ExchangeEnds, browserVars
<1>10. ASSUME NEW a \in Agents, RevokeAgent(a) PROVE ChallengeInv'
    BY <1>1, <1>10 DEF RevokeAgent, browserVars
<1>11. ASSUME NEW c \in Clients, CredentialEnds(c) PROVE ChallengeInv'
    BY <1>1, <1>11 DEF CredentialEnds, browserVars
<1>12. CASE Tick
    BY <1>12, ChallengeIdle DEF Tick, browserVars
<1>13. CASE TouchThrows \/ RelayRestarts
    BY <1>13, ChallengeIdle DEF TouchThrows, RelayRestarts, RelayGone, browserVars
<1>14. CASE UNCHANGED vars
    BY <1>1, <1>14 DEF vars, browserVars
<1> QED
    BY <1>2, <1>3, <1>4, <1>5, <1>6, <1>7, <1>8, <1>9, <1>10, <1>11, <1>12, <1>13, <1>14
    DEF Next

\* A signed challenge is good for one session (OneTimeValues.take, verify handler).
THEOREM OneSession == Spec => []OneSessionPerChallenge
<1>1. ChallengeInv => OneSessionPerChallenge
    BY DEF ChallengeInv, ChallengeType, OneSessionPerChallenge
<1> QED
    BY <1>1, ChallengeInit, ChallengeStep, PTL DEF Spec
-----------------------------------------------------------------------------
(* The gate.                                                               *)

\* What passes the gate belongs to a live credential and to a host in its reach.
LEMMA ProceedIsAuthorized ==
    ASSUME NEW b \in Browsers, NEW a \in Agents, Proceed(b, a), NEW x \in exchanges' \ exchanges
    PROVE  Live(x.client) /\ x.agent \in Scope[x.client] \ revoked
<1>1. PICK s \in Session(b) : /\ a \in Scope[s.client] \ revoked
                             /\ exchanges' = exchanges \cup {Exchange(s, a)}
    BY DEF Proceed, scopeMayReach
<1>2. Live(s.client)
    BY DEF Session, Authorized
<1>3. x.client = s.client /\ x.agent = a
    BY <1>1 DEF Exchange
<1> QED
    BY <1>1, <1>2, <1>3

\* No exchange begins for a credential that has ended, nor for a host that is revoked or
\* out of scope (resolveLiveSession, scopeMayReach, liveAuthorizedTunnel).
THEOREM Authorization == Spec => OnlyAuthorized
<1> DEFINE Authorized0 ==
        \A x \in exchanges' \ exchanges :
            Live(x.client) /\ x.agent \in Scope[x.client] \ revoked
<1>1. [Next]_vars => [Authorized0]_vars
  <2> SUFFICES ASSUME Next, NEW x \in exchanges' \ exchanges
               PROVE  Live(x.client) /\ x.agent \in Scope[x.client] \ revoked
    OBVIOUS
  <2>1. PICK b \in Browsers, a \in Agents : Proceed(b, a)
    BY DEF Next, Challenge, Logout, CookieGone, TokenRefused, Verify, PostGone, LoginWithToken,
           CreateSession, Request, Upgrade, ExchangeEnds, RevokeAgent, CredentialEnds, Tick,
           TouchThrows, RelayRestarts, RelayGone
  <2> QED
    BY <2>1, ProceedIsAuthorized
<1> QED
    BY <1>1, PTL DEF Spec, OnlyAuthorized
-----------------------------------------------------------------------------
(* The sessions.                                                           *)

\* Induction over the numbers, from the order on them.
LEMMA Counting ==
    ASSUME NEW T \in SUBSET Nat, 0 \in T, \A n \in T : n + 1 \in T
    PROVE  T = Nat
<1> SUFFICES ASSUME Nat \ T # {} PROVE FALSE
    OBVIOUS
<1>1. \E x \in Nat \ T : \A y \in Nat \ T : ~ (<<y, x>> \in OpToRel(<, Nat))
    BY WFMin, NatLessThanWellFounded
<1>2. \A x, y \in Nat : y < x => <<y, x>> \in OpToRel(<, Nat)
    BY DEF OpToRel
<1>3. PICK x \in Nat \ T : \A y \in Nat \ T : ~ (y < x)
    BY <1>1, <1>2
<1>4. x # 0 /\ x - 1 \in Nat /\ x - 1 < x /\ x - 1 + 1 = x
    BY <1>3
<1>5. x - 1 \in T
    BY <1>3, <1>4
<1> QED
    BY <1>3, <1>4, <1>5

\* What Kept builds up, as a function of the length that is done.
Part(list, keep, done) ==
    [n \in 0 .. Len(list) |->
        IF n = 0 THEN <<>>
        ELSE IF n \in keep THEN Append(done[n - 1], list[n]) ELSE done[n - 1]]

Builds(list, keep, done, m) ==
    /\ done[0] = <<>>
    /\ \A n \in 1 .. m :
          done[n] = IF n \in keep THEN Append(done[n - 1], list[n]) ELSE done[n - 1]

\* There is such a function.
LEMMA PartExists ==
    ASSUME NEW S, NEW list \in Seq(S), NEW keep
    PROVE  \E done : done = Part(list, keep, done)
<1>1. Len(list) \in Nat
    OBVIOUS
<1> DEFINE T == {m \in Nat : \E done : /\ done = [n \in 0 .. m |-> done[n]]
                                        /\ Builds(list, keep, done, m)}
<1>2. 0 \in T
  <2> DEFINE done == [n \in 0 .. 0 |-> <<>>]
  <2>1. done = [n \in 0 .. 0 |-> done[n]] /\ Builds(list, keep, done, 0)
    BY DEF Builds
  <2> QED
    BY <2>1
<1>3. ASSUME NEW m \in T PROVE m + 1 \in T
  <2>1. PICK old : Builds(list, keep, old, m)
    OBVIOUS
  <2> DEFINE last == IF m + 1 \in keep THEN Append(old[m], list[m + 1]) ELSE old[m]
             done == [n \in 0 .. m + 1 |-> IF n = m + 1 THEN last ELSE old[n]]
  <2>2. /\ m \in Nat /\ done = [n \in 0 .. m + 1 |-> done[n]] /\ done[m + 1] = last
        /\ \A n \in 0 .. m : done[n] = old[n]
    OBVIOUS
  <2> HIDE DEF done
  <2>3. done[0] = <<>>
    <3>1. 0 \in 0 .. m
      BY <2>2
    <3> QED
      BY <2>1, <2>2, <3>1 DEF Builds
  <2>4. ASSUME NEW n \in 1 .. m + 1
        PROVE  done[n] = IF n \in keep THEN Append(done[n - 1], list[n]) ELSE done[n - 1]
    <3>1. CASE n = m + 1
      <4>1. n - 1 = m /\ m \in 0 .. m
        BY <2>2, <3>1
      <4>2. done[n - 1] = old[m]
        BY <2>2, <4>1
      <4> QED
        BY <2>2, <3>1, <4>2
    <3>2. CASE n \in 1 .. m
      <4>1. n \in 0 .. m /\ n - 1 \in 0 .. m
        BY <2>2, <3>2
      <4>2. old[n] = IF n \in keep THEN Append(old[n - 1], list[n]) ELSE old[n - 1]
        BY <2>1, <3>2 DEF Builds
      <4> QED
        BY <2>2, <4>1, <4>2
    <3> QED
      BY <2>2, <3>1, <3>2
  <2>5. Builds(list, keep, done, m + 1)
    BY <2>3, <2>4 DEF Builds
  <2> QED
    BY <2>2, <2>5
<1>4. Len(list) \in T
  <2> HIDE DEF T
  <2>1. T \in SUBSET Nat
    BY DEF T
  <2> QED
    BY <1>1, <1>2, <1>3, <2>1, Counting
<1>5. PICK done : done = [n \in 0 .. Len(list) |-> done[n]] /\ Builds(list, keep, done, Len(list))
    BY <1>4
<1>6. \A n \in 0 .. Len(list) : done[n] = Part(list, keep, done)[n]
    BY <1>1, <1>5 DEF Part, Builds
<1>7. done = [n \in 0 .. Len(list) |-> Part(list, keep, done)[n]]
    BY <1>5, <1>6
<1>8. Part(list, keep, done) = [n \in 0 .. Len(list) |-> Part(list, keep, done)[n]]
    BY DEF Part
<1> QED
    BY <1>7, <1>8

\* Kept takes entries of the list, and no more than there are.
LEMMA KeptType ==
    ASSUME NEW S, NEW list \in Seq(S), NEW keep
    PROVE  Kept(list, keep) \in Seq(S) /\ Len(Kept(list, keep)) <= Len(list)
<1> DEFINE done == CHOOSE d : d = Part(list, keep, d)
<1>1. done = Part(list, keep, done)
    BY PartExists
<1>2. Kept(list, keep) = done[Len(list)]
    BY DEF Kept, Part
<1> HIDE DEF done
<1>3. Len(list) \in Nat /\ \A n \in 1 .. Len(list) : list[n] \in S
    OBVIOUS
<1> DEFINE T == {m \in Nat : m <= Len(list) => done[m] \in Seq(S) /\ Len(done[m]) <= m}
<1>4. 0 \in T
  <2>1. done[0] = Part(list, keep, done)[0]
    BY <1>1
  <2>2. Part(list, keep, done)[0] = <<>>
    BY <1>3 DEF Part
  <2>3. done[0] \in Seq(S) /\ Len(done[0]) <= 0
    BY <2>1, <2>2
  <2> QED
    BY <2>3
<1>5. ASSUME NEW m \in T PROVE m + 1 \in T
  <2> SUFFICES ASSUME m + 1 <= Len(list)
               PROVE  done[m + 1] \in Seq(S) /\ Len(done[m + 1]) <= m + 1
    OBVIOUS
  <2>1. m \in Nat /\ m <= Len(list) /\ done[m] \in Seq(S) /\ Len(done[m]) <= m
    BY <1>3
  <2>2. m + 1 \in 0 .. Len(list) /\ m + 1 # 0 /\ m + 1 - 1 = m /\ list[m + 1] \in S
    BY <1>3, <2>1
  <2>3. done[m + 1] = IF m + 1 \in keep THEN Append(done[m], list[m + 1]) ELSE done[m]
    <3>1. done[m + 1] = Part(list, keep, done)[m + 1]
      BY <1>1
    <3>2. Part(list, keep, done)[m + 1] =
             IF m + 1 \in keep THEN Append(done[m], list[m + 1]) ELSE done[m]
      BY <2>2 DEF Part
    <3> QED
      BY <3>1, <3>2
  <2> QED
    BY <2>1, <2>2, <2>3
<1>6. Len(list) \in T
  <2> HIDE DEF T
  <2>1. T \in SUBSET Nat
    BY DEF T
  <2> QED
    BY <1>3, <1>4, <1>5, <2>1, Counting
<1> QED
    BY <1>2, <1>3, <1>6

Record == [holder : Browsers \cup {None}, client : Clients, idle : 0 .. SessionTtl]

\* The table while no handler is at work on it.
SessionsType == sessions \in Seq(Record) /\ Len(sessions) <= MaxSessions

\* Pruning leaves a table (SessionStore.#prune).
LEMMA UnexpiredType ==
    ASSUME SessionsType
    PROVE  Unexpired \in Seq(Record) /\ Len(Unexpired) <= MaxSessions
<1>1. /\ sessions \in Seq(Record) /\ Len(sessions) \in Nat /\ Len(sessions) <= MaxSessions
      /\ MaxSessions \in Nat
    BY ConstantsAssumption DEF SessionsType
<1>2. Unexpired \in Seq(Record) /\ Len(Unexpired) <= Len(sessions)
    BY <1>1, KeptType DEF Unexpired
<1>3. Len(Unexpired) \in Nat
    BY <1>2
<1> QED
    BY <1>1, <1>2, <1>3

\* Room is made for one, at the expense of the oldest (SessionStore.create).
LEMMA RoomMade ==
    ASSUME NEW kept \in Seq(Record), Len(kept) <= MaxSessions
    PROVE  /\ Room(kept) \in Seq(Record) /\ Len(Room(kept)) < MaxSessions
           /\ \A i \in 1 .. Len(kept) :
                 \/ \E j \in 1 .. Len(Room(kept)) : Room(kept)[j] = kept[i]
                 \/ i <= Len(kept) - (MaxSessions - 1) /\ Len(Room(kept)) = MaxSessions - 1
<1>1. MaxSessions \in Nat /\ MaxSessions >= 1
    BY ConstantsAssumption
<1>2. PICK n \in Nat : n = Len(kept) /\ n <= MaxSessions
    OBVIOUS
<1>3. CASE n < MaxSessions
  <2>1. Room(kept) = kept
    BY <1>1, <1>2, <1>3 DEF Room
  <2> QED
    BY <1>2, <1>3, <2>1
<1>4. CASE n = MaxSessions
  <2>1. Room(kept) = SubSeq(kept, 2, n)
    BY <1>1, <1>2, <1>4 DEF Room
  <2>2. PICK room \in Seq(Record) : room = Room(kept)
    <3>1. SubSeq(kept, 2, n) \in Seq(Record)
      BY <1>2
    <3> QED
      BY <2>1, <3>1
  <2>3. Len(room) = n - 1 /\ \A j \in 1 .. n - 1 : room[j] = kept[j + 1]
    BY <1>1, <1>2, <1>4, <2>1, <2>2
  <2>4. ASSUME NEW i \in 1 .. n
        PROVE  \/ \E j \in 1 .. Len(room) : room[j] = kept[i]
               \/ i <= n - (MaxSessions - 1) /\ Len(room) = MaxSessions - 1
    <3>1. CASE i = 1
      BY <1>1, <1>4, <2>3, <3>1
    <3>2. CASE i # 1
      <4>1. i - 1 \in 1 .. n - 1 /\ i - 1 + 1 = i
        BY <3>2
      <4>2. room[i - 1] = kept[i]
        BY <2>3, <4>1
      <4> QED
        BY <2>3, <4>1, <4>2
    <3> QED
      BY <3>1, <3>2
  <2>5. Len(room) < MaxSessions
    BY <1>1, <1>4, <2>3
  <2> QED
    BY <1>2, <2>2, <2>4, <2>5
<1> QED
    BY <1>1, <1>2, <1>3, <1>4

\* A browser that loses its cookie leaves the sessions, without a holder.
LEMMA ForgottenType ==
    ASSUME NEW b, NEW list \in Seq(Record)
    PROVE  /\ Forgotten(b, list) \in Seq(Record) /\ Len(Forgotten(b, list)) = Len(list)
           /\ \A i \in 1 .. Len(list) :
                 list[i].holder # b => Forgotten(b, list)[i] = list[i]
<1>1. PICK n \in Nat : n = Len(list) /\ DOMAIN list = 1 .. n
    OBVIOUS
<1>2. \A i \in 1 .. n : list[i] \in Record /\ [list[i] EXCEPT !.holder = None] \in Record
  <2>1. \A i \in 1 .. n : list[i] \in Record
    BY <1>1
  <2>2. \A r \in Record : [r EXCEPT !.holder = None] \in Record
    BY DEF Record
  <2> QED
    BY <2>1, <2>2
<1>3. Forgotten(b, list) =
         [i \in 1 .. n |-> IF list[i].holder = b THEN [list[i] EXCEPT !.holder = None]
                           ELSE list[i]]
    BY <1>1 DEF Forgotten
<1>4. Forgotten(b, list) \in [1 .. n -> Record]
    BY <1>2, <1>3
<1>5. Forgotten(b, list) \in Seq(Record) /\ Len(Forgotten(b, list)) = n
    BY <1>4
<1> QED
    BY <1>1, <1>3, <1>5

\* What a request leaves of the table (SessionStore.resolve, destroyByClient).
LEMMA ResolveType ==
    ASSUME SessionsType, NEW b \in Browsers
    PROVE  Resolve(b) \in Seq(Record) /\ Len(Resolve(b)) <= MaxSessions
<1>1. PICK list \in Seq(Record) : list = Unexpired /\ Len(list) <= MaxSessions
    BY UnexpiredType
<1>2. Len(list) \in Nat /\ MaxSessions \in Nat
    BY ConstantsAssumption
<1>3. ASSUME NEW i \in DOMAIN list
      PROVE  [list EXCEPT ![i].idle = 0] \in Seq(Record)
             /\ Len([list EXCEPT ![i].idle = 0]) = Len(list)
  <2>1. list[i] \in Record /\ [list[i] EXCEPT !.idle = 0] \in Record
    <3>1. list[i] \in Record
      BY <1>3
    <3>2. 0 \in 0 .. SessionTtl
      BY ConstantsAssumption
    <3> QED
      BY <3>1, <3>2 DEF Record
  <2>2. PICK r \in Record : r = [list[i] EXCEPT !.idle = 0]
    BY <2>1
  <2>3. [list EXCEPT ![i] = r] \in Seq(Record) /\ Len([list EXCEPT ![i] = r]) = Len(list)
    BY <1>3
  <2> QED
    BY <2>2, <2>3
<1>4. ASSUME NEW keep
      PROVE  Kept(list, keep) \in Seq(Record) /\ Len(Kept(list, keep)) <= MaxSessions
  <2>1. Kept(list, keep) \in Seq(Record) /\ Len(Kept(list, keep)) <= Len(list)
    BY KeptType
  <2>2. Len(Kept(list, keep)) \in Nat
    BY <2>1
  <2> QED
    BY <1>1, <1>2, <2>1, <2>2
<1>5. CASE Named(b) = {}
    BY <1>1, <1>5 DEF Resolve
<1>6. CASE Named(b) # {}
  <2> DEFINE i == CHOOSE i \in Named(b) : TRUE
  <2>1. i \in DOMAIN list
    BY <1>1, <1>6 DEF Named
  <2>2. Resolve(b) =
           IF Authorized(i) THEN [list EXCEPT ![i].idle = 0]
           ELSE Kept(list, {j \in DOMAIN list : list[j].client # list[i].client})
    BY <1>1, <1>6 DEF Resolve
  <2> HIDE DEF i
  <2> QED
    BY <1>1, <1>3, <1>4, <2>1, <2>2
<1> QED
    BY <1>5, <1>6

\* A session is created (SessionStore.create).
LEMMA CreateType ==
    ASSUME TypeOK, CreateSession
    PROVE  TypeOK'
<1>1. login # None /\ login \in [browser : Browsers, nonce : Nonces \cup {None}, client : Clients]
    BY DEF CreateSession, TypeOK
<1>2. Unexpired \in Seq(Record) /\ Len(Unexpired) <= MaxSessions
    BY UnexpiredType DEF TypeOK, SessionsType, Record
<1>3. PICK kept \in Seq(Record) : kept = Room(Unexpired) /\ Len(kept) < MaxSessions
    BY <1>2, RoomMade
<1>4. PICK list \in Seq(Record) :
         /\ Len(list) = Len(kept)
         /\ \E holder \in Browsers \cup {None} :
               sessions' = Append(list, [holder |-> holder, client |-> login.client, idle |-> 0])
  <2>1. Forgotten(login.browser, kept) \in Seq(Record)
        /\ Len(Forgotten(login.browser, kept)) = Len(kept)
    BY ForgottenType
  <2> QED
    BY <1>1, <1>3, <2>1 DEF CreateSession
<1>5. sessions' \in Seq(Record) /\ Len(sessions') <= MaxSessions
  <2>1. PICK r \in Record : sessions' = Append(list, r)
    BY <1>1, <1>4, ConstantsAssumption DEF Record
  <2>2. MaxSessions \in Nat /\ Len(list) \in Nat /\ Len(list) < MaxSessions
    BY <1>3, <1>4, ConstantsAssumption
  <2> QED
    BY <2>1, <2>2
<1>6. cookie' \in SUBSET Browsers
    BY <1>1 DEF CreateSession, TypeOK
<1>7. granted' \in [Nonces -> 0 .. 2]
  <2>1. CASE login.nonce = None
    BY <2>1 DEF CreateSession, TypeOK
  <2>2. CASE login.nonce # None
    <3>1. login.nonce \in Nonces /\ granted \in [Nonces -> 0 .. 2]
      BY <1>1, <2>2 DEF TypeOK
    <3>2. granted[login.nonce] \in 0 .. 2
      BY <3>1
    <3>3. PICK k \in 0 .. 2 : granted' = [granted EXCEPT ![login.nonce] = k]
      <4>1. granted' = [granted EXCEPT ![login.nonce] = IF @ = 2 THEN 2 ELSE @ + 1]
        BY <2>2 DEF CreateSession
      <4>2. (IF granted[login.nonce] = 2 THEN 2 ELSE granted[login.nonce] + 1) \in 0 .. 2
        BY <3>2
      <4> QED
        BY <4>1, <4>2
    <3> QED
      BY <3>1, <3>3
  <2> QED
    BY <2>1, <2>2
<1> QED
    BY <1>5, <1>6, <1>7 DEF CreateSession, TypeOK, Record, storeVars

\* The challenges, which stay, become older or go (OneTimeValues).
LEMMA ChallengeAges ==
    ASSUME TypeOK
    PROVE  /\ \A keep : Pruned(keep) \in [Nonces -> 0 .. ChallengeTtl + 1 \cup {None}]
           /\ [n \in Nonces |-> IF challenges[n] = None THEN None
                                ELSE Older(challenges[n], ChallengeTtl)]
                 \in [Nonces -> 0 .. ChallengeTtl + 1 \cup {None}]
<1>1. ChallengeTtl \in Nat /\ \A n \in Nonces : challenges[n] \in 0 .. ChallengeTtl + 1 \cup {None}
    BY ConstantsAssumption DEF TypeOK
<1>2. \A k \in 0 .. ChallengeTtl + 1 : Older(k, ChallengeTtl) \in 0 .. ChallengeTtl + 1
    BY <1>1 DEF Older
<1> QED
    BY <1>1, <1>2 DEF Pruned

\* A login, by a signature or by a token.
LEMMA LoginType ==
    ASSUME TypeOK,
           \/ \E b \in Browsers, n \in Nonces : Challenge(b, n)
           \/ \E b \in Browsers : TokenRefused(b)
           \/ \E p \in posts : Verify(p) \/ PostGone(p)
           \/ \E b \in Browsers : \E c \in Tokens[b] : LoginWithToken(b, c)
    PROVE  TypeOK'
<1>1. ASSUME NEW b \in Browsers, NEW n \in Nonces, Challenge(b, n) PROVE TypeOK'
  <2>1. Post(b, n) \in [browser : Browsers, nonce : Nonces, client : enrolled \cup {None}]
    BY DEF Post, TypeOK
  <2>2. posts' \in SUBSET [browser : Browsers, nonce : Nonces, client : enrolled \cup {None}]
    BY <1>1, <2>1 DEF Challenge, TypeOK
  <2>3. challenges' \in [Nonces -> 0 .. ChallengeTtl + 1 \cup {None}]
    <3>1. 0 \in 0 .. ChallengeTtl + 1
      BY ConstantsAssumption
    <3>2. Pruned(Pending) \in [Nonces -> 0 .. ChallengeTtl + 1 \cup {None}]
      BY ChallengeAges
    <3>3. challenges' = Pruned(Pending) \/ challenges' = [Pruned(Pending) EXCEPT ![n] = 0]
      BY <1>1 DEF Challenge
    <3> QED
      BY <3>1, <3>2, <3>3
  <2> QED
    BY <1>1, <2>2, <2>3 DEF Challenge, TypeOK, storeVars
<1>2. ASSUME NEW b \in Browsers, TokenRefused(b) PROVE TypeOK'
    BY <1>2 DEF TokenRefused, TypeOK, storeVars
<1>3. ASSUME NEW p \in posts, Verify(p) PROVE TypeOK'
  <2>1. challenges' \in [Nonces -> 0 .. ChallengeTtl + 1 \cup {None}]
    BY <1>3, ChallengeAges DEF Verify, Take
  <2>2. p \in [browser : Browsers, nonce : Nonces, client : enrolled \cup {None}]
        /\ enrolled \subseteq Clients
    BY DEF TypeOK
  <2>3. p.client # None =>
           p \in [browser : Browsers, nonce : Nonces \cup {None}, client : Clients]
    BY <2>2
  <2>4. login' \in [browser : Browsers, nonce : Nonces \cup {None}, client : Clients]
                      \cup {None}
    BY <1>3, <2>3 DEF Verify, SignatureValid, TypeOK
  <2> QED
    BY <1>3, <2>1, <2>4 DEF Verify, TypeOK, storeVars, browserVars
<1>4. ASSUME NEW p \in posts, PostGone(p) PROVE TypeOK'
  <2>1. p.nonce \in Nonces /\ granted \in [Nonces -> 0 .. 2]
    BY DEF TypeOK
  <2>2. granted' \in [Nonces -> 0 .. 2]
    BY <1>4, <2>1 DEF PostGone
  <2> QED
    BY <1>4, <2>2 DEF PostGone, TypeOK, storeVars
<1>5. ASSUME NEW b \in Browsers, NEW c \in Tokens[b], LoginWithToken(b, c) PROVE TypeOK'
  <2>1. c \in Clients
    BY ConstantsAssumption
  <2>2. login' \in [browser : Browsers, nonce : Nonces \cup {None}, client : Clients]
    BY <1>5, <2>1 DEF LoginWithToken
  <2>3. /\ enrolled \subseteq enrolled' /\ enrolled' \in SUBSET Clients
        /\ keyFor' \in [Browsers -> enrolled' \cup {None}]
    BY <1>5, <2>1 DEF LoginWithToken, NewKey, TypeOK
  <2>4. posts' \in SUBSET [browser : Browsers, nonce : Nonces, client : enrolled' \cup {None}]
    BY <1>5, <2>3 DEF LoginWithToken, TypeOK
  <2> QED
    BY <1>5, <2>2, <2>3, <2>4 DEF LoginWithToken, TypeOK
<1> QED
    BY <1>1, <1>2, <1>3, <1>4, <1>5

\* A request or an upgrade (handleRequest, handleUpgrade).
LEMMA RequestType ==
    ASSUME TypeOK, NEW b \in Browsers, NEW a \in Agents, Request(b, a) \/ Upgrade(b, a)
    PROVE  TypeOK'
<1>1. Resolve(b) \in Seq(Record) /\ Len(Resolve(b)) <= MaxSessions
    BY ResolveType DEF TypeOK, SessionsType, Record
<1>2. sessions' = Resolve(b) \/ sessions' = Forgotten(b, Resolve(b))
    BY DEF Request, Upgrade, Proceed
<1>3. sessions' \in Seq(Record) /\ Len(sessions') <= MaxSessions
  <2>1. Forgotten(b, Resolve(b)) \in Seq(Record)
        /\ Len(Forgotten(b, Resolve(b))) = Len(Resolve(b))
    BY <1>1, ForgottenType
  <2> QED
    BY <1>1, <1>2, <2>1
<1>4. cookie' \in SUBSET Browsers
    BY DEF Request, Upgrade, Proceed, TypeOK
<1>5. exchanges' \in SUBSET [client : Clients, agent : Agents]
  <2>1. \A s \in Session(b) : Exchange(s, a) \in [client : Clients, agent : Agents]
    <3>1. Unexpired \in Seq(Record)
      BY UnexpiredType DEF TypeOK, SessionsType, Record
    <3>2. \A s \in Session(b) : s \in Record
      BY <3>1 DEF Session, Named
    <3> QED
      BY <3>2 DEF Record, Exchange
  <2> QED
    BY <2>1 DEF Request, Upgrade, Proceed, TypeOK
<1> QED
    BY <1>3, <1>4, <1>5 DEF Request, Upgrade, TypeOK, Record, storeVars

\* What happens to the table without a request: logout, a lost cookie, time, a restart.
LEMMA TableType ==
    ASSUME TypeOK,
           \/ \E b \in Browsers : Logout(b) \/ CookieGone(b)
           \/ Tick \/ TouchThrows \/ RelayRestarts
    PROVE  TypeOK'
<1>1. /\ sessions \in Seq(Record) /\ Len(sessions) \in Nat /\ Len(sessions) <= MaxSessions
      /\ MaxSessions \in Nat
    BY ConstantsAssumption DEF TypeOK, Record
<1>2. ASSUME NEW b \in Browsers, Logout(b) PROVE TypeOK'
  <2>1. sessions' \in Seq(Record) /\ Len(sessions') <= Len(sessions)
    BY <1>1, <1>2, KeptType DEF Logout
  <2>2. Len(sessions') \in Nat
    BY <2>1
  <2>3. Len(sessions') <= MaxSessions
    BY <1>1, <2>1, <2>2
  <2> QED
    BY <1>2, <2>1, <2>3 DEF Logout, TypeOK, Record, storeVars
<1>3. ASSUME NEW b \in Browsers, CookieGone(b) PROVE TypeOK'
  <2>1. sessions' \in Seq(Record) /\ Len(sessions') = Len(sessions)
    BY <1>1, <1>3, ForgottenType DEF CookieGone
  <2> QED
    BY <1>1, <1>3, <2>1 DEF CookieGone, TypeOK, Record, storeVars
<1>4. CASE Tick
  <2>1. \A r \in Record : [r EXCEPT !.idle = Older(@, SessionTtl - 1)] \in Record
    <3>1. \A k \in 0 .. SessionTtl : Older(k, SessionTtl - 1) \in 0 .. SessionTtl
      BY ConstantsAssumption DEF Older
    <3> QED
      BY <3>1 DEF Record
  <2>2. \A i \in 1 .. Len(sessions) : sessions[i] \in Record
    BY <1>1
  <2>3. sessions' \in [1 .. Len(sessions) -> Record]
    BY <1>4, <2>1, <2>2 DEF Tick
  <2>4. sessions' \in Seq(Record) /\ Len(sessions') = Len(sessions)
    BY <1>1, <2>3
  <2>5. challenges' \in [Nonces -> 0 .. ChallengeTtl + 1 \cup {None}]
    BY <1>4, ChallengeAges DEF Tick
  <2> QED
    BY <1>1, <1>4, <2>4, <2>5 DEF Tick, TypeOK, Record, storeVars, browserVars
<1>5. CASE TouchThrows \/ RelayRestarts
  <2>1. sessions' = <<>>
    BY <1>5 DEF TouchThrows, RelayRestarts, RelayGone
  <2>2. sessions' \in Seq(Record) /\ Len(sessions') = 0
    BY <2>1
  <2> QED
    BY <1>1, <1>5, <2>2
       DEF TouchThrows, RelayRestarts, RelayGone, TypeOK, Record, storeVars, browserVars
<1> QED
    BY <1>2, <1>3, <1>4, <1>5

\* The state keeps its type for any constants, and the table of sessions never has more
\* than MAX_SESSIONS (SessionStore).
THEOREM TypeCorrect == Spec => []TypeOK
<1>1. Init => TypeOK
  <2>1. <<>> \in Seq(Record) /\ Len(<<>>) = 0
    OBVIOUS
  <2> QED
    BY <2>1, ConstantsAssumption DEF Init, TypeOK, Record
<1>2. TypeOK /\ [Next]_vars => TypeOK'
  <2> SUFFICES ASSUME TypeOK, [Next]_vars PROVE TypeOK'
    OBVIOUS
  <2>1. ASSUME NEW x \in exchanges, ExchangeEnds(x) PROVE TypeOK'
    BY <2>1 DEF ExchangeEnds, TypeOK, storeVars, browserVars
  <2>2. ASSUME NEW a \in Agents, RevokeAgent(a) PROVE TypeOK'
    BY <2>2 DEF RevokeAgent, TypeOK, browserVars
  <2>3. ASSUME NEW c \in Clients, CredentialEnds(c) PROVE TypeOK'
    BY <2>3 DEF CredentialEnds, TypeOK, browserVars
  <2>4. CASE UNCHANGED vars
    BY <2>4 DEF vars, TypeOK, storeVars, browserVars
  <2> QED
    BY <2>1, <2>2, <2>3, <2>4, CreateType, LoginType, RequestType, TableType DEF Next
<1> QED
    BY <1>1, <1>2, PTL DEF Spec

\* A session that a login takes from another browser was the oldest, and the table full
\* (SessionStore.create).
LEMMA CreateEvictsOldest ==
    ASSUME TypeOK, CreateSession, NEW i \in DOMAIN Unexpired,
           Unexpired[i].holder \notin {None, login.browser},
           \A j \in DOMAIN sessions' : sessions'[j].holder # Unexpired[i].holder
    PROVE  Len(sessions') = MaxSessions /\ i <= Len(Unexpired) - (Len(sessions') - 1)
<1>1. PICK list \in Seq(Record) : list = Unexpired /\ Len(list) <= MaxSessions
    BY UnexpiredType DEF TypeOK, SessionsType, Record
<1>2. PICK kept \in Seq(Record) :
         /\ kept = Room(list)
         /\ Len(kept) < MaxSessions
         /\ \A k \in 1 .. Len(list) :
               \/ \E j \in 1 .. Len(kept) : kept[j] = list[k]
               \/ k <= Len(list) - (MaxSessions - 1) /\ Len(kept) = MaxSessions - 1
    BY <1>1, RoomMade
<1>3. PICK left \in Seq(Record) :
         /\ Len(left) = Len(kept)
         /\ \A j \in 1 .. Len(kept) : kept[j].holder # login.browser => left[j] = kept[j]
         /\ \E r \in Record : sessions' = Append(left, r)
  <2>1. login.browser \in Browsers /\ login.client \in Clients /\ 0 \in 0 .. SessionTtl
    BY ConstantsAssumption DEF CreateSession, TypeOK
  <2>2. \A holder \in Browsers \cup {None} :
           [holder |-> holder, client |-> login.client, idle |-> 0] \in Record
    BY <2>1 DEF Record
  <2>3. /\ Forgotten(login.browser, kept) \in Seq(Record)
        /\ Len(Forgotten(login.browser, kept)) = Len(kept)
        /\ \A j \in 1 .. Len(kept) :
              kept[j].holder # login.browser => Forgotten(login.browser, kept)[j] = kept[j]
    BY ForgottenType
  <2> QED
    BY <1>1, <1>2, <2>1, <2>2, <2>3 DEF CreateSession
<1>4. /\ MaxSessions \in Nat /\ Len(kept) \in Nat /\ Len(sessions') = Len(kept) + 1
      /\ \A j \in 1 .. Len(kept) : j \in DOMAIN sessions' /\ sessions'[j] = left[j]
    BY <1>3, ConstantsAssumption
<1>5. i \in 1 .. Len(list) /\ Len(list) \in Nat
    BY <1>1
<1>6. ~ \E j \in 1 .. Len(kept) : kept[j] = list[i]
    BY <1>1, <1>3, <1>4
<1>7. i <= Len(list) - (MaxSessions - 1) /\ Len(kept) = MaxSessions - 1
    BY <1>2, <1>5, <1>6
<1> QED
    BY <1>1, <1>4, <1>5, <1>7

\* A login ends the session of another browser only if all places are taken, and while
\* no older session stays (SessionStore.create), for any number of sessions.
THEOREM OldestGoes == Spec => EvictsOldest
<1> DEFINE Evicts ==
        login # None /\ login' = None /\ sessions' # <<>> =>
           \A i \in DOMAIN Unexpired :
              LET b == Unexpired[i].holder IN
              b \notin {None, login.browser}
              /\ (\A j \in DOMAIN sessions' : sessions'[j].holder # b)
              => Len(sessions') = MaxSessions /\ i <= Len(Unexpired) - (Len(sessions') - 1)
<1>1. TypeOK /\ [Next]_vars => [Evicts]_vars
  <2> SUFFICES ASSUME TypeOK, Next, login # None, login' = None, sessions' # <<>>,
                      NEW i \in DOMAIN Unexpired,
                      Unexpired[i].holder \notin {None, login.browser},
                      \A j \in DOMAIN sessions' : sessions'[j].holder # Unexpired[i].holder
               PROVE  Len(sessions') = MaxSessions
                      /\ i <= Len(Unexpired) - (Len(sessions') - 1)
    OBVIOUS
  <2>1. CreateSession
    BY DEF Next, Challenge, Logout, CookieGone, TokenRefused, Verify, PostGone, LoginWithToken,
           Request, Upgrade, ExchangeEnds, RevokeAgent, CredentialEnds, Tick,
           TouchThrows, RelayRestarts, RelayGone
  <2> QED
    BY <2>1, CreateEvictsOldest
<1> QED
    BY <1>1, TypeCorrect, PTL DEF Spec, EvictsOldest
=============================================================================
