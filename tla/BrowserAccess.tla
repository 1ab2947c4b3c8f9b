--------------------------- MODULE BrowserAccess ---------------------------
(***************************************************************************)
(* How a browser gets to a host: the login and request handlers of         *)
(* src/relay/server.ts, SessionStore of src/relay/sessions.ts, the         *)
(* challenges (OneTimeValues of src/shared/auth.ts) and the questions they *)
(* put to the RelayStore, while an operator revokes in another process.    *)
(*                                                                         *)
(* The relay has one thread, so a handler is one step; but the store       *)
(* is a file that another process edits at any time, so a login is two:    *)
(* the credential is verified, and then the session is created.            *)
(*                                                                         *)
(* Times are ages in ticks, one more than the limit they are compared with *)
(* standing for all above it.  An id of a session is random and nobody but *)
(* the browser that has it in its cookie can name it, so a session names   *)
(* that browser instead.                                                   *)
(***************************************************************************)
EXTENDS Integers, FiniteSets, Sequences

CONSTANTS
    Clients,        \* browser credentials
    Agents,         \* hosts
    Browsers,
    Nonces,         \* challenges; one that nobody holds any more is new again
    Tokens,         \* the credentials whose access token a browser has
    Scope,          \* the hosts a credential may reach
    MaxSessions,    \* MAX_SESSIONS
    SessionTtl,     \* idle lifetime of a session
    ChallengeTtl,   \* window of the challenge table
    MaxChallenges,  \* its limit
    MaxExchanges,   \* bounds
    MaxPosts,
    None

ASSUME ConstantsAssumption ==
    /\ Tokens \in [Browsers -> SUBSET Clients] /\ Scope \in [Clients -> SUBSET Agents]
    /\ MaxSessions \in Nat \ {0} /\ SessionTtl \in Nat \ {0}
    /\ ChallengeTtl \in Nat /\ MaxChallenges \in Nat
    /\ MaxExchanges \in Nat /\ MaxPosts \in Nat
    /\ None \notin Browsers \cup Clients \cup Nonces \cup Nat

VARIABLES
    \* state file
    ended,      \* credentials that are revoked or expired
    enrolled,   \* credentials with a signing key
    revoked,    \* hosts that are revoked
    \* relay
    challenges, \* age of each pending challenge
    sessions,   \* in the order of their creation: the browser with the cookie, the
                \* client, ticks without use
    login,      \* login that is verified and has no session yet
    exchanges,  \* requests and sockets on their way through a tunnel
    \* browsers
    keyFor,     \* credential that the key of each browser is enrolled for
    posts,      \* signed challenges under way, or kept by somebody
    cookie,     \* browsers that have a session cookie
    granted     \* history: logins granted for each challenge

storeVars == <<ended, enrolled, revoked>>
browserVars == <<keyFor, posts, cookie>>
vars == <<storeVars, challenges, sessions, login, exchanges, browserVars, granted>>

Older(age, limit) == IF age > limit THEN age ELSE age + 1

Init ==
    /\ ended = {}
    /\ enrolled = {}
    /\ revoked = {}
    /\ challenges = [n \in Nonces |-> None]
    /\ sessions = <<>>
    /\ login = None
    /\ exchanges = {}
    /\ keyFor = [b \in Browsers |-> None]
    /\ posts = {}
    /\ cookie = {}
    /\ granted = [n \in Nonces |-> 0]

-----------------------------------------------------------------------------
(* Challenges.                                                             *)

\* OneTimeValues.#prune, the first thing that add and take do.
Pending == {n \in Nonces : challenges[n] # None /\ challenges[n] <= ChallengeTtl}
Pruned(keep) == [n \in Nonces |-> IF n \in keep THEN challenges[n] ELSE None]

\* What a browser posts for a challenge: a signature by the key it has, which is or is
\* not enrolled.
Post(b, n) == [browser |-> b, nonce |-> n, client |-> keyFor[b]]

\* GET /__auth/challenge, for a nonce that is nowhere in use.  Whoever gets it may leave it.
Challenge(b, n) ==
    /\ login = None
    /\ challenges[n] = None /\ n \notin {p.nonce : p \in posts}
    /\ IF Cardinality(Pending) < MaxChallenges
       THEN /\ challenges' = [Pruned(Pending) EXCEPT ![n] = 0]
            /\ \/ Cardinality(posts) < MaxPosts /\ posts' = posts \cup {Post(b, n)}
               \/ UNCHANGED posts
       ELSE challenges' = Pruned(Pending) /\ UNCHANGED posts
    /\ UNCHANGED <<storeVars, sessions, login, exchanges, keyFor, cookie, granted>>

\* A post is lost, or nobody keeps it any more.
PostGone(p) ==
    /\ login = None
    /\ posts' = posts \ {p}
    /\ granted' = [granted EXCEPT ![p.nonce] = 0]
    /\ UNCHANGED <<storeVars, challenges, sessions, login, exchanges, keyFor, cookie>>

-----------------------------------------------------------------------------
(* Logging in.                                                             *)

Live(c) == c \notin ended

\* Mutant: the challenge stays.
TakeKeeps(n) == challenges' = Pruned(Pending)

\* OneTimeValues.take.
Take(n) == challenges' = Pruned(Pending \ {n})

\* RelayStore.verifyClientSignature: some live credential has the key that made it.
SignatureValid(p) == p.client # None /\ Live(p.client)

\* POST /__auth/verify: the challenge is spent, whoever signed it.  A post may come
\* more than once.
Verify(p) ==
    /\ login = None
    /\ Take(p.nonce)
    /\ IF p.nonce \in Pending /\ SignatureValid(p) THEN login' = p ELSE UNCHANGED login
    /\ UNCHANGED <<storeVars, sessions, exchanges, browserVars, granted>>

\* A browser that can sign makes a new key for every token it sends, over the one it has.
\* Its public half is enrolled with the first.
NewKey(b, c) ==
    /\ enrolled' = enrolled \cup {c}
    /\ keyFor' = [keyFor EXCEPT ![b] = IF c \in enrolled THEN None ELSE c]

\* RelayStore.verifyClientToken.
TokenValid(c) == Live(c)

\* POST /__auth/login with a token, with or without a key.
LoginWithToken(b, c) ==
    /\ login = None
    /\ TokenValid(c)
    /\ login' = [browser |-> b, nonce |-> None, client |-> c]
    /\ NewKey(b, c) \/ UNCHANGED <<enrolled, keyFor>>
    /\ UNCHANGED <<ended, revoked, challenges, sessions, exchanges, posts, cookie, granted>>

\* A token is refused: it is mistyped, or its credential has ended.
TokenRefused(b) ==
    /\ login = None
    /\ keyFor' = [keyFor EXCEPT ![b] = None]
    /\ UNCHANGED <<storeVars, challenges, sessions, login, exchanges, posts, cookie, granted>>

\* The sessions at the places in keep, in their order; the others are deleted.
Kept(list, keep) ==
    LET upTo[n \in 0 .. Len(list)] ==
            IF n = 0 THEN <<>>
            ELSE IF n \in keep THEN Append(upTo[n - 1], list[n]) ELSE upTo[n - 1]
    IN upTo[Len(list)]

\* SessionStore.#prune.
Unexpired == Kept(sessions, {i \in DOMAIN sessions : sessions[i].idle < SessionTtl})

\* Mutants: the newest session is evicted; none is.
RoomByNewest(kept) ==
    IF Len(kept) >= MaxSessions THEN SubSeq(kept, 1, MaxSessions - 1) ELSE kept

RoomUnbounded(kept) == kept

\* The oldest sessions make room for one more.
Room(kept) ==
    IF Len(kept) >= MaxSessions
    THEN SubSeq(kept, Len(kept) - MaxSessions + 2, Len(kept)) ELSE kept

\* Browser b has no longer the id of the session it had.
Forgotten(b, list) ==
    [i \in DOMAIN list |-> IF list[i].holder = b THEN [list[i] EXCEPT !.holder = None] ELSE list[i]]

\* SessionStore.create and the response, which may be lost.
CreateSession ==
    /\ login # None
    /\ LET kept == Room(Unexpired)
           New(b) == [holder |-> b, client |-> login.client, idle |-> 0] IN
       \/ /\ sessions' = Append(Forgotten(login.browser, kept), New(login.browser))
          /\ cookie' = cookie \cup {login.browser}
       \/ sessions' = Append(kept, New(None)) /\ UNCHANGED cookie
    /\ granted' = IF login.nonce = None THEN granted
                  ELSE [granted EXCEPT ![login.nonce] = IF @ = 2 THEN 2 ELSE @ + 1]
    /\ login' = None
    /\ UNCHANGED <<storeVars, challenges, exchanges, keyFor, posts>>

-----------------------------------------------------------------------------
(* Requests.                                                               *)

\* The session that a cookie names, if it is still there.
Named(b) == {i \in DOMAIN Unexpired : Unexpired[i].holder = b}

\* SessionStore.destroy.
Logout(b) ==
    /\ login = None
    /\ sessions' = Kept(sessions, {i \in DOMAIN sessions : sessions[i].holder # b})
    /\ cookie' = cookie \ {b}
    /\ UNCHANGED <<storeVars, challenges, login, exchanges, keyFor, posts, granted>>

\* Mutant: a session is as good as its credential was at login.
AuthorizedAtLogin(i) == TRUE

\* resolveLiveSession: findLiveClient.
Authorized(i) == Live(Unexpired[i].client)

\* SessionStore.resolve, which keeps the session alive, or destroyByClient.
Resolve(b) ==
    IF Named(b) = {} THEN Unexpired
    ELSE LET i == CHOOSE i \in Named(b) : TRUE IN
         IF Authorized(i) THEN [Unexpired EXCEPT ![i].idle = 0]
         ELSE Kept(Unexpired, {j \in DOMAIN Unexpired : Unexpired[j].client # Unexpired[i].client})

\* The session that answers for a request.
Session(b) == {Unexpired[i] : i \in {j \in Named(b) : Authorized(j)}}

Exchange(s, a) == [client |-> s.client, agent |-> a]

scopeMayReach(s, a) == a \in Scope[s.client]

\* A request for a path under /a/<agent> goes through, if its session may reach the host
\* and the host is there.  One that is revoked or has no tunnel is offline (AgentTunnel).
Proceed(b, a) ==
    \E s \in Session(b) :
        /\ sessions' = Resolve(b)
        /\ \/ UNCHANGED exchanges
           \/ /\ scopeMayReach(s, a) /\ a \notin revoked
              /\ Cardinality(exchanges) < MaxExchanges
              /\ exchanges' = exchanges \cup {Exchange(s, a)}
        /\ UNCHANGED cookie

\* handleRequest: without a session the cookie is cleared.
Request(b, a) ==
    /\ login = None /\ b \in cookie
    /\ \/ /\ Session(b) = {}
          /\ sessions' = Forgotten(b, Resolve(b))
          /\ cookie' = cookie \ {b}
          /\ UNCHANGED exchanges
       \/ Proceed(b, a)
    /\ UNCHANGED <<storeVars, challenges, login, keyFor, posts, granted>>

\* handleUpgrade: without a session it is refused, and the cookie stays.
Upgrade(b, a) ==
    /\ login = None /\ b \in cookie
    /\ \/ Session(b) = {} /\ sessions' = Resolve(b) /\ UNCHANGED <<cookie, exchanges>>
       \/ Proceed(b, a)
    /\ UNCHANGED <<storeVars, challenges, login, keyFor, posts, granted>>

ExchangeEnds(x) ==
    /\ login = None
    /\ exchanges' = exchanges \ {x}
    /\ UNCHANGED <<storeVars, challenges, sessions, login, browserVars, granted>>

-----------------------------------------------------------------------------
(* What happens around the handlers.                                       *)

\* Another process revokes, or the lifetime of a credential is over.
CredentialEnds(c) ==
    /\ Live(c)
    /\ ended' = ended \cup {c}
    /\ UNCHANGED <<enrolled, revoked, challenges, sessions, login, exchanges, browserVars,
                   granted>>

RevokeAgent(a) ==
    /\ a \notin revoked
    /\ revoked' = revoked \cup {a}
    /\ UNCHANGED <<ended, enrolled, challenges, sessions, login, exchanges, browserVars,
                   granted>>

\* A browser drops its cookie when Max-Age is over, which nothing extends.
CookieGone(b) ==
    /\ login = None
    /\ b \in cookie
    /\ cookie' = cookie \ {b}
    /\ sessions' = Forgotten(b, sessions)
    /\ UNCHANGED <<storeVars, challenges, login, exchanges, keyFor, posts, granted>>

Tick ==
    /\ login = None
    /\ challenges' = [n \in Nonces |-> IF challenges[n] = None THEN None
                                       ELSE Older(challenges[n], ChallengeTtl)]
    /\ sessions' = [i \in 1 .. Len(sessions) |->
                        [sessions[i] EXCEPT !.idle = Older(@, SessionTtl - 1)]]
    /\ UNCHANGED <<storeVars, login, exchanges, browserVars, granted>>

\* Sessions and challenges live in memory only.
RelayGone ==
    /\ challenges' = [n \in Nonces |-> None]
    /\ sessions' = <<>>
    /\ login' = None
    /\ exchanges' = {}

\* touchClient, before the session is created, throws on a lock timeout out of the
\* 'end' listener.
TouchThrows ==
    /\ login # None
    /\ RelayGone
    /\ UNCHANGED <<storeVars, browserVars, granted>>

RelayRestarts ==
    /\ RelayGone
    /\ UNCHANGED <<storeVars, browserVars, granted>>

-----------------------------------------------------------------------------
Next ==
    \/ \E b \in Browsers, n \in Nonces : Challenge(b, n)
    \/ \E b \in Browsers : Logout(b) \/ CookieGone(b) \/ TokenRefused(b)
    \/ \E p \in posts : Verify(p) \/ PostGone(p)
    \/ \E b \in Browsers : \E c \in Tokens[b] : LoginWithToken(b, c)
    \/ CreateSession
    \/ \E b \in Browsers, a \in Agents : Request(b, a) \/ Upgrade(b, a)
    \/ \E x \in exchanges : ExchangeEnds(x)
    \/ \E a \in Agents : RevokeAgent(a)
    \/ \E c \in Clients : CredentialEnds(c)
    \/ Tick \/ TouchThrows \/ RelayRestarts

Spec == Init /\ [][Next]_vars

-----------------------------------------------------------------------------
(* Properties.                                                             *)

\* The state has its type, and there are never more sessions than MAX_SESSIONS.
TypeOK ==
    /\ ended \in SUBSET Clients
    /\ enrolled \in SUBSET Clients
    /\ revoked \in SUBSET Agents
    /\ challenges \in [Nonces -> 0 .. ChallengeTtl + 1 \cup {None}]
    /\ sessions \in Seq([holder : Browsers \cup {None}, client : Clients, idle : 0 .. SessionTtl])
    /\ Len(sessions) <= MaxSessions
    /\ login \in [browser : Browsers, nonce : Nonces \cup {None}, client : Clients] \cup {None}
    /\ exchanges \in SUBSET [client : Clients, agent : Agents]
    /\ keyFor \in [Browsers -> enrolled \cup {None}]
    /\ posts \in SUBSET [browser : Browsers, nonce : Nonces, client : enrolled \cup {None}]
    /\ cookie \in SUBSET Browsers
    /\ granted \in [Nonces -> 0 .. 2]

\* A signed challenge is good for one session, however often it is posted, across
\* expiry, other logins and a restart of the relay ("cannot be replayed", verify handler).
OneSessionPerChallenge == \A n \in Nonces : granted[n] <= 1

\* Nothing new gets through a tunnel for a credential that has ended or for a host that
\* is revoked or out of scope, by any session: also not by one that was created after its
\* credential ended.
OnlyAuthorized ==
    [][\A x \in exchanges' \ exchanges :
          Live(x.client) /\ x.agent \in Scope[x.client] \ revoked]_vars

\* A login ends the session of another browser only if all places are taken, and while
\* no older session stays.
EvictsOldest ==
    [][login # None /\ login' = None /\ sessions' # <<>> =>
         \A i \in DOMAIN Unexpired :
            LET b == Unexpired[i].holder IN
            b \notin {None, login.browser} /\ (\A j \in DOMAIN sessions' : sessions'[j].holder # b)
            => Len(sessions') = MaxSessions /\ i <= Len(Unexpired) - (Len(sessions') - 1)]_vars

\* "The token crosses the network only once: after the first login signatures are used"
\* (README.md:26): a credential with a key can be used without its token.
EnrolledCanSign == \A c \in enrolled \ ended : \E b \in Browsers : keyFor[b] = c
=============================================================================
