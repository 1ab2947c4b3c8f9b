# A TLA+ model of dsh_remote_web

`dsh_remote_web` lets browsers reach DSH, a server bound to loopback on a user's
machine, through a public relay. The machine (the *host*) dials the relay and keeps a
WebSocket open, the *tunnel*; the relay authenticates browsers and forwards their
requests and WebSockets through the tunnel. This directory holds TLA+ modules that model
the parts of it where the order of events matters, TLC configurations that check them
and TLAPS proofs. Paths below are relative to the repository's root; `src/src/...` in
`PROJECT.json` is the same tree one level up.

## Inventory

| Component | Source | State | Operations | Correct when |
|---|---|---|---|---|
| WatchedFile | `src/shared/watched-file.ts` | file on disk, lock directory, per process a stamp and a cached value | `value`, `update`, `write` | no confirmed edit is lost, readers see what was confirmed, a crash wedges nobody |
| RelayStore | `src/relay/store.ts` | agents and clients in a WatchedFile | create, find, verify, touch, revoke, enroll | revocation is permanent, a name means one live machine, what a command says is true |
| TunnelClient | `src/plugin/tunnel.ts` | connection state, socket, retry and liveness timers, exchanges under way | `start`, `stop`, dial, frame handler, close event | exactly one attempt at a time, back after every failure that is not a refusal, nothing left running |
| Agent socket, registry | `src/relay/server.ts`, `src/relay/tunnels.ts` | per socket its tunnel, per agent the registered tunnel, per tunnel its exchanges | handshake, `add`, `remove`, `evictStale`, `failAll`, `dispatch` | the open tunnel is the registered one, no exchange hangs on a tunnel given up |
| HTTP exchange | `forwardHttp`, `#openLocalRequest` | response head sent, bytes counted, finished | stream request and response, abort, limits | the browser gets a prefix of the answer and knows whether it is all |
| Proxied WebSocket | `proxyClientSocket`, `#openLocalSocket` | sockets at both ends, closed flag | open, messages, close | messages in order, none lost while both ends are open, both ends close |
| Handshake | `src/shared/auth.ts`, `src/shared/crypto.ts` | table of seen nonces, attempt counters | verify, remember, prune, limit | no proof is accepted twice, attempts are bounded |
| Sessions, login, request gate | `src/relay/sessions.ts`, `src/relay/server.ts` | sessions with sliding expiry, challenges | login, resolve, logout, evict | a revoked client has no session, scopes hold on every path |
| Plugin entry | `src/index.ts`, `src/plugin/config.ts` | credential file, running client | poll, restart, status | the client follows the file |
| CLI | `src/cli.ts` | none of its own | setup, enable, disable, agent, client, invite | an edit is not undone by another |
| Protocol, headers, pages | `src/shared/protocol.ts`, `src/shared/headers.ts`, `src/relay/pages.ts` | none | parse, rewrite, render | what one side sends the other accepts |

How they interact: CLI commands and the relay share the store file and nothing else;
there is no channel between them, so a revocation reaches the relay when it next looks
at the file. The plugin follows its credential file by polling. Host and relay exchange
JSON frames over one WebSocket; every browser exchange has an id that routes frames to
callbacks registered with the tunnel, and the loss of the tunnel is reported through the
same table.

What is hard about it: a read-modify-write over a file by processes that may die holding
the lock; close events that come long after `close()` was called; a connection that dies
without telling; two copies of a host; timers that belong to an earlier socket;
revocation decided in one process and enforced in another. `PROJECT.json` lists each
hazard at its line.

## Modules

| Module | Models | Proofs |
|---|---|---|
| `WatchedFile`, `AtomicFile` | the state file and its lock; what `update()` promises | `WatchedFileProofs` |
| `AgentTunnel` | hosts and relay joined by WebSockets: lifecycle, registry, exchanges by name | `AgentTunnelProofs` |
| `AgentHandshake` | the relay's decision on a hello: limiter, clock, nonces, signature | `AgentHandshakeProofs` |
| `HttpExchange`, `AnswerStream` | one request and its response inside a tunnel; what the browser is promised of the response | `HttpExchangeProofs` |
| `ProxySocket` | one browser WebSocket inside a tunnel | `ProxySocketProofs` |
| `BrowserAccess` | logins, sessions and the gate before every exchange | `BrowserAccessProofs` |
| `Registry` | the commands and operations that register and revoke machines | `RegistryProofs` |
| `PluginSync` | credential file, the commands on it, the plugin that polls it, the status file | `PluginSyncProofs` |

Each has an `MC...` module with its instance for TLC. How they fit together:
`AgentTunnel` takes a hello for one that the relay finds genuine or misjudges and asks
what happens to the sockets; `AgentHandshake` asks how that decision is made and takes
the rest for given. `AgentTunnel` takes an exchange for a single frame each way and asks
what happens to the tunnel; the two stream modules take the tunnel for two ends that may
be lost at any time and ask what happens to the stream. They assume of the tunnel only
what `AgentTunnel` shows: frames keep their order, and a tunnel that one end closes or
loses is lost to the other, too (`ClosingTunnelsLeave`, `Reattached`). `Registry` and
`BrowserAccess` take an edit of the state file for one step and a read for current,
which is what `WatchedFile` shows of `update()` and of revocations (`UpdatesAreAtomic`,
`ReadsSeeRevocations`). `PluginSync` takes the client for its status, which is what
`AgentTunnel` makes of it.

### WatchedFile

An action is one system call with the computation that follows it, because the code is
synchronous and other processes can only come in between. `pc` is the call a process is
about to make: `stat`, `read` for the getter; `mkdir`, `probe`, `break` for the lock
loop; `rename`, `restamp` for `write()`; `release`. The contents of the file are the set
of edits applied to it. `Size` gives the length of the file: an edit in `Resizing`
always shows in the length (a revocation adds characters), a touch rewrites a timestamp
in place. `lock` holds who made the lock directory; the code records no owner, so
`RemoveLock` removes it whoever made it. `Tick` advances the clock; `age` and `waited`
saturate one above the limits they are compared with. `committed`, `usurped` are
history. `Exit` lets a process end and another start in its place with an empty cache. A
hand edit that leaves invalid JSON happens in a later tick than the last write.

`committed` collects an edit when `update()` returns having written it, or throws from
the mutation because the value already contains it.

Runs:

- `WatchedFile_safety`: a relay that also reads and a CLI, one touch and one revocation,
  one crash, one hand edit. `LockTimeout` is 0 and `LockStale` 1 tick, so a waiter may
  time out, find a lock stale, or come too early; holders may be suspended past
  `LockStale`. `UpdatesAreAtomic` is the refinement: as long as no live holder was
  usurped and the file is not garbled, `update()` implements `AtomicFile`, in which an
  edit happens at once or not at all; like the other properties it is about edits in
  `Resizing`. What a usurped lock or a hand edit does to the file is outside what
  `AtomicFile` promises; its `void` says so.
- `WatchedFile_live`: fairness of the steps of a running access and of time; and strong
  fairness of each command, that is, the operator retries it.

`RemovalFails` lets `rmSync` throw, at a release as well as at a stale lock. The safety
run allows it; the progress run does not, because of the third sentence below.

Some sentences of the comments do not hold and have no run of their own. They are in the
model, and the properties are stated as narrowly as they ask for.

- "Break a lock whose owner died" (line 196): the age is read and the directory removed
  in two steps, so of two processes that find the same stale lock the second can remove
  the lock the first has just taken.
- "Already gone: another process broke it as stale. Nothing to undo" (line 190): a
  holder suspended for longer than `LockStale` removes, when it goes on, the lock of the
  process that took over from it. These two are why "serialized by an exclusive lock"
  (line 147) is stated as `ExclusiveUnlessUsurped`.
- "Vanished while we looked; try to take it" (line 204): the same `catch` takes the
  error of a stale lock that cannot be removed (made by another user, or on a file
  system now read-only) and continues without the deadline and without the pause, for
  ever. `AccessesEnd` therefore needs removals to succeed.

After a hand edit that breaks the file only the first access throws: the new stamp is
stored before the file is parsed, so the next access returns the value from before,
against "callers see the throw rather than a silently empty value" (lines 44-46). A
foreign write of the same length within one clock tick is not seen by a reader ("every
access is current by construction", line 11; `RevocationsDurable` and
`ReadsSeeRevocations` are therefore about `Resizing`). And as the lock is made before
the file's directory, `update()` throws while that directory is missing ("parent
directories are created as needed", `src/relay/store.ts:132`); `NoParent` models it and
`CrashCannotWedge` assumes it exists.

Two processes, two edits are enough for the races here: every property relates a writer
to one other process, and the double break needs a dead holder and two waiters, for
which the killed process returns as one of them.

### AgentTunnel

One action per event-loop callback. `hostEnd` and `relayEnd` are the states of the
WebSocket at each end: `connecting`, `open`, `closing` (this end has called `close()`
and still receives), `ending` (the close event is about to be delivered), `closed`.
`toRelay` and `toHost` are the frames under way. `dead` says that the network has
dropped the connection: frames put on it are lost, and an end that is open learns of it
by its timers (or by a reset, which may or may not come). An exchange is `new`, then
attached to a tunnel (`carrier`), then answered, lost or left by its browser. `Mishaps`
chooses what may go wrong: `break` (network), `slow` (a hello later than ten seconds),
`proof` (clock skew or a full nonce table refuses a genuine hello), `throttle` (rate
limit), `restart` (relay killed), `shutdown` (relay stopped in order), `lock` (a lock
timeout in `store.touchAgent`), `address` (a relay address of which the WebSocket
constructor throws, so that a dial is a retry at once, `StartThrows`).

A connection that is closed at both ends gives its name to the next one, so a few names
stand for any number of connections. `Start` is allowed on a client object whose sockets
are all over: the plugin always makes a new object, which is the same.

Runs:

- `AgentTunnel_safety`: two clients with one agent's credentials, two connections, one
  exchange, one mishap. Left out are those with which `RefusedOnlyIfRevoked` does not
  hold: `proof` and `slow`; and `shutdown`, which is in the next run. The other
  properties hold with them, too, by their theorems.
- `AgentTunnel_live`: one client and one exchange, which is an HTTP request or a proxied
  socket: the latter may be attached to a tunnel whose socket no longer takes frames.
  Fairness: event loops run, the timers of the code fire, DSH answers, and a relay whose
  last socket is gone ends (`RelayExits`). Nothing else is assumed to notice a dead
  connection that is open, so the run shows that the heartbeats of both sides are
  enough. Browsers need not come or leave. One of the mishaps is a hello overtaken by
  the handshake timer: the tunnel that it attaches to a closing socket goes away
  (`ClosingTunnelsLeave`).

`RelayShutsDown` is SIGTERM: the heartbeat stops, `closeAll` closes the tunnels, and the
process ends when the last socket has. A hello in flight then still makes a tunnel,
which nothing at the relay closes any more; it is the host's liveness timer that ends
it, since the pings have stopped. `ShutdownEnds` states that, and names the exception:
if the connection of such a tunnel breaks silently, nobody at the relay is left to
notice, and the process stays.

`RelayCrashesOnHello` models a lock timeout in `store.touchAgent`: thrown in a
WebSocket's `message` listener, which no handler surrounds, it ends the relay, although
`docs/DECISIONS.md:169-171` has both entry points catch what is thrown. The updates in
the `end` listeners of the two logins (`src/relay/server.ts:618-620`, 684) are in the
same position (`TouchThrows` of `BrowserAccess`).

Some sentences of the documents are looser than the code and have no run. A handshake
that is slower than ten seconds is closed with `CLOSE_AUTH_FAILED`
(`src/relay/server.ts:195`), on which the host stops dialing as if it had been refused,
although it is documented to redial until refused "in a way that cannot be fixed by
retrying" (`src/plugin/tunnel.ts:89-90`); `RefusedOnlyIfRevoked` is therefore checked
and proved without that mishap, and `Reattached` allows the refusal. A revoked machine's
tunnel is dropped when a browser next asks for it, or when the host redials, not "at
once" (`CHANGELOG.md:24`); `RevokedStaysOut` says what does hold. And frames that arrive
between `stop()` and the close event are still executed; `WorkHasSocket` says that the
close event then ends what they started.

Two hosts with the same credentials displace each other for ever. That is what the code
does (`CLOSE_AGENT_REPLACED` is not terminal); `Reattached` is therefore checked with
one client.

### AgentHandshake

The message handler of `handleAgentSocket` before there is a tunnel, as one step per
hello frame with an outcome each: `Throttle`, `RefuseUnread`, `RefuseNonce`,
`RefuseSignature`, `Admit`, in the order in which the code checks. `seen` is the table
of `OneTimeValues` (entries with the relay's time), `hits` that of `RateLimiter`, both
pruned where the code prunes them. A hello is a record that stays in `hellos` and may be
delivered any number of times, from any address and at any time; `matches` tells whether
it is signed with the key that the relay knows. `Drift` is the difference of a host's
clock from the relay's. `clientKey` takes the forwarded address only behind a trusted
proxy. A restart empties both tables, and the histories with them: a hello that was
admitted before a restart is admitted once more within its window, which no document
rules out.

- `AgentHandshake`: two nonces, two addresses, one machine, clocks one tick slow, one
  fast and two fast with a skew of one allowed, a table of two, a limit of two attempts
  in two ticks, one restart. Time runs to four, so that a nonce is forgotten (after two
  ticks) and comes again on each side of the border. `NoReplay` needs the two windows of
  the code (age of the timestamp, age in the table) to fit to the tick; `BurstBounded`
  is the bound that fixed windows really give, which is twice the limit.

### HttpExchange

`forwardHttp` at the relay, the request handlers of the host, and DSH. `exchange` is the
relay's `ActiveRequest`: `attached` until `finish()`. `head` and `ended` are the
response object (`headersSent`, `writableEnded`), `got` the chunks written to it.
`entry` and `received` are the host's row in `#requests`, `upstream` its request to DSH.
Every event of the browser's request and response, every frame and every event of DSH's
response is an action; bodies are counted in chunks. A `data` event is one chunk, so the
slicing into frames of at most `MAX_BODY_CHUNK_BYTES` is left out, and `Limit` is one
chunk with bodies of none, one and two: below, at and above the limit. `relaySock =
"closing"` is a tunnel that the relay has closed and that still delivers. The host's
`stop()` and the close event that follows are one step here (`HostLosesTunnel`); that
frames in between are still executed is in `AgentTunnel` (`Stop`, `WorkHasSocket`).

- `HttpExchange`: `AnswerIsStream` is a refinement: what the browser sees of an exchange
  is an `AnswerStream`, in which the host's head comes first and once, chunks follow in
  the order in which DSH sends them, a page of the relay's comes only into a response
  that has no head yet, and one end comes, behind which there is nothing. The refinement
  mapping is the identity but for the tunnel, of which the abstract module only knows
  whether it is lost. Every property under fairness of the event loops and of a browser
  that is still there. Nothing is assumed of DSH: its response may be an endless stream,
  as its event streams are, and `ResponseEnds` assumes that it ends.

A response that the host or the tunnel breaks off after its head is ended by the relay
as if it were complete (`src/relay/server.ts:412`, 425), and `content-length` is among
the headers that the host takes out (`src/shared/headers.ts:86`): the browser cannot
tell. `CleanEndIsWhole` therefore says that a clean end means a whole answer unless one
of these two has happened.

The counter of the host can never pass the limit, because the relay counts the same
bytes first; `TypeOK` says so, and the branch of `BodyChunk` that aborts is never taken
with this relay. After an answer that comes before the end of the body the host's entry
is gone and the rest of the body is dropped; the request to DSH is then never ended.

### ProxySocket

`proxyClientSocket` at the relay, `#openLocalSocket` and its handlers at the host. A
message is its number, a close code is one of five kinds: what tells them apart is
whether `close()` takes them. 1005 and 1006, which `ws` reports and refuses to send, are
`absent`; a socket closed with one is terminated by the `catch`. `localSock = "aborted"`
is a socket closed while it was connecting, whose `error` event is to come.

- `ProxySocket`: four messages up, so that one can be missing in the middle, three down;
  the last of each is longer than a frame of the tunnel may be (`LongUp`, `LongDown`).
  DSH's socket may fail to be made at all (the constructor throws, a bad path or
  protocol). A closed socket comes to its close event (the close timeout of `ws`), a
  connection attempt ends (`handshakeTimeout`); nothing is assumed of the browser or of
  DSH.

- `ProxySocket_long`: see `findings`. A frame that is longer than
  `MAX_CONTROL_FRAME_BYTES` fails the socket that receives it (`Jammed`): nothing behind
  it is delivered, and the tunnel is lost with everything on it. The other properties
  hold nevertheless.

Messages that the browser sends before the host's socket to DSH is open are dropped: the
relay accepts the browser's socket without waiting for `ws.open.ack`. `UpIsContiguous`
says that no message after the first delivered one is.

### BrowserAccess

The login handlers, `SessionStore`, the table of challenges and the gate of
`handleRequest` and `handleUpgrade`, with the store's records as they appear to them:
`ended` (revoked or expired), `enrolled` (has a signing key), `revoked` (hosts). A
handler is synchronous, so it is one step, with one exception: the store is read through
to a file that another process changes, so a login verifies in one step and creates the
session in the next, with nothing but revocations and a crash in between. A session
names the browser that has its id in the cookie, because nobody else can name it;
`Forgotten` is what a new cookie does to the old one. `keyFor` is the credential that a
browser's current key is enrolled for: the login page makes a new key for every token it
submits. A post is a signed challenge that may be delivered any number of times.

- `BrowserAccess`: two browsers that share a credential, one of them with a second one,
  and two places for sessions: a login of one can evict the other, of either credential,
  and orphans left by lost responses take places too. One challenge is pending at most
  (`MaxChallenges`) of two, so the table is full at times; one post is kept
  (`MaxPosts`), for any time. Lifetimes are one tick: in use, idle or over are the cases
  that the code tells apart. One host, in the scope of one credential and not of the
  other.
- `BrowserAccess_keys`: see `findings`.

`TouchThrows` is the lock timeout in `touchClient` between the two steps of a login,
which ends the relay (above).

No fairness: nothing here must happen. What is seen and promised by no document: a
WebSocket that is open when its credential ends stays open (the gate looks at upgrades
only); the cookie keeps the `Max-Age` it was set with while the session slides; a token
still logs in after a key is enrolled, and the second browser that shares a credential
never gets its key enrolled.

### Registry

`RelayStore`'s operations on machines and the commands made of them. A command makes
several edits of the state file and other commands come in between: `agent add` is
`Register`, `Issue` and `PrintCode` (machine, browser credential, printed code), `agent
revoke <name>` looks for the name as an id in one access (`AgentRevoke`), as a label in
a second (`Search`) and revokes the id in a third (`Revoke`), `client add` resolves its
machine in the same way, `relay` registers a machine under its own hostname when it
first finds no record. `Kill` ends a command between any two. `gap` is history for
`RevokeAnswersTrue`.

- `Registry`: two shells beside the relay, three ids and two names, one of them the
  hostname: a label freed by a revocation and taken again, and a name revoked by two
  shells at once, need no more. Safety only: nobody has to finish a command.

### PluginSync

The machine that runs DSH. A poll (`Sync`) is one pass of `sync`: the getter, the
signature, the client, the status file. `moved` says that the file's stamp differs from
the one the plugin keeps; an unreadable file makes the pass throw after the stamp was
kept (`SyncThrows`). `setup` and `enable` or `disable` are the commands that write; the
latter read and write in two steps without the lock. `mishaps` counts hand edits, broken
connections and refusals for no fault of the credentials, up to `MaxMishaps`.

- `PluginSync`: two shells, the codes of two machines, two mishaps. Fairness: the timer
  of the plugin, the client's dial, commands that were begun; nothing of the operator.
  `PluginFollowsFile` and `PairingCompletes` are about a file that stays as it is from
  some time on.

What is seen and contradicts a message or a comment:

- "Run `dsh-remote-web setup` again to re-pair" (`src/plugin/tunnel.ts:330`): with the
  same code this does not start a refused client again, however often it is run, because
  the signature is the same (`src/index.ts:110`). `PairingCompletes` therefore excepts a
  client that was refused for no fault of its credentials. The same holds of a `disable`
  and `enable` between two polls.
- `enable` and `disable` "flip the credential file" (`src/cli.ts:243`): they write back
  the machine they have read, over one that a `setup` has written since, which is the
  lost update that `update()` is there to prevent
  (`src/shared/watched-file.ts:130-132`). `Adopted` and `PluginFollowsFile` are about
  what the plugin makes of the file that results.

## Proofs

`WatchedFileProofs` proves for any sets of processes and edits, any limits and any
length function that shows the edits in `Resizing`:

- `TypeCorrect`, `Exclusion`, `Durability`, `ReadCurrency`: the invariants of
  `WatchedFile_safety` and its property of reads.
- `Refinement`: `update()` implements `AtomicFile`. `StepRefines` maps the rename of an
  update to `Apply`, its confirmation to `Confirm`, whatever happens from a usurped lock
  or a hand edit on to `Void`, and every other step to a stutter: what a holder is about
  to write is the file and its own edit (`RenameAdds`, from `DataInv`), and no other
  step touches the file (`FileKept`).

The inductive invariant `IInv` adds to the type invariant: which `pc` values belong to
an update; `HolderOwnsLock`, a process inside `update()` owns the lock directory unless
a live holder was usurped; and `DataInv`, as long as none was and no hand edit broke the
file: the file holds every confirmed edit, a stamp is never newer than the file, a
cached value whose stamp is the file's agrees with it on `Resizing`, and the value a
holder is about to write is the file's. The last is why the stamp has to be taken before
the read and why the reader inside the lock is needed. The proof uses `SizeAssumption`
(edits in `Resizing` show in the length) and `ConstantsAssumption`, which TLC evaluates
on the instance of every run.

`HttpExchangeProofs` proves for bodies, answers and limits of any size:

- `Tracked`: a request that runs at DSH has an entry by which the host can stop it.
- `TypeCorrect`, by which the host's own count of an upload never passes the limit.
  `Counted` says why: the chunks on their way are numbered upwards from above what the
  host has counted, and the relay sends none beyond the limit.
- `Uploads`: DSH sees the end of an upload only if it has all of it.
- `AnswerInOrder` (`AnswerIsPrefix`, which no run checks because `AnswerIsStream`
  implies it) and `EndsWhole`: the browser gets a prefix of DSH's response, and the
  whole if the response ends without a failure.
- `Refinement`: an exchange implements `AnswerStream`.

`Uploads` is about frames on their way, so the invariant follows them: `InStep` says
that the chunks that the host has received and those of the frames to come add up to
what the relay sent; `RequestFirst` and `NothingBefore` put the request frame before
every other frame, `EndIsLast` the end after every chunk; `EndedIsWhole` and
`WithinLimit` say what the relay knew when it sent the end. A frame that is lost with
the tunnel, or ignored, breaks the sum, but only together with the upstream's end.

The response needs the same in the other direction, and needs it of the upload, too: an
abort that is on its way to the relay means that DSH failed or that the host refused the
request, and that a refused request does not come again (`RefusedStays`) follows from
`RequestFirst`. `OnTheirWay` says of each frame what it will be when it is read: the
head is the first and the browser has none, a chunk is the next by its number
(`Position`), an end is the last and comes behind the whole response. `UpToDate` says
that nothing is missing among them as long as the tunnel stands and the response goes
on; `Begun` that before the relay attaches the exchange nothing has happened, and that
an attached exchange has neither a page nor an end. With that `AnswerInv` is inductive.

For `Refinement` it is joined by `Closed` (an end has a head before it). `StreamSource`
shows that DSH and the tunnel do what the abstract source may, `StreamReads` that each
frame that the relay reads is a `Begin`, `Read`, `End` or `Page`, and `StreamBrowser`
that of the other steps only three reach the browser: a refused exchange and an upload
that is too long make a page, and only if there is no head, and the loss of the tunnel
makes a page or an end. This is where a second end or a page behind an end is excluded.

`ProxySocketProofs` proves for any number of messages:

- `Tracked`: a socket to DSH that is connecting or open is known by its id.
- `TypeCorrect`: each end gets only frames that it knows, and only messages that were
  sent.
- `DownInOrder`: the browser gets a prefix of what DSH sent. `DownInv` follows the
  frames: the messages on their way follow each other without a gap from the last one
  the browser got (`Run`), and as long as the tunnel stands they reach as far as what
  DSH has sent (`Whole`). A message that is dropped, by a lost tunnel or by one that is
  jammed, is therefore dropped with all that follow it.
- `UpInOrder`: DSH gets a contiguous run of what the browser sent. The browser's
  messages are dropped until DSH's socket is open, so what is tied to the frames is not
  what DSH got but what the host has read (`ReadUpTo`), and `OpenFirst` says that the
  frame that opens the socket is ahead of all messages.

`BrowserAccessProofs` proves for any number of browsers, credentials and challenges:

- `OneSession`: a signed challenge leads to one session. `ChallengeInv` says that a
  challenge in the table has led to none and is that of no login under way
  (`PendingUnspent`), that a verified login is the first for its challenge
  (`LoginIsFirst`), and that a nonce whose history is still counted is not reused
  (`SpentIsKept`, which is the randomness of `randomUUID`).
- `Authorization`: every exchange begins behind the gate, for a live credential and a
  host in scope that is not revoked.
- `TypeCorrect`: in particular there are never more than `MaxSessions` sessions. The
  store's loops are one recursive function, `Kept`; what it returns is shown by
  induction over the length done (`KeptType`). `Counting` is the induction principle for
  that, derived from the well-foundedness of the naturals.
- `OldestGoes`: a login ends the session of another browser only if all places are
  taken, and while no older one stays. `RoomMade` says that eviction leaves a place
  free, and takes only the oldest, and none unless it has to.

`AgentHandshakeProofs` proves for any clocks, skew, table limit and number of hellos:

- `HelloOnce`: no hello is admitted twice. `NoReplay` alone is not inductive; `IInv`
  adds `Remembered`, that the nonce of an admitted hello is in the table with a time
  that the hello's own is not further ahead of than the skew, or that the hello is too
  old: then pruning, at twice the skew, never forgets a hello that could still pass
  (`PruneKeeps`). `OneHello` and `SentFirst` are about the nonces that hosts draw.
- `TypeCorrect`, by which no count of the limiter passes its limit.
- `AttemptsBounded`: fewer than twice `AgentLimit` attempts of an address fall into the
  length of one window, unless one succeeds. The invariant (`Paced`) looks at the whole
  row of an address's attempts: while no window runs, all but the last `AgentLimit - 1`
  are a window's length in the past (`Rested`); while one runs, those before it are
  before its start, and those `AgentLimit` earlier still a window's length before that
  (`Running`). `RecentIsEnd` ties the count that the property speaks of to the row: the
  recent attempts are its end.

`RegistryProofs` proves for any number of processes, ids and names:

- `UniqueLabels`, by the check and the edit being one update.
- `TrueAnswers`: `Aims` ties a revocation under way to the name it was given: the
  machine it was resolved to is live and still has the name, or there has been a moment
  when nobody had.
- `CodesAreBacked`: `Issues` says that a machine that is about to get a credential is
  stored, and that one whose code is about to be printed is stored with its credential.
- `TypeCorrect`. The assumption used is `RegistryAssumption`, that no name is the id of
  a machine.

`PluginSyncProofs` proves for any number of machines and shells:

- `FollowsFile`: `Consistent` says that the client is for the signature and the
  signature for the credentials the plugin knows, `Current` that these are those of the
  file unless it has changed.
- `TypeCorrect`.

`AgentTunnelProofs` proves for any number of machines, clients, connections and
exchanges, and for any mishaps:

- `TypeCorrect`.
- `SingleAttempt`, `WorkIsStopped`: a client has one live attempt, and what runs at the
  host has a socket whose close event will end it. `HostInv` adds that a client's socket
  is its own and not over (`SockIsLive`) and that whoever is at an end of a connection
  dialed it (`Dialed`).
- `OneTunnel`, `NoOrphans`, `Revocation`: the open tunnel is the registered one, every
  exchange that is under way is on a tunnel whose close event is to come, and a revoked
  machine gets no new exchange and, once its tunnel is gone, no tunnel. `RelayInv` adds
  `RegisteredIsAttached`: what is registered is a live tunnel of the machine it is
  registered for. It is what makes displacement by a second host and a late close event
  of the first harmless (`remove` compares the tunnel, not the name).
- `RefusalIsJust`: if no mishap is `slow` or `proof`, a client gives up only on a
  revoked machine. `RefusalInv` says it of the client's connection one step earlier: no
  close frame with a terminal code is on its way, in either direction, unless the
  machine is revoked.

### Only model-checked

Liveness: `AccessesEnd`, `CrashCannotWedge`, `ExchangesEnd`, `Reattached`,
`ClosingTunnelsLeave`, `ShutdownEnds`, `HostReleases`, `ResponseEnds`, `BothEndsClose`,
`PluginFollowsFile`, `PairingCompletes`. They hold by fairness, and TLAPS does not
reason about `ENABLED`. Every other property of a passing run has a theorem.

## Not modelled

- Header and path policy (`src/shared/headers.ts` and the cross-site and path checks of
  the gate): filters of one header map or one path, without state and called in one
  step. No order of steps goes wrong in them, and a model would repeat them line by
  line.
- Pages: HTML rendering, except what the scripts of the login page do to keys.
- Cryptographic primitives and the encoding of pairing codes: a signature is modelled by
  what it proves, a code by the machine it names.
- Of the CLI: `invite`, `show-config`, `status` output and the lists, which read and
  print; parsing of arguments.
- The login's own instance of `RateLimiter`, which is the class modelled in
  `AgentHandshake`; the agent picker; the configuration's defaults; logging.
- `src/lib/` is the built form of `src/src/`, and not modelled apart from it.
