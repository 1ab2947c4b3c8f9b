----------------------------- MODULE PluginSync -----------------------------
(***************************************************************************)
(* The machine that runs DSH: the credential file, the commands that write *)
(* it, the plugin that polls it and starts and stops the tunnel client,    *)
(* and the status file the plugin writes back.  The two files are the only *)
(* connection between commands and plugin.  A poll is one step, the pass   *)
(* of `sync`; a command that reads the file and writes it back takes two.  *)
(* The client is its TunnelStatus: what happens on the wire is AgentTunnel *)
(* and AgentHandshake.                                                     *)
(***************************************************************************)
EXTENDS Naturals

CONSTANTS
    Agent,      \* machines registered with the relay, one pairing code each
    Terminal,   \* shells in which the operator runs commands
    Absent,     \* there is no credential file
    Garbled,    \* the file does not parse, or not as credentials
    None,       \* no signature, no client, no status file
    MaxMishaps  \* bound: hand edits, lost connections, refusals for no fault

Credentials == [agent : Agent, enabled : BOOLEAN]
Clients == [agent : Agent, state : {"trying", "connected", "refused"}]

ASSUME SyncAssumption ==
    /\ Absent # Garbled
    /\ None \notin Agent \cup Clients
    /\ MaxMishaps \in Nat

VARIABLES
    credentials,  \* agent.json
    status,       \* status.json; fresh: written in the last 15 seconds
    command,      \* per terminal: the command in progress
    plugin,       \* whether DSH runs with the plugin mounted
    allowed,      \* config.enabled of the mounted plugin
    moved,        \* the file changed after the plugin's last look at it
    known,        \* the plugin's WatchedFile.#value, Absent for null
    signature,    \* signatureOf the adopted credentials, None for ''
    client,       \* the TunnelClient, None for null
    live,         \* machines the relay has not revoked
    mishaps       \* counter for MaxMishaps

fileVars == <<credentials, moved>>
pluginVars == <<plugin, allowed, known, signature, client, status>>
vars == <<fileVars, pluginVars, command, live, mishaps>>

Idle == [do |-> "idle"]
Dialing(a) == [agent |-> a, state |-> "trying"]

Init ==
    /\ credentials = Absent
    /\ status = None
    /\ command = [t \in Terminal |-> Idle]
    /\ plugin = FALSE /\ allowed = TRUE
    /\ moved = TRUE /\ known = Absent
    /\ signature = None /\ client = None
    /\ live = Agent
    /\ mishaps = 0

-----------------------------------------------------------------------------
(* The commands.  One that fails leaves everything as it is; `status`,     *)
(* `invite` and `show-config` read the files and print.                    *)

Becomes(t, c) == command' = [command EXCEPT ![t] = c]

Write(c) == credentials' = c /\ moved' = TRUE

\* `setup <code>` writes the file whatever it holds, and says so.
Setup(t, a) ==
    /\ command[t] = Idle
    /\ Write([agent |-> a, enabled |-> TRUE])
    /\ Becomes(t, [do |-> "paired", agent |-> a])
    /\ UNCHANGED <<pluginVars, live, mishaps>>

Paired(t) ==
    /\ command[t].do = "paired"
    /\ Becomes(t, Idle)
    /\ UNCHANGED <<fileVars, pluginVars, live, mishaps>>

\* `enable` and `disable` read the file; without readable credentials they fail.
ToggleReads(t, enabled) ==
    /\ command[t] = Idle
    /\ credentials \notin {Absent, Garbled}
    /\ Becomes(t, [do |-> "toggle", agent |-> credentials.agent, enabled |-> enabled])
    /\ UNCHANGED <<fileVars, pluginVars, live, mishaps>>

\* They write what they read with the switch set, and do not take the lock.
ToggleWrites(t) ==
    /\ command[t].do = "toggle"
    /\ Write([agent |-> command[t].agent, enabled |-> command[t].enabled])
    /\ Becomes(t, Idle)
    /\ UNCHANGED <<pluginVars, live, mishaps>>

-----------------------------------------------------------------------------
(* The plugin.                                                             *)

Enabled(c) == c # Absent /\ c.enabled

\* Mutant: the switch is left out of what a restart is decided on.
SignatureOfMachine(c) == IF c # Absent THEN c.agent ELSE None

signatureOf(c) == IF Enabled(c) THEN c.agent ELSE None

\* What the status file says of a client, or of none.
Snapshot(c, cl) ==
    [state |-> IF cl # None THEN cl.state
               ELSE IF c = Absent THEN "unconfigured" ELSE "disabled",
     fresh |-> TRUE]

\* What `status` says: of the snapshot, or, when there is none, of the credentials.
commandStatus ==
    IF status # None THEN status
    ELSE [state |-> IF credentials = Absent THEN "not configured" ELSE "not reported",
          fresh |-> FALSE]

\* The getter `value` reads the file if it changed or was last seen to be absent.
Reads(isNew, last) == isNew \/ last = Absent

\* The file is not readable: the pass ends with a warning.  The stamp of the
\* file is kept, so the next pass goes on with the value of before.
SyncThrows(isNew, last, sig, cl) ==
    /\ Reads(isNew, last) /\ credentials = Garbled
    /\ known' = last
    /\ signature' = sig /\ client' = cl
    /\ UNCHANGED status

\* Mutants: every pass starts a client, or the status is written on a change only.
ReconcileAlways(isNew, last, sig, cl) ==
    LET current == IF Reads(isNew, last) THEN credentials ELSE last
        next == IF allowed' THEN signatureOf(current) ELSE None
    IN
    /\ current # Garbled
    /\ known' = current
    /\ signature' = next
    /\ client' = IF next = None THEN None ELSE Dialing(next)
    /\ status' = Snapshot(current, client')

ReconcileOnChange(isNew, last, sig, cl) ==
    LET current == IF Reads(isNew, last) THEN credentials ELSE last
        next == IF allowed' THEN signatureOf(current) ELSE None
    IN
    /\ current # Garbled
    /\ known' = current
    /\ signature' = next
    /\ client' = IF next = sig THEN cl
                 ELSE IF next = None THEN None ELSE Dialing(next)
    /\ status' = IF next = sig THEN status ELSE Snapshot(current, client')

\* The client is replaced when the signature changed, and then only.
Reconcile(isNew, last, sig, cl) ==
    LET current == IF Reads(isNew, last) THEN credentials ELSE last
        next == IF allowed' THEN signatureOf(current) ELSE None
    IN
    /\ current # Garbled
    /\ known' = current
    /\ signature' = next
    /\ client' = IF next = sig THEN cl
                 ELSE IF next = None THEN None ELSE Dialing(next)
    /\ status' = Snapshot(current, client')

Pass(isNew, last, sig, cl) ==
    /\ SyncThrows(isNew, last, sig, cl) \/ Reconcile(isNew, last, sig, cl)
    /\ moved' = FALSE

\* The timer of POLL_INTERVAL_MS.
Sync ==
    /\ plugin
    /\ UNCHANGED <<plugin, allowed>>
    /\ Pass(moved, known, signature, client)
    /\ UNCHANGED <<credentials, command, live, mishaps>>

\* DSH starts: the plugin is mounted and makes its first pass.
Mount(enabled) ==
    /\ ~plugin
    /\ plugin' = TRUE /\ allowed' = enabled
    /\ Pass(TRUE, Absent, None, None)
    /\ UNCHANGED <<credentials, command, live, mishaps>>

\* DSH ends, by the effect's disposal or a crash: the status file stays.
Unmount ==
    /\ plugin
    /\ plugin' = FALSE
    /\ known' = Absent /\ moved' = TRUE
    /\ signature' = None /\ client' = None
    /\ UNCHANGED <<credentials, status, allowed, command, live, mishaps>>

\* Fifteen seconds without a pass that wrote the status file.
Age ==
    /\ status # None
    /\ ~plugin \/ (known = Absent /\ credentials = Garbled)
    /\ status' = [status EXCEPT !.fresh = FALSE]
    /\ UNCHANGED <<fileVars, plugin, allowed, known, signature, client, command, live, mishaps>>

-----------------------------------------------------------------------------
(* The tunnel client and the relay.                                        *)

Client(s) ==
    /\ client' = [client EXCEPT !.state = s]
    /\ UNCHANGED <<fileVars, plugin, allowed, known, signature, status, command, live>>

\* A dial succeeds when the relay knows the machine.
Connect ==
    /\ client # None /\ client.state = "trying" /\ client.agent \in live
    /\ Client("connected") /\ UNCHANGED mishaps

\* A revoked machine is refused when it dials, and dropped when it is connected.
Refuse ==
    /\ client # None /\ client.state # "refused" /\ client.agent \notin live
    /\ Client("refused") /\ UNCHANGED mishaps

\* The connection breaks: retry.
Break ==
    /\ client # None /\ client.state = "connected" /\ mishaps < MaxMishaps
    /\ Client("trying") /\ mishaps' = mishaps + 1

\* The relay refuses a machine it knows: a clock too far off, a hello that was
\* slower than the handshake timer, a full table of nonces.
RefuseUnjustly ==
    /\ client # None /\ client.state = "trying" /\ mishaps < MaxMishaps
    /\ Client("refused") /\ mishaps' = mishaps + 1

Revoke(a) ==
    /\ live' = live \ {a}
    /\ UNCHANGED <<fileVars, pluginVars, command, mishaps>>

\* The operator removes the file, or leaves it unreadable.
HandEdit(c) ==
    /\ mishaps < MaxMishaps
    /\ Write(c)
    /\ mishaps' = mishaps + 1
    /\ UNCHANGED <<pluginVars, command, live>>

Next ==
    \/ \E t \in Terminal :
          \/ \E a \in Agent : Setup(t, a)
          \/ Paired(t)
          \/ \E enabled \in BOOLEAN : ToggleReads(t, enabled)
          \/ ToggleWrites(t)
    \/ Sync
    \/ \E enabled \in BOOLEAN : Mount(enabled)
    \/ Unmount
    \/ Age
    \/ Connect \/ Refuse \/ Break \/ RefuseUnjustly
    \/ \E a \in Agent : Revoke(a)
    \/ \E c \in {Absent, Garbled} : HandEdit(c)

Spec == Init /\ [][Next]_vars

\* The timer runs while DSH does, and the client dials as long as it is not
\* refused; a command once begun goes on.  The operator owes nothing.
FairSpec ==
    /\ Spec
    /\ WF_vars(Sync)
    /\ WF_vars(Connect) /\ WF_vars(Refuse)
    /\ \A t \in Terminal : WF_vars(Paired(t)) /\ WF_vars(ToggleWrites(t))

-----------------------------------------------------------------------------
(* Properties.                                                             *)

\* The state has its type.
TypeOK ==
    /\ credentials \in Credentials \cup {Absent, Garbled}
    /\ status \in {None} \cup
         [state : {"unconfigured", "disabled", "trying", "connected", "refused"},
          fresh : BOOLEAN]
    /\ command \in [Terminal -> {Idle} \cup [do : {"paired"}, agent : Agent]
                                \cup [do : {"toggle"}, agent : Agent, enabled : BOOLEAN]]
    /\ plugin \in BOOLEAN /\ allowed \in BOOLEAN /\ moved \in BOOLEAN
    /\ known \in Credentials \cup {Absent}
    /\ signature \in Agent \cup {None}
    /\ client \in Clients \cup {None}
    /\ live \subseteq Agent
    /\ mishaps \in 0 .. MaxMishaps

ClientIsFor(c) ==
    IF allowed /\ c # Absent /\ c.enabled
    THEN client # None /\ client.agent = c.agent
    ELSE client = None

\* What the commands promise of a running DSH (cli.ts:208, cli.ts:251): once the
\* plugin has looked at the file as it is, its client is for the machine in it,
\* and there is none when the file is missing or the switch is off.
Adopted == plugin /\ ~moved /\ credentials # Garbled => ClientIsFor(credentials)

\* The tunnel and the status file follow the credential file: whatever happened
\* before, when DSH keeps running and the file stays as it is, both come to agree
\* with it, and what `status` then reports is the state of the client.
PluginFollowsFile ==
    \A c \in Credentials \cup {Absent} :
       <>[](plugin /\ credentials = c)
       => <>[](ClientIsFor(c) /\ commandStatus = Snapshot(c, client))

\* Pairing gets there: while DSH runs with a machine's credentials, enabled, and
\* the relay has not revoked it, the machine ends up connected, unless the
\* relay once refused it for no fault of its credentials: a second setup with the
\* same code does not make a refused client dial again (index.ts:110, signatureOf).
PairingCompletes ==
    \A a \in Agent :
       <>[](/\ plugin /\ allowed /\ a \in live
            /\ credentials = [agent |-> a, enabled |-> TRUE])
       => \/ <>[](client # None /\ client.state = "connected")
          \/ <>[](client # None /\ client.state = "refused" /\ mishaps > 0)
=============================================================================
