------------------------------ MODULE Registry ------------------------------
(***************************************************************************)
(* How machines get into the relay's state file and out of it: RelayStore's*)
(* operations on agents, and the commands `agent`, `client add` and `relay`*)
(* made of them.  Each operation reads the file as it is and each update() *)
(* is atomic (WatchedFile); a command makes several, and other commands    *)
(* come in between, or it is killed.  What browsers do with the credentials*)
(* is BrowserAccess.                                                       *)
(***************************************************************************)
EXTENDS Naturals

CONSTANTS
    AgentId,    \* what randomUUID may return, each value once
    Label,      \* names of machines
    Host,       \* the relay's own hostname, the name of a first registration
    Process,    \* shells on the relay's machine, and the relay itself
    Relay,      \* the relay
    None

Record == [label : Label, revoked : BOOLEAN]

\* Nobody names a machine by the id of another.
ASSUME RegistryAssumption ==
    /\ Host \in Label
    /\ Relay \in Process
    /\ AgentId \cap Label = {}
    /\ None \notin Record

VARIABLES
    agents,     \* the records [label, revoked] of the state file, None for no record
    granted,    \* machines a client record of the state file is scoped to
    printed,    \* machines whose pairing code was printed
    command,    \* per process: what it is about to do
    gap         \* history: since the command began, no live machine had the
                \* name it was given

vars == <<agents, granted, printed, command, gap>>

Idle == [do |-> "idle"]

Registered == {id \in AgentId : agents[id] # None}
Live == {id \in Registered : ~agents[id].revoked}

\* In a state file with these records no live machine has the name, as id or label.
NobodyIs(name, records) ==
    \A id \in AgentId : records[id] = None \/ records[id].revoked
                       \/ (name # id /\ name # records[id].label)

Init ==
    /\ agents = [id \in AgentId |-> None]
    /\ granted = {} /\ printed = {}
    /\ command = [p \in Process |-> Idle]
    /\ gap = [p \in Process |-> FALSE]

-----------------------------------------------------------------------------
(* RelayStore.                                                             *)

\* Mutant: only the id is looked for.
LabelUnchecked(label) == TRUE

LabelFree(label) == \A id \in Live : agents[id].label # label

\* createAgent: a new id and a new key pair under a name that is free.
createAgent(id, label) ==
    /\ id \notin Registered
    /\ LabelFree(label)
    /\ agents' = [agents EXCEPT ![id] = [label |-> label, revoked |-> FALSE]]

\* Mutant: the record of a revoked machine answers to its label.
LabelledAny(name) == {id \in Registered : agents[id].label = name}

\* resolveAgent looks among live machines for an id, findAgent(name), then for a
\* label.  Each of the two reads the file.
findAgent(name) == {name} \cap Live

Labelled(name) == {id \in Live : agents[id].label = name}

createClient(id) == granted' = granted \cup {id}

\* revokeAgent's result, and its effect if it has one.
revokeAgent(id) ==
    IF id \in Live THEN agents' = [agents EXCEPT ![id].revoked = TRUE] ELSE UNCHANGED agents

-----------------------------------------------------------------------------
(* The commands, one operation of the store at a time.                     *)

Goes(p, c) == command' = [command EXCEPT ![p] = c]

\* registerAgent, the machine.  A label that is taken ends the command, and the
\* relay with it if it was its first start.
Register(p, label) ==
    \/ /\ \E id \in AgentId :
             createAgent(id, label) /\ Goes(p, [do |-> "issue", agent |-> id])
       /\ UNCHANGED <<granted, printed>>
    \/ /\ ~LabelFree(label)
       /\ Goes(p, Idle)
       /\ UNCHANGED <<agents, granted, printed>>

\* `agent add <label>`.
AgentAdd(p, label) ==
    /\ p # Relay /\ command[p] = Idle
    /\ Register(p, label)

\* Mutant: the code is printed, and then the credential made.
IssuePrinted(p) ==
    /\ command[p].do = "issue"
    /\ printed' = printed \cup {command[p].agent}
    /\ Goes(p, [do |-> "grant", agent |-> command[p].agent, name |-> command[p].agent])
    /\ UNCHANGED <<agents, granted>>

\* registerAgent, the browser's credential.
Issue(p) ==
    /\ command[p].do = "issue"
    /\ createClient(command[p].agent)
    /\ Goes(p, [do |-> "print", agent |-> command[p].agent])
    /\ UNCHANGED <<agents, printed>>

\* registerAgent, the code.
PrintCode(p) ==
    /\ command[p].do = "print"
    /\ printed' = printed \cup {command[p].agent}
    /\ Goes(p, IF p = Relay THEN [do |-> "up"] ELSE Idle)
    /\ UNCHANGED <<agents, granted>>

\* `agent revoke <name|id>` and `client add --agent <name|id>` resolve the name: the
\* first read is for an id.
Resolve(p, what, name) ==
    /\ p # Relay /\ command[p] = Idle
    /\ \/ \E id \in findAgent(name) : Goes(p, [do |-> what, agent |-> id, name |-> name])
       \/ /\ findAgent(name) = {}
          /\ Goes(p, [do |-> "search", what |-> what, name |-> name])
    /\ UNCHANGED <<agents, granted, printed>>

AgentRevoke(p, name) == Resolve(p, "revoke", name)

ClientAdd(p, name) == Resolve(p, "grant", name)

\* The second read is for a label.  A name nobody has is passed on as an id to
\* revokeAgent; `client add` fails.
Search(p) ==
    LET name == command[p].name IN
    /\ command[p].do = "search"
    /\ \/ \E id \in Labelled(name) :
             Goes(p, [do |-> command[p].what, agent |-> id, name |-> name])
       \/ /\ Labelled(name) = {}
          /\ Goes(p, IF command[p].what = "grant" THEN Idle
                     ELSE [do |-> "revoke", agent |-> name, name |-> name])
    /\ UNCHANGED <<agents, granted, printed>>

Revoke(p) ==
    /\ command[p].do = "revoke"
    /\ revokeAgent(command[p].agent)
    /\ Goes(p, [do |-> "answer", done |-> command[p].agent \in Live])
    /\ UNCHANGED <<granted, printed>>

Answer(p) ==
    /\ command[p].do = "answer"
    /\ Goes(p, Idle)
    /\ UNCHANGED <<agents, granted, printed>>

Grant(p) ==
    /\ command[p].do = "grant"
    /\ createClient(command[p].agent)
    /\ Goes(p, Idle)
    /\ UNCHANGED <<agents, printed>>

\* The relay starts, looks for records and, if there is none and stdout is a
\* terminal, goes on to register a machine under its own hostname.
RelayStarts(tty) ==
    /\ command[Relay] = Idle
    /\ Goes(Relay, [do |-> IF Registered = {} /\ tty THEN "first" ELSE "up"])
    /\ UNCHANGED <<agents, granted, printed>>

RelayRegisters ==
    /\ command[Relay].do = "first"
    /\ Register(Relay, Host)

\* A process ends before its command does, or the relay is stopped.
Kill(p) ==
    /\ command[p] # Idle
    /\ Goes(p, Idle)
    /\ UNCHANGED <<agents, granted, printed>>

Step ==
    \/ \E p \in Process :
          \/ \E label \in Label : AgentAdd(p, label)
          \/ Issue(p)
          \/ PrintCode(p)
          \/ \E name \in Label \cup AgentId : AgentRevoke(p, name) \/ ClientAdd(p, name)
          \/ Search(p)
          \/ Revoke(p)
          \/ Answer(p)
          \/ Grant(p)
          \/ Kill(p)
    \/ \E tty \in BOOLEAN : RelayStarts(tty)
    \/ RelayRegisters

\* gap is kept up while a name is looked for or a revocation under way.
Observe ==
    gap' = [p \in Process |->
              CASE command'[p].do \in {"search", "revoke"} ->
                     gap[p] \/ NobodyIs(command'[p].name, agents')
                [] command'[p].do = "answer" -> gap[p]
                [] OTHER -> FALSE]

Next == Step /\ Observe

Spec == Init /\ [][Next]_vars

-----------------------------------------------------------------------------
(* Properties.                                                             *)

Command ==
    {Idle} \cup [do : {"first", "up"}] \cup [do : {"issue", "print"}, agent : AgentId]
    \cup [do : {"search"}, what : {"revoke", "grant"}, name : Label \cup AgentId]
    \cup [do : {"revoke"}, agent : Label \cup AgentId, name : Label \cup AgentId]
    \cup [do : {"grant"}, agent : AgentId, name : Label \cup AgentId]
    \cup [do : {"answer"}, done : BOOLEAN]

\* The state has its type.
TypeOK ==
    /\ agents \in [AgentId -> Record \cup {None}]
    /\ granted \subseteq AgentId /\ printed \subseteq AgentId
    /\ command \in [Process -> Command]
    /\ gap \in [Process -> BOOLEAN]

\* "A label names at most one live agent" (store.ts:209): however commands overlap,
\* on a name every other command finds one machine or none.
LabelsUnique ==
    \A a, b \in Live : agents[a].label = agents[b].label => a = b

\* `agent revoke` looks for a name twice and then revokes an id.  If it answers
\* that there was nothing to revoke, there was a moment during the command when no
\* live machine had the name: it never reports nothing "while both stayed
\* connected" (store.ts:181).
RevokeAnswersTrue ==
    \A p \in Process :
       command[p].do = "answer" /\ ~command[p].done => gap[p]

\* The pairing code is shown once, so what it says is in the file before it is
\* shown, wherever the command is killed: the machine and its browser credential.
PrintedIsStored == printed \subseteq Registered \cap granted
=============================================================================
