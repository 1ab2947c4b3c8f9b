--------------------------- MODULE RegistryProofs ---------------------------
(***************************************************************************)
(* Theorems about Registry, for any ids, names and number of shells.       *)
(***************************************************************************)
EXTENDS Registry, TLAPS

Name == Label \cup AgentId

\* A machine whose code is on its way is in the file, and so is its credential once
\* only the print is left.
Issues ==
    \A p \in Process :
       /\ command[p].do = "issue" => command[p].agent \in Registered
       /\ command[p].do = "print" => command[p].agent \in Registered \cap granted

\* As long as somebody had the name, the machine it was resolved to still has it.
Aims ==
    \A p \in Process :
       command[p].do = "revoke" /\ ~gap[p] =>
          /\ command[p].agent \in Live
          /\ command[p].name \in {command[p].agent, agents[command[p].agent].label}

IInv == TypeOK /\ LabelsUnique /\ PrintedIsStored /\ Issues /\ Aims /\ RevokeAnswersTrue

\* What a step does to the records.
AgentsStep ==
    \/ UNCHANGED agents
    \/ \E id \in AgentId, label \in Label : createAgent(id, label)
    \/ \E name \in Name : revokeAgent(name)

LEMMA InitEstablishes == Init => IInv
<1> SUFFICES ASSUME Init PROVE IInv
    OBVIOUS
<1>1. TypeOK
  <2>1. command \in [Process -> {Idle}]
    BY DEF Init
  <2> QED
    BY <2>1 DEF Init, TypeOK, Command
<1>2. LabelsUnique /\ PrintedIsStored
    BY DEF Init, LabelsUnique, PrintedIsStored, Live, Registered
<1>3. Issues /\ Aims /\ RevokeAnswersTrue
    BY DEF Init, Idle, Issues, Aims, RevokeAnswersTrue
<1> QED
    BY <1>1, <1>2, <1>3 DEF IInv

\* createAgent and revokeAgent keep labels unique and records in the file.
LEMMA RecordsPreserved ==
    ASSUME TypeOK, LabelsUnique, AgentsStep
    PROVE  /\ agents' \in [AgentId -> Record \cup {None}]
           /\ LabelsUnique'
           /\ Registered \subseteq Registered'
<1>1. ASSUME NEW i \in AgentId, NEW label \in Label, createAgent(i, label)
      PROVE  /\ agents' \in [AgentId -> Record \cup {None}]
             /\ LabelsUnique'
             /\ Registered \subseteq Registered'
  <2>1. [label |-> label, revoked |-> FALSE] \in Record
    BY DEF Record
  <2>2. \A j \in AgentId :
           agents'[j] = IF j = i THEN [label |-> label, revoked |-> FALSE] ELSE agents[j]
    BY <1>1 DEF createAgent, TypeOK
  <2>3. agents' \in [AgentId -> Record \cup {None}]
    BY <1>1, <2>1 DEF createAgent, TypeOK
  <2>4. \A j \in Live' : j \in AgentId /\ (j # i => j \in Live)
    BY <2>2 DEF Live, Registered
  <2>5. LabelsUnique'
    <3>1. \A j \in Live : agents[j].label # label
      BY <1>1 DEF createAgent, LabelFree
    <3> QED
      BY <2>2, <2>4, <3>1 DEF LabelsUnique
  <2> QED
    BY <2>1, <2>2, <2>3, <2>5, RegistryAssumption DEF Registered
<1>2. ASSUME NEW i \in Live, agents' = [agents EXCEPT ![i].revoked = TRUE]
      PROVE  /\ agents' \in [AgentId -> Record \cup {None}]
             /\ LabelsUnique'
             /\ Registered \subseteq Registered'
  <2>1. agents[i] \in Record
    BY DEF Live, Registered, TypeOK
  <2>2. [agents[i] EXCEPT !.revoked = TRUE] \in Record
    BY <2>1 DEF Record
  <2>3. /\ agents' \in [AgentId -> Record \cup {None}]
        /\ \A j \in AgentId :
              agents'[j] = IF j = i THEN [agents[i] EXCEPT !.revoked = TRUE] ELSE agents[j]
    BY <1>2, <2>2 DEF TypeOK
  <2>4. Live' \subseteq Live \ {i}
    BY <2>1, <2>3 DEF Live, Registered, Record
  <2>5. LabelsUnique'
    BY <2>3, <2>4 DEF LabelsUnique, Live, Registered
  <2> QED
    BY <2>2, <2>3, <2>5, RegistryAssumption DEF Registered
<1>3. CASE UNCHANGED agents
    BY <1>3 DEF TypeOK, LabelsUnique, Live, Registered
<1> QED
    BY <1>1, <1>2, <1>3 DEF AgentsStep, revokeAgent

\* A machine that has a name keeps it until nobody has it: no other can take it over.
LEMMA NameKept ==
    ASSUME TypeOK, LabelsUnique, AgentsStep,
           NEW x \in Live, NEW n \in Name, n \in {x, agents[x].label}, ~NobodyIs(n, agents')
    PROVE  x \in Live' /\ n \in {x, agents'[x].label}
<1>1. x \in AgentId /\ agents[x] \in Record
    BY DEF Live, Registered, TypeOK
<1>2. ASSUME NEW i \in AgentId, NEW label \in Label, createAgent(i, label)
      PROVE  agents'[x] = agents[x]
    BY <1>1, <1>2 DEF createAgent, TypeOK, Live
<1>3. ASSUME NEW i \in Live, agents' = [agents EXCEPT ![i].revoked = TRUE]
      PROVE  agents'[x] = agents[x]
  <2>1. CASE i = x
    <3>1. agents'[x].revoked /\ \A j \in AgentId \ {x} : agents'[j] = agents[j]
      BY <1>1, <1>3, <2>1 DEF TypeOK, Record
    <3>2. ASSUME NEW j \in AgentId, j # x, j \in Live PROVE n # j /\ n # agents[j].label
      <4>1. agents[j] \in Record /\ agents[j].label # agents[x].label
        BY <3>2 DEF Live, Registered, TypeOK, LabelsUnique
      <4> QED
        BY <1>1, <3>2, <4>1, RegistryAssumption DEF Record
    <3>3. NobodyIs(n, agents')
      BY <3>1, <3>2 DEF NobodyIs, Live, Registered
    <3> QED
      BY <3>3
  <2>2. CASE i # x
    BY <1>1, <1>3, <2>2 DEF TypeOK
  <2> QED
    BY <2>1, <2>2
<1>4. agents'[x] = agents[x]
    BY <1>2, <1>3 DEF AgentsStep, revokeAgent
<1> QED
    BY <1>1, <1>4 DEF Live, Registered


\* What a look for a name, by id or by label, may hand on to revokeAgent.
Found(n) == findAgent(n) \cup IF Labelled(n) = {} THEN {n} ELSE Labelled(n)

\* What a step of process q does to its command, to the codes printed and to the
\* credentials granted.
Moves(q) ==
    /\ AgentsStep
    /\ \A p \in Process \ {q} : command'[p] = command[p]
    /\ command' \in [Process -> Command]
    /\ \/ command'[q].do \in {"idle", "first", "up", "grant", "search"}
       \/ command'[q].do = "issue" /\ command'[q].agent \in Registered'
       \/ command'[q].do = "print" /\ command'[q].agent \in Registered \cap granted'
       \/ \E n \in Name :
             \E id \in Found(n) :
                /\ command'[q] = [do |-> "revoke", agent |-> id, name |-> n]
                /\ UNCHANGED agents
       \/ /\ command[q].do = "revoke"
          /\ command'[q].do = "answer"
          /\ ~command'[q].done => command[q].agent \notin Live
    /\ \/ UNCHANGED <<granted, printed>>
       \/ \E id \in AgentId : granted' = granted \cup {id} /\ UNCHANGED printed
       \/ /\ command[q].do = "print"
          /\ printed' = printed \cup {command[q].agent}
          /\ UNCHANGED granted

LEMMA Resolved ==
    ASSUME TypeOK, NEW n \in Name, NEW x \in Found(n)
    PROVE  x \in Name /\ (~NobodyIs(n, agents) => x \in Live /\ n \in {x, agents[x].label})
<1>1. Labelled(n) \subseteq Live /\ findAgent(n) \subseteq Live /\ Live \subseteq AgentId
    BY DEF Labelled, findAgent, Live, Registered
<1>2. CASE x \in findAgent(n)
    BY <1>1, <1>2 DEF findAgent, Name
<1>3. CASE x \in Labelled(n)
    BY <1>1, <1>3 DEF Labelled, Name
<1>4. CASE Labelled(n) = {} /\ x = n
  <2>1. ~NobodyIs(n, agents) => n \in Live
    BY <1>4 DEF NobodyIs, Labelled, Live, Registered
  <2> QED
    BY <1>4, <2>1
<1> QED
    BY <1>2, <1>3, <1>4 DEF Found

LEMMA RegisterMoves ==
    ASSUME TypeOK, NEW q \in Process, NEW label \in Label, Register(q, label)
    PROVE  Moves(q)
<1>1. ASSUME NEW i \in AgentId, createAgent(i, label), Goes(q, [do |-> "issue", agent |-> i]),
             UNCHANGED <<granted, printed>>
      PROVE  Moves(q)
  <2>1. AgentsStep
    BY <1>1 DEF AgentsStep
  <2>2. [do |-> "issue", agent |-> i] \in Command
    BY DEF Command
  <2>3. i \in Registered'
    <3>1. agents'[i] = [label |-> label, revoked |-> FALSE]
      BY <1>1 DEF createAgent, TypeOK
    <3>2. agents'[i] \in Record
      BY <3>1 DEF Record
    <3> QED
      BY <3>2, RegistryAssumption DEF Registered
  <2> QED
    BY <1>1, <2>1, <2>2, <2>3 DEF Goes, Moves, TypeOK
<1>2. CASE Goes(q, Idle) /\ UNCHANGED <<agents, granted, printed>>
    BY <1>2 DEF Goes, Moves, TypeOK, Command, AgentsStep, Idle
<1> QED
    BY <1>1, <1>2 DEF Register

LEMMA StepMoves == TypeOK /\ Issues /\ Step => \E q \in Process : Moves(q)
<1> SUFFICES ASSUME TypeOK, Issues, Step PROVE \E q \in Process : Moves(q)
    OBVIOUS
<1>1. ASSUME NEW p \in Process, NEW c \in Command, Goes(p, c)
      PROVE  /\ command' \in [Process -> Command]
             /\ command'[p] = c
             /\ \A o \in Process \ {p} : command'[o] = command[o]
    BY <1>1 DEF Goes, TypeOK
<1>2. /\ Idle \in Command
      /\ \A d \in {"first", "up"} : [do |-> d] \in Command
      /\ \A id \in AgentId : [do |-> "print", agent |-> id] \in Command
      /\ \A id \in AgentId, n \in Name : [do |-> "grant", agent |-> id, name |-> n] \in Command
      /\ \A what \in {"revoke", "grant"}, n \in Name :
            [do |-> "search", what |-> what, name |-> n] \in Command
      /\ \A x, n \in Name : [do |-> "revoke", agent |-> x, name |-> n] \in Command
      /\ \A b \in BOOLEAN : [do |-> "answer", done |-> b] \in Command
    BY DEF Command, Name
<1>3. ASSUME NEW p \in Process, NEW label \in Label, AgentAdd(p, label) PROVE Moves(p)
    BY <1>3, RegisterMoves DEF AgentAdd
<1>4. CASE RelayRegisters
    BY <1>4, RegisterMoves, RegistryAssumption DEF RelayRegisters
<1>5. ASSUME NEW p \in Process, Issue(p) PROVE Moves(p)
  <2> DEFINE c == [do |-> "print", agent |-> command[p].agent]
  <2>1. command[p].agent \in AgentId /\ command[p].agent \in Registered
    BY <1>5 DEF Issue, TypeOK, Command, Idle, Issues, Registered
  <2>2. c \in Command /\ Goes(p, c)
    BY <1>2, <1>5, <2>1 DEF Issue
  <2> QED
    BY <1>1, <1>5, <2>1, <2>2 DEF Issue, createClient, Moves, AgentsStep
<1>12. ASSUME NEW p \in Process, PrintCode(p) PROVE Moves(p)
  <2> DEFINE c == IF p = Relay THEN [do |-> "up"] ELSE Idle
  <2>1. c \in Command /\ c.do \in {"idle", "first", "up", "grant"}
    BY <1>2 DEF Idle
  <2>2. Goes(p, c)
    BY <1>12 DEF PrintCode
  <2> QED
    BY <1>1, <1>12, <2>1, <2>2 DEF PrintCode, Moves, AgentsStep
<1>13. ASSUME NEW p \in Process, NEW n \in Name, NEW what \in {"revoke", "grant"},
              NEW x \in Found(n), what = "grant" => x \in AgentId,
              Goes(p, [do |-> what, agent |-> x, name |-> n]),
              UNCHANGED <<agents, granted, printed>>
       PROVE  Moves(p)
  <2>1. x \in Name
    BY Resolved
  <2>2. [do |-> what, agent |-> x, name |-> n] \in Command
    BY <1>2, <1>13, <2>1
  <2> QED
    BY <1>1, <1>13, <2>2 DEF Moves, AgentsStep
<1>6. ASSUME NEW p \in Process, NEW n \in Name, NEW what \in {"revoke", "grant"},
             Resolve(p, what, n)
      PROVE  Moves(p)
  <2>1. CASE \E x \in findAgent(n) : Goes(p, [do |-> what, agent |-> x, name |-> n])
    BY <1>6, <1>13, <2>1 DEF Resolve, Found, findAgent, Live, Registered
  <2>2. CASE Goes(p, [do |-> "search", what |-> what, name |-> n])
    BY <1>1, <1>2, <1>6, <2>2 DEF Resolve, Moves, AgentsStep
  <2> QED
    BY <1>6, <2>1, <2>2 DEF Resolve
<1>9. ASSUME NEW p \in Process, Search(p) PROVE Moves(p)
  <2> DEFINE n == command[p].name
             what == command[p].what
  <2>1. n \in Name /\ what \in {"revoke", "grant"}
    BY <1>9 DEF Search, TypeOK, Command, Idle, Name
  <2>2. CASE \E x \in Labelled(n) : Goes(p, [do |-> what, agent |-> x, name |-> n])
    BY <1>9, <1>13, <2>1, <2>2 DEF Search, Found, Labelled, Live, Registered
  <2>3. CASE Goes(p, Idle)
    BY <1>1, <1>2, <1>9, <2>3 DEF Search, Moves, AgentsStep, Idle
  <2>4. CASE Labelled(n) = {} /\ Goes(p, [do |-> "revoke", agent |-> n, name |-> n])
    BY <1>9, <1>13, <2>1, <2>4 DEF Search, Found
  <2> QED
    BY <1>9, <2>2, <2>3, <2>4 DEF Search
<1>7. ASSUME NEW p \in Process, Revoke(p) PROVE Moves(p)
  <2>1. command[p] \in [do : {"revoke"}, agent : Name, name : Name]
    BY <1>7 DEF Revoke, TypeOK, Command, Idle, Name
  <2>2. AgentsStep
    BY <1>7, <2>1 DEF Revoke, AgentsStep
  <2> DEFINE b == command[p].agent \in Live
  <2>3. b \in BOOLEAN /\ Goes(p, [do |-> "answer", done |-> b])
    BY <1>7 DEF Revoke
  <2> HIDE DEF b
  <2>4. /\ command' \in [Process -> Command]
        /\ command'[p].do = "answer" /\ command'[p].done = b
        /\ \A o \in Process \ {p} : command'[o] = command[o]
    BY <1>1, <1>2, <2>3
  <2> USE DEF b
  <2> QED
    BY <1>7, <2>2, <2>4 DEF Revoke, Moves
<1>8. ASSUME NEW p \in Process, Answer(p) \/ Kill(p) PROVE Moves(p)
    BY <1>1, <1>2, <1>8 DEF Answer, Kill, Moves, AgentsStep, Idle
<1>10. ASSUME NEW p \in Process, Grant(p) PROVE Moves(p)
  <2>1. command[p].agent \in AgentId
    BY <1>10 DEF Grant, TypeOK, Command, Idle
  <2> QED
    BY <1>1, <1>2, <1>10, <2>1 DEF Grant, createClient, Moves, AgentsStep, Idle
<1>11. ASSUME NEW tty, RelayStarts(tty) PROVE Moves(Relay)
  <2> DEFINE c == [do |-> IF Registered = {} /\ tty THEN "first" ELSE "up"]
  <2>1. c \in Command /\ c.do \in {"idle", "first", "up", "grant"}
    BY <1>2
  <2> QED
    BY <1>1, <1>11, <2>1, RegistryAssumption DEF RelayStarts, Moves, AgentsStep
<1> QED
    BY <1>3, <1>4, <1>5, <1>6, <1>7, <1>8, <1>9, <1>10, <1>11, <1>12, RegistryAssumption
    DEF Step, Name, AgentRevoke, ClientAdd

LEMMA StepPreserves == IInv /\ [Next]_vars => IInv'
<1>1. ASSUME IInv, UNCHANGED vars PROVE IInv'
  <2> USE <1>1 DEF vars, IInv
  <2>1. TypeOK' /\ LabelsUnique' /\ PrintedIsStored'
    BY DEF TypeOK, LabelsUnique, PrintedIsStored, Live, Registered
  <2>2. Issues' /\ Aims' /\ RevokeAnswersTrue'
    BY DEF Issues, Aims, RevokeAnswersTrue, Live, Registered
  <2> QED
    BY <2>1, <2>2
<1>2. ASSUME IInv, Next PROVE IInv'
  <2>1. /\ TypeOK /\ LabelsUnique /\ PrintedIsStored /\ Issues /\ Aims /\ RevokeAnswersTrue
    BY <1>2 DEF IInv
  <2>2. PICK q \in Process : Moves(q)
    BY <1>2, <2>1, StepMoves DEF Next
  <2>3. /\ agents' \in [AgentId -> Record \cup {None}]
        /\ LabelsUnique' /\ Registered \subseteq Registered'
    BY <2>1, <2>2, RecordsPreserved DEF Moves
  <2>4. \A p \in Process :
           gap'[p] = CASE command'[p].do \in {"search", "revoke"} ->
                            gap[p] \/ NobodyIs(command'[p].name, agents')
                       [] command'[p].do = "answer" -> gap[p]
                       [] OTHER -> FALSE
    BY <1>2 DEF Next, Observe
  <2>5. gap' \in [Process -> BOOLEAN]
    BY <1>2, <2>1 DEF Next, Observe, TypeOK, NobodyIs
  <2>6. ASSUME command[q].do = "print"
        PROVE  command[q].agent \in AgentId /\ command[q].agent \in Registered \cap granted
    BY <2>1, <2>6 DEF Issues, Registered
  <2>7. TypeOK'
    BY <2>1, <2>2, <2>3, <2>5, <2>6 DEF TypeOK, Moves
  <2>8. PrintedIsStored'
    BY <2>1, <2>2, <2>3, <2>6 DEF PrintedIsStored, Moves
  <2>9. Issues'
    BY <2>1, <2>2, <2>3 DEF Issues, Moves
  <2>10. Aims'
    <3> SUFFICES ASSUME NEW p \in Process, command'[p].do = "revoke", ~gap'[p]
                 PROVE  /\ command'[p].agent \in Live'
                        /\ command'[p].name
                              \in {command'[p].agent, agents'[command'[p].agent].label}
      BY DEF Aims
    <3>1. ~gap[p] /\ ~NobodyIs(command'[p].name, agents')
      BY <2>4
    <3>2. CASE command'[p] = command[p]
      <4>1. command[p] \in [do : {"revoke"}, agent : Name, name : Name]
        BY <2>1, <3>2 DEF TypeOK, Command, Idle, Name
      <4>2. /\ command[p].agent \in Live /\ command[p].name \in Name
            /\ command[p].name \in {command[p].agent, agents[command[p].agent].label}
        BY <2>1, <3>1, <3>2, <4>1 DEF Aims
      <4> QED
        BY <2>1, <2>2, <3>1, <3>2, <4>2, NameKept DEF Moves
    <3>3. CASE command'[p] # command[p]
      <4>1. PICK n \in Name :
               \E id \in Found(n) :
                  /\ command'[p] = [do |-> "revoke", agent |-> id, name |-> n]
                  /\ UNCHANGED agents
        BY <2>2, <3>3 DEF Moves
      <4>2. PICK x \in Found(n) :
               command'[p] = [do |-> "revoke", agent |-> x, name |-> n] /\ UNCHANGED agents
        BY <4>1
      <4>3. x \in Live /\ n \in {x, agents[x].label}
        BY <2>1, <3>1, <4>2, Resolved
      <4> QED
        BY <4>2, <4>3 DEF Live, Registered
    <3> QED
      BY <3>2, <3>3
  <2>11. RevokeAnswersTrue'
    <3> SUFFICES ASSUME NEW p \in Process, command'[p].do = "answer", ~command'[p].done
                 PROVE  gap'[p]
      BY DEF RevokeAnswersTrue
    <3>1. CASE command'[p] = command[p]
      BY <2>1, <2>4, <3>1 DEF RevokeAnswersTrue
    <3>2. CASE command'[p] # command[p]
      <4>1. p = q
        BY <2>2, <3>2 DEF Moves
      <4>2. command[p].do = "revoke" /\ command[p].agent \notin Live
        BY <2>2, <4>1 DEF Moves
      <4> QED
        BY <2>1, <2>4, <4>2 DEF Aims
    <3> QED
      BY <3>1, <3>2
  <2> QED
    BY <2>3, <2>7, <2>8, <2>9, <2>10, <2>11 DEF IInv
<1> QED
    BY <1>1, <1>2

LEMMA Invariant == Spec => []IInv
BY InitEstablishes, StepPreserves, PTL DEF Spec

\* Of any number of shells that add and revoke machines at once (createAgent,
\* revokeAgent), no two leave live machines of one name behind.
THEOREM UniqueLabels == Spec => []LabelsUnique
<1>1. IInv => LabelsUnique
    BY DEF IInv
<1> QED
    BY <1>1, Invariant, PTL

\* `agent revoke` answers that nothing was revoked only if during the command there
\* was a moment when no live machine had the name (commandAgent, resolveAgent).
THEOREM TrueAnswers == Spec => []RevokeAnswersTrue
<1>1. IInv => RevokeAnswersTrue
    BY DEF IInv
<1> QED
    BY <1>1, Invariant, PTL

\* What a printed code says is in the state file (registerAgent), and stays there.
THEOREM CodesAreBacked == Spec => []PrintedIsStored
<1>1. IInv => PrintedIsStored
    BY DEF IInv
<1> QED
    BY <1>1, Invariant, PTL

\* The state keeps its type.
THEOREM TypeCorrect == Spec => []TypeOK
<1>1. IInv => TypeOK
    BY DEF IInv
<1> QED
    BY <1>1, Invariant, PTL
=============================================================================
