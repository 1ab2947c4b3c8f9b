-------------------------- MODULE PluginSyncProofs --------------------------
(***************************************************************************)
(* Theorems about PluginSync, for any machines, terminals and number of    *)
(* mishaps.                                                                *)
(***************************************************************************)
EXTENDS PluginSync, TLAPS

\* What the plugin wants of a client, given what it last read.
Wanted == IF allowed THEN signatureOf(known) ELSE None

\* The client is the one for what the plugin last read.
Consistent ==
    plugin =>
      /\ signature = Wanted
      /\ IF signature = None THEN client = None
         ELSE client \in Clients /\ client.agent = signature

\* What it last read is the file, unless the file changed or is not readable.
Current == plugin /\ ~moved => credentials = Garbled \/ known = credentials

IInv == TypeOK /\ Consistent /\ Current

LEMMA InitEstablishes == Init => IInv
<1> SUFFICES ASSUME Init PROVE IInv
    OBVIOUS
<1>1. TypeOK
  <2>1. command \in [Terminal -> {Idle}]
    BY DEF Init
  <2>2. mishaps \in 0 .. MaxMishaps
    BY SyncAssumption DEF Init
  <2> QED
    BY <2>1, <2>2 DEF Init, TypeOK
<1>2. Consistent /\ Current
    BY DEF Init, Consistent, Current
<1> QED
    BY <1>1, <1>2 DEF IInv

\* A pass of `sync` ends with a client for the file as it is, or, when the file is
\* not readable, leaves what there was.
LEMMA PassPreserves ==
    ASSUME TypeOK,
           NEW isNew \in BOOLEAN, NEW last \in Credentials \cup {Absent},
           NEW sig \in Agent \cup {None}, NEW cl \in Clients \cup {None},
           sig = IF allowed' THEN signatureOf(last) ELSE None,
           sig = None => cl = None,
           sig # None => cl \in Clients /\ cl.agent = sig,
           isNew \/ credentials = Garbled \/ last = credentials,
           allowed' \in BOOLEAN, plugin', Pass(isNew, last, sig, cl),
           UNCHANGED <<credentials, command, live, mishaps>>
    PROVE  IInv'
<1> DEFINE next(c) == IF allowed' THEN signatureOf(c) ELSE None
<1>1. CASE SyncThrows(isNew, last, sig, cl)
  <2>1. /\ known' = last /\ signature' = sig /\ client' = cl
        /\ credentials' = Garbled /\ UNCHANGED status /\ moved' = FALSE
    BY <1>1 DEF SyncThrows, Pass
  <2>2. Consistent' /\ Current'
    BY <2>1 DEF Consistent, Current, Wanted, signatureOf, Enabled
  <2> QED
    BY <2>1, <2>2 DEF IInv, TypeOK
<1>2. CASE Reconcile(isNew, last, sig, cl)
  <2> DEFINE current == IF Reads(isNew, last) THEN credentials ELSE last
  <2>1. /\ current # Garbled
        /\ known' = current /\ signature' = next(current)
        /\ client' = IF next(current) = sig THEN cl
                     ELSE IF next(current) = None THEN None ELSE Dialing(next(current))
        /\ status' = Snapshot(current, client') /\ moved' = FALSE
    BY <1>2 DEF Reconcile, Pass
  <2>2. current \in Credentials \cup {Absent}
    BY <2>1 DEF TypeOK
  <2>3. next(current) \in Agent \cup {None}
    BY <2>2 DEF signatureOf, Enabled, Credentials
  <2>4. \A a \in Agent : Dialing(a) \in Clients /\ Dialing(a).agent = a
    BY DEF Dialing, Clients
  <2>5. IF next(current) = None THEN client' = None
        ELSE client' \in Clients /\ client'.agent = next(current)
    BY <2>1, <2>3, <2>4
  <2>6. Consistent'
    BY <2>1, <2>5 DEF Consistent, Wanted, signatureOf, Enabled
  <2>7. Current'
    BY <2>1 DEF Current, Reads
  <2>8. client' \in Clients \cup {None}
    BY <2>5
  <2>9. status' \in [state : {"unconfigured", "disabled", "trying", "connected", "refused"},
                     fresh : BOOLEAN]
    BY <2>1, <2>8 DEF Snapshot, Clients
  <2> HIDE DEF next, current
  <2>10. TypeOK'
    BY <2>1, <2>2, <2>3, <2>8, <2>9 DEF TypeOK
  <2> QED
    BY <2>6, <2>7, <2>10 DEF IInv
<1> QED
    BY <1>1, <1>2 DEF Pass

\* The commands write only what they read or were given, and mark the file as moved.
LEMMA CommandPreserves ==
    ASSUME IInv, NEW t \in Terminal,
           \/ \E a \in Agent : Setup(t, a)
           \/ Paired(t)
           \/ \E enabled \in BOOLEAN : ToggleReads(t, enabled)
           \/ ToggleWrites(t)
    PROVE  IInv'
<1> USE DEF pluginVars, fileVars, Becomes, Write
<1>1. ASSUME NEW a \in Agent, Setup(t, a) PROVE IInv'
    BY <1>1 DEF Setup, IInv, TypeOK, Credentials, Consistent, Current, Wanted
<1>2. CASE Paired(t)
    BY <1>2 DEF Paired, IInv, TypeOK, Consistent, Current, Wanted
<1>3. ASSUME NEW enabled \in BOOLEAN, ToggleReads(t, enabled) PROVE IInv'
  <2>1. credentials \in Credentials
    BY <1>3 DEF ToggleReads, IInv, TypeOK
  <2> QED
    BY <1>3, <2>1 DEF ToggleReads, IInv, TypeOK, Credentials, Consistent, Current, Wanted
<1>4. CASE ToggleWrites(t)
  <2>1. command[t] \in [do : {"toggle"}, agent : Agent, enabled : BOOLEAN]
    BY <1>4 DEF ToggleWrites, IInv, TypeOK, Idle
  <2> QED
    BY <1>4, <2>1 DEF ToggleWrites, IInv, TypeOK, Credentials, Consistent, Current, Wanted
<1> QED
    BY <1>1, <1>2, <1>3, <1>4

\* A client that connects, is refused or breaks is still the same machine's.
LEMMA ClientPreserves ==
    ASSUME IInv, NEW s \in {"trying", "connected", "refused"},
           client # None, Client(s), mishaps' \in 0 .. MaxMishaps
    PROVE  IInv'
<1>1. client \in Clients
    BY DEF IInv, TypeOK
<1>2. client' \in Clients /\ client'.agent = client.agent
    BY <1>1 DEF Client, Clients
<1> QED
    BY <1>1, <1>2, SyncAssumption DEF Client, fileVars, IInv, TypeOK, Consistent, Current, Wanted

LEMMA StepPreserves == IInv /\ [Next]_vars => IInv'
<1> SUFFICES ASSUME IInv, [Next]_vars PROVE IInv'
    OBVIOUS
<1> USE DEF fileVars, pluginVars
<1>1. ASSUME NEW t \in Terminal,
             \/ \E a \in Agent : Setup(t, a)
             \/ Paired(t)
             \/ \E enabled \in BOOLEAN : ToggleReads(t, enabled)
             \/ ToggleWrites(t)
      PROVE  IInv'
    BY <1>1, CommandPreserves
<1>2. CASE Sync
  <2>1. /\ plugin /\ plugin' /\ allowed' = allowed
        /\ Pass(moved, known, signature, client)
        /\ UNCHANGED <<credentials, command, live, mishaps>>
    BY <1>2 DEF Sync
  <2>2. /\ signature = IF allowed' THEN signatureOf(known) ELSE None
        /\ signature = None => client = None
        /\ signature # None => client \in Clients /\ client.agent = signature
        /\ moved \/ credentials = Garbled \/ known = credentials
    BY <2>1 DEF IInv, Consistent, Current, Wanted
  <2> QED
    BY <2>1, <2>2, PassPreserves DEF IInv, TypeOK
<1>3. ASSUME NEW enabled \in BOOLEAN, Mount(enabled) PROVE IInv'
  <2>1. /\ plugin' /\ allowed' \in BOOLEAN /\ Pass(TRUE, Absent, None, None)
        /\ UNCHANGED <<credentials, command, live, mishaps>>
    BY <1>3 DEF Mount
  <2>2. None = IF allowed' THEN signatureOf(Absent) ELSE None
    BY DEF signatureOf, Enabled
  <2> QED
    BY <2>1, <2>2, PassPreserves DEF IInv
<1>4. CASE Unmount
    BY <1>4 DEF Unmount, IInv, TypeOK, Consistent, Current
<1>5. CASE Age
    BY <1>5 DEF Age, IInv, TypeOK, Consistent, Current, Wanted
<1>6. CASE Connect \/ Refuse \/ Break \/ RefuseUnjustly
  <2>1. client # None /\ mishaps' \in 0 .. MaxMishaps
    BY <1>6, SyncAssumption DEF Connect, Refuse, Break, RefuseUnjustly, Client, IInv, TypeOK
  <2>2. Client("connected") \/ Client("refused") \/ Client("trying")
    BY <1>6 DEF Connect, Refuse, Break, RefuseUnjustly
  <2> QED
    BY <2>1, <2>2, ClientPreserves
<1>7. ASSUME NEW a \in Agent, Revoke(a) PROVE IInv'
    BY <1>7 DEF Revoke, IInv, TypeOK, Consistent, Current, Wanted
<1>8. ASSUME NEW c \in {Absent, Garbled}, HandEdit(c) PROVE IInv'
    BY <1>8, SyncAssumption DEF HandEdit, Write, IInv, TypeOK, Consistent, Current, Wanted
<1>9. CASE UNCHANGED vars
    BY <1>9 DEF vars, IInv, TypeOK, Consistent, Current, Wanted
<1> QED
    BY <1>1, <1>2, <1>3, <1>4, <1>5, <1>6, <1>7, <1>8, <1>9 DEF Next

\* The state keeps its type: what a command writes back is always credentials.
THEOREM TypeCorrect == Spec => []TypeOK
<1>1. IInv => TypeOK
    BY DEF IInv
<1> QED
    BY <1>1, InitEstablishes, StepPreserves, PTL DEF Spec

\* After a pass over a readable file the plugin (`sync` of index.ts) runs a client
\* for the machine in it, or none, whatever was edited, refused or garbled before.
THEOREM FollowsFile == Spec => []Adopted
<1>1. IInv => Adopted
    BY SyncAssumption DEF IInv, Consistent, Current, Wanted, Adopted, ClientIsFor, signatureOf,
                          Enabled, TypeOK, Credentials
<1> QED
    BY <1>1, InitEstablishes, StepPreserves, PTL DEF Spec
=============================================================================
