---------------------------- MODULE WatchedFile ----------------------------
(***************************************************************************)
(* A JSON file shared by several processes (src/shared/watched-file.ts):   *)
(* the long-running relay keeps one view of it while short-lived CLI       *)
(* commands edit it.  Every access goes through a getter that compares the *)
(* file's stamp with the stamp of the cached value, and update() wraps a   *)
(* read-modify-write in a lock, a directory made with mkdir next to the    *)
(* file.                                                                   *)
(*                                                                         *)
(* The code is synchronous, so a process is interrupted only between two   *)
(* system calls: an action below is one system call together with the      *)
(* computation that follows it.                                            *)
(*                                                                         *)
(* What is in the file is abstracted to the set of edits applied to it: an *)
(* edit is one call of update(), e.g. one `client revoke` of the operator  *)
(* or one touch of the relay.                                              *)
(***************************************************************************)
EXTENDS Integers, FiniteSets

CONSTANTS
    Proc,           \* processes that open the file: the relay, CLI commands
    Readers,        \* those that also read it without an update()
    Edit,           \* calls of update()
    NoEdit,         \* stands for "this access is a plain read"
    Resizing,       \* edits that change the length of the file
    Size,           \* length of the file, as a function of the edits in it
    Free,           \* no lock directory on disk
    LockTimeout,    \* LOCK_TIMEOUT_MS, in ticks
    LockStale,      \* LOCK_STALE_MS, in ticks
    MaxTime,        \* bound: modification times are told apart up to here
    MaxCrashes,     \* bound: processes killed in the middle of an access
    MaxGarbles,     \* bound: hand edits that leave invalid JSON
    RemovalFails    \* whether rmSync may throw: the disk became read-only, say

\* A stamp is mtime:size, so two contents of one length settled within one
\* clock tick have one stamp.  An edit is in Resizing when its presence always
\* shows in the length.
ASSUME ConstantsAssumption ==
    /\ Readers \subseteq Proc
    /\ NoEdit \notin Edit
    /\ Free \notin Proc
    /\ Resizing \subseteq Edit
    /\ LockTimeout \in Nat /\ LockStale \in Nat /\ LockTimeout < LockStale
    /\ RemovalFails \in BOOLEAN
    /\ MaxTime \in Nat /\ MaxCrashes \in Nat /\ MaxGarbles \in Nat

ASSUME SizeAssumption ==
    /\ Size \in [SUBSET Edit -> Nat]
    /\ \A old, new \in SUBSET Edit :
          /\ old \cap Resizing \subseteq new
          /\ Size[old] = Size[new]
          => old \cap Resizing = new \cap Resizing

VARIABLES
    parent,     \* the directory of the file exists
    file,       \* what is on disk: shape, edits applied, modification time
    lock,       \* who made the lock directory, or Free (the code keeps no owner)
    age,        \* ticks since the lock directory was made, saturating
    now,        \* clock that stamps modification times
    cache,      \* per process: #stamp and #value of its WatchedFile
    pc,         \* per process: the system call it is about to make
    edit,       \* per process: the edit its update() applies, NoEdit for a read
    waited,     \* per process: ticks since its update() began, saturating
    settled,    \* per process: its update() wrote its edit, or found it there
    committed,  \* history: edits whose caller was told that they are made
    usurped,    \* history: some live holder's lock directory was removed
    crashes, garbles    \* counters for MaxCrashes and MaxGarbles

fileVars == <<parent, file, lock>>
clockVars == <<age, now>>
callVars == <<pc, edit, waited, settled>>
histVars == <<committed, usurped>>
boundVars == <<crashes, garbles>>
vars == <<fileVars, clockVars, cache, callVars, histVars, boundVars>>

NoStamp == [mtime |-> -1, size |-> 0]

\* Mutant: the stamp ignores the length.
StampByTime(f) == IF f.shape = "absent" THEN NoStamp ELSE [mtime |-> f.mtime, size |-> 0]

Stamp(f) == IF f.shape = "absent" THEN NoStamp
            ELSE [mtime |-> f.mtime, size |-> Size[f.edits]]

EmptyCache == [stamp |-> NoStamp, known |-> FALSE, edits |-> {}]

Updating(p) == edit[p] # NoEdit

\* p's update() is between its mkdir and the rmSync of its release.
Holding(p) == Updating(p) /\ pc[p] \in {"stat", "read", "rename", "restamp", "release"}

Init ==
    /\ parent \in BOOLEAN
    /\ file \in [shape : {"absent", "state"}, edits : {{}}, mtime : {0}]
    /\ ~parent => file.shape = "absent"
    /\ lock = Free
    /\ age = 0
    /\ now = 0
    /\ cache = [p \in Proc |-> EmptyCache]
    /\ pc = [p \in Proc |-> "idle"]
    /\ edit = [p \in Proc |-> NoEdit]
    /\ waited = [p \in Proc |-> 0]
    /\ settled = [p \in Proc |-> FALSE]
    /\ committed = {}
    /\ usurped = FALSE
    /\ crashes = 0
    /\ garbles = 0

-----------------------------------------------------------------------------
(* The getter `value`, on its own or as the first half of update().        *)

\* The call goes on to its next system call.
Goto(p, call) ==
    /\ pc' = [pc EXCEPT ![p] = call]
    /\ UNCHANGED <<edit, waited, settled>>

\* The call ends, by return or by throw, and its locals with it.
Return(p) ==
    /\ pc' = [pc EXCEPT ![p] = "idle"]
    /\ edit' = [edit EXCEPT ![p] = NoEdit]
    /\ waited' = [waited EXCEPT ![p] = 0]
    /\ settled' = [settled EXCEPT ![p] = FALSE]

\* `value` hands its result to its caller: update() goes on to mutate it.
HaveValue(p) == IF Updating(p) THEN Goto(p, "rename") ELSE Return(p)

\* The parse of the file throws: update() leaves through its finally.
ThrowFromValue(p) == IF Updating(p) THEN Goto(p, "release") ELSE Return(p)

BeginRead(p) ==
    /\ pc[p] = "idle" /\ p \in Readers
    /\ Goto(p, "stat")
    /\ UNCHANGED <<fileVars, clockVars, cache, histVars, boundVars>>

\* Mutant: a value once read is trusted, as before the stamp was introduced.
StatFileOnce(p) ==
    /\ pc[p] = "stat"
    /\ IF cache[p].known
       THEN HaveValue(p) /\ UNCHANGED cache
       ELSE Goto(p, "read") /\ cache' = [cache EXCEPT ![p].stamp = Stamp(file)]
    /\ UNCHANGED <<fileVars, clockVars, histVars, boundVars>>

\* The new stamp is kept before the contents are read.
StatFile(p) ==
    /\ pc[p] = "stat"
    /\ IF cache[p].known /\ cache[p].stamp = Stamp(file)
       THEN HaveValue(p) /\ UNCHANGED cache
       ELSE Goto(p, "read") /\ cache' = [cache EXCEPT ![p].stamp = Stamp(file)]
    /\ UNCHANGED <<fileVars, clockVars, histVars, boundVars>>

ReadFile(p) ==
    /\ pc[p] = "read"
    /\ IF file.shape = "garbled"
       THEN ThrowFromValue(p) /\ UNCHANGED cache
       ELSE /\ cache' = [cache EXCEPT ![p].known = TRUE, ![p].edits = file.edits]
            /\ HaveValue(p)
    /\ UNCHANGED <<fileVars, clockVars, histVars, boundVars>>

-----------------------------------------------------------------------------
(* update(): the lock around a read-modify-write.                          *)

\* Bounds the history: an edit is one call, made until it succeeds once.
BeginUpdate(p, e) ==
    /\ pc[p] = "idle"
    /\ e \notin committed
    /\ \A q \in Proc : edit[q] # e
    /\ pc' = [pc EXCEPT ![p] = "mkdir"]
    /\ edit' = [edit EXCEPT ![p] = e]
    /\ UNCHANGED <<fileVars, clockVars, cache, waited, settled, histVars, boundVars>>

\* Mutant: mkdir with recursive: true succeeds on an existing directory.
TakeLockRecursive(p) ==
    /\ pc[p] = "mkdir"
    /\ parent
    /\ lock' = p
    /\ age' = 0
    /\ Goto(p, "stat")
    /\ UNCHANGED <<parent, file, now, cache, histVars, boundVars>>

\* mkdir succeeds: the lock is taken.
TakeLock(p) ==
    /\ pc[p] = "mkdir"
    /\ parent /\ lock = Free
    /\ lock' = p
    /\ age' = 0
    /\ Goto(p, "stat")
    /\ UNCHANGED <<parent, file, now, cache, histVars, boundVars>>

\* mkdir fails with EEXIST.
LockTaken(p) ==
    /\ pc[p] = "mkdir"
    /\ parent /\ lock # Free
    /\ Goto(p, "probe")
    /\ UNCHANGED <<fileVars, clockVars, cache, histVars, boundVars>>

\* mkdir fails with ENOENT, as the lock is not made recursively: update() throws.
NoParent(p) ==
    /\ pc[p] = "mkdir"
    /\ ~parent
    /\ Return(p)
    /\ UNCHANGED <<fileVars, clockVars, cache, histVars, boundVars>>

\* Mutant: a waiter never breaks the lock.
ProbeNeverBreaks(p) ==
    /\ pc[p] = "probe"
    /\ \/ lock = Free /\ Goto(p, "mkdir")
       \/ lock # Free /\ waited[p] > LockTimeout /\ Return(p)
       \/ lock # Free /\ waited[p] <= LockTimeout /\ Goto(p, "mkdir")
    /\ UNCHANGED <<fileVars, clockVars, cache, histVars, boundVars>>

\* stat of the lock directory: gone, stale, waited for too long, or sleep and retry.
Probe(p) ==
    /\ pc[p] = "probe"
    /\ \/ lock = Free /\ Goto(p, "mkdir")
       \/ lock # Free /\ age > LockStale /\ Goto(p, "break")
       \/ lock # Free /\ age <= LockStale /\ waited[p] > LockTimeout /\ Return(p)
       \/ lock # Free /\ age <= LockStale /\ waited[p] <= LockTimeout /\ Goto(p, "mkdir")
    /\ UNCHANGED <<fileVars, clockVars, cache, histVars, boundVars>>

\* rmSync removes the directory that is there now, whoever made it.  When it throws,
\* the caller carries on as if it had not.
RemoveLock(p) ==
    \/ /\ lock' = Free
       /\ usurped' = (usurped \/ \E q \in Proc \ {p} : lock = q /\ Holding(q))
    \/ RemovalFails /\ UNCHANGED <<lock, usurped>>

\* Mutant: rmSync without recursive: true fails on a directory; the error is caught.
BreakLockFails(p) ==
    /\ pc[p] = "break"
    /\ Goto(p, "mkdir")
    /\ UNCHANGED <<fileVars, clockVars, cache, histVars, boundVars>>

\* The stale lock goes, and mkdir is tried again at once: no deadline, no sleep.
BreakLock(p) ==
    /\ pc[p] = "break"
    /\ RemoveLock(p)
    /\ Goto(p, "mkdir")
    /\ UNCHANGED <<parent, file, clockVars, cache, committed, boundVars>>

\* The mutation throws: it was refused in view of the value (createAgent on a
\* second use of an id or a label).
MutationThrows(p) ==
    /\ pc[p] = "rename"
    /\ edit[p] \in cache[p].edits
    /\ settled' = [settled EXCEPT ![p] = TRUE]
    /\ pc' = [pc EXCEPT ![p] = "release"]
    /\ UNCHANGED <<fileVars, clockVars, cache, edit, waited, histVars, boundVars>>

\* mkdir of the parent, temporary file, rename: the file changes in one step.
Rename(p) ==
    LET next == cache[p].edits \cup {edit[p]} IN
    /\ pc[p] = "rename"
    /\ parent' = TRUE
    /\ file' = [shape |-> "state", edits |-> next, mtime |-> now]
    /\ cache' = [cache EXCEPT ![p].known = TRUE, ![p].edits = next]
    /\ settled' = [settled EXCEPT ![p] = TRUE]
    /\ pc' = [pc EXCEPT ![p] = "restamp"]
    /\ UNCHANGED <<lock, clockVars, edit, waited, histVars, boundVars>>

\* The stamp adopted with the own value is that of a stat after the rename.
Restamp(p) ==
    /\ pc[p] = "restamp"
    /\ cache' = [cache EXCEPT ![p].stamp = Stamp(file)]
    /\ Goto(p, "release")
    /\ UNCHANGED <<fileVars, clockVars, histVars, boundVars>>

Release(p) ==
    /\ pc[p] = "release"
    /\ RemoveLock(p)
    /\ committed' = IF settled[p] THEN committed \cup {edit[p]} ELSE committed
    /\ Return(p)
    /\ UNCHANGED <<parent, file, clockVars, cache, boundVars>>

-----------------------------------------------------------------------------
(* Outside the class: the clock, processes that end, hand edits.           *)

\* Time passes, whether or not the holder of the lock is scheduled meanwhile.
Tick ==
    /\ now' = IF now < MaxTime THEN now + 1 ELSE now
    /\ age' = IF lock # Free /\ age <= LockStale THEN age + 1 ELSE age
    /\ waited' = [p \in Proc |-> IF pc[p] \in {"mkdir", "probe"} /\ waited[p] <= LockTimeout
                                 THEN waited[p] + 1 ELSE waited[p]]
    /\ UNCHANGED <<fileVars, cache, pc, edit, settled, histVars, boundVars>>

\* A command ends; the next process starts with an empty cache.
Exit(p) ==
    /\ pc[p] = "idle"
    /\ cache' = [cache EXCEPT ![p] = EmptyCache]
    /\ UNCHANGED <<fileVars, clockVars, callVars, histVars, boundVars>>

\* A process is killed in the middle of an access; its lock directory stays.
Crash(p) ==
    /\ pc[p] # "idle"
    /\ crashes < MaxCrashes
    /\ crashes' = crashes + 1
    /\ cache' = [cache EXCEPT ![p] = EmptyCache]
    /\ Return(p)
    /\ UNCHANGED <<fileVars, clockVars, histVars, garbles>>

\* A hand edit leaves the file unparseable, at some later time than the last write.
Garble ==
    /\ garbles < MaxGarbles
    /\ file.shape = "state" /\ file.mtime < now
    /\ file' = [file EXCEPT !.shape = "garbled", !.mtime = now]
    /\ garbles' = garbles + 1
    /\ UNCHANGED <<parent, lock, clockVars, cache, callVars, histVars, crashes>>

\* The operator corrects it.
Repair ==
    /\ file.shape = "garbled" /\ file.mtime < now
    /\ file' = [file EXCEPT !.shape = "state", !.mtime = now]
    /\ UNCHANGED <<parent, lock, clockVars, cache, callVars, histVars, boundVars>>

-----------------------------------------------------------------------------
Step(p) ==
    \/ StatFile(p) \/ ReadFile(p)
    \/ TakeLock(p) \/ LockTaken(p) \/ NoParent(p) \/ Probe(p) \/ BreakLock(p)
    \/ MutationThrows(p) \/ Rename(p) \/ Restamp(p) \/ Release(p)

Next ==
    \/ \E p \in Proc : Step(p) \/ BeginRead(p) \/ Exit(p) \/ Crash(p)
    \/ \E p \in Proc, e \in Edit : BeginUpdate(p, e)
    \/ Tick \/ Garble \/ Repair

Spec == Init /\ [][Next]_vars

\* A process that started an access is scheduled, and time passes.
Fairness == (\A p \in Proc : WF_vars(Step(p))) /\ WF_vars(Tick)

FairSpec == Spec /\ Fairness

\* Whoever wants an edit made calls update() again after it failed.
RetrySpec == FairSpec /\ \A e \in Edit : SF_vars(\E p \in Proc : BeginUpdate(p, e))
-----------------------------------------------------------------------------
(* Properties.                                                             *)

Stamps == [mtime : -1 .. MaxTime, size : Nat]

\* The state has its type.
TypeOK ==
    /\ parent \in BOOLEAN
    /\ file \in [shape : {"absent", "state", "garbled"}, edits : SUBSET Edit,
                 mtime : 0 .. MaxTime]
    /\ lock \in Proc \cup {Free}
    /\ age \in 0 .. LockStale + 1
    /\ now \in 0 .. MaxTime
    /\ cache \in [Proc -> [stamp : Stamps, known : BOOLEAN, edits : SUBSET Edit]]
    /\ pc \in [Proc -> {"idle", "stat", "read", "mkdir", "probe", "break",
                        "rename", "restamp", "release"}]
    /\ edit \in [Proc -> Edit \cup {NoEdit}]
    /\ waited \in [Proc -> 0 .. LockTimeout + 1]
    /\ settled \in [Proc -> BOOLEAN]
    /\ committed \in SUBSET Edit
    /\ usurped \in BOOLEAN
    /\ crashes \in 0 .. MaxCrashes
    /\ garbles \in 0 .. MaxGarbles

\* "The whole read-modify-write is serialized by an exclusive lock"
\* (watched-file.ts:147): no two processes are inside update() at once.
MutualExclusion ==
    \A p, q \in Proc : Holding(p) /\ Holding(q) => p = q

\* What the lock does promise, crashes and stale locks included: two processes
\* are inside update() only after the lock of a live holder has been removed.
ExclusiveUnlessUsurped == ~usurped => MutualExclusion

\* An update that returned to its caller is never lost: a revocation reported
\* to the operator stays in the file whatever the other processes write
\* (the lost update of watched-file.ts:137-147).  Holds of edits that show in
\* the length of the file, as long as no live holder lost its lock and no
\* hand edit made the file unreadable.
RevocationsDurable ==
    ~usurped /\ garbles = 0 => committed \cap Resizing \subseteq file.edits

\* p's read returns to its caller with a value.
ReadReturns(p) ==
    /\ pc[p] \in {"stat", "read"} /\ ~Updating(p)
    /\ pc'[p] = "idle" /\ cache'[p].known

\* "Every access is current by construction" (watched-file.ts:13-16): a plain
\* read returns every committed edit, under the conditions of RevocationsDurable.
ReadsSeeRevocations ==
    [][\A p \in Proc :
         ReadReturns(p) /\ ~usurped /\ garbles = 0
         => committed \cap Resizing \subseteq cache'[p].edits]_vars

\* update() is an atomic edit of the file (AtomicFile), for the edits that show
\* in its length, processes that are killed included, until a live holder loses
\* its lock or a hand edit makes the file unreadable.
Atomic == INSTANCE AtomicFile WITH
              Edit <- Resizing,
              contents <- file.edits \cap Resizing,
              confirmed <- committed \cap Resizing,
              void <- usurped \/ garbles > 0
UpdatesAreAtomic == Atomic!Spec

\* A waiting command is never stuck behind a lock: every access ends, by return,
\* throw or crash, as LOCK_TIMEOUT_MS says ("How long to wait for another process to
\* finish its update", watched-file.ts:22).  It takes rmSync to succeed: a stale lock
\* that cannot be removed is tried again for ever, and past the deadline.
AccessesEnd == \A p \in Proc : pc[p] # "idle" ~> pc[p] = "idle"

\* "A stale lock from a killed process expires, so a crash cannot wedge the tool
\* permanently" (watched-file.ts:151-154): whatever is retried gets done.
CrashCannotWedge == parent => \A e \in Edit : <>(e \in file.edits)
=============================================================================
