------------------------- MODULE WatchedFileProofs -------------------------
(***************************************************************************)
(* WatchedFile for any number of processes and edits, any timeouts and any *)
(* crashes: type correctness, mutual exclusion until a live holder loses   *)
(* its lock, durability of what was reported as done, and what a read      *)
(* returns.                                                                *)
(***************************************************************************)
EXTENDS WatchedFile, TLAPS

-----------------------------------------------------------------------------
(* The inductive invariant.                                                *)

\* Only update() makes its own system calls, and locals start afresh.
UpdateSteps ==
    \A p \in Proc :
       /\ pc[p] \in {"mkdir", "probe", "break", "rename", "restamp", "release"} => Updating(p)
       /\ pc[p] = "idle" => ~settled[p] /\ ~Updating(p)

\* Whoever is inside update() made the lock directory.
HolderOwnsLock == \A p \in Proc : Holding(p) => lock = p

\* Until a hand edit, what is on disk parses, and no file is an empty state.
FileIntact ==
    /\ file.shape # "garbled"
    /\ file.shape = "absent" => file.edits = {}

Seen(edits) == edits \cap Resizing

\* A stamp, once taken, is the length of contents the file once had: older than
\* what is on disk now and, when the value has been read since, than the value.
StampOlder(p) ==
    cache[p].stamp # NoStamp =>
       \E old \in SUBSET Edit :
          /\ cache[p].stamp.size = Size[old]
          /\ Seen(old) \subseteq file.edits
          /\ cache[p].known /\ pc[p] # "read" => Seen(old) \subseteq cache[p].edits

\* No cached value is ahead of the file.
ValueOlder(p) == cache[p].known => Seen(cache[p].edits) \subseteq file.edits

\* What update() is about to mutate, or has just written, is what is on disk.
HolderCurrent(p) ==
    Holding(p) /\ pc[p] \in {"rename", "restamp"}
    => cache[p].known /\ Seen(file.edits) \subseteq cache[p].edits

\* An edit that update() regards as made is in the file.
SettledInFile(p) ==
    settled[p] /\ edit[p] \in Resizing => edit[p] \in file.edits

ProcInv(p) == StampOlder(p) /\ ValueOlder(p) /\ HolderCurrent(p) /\ SettledInFile(p)

DataInv == FileIntact /\ (\A p \in Proc : ProcInv(p)) /\ Seen(committed) \subseteq file.edits

IInv ==
    /\ TypeOK
    /\ UpdateSteps
    /\ ~usurped => HolderOwnsLock
    /\ ~usurped /\ garbles = 0 => DataInv
-----------------------------------------------------------------------------
(* Type correctness.                                                       *)

\* A stamp is well typed.
LEMMA StampType == TypeOK => Stamp(file) \in Stamps
BY ConstantsAssumption, SizeAssumption DEF TypeOK, Stamp, Stamps, NoStamp

Calls == {"idle", "stat", "read", "mkdir", "probe", "break", "rename", "restamp", "release"}

CallsTyped ==
    /\ pc \in [Proc -> Calls]
    /\ edit \in [Proc -> Edit \cup {NoEdit}]
    /\ waited \in [Proc -> 0 .. LockTimeout + 1]
    /\ settled \in [Proc -> BOOLEAN]

\* Going on to another system call, and ending the call, keep its locals typed.
LEMMA CallTypes ==
    ASSUME TypeOK, NEW p \in Proc,
           Return(p) \/ \E call \in Calls : Goto(p, call)
    PROVE  CallsTyped'
<1>1. CASE Return(p)
  <2>1. 0 \in 0 .. LockTimeout + 1
    BY ConstantsAssumption
  <2> QED
    BY <1>1, <2>1 DEF TypeOK, Return, CallsTyped, Calls
<1>2. ASSUME NEW call \in Calls, Goto(p, call) PROVE CallsTyped'
  BY <1>2 DEF TypeOK, Goto, CallsTyped, Calls
<1> QED
  BY <1>1, <1>2

CacheEntries == [stamp : Stamps, known : BOOLEAN, edits : SUBSET Edit]

\* A WatchedFile keeps its type when its stamp, or its value, is replaced.
LEMMA CacheTypes ==
    ASSUME TypeOK, NEW p \in Proc,
           \/ cache' = cache
           \/ \E s \in Stamps : cache' = [cache EXCEPT ![p].stamp = s]
           \/ \E e \in SUBSET Edit :
                 cache' = [cache EXCEPT ![p].known = TRUE, ![p].edits = e]
    PROVE  cache' \in [Proc -> CacheEntries]
<1>1. cache \in [Proc -> CacheEntries] /\ cache[p] \in CacheEntries
  BY DEF TypeOK, CacheEntries
<1>2. ASSUME NEW s \in Stamps, cache' = [cache EXCEPT ![p].stamp = s]
      PROVE  cache' \in [Proc -> CacheEntries]
  <2> DEFINE r == [cache[p] EXCEPT !.stamp = s]
  <2>1. r \in CacheEntries
    BY <1>1 DEF CacheEntries
  <2>2. cache' = [cache EXCEPT ![p] = r]
    BY <1>2
  <2> HIDE DEF r
  <2> QED
    BY <1>1, <2>1, <2>2
<1>3. ASSUME NEW e \in SUBSET Edit,
             cache' = [cache EXCEPT ![p].known = TRUE, ![p].edits = e]
      PROVE  cache' \in [Proc -> CacheEntries]
  <2> DEFINE r == [cache[p] EXCEPT !.known = TRUE, !.edits = e]
  <2>1. r \in CacheEntries
    BY <1>1 DEF CacheEntries
  <2>2. cache' = [cache EXCEPT ![p] = r]
    BY <1>1, <1>3 DEF CacheEntries
  <2> HIDE DEF r
  <2> QED
    BY <1>1, <2>1, <2>2
<1> QED
  BY <1>1, <1>2, <1>3

\* The state keeps its type.
LEMMA TypeStep == TypeOK /\ UpdateSteps /\ [Next]_vars => TypeOK'
<1> SUFFICES ASSUME TypeOK, UpdateSteps, [Next]_vars PROVE TypeOK'
  OBVIOUS
<1> USE ConstantsAssumption DEF fileVars, clockVars, callVars, histVars, boundVars
<1>1. ASSUME NEW p \in Proc, StatFile(p) PROVE TypeOK'
  <2>1. CallsTyped'
    BY <1>1, CallTypes DEF StatFile, HaveValue, Calls
  <2>2. cache' \in [Proc -> CacheEntries]
    BY <1>1, StampType, CacheTypes DEF StatFile
  <2> QED
    BY <1>1, <2>1, <2>2 DEF CacheEntries, TypeOK, StatFile, CallsTyped, Calls
<1>2. ASSUME NEW p \in Proc, ReadFile(p) PROVE TypeOK'
  <2>1. CallsTyped'
    BY <1>2, CallTypes DEF ReadFile, HaveValue, ThrowFromValue, Calls
  <2>2. cache' \in [Proc -> CacheEntries]
    BY <1>2, file.edits \in SUBSET Edit, CacheTypes DEF ReadFile, TypeOK
  <2> QED
    BY <1>2, <2>1, <2>2 DEF CacheEntries, TypeOK, ReadFile, CallsTyped, Calls
<1>3. ASSUME NEW p \in Proc, TakeLock(p) PROVE TypeOK'
  BY <1>3 DEF TypeOK, TakeLock, Goto
<1>4. ASSUME NEW p \in Proc, LockTaken(p) PROVE TypeOK'
  BY <1>4 DEF TypeOK, LockTaken, Goto
<1>5. ASSUME NEW p \in Proc, NoParent(p) PROVE TypeOK'
  BY <1>5 DEF TypeOK, NoParent, Return
<1>6. ASSUME NEW p \in Proc, Probe(p) PROVE TypeOK'
  <2>1. CallsTyped'
    BY <1>6, CallTypes DEF Probe, Calls
  <2> QED
    BY <1>6, <2>1 DEF TypeOK, Probe, CallsTyped, Calls
<1>7. ASSUME NEW p \in Proc, BreakLock(p) PROVE TypeOK'
  BY <1>7 DEF TypeOK, BreakLock, RemoveLock, Goto
<1>8. ASSUME NEW p \in Proc, MutationThrows(p) PROVE TypeOK'
  BY <1>8 DEF TypeOK, MutationThrows
<1>9. ASSUME NEW p \in Proc, Rename(p) PROVE TypeOK'
  <2> DEFINE next == cache[p].edits \cup {edit[p]}
  <2>1. next \in SUBSET Edit
    BY <1>9 DEF TypeOK, Rename, Updating, UpdateSteps
  <2>2. cache' \in [Proc -> CacheEntries]
    BY <1>9, <2>1, CacheTypes DEF Rename
  <2>3. file' \in [shape : {"absent", "state", "garbled"}, edits : SUBSET Edit,
                   mtime : 0 .. MaxTime]
    BY <1>9, <2>1 DEF Rename, TypeOK
  <2> QED
    BY <1>9, <2>2, <2>3 DEF CacheEntries, TypeOK, Rename
<1>10. ASSUME NEW p \in Proc, Restamp(p) PROVE TypeOK'
  BY <1>10, StampType DEF TypeOK, Restamp, Goto
<1>11. ASSUME NEW p \in Proc, Release(p) PROVE TypeOK'
  <2>1. CallsTyped'
    BY <1>11, CallTypes DEF Release
  <2>2. committed' \in SUBSET Edit
    BY <1>11 DEF Release, TypeOK, Updating, UpdateSteps
  <2>3. lock' \in Proc \cup {Free} /\ usurped' \in BOOLEAN
    BY <1>11 DEF Release, RemoveLock, TypeOK
  <2> QED
    BY <1>11, <2>1, <2>2, <2>3 DEF TypeOK, Release, CallsTyped, Calls
<1>12. ASSUME NEW p \in Proc, BeginRead(p) PROVE TypeOK'
  BY <1>12 DEF TypeOK, BeginRead, Goto
<1>13. ASSUME NEW p \in Proc, Exit(p) PROVE TypeOK'
  BY <1>13 DEF TypeOK, Exit, EmptyCache, NoStamp, Stamps
<1>14. ASSUME NEW p \in Proc, Crash(p) PROVE TypeOK'
  BY <1>14 DEF TypeOK, Crash, Return, EmptyCache, NoStamp, Stamps
<1>15. ASSUME NEW p \in Proc, NEW e \in Edit, BeginUpdate(p, e) PROVE TypeOK'
  BY <1>15 DEF TypeOK, BeginUpdate
<1>16. CASE Tick
  <2>1. now' \in 0 .. MaxTime /\ age' \in 0 .. LockStale + 1
    BY <1>16 DEF TypeOK, Tick
  <2>2. waited' \in [Proc -> 0 .. LockTimeout + 1]
    BY <1>16 DEF TypeOK, Tick
  <2> QED
    BY <1>16, <2>1, <2>2 DEF TypeOK, Tick
<1>17. CASE Garble
  <2>1. file' \in [shape : {"absent", "state", "garbled"}, edits : SUBSET Edit,
                   mtime : 0 .. MaxTime]
    BY <1>17 DEF TypeOK, Garble
  <2>2. garbles' \in 0 .. MaxGarbles
    BY <1>17 DEF TypeOK, Garble
  <2> QED
    BY <1>17, <2>1, <2>2 DEF TypeOK, Garble
<1>18. CASE Repair
  BY <1>18 DEF TypeOK, Repair
<1>19. CASE UNCHANGED vars
  BY <1>19 DEF TypeOK, vars
<1> QED
  BY <1>1, <1>2, <1>3, <1>4, <1>5, <1>6, <1>7, <1>8, <1>9, <1>10, <1>11, <1>12, <1>13,
     <1>14, <1>15, <1>16, <1>17, <1>18, <1>19 DEF Next, Step
-----------------------------------------------------------------------------
(* The lock.                                                               *)

\* update() and only update() reaches its own system calls.
LEMMA UpdateStepsStep == TypeOK /\ UpdateSteps /\ [Next]_vars => UpdateSteps'
<1> SUFFICES ASSUME TypeOK, UpdateSteps, [Next]_vars PROVE UpdateSteps'
  OBVIOUS
<1> USE ConstantsAssumption DEF TypeOK, UpdateSteps, Updating
<1>1. ASSUME NEW p \in Proc, Step(p) \/ BeginRead(p) \/ Crash(p) PROVE UpdateSteps'
  BY <1>1 DEF Step, StatFile, ReadFile, TakeLock, LockTaken, NoParent, Probe, BreakLock,
              MutationThrows, Rename, Restamp, Release, BeginRead, Crash,
              HaveValue, ThrowFromValue, Goto, Return
<1>2. ASSUME NEW p \in Proc, NEW e \in Edit, BeginUpdate(p, e) PROVE UpdateSteps'
  BY <1>2 DEF BeginUpdate
<1>3. ASSUME UNCHANGED <<pc, edit, settled>> PROVE UpdateSteps'
  BY <1>3
<1> QED
  BY <1>1, <1>2, <1>3 DEF Next, Exit, Tick, Garble, Repair, vars, callVars

\* While no live holder loses its lock, a holder is the maker of the lock.
LEMMA LockStep ==
    TypeOK /\ UpdateSteps /\ (~usurped => HolderOwnsLock) /\ [Next]_vars
    => (~usurped' => HolderOwnsLock')
<1> SUFFICES ASSUME TypeOK, UpdateSteps, ~usurped => HolderOwnsLock, [Next]_vars, ~usurped'
             PROVE  HolderOwnsLock'
  OBVIOUS
<1> USE ConstantsAssumption DEF TypeOK, UpdateSteps, Updating, HolderOwnsLock, Holding
<1>1. ~usurped
  BY DEF Next, Step, StatFile, ReadFile, TakeLock, LockTaken, NoParent, Probe, BreakLock,
         MutationThrows, Rename, Restamp, Release, BeginRead, BeginUpdate, Crash, RemoveLock,
         Exit, Tick, Garble, Repair, vars, histVars
<1>2. ASSUME NEW p \in Proc, TakeLock(p) PROVE HolderOwnsLock'
  BY <1>1, <1>2 DEF TakeLock, Goto
<1>3. ASSUME NEW p \in Proc, BreakLock(p) PROVE HolderOwnsLock'
  BY <1>1, <1>3 DEF BreakLock, RemoveLock, Goto
<1>4. ASSUME NEW p \in Proc, Release(p) PROVE HolderOwnsLock'
  BY <1>1, <1>4 DEF Release, RemoveLock, Return
<1>5. ASSUME NEW p \in Proc, StatFile(p) \/ ReadFile(p) PROVE HolderOwnsLock'
  <2>1. ASSUME Goto(p, "read") \/ Goto(p, "rename") \/ Goto(p, "release") \/ Return(p),
               NEW q \in Proc, Holding(q)'
        PROVE  Holding(q)
    BY <1>5, <2>1 DEF StatFile, ReadFile, Goto, Return
  <2> QED
    BY <1>1, <1>5, <2>1 DEF StatFile, ReadFile, HaveValue, ThrowFromValue, fileVars
<1>8. ASSUME NEW p \in Proc,
             LockTaken(p) \/ NoParent(p) \/ Probe(p) \/ BeginRead(p) \/ Crash(p)
      PROVE  HolderOwnsLock'
  <2>1. ASSUME Return(p) \/ Goto(p, "mkdir") \/ Goto(p, "probe") \/ Goto(p, "break"),
               NEW q \in Proc, Holding(q)'
        PROVE  Holding(q)
    <3>1. CASE Return(p)
      BY <2>1, <3>1 DEF Return
    <3>2. ASSUME NEW call \in {"mkdir", "probe", "break"}, Goto(p, call)
          PROVE  Holding(q)
      BY <2>1, <3>2 DEF Goto
    <3> QED
      BY <2>1, <3>1, <3>2
  <2>2. CASE BeginRead(p)
    BY <1>1, <2>2 DEF BeginRead, Goto, fileVars
  <2>3. CASE ~BeginRead(p)
    <3>1. lock' = lock
      BY <1>8, <2>3 DEF LockTaken, NoParent, Probe, Crash, fileVars
    <3>2. Return(p) \/ Goto(p, "mkdir") \/ Goto(p, "probe") \/ Goto(p, "break")
      BY <1>8, <2>3 DEF LockTaken, NoParent, Probe, Crash
    <3> HIDE DEF Holding
    <3> QED
      BY <1>1, <2>1, <3>1, <3>2
  <2> QED
    BY <2>2, <2>3
<1>9. ASSUME NEW p \in Proc, MutationThrows(p) \/ Rename(p) \/ Restamp(p)
      PROVE  HolderOwnsLock'
  BY <1>1, <1>9 DEF MutationThrows, Rename, Restamp, Goto, fileVars
<1>6. ASSUME NEW p \in Proc, NEW e \in Edit, BeginUpdate(p, e) PROVE HolderOwnsLock'
  BY <1>1, <1>6 DEF BeginUpdate, fileVars
<1>7. ASSUME UNCHANGED <<pc, edit, lock>> PROVE HolderOwnsLock'
  BY <1>1, <1>7
<1> QED
  BY <1>2, <1>3, <1>4, <1>5, <1>6, <1>7, <1>8, <1>9
     DEF Next, Step, Exit, Tick, Garble, Repair, vars, callVars, fileVars

-----------------------------------------------------------------------------
(* The contents.                                                           *)

\* The stamp test of `value`: a cached value whose stamp is the file's holds
\* every resizing edit of the file.
LEMMA CurrentByStamp ==
    ASSUME TypeOK, FileIntact, NEW p \in Proc, StampOlder(p), cache[p].known,
           pc[p] # "read", cache[p].stamp = Stamp(file)
    PROVE  Seen(file.edits) \subseteq cache[p].edits
<1>1. CASE file.shape = "absent"
  BY <1>1 DEF FileIntact, Seen
<1>2. CASE file.shape # "absent"
  <2>1. cache[p].stamp # NoStamp /\ cache[p].stamp.size = Size[file.edits]
    BY <1>2, ConstantsAssumption DEF Stamp, NoStamp, TypeOK
  <2>2. PICK old \in SUBSET Edit :
           /\ Size[old] = Size[file.edits]
           /\ Seen(old) \subseteq file.edits
           /\ Seen(old) \subseteq cache[p].edits
    BY <2>1 DEF StampOlder
  <2>3. Seen(old) = Seen(file.edits)
    BY <2>2, SizeAssumption DEF Seen, TypeOK
  <2> QED
    BY <2>2, <2>3
<1> QED
  BY <1>1, <1>2

\* A process that did not move is disturbed by no step that keeps the resizing
\* edits in the file, if it holds the lock only while the file stays the same.
LEMMA ProcFrame ==
    ASSUME NEW p \in Proc, ProcInv(p), cache'[p] = cache[p], pc'[p] = pc[p],
           edit'[p] = edit[p], settled'[p] = settled[p],
           Seen(file.edits) \subseteq file'.edits,
           Holding(p) => file'.edits = file.edits
    PROVE  ProcInv(p)'
<1>1. StampOlder(p)'
  BY DEF ProcInv, StampOlder, Seen
<1>2. ValueOlder(p)'
  BY DEF ProcInv, ValueOlder, Seen
<1>3. HolderCurrent(p)' /\ SettledInFile(p)'
  BY DEF ProcInv, HolderCurrent, SettledInFile, Holding, Updating, Seen
<1> QED
  BY <1>1, <1>2, <1>3 DEF ProcInv

\* What a step of p leaves alone in every other process.
LEMMA OthersFrame ==
    ASSUME TypeOK, NEW p \in Proc, HolderOwnsLock, DataInv,
           Seen(file.edits) \subseteq file'.edits,
           \/ file'.edits = file.edits
           \/ Holding(p),
           NEW q \in Proc, q # p,
           cache'[q] = cache[q], pc'[q] = pc[q], edit'[q] = edit[q], settled'[q] = settled[q]
    PROVE  ProcInv(q)'
<1>1. Holding(q) => file'.edits = file.edits
  BY DEF HolderOwnsLock
<1> QED
  BY <1>1, ProcFrame DEF DataInv

\* A step of p that touches neither the file nor what is cached.
LEMMA QuietStep ==
    ASSUME TypeOK, NEW p \in Proc, HolderOwnsLock, DataInv, UNCHANGED <<file, cache, committed>>,
           \A q \in Proc \ {p} : /\ pc'[q] = pc[q] /\ edit'[q] = edit[q]
                                 /\ settled'[q] = settled[q],
           pc[p] # "read", pc'[p] \notin {"rename", "restamp"},
           settled'[p] => settled[p] /\ edit'[p] = edit[p]
    PROVE  DataInv'
<1>1. ASSUME NEW q \in Proc, q # p PROVE ProcInv(q)'
  BY <1>1, OthersFrame DEF Seen
<1>2. StampOlder(p)' /\ ValueOlder(p)'
  BY DEF DataInv, ProcInv, StampOlder, ValueOlder
<1>3. HolderCurrent(p)' /\ SettledInFile(p)'
  BY DEF DataInv, ProcInv, HolderCurrent, SettledInFile
<1> QED
  BY <1>1, <1>2, <1>3 DEF DataInv, ProcInv, FileIntact

\* The contents are preserved while no live holder loses its lock and the file is
\* never garbled.
LEMMA DataStep ==
    ASSUME TypeOK, UpdateSteps, ~usurped, HolderOwnsLock, garbles' = 0, DataInv, [Next]_vars
    PROVE  DataInv'
<1> USE ConstantsAssumption
<1>1. ASSUME NEW p \in Proc, StatFile(p) PROVE DataInv'
  <2>1. file' = file /\ committed' = committed
    BY <1>1 DEF StatFile, fileVars, histVars
  <2>2. ASSUME NEW q \in Proc, q # p PROVE ProcInv(q)'
    <3>1. cache'[q] = cache[q] /\ pc'[q] = pc[q] /\ edit'[q] = edit[q] /\ settled'[q] = settled[q]
      BY <1>1, <2>2 DEF StatFile, HaveValue, Goto, Return, TypeOK
    <3> QED
      BY <2>1, <2>2, <3>1, OthersFrame DEF Seen
  <2>3. ProcInv(p)'
    <3>1. CASE cache[p].known /\ cache[p].stamp = Stamp(file)
      <4>1. cache' = cache
        BY <1>1, <3>1 DEF StatFile
      <4>2. Seen(file.edits) \subseteq cache[p].edits
        BY <1>1, <3>1, CurrentByStamp DEF DataInv, ProcInv, StatFile
      <4>3. StampOlder(p)' /\ ValueOlder(p)'
        BY <1>1, <2>1, <4>1 DEF DataInv, ProcInv, StampOlder, ValueOlder, StatFile
      <4>4. HolderCurrent(p)'
        BY <2>1, <3>1, <4>1, <4>2 DEF HolderCurrent
      <4>5. SettledInFile(p)'
        BY <1>1, <2>1, <3>1 DEF DataInv, ProcInv, SettledInFile, StatFile,
                         HaveValue, Goto, Return, TypeOK
      <4> QED
        BY <4>3, <4>4, <4>5 DEF ProcInv
    <3>2. CASE ~(cache[p].known /\ cache[p].stamp = Stamp(file))
      <4>1. /\ pc'[p] = "read" /\ edit' = edit /\ settled' = settled
            /\ cache'[p].stamp = Stamp(file)
            /\ cache'[p].edits = cache[p].edits /\ cache'[p].known = cache[p].known
        BY <1>1, <3>2 DEF StatFile, Goto, TypeOK
      <4>2. StampOlder(p)'
        BY <2>1, <4>1 DEF StampOlder, Stamp, Seen, TypeOK, NoStamp
      <4>3. ValueOlder(p)'
        BY <2>1, <4>1 DEF DataInv, ProcInv, ValueOlder
      <4>4. HolderCurrent(p)' /\ SettledInFile(p)'
        BY <1>1, <2>1, <4>1 DEF DataInv, ProcInv, HolderCurrent, SettledInFile, Holding,
                                Updating, StatFile
      <4> QED
        BY <4>2, <4>3, <4>4 DEF ProcInv
    <3> QED
      BY <3>1, <3>2
  <2> QED
    BY <2>1, <2>2, <2>3 DEF DataInv, FileIntact
<1>2. ASSUME NEW p \in Proc, ReadFile(p) PROVE DataInv'
  <2>1. file' = file /\ committed' = committed /\ file.shape # "garbled"
    BY <1>2 DEF ReadFile, fileVars, histVars, DataInv, FileIntact
  <2>2. ASSUME NEW q \in Proc, q # p PROVE ProcInv(q)'
    <3>1. cache'[q] = cache[q] /\ pc'[q] = pc[q] /\ edit'[q] = edit[q] /\ settled'[q] = settled[q]
      BY <1>2, <2>1, <2>2 DEF ReadFile, HaveValue, Goto, Return, TypeOK
    <3> QED
      BY <2>1, <2>2, <3>1, OthersFrame DEF Seen
  <2>3. /\ cache'[p].known /\ cache'[p].edits = file.edits
        /\ cache'[p].stamp = cache[p].stamp
    BY <1>2, <2>1 DEF ReadFile, TypeOK
  <2>4. StampOlder(p)'
    BY <2>1, <2>3 DEF DataInv, ProcInv, StampOlder
  <2>5. ValueOlder(p)' /\ HolderCurrent(p)'
    BY <2>1, <2>3 DEF ValueOlder, HolderCurrent, Seen
  <2>6. SettledInFile(p)'
    BY <1>2, <2>1 DEF DataInv, ProcInv, SettledInFile, ReadFile,
                      HaveValue, Goto, Return, TypeOK
  <2> QED
    BY <2>1, <2>2, <2>4, <2>5, <2>6 DEF DataInv, FileIntact, ProcInv
<1>3. ASSUME NEW p \in Proc, TakeLock(p) PROVE DataInv'
  BY <1>3, QuietStep DEF TakeLock, Goto, TypeOK, fileVars, histVars
<1>4. ASSUME NEW p \in Proc, LockTaken(p) PROVE DataInv'
  BY <1>4, QuietStep DEF LockTaken, Goto, TypeOK, fileVars, histVars
<1>5. ASSUME NEW p \in Proc, NoParent(p) PROVE DataInv'
  <2>1. /\ UNCHANGED <<file, cache, committed>>
        /\ pc[p] = "mkdir" /\ pc'[p] = "idle" /\ ~settled'[p]
        /\ \A q \in Proc \ {p} : /\ pc'[q] = pc[q] /\ edit'[q] = edit[q]
                                 /\ settled'[q] = settled[q]
    BY <1>5 DEF NoParent, Return, TypeOK, fileVars, histVars
  <2> QED
    BY <2>1, QuietStep
<1>6. ASSUME NEW p \in Proc, Probe(p) PROVE DataInv'
  BY <1>6, QuietStep DEF Probe, Goto, Return, TypeOK, fileVars, histVars
<1>7. ASSUME NEW p \in Proc, BreakLock(p) PROVE DataInv'
  BY <1>7, QuietStep DEF BreakLock, RemoveLock, Goto, TypeOK, fileVars, histVars
<1>8. ASSUME NEW p \in Proc, BeginRead(p) PROVE DataInv'
  BY <1>8, QuietStep DEF BeginRead, Goto, TypeOK, fileVars, histVars
<1>9. ASSUME NEW p \in Proc, NEW e \in Edit, BeginUpdate(p, e) PROVE DataInv'
  BY <1>9, QuietStep DEF BeginUpdate, UpdateSteps, TypeOK, fileVars, histVars
<1>10. ASSUME NEW p \in Proc, MutationThrows(p) PROVE DataInv'
  <2>1. UNCHANGED <<file, cache, committed, edit>> /\ pc'[p] = "release"
    BY <1>10 DEF MutationThrows, fileVars, histVars, TypeOK
  <2>2. ASSUME NEW q \in Proc, q # p PROVE ProcInv(q)'
    <3>1. pc'[q] = pc[q] /\ settled'[q] = settled[q]
      BY <1>10, <2>2 DEF MutationThrows, TypeOK
    <3> QED
      BY <2>1, <2>2, <3>1, OthersFrame DEF Seen
  <2>3. SettledInFile(p)'
    BY <1>10, <2>1 DEF DataInv, ProcInv, ValueOlder, HolderCurrent, SettledInFile, Holding,
                       UpdateSteps, MutationThrows, Seen
  <2>4. StampOlder(p)' /\ ValueOlder(p)' /\ HolderCurrent(p)'
    BY <1>10, <2>1 DEF DataInv, ProcInv, StampOlder, ValueOlder, HolderCurrent, MutationThrows
  <2> QED
    BY <2>1, <2>2, <2>3, <2>4 DEF DataInv, ProcInv, FileIntact
<1>11. ASSUME NEW p \in Proc, Rename(p) PROVE DataInv'
  <2>1. /\ file'.edits = cache[p].edits \cup {edit[p]} /\ file'.shape = "state"
        /\ cache'[p].edits = file'.edits /\ cache'[p].known
        /\ cache'[p].stamp = cache[p].stamp
        /\ pc'[p] = "restamp" /\ UNCHANGED <<edit, committed>>
    BY <1>11 DEF Rename, TypeOK, histVars
  <2>2. Holding(p) /\ cache[p].known /\ Seen(file.edits) \subseteq cache[p].edits
    BY <1>11 DEF Rename, Holding, UpdateSteps, DataInv, ProcInv, HolderCurrent
  <2>3. Seen(file.edits) \subseteq file'.edits
    BY <2>1, <2>2
  <2>4. ASSUME NEW q \in Proc, q # p PROVE ProcInv(q)'
    <3>1. cache'[q] = cache[q] /\ pc'[q] = pc[q] /\ settled'[q] = settled[q]
      BY <1>11, <2>4 DEF Rename, TypeOK
    <3> QED
      BY <2>1, <2>2, <2>3, <2>4, <3>1, OthersFrame
  <2>5. StampOlder(p)'
    <3> SUFFICES ASSUME cache[p].stamp # NoStamp
                 PROVE  \E old \in SUBSET Edit :
                           /\ cache[p].stamp.size = Size[old]
                           /\ Seen(old) \subseteq file'.edits
      BY <2>1 DEF StampOlder
    <3> QED
      BY <2>1, <2>3 DEF DataInv, ProcInv, StampOlder, Seen
  <2>6. ValueOlder(p)' /\ HolderCurrent(p)' /\ SettledInFile(p)'
    BY <2>1 DEF ValueOlder, HolderCurrent, SettledInFile, Seen
  <2>7. Seen(committed') \subseteq file'.edits
    BY <2>1, <2>3 DEF DataInv, Seen
  <2> QED
    BY <2>1, <2>4, <2>5, <2>6, <2>7 DEF DataInv, ProcInv, FileIntact
<1>12. ASSUME NEW p \in Proc, Restamp(p) PROVE DataInv'
  <2>1. /\ UNCHANGED <<file, edit, settled, committed>>
        /\ cache'[p].stamp = Stamp(file) /\ cache'[p].known = cache[p].known
        /\ cache'[p].edits = cache[p].edits /\ pc'[p] = "release"
    BY <1>12 DEF Restamp, Goto, TypeOK, fileVars, histVars
  <2>2. Seen(file.edits) \subseteq cache[p].edits
    BY <1>12 DEF Restamp, Holding, UpdateSteps, DataInv, ProcInv, HolderCurrent
  <2>3. ASSUME NEW q \in Proc, q # p PROVE ProcInv(q)'
    <3>1. cache'[q] = cache[q] /\ pc'[q] = pc[q]
      BY <1>12, <2>3 DEF Restamp, Goto, TypeOK
    <3> QED
      BY <2>1, <2>3, <3>1, OthersFrame DEF Seen
  <2>4. StampOlder(p)'
    BY <2>1, <2>2 DEF StampOlder, Stamp, Seen, TypeOK, NoStamp
  <2>5. ValueOlder(p)' /\ HolderCurrent(p)' /\ SettledInFile(p)'
    BY <2>1 DEF DataInv, ProcInv, ValueOlder, HolderCurrent, SettledInFile
  <2> QED
    BY <2>1, <2>3, <2>4, <2>5 DEF DataInv, ProcInv, FileIntact
<1>13. ASSUME NEW p \in Proc, Release(p) PROVE DataInv'
  <2>1. UNCHANGED <<file, cache>> /\ pc'[p] = "idle" /\ ~settled'[p]
    BY <1>13 DEF Release, Return, TypeOK
  <2>2. ASSUME NEW q \in Proc, q # p PROVE ProcInv(q)'
    <3>1. pc'[q] = pc[q] /\ edit'[q] = edit[q] /\ settled'[q] = settled[q]
      BY <1>13, <2>2 DEF Release, Return, TypeOK
    <3> QED
      BY <2>1, <2>2, <3>1, OthersFrame DEF Seen
  <2>3. ProcInv(p)'
    BY <1>13, <2>1 DEF DataInv, ProcInv, StampOlder, ValueOlder, HolderCurrent,
                       SettledInFile, Release
  <2>4. Seen(committed') \subseteq file.edits
    BY <1>13 DEF Release, DataInv, ProcInv, SettledInFile, Seen
  <2> QED
    BY <2>1, <2>2, <2>3, <2>4 DEF DataInv, FileIntact
<1>14. ASSUME NEW p \in Proc, Exit(p) \/ Crash(p) PROVE DataInv'
  <2>1. /\ UNCHANGED <<file, committed>>
        /\ cache'[p] = EmptyCache /\ pc'[p] = "idle" /\ ~settled'[p]
    BY <1>14 DEF Exit, Crash, Return, TypeOK, UpdateSteps, fileVars, histVars, callVars
  <2>2. ASSUME NEW q \in Proc, q # p PROVE ProcInv(q)'
    <3>1. /\ cache'[q] = cache[q] /\ pc'[q] = pc[q] /\ edit'[q] = edit[q]
          /\ settled'[q] = settled[q]
      BY <1>14, <2>2 DEF Exit, Crash, Return, TypeOK, callVars
    <3> QED
      BY <2>1, <2>2, <3>1, OthersFrame DEF Seen
  <2>3. ProcInv(p)'
    BY <2>1 DEF ProcInv, StampOlder, ValueOlder, HolderCurrent, SettledInFile, EmptyCache
  <2> QED
    BY <2>1, <2>2, <2>3 DEF DataInv, FileIntact
<1>15. ASSUME Tick \/ UNCHANGED vars PROVE DataInv'
  <2>1. UNCHANGED <<file, cache, pc, edit, settled, committed>>
    BY <1>15 DEF Tick, vars, callVars, fileVars, histVars
  <2>2. ASSUME NEW q \in Proc PROVE ProcInv(q)'
    BY <2>1, <2>2, ProcFrame DEF DataInv, Seen
  <2> QED
    BY <2>1, <2>2 DEF DataInv, FileIntact
<1>16. ~Garble /\ ~Repair
  BY DEF Garble, Repair, DataInv, FileIntact, TypeOK
<1> QED
  BY <1>1, <1>2, <1>3, <1>4, <1>5, <1>6, <1>7, <1>8, <1>9, <1>10, <1>11, <1>12, <1>13,
     <1>14, <1>15, <1>16
     DEF Next, Step

-----------------------------------------------------------------------------
(* The theorems.                                                           *)

\* The initial states satisfy the invariant.
LEMMA InitInv == Init => IInv
<1> SUFFICES ASSUME Init PROVE IInv
  OBVIOUS
<1> USE ConstantsAssumption DEF Init
<1>1. TypeOK
  <2>1. file \in [shape : {"absent", "state", "garbled"}, edits : SUBSET Edit,
                  mtime : 0 .. MaxTime]
    OBVIOUS
  <2>2. cache \in [Proc -> [stamp : Stamps, known : BOOLEAN, edits : SUBSET Edit]]
    BY DEF EmptyCache, NoStamp, Stamps
  <2>3. /\ age \in 0 .. LockStale + 1 /\ now \in 0 .. MaxTime
        /\ waited \in [Proc -> 0 .. LockTimeout + 1]
        /\ crashes \in 0 .. MaxCrashes /\ garbles \in 0 .. MaxGarbles
    OBVIOUS
  <2> QED
    BY <2>1, <2>2, <2>3 DEF TypeOK
<1>2. UpdateSteps /\ HolderOwnsLock
  BY DEF UpdateSteps, HolderOwnsLock, Holding, Updating
<1>3. DataInv
  BY DEF DataInv, FileIntact, ProcInv, StampOlder, ValueOlder, HolderCurrent, SettledInFile,
         EmptyCache, Holding, Updating, Seen
<1> QED
  BY <1>1, <1>2, <1>3 DEF IInv

\* Every step preserves it.
LEMMA StepInv == IInv /\ [Next]_vars => IInv'
<1> SUFFICES ASSUME IInv, [Next]_vars PROVE IInv'
  OBVIOUS
<1> USE DEF IInv
<1>1. TypeOK' /\ UpdateSteps' /\ (~usurped' => HolderOwnsLock')
  BY TypeStep, UpdateStepsStep, LockStep
<1>2. ASSUME ~usurped', garbles' = 0 PROVE DataInv'
  <2>1. ~usurped
    BY <1>2 DEF Next, Step, StatFile, ReadFile, TakeLock, LockTaken, NoParent, Probe,
         BreakLock, MutationThrows, Rename, Restamp, Release, BeginRead, BeginUpdate, Crash,
         RemoveLock, Exit, Tick, Garble, Repair, vars, histVars
  <2>2. garbles = 0
    <3>1. garbles' = garbles \/ Garble
      BY DEF Next, Step, StatFile, ReadFile, TakeLock, LockTaken, NoParent, Probe,
         BreakLock, MutationThrows, Rename, Restamp, Release, BeginRead, BeginUpdate, Crash,
         Exit, Tick, Repair, vars, boundVars
    <3>2. garbles \in Nat
      BY ConstantsAssumption DEF TypeOK
    <3> QED
      BY <1>2, <3>1, <3>2 DEF Garble
  <2> QED
    BY <1>2, <2>1, <2>2, DataStep
<1> QED
  BY <1>1, <1>2

\* IInv is an invariant.
LEMMA Invariance == Spec => []IInv
BY InitInv, StepInv, PTL DEF Spec

\* The state of the file, the lock and every process keeps its type.
THEOREM TypeCorrect == Spec => []TypeOK
<1>1. IInv => TypeOK
  BY DEF IInv
<1> QED
  BY <1>1, Invariance, PTL

\* Two processes are never inside update() at once, until the lock directory of
\* a live holder has been removed: for any number of processes and any crashes.
THEOREM Exclusion == Spec => []ExclusiveUnlessUsurped
<1>1. IInv => ExclusiveUnlessUsurped
  BY DEF IInv, ExclusiveUnlessUsurped, MutualExclusion, HolderOwnsLock
<1> QED
  BY <1>1, Invariance, PTL

\* A revocation reported as done is in the file from then on, unless a live
\* holder lost its lock or a hand edit garbled the file.
THEOREM Durability == Spec => []RevocationsDurable
<1>1. IInv => RevocationsDurable
  BY DEF IInv, RevocationsDurable, DataInv, Seen
<1> QED
  BY <1>1, Invariance, PTL

\* Under the same conditions a read returns every revocation reported before.
THEOREM ReadCurrency == Spec => ReadsSeeRevocations
<1>1. ASSUME IInv, NEW p \in Proc, [Next]_vars, ReadReturns(p), ~usurped, garbles = 0
      PROVE  committed \cap Resizing \subseteq cache'[p].edits
  <2>1. TypeOK /\ UpdateSteps /\ DataInv
    BY <1>1 DEF IInv
  <2> USE ConstantsAssumption
  <2>2. CASE StatFile(p)
    <3>1. cache[p].known /\ cache[p].stamp = Stamp(file) /\ cache' = cache
      BY <1>1, <2>1, <2>2 DEF StatFile, ReadReturns, Goto, TypeOK
    <3> QED
      BY <2>1, <2>2, <3>1, CurrentByStamp DEF DataInv, ProcInv, StatFile, Seen
  <2>3. CASE ReadFile(p)
    BY <2>1, <2>3 DEF ReadFile, DataInv, FileIntact, Seen, TypeOK
  <2>4. ~Crash(p) /\ ~Exit(p)
    BY <1>1, <2>1 DEF ReadReturns, Crash, Exit, EmptyCache, TypeOK
  <2>5. ASSUME pc'[p] = pc[p] PROVE FALSE
    BY <1>1, <2>5 DEF ReadReturns
  <2>6. StatFile(p) \/ ReadFile(p)
    <3>1. ASSUME NEW q \in Proc, q # p, Step(q) \/ BeginRead(q) \/ Exit(q) \/ Crash(q)
          PROVE  pc'[p] = pc[p]
      BY <2>1, <3>1 DEF Step, StatFile, ReadFile, TakeLock, LockTaken, NoParent, Probe,
         BreakLock, MutationThrows, Rename, Restamp, Release, BeginRead, Crash, Exit,
         HaveValue, ThrowFromValue, Goto, Return, TypeOK, callVars
    <3>2. ASSUME NEW q \in Proc, NEW e \in Edit, BeginUpdate(q, e) PROVE FALSE
      BY <1>1, <2>1, <2>5, <3>2 DEF BeginUpdate, ReadReturns, TypeOK
    <3>3. ~(Tick \/ Garble \/ Repair \/ UNCHANGED vars)
      BY <2>5 DEF Tick, Garble, Repair, vars, callVars
    <3>4. ASSUME Step(p) \/ BeginRead(p) PROVE StatFile(p) \/ ReadFile(p)
      BY <1>1, <3>4 DEF Step, ReadReturns, TakeLock, LockTaken, NoParent, Probe,
         BreakLock, MutationThrows, Rename, Restamp, Release, BeginRead
    <3> QED
      BY <1>1, <2>4, <2>5, <3>1, <3>2, <3>3, <3>4 DEF Next
  <2> QED
    BY <2>2, <2>3, <2>6
<1> DEFINE Current == \A p \in Proc : ReadReturns(p) /\ ~usurped /\ garbles = 0
                                     => committed \cap Resizing \subseteq cache'[p].edits
<1>2. IInv /\ [Next]_vars => [Current]_vars
  BY <1>1
<1> HIDE DEF Current
<1>3. Spec => [][Current]_vars
  BY <1>2, Invariance, PTL DEF Spec
<1> QED
  BY <1>3 DEF ReadsSeeRevocations, Current

-----------------------------------------------------------------------------
(* The refinement.                                                         *)

\* A rename, while the promise holds, adds the edit of its own and no other change.
LEMMA RenameAdds ==
    ASSUME TypeOK, DataInv, NEW p \in Proc, Rename(p), Updating(p)
    PROVE  Seen(file'.edits) = Seen(file.edits) \cup Seen({edit[p]})
<1>1. cache[p].known /\ Seen(cache[p].edits) = Seen(file.edits)
  BY DEF DataInv, ProcInv, HolderCurrent, ValueOlder, Holding, Rename, Seen
<1>2. file'.edits = cache[p].edits \cup {edit[p]}
  BY DEF Rename
<1> QED
  BY <1>1, <1>2 DEF Seen

\* What no rename and no release touches.
LEMMA FileKept ==
    ASSUME TypeOK, [Next]_vars
    PROVE  \/ \E p \in Proc : Rename(p) \/ Release(p)
           \/ file'.edits = file.edits /\ committed' = committed
<1>1. ASSUME NEW p \in Proc, Step(p) \/ BeginRead(p) \/ Exit(p) \/ Crash(p)
      PROVE  Rename(p) \/ Release(p) \/ UNCHANGED <<file, committed>>
  BY <1>1 DEF Step, StatFile, ReadFile, TakeLock, LockTaken, NoParent, Probe, BreakLock,
     MutationThrows, Restamp, BeginRead, Exit, Crash, fileVars, histVars
<1>2. ASSUME Tick \/ (\E p \in Proc, e \in Edit : BeginUpdate(p, e)) \/ UNCHANGED vars
      PROVE  UNCHANGED <<file, committed>>
  BY <1>2 DEF Tick, BeginUpdate, vars, fileVars, histVars
<1>3. ASSUME Garble \/ Repair PROVE file'.edits = file.edits /\ committed' = committed
  BY <1>3 DEF Garble, Repair, histVars, TypeOK
<1> QED
  BY <1>1, <1>2, <1>3 DEF Next

\* Every step of the processes is an edit, an answer or nothing to who looks at the
\* file and the answers, as long as no lock was usurped and no hand edit broke it.
LEMMA StepRefines ==
    ASSUME IInv, IInv', [Next]_vars
    PROVE  [Atomic!Next]_<<Seen(file.edits), Seen(committed), usurped \/ garbles > 0>>
<1>1. TypeOK /\ TypeOK' /\ UpdateSteps
  BY DEF IInv
<1>2. CASE usurped' \/ garbles' > 0
  <2>1. Atomic!Void
    BY <1>2 DEF Atomic!Void
  <2> QED
    BY <2>1 DEF Atomic!Next
<1>3. CASE ~usurped' /\ ~(garbles' > 0)
  <2>1. ~usurped /\ garbles = 0 /\ garbles' = 0
    <3>1. usurped => usurped'
      BY DEF Next, Step, StatFile, ReadFile, TakeLock, LockTaken, NoParent, Probe,
         BreakLock, MutationThrows, Rename, Restamp, Release, BeginRead, BeginUpdate, Crash,
         RemoveLock, Exit, Tick, Garble, Repair, vars, histVars
    <3>2. garbles' = garbles \/ garbles' = garbles + 1
      BY DEF Next, Step, StatFile, ReadFile, TakeLock, LockTaken, NoParent, Probe,
         BreakLock, MutationThrows, Rename, Restamp, Release, BeginRead, BeginUpdate, Crash,
         Exit, Tick, Garble, Repair, vars, boundVars
    <3>3. garbles \in Nat /\ garbles' \in Nat
      BY <1>1, ConstantsAssumption DEF TypeOK
    <3> QED
      BY <1>3, <3>1, <3>2, <3>3
  <2>2. DataInv
    BY <2>1 DEF IInv
  <2>3. (usurped' \/ garbles' > 0) = (usurped \/ garbles > 0)
    BY <1>3, <2>1
  <2>4. ASSUME Seen(file'.edits) = Seen(file.edits), Seen(committed') = Seen(committed)
        PROVE  UNCHANGED <<Seen(file.edits), Seen(committed), usurped \/ garbles > 0>>
    BY <2>3, <2>4 DEF Seen
  <2>5. ASSUME NEW p \in Proc, Rename(p)
        PROVE  [Atomic!Next]_<<Seen(file.edits), Seen(committed), usurped \/ garbles > 0>>
    <3>1. Updating(p) /\ committed' = committed
      BY <1>1, <2>5 DEF UpdateSteps, Rename, histVars
    <3>2. Seen(file'.edits) = Seen(file.edits) \cup Seen({edit[p]})
      BY <1>1, <2>2, <2>5, <3>1, RenameAdds
    <3>3. CASE edit[p] \in Resizing \ Seen(file.edits)
      <4>1. Atomic!Apply(edit[p])
        BY <2>3, <3>1, <3>2, <3>3 DEF Atomic!Apply, Seen
      <4> QED
        BY <3>3, <4>1 DEF Atomic!Next
    <3>4. CASE edit[p] \notin Resizing \ Seen(file.edits)
      BY <2>4, <3>1, <3>2, <3>4 DEF Seen
    <3> QED
      BY <3>3, <3>4
  <2>6. ASSUME NEW p \in Proc, Release(p)
        PROVE  [Atomic!Next]_<<Seen(file.edits), Seen(committed), usurped \/ garbles > 0>>
    <3>1. file' = file /\ committed' = IF settled[p] THEN committed \cup {edit[p]} ELSE committed
      BY <2>6 DEF Release
    <3>2. CASE settled[p] /\ edit[p] \in Resizing
      <4>1. edit[p] \in Seen(file.edits)
        BY <2>2, <3>2 DEF DataInv, ProcInv, SettledInFile, Seen
      <4>2. Atomic!Confirm(edit[p])
        BY <2>3, <3>1, <3>2, <4>1 DEF Atomic!Confirm, Seen
      <4> QED
        BY <3>2, <4>2 DEF Atomic!Next
    <3>3. CASE ~(settled[p] /\ edit[p] \in Resizing)
      BY <2>4, <3>1, <3>3 DEF Seen
    <3> QED
      BY <3>2, <3>3
  <2> QED
    BY <1>1, <2>4, <2>5, <2>6, FileKept
<1> QED
  BY <1>2, <1>3

\* update() implements the atomic edit, for any number of processes and edits, any
\* crashes, timeouts and stale locks.
THEOREM Refinement == Spec => UpdatesAreAtomic
<1>1. Init => Atomic!Init
  BY DEF Init, Atomic!Init
<1>2. IInv /\ IInv' /\ [Next]_vars =>
          [Atomic!Next]_<<file.edits \cap Resizing, committed \cap Resizing,
                          usurped \/ garbles > 0>>
  BY StepRefines DEF Seen
<1> QED
  BY <1>1, <1>2, Invariance, PTL DEF Spec, UpdatesAreAtomic, Atomic!Spec
=============================================================================
