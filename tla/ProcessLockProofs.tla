-------------------------- MODULE ProcessLockProofs --------------------------
(***************************************************************************)
(* Theorems about the run lock, for any number of runners, runs, and any   *)
(* stale threshold.                                                        *)
(***************************************************************************)
EXTENDS ProcessLock, TLAPS

\* Every reachable state of the lock is well typed: in particular a row only
\* ever has one of the four statuses that models.ProcessRun declares.
THEOREM TypeCorrect == Spec => []TypeOK
<1>1. Init => TypeOK
  BY LockAssumption DEF Init, TypeOK, RunStatus, Ended
<1>2. TypeOK /\ [Next]_vars => TypeOK'
  <2> SUFFICES ASSUME TypeOK, [Next]_vars PROVE TypeOK'
    OBVIOUS
  <2> USE LockAssumption DEF TypeOK, RunStatus, Ended, Live
  <2>1. CASE Tick
    BY <2>1 DEF Tick, IsRunning
  <2>2. ASSUME NEW r \in Runners, Step(r) PROVE TypeOK'
    <3>1. CASE ReclaimStale(r)
      BY <3>1 DEF ReclaimStale, Reclaimed
    <3>2. CASE ReclaimFails(r)
      BY <3>2 DEF ReclaimFails
    <3>3. CASE Acquire(r)
      BY <3>3 DEF Acquire, Inserted, Fresh
    <3>4. CASE AcquireRefused(r)
      BY <3>4 DEF AcquireRefused
    <3>5. CASE Heartbeat(r)
      <4>1. \A i \in RunIds : runs[i] \in [status : RunStatus, age : 0..(StaleAfter + 1)]
        OBVIOUS
      <4>2. runs' = runs \/ runs' = [runs EXCEPT ![held[r]] = [@ EXCEPT !.age = 0]]
        BY <3>5 DEF Heartbeat, Beaten
      <4>3. \A i \in RunIds : [runs[i] EXCEPT !.age = 0]
                              \in [status : RunStatus, age : 0..(StaleAfter + 1)]
        BY <4>1
      <4>4. runs' \in [RunIds -> [status : RunStatus, age : 0..(StaleAfter + 1)]]
        BY <4>2, <4>3
      <4> QED
        BY <3>5, <4>4 DEF Heartbeat
    <3>6. CASE Release(r)
      <4>1. PICK s \in {"finished", "aborted"} : runs' = Finished(runs, held[r], s)
        BY <3>6 DEF Release
      <4>2. runs' = [runs EXCEPT ![held[r]] = [@ EXCEPT !.status = s]]
        BY <4>1 DEF Finished
      <4>3. \A i \in RunIds : [runs[i] EXCEPT !.status = s]
                              \in [status : RunStatus, age : 0..(StaleAfter + 1)]
        BY <4>1
      <4>4. runs' \in [RunIds -> [status : RunStatus, age : 0..(StaleAfter + 1)]]
        BY <4>2, <4>3
      <4> QED
        BY <3>6, <4>4 DEF Release
    <3>7. CASE ReleaseFails(r)
      BY <3>7 DEF ReleaseFails
    <3>8. CASE Cancel(r)
      BY <3>8 DEF Cancel
    <3>9. CASE Crash(r)
      BY <3>9 DEF Crash
    <3> QED
      BY <2>2, <3>1, <3>2, <3>3, <3>4, <3>5, <3>6, <3>7, <3>8, <3>9 DEF Step
  <2>3. CASE UNCHANGED vars
    BY <2>3 DEF vars
  <2> QED
    BY <2>1, <2>2, <2>3 DEF Next
<1> QED
  BY <1>1, <1>2, PTL DEF Spec

-----------------------------------------------------------------------------
\* The inductive invariant: at most one running row, and every working
\* invocation holds its own row, running or evicted.
LockInv == TypeOK /\ SingleActive /\ HoldersOwnTheirRow

\* The partial unique index is enough: although Finish and Heartbeat write
\* rows by id after the owner may have been evicted, no interleaving yields
\* two running rows, and no two working invocations share a row.
THEOREM LockInvariant == Spec => []LockInv
<1>1. Init => LockInv
  BY LockAssumption DEF Init, LockInv, TypeOK, RunStatus, Ended,
     SingleActive, IsRunning, HoldersOwnTheirRow
<1>2. LockInv /\ TypeOK' /\ [Next]_vars => LockInv'
  <2> SUFFICES ASSUME LockInv, TypeOK', [Next]_vars
               PROVE  (SingleActive /\ HoldersOwnTheirRow)'
    BY DEF LockInv
  <2> USE DEF LockInv, TypeOK, SingleActive, HoldersOwnTheirRow, IsRunning
  <2>1. CASE Tick
    BY <2>1 DEF Tick
  <2>2. ASSUME NEW r \in Runners, Step(r)
        PROVE  (SingleActive /\ HoldersOwnTheirRow)'
    <3>1. CASE ReclaimStale(r)
      BY <3>1 DEF ReclaimStale, Reclaimed
    <3>2. CASE ReclaimFails(r)
      BY <3>2 DEF ReclaimFails
    <3>3. CASE Acquire(r)
      <4>1. PICK id \in Fresh : runs' = Inserted(runs, id)
                                /\ held' = [held EXCEPT ![r] = id]
        BY <3>3 DEF Acquire
      <4>2. id \in RunIds /\ runs[id].status = "unused"
        BY <4>1 DEF Fresh
      <4>3. SingleActive'
        BY <3>3, <4>1, <4>2 DEF Acquire, CanInsert, Inserted
      <4>4. HoldersOwnTheirRow'
        BY <3>3, <4>1, <4>2 DEF Acquire, CanInsert, Inserted
      <4> QED
        BY <4>3, <4>4
    <3>4. CASE AcquireRefused(r)
      BY <3>4 DEF AcquireRefused
    <3>5. CASE Heartbeat(r)
      BY <3>5 DEF Heartbeat, Beaten
    <3>6. CASE Release(r)
      <4>1. PICK status \in {"finished", "aborted"} :
                runs' = Finished(runs, held[r], status)
        BY <3>6 DEF Release
      <4> QED
        BY <3>6, <4>1 DEF Release, Finished
    <3>7. CASE ReleaseFails(r)
      BY <3>7 DEF ReleaseFails
    <3>8. CASE Cancel(r)
      BY <3>8 DEF Cancel
    <3>9. CASE Crash(r)
      BY <3>9 DEF Crash
    <3> QED
      BY <2>2, <3>1, <3>2, <3>3, <3>4, <3>5, <3>6, <3>7, <3>8, <3>9 DEF Step
  <2>3. CASE UNCHANGED vars
    BY <2>3 DEF vars
  <2> QED
    BY <2>1, <2>2, <2>3 DEF Next
<1> QED
  BY <1>1, <1>2, TypeCorrect, PTL DEF Spec

\* At most one row of process_runs is running, always.
THEOREM AlwaysSingleActive == Spec => []SingleActive
<1>1. LockInv => SingleActive
  BY DEF LockInv
<1> QED
  BY <1>1, LockInvariant, PTL

-----------------------------------------------------------------------------
\* Of the runners that still have the lock there is one.
LEMMA OneUnevicted == LockInv => \A r, q \in Unevicted : r = q
BY DEF LockInv, SingleActive, HoldersOwnTheirRow, Unevicted

\* If nobody is let in, the one who had the lock keeps it or leaves.
LEMMA NobodyEnters ==
    ASSUME LockInv, Unevicted' \subseteq Unevicted
    PROVE  [Turns!Next]_Unevicted
<1>1. CASE Unevicted' = Unevicted
  BY <1>1
<1>2. CASE Unevicted' # Unevicted
  <2>1. PICK r \in Runners : r \in Unevicted /\ r \notin Unevicted'
    BY <1>2 DEF Unevicted
  <2>2. Unevicted = {r} /\ Unevicted' = {}
    BY <2>1, OneUnevicted
  <2> QED
    BY <2>1, <2>2 DEF Turns!Next, Turns!Leave
<1> QED
  BY <1>1, <1>2

\* A step of the lock lets somebody in, lets somebody go, or neither.
LEMMA TurnsStep == LockInv /\ [Next]_vars => [Turns!Next]_Unevicted
<1> SUFFICES ASSUME LockInv, [Next]_vars PROVE [Turns!Next]_Unevicted
  OBVIOUS
<1>1. CASE Tick
  <2>1. Unevicted' \subseteq Unevicted
    BY <1>1 DEF Tick, Unevicted, IsRunning, LockInv, TypeOK, HoldersOwnTheirRow
  <2> QED
    BY <2>1, NobodyEnters
<1>2. ASSUME NEW r \in Runners, Step(r) PROVE [Turns!Next]_Unevicted
  <2>1. CASE Acquire(r)
    <3>1. Unevicted = {}
      BY <2>1 DEF Acquire, CanInsert, Unevicted, LockInv, HoldersOwnTheirRow
    <3>2. PICK id \in Fresh : runs' = Inserted(runs, id) /\ held' = [held EXCEPT ![r] = id]
      BY <2>1 DEF Acquire
    <3>3. r \in Unevicted'
      BY <2>1, <3>2 DEF Acquire, Unevicted, Inserted, Fresh, IsRunning, LockInv, TypeOK
    <3>4. ASSUME NEW q \in Runners, q # r, q \in Unevicted' PROVE FALSE
      <4>1. pc[q] = "working" /\ held'[q] = held[q] /\ runs'[held[q]].status = "running"
        BY <2>1, <3>2, <3>4 DEF Acquire, Unevicted, IsRunning, LockInv, TypeOK
      <4>2. held[q] \in RunIds /\ runs[held[q]].status = "crashed"
        BY <2>1, <4>1 DEF Acquire, CanInsert, IsRunning, LockInv, HoldersOwnTheirRow
      <4>3. held[q] # id
        BY <4>2 DEF Fresh
      <4> QED
        BY <3>2, <4>1, <4>2, <4>3 DEF Inserted
    <3>5. Unevicted' = {r}
      BY <3>3, <3>4 DEF Unevicted
    <3> QED
      BY <3>1, <3>5 DEF Turns!Next, Turns!Enter
  <2>2. ASSUME ~Acquire(r) PROVE Unevicted' \subseteq Unevicted
    <3> SUFFICES ASSUME NEW q \in Runners, q \in Unevicted' PROVE q \in Unevicted
      BY DEF Unevicted
    <3> USE DEF Unevicted, IsRunning, LockInv, TypeOK, HoldersOwnTheirRow
    <3>1. CASE ReclaimStale(r)
      BY <3>1 DEF ReclaimStale, Reclaimed
    <3>2. CASE Heartbeat(r)
      BY <3>2 DEF Heartbeat, Beaten
    <3>3. CASE Release(r)
      <4>1. PICK status \in {"finished", "aborted"} : runs' = Finished(runs, held[r], status)
        BY <3>3 DEF Release
      <4> QED
        BY <3>3, <4>1 DEF Release, Finished
    <3>4. CASE ReclaimFails(r)
      BY <3>4 DEF ReclaimFails
    <3>5. CASE AcquireRefused(r) \/ ReleaseFails(r) \/ Cancel(r) \/ Crash(r)
      BY <3>5 DEF AcquireRefused, ReleaseFails, Cancel, Crash
    <3> QED
      BY <1>2, <2>2, <3>1, <3>2, <3>3, <3>4, <3>5 DEF Step
  <2> QED
    BY <2>1, <2>2, NobodyEnters
<1>3. CASE UNCHANGED vars
  BY <1>3 DEF vars, Unevicted, IsRunning
<1> QED
  BY <1>1, <1>2, <1>3 DEF Next

\* However long runners stall, those that still have the lock take turns: the
\* lock implements ExclusiveRun for the runners it has not declared crashed.
THEOREM RunsTakeTurns == Spec => WorkersTakeTurns
<1>1. Init => Turns!Init
  BY DEF Init, Turns!Init, Unevicted
<1> QED
  BY <1>1, TurnsStep, LockInvariant, PTL DEF Spec, WorkersTakeTurns, Turns!Spec

-----------------------------------------------------------------------------
\* While runners keep within the threshold, no working row is ever stale.
NeverEvicted ==
    \A r \in Runners : pc[r] = "working" =>
        IsRunning(held[r]) /\ runs[held[r]].age <= StaleAfter

\* A live runner that is never late by more than StaleAfter keeps its row.
LEMMA TimelyNeverEvicted == MaxLag <= StaleAfter => (Spec => []NeverEvicted)
<1> SUFFICES ASSUME MaxLag <= StaleAfter PROVE Spec => []NeverEvicted
  OBVIOUS
<1>1. Init => NeverEvicted
  BY DEF Init, NeverEvicted
<1>2. NeverEvicted /\ LockInv /\ LockInv' /\ [Next]_vars => NeverEvicted'
  <2> SUFFICES ASSUME NeverEvicted, LockInv, LockInv', [Next]_vars
               PROVE  NeverEvicted'
    OBVIOUS
  <2> USE LockAssumption DEF NeverEvicted, LockInv, TypeOK, SingleActive,
          HoldersOwnTheirRow, IsRunning
  <2>1. CASE Tick
    BY <2>1 DEF Tick, Timely
  <2>2. ASSUME NEW r \in Runners, Step(r) PROVE NeverEvicted'
    <3>1. CASE ReclaimStale(r)
      BY <3>1 DEF ReclaimStale, Reclaimed
    <3>2. CASE ReclaimFails(r)
      BY <3>2 DEF ReclaimFails
    <3>3. CASE Acquire(r)
      BY <3>3 DEF Acquire, CanInsert, Inserted, Fresh
    <3>4. CASE AcquireRefused(r)
      BY <3>4 DEF AcquireRefused
    <3>5. CASE Heartbeat(r)
      BY <3>5 DEF Heartbeat, Beaten
    <3>6. CASE Release(r)
      <4>1. PICK status \in {"finished", "aborted"} :
                runs' = Finished(runs, held[r], status)
        BY <3>6 DEF Release
      <4> QED
        BY <3>6, <4>1 DEF Release, Finished
    <3>7. CASE ReleaseFails(r)
      BY <3>7 DEF ReleaseFails
    <3>8. CASE Cancel(r)
      BY <3>8 DEF Cancel
    <3>9. CASE Crash(r)
      BY <3>9 DEF Crash
    <3> QED
      BY <2>2, <3>1, <3>2, <3>3, <3>4, <3>5, <3>6, <3>7, <3>8, <3>9 DEF Step
  <2>3. CASE UNCHANGED vars
    BY <2>3 DEF vars
  <2> QED
    BY <2>1, <2>2, <2>3 DEF Next
<1> QED
  BY <1>1, <1>2, LockInvariant, PTL DEF Spec

\* If a live runner is never late by more than StaleAfter, two invocations
\* never overlap: the documented guarantee, with the condition it needs.
THEOREM TimelyNoOverlap == MaxLag <= StaleAfter => (Spec => []NoOverlap)
<1> SUFFICES ASSUME MaxLag <= StaleAfter PROVE Spec => []NoOverlap
  OBVIOUS
<1>1. NeverEvicted /\ LockInv => NoOverlap
  BY DEF NeverEvicted, LockInv, SingleActive, HoldersOwnTheirRow, NoOverlap
<1> QED
  BY <1>1, TimelyNeverEvicted, LockInvariant, PTL

Working == {r \in Runners : pc[r] = "working"}

Runs == INSTANCE ExclusiveRun WITH Actors <- Runners, inside <- Working

\* Under the same condition all invocations of `process` take turns: what
\* runProcess does from Acquire to Release can be read as the work of one
\* process at a time.
THEOREM TimelyRunsTakeTurns == MaxLag <= StaleAfter => (Spec => Runs!Spec)
<1> SUFFICES ASSUME MaxLag <= StaleAfter PROVE Spec => Runs!Spec
  OBVIOUS
<1>1. Init => Runs!Init
  BY DEF Init, Runs!Init, Working
<1>2. NeverEvicted => Working = Unevicted
  BY DEF NeverEvicted, Working, Unevicted
<1>3. LockInv /\ NeverEvicted /\ NeverEvicted' /\ [Next]_vars => [Runs!Next]_Working
  <2> SUFFICES ASSUME LockInv, NeverEvicted, NeverEvicted', [Next]_vars
               PROVE  [Runs!Next]_Working
    OBVIOUS
  <2>1. Working = Unevicted /\ Working' = Unevicted'
    BY <1>2 DEF NeverEvicted, Working, Unevicted, IsRunning
  <2> QED
    BY <2>1, TurnsStep
       DEF Turns!Next, Turns!Enter, Turns!Leave, Runs!Next, Runs!Enter, Runs!Leave
<1> QED
  BY <1>1, <1>3, TimelyNeverEvicted, LockInvariant, PTL DEF Spec, Runs!Spec

-----------------------------------------------------------------------------
\* An invocation that works holds a row of its own, which says running, or
\* crashed once another invocation has reclaimed it: no two workers ever write
\* heartbeats and final statuses to one row.
THEOREM HeldRowsAreOwned == Spec => []HoldersOwnTheirRow
<1>1. LockInv => HoldersOwnTheirRow
  BY DEF LockInv
<1> QED
  BY <1>1, LockInvariant, PTL

-----------------------------------------------------------------------------
\* A row that left 'running' never returns to it, so a run reclaimed as
\* crashed cannot take the lock back from its successor.
THEOREM EndedIsFinal == Spec => EndedStaysEnded
<1>1. LockInv /\ [Next]_vars =>
        [\A id \in RunIds :
            runs[id].status \notin {"unused", "running"} => ~ IsRunning(id)']_vars
  <2> SUFFICES ASSUME LockInv, [Next]_vars, NEW id \in RunIds,
                      runs[id].status \notin {"unused", "running"}
               PROVE  ~ IsRunning(id)'
    OBVIOUS
  <2> USE DEF LockInv, TypeOK, HoldersOwnTheirRow, IsRunning
  <2>1. CASE Tick
    BY <2>1 DEF Tick
  <2>2. ASSUME NEW r \in Runners, Step(r) PROVE ~ IsRunning(id)'
    <3>1. CASE ReclaimStale(r)
      BY <3>1 DEF ReclaimStale, Reclaimed
    <3>2. CASE Acquire(r)
      BY <3>2 DEF Acquire, Inserted, Fresh
    <3>3. CASE Heartbeat(r)
      BY <3>3 DEF Heartbeat, Beaten
    <3>4. CASE Release(r)
      BY <3>4 DEF Release, Finished
    <3>5. CASE UNCHANGED runs
      BY <3>5
    <3> QED
      BY <2>2, <3>1, <3>2, <3>3, <3>4, <3>5
         DEF Step, ReclaimFails, AcquireRefused, ReleaseFails, Cancel, Crash
  <2>3. CASE UNCHANGED vars
    BY <2>3 DEF vars
  <2> QED
    BY <2>1, <2>2, <2>3 DEF Next
<1> QED
  BY <1>1, LockInvariant, PTL DEF Spec, EndedStaysEnded
=============================================================================
