----------------------------- MODULE ProcessLock -----------------------------
(***************************************************************************)
(* The single-runner lock of the `process` command: the process_runs table *)
(* (internal/database/process_runs.go), the Runner that wraps it           *)
(* (internal/services/process/runner.go) and the lock's life inside        *)
(* runProcess (cmd/cli/process.go): reclaim stale rows, insert the running *)
(* row, heartbeat while working, finish the row on every way out.          *)
(*                                                                         *)
(* Time is discrete.  A row stores the age of its heartbeat instead of the *)
(* heartbeat's timestamp; ages stop counting at StaleAfter + 1, the first  *)
(* age at which `heartbeat_at < now - staleAfter` holds, because nothing   *)
(* distinguishes larger ones.                                              *)
(***************************************************************************)
EXTENDS Naturals, FiniteSets

CONSTANTS
    Runners,     \* slots for invocations of `process`; a slot is reused
    RunIds,      \* uuids the runs can get: bounds the rows of process_runs
    NoRun,       \* r.run = nil
    StaleAfter,  \* RunnerDeps.StaleAfter, in ticks
    MaxLag       \* a live runner heartbeats or returns within MaxLag ticks

ASSUME LockAssumption ==
    /\ StaleAfter \in Nat
    /\ MaxLag \in Nat \ {0}
    /\ NoRun \notin RunIds

VARIABLES
    runs,       \* process_runs: id -> [status, age]
    pc,         \* where each invocation is in runProcess
    held,       \* Runner.run.ID of each invocation
    cancelled   \* the invocation's context is cancelled

vars == <<runs, pc, held, cancelled>>

Ended == {"idle", "returned", "crashed"}
Live == {"reclaimed", "working"}
RunStatus == {"unused", "running", "finished", "aborted", "crashed"}

IsRunning(id) == runs[id].status = "running"

\* Mutant of Fresh: the id of an ended run is handed out again.
MutIdsReused == {id \in RunIds : ~ IsRunning(id)}

\* uuid.NewString(): an id that no row has had.
Fresh == {id \in RunIds : runs[id].status = "unused"}

TypeOK ==
    /\ runs \in [RunIds -> [status : RunStatus, age : 0..(StaleAfter + 1)]]
    /\ pc \in [Runners -> Ended \cup Live]
    /\ held \in [Runners -> RunIds \cup {NoRun}]
    /\ cancelled \in [Runners -> BOOLEAN]

Init ==
    /\ runs = [id \in RunIds |-> [status |-> "unused", age |-> 0]]
    /\ pc = [r \in Runners |-> "idle"]
    /\ held = [r \in Runners |-> NoRun]
    /\ cancelled = [r \in Runners |-> FALSE]

-----------------------------------------------------------------------------
(***************************************************************************)
(* The store's statements, each one atomic UPDATE or INSERT.               *)
(***************************************************************************)

\* Mutant of Reclaimed: a reclaim that does nothing.
MutReclaimsNothing(rows) == rows

\* UPDATE ... SET status='crashed' WHERE status='running' AND heartbeat_at < cutoff
Reclaimed(rows) ==
    [id \in RunIds |->
        IF rows[id].status = "running" /\ rows[id].age > StaleAfter
        THEN [rows[id] EXCEPT !.status = "crashed"]
        ELSE rows[id]]

\* Mutant of Beaten: the heartbeat upserts the row without the status predicate.
MutHeartbeatRevives(rows, id) ==
    [rows EXCEPT ![id] = [status |-> "running", age |-> 0]]

\* UPDATE ... SET heartbeat_at=now WHERE id=? AND status='running'
Beaten(rows, id) ==
    IF rows[id].status = "running"
    THEN [rows EXCEPT ![id].age = 0]
    ELSE rows

\* Mutant of CanInsert: the partial unique index is missing.
MutNoUniqueIndex == TRUE

\* INSERT of a running row, accepted by the index only if no row is running.
CanInsert == \A id \in RunIds : ~ IsRunning(id)
Inserted(rows, id) == [rows EXCEPT ![id] = [status |-> "running", age |-> 0]]

\* Mutant of Finished: an aborted run is stored under a status nobody knows.
MutUnknownStatus(rows, id, status) ==
    [rows EXCEPT ![id].status = IF status = "aborted" THEN "failed" ELSE status]

\* UPDATE ... SET status=? WHERE id=?: no predicate on the current status.
Finished(rows, id, status) == [rows EXCEPT ![id].status = status]

-----------------------------------------------------------------------------
(***************************************************************************)
(* One invocation of runProcess.                                           *)
(***************************************************************************)

\* A new invocation begins by reclaiming the rows a crash left behind.
ReclaimStale(r) ==
    /\ pc[r] \in Ended
    /\ runs' = Reclaimed(runs)
    /\ pc' = [pc EXCEPT ![r] = "reclaimed"]
    /\ held' = [held EXCEPT ![r] = NoRun]
    /\ cancelled' = [cancelled EXCEPT ![r] = FALSE]

\* The reclaim statement fails (or a cron tick fires on a cancelled context):
\* runProcess returns before it tried to lock.
ReclaimFails(r) ==
    /\ pc[r] \in Ended
    /\ pc' = [pc EXCEPT ![r] = "returned"]
    /\ held' = [held EXCEPT ![r] = NoRun]
    /\ UNCHANGED <<runs, cancelled>>

\* The INSERT succeeds; StartHeartbeat follows at once.
Acquire(r) ==
    /\ pc[r] = "reclaimed"
    /\ ~ cancelled[r]
    /\ CanInsert
    /\ \E id \in Fresh :
        /\ runs' = Inserted(runs, id)
        /\ held' = [held EXCEPT ![r] = id]
    /\ pc' = [pc EXCEPT ![r] = "working"]
    /\ UNCHANGED cancelled

\* ErrAlreadyRunning (exit 0) or a driver error: return without a row.
AcquireRefused(r) ==
    /\ pc[r] = "reclaimed"
    /\ pc' = [pc EXCEPT ![r] = "returned"]
    /\ UNCHANGED <<runs, held, cancelled>>

\* The heartbeat goroutine's ticker fires; it has exited if ctx is done.
Heartbeat(r) ==
    /\ pc[r] = "working"
    /\ ~ cancelled[r]
    /\ runs' = Beaten(runs, held[r])
    /\ UNCHANGED <<pc, held, cancelled>>

\* releaseWith("") after the prune, or releaseWith(err.Error()) on an error
\* path; then runProcess returns and stopHB ends the heartbeat.
Release(r) ==
    /\ pc[r] = "working"
    /\ ~ cancelled[r]
    /\ \E status \in {"finished", "aborted"} :
        runs' = Finished(runs, held[r], status)
    /\ pc' = [pc EXCEPT ![r] = "returned"]
    /\ UNCHANGED <<held, cancelled>>

\* Release itself fails: every statement on a cancelled context does, and so
\* may any other.  Its error is dropped (`_ = releaseWith(...)`) or returned.
ReleaseFails(r) ==
    /\ pc[r] = "working"
    /\ pc' = [pc EXCEPT ![r] = "returned"]
    /\ UNCHANGED <<runs, held, cancelled>>

\* SIGINT/SIGTERM in scheduled mode cancels the context of the running tick.
Cancel(r) ==
    /\ pc[r] \in Live
    /\ ~ cancelled[r]
    /\ cancelled' = [cancelled EXCEPT ![r] = TRUE]
    /\ UNCHANGED <<runs, pc, held>>

\* The process dies.
Crash(r) ==
    /\ pc[r] \in Live
    /\ pc' = [pc EXCEPT ![r] = "crashed"]
    /\ UNCHANGED <<runs, held, cancelled>>

\* One unit of time.  A live runner is late by at most MaxLag: its heartbeat
\* goroutine runs, or it returns, before its row's age reaches MaxLag + 1.
Timely == \A r \in Runners :
            pc[r] = "working" /\ IsRunning(held[r]) => runs[held[r]].age < MaxLag

Tick ==
    /\ Timely
    /\ \E id \in RunIds : IsRunning(id) /\ runs[id].age <= StaleAfter
    /\ runs' = [id \in RunIds |->
                    IF IsRunning(id) /\ runs[id].age <= StaleAfter
                    THEN [runs[id] EXCEPT !.age = @ + 1]
                    ELSE runs[id]]
    /\ UNCHANGED <<pc, held, cancelled>>

Step(r) ==
    \/ ReclaimStale(r) \/ ReclaimFails(r)
    \/ Acquire(r) \/ AcquireRefused(r)
    \/ Heartbeat(r)
    \/ Release(r) \/ ReleaseFails(r)
    \/ Cancel(r) \/ Crash(r)

Next == Tick \/ \E r \in Runners : Step(r)

Spec == Init /\ [][Next]_vars

\* Time passes, `process` is invoked again and again and the database does
\* not refuse the reclaim forever, and an invocation that works ends (every
\* call it makes has a timeout).  Nothing makes a crash or a cancel happen.
Fairness ==
    /\ WF_vars(Tick)
    /\ \A r \in Runners :
        /\ SF_vars(ReclaimStale(r))
        /\ WF_vars(AcquireRefused(r) \/ Acquire(r))
        /\ WF_vars(Release(r) \/ ReleaseFails(r))

FairSpec == Spec /\ Fairness

-----------------------------------------------------------------------------
(***************************************************************************)
(* Properties.                                                             *)
(***************************************************************************)

\* process_runs never holds two running rows, whatever reclaims, crashes and
\* late releases interleave (idx_process_runs_single_active is only consulted
\* by Acquire, yet Finish and Heartbeat also write rows they do not own any
\* more).
SingleActive ==
    \A i, j \in RunIds : IsRunning(i) /\ IsRunning(j) => i = j

\* An invocation that is past Acquire owns a row of its own, and that row is
\* running unless another invocation reclaimed it as stale.
HoldersOwnTheirRow ==
    \A r \in Runners : pc[r] = "working" =>
        /\ held[r] \in RunIds
        /\ runs[held[r]].status \in {"running", "crashed"}
        /\ \A q \in Runners \ {r} : pc[q] = "working" => held[q] # held[r]

\* Of the invocations doing work at one time, at most one has not been
\* evicted: the lock is only ever shared with runners it declared crashed.
Unevicted == {r \in Runners : pc[r] = "working" /\ IsRunning(held[r])}

Turns == INSTANCE ExclusiveRun WITH Actors <- Runners, inside <- Unevicted

\* They take turns: one begins when no other is left, whether it returned,
\* crashed or was evicted, and no late write lets an evicted one back in
\* (Acquire, Release and the heartbeat of runner.go).
WorkersTakeTurns == Turns!Spec

\* "two concurrent invocations never overlap" (docs/guides/configuration.md):
\* true while no runner is late by more than StaleAfter, false otherwise,
\* since a reclaimed runner is never told and goes on working.
NoOverlap ==
    \A r, q \in Runners : pc[r] = "working" /\ pc[q] = "working" => r = q

\* A row that left 'running' is never running again: a late heartbeat of an
\* evicted runner does not revive it.
EndedStaysEnded ==
    [][\A id \in RunIds :
        runs[id].status \notin {"unused", "running"} => ~ IsRunning(id)']_vars

\* A crash, or a release that failed, does not hold the lock forever: a
\* running row that no live invocation works under is eventually reclaimed.
Orphaned(id) ==
    /\ IsRunning(id)
    /\ \A r \in Runners : pc[r] = "working" => held[r] # id

OrphanReclaimed == \A id \in RunIds : Orphaned(id) ~> ~ IsRunning(id)
=============================================================================
