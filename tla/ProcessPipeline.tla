--------------------------- MODULE ProcessPipeline ---------------------------
(***************************************************************************)
(* What a `process` run does to the content tables once it holds the lock  *)
(* (ProcessLock): build the queue (queue.go), run ProcessRepo for each     *)
(* repository (pipeline.go), prune (pruner.go).  Every statement is a step *)
(* of its own, except the revision transaction, which is one.  A worker    *)
(* stands for a run; two workers for a run that was evicted while stalled  *)
(* and its successor.                                                      *)
(***************************************************************************)
EXTENDS ContentStore

CONSTANTS
    Workers,
    MaxArticlesPerRepo,   \* pending_review drafts a repository may have
    MaxArticlesPerRun,    \* 0 = no limit
    KeepTop,              \* MAX_REVISIONS
    MayArchive,           \* whether the scan ever flips is_archived
    Faults                \* what may fail: "crash", "db", "llm"

ASSUME PipelineAssumption ==
    /\ MaxArticlesPerRepo \in Nat
    /\ MaxArticlesPerRun \in Nat
    /\ KeepTop \in Nat
    /\ MayArchive \in BOOLEAN
    /\ Faults \subseteq {"crash", "db", "llm"}

VARIABLE wk   \* worker -> where it is and what it has read

WorkerPC == {"off", "next", "read", "processing", "generated", "inserted",
             "pointed", "awaiting", "deduped", "failed", "pruning"}

Worker == [pc : WorkerPC,
           queue : SUBSET Repos,             \* repositories still to process,
           order : [Repos -> Places],        \* in the order BuildQueue saw
           repo : Repos \cup {NoRepo}, sha : 0..MaxSha,
           body : Bodies \cup {NoBody}, rev : RevIds \cup {NoRev},
           doomed : SUBSET RevIds]           \* rows the pruner is going to delete

Off == [pc |-> "off", queue |-> {}, order |-> [r \in Repos |-> 1], repo |-> NoRepo,
        sha |-> 0, body |-> NoBody, rev |-> NoRev, doomed |-> {}]

PipelineTypeOK == wk \in [Workers -> Worker]

PipelineInit == wk = [w \in Workers |-> Off]

At(w, pc) == wk[w].pc = pc
Goto(w, pc) == wk' = [wk EXCEPT ![w].pc = pc]
FirstOf(S, order) == {r \in S : \A q \in S : order[r] <= order[q]}
\* ProcessRepo returns; the loop goes on with the next repository.
Continue(w) == wk' = [wk EXCEPT ![w] = [Off EXCEPT !.pc = "next", !.queue = wk[w].queue,
                                                  !.order = wk[w].order]]
Stop(w) == wk' = [wk EXCEPT ![w] = Off]

-----------------------------------------------------------------------------
(***************************************************************************)
(* BuildQueue.                                                             *)
(***************************************************************************)
UpToDate(r) ==
    /\ Exists(repos[r].current)
    /\ revs[repos[r].current].sha = repos[r].sha

\* Mutant: <= instead of <.
MutOverCap(r) ==
    /\ ~ repos[r].archived
    /\ ~ UpToDate(r)
    /\ Cardinality(WithStatus(r, "pending_review")) <= MaxArticlesPerRepo

Eligible(r) ==
    /\ ~ repos[r].archived
    /\ ~ UpToDate(r)
    /\ Cardinality(WithStatus(r, "pending_review")) < MaxArticlesPerRepo

\* The first MaxArticlesPerRun eligible repositories in fair order.
BuildQueue ==
    LET candidates == {r \in Repos : Eligible(r)}
        Ahead(r) == {q \in candidates : fair[q] < fair[r]}
    IN IF MaxArticlesPerRun = 0 THEN candidates
       ELSE {r \in candidates : Cardinality(Ahead(r)) < MaxArticlesPerRun}

\* The run has the lock, is past the import and the scan, and builds its queue.
StartRun(w) ==
    /\ At(w, "off")
    /\ wk' = [wk EXCEPT ![w] = [Off EXCEPT !.pc = "next", !.queue = BuildQueue,
                                           !.order = fair]]
    /\ UNCHANGED storeVars

-----------------------------------------------------------------------------
(***************************************************************************)
(* ProcessRepo.                                                            *)
(***************************************************************************)

\* GetByID: the commit sha the revision will be stamped with is read here.
ReadRepo(w) ==
    /\ At(w, "next")
    /\ \E r \in FirstOf(wk[w].queue, wk[w].order) :
        wk' = [wk EXCEPT ![w] = [Off EXCEPT !.pc = "read", !.repo = r, !.sha = repos[r].sha,
                                            !.queue = wk[w].queue \ {r},
                                            !.order = wk[w].order]]
    /\ UNCHANGED storeVars

MarkProcessing(w) ==
    /\ At(w, "read")
    /\ repos' = SetProcessState(wk[w].repo, "processing")
    /\ Goto(w, "processing")
    /\ UNCHANGED <<revs, deleted, fair>>

\* The generator (and the illustration, whose failure is ignored) yields a body.
Generate(w) ==
    /\ At(w, "processing")
    /\ \E b \in Bodies : wk' = [wk EXCEPT ![w].pc = "generated", ![w].body = b]
    /\ UNCHANGED storeVars

GenerateFails(w) ==
    /\ "llm" \in Faults
    /\ At(w, "processing")
    /\ Goto(w, "failed")
    /\ UNCHANGED storeVars

\* runTx, the dedup branch: a row with this fingerprint exists.
Dedup(w) ==
    /\ At(w, "generated")
    /\ FingerprintExists(wk[w].repo, wk[w].body)
    /\ Goto(w, "deduped")
    /\ UNCHANGED storeVars

\* runTx, the insert: version assignment and INSERT in one transaction.
InsertDraft(w) ==
    LET r == wk[w].repo
        v == MaxVersionOf(r) + 1
    IN /\ At(w, "generated")
       /\ ~ FingerprintExists(r, wk[w].body)
       /\ v <= VersionBound
       /\ \E id \in Fresh :
            /\ revs' = Insert(id, NewRow(r, v, "generated", "pending_review",
                                         wk[w].body, wk[w].sha, NoPost, NoRev))
            /\ wk' = [wk EXCEPT ![w].pc = "inserted", ![w].rev = id]
       /\ UNCHANGED <<deleted, repos, fair>>

\* The transaction fails and is rolled back.  "db" includes the unique violation
\* that Postgres reports when a manual edit commits between the transaction's
\* MAX(version) and its INSERT; the model's own id and version bounds end here too.
TxFails(w) ==
    /\ At(w, "generated")
    /\ "db" \in Faults \/ Fresh = {} \/ MaxVersionOf(wk[w].repo) = VersionBound
    /\ Goto(w, "failed")
    /\ UNCHANGED storeVars

\* After a dedup the state is reset and the run goes on.  Neither
\* current_revision_id nor last_processed_at is written.
RevertDeduped(w) ==
    /\ At(w, "deduped")
    /\ repos' = SetProcessState(wk[w].repo, "idle")
    /\ Continue(w)
    /\ UNCHANGED <<revs, deleted, fair>>

\* After a failure the state is reset and the run ends.
RevertFailed(w) ==
    /\ At(w, "failed")
    /\ repos' = SetProcessState(wk[w].repo, "idle")
    /\ Stop(w)
    /\ UNCHANGED <<revs, deleted, fair>>

PointToDraft(w) ==
    /\ At(w, "inserted")
    /\ repos' = SetRevisionPointers(wk[w].repo, wk[w].rev, NoRev)
    /\ Goto(w, "pointed")
    /\ UNCHANGED <<revs, deleted, fair>>

AwaitReview(w) ==
    /\ At(w, "pointed")
    /\ repos' = SetProcessState(wk[w].repo, "awaiting_review")
    /\ Goto(w, "awaiting")
    /\ UNCHANGED <<revs, deleted, fair>>

StampProcessed(w) ==
    /\ At(w, "awaiting")
    /\ fair' = SetLastProcessedAt(wk[w].repo)
    /\ Continue(w)
    /\ UNCHANGED <<revs, deleted, repos>>

-----------------------------------------------------------------------------
(***************************************************************************)
(* Prune, after the last repository.                                       *)
(***************************************************************************)
PruneAll(w) ==
    /\ At(w, "next")
    /\ wk[w].queue = {}
    /\ wk' = [wk EXCEPT ![w] = [Off EXCEPT !.pc = "pruning", !.queue = Repos, !.order = fair]]
    /\ UNCHANGED storeVars

\* ListForRetention of the next repository; the list is not refreshed.
ListDoomed(w) ==
    /\ At(w, "pruning")
    /\ wk[w].doomed = {}
    /\ \E r \in FirstOf(wk[w].queue, wk[w].order) :
        wk' = [wk EXCEPT ![w].queue = @ \ {r}, ![w].doomed = ForRetention(r, KeepTop)]
    /\ UNCHANGED storeVars

\* Rows go newest first, the order of ListAll.
PruneOne(w) ==
    /\ At(w, "pruning")
    /\ \E id \in NewestFirst(wk[w].doomed) :
        /\ ~ Referenced(id)
        /\ deleted' = deleted \cup {id}
        /\ wk' = [wk EXCEPT ![w].doomed = @ \ {id}]
    /\ UNCHANGED <<revs, repos, fair>>

\* A foreign key refuses the DELETE: Prune returns the error, the run aborts.
PruneRefused(w) ==
    /\ At(w, "pruning")
    /\ \E id \in NewestFirst(wk[w].doomed) : Referenced(id)
    /\ Stop(w)
    /\ UNCHANGED storeVars

FinishRun(w) ==
    /\ At(w, "pruning")
    /\ wk[w].queue = {} /\ wk[w].doomed = {}
    /\ Stop(w)
    /\ UNCHANGED storeVars

\* The process dies, or a statement outside the transaction fails and
\* ProcessRepo returns its error: either way the run ends where it was.
AbortRun(w) ==
    /\ {"crash", "db"} \cap Faults # {}
    /\ ~ At(w, "off")
    /\ Stop(w)
    /\ UNCHANGED storeVars

WorkerStep(w) ==
    \/ StartRun(w) \/ ReadRepo(w) \/ MarkProcessing(w)
    \/ Generate(w) \/ GenerateFails(w)
    \/ Dedup(w) \/ InsertDraft(w) \/ TxFails(w)
    \/ RevertDeduped(w) \/ RevertFailed(w)
    \/ PointToDraft(w) \/ AwaitReview(w) \/ StampProcessed(w)
    \/ PruneAll(w) \/ ListDoomed(w) \/ PruneOne(w) \/ PruneRefused(w) \/ FinishRun(w)

\* External: the repository row gets a new head commit, or is archived or not.
\* At this commit ScanOnly returns what it finds and nothing stores it: rows of
\* repositories are written from outside this code, at any time.
Rescan(r) ==
    /\ \/ repos[r].sha < MaxSha /\ repos' = [repos EXCEPT ![r].sha = @ + 1]
       \/ MayArchive /\ repos' = [repos EXCEPT ![r].archived = ~ @]
    /\ UNCHANGED <<revs, deleted, fair>>
=============================================================================
