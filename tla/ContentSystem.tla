---------------------------- MODULE ContentSystem ----------------------------
(***************************************************************************)
(* The content workflow as a whole: `process` runs, `publish` runs, preview *)
(* requests, the repositories' history and the Patreon site, all over one  *)
(* database without a lock in common.                                      *)
(***************************************************************************)
EXTENDS ProcessPipeline, PatreonPublisher, PreviewReview

vars == <<storeVars, wk, publishVars, req>>

TypeOK == StoreTypeOK /\ PipelineTypeOK /\ PublisherTypeOK /\ ReviewTypeOK

Init == StoreInit /\ PipelineInit /\ PublisherInit /\ ReviewInit

Process(w) == (WorkerStep(w) \/ AbortRun(w)) /\ UNCHANGED <<publishVars, req>>
Publish(p) == (PublisherStep(p) \/ CrashPublish(p)) /\ UNCHANGED <<wk, req>>
Review(v) == ReviewerStep(v) /\ UNCHANGED <<wk, publishVars>>
Scan(r) == Rescan(r) /\ UNCHANGED <<wk, publishVars, req>>
Site == SiteEdit /\ UNCHANGED <<wk, req>>

Next ==
    \/ \E w \in Workers : Process(w)
    \/ \E p \in Publishers : Publish(p)
    \/ \E v \in Reviewers : Review(v)
    \/ \E r \in Repos : Scan(r)
    \/ Site

Spec == Init /\ [][Next]_vars

\* `process` and `publish` are run again and again (the scheduler, cron) and
\* a run that is not killed goes on; people and the site owe nothing.
Fairness ==
    /\ \A w \in Workers : WF_vars(WorkerStep(w) /\ UNCHANGED <<publishVars, req>>)
    /\ \A p \in Publishers : WF_vars(PublisherStep(p) /\ UNCHANGED <<wk, req>>)

FairSpec == Spec /\ Fairness

-----------------------------------------------------------------------------
(***************************************************************************)
(* Properties.                                                             *)
(***************************************************************************)

\* Drafts wait for a human: what `publish` wrote to a Patreon post is always
\* the body of a revision that was approved (a superseded one was approved
\* before), whichever way approvals, rejections, sweeps and the publisher's
\* stale reads interleave.
ReviewGate ==
    \A x \in PostIds : posts[x].by # NoRev =>
        revs[posts[x].by].status \in {"approved", "superseded"}

\* content_revisions is append-only: after the INSERT only the status, along
\* the forward-only graph, and the published marks change.
AppendOnly ==
    [][\A id \in RevIds : Used(id) =>
        /\ revs'[id].repo = revs[id].repo /\ revs'[id].version = revs[id].version
        /\ revs'[id].source = revs[id].source /\ revs'[id].body = revs[id].body
        /\ revs'[id].sha = revs[id].sha /\ revs'[id].from = revs[id].from
        /\ revs'[id].status = revs[id].status \/ Legal(revs[id].status, revs'[id].status)
        /\ revs[id].live => revs'[id].live]_vars

\* No automatic step buries an unreviewed draft: pending_review only ever
\* becomes approved or rejected (design, revision invariant 3).
DraftsNeverBuried ==
    [][\A id \in RevIds : Used(id) /\ revs[id].status = "pending_review" =>
        revs'[id].status \in {"pending_review", "approved", "rejected"}]_vars

\* MAX(version)+1 never hands a number out again, though rows are pruned.  Only a
\* number that was read before the row it went to was written and pruned may come
\* back: that of an edit or a drift import, which read and insert in two statements.
Reuses(j, i) == i \in deleted /\ revs[j].source # "generated"
VersionsNeverReused ==
    \A i, j \in RevIds :
        /\ Used(i) /\ Used(j) /\ i # j
        /\ revs[i].repo = revs[j].repo /\ revs[i].version = revs[j].version
        => Reuses(i, j) \/ Reuses(j, i)

\* The pruner never deletes the revision a Patreon post shows ("Revisions that
\* ever reached Patreon ... are pinned").
ShownNeverPruned == \A x \in PostIds : posts[x].by \notin deleted

\* The database agrees with Patreon: unless a publisher is at work on the
\* repository, the post of its published revision exists and shows that
\* revision's body, or what the site made of it since.
LiveMatches ==
    \A r \in Repos : LET id == repos[r].published IN
        id # NoRev /\ (\A p \in Publishers : pub[p].repo # r) =>
            /\ Exists(id)
            /\ revs[id].post \in PostIds
            /\ \/ posts[revs[id].post].by = NoRev
               \/ posts[revs[id].post].body = revs[id].body

\* A repository has at most one Patreon post.
OnePostPerRepo ==
    \A x, y \in PostIds : posts[x].repo # NoRepo /\ posts[x].repo = posts[y].repo => x = y

\* "The system will never silently merge or clobber an external edit"
\* (docs/KNOWN-ISSUES.md): what a creator wrote on the site is on record as some
\* revision's body when a publisher overwrites it.
EditsOnRecord ==
    [][\A x \in PostIds :
        /\ posts[x].by = NoRev /\ posts[x].body # NoBody
        /\ posts'[x].by # NoRev
        => \E id \in RevIds : Used(id) /\ revs[id].body = posts[x].body]_vars

\* `process` has at most MAX_ARTICLES_PER_REPO drafts of its own under review, though
\* the count it checks is old when it inserts; one more for each run that overlaps
\* (an evicted run goes on beside its successors).
DraftCap ==
    \A r \in Repos :
        Cardinality({id \in WithStatus(r, "pending_review") : revs[id].source = "generated"})
            < MaxArticlesPerRepo + Cardinality(Workers)

\* The pruner works from a list that is stale when it deletes, possibly beside
\* another run's pruner, and still leaves KeepTop newer rows alone.
NewestAreKept ==
    \A d \in deleted :
        Cardinality({j \in RowsOf(revs[d].repo) : revs[j].version > revs[d].version})
            >= KeepTop

\* An approved revision goes live, unless the repository is halted by drift or a
\* revision at least as new is live in its place.  The last case includes an older
\* draft that is approved late: `publish` looks at the newest approved revision only
\* and finds it live, so the older one stays approved for ever.
ApprovedGoesLive ==
    \A id \in RevIds, r \in Repos :
        id \in WithStatus(r, "approved") ~>
            \/ Used(id) /\ revs[id].status = "superseded"
            \/ /\ Exists(repos[r].published) /\ Used(id)
               /\ revs[repos[r].published].version >= revs[id].version
            \/ repos[r].state = "patreon_drift_detected"

-----------------------------------------------------------------------------
(***************************************************************************)
(* The inductive invariant behind ReviewGate, AppendOnly and               *)
(* DraftsNeverBuried: what the actors' stale reads still guarantee.        *)
(***************************************************************************)
Decided == {"approved", "superseded"}

\* A worker past GetByID has a repository.
WorkersHaveARepo ==
    \A w \in Workers : wk[w].pc \notin {"off", "next", "pruning"} => wk[w].repo \in Repos

\* A publisher's target was approved when it was read, and approval is never
\* taken back.
TargetsAreDecided ==
    \A p \in Publishers : pub[p].pc \notin {"off", "next"} =>
        /\ pub[p].repo \in Repos
        /\ pub[p].target \in RevIds
        /\ revs[pub[p].target].status \in Decided
        /\ pub[p].pc = "import" => pub[p].version > 0

\* A decision in flight was read on a pending draft; a sweep asks only rows it
\* saw approved to be superseded, and they have not become drafts again.
RequestsAreSound ==
    \A v \in Reviewers :
        /\ req[v].pc \in {"create", "ours", "list", "theirs", "resume"} => req[v].repo \in Repos
        /\ req[v].pc = "create" => req[v].version > 0
        /\ req[v].pc = "decide" =>
            /\ req[v].rev \in RevIds
            /\ req[v].seen = "pending_review"
            /\ req[v].new \in {"approved", "rejected"}
        /\ \A id \in RevIds :
            /\ req[v].todo[id] \in {"none", "superseded", "rejected"}
            /\ req[v].todo[id] = "superseded" => revs[id].status \in Decided

GateInv ==
    /\ TypeOK
    /\ WorkersHaveARepo /\ TargetsAreDecided /\ RequestsAreSound
    /\ ReviewGate
=============================================================================
