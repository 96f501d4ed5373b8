---------------------------- MODULE ContentProofs ----------------------------
(***************************************************************************)
(* Theorems about the content workflow, for any number of repositories,    *)
(* revisions, process runs, publishers and reviewers, every fault allowed; *)
(* only what is said of Patreon at the end (from OnePublisher on) is for   *)
(* one `publish` at a time whose bookkeeping does not fail.                *)
(***************************************************************************)
EXTENDS ContentSystem, FiniteSetTheorems, TLAPS

-----------------------------------------------------------------------------
(***************************************************************************)
(* What the statements of the store return.                                *)
(***************************************************************************)
Table == [RevIds -> Revision \cup {Unused}]

\* MaxVersion is a version number or 0.
LEMMA MaxVersionType ==
    ASSUME NEW r PROVE MaxVersionOf(r) \in 0..VersionBound
<1> DEFINE reached == {n \in 1..VersionBound : \E id \in RowsOf(r) : n <= revs[id].version}
<1>1. IsFiniteSet(1..VersionBound) /\ Cardinality(1..VersionBound) = VersionBound
  BY StoreAssumption, FS_Interval
<1>2. reached \subseteq 1..VersionBound
  OBVIOUS
<1>3. IsFiniteSet(reached) /\ Cardinality(reached) <= Cardinality(1..VersionBound)
  BY <1>1, <1>2, FS_Subset
<1>4. Cardinality(reached) \in Nat
  BY <1>3, FS_CardinalityType
<1> QED
  BY <1>1, <1>3, <1>4, StoreAssumption DEF MaxVersionOf

\* The number of repositories is positive.
LEMMA PlacesType == Cardinality(Repos) \in Nat \ {0}
  BY StoreAssumption, FS_CardinalityType, FS_EmptySet

\* A row whose status is set is a revision.
LEMMA UsedIsRevision ==
    ASSUME revs \in Table, NEW id \in RevIds, Used(id) PROVE revs[id] \in Revision
  BY DEF Table, Used, Unused

\* Create.
LEMMA InsertType ==
    ASSUME revs \in Table, NEW id \in RevIds, NEW row \in Revision
    PROVE Insert(id, row) \in Table
  BY DEF Insert, Table

\* The row a caller builds for Create.
LEMMA NewRowType ==
    ASSUME NEW r \in Repos, NEW v \in 1..VersionBound, NEW source \in Source,
           NEW status \in Status, NEW body \in Bodies \cup {NoBody},
           NEW sha \in 0..MaxSha, NEW post \in PostIds \cup {EmptyPost, NoPost},
           NEW from \in RevIds \cup {NoRev}
    PROVE NewRow(r, v, source, status, body, sha, post, from) \in Revision
  BY DEF NewRow, Revision

\* UpdateStatus.
LEMMA CASType ==
    ASSUME revs \in Table, NEW id, NEW seen, NEW new \in Status
    PROVE CASStatus(id, seen, new) \in Table
<1>1. CASE Exists(id)
  <2>1. id \in RevIds /\ revs[id] \in Revision
    BY <1>1, UsedIsRevision DEF Exists
  <2>2. [revs[id] EXCEPT !.status = new] \in Revision
    BY <2>1 DEF Revision
  <2> QED
    BY <2>1, <2>2 DEF CASStatus, Table
<1> QED
  BY <1>1 DEF CASStatus

\* MarkPublished.
LEMMA MarkType ==
    ASSUME revs \in Table, NEW id, NEW post \in PostIds \cup {EmptyPost, NoPost}
    PROVE MarkPublished(id, post) \in Table
<1>1. CASE Exists(id)
  <2>1. id \in RevIds /\ revs[id] \in Revision
    BY <1>1, UsedIsRevision DEF Exists
  <2>2. [revs[id] EXCEPT !.post = post, !.live = TRUE] \in Revision
    BY <2>1 DEF Revision
  <2>3. MarkPublished(id, post) =
            [revs EXCEPT ![id] = [revs[id] EXCEPT !.post = post, !.live = TRUE]]
    BY <1>1, <2>1 DEF MarkPublished, Table
  <2> QED
    BY <2>1, <2>2, <2>3 DEF Table
<1> QED
  BY <1>1 DEF MarkPublished

\* SupersedeOlderApproved.
LEMMA SupersedeType ==
    ASSUME revs \in Table, NEW r, NEW version
    PROVE SupersedeOlderApproved(r, version) \in Table
<1>1. \A id \in RevIds : id \in WithStatus(r, "approved") =>
          [revs[id] EXCEPT !.status = "superseded"] \in Revision
  BY UsedIsRevision DEF WithStatus, RowsOf, Exists, Revision, Status
<1> QED
  BY <1>1 DEF SupersedeOlderApproved, Table

\* SetProcessState.
LEMMA StateType ==
    ASSUME repos \in [Repos -> Repository], NEW r, NEW s \in ProcessState
    PROVE SetProcessState(r, s) \in [Repos -> Repository]
<1>1. \A q \in Repos : [repos[q] EXCEPT !.state = s] \in Repository
  BY DEF Repository
<1> QED
  BY <1>1 DEF SetProcessState

\* SetRevisionPointers.
LEMMA PointersType ==
    ASSUME repos \in [Repos -> Repository], NEW r,
           NEW current \in RevIds \cup {NoRev}, NEW published \in RevIds \cup {NoRev}
    PROVE SetRevisionPointers(r, current, published) \in [Repos -> Repository]
<1>1. \A q \in Repos : /\ [repos[q] EXCEPT !.current = current] \in Repository
                       /\ [repos[q] EXCEPT !.current = current, !.published = published]
                             \in Repository
  BY DEF Repository
<1> QED
  BY <1>1 DEF SetRevisionPointers

\* SetLastProcessedAt.
LEMMA StampType ==
    ASSUME fair \in [Repos -> Places], NEW r \in Repos
    PROVE SetLastProcessedAt(r) \in [Repos -> Places]
  BY PlacesType DEF SetLastProcessedAt, Places

-----------------------------------------------------------------------------
(***************************************************************************)
(* Types, one actor at a time.                                             *)
(***************************************************************************)
\* A worker between two runs.
LEMMA OffType == Off \in Worker
  BY PlacesType, StoreAssumption DEF Off, Worker, WorkerPC, Places

\* A worker's step keeps the tables and the workers well typed, and a worker
\* past GetByID on a repository.
LEMMA WorkerTypes ==
    ASSUME StoreTypeOK, PipelineTypeOK, WorkersHaveARepo,
           NEW w \in Workers, WorkerStep(w) \/ AbortRun(w)
    PROVE StoreTypeOK' /\ PipelineTypeOK' /\ WorkersHaveARepo'
<1> USE DEF PipelineTypeOK, WorkersHaveARepo
<1>a. revs \in Table /\ deleted \subseteq RevIds /\ repos \in [Repos -> Repository]
      /\ fair \in [Repos -> Places]
  BY DEF StoreTypeOK, Table
<1>t. ASSUME NEW rv \in Table, revs' = rv, deleted' \subseteq RevIds,
             NEW rp \in [Repos -> Repository], repos' = rp, NEW f \in [Repos -> Places], fair' = f
      PROVE StoreTypeOK'
  BY <1>t DEF StoreTypeOK, Table
<1>u. ASSUME UNCHANGED storeVars PROVE StoreTypeOK'
  BY <1>u DEF StoreTypeOK, storeVars
<1>b. wk[w] \in Worker
  OBVIOUS
<1>c. wk[w].repo \in Repos => \A s \in ProcessState : SetProcessState(wk[w].repo, s) \in [Repos -> Repository]
  BY <1>a, StateType
<1>m. ASSUME NEW rec \in Worker, wk' = [wk EXCEPT ![w] = rec],
             rec.pc \notin {"off", "next", "pruning"} => rec.repo \in Repos
      PROVE PipelineTypeOK' /\ WorkersHaveARepo'
  BY <1>m
<1>p. ASSUME NEW pc \in WorkerPC, Goto(w, pc),
             pc \notin {"off", "next", "pruning"} => wk[w].repo \in Repos
      PROVE PipelineTypeOK' /\ WorkersHaveARepo'
  <2>1. [wk[w] EXCEPT !.pc = pc] \in Worker
    BY <1>b DEF Worker
  <2>2. wk' = [wk EXCEPT ![w] = [wk[w] EXCEPT !.pc = pc]]
    BY <1>p DEF Goto
  <2> QED
    BY <1>b, <1>p, <2>1, <2>2, <1>m DEF Worker
<1>s. ASSUME Stop(w) PROVE PipelineTypeOK' /\ WorkersHaveARepo'
  BY <1>s, <1>m, OffType DEF Stop, Off
<1>n. ASSUME Continue(w) PROVE PipelineTypeOK' /\ WorkersHaveARepo'
  <2>1. [Off EXCEPT !.pc = "next", !.queue = wk[w].queue, !.order = wk[w].order] \in Worker
    BY <1>b, OffType DEF Worker, WorkerPC
  <2> QED
    BY <1>n, <2>1, <1>m, OffType DEF Continue, Worker
<1>1. CASE StartRun(w)
  <2>1. [Off EXCEPT !.pc = "next", !.queue = BuildQueue, !.order = fair] \in Worker
    BY <1>a, OffType DEF Worker, WorkerPC, BuildQueue
  <2> QED
    BY <1>1, <2>1, <1>m, <1>u, OffType DEF StartRun, Worker
<1>2. CASE ReadRepo(w)
  <2>1. PICK r \in FirstOf(wk[w].queue, wk[w].order) :
            wk' = [wk EXCEPT ![w] = [Off EXCEPT !.pc = "read", !.repo = r, !.sha = repos[r].sha,
                                                !.queue = wk[w].queue \ {r},
                                                !.order = wk[w].order]]
    BY <1>2 DEF ReadRepo
  <2>2. r \in Repos /\ repos[r].sha \in 0..MaxSha
    BY <1>a, <1>b, <2>1 DEF FirstOf, Worker, Repository
  <2>3. [Off EXCEPT !.pc = "read", !.repo = r, !.sha = repos[r].sha,
                    !.queue = wk[w].queue \ {r}, !.order = wk[w].order] \in Worker
    BY <1>b, <2>2, OffType DEF Worker, WorkerPC
  <2> QED
    BY <1>2, <2>1, <2>2, <2>3, <1>m, <1>u, OffType DEF ReadRepo, Worker
<1>3. CASE MarkProcessing(w)
  <2>1. wk[w].repo \in Repos
    BY <1>3 DEF MarkProcessing, At
  <2> QED
    BY <1>3, <1>a, <1>c, <1>p, <1>t, <2>1 DEF MarkProcessing, WorkerPC, ProcessState
<1>4. CASE Generate(w)
  <2>1. PICK b \in Bodies : wk' = [wk EXCEPT ![w].pc = "generated", ![w].body = b]
    BY <1>4 DEF Generate
  <2>2. wk' = [wk EXCEPT ![w] = [wk[w] EXCEPT !.pc = "generated", !.body = b]]
    BY <2>1
  <2>3. [wk[w] EXCEPT !.pc = "generated", !.body = b] \in Worker
    BY <1>b DEF Worker, WorkerPC
  <2>4. wk[w].repo \in Repos
    BY <1>4 DEF Generate, At
  <2> QED
    BY <1>4, <1>b, <1>m, <1>u, <2>2, <2>3, <2>4 DEF Generate, Worker
<1>5. CASE GenerateFails(w) \/ Dedup(w) \/ TxFails(w)
  BY <1>5, <1>p, <1>u DEF GenerateFails, Dedup, TxFails, WorkerPC, At
<1>6. CASE InsertDraft(w)
  <2> DEFINE r == wk[w].repo
             v == MaxVersionOf(r) + 1
             row == NewRow(r, v, "generated", "pending_review", wk[w].body, wk[w].sha, NoPost, NoRev)
  <2>1. r \in Repos
    BY <1>6 DEF InsertDraft, At
  <2>2. v \in 1..VersionBound
    BY <1>6, MaxVersionType, StoreAssumption DEF InsertDraft
  <2>3. row \in Revision
    <3>1. wk[w].body \in Bodies \cup {NoBody} /\ wk[w].sha \in 0..MaxSha
      BY <1>b DEF Worker
    <3> HIDE DEF v
    <3> QED
      BY <2>1, <2>2, <3>1, NewRowType DEF Source, Status
  <2>4. PICK id \in Fresh : /\ revs' = Insert(id, row)
                            /\ wk' = [wk EXCEPT ![w].pc = "inserted", ![w].rev = id]
    BY <1>6 DEF InsertDraft
  <2>5. Insert(id, row) \in Table
    BY <1>a, <2>3, InsertType DEF Fresh
  <2>6. wk' = [wk EXCEPT ![w] = [wk[w] EXCEPT !.pc = "inserted", !.rev = id]]
    BY <2>4
  <2>7. [wk[w] EXCEPT !.pc = "inserted", !.rev = id] \in Worker
    BY <1>b DEF Worker, WorkerPC, Fresh
  <2>8. StoreTypeOK'
    BY <1>6, <1>a, <1>t, <2>4, <2>5 DEF InsertDraft
  <2> QED
    BY <1>b, <1>m, <2>1, <2>6, <2>7, <2>8 DEF Worker
<1>7. CASE RevertDeduped(w)
  <2>1. wk[w].repo \in Repos
    BY <1>7 DEF RevertDeduped, At
  <2> QED
    BY <1>7, <1>a, <1>c, <1>n, <1>t, <2>1 DEF RevertDeduped, ProcessState
<1>8. CASE RevertFailed(w)
  <2>1. wk[w].repo \in Repos
    BY <1>8 DEF RevertFailed, At
  <2> QED
    BY <1>8, <1>a, <1>c, <1>s, <1>t, <2>1 DEF RevertFailed, ProcessState
<1>9. CASE PointToDraft(w)
  <2>1. SetRevisionPointers(wk[w].repo, wk[w].rev, NoRev) \in [Repos -> Repository]
    BY <1>a, <1>b, PointersType DEF Worker
  <2> QED
    BY <1>9, <1>a, <1>p, <1>t, <2>1 DEF PointToDraft, WorkerPC, At
<1>10. CASE AwaitReview(w)
  <2>1. wk[w].repo \in Repos
    BY <1>10 DEF AwaitReview, At
  <2> QED
    BY <1>10, <1>a, <1>c, <1>p, <1>t, <2>1 DEF AwaitReview, WorkerPC, ProcessState
<1>11. CASE StampProcessed(w)
  <2>1. wk[w].repo \in Repos
    BY <1>11 DEF StampProcessed, At
  <2> QED
    BY <1>11, <1>a, <1>n, <1>t, <2>1, StampType DEF StampProcessed
<1>12. CASE PruneAll(w)
  <2>1. [Off EXCEPT !.pc = "pruning", !.queue = Repos, !.order = fair] \in Worker
    BY <1>a, OffType DEF Worker, WorkerPC
  <2> QED
    BY <1>12, <2>1, <1>m, <1>u, OffType DEF PruneAll, Worker
<1>13. CASE ListDoomed(w)
  <2>1. PICK r \in FirstOf(wk[w].queue, wk[w].order) :
            wk' = [wk EXCEPT ![w].queue = @ \ {r}, ![w].doomed = ForRetention(r, KeepTop)]
    BY <1>13 DEF ListDoomed
  <2>2. wk' = [wk EXCEPT ![w] = [wk[w] EXCEPT !.queue = wk[w].queue \ {r},
                                              !.doomed = ForRetention(r, KeepTop)]]
    BY <2>1
  <2>3. ForRetention(r, KeepTop) \subseteq RevIds
    BY DEF ForRetention, RowsOf
  <2>4. [wk[w] EXCEPT !.queue = wk[w].queue \ {r}, !.doomed = ForRetention(r, KeepTop)] \in Worker
    BY <1>b, <2>3 DEF Worker
  <2> QED
    BY <1>13, <1>b, <1>m, <1>u, <2>2, <2>4 DEF ListDoomed, Worker, At
<1>14. CASE PruneOne(w)
  <2>1. PICK id \in NewestFirst(wk[w].doomed) :
            deleted' = deleted \cup {id} /\ wk' = [wk EXCEPT ![w].doomed = @ \ {id}]
    BY <1>14 DEF PruneOne
  <2>2. wk' = [wk EXCEPT ![w] = [wk[w] EXCEPT !.doomed = wk[w].doomed \ {id}]]
    BY <2>1
  <2>3. [wk[w] EXCEPT !.doomed = wk[w].doomed \ {id}] \in Worker
    BY <1>b DEF Worker
  <2>4. StoreTypeOK'
    BY <1>14, <1>a, <1>b, <2>1 DEF PruneOne, NewestFirst, Worker, StoreTypeOK, Table
  <2> QED
    BY <1>14, <1>b, <1>m, <2>2, <2>3, <2>4 DEF PruneOne, Worker, At
<1>15. CASE PruneRefused(w) \/ FinishRun(w) \/ AbortRun(w)
  BY <1>15, <1>s, <1>u DEF PruneRefused, FinishRun, AbortRun
<1> QED
  BY <1>1, <1>2, <1>3, <1>4, <1>5, <1>6, <1>7, <1>8, <1>9, <1>10, <1>11, <1>12, <1>13,
     <1>14, <1>15 DEF WorkerStep

\* A publisher between two invocations.
LEMMA IdleType == Idle \in Publisher
  BY StoreAssumption DEF Idle, Publisher, PublisherPC, Snapshot, ProcessState, PostRef

\* A publisher's step keeps the tables, the publishers and the posts well typed.
LEMMA PublisherTypes ==
    ASSUME StoreTypeOK, PublisherTypeOK, TargetsAreDecided,
           NEW p \in Publishers, PublisherStep(p) \/ CrashPublish(p)
    PROVE StoreTypeOK' /\ PublisherTypeOK'
<1> DEFINE Here == pub[p].repo \in Repos /\ pub[p].target \in RevIds
           PubOK == pub' \in [Publishers -> Publisher]
           PostsOK == posts' \in [PostIds -> Post] /\ edits' \in 0..MaxEdits
<1>a. /\ revs \in Table /\ deleted \subseteq RevIds /\ repos \in [Repos -> Repository]
      /\ fair \in [Repos -> Places] /\ posts \in [PostIds -> Post] /\ edits \in 0..MaxEdits
      /\ pub \in [Publishers -> Publisher]
  BY DEF StoreTypeOK, Table, PublisherTypeOK
<1>b. pub[p] \in Publisher
  BY <1>a
<1>h. ~ PubAt(p, "off") /\ ~ PubAt(p, "next") => Here
  BY DEF TargetsAreDecided, PubAt
<1>t. ASSUME NEW rv \in Table, revs' = rv, deleted' = deleted,
             NEW rp \in [Repos -> Repository], repos' = rp, fair' = fair
      PROVE StoreTypeOK'
  BY <1>a, <1>t DEF StoreTypeOK, Table
<1>u. ASSUME UNCHANGED storeVars PROVE StoreTypeOK'
  BY <1>u DEF StoreTypeOK, storeVars
<1>v. ASSUME posts' = posts, edits' = edits PROVE PostsOK
  BY <1>v, <1>a
<1>m. ASSUME NEW rec \in Publisher, pub' = [pub EXCEPT ![p] = rec] PROVE PubOK
  BY <1>a, <1>m
<1>p. ASSUME NEW pc \in PublisherPC, PubGoto(p, pc) PROVE PubOK
  <2>1. [pub[p] EXCEPT !.pc = pc] \in Publisher
    BY <1>b DEF Publisher
  <2>2. pub' = [pub EXCEPT ![p] = [pub[p] EXCEPT !.pc = pc]]
    BY <1>a, <1>p DEF PubGoto
  <2> QED
    BY <2>1, <2>2, <1>m
<1>n. ASSUME NextRepo(p) PROVE PubOK
  <2>1. [Idle EXCEPT !.pc = "next", !.todo = pub[p].todo, !.snap = pub[p].snap] \in Publisher
    BY <1>b, IdleType DEF Publisher, PublisherPC
  <2> QED
    BY <1>n, <2>1, <1>m DEF NextRepo
<1>l. Here => LivePost(p) \in PostIds \cup {EmptyPost, NoPost}
  <2>1. CASE Exists(Listed(p).published)
    <3>1. Listed(p).published \in RevIds /\ revs[Listed(p).published] \in Revision
      BY <2>1, <1>a, UsedIsRevision DEF Exists
    <3> QED
      BY <2>1, <3>1 DEF LivePost, Revision
  <2> QED
    BY <2>1 DEF LivePost
<1>c. \A x : Content(x) \in Bodies \cup {NoBody}
  BY <1>a DEF Content, Post
<1>w. PubAt(p, "push") => Shows(pub[p].repo, pub[p].target) \in Post
  <2>1. SUFFICES ASSUME PubAt(p, "push") PROVE Shows(pub[p].repo, pub[p].target) \in Post
    OBVIOUS
  <2>2. pub[p].target \in RevIds /\ Used(pub[p].target) /\ pub[p].repo \in Repos
    BY <2>1 DEF TargetsAreDecided, Used, Decided, PubAt
  <2>3. revs[pub[p].target] \in Revision
    BY <1>a, <2>2, UsedIsRevision
  <2> QED
    BY <2>2, <2>3 DEF Shows, Post, Revision
<1>x. ASSUME NEW x \in PostIds \cup {EmptyPost, NoPost}, Pushed(p, x), x # NoPost PROVE PubOK
  <2>1. [pub[p] EXCEPT !.pc = "mark", !.post = x] \in Publisher
    BY <1>b, <1>x DEF Publisher, PublisherPC, PostRef
  <2>2. pub' = [pub EXCEPT ![p] = [pub[p] EXCEPT !.pc = "mark", !.post = x]]
    BY <1>a, <1>x DEF Pushed
  <2> QED
    BY <2>1, <2>2, <1>m
<1>1. CASE ListRepos(p)
  <2> DEFINE sn == [r \in Repos |-> [state |-> repos[r].state, published |-> repos[r].published]]
  <2>1. sn \in [Repos -> Snapshot]
    BY <1>a DEF Repository, Snapshot
  <2>2. pub' = [pub EXCEPT ![p] = [Idle EXCEPT !.pc = "next", !.todo = Repos, !.snap = sn]]
    BY <1>1 DEF ListRepos
  <2> HIDE DEF sn
  <2>3. [Idle EXCEPT !.pc = "next", !.todo = Repos, !.snap = sn] \in Publisher
    BY <2>1, IdleType DEF Publisher, PublisherPC
  <2> QED
    BY <1>1, <2>2, <2>3, <1>m, <1>u, <1>v DEF ListRepos, PublisherTypeOK
<1>2. CASE SkipRepo(p)
  <2>1. PICK r : pub' = [pub EXCEPT ![p].todo = @ \ {r}]
    BY <1>2 DEF SkipRepo
  <2>2. pub' = [pub EXCEPT ![p] = [pub[p] EXCEPT !.todo = pub[p].todo \ {r}]]
    BY <1>a, <2>1
  <2>3. [pub[p] EXCEPT !.todo = pub[p].todo \ {r}] \in Publisher
    BY <1>b DEF Publisher
  <2> QED
    BY <1>2, <2>2, <2>3, <1>m, <1>u, <1>v DEF SkipRepo, PublisherTypeOK
<1>3. CASE SelectTarget(p)
  <2> DEFINE Dest(r) == IF pub[p].snap[r].published = NoRev THEN "push" ELSE "check"
  <2>1. PICK r \in pub[p].todo : \E id \in NewestFirst(WithStatus(r, "approved")) :
            pub' = [pub EXCEPT ![p] = [pub[p] EXCEPT !.todo = pub[p].todo \ {r}, !.repo = r,
                                                !.target = id, !.pc = Dest(r)]]
    BY <1>3 DEF SelectTarget
  <2>2. PICK id \in RevIds :
            pub' = [pub EXCEPT ![p] = [pub[p] EXCEPT !.todo = pub[p].todo \ {r}, !.repo = r,
                                                !.target = id, !.pc = Dest(r)]]
    BY <2>1 DEF NewestFirst, WithStatus, RowsOf
  <2>3. Dest(r) \in PublisherPC /\ r \in Repos
    BY <1>b, <2>1 DEF PublisherPC, Publisher
  <2> HIDE DEF Dest
  <2>5. [pub[p] EXCEPT !.todo = pub[p].todo \ {r}, !.repo = r, !.target = id, !.pc = Dest(r)]
            \in Publisher
    BY <1>b, <2>3 DEF Publisher
  <2> QED
    BY <1>3, <2>2, <2>5, <1>m, <1>u, <1>v DEF SelectTarget, PublisherTypeOK
<1>4. CASE DriftUnknown(p)
  BY <1>4, <1>p, <1>u, <1>v DEF DriftUnknown, PublisherPC, PublisherTypeOK
<1>5. CASE NoDrift(p)
  BY <1>5, <1>p, <1>u, <1>v DEF NoDrift, PublisherPC, PublisherTypeOK
<1>6. CASE Drift(p)
  <2>1. pub' = [pub EXCEPT ![p] = [pub[p] EXCEPT !.pc = "drift", !.seen = Content(LivePost(p)),
                                                  !.post = LivePost(p)]]
    BY <1>6, <1>a DEF Drift
  <2>2. LivePost(p) \in PostRef
    BY <1>6, <1>h, <1>l DEF Drift, PubAt, PostRef
  <2>3. [pub[p] EXCEPT !.pc = "drift", !.seen = Content(LivePost(p)), !.post = LivePost(p)]
            \in Publisher
    BY <1>b, <1>c, <2>2 DEF Publisher, PublisherPC
  <2> QED
    BY <1>6, <2>1, <2>3, <1>m, <1>u, <1>v DEF Drift, PublisherTypeOK
<1>7. CASE NumberImport(p)
  <2> DEFINE v == MaxVersionOf(pub[p].repo) + 1
  <2>1. pub' = [pub EXCEPT ![p] = [pub[p] EXCEPT !.pc = "import", !.version = v]]
    BY <1>7, <1>a DEF NumberImport
  <2>2. v \in 0..(VersionBound + 1)
    BY MaxVersionType, StoreAssumption
  <2> HIDE DEF v
  <2>3. [pub[p] EXCEPT !.pc = "import", !.version = v] \in Publisher
    BY <1>b, <2>2 DEF Publisher, PublisherPC
  <2> QED
    BY <1>7, <2>1, <2>3, <1>m, <1>u, <1>v DEF NumberImport, PublisherTypeOK
<1>8. CASE ImportDrift(p)
  <2> DEFINE row == NewRow(pub[p].repo, pub[p].version, "patreon_import", "approved",
                           pub[p].seen, 0, pub[p].post, NoRev)
  <2>1. row \in Revision
    <3>1. Here
      BY <1>8, <1>h DEF ImportDrift, PubAt
    <3>2. /\ pub[p].version \in 0..VersionBound
          /\ pub[p].seen \in Bodies \cup {NoBody}
          /\ pub[p].post \in PostIds \cup {EmptyPost, NoPost}
          /\ 0 \in 0..MaxSha
      BY <1>8, <1>b, StoreAssumption DEF ImportDrift, Publisher, PostRef
    <3>3. pub[p].version > 0
      BY <1>8 DEF ImportDrift, TargetsAreDecided, PubAt
    <3> QED
      BY <3>1, <3>2, <3>3, NewRowType, StoreAssumption DEF Source, Status
  <2>2. PICK id \in Fresh : revs' = Insert(id, row)
    BY <1>8 DEF ImportDrift
  <2>3. Insert(id, row) \in Table
    BY <1>a, <2>1, InsertType DEF Fresh
  <2> QED
    BY <1>8, <1>a, <1>p, <1>t, <1>v, <2>2, <2>3 DEF ImportDrift, PublisherPC, PublisherTypeOK
<1>9. CASE ImportFails(p)
  BY <1>9, <1>n, <1>u, <1>v DEF ImportFails, PublisherTypeOK
<1>10. CASE HaltRepo(p)
  <2>1. repos' \in [Repos -> Repository]
    BY <1>10, <1>a, StateType DEF HaltRepo, ProcessState
  <2> QED
    BY <1>10, <1>a, <1>n, <1>t, <1>v, <2>1 DEF HaltRepo, PublisherTypeOK
<1>11. CASE UpdatePost(p)
  <2>1. LivePost(p) \in PostIds \cup {EmptyPost, NoPost} /\ LivePost(p) # NoPost
    BY <1>11, <1>h, <1>l DEF UpdatePost, PubAt
  <2>2. PostsOK
    BY <1>11, <1>a, <1>w DEF UpdatePost
  <2>3. PubOK
    BY <1>11, <1>x, <2>1 DEF UpdatePost
  <2> QED
    BY <1>11, <1>u, <2>2, <2>3 DEF UpdatePost, PublisherTypeOK
<1>12. CASE CreatePost(p)
  <2>1. PostsOK
    BY <1>12, <1>a, <1>w DEF CreatePost
  <2>2. PubOK
    BY <1>12, <1>x, StoreAssumption DEF CreatePost, FreshPosts
  <2> QED
    BY <1>12, <1>u, <2>1, <2>2 DEF CreatePost, PublisherTypeOK
<1>13. CASE PushFails(p)
  <2>1. PostsOK
    BY <1>13, <1>a, <1>w DEF PushFails
  <2> QED
    BY <1>13, <1>n, <1>u, <2>1 DEF PushFails, PublisherTypeOK
<1>14. CASE Mark(p)
  <2>1. revs' \in Table
    BY <1>14, <1>a, <1>b, MarkType DEF Mark, Publisher, PostRef
  <2> QED
    BY <1>14, <1>a, <1>p, <1>t, <1>v, <2>1 DEF Mark, PublisherPC, PublisherTypeOK
<1>15. CASE Point(p)
  <2>1. repos' \in [Repos -> Repository]
    <3>1. pub[p].target \in RevIds \cup {NoRev}
      BY <1>b DEF Publisher
    <3>2. SetRevisionPointers(pub[p].repo, pub[p].target, pub[p].target) \in [Repos -> Repository]
      BY <1>a, <3>1, PointersType
    <3> QED
      BY <1>15, <1>a, <3>2 DEF Point
  <2> QED
    BY <1>15, <1>a, <1>p, <1>t, <1>v, <2>1 DEF Point, PublisherPC, PublisherTypeOK
<1>16. CASE Supersede(p)
  <2>1. revs' \in Table
    BY <1>16, <1>a, SupersedeType DEF Supersede
  <2> QED
    BY <1>16, <1>a, <1>n, <1>t, <1>v, <2>1 DEF Supersede, PublisherTypeOK
<1>17. CASE FinishPublish(p) \/ CrashPublish(p)
  BY <1>17, <1>m, <1>u, <1>v, IdleType DEF FinishPublish, CrashPublish, PublisherTypeOK
<1> QED
  BY <1>1, <1>2, <1>3, <1>4, <1>5, <1>6, <1>7, <1>8, <1>9, <1>10, <1>11, <1>12, <1>13,
     <1>14, <1>15, <1>16, <1>17 DEF PublisherStep

\* A reviewer between two requests.
LEMMA NoRequestType == NoRequest \in Request
  BY StoreAssumption DEF NoRequest, Request, RequestPC

\* A request's step keeps the tables and the requests well typed.
LEMMA ReviewerTypes ==
    ASSUME StoreTypeOK, ReviewTypeOK, RequestsAreSound,
           NEW v \in Reviewers, ReviewerStep(v)
    PROVE StoreTypeOK' /\ ReviewTypeOK'
<1> DEFINE ReqOK == req' \in [Reviewers -> Request]
<1>a. /\ revs \in Table /\ deleted \subseteq RevIds /\ repos \in [Repos -> Repository]
      /\ fair \in [Repos -> Places] /\ req \in [Reviewers -> Request]
  BY DEF StoreTypeOK, Table, ReviewTypeOK
<1>b. req[v] \in Request
  BY <1>a
<1>t. ASSUME NEW rv \in Table, revs' = rv, deleted' = deleted,
             NEW rp \in [Repos -> Repository], repos' = rp, fair' = fair
      PROVE StoreTypeOK'
  BY <1>a, <1>t DEF StoreTypeOK, Table
<1>u. ASSUME UNCHANGED storeVars PROVE StoreTypeOK'
  BY <1>u DEF StoreTypeOK, storeVars
<1>m. ASSUME NEW rec \in Request, req' = [req EXCEPT ![v] = rec] PROVE ReqOK
  BY <1>a, <1>m
<1>n. ASSUME Answer(v) PROVE ReqOK
  BY <1>n, <1>m, NoRequestType DEF Answer
<1>r. ASSUME ReqOK PROVE ReviewTypeOK'
  BY <1>a, <1>r DEF ReviewTypeOK
<1>s. \A id \in RevIds : Used(id) => revs[id] \in Revision
  BY <1>a, UsedIsRevision
<1>1. CASE ReadStatus(v)
  <2>1. PICK id \in RevIds, new \in {"approved", "rejected"} :
            /\ Exists(id)
            /\ req' = [req EXCEPT ![v] = [NoRequest EXCEPT !.pc = "decide", !.rev = id,
                                             !.seen = revs[id].status, !.new = new]]
    BY <1>1 DEF ReadStatus
  <2>2. revs[id].status \in Status
    BY <2>1, <1>s DEF Exists, Revision
  <2>3. [NoRequest EXCEPT !.pc = "decide", !.rev = id, !.seen = revs[id].status, !.new = new]
            \in Request
    BY <2>2, NoRequestType DEF Request, RequestPC, Status
  <2> QED
    BY <1>1, <1>m, <1>r, <1>u, <2>1, <2>3 DEF ReadStatus
<1>2. CASE WriteStatus(v)
  <2>1. req[v].new \in Status
    BY <1>2 DEF WriteStatus, ReqAt, RequestsAreSound, Status
  <2>2. revs' \in Table
    BY <1>2, <1>a, <2>1, CASType DEF WriteStatus
  <2> QED
    BY <1>2, <1>a, <1>n, <1>r, <1>t, <2>2 DEF WriteStatus
<1>3. CASE ReadForEdit(v)
  <2>1. PICK id \in RevIds, b \in Bodies :
            /\ Exists(id)
            /\ req' = [req EXCEPT ![v] =
                        [NoRequest EXCEPT !.pc = "create", !.repo = revs[id].repo, !.rev = id,
                                          !.version = MaxVersionOf(revs[id].repo) + 1,
                                          !.body = b]]
    BY <1>3 DEF ReadForEdit
  <2>2. revs[id].repo \in Repos
    BY <2>1, <1>s DEF Exists, Revision
  <2> DEFINE n == MaxVersionOf(revs[id].repo) + 1
  <2>3. n \in 0..(VersionBound + 1)
    BY MaxVersionType, StoreAssumption
  <2>4. req' = [req EXCEPT ![v] = [NoRequest EXCEPT !.pc = "create", !.repo = revs[id].repo,
                                     !.rev = id, !.version = n, !.body = b]]
    BY <2>1
  <2> HIDE DEF n
  <2>5. [NoRequest EXCEPT !.pc = "create", !.repo = revs[id].repo, !.rev = id,
                          !.version = n, !.body = b] \in Request
    BY <2>2, <2>3, NoRequestType DEF Request, RequestPC
  <2> QED
    BY <1>3, <1>m, <1>r, <1>u, <2>4, <2>5 DEF ReadForEdit
<1>4. CASE CreateEdit(v)
  <2> DEFINE row == NewRow(req[v].repo, req[v].version, "manual_edit", "pending_review",
                           req[v].body, 0, NoPost, req[v].rev)
  <2>1. row \in Revision
    <3>1. /\ req[v].repo \in Repos
          /\ req[v].version \in 1..VersionBound
          /\ req[v].body \in Bodies \cup {NoBody}
          /\ req[v].rev \in RevIds \cup {NoRev}
          /\ 0 \in 0..MaxSha
      BY <1>4, <1>b, StoreAssumption DEF CreateEdit, RequestsAreSound, ReqAt, Request
    <3> QED
      BY <3>1, NewRowType DEF Source, Status
  <2>2. PICK id \in Fresh : revs' = Insert(id, row)
    BY <1>4 DEF CreateEdit
  <2>3. Insert(id, row) \in Table
    BY <1>a, <2>1, InsertType DEF Fresh
  <2> QED
    BY <1>4, <1>a, <1>n, <1>r, <1>t, <2>2, <2>3 DEF CreateEdit
<1>5. CASE EditRefused(v) \/ SweepRefused(v) \/ RequestFails(v)
  BY <1>5, <1>n, <1>r, <1>u DEF EditRefused, SweepRefused, RequestFails
<1>6. CASE ReadDrift(v)
  <2>1. PICK r \in Repos, op \in {"keep_ours", "keep_theirs"} :
            req' = [req EXCEPT ![v] =
                        [NoRequest EXCEPT !.pc = IF op = "keep_ours" THEN "ours" ELSE "list",
                                          !.repo = r]]
    BY <1>6 DEF ReadDrift
  <2>2. [NoRequest EXCEPT !.pc = IF op = "keep_ours" THEN "ours" ELSE "list", !.repo = r]
            \in Request
    BY NoRequestType DEF Request, RequestPC
  <2> QED
    BY <1>6, <1>m, <1>r, <1>u, <2>1, <2>2 DEF ReadDrift
<1>7. CASE KeepOurs(v)
  <2>1. repos' \in [Repos -> Repository]
    BY <1>7, <1>a, StateType DEF KeepOurs, ProcessState
  <2> QED
    BY <1>7, <1>a, <1>n, <1>r, <1>t, <2>1 DEF KeepOurs
<1>8. CASE ReadForTheirs(v)
  <2> DEFINE r == req[v].repo
  <2>1. PICK imp \in RevIds :
            req' = [req EXCEPT ![v] = [NoRequest EXCEPT !.pc = "theirs", !.repo = r,
                                             !.rev = imp, !.todo = Sweep(r, imp)]]
    BY <1>8 DEF ReadForTheirs, NewestFirst, Imports, RowsOf
  <2>2. Sweep(r, imp) \in [RevIds -> Status \cup {"none"}]
    BY DEF Sweep, Status
  <2>3. [NoRequest EXCEPT !.pc = "theirs", !.repo = r, !.rev = imp, !.todo = Sweep(r, imp)]
            \in Request
    BY <1>b, <2>2, NoRequestType DEF Request, RequestPC
  <2> QED
    BY <1>8, <1>m, <1>r, <1>u, <2>1, <2>3 DEF ReadForTheirs
<1>9. CASE SweepOne(v)
  <2>1. PICK id \in NewestFirst(Swept(v)) :
            /\ revs' = CASStatus(id, revs[id].status, req[v].todo[id])
            /\ req' = [req EXCEPT ![v].todo[id] = "none"]
    BY <1>9 DEF SweepOne
  <2>2. id \in RevIds /\ req[v].todo[id] \in Status
    BY <1>b DEF NewestFirst, Swept, Request
  <2>3. revs' \in Table
    BY <1>a, <2>1, <2>2, CASType
  <2>4. [req[v].todo EXCEPT ![id] = "none"] \in [RevIds -> Status \cup {"none"}]
    BY <1>b DEF Request
  <2>5. [req[v] EXCEPT !.todo = [req[v].todo EXCEPT ![id] = "none"]] \in Request
    BY <1>b, <2>4 DEF Request
  <2>6. req' = [req EXCEPT ![v] = [req[v] EXCEPT !.todo = [req[v].todo EXCEPT ![id] = "none"]]]
    BY <1>a, <2>1
  <2> QED
    BY <1>9, <1>a, <1>m, <1>r, <1>t, <2>3, <2>5, <2>6 DEF SweepOne
<1>10. CASE SweepDone(v)
  <2>1. repos' \in [Repos -> Repository]
    BY <1>10, <1>a, <1>b, PointersType DEF SweepDone, Request
  <2>2. [req[v] EXCEPT !.pc = "resume"] \in Request
    BY <1>b DEF Request, RequestPC
  <2>3. req' = [req EXCEPT ![v] = [req[v] EXCEPT !.pc = "resume"]]
    BY <1>10, <1>a DEF SweepDone
  <2> QED
    BY <1>10, <1>a, <1>m, <1>r, <1>t, <2>1, <2>2, <2>3 DEF SweepDone
<1>11. CASE KeepTheirs(v)
  <2>1. repos' \in [Repos -> Repository]
    BY <1>11, <1>a, StateType DEF KeepTheirs, ProcessState
  <2> QED
    BY <1>11, <1>a, <1>n, <1>r, <1>t, <2>1 DEF KeepTheirs
<1> QED
  BY <1>1, <1>2, <1>3, <1>4, <1>5, <1>6, <1>7, <1>8, <1>9, <1>10, <1>11 DEF ReviewerStep

-----------------------------------------------------------------------------
(***************************************************************************)
(* What a step does to a row.                                              *)
(***************************************************************************)
RowForward(id) ==
    /\ revs'[id].repo = revs[id].repo /\ revs'[id].version = revs[id].version
    /\ revs'[id].source = revs[id].source /\ revs'[id].body = revs[id].body
    /\ revs'[id].sha = revs[id].sha /\ revs'[id].from = revs[id].from
    /\ \/ revs'[id].status = revs[id].status
       \/ revs[id].status = "pending_review" /\ revs'[id].status \in {"approved", "rejected"}
       \/ revs[id].status = "approved" /\ revs'[id].status = "superseded"
    /\ revs[id].live => revs'[id].live

RowsForward == \A id \in RevIds : Used(id) => RowForward(id)

\* INSERT under a fresh id leaves the rows alone.
LEMMA InsertForward ==
    ASSUME revs \in Table, NEW id \in Fresh, NEW row, revs' = Insert(id, row)
    PROVE RowsForward
  BY DEF Table, Insert, RowsForward, RowForward, Fresh, Used

\* A conditional status update moves a row along the graph.
LEMMA CASForward ==
    ASSUME revs \in Table, NEW id, NEW seen, NEW new, revs' = CASStatus(id, seen, new),
           \/ seen = "pending_review" /\ new \in {"approved", "rejected"}
           \/ seen = "approved" /\ new = "superseded"
    PROVE RowsForward
<1>1. CASE Exists(id) /\ revs[id].status = seen
  <2>1. id \in RevIds /\ revs[id] \in Revision
    BY <1>1, UsedIsRevision DEF Exists
  <2>2. revs' = [revs EXCEPT ![id] = [revs[id] EXCEPT !.status = new]]
    BY <1>1, <2>1 DEF CASStatus, Table
  <2>3. RowForward(id)
    BY <1>1, <2>1, <2>2 DEF Table, RowForward, Revision
  <2>4. \A j \in RevIds \ {id} : revs'[j] = revs[j]
    BY <2>1, <2>2 DEF Table
  <2> QED
    BY <2>3, <2>4 DEF RowsForward, RowForward
<1> QED
  BY <1>1 DEF CASStatus, RowsForward, RowForward

\* MarkPublished writes the published marks only.
LEMMA MarkForward ==
    ASSUME revs \in Table, NEW id, NEW post, revs' = MarkPublished(id, post)
    PROVE RowsForward
<1>1. CASE Exists(id)
  <2>1. id \in RevIds /\ revs[id] \in Revision
    BY <1>1, UsedIsRevision DEF Exists
  <2>2. revs' = [revs EXCEPT ![id] = [revs[id] EXCEPT !.post = post, !.live = TRUE]]
    BY <1>1, <2>1 DEF MarkPublished, Table
  <2>3. RowForward(id)
    BY <2>1, <2>2 DEF Table, RowForward, Revision
  <2>4. \A j \in RevIds \ {id} : revs'[j] = revs[j]
    BY <2>1, <2>2 DEF Table
  <2> QED
    BY <2>3, <2>4 DEF RowsForward, RowForward
<1> QED
  BY <1>1 DEF MarkPublished, RowsForward, RowForward

\* SupersedeOlderApproved touches approved rows only.
LEMMA SupersedeForward ==
    ASSUME revs \in Table, NEW r, NEW version, revs' = SupersedeOlderApproved(r, version)
    PROVE RowsForward
<1> SUFFICES ASSUME NEW id \in RevIds, Used(id) PROVE RowForward(id)
  BY DEF RowsForward
<1>1. revs[id] \in Revision
  BY UsedIsRevision
<1>2. \/ revs'[id] = revs[id]
      \/ revs[id].status = "approved" /\ revs'[id] = [revs[id] EXCEPT !.status = "superseded"]
  BY DEF SupersedeOlderApproved, WithStatus
<1> QED
  BY <1>1, <1>2 DEF RowForward, Revision

\* A step that leaves the table alone.
LEMMA UnchangedForward == ASSUME revs' = revs PROVE RowsForward
  BY DEF RowsForward, RowForward

\* No step changes what a row says, or its status other than forward and by
\* review: the store's statements, applied to what the actors have read.
LEMMA StepForward ==
    ASSUME GateInv, [Next]_vars PROVE RowsForward
<1>a. revs \in Table /\ StoreTypeOK /\ ReviewTypeOK
  BY DEF GateInv, TypeOK, StoreTypeOK, Table
<1>1. ASSUME NEW w \in Workers, Process(w) PROVE RowsForward
  <2>1. CASE InsertDraft(w)
    BY <1>a, <2>1, InsertForward DEF InsertDraft
  <2>2. CASE revs' = revs
    BY <2>2, UnchangedForward
  <2>3. InsertDraft(w) \/ revs' = revs
    BY <1>1 DEF Process, WorkerStep, AbortRun, StartRun, ReadRepo, MarkProcessing, Generate,
       GenerateFails, Dedup, TxFails, RevertDeduped, RevertFailed, PointToDraft, AwaitReview,
       StampProcessed, PruneAll, ListDoomed, PruneOne, PruneRefused, FinishRun, storeVars
  <2> QED
    BY <2>1, <2>2, <2>3
<1>2. ASSUME NEW p \in Publishers, Publish(p) PROVE RowsForward
  <2>1. CASE ImportDrift(p)
    BY <1>a, <2>1, InsertForward DEF ImportDrift
  <2>2. CASE Mark(p)
    BY <1>a, <2>2, MarkForward, UnchangedForward DEF Mark
  <2>3. CASE Supersede(p)
    BY <1>a, <2>3, SupersedeForward, UnchangedForward DEF Supersede
  <2>4. CASE revs' = revs
    BY <2>4, UnchangedForward
  <2>5. ImportDrift(p) \/ Mark(p) \/ Supersede(p) \/ revs' = revs
    BY <1>2 DEF Publish, PublisherStep, CrashPublish, ListRepos, SkipRepo, SelectTarget,
       DriftUnknown, NoDrift, Drift, NumberImport, ImportFails, HaltRepo, UpdatePost,
       CreatePost, PushFails, Point, FinishPublish, storeVars
  <2> QED
    BY <2>1, <2>2, <2>3, <2>4, <2>5
<1>3. ASSUME NEW v \in Reviewers, Review(v) PROVE RowsForward
  <2>1. CASE WriteStatus(v)
    BY <1>a, <2>1, CASForward DEF WriteStatus, ReqAt, GateInv, RequestsAreSound
  <2>2. CASE CreateEdit(v)
    BY <1>a, <2>2, InsertForward DEF CreateEdit
  <2>3. CASE SweepOne(v)
    <3>1. PICK id \in NewestFirst(Swept(v)) :
              /\ Legal(revs[id].status, req[v].todo[id])
              /\ revs' = CASStatus(id, revs[id].status, req[v].todo[id])
      BY <2>3 DEF SweepOne
    <3>2. id \in RevIds
      BY DEF NewestFirst, Swept
    <3>3. \/ revs[id].status = "pending_review" /\ req[v].todo[id] \in {"approved", "rejected"}
          \/ revs[id].status = "approved" /\ req[v].todo[id] = "superseded"
      BY <3>1, <3>2 DEF Legal, GateInv, RequestsAreSound, Decided
    <3> QED
      BY <1>a, <3>1, <3>3, CASForward
  <2>4. CASE revs' = revs
    BY <2>4, UnchangedForward
  <2>5. WriteStatus(v) \/ CreateEdit(v) \/ SweepOne(v) \/ revs' = revs
    BY <1>3 DEF Review, ReviewerStep, ReadStatus, ReadForEdit, EditRefused, ReadDrift,
       KeepOurs, ReadForTheirs, SweepRefused, SweepDone, KeepTheirs, RequestFails, storeVars
  <2> QED
    BY <2>1, <2>2, <2>3, <2>4, <2>5
<1>4. ASSUME (\E r \in Repos : Scan(r)) \/ Site \/ UNCHANGED vars PROVE RowsForward
  BY <1>4, UnchangedForward DEF Scan, Rescan, Site, SiteEdit, vars, storeVars
<1> QED
  BY <1>1, <1>2, <1>3, <1>4 DEF Next

\* So a decision is final.
LEMMA DecidedStays ==
    ASSUME RowsForward PROVE \A id \in RevIds : revs[id].status \in Decided =>
                                                 revs'[id].status \in Decided
  BY DEF RowsForward, RowForward, Decided, Used

-----------------------------------------------------------------------------
(***************************************************************************)
(* The inductive invariant.                                                *)
(***************************************************************************)

\* The four initial predicates establish it.
LEMMA GateInit == Init => GateInv
<1> SUFFICES ASSUME Init PROVE GateInv
  OBVIOUS
<1>1. StoreTypeOK
  <2>1. [sha |-> 1, archived |-> FALSE, state |-> "idle", current |-> NoRev,
         published |-> NoRev] \in Repository
    BY StoreAssumption DEF Repository, ProcessState
  <2> QED
    BY <2>1 DEF Init, StoreInit, StoreTypeOK
<1>2. PipelineTypeOK /\ WorkersHaveARepo
  BY OffType DEF Init, PipelineInit, PipelineTypeOK, WorkersHaveARepo, Off
<1>3. PublisherTypeOK /\ TargetsAreDecided /\ ReviewGate
  BY IdleType, PublisherAssumption
     DEF Init, PublisherInit, PublisherTypeOK, TargetsAreDecided, ReviewGate, Idle, NoSuchPost, Post
<1>4. ReviewTypeOK /\ RequestsAreSound
  BY NoRequestType DEF Init, ReviewInit, ReviewTypeOK, RequestsAreSound, NoRequest
<1> QED
  BY <1>1, <1>2, <1>3, <1>4 DEF GateInv, TypeOK

\* The publishers' targets, and what Patreon shows, stay decided while a
\* publisher steps.
LEMMA PublisherGate ==
    ASSUME GateInv, NEW p \in Publishers, PublisherStep(p) \/ CrashPublish(p), RowsForward
    PROVE TargetsAreDecided' /\ ReviewGate'
<1>a. /\ pub \in [Publishers -> Publisher] /\ posts \in [PostIds -> Post]
      /\ TargetsAreDecided /\ ReviewGate
  BY DEF GateInv, TypeOK, PublisherTypeOK
<1>d. \A id \in RevIds : revs[id].status \in Decided => revs'[id].status \in Decided
  BY DecidedStays
<1>s. \A x \in PostIds : posts[x].by \in RevIds \cup {NoRev}
  BY <1>a DEF Post
<1>g. ASSUME posts' = posts PROVE ReviewGate'
  BY <1>a, <1>d, <1>g, <1>s DEF ReviewGate, Decided
\* Either p has no target any more, or it keeps the one it had, or chooses one.
<1>t. ASSUME \/ pub'[p].pc \in {"off", "next"}
             \/ /\ pub[p].pc \notin {"off", "next"}
                /\ pub'[p].repo = pub[p].repo /\ pub'[p].target = pub[p].target
                /\ pub'[p].pc = "import" => pub'[p].version > 0
             \/ /\ pub'[p].repo \in Repos /\ pub'[p].target \in RevIds
                /\ revs[pub'[p].target].status \in Decided
                /\ pub'[p].pc # "import",
             \A q \in Publishers \ {p} : pub'[q] = pub[q]
      PROVE TargetsAreDecided'
  BY <1>a, <1>d, <1>t DEF TargetsAreDecided
<1>n. NextRepo(p) => pub'[p].pc = "next"
  BY <1>a, IdleType DEF NextRepo, Publisher
<1>1. CASE \/ ListRepos(p) \/ SkipRepo(p) \/ ImportFails(p) \/ HaltRepo(p)
           \/ Supersede(p) \/ FinishPublish(p) \/ CrashPublish(p)
  <2>1. posts' = posts /\ \A q \in Publishers \ {p} : pub'[q] = pub[q]
    BY <1>1, <1>a DEF ListRepos, SkipRepo, ImportFails, HaltRepo, Supersede, FinishPublish,
       CrashPublish, NextRepo
  <2>2. pub[p] \in Publisher
    BY <1>a
  <2>3. pub'[p].pc \in {"off", "next"}
    <3>1. CASE ListRepos(p)
      BY <3>1, <1>a, IdleType DEF ListRepos, Publisher
    <3>2. CASE SkipRepo(p)
      BY <3>2, <1>a, <2>2 DEF SkipRepo, PubAt, Publisher
    <3>3. CASE FinishPublish(p) \/ CrashPublish(p)
      BY <3>3, <1>a DEF FinishPublish, CrashPublish, Idle
    <3> QED
      BY <1>1, <1>n, <3>1, <3>2, <3>3 DEF ImportFails, HaltRepo, Supersede
  <2> QED
    BY <2>1, <2>3, <1>g, <1>t
<1>2. CASE SelectTarget(p)
  <2>1. PICK r \in pub[p].todo : \E id \in NewestFirst(WithStatus(r, "approved")) :
            pub' = [pub EXCEPT ![p] =
                    [pub[p] EXCEPT !.todo = pub[p].todo \ {r}, !.repo = r, !.target = id,
                                   !.pc = IF pub[p].snap[r].published = NoRev
                                          THEN "push" ELSE "check"]]
    BY <1>2 DEF SelectTarget
  <2>2. PICK id \in NewestFirst(WithStatus(r, "approved")) :
            pub' = [pub EXCEPT ![p] =
                    [pub[p] EXCEPT !.todo = pub[p].todo \ {r}, !.repo = r, !.target = id,
                                   !.pc = IF pub[p].snap[r].published = NoRev
                                          THEN "push" ELSE "check"]]
    BY <2>1
  <2>3. id \in RevIds /\ revs[id].status \in Decided
    BY DEF NewestFirst, WithStatus, RowsOf, Decided
  <2>4. pub[p] \in Publisher /\ r \in Repos
    BY <1>a, <2>1 DEF Publisher
  <2>5. pub'[p].repo = r /\ pub'[p].target = id /\ pub'[p].pc \in {"push", "check"}
    BY <1>a, <2>2, <2>4 DEF Publisher
  <2>6. posts' = posts /\ \A q \in Publishers \ {p} : pub'[q] = pub[q]
    BY <1>2, <1>a, <2>2 DEF SelectTarget
  <2> QED
    BY <2>3, <2>4, <2>5, <2>6, <1>g, <1>t
<1>3. CASE DriftUnknown(p) \/ NoDrift(p) \/ Drift(p) \/ ImportDrift(p) \/ Mark(p) \/ Point(p)
  <2>1. posts' = posts /\ \A q \in Publishers \ {p} : pub'[q] = pub[q]
    BY <1>3, <1>a DEF DriftUnknown, NoDrift, Drift, ImportDrift, Mark, Point, PubGoto
  <2>2. pub[p] \in Publisher
    BY <1>a
  <2>3. /\ pub[p].pc \notin {"off", "next"}
        /\ pub'[p].repo = pub[p].repo /\ pub'[p].target = pub[p].target
        /\ pub'[p].pc # "import"
    BY <1>3, <1>a, <2>2 DEF DriftUnknown, NoDrift, Drift, ImportDrift, Mark, Point, PubGoto,
       PubAt, Publisher
  <2> QED
    BY <2>1, <2>3, <1>g, <1>t
<1>4. CASE NumberImport(p)
  <2>1. posts' = posts /\ \A q \in Publishers \ {p} : pub'[q] = pub[q]
    BY <1>4, <1>a DEF NumberImport
  <2>2. pub[p] \in Publisher /\ MaxVersionOf(pub[p].repo) \in Nat
    BY <1>a, MaxVersionType, StoreAssumption
  <2>3. pub[p].pc = "drift" /\ pub'[p].repo = pub[p].repo /\ pub'[p].target = pub[p].target
        /\ pub'[p].version = MaxVersionOf(pub[p].repo) + 1
    BY <1>4, <1>a, <2>2 DEF NumberImport, PubAt, Publisher
  <2>4. pub'[p].version > 0
    BY <2>2, <2>3
  <2> QED
    BY <2>1, <2>3, <2>4, <1>g, <1>t
<1>5. CASE UpdatePost(p) \/ CreatePost(p) \/ PushFails(p)
  <2>1. pub[p] \in Publisher /\ pub[p].pc = "push"
    BY <1>5, <1>a DEF UpdatePost, CreatePost, PushFails, PubAt
  <2>2. pub[p].target \in RevIds /\ revs[pub[p].target].status \in Decided
    BY <1>a, <2>1 DEF TargetsAreDecided
  <2>3. \A x \in PostIds : posts'[x] = posts[x] \/ posts'[x].by = pub[p].target
    BY <1>5, <1>a DEF UpdatePost, CreatePost, PushFails, Shows
  <2>4. ReviewGate'
    BY <1>a, <1>d, <1>s, <2>2, <2>3 DEF ReviewGate, Decided
  <2>5. \A q \in Publishers \ {p} : pub'[q] = pub[q]
    BY <1>5, <1>a DEF UpdatePost, CreatePost, PushFails, Pushed, NextRepo
  <2>6. \/ pub'[p].pc \in {"off", "next"}
        \/ /\ pub'[p].repo = pub[p].repo /\ pub'[p].target = pub[p].target
           /\ pub'[p].pc # "import"
    <3>1. ASSUME NEW x, Pushed(p, x)
          PROVE /\ pub'[p].repo = pub[p].repo /\ pub'[p].target = pub[p].target
                /\ pub'[p].pc = "mark"
      BY <3>1, <1>a, <2>1 DEF Pushed, Publisher
    <3> QED
      BY <1>5, <1>n, <3>1 DEF UpdatePost, CreatePost, PushFails
  <2> QED
    BY <2>1, <2>4, <2>5, <2>6, <1>t
<1> QED
  BY <1>1, <1>2, <1>3, <1>4, <1>5 DEF PublisherStep

\* A reviewer's requests stay sound while it steps.
LEMMA ReviewerGate ==
    ASSUME GateInv, NEW v \in Reviewers, ReviewerStep(v), RowsForward
    PROVE RequestsAreSound'
<1>a. /\ req \in [Reviewers -> Request] /\ revs \in Table /\ RequestsAreSound
  BY DEF GateInv, TypeOK, ReviewTypeOK, StoreTypeOK, Table
<1>d. \A id \in RevIds : revs[id].status \in Decided => revs'[id].status \in Decided
  BY DecidedStays
<1>b. req[v] \in Request
  BY <1>a
<1> DEFINE Sound(rq) ==
        /\ rq.pc \in {"create", "ours", "list", "theirs", "resume"} => rq.repo \in Repos
        /\ rq.pc = "create" => rq.version > 0
        /\ rq.pc = "decide" =>
            /\ rq.rev \in RevIds
            /\ rq.seen = "pending_review"
            /\ rq.new \in {"approved", "rejected"}
        /\ \A id \in RevIds :
            /\ rq.todo[id] \in {"none", "superseded", "rejected"}
            /\ rq.todo[id] = "superseded" => revs[id].status \in Decided
<1>m. ASSUME NEW rec, Sound(rec), req' = [req EXCEPT ![v] = rec] PROVE RequestsAreSound'
  BY <1>a, <1>d, <1>m DEF RequestsAreSound
<1>n. NoRequest.pc = "off" /\ NoRequest.todo = [id \in RevIds |-> "none"]
  BY DEF NoRequest
<1>o. ASSUME Answer(v) PROVE RequestsAreSound'
  <2>1. Sound(NoRequest)
    BY <1>n
  <2> QED
    BY <1>o, <1>m, <2>1 DEF Answer
<1>1. CASE ReadStatus(v)
  <2>1. PICK id \in RevIds, new \in {"approved", "rejected"} :
            /\ Legal(revs[id].status, new)
            /\ req' = [req EXCEPT ![v] = [NoRequest EXCEPT !.pc = "decide", !.rev = id,
                                             !.seen = revs[id].status, !.new = new]]
    BY <1>1 DEF ReadStatus
  <2>2. revs[id].status = "pending_review"
    BY <2>1 DEF Legal
  <2> DEFINE rec == [NoRequest EXCEPT !.pc = "decide", !.rev = id,
                                      !.seen = revs[id].status, !.new = new]
  <2>3. /\ rec.pc = "decide" /\ rec.rev = id /\ rec.seen = revs[id].status /\ rec.new = new
        /\ rec.todo = NoRequest.todo
    BY NoRequestType DEF Request
  <2> HIDE DEF rec
  <2>4. Sound(rec)
    BY <1>n, <2>2, <2>3
  <2> QED
    BY <1>m, <2>1, <2>4 DEF rec
<1>2. CASE ReadForEdit(v)
  <2>1. PICK id \in RevIds, b \in Bodies :
            /\ Exists(id)
            /\ req' = [req EXCEPT ![v] =
                        [NoRequest EXCEPT !.pc = "create", !.repo = revs[id].repo, !.rev = id,
                                          !.version = MaxVersionOf(revs[id].repo) + 1,
                                          !.body = b]]
    BY <1>2 DEF ReadForEdit
  <2>2. revs[id].repo \in Repos
    BY <1>a, <2>1, UsedIsRevision DEF Exists, Revision
  <2> DEFINE n == MaxVersionOf(revs[id].repo) + 1
             rec == [NoRequest EXCEPT !.pc = "create", !.repo = revs[id].repo, !.rev = id,
                                      !.version = n, !.body = b]
  <2>3. n > 0
    BY MaxVersionType, StoreAssumption
  <2>4. req' = [req EXCEPT ![v] = rec]
    BY <2>1
  <2> HIDE DEF n
  <2>5. /\ rec.pc = "create" /\ rec.repo = revs[id].repo /\ rec.version = n
        /\ rec.todo = NoRequest.todo
    BY NoRequestType DEF Request
  <2> HIDE DEF rec
  <2>6. Sound(rec)
    BY <1>n, <2>2, <2>3, <2>5
  <2> QED
    BY <1>m, <2>4, <2>6
<1>3. CASE ReadDrift(v)
  <2>1. PICK r \in Repos, op \in {"keep_ours", "keep_theirs"} :
            req' = [req EXCEPT ![v] =
                        [NoRequest EXCEPT !.pc = IF op = "keep_ours" THEN "ours" ELSE "list",
                                          !.repo = r]]
    BY <1>3 DEF ReadDrift
  <2> DEFINE rec == [NoRequest EXCEPT !.pc = IF op = "keep_ours" THEN "ours" ELSE "list",
                                      !.repo = r]
  <2>2. rec.pc \in {"ours", "list"} /\ rec.repo = r /\ rec.todo = NoRequest.todo
    BY NoRequestType DEF Request
  <2> HIDE DEF rec
  <2>3. Sound(rec)
    BY <1>n, <2>2
  <2> QED
    BY <1>m, <2>1, <2>3 DEF rec
<1>4. CASE ReadForTheirs(v)
  <2> DEFINE r == req[v].repo
  <2>0. r \in Repos
    BY <1>4, <1>a DEF ReadForTheirs, ReqAt, RequestsAreSound
  <2>1. PICK imp \in RevIds :
            req' = [req EXCEPT ![v] = [NoRequest EXCEPT !.pc = "theirs", !.repo = r,
                                             !.rev = imp, !.todo = Sweep(r, imp)]]
    BY <1>4 DEF ReadForTheirs, NewestFirst, Imports, RowsOf
  <2> HIDE DEF r
  <2> DEFINE rec == [NoRequest EXCEPT !.pc = "theirs", !.repo = r, !.rev = imp,
                                      !.todo = Sweep(r, imp)]
  <2>2. rec.pc = "theirs" /\ rec.repo = r /\ rec.todo = Sweep(r, imp)
    BY NoRequestType DEF Request
  <2>3. \A id \in RevIds :
            /\ Sweep(r, imp)[id] \in {"none", "superseded", "rejected"}
            /\ Sweep(r, imp)[id] = "superseded" => revs[id].status \in Decided
    BY DEF Sweep, Decided
  <2> HIDE DEF rec
  <2>4. Sound(rec)
    BY <2>0, <2>2, <2>3
  <2> QED
    BY <1>m, <2>1, <2>4 DEF rec
<1>5. CASE SweepOne(v)
  <2>1. PICK id \in RevIds : req' = [req EXCEPT ![v].todo[id] = "none"]
    BY <1>5 DEF SweepOne, NewestFirst, Swept
  <2> DEFINE td == [req[v].todo EXCEPT ![id] = "none"]
             rec == [req[v] EXCEPT !.todo = td]
  <2>2. req' = [req EXCEPT ![v] = rec]
    BY <1>a, <2>1
  <2>3. /\ rec.pc = req[v].pc /\ rec.repo = req[v].repo /\ rec.version = req[v].version
        /\ rec.rev = req[v].rev /\ rec.seen = req[v].seen /\ rec.new = req[v].new
        /\ rec.todo = td
    BY <1>b DEF Request
  <2>4. \A j \in RevIds : td[j] = "none" \/ td[j] = req[v].todo[j]
    BY <1>b DEF Request
  <2> HIDE DEF td, rec
  <2>5. Sound(rec)
    BY <1>a, <2>3, <2>4 DEF RequestsAreSound
  <2> QED
    BY <1>m, <2>2, <2>5
<1>6. CASE SweepDone(v)
  <2> DEFINE rec == [req[v] EXCEPT !.pc = "resume"]
  <2>1. req' = [req EXCEPT ![v] = rec] /\ req[v].pc = "theirs"
    BY <1>6, <1>a DEF SweepDone, ReqAt
  <2>2. rec.pc = "resume" /\ rec.repo = req[v].repo /\ rec.todo = req[v].todo
    BY <1>b DEF Request
  <2> HIDE DEF rec
  <2>3. Sound(rec)
    BY <1>a, <2>1, <2>2 DEF RequestsAreSound
  <2> QED
    BY <1>m, <2>1, <2>3
<1>7. CASE \/ WriteStatus(v) \/ CreateEdit(v) \/ EditRefused(v) \/ KeepOurs(v)
           \/ SweepRefused(v) \/ KeepTheirs(v) \/ RequestFails(v)
  BY <1>7, <1>o DEF WriteStatus, CreateEdit, EditRefused, KeepOurs, SweepRefused, KeepTheirs,
     RequestFails
<1> QED
  BY <1>1, <1>2, <1>3, <1>4, <1>5, <1>6, <1>7 DEF ReviewerStep

\* The actors that do not step keep what they have, because decisions are final.
LEMMA BystandersKeep ==
    ASSUME GateInv, RowsForward
    PROVE /\ UNCHANGED <<pub, posts, edits>> =>
                PublisherTypeOK' /\ TargetsAreDecided' /\ ReviewGate'
          /\ UNCHANGED req => ReviewTypeOK' /\ RequestsAreSound'
          /\ UNCHANGED wk => PipelineTypeOK' /\ WorkersHaveARepo'
<1>d. \A id \in RevIds : revs[id].status \in Decided => revs'[id].status \in Decided
  BY DecidedStays
<1>1. ASSUME UNCHANGED <<pub, posts, edits>>
      PROVE PublisherTypeOK' /\ TargetsAreDecided' /\ ReviewGate'
  <2>1. PublisherTypeOK'
    BY <1>1 DEF GateInv, TypeOK, PublisherTypeOK
  <2>2. TargetsAreDecided'
    BY <1>1, <1>d DEF GateInv, TargetsAreDecided
  <2>3. \A x \in PostIds : posts[x].by \in RevIds \cup {NoRev}
    BY DEF GateInv, TypeOK, PublisherTypeOK, Post
  <2>4. ReviewGate'
    BY <1>1, <1>d, <2>3 DEF GateInv, ReviewGate, Decided
  <2> QED
    BY <2>1, <2>2, <2>4
<1>2. ASSUME UNCHANGED req PROVE ReviewTypeOK' /\ RequestsAreSound'
  BY <1>2, <1>d DEF GateInv, TypeOK, ReviewTypeOK, RequestsAreSound
<1>3. ASSUME UNCHANGED wk PROVE PipelineTypeOK' /\ WorkersHaveARepo'
  BY <1>3 DEF GateInv, TypeOK, PipelineTypeOK, WorkersHaveARepo
<1> QED
  BY <1>1, <1>2, <1>3

\* Every step keeps the invariant.
LEMMA GateNext == GateInv /\ [Next]_vars => GateInv'
<1> SUFFICES ASSUME GateInv, [Next]_vars PROVE GateInv'
  OBVIOUS
<1>f. RowsForward
  BY StepForward
<1>k. /\ UNCHANGED <<pub, posts, edits>> =>
            PublisherTypeOK' /\ TargetsAreDecided' /\ ReviewGate'
      /\ UNCHANGED req => ReviewTypeOK' /\ RequestsAreSound'
      /\ UNCHANGED wk => PipelineTypeOK' /\ WorkersHaveARepo'
  BY <1>f, BystandersKeep
<1>a. /\ StoreTypeOK /\ PipelineTypeOK /\ PublisherTypeOK /\ ReviewTypeOK
      /\ WorkersHaveARepo /\ TargetsAreDecided /\ RequestsAreSound /\ ReviewGate
  BY DEF GateInv, TypeOK
<1>1. ASSUME NEW w \in Workers, Process(w) PROVE GateInv'
  <2>1. StoreTypeOK' /\ PipelineTypeOK' /\ WorkersHaveARepo'
    BY <1>1, <1>a, WorkerTypes DEF Process
  <2> QED
    BY <1>1, <1>k, <2>1 DEF Process, GateInv, TypeOK, publishVars
<1>2. ASSUME NEW p \in Publishers, Publish(p) PROVE GateInv'
  <2>1. StoreTypeOK' /\ PublisherTypeOK'
    BY <1>2, <1>a, PublisherTypes DEF Publish
  <2>2. TargetsAreDecided' /\ ReviewGate'
    BY <1>2, <1>f, PublisherGate DEF Publish
  <2> QED
    BY <1>2, <1>k, <2>1, <2>2 DEF Publish, GateInv, TypeOK
<1>3. ASSUME NEW v \in Reviewers, Review(v) PROVE GateInv'
  <2>1. StoreTypeOK' /\ ReviewTypeOK'
    BY <1>3, <1>a, ReviewerTypes DEF Review
  <2>2. RequestsAreSound'
    BY <1>3, <1>f, ReviewerGate DEF Review
  <2> QED
    BY <1>3, <1>k, <2>1, <2>2 DEF Review, GateInv, TypeOK, publishVars
<1>4. ASSUME NEW r \in Repos, Scan(r) PROVE GateInv'
  <2>1. repos' \in [Repos -> Repository]
    <3>1. repos \in [Repos -> Repository] /\ repos[r] \in Repository
      BY <1>a DEF StoreTypeOK
    <3>2. CASE repos[r].sha < MaxSha /\ repos' = [repos EXCEPT ![r].sha = @ + 1]
      <4>1. repos[r].sha + 1 \in 1..MaxSha
        BY <3>1, <3>2, StoreAssumption DEF Repository
      <4>2. [repos[r] EXCEPT !.sha = repos[r].sha + 1] \in Repository
        BY <3>1, <4>1 DEF Repository
      <4> QED
        BY <3>1, <3>2, <4>2
    <3>3. CASE repos' = [repos EXCEPT ![r].archived = ~ @]
      <4>1. (~ repos[r].archived) \in BOOLEAN
        OBVIOUS
      <4>2. [repos[r] EXCEPT !.archived = ~ repos[r].archived] \in Repository
        BY <3>1, <4>1 DEF Repository
      <4> QED
        BY <3>1, <3>3, <4>2
    <3> QED
      BY <1>4, <3>2, <3>3 DEF Scan, Rescan
  <2>2. StoreTypeOK'
    BY <1>4, <1>a, <2>1 DEF Scan, Rescan, StoreTypeOK
  <2> QED
    BY <1>4, <1>k, <2>2 DEF Scan, GateInv, TypeOK, publishVars
<1>5. CASE Site
  <2>1. StoreTypeOK'
    BY <1>5, <1>a DEF Site, SiteEdit, storeVars, StoreTypeOK
  <2>2. posts \in [PostIds -> Post] /\ pub \in [Publishers -> Publisher] /\ edits \in 0..MaxEdits
    BY <1>a DEF PublisherTypeOK
  <2>3. PICK x \in PostIds, b \in Bodies \cup {NoBody} :
            posts' = [posts EXCEPT ![x].body = b, ![x].by = NoRev]
    BY <1>5 DEF Site, SiteEdit
  <2>4. posts' = [posts EXCEPT ![x] = [posts[x] EXCEPT !.body = b, !.by = NoRev]]
    BY <2>2, <2>3
  <2>5. [posts[x] EXCEPT !.body = b, !.by = NoRev] \in Post
        /\ [posts[x] EXCEPT !.body = b, !.by = NoRev].by = NoRev
    BY <2>2 DEF Post
  <2>6. PublisherTypeOK'
    <3>1. edits < MaxEdits /\ edits' = edits + 1 /\ pub' = pub
      BY <1>5 DEF Site, SiteEdit
    <3>2. posts' \in [PostIds -> Post]
      BY <2>2, <2>4, <2>5
    <3>3. edits' \in 0..MaxEdits
      BY <2>2, <3>1, PublisherAssumption
    <3> QED
      BY <2>2, <3>1, <3>2, <3>3 DEF PublisherTypeOK
  <2>7. UNCHANGED <<revs, pub>>
    BY <1>5 DEF Site, SiteEdit, storeVars
  <2>8. TargetsAreDecided'
    BY <1>a, <2>7 DEF TargetsAreDecided
  <2>9. ReviewGate'
    BY <1>a, <2>2, <2>4, <2>5, <2>7 DEF ReviewGate
  <2> QED
    BY <1>5, <1>k, <2>1, <2>6, <2>8, <2>9 DEF Site, GateInv, TypeOK
<1>6. CASE UNCHANGED vars
  <2>1. StoreTypeOK'
    BY <1>6, <1>a DEF vars, storeVars, StoreTypeOK
  <2> QED
    BY <1>6, <1>k, <2>1 DEF vars, publishVars, GateInv, TypeOK
<1> QED
  BY <1>1, <1>2, <1>3, <1>4, <1>5, <1>6 DEF Next

-----------------------------------------------------------------------------
(***************************************************************************)
(* The theorems.                                                           *)
(***************************************************************************)

\* The invariant holds whatever fails and whoever runs beside whom.
THEOREM GateInvariant == Spec => []GateInv
  BY GateInit, GateNext, PTL DEF Spec

\* Every reachable state of the content workflow is well typed: rows, pointers,
\* states, and what each actor remembers.
THEOREM ContentTypeCorrect == Spec => []TypeOK
<1>1. GateInv => TypeOK
  BY DEF GateInv
<1> QED
  BY <1>1, GateInvariant, PTL

\* The review gate: `publish` never puts on Patreon what was not approved.
THEOREM NothingUnreviewedGoesLive == Spec => []ReviewGate
<1>1. GateInv => ReviewGate
  BY DEF GateInv
<1> QED
  BY <1>1, GateInvariant, PTL

\* content_revisions is append-only and its statuses only move forward.
THEOREM HistoryIsAppendOnly == Spec => AppendOnly
<1>1. GateInv /\ [Next]_vars =>
        [\A id \in RevIds : Used(id) =>
            /\ revs'[id].repo = revs[id].repo /\ revs'[id].version = revs[id].version
            /\ revs'[id].source = revs[id].source /\ revs'[id].body = revs[id].body
            /\ revs'[id].sha = revs[id].sha /\ revs'[id].from = revs[id].from
            /\ revs'[id].status = revs[id].status \/ Legal(revs[id].status, revs'[id].status)
            /\ revs[id].live => revs'[id].live]_vars
  BY StepForward DEF RowsForward, RowForward, Legal
<1> QED
  BY <1>1, GateInvariant, PTL DEF Spec, AppendOnly

\* No command and no request supersedes a draft nobody has reviewed, not even
\* keep_theirs, whose sweep works from a stale list.
THEOREM NoDraftIsBuried == Spec => DraftsNeverBuried
<1>1. GateInv /\ [Next]_vars =>
        [\A id \in RevIds : Used(id) /\ revs[id].status = "pending_review" =>
            revs'[id].status \in {"pending_review", "approved", "rejected"}]_vars
  BY StepForward DEF RowsForward, RowForward
<1> QED
  BY <1>1, GateInvariant, PTL DEF Spec, DraftsNeverBuried
-----------------------------------------------------------------------------
(***************************************************************************)
(* Retention and version numbers.  Runs may prune beside each other, each  *)
(* from a list of its own.                                                 *)
(***************************************************************************)
UsedIds == {id \in RevIds : Used(id)}
Newer(id) == {j \in RowsOf(revs[id].repo) : revs[j].version > revs[id].version}

\* A row with KeepTop newer ones of its repository in the table.
Backed(id) == id \in UsedIds /\ Cardinality(Newer(id)) >= KeepTop

\* What is deleted, and what a pruner is about to delete, is backed.
RetentionInv ==
    /\ IsFiniteSet(UsedIds)
    /\ \A id \in deleted : Backed(id)
    /\ \A w \in Workers : \A id \in wk[w].doomed : Backed(id)

\* A row that was written stays written.
LEMMA UsedStays ==
    ASSUME RowsForward PROVE \A id \in RevIds : Used(id) => Used(id)'
  BY DEF RowsForward, RowForward, Used

\* INSERT writes its row and no other.
LEMMA InsertedRow ==
    ASSUME revs \in Table, NEW id \in RevIds, NEW row, revs' = Insert(id, row)
    PROVE revs'[id] = row /\ \A j \in RevIds \ {id} : revs'[j] = revs[j]
  BY DEF Table, Insert

\* An UPDATE of a status writes no new row.
LEMMA CASUsed ==
    ASSUME revs \in Table, NEW id, NEW seen, NEW new, revs' = CASStatus(id, seen, new)
    PROVE \A j \in RevIds : Used(j)' => Used(j)
<1>1. CASE Exists(id)
  <2>1. \A j \in RevIds \ {id} : revs'[j] = revs[j]
    BY DEF CASStatus, Table
  <2> QED
    BY <1>1, <2>1 DEF Exists, Used
<1> QED
  BY <1>1 DEF CASStatus, Used

\* MarkPublished writes no new row.
LEMMA MarkUsed ==
    ASSUME revs \in Table, NEW id, NEW post, revs' = MarkPublished(id, post)
    PROVE \A j \in RevIds : Used(j)' => Used(j)
<1>1. CASE Exists(id)
  <2>1. \A j \in RevIds \ {id} : revs'[j] = revs[j]
    BY DEF MarkPublished, Table
  <2> QED
    BY <1>1, <2>1 DEF Exists, Used
<1> QED
  BY <1>1 DEF MarkPublished, Used

\* SupersedeOlderApproved writes no new row.
LEMMA SupersedeUsed ==
    ASSUME NEW r, NEW version, revs' = SupersedeOlderApproved(r, version)
    PROVE \A j \in RevIds : Used(j)' => Used(j)
  BY DEF SupersedeOlderApproved, WithStatus, RowsOf, Exists, Used

\* Three statements write rows: the pipeline's insert, the import of a drifted post
\* and the insert of an edit.
LEMMA StepRows ==
    ASSUME GateInv, [Next]_vars
    PROVE \/ \A id \in RevIds : Used(id)' => Used(id)
          \/ \E w \in Workers : Process(w) /\ InsertDraft(w)
          \/ \E p \in Publishers : Publish(p) /\ ImportDrift(p)
          \/ \E v \in Reviewers : Review(v) /\ CreateEdit(v)
<1> DEFINE Same == \A id \in RevIds : Used(id)' => Used(id)
<1>a. revs \in Table
  BY DEF GateInv, TypeOK, StoreTypeOK, Table
<1>u. revs' = revs => Same
  BY DEF Used
<1> HIDE DEF Same
<1>1. ASSUME NEW w \in Workers, Process(w) PROVE InsertDraft(w) \/ Same
  <2>1. InsertDraft(w) \/ revs' = revs
    BY <1>1 DEF Process, WorkerStep, AbortRun, StartRun, ReadRepo, MarkProcessing, Generate,
       GenerateFails, Dedup, TxFails, RevertDeduped, RevertFailed, PointToDraft, AwaitReview,
       StampProcessed, PruneAll, ListDoomed, PruneOne, PruneRefused, FinishRun, storeVars
  <2> QED
    BY <1>u, <2>1
<1>2. ASSUME NEW p \in Publishers, Publish(p) PROVE ImportDrift(p) \/ Same
  <2>1. CASE Mark(p)
    BY <1>a, <1>u, <2>1, MarkUsed DEF Mark, Same
  <2>2. CASE Supersede(p)
    BY <1>u, <2>2, SupersedeUsed DEF Supersede, Same
  <2>3. ImportDrift(p) \/ Mark(p) \/ Supersede(p) \/ revs' = revs
    BY <1>2 DEF Publish, PublisherStep, CrashPublish, ListRepos, SkipRepo, SelectTarget,
       DriftUnknown, NoDrift, Drift, NumberImport, ImportFails, HaltRepo, UpdatePost,
       CreatePost, PushFails, Point, FinishPublish, storeVars
  <2> QED
    BY <1>u, <2>1, <2>2, <2>3
<1>3. ASSUME NEW v \in Reviewers, Review(v) PROVE CreateEdit(v) \/ Same
  <2>1. CASE WriteStatus(v)
    BY <1>a, <2>1, CASUsed DEF WriteStatus, Same
  <2>2. CASE SweepOne(v)
    <3>1. PICK id : revs' = CASStatus(id, revs[id].status, req[v].todo[id])
      BY <2>2 DEF SweepOne
    <3> QED
      BY <1>a, <3>1, CASUsed DEF Same
  <2>3. WriteStatus(v) \/ CreateEdit(v) \/ SweepOne(v) \/ revs' = revs
    BY <1>3 DEF Review, ReviewerStep, ReadStatus, ReadForEdit, EditRefused, ReadDrift,
       KeepOurs, ReadForTheirs, SweepRefused, SweepDone, KeepTheirs, RequestFails, storeVars
  <2> QED
    BY <1>u, <2>1, <2>2, <2>3
<1>4. ASSUME (\E r \in Repos : Scan(r)) \/ Site \/ UNCHANGED vars PROVE Same
  BY <1>4, <1>u DEF Scan, Rescan, Site, SiteEdit, vars, storeVars
<1> QED
  BY <1>1, <1>2, <1>3, <1>4 DEF Next, Same

\* At most one row is written in a step.
LEMMA OneNewRow ==
    ASSUME GateInv, [Next]_vars PROVE \E id : UsedIds' \subseteq UsedIds \cup {id}
<1>a. revs \in Table
  BY DEF GateInv, TypeOK, StoreTypeOK, Table
<1>1. CASE \A id \in RevIds : Used(id)' => Used(id)
  BY <1>1 DEF UsedIds
<1>2. CASE \E id \in Fresh : \E row : revs' = Insert(id, row)
  <2>1. PICK id \in Fresh : \E row : revs' = Insert(id, row)
    BY <1>2
  <2>2. PICK row : revs' = Insert(id, row)
    BY <2>1
  <2>3. id \in RevIds /\ \A j \in RevIds \ {id} : revs'[j] = revs[j]
    BY <1>a, <2>2, InsertedRow DEF Fresh
  <2> QED
    BY <2>3 DEF UsedIds, Used
<1> QED
  BY <1>1, <1>2, StepRows DEF InsertDraft, ImportDrift, CreateEdit

\* So there are finitely many.
LEMMA FiniteRows ==
    ASSUME GateInv, [Next]_vars, IsFiniteSet(UsedIds) PROVE IsFiniteSet(UsedIds')
<1>1. PICK id : UsedIds' \subseteq UsedIds \cup {id}
  BY OneNewRow
<1>2. IsFiniteSet(UsedIds \cup {id})
  BY FS_AddElement
<1> QED
  BY <1>1, <1>2, FS_Subset

\* While no row goes, a backed row stays backed.
LEMMA BackedStays ==
    ASSUME RowsForward, deleted' = deleted, IsFiniteSet(UsedIds'), NEW id, Backed(id)
    PROVE Backed(id)'
<1>1. id \in RevIds /\ Used(id) /\ RowForward(id)
  BY DEF Backed, UsedIds, RowsForward
<1>2. \A j \in RevIds : Used(j) => Used(j)' /\ RowForward(j)
  BY UsedStays DEF RowsForward
<1>3. Newer(id) \subseteq Newer(id)'
  BY <1>1, <1>2 DEF Newer, RowsOf, Exists, RowForward
<1>4. Newer(id)' \subseteq UsedIds'
  BY DEF Newer, RowsOf, Exists, UsedIds
<1>5. IsFiniteSet(Newer(id)')
  BY <1>4, FS_Subset
<1>6. Cardinality(Newer(id)) <= Cardinality(Newer(id)') /\ IsFiniteSet(Newer(id))
  BY <1>3, <1>5, FS_Subset
<1>7. Cardinality(Newer(id)) \in Nat /\ Cardinality(Newer(id)') \in Nat /\ KeepTop \in Nat
  BY <1>5, <1>6, FS_CardinalityType, PipelineAssumption
<1>8. Cardinality(Newer(id)') >= KeepTop
  BY <1>6, <1>7 DEF Backed
<1> QED
  BY <1>1, <1>2, <1>8 DEF Backed, UsedIds

\* Deleting a backed row takes a newer row only from rows that are backed by the
\* ones it has itself.
LEMMA BackedPruned ==
    ASSUME IsFiniteSet(UsedIds), revs' = revs, NEW gone, Backed(gone),
           deleted' = deleted \cup {gone}, NEW id, Backed(id), revs \in Table
    PROVE Backed(id)'
<1>1. Newer(id)' = Newer(id) \ {gone}
  BY DEF Newer, RowsOf, Exists, Used
<1>2. IsFiniteSet(Newer(id)) /\ IsFiniteSet(Newer(gone)) /\ UsedIds' = UsedIds
  <2>1. Newer(id) \subseteq UsedIds /\ Newer(gone) \subseteq UsedIds
    BY DEF Newer, RowsOf, Exists, UsedIds
  <2> QED
    BY <2>1, FS_Subset DEF UsedIds, Used
<1>3. CASE gone \notin Newer(id)
  <2>1. Newer(id) \ {gone} = Newer(id)
    BY <1>3
  <2> QED
    BY <1>1, <1>2, <2>1 DEF Backed
<1>4. CASE gone \in Newer(id)
  <2>1. id \in RevIds /\ gone \in RevIds /\ revs[id].version \in Nat /\ revs[gone].version \in Nat
    BY UsedIsRevision, StoreAssumption DEF Backed, UsedIds, Revision
  <2>2. \A j \in Newer(gone) : j \in Newer(id) /\ j # gone
    <3> SUFFICES ASSUME NEW j \in Newer(gone) PROVE j \in Newer(id) /\ j # gone
      OBVIOUS
    <3>1. revs[j].version \in Nat
      BY UsedIsRevision, StoreAssumption DEF Newer, RowsOf, Exists, Revision
    <3>2. /\ j \in RowsOf(revs[gone].repo) /\ revs[gone].repo = revs[id].repo
          /\ revs[j].version > revs[gone].version /\ revs[gone].version > revs[id].version
      BY <1>4 DEF Newer, RowsOf
    <3>3. revs[j].version > revs[id].version /\ j # gone
      BY <2>1, <3>1, <3>2
    <3> QED
      BY <3>2, <3>3 DEF Newer
  <2>3. Newer(gone) \subseteq Newer(id) \ {gone} /\ IsFiniteSet(Newer(id) \ {gone})
    BY <1>2, <2>2, FS_Subset
  <2>4. Cardinality(Newer(gone)) <= Cardinality(Newer(id) \ {gone})
    BY <2>3, FS_Subset
  <2>5. Cardinality(Newer(gone)) \in Nat /\ Cardinality(Newer(id) \ {gone}) \in Nat /\ KeepTop \in Nat
    BY <1>2, <2>3, FS_CardinalityType, PipelineAssumption
  <2>6. Cardinality(Newer(id) \ {gone}) >= KeepTop
    BY <2>4, <2>5 DEF Backed
  <2> QED
    BY <1>1, <1>2, <2>6 DEF Backed
<1> QED
  BY <1>3, <1>4

\* Except for the pruner's own steps, nothing is deleted and no worker's list of
\* doomed rows grows.
LEMMA DoomedShrinks ==
    ASSUME PipelineTypeOK, NEW w \in Workers, WorkerStep(w) \/ AbortRun(w)
    PROVE \/ ListDoomed(w) \/ PruneOne(w)
          \/ deleted' = deleted /\ \A u \in Workers : wk'[u].doomed \subseteq wk[u].doomed
<1> DEFINE Shrinks == \A u \in Workers : wk'[u].doomed \subseteq wk[u].doomed
<1>a. wk \in [Workers -> Worker] /\ wk[w] \in Worker /\ Off \in Worker
  BY OffType DEF PipelineTypeOK
<1>b. ASSUME NEW x \in Worker, x.doomed = {}, wk' = [wk EXCEPT ![w] = x] PROVE Shrinks
  BY <1>a, <1>b
<1>c. ASSUME NEW pc, Goto(w, pc) PROVE Shrinks
  BY <1>a, <1>c DEF Goto, Worker
<1>d. ASSUME NEW x, wk' = [wk EXCEPT ![w] = x], x.doomed = {} PROVE Shrinks
  BY <1>a, <1>d
<1>1. ASSUME Stop(w) \/ Continue(w) PROVE Shrinks
  <2>1. Off.doomed = {}
    BY DEF Off
  <2>2. [Off EXCEPT !.pc = "next", !.queue = wk[w].queue, !.order = wk[w].order].doomed = {}
    BY DEF Off
  <2> QED
    BY <1>1, <1>d, <2>1, <2>2 DEF Stop, Continue
<1>2. CASE StartRun(w) \/ ReadRepo(w) \/ PruneAll(w)
  <2>1. ASSUME StartRun(w) PROVE Shrinks
    <3>1. [Off EXCEPT !.pc = "next", !.queue = BuildQueue, !.order = fair].doomed = {}
      BY DEF Off
    <3> QED
      BY <1>d, <2>1, <3>1 DEF StartRun
  <2>2. ASSUME ReadRepo(w) PROVE Shrinks
    <3>1. PICK r : wk' = [wk EXCEPT ![w] =
                     [Off EXCEPT !.pc = "read", !.repo = r, !.sha = repos[r].sha,
                                 !.queue = wk[w].queue \ {r}, !.order = wk[w].order]]
      BY <2>2 DEF ReadRepo
    <3>2. [Off EXCEPT !.pc = "read", !.repo = r, !.sha = repos[r].sha,
                      !.queue = wk[w].queue \ {r}, !.order = wk[w].order].doomed = {}
      BY DEF Off
    <3> QED
      BY <1>d, <3>1, <3>2
  <2>3. ASSUME PruneAll(w) PROVE Shrinks
    <3>1. [Off EXCEPT !.pc = "pruning", !.queue = Repos, !.order = fair].doomed = {}
      BY DEF Off
    <3> QED
      BY <1>d, <2>3, <3>1 DEF PruneAll
  <2>4. Shrinks
    BY <1>2, <2>1, <2>2, <2>3
  <2> QED
    BY <1>2, <2>4 DEF StartRun, ReadRepo, PruneAll, storeVars
<1>3. CASE Generate(w) \/ InsertDraft(w)
  <2>1. wk' = [wk EXCEPT ![w] = wk'[w]] /\ wk'[w].doomed = wk[w].doomed
    BY <1>3, <1>a DEF Generate, InsertDraft, Worker
  <2>2. Shrinks
    BY <1>a, <2>1
  <2> QED
    BY <1>3, <2>2 DEF Generate, InsertDraft, storeVars
<1>4. CASE \/ MarkProcessing(w) \/ GenerateFails(w) \/ Dedup(w) \/ TxFails(w)
           \/ PointToDraft(w) \/ AwaitReview(w)
  BY <1>4, <1>c DEF MarkProcessing, GenerateFails, Dedup, TxFails, PointToDraft, AwaitReview,
     storeVars
<1>5. CASE \/ RevertDeduped(w) \/ RevertFailed(w) \/ StampProcessed(w) \/ PruneRefused(w)
           \/ FinishRun(w) \/ AbortRun(w)
  BY <1>5, <1>1 DEF RevertDeduped, RevertFailed, StampProcessed, PruneRefused, FinishRun,
     AbortRun, storeVars
<1> QED
  BY <1>2, <1>3, <1>4, <1>5 DEF WorkerStep

\* The list of a repository's rows that may go holds backed rows only.
LEMMA ListedAreBacked ==
    ASSUME NEW r, NEW id \in ForRetention(r, KeepTop) PROVE Backed(id)
<1>1. id \in RowsOf(r) /\ Rank(r, id) >= KeepTop
  BY DEF ForRetention
<1>2. revs[id].repo = r /\ id \in UsedIds
  BY <1>1 DEF RowsOf, Exists, UsedIds
<1>3. Rank(r, id) = Cardinality(Newer(id))
  BY <1>2 DEF Rank, Newer
<1> QED
  BY <1>1, <1>2, <1>3 DEF Backed

\* No row has been written at first.
LEMMA RetentionInit == Init => RetentionInv
<1> SUFFICES ASSUME Init PROVE RetentionInv
  OBVIOUS
<1>1. UsedIds = {} /\ deleted = {}
  BY DEF Init, StoreInit, UsedIds, Used, Unused
<1>2. \A w \in Workers : wk[w].doomed = {}
  BY DEF Init, PipelineInit, Off
<1> QED
  BY <1>1, <1>2, FS_EmptySet DEF RetentionInv

\* Every step keeps what is deleted or doomed backed.
LEMMA RetentionNext ==
    ASSUME GateInv, RetentionInv, [Next]_vars PROVE RetentionInv'
<1>f. RowsForward /\ IsFiniteSet(UsedIds')
  BY StepForward, FiniteRows DEF RetentionInv
<1>a. revs \in Table /\ PipelineTypeOK /\ wk \in [Workers -> Worker]
  BY DEF GateInv, TypeOK, StoreTypeOK, Table, PipelineTypeOK
<1>b. IsFiniteSet(UsedIds) /\ \A w \in Workers : wk[w].doomed \subseteq RevIds
  BY <1>a DEF RetentionInv, Worker
<1>1. ASSUME deleted' = deleted, \A u \in Workers : wk'[u].doomed \subseteq wk[u].doomed
      PROVE RetentionInv'
  <2>1. \A id : Backed(id) => Backed(id)'
    BY <1>1, <1>f, BackedStays
  <2> QED
    BY <1>1, <1>f, <2>1 DEF RetentionInv
<1>2. ASSUME NEW w \in Workers, ListDoomed(w) PROVE RetentionInv'
  <2>1. PICK r : wk' = [wk EXCEPT ![w].queue = @ \ {r}, ![w].doomed = ForRetention(r, KeepTop)]
    BY <1>2 DEF ListDoomed
  <2>2. wk'[w].doomed = ForRetention(r, KeepTop) /\ \A u \in Workers \ {w} : wk'[u] = wk[u]
    BY <1>a, <2>1 DEF Worker
  <2>3. deleted' = deleted
    BY <1>2 DEF ListDoomed, storeVars
  <2>4. \A id : Backed(id) => Backed(id)'
    BY <1>f, <2>3, BackedStays
  <2>5. \A id \in wk'[w].doomed : Backed(id)
    BY <2>2, ListedAreBacked
  <2> QED
    BY <1>f, <2>2, <2>3, <2>4, <2>5 DEF RetentionInv
<1>3. ASSUME NEW w \in Workers, PruneOne(w) PROVE RetentionInv'
  <2>1. PICK gone \in NewestFirst(wk[w].doomed) :
            /\ deleted' = deleted \cup {gone}
            /\ wk' = [wk EXCEPT ![w].doomed = @ \ {gone}]
    BY <1>3 DEF PruneOne
  <2>2. gone \in wk[w].doomed /\ Backed(gone) /\ revs' = revs
    BY <1>3, <2>1 DEF NewestFirst, RetentionInv, PruneOne
  <2>3. \A u \in Workers : wk'[u].doomed \subseteq wk[u].doomed
    BY <1>a, <2>1 DEF Worker
  <2>4. \A id : Backed(id) => Backed(id)'
    BY <1>a, <1>b, <2>1, <2>2, BackedPruned
  <2> QED
    BY <1>f, <2>1, <2>2, <2>3, <2>4 DEF RetentionInv
<1>4. ASSUME NEW w \in Workers, Process(w) PROVE RetentionInv'
  BY <1>4, <1>1, <1>2, <1>3, <1>a, DoomedShrinks DEF Process
<1>5. CASE (\E p \in Publishers : Publish(p)) \/ (\E v \in Reviewers : Review(v))
  <2>1. deleted' = deleted /\ wk' = wk
    BY <1>5 DEF Publish, PublisherStep, CrashPublish, ListRepos, SkipRepo, SelectTarget,
       DriftUnknown, NoDrift, Drift, NumberImport, ImportDrift, ImportFails, HaltRepo,
       UpdatePost, CreatePost, PushFails, Mark, Point, Supersede, FinishPublish,
       Review, ReviewerStep, ReadStatus, WriteStatus, ReadForEdit, CreateEdit, EditRefused,
       ReadDrift, KeepOurs, ReadForTheirs, SweepOne, SweepRefused, SweepDone, KeepTheirs,
       RequestFails, storeVars
  <2> QED
    BY <1>1, <2>1
<1>6. CASE (\E r \in Repos : Scan(r)) \/ Site \/ UNCHANGED vars
  <2>1. deleted' = deleted /\ wk' = wk
    BY <1>6 DEF Scan, Rescan, Site, SiteEdit, vars, storeVars
  <2> QED
    BY <1>1, <2>1
<1> QED
  BY <1>4, <1>5, <1>6 DEF Next

\* What is deleted, and what any run's pruner holds in its list, is backed, whoever
\* writes or prunes meanwhile.
THEOREM RetentionInvariant == Spec => []RetentionInv
  BY GateInvariant, RetentionInit, RetentionNext, PTL DEF Spec

\* Retention keeps the newest KeepTop rows: however many runs prune beside each other
\* from lists that are stale, each deleted row has left KeepTop newer ones.
THEOREM NewestRevisionsAreKept == Spec => []NewestAreKept
<1>1. RetentionInv => NewestAreKept
  BY DEF RetentionInv, NewestAreKept, Backed, Newer
<1> QED
  BY <1>1, RetentionInvariant, PTL

\* MaxVersion is not below any row's version.
LEMMA MaxIsGreatest ==
    ASSUME revs \in Table, NEW r, NEW id \in RowsOf(r)
    PROVE revs[id].version <= MaxVersionOf(r) /\ revs[id].version \in 1..VersionBound
<1> DEFINE v == revs[id].version
           reached == {n \in 1..VersionBound : \E j \in RowsOf(r) : n <= revs[j].version}
<1>1. v \in 1..VersionBound
  BY UsedIsRevision DEF RowsOf, Exists, Revision
<1>2. \A n \in 1..v : n \in reached
  BY <1>1, StoreAssumption
<1>3. IsFiniteSet(1..v) /\ Cardinality(1..v) = v /\ IsFiniteSet(1..VersionBound)
  <2>1. v \in Nat /\ VersionBound \in Nat
    BY <1>1, StoreAssumption
  <2> HIDE DEF v
  <2>2. Cardinality(1..v) = v
    BY <2>1, FS_Interval
  <2> QED
    BY <2>1, <2>2, FS_Interval
<1>4. IsFiniteSet(reached)
  BY <1>3, FS_Subset
<1>5. Cardinality(reached) = MaxVersionOf(r)
  BY DEF MaxVersionOf
<1> HIDE DEF v, reached
<1>6. 1..v \subseteq reached
  BY <1>2
<1>7. Cardinality(1..v) <= Cardinality(reached)
  BY <1>4, <1>6, FS_Subset
<1> QED
  BY <1>1, <1>3, <1>5, <1>7 DEF v

\* With rows to keep, the newest row of a repository is never deleted: MAX(version) is
\* not below any version a row of the repository ever had.
LEMMA MaxCoversDeleted ==
    ASSUME revs \in Table, RetentionInv, KeepTop # 0, NEW id \in RevIds, Used(id)
    PROVE revs[id].version <= MaxVersionOf(revs[id].repo)
<1>1. revs[id] \in Revision /\ revs[id].version \in Nat
  BY UsedIsRevision, StoreAssumption DEF Revision
<1>2. CASE id \notin deleted
  BY <1>2, MaxIsGreatest DEF RowsOf, Exists
<1>3. CASE id \in deleted
  <2>1. Cardinality(Newer(id)) >= KeepTop
    BY <1>3 DEF RetentionInv, Backed
  <2>2. Newer(id) # {}
    <3>1. KeepTop \in Nat \ {0}
      BY PipelineAssumption
    <3>2. Newer(id) = {} => Cardinality(Newer(id)) = 0
      BY FS_EmptySet
    <3> QED
      BY <2>1, <3>1, <3>2
  <2>3. PICK j \in Newer(id) : TRUE
    BY <2>2
  <2>4. j \in RowsOf(revs[id].repo) /\ revs[j].version > revs[id].version
    BY <2>3 DEF Newer
  <2>5. revs[j].version <= MaxVersionOf(revs[id].repo) /\ revs[j].version \in Nat
    BY <2>4, MaxIsGreatest, StoreAssumption
  <2>6. MaxVersionOf(revs[id].repo) \in Nat
    BY MaxVersionType, StoreAssumption
  <2> QED
    BY <1>1, <2>4, <2>5, <2>6
<1> QED
  BY <1>2, <1>3

\* Two rows that share a number of a repository.
Twins(i, j) ==
    /\ Used(i) /\ Used(j) /\ i # j
    /\ revs[i].repo = revs[j].repo /\ revs[i].version = revs[j].version

\* A row inserted under a fresh id gives an old row a twin only as the property allows.
LEMMA InsertedTwins ==
    ASSUME GateInv, VersionsNeverReused, deleted \subseteq UsedIds,
           NEW id \in Fresh, NEW row, revs' = Insert(id, row), deleted' = deleted,
           \A j \in RevIds : Used(j) /\ revs[j].repo = row.repo /\ revs[j].version = row.version
                               => j \in deleted /\ row.source # "generated"
    PROVE VersionsNeverReused'
<1>a. revs \in Table
  BY DEF GateInv, TypeOK, StoreTypeOK, Table
<1>1. id \in RevIds /\ ~ Used(id) /\ revs'[id] = row /\ \A j \in RevIds \ {id} : revs'[j] = revs[j]
  BY <1>a, InsertedRow DEF Fresh, Used
<1>2. ASSUME NEW i \in RevIds, NEW j \in RevIds, Twins(i, j)', i # id, j # id
      PROVE Reuses(i, j)' \/ Reuses(j, i)'
  <2>1. revs'[i] = revs[i] /\ revs'[j] = revs[j]
    BY <1>1, <1>2
  <2>2. Twins(i, j)
    BY <1>2, <2>1 DEF Twins, Used
  <2>3. Reuses(i, j) \/ Reuses(j, i)
    BY <2>2 DEF VersionsNeverReused, Twins
  <2> QED
    BY <2>1, <2>3 DEF Reuses
<1>3. ASSUME NEW j \in RevIds, Twins(id, j)' \/ Twins(j, id)' PROVE Reuses(id, j)'
  <2>1. j # id /\ revs'[j] = revs[j] /\ Used(j)
        /\ revs[j].repo = row.repo /\ revs[j].version = row.version
    BY <1>1, <1>3 DEF Twins, Used
  <2>2. j \in deleted /\ row.source # "generated"
    BY <2>1
  <2> QED
    BY <1>1, <2>2 DEF Reuses
<1> QED
  BY <1>2, <1>3 DEF VersionsNeverReused, Twins

\* A step that writes no row pairs no rows anew.
LEMMA OldTwins ==
    ASSUME VersionsNeverReused, RowsForward, deleted \subseteq deleted',
           \A id \in RevIds : Used(id)' => Used(id)
    PROVE VersionsNeverReused'
<1> SUFFICES ASSUME NEW i \in RevIds, NEW j \in RevIds, Twins(i, j)'
             PROVE Reuses(i, j)' \/ Reuses(j, i)'
  BY DEF VersionsNeverReused, Twins
<1>1. Used(i) /\ Used(j) /\ i # j
  BY DEF Twins
<1>2. RowForward(i) /\ RowForward(j)
  BY <1>1 DEF RowsForward
<1>3. Twins(i, j)
  BY <1>1, <1>2 DEF Twins, RowForward
<1>4. Reuses(i, j) \/ Reuses(j, i)
  BY <1>1, <1>3 DEF VersionsNeverReused, Twins
<1> QED
  BY <1>2, <1>4 DEF Reuses, RowForward

\* No row is ever undeleted.
LEMMA DeletedStays == ASSUME [Next]_vars PROVE deleted \subseteq deleted'
<1>1. ASSUME NEW w \in Workers, Process(w) PROVE deleted \subseteq deleted'
  BY <1>1 DEF Process, WorkerStep, AbortRun, StartRun, ReadRepo, MarkProcessing, Generate,
     GenerateFails, Dedup, InsertDraft, TxFails, RevertDeduped, RevertFailed, PointToDraft,
     AwaitReview, StampProcessed, PruneAll, ListDoomed, PruneOne, PruneRefused, FinishRun,
     storeVars
<1>2. CASE (\E p \in Publishers : Publish(p)) \/ (\E v \in Reviewers : Review(v))
  BY <1>2 DEF Publish, PublisherStep, CrashPublish, ListRepos, SkipRepo, SelectTarget,
     DriftUnknown, NoDrift, Drift, NumberImport, ImportDrift, ImportFails, HaltRepo,
     UpdatePost, CreatePost, PushFails, Mark, Point, Supersede, FinishPublish,
     Review, ReviewerStep, ReadStatus, WriteStatus, ReadForEdit, CreateEdit, EditRefused,
     ReadDrift, KeepOurs, ReadForTheirs, SweepOne, SweepRefused, SweepDone, KeepTheirs,
     RequestFails, storeVars
<1>3. CASE (\E r \in Repos : Scan(r)) \/ Site \/ UNCHANGED vars
  BY <1>3 DEF Scan, Rescan, Site, SiteEdit, vars, storeVars
<1> QED
  BY <1>1, <1>2, <1>3 DEF Next

\* Every step keeps numbers from naming two rows.  The pipeline's insert takes the
\* number above MAX(version) in the statement that reads it; an edit and an import,
\* which read it earlier, are refused the number of a row that is there.
LEMMA VersionsNext ==
    ASSUME GateInv, RetentionInv, VersionsNeverReused, KeepTop # 0, [Next]_vars
    PROVE VersionsNeverReused'
<1>a. revs \in Table /\ deleted \subseteq UsedIds
  BY DEF GateInv, TypeOK, StoreTypeOK, Table, RetentionInv, Backed
<1>1. CASE \A id \in RevIds : Used(id)' => Used(id)
  BY <1>1, StepForward, DeletedStays, OldTwins
<1>2. ASSUME NEW w \in Workers, InsertDraft(w) PROVE VersionsNeverReused'
  <2> DEFINE r == wk[w].repo
             v == MaxVersionOf(r) + 1
             row == NewRow(r, v, "generated", "pending_review", wk[w].body, wk[w].sha,
                           NoPost, NoRev)
  <2>1. PICK id \in Fresh : revs' = Insert(id, row)
    BY <1>2 DEF InsertDraft
  <2>2. deleted' = deleted
    BY <1>2 DEF InsertDraft
  <2>3. row.repo = r /\ row.version = v
    BY DEF NewRow
  <2>4. \A j \in RevIds : Used(j) /\ revs[j].repo = r => revs[j].version # v
    <3> SUFFICES ASSUME NEW j \in RevIds, Used(j), revs[j].repo = r
                 PROVE revs[j].version # v
      OBVIOUS
    <3>1. revs[j].version <= MaxVersionOf(r)
      BY <1>a, MaxCoversDeleted
    <3>2. MaxVersionOf(r) \in Nat
      BY MaxVersionType, StoreAssumption
    <3>3. revs[j].version \in Nat
      BY <1>a, UsedIsRevision, StoreAssumption DEF Revision
    <3> HIDE DEF r
    <3> QED
      BY <3>1, <3>2, <3>3
  <2> HIDE DEF r, v, row
  <2> QED
    BY <1>a, <2>1, <2>2, <2>3, <2>4, InsertedTwins
<1>3. ASSUME NEW r, NEW v, NEW row, NEW id \in Fresh, revs' = Insert(id, row), deleted' = deleted,
             row.repo = r, row.version = v, row.source # "generated", ~ VersionTaken(r, v)
      PROVE VersionsNeverReused'
  <2>1. \A j \in RevIds : Used(j) /\ revs[j].repo = row.repo /\ revs[j].version = row.version
                            => j \in deleted
    BY <1>3 DEF VersionTaken, RowsOf, Exists
  <2> QED
    BY <1>3, <1>a, <2>1, InsertedTwins
<1>4. ASSUME NEW p \in Publishers, ImportDrift(p) PROVE VersionsNeverReused'
  <2> DEFINE row == NewRow(pub[p].repo, pub[p].version, "patreon_import", "approved",
                           pub[p].seen, 0, pub[p].post, NoRev)
  <2>1. PICK id \in Fresh : revs' = Insert(id, row)
    BY <1>4 DEF ImportDrift
  <2>2. deleted' = deleted /\ ~ VersionTaken(pub[p].repo, pub[p].version)
    BY <1>4 DEF ImportDrift
  <2>3. row.repo = pub[p].repo /\ row.version = pub[p].version /\ row.source # "generated"
    BY DEF NewRow
  <2> HIDE DEF row
  <2> QED
    BY <1>3, <2>1, <2>2, <2>3
<1>5. ASSUME NEW u \in Reviewers, CreateEdit(u) PROVE VersionsNeverReused'
  <2> DEFINE row == NewRow(req[u].repo, req[u].version, "manual_edit", "pending_review",
                           req[u].body, 0, NoPost, req[u].rev)
  <2>1. PICK id \in Fresh : revs' = Insert(id, row)
    BY <1>5 DEF CreateEdit
  <2>2. deleted' = deleted /\ ~ VersionTaken(req[u].repo, req[u].version)
    BY <1>5 DEF CreateEdit
  <2>3. row.repo = req[u].repo /\ row.version = req[u].version /\ row.source # "generated"
    BY DEF NewRow
  <2> HIDE DEF row
  <2> QED
    BY <1>3, <2>1, <2>2, <2>3
<1> QED
  BY <1>1, <1>2, <1>4, <1>5, StepRows

\* MAX(version)+1 hands no number out twice as long as retention keeps a row: what the
\* generator inserts never has the number of an earlier row, and a number comes back only
\* when an edit or an import read it before its row was written and pruned.
THEOREM NumbersNameOneRevision ==
    ASSUME KeepTop # 0 PROVE Spec => []VersionsNeverReused
<1>1. Init => VersionsNeverReused
  BY DEF Init, StoreInit, VersionsNeverReused, Used, Unused
<1>2. GateInv /\ RetentionInv /\ VersionsNeverReused /\ [Next]_vars => VersionsNeverReused'
  BY VersionsNext
<1> QED
  BY <1>1, <1>2, GateInvariant, RetentionInvariant, PTL DEF Spec

-----------------------------------------------------------------------------
(***************************************************************************)
(* The drafts of one run at a time.                                        *)
(***************************************************************************)
Drafts(r) == {id \in WithStatus(r, "pending_review") : revs[id].source = "generated"}

\* Repositories a run may yet write a draft for, on the strength of a count it made
\* when it built its queue.
Writing == {"read", "processing", "generated"}
Promised(w) ==
    {r \in Repos : \/ wk[w].pc \notin {"off", "pruning"} /\ r \in wk[w].queue
                   \/ wk[w].pc \in Writing /\ r = wk[w].repo}

\* The runs that may yet write a draft for r.
Promising(r) == {w \in Workers : r \in Promised(w)}

\* A run makes its promise while there is room, so promises that were made one after the
\* other leave at most one draft too many for each run besides the first; and a run writes
\* for a repository once.
CapInv ==
    /\ \A r \in Repos : Cardinality(Drafts(r)) + Cardinality(Promising(r))
                            < MaxArticlesPerRepo + Cardinality(Workers)
    /\ \A w \in Workers : wk[w].pc \in Writing => wk[w].repo \notin wk[w].queue

\* How a run moves through its queue.
QueueMove(w) ==
    \/ StartRun(w) /\ wk'[w].pc = "next" /\ wk'[w].queue = BuildQueue
    \/ /\ wk[w].pc = "next" /\ wk'[w].pc = "read"
       /\ wk'[w].repo \in wk[w].queue /\ wk'[w].queue = wk[w].queue \ {wk'[w].repo}
    \/ wk'[w].pc \in {"off", "pruning"}
    \/ /\ wk[w].pc \notin {"off", "pruning"} /\ wk'[w].queue = wk[w].queue
       /\ wk'[w].pc \in Writing => wk[w].pc \in Writing /\ wk'[w].repo = wk[w].repo

\* Every step of a run is one of those moves.
LEMMA QueueMoves ==
    ASSUME PipelineTypeOK, NEW w \in Workers, WorkerStep(w) \/ AbortRun(w)
    PROVE QueueMove(w)
<1>a. wk \in [Workers -> Worker] /\ wk[w] \in Worker /\ Off \in Worker
  BY OffType DEF PipelineTypeOK
<1>b. ASSUME NEW pc, Goto(w, pc)
      PROVE wk'[w].pc = pc /\ wk'[w].queue = wk[w].queue /\ wk'[w].repo = wk[w].repo
  BY <1>a, <1>b DEF Goto, Worker
<1>1. CASE StartRun(w)
  <2>1. wk'[w] = [Off EXCEPT !.pc = "next", !.queue = BuildQueue, !.order = fair]
    BY <1>1, <1>a DEF StartRun
  <2> QED
    BY <1>1, <2>1 DEF QueueMove, Off
<1>2. CASE ReadRepo(w)
  <2>1. PICK r \in wk[w].queue : wk' = [wk EXCEPT ![w] =
                   [Off EXCEPT !.pc = "read", !.repo = r, !.sha = repos[r].sha,
                               !.queue = wk[w].queue \ {r}, !.order = wk[w].order]]
    BY <1>2 DEF ReadRepo, FirstOf
  <2>2. wk'[w] = [Off EXCEPT !.pc = "read", !.repo = r, !.sha = repos[r].sha,
                             !.queue = wk[w].queue \ {r}, !.order = wk[w].order]
    BY <1>a, <2>1
  <2>3. wk'[w].pc = "read" /\ wk'[w].repo = r /\ wk'[w].queue = wk[w].queue \ {r}
    BY <2>2 DEF Off
  <2> QED
    BY <1>2, <2>1, <2>3 DEF QueueMove, ReadRepo, At
<1>3. CASE MarkProcessing(w) \/ GenerateFails(w)
  <2>1. /\ wk[w].pc \in Writing /\ wk[w].pc \notin {"off", "pruning"}
        /\ wk'[w].queue = wk[w].queue /\ wk'[w].repo = wk[w].repo
    BY <1>3, <1>b DEF MarkProcessing, GenerateFails, At, Writing
  <2> QED
    BY <2>1 DEF QueueMove
<1>4. CASE Generate(w)
  <2>1. /\ wk[w].pc \in Writing /\ wk[w].pc \notin {"off", "pruning"}
        /\ wk'[w].queue = wk[w].queue /\ wk'[w].repo = wk[w].repo
    BY <1>4, <1>a DEF Generate, At, Writing, Worker
  <2> QED
    BY <2>1 DEF QueueMove
<1>5. CASE InsertDraft(w)
  <2>1. /\ wk[w].pc \in Writing /\ wk[w].pc \notin {"off", "pruning"}
        /\ wk'[w].queue = wk[w].queue /\ wk'[w].repo = wk[w].repo
    BY <1>5, <1>a DEF InsertDraft, At, Writing, Worker
  <2> QED
    BY <2>1 DEF QueueMove
<1>6. CASE Dedup(w) \/ TxFails(w) \/ PointToDraft(w) \/ AwaitReview(w)
  <2>1. \E pc : /\ Goto(w, pc) /\ pc \notin Writing
                /\ wk[w].pc \notin {"off", "pruning"}
    BY <1>6 DEF Dedup, TxFails, PointToDraft, AwaitReview, At, Writing
  <2> QED
    BY <1>b, <2>1 DEF QueueMove
<1>7. CASE RevertDeduped(w) \/ StampProcessed(w)
  <2>1. wk[w].pc \notin {"off", "pruning"} /\ Continue(w)
    BY <1>7 DEF RevertDeduped, StampProcessed, At
  <2>2. wk'[w] = [Off EXCEPT !.pc = "next", !.queue = wk[w].queue, !.order = wk[w].order]
    BY <1>a, <2>1 DEF Continue
  <2>3. wk'[w].pc = "next" /\ wk'[w].queue = wk[w].queue
    BY <2>2 DEF Off
  <2> QED
    BY <2>1, <2>3 DEF QueueMove, Writing
<1>8. CASE RevertFailed(w) \/ PruneRefused(w) \/ FinishRun(w) \/ AbortRun(w)
  <2>1. wk'[w] = Off
    BY <1>8, <1>a DEF RevertFailed, PruneRefused, FinishRun, AbortRun, Stop
  <2> QED
    BY <2>1 DEF QueueMove, Off
<1>9. CASE PruneAll(w)
  <2>1. wk'[w] = [Off EXCEPT !.pc = "pruning", !.queue = Repos, !.order = fair]
    BY <1>9, <1>a DEF PruneAll
  <2> QED
    BY <2>1 DEF QueueMove, Off
<1>10. CASE ListDoomed(w) \/ PruneOne(w)
  <2>1. wk[w].pc = "pruning"
    BY <1>10 DEF ListDoomed, PruneOne, At
  <2>2. ASSUME NEW queue, NEW doomed, wk' = [wk EXCEPT ![w].queue = queue, ![w].doomed = doomed]
        PROVE wk'[w].pc = wk[w].pc
    BY <1>a, <2>2 DEF Worker
  <2>3. ASSUME NEW doomed, wk' = [wk EXCEPT ![w].doomed = doomed] PROVE wk'[w].pc = wk[w].pc
    BY <1>a, <2>3 DEF Worker
  <2>4. CASE ListDoomed(w)
    <3>1. PICK r : wk' = [wk EXCEPT ![w].queue = @ \ {r}, ![w].doomed = ForRetention(r, KeepTop)]
      BY <2>4 DEF ListDoomed
    <3> QED
      BY <2>1, <2>2, <3>1 DEF QueueMove
  <2>5. CASE PruneOne(w)
    <3>1. PICK id : wk' = [wk EXCEPT ![w].doomed = @ \ {id}]
      BY <2>5 DEF PruneOne
    <3> QED
      BY <2>1, <2>3, <3>1 DEF QueueMove
  <2> QED
    BY <1>10, <2>4, <2>5
<1> QED
  BY <1>1, <1>2, <1>3, <1>4, <1>5, <1>6, <1>7, <1>8, <1>9, <1>10 DEF WorkerStep

\* Only the pipeline's insert makes a draft of the generator's.
LEMMA DraftsShrink ==
    ASSUME GateInv, [Next]_vars, ~ \E w \in Workers : InsertDraft(w)
    PROVE \A r : Drafts(r)' \subseteq Drafts(r)
<1>a. revs \in Table /\ RowsForward /\ deleted \subseteq deleted'
  BY StepForward, DeletedStays DEF GateInv, TypeOK, StoreTypeOK, Table
<1> SUFFICES ASSUME NEW r, NEW id \in Drafts(r)' PROVE id \in Drafts(r)
  OBVIOUS
<1>1. /\ id \in RevIds /\ Used(id)' /\ id \notin deleted /\ revs'[id].repo = r
      /\ revs'[id].status = "pending_review" /\ revs'[id].source = "generated"
  BY <1>a DEF Drafts, WithStatus, RowsOf, Exists
<1>2. CASE Used(id)
  <2>1. RowForward(id)
    BY <1>1, <1>2, <1>a DEF RowsForward
  <2> QED
    BY <1>1, <1>2, <2>1 DEF RowForward, Drafts, WithStatus, RowsOf, Exists
<1>3. CASE ~ Used(id)
  <2>1. (\E p \in Publishers : ImportDrift(p)) \/ (\E v \in Reviewers : CreateEdit(v))
    BY <1>1, <1>3, StepRows
  <2>2. ASSUME NEW p \in Publishers, ImportDrift(p) PROVE FALSE
    <3>1. PICK new \in Fresh :
              revs' = Insert(new, NewRow(pub[p].repo, pub[p].version, "patreon_import",
                                         "approved", pub[p].seen, 0, pub[p].post, NoRev))
      BY <2>2 DEF ImportDrift
    <3>2. id # new => revs'[id] = revs[id]
      BY <1>a, <1>1, <3>1, InsertedRow DEF Fresh
    <3>3. revs'[new].source = "patreon_import"
      BY <1>a, <3>1 DEF Table, Insert, NewRow, Fresh
    <3> QED
      BY <1>1, <1>3, <3>2, <3>3 DEF Used
  <2>3. ASSUME NEW v \in Reviewers, CreateEdit(v) PROVE FALSE
    <3>1. PICK new \in Fresh :
              revs' = Insert(new, NewRow(req[v].repo, req[v].version, "manual_edit",
                                  "pending_review", req[v].body, 0, NoPost, req[v].rev))
      BY <2>3 DEF CreateEdit
    <3>2. id # new => revs'[id] = revs[id]
      BY <1>a, <1>1, <3>1, InsertedRow DEF Fresh
    <3>3. revs'[new].source = "manual_edit"
      BY <1>a, <3>1 DEF Table, Insert, NewRow, Fresh
    <3> QED
      BY <1>1, <1>3, <3>2, <3>3 DEF Used
  <2> QED
    BY <2>1, <2>2, <2>3
<1> QED
  BY <1>2, <1>3

\* It makes one, for the repository the run is at.
LEMMA DraftInserted ==
    ASSUME GateInv, NEW w \in Workers, InsertDraft(w)
    PROVE \E id : \A r : Drafts(r)' \subseteq Drafts(r) \cup
                                              (IF r = wk[w].repo THEN {id} ELSE {})
<1>a. revs \in Table
  BY DEF GateInv, TypeOK, StoreTypeOK, Table
<1> DEFINE row == NewRow(wk[w].repo, MaxVersionOf(wk[w].repo) + 1, "generated",
                         "pending_review", wk[w].body, wk[w].sha, NoPost, NoRev)
<1>1. PICK id \in Fresh : revs' = Insert(id, row)
  BY DEF InsertDraft
<1>2. deleted' = deleted /\ row.repo = wk[w].repo
  BY DEF InsertDraft, NewRow
<1> HIDE DEF row
<1>3. revs'[id] = row /\ \A j \in RevIds \ {id} : revs'[j] = revs[j]
  BY <1>a, <1>1, InsertedRow DEF Fresh
<1>4. \A r : Drafts(r)' \subseteq Drafts(r) \cup (IF r = wk[w].repo THEN {id} ELSE {})
  <2> SUFFICES ASSUME NEW r, NEW j \in Drafts(r)'
               PROVE j \in Drafts(r) \/ (j = id /\ r = wk[w].repo)
    OBVIOUS
  <2>1. CASE j = id
    BY <1>2, <1>3, <2>1 DEF Drafts, WithStatus, RowsOf
  <2>2. CASE j # id
    <3>1. j \in RevIds /\ revs'[j] = revs[j]
      BY <1>3, <2>2 DEF Drafts, WithStatus, RowsOf
    <3> QED
      BY <1>2, <3>1 DEF Drafts, WithStatus, RowsOf, Exists, Used
  <2> QED
    BY <2>1, <2>2
<1> QED
  BY <1>4

\* Counts of drafts are numbers, and a repository's drafts are among its pending rows.
LEMMA DraftCounts ==
    ASSUME IsFiniteSet(UsedIds), NEW r
    PROVE /\ IsFiniteSet(Drafts(r)) /\ Cardinality(Drafts(r)) \in Nat
          /\ Cardinality(WithStatus(r, "pending_review")) \in Nat
          /\ Cardinality(Drafts(r)) <= Cardinality(WithStatus(r, "pending_review"))
<1>1. WithStatus(r, "pending_review") \subseteq UsedIds
  BY DEF WithStatus, RowsOf, Exists, UsedIds
<1>2. IsFiniteSet(WithStatus(r, "pending_review"))
  BY <1>1, FS_Subset
<1>3. Drafts(r) \subseteq WithStatus(r, "pending_review")
  BY DEF Drafts
<1> QED
  BY <1>2, <1>3, FS_Subset, FS_CardinalityType

\* The runs that promise something for r are finitely many.
LEMMA PromiseCounts ==
    ASSUME IsFiniteSet(Workers), NEW r
    PROVE /\ IsFiniteSet(Promising(r)) /\ Cardinality(Promising(r)) \in Nat
          /\ Cardinality(Promising(r)) <= Cardinality(Workers)
<1>1. Promising(r) \subseteq Workers
  BY DEF Promising
<1> QED
  BY <1>1, FS_Subset, FS_CardinalityType

\* A step of one run leaves the others where they are.
LEMMA OneRunMoves ==
    ASSUME PipelineTypeOK, [Next]_vars, NEW w \in Workers
    PROVE wk'[w] = wk[w] \/ WorkerStep(w) \/ AbortRun(w)
<1>1. ASSUME NEW u \in Workers, WorkerStep(u) \/ AbortRun(u), u # w PROVE wk'[w] = wk[w]
  BY <1>1 DEF PipelineTypeOK, WorkerStep, AbortRun, StartRun, ReadRepo, MarkProcessing, Generate,
     GenerateFails, Dedup, InsertDraft, TxFails, RevertDeduped, RevertFailed, PointToDraft,
     AwaitReview, StampProcessed, PruneAll, ListDoomed, PruneOne, PruneRefused, FinishRun,
     Goto, Continue, Stop
<1>2. (\E u \in Workers : WorkerStep(u) \/ AbortRun(u)) \/ wk' = wk
  BY DEF Next, Process, Publish, Review, Scan, Site, Rescan, vars
<1> QED
  BY <1>1, <1>2

\* A promise is new only when its run starts and finds room.
LEMMA PromisesMade ==
    ASSUME PipelineTypeOK, NEW w \in Workers, wk'[w] = wk[w] \/ WorkerStep(w) \/ AbortRun(w),
           NEW r, r \in Promised(w)', r \notin Promised(w)
    PROVE Cardinality(WithStatus(r, "pending_review")) < MaxArticlesPerRepo
<1>1. wk'[w] # wk[w]
  BY DEF Promised
<1>2. QueueMove(w)
  BY <1>1, QueueMoves
<1>3. r \in BuildQueue
  BY <1>2 DEF QueueMove, Promised, Writing
<1> QED
  BY <1>3 DEF BuildQueue, Eligible

\* Every step keeps the drafts and the promises within the bound.
LEMMA CapNext ==
    ASSUME IsFiniteSet(Workers), GateInv, RetentionInv, CapInv, [Next]_vars
    PROVE CapInv'
<1> DEFINE Bound == MaxArticlesPerRepo + Cardinality(Workers)
<1>a. PipelineTypeOK /\ MaxArticlesPerRepo \in Nat /\ IsFiniteSet(UsedIds) /\ IsFiniteSet(UsedIds')
      /\ Cardinality(Workers) \in Nat
  BY FiniteRows, PipelineAssumption, FS_CardinalityType DEF GateInv, TypeOK, RetentionInv
<1>b. \A r : /\ Cardinality(Drafts(r)) \in Nat /\ Cardinality(Drafts(r)') \in Nat
             /\ IsFiniteSet(Drafts(r)) /\ IsFiniteSet(Drafts(r)')
  <2>1. \A r : Cardinality(Drafts(r)) \in Nat /\ IsFiniteSet(Drafts(r))
    BY <1>a, DraftCounts
  <2>2. ASSUME NEW r PROVE Cardinality(Drafts(r)') \in Nat /\ IsFiniteSet(Drafts(r)')
    <3>1. Drafts(r)' \subseteq UsedIds'
      BY DEF Drafts, WithStatus, RowsOf, Exists, UsedIds
    <3> QED
      BY <1>a, <3>1, FS_Subset, FS_CardinalityType
  <2> QED
    BY <2>1, <2>2
<1>c. \A r : Drafts(r)' \subseteq Drafts(r) => Cardinality(Drafts(r)') <= Cardinality(Drafts(r))
  BY <1>b, FS_Subset
<1>d. \A r : /\ IsFiniteSet(Promising(r)) /\ Cardinality(Promising(r)) \in Nat
             /\ Cardinality(Promising(r)') \in Nat
             /\ Cardinality(Promising(r)') <= Cardinality(Workers)
  <2>1. ASSUME NEW r PROVE /\ Cardinality(Promising(r)') \in Nat
                           /\ Cardinality(Promising(r)') <= Cardinality(Workers)
    <3>1. Promising(r)' \subseteq Workers
      BY DEF Promising
    <3> QED
      BY <3>1, FS_Subset, FS_CardinalityType
  <2> QED
    BY <2>1, PromiseCounts
<1>e. \A r \in Repos : Cardinality(Drafts(r)) + Cardinality(Promising(r)) < Bound
  BY DEF CapInv
<1>f. \A w \in Workers : wk'[w] = wk[w] \/ WorkerStep(w) \/ AbortRun(w)
  BY <1>a, OneRunMoves
<1>g. \A w \in Workers : wk'[w].pc \in Writing => wk'[w].repo \notin wk'[w].queue
  <2> SUFFICES ASSUME NEW w \in Workers, WorkerStep(w) \/ AbortRun(w)
               PROVE wk'[w].pc \in Writing => wk'[w].repo \notin wk'[w].queue
    BY <1>f DEF CapInv
  <2>1. QueueMove(w)
    BY <1>a, QueueMoves
  <2>2. wk[w].pc \in Writing => wk[w].repo \notin wk[w].queue
    BY DEF CapInv
  <2> QED
    BY <2>1, <2>2 DEF QueueMove, Writing
<1> HIDE DEF Bound
<1>h. ASSUME NEW r, Promising(r)' \subseteq Promising(r)
      PROVE Cardinality(Promising(r)') <= Cardinality(Promising(r))
  BY <1>d, <1>h, FS_Subset
<1>1. CASE ~ \E w \in Workers : InsertDraft(w)
  <2> SUFFICES ASSUME NEW r \in Repos
               PROVE Cardinality(Drafts(r)') + Cardinality(Promising(r)') < Bound
    BY <1>g DEF CapInv, Bound
  <2>1. Cardinality(Drafts(r)') <= Cardinality(Drafts(r))
    BY <1>1, <1>c, DraftsShrink
  <2>2. CASE Promising(r)' \subseteq Promising(r)
    <3>1. Cardinality(Promising(r)') <= Cardinality(Promising(r))
      BY <1>h, <2>2
    <3> QED
      BY <1>a, <1>b, <1>d, <1>e, <2>1, <3>1 DEF Bound
  <2>3. CASE ~ (Promising(r)' \subseteq Promising(r))
    <3>1. PICK w \in Workers : r \in Promised(w)' /\ r \notin Promised(w)
      BY <2>3 DEF Promising
    <3>2. Cardinality(WithStatus(r, "pending_review")) < MaxArticlesPerRepo
      BY <1>a, <1>f, <3>1, PromisesMade
    <3>3. Cardinality(Drafts(r)) <= Cardinality(WithStatus(r, "pending_review"))
          /\ Cardinality(WithStatus(r, "pending_review")) \in Nat
      BY <1>a, DraftCounts
    <3> QED
      BY <1>a, <1>b, <1>d, <2>1, <3>2, <3>3 DEF Bound
  <2> QED
    BY <2>2, <2>3
<1>2. ASSUME NEW w \in Workers, InsertDraft(w) PROVE CapInv'
  <2>1. PICK id : \A r : Drafts(r)' \subseteq Drafts(r) \cup
                                             (IF r = wk[w].repo THEN {id} ELSE {})
    BY <1>2, DraftInserted
  <2>2. wk[w].pc \in Writing /\ wk[w].repo \in Repos /\ wk[w].repo \notin wk[w].queue
    BY <1>2 DEF InsertDraft, At, Writing, CapInv, GateInv, WorkersHaveARepo
  <2>3. wk'[w].pc = "inserted" /\ wk'[w].queue = wk[w].queue
    BY <1>2, <1>a DEF InsertDraft, PipelineTypeOK, Worker
  <2>4. \A u \in Workers \ {w} : wk'[u] = wk[u]
    BY <1>2, <1>a DEF InsertDraft, PipelineTypeOK
  <2>5. Promised(w)' \subseteq Promised(w) \ {wk[w].repo}
    BY <2>2, <2>3 DEF Promised, Writing
  <2>6. \A u \in Workers \ {w} : Promised(u)' = Promised(u)
    BY <2>4 DEF Promised
  <2>7. \A r : Promising(r)' \subseteq Promising(r)
    BY <2>5, <2>6 DEF Promising
  <2>8. wk[w].repo \in Promised(w)
    BY <2>2 DEF Promised
  <2>9. ASSUME NEW r \in Repos
        PROVE Cardinality(Drafts(r)') + Cardinality(Promising(r)') < Bound
    <3>1. CASE r # wk[w].repo
      <4>1. Cardinality(Drafts(r)') <= Cardinality(Drafts(r))
        BY <1>c, <2>1, <3>1
      <4>2. Cardinality(Promising(r)') <= Cardinality(Promising(r))
        BY <1>h, <2>7
      <4> QED
        BY <1>a, <1>b, <1>d, <1>e, <4>1, <4>2 DEF Bound
    <3>2. CASE r = wk[w].repo
      <4>1. Cardinality(Drafts(r)') <= Cardinality(Drafts(r)) + 1
        <5>1. Drafts(r)' \subseteq Drafts(r) \cup {id}
          BY <2>1, <3>2
        <5>2. IsFiniteSet(Drafts(r)) /\ Cardinality(Drafts(r)) \in Nat
          BY <1>b
        <5>3. IsFiniteSet(Drafts(r) \cup {id})
              /\ Cardinality(Drafts(r) \cup {id}) =
                    IF id \in Drafts(r) THEN Cardinality(Drafts(r)) ELSE Cardinality(Drafts(r)) + 1
          BY <5>2, FS_AddElement
        <5>4. Cardinality(Drafts(r)') <= Cardinality(Drafts(r) \cup {id})
          BY <5>1, <5>3, FS_Subset
        <5> QED
          BY <1>b, <5>2, <5>3, <5>4
      <4>2. Cardinality(Promising(r)') <= Cardinality(Promising(r)) - 1
        <5>1. w \in Promising(r)
          BY <2>8, <3>2 DEF Promising
        <5>2. Promising(r)' \subseteq Promising(r) \ {w}
          BY <2>5, <2>7, <3>2 DEF Promising
        <5>3. IsFiniteSet(Promising(r) \ {w})
              /\ Cardinality(Promising(r) \ {w}) = Cardinality(Promising(r)) - 1
          BY <1>d, <5>1, FS_RemoveElement
        <5> QED
          BY <5>2, <5>3, FS_Subset
      <4> QED
        BY <1>a, <1>b, <1>d, <1>e, <4>1, <4>2 DEF Bound
    <3> QED
      BY <3>1, <3>2
  <2> QED
    BY <1>g, <2>9 DEF CapInv, Bound
<1> QED
  BY <1>1, <1>2

\* `process` never has more drafts of its own under review than MAX_ARTICLES_PER_REPO and
\* one for each run that overlaps, though a run counts them when it builds the queue and
\* inserts much later, beside other runs, reviewers, publishers and scans.  With one run at
\* a time, as the process lock has it, the bound is MAX_ARTICLES_PER_REPO itself.
THEOREM DraftsAreCapped ==
    ASSUME IsFiniteSet(Workers), Workers # {} PROVE Spec => []DraftCap
<1>a. MaxArticlesPerRepo \in Nat /\ Cardinality(Workers) \in Nat /\ Cardinality(Workers) # 0
  BY PipelineAssumption, FS_CardinalityType, FS_EmptySet
<1>1. Init => CapInv
  <2> SUFFICES ASSUME Init PROVE CapInv
    OBVIOUS
  <2>1. \A r : Drafts(r) = {}
    BY DEF Init, StoreInit, Drafts, WithStatus, RowsOf, Exists, Used, Unused
  <2>2. \A w \in Workers : wk[w].pc = "off"
    BY DEF Init, PipelineInit, Off
  <2>3. \A r : Promising(r) = {}
    BY <2>2 DEF Promising, Promised, Writing
  <2>4. \A r : Cardinality(Drafts(r)) = 0 /\ Cardinality(Promising(r)) = 0
    BY <2>1, <2>3, FS_EmptySet
  <2> QED
    BY <1>a, <2>2, <2>4 DEF CapInv, Writing
<1>2. GateInv /\ RetentionInv /\ CapInv /\ [Next]_vars => CapInv'
  BY CapNext
<1>3. RetentionInv /\ CapInv => DraftCap
  <2> SUFFICES ASSUME RetentionInv, CapInv, NEW r \in Repos
               PROVE Cardinality(Drafts(r)) < MaxArticlesPerRepo + Cardinality(Workers)
    BY DEF DraftCap, Drafts
  <2>1. Cardinality(Drafts(r)) \in Nat /\ Cardinality(Promising(r)) \in Nat
    BY DraftCounts, PromiseCounts DEF RetentionInv
  <2>2. Cardinality(Drafts(r)) + Cardinality(Promising(r))
            < MaxArticlesPerRepo + Cardinality(Workers)
    BY DEF CapInv
  <2> QED
    BY <1>a, <2>1, <2>2
<1> QED
  BY <1>1, <1>2, <1>3, GateInvariant, RetentionInvariant, PTL DEF Spec

-----------------------------------------------------------------------------
(***************************************************************************)
(* What Patreon shows: the pruner, the pointers and the posts, for one     *)
(* publisher at a time whose bookkeeping does not fail.                    *)
(***************************************************************************)
OnePublisher == \A p, q \in Publishers : p = q

\* No step of `publish` is lost between the write to Patreon and its bookkeeping.
Reliable == {"crash", "db", "lost"} \cap PublishFaults = {}

\* A row the pruner may take: it was never shown, and never will be.
Spent(id) == Used(id) /\ ~ revs[id].live /\ revs[id].status \notin {"approved", "pending_review"}

\* A row that was shown and is still there.
LiveRow(id, r) == id \in RowsOf(r) /\ revs[id].live

\* A post is about r, if it is one.
OwnPost(x, r) == x \in PostIds => posts[x].repo = r
NoPostYet(r) == \A x \in PostIds : posts[x].repo # r

SpentInv ==
    /\ \A id \in deleted : Spent(id)
    /\ \A w \in Workers : \A id \in wk[w].doomed : Spent(id)

\* The published marks of a row agree with each other and with the post.
MarkInv ==
    \A id \in RevIds : Used(id) =>
        /\ revs[id].live <=> revs[id].post # NoPost
        /\ revs[id].post \in PostIds => posts[revs[id].post].repo = revs[id].repo
        /\ revs[id].source = "patreon_import" => revs[id].live

\* Some approved row is as new as every import, and newer than every row a sweep
\* is going to supersede.
CoverInv ==
    /\ \A r \in Repos : \A imp \in Imports(r) :
        \E j \in WithStatus(r, "approved") : revs[j].version >= revs[imp].version
    /\ \A v \in Reviewers : \A id \in RevIds : req[v].todo[id] = "superseded" =>
        Used(id) /\ \E r \in Repos : revs[id].repo = r /\ \E j \in WithStatus(r, "approved") :
                                                            revs[j].version > revs[id].version

Selecting == {"check", "drift", "import", "push"}
Booking == {"mark", "point"}

\* The publisher's target stays approved until the publisher is done with it: it is
\* as new as every import, so no sweep asks for it.
Stands(t, r) ==
    /\ t \in WithStatus(r, "approved")
    /\ \A imp \in Imports(r) : revs[imp].version <= revs[t].version
    /\ \A v \in Reviewers : req[v].todo[t] # "superseded"
TargetInv ==
    \A p \in Publishers :
        /\ pub[p].pc \in Selecting \cup Booking \cup {"supersede"} =>
            \E t \in RevIds, r \in Repos : pub[p].target = t /\ pub[p].repo = r /\ Stands(t, r)
        /\ pub[p].pc \in Selecting => pub[p].repo \notin pub[p].todo
        /\ pub[p].pc \in {"drift", "import", "mark"} =>
            /\ pub[p].post # NoPost
            /\ pub[p].post \in PostIds => posts[pub[p].post].repo = pub[p].repo
        /\ pub[p].pc \in {"point", "supersede"} => revs[pub[p].target].live

\* A published pointer, or a copy of one, leads to a row that was shown; no pointer
\* means no post, unless the publisher is about to record one.
Leads(id, r) == IF id = NoRev THEN NoPostYet(r) ELSE LiveRow(id, r)
AtWorkOn(p, r) == pub[p].pc \in Booking /\ pub[p].repo = r
Holds(p, r) == r \in pub[p].todo \/ (pub[p].pc \in Selecting /\ pub[p].repo = r)
PointInv ==
    /\ \A r \in Repos :
        \/ \E id \in RevIds \cup {NoRev} : repos[r].published = id /\ Leads(id, r)
        \/ repos[r].published = NoRev /\ \E p \in Publishers : AtWorkOn(p, r)
    /\ \A p \in Publishers, r \in Repos : Holds(p, r) =>
        \E id \in RevIds \cup {NoRev} : pub[p].snap[r].published = id /\ Leads(id, r)
    /\ \A v \in Reviewers : req[v].pc = "theirs" =>
        \E id \in RevIds, r \in Repos : req[v].rev = id /\ req[v].repo = r /\ LiveRow(id, r)

\* Who wrote a post is marked, or is about to be.
ByInv ==
    \A x \in PostIds : posts[x].by # NoRev =>
        \/ Used(posts[x].by) /\ revs[posts[x].by].live
        \/ \E p \in Publishers : pub[p].pc = "mark" /\ pub[p].target = posts[x].by

ShownInv == SpentInv /\ MarkInv /\ CoverInv /\ TargetInv /\ PointInv /\ ByInv /\ OnePostPerRepo

\* What a publisher's step does to its own place.
Keeps(p) ==
    /\ pub'[p].repo = pub[p].repo /\ pub'[p].target = pub[p].target
    /\ pub'[p].todo = pub[p].todo /\ pub'[p].snap = pub[p].snap
Leaves(p) ==
    /\ pub'[p].pc \in {"off", "next"} /\ pub'[p].todo \subseteq pub[p].todo
    /\ pub'[p].todo = {} \/ pub'[p].snap = pub[p].snap
Lists(p) ==
    /\ pub'[p].pc = "next"
    /\ \A r \in Repos : pub'[p].snap[r].published = repos[r].published
Selects(p, r, id) ==
    /\ pub[p].pc = "next" /\ pub'[p].pc \in {"check", "push"}
    /\ r \in pub[p].todo /\ Publishable(p, r)
    /\ id \in NewestFirst(WithStatus(r, "approved"))
    /\ pub'[p].repo = r /\ pub'[p].target = id
    /\ pub'[p].todo = pub[p].todo \ {r} /\ pub'[p].snap = pub[p].snap
Moves(p, from, to) == Keeps(p) /\ pub[p].pc = from /\ pub'[p].pc = to
Place(p) ==
    \/ ListRepos(p) /\ Lists(p)
    \/ SelectTarget(p) /\ \E r, id : Selects(p, r, id)
    \/ /\ \/ SkipRepo(p) \/ ImportFails(p) \/ HaltRepo(p) \/ PushFails(p) \/ Supersede(p)
          \/ FinishPublish(p) \/ CrashPublish(p)
       /\ Leaves(p)
    \/ (DriftUnknown(p) \/ NoDrift(p)) /\ Moves(p, "check", "push")
    \/ /\ Drift(p) /\ Moves(p, "check", "drift")
       /\ pub'[p].post = LivePost(p) /\ pub'[p].seen = Content(LivePost(p))
    \/ /\ NumberImport(p) /\ Moves(p, "drift", "import")
       /\ pub'[p].post = pub[p].post /\ pub'[p].seen = pub[p].seen
    \/ ImportDrift(p) /\ Moves(p, "import", "halt")
    \/ UpdatePost(p) /\ Moves(p, "push", "mark") /\ pub'[p].post = LivePost(p)
    \/ CreatePost(p) /\ Moves(p, "push", "mark")
    \/ Mark(p) /\ Moves(p, "mark", "point")
    \/ Point(p) /\ Moves(p, "point", "supersede")

\* Every step of a publisher is one of these.
LEMMA PublisherPlaces ==
    ASSUME PublisherTypeOK, NEW p \in Publishers, PublisherStep(p) \/ CrashPublish(p)
    PROVE Place(p)
<1>a. pub \in [Publishers -> Publisher] /\ pub[p] \in Publisher /\ Idle \in Publisher
  BY IdleType DEF PublisherTypeOK
<1>b. ASSUME NEW to, PubGoto(p, to)
      PROVE pub'[p].pc = to /\ Keeps(p) /\ pub'[p].post = pub[p].post /\ pub'[p].seen = pub[p].seen
  BY <1>a, <1>b DEF PubGoto, Publisher, Keeps
<1>n. ASSUME NextRepo(p) PROVE Leaves(p)
  <2>1. pub'[p] = [Idle EXCEPT !.pc = "next", !.todo = pub[p].todo, !.snap = pub[p].snap]
    BY <1>n, <1>a DEF NextRepo
  <2>2. pub'[p].pc = "next" /\ pub'[p].todo = pub[p].todo /\ pub'[p].snap = pub[p].snap
    BY <2>1 DEF Idle
  <2> QED
    BY <2>2 DEF Leaves
<1>p. ASSUME NEW x, Pushed(p, x) PROVE pub'[p].pc = "mark" /\ Keeps(p) /\ pub'[p].post = x
  BY <1>a, <1>p DEF Pushed, Publisher, Keeps
<1>1. CASE ImportFails(p) \/ HaltRepo(p) \/ PushFails(p) \/ Supersede(p)
  BY <1>n, <1>1 DEF ImportFails, HaltRepo, PushFails, Supersede, Place
<1>2. CASE FinishPublish(p) \/ CrashPublish(p)
  <2>1. pub'[p] = Idle
    BY <1>2, <1>a DEF FinishPublish, CrashPublish
  <2>2. Leaves(p)
    BY <2>1 DEF Leaves, Idle
  <2> QED
    BY <1>2, <2>2 DEF Place
<1>3. CASE ListRepos(p)
  <2>1. pub'[p] = [Idle EXCEPT !.pc = "next", !.todo = Repos,
                     !.snap = [r \in Repos |-> [state |-> repos[r].state,
                                                published |-> repos[r].published]]]
    BY <1>3, <1>a DEF ListRepos
  <2>2. pub'[p].pc = "next"
        /\ pub'[p].snap = [r \in Repos |-> [state |-> repos[r].state,
                                            published |-> repos[r].published]]
    BY <2>1 DEF Idle
  <2>3. Lists(p)
    BY <2>2 DEF Lists
  <2> QED
    BY <1>3, <2>3 DEF Place
<1>4. CASE SkipRepo(p)
  <2>1. PICK r : pub' = [pub EXCEPT ![p].todo = @ \ {r}]
    BY <1>4 DEF SkipRepo
  <2>2. pub'[p].pc = "next" /\ pub'[p].todo = pub[p].todo \ {r} /\ pub'[p].snap = pub[p].snap
    BY <1>4, <1>a, <2>1 DEF SkipRepo, PubAt, Publisher
  <2>3. Leaves(p)
    BY <2>2 DEF Leaves
  <2> QED
    BY <1>4, <2>3 DEF Place
<1>5. CASE SelectTarget(p)
  <2>1. PICK r \in pub[p].todo :
          /\ Publishable(p, r)
          /\ \E id \in NewestFirst(WithStatus(r, "approved")) :
              pub' = [pub EXCEPT ![p] =
                    [pub[p] EXCEPT !.todo = pub[p].todo \ {r}, !.repo = r, !.target = id,
                                   !.pc = IF pub[p].snap[r].published = NoRev
                                          THEN "push" ELSE "check"]]
    BY <1>5 DEF SelectTarget
  <2>2. PICK id \in NewestFirst(WithStatus(r, "approved")) :
            pub' = [pub EXCEPT ![p] =
                    [pub[p] EXCEPT !.todo = pub[p].todo \ {r}, !.repo = r, !.target = id,
                                   !.pc = IF pub[p].snap[r].published = NoRev
                                          THEN "push" ELSE "check"]]
    BY <2>1
  <2>3. /\ pub'[p].repo = r /\ pub'[p].target = id /\ pub'[p].pc \in {"check", "push"}
        /\ pub'[p].todo = pub[p].todo \ {r} /\ pub'[p].snap = pub[p].snap
    BY <1>a, <2>2 DEF Publisher
  <2>4. Selects(p, r, id)
    BY <1>5, <2>1, <2>3 DEF Selects, SelectTarget, PubAt
  <2> QED
    BY <1>5, <2>4 DEF Place
<1>6. CASE DriftUnknown(p)
  BY <1>6, <1>b DEF DriftUnknown, PubAt, Place, Moves
<1>7. CASE NoDrift(p)
  BY <1>7, <1>b DEF NoDrift, PubAt, Place, Moves
<1>8. CASE Drift(p)
  <2> DEFINE x == LivePost(p)
             b == Content(LivePost(p))
  <2>1. pub' = [pub EXCEPT ![p].pc = "drift", ![p].seen = b, ![p].post = x]
    BY <1>8 DEF Drift
  <2> HIDE DEF x, b
  <2>2. /\ pub'[p].pc = "drift" /\ Keeps(p) /\ pub'[p].post = x /\ pub'[p].seen = b
    BY <1>a, <2>1 DEF Publisher, Keeps
  <2> USE DEF x, b
  <2> QED
    BY <1>8, <2>2 DEF Place, Moves, Drift, PubAt
<1>9. CASE NumberImport(p)
  <2> DEFINE n == MaxVersionOf(pub[p].repo) + 1
  <2>1. pub' = [pub EXCEPT ![p].pc = "import", ![p].version = n]
    BY <1>9 DEF NumberImport
  <2> HIDE DEF n
  <2>2. /\ pub'[p].pc = "import" /\ Keeps(p) /\ pub'[p].post = pub[p].post
        /\ pub'[p].seen = pub[p].seen
    BY <1>a, <2>1 DEF Publisher, Keeps
  <2> QED
    BY <1>9, <2>2 DEF Place, Moves, NumberImport, PubAt
<1>10. CASE ImportDrift(p) \/ Mark(p) \/ Point(p)
  BY <1>10, <1>b DEF ImportDrift, Mark, Point, PubAt, Place, Moves
<1>11. CASE UpdatePost(p)
  BY <1>11, <1>p DEF UpdatePost, PubAt, Place, Moves
<1>12. CASE CreatePost(p)
  BY <1>12, <1>p DEF CreatePost, PubAt, Place, Moves
<1> QED
  BY <1>1, <1>2, <1>3, <1>4, <1>5, <1>6, <1>7, <1>8, <1>9, <1>10, <1>11, <1>12 DEF PublisherStep

\* Only the bookkeeping of a publisher sets published marks.
LEMMA StepMarks ==
    ASSUME GateInv, [Next]_vars
    PROVE \/ \A id \in RevIds : Used(id) => revs'[id].post = revs[id].post
                                            /\ revs'[id].live = revs[id].live
          \/ \E p \in Publishers : Publish(p) /\ Mark(p)
<1> DEFINE Same == \A id \in RevIds : Used(id) => revs'[id].post = revs[id].post
                                                  /\ revs'[id].live = revs[id].live
<1>a. revs \in Table
  BY DEF GateInv, TypeOK, StoreTypeOK, Table
<1>i. ASSUME NEW id \in Fresh, NEW row, revs' = Insert(id, row) PROVE Same
  BY <1>a, <1>i, InsertedRow DEF Fresh, Used
<1>c. ASSUME NEW id, NEW seen, NEW new, revs' = CASStatus(id, seen, new) PROVE Same
  <2>1. \A j \in RevIds : revs'[j] = revs[j] \/ revs'[j] = [revs[j] EXCEPT !.status = new]
    BY <1>c, <1>a DEF CASStatus, Table, Exists
  <2>2. \A j \in RevIds : Used(j) => revs[j] \in Revision
    BY <1>a, UsedIsRevision
  <2> QED
    BY <2>1, <2>2 DEF Revision
<1>s. ASSUME NEW r, NEW n, revs' = SupersedeOlderApproved(r, n) PROVE Same
  <2>1. \A j \in RevIds : revs'[j] = revs[j] \/ revs'[j] = [revs[j] EXCEPT !.status = "superseded"]
    BY <1>s DEF SupersedeOlderApproved
  <2>2. \A j \in RevIds : Used(j) => revs[j] \in Revision
    BY <1>a, UsedIsRevision
  <2> QED
    BY <2>1, <2>2 DEF Revision
<1>u. revs' = revs => Same
  OBVIOUS
<1> HIDE DEF Same
<1>1. ASSUME NEW w \in Workers, Process(w) PROVE Same
  <2>1. InsertDraft(w) \/ revs' = revs
    BY <1>1 DEF Process, WorkerStep, AbortRun, StartRun, ReadRepo, MarkProcessing, Generate,
       GenerateFails, Dedup, TxFails, RevertDeduped, RevertFailed, PointToDraft, AwaitReview,
       StampProcessed, PruneAll, ListDoomed, PruneOne, PruneRefused, FinishRun, storeVars
  <2> QED
    BY <1>i, <1>u, <2>1 DEF InsertDraft
<1>2. ASSUME NEW p \in Publishers, Publish(p) PROVE Mark(p) \/ Same
  <2>1. ImportDrift(p) \/ Mark(p) \/ Supersede(p) \/ revs' = revs
    BY <1>2 DEF Publish, PublisherStep, CrashPublish, ListRepos, SkipRepo, SelectTarget,
       DriftUnknown, NoDrift, Drift, NumberImport, ImportFails, HaltRepo, UpdatePost,
       CreatePost, PushFails, Point, FinishPublish, storeVars
  <2> QED
    BY <1>i, <1>s, <1>u, <2>1 DEF ImportDrift, Supersede
<1>3. ASSUME NEW v \in Reviewers, Review(v) PROVE Same
  <2>1. WriteStatus(v) \/ CreateEdit(v) \/ SweepOne(v) \/ revs' = revs
    BY <1>3 DEF Review, ReviewerStep, ReadStatus, ReadForEdit, EditRefused, ReadDrift,
       KeepOurs, ReadForTheirs, SweepRefused, SweepDone, KeepTheirs, RequestFails, storeVars
  <2> QED
    BY <1>i, <1>c, <1>u, <2>1 DEF WriteStatus, CreateEdit, SweepOne
<1>4. ASSUME (\E r \in Repos : Scan(r)) \/ Site \/ UNCHANGED vars PROVE Same
  BY <1>4, <1>u DEF Scan, Rescan, Site, SiteEdit, vars, storeVars
<1> QED
  BY <1>1, <1>2, <1>3, <1>4 DEF Next, Same

\* Who takes an approval away: a publisher whose target is newer, or a sweep that
\* asks for this row.
LEMMA ApprovedStays ==
    ASSUME GateInv, [Next]_vars, NEW id \in RevIds, revs[id].status = "approved"
    PROVE \/ revs'[id].status = "approved"
          \/ \E p \in Publishers : /\ Publish(p) /\ Supersede(p)
                                   /\ revs' = SupersedeOlderApproved(pub[p].repo,
                                                 revs[pub[p].target].version)
                                   /\ id \in WithStatus(pub[p].repo, "approved")
                                   /\ revs[id].version < revs[pub[p].target].version
          \/ \E v \in Reviewers : /\ req[v].todo[id] = "superseded"
                                  /\ \A j \in RevIds \ {id} : revs'[j] = revs[j]
<1>a. revs \in Table /\ RequestsAreSound
  BY DEF GateInv, TypeOK, StoreTypeOK, Table
<1> DEFINE Stays == revs'[id].status = "approved"
           Older(p) == /\ revs' = SupersedeOlderApproved(pub[p].repo,
                                      revs[pub[p].target].version)
                       /\ id \in WithStatus(pub[p].repo, "approved")
                       /\ revs[id].version < revs[pub[p].target].version
           Asked(v) == /\ req[v].todo[id] = "superseded"
                        /\ \A j \in RevIds \ {id} : revs'[j] = revs[j]
<1>u. revs' = revs => Stays
  OBVIOUS
<1>i. ASSUME NEW j \in Fresh, NEW row, revs' = Insert(j, row) PROVE Stays
  <2>1. j \in RevIds /\ j # id
    BY DEF Fresh
  <2> QED
    BY <1>a, <1>i, <2>1, InsertedRow
<1>1. ASSUME NEW w \in Workers, Process(w) PROVE Stays
  <2>1. InsertDraft(w) \/ revs' = revs
    BY <1>1 DEF Process, WorkerStep, AbortRun, StartRun, ReadRepo, MarkProcessing, Generate,
       GenerateFails, Dedup, TxFails, RevertDeduped, RevertFailed, PointToDraft, AwaitReview,
       StampProcessed, PruneAll, ListDoomed, PruneOne, PruneRefused, FinishRun, storeVars
  <2> QED
    BY <1>i, <1>u, <2>1 DEF InsertDraft
<1>2. ASSUME NEW p \in Publishers, Publish(p) PROVE Stays \/ (Supersede(p) /\ Older(p))
  <2>1. CASE Supersede(p)
    <3>1. CASE revs' = SupersedeOlderApproved(pub[p].repo, revs[pub[p].target].version)
      <4> DEFINE r == pub[p].repo
                 n == revs[pub[p].target].version
      <4> HIDE DEF r, n
      <4>1. \/ revs'[id] = revs[id]
            \/ id \in WithStatus(r, "approved") /\ revs[id].version < n
        BY <3>1 DEF SupersedeOlderApproved, r, n
      <4> QED
        BY <2>1, <3>1, <4>1 DEF r, n
    <3> QED
      BY <1>u, <2>1, <3>1 DEF Supersede
  <2>2. CASE Mark(p)
    <3>1. \/ revs'[id] = revs[id]
          \/ revs'[id] = [revs[id] EXCEPT !.post = pub[p].post, !.live = TRUE]
      BY <1>a, <2>2 DEF Mark, MarkPublished, Table, Exists
    <3>2. revs[id] \in Revision
      BY <1>a, UsedIsRevision DEF Used
    <3> QED
      BY <3>1, <3>2 DEF Revision
  <2>3. CASE ImportDrift(p)
    BY <1>i, <2>3 DEF ImportDrift
  <2>4. ImportDrift(p) \/ Mark(p) \/ Supersede(p) \/ revs' = revs
    BY <1>2 DEF Publish, PublisherStep, CrashPublish, ListRepos, SkipRepo, SelectTarget,
       DriftUnknown, NoDrift, Drift, NumberImport, ImportFails, HaltRepo, UpdatePost,
       CreatePost, PushFails, Point, FinishPublish, storeVars
  <2> QED
    BY <1>u, <2>1, <2>2, <2>3, <2>4
<1>3. ASSUME NEW v \in Reviewers, Review(v) PROVE Stays \/ Asked(v)
  <2>1. CASE WriteStatus(v)
    <3>1. req[v].seen = "pending_review"
      BY <1>a, <2>1 DEF WriteStatus, ReqAt, RequestsAreSound
    <3>2. revs'[id] = revs[id]
      BY <1>a, <2>1, <3>1 DEF WriteStatus, CASStatus, Table
    <3> QED
      BY <3>2
  <2>2. CASE CreateEdit(v)
    BY <1>i, <2>2 DEF CreateEdit
  <2>3. CASE SweepOne(v)
    <3>1. PICK j \in NewestFirst(Swept(v)) :
              /\ Legal(revs[j].status, req[v].todo[j])
              /\ revs' = CASStatus(j, revs[j].status, req[v].todo[j])
      BY <2>3 DEF SweepOne
    <3>2. j \in RevIds /\ \A k \in RevIds \ {j} : revs'[k] = revs[k]
      BY <1>a, <3>1 DEF NewestFirst, Swept, CASStatus, Table
    <3>3. CASE j = id
      <4>1. req[v].todo[id] = "superseded"
        BY <3>1, <3>3 DEF Legal
      <4> QED
        BY <3>2, <3>3, <4>1
    <3> QED
      BY <3>2, <3>3
  <2>4. WriteStatus(v) \/ CreateEdit(v) \/ SweepOne(v) \/ revs' = revs
    BY <1>3 DEF Review, ReviewerStep, ReadStatus, ReadForEdit, EditRefused, ReadDrift,
       KeepOurs, ReadForTheirs, SweepRefused, SweepDone, KeepTheirs, RequestFails, storeVars
  <2> QED
    BY <1>u, <2>1, <2>2, <2>3, <2>4
<1>4. ASSUME (\E r \in Repos : Scan(r)) \/ Site \/ UNCHANGED vars PROVE Stays
  BY <1>4, <1>u DEF Scan, Rescan, Site, SiteEdit, vars, storeVars
<1> HIDE DEF Stays, Older, Asked
<1>5. Stays \/ (\E p \in Publishers : Publish(p) /\ Supersede(p) /\ Older(p))
            \/ (\E v \in Reviewers : Asked(v))
  BY <1>1, <1>2, <1>3, <1>4 DEF Next
<1> QED
  BY <1>5 DEF Stays, Older, Asked

\* What is deleted was listed, and what is listed was on a list for retention.
LEMMA DeletedFrom ==
    ASSUME GateInv, [Next]_vars
    PROVE /\ \A id \in deleted' : id \in deleted \/ \E w \in Workers : id \in wk[w].doomed
          /\ \A w \in Workers : \A id \in wk'[w].doomed :
                id \in wk[w].doomed \/ \E r \in Repos : id \in ForRetention(r, KeepTop)
<1>a. PipelineTypeOK /\ wk \in [Workers -> Worker]
  BY DEF GateInv, TypeOK, PipelineTypeOK
<1> DEFINE Rows == \A id \in deleted' : id \in deleted \/ \E w \in Workers : id \in wk[w].doomed
           Listing == \A w \in Workers : \A id \in wk'[w].doomed :
                id \in wk[w].doomed \/ \E r \in Repos : id \in ForRetention(r, KeepTop)
<1>1. ASSUME NEW w \in Workers, Process(w) PROVE Rows /\ Listing
  <2>w. wk[w] \in Worker
    BY <1>a
  <2>1. CASE ListDoomed(w)
    <3>1. PICK r \in FirstOf(wk[w].queue, wk[w].order) :
              wk' = [wk EXCEPT ![w].queue = @ \ {r}, ![w].doomed = ForRetention(r, KeepTop)]
      BY <2>1 DEF ListDoomed
    <3>2. r \in Repos
      BY <2>w DEF FirstOf, Worker
    <3> DEFINE gone == ForRetention(r, KeepTop)
    <3>3. wk' = [wk EXCEPT ![w].queue = @ \ {r}, ![w].doomed = gone]
      BY <3>1
    <3>4. gone = ForRetention(r, KeepTop)
      OBVIOUS
    <3> HIDE DEF gone
    <3>5. \A u \in Workers : wk'[u].doomed = IF u = w THEN gone ELSE wk[u].doomed
      BY <1>a, <2>w, <3>3 DEF Worker
    <3>6. deleted' = deleted
      BY <2>1 DEF ListDoomed, storeVars
    <3> QED
      BY <3>2, <3>4, <3>5, <3>6
  <2>2. CASE PruneOne(w)
    <3>1. PICK id \in NewestFirst(wk[w].doomed) :
              deleted' = deleted \cup {id} /\ wk' = [wk EXCEPT ![w].doomed = @ \ {id}]
      BY <2>2 DEF PruneOne
    <3>2. id \in wk[w].doomed
      BY DEF NewestFirst
    <3>3. \A u \in Workers : wk'[u].doomed \subseteq wk[u].doomed
      BY <1>a, <2>w, <3>1 DEF Worker
    <3> QED
      BY <3>1, <3>2, <3>3
  <2> QED
    BY <1>a, <1>1, <2>1, <2>2, DoomedShrinks DEF Process
<1>2. CASE wk' = wk /\ deleted' = deleted
  BY <1>2
<1>3. (\E w \in Workers : Process(w)) \/ (wk' = wk /\ deleted' = deleted)
  <2>1. CASE \E p \in Publishers : Publish(p)
    BY <2>1 DEF Publish, PublisherStep, CrashPublish, ListRepos, SkipRepo, SelectTarget,
       DriftUnknown, NoDrift, Drift, NumberImport, ImportDrift, ImportFails, HaltRepo,
       UpdatePost, CreatePost, PushFails, Mark, Point, Supersede, FinishPublish, storeVars
  <2>2. CASE \E v \in Reviewers : Review(v)
    BY <2>2 DEF Review, ReviewerStep, ReadStatus, WriteStatus, ReadForEdit, CreateEdit,
       EditRefused, ReadDrift, KeepOurs, ReadForTheirs, SweepOne, SweepRefused, SweepDone,
       KeepTheirs, RequestFails, storeVars
  <2>3. CASE (\E r \in Repos : Scan(r)) \/ Site \/ UNCHANGED vars
    BY <2>3 DEF Scan, Rescan, Site, SiteEdit, vars, storeVars
  <2> QED
    BY <2>1, <2>2, <2>3 DEF Next
<1> HIDE DEF Rows, Listing
<1>4. Rows /\ Listing
  BY <1>1, <1>3 DEF Rows, Listing
<1> QED
  BY <1>4 DEF Rows, Listing

\* What a sweep is going to supersede was on its list, or is older than an import
\* on file.
LEMMA TodoFrom ==
    ASSUME GateInv, [Next]_vars, NEW v \in Reviewers, NEW id \in RevIds,
           req'[v].todo[id] = "superseded"
    PROVE \/ req[v].todo[id] = "superseded"
          \/ \E r \in Repos : \E imp \in Imports(r) :
                id \in WithStatus(r, "approved") /\ revs[id].version < revs[imp].version
                /\ revs' = revs
<1>a. req \in [Reviewers -> Request] /\ RequestsAreSound /\ NoRequest \in Request
  BY NoRequestType DEF GateInv, TypeOK, ReviewTypeOK
<1>n. NoRequest.todo[id] = "none"
  BY DEF NoRequest
<1>1. CASE Review(v)
  <2>0. ASSUME NEW x, req' = [req EXCEPT ![v] = x], x.todo = NoRequest.todo PROVE FALSE
    BY <1>a, <1>n, <2>0
  <2>1. CASE ReadForTheirs(v)
    <3> DEFINE r == req[v].repo
    <3>1. PICK imp \in NewestFirst(Imports(r)) :
              req' = [req EXCEPT ![v] = [NoRequest EXCEPT !.pc = "theirs", !.repo = r,
                                           !.rev = imp, !.todo = Sweep(r, imp)]]
      BY <2>1 DEF ReadForTheirs
    <3>2. req'[v].todo = Sweep(r, imp)
      BY <1>a, <3>1 DEF NoRequest
    <3>3. r \in Repos /\ imp \in Imports(r)
      BY <1>a, <2>1 DEF ReadForTheirs, ReqAt, RequestsAreSound, NewestFirst
    <3>4. id \in WithStatus(r, "approved") /\ revs[id].version < revs[imp].version
      BY <3>2 DEF Sweep, WithStatus
    <3> QED
      BY <2>1, <3>3, <3>4 DEF ReadForTheirs, storeVars
  <2>2. CASE SweepOne(v)
    <3>1. PICK j : req' = [req EXCEPT ![v].todo[j] = "none"]
      BY <2>2 DEF SweepOne
    <3>2. req[v] \in Request
      BY <1>a
    <3>3. req'[v].todo[id] = "none" \/ req'[v].todo[id] = req[v].todo[id]
      BY <1>a, <3>1, <3>2 DEF Request
    <3> QED
      BY <3>3
  <2>3. CASE SweepDone(v)
    <3>1. req'[v].todo = req[v].todo
      <4>1. req[v] \in Request
        BY <1>a
      <4> QED
        BY <1>a, <2>3, <4>1 DEF SweepDone, Request
    <3> QED
      BY <3>1
  <2>4. CASE Answer(v)
    BY <2>0, <2>4 DEF Answer
  <2>5. CASE ReadStatus(v)
    <3>1. PICK j, new : req' = [req EXCEPT ![v] = [NoRequest EXCEPT !.pc = "decide", !.rev = j,
                                             !.seen = revs[j].status, !.new = new]]
      BY <2>5 DEF ReadStatus
    <3>2. [NoRequest EXCEPT !.pc = "decide", !.rev = j,
                            !.seen = revs[j].status, !.new = new].todo = NoRequest.todo
      BY DEF NoRequest
    <3> QED
      BY <2>0, <3>1, <3>2
  <2>6. CASE ReadForEdit(v)
    <3>1. PICK j, b : req' = [req EXCEPT ![v] =
                        [NoRequest EXCEPT !.pc = "create", !.repo = revs[j].repo, !.rev = j,
                                          !.version = MaxVersionOf(revs[j].repo) + 1,
                                          !.body = b]]
      BY <2>6 DEF ReadForEdit
    <3>2. [NoRequest EXCEPT !.pc = "create", !.repo = revs[j].repo, !.rev = j,
                            !.version = MaxVersionOf(revs[j].repo) + 1,
                            !.body = b].todo = NoRequest.todo
      BY DEF NoRequest
    <3> QED
      BY <2>0, <3>1, <3>2
  <2>7. CASE ReadDrift(v)
    <3>1. PICK r, op : req' = [req EXCEPT ![v] =
                    [NoRequest EXCEPT !.pc = IF op = "keep_ours" THEN "ours" ELSE "list",
                                      !.repo = r]]
      BY <2>7 DEF ReadDrift
    <3>2. [NoRequest EXCEPT !.pc = IF op = "keep_ours" THEN "ours" ELSE "list",
                            !.repo = r].todo = NoRequest.todo
      BY DEF NoRequest
    <3> QED
      BY <2>0, <3>1, <3>2
  <2> QED
    BY <1>1, <2>1, <2>2, <2>3, <2>4, <2>5, <2>6, <2>7
       DEF Review, ReviewerStep, WriteStatus, CreateEdit, EditRefused, KeepOurs, SweepRefused,
           KeepTheirs, RequestFails
<1>2. CASE req'[v] = req[v]
  BY <1>2
<1>3. Review(v) \/ req'[v] = req[v]
  <2>1. ASSUME NEW u \in Reviewers, Review(u), u # v PROVE req'[v] = req[v]
    BY <1>a, <2>1 DEF Review, ReviewerStep, ReadStatus, WriteStatus, ReadForEdit, CreateEdit,
       EditRefused, ReadDrift, KeepOurs, ReadForTheirs, SweepOne, SweepRefused, SweepDone,
       KeepTheirs, RequestFails, Answer
  <2>2. (\E u \in Reviewers : Review(u)) \/ req' = req
    BY DEF Next, Process, Publish, Scan, Site, vars
  <2> QED
    BY <2>1, <2>2
<1> QED
  BY <1>1, <1>2, <1>3

\* What the pruner may take stays its prey: a decision is final, and the row a
\* publisher marks is approved.
LEMMA SpentStays ==
    ASSUME GateInv, TargetInv, [Next]_vars, NEW id \in RevIds, Spent(id) PROVE Spent(id)'
<1>1. RowForward(id) /\ Used(id)'
  BY StepForward, UsedStays DEF RowsForward, Spent
<1>2. revs'[id].live = revs[id].live
  <2>1. ASSUME NEW p \in Publishers, Mark(p) PROVE revs'[id] = revs[id]
    <3>1. pub[p].target \in WithStatus(pub[p].repo, "approved")
      BY <2>1 DEF Mark, PubAt, TargetInv, Stands, Booking
    <3>2. pub[p].target # id
      BY <3>1 DEF WithStatus, Spent
    <3>3. revs \in Table
      BY DEF GateInv, TypeOK, StoreTypeOK, Table
    <3> QED
      BY <2>1, <3>2, <3>3 DEF Mark, MarkPublished, Table
  <2> QED
    BY <2>1, StepMarks DEF Spent
<1> QED
  BY <1>1, <1>2 DEF Spent, RowForward

\* The pruner works from stale lists, and still only takes rows that were never shown.
LEMMA SpentNext ==
    ASSUME GateInv, ShownInv, [Next]_vars PROVE SpentInv'
<1>1. \A id \in RevIds : Spent(id) => Spent(id)'
  BY SpentStays DEF ShownInv
<1>2. deleted \subseteq RevIds /\ \A w \in Workers : wk[w].doomed \subseteq RevIds
  BY DEF GateInv, TypeOK, StoreTypeOK, PipelineTypeOK, Worker
<1>3. \A r \in Repos : \A id \in ForRetention(r, KeepTop) : id \in RevIds /\ Spent(id)
  BY DEF ForRetention, RowsOf, Exists, Spent
<1>4. ASSUME NEW id \in deleted' PROVE Spent(id)'
  BY <1>1, <1>2, DeletedFrom DEF ShownInv, SpentInv
<1>5. ASSUME NEW w \in Workers, NEW id \in wk'[w].doomed PROVE Spent(id)'
  BY <1>1, <1>2, <1>3, DeletedFrom DEF ShownInv, SpentInv
<1> QED
  BY <1>4, <1>5 DEF SpentInv

\* Rows that were shown, and rows that are approved, stay on file.
LEMMA RowStays ==
    ASSUME GateInv, ShownInv, [Next]_vars, NEW r, NEW id \in RowsOf(r),
           revs[id].live \/ revs[id].status = "approved"
    PROVE id \in RowsOf(r)' /\ revs'[id].version = revs[id].version
          /\ (revs[id].live => revs'[id].live)
<1>1. id \in RevIds /\ Used(id) /\ id \notin deleted /\ revs[id].repo = r
  BY DEF RowsOf, Exists
<1>2. RowForward(id) /\ Used(id)'
  BY <1>1, StepForward, UsedStays DEF RowsForward
<1>3. ~ Spent(id)
  BY DEF Spent
<1>4. id \notin deleted'
  BY <1>1, <1>3, DeletedFrom DEF ShownInv, SpentInv
<1> QED
  BY <1>1, <1>2, <1>4 DEF RowsOf, Exists, RowForward

\* So does what a pointer or a copy of one leads to.
LEMMA LiveStays ==
    ASSUME GateInv, ShownInv, [Next]_vars, NEW r, NEW id, LiveRow(id, r) PROVE LiveRow(id, r)'
  BY RowStays DEF LiveRow

\* An approved row gives way only to a newer one.
LEMMA CoverStays ==
    ASSUME GateInv, ShownInv, [Next]_vars, NEW r, NEW j \in WithStatus(r, "approved")
    PROVE \E k \in WithStatus(r, "approved")' : revs'[k].version >= revs[j].version
<1>a. revs \in Table /\ j \in RowsOf(r) /\ j \in RevIds /\ Used(j) /\ revs[j].status = "approved"
      /\ revs[j].repo = r
  BY DEF GateInv, TypeOK, StoreTypeOK, Table, WithStatus, RowsOf, Exists
<1>b. \A k \in RevIds : Used(k) => revs[k].version \in Nat
  BY <1>a, UsedIsRevision, StoreAssumption DEF Revision
<1>c. ASSUME NEW k \in WithStatus(r, "approved"), revs'[k].status = "approved"
      PROVE k \in WithStatus(r, "approved")' /\ revs'[k].version = revs[k].version
  <2>1. k \in RowsOf(r) /\ revs[k].status = "approved"
    BY DEF WithStatus
  <2> QED
    BY <1>c, <2>1, RowStays DEF WithStatus
<1>d. \A k \in WithStatus(r, "approved") : k \in RevIds /\ Used(k)
  BY DEF WithStatus, RowsOf, Exists
<1>1. CASE revs'[j].status = "approved"
  <2>1. revs'[j].version >= revs[j].version
    BY <1>a, <1>b, <1>c, <1>1
  <2> QED
    BY <1>c, <1>1, <2>1
<1>2. ASSUME NEW p \in Publishers, Supersede(p),
             revs' = SupersedeOlderApproved(pub[p].repo, revs[pub[p].target].version),
             j \in WithStatus(pub[p].repo, "approved"),
             revs[j].version < revs[pub[p].target].version
      PROVE \E k \in WithStatus(r, "approved")' : revs'[k].version >= revs[j].version
  <2> DEFINE k == pub[p].target
  <2>1. pub[p].repo = r
    BY <1>a, <1>2 DEF WithStatus, RowsOf
  <2>2. k \in WithStatus(r, "approved")
    BY <1>2, <2>1 DEF Supersede, PubAt, ShownInv, TargetInv, Stands
  <2>3. revs[k].version \in Nat /\ revs[j].version \in Nat
    BY <1>a, <1>b, <1>d, <2>2
  <2>4. revs'[k].status = "approved"
    <3> DEFINE n == revs[k].version
    <3>1. ~ n < n
      BY <2>3
    <3>2. revs'[k] = revs[k]
      BY <1>2, <1>d, <2>2, <3>1 DEF SupersedeOlderApproved
    <3> QED
      BY <2>2, <3>2 DEF WithStatus
  <2>5. k \in WithStatus(r, "approved")' /\ revs'[k].version = revs[k].version
    BY <1>c, <2>2, <2>4
  <2>6. revs'[k].version >= revs[j].version
    BY <1>2, <2>3, <2>5
  <2> HIDE DEF k
  <2> QED
    BY <2>5, <2>6
<1>3. ASSUME NEW v \in Reviewers, req[v].todo[j] = "superseded",
             \A i \in RevIds \ {j} : revs'[i] = revs[i]
      PROVE \E k \in WithStatus(r, "approved")' : revs'[k].version >= revs[j].version
  <2>1. PICK k \in WithStatus(r, "approved") : revs[k].version > revs[j].version
    BY <1>a, <1>3 DEF ShownInv, CoverInv
  <2>2. revs[k].version \in Nat /\ revs[j].version \in Nat /\ k \in RevIds
    BY <1>a, <1>b, <1>d
  <2>3. k # j
    BY <2>1, <2>2
  <2>4. revs'[k].status = "approved"
    BY <1>3, <2>2, <2>3 DEF WithStatus
  <2>5. k \in WithStatus(r, "approved")' /\ revs'[k].version = revs[k].version
    BY <1>c, <2>4
  <2>6. revs'[k].version >= revs[j].version
    BY <2>1, <2>2, <2>5
  <2> QED
    BY <2>5, <2>6
<1> QED
  BY <1>a, <1>1, <1>2, <1>3, ApprovedStays

\* Where a new row comes from, and which marks it has.
LEMMA NewRowFrom ==
    ASSUME GateInv, [Next]_vars, NEW id \in RevIds, ~ Used(id), Used(id)'
    PROVE \/ /\ revs'[id].post = NoPost /\ ~ revs'[id].live
             /\ revs'[id].source # "patreon_import" /\ revs'[id].status = "pending_review"
             /\ pub' = pub /\ posts' = posts
             /\ \/ \E w \in Workers : At(w, "generated") /\ revs'[id].body = wk[w].body
                \/ \E v \in Reviewers : ReqAt(v, "create") /\ revs'[id].body = req[v].body
          \/ \E p \in Publishers :
                /\ Publish(p) /\ ImportDrift(p)
                /\ revs'[id] = NewRow(pub[p].repo, pub[p].version, "patreon_import", "approved",
                                      pub[p].seen, 0, pub[p].post, NoRev)
<1>a. revs \in Table
  BY DEF GateInv, TypeOK, StoreTypeOK, Table
<1>i. ASSUME NEW j \in Fresh, NEW row, revs' = Insert(j, row) PROVE revs'[id] = row
  BY <1>a, <1>i, InsertedRow DEF Fresh, Used
<1>n. ASSUME NEW r, NEW n, NEW source, source # "patreon_import", NEW body, NEW sha, NEW old,
             revs'[id] = NewRow(r, n, source, "pending_review", body, sha, NoPost, old)
      PROVE /\ revs'[id].post = NoPost /\ ~ revs'[id].live
            /\ revs'[id].source # "patreon_import" /\ revs'[id].status = "pending_review"
            /\ revs'[id].body = body
  <2>1. /\ revs'[id].post = NoPost /\ revs'[id].live = (NoPost # NoPost)
        /\ revs'[id].body = body
        /\ revs'[id].source = source /\ revs'[id].status = "pending_review"
    BY <1>n DEF NewRow
  <2> QED
    BY <1>n, <2>1
<1>1. CASE \E w \in Workers : Process(w) /\ InsertDraft(w)
  <2>1. PICK w \in Workers : Process(w) /\ InsertDraft(w)
    BY <1>1
  <2>2. revs'[id] = NewRow(wk[w].repo, MaxVersionOf(wk[w].repo) + 1, "generated",
                           "pending_review", wk[w].body, wk[w].sha, NoPost, NoRev)
    BY <1>i, <2>1 DEF InsertDraft
  <2>3. pub' = pub /\ posts' = posts /\ At(w, "generated")
    BY <2>1 DEF Process, publishVars, InsertDraft
  <2> QED
    BY <1>n, <2>2, <2>3
<1>2. CASE \E v \in Reviewers : Review(v) /\ CreateEdit(v)
  <2>1. PICK v \in Reviewers : Review(v) /\ CreateEdit(v)
    BY <1>2
  <2>2. revs'[id] = NewRow(req[v].repo, req[v].version, "manual_edit",
                           "pending_review", req[v].body, 0, NoPost, req[v].rev)
    BY <1>i, <2>1 DEF CreateEdit
  <2>3. pub' = pub /\ posts' = posts /\ ReqAt(v, "create")
    BY <2>1 DEF Review, publishVars, CreateEdit
  <2> QED
    BY <1>n, <2>2, <2>3
<1>3. ASSUME NEW p \in Publishers, Publish(p), ImportDrift(p)
      PROVE revs'[id] = NewRow(pub[p].repo, pub[p].version, "patreon_import", "approved",
                               pub[p].seen, 0, pub[p].post, NoRev)
  BY <1>i, <1>3 DEF ImportDrift
<1> QED
  BY <1>1, <1>2, <1>3, StepRows

\* The post the snapshot leads the publisher to is the repository's own.
LEMMA LivePostIs ==
    ASSUME GateInv, ShownInv, NEW p \in Publishers, pub[p].pc \in Selecting
    PROVE /\ pub[p].repo \in Repos
          /\ IF LivePost(p) = NoPost THEN NoPostYet(pub[p].repo)
             ELSE OwnPost(LivePost(p), pub[p].repo)
          /\ LivePost(p) \in PostIds \cup {EmptyPost, NoPost}
<1> DEFINE r == pub[p].repo
           id == Listed(p).published
<1>1. r \in Repos
  BY DEF GateInv, TargetsAreDecided, Selecting
<1>2. Leads(id, r)
  BY <1>1 DEF ShownInv, PointInv, Holds, Listed
<1>a. revs \in Table
  BY DEF GateInv, TypeOK, StoreTypeOK, Table
<1>3. CASE id = NoRev
  <2>1. ~ Exists(id)
    BY <1>3, StoreAssumption DEF Exists
  <2> QED
    BY <1>1, <1>2, <1>3, <2>1 DEF LivePost, Leads
<1>4. CASE id # NoRev
  <2>1. LiveRow(id, r)
    BY <1>2, <1>4 DEF Leads
  <2>2. id \in RevIds /\ Used(id) /\ Exists(id) /\ revs[id].repo = r /\ revs[id].live
    BY <2>1 DEF LiveRow, RowsOf, Exists
  <2>3. LivePost(p) = revs[id].post
    BY <2>2 DEF LivePost
  <2>4. revs[id].post # NoPost /\ OwnPost(revs[id].post, r)
    BY <2>2 DEF ShownInv, MarkInv, OwnPost
  <2>5. revs[id].post \in PostIds \cup {EmptyPost, NoPost}
    BY <1>a, <2>2, UsedIsRevision DEF Revision
  <2> QED
    BY <1>1, <2>3, <2>4, <2>5
<1> QED
  BY <1>3, <1>4

\* What a step does to a post.
PostStep(x) ==
    \/ posts'[x] = posts[x]
    \/ /\ pub' = pub /\ revs' = revs /\ posts[x].body # NoBody
       /\ posts'[x].repo = posts[x].repo /\ posts'[x].by = NoRev
    \/ \E p \in Publishers :
        /\ Publish(p) /\ UpdatePost(p) /\ x = LivePost(p) /\ posts[x].body # NoBody
        /\ posts[x].repo = pub[p].repo /\ posts'[x] = Shows(pub[p].repo, pub[p].target)
    \/ \E p \in Publishers :
        /\ Publish(p) /\ CreatePost(p) /\ posts[x] = NoSuchPost /\ NoPostYet(pub[p].repo)
        /\ posts'[x] = Shows(pub[p].repo, pub[p].target)
        /\ \A y \in PostIds \ {x} : posts'[y] = posts[y]

\* Every step does one of these to every post.
LEMMA StepPosts ==
    ASSUME Reliable, GateInv, ShownInv, [Next]_vars, NEW x \in PostIds PROVE PostStep(x)
<1>a. posts \in [PostIds -> Post]
  BY DEF GateInv, TypeOK, PublisherTypeOK
<1>1. ASSUME NEW p \in Publishers, Publish(p) PROVE PostStep(x)
  <2>1. CASE UpdatePost(p)
    <3>1. pub[p].pc \in Selecting /\ LivePost(p) # NoPost
      BY <2>1 DEF UpdatePost, PubAt, Selecting
    <3>2. OwnPost(LivePost(p), pub[p].repo)
      BY <3>1, LivePostIs
    <3>3. \/ posts'[x] = posts[x]
          \/ /\ x = LivePost(p) /\ posts[x].body # NoBody
             /\ posts'[x] = Shows(pub[p].repo, pub[p].target)
      BY <1>a, <2>1 DEF UpdatePost, Content
    <3>4. x = LivePost(p) => posts[x].repo = pub[p].repo
      BY <3>2 DEF OwnPost
    <3> QED
      BY <1>1, <2>1, <3>3, <3>4 DEF PostStep
  <2>2. CASE CreatePost(p)
    <3>1. pub[p].pc \in Selecting /\ LivePost(p) = NoPost
      BY <2>2 DEF CreatePost, PubAt, Selecting
    <3>2. NoPostYet(pub[p].repo)
      BY <3>1, LivePostIs
    <3>3. CASE posts' = posts
      BY <3>3 DEF PostStep
    <3>4. CASE \E y \in FreshPosts :
                  posts' = [posts EXCEPT ![y] = Shows(pub[p].repo, pub[p].target)]
      <4>1. PICK y \in FreshPosts :
                    posts' = [posts EXCEPT ![y] = Shows(pub[p].repo, pub[p].target)]
        BY <3>4
      <4>2. y \in PostIds /\ posts[y] = NoSuchPost
        BY DEF FreshPosts
      <4>3. CASE x = y
        BY <1>1, <1>a, <2>2, <3>2, <4>1, <4>2, <4>3 DEF PostStep
      <4>4. CASE x # y
        BY <1>a, <4>1, <4>2, <4>4 DEF PostStep
      <4> QED
        BY <4>3, <4>4
    <3> QED
      BY <2>2, <3>3, <3>4 DEF CreatePost
  <2>3. CASE posts' = posts
    BY <2>3 DEF PostStep
  <2>4. UpdatePost(p) \/ CreatePost(p) \/ posts' = posts
    <3>1. ~ "lost" \in PublishFaults
      BY DEF Reliable
    <3> QED
      BY <1>1, <3>1 DEF Publish, PublisherStep, CrashPublish, ListRepos, SkipRepo, SelectTarget,
         DriftUnknown, NoDrift, Drift, NumberImport, ImportDrift, ImportFails, HaltRepo,
         PushFails, Mark, Point, Supersede, FinishPublish
  <2> QED
    BY <2>1, <2>2, <2>3, <2>4
<1>2. CASE Site
  <2>1. PICK y \in PostIds, b \in Bodies \cup {NoBody} :
            /\ posts[y].body # NoBody
            /\ posts' = [posts EXCEPT ![y].body = b, ![y].by = NoRev]
    BY <1>2 DEF Site, SiteEdit
  <2>2. pub' = pub /\ revs' = revs
    BY <1>2 DEF Site, SiteEdit, storeVars
  <2>3. \/ posts'[x] = posts[x]
        \/ posts[x].body # NoBody /\ posts'[x] = [posts[x] EXCEPT !.body = b, !.by = NoRev]
    BY <1>a, <2>1
  <2>4. posts[x] \in Post
    BY <1>a
  <2> QED
    BY <2>2, <2>3, <2>4 DEF PostStep, Post
<1>3. CASE posts' = posts
  BY <1>3 DEF PostStep
<1> QED
  BY <1>1, <1>2, <1>3 DEF Next, Process, Review, Scan, publishVars, vars

\* A post keeps the repository it is about.
LEMMA OwnPostStays ==
    ASSUME Reliable, GateInv, ShownInv, [Next]_vars, NEW r \in Repos
    PROVE \A x : OwnPost(x, r) => OwnPost(x, r)'
<1> SUFFICES ASSUME NEW x \in PostIds, posts[x].repo = r PROVE posts'[x].repo = r
  BY DEF OwnPost
<1>1. PostStep(x)
  BY StepPosts
<1>2. posts[x] # NoSuchPost
  BY StoreAssumption DEF NoSuchPost
<1>3. \A q, id : Shows(q, id).repo = q
  BY DEF Shows
<1> QED
  BY <1>1, <1>2, <1>3 DEF PostStep

\* A row that is written is a revision, before a step and after it.
LEMMA RowTypes ==
    ASSUME GateInv, [Next]_vars
    PROVE /\ \A id \in RevIds : Used(id) => revs[id] \in Revision /\ revs[id].version \in Nat
          /\ \A id \in RevIds : Used(id)' => revs'[id] \in Revision /\ revs'[id].version \in Nat
<1>1. GateInv'
  BY GateNext
<1>2. revs \in Table /\ revs' \in Table
  BY <1>1 DEF GateInv, TypeOK, StoreTypeOK, Table
<1> QED
  BY <1>2, StoreAssumption DEF Table, Used, Unused, Revision

\* Every step keeps the published marks in agreement.
LEMMA MarkNext ==
    ASSUME Reliable, GateInv, ShownInv, [Next]_vars PROVE MarkInv'
<1> SUFFICES ASSUME NEW id \in RevIds, Used(id)'
             PROVE /\ revs'[id].live <=> revs'[id].post # NoPost
                   /\ revs'[id].post \in PostIds => posts'[revs'[id].post].repo = revs'[id].repo
                   /\ revs'[id].source = "patreon_import" => revs'[id].live
  BY DEF MarkInv
<1> DEFINE Agree == /\ revs'[id].live <=> revs'[id].post # NoPost
                    /\ revs'[id].post \in PostIds => posts'[revs'[id].post].repo = revs'[id].repo
                    /\ revs'[id].source = "patreon_import" => revs'[id].live
<1>1. CASE Used(id)
  <2>1. RowForward(id) /\ revs[id].repo \in Repos
    BY <1>1, StepForward, RowTypes DEF RowsForward, Revision
  <2>2. /\ revs[id].live <=> revs[id].post # NoPost
        /\ revs[id].post \in PostIds => posts[revs[id].post].repo = revs[id].repo
        /\ revs[id].source = "patreon_import" => revs[id].live
    BY <1>1 DEF ShownInv, MarkInv
  <2>3. CASE revs'[id].post = revs[id].post /\ revs'[id].live = revs[id].live
    <3>0. PICK r, x : r \in Repos /\ r = revs[id].repo /\ x = revs[id].post
      BY <2>1
    <3>1. OwnPost(x, r) /\ revs'[id].repo = r /\ revs'[id].post = x
      BY <3>0, <2>1, <2>2, <2>3 DEF RowForward, OwnPost
    <3>2. OwnPost(x, r)'
      BY <3>0, <3>1, OwnPostStays
    <3>3. x \in PostIds => posts'[x].repo = r
      BY <3>2 DEF OwnPost
    <3> QED
      BY <2>1, <2>2, <2>3, <3>1, <3>3 DEF RowForward
  <2>4. ASSUME NEW p \in Publishers, Publish(p), Mark(p),
               ~ (revs'[id].post = revs[id].post /\ revs'[id].live = revs[id].live)
        PROVE Agree
    <3>1. /\ pub[p].target \in WithStatus(pub[p].repo, "approved")
          /\ pub[p].post # NoPost
          /\ pub[p].post \in PostIds => posts[pub[p].post].repo = pub[p].repo
      BY <2>4 DEF Mark, PubAt, ShownInv, TargetInv, Stands, Booking
    <3>2. revs' = MarkPublished(pub[p].target, pub[p].post)
      BY <2>4 DEF Mark
    <3>3. revs \in Table /\ revs[id] \in Revision
      BY <1>1, RowTypes DEF GateInv, TypeOK, StoreTypeOK, Table
    <3>4. id = pub[p].target
      BY <2>4, <3>2, <3>3 DEF MarkPublished, Table
    <3>5. Exists(id) /\ revs[id].repo = pub[p].repo
      BY <3>1, <3>4 DEF WithStatus, RowsOf
    <3>6. revs'[id] = [revs[id] EXCEPT !.post = pub[p].post, !.live = TRUE]
      BY <3>2, <3>3, <3>4, <3>5 DEF MarkPublished, Table
    <3>7. /\ revs'[id].post = pub[p].post /\ revs'[id].live /\ revs'[id].repo = pub[p].repo
          /\ posts' = posts
      BY <2>4, <3>3, <3>5, <3>6 DEF Mark, Revision
    <3> QED
      BY <3>1, <3>7
  <2> HIDE DEF Agree
  <2>5. CASE \E p \in Publishers : Publish(p) /\ Mark(p)
    BY <2>3, <2>4, <2>5 DEF Agree
  <2>6. Agree
    BY <1>1, <2>3, <2>5, StepMarks DEF Agree
  <2> QED
    BY <2>6 DEF Agree
<1>2. CASE ~ Used(id)
  <2>1. CASE /\ revs'[id].post = NoPost /\ ~ revs'[id].live
             /\ revs'[id].source # "patreon_import"
    BY <2>1, StoreAssumption
  <2>2. ASSUME NEW p \in Publishers, ImportDrift(p),
               revs'[id] = NewRow(pub[p].repo, pub[p].version, "patreon_import", "approved",
                                  pub[p].seen, 0, pub[p].post, NoRev)
        PROVE Agree
    <3>1. /\ pub[p].post # NoPost
          /\ pub[p].post \in PostIds => posts[pub[p].post].repo = pub[p].repo
      BY <2>2 DEF ImportDrift, PubAt, ShownInv, TargetInv
    <3>2. /\ revs'[id].post = pub[p].post /\ revs'[id].live = (pub[p].post # NoPost)
          /\ revs'[id].repo = pub[p].repo /\ posts' = posts
      BY <2>2 DEF NewRow, ImportDrift
    <3> QED
      BY <3>1, <3>2
  <2> QED
    BY <1>2, <2>1, <2>2, NewRowFrom
<1> QED
  BY <1>1, <1>2

\* An import on file was on file, or is the one the publisher has just recorded.
LEMMA ImportFrom ==
    ASSUME GateInv, [Next]_vars, NEW r \in Repos, NEW imp \in Imports(r)'
    PROVE \/ imp \in Imports(r) /\ Used(imp) /\ revs'[imp].version = revs[imp].version
          \/ /\ imp \in WithStatus(r, "approved")' /\ Used(imp)'
             /\ \E p \in Publishers : Publish(p) /\ ImportDrift(p)
<1>1. /\ imp \in RevIds /\ Used(imp)' /\ imp \notin deleted' /\ revs'[imp].repo = r
      /\ revs'[imp].source = "patreon_import" /\ imp \in RowsOf(r)'
  BY DEF Imports, RowsOf, Exists
<1>2. CASE Used(imp)
  <2>1. RowForward(imp) /\ imp \notin deleted
    BY <1>1, <1>2, StepForward, DeletedStays DEF RowsForward
  <2> QED
    BY <1>1, <1>2, <2>1 DEF RowForward, Imports, RowsOf, Exists
<1>3. CASE ~ Used(imp)
  <2>1. PICK p \in Publishers : /\ Publish(p) /\ ImportDrift(p)
                                /\ revs'[imp] = NewRow(pub[p].repo, pub[p].version,
                                      "patreon_import", "approved", pub[p].seen, 0,
                                      pub[p].post, NoRev)
    BY <1>1, <1>3, NewRowFrom
  <2>2. revs'[imp].status = "approved"
    BY <2>1 DEF NewRow
  <2> QED
    BY <1>1, <2>1, <2>2 DEF WithStatus
<1> QED
  BY <1>2, <1>3

\* Every step keeps the imports, and what the sweeps ask for, covered.
LEMMA CoverNext ==
    ASSUME GateInv, ShownInv, [Next]_vars PROVE CoverInv'
<1>t. /\ \A id \in RevIds : Used(id) => revs[id].version \in Nat
      /\ \A id \in RevIds : Used(id)' => revs'[id].version \in Nat
  BY RowTypes
<1>w. /\ \A r : \A j \in WithStatus(r, "approved") : j \in RevIds /\ Used(j)
      /\ \A r : \A j \in WithStatus(r, "approved")' : j \in RevIds /\ Used(j)'
      /\ \A r : \A j \in Imports(r) : j \in RevIds /\ Used(j)
  BY DEF WithStatus, RowsOf, Exists, Imports
<1>1. ASSUME NEW r \in Repos, NEW imp \in Imports(r)'
      PROVE \E j \in WithStatus(r, "approved")' : revs'[j].version >= revs'[imp].version
  <2>1. CASE imp \in Imports(r) /\ Used(imp) /\ revs'[imp].version = revs[imp].version
    <3>1. PICK j \in WithStatus(r, "approved") : revs[j].version >= revs[imp].version
      BY <2>1 DEF ShownInv, CoverInv
    <3>2. PICK k \in WithStatus(r, "approved")' : revs'[k].version >= revs[j].version
      BY CoverStays
    <3>3. revs[j].version \in Nat /\ revs[imp].version \in Nat /\ revs'[k].version \in Nat
      BY <1>t, <1>w, <2>1
    <3>4. revs'[k].version >= revs'[imp].version
      BY <2>1, <3>1, <3>2, <3>3
    <3> QED
      BY <3>4
  <2>2. CASE imp \in WithStatus(r, "approved")' /\ Used(imp)'
    <3>1. revs'[imp].version \in Nat
      BY <1>t, <1>w, <2>2
    <3>2. revs'[imp].version >= revs'[imp].version
      BY <3>1
    <3> QED
      BY <2>2, <3>2
  <2> QED
    BY <2>1, <2>2, ImportFrom
<1>2. ASSUME NEW v \in Reviewers, NEW id \in RevIds, req'[v].todo[id] = "superseded"
      PROVE /\ Used(id)'
            /\ \E r \in Repos : revs'[id].repo = r /\ \E j \in WithStatus(r, "approved")' :
                    revs'[j].version > revs'[id].version
  <2>1. Used(id) /\ \E r \in Repos : revs[id].repo = r /\ \E j \in WithStatus(r, "approved") :
                                                        revs[j].version > revs[id].version
    <3>1. CASE req[v].todo[id] = "superseded"
      BY <3>1 DEF ShownInv, CoverInv
    <3>2. ASSUME NEW r \in Repos, NEW imp \in Imports(r), id \in WithStatus(r, "approved"),
                 revs[id].version < revs[imp].version
          PROVE /\ Used(id) /\ revs[id].repo = r
                /\ \E j \in WithStatus(r, "approved") : revs[j].version > revs[id].version
      <4>1. PICK j \in WithStatus(r, "approved") : revs[j].version >= revs[imp].version
        BY DEF ShownInv, CoverInv
      <4>2. revs[j].version \in Nat /\ revs[imp].version \in Nat /\ revs[id].version \in Nat
        BY <1>t, <1>w, <3>2
      <4>3. revs[j].version > revs[id].version
        BY <3>2, <4>1, <4>2
      <4>4. Used(id) /\ revs[id].repo = r
        BY <3>2 DEF WithStatus, RowsOf, Exists
      <4> QED
        BY <4>3, <4>4
    <3> QED
      BY <1>2, <3>1, <3>2, TodoFrom
  <2>2. PICK r \in Repos : revs[id].repo = r /\ \E j \in WithStatus(r, "approved") :
                                                revs[j].version > revs[id].version
    BY <2>1
  <2>3. PICK j \in WithStatus(r, "approved") : revs[j].version > revs[id].version
    BY <2>2
  <2>4. RowForward(id) /\ Used(id)'
    BY <2>1, StepForward, UsedStays DEF RowsForward
  <2>5. revs'[id].repo = r /\ revs'[id].version = revs[id].version
    BY <2>2, <2>4 DEF RowForward
  <2>6. PICK k \in WithStatus(r, "approved")' : revs'[k].version >= revs[j].version
    BY CoverStays
  <2>7. revs[j].version \in Nat /\ revs[id].version \in Nat /\ revs'[k].version \in Nat
    BY <1>t, <1>w, <2>1
  <2>8. revs'[k].version > revs'[id].version
    BY <2>3, <2>5, <2>6, <2>7
  <2> QED
    BY <2>4, <2>5, <2>8
<1> QED
  BY <1>1, <1>2 DEF CoverInv

\* While no publisher supersedes or imports, an approved row as new as every import,
\* that no sweep asks for, remains all that.
LEMMA StandsStays ==
    ASSUME GateInv, ShownInv, [Next]_vars, NEW r \in Repos, NEW t, Stands(t, r),
           ~ \E p \in Publishers : Publish(p) /\ (Supersede(p) \/ ImportDrift(p))
    PROVE Stands(t, r)'
<1>a. t \in RevIds /\ t \in RowsOf(r) /\ Used(t) /\ revs[t].status = "approved"
      /\ revs[t].repo = r
  BY DEF Stands, WithStatus, RowsOf, Exists
<1>t. \A id \in RevIds : Used(id) => revs[id].version \in Nat
  BY RowTypes
<1>1. revs'[t].status = "approved"
  <2>1. \A v \in Reviewers : req[v].todo[t] # "superseded"
    BY DEF Stands
  <2> QED
    BY <1>a, <2>1, ApprovedStays
<1>2. t \in WithStatus(r, "approved")' /\ revs'[t].version = revs[t].version
  BY <1>a, <1>1, RowStays DEF WithStatus
<1>3. ASSUME NEW imp \in Imports(r)' PROVE revs'[imp].version <= revs'[t].version
  <2>1. imp \in Imports(r) /\ revs'[imp].version = revs[imp].version
    BY ImportFrom
  <2>2. revs[imp].version <= revs[t].version
    BY <2>1 DEF Stands
  <2> QED
    BY <1>2, <2>1, <2>2
<1>4. ASSUME NEW v \in Reviewers PROVE req'[v].todo[t] # "superseded"
  <2>1. SUFFICES ASSUME req'[v].todo[t] = "superseded" PROVE FALSE
    OBVIOUS
  <2>2. PICK q \in Repos : \E imp \in Imports(q) :
            t \in WithStatus(q, "approved") /\ revs[t].version < revs[imp].version
    BY <1>a, <2>1, TodoFrom DEF Stands
  <2>3. PICK imp \in Imports(q) : revs[t].version < revs[imp].version
                                  /\ t \in WithStatus(q, "approved")
    BY <2>2
  <2>4. q = r
    BY <1>a, <2>3 DEF WithStatus, RowsOf
  <2>5. revs[imp].version <= revs[t].version
    BY <2>4 DEF Stands
  <2>6. imp \in RevIds /\ Used(imp)
    BY DEF Imports, RowsOf, Exists
  <2>7. revs[imp].version \in Nat /\ revs[t].version \in Nat
    BY <1>a, <1>t, <2>6
  <2> QED
    BY <2>3, <2>5, <2>7
<1> QED
  BY <1>2, <1>3, <1>4 DEF Stands

\* With one publisher, a step is its own or leaves it where it is.
LEMMA PublisherOrNot ==
    ASSUME OnePublisher, GateInv, [Next]_vars, NEW p \in Publishers
    PROVE \/ Publish(p) /\ Place(p)
          \/ pub' = pub /\ ~ \E q \in Publishers : Publish(q)
<1>1. (\E q \in Publishers : Publish(q)) => Publish(p)
  BY DEF OnePublisher
<1>2. Publish(p) => Place(p)
  BY PublisherPlaces DEF Publish, GateInv, TypeOK
<1>3. (\E q \in Publishers : Publish(q)) \/ pub' = pub
  BY DEF Next, Process, Review, Scan, Site, SiteEdit, vars, publishVars
<1> QED
  BY <1>1, <1>2, <1>3

\* Where p is after its step, if it still has a target.
LEMMA PlaceAfter ==
    ASSUME NEW p, Place(p), pub'[p].pc \notin {"off", "next", "halt"}
    PROVE \/ SelectTarget(p) /\ \E r, id : Selects(p, r, id)
          \/ /\ Keeps(p) /\ pub[p].pc \in Selecting \cup Booking
             /\ ~ (Supersede(p) \/ ImportDrift(p))
             /\ pub'[p].pc \in Selecting => pub[p].pc \in Selecting
<1>1. Lists(p) => pub'[p].pc = "next"
  BY DEF Lists
<1>2. Leaves(p) => pub'[p].pc \in {"off", "next"}
  BY DEF Leaves
<1>3. ASSUME NEW from \in Selecting \cup Booking, NEW to, Moves(p, from, to),
             to \in Selecting => from \in Selecting, from # "import"
      PROVE /\ Keeps(p) /\ pub[p].pc \in Selecting \cup Booking
            /\ ~ (Supersede(p) \/ ImportDrift(p))
            /\ pub'[p].pc \in Selecting => pub[p].pc \in Selecting
  BY <1>3 DEF Moves, Supersede, ImportDrift, PubAt, Selecting, Booking
<1>4. Moves(p, "import", "halt") => pub'[p].pc = "halt"
  BY DEF Moves
<1>5. CASE \E from \in Selecting \cup Booking : \E to :
             Moves(p, from, to) /\ (to \in Selecting => from \in Selecting) /\ from # "import"
  BY <1>3, <1>5
<1>6. \/ Moves(p, "check", "push") \/ Moves(p, "check", "drift") \/ Moves(p, "drift", "import")
      \/ Moves(p, "push", "mark") \/ Moves(p, "mark", "point") \/ Moves(p, "point", "supersede")
      \/ SelectTarget(p) /\ \E r, id : Selects(p, r, id)
  BY <1>1, <1>2, <1>4 DEF Place
<1>7. \/ \E from \in Selecting \cup Booking : \E to :
             Moves(p, from, to) /\ (to \in Selecting => from \in Selecting) /\ from # "import"
      \/ SelectTarget(p) /\ \E r, id : Selects(p, r, id)
  BY <1>6 DEF Selecting, Booking
<1> QED
  BY <1>5, <1>7

\* The newest approved row, when the publisher chooses it, is as new as every import.
LEMMA NewestStands ==
    ASSUME GateInv, ShownInv, NEW r \in Repos, NEW t \in NewestFirst(WithStatus(r, "approved"))
    PROVE Stands(t, r) /\ t \in RevIds
<1>t. \A id \in RevIds : Used(id) => revs[id].version \in Nat
  <2>1. revs \in Table
    BY DEF GateInv, TypeOK, StoreTypeOK, Table
  <2> QED
    BY <2>1, UsedIsRevision, StoreAssumption DEF Revision
<1>w. /\ \A j \in WithStatus(r, "approved") : j \in RevIds /\ Used(j) /\ revs[j].repo = r
      /\ \A j \in Imports(r) : j \in RevIds /\ Used(j)
  BY DEF WithStatus, RowsOf, Exists, Imports
<1>1. t \in WithStatus(r, "approved")
      /\ \A j \in WithStatus(r, "approved") : revs[j].version <= revs[t].version
  BY DEF NewestFirst
<1>2. ASSUME NEW imp \in Imports(r) PROVE revs[imp].version <= revs[t].version
  <2>1. PICK j \in WithStatus(r, "approved") : revs[j].version >= revs[imp].version
    BY DEF ShownInv, CoverInv
  <2>2. revs[j].version \in Nat /\ revs[imp].version \in Nat /\ revs[t].version \in Nat
    BY <1>t, <1>w, <1>1
  <2> QED
    BY <1>1, <2>1, <2>2
<1>3. ASSUME NEW v \in Reviewers, req[v].todo[t] = "superseded" PROVE FALSE
  <2>1. t \in RevIds /\ revs[t].repo = r
    BY <1>w, <1>1
  <2>2. PICK j \in WithStatus(r, "approved") : revs[j].version > revs[t].version
    BY <1>3, <2>1 DEF ShownInv, CoverInv
  <2>3. revs[j].version <= revs[t].version
    BY <1>1
  <2>4. revs[j].version \in Nat /\ revs[t].version \in Nat
    BY <1>t, <1>w, <1>1
  <2> QED
    BY <2>2, <2>3, <2>4
<1> QED
  BY <1>w, <1>1, <1>2, <1>3 DEF Stands

\* Every step keeps the publisher's target.
LEMMA TargetNext ==
    ASSUME OnePublisher, Reliable, GateInv, ShownInv, [Next]_vars PROVE TargetInv'
<1> SUFFICES ASSUME NEW p \in Publishers
             PROVE /\ pub'[p].pc \in Selecting \cup Booking \cup {"supersede"} =>
                        \E t \in RevIds, r \in Repos :
                            pub'[p].target = t /\ pub'[p].repo = r /\ Stands(t, r)'
                   /\ pub'[p].pc \in Selecting => pub'[p].repo \notin pub'[p].todo
                   /\ pub'[p].pc \in {"drift", "import", "mark"} =>
                        /\ pub'[p].post # NoPost
                        /\ pub'[p].post \in PostIds => posts'[pub'[p].post].repo = pub'[p].repo
                   /\ pub'[p].pc \in {"point", "supersede"} => revs'[pub'[p].target].live
  BY DEF TargetInv
<1>0. \/ Publish(p) /\ Place(p)
      \/ pub' = pub /\ ~ \E q \in Publishers : Publish(q)
  BY PublisherOrNot
<1>s. ~ (Supersede(p) \/ ImportDrift(p)) =>
        ~ \E q \in Publishers : Publish(q) /\ (Supersede(q) \/ ImportDrift(q))
  BY DEF OnePublisher
<1>1. ASSUME pub'[p].pc \in Selecting \cup Booking \cup {"supersede"}
      PROVE \E t \in RevIds, r \in Repos :
                pub'[p].target = t /\ pub'[p].repo = r /\ Stands(t, r)'
  <2>1. CASE /\ pub'[p].repo = pub[p].repo /\ pub'[p].target = pub[p].target
             /\ pub[p].pc \in Selecting \cup Booking \cup {"supersede"}
             /\ ~ \E q \in Publishers : Publish(q) /\ (Supersede(q) \/ ImportDrift(q))
    <3>1. PICK t \in RevIds, r \in Repos : pub[p].target = t /\ pub[p].repo = r /\ Stands(t, r)
      BY <2>1 DEF ShownInv, TargetInv
    <3>2. Stands(t, r)'
      BY <2>1, <3>1, StandsStays
    <3> QED
      BY <2>1, <3>1, <3>2
  <2>2. ASSUME SelectTarget(p), NEW r, NEW t, Selects(p, r, t)
        PROVE \E i \in RevIds, q \in Repos :
                pub'[p].target = i /\ pub'[p].repo = q /\ Stands(i, q)'
    <3>1. r \in Repos
      BY <2>2 DEF Selects, GateInv, TypeOK, PublisherTypeOK, Publisher
    <3>2. Stands(t, r) /\ t \in RevIds
      BY <2>2, <3>1, NewestStands DEF Selects
    <3>3. ~ (Supersede(p) \/ ImportDrift(p))
      BY <2>2 DEF SelectTarget, Supersede, ImportDrift, PubAt
    <3>4. Stands(t, r)'
      BY <1>s, <3>1, <3>2, <3>3, StandsStays
    <3> QED
      BY <2>2, <3>1, <3>2, <3>4 DEF Selects
  <2>3. pub'[p].pc \notin {"off", "next", "halt"}
    BY <1>1 DEF Selecting, Booking
  <2>4. CASE Publish(p) /\ Place(p)
    <3>1. CASE Keeps(p) /\ pub[p].pc \in Selecting \cup Booking
               /\ ~ (Supersede(p) \/ ImportDrift(p))
      BY <1>s, <2>1, <3>1 DEF Keeps
    <3> QED
      BY <2>2, <2>3, <2>4, <3>1, PlaceAfter
  <2>5. CASE pub' = pub /\ ~ \E q \in Publishers : Publish(q)
    BY <1>1, <2>1, <2>5
  <2> QED
    BY <1>0, <2>4, <2>5
<1>2. ASSUME pub'[p].pc \in Selecting PROVE pub'[p].repo \notin pub'[p].todo
  <2>1. CASE Publish(p) /\ Place(p)
    <3>1. pub'[p].pc \notin {"off", "next", "halt"}
      BY <1>2 DEF Selecting
    <3>2. ASSUME NEW r, NEW t, Selects(p, r, t) PROVE pub'[p].repo \notin pub'[p].todo
      BY <3>2 DEF Selects
    <3>3. CASE Keeps(p) /\ pub[p].pc \in Selecting
      BY <3>3 DEF Keeps, ShownInv, TargetInv
    <3> QED
      BY <1>2, <2>1, <3>1, <3>2, <3>3, PlaceAfter
  <2>2. CASE pub' = pub
    BY <1>2, <2>2 DEF ShownInv, TargetInv
  <2> QED
    BY <1>0, <2>1, <2>2
<1>p. ASSUME NEW x, NEW r \in Repos, x \in PostIds => posts[x].repo = r
      PROVE x \in PostIds => posts'[x].repo = r
  <2>1. OwnPost(x, r)'
    BY <1>p, OwnPostStays DEF OwnPost
  <2> QED
    BY <2>1 DEF OwnPost
<1>r. pub[p].pc \notin {"off", "next"} => pub[p].repo \in Repos
  BY DEF GateInv, TargetsAreDecided
<1>3. ASSUME pub'[p].pc \in {"drift", "import", "mark"}
      PROVE /\ pub'[p].post # NoPost
            /\ pub'[p].post \in PostIds => posts'[pub'[p].post].repo = pub'[p].repo
  <2>1. CASE /\ pub'[p].post = pub[p].post /\ pub'[p].repo = pub[p].repo
             /\ pub[p].pc \in {"drift", "import", "mark"}
    <3>1. PICK r, x : r \in Repos /\ r = pub[p].repo /\ x = pub[p].post
      BY <1>r, <2>1
    <3>2. x # NoPost /\ (x \in PostIds => posts[x].repo = r)
      BY <2>1, <3>1 DEF ShownInv, TargetInv
    <3>3. x \in PostIds => posts'[x].repo = r
      BY <1>p, <3>1, <3>2
    <3> QED
      BY <2>1, <3>1, <3>2, <3>3
  <2>2. CASE /\ pub'[p].post = LivePost(p) /\ LivePost(p) # NoPost /\ pub'[p].repo = pub[p].repo
             /\ pub[p].pc \in Selecting
    <3>1. PICK r, x : r \in Repos /\ r = pub[p].repo /\ x = LivePost(p)
      BY <2>2, LivePostIs
    <3>2. x # NoPost /\ (x \in PostIds => posts[x].repo = r)
      BY <2>2, <3>1, LivePostIs DEF OwnPost
    <3>3. x \in PostIds => posts'[x].repo = r
      BY <1>p, <3>1, <3>2
    <3> QED
      BY <2>2, <3>1, <3>2, <3>3
  <2>3. CASE CreatePost(p) /\ Keeps(p)
    <3>1. pub[p] \in Publisher /\ posts \in [PostIds -> Post]
      BY DEF GateInv, TypeOK, PublisherTypeOK
    <3>2. \/ \E x \in FreshPosts : /\ posts' = [posts EXCEPT ![x] = Shows(pub[p].repo, pub[p].target)]
                                   /\ Pushed(p, x)
          \/ Pushed(p, EmptyPost)
      BY <2>3 DEF CreatePost
    <3>3. \A x : Pushed(p, x) => pub'[p].post = x
      BY <3>1 DEF Pushed, GateInv, TypeOK, PublisherTypeOK
    <3>4. CASE Pushed(p, EmptyPost)
      BY <3>3, <3>4, StoreAssumption
    <3>5. CASE \E x \in FreshPosts :
                  /\ posts' = [posts EXCEPT ![x] = Shows(pub[p].repo, pub[p].target)]
                  /\ Pushed(p, x)
      <4>1. PICK x \in FreshPosts :
                  /\ posts' = [posts EXCEPT ![x] = Shows(pub[p].repo, pub[p].target)]
                  /\ Pushed(p, x)
        BY <3>5
      <4>2. x \in PostIds /\ pub'[p].post = x
        BY <3>3, <4>1 DEF FreshPosts
      <4>3. posts'[x].repo = pub[p].repo
        BY <3>1, <4>1, <4>2 DEF Shows
      <4> QED
        BY <2>3, <4>2, <4>3, StoreAssumption DEF Keeps
    <3> QED
      BY <3>2, <3>4, <3>5
  <2>4. CASE Publish(p) /\ Place(p)
    <3>1. \/ Drift(p) /\ Moves(p, "check", "drift") /\ pub'[p].post = LivePost(p)
          \/ Moves(p, "drift", "import") /\ pub'[p].post = pub[p].post
          \/ UpdatePost(p) /\ Moves(p, "push", "mark") /\ pub'[p].post = LivePost(p)
          \/ CreatePost(p) /\ Moves(p, "push", "mark")
      BY <1>3, <2>4 DEF Place, Lists, Leaves, Selects, Moves
    <3> QED
      BY <2>1, <2>2, <2>3, <3>1 DEF Drift, UpdatePost, Moves, Keeps, Selecting
  <2>5. CASE pub' = pub
    BY <1>3, <2>1, <2>5
  <2> QED
    BY <1>0, <2>4, <2>5
<1>4. ASSUME pub'[p].pc \in {"point", "supersede"} PROVE revs'[pub'[p].target].live
  <2>1. CASE pub'[p].target = pub[p].target /\ pub[p].pc \in {"point", "supersede"}
    <3>1. PICK t \in RevIds, r \in Repos : pub[p].target = t /\ pub[p].repo = r /\ Stands(t, r)
      BY <2>1 DEF ShownInv, TargetInv, Booking
    <3>2. revs[t].live /\ t \in RowsOf(r)
      BY <2>1, <3>1 DEF ShownInv, TargetInv, Stands, WithStatus
    <3>3. revs'[t].live
      BY <3>2, RowStays
    <3> QED
      BY <2>1, <3>1, <3>3
  <2>2. CASE Mark(p) /\ Moves(p, "mark", "point")
    <3>1. PICK t \in RevIds, r \in Repos : pub[p].target = t /\ pub[p].repo = r /\ Stands(t, r)
      BY <2>2 DEF ShownInv, TargetInv, Booking, Moves
    <3>2. Exists(t) /\ revs[t] \in Revision /\ revs \in Table
      BY <3>1, RowTypes DEF Stands, WithStatus, RowsOf, Exists, GateInv, TypeOK, StoreTypeOK, Table
    <3>3. revs' = MarkPublished(t, pub[p].post)
      BY <2>2, <3>1 DEF Mark, Reliable
    <3>4. revs'[t] = [revs[t] EXCEPT !.post = pub[p].post, !.live = TRUE]
      BY <3>1, <3>2, <3>3 DEF MarkPublished, Table
    <3>5. revs'[t].live
      BY <3>2, <3>4 DEF Revision
    <3> QED
      BY <2>2, <3>1, <3>5 DEF Moves, Keeps
  <2>3. CASE Publish(p) /\ Place(p)
    <3>1. \/ Mark(p) /\ Moves(p, "mark", "point")
          \/ Moves(p, "point", "supersede")
      BY <1>4, <2>3 DEF Place, Lists, Leaves, Selects, Moves
    <3> QED
      BY <2>1, <2>2, <3>1 DEF Moves, Keeps
  <2>4. CASE pub' = pub
    BY <1>4, <2>1, <2>4
  <2> QED
    BY <1>0, <2>3, <2>4
<1> QED
  BY <1>1, <1>2, <1>3, <1>4

\* Who moves a published pointer: the publisher to its target, a sweep to its import.
LEMMA StepPointers ==
    ASSUME GateInv, [Next]_vars, NEW r \in Repos
    PROVE \/ repos'[r].published = repos[r].published
          \/ \E p \in Publishers : /\ Publish(p) /\ Point(p) /\ pub[p].repo = r
                                   /\ repos'[r].published = pub[p].target
          \/ \E v \in Reviewers : /\ Review(v) /\ SweepDone(v) /\ req[v].repo = r
                                  /\ repos'[r].published = req[v].rev
<1>a. repos \in [Repos -> Repository] /\ repos[r] \in Repository
  BY DEF GateInv, TypeOK, StoreTypeOK
<1> DEFINE Same == repos'[r].published = repos[r].published
<1>s. ASSUME NEW q, NEW s, repos' = SetProcessState(q, s) PROVE Same
  BY <1>a, <1>s DEF SetProcessState, Repository
<1>c. ASSUME NEW q, NEW i, repos' = SetRevisionPointers(q, i, NoRev) PROVE Same
  BY <1>a, <1>c DEF SetRevisionPointers, Repository
<1>m. ASSUME NEW q, NEW i, repos' = SetRevisionPointers(q, i, i)
      PROVE Same \/ (q = r /\ repos'[r].published = i)
  BY <1>a, <1>m DEF SetRevisionPointers, Repository
<1>u. repos' = repos => Same
  OBVIOUS
<1> HIDE DEF Same
<1>1. ASSUME NEW w \in Workers, Process(w) PROVE Same
  <2>1. \/ MarkProcessing(w) \/ RevertDeduped(w) \/ RevertFailed(w) \/ PointToDraft(w)
        \/ AwaitReview(w) \/ repos' = repos
    BY <1>1 DEF Process, WorkerStep, AbortRun, StartRun, ReadRepo, Generate, InsertDraft,
       GenerateFails, Dedup, TxFails, StampProcessed, PruneAll, ListDoomed, PruneOne,
       PruneRefused, FinishRun, storeVars
  <2> QED
    BY <1>s, <1>c, <1>u, <2>1 DEF MarkProcessing, RevertDeduped, RevertFailed, PointToDraft,
       AwaitReview
<1>2. ASSUME NEW p \in Publishers, Publish(p)
      PROVE Same \/ (Point(p) /\ pub[p].repo = r /\ repos'[r].published = pub[p].target)
  <2>1. HaltRepo(p) \/ Point(p) \/ repos' = repos
    BY <1>2 DEF Publish, PublisherStep, CrashPublish, ListRepos, SkipRepo, SelectTarget,
       DriftUnknown, NoDrift, Drift, NumberImport, ImportDrift, ImportFails, UpdatePost,
       CreatePost, PushFails, Mark, Supersede, FinishPublish, storeVars
  <2> QED
    BY <1>s, <1>m, <1>u, <2>1 DEF HaltRepo, Point
<1>3. ASSUME NEW v \in Reviewers, Review(v)
      PROVE Same \/ (SweepDone(v) /\ req[v].repo = r /\ repos'[r].published = req[v].rev)
  <2>1. KeepOurs(v) \/ SweepDone(v) \/ KeepTheirs(v) \/ repos' = repos
    BY <1>3 DEF Review, ReviewerStep, ReadStatus, WriteStatus, ReadForEdit, CreateEdit,
       EditRefused, ReadDrift, ReadForTheirs, SweepOne, SweepRefused, RequestFails, storeVars
  <2> QED
    BY <1>s, <1>m, <1>u, <2>1 DEF KeepOurs, SweepDone, KeepTheirs
<1>4. ASSUME NEW q \in Repos, Scan(q) PROVE Same
  <2>1. \/ repos' = [repos EXCEPT ![q].sha = @ + 1]
        \/ repos' = [repos EXCEPT ![q].archived = ~ @]
    BY <1>4 DEF Scan, Rescan
  <2> QED
    BY <1>a, <2>1 DEF Repository, Same
<1>5. ASSUME Site \/ UNCHANGED vars PROVE Same
  BY <1>5, <1>u DEF Site, SiteEdit, vars, storeVars
<1> QED
  BY <1>1, <1>2, <1>3, <1>4, <1>5 DEF Next, Same

\* A sweep keeps to the import it has chosen, from the rows of its repository.
LEMMA SweepFrom ==
    ASSUME GateInv, [Next]_vars, NEW v \in Reviewers, req'[v].pc = "theirs"
    PROVE \/ req[v].pc = "theirs" /\ req'[v].rev = req[v].rev /\ req'[v].repo = req[v].repo
          \/ \E r \in Repos : req'[v].repo = r /\ req'[v].rev \in Imports(r)
<1>a. req \in [Reviewers -> Request] /\ req[v] \in Request /\ RequestsAreSound
      /\ NoRequest \in Request
  BY NoRequestType DEF GateInv, TypeOK, ReviewTypeOK
<1>1. CASE Review(v)
  <2>1. CASE ReadForTheirs(v)
    <3>1. PICK imp \in NewestFirst(Imports(req[v].repo)) :
              req' = [req EXCEPT ![v] = [NoRequest EXCEPT !.pc = "theirs", !.repo = req[v].repo,
                                           !.rev = imp, !.todo = Sweep(req[v].repo, imp)]]
      BY <2>1 DEF ReadForTheirs
    <3>2. req'[v].repo = req[v].repo /\ req'[v].rev = imp
      BY <1>a, <3>1 DEF NoRequest
    <3>3. req[v].repo \in Repos /\ imp \in Imports(req[v].repo)
      BY <1>a, <2>1 DEF ReadForTheirs, ReqAt, RequestsAreSound, NewestFirst
    <3> QED
      BY <3>2, <3>3
  <2>2. CASE SweepOne(v)
    <3>1. PICK j : req' = [req EXCEPT ![v].todo[j] = "none"]
      BY <2>2 DEF SweepOne
    <3> QED
      BY <1>a, <2>2, <3>1 DEF SweepOne, ReqAt, Request
  <2>3. CASE SweepDone(v)
    BY <1>a, <2>3 DEF SweepDone, Request
  <2>4. CASE Answer(v)
    <3>1. req'[v] = NoRequest
      BY <1>a, <2>4 DEF Answer
    <3> QED
      BY <3>1 DEF NoRequest
  <2>5. CASE ReadStatus(v)
    <3>1. PICK j, new : req' = [req EXCEPT ![v] = [NoRequest EXCEPT !.pc = "decide", !.rev = j,
                                             !.seen = revs[j].status, !.new = new]]
      BY <2>5 DEF ReadStatus
    <3>2. req'[v].pc = "decide"
      BY <1>a, <3>1 DEF NoRequest
    <3> QED
      BY <3>2
  <2>6. CASE ReadForEdit(v)
    <3>1. PICK j, b : req' = [req EXCEPT ![v] =
                        [NoRequest EXCEPT !.pc = "create", !.repo = revs[j].repo, !.rev = j,
                                          !.version = MaxVersionOf(revs[j].repo) + 1,
                                          !.body = b]]
      BY <2>6 DEF ReadForEdit
    <3>2. req'[v].pc = "create"
      BY <1>a, <3>1 DEF NoRequest
    <3> QED
      BY <3>2
  <2>7. CASE ReadDrift(v)
    <3>1. PICK r, op : req' = [req EXCEPT ![v] =
                    [NoRequest EXCEPT !.pc = IF op = "keep_ours" THEN "ours" ELSE "list",
                                      !.repo = r]]
      BY <2>7 DEF ReadDrift
    <3>2. req'[v].pc \in {"ours", "list"}
      BY <1>a, <3>1 DEF NoRequest
    <3> QED
      BY <3>2
  <2> QED
    BY <1>1, <2>1, <2>2, <2>3, <2>4, <2>5, <2>6, <2>7
       DEF Review, ReviewerStep, WriteStatus, CreateEdit, EditRefused, KeepOurs, SweepRefused,
           KeepTheirs, RequestFails
<1>2. CASE req'[v] = req[v]
  BY <1>2
<1>3. Review(v) \/ req'[v] = req[v]
  <2>1. ASSUME NEW u \in Reviewers, Review(u), u # v PROVE req'[v] = req[v]
    BY <1>a, <2>1 DEF Review, ReviewerStep, ReadStatus, WriteStatus, ReadForEdit, CreateEdit,
       EditRefused, ReadDrift, KeepOurs, ReadForTheirs, SweepOne, SweepRefused, SweepDone,
       KeepTheirs, RequestFails, Answer
  <2>2. (\E u \in Reviewers : Review(u)) \/ req' = req
    BY DEF Next, Process, Publish, Scan, Site, vars
  <2> QED
    BY <2>1, <2>2
<1> QED
  BY <1>1, <1>2, <1>3

\* What a pointer leads to stays, unless the publisher creates the repository's post.
LEMMA LeadsStays ==
    ASSUME Reliable, GateInv, ShownInv, [Next]_vars, NEW r \in Repos, NEW id, Leads(id, r),
           id # NoRev \/ ~ \E p \in Publishers : Publish(p) /\ CreatePost(p) /\ pub[p].repo = r
    PROVE Leads(id, r)'
<1>1. CASE id # NoRev
  BY <1>1, LiveStays DEF Leads
<1>2. CASE id = NoRev
  <2>1. ASSUME NEW x \in PostIds PROVE posts'[x].repo # r
    <3>1. PostStep(x)
      BY StepPosts
    <3>2. posts[x].repo # r
      BY <1>2 DEF Leads, NoPostYet
    <3>3. \A q, i : Shows(q, i).repo = q
      BY DEF Shows
    <3> QED
      BY <1>2, <3>1, <3>2, <3>3 DEF PostStep
  <2> QED
    BY <1>2, <2>1 DEF Leads, NoPostYet
<1> QED
  BY <1>1, <1>2

\* Every step keeps the pointers, and the copies of them, leading to what was shown.
LEMMA PointNext ==
    ASSUME OnePublisher, Reliable, GateInv, ShownInv, [Next]_vars PROVE PointInv'
<1> DEFINE Ids == RevIds \cup {NoRev}
           Creates(r) == \E p \in Publishers : Publish(p) /\ CreatePost(p) /\ pub[p].repo = r
<1>a. /\ \A r \in Repos : repos[r].published \in Ids
      /\ \A p \in Publishers : pub[p] \in Publisher
      /\ \A p \in Publishers, r \in Repos : pub[p].snap[r].published \in Ids
  BY DEF GateInv, TypeOK, StoreTypeOK, Repository, PublisherTypeOK, Publisher, Snapshot
<1>1. ASSUME NEW r \in Repos
      PROVE \/ \E id \in Ids : repos'[r].published = id /\ Leads(id, r)'
            \/ repos'[r].published = NoRev /\ \E p \in Publishers : AtWorkOn(p, r)'
  <2>1. ASSUME NEW p \in Publishers, Point(p), pub[p].repo = r,
               repos'[r].published = pub[p].target
        PROVE \E id \in Ids : repos'[r].published = id /\ Leads(id, r)'
    <3>1. PICK t \in RevIds, q \in Repos : pub[p].target = t /\ pub[p].repo = q /\ Stands(t, q)
      BY <2>1 DEF Point, PubAt, ShownInv, TargetInv, Booking
    <3>2. revs[t].live
      BY <2>1, <3>1 DEF Point, PubAt, ShownInv, TargetInv
    <3>3. LiveRow(t, r) /\ t # NoRev
      BY <2>1, <3>1, <3>2, StoreAssumption DEF Stands, WithStatus, LiveRow
    <3>4. Leads(t, r)'
      BY <3>3, LiveStays DEF Leads
    <3> QED
      BY <2>1, <3>1, <3>4
  <2>2. ASSUME NEW v \in Reviewers, SweepDone(v), req[v].repo = r,
               repos'[r].published = req[v].rev
        PROVE \E id \in Ids : repos'[r].published = id /\ Leads(id, r)'
    <3>1. PICK id \in RevIds, q \in Repos : req[v].rev = id /\ req[v].repo = q /\ LiveRow(id, q)
      BY <2>2 DEF SweepDone, ReqAt, ShownInv, PointInv
    <3>2. id # NoRev /\ LiveRow(id, r)
      BY <2>2, <3>1, StoreAssumption
    <3>3. Leads(id, r)'
      BY <3>2, LiveStays DEF Leads
    <3> QED
      BY <2>2, <3>1, <3>3
  <2>3. CASE repos'[r].published = repos[r].published
    <3>1. CASE \E id \in Ids : repos[r].published = id /\ Leads(id, r)
      <4>1. PICK id \in Ids : repos[r].published = id /\ Leads(id, r)
        BY <3>1
      <4>2. CASE id # NoRev \/ ~ Creates(r)
        BY <2>3, <4>1, <4>2, LeadsStays
      <4>3. ASSUME id = NoRev, NEW p \in Publishers, Publish(p), CreatePost(p), pub[p].repo = r
            PROVE AtWorkOn(p, r)'
        <5>4. pub'[p].pc = "mark" /\ pub'[p].repo = pub[p].repo
          <6>1. \A x : Pushed(p, x) => pub'[p].pc = "mark" /\ pub'[p].repo = pub[p].repo
            BY <1>a DEF Pushed, GateInv, TypeOK, PublisherTypeOK, Publisher
          <6> QED
            BY <4>3, <6>1 DEF CreatePost
        <5> QED
          BY <4>3, <5>4 DEF AtWorkOn, Booking
      <4> QED
        BY <2>3, <4>1, <4>2, <4>3
    <3>2. ASSUME repos[r].published = NoRev, NEW p \in Publishers, AtWorkOn(p, r)
          PROVE AtWorkOn(p, r)' \/ Point(p)
      <4>1. CASE pub' = pub
        BY <3>2, <4>1 DEF AtWorkOn
      <4>2. CASE Publish(p) /\ Place(p)
        <5>1. pub[p].pc \in {"mark", "point"} /\ pub[p].repo = r
          BY <3>2 DEF AtWorkOn, Booking
        <5>2. \/ Mark(p) /\ Moves(p, "mark", "point")
              \/ Point(p)
          <6>1. ~ CrashPublish(p)
            BY DEF CrashPublish, Reliable
          <6> QED
            BY <4>2, <5>1, <6>1 DEF Place, ListRepos, SkipRepo, ImportFails, HaltRepo, PushFails,
               Supersede, FinishPublish, Selects, Moves, PubAt
        <5>3. CASE Mark(p) /\ Moves(p, "mark", "point")
          BY <5>1, <5>3 DEF Moves, Keeps, AtWorkOn, Booking
        <5> QED
          BY <5>2, <5>3
      <4> QED
        BY <4>1, <4>2, PublisherOrNot
    <3>3. ASSUME repos[r].published = NoRev, NEW p \in Publishers, AtWorkOn(p, r), Point(p)
          PROVE FALSE
      <4>1. PICK t \in RevIds, q \in Repos : pub[p].target = t /\ pub[p].repo = q /\ Stands(t, q)
        BY <3>3 DEF Point, PubAt, ShownInv, TargetInv, Booking
      <4>2. Exists(t) /\ q = r /\ t # NoRev
        BY <3>3, <4>1, StoreAssumption DEF Stands, WithStatus, RowsOf, AtWorkOn
      <4>3. repos' = SetRevisionPointers(r, t, t)
        BY <3>3, <4>1, <4>2 DEF Point, Reliable
      <4>4. repos \in [Repos -> Repository] /\ repos[r] \in Repository
        BY DEF GateInv, TypeOK, StoreTypeOK
      <4>5. repos'[r].published = t
        BY <4>2, <4>3, <4>4 DEF SetRevisionPointers, Repository
      <4> QED
        BY <2>3, <3>3, <4>2, <4>5
    <3>4. \/ \E id \in Ids : repos[r].published = id /\ Leads(id, r)
          \/ repos[r].published = NoRev /\ \E p \in Publishers : AtWorkOn(p, r)
      BY DEF ShownInv, PointInv
    <3> QED
      BY <2>3, <3>1, <3>2, <3>3, <3>4
  <2> QED
    BY <2>1, <2>2, <2>3, StepPointers
<1>2. ASSUME NEW p \in Publishers, NEW r \in Repos, Holds(p, r)'
      PROVE \E id \in Ids : pub'[p].snap[r].published = id /\ Leads(id, r)'
  <2>1. ASSUME Holds(p, r), pub'[p].snap = pub[p].snap, ~ Creates(r)
        PROVE \E id \in Ids : pub'[p].snap[r].published = id /\ Leads(id, r)'
    <3>1. PICK id \in Ids : pub[p].snap[r].published = id /\ Leads(id, r)
      BY <2>1 DEF ShownInv, PointInv
    <3>2. Leads(id, r)'
      BY <2>1, <3>1, LeadsStays
    <3> QED
      BY <2>1, <3>1, <3>2
  <2>2. CASE pub' = pub /\ ~ \E q \in Publishers : Publish(q)
    BY <1>2, <2>1, <2>2 DEF Holds
  <2>3. ASSUME Publish(p), ListRepos(p), Lists(p)
        PROVE \E id \in Ids : pub'[p].snap[r].published = id /\ Leads(id, r)'
    <3>1. ~ \E q \in Publishers : AtWorkOn(q, r)
      BY <2>3 DEF OnePublisher, ListRepos, PubAt, AtWorkOn, Booking
    <3>2. PICK id \in Ids : repos[r].published = id /\ Leads(id, r)
      BY <3>1 DEF ShownInv, PointInv
    <3>3. ~ Creates(r)
      BY <2>3 DEF OnePublisher, ListRepos, CreatePost, PubAt
    <3>4. Leads(id, r)'
      BY <3>2, <3>3, LeadsStays
    <3> QED
      BY <2>3, <3>2, <3>4 DEF Lists
  <2>4. ASSUME NEW q, NEW t, SelectTarget(p), Selects(p, q, t)
        PROVE Holds(p, r) /\ pub'[p].snap = pub[p].snap /\ ~ Creates(r)
    <3>1. Holds(p, r)
      BY <1>2, <2>4 DEF Holds, Selects
    <3>2. ~ Creates(r)
      BY <2>4 DEF OnePublisher, SelectTarget, CreatePost, PubAt
    <3> QED
      BY <2>4, <3>1, <3>2 DEF Selects
  <2>5. ASSUME Leaves(p), ~ CreatePost(p)
        PROVE Holds(p, r) /\ pub'[p].snap = pub[p].snap /\ ~ Creates(r)
    <3>1. r \in pub'[p].todo
      BY <1>2, <2>5 DEF Holds, Leaves, Selecting
    <3> QED
      BY <2>5, <3>1 DEF Leaves, Holds, OnePublisher
  <2>6. ASSUME NEW from, NEW to, Moves(p, from, to), ~ CreatePost(p),
               to \in Selecting => from \in Selecting
        PROVE Holds(p, r) /\ pub'[p].snap = pub[p].snap /\ ~ Creates(r)
    BY <1>2, <2>6 DEF Moves, Keeps, Holds, OnePublisher
  <2>7. ASSUME CreatePost(p), Moves(p, "push", "mark")
        PROVE Holds(p, r) /\ pub'[p].snap = pub[p].snap /\ ~ Creates(r)
    <3>1. r \in pub[p].todo
      BY <1>2, <2>7 DEF Moves, Keeps, Holds, Selecting
    <3>2. pub[p].repo \notin pub[p].todo
      BY <2>7 DEF ShownInv, TargetInv, Moves, Selecting
    <3> QED
      BY <2>7, <3>1, <3>2 DEF Moves, Keeps, Holds, OnePublisher
  <2>8. ASSUME Publish(p), Place(p)
        PROVE \E id \in Ids : pub'[p].snap[r].published = id /\ Leads(id, r)'
    <3>1. CASE CreatePost(p)
      <4>1. \A x : Pushed(p, x) => pub'[p].pc = "mark"
        BY <1>a DEF Pushed, GateInv, TypeOK, PublisherTypeOK
      <4>2. pub[p].pc = "push" /\ pub'[p].pc = "mark"
        BY <3>1, <4>1 DEF CreatePost, PubAt
      <4>3. Moves(p, "push", "mark")
        BY <2>8, <4>2 DEF Place, Lists, Leaves, Selects, Moves
      <4> QED
        BY <2>1, <2>7, <3>1, <4>3
    <3>2. CASE ~ CreatePost(p)
      <4>1. CASE SelectTarget(p) /\ \E q, t : Selects(p, q, t)
        BY <2>1, <2>4, <4>1
      <4>2. CASE \/ Moves(p, "check", "push") \/ Moves(p, "check", "drift")
                 \/ Moves(p, "drift", "import") \/ Moves(p, "import", "halt")
                 \/ Moves(p, "push", "mark") \/ Moves(p, "mark", "point")
                 \/ Moves(p, "point", "supersede")
        <5>1. \E from, to : Moves(p, from, to) /\ (to \in Selecting => from \in Selecting)
          BY <4>2 DEF Selecting
        <5> QED
          BY <2>1, <2>6, <3>2, <5>1
      <4> QED
        BY <2>1, <2>3, <2>5, <2>8, <3>2, <4>1, <4>2 DEF Place
    <3> QED
      BY <3>1, <3>2
  <2> QED
    BY <2>2, <2>8, PublisherOrNot
<1>3. ASSUME NEW v \in Reviewers, req'[v].pc = "theirs"
      PROVE \E id \in RevIds, r \in Repos :
                req'[v].rev = id /\ req'[v].repo = r /\ LiveRow(id, r)'
  <2>1. \E id \in RevIds, r \in Repos : req'[v].rev = id /\ req'[v].repo = r /\ LiveRow(id, r)
    <3>1. CASE req[v].pc = "theirs" /\ req'[v].rev = req[v].rev /\ req'[v].repo = req[v].repo
      BY <3>1 DEF ShownInv, PointInv
    <3>2. ASSUME NEW r \in Repos, req'[v].repo = r, req'[v].rev \in Imports(r)
          PROVE \E id \in RevIds : req'[v].rev = id /\ LiveRow(id, r)
      <4>1. PICK id : id = req'[v].rev
        OBVIOUS
      <4>2. id \in RowsOf(r) /\ id \in RevIds /\ Used(id) /\ revs[id].source = "patreon_import"
        BY <3>2, <4>1 DEF Imports, RowsOf, Exists
      <4>3. LiveRow(id, r)
        BY <4>2 DEF ShownInv, MarkInv, LiveRow
      <4> QED
        BY <4>1, <4>2, <4>3
    <3> QED
      BY <1>3, <3>1, <3>2, SweepFrom
  <2> QED
    BY <2>1, LiveStays
<1> QED
  BY <1>1, <1>2, <1>3 DEF PointInv

\* Every step keeps the writers of the posts marked, or about to be.
LEMMA ByNext ==
    ASSUME OnePublisher, Reliable, GateInv, ShownInv, [Next]_vars PROVE ByInv'
<1> SUFFICES ASSUME NEW x \in PostIds, NEW id, id = posts'[x].by, id # NoRev
             PROVE \/ Used(id)' /\ revs'[id].live
                   \/ \E p \in Publishers : pub'[p].pc = "mark" /\ pub'[p].target = id
  BY DEF ByInv, Used
<1>a. \A y \in PostIds : posts[y].by \in RevIds \cup {NoRev}
  BY DEF GateInv, TypeOK, PublisherTypeOK, Post
<1>1. ASSUME NEW p \in Publishers, Publish(p), UpdatePost(p) \/ CreatePost(p),
             posts'[x] = Shows(pub[p].repo, pub[p].target)
      PROVE pub'[p].pc = "mark" /\ pub'[p].target = id
  <2>1. pub[p] \in Publisher /\ pub \in [Publishers -> Publisher]
    BY DEF GateInv, TypeOK, PublisherTypeOK
  <2>2. \A y : Pushed(p, y) => pub'[p].pc = "mark" /\ pub'[p].target = pub[p].target
    BY <2>1 DEF Pushed, Publisher
  <2>3. posts'[x].by = pub[p].target
    BY <1>1 DEF Shows
  <2> QED
    BY <1>1, <2>2, <2>3 DEF UpdatePost, CreatePost
<1>2. CASE posts'[x] = posts[x]
  <2>1. id = posts[x].by /\ id \in RevIds
    BY <1>2, <1>a
  <2>2. CASE Used(id) /\ revs[id].live
    <3>1. RowForward(id) /\ Used(id)'
      BY <2>1, <2>2, StepForward, UsedStays DEF RowsForward
    <3> QED
      BY <2>2, <3>1 DEF RowForward
  <2>3. ASSUME NEW p \in Publishers, pub[p].pc = "mark", pub[p].target = id
        PROVE \/ Used(id)' /\ revs'[id].live
              \/ pub'[p].pc = "mark" /\ pub'[p].target = id
    <3>1. CASE pub' = pub
      BY <2>3, <3>1
    <3>2. CASE Publish(p) /\ Place(p)
      <4>1. ~ CrashPublish(p)
        BY DEF CrashPublish, Reliable
      <4>2. Mark(p) /\ Moves(p, "mark", "point")
        BY <2>3, <3>2, <4>1 DEF Place, ListRepos, SkipRepo, ImportFails, HaltRepo, PushFails,
           Supersede, FinishPublish, Selects, Moves, PubAt
      <4>3. id \in WithStatus(pub[p].repo, "approved")
        BY <2>3 DEF ShownInv, TargetInv, Booking, Stands
      <4>4. Exists(id) /\ revs[id] \in Revision /\ revs \in Table
        BY <4>3, RowTypes DEF WithStatus, RowsOf, Exists, GateInv, TypeOK, StoreTypeOK, Table
      <4>5. revs' = MarkPublished(id, pub[p].post)
        BY <2>3, <4>2 DEF Mark, Reliable
      <4>6. revs'[id] = [revs[id] EXCEPT !.post = pub[p].post, !.live = TRUE]
        BY <2>1, <4>4, <4>5 DEF MarkPublished, Table
      <4>7. revs'[id].live
        BY <4>4, <4>6 DEF Revision
      <4>8. Used(id)'
        BY <2>1, <4>4, StepForward, UsedStays DEF Exists
      <4> QED
        BY <4>7, <4>8
    <3> QED
      BY <3>1, <3>2, PublisherOrNot
  <2> QED
    BY <2>1, <2>2, <2>3 DEF ShownInv, ByInv
<1>3. PostStep(x)
  BY StepPosts
<1> QED
  BY <1>1, <1>2, <1>3 DEF PostStep

\* Every step keeps each repository at one post.
LEMMA OnePostNext ==
    ASSUME Reliable, GateInv, ShownInv, [Next]_vars PROVE OnePostPerRepo'
<1> SUFFICES ASSUME NEW x \in PostIds, NEW y \in PostIds,
                    posts'[x].repo # NoRepo, posts'[x].repo = posts'[y].repo, x # y
             PROVE FALSE
  BY DEF OnePostPerRepo
<1> DEFINE New(z) == \E p \in Publishers :
                        /\ NoPostYet(pub[p].repo) /\ posts'[z].repo = pub[p].repo
                        /\ \A i \in PostIds \ {z} : posts'[i] = posts[i]
<1>1. ASSUME NEW z \in PostIds PROVE posts'[z].repo = posts[z].repo \/ New(z)
  <2>1. PostStep(z)
    BY StepPosts
  <2>2. \A q, i : Shows(q, i).repo = q
    BY DEF Shows
  <2> QED
    BY <2>1, <2>2 DEF PostStep
<1>2. CASE posts'[x].repo = posts[x].repo /\ posts'[y].repo = posts[y].repo
  BY <1>2 DEF ShownInv, OnePostPerRepo
<1>3. ASSUME NEW z \in {x, y}, New(z) PROVE FALSE
  BY <1>3 DEF NoPostYet
<1> HIDE DEF New
<1> QED
  BY <1>1, <1>2, <1>3

\* Nothing has been shown at first.
LEMMA ShownInit == Init => ShownInv
<1> SUFFICES ASSUME Init PROVE ShownInv
  OBVIOUS
<1>1. /\ \A id \in RevIds : ~ Used(id)
      /\ deleted = {} /\ \A w \in Workers : wk[w].doomed = {}
      /\ \A r \in Repos : repos[r].published = NoRev
  BY DEF Init, StoreInit, PipelineInit, Off, Used, Unused
<1>2. /\ \A p \in Publishers : pub[p].pc = "off" /\ pub[p].todo = {}
      /\ \A v \in Reviewers : req[v].pc = "off" /\ \A id \in RevIds : req[v].todo[id] = "none"
      /\ \A x \in PostIds : posts[x].repo = NoRepo /\ posts[x].by = NoRev
  BY DEF Init, PublisherInit, Idle, NoSuchPost, ReviewInit, NoRequest
<1>3. SpentInv /\ MarkInv /\ ByInv /\ OnePostPerRepo
  BY <1>1, <1>2 DEF SpentInv, MarkInv, ByInv, OnePostPerRepo
<1>4. CoverInv
  BY <1>1, <1>2 DEF CoverInv, Imports, RowsOf, Exists
<1>5. TargetInv
  BY <1>2 DEF TargetInv, Selecting, Booking
<1>6. PointInv
  BY <1>1, <1>2, StoreAssumption DEF PointInv, Leads, NoPostYet, Holds, Selecting
<1> QED
  BY <1>3, <1>4, <1>5, <1>6 DEF ShownInv

\* The inductive invariant holds in every reachable state, if one publisher runs at a
\* time and none of its steps is lost.
THEOREM ShownInvariant == OnePublisher /\ Reliable => (Spec => []ShownInv)
<1> SUFFICES ASSUME OnePublisher, Reliable PROVE Spec => []ShownInv
  OBVIOUS
<1>1. GateInv /\ ShownInv /\ [Next]_vars => ShownInv'
  BY SpentNext, MarkNext, CoverNext, TargetNext, PointNext, ByNext, OnePostNext DEF ShownInv
<1> QED
  BY <1>1, ShownInit, GateInvariant, PTL DEF Spec

\* The pruner never deletes the revision a Patreon post shows.
THEOREM ShownRevisionsArePinned == OnePublisher /\ Reliable => (Spec => []ShownNeverPruned)
<1> SUFFICES ASSUME OnePublisher, Reliable PROVE Spec => []ShownNeverPruned
  OBVIOUS
<1>1. GateInv /\ ShownInv => ShownNeverPruned
  <2> SUFFICES ASSUME GateInv, ShownInv, NEW x \in PostIds, posts[x].by \in deleted PROVE FALSE
    BY DEF ShownNeverPruned
  <2>1. Spent(posts[x].by)
    BY DEF ShownInv, SpentInv
  <2>2. posts[x].by # NoRev
    BY StoreAssumption DEF GateInv, TypeOK, StoreTypeOK
  <2>3. PICK p \in Publishers : pub[p].pc = "mark" /\ pub[p].target = posts[x].by
    BY <2>1, <2>2 DEF ShownInv, ByInv, Spent
  <2>4. revs[posts[x].by].status = "approved"
    BY <2>3 DEF ShownInv, TargetInv, Booking, Stands, WithStatus
  <2> QED
    BY <2>1, <2>4 DEF Spent
<1> QED
  BY <1>1, ShownInvariant, GateInvariant, PTL

\* A repository never gets a second Patreon post.
THEOREM NoSecondPost == OnePublisher /\ Reliable => (Spec => []OnePostPerRepo)
<1> SUFFICES ASSUME OnePublisher, Reliable PROVE Spec => []OnePostPerRepo
  OBVIOUS
<1>1. ShownInv => OnePostPerRepo
  BY DEF ShownInv
<1> QED
  BY <1>1, ShownInvariant, PTL

-----------------------------------------------------------------------------
(***************************************************************************)
(* That the database agrees with Patreon needs more: Patreon refuses no    *)
(* write, and no reviewer points a repository back to an import.           *)
(***************************************************************************)
NeverRefused == "refused" \notin PublishFaults
NeverTheirs == "keep_theirs" \notin Operations

\* What a post shows is id's body, or what the site made of it.
Shown(x, id) == posts[x].by = NoRev \/ posts[x].body = revs[id].body

\* A post that was there and is gone.
Gone(x) == posts[x].repo # NoRepo /\ posts[x].body = NoBody

\* An absent body is that of a post that is gone, and of nothing else.
GoneInv ==
    /\ \A x \in PostIds : posts[x].body = NoBody => posts[x].by = NoRev
    /\ \A id \in RevIds : Used(id) /\ revs[id].body = NoBody =>
            \E x \in PostIds : revs[id].post = x /\ Gone(x)
    /\ \A w \in Workers : wk[w].pc = "generated" => wk[w].body # NoBody
    /\ \A v \in Reviewers : req[v].pc = "create" => req[v].body # NoBody
    /\ \A p \in Publishers : pub[p].pc \in {"drift", "import"} /\ pub[p].seen = NoBody =>
            \E x \in PostIds : pub[p].post = x /\ Gone(x)

\* Between the push and the pointer the publisher knows the post that shows its
\* target; after that the pointer leads to it.
MatchInv ==
    /\ \A id \in RevIds : Used(id) => revs[id].post # EmptyPost
    /\ \A v \in Reviewers : req[v].pc \notin {"list", "theirs"}
    /\ \A p \in Publishers :
        /\ pub[p].pc \in {"drift", "import", "mark"} => pub[p].post # EmptyPost
        /\ pub[p].pc = "mark" =>
            \E x \in PostIds, t \in RevIds :
                pub[p].post = x /\ pub[p].target = t /\ Shown(x, t)
        /\ pub[p].pc = "point" =>
            \E x \in PostIds, t \in RevIds :
                pub[p].target = t /\ revs[t].post = x /\ Shown(x, t)
    /\ \A r \in Repos, id \in RevIds :
        repos[r].published = id /\ (\A p \in Publishers : ~ AtWorkOn(p, r)) =>
            \E x \in PostIds : revs[id].post = x /\ Shown(x, id)

\* The body a worker has generated is one.
LEMMA WorkerBody ==
    ASSUME GateInv, [Next]_vars, NEW w \in Workers, wk'[w].pc = "generated"
    PROVE wk'[w] = wk[w] \/ wk'[w].body \in Bodies
<1>a. wk \in [Workers -> Worker] /\ wk[w] \in Worker /\ PipelineTypeOK
  BY DEF GateInv, TypeOK, PipelineTypeOK
<1>1. CASE WorkerStep(w) \/ AbortRun(w)
  <2>1. wk[w].pc \in Writing
    <3>1. QueueMove(w)
      BY <1>a, <1>1, QueueMoves
    <3> QED
      BY <1>1, <3>1 DEF QueueMove, Writing
  <2>2. \/ Generate(w) \/ AbortRun(w) \/ InsertDraft(w)
        \/ \E pc \in WorkerPC \ {"generated"} : Goto(w, pc)
    BY <1>1, <2>1 DEF WorkerStep, StartRun, ReadRepo, MarkProcessing, GenerateFails, Dedup,
       TxFails, RevertDeduped, RevertFailed, PointToDraft, AwaitReview, StampProcessed,
       PruneAll, ListDoomed, PruneOne, PruneRefused, FinishRun, At, Writing, WorkerPC
  <2>3. \A pc : Goto(w, pc) => wk'[w].pc = pc
    BY <1>a DEF Goto, Worker
  <2>4. InsertDraft(w) => wk'[w].pc = "inserted"
    BY <1>a DEF InsertDraft, Worker
  <2>5. AbortRun(w) => wk'[w].pc = "off"
    BY <1>a DEF AbortRun, Stop, Off
  <2>6. Generate(w) => wk'[w].body \in Bodies
    BY <1>a DEF Generate, Worker
  <2> QED
    BY <1>1, <2>2, <2>3, <2>4, <2>5, <2>6
<1>2. ASSUME NEW u \in Workers, Process(u), u # w PROVE wk'[w] = wk[w]
  BY <1>a, <1>2 DEF Process, WorkerStep, AbortRun, StartRun, ReadRepo, MarkProcessing, Generate,
     GenerateFails, Dedup, InsertDraft, TxFails, RevertDeduped, RevertFailed, PointToDraft,
     AwaitReview, StampProcessed, PruneAll, ListDoomed, PruneOne, PruneRefused, FinishRun,
     Goto, Continue, Stop
<1>3. (\E u \in Workers : Process(u)) \/ wk' = wk
  BY DEF Next, Publish, Review, Scan, Site, vars
<1> QED
  BY <1>1, <1>2, <1>3 DEF Process

\* The body an edit carries is one, and no request sweeps.
LEMMA RequestBody ==
    ASSUME NeverTheirs, GateInv, [Next]_vars, NEW v \in Reviewers
    PROVE \/ req'[v] = req[v]
          \/ /\ req'[v].pc = "create" => req'[v].body \in Bodies
             /\ req'[v].pc \in {"list", "theirs"} => req[v].pc \in {"list", "theirs"}
<1>a. req \in [Reviewers -> Request] /\ req[v] \in Request
  BY DEF GateInv, TypeOK, ReviewTypeOK
<1>1. CASE Review(v)
  <2>1. CASE ReadForTheirs(v)
    <3>1. PICK imp : req' = [req EXCEPT ![v] =
                        [NoRequest EXCEPT !.pc = "theirs", !.repo = req[v].repo,
                                          !.rev = imp, !.todo = Sweep(req[v].repo, imp)]]
      BY <2>1 DEF ReadForTheirs
    <3>2. req'[v].pc = "theirs"
      BY <1>a, <3>1 DEF NoRequest
    <3> QED
      BY <2>1, <3>2 DEF ReadForTheirs, ReqAt
  <2>2. CASE SweepOne(v) \/ SweepDone(v)
    <3>1. \/ \E j : req' = [req EXCEPT ![v].todo[j] = "none"]
          \/ req' = [req EXCEPT ![v].pc = "resume"]
      BY <2>2 DEF SweepOne, SweepDone
    <3>2. req'[v].pc \in {"theirs", "resume"} /\ req[v].pc = "theirs"
      BY <1>a, <2>2, <3>1 DEF SweepOne, SweepDone, ReqAt, Request
    <3> QED
      BY <3>2
  <2>3. CASE Answer(v)
    <3>1. req'[v] = NoRequest
      BY <1>a, <2>3 DEF Answer
    <3> QED
      BY <3>1 DEF NoRequest
  <2>4. CASE ReadStatus(v)
    <3>1. PICK j, new : req' = [req EXCEPT ![v] = [NoRequest EXCEPT !.pc = "decide", !.rev = j,
                                             !.seen = revs[j].status, !.new = new]]
      BY <2>4 DEF ReadStatus
    <3>2. req'[v].pc = "decide"
      BY <1>a, <3>1 DEF NoRequest
    <3> QED
      BY <3>2
  <2>5. CASE ReadForEdit(v)
    <3>1. PICK j \in RevIds, b \in Bodies : req' = [req EXCEPT ![v] =
                        [NoRequest EXCEPT !.pc = "create", !.repo = revs[j].repo, !.rev = j,
                                          !.version = MaxVersionOf(revs[j].repo) + 1,
                                          !.body = b]]
      BY <2>5 DEF ReadForEdit
    <3>2. req'[v].pc = "create" /\ req'[v].body = b
      BY <1>a, <3>1 DEF NoRequest
    <3> QED
      BY <3>2
  <2>6. CASE ReadDrift(v)
    <3>1. PICK r \in Repos, op \in {"keep_ours", "keep_theirs"} \cap Operations :
              req' = [req EXCEPT ![v] =
                    [NoRequest EXCEPT !.pc = IF op = "keep_ours" THEN "ours" ELSE "list",
                                      !.repo = r]]
      BY <2>6 DEF ReadDrift
    <3>2. op = "keep_ours"
      BY DEF NeverTheirs
    <3>3. req'[v].pc = "ours"
      BY <1>a, <3>1, <3>2 DEF NoRequest
    <3> QED
      BY <3>3
  <2> QED
    BY <1>1, <2>1, <2>2, <2>3, <2>4, <2>5, <2>6
       DEF Review, ReviewerStep, WriteStatus, CreateEdit, EditRefused, KeepOurs, SweepRefused,
           KeepTheirs, RequestFails
<1>2. ASSUME NEW u \in Reviewers, Review(u), u # v PROVE req'[v] = req[v]
  BY <1>a, <1>2 DEF Review, ReviewerStep, ReadStatus, WriteStatus, ReadForEdit, CreateEdit,
     EditRefused, ReadDrift, KeepOurs, ReadForTheirs, SweepOne, SweepRefused, SweepDone,
     KeepTheirs, RequestFails, Answer
<1>3. (\E u \in Reviewers : Review(u)) \/ req' = req
  BY DEF Next, Process, Publish, Scan, Site, vars
<1> QED
  BY <1>1, <1>2, <1>3

\* A row's post changes only when a publisher marks it.
LEMMA PostOfRow ==
    ASSUME GateInv, [Next]_vars, NEW id \in RevIds, Used(id)
    PROVE \/ revs'[id].post = revs[id].post
          \/ \E p \in Publishers : /\ Publish(p) /\ Mark(p) /\ id = pub[p].target
                                   /\ revs'[id].post = pub[p].post
<1>1. ASSUME NEW p \in Publishers, Mark(p)
      PROVE \/ revs'[id].post = revs[id].post
            \/ id = pub[p].target /\ revs'[id].post = pub[p].post
  <2>1. revs \in Table /\ revs[id] \in Revision
    BY RowTypes DEF GateInv, TypeOK, StoreTypeOK, Table
  <2>2. \/ revs'[id] = revs[id]
        \/ /\ id = pub[p].target
           /\ revs'[id] = [revs[id] EXCEPT !.post = pub[p].post, !.live = TRUE]
    BY <1>1, <2>1 DEF Mark, MarkPublished, Table
  <2> QED
    BY <2>1, <2>2 DEF Revision
<1> QED
  BY <1>1, StepMarks

\* What a post keeps through a step: gone is gone, and a row that was pushed to it is
\* shown until its repository's publisher pushes another.
LEMMA PostKeeps ==
    ASSUME Reliable, GateInv, ShownInv, [Next]_vars, NEW x \in PostIds
    PROVE /\ Gone(x) => Gone(x)'
          /\ \A id \in RevIds : Used(id) /\ Shown(x, id) /\ posts[x].repo \in Repos =>
                \/ Shown(x, id)'
                \/ \E p \in Publishers : /\ Publish(p) /\ UpdatePost(p)
                                         /\ posts[x].repo = pub[p].repo
<1>1. PostStep(x)
  BY StepPosts
<1>2. NoSuchPost.repo = NoRepo
  BY DEF NoSuchPost
<1>3. Gone(x) => Gone(x)'
  BY <1>1, <1>2 DEF Gone, PostStep
<1>4. ASSUME NEW id \in RevIds, Used(id), Shown(x, id), posts[x].repo \in Repos
      PROVE \/ posts'[x].by = NoRev \/ posts'[x].body = revs'[id].body
            \/ \E p \in Publishers : /\ Publish(p) /\ UpdatePost(p)
                                     /\ posts[x].repo = pub[p].repo
  <2>1. revs'[id].body = revs[id].body
    BY <1>4, StepForward DEF RowsForward, RowForward
  <2> QED
    BY <1>1, <1>2, <1>4, <2>1, StoreAssumption DEF PostStep, Shown
<1> QED
  BY <1>3, <1>4 DEF Shown

\* A row whose body is absent belongs to a post that is gone, so it is never pushed.
LEMMA PushedHasBody ==
    ASSUME GateInv, ShownInv, GoneInv, NEW p \in Publishers, pub[p].pc \in Selecting,
           NEW x \in PostIds, posts[x].body # NoBody, posts[x].repo = pub[p].repo
    PROVE revs[pub[p].target].body # NoBody
<1>1. PICK t \in RevIds, r \in Repos : pub[p].target = t /\ pub[p].repo = r /\ Stands(t, r)
  BY DEF ShownInv, TargetInv
<1>2. Used(t) /\ revs[t].repo = r
  BY <1>1 DEF Stands, WithStatus, RowsOf, Exists
<1>3. SUFFICES ASSUME revs[t].body = NoBody PROVE FALSE
  BY <1>1
<1>4. PICK y \in PostIds : revs[t].post = y /\ Gone(y)
  BY <1>2, <1>3 DEF GoneInv
<1>5. posts[y].repo = r
  BY <1>2, <1>4 DEF ShownInv, MarkInv
<1>6. x = y
  BY <1>1, <1>5, StoreAssumption DEF ShownInv, OnePostPerRepo
<1> QED
  BY <1>4, <1>6 DEF Gone

\* Nor is a post created for it.
LEMMA CreatedHasBody ==
    ASSUME GateInv, ShownInv, GoneInv, NEW p \in Publishers, pub[p].pc \in Selecting,
           NoPostYet(pub[p].repo)
    PROVE revs[pub[p].target].body # NoBody
<1>1. PICK t \in RevIds, r \in Repos : pub[p].target = t /\ pub[p].repo = r /\ Stands(t, r)
  BY DEF ShownInv, TargetInv
<1>2. Used(t) /\ revs[t].repo = r
  BY <1>1 DEF Stands, WithStatus, RowsOf, Exists
<1>3. SUFFICES ASSUME revs[t].body = NoBody PROVE FALSE
  BY <1>1
<1>4. PICK y \in PostIds : revs[t].post = y /\ Gone(y)
  BY <1>2, <1>3 DEF GoneInv
<1>5. posts[y].repo = r
  BY <1>2, <1>4 DEF ShownInv, MarkInv
<1> QED
  BY <1>1, <1>5 DEF NoPostYet

\* What drift detection compares with, and where an import comes from.
LEMMA DriftedPost ==
    ASSUME GateInv, ShownInv, MatchInv, NEW p \in Publishers, pub[p].pc \in Selecting,
           LivePost(p) # NoPost
    PROVE LivePost(p) \in PostIds /\ posts[LivePost(p)].repo = pub[p].repo
<1>1. LivePost(p) \in PostIds \cup {EmptyPost, NoPost} /\ OwnPost(LivePost(p), pub[p].repo)
  BY LivePostIs
<1>2. LivePost(p) # EmptyPost
  <2>1. Exists(Listed(p).published) /\ LivePost(p) = revs[Listed(p).published].post
    BY DEF LivePost
  <2> QED
    BY <2>1 DEF MatchInv, Exists
<1> QED
  BY <1>1, <1>2 DEF OwnPost

\* Every step keeps absent bodies to the posts that are gone.
LEMMA GoneNext ==
    ASSUME OnePublisher, Reliable, NeverTheirs, GateInv, ShownInv, MatchInv, GoneInv,
           [Next]_vars
    PROVE GoneInv'
<1>g. \A x \in PostIds : Gone(x) => Gone(x)'
  BY PostKeeps
<1>1. ASSUME NEW x \in PostIds, posts'[x].body = NoBody PROVE posts'[x].by = NoRev
  <2>1. PostStep(x)
    BY StepPosts
  <2>2. CASE posts'[x] = posts[x]
    BY <1>1, <2>2 DEF GoneInv
  <2>3. ASSUME NEW p \in Publishers, UpdatePost(p), posts[x].body # NoBody,
               posts[x].repo = pub[p].repo, posts'[x] = Shows(pub[p].repo, pub[p].target)
        PROVE FALSE
    <3>1. revs[pub[p].target].body # NoBody
      BY <2>3, PushedHasBody DEF UpdatePost, PubAt, Selecting
    <3> QED
      BY <1>1, <2>3, <3>1 DEF Shows
  <2>4. ASSUME NEW p \in Publishers, CreatePost(p), NoPostYet(pub[p].repo),
               posts'[x] = Shows(pub[p].repo, pub[p].target)
        PROVE FALSE
    <3>1. revs[pub[p].target].body # NoBody
      BY <2>4, CreatedHasBody DEF CreatePost, PubAt, Selecting
    <3> QED
      BY <1>1, <2>4, <3>1 DEF Shows
  <2> QED
    BY <2>1, <2>2, <2>3, <2>4 DEF PostStep
<1>2. ASSUME NEW id \in RevIds, Used(id)', revs'[id].body = NoBody
      PROVE \E x \in PostIds : revs'[id].post = x /\ Gone(x)'
  <2>1. CASE Used(id)
    <3>1. revs[id].body = NoBody
      BY <1>2, <2>1, StepForward DEF RowsForward, RowForward
    <3>2. PICK x \in PostIds : revs[id].post = x /\ Gone(x)
      BY <2>1, <3>1 DEF GoneInv
    <3>3. CASE revs'[id].post = revs[id].post
      BY <1>g, <3>2, <3>3
    <3>4. ASSUME NEW p \in Publishers, Mark(p), id = pub[p].target,
                 revs'[id].post = pub[p].post
          PROVE \E y \in PostIds : revs'[id].post = y /\ Gone(y)'
      <4>1. pub[p].pc = "mark"
        BY <3>4 DEF Mark, PubAt
      <4>2. PICK y \in PostIds : pub[p].post = y
        BY <4>1 DEF MatchInv
      <4>3. PICK t \in RevIds, r \in Repos : pub[p].target = t /\ pub[p].repo = r /\ Stands(t, r)
        BY <4>1 DEF ShownInv, TargetInv, Booking
      <4>4. posts[y].repo = r /\ revs[id].repo = r
        BY <3>4, <4>1, <4>2, <4>3 DEF ShownInv, TargetInv, Stands, WithStatus, RowsOf
      <4>5. posts[x].repo = r
        BY <2>1, <3>2, <4>4 DEF ShownInv, MarkInv
      <4>6. x = y
        BY <4>4, <4>5, StoreAssumption DEF ShownInv, OnePostPerRepo
      <4> QED
        BY <1>g, <3>2, <3>4, <4>2, <4>6
    <3> QED
      BY <2>1, <3>3, <3>4, PostOfRow
  <2>2. CASE ~ Used(id)
    <3>1. ASSUME NEW w \in Workers, At(w, "generated"), revs'[id].body = wk[w].body PROVE FALSE
      BY <1>2, <3>1 DEF At, GoneInv
    <3>2. ASSUME NEW v \in Reviewers, ReqAt(v, "create"), revs'[id].body = req[v].body
          PROVE FALSE
      BY <1>2, <3>2 DEF ReqAt, GoneInv
    <3>3. ASSUME NEW p \in Publishers, ImportDrift(p),
                 revs'[id] = NewRow(pub[p].repo, pub[p].version, "patreon_import", "approved",
                                    pub[p].seen, 0, pub[p].post, NoRev)
          PROVE \E x \in PostIds : revs'[id].post = x /\ Gone(x)'
      <4>1. pub[p].seen = NoBody /\ revs'[id].post = pub[p].post
        BY <1>2, <3>3 DEF NewRow
      <4>2. PICK x \in PostIds : pub[p].post = x /\ Gone(x)
        BY <3>3, <4>1 DEF GoneInv, ImportDrift, PubAt
      <4> QED
        BY <1>g, <4>1, <4>2
    <3> QED
      BY <1>2, <2>2, <3>1, <3>2, <3>3, NewRowFrom
  <2> QED
    BY <2>1, <2>2
<1>3. ASSUME NEW w \in Workers, wk'[w].pc = "generated" PROVE wk'[w].body # NoBody
  BY <1>3, WorkerBody, StoreAssumption DEF GoneInv
<1>4. ASSUME NEW v \in Reviewers, req'[v].pc = "create" PROVE req'[v].body # NoBody
  BY <1>4, RequestBody, StoreAssumption DEF GoneInv
<1>5. ASSUME NEW p \in Publishers, pub'[p].pc \in {"drift", "import"}, pub'[p].seen = NoBody
      PROVE \E x \in PostIds : pub'[p].post = x /\ Gone(x)'
  <2>1. CASE pub[p].pc \in {"drift", "import"} /\ pub'[p].post = pub[p].post
             /\ pub'[p].seen = pub[p].seen
    <3>1. PICK x \in PostIds : pub[p].post = x /\ Gone(x)
      BY <1>5, <2>1 DEF GoneInv
    <3> QED
      BY <1>g, <2>1, <3>1
  <2>2. CASE Drift(p) /\ pub'[p].post = LivePost(p) /\ pub'[p].seen = Content(LivePost(p))
    <3>1. pub[p].pc \in Selecting /\ LivePost(p) # NoPost
      BY <2>2 DEF Drift, PubAt, Selecting
    <3>2. LivePost(p) \in PostIds /\ posts[LivePost(p)].repo = pub[p].repo
          /\ pub[p].repo \in Repos
      BY <3>1, DriftedPost, LivePostIs
    <3>3. PICK x \in PostIds : x = LivePost(p)
      BY <3>2
    <3>4. Gone(x)
      BY <1>5, <2>2, <3>2, <3>3, StoreAssumption DEF Gone, Content
    <3> QED
      BY <1>g, <2>2, <3>3, <3>4
  <2>3. CASE Publish(p) /\ Place(p)
    <3>1. \/ Drift(p) /\ pub'[p].post = LivePost(p) /\ pub'[p].seen = Content(LivePost(p))
          \/ /\ Moves(p, "drift", "import") /\ pub'[p].post = pub[p].post
             /\ pub'[p].seen = pub[p].seen
      BY <1>5, <2>3 DEF Place, Lists, Leaves, Selects, Moves
    <3> QED
      BY <2>1, <2>2, <3>1 DEF Moves
  <2>4. CASE pub' = pub
    BY <1>5, <2>1, <2>4
  <2> QED
    BY <2>3, <2>4, PublisherOrNot
<1> QED
  BY <1>1, <1>2, <1>3, <1>4, <1>5 DEF GoneInv

\* Every step keeps the database in agreement with Patreon.
LEMMA MatchNext ==
    ASSUME OnePublisher, Reliable, NeverRefused, NeverTheirs, GateInv, ShownInv, MatchInv,
           GoneInv, [Next]_vars
    PROVE MatchInv'
<1>p. ASSUME NEW p \in Publishers, NEW x, Pushed(p, x)
      PROVE pub'[p].pc = "mark" /\ pub'[p].post = x /\ Keeps(p)
  <2>1. pub \in [Publishers -> Publisher] /\ pub[p] \in Publisher
    BY DEF GateInv, TypeOK, PublisherTypeOK
  <2> QED
    BY <1>p, <2>1 DEF Pushed, Publisher, Keeps
<1>c. ASSUME NEW p \in Publishers, CreatePost(p)
      PROVE \E x \in FreshPosts : /\ posts' = [posts EXCEPT ![x] = Shows(pub[p].repo, pub[p].target)]
                                  /\ Pushed(p, x)
  BY <1>c DEF CreatePost, NeverRefused
<1>1. ASSUME NEW id \in RevIds, Used(id)' PROVE revs'[id].post # EmptyPost
  <2>1. CASE Used(id)
    <3>1. ASSUME NEW p \in Publishers, Mark(p), revs'[id].post = pub[p].post
          PROVE revs'[id].post # EmptyPost
      BY <3>1 DEF Mark, PubAt, MatchInv
    <3> QED
      BY <2>1, <3>1, PostOfRow DEF MatchInv
  <2>2. CASE ~ Used(id)
    <3>1. ASSUME NEW p \in Publishers, ImportDrift(p),
                 revs'[id] = NewRow(pub[p].repo, pub[p].version, "patreon_import", "approved",
                                    pub[p].seen, 0, pub[p].post, NoRev)
          PROVE revs'[id].post # EmptyPost
      <4>1. revs'[id].post = pub[p].post /\ pub[p].pc = "import"
        BY <3>1 DEF NewRow, ImportDrift, PubAt
      <4> QED
        BY <4>1 DEF MatchInv
    <3> QED
      BY <1>1, <2>2, <3>1, NewRowFrom, StoreAssumption
  <2> QED
    BY <2>1, <2>2
<1>2. ASSUME NEW v \in Reviewers PROVE req'[v].pc \notin {"list", "theirs"}
  BY RequestBody DEF MatchInv
<1>3. ASSUME NEW p \in Publishers, pub'[p].pc \in {"drift", "import", "mark"}
      PROVE pub'[p].post # EmptyPost
  <2>1. CASE pub[p].pc \in {"drift", "import", "mark"} /\ pub'[p].post = pub[p].post
    BY <2>1 DEF MatchInv
  <2>2. CASE (Drift(p) \/ UpdatePost(p)) /\ pub'[p].post = LivePost(p)
    <3>1. pub[p].pc \in Selecting /\ LivePost(p) # NoPost
      BY <2>2 DEF Drift, UpdatePost, PubAt, Selecting
    <3> QED
      BY <2>2, <3>1, DriftedPost, StoreAssumption
  <2>3. CASE CreatePost(p)
    BY <1>c, <1>p, <2>3, StoreAssumption DEF FreshPosts
  <2>4. CASE Publish(p) /\ Place(p)
    <3>1. \/ Drift(p) /\ Moves(p, "check", "drift") /\ pub'[p].post = LivePost(p)
          \/ Moves(p, "drift", "import") /\ pub'[p].post = pub[p].post
          \/ UpdatePost(p) /\ Moves(p, "push", "mark") /\ pub'[p].post = LivePost(p)
          \/ CreatePost(p)
      BY <1>3, <2>4 DEF Place, Lists, Leaves, Selects, Moves
    <3> QED
      BY <2>1, <2>2, <2>3, <3>1 DEF Moves
  <2>5. CASE pub' = pub
    BY <1>3, <2>1, <2>5
  <2> QED
    BY <2>4, <2>5, PublisherOrNot
<1>s. ASSUME NEW x \in PostIds, NEW t \in RevIds, Used(t), Shown(x, t), posts[x].repo \in Repos,
             ~ \E p \in Publishers : UpdatePost(p)
      PROVE Shown(x, t)'
  BY <1>s, PostKeeps
<1>4. ASSUME NEW p \in Publishers, pub'[p].pc = "mark"
      PROVE \E x \in PostIds, t \in RevIds :
                pub'[p].post = x /\ pub'[p].target = t /\ Shown(x, t)'
  <2>1. CASE UpdatePost(p) /\ Moves(p, "push", "mark") /\ pub'[p].post = LivePost(p)
    <3>1. pub[p].pc \in Selecting /\ LivePost(p) # NoPost
      BY <2>1 DEF UpdatePost, PubAt, Selecting
    <3>2. PICK x \in PostIds : x = LivePost(p)
      BY <3>1, DriftedPost
    <3>3. PICK t \in RevIds : pub[p].target = t
      BY <3>1 DEF ShownInv, TargetInv
    <3>4. Used(t) => revs'[t].body = revs[t].body
      BY StepForward DEF RowsForward, RowForward
    <3>5. Used(t)
      BY <3>1, <3>3 DEF ShownInv, TargetInv, Stands, WithStatus, RowsOf, Exists
    <3>6. posts \in [PostIds -> Post]
      BY DEF GateInv, TypeOK, PublisherTypeOK
    <3>7. CASE posts' = [posts EXCEPT ![x] = Shows(pub[p].repo, pub[p].target)]
      <4>1. posts'[x].body = revs[t].body
        BY <3>3, <3>6, <3>7 DEF Shows
      <4>2. Shown(x, t)'
        BY <3>4, <3>5, <4>1 DEF Shown
      <4> QED
        BY <2>1, <3>2, <3>3, <4>2 DEF Moves, Keeps
    <3>8. CASE posts' = posts /\ Content(x) = NoBody
      <4>1. posts'[x].by = NoRev
        BY <3>8 DEF Content, GoneInv
      <4>2. Shown(x, t)'
        BY <4>1 DEF Shown
      <4> QED
        BY <2>1, <3>2, <3>3, <4>2 DEF Moves, Keeps
    <3> QED
      BY <2>1, <3>2, <3>7, <3>8 DEF UpdatePost, NeverRefused
  <2>2. CASE CreatePost(p)
    <3>1. PICK x \in FreshPosts :
              /\ posts' = [posts EXCEPT ![x] = Shows(pub[p].repo, pub[p].target)]
              /\ Pushed(p, x)
      BY <1>c, <2>2
    <3>2. x \in PostIds /\ posts \in [PostIds -> Post] /\ revs' = revs
      BY <2>2 DEF FreshPosts, GateInv, TypeOK, PublisherTypeOK, CreatePost, storeVars
    <3>3. PICK t \in RevIds : pub[p].target = t
      BY <2>2 DEF CreatePost, PubAt, ShownInv, TargetInv, Selecting
    <3>4. posts'[x].body = revs'[t].body
      BY <3>1, <3>2, <3>3 DEF Shows
    <3>5. Shown(x, t)'
      BY <3>4 DEF Shown
    <3>6. pub'[p].post = x /\ pub'[p].target = t
      BY <1>p, <3>1, <3>3 DEF Keeps
    <3> QED
      BY <3>2, <3>5, <3>6
  <2>3. CASE pub' = pub /\ ~ \E q \in Publishers : Publish(q)
    <3>1. pub[p].pc = "mark"
      BY <1>4, <2>3
    <3>2. PICK x \in PostIds, t \in RevIds :
              pub[p].post = x /\ pub[p].target = t /\ Shown(x, t)
      BY <3>1 DEF MatchInv
    <3>3. PICK i \in RevIds, r \in Repos : pub[p].target = i /\ pub[p].repo = r /\ Stands(i, r)
      BY <3>1 DEF ShownInv, TargetInv, Booking
    <3>4. Used(t) /\ posts[x].repo \in Repos
      BY <3>1, <3>2, <3>3 DEF ShownInv, TargetInv, Stands, WithStatus, RowsOf, Exists
    <3>5. Shown(x, t)'
      BY <2>3, <3>2, <3>4, PostKeeps
    <3> QED
      BY <2>3, <3>2, <3>5
  <2>4. CASE Publish(p) /\ Place(p)
    <3>1. \/ UpdatePost(p) /\ Moves(p, "push", "mark") /\ pub'[p].post = LivePost(p)
          \/ CreatePost(p)
      BY <1>4, <2>4 DEF Place, Lists, Leaves, Selects, Moves
    <3> QED
      BY <2>1, <2>2, <3>1
  <2> QED
    BY <2>3, <2>4, PublisherOrNot
<1>5. ASSUME NEW p \in Publishers, pub'[p].pc = "point"
      PROVE \E x \in PostIds, t \in RevIds :
                pub'[p].target = t /\ revs'[t].post = x /\ Shown(x, t)'
  <2>1. CASE Mark(p) /\ Moves(p, "mark", "point")
    <3>1. PICK x \in PostIds, t \in RevIds :
              pub[p].post = x /\ pub[p].target = t /\ Shown(x, t)
      BY <2>1 DEF Moves, MatchInv
    <3>2. Exists(t) /\ revs[t] \in Revision /\ revs \in Table
      <4>1. t \in WithStatus(pub[p].repo, "approved")
        BY <2>1, <3>1 DEF Moves, ShownInv, TargetInv, Booking, Stands
      <4> QED
        BY <4>1, RowTypes DEF WithStatus, RowsOf, Exists, GateInv, TypeOK, StoreTypeOK, Table
    <3>3. revs' = MarkPublished(t, x) /\ posts' = posts
      BY <2>1, <3>1 DEF Mark, Reliable
    <3>4. revs'[t] = [revs[t] EXCEPT !.post = x, !.live = TRUE]
      BY <3>2, <3>3 DEF MarkPublished, Table
    <3>5. revs'[t].post = x /\ revs'[t].body = revs[t].body
      BY <3>2, <3>4 DEF Revision
    <3>6. Shown(x, t)'
      BY <3>1, <3>3, <3>5 DEF Shown
    <3> QED
      BY <2>1, <3>1, <3>5, <3>6 DEF Moves, Keeps
  <2>2. CASE pub' = pub /\ ~ \E q \in Publishers : Publish(q)
    <3>1. pub[p].pc = "point"
      BY <1>5, <2>2
    <3>2. PICK x \in PostIds, t \in RevIds :
              pub[p].target = t /\ revs[t].post = x /\ Shown(x, t)
      BY <3>1 DEF MatchInv
    <3>3. PICK i \in RevIds, r \in Repos : pub[p].target = i /\ pub[p].repo = r /\ Stands(i, r)
      BY <3>1 DEF ShownInv, TargetInv, Booking
    <3>4. Used(t) /\ revs[t].repo = r
      BY <3>2, <3>3 DEF Stands, WithStatus, RowsOf, Exists
    <3>5. posts[x].repo \in Repos
      BY <3>2, <3>4 DEF ShownInv, MarkInv
    <3>6. Shown(x, t)'
      BY <2>2, <3>2, <3>4, <3>5, PostKeeps
    <3>7. revs'[t].post = x
      BY <2>2, <3>2, <3>4, PostOfRow
    <3> QED
      BY <2>2, <3>2, <3>6, <3>7
  <2>3. CASE Publish(p) /\ Place(p)
    <3>1. Mark(p) /\ Moves(p, "mark", "point")
      BY <1>5, <2>3 DEF Place, Lists, Leaves, Selects, Moves
    <3> QED
      BY <2>1, <3>1
  <2> QED
    BY <2>2, <2>3, PublisherOrNot
<1>6. ASSUME NEW r \in Repos, NEW id \in RevIds, repos'[r].published = id,
             \A p \in Publishers : ~ AtWorkOn(p, r)'
      PROVE \E x \in PostIds : revs'[id].post = x /\ Shown(x, id)'
  <2>1. ASSUME NEW p \in Publishers, Publish(p), Point(p), pub[p].target = id
        PROVE \E x \in PostIds : revs'[id].post = x /\ Shown(x, id)'
    <3>1. PICK x \in PostIds : revs[id].post = x /\ Shown(x, id)
      BY <2>1 DEF Point, PubAt, MatchInv
    <3>2. revs' = revs /\ posts' = posts
      BY <2>1 DEF Point
    <3>3. Shown(x, id)'
      BY <3>1, <3>2 DEF Shown
    <3> QED
      BY <3>1, <3>2, <3>3
  <2>2. ASSUME NEW v \in Reviewers, SweepDone(v) PROVE FALSE
    BY <2>2 DEF SweepDone, ReqAt, MatchInv
  <2>3. CASE repos'[r].published = repos[r].published
             /\ ~ \E p \in Publishers : Publish(p) /\ Point(p) /\ pub[p].target = id
    <3>1. ASSUME NEW p \in Publishers, AtWorkOn(p, r) PROVE FALSE
      <4>1. pub[p].pc \in {"mark", "point"} /\ pub[p].repo = r
        BY <3>1 DEF AtWorkOn, Booking
      <4>2. CASE pub' = pub
        BY <1>6, <3>1, <4>2 DEF AtWorkOn
      <4>3. CASE Publish(p) /\ Place(p)
        <5>1. ~ CrashPublish(p)
          BY DEF CrashPublish, Reliable
        <5>2. \/ Mark(p) /\ Moves(p, "mark", "point")
              \/ Point(p)
          BY <4>1, <4>3, <5>1 DEF Place, ListRepos, SkipRepo, ImportFails, HaltRepo, PushFails,
             Supersede, FinishPublish, Selects, Moves, PubAt
        <5>3. CASE Mark(p) /\ Moves(p, "mark", "point")
          BY <1>6, <4>1, <5>3 DEF Moves, Keeps, AtWorkOn, Booking
        <5>4. CASE Point(p)
          <6>1. PICK t \in RevIds, q \in Repos : pub[p].target = t /\ pub[p].repo = q
                                                 /\ Stands(t, q)
            BY <5>4 DEF Point, PubAt, ShownInv, TargetInv, Booking
          <6>2. Exists(t) /\ q = r /\ t # NoRev
            BY <4>1, <6>1, StoreAssumption DEF Stands, WithStatus, RowsOf
          <6>3. repos' = SetRevisionPointers(r, t, t)
            BY <5>4, <6>1, <6>2 DEF Point, Reliable
          <6>4. repos \in [Repos -> Repository] /\ repos[r] \in Repository
            BY DEF GateInv, TypeOK, StoreTypeOK
          <6>5. repos'[r].published = t
            BY <6>2, <6>3, <6>4 DEF SetRevisionPointers, Repository
          <6> QED
            BY <1>6, <2>3, <4>3, <5>4, <6>1, <6>5
        <5> QED
          BY <5>2, <5>3, <5>4
      <4> QED
        BY <4>2, <4>3, PublisherOrNot
    <3>2. repos[r].published = id /\ id # NoRev
      BY <1>6, <2>3, StoreAssumption
    <3>3. PICK x \in PostIds : revs[id].post = x /\ Shown(x, id)
      BY <3>1, <3>2 DEF MatchInv
    <3>4. LiveRow(id, r)
      BY <3>1, <3>2 DEF ShownInv, PointInv, Leads
    <3>5. Used(id) /\ revs[id].repo = r
      BY <3>4 DEF LiveRow, RowsOf, Exists
    <3>6. posts[x].repo = r
      BY <3>3, <3>5 DEF ShownInv, MarkInv
    <3>7. revs'[id].post = x
      <4>1. ASSUME NEW p \in Publishers, Mark(p), id = pub[p].target PROVE FALSE
        <5>1. id \in WithStatus(pub[p].repo, "approved")
          BY <4>1 DEF Mark, PubAt, ShownInv, TargetInv, Booking, Stands
        <5>2. pub[p].repo = r /\ pub[p].pc = "mark"
          BY <3>5, <4>1, <5>1 DEF WithStatus, RowsOf, Mark, PubAt
        <5> QED
          BY <3>1, <5>2 DEF AtWorkOn, Booking
      <4> QED
        BY <3>3, <3>5, <4>1, PostOfRow
    <3>8. ASSUME NEW p \in Publishers, UpdatePost(p), posts[x].repo = pub[p].repo PROVE FALSE
      <4>1. \E y : Pushed(p, y)
        BY <3>8 DEF UpdatePost
      <4>2. pub'[p].pc = "mark" /\ pub'[p].repo = r
        BY <1>p, <3>6, <3>8, <4>1 DEF Keeps
      <4> QED
        BY <1>6, <4>2 DEF AtWorkOn, Booking
    <3>9. Shown(x, id)'
      BY <3>3, <3>5, <3>6, <3>8, PostKeeps
    <3> QED
      BY <3>7, <3>9
  <2> QED
    BY <1>6, <2>1, <2>2, <2>3, StepPointers
<1> QED
  BY <1>1, <1>2, <1>3, <1>4, <1>5, <1>6 DEF MatchInv

\* With no refused writes and no keep_theirs either, the database agrees with Patreon: the post
\* of a published revision exists and shows its body, or what the site made of it.
THEOREM DatabaseAgreesWithPatreon ==
    OnePublisher /\ Reliable /\ NeverRefused /\ NeverTheirs => (Spec => []LiveMatches)
<1> SUFFICES ASSUME OnePublisher, Reliable, NeverRefused, NeverTheirs
             PROVE Spec => []LiveMatches
  OBVIOUS
<1>1. Init => GoneInv /\ MatchInv
  <2> SUFFICES ASSUME Init PROVE GoneInv /\ MatchInv
    OBVIOUS
  <2>1. /\ \A id \in RevIds : ~ Used(id)
        /\ \A w \in Workers : wk[w].pc = "off"
        /\ \A r \in Repos : repos[r].published = NoRev
    BY DEF Init, StoreInit, PipelineInit, Off, Used, Unused
  <2>2. /\ \A p \in Publishers : pub[p].pc = "off"
        /\ \A v \in Reviewers : req[v].pc = "off"
        /\ \A x \in PostIds : posts[x].by = NoRev
    BY DEF Init, PublisherInit, Idle, NoSuchPost, ReviewInit, NoRequest
  <2>3. GoneInv
    BY <2>1, <2>2 DEF GoneInv
  <2>4. MatchInv
    BY <2>1, <2>2, StoreAssumption DEF MatchInv
  <2> QED
    BY <2>3, <2>4
<1>2. GateInv /\ ShownInv /\ GoneInv /\ MatchInv /\ [Next]_vars => GoneInv' /\ MatchInv'
  BY GoneNext, MatchNext
<1>3. GateInv /\ ShownInv /\ MatchInv => LiveMatches
  <2> SUFFICES ASSUME GateInv, ShownInv, MatchInv, NEW r \in Repos, NEW id,
                      id = repos[r].published, id # NoRev, \A p \in Publishers : pub[p].repo # r
               PROVE /\ Exists(id)
                     /\ revs[id].post \in PostIds
                     /\ \/ posts[revs[id].post].by = NoRev
                        \/ posts[revs[id].post].body = revs[id].body
    BY DEF LiveMatches
  <2>1. \A p \in Publishers : ~ AtWorkOn(p, r)
    BY DEF AtWorkOn
  <2>2. LiveRow(id, r)
    BY <2>1 DEF ShownInv, PointInv, Leads
  <2>3. Exists(id) /\ id \in RevIds
    BY <2>2 DEF LiveRow, RowsOf, Exists
  <2>4. PICK x \in PostIds : revs[id].post = x /\ Shown(x, id)
    BY <2>1, <2>3 DEF MatchInv
  <2> QED
    BY <2>3, <2>4 DEF Shown
<1> QED
  BY <1>1, <1>2, <1>3, ShownInvariant, GateInvariant, PTL DEF Spec
=============================================================================
