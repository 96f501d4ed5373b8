---------------------------- MODULE HistoryProofs ----------------------------
(***************************************************************************)
(* Theorems about the revisions of repositories: the import, the drafts,   *)
(* the pruner and merge-history, for any repositories, posts and matches,  *)
(* any number of process runs and any number of stops.                     *)
(***************************************************************************)
EXTENDS RepoHistory, FiniteSetTheorems, WellFoundedInduction, TLAPS

RepoRecord == [there : BOOLEAN, state : {"idle", "processing", "awaiting_review"},
               current : Pointer, published : Pointer]
RunPcs == {"off", "count", "list", "post", "point", "work", "read", "generate", "image", "file",
           "row", "insert", "pointers", "state", "revert", "abort", "prune", "pruneRow",
           "pruneFile", "pruneRev"}
RunRecord == [pc : RunPcs, at : 1..(Len(PostList) + 1), queue : SUBSET Repos, repo : Repos,
              body : Bodies \cup {NoPost}, ill : Kinds \cup {"none", "drawn"}, rev : Pointer,
              doomed : SUBSET RevIds]
MergeRecord == [pc : {"off", "check", "tx", "unlink"}, old : Repos, new : Repos,
                current : Pointer, published : Pointer, files : SUBSET Images]

Pruning == {"pruneRow", "pruneFile", "pruneRev"}

\* Versions stay within the number of revisions there ever were.
Counted == \A id \in RevIds : Exists(id) => revs[id].version <= Cardinality(RevIds \ Unborn)

\* Nobody points to a revision that is not there yet.
UsedPointers ==
    \A id \in Unborn :
        /\ \A r \in Repos : id # repos[r].current /\ id # repos[r].published
        /\ \A p \in Runs : id # run[p].rev
        /\ \A m \in Merges : id # mrg[m].current /\ id # mrg[m].published

\* What the pruner has on its list was rejected, and stays so.
Condemned(id) == id \in RevIds /\ revs[id].status \in {"rejected", "deleted"}
Doomed ==
    \A p \in Runs :
        /\ \A id \in run[p].doomed : Condemned(id)
        /\ run[p].pc \in Pruning => Condemned(run[p].rev)

\* What a run is about to point its repository to belongs to the repository.
RunOwn ==
    \A p \in Runs :
        run[p].pc \in {"point", "pointers"} /\ Exists(run[p].rev) /\ repos[run[p].repo].there
        => revs[run[p].rev].repo = run[p].repo

\* A run holds no repository that is yet to come.
Holding == {"point", "generate", "image", "file", "row", "insert", "pointers"}

\* What a run has of a draft and its illustration at each stage.
StageOK(r) ==
    /\ r.pc \in Holding => r.repo \notin coming
    /\ r.pc \in {"post", "point"} => r.queue \cap coming = {}
    /\ r.pc \in {"image", "file", "row", "insert", "pruneRow", "pruneFile"} => r.body \in Bodies
    /\ r.pc \in {"file", "row"} => r.ill \in {"drawn", "nodata"}
    /\ r.pc = "point" => r.at <= Len(PostList)

\* Nor does a merge.
Expected ==
    /\ \A r \in coming : ~repos[r].there
    /\ \A m \in Merges : mrg[m].pc # "off" => mrg[m].old \notin coming

HistoryInv ==
    /\ TypeOK /\ Counted /\ UsedPointers /\ Doomed /\ RunOwn /\ Expected
    /\ \A p \in Runs : StageOK(run[p])

\* What the assumption on the constants says of sizes and members.
LEMMA Sizes ==
    /\ Len(RepoList) \in Nat \ {0} /\ RepoList[1] \in Repos /\ Len(PostList) \in Nat
    /\ \A i \in 1..Len(PostList) : PostList[i] \in Posts
    /\ IsFiniteSet(RevIds) /\ RevIds \subseteq Nat /\ NoRev \notin RevIds /\ NoPost \notin Posts
    /\ Cardinality(RevIds) \in Nat /\ MaxStops \in Nat
<1>1. Len(RepoList) \in Nat \ {0} /\ Len(PostList) \in Nat
  BY HistoryAssumption
<1>2. RepoList[1] \in Repos
  BY <1>1 DEF Repos
<1>3. \A i \in 1..Len(PostList) : PostList[i] \in Posts
  BY DEF Posts
<1>4. Cardinality(RevIds) \in Nat
  BY HistoryAssumption, FS_CardinalityType
<1> QED
  BY <1>1, <1>2, <1>3, <1>4, HistoryAssumption

\* The types of the tables and the actors.
LEMMA Types ==
    ASSUME HistoryInv
    PROVE  /\ repos \in [Repos -> RepoRecord] /\ run \in [Runs -> RunRecord] /\ mrg \in [Merges -> MergeRecord]
           /\ revs \in [RevIds -> Revision \cup {Unused, Deleted}]
           /\ unmatched \subseteq Posts /\ ills \subseteq Images \X Kinds /\ files \subseteq Images
           /\ stops \in 0..MaxStops /\ known \in [Posts -> SUBSET Repos] /\ coming \subseteq Repos
BY DEF HistoryInv, TypeOK, RepoRecord, RunRecord, RunPcs, MergeRecord

\* The types of a run.
LEMMA RunTypes ==
    ASSUME HistoryInv, NEW p \in Runs
    PROVE  /\ run[p] \in RunRecord /\ run[p].pc \in RunPcs /\ run[p].at \in 1..(Len(PostList) + 1)
           /\ run[p].queue \subseteq Repos /\ run[p].repo \in Repos
           /\ run[p].body \in Bodies \cup {NoPost} /\ run[p].ill \in Kinds \cup {"none", "drawn"}
           /\ run[p].rev \in Pointer /\ run[p].doomed \subseteq RevIds
           /\ StageOK(run[p]) /\ \A id \in run[p].doomed : Condemned(id)
<1>1. run[p] \in RunRecord
  BY Types
<1> QED
  BY <1>1 DEF RunRecord, HistoryInv, Doomed

\* The history variable of cut imports is Boolean.
LEMMA CutType == HistoryInv => cut \in BOOLEAN
BY Zenon DEF HistoryInv, TypeOK

-----------------------------------------------------------------------------
(* A step of one run that leaves revisions and merges alone. *)
RunStep(p) ==
    /\ run' \in [Runs -> RunRecord] /\ \A q \in Runs \ {p} : run'[q] = run[q]
    /\ StageOK(run'[p])
    /\ run'[p].pc \notin {"point", "pointers"}
    /\ run'[p].rev \in {NoRev, run[p].rev} \/ Condemned(run'[p].rev)
    /\ \A id \in run'[p].doomed : Condemned(id)
    /\ run'[p].pc \in Pruning => Condemned(run'[p].rev)

Given(p, r) ==
    IF run[p].pc \in {"point", "pointers"} /\ r = run[p].repo /\ repos[r].there THEN {run[p].rev} ELSE {}

RepoStep(p) ==
    /\ repos' \in [Repos -> RepoRecord]
    /\ \A r \in Repos :
        /\ repos'[r].there = repos[r].there
        /\ repos'[r].current \in {repos[r].current} \cup Given(p, r)
        /\ repos'[r].published \in {repos[r].published} \cup Given(p, r)

PlainStep(p) ==
    /\ RunStep(p) /\ RepoStep(p) /\ UNCHANGED <<revs, mrg>>
    /\ unmatched' \subseteq Posts /\ ills' \subseteq Images \X Kinds /\ files' \subseteq Images
    /\ stops' \in 0..MaxStops /\ cut' \in BOOLEAN
    /\ known' \in [Posts -> SUBSET Repos] /\ coming' = coming

\* A step of a run that writes no revision keeps the invariant.
LEMMA PlainKeeps ==
    ASSUME HistoryInv, NEW p \in Runs, PlainStep(p)
    PROVE  HistoryInv'
<1>1. revs' = revs /\ mrg' = mrg
  BY DEF PlainStep
<1>2. Unborn' = Unborn /\ \A id : Exists(id)' <=> Exists(id)
  BY <1>1 DEF Unborn, Exists
<1>3. \A id : Condemned(id)' <=> Condemned(id)
  BY <1>1 DEF Condemned
<1>4. /\ run' \in [Runs -> RunRecord] /\ \A q \in Runs \ {p} : run'[q] = run[q]
      /\ StageOK(run'[p]) /\ run'[p].pc \notin {"point", "pointers"}
      /\ run'[p].rev \in {NoRev, run[p].rev} \/ Condemned(run'[p].rev)
      /\ \A id \in run'[p].doomed : Condemned(id)
      /\ run'[p].pc \in Pruning => Condemned(run'[p].rev)
  BY DEF PlainStep, RunStep
<1>5. /\ repos' \in [Repos -> RepoRecord]
      /\ \A r \in Repos : /\ repos'[r].there = repos[r].there
                          /\ repos'[r].current \in {repos[r].current} \cup Given(p, r)
                          /\ repos'[r].published \in {repos[r].published} \cup Given(p, r)
  BY DEF PlainStep, RepoStep
<1>6. TypeOK'
  <2>1. cut' \in BOOLEAN
    BY Zenon DEF PlainStep
  <2> QED
    BY <1>1, <1>4, <1>5, <2>1, Types, Zenon
    DEF HistoryInv, TypeOK, PlainStep, RepoRecord, RunRecord, RunPcs, MergeRecord
<1>7. Counted'
  BY <1>1, <1>2 DEF HistoryInv, Counted
<1>8. UsedPointers'
  <2> SUFFICES ASSUME NEW id \in Unborn
               PROVE  /\ \A r \in Repos : id # repos'[r].current /\ id # repos'[r].published
                      /\ \A q \in Runs : id # run'[q].rev
                      /\ \A m \in Merges : id # mrg[m].current /\ id # mrg[m].published
    BY <1>1, <1>2 DEF UsedPointers
  <2>1. /\ \A r \in Repos : id # repos[r].current /\ id # repos[r].published
        /\ \A q \in Runs : id # run[q].rev
        /\ \A m \in Merges : id # mrg[m].current /\ id # mrg[m].published
    BY DEF HistoryInv, UsedPointers
  <2>2. id # NoRev /\ ~Condemned(id)
    BY Sizes DEF Unborn, Condemned
  <2> QED
    BY <1>4, <1>5, <2>1, <2>2 DEF Given
<1>9. Doomed'
  BY <1>3, <1>4 DEF HistoryInv, Doomed
<1>10. RunOwn'
  BY <1>1, <1>2, <1>4, <1>5, RunTypes DEF HistoryInv, RunOwn
<1>11. \A q \in Runs : StageOK(run'[q])
  BY <1>4 DEF HistoryInv
<1>12. coming' = coming
  BY DEF PlainStep
<1>13. Expected'
  BY <1>1, <1>5, <1>12, Types DEF HistoryInv, Expected
<1>14. \A q \in Runs : StageOK(run[q])'
  BY <1>11, <1>12 DEF StageOK
<1> QED
  BY <1>6, <1>7, <1>8, <1>9, <1>10, <1>13, <1>14 DEF HistoryInv

\* A run that leaves the repositories alone meets what is asked of their pointers.
LEMMA SameRepos == ASSUME HistoryInv, NEW p \in Runs, repos' = repos PROVE RepoStep(p)
BY Types DEF RepoStep

\* A row that changes its state, or its pointers to what the run gives it.
LEMMA OneRow ==
    ASSUME HistoryInv, NEW p \in Runs, NEW r \in Repos, NEW row \in RepoRecord,
           repos' = WhereThere(r, row), row.there = repos[r].there,
           row.current \in {repos[r].current} \cup Given(p, r),
           row.published \in {repos[r].published} \cup Given(p, r)
    PROVE  RepoStep(p)
BY Types DEF RepoStep, WhereThere

\* A run's next record is in order when it names no revision it has not named before.
LEMMA SetRun ==
    ASSUME HistoryInv, NEW p \in Runs, NEW r \in RunRecord, run' = [run EXCEPT ![p] = r],
           StageOK(r), r.pc \notin {"point", "pointers"},
           r.rev \in {NoRev, run[p].rev} \/ Condemned(r.rev),
           \A id \in r.doomed : Condemned(id),
           r.pc \in Pruning => Condemned(r.rev)
    PROVE  RunStep(p)
BY Types DEF RunStep
(* The commands of one run *)
LEMMA GotoStep ==
    ASSUME HistoryInv, NEW p \in Runs, NEW pc \in RunPcs, Goto(p, pc), pc \notin {"point", "pointers"},
           StageOK([run[p] EXCEPT !.pc = pc]), pc \in Pruning => run[p].pc \in Pruning
    PROVE  RunStep(p)
<1> DEFINE r == [run[p] EXCEPT !.pc = pc]
<1>1. r \in RunRecord
  BY RunTypes DEF RunRecord
<1>2. r.pc = pc /\ r.rev = run[p].rev /\ r.doomed = run[p].doomed
  BY <1>1, RunTypes DEF RunRecord
<1>3. pc \in Pruning => Condemned(r.rev)
  BY <1>2 DEF HistoryInv, Doomed
<1>4. run' = [run EXCEPT ![p] = r]
  BY DEF Goto
<1>5. StageOK(r)
  OBVIOUS
<1> HIDE DEF r
<1> QED
  BY <1>1, <1>2, <1>3, <1>4, <1>5, RunTypes, SetRun

\* A run that starts over.
LEMMA OffTypes ==
    /\ Off \in RunRecord /\ Off.pc = "off" /\ Off.rev = NoRev /\ Off.doomed = {}
    /\ Off.at = 1 /\ Off.repo = RepoList[1]
<1>1. 1 \in 1..(Len(PostList) + 1) /\ RepoList[1] \in Repos /\ NoRev \in Pointer
  BY Sizes DEF Pointer
<1> QED
  BY <1>1 DEF Off, RunRecord, RunPcs

\* A run may always go back to a place where it holds nothing.
LEMMA OffStep ==
    ASSUME HistoryInv, NEW p \in Runs, NEW r \in RunRecord, run' = [run EXCEPT ![p] = r],
           r.pc \in {"off", "work", "read", "prune"}, r.rev = NoRev, r.doomed = {}
    PROVE  RunStep(p)
<1>1. StageOK(r) /\ r.pc \notin {"point", "pointers"} \cup Pruning
  BY DEF StageOK, Holding, Pruning
<1> QED
  BY <1>1, SetRun

\* Starting a run writes no revision.
LEMMA StartRunKeeps ==
    ASSUME HistoryInv, NEW p \in Runs, StartRun(p)
    PROVE  PlainStep(p)
<1>1. Goto(p, "count") /\ run[p].pc \in {"off"}
  BY DEF StartRun, At
<1>2. StageOK([run[p] EXCEPT !.pc = "count"])
  BY <1>1, RunTypes DEF StageOK, Holding, RunRecord
<1>3. RunStep(p)
  BY <1>1, <1>2, GotoStep DEF RunPcs, Pruning
<1>4. RepoStep(p)
  BY SameRepos DEF StartRun, tables
<1> QED
  BY <1>3, <1>4, Types, CutType DEF PlainStep, StartRun, tables

\* Counting revisions writes none (import.go ImportFirstRun).
LEMMA CountAllKeeps ==
    ASSUME HistoryInv, NEW p \in Runs, CountAll(p)
    PROVE  PlainStep(p)
<1>1. run[p].pc = "count" /\ (Goto(p, "work") \/ Goto(p, "list"))
  BY DEF CountAll, At
<1>2. StageOK([run[p] EXCEPT !.pc = "work"]) /\ StageOK([run[p] EXCEPT !.pc = "list"])
  BY RunTypes DEF StageOK, Holding, RunRecord
<1>3. RunStep(p)
  BY <1>1, <1>2, GotoStep DEF RunPcs, Pruning
<1>4. RepoStep(p)
  BY SameRepos DEF CountAll, tables
<1> QED
  BY <1>3, <1>4, Types, CutType DEF PlainStep, CountAll, tables

\* Fetching the campaign's posts writes no revision.
LEMMA ListPostsKeeps ==
    ASSUME HistoryInv, NEW p \in Runs, ListPosts(p)
    PROVE  PlainStep(p)
<1> DEFINE r == [run[p] EXCEPT !.pc = "post", !.queue = {q \in Repos : repos[q].there}]
<1>1. r \in RunRecord /\ r.pc = "post" /\ r.rev = run[p].rev /\ r.doomed = run[p].doomed
  BY RunTypes DEF RunRecord, RunPcs
<1>2. StageOK(r) /\ run' = [run EXCEPT ![p] = r]
  <2>1. r.queue = {q \in Repos : repos[q].there}
    BY RunTypes DEF RunRecord
  <2> QED
    BY <1>1, <2>1 DEF StageOK, Holding, ListPosts, HistoryInv, Expected
<1> HIDE DEF r
<1>3. RunStep(p)
  BY <1>1, <1>2, RunTypes, SetRun DEF Pruning
<1>4. RepoStep(p)
  BY SameRepos DEF ListPosts, tables
<1> QED
  BY <1>3, <1>4, Types, CutType DEF PlainStep, ListPosts, tables

\* Recording an unmatched post writes no revision.
LEMMA RecordUnmatchedKeeps ==
    ASSUME HistoryInv, NEW p \in Runs, RecordUnmatched(p)
    PROVE  PlainStep(p)
<1> DEFINE r == [run[p] EXCEPT !.at = @ + 1]
<1>1. run[p].pc = "post" /\ run[p].at + 1 \in 1..(Len(PostList) + 1)
  BY Sizes, RunTypes DEF RecordUnmatched, At
<1>2. /\ r \in RunRecord /\ r.pc = "post" /\ r.rev = run[p].rev /\ r.doomed = run[p].doomed
      /\ r.queue = run[p].queue
  BY <1>1, RunTypes DEF RunRecord
<1>3. StageOK(r) /\ run' = [run EXCEPT ![p] = r]
  BY <1>1, <1>2, RunTypes DEF StageOK, Holding, RecordUnmatched
<1> HIDE DEF r
<1>4. RunStep(p)
  BY <1>2, <1>3, RunTypes, SetRun DEF Pruning
<1>5. unmatched' \subseteq Posts
  BY <1>1, Sizes, Types, RunTypes DEF RecordUnmatched, UnmatchedWith
<1>6. RepoStep(p)
  BY SameRepos DEF RecordUnmatched
<1>7. known' \in [Posts -> SUBSET Repos]
  BY <1>1, Sizes, Types, RunTypes DEF RecordUnmatched
<1> QED
  BY <1>4, <1>5, <1>6, <1>7, Types, CutType DEF PlainStep, RecordUnmatched

\* Pointing a repository to its import leads to a revision that is there.
LEMMA PointImportedKeeps ==
    ASSUME HistoryInv, NEW p \in Runs, PointImported(p)
    PROVE  PlainStep(p)
<1> DEFINE r == [run[p] EXCEPT !.pc = "post", !.at = @ + 1, !.rev = NoRev]
           row == [repos[run[p].repo] EXCEPT !.current = run[p].rev, !.published = run[p].rev]
<1>1. run[p].pc = "point" /\ run[p].at + 1 \in 1..(Len(PostList) + 1)
  BY Sizes, RunTypes DEF PointImported, At, StageOK, Holding
<1>2. /\ r \in RunRecord /\ r.pc = "post" /\ r.rev = NoRev /\ r.doomed = run[p].doomed
      /\ r.queue = run[p].queue
  BY <1>1, RunTypes DEF RunRecord, RunPcs, Pointer
<1>3. StageOK(r) /\ run' = [run EXCEPT ![p] = r]
  BY <1>1, <1>2, RunTypes DEF StageOK, Holding, PointImported
<1>4. repos' = WhereThere(run[p].repo, row)
  BY DEF PointImported
<1>5. repos[run[p].repo] \in RepoRecord
  BY Types, RunTypes
<1>6. row \in RepoRecord /\ row.there = repos[run[p].repo].there /\ row.current = run[p].rev /\ row.published = run[p].rev
  BY <1>5, RunTypes DEF RepoRecord
<1> HIDE DEF r, row
<1>7. RunStep(p)
  BY <1>2, <1>3, RunTypes, SetRun DEF Pruning
<1>8. RepoStep(p)
  <2>1. CASE repos[run[p].repo].there
    BY <1>1, <1>4, <1>6, <2>1, RunTypes, OneRow DEF Given
  <2>2. CASE ~repos[run[p].repo].there
    BY <1>4, <2>2, SameRepos DEF WhereThere
  <2> QED
    BY <2>1, <2>2
<1> QED
  BY <1>7, <1>8, Types, CutType DEF PlainStep, PointImported

\* An import that fails ends the run.
LEMMA ImportRefusedKeeps ==
    ASSUME HistoryInv, NEW p \in Runs, ImportRefused(p)
    PROVE  PlainStep(p)
<1> DEFINE r == Off
<1>1. r \in RunRecord /\ r.pc \in {"off", "work", "read", "prune"} /\ r.rev = NoRev /\ r.doomed = {}
  BY OffTypes DEF RunRecord, RunPcs
<1>2. run' = [run EXCEPT ![p] = r]
  BY DEF ImportRefused
<1> HIDE DEF r
<1>3. RunStep(p)
  BY <1>1, <1>2, OffStep
<1>4. RepoStep(p)
  BY SameRepos DEF ImportRefused, tables
<1>5. cut' \in BOOLEAN
  BY Zenon, CutType DEF ImportRefused
<1>6. stops' \in 0..MaxStops
  BY Types, Sizes DEF ImportRefused
<1> QED
  BY <1>3, <1>4, <1>5, <1>6, Types DEF PlainStep, ImportRefused, tables

\* The end of the import writes no revision.
LEMMA ImportDoneKeeps ==
    ASSUME HistoryInv, NEW p \in Runs, ImportDone(p)
    PROVE  PlainStep(p)
<1> DEFINE r == [Off EXCEPT !.pc = "work"]
<1>1. r \in RunRecord /\ r.pc \in {"off", "work", "read", "prune"} /\ r.rev = NoRev /\ r.doomed = {}
  BY OffTypes DEF RunRecord, RunPcs
<1>2. run' = [run EXCEPT ![p] = r]
  BY DEF ImportDone
<1> HIDE DEF r
<1>3. RunStep(p)
  BY <1>1, <1>2, OffStep
<1>4. RepoStep(p)
  BY SameRepos DEF ImportDone, tables
<1>5. cut' \in BOOLEAN
  BY Zenon, CutType DEF ImportDone
<1>6. stops' \in 0..MaxStops
  BY Types, Sizes DEF ImportDone
<1> QED
  BY <1>3, <1>4, <1>5, <1>6, Types DEF PlainStep, ImportDone, tables

\* Building the queue writes no revision.
LEMMA BuildQueueKeeps ==
    ASSUME HistoryInv, NEW p \in Runs, NEW Q \in SUBSET Repos, BuildQueue(p, Q)
    PROVE  PlainStep(p)
<1> DEFINE r == [Off EXCEPT !.pc = "read", !.queue = Q]
<1>1. r \in RunRecord /\ r.pc \in {"off", "work", "read", "prune"} /\ r.rev = NoRev /\ r.doomed = {}
  BY OffTypes DEF RunRecord, RunPcs
<1>2. run' = [run EXCEPT ![p] = r]
  BY DEF BuildQueue
<1> HIDE DEF r
<1>3. RunStep(p)
  BY <1>1, <1>2, OffStep
<1>4. RepoStep(p)
  BY SameRepos DEF BuildQueue, tables
<1>5. cut' \in BOOLEAN
  BY Zenon, CutType DEF BuildQueue
<1>6. stops' \in 0..MaxStops
  BY Types, Sizes DEF BuildQueue
<1> QED
  BY <1>3, <1>4, <1>5, <1>6, Types DEF PlainStep, BuildQueue, tables

\* The end of the queue writes no revision.
LEMMA QueueDoneKeeps ==
    ASSUME HistoryInv, NEW p \in Runs, QueueDone(p)
    PROVE  PlainStep(p)
<1> DEFINE r == [Off EXCEPT !.pc = "prune", !.queue = {q \in Repos : repos[q].there}]
<1>1. r \in RunRecord /\ r.pc \in {"off", "work", "read", "prune"} /\ r.rev = NoRev /\ r.doomed = {}
  BY OffTypes DEF RunRecord, RunPcs
<1>2. run' = [run EXCEPT ![p] = r]
  BY DEF QueueDone
<1> HIDE DEF r
<1>3. RunStep(p)
  BY <1>1, <1>2, OffStep
<1>4. RepoStep(p)
  BY SameRepos DEF QueueDone, tables
<1>5. cut' \in BOOLEAN
  BY Zenon, CutType DEF QueueDone
<1>6. stops' \in 0..MaxStops
  BY Types, Sizes DEF QueueDone
<1> QED
  BY <1>3, <1>4, <1>5, <1>6, Types DEF PlainStep, QueueDone, tables

\* The end of a run writes no revision.
LEMMA EndRunKeeps ==
    ASSUME HistoryInv, NEW p \in Runs, EndRun(p)
    PROVE  PlainStep(p)
<1> DEFINE r == Off
<1>1. r \in RunRecord /\ r.pc \in {"off", "work", "read", "prune"} /\ r.rev = NoRev /\ r.doomed = {}
  BY OffTypes DEF RunRecord, RunPcs
<1>2. run' = [run EXCEPT ![p] = r]
  BY DEF EndRun
<1> HIDE DEF r
<1>3. RunStep(p)
  BY <1>1, <1>2, OffStep
<1>4. RepoStep(p)
  BY SameRepos DEF EndRun, tables
<1>5. cut' \in BOOLEAN
  BY Zenon, CutType DEF EndRun
<1>6. stops' \in 0..MaxStops
  BY Types, Sizes DEF EndRun
<1> QED
  BY <1>3, <1>4, <1>5, <1>6, Types DEF PlainStep, EndRun, tables

\* A run that is stopped leaves everything as it is.
LEMMA StopRunKeeps ==
    ASSUME HistoryInv, NEW p \in Runs, StopRun(p)
    PROVE  PlainStep(p)
<1> DEFINE r == Off
<1>1. r \in RunRecord /\ r.pc \in {"off", "work", "read", "prune"} /\ r.rev = NoRev /\ r.doomed = {}
  BY OffTypes DEF RunRecord, RunPcs
<1>2. run' = [run EXCEPT ![p] = r]
  BY DEF StopRun
<1> HIDE DEF r
<1>3. RunStep(p)
  BY <1>1, <1>2, OffStep
<1>4. RepoStep(p)
  BY SameRepos DEF StopRun, tables
<1>5. cut' \in BOOLEAN
  BY Zenon, CutType DEF StopRun
<1>6. stops' \in 0..MaxStops
  BY Types, Sizes DEF StopRun
<1> QED
  BY <1>3, <1>4, <1>5, <1>6, Types DEF PlainStep, StopRun, tables

\* A duplicate article writes no revision.
LEMMA DedupKeeps ==
    ASSUME HistoryInv, NEW p \in Runs, Dedup(p)
    PROVE  PlainStep(p)
<1>1. Goto(p, "revert") /\ run[p].pc \in {"insert"}
  BY DEF Dedup, At
<1>2. StageOK([run[p] EXCEPT !.pc = "revert"])
  BY <1>1, RunTypes DEF StageOK, Holding, RunRecord
<1>3. RunStep(p)
  BY <1>1, <1>2, GotoStep DEF RunPcs, Pruning
<1>4. RepoStep(p)
  BY SameRepos DEF Dedup, tables
<1> QED
  BY <1>3, <1>4, Types, CutType DEF PlainStep, Dedup, tables

\* A refused insert writes no revision.
LEMMA InsertRefusedKeeps ==
    ASSUME HistoryInv, NEW p \in Runs, InsertRefused(p)
    PROVE  PlainStep(p)
<1>1. Goto(p, "abort") /\ run[p].pc \in {"insert"}
  BY DEF InsertRefused, At
<1>2. StageOK([run[p] EXCEPT !.pc = "abort"])
  BY <1>1, RunTypes DEF StageOK, Holding, RunRecord
<1>3. RunStep(p)
  BY <1>1, <1>2, GotoStep DEF RunPcs, Pruning
<1>4. RepoStep(p)
  BY SameRepos DEF InsertRefused, tables
<1> QED
  BY <1>3, <1>4, Types, CutType DEF PlainStep, InsertRefused, tables

\* Reading a repository writes no revision.
LEMMA ReadRepoKeeps ==
    ASSUME HistoryInv, NEW p \in Runs, NEW q \in Repos, ReadRepo(p, q)
    PROVE  PlainStep(p)
<1> DEFINE pc == IF repos[q].there THEN "generate" ELSE "read"
           r == [run[p] EXCEPT !.pc = pc, !.queue = @ \ {q}, !.repo = q]
           row == [repos[q] EXCEPT !.state = "processing"]
<1>1. pc \in RunPcs /\ pc \in {"generate", "read"}
  BY DEF RunPcs
<1>2. run' = [run EXCEPT ![p] = r] /\ repos' = WhereThere(q, row)
  BY DEF ReadRepo
<1> HIDE DEF pc
<1>3. r \in RunRecord /\ r.pc = pc /\ r.rev = run[p].rev /\ r.doomed = run[p].doomed /\ r.repo = q
  BY <1>1, RunTypes DEF RunRecord
<1>4. repos[q] \in RepoRecord
  BY Types
<1>5. row \in RepoRecord /\ row.there = repos[q].there /\ row.current = repos[q].current /\ row.published = repos[q].published
  BY <1>4 DEF RepoRecord
<1> HIDE DEF r, row
<1>6. RunStep(p)
  <2>1. pc = "generate" => q \notin coming
    BY DEF pc, HistoryInv, Expected
  <2>2. StageOK(r)
    BY <1>1, <1>3, <2>1 DEF StageOK, Holding
  <2> QED
    BY <1>1, <1>2, <1>3, <2>2, RunTypes, SetRun DEF Pruning
<1>7. RepoStep(p)
  BY <1>2, <1>5, OneRow
<1> QED
  BY <1>6, <1>7, Types, CutType DEF PlainStep, ReadRepo

\* Generating an article writes no revision.
LEMMA GenerateKeeps ==
    ASSUME HistoryInv, NEW p \in Runs, NEW b \in Bodies, Generate(p, b)
    PROVE  PlainStep(p)
<1> DEFINE r == [run[p] EXCEPT !.pc = "image", !.body = b]
<1>1. StageOK([run[p] EXCEPT !.pc = "abort"])
  BY RunTypes DEF StageOK, Holding, RunRecord
<1>2. /\ r \in RunRecord /\ r.pc = "image" /\ r.rev = run[p].rev /\ r.doomed = run[p].doomed
      /\ r.body = b /\ r.repo = run[p].repo
  BY RunTypes DEF RunRecord, RunPcs
<1>3. StageOK(r)
  BY <1>2, RunTypes DEF StageOK, Holding, Generate, At
<1>4. Goto(p, "abort") \/ run' = [run EXCEPT ![p] = r]
  BY DEF Generate
<1> HIDE DEF r
<1>5. RunStep(p)
  BY <1>1, <1>2, <1>3, <1>4, RunTypes, SetRun, GotoStep DEF RunPcs, Pruning
<1>6. RepoStep(p)
  BY SameRepos DEF Generate, tables
<1> QED
  BY <1>5, <1>6, Types, CutType DEF PlainStep, Generate, tables

\* What an image service can answer.
LEMMA ImageAnswers == GenerateImage \subseteq {"data", "nodata", "none"}
BY DEF GenerateImage, Answers, DALLE, Stability, Midjourney, OpenAICompat

\* Asking for an illustration writes no revision.
LEMMA IllustrateKeeps ==
    ASSUME HistoryInv, NEW p \in Runs, Illustrate(p)
    PROVE  PlainStep(p)
<1> DEFINE Drawn(a, pc) == [run[p] EXCEPT !.pc = pc, !.ill = a]
<1>1. run[p].pc = "image" /\ run[p].body \in Bodies
  BY RunTypes DEF Illustrate, At, StageOK, Holding
<1>2. PICK a \in Kinds \cup {"none", "drawn"}, pc \in {"insert", "file", "row"} :
         run' = [run EXCEPT ![p] = Drawn(a, pc)] /\ (pc \in {"file", "row"} => a \in {"drawn", "nodata"})
  <2>1. CASE \E row \in RowsFor(Image(p)) : run' = [run EXCEPT ![p].pc = "insert", ![p].ill = row[2]]
    <3>1. PICK row \in RowsFor(Image(p)) : run' = [run EXCEPT ![p].pc = "insert", ![p].ill = row[2]]
      BY <2>1
    <3>2. row[2] \in Kinds
      BY Types DEF RowsFor
    <3> QED
      BY <3>1, <3>2
  <2>2. CASE \E a \in GenerateImage :
               run' = [run EXCEPT ![p].ill = IF a = "data" THEN "drawn" ELSE a,
                                  ![p].pc = CASE a = "none" -> "insert" [] a = "data" -> "file" [] OTHER -> "row"]
    <3>1. PICK a \in GenerateImage :
               run' = [run EXCEPT ![p].ill = IF a = "data" THEN "drawn" ELSE a,
                                  ![p].pc = CASE a = "none" -> "insert" [] a = "data" -> "file" [] OTHER -> "row"]
      BY <2>2
    <3>2. a \in {"data", "nodata", "none"}
      BY ImageAnswers
    <3>3. CASE a = "none"
      <4>1. run' = [run EXCEPT ![p] = Drawn("none", "insert")]
        BY <3>1, <3>3
      <4> QED
        BY <4>1
    <3>4. CASE a = "data"
      <4>1. run' = [run EXCEPT ![p] = Drawn("drawn", "file")]
        BY <3>1, <3>4
      <4> QED
        BY <4>1
    <3>5. CASE a = "nodata"
      BY <3>1, <3>5, ZenonT(60) DEF Kinds
    <3> QED
      BY <3>2, <3>3, <3>4, <3>5
  <2> QED
    BY <2>1, <2>2 DEF Illustrate
<1> DEFINE r == Drawn(a, pc)
<1>3. pc \in RunPcs
  BY DEF RunPcs
<1>4. /\ r \in RunRecord /\ r.pc = pc /\ r.rev = run[p].rev /\ r.doomed = run[p].doomed
      /\ r.ill = a /\ r.body = run[p].body /\ r.repo = run[p].repo
  BY <1>3, RunTypes DEF RunRecord
<1>5. run' = [run EXCEPT ![p] = r]
  BY <1>2
<1> HIDE DEF r, Drawn
<1>6. StageOK(r)
  BY <1>1, <1>2, <1>4, RunTypes DEF StageOK, Holding
<1>7. RunStep(p)
  BY <1>4, <1>5, <1>6, RunTypes, SetRun DEF Pruning
<1>8. RepoStep(p)
  BY SameRepos DEF Illustrate, tables
<1> QED
  BY <1>7, <1>8, Types, CutType DEF PlainStep, Illustrate, tables

\* Writing an illustration file writes no revision.
LEMMA WriteFileKeeps ==
    ASSUME HistoryInv, NEW p \in Runs, WriteFile(p)
    PROVE  PlainStep(p)
<1> DEFINE r == [run[p] EXCEPT !.pc = "insert", !.ill = "none"]
<1>1. run[p].pc = "file" /\ Image(p) \in Images
  BY RunTypes DEF WriteFile, At, StageOK, Holding, Image, Images
<1>2. StageOK([run[p] EXCEPT !.pc = "row"])
  BY <1>1, RunTypes DEF StageOK, Holding, RunRecord
<1>3. /\ r \in RunRecord /\ r.pc = "insert" /\ r.rev = run[p].rev /\ r.doomed = run[p].doomed
      /\ r.body = run[p].body /\ r.repo = run[p].repo
  BY RunTypes DEF RunRecord, RunPcs
<1>4. StageOK(r)
  BY <1>1, <1>3, RunTypes DEF StageOK, Holding
<1>5. Goto(p, "row") \/ run' = [run EXCEPT ![p] = r]
  BY DEF WriteFile
<1> HIDE DEF r
<1>6. RunStep(p)
  BY <1>2, <1>3, <1>4, <1>5, RunTypes, SetRun, GotoStep DEF RunPcs, Pruning
<1>7. files' \subseteq Images
  BY <1>1, Types DEF WriteFile
<1>8. RepoStep(p)
  BY SameRepos DEF WriteFile
<1> QED
  BY <1>6, <1>7, <1>8, Types, CutType DEF PlainStep, WriteFile

\* Recording an illustration writes no revision.
LEMMA CreateIllustrationKeeps ==
    ASSUME HistoryInv, NEW p \in Runs, CreateIllustration(p)
    PROVE  PlainStep(p)
<1>1. run[p].pc = "row" /\ Goto(p, "insert") /\ <<Image(p), Kind(run[p].ill)>> \in Images \X Kinds
  BY RunTypes DEF CreateIllustration, At, StageOK, Holding, Image, Images, Kind, Kinds
<1>2. StageOK([run[p] EXCEPT !.pc = "insert"])
  BY <1>1, RunTypes DEF StageOK, Holding, RunRecord
<1>3. RunStep(p)
  BY <1>1, <1>2, GotoStep DEF RunPcs, Pruning
<1>4. ills' \subseteq Images \X Kinds
  BY <1>1, Types DEF CreateIllustration
<1>5. RepoStep(p)
  BY SameRepos DEF CreateIllustration
<1> QED
  BY <1>3, <1>4, <1>5, Types, CutType DEF PlainStep, CreateIllustration

\* A run may give a repository up and read the next one.
LEMMA ReadOn ==
    ASSUME HistoryInv, NEW p \in Runs,
           run' = [run EXCEPT ![p] = [Off EXCEPT !.pc = "read", !.queue = run[p].queue]]
    PROVE  RunStep(p)
<1> DEFINE r == [Off EXCEPT !.pc = "read", !.queue = run[p].queue]
<1>1. r \in RunRecord /\ r.pc = "read" /\ r.rev = NoRev /\ r.doomed = {}
  BY OffTypes, RunTypes DEF RunRecord, RunPcs
<1>2. run' = [run EXCEPT ![p] = r]
  OBVIOUS
<1> HIDE DEF r
<1> QED
  BY <1>1, <1>2, OffStep

\* Giving a repository up writes no revision.
LEMMA RevertKeeps ==
    ASSUME HistoryInv, NEW p \in Runs, Revert(p)
    PROVE  PlainStep(p)
<1> DEFINE row == [repos[run[p].repo] EXCEPT !.state = "idle"]
<1>2. repos[run[p].repo] \in RepoRecord
  BY Types, RunTypes
<1>3. /\ row \in RepoRecord /\ row.there = repos[run[p].repo].there
      /\ row.current = repos[run[p].repo].current /\ row.published = repos[run[p].repo].published
  BY <1>2, RunTypes DEF RepoRecord
<1>4. repos' = WhereThere(run[p].repo, row)
  BY DEF Revert, SetState
<1> HIDE DEF row
<1>5. RunStep(p)
  <2>1. CASE At(p, "abort")
    BY <2>1, OffStep, OffTypes DEF Revert
  <2>2. CASE ~At(p, "abort")
    BY <2>2, ReadOn DEF Revert
  <2> QED
    BY <2>1, <2>2
<1>6. RepoStep(p)
  BY <1>3, <1>4, RunTypes, OneRow
<1> QED
  BY <1>5, <1>6, Types, CutType DEF PlainStep, Revert

\* Setting a repository to await review writes no revision.
LEMMA AwaitReviewKeeps ==
    ASSUME HistoryInv, NEW p \in Runs, AwaitReview(p)
    PROVE  PlainStep(p)
<1> DEFINE row == [repos[run[p].repo] EXCEPT !.state = "awaiting_review"]
<1>2. repos[run[p].repo] \in RepoRecord
  BY Types, RunTypes
<1>3. /\ row \in RepoRecord /\ row.there = repos[run[p].repo].there
      /\ row.current = repos[run[p].repo].current /\ row.published = repos[run[p].repo].published
  BY <1>2, RunTypes DEF RepoRecord
<1>4. repos' = WhereThere(run[p].repo, row)
  BY DEF AwaitReview, SetState
<1> HIDE DEF row
<1>5. RunStep(p)
  BY ReadOn DEF AwaitReview
<1>6. RepoStep(p)
  BY <1>3, <1>4, RunTypes, OneRow
<1> QED
  BY <1>5, <1>6, Types, CutType DEF PlainStep, AwaitReview

\* Pointing a repository to its draft leads to a revision that is there.
LEMMA PointDraftKeeps ==
    ASSUME HistoryInv, NEW p \in Runs, PointDraft(p)
    PROVE  PlainStep(p)
<1> DEFINE row == [repos[run[p].repo] EXCEPT !.current = run[p].rev]
<1>2. repos[run[p].repo] \in RepoRecord
  BY Types, RunTypes
<1>3. /\ row \in RepoRecord /\ row.there = repos[run[p].repo].there
      /\ row.current = run[p].rev /\ row.published = repos[run[p].repo].published
  BY <1>2, RunTypes DEF RepoRecord
<1>4. repos' = WhereThere(run[p].repo, row)
  BY DEF PointDraft, SetState
<1> HIDE DEF row
<1>5. Goto(p, "state") /\ run[p].pc = "pointers" /\ StageOK([run[p] EXCEPT !.pc = "state"])
  BY RunTypes DEF PointDraft, At, StageOK, Holding, RunRecord
<1>6. RunStep(p)
  BY <1>5, GotoStep DEF RunPcs, Pruning
<1>7. RepoStep(p)
  <2>1. CASE repos[run[p].repo].there
    BY <1>3, <1>4, <1>5, <2>1, RunTypes, OneRow DEF Given
  <2>2. CASE ~repos[run[p].repo].there
    BY <1>4, <2>2, SameRepos DEF WhereThere
  <2> QED
    BY <2>1, <2>2
<1> QED
  BY <1>6, <1>7, Types, CutType DEF PlainStep, PointDraft

\* The pruner's list holds rejected revisions only.
LEMMA ListForRetentionKeeps ==
    ASSUME HistoryInv, NEW p \in Runs, NEW q \in Repos, ListForRetention(p, q)
    PROVE  PlainStep(p)
<1> DEFINE r == [run[p] EXCEPT !.queue = @ \ {q}, !.doomed = ForRetention(q)]
<1>1. ForRetention(q) \subseteq RevIds /\ \A id \in ForRetention(q) : Condemned(id)
  BY DEF ForRetention, RowsOf, Condemned
<1>2. run[p].pc = "prune"
  BY DEF ListForRetention, At
<1>3. r \in RunRecord /\ r.pc = "prune" /\ r.rev = run[p].rev /\ r.doomed = ForRetention(q)
  BY <1>1, <1>2, RunTypes DEF RunRecord
<1>4. run' = [run EXCEPT ![p] = r]
  BY <1>3, ZenonT(60) DEF ListForRetention
<1> HIDE DEF r
<1>5. StageOK(r)
  BY <1>3 DEF StageOK, Holding
<1>6. RunStep(p)
  BY <1>1, <1>3, <1>4, <1>5, SetRun DEF Pruning
<1>7. RepoStep(p)
  BY SameRepos DEF ListForRetention, tables
<1> QED
  BY <1>6, <1>7, Types, CutType DEF PlainStep, ListForRetention, tables

\* Taking the next revision off the list leaves rejected ones on it.
LEMMA PruneNextKeeps ==
    ASSUME HistoryInv, NEW p \in Runs, NEW id \in RevIds, PruneNext(p, id)
    PROVE  PlainStep(p)
<1> DEFINE left == run[p].doomed \ {id}
           r == [run[p] EXCEPT !.pc = "pruneRow", !.doomed = left, !.rev = id,
                               !.repo = revs[id].image[1], !.body = revs[id].image[2]]
           s == [run[p] EXCEPT !.pc = "pruneRev", !.doomed = left, !.rev = id]
<1>1. Condemned(id) /\ id \in Pointer /\ left \subseteq RevIds /\ \A i \in left : Condemned(i)
  BY RunTypes DEF PruneNext, Pointer
<1>2. \/ RowsFor(revs[id].image) # {} /\ run' = [run EXCEPT ![p] = r]
      \/ run' = [run EXCEPT ![p] = s]
  BY DEF PruneNext
<1> HIDE DEF left
<1>3. ASSUME RowsFor(revs[id].image) # {}, run' = [run EXCEPT ![p] = r] PROVE RunStep(p)
  <2>1. revs[id].image[1] \in Repos /\ revs[id].image[2] \in Bodies
    BY <1>3, Types DEF RowsFor, Images
  <2>2. r \in RunRecord /\ r.pc = "pruneRow" /\ r.rev = id /\ r.doomed = left /\ r.body = revs[id].image[2]
    BY <1>1, <2>1, RunTypes, ZenonT(60) DEF RunRecord, RunPcs
  <2>3. StageOK(r)
    BY <2>1, <2>2 DEF StageOK, Holding
  <2>4. run' = [run EXCEPT ![p] = r]
    BY <1>3
  <2> HIDE DEF r
  <2> QED
    BY <1>1, <2>4, <2>2, <2>3, SetRun
<1>4. ASSUME run' = [run EXCEPT ![p] = s] PROVE RunStep(p)
  <2>1. s \in RunRecord /\ s.pc = "pruneRev" /\ s.rev = id /\ s.doomed = left
    BY <1>1, RunTypes DEF RunRecord, RunPcs
  <2>2. StageOK(s)
    BY <2>1 DEF StageOK, Holding
  <2>4. run' = [run EXCEPT ![p] = s]
    BY <1>4
  <2> HIDE DEF s
  <2> QED
    BY <1>1, <2>4, <2>1, <2>2, SetRun
<1> HIDE DEF r, s
<1>5. RunStep(p)
  BY <1>2, <1>3, <1>4
<1>6. RepoStep(p)
  BY SameRepos DEF PruneNext, tables
<1> QED
  BY <1>5, <1>6, Types, CutType DEF PlainStep, PruneNext, tables

\* Deleting an illustration row touches no revision.
LEMMA PruneRowKeeps ==
    ASSUME HistoryInv, NEW p \in Runs, PruneRow(p)
    PROVE  PlainStep(p)
<1>1. Goto(p, "pruneFile") /\ run[p].pc = "pruneRow"
  BY DEF PruneRow, At
<1>2. StageOK([run[p] EXCEPT !.pc = "pruneFile"])
  BY <1>1, RunTypes DEF StageOK, Holding, RunRecord
<1>3. RunStep(p)
  BY <1>1, <1>2, GotoStep DEF RunPcs, Pruning
<1>4. RepoStep(p)
  BY SameRepos DEF PruneRow
<1> QED
  BY <1>3, <1>4, Types, CutType DEF PlainStep, PruneRow

\* Unlinking an illustration file touches no revision.
LEMMA PruneFileKeeps ==
    ASSUME HistoryInv, NEW p \in Runs, PruneFile(p)
    PROVE  PlainStep(p)
<1>1. Goto(p, "pruneRev") /\ run[p].pc = "pruneFile"
  BY DEF PruneFile, At
<1>2. StageOK([run[p] EXCEPT !.pc = "pruneRev"])
  BY <1>1, RunTypes DEF StageOK, Holding, RunRecord
<1>3. RunStep(p)
  BY <1>1, <1>2, GotoStep DEF RunPcs, Pruning
<1>4. RepoStep(p)
  BY SameRepos DEF PruneFile
<1> QED
  BY <1>3, <1>4, Types, CutType DEF PlainStep, PruneFile

-----------------------------------------------------------------------------
(* Steps that write a revision *)
LEMMA RowTypes ==
    ASSUME HistoryInv, NEW id \in RevIds, Exists(id)
    PROVE  /\ revs[id] \in Revision /\ revs[id].repo \in Repos /\ revs[id].version \in Nat \ {0}
           /\ revs[id].version <= Cardinality(RevIds) /\ id \notin Unborn
<1>1. revs[id] \in Revision \cup {Unused, Deleted} /\ revs[id].status \notin {"unused", "deleted"}
  BY Types DEF Exists
<1>2. revs[id] \in Revision
  BY <1>1 DEF Unused, Deleted
<1> QED
  BY <1>1, <1>2, Sizes DEF Revision, Unborn

\* Each inserted revision raises the number of revisions there ever were by one.
LEMMA Births ==
    /\ IsFiniteSet(RevIds \ Unborn) /\ Cardinality(RevIds \ Unborn) \in Nat
    /\ Cardinality(RevIds \ Unborn) <= Cardinality(RevIds)
    /\ \A id \in Unborn : /\ Cardinality((RevIds \ Unborn) \cup {id}) = Cardinality(RevIds \ Unborn) + 1
                          /\ Cardinality(RevIds \ Unborn) + 1 <= Cardinality(RevIds)
<1>1. /\ IsFiniteSet(RevIds \ Unborn) /\ Cardinality(RevIds \ Unborn) \in Nat
      /\ Cardinality(RevIds \ Unborn) <= Cardinality(RevIds)
  BY Sizes, FS_Subset, FS_CardinalityType
<1>2. ASSUME NEW id \in Unborn
      PROVE  /\ Cardinality((RevIds \ Unborn) \cup {id}) = Cardinality(RevIds \ Unborn) + 1
             /\ Cardinality(RevIds \ Unborn) + 1 <= Cardinality(RevIds)
  <2>1. Cardinality((RevIds \ Unborn) \cup {id}) = Cardinality(RevIds \ Unborn) + 1
    BY <1>1, FS_AddElement
  <2>2. (RevIds \ Unborn) \cup {id} \subseteq RevIds
    BY DEF Unborn
  <2>3. Cardinality((RevIds \ Unborn) \cup {id}) <= Cardinality(RevIds)
    BY <2>2, Sizes, FS_Subset
  <2> QED
    BY <2>1, <2>3
<1> QED
  BY <1>1, <1>2

\* COALESCE(MAX(version), 0): no version of the repository is greater, so the next
\* one is free.
LEMMA MaxVersionIsGreatest ==
    ASSUME HistoryInv, NEW r \in Repos
    PROVE  /\ MaxVersion(r) \in Nat /\ MaxVersion(r) <= Cardinality(RevIds \ Unborn)
           /\ \A id \in RowsOf(r) : revs[id].version <= MaxVersion(r)
<1> DEFINE K == Cardinality(RevIds \ Unborn)
           S == {n \in 1..Cardinality(RevIds) : \E id \in RowsOf(r) : n <= revs[id].version}
<1>1. K \in Nat
  BY Births
<1>2. \A id \in RowsOf(r) : /\ revs[id].version \in Nat /\ revs[id].version <= K
                            /\ revs[id].version <= Cardinality(RevIds)
  BY RowTypes DEF RowsOf, HistoryInv, Counted
<1>3. S \subseteq 1..K
  BY <1>1, <1>2
<1>4. /\ IsFiniteSet(S) /\ Cardinality(S) \in Nat
      /\ \A n \in Nat : (S \subseteq 1..n => Cardinality(S) <= n) /\ (1..n \subseteq S => n <= Cardinality(S))
  <2>1. \A n \in Nat : IsFiniteSet(1..n) /\ Cardinality(1..n) = n
    <3>1. \A n \in Nat : IsFiniteSet(1..n) /\ Cardinality(1..n) = IF 1 > n THEN 0 ELSE n - 1 + 1
      BY FS_Interval
    <3> QED
      BY <3>1
  <2>2. IsFiniteSet(S)
    BY <1>1, <1>3, <2>1, FS_Subset
  <2>3. Cardinality(S) \in Nat
    BY <2>2, FS_CardinalityType
  <2> HIDE DEF S
  <2>4. ASSUME NEW n \in Nat PROVE S \subseteq 1..n => Cardinality(S) <= n
    <3>1. S \subseteq 1..n => Cardinality(S) <= Cardinality(1..n)
      BY <2>1, FS_Subset
    <3> QED
      BY <2>1, <3>1
  <2>5. ASSUME NEW n \in Nat PROVE 1..n \subseteq S => n <= Cardinality(S)
    <3>1. 1..n \subseteq S => Cardinality(1..n) <= Cardinality(S)
      BY <2>2, FS_Subset
    <3> QED
      BY <2>1, <3>1
  <2> QED
    BY <2>2, <2>3, <2>4, <2>5
<1>5. ASSUME NEW id \in RowsOf(r) PROVE 1..revs[id].version \subseteq S
  BY <1>2, Sizes
<1>6. MaxVersion(r) = Cardinality(S)
  BY DEF MaxVersion
<1> HIDE DEF S, K
<1>7. \A id \in RowsOf(r) : revs[id].version <= MaxVersion(r)
  BY <1>2, <1>4, <1>5, <1>6
<1> QED
  BY <1>1, <1>3, <1>4, <1>6, <1>7 DEF K

\* Inserting a revision, with the next free version of its repository, keeps the invariant.
LEMMA Insertion ==
    ASSUME HistoryInv, NEW p \in Runs, NEW id \in Fresh, NEW row \in Revision, NEW r \in RunRecord,
           revs' = [revs EXCEPT ![id] = row], run' = [run EXCEPT ![p] = r],
           UNCHANGED <<repos, unmatched, ills, files, mrg, stops>>, cut' = cut, known' = known, coming' = coming,
           row.version <= Cardinality(RevIds \ Unborn) + 1,
           r.pc \in {"point", "pointers"}, r.rev = id, r.repo = row.repo,
           r.doomed = run[p].doomed, StageOK(r)
    PROVE  HistoryInv'
<1>1. id \in Unborn /\ id \in RevIds
  BY DEF Fresh, First, Unborn
<1>2. revs' \in [RevIds -> Revision \cup {Unused, Deleted}] /\ run' \in [Runs -> RunRecord]
  BY Types
<1>3. /\ revs'[id] = row /\ \A i \in RevIds \ {id} : revs'[i] = revs[i]
      /\ run'[p] = r /\ \A q \in Runs \ {p} : run'[q] = run[q]
  BY <1>1, Types
<1>4. row.status \notin {"unused", "deleted"} /\ row.version \in Nat
  BY Sizes DEF Revision
<1>5. Unborn' = Unborn \ {id} /\ \A i : Exists(i)' <=> Exists(i) \/ i = id
  BY <1>1, <1>3, <1>4 DEF Unborn, Exists
<1>6. \A i : Condemned(i) => Condemned(i)'
  BY <1>1, <1>3 DEF Condemned, Unborn
<1>7. TypeOK'
  <2>1. cut' \in BOOLEAN
    BY Zenon, CutType
  <2> QED
    BY <1>2, <2>1, Types, Zenon
    DEF HistoryInv, TypeOK, RepoRecord, RunRecord, RunPcs, MergeRecord
<1>8. Counted'
  <2>1. Cardinality(RevIds \ Unborn') = Cardinality(RevIds \ Unborn) + 1
    <3>1. RevIds \ Unborn' = (RevIds \ Unborn) \cup {id}
      BY <1>1, <1>5
    <3> QED
      BY <1>1, <3>1, Births
  <2>2. ASSUME NEW i \in RevIds, Exists(i)' PROVE revs'[i].version <= Cardinality(RevIds \ Unborn) + 1
    <3>1. CASE i = id
      BY <1>3, <3>1
    <3>2. CASE i # id
      <4>1. Exists(i) /\ revs'[i] = revs[i]
        BY <1>3, <1>5, <2>2, <3>2
      <4>2. revs[i].version <= Cardinality(RevIds \ Unborn)
        BY <4>1 DEF HistoryInv, Counted
      <4>3. revs[i].version \in Nat /\ Cardinality(RevIds \ Unborn) \in Nat
        BY <4>1, RowTypes, Births
      <4> QED
        BY <4>1, <4>2, <4>3
    <3> QED
      BY <3>1, <3>2
  <2> QED
    BY <2>1, <2>2 DEF Counted
<1>9. UsedPointers'
  BY <1>3, <1>5 DEF HistoryInv, UsedPointers
<1>10. Doomed'
  BY <1>3, <1>6 DEF HistoryInv, Doomed, Pruning
<1>11. RunOwn'
  <2> SUFFICES ASSUME NEW q \in Runs, run'[q].pc \in {"point", "pointers"},
                      run'[q].rev \in RevIds, revs'[run'[q].rev].status \notin {"unused", "deleted"},
                      repos[run'[q].repo].there
               PROVE  revs'[run'[q].rev].repo = run'[q].repo
    BY DEF RunOwn, Exists
  <2>1. CASE q = p
    BY <1>3, <2>1
  <2>2. CASE q # p
    <3>1. run[q].rev # id
      BY <1>1 DEF HistoryInv, UsedPointers
    <3> QED
      BY <1>3, <1>5, <2>2, <3>1 DEF HistoryInv, RunOwn, Exists
  <2> QED
    BY <2>1, <2>2
<1>12. \A q \in Runs : StageOK(run'[q])
  BY <1>3 DEF HistoryInv
<1> QED
  BY <1>7, <1>8, <1>9, <1>10, <1>11, <1>12 DEF HistoryInv, StageOK, Holding, Expected

\* The matcher answers with at most one repository, one of those listed that the
\* post fits on some layer.
LEMMA Matches ==
    ASSUME NEW x \in Posts, NEW listed \in SUBSET Repos
    PROVE  /\ \A r \in MatchRepo(x, listed) : r \in listed /\ \E l \in Layers : r \in Hits[x][l]
           /\ \A r, s \in MatchRepo(x, listed) : r = s
<1>1. ASSUME NEW l \in Layers
      PROVE  /\ \A r \in FirstHit(x, l, listed) : r \in listed /\ r \in Hits[x][l]
             /\ \A r, s \in FirstHit(x, l, listed) : r = s
  <2> DEFINE J == {j \in 1..Len(RepoList) : RepoList[j] \in Hits[x][l] \cap listed}
  <2>1. \A i, j \in First(J) : i = j
    BY Sizes DEF First
  <2>2. First(J) \subseteq J
    BY DEF First
  <2> QED
    BY <2>1, <2>2 DEF FirstHit
<1> QED
  BY <1>1 DEF MatchRepo, matchByTag, matchByURL, matchBySlug, matchBySubstring, Layers

\* The insert of an imported post's revision is such a step.
LEMMA RecordMatchedKeeps ==
    ASSUME HistoryInv, NEW p \in Runs, NEW id \in RevIds, RecordMatched(p, id)
    PROVE  HistoryInv'
<1>1. run[p].pc = "post" /\ run[p].at \in 1..Len(PostList) /\ id \in Fresh /\ PostList[run[p].at] \in Posts
  BY Sizes, RunTypes DEF RecordMatched, At
<1>2. PICK q \in Matched(p) :
        /\ Insertable(q, 1)
        /\ revs' = [revs EXCEPT ![id] =
             [status |-> "approved", repo |-> q, version |-> 1, body |-> NoPost,
              ill |-> "none", image |-> NoPost, post |-> PostList[run[p].at]]]
        /\ run' = [run EXCEPT ![p].pc = "point", ![p].repo = q, ![p].rev = id]
  BY DEF RecordMatched
<1> DEFINE row == [status |-> "approved", repo |-> q, version |-> 1, body |-> NoPost,
                   ill |-> "none", image |-> NoPost, post |-> PostList[run[p].at]]
           r == [run[p] EXCEPT !.pc = "point", !.repo = q, !.rev = id]
<1>3. q \in Repos
  BY <1>1, RunTypes, Matches DEF Matched
<1>4. 1 \in 1..Cardinality(RevIds)
  <2>1. id \in Unborn
    BY <1>1 DEF Fresh, First
  <2>2. Cardinality(RevIds \ Unborn) + 1 <= Cardinality(RevIds)
    BY <2>1, Births
  <2> QED
    BY <2>2, Births, Sizes
<1>5. row \in Revision /\ row.version = 1 /\ row.repo = q
  BY <1>1, <1>3, <1>4 DEF Revision
<1>6. id \in Pointer
  BY DEF Pointer
<1>7. /\ r \in RunRecord /\ r.pc = "point" /\ r.rev = id /\ r.repo = q /\ r.doomed = run[p].doomed
      /\ r.at = run[p].at /\ r.queue = run[p].queue
  BY <1>3, <1>6, RunTypes DEF RunRecord, RunPcs
<1>8. StageOK(r)
  <2>1. q \notin coming
    BY <1>2 DEF Insertable, HistoryInv, Expected
  <2> QED
    BY <1>1, <1>7, <2>1, RunTypes DEF StageOK, Holding
<1>9. revs' = [revs EXCEPT ![id] = row] /\ run' = [run EXCEPT ![p] = r]
  BY <1>2
<1>10. UNCHANGED <<repos, unmatched, ills, files, mrg, stops>> /\ cut' = cut /\ known' = known /\ coming' = coming
  BY DEF RecordMatched
<1>11. 1 <= Cardinality(RevIds \ Unborn) + 1
  BY Births
<1> HIDE DEF r, row
<1> QED
  BY <1>1, <1>5, <1>7, <1>8, <1>9, <1>10, <1>11, Insertion

\* The insert of a draft is such a step.
LEMMA InsertDraftKeeps ==
    ASSUME HistoryInv, NEW p \in Runs, NEW id \in RevIds, InsertDraft(p, id)
    PROVE  HistoryInv'
<1> DEFINE q == run[p].repo
           row == [status |-> "pending_review", repo |-> q, version |-> NextVersion(q),
                   body |-> run[p].body, ill |-> Kind(run[p].ill),
                   image |-> IF run[p].ill = "none" THEN NoPost ELSE Image(p), post |-> NoPost]
           r == [run[p] EXCEPT !.pc = "pointers", !.rev = id]
<1>1. /\ run[p].pc = "insert" /\ id \in Fresh /\ id \in Unborn
      /\ revs' = [revs EXCEPT ![id] = row] /\ run' = [run EXCEPT ![p] = r]
      /\ UNCHANGED <<repos, unmatched, ills, files, mrg, stops>> /\ cut' = cut /\ known' = known /\ coming' = coming
  BY DEF InsertDraft, At, Fresh, First
<1>2. q \in Repos /\ run[p].body \in Bodies /\ Image(p) \in Images /\ Kind(run[p].ill) \in Kinds \cup {"none"}
  BY <1>1, RunTypes DEF StageOK, Holding, Image, Images, Kind, Kinds
<1>3. NextVersion(q) \in 1..Cardinality(RevIds) /\ NextVersion(q) <= Cardinality(RevIds \ Unborn) + 1
  <2>1. MaxVersion(q) \in Nat /\ MaxVersion(q) <= Cardinality(RevIds \ Unborn)
    BY <1>2, MaxVersionIsGreatest
  <2>2. Cardinality(RevIds \ Unborn) + 1 <= Cardinality(RevIds)
    BY <1>1, Births
  <2> HIDE DEF q
  <2> QED
    BY <2>1, <2>2, Births, Sizes DEF NextVersion
<1> HIDE DEF q
<1>4. (IF run[p].ill = "none" THEN NoPost ELSE Image(p)) \in Images \cup {NoPost}
  BY <1>2
<1>5. row \in Revision /\ row.version = NextVersion(q) /\ row.repo = q
  BY <1>2, <1>3, <1>4 DEF Revision
<1>6. id \in Pointer
  BY DEF Pointer
<1>7. /\ r \in RunRecord /\ r.pc = "pointers" /\ r.rev = id /\ r.repo = q /\ r.doomed = run[p].doomed
  BY <1>6, RunTypes DEF RunRecord, RunPcs, q
<1>8. StageOK(r)
  BY <1>1, <1>7, RunTypes DEF StageOK, Holding, q
<1> HIDE DEF r, row
<1> QED
  BY <1>1, <1>3, <1>5, <1>7, <1>8, Insertion

\* Revisions that change hands, are rejected or deleted, under the version they had.
RevStep ==
    /\ revs' \in [RevIds -> Revision \cup {Unused, Deleted}]
    /\ \A i \in RevIds :
        /\ revs'[i].status = "unused" <=> revs[i].status = "unused"
        /\ revs'[i].status \notin {"unused", "deleted"} =>
             revs[i].status # "deleted" /\ revs'[i].version = revs[i].version
        /\ revs[i].status \in {"rejected", "deleted"} => revs'[i].status \in {"rejected", "deleted"}

\* A step that only rejects, moves or deletes revisions makes no new one.
LEMMA RevKeeps ==
    ASSUME HistoryInv, RevStep
    PROVE  /\ Unborn' = Unborn /\ Counted' /\ \A i : Condemned(i) => Condemned(i)'
           /\ \A i : Exists(i)' => Exists(i)
<1>1. Unborn' = Unborn
  BY DEF RevStep, Unborn
<1>2. \A i : Exists(i)' => Exists(i) /\ revs'[i].version = revs[i].version
  BY DEF RevStep, Exists
<1>3. Counted'
  BY <1>1, <1>2 DEF Counted, HistoryInv
<1> QED
  BY <1>1, <1>2, <1>3 DEF RevStep, Condemned

\* Pointers that stay where they are still lead to revisions that were written.
LEMMA SameUsed ==
    ASSUME HistoryInv, Unborn' = Unborn, UNCHANGED <<repos, mrg>>,
           \A q \in Runs : run'[q].rev \in {NoRev, run[q].rev}
    PROVE  UsedPointers'
<1>1. \A id \in Unborn : id # NoRev
  BY Sizes DEF Unborn
<1> QED
  BY <1>1 DEF HistoryInv, UsedPointers

\* Deleting a rejected revision leaves the others.
LEMMA DeletedRow ==
    ASSUME HistoryInv, NEW id \in RevIds, Condemned(id), revs' = [revs EXCEPT ![id] = Deleted]
    PROVE  RevStep /\ ~Exists(id)' /\ \A i \in RevIds \ {id} : revs'[i] = revs[i]
<1>1. revs'[id] = Deleted /\ \A i \in RevIds \ {id} : revs'[i] = revs[i]
  BY Types
<1>2. Deleted.status = "deleted"
  BY DEF Deleted
<1>3. revs' \in [RevIds -> Revision \cup {Unused, Deleted}]
  BY Types
<1> QED
  BY <1>1, <1>2, <1>3 DEF RevStep, Exists, Condemned

\* Deleting a rejected revision keeps the invariant.
LEMMA PruneRevKeeps ==
    ASSUME HistoryInv, NEW p \in Runs, PruneRev(p)
    PROVE  HistoryInv'
<1>1. PICK d \in RevIds : run[p].pc = "pruneRev" /\ d = run[p].rev /\ Condemned(d)
  BY DEF PruneRev, At, HistoryInv, Doomed, Pruning, Condemned
<1>2. UNCHANGED <<repos, unmatched, ills, files, mrg, stops>> /\ cut' = cut /\ known' = known /\ coming' = coming
  BY DEF PruneRev
<1>3. revs' = [revs EXCEPT ![d] = Deleted] /\ Goto(p, "prune")
  BY <1>1 DEF PruneRev
<1>4. RevStep /\ ~Exists(d)' /\ \A i \in RevIds \ {d} : revs'[i] = revs[i]
  BY <1>1, <1>3, DeletedRow
<1>5. Unborn' = Unborn /\ Counted' /\ (\A i : Condemned(i) => Condemned(i)') /\ \A i : Exists(i)' => Exists(i)
  BY <1>4, RevKeeps
<1>6. StageOK([run[p] EXCEPT !.pc = "prune"])
  BY RunTypes DEF StageOK, Holding, RunRecord
<1>7. RunStep(p)
  BY <1>3, <1>6, GotoStep DEF RunPcs, Pruning
<1>8. run'[p].rev = d /\ run'[p].pc = "prune"
  BY <1>1, <1>3, RunTypes, Types DEF Goto, RunRecord
<1>9. TypeOK'
  <2>1. cut' \in BOOLEAN
    BY Zenon, <1>2, CutType
  <2> QED
    BY <1>2, <1>4, <1>7, <2>1, Types, Zenon
    DEF RevStep, RunStep, HistoryInv, TypeOK, RepoRecord, RunRecord, RunPcs, MergeRecord
<1>10. UsedPointers'
  BY <1>1, <1>2, <1>5, <1>7, <1>8, SameUsed DEF RunStep
<1>11. Doomed'
  BY <1>5, <1>7 DEF RunStep, HistoryInv, Doomed
<1>12. RunOwn'
  <2> SUFFICES ASSUME NEW q \in Runs, NEW i \in RevIds, run[q].pc \in {"point", "pointers"},
                      i = run[q].rev, Exists(i)', repos[run[q].repo].there
               PROVE  revs'[i].repo = run[q].repo
    BY <1>2, <1>7, <1>8 DEF RunOwn, RunStep, Exists
  <2>1. i # d /\ Exists(i)
    BY <1>4, <1>5
  <2> QED
    BY <1>4, <2>1 DEF HistoryInv, RunOwn
<1>13. \A q \in Runs : StageOK(run'[q])
  BY <1>7 DEF RunStep, HistoryInv
<1>14. Expected' /\ \A q \in Runs : StageOK(run[q])'
  BY <1>2, <1>13 DEF HistoryInv, StageOK, Expected
<1> QED
  BY <1>5, <1>9, <1>10, <1>11, <1>12, <1>14 DEF HistoryInv

\* A rejection changes the status of one pending revision.
LEMMA RejectStep ==
    ASSUME HistoryInv, NEW id \in RevIds, Reject(id)
    PROVE  /\ RevStep /\ \A i \in RevIds \ {id} : revs'[i] = revs[i]
           /\ Exists(id) /\ Exists(id)' /\ revs'[id].repo = revs[id].repo
           /\ revs'[id].version = revs[id].version /\ revs'[id].post = revs[id].post
           /\ revs'[id].ill = revs[id].ill
<1>1. Exists(id) /\ revs[id].status = "pending_review" /\ revs' = [revs EXCEPT ![id].status = "rejected"]
  BY DEF Reject
<1>2. revs[id] \in Revision
  BY <1>1, RowTypes
<1> DEFINE row == [revs[id] EXCEPT !.status = "rejected"]
<1>3. /\ row \in Revision /\ row.status = "rejected" /\ row.repo = revs[id].repo
      /\ row.version = revs[id].version /\ row.post = revs[id].post /\ row.ill = revs[id].ill
  BY <1>2 DEF Revision
<1>4. revs' = [revs EXCEPT ![id] = row]
  BY <1>1
<1> HIDE DEF row
<1>5. revs'[id] = row /\ \A i \in RevIds \ {id} : revs'[i] = revs[i]
  BY <1>4, Types
<1>6. revs' \in [RevIds -> Revision \cup {Unused, Deleted}]
  BY <1>3, <1>4, Types
<1> QED
  BY <1>1, <1>3, <1>5, <1>6 DEF RevStep, Exists

\* A rejection keeps the invariant.
LEMMA RejectKeeps ==
    ASSUME HistoryInv, NEW id \in RevIds, Reject(id)
    PROVE  HistoryInv'
<1>1. UNCHANGED <<repos, unmatched, ills, files, run, mrg, stops>> /\ cut' = cut /\ known' = known /\ coming' = coming
  BY DEF Reject
<1>2. /\ RevStep /\ \A i \in RevIds \ {id} : revs'[i] = revs[i]
      /\ revs'[id].repo = revs[id].repo
  BY RejectStep
<1>3. Unborn' = Unborn /\ Counted' /\ (\A i : Condemned(i) => Condemned(i)') /\ \A i : Exists(i)' => Exists(i)
  BY <1>2, RevKeeps
<1>4. TypeOK'
  <2>1. cut' \in BOOLEAN
    BY Zenon, <1>1, CutType
  <2> QED
    BY <1>1, <1>2, <2>1, Types, Zenon
    DEF RevStep, HistoryInv, TypeOK, RepoRecord, RunRecord, RunPcs, MergeRecord
<1>5. UsedPointers'
  BY <1>1, <1>3, SameUsed
<1>6. Doomed'
  BY <1>1, <1>3 DEF HistoryInv, Doomed
<1>7. RunOwn'
  <2> SUFFICES ASSUME NEW q \in Runs, NEW i \in RevIds, run[q].pc \in {"point", "pointers"},
                      i = run[q].rev, Exists(i)', repos[run[q].repo].there
               PROVE  revs'[i].repo = run[q].repo
    BY <1>1 DEF RunOwn, Exists
  <2>1. Exists(i) /\ revs[i].repo = run[q].repo
    BY <1>3 DEF HistoryInv, RunOwn
  <2> QED
    BY <1>2, <2>1
<1> QED
  BY <1>1, <1>3, <1>4, <1>5, <1>6, <1>7 DEF HistoryInv, StageOK, Holding, Expected

-----------------------------------------------------------------------------
(* Steps of merge-history *)
\* A step that changes what merges know, and files.
LEMMA MergeMove ==
    ASSUME HistoryInv, NEW m \in Merges, NEW c \in MergeRecord, mrg' = [mrg EXCEPT ![m] = c],
           UNCHANGED <<repos, revs, unmatched, ills, run>>, cut' = cut, known' = known, coming' = coming, stops' \in 0..MaxStops,
           files' \subseteq Images, \A id \in Unborn : id # c.current /\ id # c.published,
           c.pc # "off" => c.old \notin coming
    PROVE  HistoryInv'
<1>1. mrg' \in [Merges -> MergeRecord] /\ mrg'[m] = c /\ \A n \in Merges \ {m} : mrg'[n] = mrg[n]
  BY Types
<1>2. Unborn' = Unborn /\ (\A i : Condemned(i)' <=> Condemned(i)) /\ \A i : Exists(i)' <=> Exists(i)
  BY DEF Unborn, Condemned, Exists
<1>3. TypeOK'
  <2>1. cut' \in BOOLEAN
    BY Zenon, CutType
  <2> QED
    BY <1>1, <2>1, Types, Zenon DEF HistoryInv, TypeOK, RepoRecord, RunRecord, RunPcs, MergeRecord
<1>4. Counted' /\ Doomed' /\ RunOwn'
  BY <1>2 DEF HistoryInv, Counted, Doomed, RunOwn
<1>5. UsedPointers'
  BY <1>1, <1>2 DEF HistoryInv, UsedPointers
<1> QED
  BY <1>1, <1>3, <1>4, <1>5 DEF HistoryInv, StageOK, Holding, Expected

\* A merge that is not under way holds nothing.
LEMMA MergingTypes ==
    /\ Merging \in MergeRecord /\ Merging.pc = "off" /\ Merging.current = NoRev
    /\ Merging.published = NoRev /\ Merging.files = {}
<1>1. RepoList[1] \in Repos /\ NoRev \in Pointer
  BY Sizes DEF Pointer
<1> QED
  BY <1>1 DEF Merging, MergeRecord

\* A merge that ends without a commit leaves the tables as they are.
LEMMA MergeEnds ==
    ASSUME HistoryInv, NEW m \in Merges, mrg' = [mrg EXCEPT ![m] = Merging],
           UNCHANGED <<repos, revs, unmatched, ills, run>>, cut' = cut, known' = known, coming' = coming, stops' \in 0..MaxStops,
           files' \subseteq Images
    PROVE  HistoryInv'
<1>1. \A id \in Unborn : id # NoRev
  BY Sizes DEF Unborn
<1> QED
  BY <1>1, MergeMove, MergingTypes

\* The types of a merge.
LEMMA MergeTypes ==
    ASSUME HistoryInv, NEW m \in Merges
    PROVE  /\ mrg[m] \in MergeRecord /\ mrg[m].old \in Repos /\ mrg[m].new \in Repos
           /\ mrg[m].current \in Pointer /\ mrg[m].published \in Pointer /\ mrg[m].files \subseteq Images
<1>1. mrg[m] \in MergeRecord
  BY Types
<1> QED
  BY <1>1 DEF MergeRecord

\* Looking up both repositories changes no table.
LEMMA MergeLookupKeeps ==
    ASSUME HistoryInv, NEW m \in Merges, NEW old \in Repos, NEW new \in Repos, MergeLookup(m, old, new)
    PROVE  HistoryInv'
<1> DEFINE cur == IF repos[new].current = NoRev THEN repos[old].current ELSE NoRev
           pub == IF repos[new].published = NoRev THEN repos[old].published ELSE NoRev
           c == [pc |-> "check", old |-> old, new |-> new, files |-> {}, current |-> cur, published |-> pub]
<1>1. repos[old] \in RepoRecord
  BY Types
<1>2. cur \in Pointer /\ pub \in Pointer
  BY <1>1 DEF RepoRecord, Pointer
<1>3. \A id \in Unborn : id # cur /\ id # pub
  BY Sizes DEF HistoryInv, UsedPointers, Unborn
<1>4. mrg' = [mrg EXCEPT ![m] = c]
  BY DEF MergeLookup
<1> HIDE DEF cur, pub
<1>5. c \in MergeRecord /\ c.current = cur /\ c.published = pub /\ c.old = old
  BY <1>2 DEF MergeRecord
<1>7. old \notin coming
  BY DEF MergeLookup, HistoryInv, Expected
<1>6. UNCHANGED <<repos, revs, unmatched, ills, files, run, stops>> /\ cut' = cut /\ known' = known /\ coming' = coming
  BY DEF MergeLookup, tables
<1> HIDE DEF c
<1> QED
  BY <1>3, <1>4, <1>5, <1>6, <1>7, Types, MergeMove

\* The checks of a merge change no table.
LEMMA MergeCheckKeeps ==
    ASSUME HistoryInv, NEW m \in Merges, NEW cleanup \in BOOLEAN, MergeCheck(m, cleanup)
    PROVE  HistoryInv'
<1> DEFINE listed == {i \in Images : cleanup /\ i[1] = mrg[m].old /\ <<i, "data">> \in ills}
           c == [mrg[m] EXCEPT !.pc = "tx", !.files = listed]
<1>1. c \in MergeRecord /\ c.current = mrg[m].current /\ c.published = mrg[m].published /\ c.old = mrg[m].old
  <2>1. listed \subseteq Images
    OBVIOUS
  <2> HIDE DEF listed
  <2> QED
    BY <2>1, MergeTypes DEF MergeRecord
<1>2. UNCHANGED <<repos, revs, unmatched, ills, files, run, stops>> /\ cut' = cut /\ known' = known /\ coming' = coming
  BY DEF MergeCheck, tables
<1>3. mrg' = [mrg EXCEPT ![m] = Merging] \/ mrg' = [mrg EXCEPT ![m] = c]
  <2>1. CASE RowsOf(mrg[m].new) # {}
    BY <2>1 DEF MergeCheck
  <2>2. CASE RowsOf(mrg[m].new) = {}
    BY <2>2 DEF MergeCheck
  <2> QED
    BY <2>1, <2>2
<1>4. \A id \in Unborn : id # c.current /\ id # c.published
  BY <1>1 DEF HistoryInv, UsedPointers
<1>5. c.old \notin coming
  BY <1>1 DEF HistoryInv, Expected, MergeCheck, MergeAt
<1> HIDE DEF c
<1> QED
  BY <1>1, <1>2, <1>3, <1>4, <1>5, Types, MergeMove, MergeEnds

\* Re-parenting changes the repository of the revisions of the old one, and nothing else.
LEMMA ReparentedRows ==
    ASSUME HistoryInv, NEW old \in Repos, NEW new \in Repos, revs' = Reparented(old, new)
    PROVE  /\ RevStep
           /\ \A i \in RevIds : Exists(i)' <=> Exists(i)
           /\ \A i \in RevIds : Exists(i) =>
                /\ revs'[i].repo = IF revs[i].repo = old THEN new ELSE revs[i].repo
                /\ revs'[i].version = revs[i].version /\ revs'[i].post = revs[i].post
                /\ revs'[i].status = revs[i].status
<1>1. \A i \in RevIds : revs'[i] = IF i \in RowsOf(old) THEN [revs[i] EXCEPT !.repo = new] ELSE revs[i]
  BY DEF Reparented
<1>2. \A i \in RowsOf(old) : i \in RevIds /\ Exists(i) /\ revs[i].repo = old
  BY DEF RowsOf
<1>3. ASSUME NEW i \in RevIds
      PROVE  /\ revs'[i] \in Revision \cup {Unused, Deleted} /\ revs'[i].status = revs[i].status
             /\ Exists(i) => /\ revs'[i].repo = IF revs[i].repo = old THEN new ELSE revs[i].repo
                             /\ revs'[i].version = revs[i].version /\ revs'[i].post = revs[i].post
  <2>1. CASE i \in RowsOf(old)
    <3>1. revs[i] \in Revision /\ revs[i].repo = old
      BY <1>2, <2>1, RowTypes
    <3>2. revs'[i] = [revs[i] EXCEPT !.repo = new]
      BY <1>1, <2>1
    <3> QED
      BY <3>1, <3>2 DEF Revision
  <2>2. CASE i \notin RowsOf(old)
    BY <1>1, <2>2, Types DEF RowsOf
  <2> QED
    BY <2>1, <2>2
<1>4. revs' \in [RevIds -> Revision \cup {Unused, Deleted}]
  <2>1. revs' = [i \in RevIds |-> revs'[i]]
    BY DEF Reparented
  <2> QED
    BY <1>3, <2>1
<1>5. \A i \in RevIds : Exists(i)' <=> Exists(i)
  BY <1>3 DEF Exists
<1>6. \A i \in RevIds : Exists(i) =>
                /\ revs'[i].repo = IF revs[i].repo = old THEN new ELSE revs[i].repo
                /\ revs'[i].version = revs[i].version /\ revs'[i].post = revs[i].post
                /\ revs'[i].status = revs[i].status
  BY <1>3
<1>7. RevStep
  BY <1>3, <1>4 DEF RevStep, Exists
<1> QED
  BY <1>5, <1>6, <1>7

\* What the transaction of a merge does to the repositories.
LEMMA CommitRepos ==
    ASSUME HistoryInv, NEW m \in Merges, MergeCommit(m)
    PROVE  /\ repos' \in [Repos -> RepoRecord] /\ ~repos'[mrg[m].old].there
           /\ repos'[mrg[m].old].current = NoRev /\ repos'[mrg[m].old].published = NoRev
           /\ \A r \in Repos \ {mrg[m].old} :
                /\ repos'[r].there = repos[r].there
                /\ repos'[r].current = repos[r].current
                   \/ (r = mrg[m].new /\ repos'[r].current = mrg[m].current)
                /\ repos'[r].published = repos[r].published
                   \/ (r = mrg[m].new /\ repos'[r].published = mrg[m].published)
<1> DEFINE old == mrg[m].old  new == mrg[m].new
           cur == IF repos[new].there THEN Keep(mrg[m].current, repos[new].current) ELSE repos[new].current
           pub == IF repos[new].there THEN Keep(mrg[m].published, repos[new].published) ELSE repos[new].published
           gone == Gone
           moved == [repos[new] EXCEPT !.current = cur, !.published = pub]
           R == [repos EXCEPT ![new].current = IF repos[new].there THEN Keep(mrg[m].current, @) ELSE @,
                              ![new].published = IF repos[new].there THEN Keep(mrg[m].published, @) ELSE @,
                              ![old] = gone]
<1>1. repos' = R
  BY DEF MergeCommit
<1>2. old \in Repos /\ new \in Repos /\ repos[new] \in RepoRecord /\ cur \in Pointer /\ pub \in Pointer
  BY MergeTypes, Types DEF RepoRecord, Keep
<1>3. gone \in RepoRecord /\ ~gone.there /\ gone.current = NoRev /\ gone.published = NoRev
  BY DEF RepoRecord, Pointer, Gone, New
<1>4. /\ cur = repos[new].current \/ cur = mrg[m].current
      /\ pub = repos[new].published \/ pub = mrg[m].published
  BY DEF Keep
<1>5. /\ moved \in RepoRecord /\ moved.there = repos[new].there
      /\ moved.current = cur /\ moved.published = pub
  <2> HIDE DEF cur, pub, new
  <2> QED
    BY <1>2 DEF RepoRecord
<1>6. repos \in [Repos -> RepoRecord]
  BY Types
<1>7. R = [repos EXCEPT ![new] = moved, ![old] = gone]
  <2>1. \A r \in Repos : R[r] = IF r = old THEN gone ELSE IF r = new THEN moved ELSE repos[r]
    <3> HIDE DEF gone
    <3> QED
      BY <1>2, <1>6 DEF RepoRecord
  <2> HIDE DEF moved, gone
  <2> QED
    BY <2>1, <1>6
<1> HIDE DEF R, moved, cur, pub
<1>8. repos' \in [Repos -> RepoRecord]
  BY <1>1, <1>2, <1>3, <1>5, <1>6, <1>7
<1>9. repos'[old] = gone
  BY <1>1, <1>2, <1>6, <1>7
<1>10. \A r \in Repos \ {old} : repos'[r] = IF r = new THEN moved ELSE repos[r]
  BY <1>1, <1>2, <1>6, <1>7
<1> HIDE DEF old, new
<1>11. \A r \in Repos \ {old} :
                /\ repos'[r].there = repos[r].there
                /\ repos'[r].current = repos[r].current
                   \/ (r = new /\ repos'[r].current = mrg[m].current)
                /\ repos'[r].published = repos[r].published
                   \/ (r = new /\ repos'[r].published = mrg[m].published)
  <2> SUFFICES ASSUME NEW r \in Repos \ {old}
               PROVE  /\ repos'[r].there = repos[r].there
                      /\ repos'[r].current = repos[r].current
                         \/ (r = new /\ repos'[r].current = mrg[m].current)
                      /\ repos'[r].published = repos[r].published
                         \/ (r = new /\ repos'[r].published = mrg[m].published)
    OBVIOUS
  <2>1. CASE r = new
    <3>1. repos'[r] = moved
      BY <1>10, <2>1
    <3> QED
      BY <1>4, <1>5, <2>1, <3>1
  <2>2. CASE r # new
    BY <1>10, <2>2
  <2> QED
    BY <2>1, <2>2
<1> QED
  BY <1>3, <1>8, <1>9, <1>11 DEF old, new

\* The transaction of a merge keeps the invariant.
LEMMA MergeCommitKeeps ==
    ASSUME HistoryInv, NEW m \in Merges, MergeCommit(m)
    PROVE  HistoryInv'
<1> DEFINE c == [mrg[m] EXCEPT !.pc = "unlink"]
<1>1. PICK old \in Repos, new \in Repos : old = mrg[m].old /\ new = mrg[m].new
  BY MergeTypes
<1>2. revs' = Reparented(old, new) /\ UNCHANGED <<unmatched, files, run, stops>> /\ cut' = cut /\ known' = known /\ coming' = coming
  BY <1>1 DEF MergeCommit
<1>3. /\ RevStep /\ \A i \in RevIds : Exists(i)' <=> Exists(i)
      /\ \A i \in RevIds : Exists(i) => revs'[i].repo = IF revs[i].repo = old THEN new ELSE revs[i].repo
  BY <1>2, ReparentedRows
<1>4. Unborn' = Unborn /\ Counted' /\ \A i : Condemned(i) => Condemned(i)'
  BY <1>3, RevKeeps
<1>5. c \in MergeRecord /\ c.current = mrg[m].current /\ c.published = mrg[m].published /\ c.old = mrg[m].old
  BY MergeTypes DEF MergeRecord
<1>6. mrg' = [mrg EXCEPT ![m] = c]
  BY DEF MergeCommit
<1> HIDE DEF c
<1>7. mrg' \in [Merges -> MergeRecord] /\ mrg'[m] = c /\ \A n \in Merges \ {m} : mrg'[n] = mrg[n]
  BY <1>5, <1>6, Types
<1>8. /\ repos' \in [Repos -> RepoRecord] /\ ~repos'[old].there
      /\ repos'[old].current = NoRev /\ repos'[old].published = NoRev
      /\ \A r \in Repos \ {old} :
                /\ repos'[r].there = repos[r].there
                /\ repos'[r].current \in {repos[r].current, mrg[m].current}
                /\ repos'[r].published \in {repos[r].published, mrg[m].published}
  BY <1>1, CommitRepos
<1>9. TypeOK'
  <2>1. cut' \in BOOLEAN
    BY Zenon, <1>2, CutType
  <2>2. ills' \subseteq Images \X Kinds
    BY Types DEF MergeCommit
  <2> QED
    BY <1>2, <1>3, <1>7, <1>8, <2>1, <2>2, Types, Zenon
    DEF RevStep, HistoryInv, TypeOK, RepoRecord, RunRecord, RunPcs, MergeRecord
<1>10. UsedPointers'
  <2>1. \A id \in Unborn : id # NoRev
    BY Sizes DEF Unborn
  <2> QED
    BY <1>2, <1>4, <1>5, <1>7, <1>8, <2>1 DEF HistoryInv, UsedPointers
<1>11. Doomed'
  BY <1>2, <1>4 DEF HistoryInv, Doomed
<1>12. RunOwn'
  <2> SUFFICES ASSUME NEW q \in Runs, NEW i \in RevIds, run[q].pc \in {"point", "pointers"},
                      i = run[q].rev, Exists(i)', repos'[run[q].repo].there
               PROVE  revs'[i].repo = run[q].repo
    BY <1>2 DEF RunOwn, Exists
  <2>1. run[q].repo \in Repos \ {old} /\ repos[run[q].repo].there /\ Exists(i)
    BY <1>3, <1>8, RunTypes
  <2> QED
    BY <1>3, <2>1 DEF HistoryInv, RunOwn
<1>13. Expected'
  <2>1. old \notin coming
    BY <1>1 DEF HistoryInv, Expected, MergeCommit, MergeAt
  <2> QED
    BY <1>1, <1>2, <1>5, <1>7, <1>8, <2>1, Types DEF HistoryInv, Expected
<1> QED
  BY <1>2, <1>4, <1>9, <1>10, <1>11, <1>12, <1>13 DEF HistoryInv, StageOK, Holding

\* A rollback, a stop and unlinked files keep the invariant.
LEMMA MergeRestKeeps ==
    ASSUME HistoryInv, NEW m \in Merges,
           MergeRollback(m) \/ StopMerge(m) \/ \E failed \in SUBSET mrg[m].files : Unlink(m, failed)
    PROVE  HistoryInv'
<1>1. /\ mrg' = [mrg EXCEPT ![m] = Merging] /\ UNCHANGED <<repos, revs, unmatched, ills, run>>
      /\ cut' = cut /\ known' = known /\ coming' = coming /\ files' \subseteq Images
  BY Types DEF MergeRollback, StopMerge, Unlink, tables
<1>2. stops' \in 0..MaxStops
  BY Types, Sizes DEF MergeRollback, StopMerge, Unlink
<1> QED
  BY <1>1, <1>2, MergeEnds

-----------------------------------------------------------------------------
\* Every step of a run is plain, or writes, or deletes a revision.
LEMMA RunSteps ==
    ASSUME HistoryInv, NEW p \in Runs, Import(p) \/ ProcessRepo(p) \/ Prune(p) \/ StopRun(p)
    PROVE  \/ PlainStep(p) \/ PruneRev(p)
           \/ \E id \in RevIds : RecordMatched(p, id) \/ InsertDraft(p, id)
<1>1. CASE Import(p)
  BY <1>1, StartRunKeeps, CountAllKeeps, ListPostsKeeps, RecordUnmatchedKeeps, PointImportedKeeps,
     ImportRefusedKeeps, ImportDoneKeeps DEF Import
<1>2. CASE ProcessRepo(p)
  BY <1>2, BuildQueueKeeps, ReadRepoKeeps, GenerateKeeps, IllustrateKeeps, WriteFileKeeps,
     CreateIllustrationKeeps, DedupKeeps, InsertRefusedKeeps, RevertKeeps, PointDraftKeeps,
     AwaitReviewKeeps DEF ProcessRepo
<1>3. CASE Prune(p)
  BY <1>3, QueueDoneKeeps, ListForRetentionKeeps, PruneNextKeeps, PruneRowKeeps, PruneFileKeeps,
     EndRunKeeps DEF Prune
<1>4. CASE StopRun(p)
  BY <1>4, StopRunKeeps
<1> QED
  BY <1>1, <1>2, <1>3, <1>4

\* The invariant holds at the start.
LEMMA HistoryInit == Init => HistoryInv
<1> SUFFICES ASSUME Init PROVE HistoryInv
  OBVIOUS
<1>1. /\ repos = [r \in Repos |-> IF r \in coming THEN Gone ELSE New] /\ coming \subseteq Repos
      /\ known = [x \in Posts |-> {}]
      /\ revs = [id \in RevIds |-> Unused] /\ unmatched = {} /\ ills = {} /\ files = {}
      /\ run = [p \in Runs |-> Off] /\ mrg = [m \in Merges |-> Merging] /\ stops = 0
  BY DEF Init
<1>2. cut \in BOOLEAN
  BY Zenon DEF Init
<1>3. repos \in [Repos -> RepoRecord]
  <2>1. New \in RepoRecord /\ Gone \in RepoRecord
    BY DEF RepoRecord, New, Gone, Pointer
  <2> QED
    BY <1>1, <2>1
<1>4. stops \in 0..MaxStops
  BY <1>1, Sizes
<1>5. run \in [Runs -> RunRecord] /\ mrg \in [Merges -> MergeRecord]
  BY <1>1, OffTypes, MergingTypes
<1>6. revs \in [RevIds -> Revision \cup {Unused, Deleted}] /\ \A id \in RevIds : ~Exists(id)
  BY <1>1 DEF Exists, Unused
<1>7. TypeOK
  BY <1>1, <1>2, <1>3, <1>4, <1>5, <1>6, Zenon DEF TypeOK, RepoRecord, RunRecord, RunPcs, MergeRecord
<1>8. Counted
  BY <1>6 DEF Counted
<1>9. UsedPointers
  BY <1>1, OffTypes, MergingTypes, Sizes DEF UsedPointers, Unborn, New, Gone
<1>10. Doomed /\ RunOwn /\ Expected /\ \A p \in Runs : StageOK(run[p])
  BY <1>1, OffTypes, MergingTypes DEF Doomed, RunOwn, StageOK, Holding, Pruning, Holding, Expected, Gone, New
<1> QED
  BY <1>7, <1>8, <1>9, <1>10 DEF HistoryInv

\* A stuttering step keeps the invariant.
LEMMA HistoryStutter == HistoryInv /\ UNCHANGED vars => HistoryInv'
<1> SUFFICES ASSUME HistoryInv, UNCHANGED vars PROVE HistoryInv'
  OBVIOUS
<1>1. UNCHANGED <<repos, revs, unmatched, ills, files, run, mrg, stops>> /\ cut' = cut /\ known' = known /\ coming' = coming
  BY DEF vars, tables
<1>2. TypeOK'
  <2>1. cut' \in BOOLEAN
    BY Zenon, <1>1, CutType
  <2> QED
    BY <1>1, <2>1, Types, Zenon DEF HistoryInv, TypeOK, RepoRecord, RunRecord, RunPcs, MergeRecord
<1> QED
  BY <1>1, <1>2 DEF HistoryInv, Counted, UsedPointers, Doomed, RunOwn, StageOK, Holding, Expected, Exists, Unborn, Condemned

\* A repository that comes is pointed to by nobody, and points to nothing.
LEMMA AddRepoKeeps ==
    ASSUME HistoryInv, NEW r \in Repos, AddRepo(r)
    PROVE  HistoryInv'
<1>1. /\ UNCHANGED <<revs, unmatched, ills, files, run, mrg, stops>> /\ cut' = cut /\ known' = known
      /\ coming' = coming \ {r} /\ r \in coming
  BY DEF AddRepo
<1>2. /\ New \in RepoRecord /\ New.current = NoRev /\ New.published = NoRev
  BY DEF New, RepoRecord, Pointer
<1>3. repos' \in [Repos -> RepoRecord] /\ repos'[r] = New /\ \A q \in Repos \ {r} : repos'[q] = repos[q]
  BY <1>2, Types DEF AddRepo
<1>4. TypeOK'
  <2>1. cut' \in BOOLEAN
    BY Zenon, <1>1, CutType
  <2>2. coming' \subseteq Repos
    BY <1>1, Types
  <2> QED
    BY <1>1, <1>3, <2>1, <2>2, Types, Zenon DEF HistoryInv, TypeOK, RepoRecord, RunRecord, RunPcs, MergeRecord
<1>5. Counted' /\ Doomed'
  BY <1>1 DEF HistoryInv, Counted, Doomed, Exists, Unborn, Condemned
<1>6. UsedPointers'
  <2>1. Unborn' = Unborn /\ \A id \in Unborn : id # NoRev
    BY <1>1, Sizes DEF Unborn
  <2> QED
    BY <1>1, <1>2, <1>3, <2>1 DEF HistoryInv, UsedPointers
<1>7. RunOwn'
  <2> SUFFICES ASSUME NEW p \in Runs, run[p].pc \in {"point", "pointers"}, Exists(run[p].rev),
                      repos'[run[p].repo].there
               PROVE  revs[run[p].rev].repo = run[p].repo
    BY <1>1 DEF RunOwn, Exists
  <2>1. run[p].repo \in Repos \ {r}
    BY <1>1, RunTypes DEF StageOK, Holding
  <2> QED
    BY <1>3, <2>1 DEF HistoryInv, RunOwn
<1>8. Expected' /\ \A p \in Runs : StageOK(run[p])'
  <2>1. \A q \in coming' : q \in Repos \ {r}
    BY <1>1, Types
  <2> QED
    BY <1>1, <1>3, <2>1 DEF HistoryInv, Expected, StageOK, Holding
<1> QED
  BY <1>4, <1>5, <1>6, <1>7, <1>8 DEF HistoryInv

\* Every step keeps the invariant.
LEMMA HistoryStep == HistoryInv /\ [Next]_vars => HistoryInv'
<1> SUFFICES ASSUME HistoryInv, [Next]_vars PROVE HistoryInv'
  OBVIOUS
<1>1. ASSUME NEW p \in Runs, Import(p) \/ ProcessRepo(p) \/ Prune(p) \/ StopRun(p) PROVE HistoryInv'
  BY <1>1, RunSteps, PlainKeeps, PruneRevKeeps, RecordMatchedKeeps, InsertDraftKeeps
<1>2. ASSUME NEW m \in Merges, Merge(m) \/ StopMerge(m) PROVE HistoryInv'
  BY <1>2, MergeLookupKeeps, MergeCheckKeeps, MergeCommitKeeps, MergeRestKeeps DEF Merge
<1>3. ASSUME NEW id \in RevIds, Reject(id) PROVE HistoryInv'
  BY <1>3, RejectKeeps
<1>4. ASSUME NEW r \in Repos, AddRepo(r) PROVE HistoryInv'
  BY <1>4, AddRepoKeeps
<1> QED
  BY <1>1, <1>2, <1>3, <1>4, HistoryStutter DEF Next

\* The inductive invariant: types, versions within the number of revisions there
\* ever were, no pointer to a revision not written yet, the pruner's list holds
\* rejected revisions only, and a run points a repository to its own draft.
THEOREM HistoryInvariant == Spec => []HistoryInv
<1> QED
  BY HistoryInit, HistoryStep, PTL DEF Spec

\* Versions, pointers and the positions of the import's loop stay in range,
\* whatever runs, merges and stops come between.
THEOREM HistoryTypeCorrect == Spec => []TypeOK
<1>1. HistoryInv => TypeOK
  BY DEF HistoryInv
<1> QED
  BY HistoryInvariant, <1>1, PTL

\* No step removes a revision that nobody rejected.
LEMMA UndecidedStep ==
    ASSUME HistoryInv, [Next]_vars, NEW id \in RevIds, Exists(id), revs[id].status # "rejected"
    PROVE  Exists(id)'
<1>1. CASE revs' = revs
  BY <1>1 DEF Exists
<1>2. ASSUME NEW p \in Runs, NEW i \in RevIds, RecordMatched(p, i) \/ InsertDraft(p, i) PROVE Exists(id)'
  <2>1. i # id
    BY <1>2 DEF RecordMatched, InsertDraft, Fresh, First, Unborn, Exists
  <2>2. revs'[id] = revs[id]
    BY <1>2, <2>1, Types DEF RecordMatched, InsertDraft
  <2> QED
    BY <2>2 DEF Exists
<1>3. ASSUME NEW p \in Runs, PruneRev(p) PROVE Exists(id)'
  <2>1. Condemned(run[p].rev) /\ ~Condemned(id)
    BY <1>3 DEF PruneRev, At, HistoryInv, Doomed, Pruning, Condemned, Exists
  <2>2. revs'[id] = revs[id]
    BY <1>3, <2>1, Types DEF PruneRev
  <2> QED
    BY <2>2 DEF Exists
<1>4. ASSUME NEW p \in Runs, Import(p) \/ ProcessRepo(p) \/ Prune(p) \/ StopRun(p) PROVE Exists(id)'
  BY <1>1, <1>2, <1>3, <1>4, RunSteps DEF PlainStep
<1>5. ASSUME NEW m \in Merges, Merge(m) \/ StopMerge(m) PROVE Exists(id)'
  <2>1. CASE MergeCommit(m)
    BY <2>1, MergeTypes, ReparentedRows DEF MergeCommit
  <2>2. CASE ~MergeCommit(m)
    BY <1>1, <1>5, <2>2 DEF Merge, MergeLookup, MergeCheck, MergeRollback, Unlink, StopMerge, tables
  <2> QED
    BY <2>1, <2>2
<1>6. ASSUME NEW i \in RevIds, Reject(i) PROVE Exists(id)'
  <2>1. (\A j \in RevIds \ {i} : revs'[j] = revs[j]) /\ Exists(i)'
    BY <1>6, RejectStep
  <2> QED
    BY <2>1 DEF Exists
<1>7. CASE UNCHANGED vars
  BY <1>1, <1>7 DEF vars, tables
<1>8. ASSUME NEW r \in Repos, AddRepo(r) PROVE Exists(id)'
  BY <1>1, <1>8 DEF AddRepo
<1> QED
  BY <1>4, <1>5, <1>6, <1>7, <1>8 DEF Next

\* On SQLite a revision nobody rejected is never removed: a merge moves it, a prune
\* that works from an older list has only rejected ones on it (pruner.go,
\* merge_history.go).
THEOREM UndecidedAreKept == Spec => UndecidedSurvives
<1>1. HistoryInv /\ [Next]_vars
      => [\A id \in RevIds : Exists(id) /\ revs[id].status # "rejected" => Exists(id)']_vars
  BY UndecidedStep
<1> QED
  BY HistoryInvariant, <1>1, PTL DEF Spec, UndecidedSurvives
-----------------------------------------------------------------------------
(***************************************************************************)
(* Histories stay whole.  A merge works from what it read before its       *)
(* transaction: two merges of the same old repository at the same time     *)
(* would both hand over its pointers, and the second would give its new    *)
(* repository the revisions the first moved elsewhere.                     *)
(***************************************************************************)
OldsDiffer ==
    \A m, n \in Merges :
        m # n /\ mrg[m].pc \in {"check", "tx"} /\ mrg[n].pc \in {"check", "tx"}
        => mrg[m].old # mrg[n].old

\* The three parts of OneHistory, apart from the words.
Housed == \A id \in RevIds : Exists(id) => repos[revs[id].repo].there
Distinct ==
    \A i, j \in RevIds :
        Exists(i) /\ Exists(j) /\ revs[i].repo = revs[j].repo /\ revs[i].version = revs[j].version => i = j
Own(r, id) == Exists(id) => revs[id].repo = r
OwnPointers == \A r \in Repos : repos[r].there => Own(r, repos[r].current) /\ Own(r, repos[r].published)

\* The pointers a merge read are the old repository's.
MergeOwn ==
    \A m \in Merges : mrg[m].pc \in {"check", "tx"} =>
        mrg[m].old # mrg[m].new /\ Own(mrg[m].old, mrg[m].current) /\ Own(mrg[m].old, mrg[m].published)

OwnInv == HistoryInv /\ Housed /\ Distinct /\ OwnPointers /\ MergeOwn

\* OneHistory in three parts.
LEMMA OneHistoryParts == OneHistory <=> Housed /\ Distinct /\ OwnPointers
<1>1. OwnPointers <=> \A r \in Repos, id \in RevIds :
        repos[r].there /\ id \in {repos[r].current, repos[r].published} /\ Exists(id) => revs[id].repo = r
  BY DEF OwnPointers, Own, Exists
<1> QED
  BY <1>1 DEF OneHistory, Housed, Distinct

\* A revision written anew: its repository is there, its version free.
LEMMA NewRow ==
    ASSUME HistoryInv, NEW p \in Runs, NEW id \in RevIds, RecordMatched(p, id) \/ InsertDraft(p, id)
    PROVE  /\ id \in Unborn /\ UNCHANGED <<repos, mrg>>
           /\ \A i \in RevIds \ {id} : revs'[i] = revs[i]
           /\ revs'[id].status \notin {"unused", "deleted"} /\ repos[revs'[id].repo].there
           /\ \A i \in RevIds : Exists(i) /\ revs[i].repo = revs'[id].repo => revs[i].version # revs'[id].version
<1>1. id \in Unborn
  BY DEF RecordMatched, InsertDraft, Fresh, First
<1>2. CASE RecordMatched(p, id)
  <2>1. PICK r \in Matched(p) :
        /\ Insertable(r, 1)
        /\ revs' = [revs EXCEPT ![id] =
             [status |-> "approved", repo |-> r, version |-> 1, body |-> NoPost,
              ill |-> "none", image |-> NoPost, post |-> PostList[run[p].at]]]
    BY <1>2 DEF RecordMatched
  <2>2. /\ \A i \in RevIds \ {id} : revs'[i] = revs[i]
        /\ revs'[id].status = "approved" /\ revs'[id].repo = r /\ revs'[id].version = 1
    BY <2>1, Types
  <2> QED
    BY <1>1, <1>2, <2>1, <2>2, ZenonT(60) DEF RecordMatched, Insertable, RowsOf
<1>3. CASE InsertDraft(p, id)
  <2> DEFINE r == run[p].repo
  <2>1. Insertable(r, NextVersion(r))
    BY <1>3 DEF InsertDraft, Accepted
  <2>2. revs' = [revs EXCEPT ![id] =
             [status |-> "pending_review", repo |-> r, version |-> NextVersion(r),
              body |-> run[p].body, ill |-> Kind(run[p].ill),
              image |-> IF run[p].ill = "none" THEN NoPost ELSE Image(p), post |-> NoPost]]
    BY <1>3 DEF InsertDraft
  <2>3. /\ \A i \in RevIds \ {id} : revs'[i] = revs[i]
        /\ revs'[id].status = "pending_review" /\ revs'[id].repo = r /\ revs'[id].version = NextVersion(r)
    BY <2>2, Types
  <2> HIDE DEF r
  <2> QED
    BY <1>1, <1>3, <2>1, <2>3 DEF InsertDraft, Insertable, RowsOf
<1> QED
  BY <1>2, <1>3

\* A deletion by the pruner: the other rows stay.
LEMMA PruneRevStep ==
    ASSUME HistoryInv, NEW p \in Runs, PruneRev(p)
    PROVE  /\ UNCHANGED <<repos, mrg>>
           /\ \A i \in RevIds : revs'[i] = revs[i] \/ revs'[i].status = "deleted"
<1>1. run[p].rev \in RevIds
  BY DEF PruneRev, At, HistoryInv, Doomed, Pruning, Condemned
<1>2. Deleted.status = "deleted"
  BY DEF Deleted
<1> QED
  BY <1>1, <1>2, Types DEF PruneRev

\* No step of a run spoils a history: an insert takes a version that is free.
LEMMA RunKeepsOwn ==
    ASSUME OwnInv, NEW p \in Runs, Import(p) \/ ProcessRepo(p) \/ Prune(p) \/ StopRun(p)
    PROVE  Housed' /\ Distinct' /\ OwnPointers' /\ MergeOwn'
<1>0. HistoryInv /\ Housed /\ Distinct /\ OwnPointers /\ MergeOwn
  BY DEF OwnInv
<1>1. CASE PlainStep(p)
  <2>1. revs' = revs /\ mrg' = mrg /\ (\A i : Exists(i)' <=> Exists(i)) /\ \A r, i : Own(r, i)' <=> Own(r, i)
    BY <1>1 DEF PlainStep, Exists, Own
  <2>2. \A r \in Repos : /\ repos'[r].there = repos[r].there
                         /\ repos'[r].current \in {repos[r].current} \cup Given(p, r)
                         /\ repos'[r].published \in {repos[r].published} \cup Given(p, r)
    BY <1>1 DEF PlainStep, RepoStep
  <2>3. Housed'
    <3>1. \A i \in RevIds : Exists(i) => revs[i].repo \in Repos
      BY <1>0, RowTypes
    <3> QED
      BY <1>0, <2>1, <2>2, <3>1 DEF Housed
  <2>4. Distinct' /\ MergeOwn'
    BY <1>0, <2>1 DEF Distinct, MergeOwn, Own
  <2>5. ASSUME NEW r \in Repos, repos[r].there
        PROVE  /\ Own(r, repos[r].current) /\ Own(r, repos[r].published)
               /\ \A i \in Given(p, r) : Own(r, i)
    <3>1. Own(r, repos[r].current) /\ Own(r, repos[r].published)
      BY <1>0, <2>5 DEF OwnPointers
    <3>2. \A i \in Given(p, r) : Own(r, i)
      BY <1>0 DEF Given, Own, HistoryInv, RunOwn
    <3> QED
      BY <3>1, <3>2
  <2>6. OwnPointers'
    <3> SUFFICES ASSUME NEW r \in Repos, NEW i, NEW j, repos'[r].there, i = repos'[r].current, j = repos'[r].published
                 PROVE  Own(r, i)' /\ Own(r, j)'
      BY DEF OwnPointers, Own, Exists
    <3>1. Own(r, i) /\ Own(r, j)
      BY <2>2, <2>5
    <3> QED
      BY <2>1, <3>1
  <2> QED
    BY <2>3, <2>4, <2>6
<1>2. CASE PruneRev(p)
  <2>1. /\ UNCHANGED <<repos, mrg>>
        /\ \A i \in RevIds : revs'[i] = revs[i] \/ revs'[i].status = "deleted"
    BY <1>0, <1>2, PruneRevStep
  <2>2. \A i \in RevIds : Exists(i)' => Exists(i) /\ revs'[i] = revs[i]
    BY <2>1 DEF Exists
  <2> QED
    BY <1>0, <2>1, <2>2 DEF Housed, Distinct, OwnPointers, MergeOwn, Own, Exists
<1>3. ASSUME NEW id \in RevIds, RecordMatched(p, id) \/ InsertDraft(p, id)
      PROVE  Housed' /\ Distinct' /\ OwnPointers' /\ MergeOwn'
  <2>1. /\ id \in Unborn /\ UNCHANGED <<repos, mrg>>
        /\ \A i \in RevIds \ {id} : revs'[i] = revs[i]
        /\ revs'[id].status \notin {"unused", "deleted"} /\ repos[revs'[id].repo].there
        /\ \A i \in RevIds : Exists(i) /\ revs[i].repo = revs'[id].repo => revs[i].version # revs'[id].version
    BY <1>0, <1>3, NewRow
  <2>2. \A i \in RevIds \ {id} : (Exists(i)' <=> Exists(i)) /\ revs'[i] = revs[i]
    BY <2>1 DEF Exists
  <2>3. /\ \A r \in Repos : id # repos[r].current /\ id # repos[r].published
        /\ \A m \in Merges : id # mrg[m].current /\ id # mrg[m].published
    BY <1>0, <2>1 DEF HistoryInv, UsedPointers
  <2>4. Housed' /\ Distinct'
    BY <1>0, <2>1, <2>2 DEF Housed, Distinct
  <2>5. OwnPointers' /\ MergeOwn'
    BY <1>0, <2>1, <2>2, <2>3 DEF OwnPointers, MergeOwn, Own, Exists
  <2> QED
    BY <2>4, <2>5
<1> QED
  BY <1>0, <1>1, <1>2, <1>3, RunSteps

\* A merge moves both pointers with the revisions, unless another merge of the same
\* old repository overlaps.
LEMMA CommitKeepsOwn ==
    ASSUME OwnInv, OldsDiffer, NEW m \in Merges, MergeCommit(m)
    PROVE  Housed' /\ Distinct' /\ OwnPointers' /\ MergeOwn'
<1>0. HistoryInv /\ Housed /\ Distinct /\ OwnPointers /\ MergeOwn
  BY DEF OwnInv
<1>1. PICK old \in Repos, new \in Repos : old = mrg[m].old /\ new = mrg[m].new
  BY <1>0, MergeTypes
<1>2. revs' = Reparented(old, new) /\ mrg' = [mrg EXCEPT ![m].pc = "unlink"]
      /\ ~Collides(old, new) /\ mrg[m].pc = "tx"
  BY <1>1 DEF MergeCommit, MergeAt
<1>3. old # new /\ Own(old, mrg[m].current) /\ Own(old, mrg[m].published)
  BY <1>0, <1>1, <1>2 DEF MergeOwn
<1>4. /\ \A i \in RevIds : Exists(i)' <=> Exists(i)
      /\ \A i \in RevIds : Exists(i) =>
           /\ revs'[i].repo = IF revs[i].repo = old THEN new ELSE revs[i].repo
           /\ revs'[i].version = revs[i].version
  BY <1>0, <1>2, ReparentedRows
<1>5. /\ ~repos'[old].there
      /\ \A r \in Repos \ {old} :
           /\ repos'[r].there = repos[r].there
           /\ repos'[r].current = repos[r].current \/ (r = new /\ repos'[r].current = mrg[m].current)
           /\ repos'[r].published = repos[r].published \/ (r = new /\ repos'[r].published = mrg[m].published)
  BY <1>0, <1>1, CommitRepos
<1>6. /\ \A i, j \in RevIds : Exists(i) /\ Exists(j) /\ revs[i].repo = old /\ revs[j].repo = new
                              => revs[i].version # revs[j].version
      /\ \A i \in RevIds : Exists(i) /\ revs[i].repo = old => repos[new].there
  BY <1>2 DEF Collides, RowsOf
<1>7. Housed'
  <2> SUFFICES ASSUME NEW i \in RevIds, Exists(i) PROVE repos'[revs'[i].repo].there
    BY <1>4 DEF Housed
  <2>1. revs[i].repo \in Repos /\ repos[revs[i].repo].there
    BY <1>0, RowTypes DEF Housed
  <2>2. CASE revs[i].repo = old
    BY <1>3, <1>4, <1>5, <1>6, <2>2
  <2>3. CASE revs[i].repo # old
    BY <1>4, <1>5, <2>1, <2>3
  <2> QED
    BY <2>2, <2>3
<1>8. Distinct'
  <2> SUFFICES ASSUME NEW i \in RevIds, NEW j \in RevIds, Exists(i), Exists(j),
                      revs'[i].repo = revs'[j].repo, revs[i].version = revs[j].version
               PROVE  i = j
    BY <1>4 DEF Distinct
  <2>1. CASE revs[i].repo = revs[j].repo
    BY <1>0, <2>1 DEF Distinct
  <2>2. CASE revs[i].repo # revs[j].repo
    BY <1>4, <1>6, <2>2
  <2> QED
    BY <2>1, <2>2
<1>9. \A i : /\ (i \in RevIds /\ Exists(i)') => Exists(i)
             /\ \A r \in Repos \ {old} : Own(r, i) => Own(r, i)'
             /\ Own(old, i) => Own(new, i)'
  BY <1>4 DEF Own, Exists
<1>10. OwnPointers'
  <2> SUFFICES ASSUME NEW r \in Repos, NEW i, NEW j, repos'[r].there, i = repos'[r].current, j = repos'[r].published
               PROVE  Own(r, i)' /\ Own(r, j)'
    BY DEF OwnPointers, Own, Exists
  <2>1. r # old /\ repos[r].there
    BY <1>5
  <2>2. Own(r, repos[r].current) /\ Own(r, repos[r].published)
    BY <1>0, <2>1 DEF OwnPointers
  <2>3. Own(r, i)'
    <3>1. CASE i = repos[r].current
      BY <1>9, <2>1, <2>2, <3>1
    <3>2. CASE r = new /\ i = mrg[m].current
      BY <1>3, <1>9, <3>2
    <3> QED
      BY <1>5, <2>1, <3>1, <3>2
  <2>4. Own(r, j)'
    <3>1. CASE j = repos[r].published
      BY <1>9, <2>1, <2>2, <3>1
    <3>2. CASE r = new /\ j = mrg[m].published
      BY <1>3, <1>9, <3>2
    <3> QED
      BY <1>5, <2>1, <3>1, <3>2
  <2> QED
    BY <2>3, <2>4
<1>11. MergeOwn'
  <2> SUFFICES ASSUME NEW n \in Merges, NEW i, NEW j, mrg'[n].pc \in {"check", "tx"},
                      i = mrg'[n].current, j = mrg'[n].published
               PROVE  mrg'[n].old # mrg'[n].new /\ Own(mrg[n].old, i)' /\ Own(mrg[n].old, j)' /\ mrg'[n].old = mrg[n].old
    BY DEF MergeOwn, Own, Exists
  <2>1. n # m /\ mrg'[n] = mrg[n]
    BY <1>0, <1>2, Types DEF MergeRecord
  <2>2. mrg[n].old \in Repos /\ mrg[n].old # old
    BY <1>0, <1>1, <1>2, <2>1, MergeTypes DEF OldsDiffer
  <2>3. mrg[n].old # mrg[n].new /\ Own(mrg[n].old, i) /\ Own(mrg[n].old, j)
    BY <1>0, <2>1 DEF MergeOwn
  <2> QED
    BY <1>9, <2>1, <2>2, <2>3
<1> QED
  BY <1>7, <1>8, <1>10, <1>11

\* The other steps of a merge: revisions and repositories stay as they are.
LEMMA MergeKeepsOwn ==
    ASSUME OwnInv, UNCHANGED <<repos, revs>>, NEW m \in Merges,
           \A n \in Merges \ {m} : mrg'[n] = mrg[n],
           mrg'[m].pc \in {"check", "tx"} =>
             /\ mrg'[m].old # mrg'[m].new
             /\ Own(mrg'[m].old, mrg'[m].current) /\ Own(mrg'[m].old, mrg'[m].published)
    PROVE  Housed' /\ Distinct' /\ OwnPointers' /\ MergeOwn'
BY DEF OwnInv, Housed, Distinct, OwnPointers, MergeOwn, Own, Exists

\* The other steps of a merge leave the histories alone.
LEMMA MergeStepsKeepOwn ==
    ASSUME OwnInv, OldsDiffer, NEW m \in Merges, Merge(m) \/ StopMerge(m)
    PROVE  Housed' /\ Distinct' /\ OwnPointers' /\ MergeOwn'
<1>0. HistoryInv /\ OwnPointers /\ MergeOwn /\ mrg \in [Merges -> MergeRecord]
  BY Types DEF OwnInv
<1>1. CASE mrg' = [mrg EXCEPT ![m] = Merging] /\ UNCHANGED <<repos, revs>>
  <2>1. mrg'[m].pc = "off" /\ \A n \in Merges \ {m} : mrg'[n] = mrg[n]
    BY <1>0, <1>1, MergingTypes
  <2> QED
    BY <1>1, <2>1, MergeKeepsOwn
<1>2. ASSUME NEW old \in Repos, NEW new \in Repos, MergeLookup(m, old, new)
      PROVE  Housed' /\ Distinct' /\ OwnPointers' /\ MergeOwn'
  <2> DEFINE cur == IF repos[new].current = NoRev THEN repos[old].current ELSE NoRev
             pub == IF repos[new].published = NoRev THEN repos[old].published ELSE NoRev
             c == [pc |-> "check", old |-> old, new |-> new, files |-> {}, current |-> cur, published |-> pub]
  <2>1. mrg' = [mrg EXCEPT ![m] = c] /\ old # new /\ repos[old].there /\ UNCHANGED <<repos, revs>>
    BY <1>2 DEF MergeLookup, tables
  <2>2. Own(old, cur) /\ Own(old, pub)
    BY <1>0, <2>1, Sizes DEF OwnPointers, Own, Exists
  <2>3. c.old = old /\ c.new = new /\ c.current = cur /\ c.published = pub
    OBVIOUS
  <2> HIDE DEF c, cur, pub
  <2>4. mrg'[m] = c /\ \A n \in Merges \ {m} : mrg'[n] = mrg[n]
    BY <1>0, <2>1
  <2> QED
    BY <2>1, <2>2, <2>3, <2>4, MergeKeepsOwn
<1>3. ASSUME NEW cleanup \in BOOLEAN, MergeCheck(m, cleanup), mrg' # [mrg EXCEPT ![m] = Merging]
      PROVE  Housed' /\ Distinct' /\ OwnPointers' /\ MergeOwn'
  <2> DEFINE listed == {i \in Images : cleanup /\ i[1] = mrg[m].old /\ <<i, "data">> \in ills}
             c == [mrg[m] EXCEPT !.pc = "tx", !.files = listed]
  <2>1. mrg' = [mrg EXCEPT ![m] = c] /\ UNCHANGED <<repos, revs>> /\ mrg[m].pc = "check"
    <3>1. RowsOf(mrg[m].new) = {}
      BY <1>3 DEF MergeCheck
    <3> QED
      BY <1>3, <3>1 DEF MergeCheck, MergeAt, tables
  <2> HIDE DEF listed
  <2>2. /\ c.old = mrg[m].old /\ c.new = mrg[m].new
        /\ c.current = mrg[m].current /\ c.published = mrg[m].published
    BY <1>0, MergeTypes DEF MergeRecord
  <2> HIDE DEF c
  <2>3. mrg'[m] = c /\ \A n \in Merges \ {m} : mrg'[n] = mrg[n]
    BY <1>0, <2>1
  <2>4. mrg[m].old # mrg[m].new /\ Own(mrg[m].old, mrg[m].current) /\ Own(mrg[m].old, mrg[m].published)
    BY <1>0, <2>1 DEF MergeOwn
  <2> QED
    BY <2>1, <2>2, <2>3, <2>4, MergeKeepsOwn
<1>4. CASE MergeCommit(m)
  BY <1>4, CommitKeepsOwn
<1>5. CASE MergeRollback(m) \/ StopMerge(m) \/ \E failed \in SUBSET mrg[m].files : Unlink(m, failed)
  BY <1>1, <1>5 DEF MergeRollback, StopMerge, Unlink, tables
<1>6. ASSUME NEW cleanup \in BOOLEAN, MergeCheck(m, cleanup)
      PROVE  Housed' /\ Distinct' /\ OwnPointers' /\ MergeOwn'
  BY <1>1, <1>3, <1>6 DEF MergeCheck, tables
<1> QED
  BY <1>2, <1>4, <1>5, <1>6 DEF Merge

\* Every step keeps the histories whole while merges of one repository do not overlap.
LEMMA OwnStep == OwnInv /\ OldsDiffer /\ [Next]_vars => OwnInv'
<1> SUFFICES ASSUME OwnInv, OldsDiffer, [Next]_vars PROVE OwnInv'
  OBVIOUS
<1>1. HistoryInv /\ HistoryInv' /\ Housed /\ Distinct /\ OwnPointers /\ MergeOwn
  BY HistoryStep DEF OwnInv
<1>2. ASSUME NEW p \in Runs, Import(p) \/ ProcessRepo(p) \/ Prune(p) \/ StopRun(p)
      PROVE  Housed' /\ Distinct' /\ OwnPointers' /\ MergeOwn'
  BY <1>2, RunKeepsOwn
<1>3. ASSUME NEW m \in Merges, Merge(m) \/ StopMerge(m)
      PROVE  Housed' /\ Distinct' /\ OwnPointers' /\ MergeOwn'
  BY <1>3, MergeStepsKeepOwn
<1>4. ASSUME NEW id \in RevIds, Reject(id)
      PROVE  Housed' /\ Distinct' /\ OwnPointers' /\ MergeOwn'
  <2>1. /\ \A i \in RevIds \ {id} : revs'[i] = revs[i]
        /\ Exists(id) /\ Exists(id)' /\ revs'[id].repo = revs[id].repo
        /\ revs'[id].version = revs[id].version
    BY <1>1, <1>4, RejectStep
  <2>2. \A i \in RevIds : /\ Exists(i)' <=> Exists(i)
                          /\ revs'[i].repo = revs[i].repo /\ revs'[i].version = revs[i].version
    BY <2>1 DEF Exists
  <2>3. UNCHANGED <<repos, mrg>>
    BY <1>4 DEF Reject
  <2>4. Housed' /\ Distinct'
    BY <1>1, <2>2, <2>3 DEF Housed, Distinct
  <2>5. OwnPointers' /\ MergeOwn'
    BY <1>1, <2>2, <2>3 DEF OwnPointers, MergeOwn, Own, Exists
  <2> QED
    BY <2>4, <2>5
<1>5. CASE UNCHANGED vars
  <2>1. UNCHANGED <<repos, revs, mrg>>
    BY <1>5 DEF vars, tables
  <2> QED
    BY <1>1, <2>1 DEF OwnInv, Housed, Distinct, OwnPointers, MergeOwn, Own, Exists
<1>6. ASSUME NEW r \in Repos, AddRepo(r)
      PROVE  Housed' /\ Distinct' /\ OwnPointers' /\ MergeOwn'
  <2>1. UNCHANGED <<revs, mrg>> /\ \A q \in Repos \ {r} : repos'[q] = repos[q]
    BY <1>1, <1>6, Types DEF AddRepo
  <2>2. repos'[r].there /\ repos'[r].current = NoRev /\ repos'[r].published = NoRev
    BY <1>1, <1>6, Types DEF AddRepo, New
  <2>3. \A i \in RevIds : Exists(i) => revs[i].repo \in Repos
    BY <1>1, RowTypes
  <2>4. Housed' /\ Distinct' /\ MergeOwn'
    BY <1>1, <2>1, <2>2, <2>3 DEF Housed, Distinct, MergeOwn, Own, Exists
  <2>5. OwnPointers'
    BY <1>1, <2>1, <2>2, Sizes DEF OwnPointers, Own, Exists
  <2> QED
    BY <2>4, <2>5
<1> QED
  BY <1>1, <1>2, <1>3, <1>4, <1>5, <1>6 DEF Next, OwnInv

\* There is no history at the start.
LEMMA OwnInit == Init => OwnInv
<1> SUFFICES ASSUME Init PROVE OwnInv
  OBVIOUS
<1>1. \A id \in RevIds : ~Exists(id)
  BY DEF Init, Exists, Unused
<1>2. \A m \in Merges : mrg[m].pc = "off"
  BY MergingTypes DEF Init
<1> QED
  BY <1>1, <1>2, HistoryInit DEF OwnInv, Housed, Distinct, OwnPointers, MergeOwn, Own, Exists

\* Every revision belongs to a repository that is there, under a version of its
\* own, and a repository points to its own revisions, however process runs, stops
\* and merges come between each other's statements, as long as no two merges of
\* the same old repository overlap (merge_history.go, sqlite_stores.go).
THEOREM HistoriesStayWhole == Spec /\ []OldsDiffer => []OneHistory
<1>1. OwnInv => OneHistory
  BY OneHistoryParts DEF OwnInv
<1> QED
  BY OwnInit, OwnStep, <1>1, PTL DEF Spec

\* With one merge-history command at a time nothing is left to assume.
THEOREM OneMergeKeepsHistories == (\A m, n \in Merges : m = n) => (Spec => []OneHistory)
<1> SUFFICES ASSUME \A m, n \in Merges : m = n PROVE Spec => []OneHistory
  OBVIOUS
<1>1. OldsDiffer
  BY DEF OldsDiffer
<1> QED
  BY <1>1, HistoriesStayWhole, PTL

-----------------------------------------------------------------------------
(***************************************************************************)
(* One run at a time, which is what the process lock is there for: the     *)
(* files of illustrations and the record of the posts.                     *)
(***************************************************************************)
OneRun == \A p, q \in Runs : p = q

\* The steps of a run that concern neither rows, files, posts nor the import.
Telling(p) ==
    \/ CountAll(p) \/ ListPosts(p) \/ RecordUnmatched(p) \/ PointImported(p)
    \/ WriteFile(p) \/ CreateIllustration(p) \/ PruneRow(p) \/ PruneFile(p) \/ PruneRev(p)
    \/ \E id \in RevIds : RecordMatched(p, id) \/ InsertDraft(p, id)

\* What the steps of a run that write no table that matters here leave alone.
LEMMA QuietSteps ==
    ASSUME HistoryInv, NEW p \in Runs, Import(p) \/ ProcessRepo(p) \/ Prune(p) \/ StopRun(p), ~Telling(p)
    PROVE  /\ UNCHANGED <<revs, unmatched, ills, files>>
           /\ run'[p].pc \notin {"list", "post", "point", "pruneFile"}
           /\ run'[p].pc = "row" => run'[p].ill = "nodata"
<1>0. run \in [Runs -> RunRecord] /\ run[p] \in RunRecord
  BY Types
<1>1. CASE run' = [run EXCEPT ![p] = Off] /\ UNCHANGED tables
  BY <1>0, <1>1, OffTypes DEF tables
<1>2. CASE StartRun(p) \/ ImportRefused(p) \/ EndRun(p) \/ StopRun(p)
  <2>1. CASE StartRun(p)
    BY <1>0, <2>1 DEF StartRun, Goto, tables, RunRecord
  <2> QED
    BY <1>1, <1>2, <2>1 DEF ImportRefused, EndRun, StopRun
<1>3. CASE ImportDone(p) \/ QueueDone(p) \/ \E Q \in SUBSET Repos : BuildQueue(p, Q)
  <2>1. CASE ImportDone(p)
    <3>1. run'[p].pc = "work"
      BY <1>0, <2>1, OffTypes DEF ImportDone, RunRecord
    <3> QED
      BY <2>1, <3>1 DEF ImportDone, tables
  <2>2. CASE QueueDone(p)
    <3>1. run'[p].pc = "prune"
      BY <1>0, <2>2, OffTypes DEF QueueDone, RunRecord
    <3> QED
      BY <2>2, <3>1 DEF QueueDone, tables
  <2>3. ASSUME NEW Q \in SUBSET Repos, BuildQueue(p, Q)
        PROVE  UNCHANGED tables /\ run'[p].pc = "read"
    BY <1>0, <2>3, OffTypes DEF BuildQueue, RunRecord
  <2> QED
    BY <1>3, <2>1, <2>2, <2>3 DEF tables
<1>4. CASE Revert(p) \/ AwaitReview(p)
  <2>1. run'[p].pc \in {"off", "read"}
    BY <1>0, <1>4, OffTypes, ZenonT(60) DEF Revert, AwaitReview, RunRecord
  <2> QED
    BY <1>4, <2>1 DEF Revert, AwaitReview
<1>5. CASE \E r \in Repos : ReadRepo(p, r)
  <2>1. PICK r \in Repos : ReadRepo(p, r)
    BY <1>5
  <2>2. run'[p].pc \in {"generate", "read"}
    BY <1>0, <2>1 DEF ReadRepo, RunRecord
  <2> QED
    BY <2>1, <2>2 DEF ReadRepo
<1>6. CASE \E b \in Bodies : Generate(p, b)
  <2>1. run'[p].pc \in {"abort", "image"}
    BY <1>0, <1>6 DEF Generate, Goto, RunRecord
  <2> QED
    BY <1>6, <2>1 DEF Generate, tables
<1>7. CASE Illustrate(p)
  <2>1. UNCHANGED <<revs, unmatched, ills, files>>
    BY <1>7 DEF Illustrate, tables
  <2>2. CASE \E row \in RowsFor(Image(p)) : run' = [run EXCEPT ![p].pc = "insert", ![p].ill = row[2]]
    BY <1>0, <2>1, <2>2 DEF RunRecord
  <2>3. ASSUME NEW a \in GenerateImage,
               run' = [run EXCEPT ![p].ill = IF a = "data" THEN "drawn" ELSE a,
                                  ![p].pc = CASE a = "none" -> "insert" [] a = "data" -> "file" [] OTHER -> "row"]
        PROVE  run'[p].pc \in {"insert", "file", "row"} /\ (run'[p].pc = "row" => run'[p].ill = "nodata")
    <3>1. a \in {"data", "nodata", "none"}
      BY ImageAnswers
    <3>2. /\ run'[p].pc = CASE a = "none" -> "insert" [] a = "data" -> "file" [] OTHER -> "row"
          /\ run'[p].ill = IF a = "data" THEN "drawn" ELSE a
      BY <1>0, <2>3 DEF RunRecord
    <3> QED
      BY <3>1, <3>2
  <2>4. run'[p].pc \in {"insert", "file", "row"} /\ (run'[p].pc = "row" => run'[p].ill = "nodata")
    BY <1>0, <1>7, <2>2, <2>3, ZenonT(60) DEF Illustrate, RunRecord
  <2> QED
    BY <2>1, <2>4
<1>8. CASE Dedup(p) \/ InsertRefused(p) \/ PointDraft(p)
  <2>1. run'[p].pc \in {"revert", "abort", "state"}
    BY <1>0, <1>8 DEF Dedup, InsertRefused, PointDraft, Goto, RunRecord
  <2> QED
    BY <1>8, <2>1 DEF Dedup, InsertRefused, PointDraft, tables
<1>9. CASE \E r \in Repos : ListForRetention(p, r)
  <2>1. run'[p].pc = "prune"
    BY <1>0, <1>9 DEF ListForRetention, At, RunRecord
  <2> QED
    BY <1>9, <2>1 DEF ListForRetention, tables
<1>10. CASE \E id \in RevIds : PruneNext(p, id)
  <2>1. PICK id \in RevIds : PruneNext(p, id)
    BY <1>10
  <2>2. run'[p].pc \in {"pruneRow", "pruneRev"}
    BY <1>0, <2>1 DEF PruneNext, RunRecord
  <2> QED
    BY <2>1, <2>2 DEF PruneNext, tables
<1> QED
  BY <1>2, <1>3, <1>4, <1>5, <1>6, <1>7, <1>8, <1>9, <1>10 DEF Import, ProcessRepo, Prune, Telling

\* No step of a run or review brings a repository back or takes one away.
LEMMA RunKeepsThere ==
    ASSUME HistoryInv, NEW p \in Runs, Import(p) \/ ProcessRepo(p) \/ Prune(p) \/ StopRun(p)
    PROVE  mrg' = mrg /\ \A r \in Repos : repos'[r].there = repos[r].there
BY RunSteps, NewRow, PruneRevStep DEF PlainStep, RepoStep

\* A set of subsets of a finite set has a minimal member.
LEMMA SmallestOf ==
    ASSUME NEW S, IsFiniteSet(S), NEW Sets, Sets \subseteq SUBSET S, Sets # {}
    PROVE  \E K \in Sets : \A L \in Sets : L \subseteq K => L = K
<1>1. IsWellFoundedOn(StrictSubsetOrdering(S), SUBSET S)
  BY FS_StrictSubsetOrderingWellFounded, FS_FiniteSubsetsOfFinite
<1>2. \E K \in Sets : \A L \in Sets : ~ (<<L, K>> \in StrictSubsetOrdering(S))
  BY <1>1, WFMin
<1> QED
  BY <1>2 DEF StrictSubsetOrdering

\* A set of positions that is not empty has a first one.
LEMMA LeastOf == ASSUME NEW n \in Nat, NEW J \in SUBSET (1..n), J # {} PROVE First(J) # {}
<1> DEFINE N == 1..n  Starts == {1..x : x \in J}
<1>1. IsFiniteSet(N)
  BY FS_Interval
<1>2. Starts # {} /\ \A x \in J : 1..x \subseteq N
  <2>1. PICK x : x \in J
    OBVIOUS
  <2>2. 1..x \in Starts
    BY <2>1
  <2>3. \A y \in J : 1..y \subseteq N
    <3> SUFFICES ASSUME NEW y \in J, NEW i \in 1..y PROVE i \in 1..n
      OBVIOUS
    <3>1. y \in 1..n
      OBVIOUS
    <3> QED
      BY <3>1
  <2> QED
    BY <2>2, <2>3
<1>3. Starts \subseteq SUBSET N
  BY <1>2
<1>4. PICK K \in Starts : \A L \in Starts : L \subseteq K => L = K
  <2> HIDE DEF Starts, N
  <2> QED
    BY <1>1, <1>2, <1>3, SmallestOf
<1>5. PICK x \in J : K = 1..x
  OBVIOUS
<1>6. ASSUME NEW y \in J PROVE x <= y
  <2> SUFFICES ASSUME y < x PROVE FALSE
    OBVIOUS
  <2>1. 1..y \subseteq 1..x /\ x \in 1..x /\ x \notin 1..y
    OBVIOUS
  <2> QED
    BY <1>4, <1>5, <2>1
<1> QED
  BY <1>6 DEF First

(* The files of illustrations. *)
IllsHoused == \A row \in ills : repos[row[1][1]].there
RunFiles ==
    \A p \in Runs :
        run[p].pc = "row" /\ run[p].ill = "drawn" /\ repos[run[p].repo].there => Image(p) \in files
MergeFiles ==
    \A m \in Merges : /\ \A i \in mrg[m].files : i[1] = mrg[m].old
                      /\ mrg[m].pc = "unlink" => ~repos[mrg[m].old].there
FilesInv == HistoryInv /\ IllsHoused /\ RunFiles /\ MergeFiles

\* What a step may do to rows and files.
FiledStep ==
    \A i \in Images :
        Unfiled(i)' => Unfiled(i) \/ \E p \in Runs : At(p, "pruneFile") /\ Image(p) = i

\* A step that leaves rows, files and what merges know as they were.
LEMMA FilesKept ==
    ASSUME FilesInv, OneRun, NEW p \in Runs, UNCHANGED <<ills, files, mrg>>,
           \A r \in Repos : repos'[r].there = repos[r].there,
           run'[p].pc = "row" => run'[p].ill = "nodata"
    PROVE  FiledStep /\ IllsHoused' /\ RunFiles' /\ MergeFiles'
<1>0. HistoryInv /\ IllsHoused /\ RunFiles /\ MergeFiles
  BY DEF FilesInv
<1>1. FiledStep
  BY <1>0 DEF FiledStep, Unfiled
<1>2. IllsHoused'
  BY <1>0, Types DEF IllsHoused, Images
<1>3. RunFiles'
  BY DEF RunFiles, OneRun
<1>4. MergeFiles'
  BY <1>0, MergeTypes DEF MergeFiles
<1> QED
  BY <1>1, <1>2, <1>3, <1>4

\* Going on at another statement does not change the image in hand.
LEMMA ImageOf ==
    ASSUME HistoryInv, NEW p \in Runs, NEW pc \in RunPcs, Goto(p, pc)
    PROVE  /\ Image(p)' = Image(p) /\ run'[p].pc = pc /\ run'[p].ill = run[p].ill
           /\ run'[p].repo = run[p].repo
BY RunTypes, Types DEF Goto, Image, RunRecord

\* A step of a run never takes the file of a row that is on record.
LEMMA RunFilesStep ==
    ASSUME FilesInv, OneRun, NEW p \in Runs,
           Import(p) \/ ProcessRepo(p) \/ Prune(p) \/ StopRun(p)
    PROVE  FiledStep /\ IllsHoused' /\ RunFiles' /\ MergeFiles'
<1>0. HistoryInv /\ IllsHoused /\ RunFiles /\ MergeFiles /\ run[p] \in RunRecord
  BY RunTypes DEF FilesInv
<1>1. mrg' = mrg /\ \A r \in Repos : repos'[r].there = repos[r].there
  BY <1>0, RunKeepsThere
<1>2. IllsHoused /\ ills' \subseteq ills => IllsHoused'
  BY <1>0, <1>1, Types DEF IllsHoused, Images
<1>3. MergeFiles'
  BY <1>0, <1>1, MergeTypes DEF MergeFiles
<1>4. CASE ~Telling(p)
  BY <1>0, <1>1, <1>4, QuietSteps, FilesKept
<1>5. CASE CountAll(p) \/ ListPosts(p) \/ RecordUnmatched(p) \/ PointImported(p)
  <2>1. run'[p].pc \in {"work", "list", "post"}
    BY <1>0, <1>5, Types DEF CountAll, ListPosts, RecordUnmatched, PointImported, Goto, At, RunRecord
  <2>2. UNCHANGED <<ills, files>>
    BY <1>5 DEF CountAll, ListPosts, RecordUnmatched, PointImported, tables
  <2> QED
    BY <1>1, <2>1, <2>2, FilesKept
<1>6. CASE \E id \in RevIds : RecordMatched(p, id) \/ InsertDraft(p, id)
  <2>1. UNCHANGED <<ills, files>>
    BY <1>6 DEF RecordMatched, InsertDraft
  <2>2. run'[p].pc \in {"point", "pointers"}
    <3>1. ASSUME NEW id \in RevIds, RecordMatched(p, id) PROVE run'[p].pc = "point"
      <4>1. PICK r \in Matched(p) : run' = [run EXCEPT ![p].pc = "point", ![p].repo = r, ![p].rev = id]
        BY <3>1 DEF RecordMatched
      <4> QED
        BY <1>0, <4>1, Types DEF RunRecord
    <3>2. ASSUME NEW id \in RevIds, InsertDraft(p, id) PROVE run'[p].pc = "pointers"
      <4>1. run' = [run EXCEPT ![p].pc = "pointers", ![p].rev = id]
        BY <3>2 DEF InsertDraft
      <4> QED
        BY <1>0, <4>1, Types DEF RunRecord
    <3> QED
      BY <1>6, <3>1, <3>2
  <2> QED
    BY <1>1, <2>1, <2>2, FilesKept
<1>7. CASE PruneRev(p)
  <2>1. run'[p].pc \in {"off", "prune"} /\ UNCHANGED <<ills, files>>
    BY <1>0, <1>7, Types, OffTypes DEF PruneRev, Goto, RunRecord
  <2> QED
    BY <1>1, <2>1, FilesKept
<1>8. CASE WriteFile(p)
  <2>1. ills' = ills
    BY <1>8 DEF WriteFile
  <2>2. CASE files' = files \cup {Image(p)} /\ Goto(p, "row")
    <3>1. Image(p)' = Image(p) /\ run'[p].pc = "row"
      BY <1>0, <2>2, ImageOf DEF RunPcs
    <3>2. FiledStep
      BY <1>0, <2>1, <2>2 DEF FiledStep, Unfiled
    <3>3. RunFiles'
      BY <2>2, <3>1 DEF RunFiles, OneRun, Image
    <3> QED
      BY <1>0, <1>2, <1>3, <2>1, <3>2, <3>3
  <2>3. CASE files' = files /\ run' = [run EXCEPT ![p].pc = "insert", ![p].ill = "none"]
    <3>1. run'[p].pc = "insert"
      BY <1>0, <2>3, Types DEF RunRecord
    <3> QED
      BY <1>1, <2>1, <2>3, <3>1, FilesKept
  <2> QED
    BY <1>8, <2>2, <2>3 DEF WriteFile
<1>9. CASE CreateIllustration(p)
  <2>1. run[p].pc = "row" /\ Goto(p, "insert") /\ files' = files
    BY <1>9 DEF CreateIllustration, At
  <2>2. \A row \in ills' \ ills : row = <<Image(p), Kind(run[p].ill)>> /\ repos[run[p].repo].there
    BY <1>9 DEF CreateIllustration
  <2>3. run[p].ill \in {"drawn", "nodata"} /\ Image(p)[1] = run[p].repo
    BY <1>0, <2>1, RunTypes DEF StageOK, Holding, Image
  <2>4. FiledStep
    <3> SUFFICES ASSUME NEW i \in Images, <<i, "data">> \in ills' PROVE <<i, "data">> \in ills \/ i \in files
      BY <2>1 DEF FiledStep, Unfiled
    <3>1. CASE <<i, "data">> \in ills
      BY <3>1
    <3>2. CASE <<i, "data">> \notin ills
      <4>1. i = Image(p) /\ Kind(run[p].ill) = "data" /\ repos[run[p].repo].there
        BY <2>2, <3>2
      <4>2. run[p].ill = "drawn"
        BY <2>3, <4>1 DEF Kind
      <4> QED
        BY <1>0, <2>1, <4>1, <4>2 DEF RunFiles
    <3> QED
      BY <3>1, <3>2
  <2>5. IllsHoused'
    <3> SUFFICES ASSUME NEW row \in ills' PROVE repos'[row[1][1]].there
      BY DEF IllsHoused
    <3>1. CASE row \in ills
      BY <1>0, <1>1, <3>1, Types DEF IllsHoused, Images
    <3>2. CASE row \notin ills
      BY <1>0, <1>1, <2>2, <2>3, <3>2, RunTypes
    <3> QED
      BY <3>1, <3>2
  <2>6. RunFiles'
    <3>1. run'[p].pc = "insert"
      BY <1>0, <2>1, ImageOf DEF RunPcs
    <3> QED
      BY <3>1 DEF RunFiles, OneRun
  <2> QED
    BY <1>3, <2>4, <2>5, <2>6
<1>10. CASE PruneRow(p)
  <2>1. ills' \subseteq ills /\ files' = files /\ Goto(p, "pruneFile")
    BY <1>10 DEF PruneRow
  <2>2. run'[p].pc = "pruneFile"
    BY <1>0, <2>1, ImageOf DEF RunPcs
  <2>3. RunFiles'
    BY <2>2 DEF RunFiles, OneRun
  <2>4. FiledStep
    BY <1>0, <2>1 DEF FiledStep, Unfiled
  <2> QED
    BY <1>0, <1>2, <1>3, <2>1, <2>3, <2>4
<1>11. CASE PruneFile(p)
  <2>1. ills' = ills /\ files \ {Image(p)} \subseteq files' /\ Goto(p, "pruneRev")
    BY <1>11 DEF PruneFile
  <2>2. At(p, "pruneFile")
    BY <1>11 DEF PruneFile
  <2>3. FiledStep
    BY <1>0, <2>1, <2>2 DEF FiledStep, Unfiled
  <2>4. run'[p].pc = "pruneRev"
    BY <1>0, <2>1, ImageOf DEF RunPcs
  <2>5. RunFiles'
    BY <2>4 DEF RunFiles, OneRun
  <2> QED
    BY <1>0, <1>2, <1>3, <2>1, <2>3, <2>5
<1> QED
  BY <1>4, <1>5, <1>6, <1>7, <1>8, <1>9, <1>10, <1>11 DEF Telling

\* A merge unlinks only files whose rows its transaction has deleted.
LEMMA MergeFilesStep ==
    ASSUME FilesInv, NEW m \in Merges, Merge(m) \/ StopMerge(m)
    PROVE  FiledStep /\ IllsHoused' /\ RunFiles' /\ MergeFiles'
<1>0. /\ HistoryInv /\ IllsHoused /\ RunFiles /\ MergeFiles
      /\ mrg \in [Merges -> MergeRecord] /\ mrg[m] \in MergeRecord
  BY Types DEF FilesInv
<1>1. \A q \in Runs : run[q].repo \in Repos
  BY <1>0, RunTypes
<1>2. \A n \in Merges : mrg[n].old \in Repos
  BY <1>0, MergeTypes
<1>3. ASSUME UNCHANGED <<repos, ills, files, run>>, NEW c, mrg' = [mrg EXCEPT ![m] = c],
             \A i \in c.files : i[1] = c.old, c.pc # "unlink"
      PROVE  FiledStep /\ IllsHoused' /\ RunFiles' /\ MergeFiles'
  <2>1. mrg'[m] = c /\ \A n \in Merges \ {m} : mrg'[n] = mrg[n]
    BY <1>0, <1>3
  <2>2. FiledStep /\ IllsHoused' /\ RunFiles'
    BY <1>0, <1>3 DEF FiledStep, Unfiled, IllsHoused, RunFiles, Image
  <2>3. MergeFiles'
    BY <1>0, <1>3, <2>1 DEF MergeFiles
  <2> QED
    BY <2>2, <2>3
<1>4. CASE mrg' = [mrg EXCEPT ![m] = Merging] /\ UNCHANGED <<repos, ills, files, run>>
  <2>1. (\A i \in Merging.files : i[1] = Merging.old) /\ Merging.pc # "unlink"
    BY MergingTypes
  <2> QED
    BY <1>3, <1>4, <2>1
<1>5. ASSUME NEW old \in Repos, NEW new \in Repos, MergeLookup(m, old, new)
      PROVE  FiledStep /\ IllsHoused' /\ RunFiles' /\ MergeFiles'
  <2> DEFINE c == [pc |-> "check", old |-> old, new |-> new, files |-> {},
         current |-> IF repos[new].current = NoRev THEN repos[old].current ELSE NoRev,
         published |-> IF repos[new].published = NoRev THEN repos[old].published ELSE NoRev]
  <2>1. mrg' = [mrg EXCEPT ![m] = c] /\ UNCHANGED <<repos, ills, files, run>>
    BY <1>5 DEF MergeLookup, tables
  <2>2. (\A i \in c.files : i[1] = c.old) /\ c.pc # "unlink"
    OBVIOUS
  <2> HIDE DEF c
  <2> QED
    BY <1>3, <2>1, <2>2
<1>6. ASSUME NEW cleanup \in BOOLEAN, MergeCheck(m, cleanup)
      PROVE  FiledStep /\ IllsHoused' /\ RunFiles' /\ MergeFiles'
  <2> DEFINE listed == {i \in Images : cleanup /\ i[1] = mrg[m].old /\ <<i, "data">> \in ills}
             c == [mrg[m] EXCEPT !.pc = "tx", !.files = listed]
  <2>1. UNCHANGED <<repos, ills, files, run>>
    BY <1>6 DEF MergeCheck, tables
  <2>2. mrg' = [mrg EXCEPT ![m] = Merging] \/ mrg' = [mrg EXCEPT ![m] = c]
    <3>1. CASE RowsOf(mrg[m].new) # {}
      BY <1>6, <3>1 DEF MergeCheck
    <3>2. CASE RowsOf(mrg[m].new) = {}
      BY <1>6, <3>2 DEF MergeCheck
    <3> QED
      BY <3>1, <3>2
  <2>3. \A i \in listed : i[1] = mrg[m].old
    OBVIOUS
  <2> HIDE DEF listed
  <2>4. (\A i \in c.files : i[1] = c.old) /\ c.pc # "unlink"
    BY <1>0, <2>3 DEF MergeRecord
  <2> HIDE DEF c
  <2> QED
    BY <1>3, <1>4, <2>1, <2>2, <2>4
<1>7. CASE MergeCommit(m)
  <2> DEFINE c == [mrg[m] EXCEPT !.pc = "unlink"]
  <2>1. ills' = {row \in ills : row[1][1] # mrg[m].old} /\ UNCHANGED <<files, run>> /\ mrg' = [mrg EXCEPT ![m] = c]
    BY <1>7 DEF MergeCommit
  <2>2. ~repos'[mrg[m].old].there /\ \A r \in Repos \ {mrg[m].old} : repos'[r].there = repos[r].there
    BY <1>0, <1>7, CommitRepos
  <2>3. c.old = mrg[m].old /\ c.files = mrg[m].files
    BY <1>0 DEF MergeRecord
  <2> HIDE DEF c
  <2>4. mrg'[m] = c /\ \A n \in Merges \ {m} : mrg'[n] = mrg[n]
    BY <1>0, <2>1
  <2>5. FiledStep
    BY <1>0, <2>1 DEF FiledStep, Unfiled
  <2>6. IllsHoused'
    BY <1>0, <2>1, <2>2, Types DEF IllsHoused, Images
  <2>7. \A r \in Repos : repos'[r].there => repos[r].there
    BY <2>2
  <2>8. RunFiles'
    BY <1>0, <1>1, <2>1, <2>7 DEF RunFiles, Image
  <2>9. MergeFiles'
    BY <1>0, <1>2, <2>2, <2>3, <2>4, <2>7 DEF MergeFiles
  <2> QED
    BY <2>5, <2>6, <2>8, <2>9
<1>8. ASSUME NEW failed \in SUBSET mrg[m].files, Unlink(m, failed)
      PROVE  FiledStep /\ IllsHoused' /\ RunFiles' /\ MergeFiles'
  <2>1. /\ mrg' = [mrg EXCEPT ![m] = Merging] /\ UNCHANGED <<repos, ills, run>> /\ mrg[m].pc = "unlink"
        /\ files \ mrg[m].files \subseteq files'
    BY <1>8 DEF Unlink, MergeAt
  <2>2. ~repos[mrg[m].old].there /\ \A i \in mrg[m].files : i[1] = mrg[m].old
    BY <1>0, <2>1 DEF MergeFiles
  <2>3. mrg'[m] = Merging /\ \A n \in Merges \ {m} : mrg'[n] = mrg[n]
    BY <1>0, <2>1
  <2>4. \A i : <<i, "data">> \in ills => i \notin mrg[m].files
    BY <1>0, <2>2 DEF IllsHoused
  <2>5. FiledStep
    BY <1>0, <2>1, <2>4 DEF FiledStep, Unfiled
  <2>6. IllsHoused'
    BY <1>0, <2>1 DEF IllsHoused
  <2>7. RunFiles'
    <3> SUFFICES ASSUME NEW q \in Runs
                 PROVE  run[q].pc = "row" /\ run[q].ill = "drawn" /\ repos[run[q].repo].there
                           => Image(q) \in files'
      BY <2>1 DEF RunFiles, Image
    <3>1. Image(q)[1] = run[q].repo
      BY DEF Image
    <3> QED
      BY <1>0, <2>1, <2>2, <3>1 DEF RunFiles
  <2>8. MergeFiles'
    BY <1>0, <2>1, <2>3, MergingTypes DEF MergeFiles
  <2> QED
    BY <2>5, <2>6, <2>7, <2>8
<1>9. CASE MergeRollback(m) \/ StopMerge(m)
  BY <1>4, <1>9 DEF MergeRollback, StopMerge, tables
<1> QED
  BY <1>5, <1>6, <1>7, <1>8, <1>9 DEF Merge

\* Every step keeps a file to every row, the pruner's apart.
LEMMA FilesStep == OneRun /\ FilesInv /\ [Next]_vars => FiledStep /\ FilesInv'
<1> SUFFICES ASSUME OneRun, FilesInv, [Next]_vars PROVE FiledStep /\ FilesInv'
  OBVIOUS
<1>1. HistoryInv /\ HistoryInv' /\ IllsHoused /\ RunFiles /\ MergeFiles
  BY HistoryStep DEF FilesInv
<1>2. CASE UNCHANGED <<repos, ills, files, run, mrg>>
  BY <1>1, <1>2 DEF FilesInv, FiledStep, Unfiled, IllsHoused, RunFiles, MergeFiles, Image
<1>3. CASE \E id \in RevIds : Reject(id)
  BY <1>2, <1>3 DEF Reject
<1>4. CASE UNCHANGED vars
  BY <1>2, <1>4 DEF vars, tables
<1>5. ASSUME NEW r \in Repos, AddRepo(r) PROVE FiledStep /\ FilesInv'
  <2>1. UNCHANGED <<ills, files, run, mrg>> /\ r \in coming
    BY <1>5 DEF AddRepo
  <2>2. repos'[r].there /\ \A q \in Repos \ {r} : repos'[q] = repos[q]
    BY <1>1, <1>5, Types DEF AddRepo, New
  <2>3. FiledStep
    BY <2>1 DEF FiledStep, Unfiled
  <2>4. IllsHoused'
    BY <1>1, <2>1, <2>2, Types DEF IllsHoused, Images
  <2>5. RunFiles'
    <3>1. \A q \in Runs : run[q].pc = "row" => run[q].repo \in Repos \ {r}
      BY <1>1, <2>1, RunTypes DEF StageOK, Holding
    <3> QED
      BY <1>1, <2>1, <2>2, <3>1 DEF RunFiles, Image
  <2>6. MergeFiles'
    <3>1. \A m \in Merges : mrg[m].pc = "unlink" => mrg[m].old \in Repos \ {r}
      BY <1>1, <2>1, MergeTypes DEF HistoryInv, Expected
    <3> QED
      BY <1>1, <2>1, <2>2, <3>1 DEF MergeFiles
  <2> QED
    BY <1>1, <2>3, <2>4, <2>5, <2>6 DEF FilesInv
<1> QED
  BY <1>1, <1>3, <1>4, <1>5, RunFilesStep, MergeFilesStep DEF Next, FilesInv

\* With one run at a time, an illustration that came as data is on record only
\* with its file, whatever merge-history --cleanup unlinks and wherever commands
\* are stopped: only the pruner parts the two, after a DELETE that failed
\* (pruner.go, generator.go, merge_history.go).
THEOREM RecordsHaveFiles == (\A p, q \in Runs : p = q) => (Spec => RowHasFile)
<1> SUFFICES ASSUME \A p, q \in Runs : p = q PROVE Spec => RowHasFile
  OBVIOUS
<1>1. OneRun
  BY DEF OneRun
<1>2. Init => FilesInv
  <2> SUFFICES ASSUME Init PROVE FilesInv
    OBVIOUS
  <2>1. ills = {} /\ (\A p \in Runs : run[p].pc = "off") /\ \A m \in Merges : mrg[m] = Merging
    BY OffTypes DEF Init
  <2> QED
    BY <2>1, HistoryInit, MergingTypes DEF FilesInv, IllsHoused, RunFiles, MergeFiles
<1>3. FilesInv /\ [Next]_vars => FilesInv'
  BY <1>1, FilesStep
<1>4. FilesInv /\ [Next]_vars
      => [\A i \in Images :
            Unfiled(i)' => Unfiled(i) \/ \E p \in Runs : At(p, "pruneFile") /\ Image(p) = i]_vars
  BY <1>1, FilesStep DEF FiledStep
<1> QED
  BY <1>2, <1>3, <1>4, PTL DEF Spec, RowHasFile

(* The record of the posts. *)
There == {r \in Repos : repos[r].there}
Fits(x, r) == \E l \in Layers : r \in Hits[x][l]

\* A post without a match fits none of the repositories listed then.
UnmatchedPosts == \A x \in Posts : \A r \in known[x] : ~Fits(x, r)

\* What a step may do to the record of a post.
PostStep ==
    \A x \in Posts :
        /\ x \in unmatched' \ unmatched => PostsOf(x) = {}
        /\ \A id \in PostsOf(x)' \ PostsOf(x) :
            /\ PostsOf(x) = {} /\ PostsOf(x)' = {id}
            /\ x \in unmatched => revs'[id].repo \notin known[x]

\* While posts are imported every revision is the import's own: version 1 of the
\* repository its post matches among those listed, unless that has been merged away.
Imported(id, listed) ==
    /\ revs[id].post \in Posts
    /\ \E r \in MatchRepo(revs[id].post, listed) : (revs[id].repo = r /\ revs[id].version = 1) \/ ~repos[r].there
Importing ==
    \A p \in Runs :
        /\ run[p].pc = "list" => \A id \in RevIds : ~Exists(id)
        /\ run[p].pc \in {"post", "point"} => \A id \in RevIds : Exists(id) => Imported(id, run[p].queue)
PostsInv == HistoryInv /\ UnmatchedPosts /\ Importing

\* The matcher finds a repository whenever one of those listed fits on some layer.
LEMMA MatchFound ==
    ASSUME NEW x \in Posts, NEW listed \in SUBSET Repos, NEW r \in listed, Fits(x, r)
    PROVE  MatchRepo(x, listed) # {}
<1>1. PICK l \in Layers : r \in Hits[x][l]
  BY DEF Fits
<1> DEFINE J == {j \in 1..Len(RepoList) : RepoList[j] \in Hits[x][l] \cap listed}
<1>2. PICK i \in 1..Len(RepoList) : RepoList[i] = r
  BY DEF Repos
<1>3. i \in J /\ J \in SUBSET (1..Len(RepoList))
  BY <1>1, <1>2
<1>4. First(J) # {}
  <2>1. Len(RepoList) \in Nat /\ J # {}
    BY <1>3, Sizes
  <2> HIDE DEF J
  <2> QED
    BY <1>3, <2>1, LeastOf
<1>5. FirstHit(x, l, listed) # {}
  BY <1>4 DEF FirstHit
<1> QED
  BY <1>5 DEF MatchRepo, matchByTag, matchByURL, matchBySlug, matchBySubstring, Layers

\* A step that writes no revision and no unmatched post, and that does not enter
\* the import.
LEMMA PostsKept ==
    ASSUME PostsInv, OneRun, NEW p \in Runs, unmatched' = unmatched, known' = known,
           \A i \in RevIds : Exists(i)' => Exists(i) /\ revs'[i] = revs[i],
           \A r \in Repos : repos'[r].there = repos[r].there,
           run'[p].pc = "list" => \A i \in RevIds : ~Exists(i),
           run'[p].pc \in {"post", "point"} =>
             \/ run[p].pc \in {"post", "point"} /\ run'[p].queue = run[p].queue
             \/ run'[p].queue = There /\ \A i \in RevIds : ~Exists(i)
    PROVE  PostStep /\ UnmatchedPosts' /\ Importing'
<1>0. HistoryInv /\ UnmatchedPosts /\ Importing
  BY DEF PostsInv
<1>1. \A x : PostsOf(x)' \subseteq PostsOf(x)
  BY DEF PostsOf
<1>2. PostStep /\ UnmatchedPosts'
  BY <1>0, <1>1 DEF PostStep, UnmatchedPosts, Fits
<1>3. ASSUME NEW id \in RevIds, NEW Q \in SUBSET Repos, Exists(id)', Imported(id, Q)
      PROVE  Imported(id, Q)'
  <2>1. revs'[id] = revs[id] /\ revs[id].post \in Posts
    BY <1>3 DEF Imported
  <2>2. PICK r \in MatchRepo(revs[id].post, Q) : (revs[id].repo = r /\ revs[id].version = 1) \/ ~repos[r].there
    BY <1>3 DEF Imported
  <2>3. r \in Repos
    BY <2>1, <2>2, Matches
  <2> QED
    BY <2>1, <2>2, <2>3 DEF Imported
<1>4. ASSUME NEW id \in RevIds, Exists(id)', run'[p].pc \in {"post", "point"}
      PROVE  /\ Exists(id) /\ Imported(id, run'[p].queue)
             /\ run'[p].queue \in SUBSET Repos
  BY <1>0, <1>4, RunTypes DEF Importing, There
<1>5. ASSUME run'[p].pc \in {"post", "point"}, NEW id \in RevIds, Exists(id)', NEW Q, Q = run'[p].queue
      PROVE  Imported(id, Q)'
  BY <1>3, <1>4, <1>5
<1>6. Importing'
  <2> SUFFICES ASSUME NEW q \in Runs
               PROVE  /\ run'[q].pc = "list" => \A id \in RevIds : ~Exists(id)'
                      /\ run'[q].pc \in {"post", "point"} =>
                           \A id \in RevIds : Exists(id)' => /\ revs'[id].post \in Posts
                              /\ \E r \in MatchRepo(revs'[id].post, run'[q].queue) :
                                   (revs'[id].repo = r /\ revs'[id].version = 1) \/ ~repos'[r].there
    BY DEF Importing, Imported, Exists
  <2>1. q = p
    BY DEF OneRun
  <2> QED
    BY <1>5, <2>1 DEF Imported
<1> QED
  BY <1>2, <1>6

\* Recording a post of the import, with or without a match.
LEMMA RecordUnmatchedPosts ==
    ASSUME PostsInv, OneRun, NEW p \in Runs, RecordUnmatched(p)
    PROVE  PostStep /\ UnmatchedPosts' /\ Importing'
<1>0. HistoryInv /\ UnmatchedPosts /\ Importing /\ known \in [Posts -> SUBSET Repos]
  BY Types DEF PostsInv
<1>1. PICK x \in Posts : x = PostList[run[p].at] /\ run[p].pc = "post"
  BY <1>0, Sizes, RunTypes DEF RecordUnmatched, At
<1>2. PICK Q \in SUBSET Repos : Q = run[p].queue
  BY <1>0, RunTypes
<1>3. /\ MatchRepo(x, Q) = {} /\ unmatched' = unmatched \cup {x} /\ UNCHANGED <<repos, revs>>
      /\ known' = [known EXCEPT ![x] = @ \cup Q]
  BY <1>1, <1>2 DEF RecordUnmatched, Matched, UnmatchedWith
<1>4. \A id \in RevIds : Exists(id) => Imported(id, Q)
  BY <1>0, <1>1, <1>2 DEF Importing
<1>5. \A r \in Q : ~Fits(x, r)
  BY <1>3, MatchFound
<1>6. PostsOf(x) = {}
  BY <1>3, <1>4 DEF PostsOf, Imported
<1>7. (\A id : Exists(id)' <=> Exists(id)) /\ \A y : PostsOf(y)' = PostsOf(y)
  BY <1>3 DEF Exists, PostsOf
<1>8. PostStep
  BY <1>3, <1>6, <1>7 DEF PostStep
<1>9. UnmatchedPosts'
  <2> SUFFICES ASSUME NEW y \in Posts, NEW r \in known'[y] PROVE ~Fits(y, r)
    BY DEF UnmatchedPosts, Fits
  <2>1. CASE y = x /\ r \in Q
    BY <1>5, <2>1
  <2>2. CASE r \in known[y]
    BY <1>0, <2>2 DEF UnmatchedPosts
  <2> QED
    BY <1>0, <1>3, <2>1, <2>2
<1>10. run'[p].pc = "post" /\ run'[p].queue = Q
  <2>1. run' = [run EXCEPT ![p].at = @ + 1] /\ run[p] \in RunRecord /\ run \in [Runs -> RunRecord]
    BY <1>0, Types DEF RecordUnmatched
  <2> QED
    BY <1>1, <1>2, <2>1 DEF RunRecord
<1>11. Importing'
  <2> SUFFICES ASSUME NEW q \in Runs
               PROVE  /\ run'[q].pc # "list"
                      /\ \A id \in RevIds : Exists(id) => Imported(id, run'[q].queue)
    BY <1>3, <1>7 DEF Importing, Imported
  <2> QED
    BY <1>4, <1>10 DEF OneRun
<1> QED
  BY <1>8, <1>9, <1>11

\* A matched post is recorded when it was not before.
LEMMA RecordMatchedPosts ==
    ASSUME PostsInv, OneRun, NEW p \in Runs, NEW id \in RevIds, RecordMatched(p, id)
    PROVE  PostStep /\ UnmatchedPosts' /\ Importing'
<1>0. HistoryInv /\ UnmatchedPosts /\ Importing /\ unmatched \subseteq Posts
  BY Types DEF PostsInv
<1>1. PICK x \in Posts : x = PostList[run[p].at] /\ run[p].pc = "post"
  BY <1>0, Sizes, RunTypes DEF RecordMatched, At
<1>2. PICK Q \in SUBSET Repos : Q = run[p].queue
  BY <1>0, RunTypes
<1>3. PICK q \in MatchRepo(x, Q) :
        /\ Insertable(q, 1)
        /\ revs' = [revs EXCEPT ![id] =
             [status |-> "approved", repo |-> q, version |-> 1, body |-> NoPost,
              ill |-> "none", image |-> NoPost, post |-> x]]
        /\ run' = [run EXCEPT ![p].pc = "point", ![p].repo = q, ![p].rev = id]
  BY <1>1, <1>2 DEF RecordMatched, Matched
<1>4. UNCHANGED <<repos, unmatched, known>> /\ id \in Unborn
  BY DEF RecordMatched, Fresh, First
<1>5. /\ revs'[id].status = "approved" /\ revs'[id].repo = q /\ revs'[id].version = 1 /\ revs'[id].post = x
      /\ \A i \in RevIds \ {id} : revs'[i] = revs[i]
  BY <1>0, <1>3, Types
<1>6. ~Exists(id) /\ Exists(id)' /\ \A i \in RevIds \ {id} : Exists(i)' <=> Exists(i)
  BY <1>4, <1>5 DEF Exists, Unborn
<1>7. \A i \in RevIds : Exists(i) => Imported(i, Q)
  BY <1>0, <1>1, <1>2 DEF Importing
<1>8. repos[q].there /\ Fits(x, q) /\ \A r \in MatchRepo(x, Q) : r = q
  BY <1>3, Matches DEF Fits, Insertable
<1>9. q \notin known[x]
  BY <1>0, <1>8 DEF UnmatchedPosts
<1>10. PostsOf(x) = {}
  <2> SUFFICES ASSUME NEW i \in RevIds, Exists(i), revs[i].post = x PROVE FALSE
    BY DEF PostsOf
  <2>1. Imported(i, Q)
    BY <1>7
  <2>2. (revs[i].repo = q /\ revs[i].version = 1) \/ ~repos[q].there
    BY <1>8, <2>1 DEF Imported
  <2> QED
    BY <1>3, <2>2 DEF Insertable, RowsOf
<1>11. PostsOf(x)' = {id} /\ \A y : y # x => PostsOf(y)' = PostsOf(y)
  BY <1>5, <1>6, <1>10 DEF PostsOf
<1>12. PostStep /\ UnmatchedPosts'
  <2>1. UnmatchedPosts'
    BY <1>0, <1>4 DEF UnmatchedPosts, Fits
  <2>2. PostStep
    BY <1>4, <1>5, <1>9, <1>10, <1>11 DEF PostStep
  <2> QED
    BY <2>1, <2>2
<1>13. run'[p].pc = "point" /\ run'[p].queue = Q
  <2>1. run[p] \in RunRecord /\ run \in [Runs -> RunRecord]
    BY <1>0, Types
  <2> QED
    BY <1>2, <1>3, <2>1 DEF RunRecord
<1>14. ASSUME NEW i \in RevIds, Exists(i)' PROVE Imported(i, Q)'
  <2>1. CASE i = id
    BY <1>3, <1>5, <2>1 DEF Imported
  <2>2. CASE i # id
    <3>1. Imported(i, Q) /\ revs'[i] = revs[i]
      BY <1>5, <1>6, <1>7, <1>14, <2>2
    <3> QED
      BY <1>4, <3>1 DEF Imported
  <2> QED
    BY <2>1, <2>2
<1>15. Importing'
  <2> SUFFICES ASSUME NEW s \in Runs
               PROVE  /\ run'[s].pc # "list"
                      /\ \A i \in RevIds : Exists(i)' =>
                           /\ revs'[i].post \in Posts
                           /\ \E r \in MatchRepo(revs'[i].post, run'[s].queue) :
                                (revs'[i].repo = r /\ revs'[i].version = 1) \/ ~repos'[r].there
    BY DEF Importing, Imported
  <2>1. run'[s] = run'[p]
    BY DEF OneRun
  <2> QED
    BY <1>13, <1>14, <2>1 DEF Imported
<1> QED
  BY <1>12, <1>15

\* A draft belongs to no post of the campaign.
LEMMA InsertDraftPosts ==
    ASSUME PostsInv, OneRun, NEW p \in Runs, NEW id \in RevIds, InsertDraft(p, id)
    PROVE  PostStep /\ UnmatchedPosts' /\ Importing'
<1>0. HistoryInv /\ UnmatchedPosts
  BY DEF PostsInv
<1>1. revs' = [revs EXCEPT ![id] =
        [status |-> "pending_review", repo |-> run[p].repo, version |-> NextVersion(run[p].repo),
         body |-> run[p].body, ill |-> Kind(run[p].ill),
         image |-> IF run[p].ill = "none" THEN NoPost ELSE Image(p), post |-> NoPost]]
  BY DEF InsertDraft
<1>2. revs'[id].post = NoPost /\ \A i \in RevIds \ {id} : revs'[i] = revs[i]
  BY <1>0, <1>1, Types
<1>3. UNCHANGED <<repos, unmatched, known>> /\ id \in Unborn
  BY DEF InsertDraft, Fresh, First
<1>4. \A x \in Posts : PostsOf(x)' = PostsOf(x)
  <2>1. ~Exists(id) /\ \A i \in RevIds \ {id} : Exists(i)' <=> Exists(i)
    BY <1>2, <1>3 DEF Exists, Unborn
  <2> QED
    BY <1>2, <2>1, Sizes DEF PostsOf
<1>5. PostStep /\ UnmatchedPosts'
  BY <1>0, <1>3, <1>4 DEF PostStep, UnmatchedPosts, Fits
<1>6. run'[p].pc = "pointers"
  <2>1. run' = [run EXCEPT ![p].pc = "pointers", ![p].rev = id] /\ run[p] \in RunRecord /\ run \in [Runs -> RunRecord]
    BY <1>0, Types DEF InsertDraft
  <2> QED
    BY <2>1 DEF RunRecord
<1>7. Importing'
  BY <1>6 DEF Importing, OneRun
<1> QED
  BY <1>5, <1>7

\* Only a post without a match changes what is known of the posts.
LEMMA KnownKept ==
    ASSUME NEW p \in Runs, Import(p) \/ ProcessRepo(p) \/ Prune(p) \/ StopRun(p), ~RecordUnmatched(p)
    PROVE  known' = known
<1>1. CASE Import(p)
  BY <1>1 DEF Import, StartRun, CountAll, ListPosts, RecordMatched, PointImported, ImportRefused, ImportDone
<1>2. CASE ProcessRepo(p)
  BY <1>2 DEF ProcessRepo, BuildQueue, ReadRepo, Generate, Illustrate, WriteFile, CreateIllustration,
              InsertDraft, Dedup, InsertRefused, Revert, PointDraft, AwaitReview
<1>3. CASE Prune(p) \/ StopRun(p)
  BY <1>3 DEF Prune, QueueDone, ListForRetention, PruneNext, PruneRow, PruneFile, PruneRev, EndRun, StopRun
<1> QED
  BY <1>1, <1>2, <1>3

\* No step of a run records a post twice.
LEMMA RunPostsStep ==
    ASSUME PostsInv, OneRun, NEW p \in Runs, Import(p) \/ ProcessRepo(p) \/ Prune(p) \/ StopRun(p)
    PROVE  PostStep /\ UnmatchedPosts' /\ Importing'
<1>0. HistoryInv /\ Importing /\ run[p] \in RunRecord /\ run \in [Runs -> RunRecord]
  BY Types DEF PostsInv
<1>1. \A r \in Repos : repos'[r].there = repos[r].there
  BY <1>0, RunKeepsThere
<1>2. revs' = revs => \A i \in RevIds : Exists(i)' => Exists(i) /\ revs'[i] = revs[i]
  BY DEF Exists
<1>9. CASE RecordUnmatched(p)
  BY <1>9, RecordUnmatchedPosts
<1>10. ASSUME ~RecordUnmatched(p) PROVE known' = known
  BY <1>10, KnownKept
<1>3. CASE ~Telling(p)
  <2>1. known' = known
    BY <1>3, <1>10 DEF Telling
  <2> QED
    BY <1>0, <1>1, <1>2, <1>3, <2>1, QuietSteps, PostsKept
<1>4. CASE CountAll(p)
  <2>1. revs' = revs /\ unmatched' = unmatched /\ known' = known /\ run'[p].pc \in {"work", "list"}
        /\ (run'[p].pc = "list" => \A i \in RevIds : ~Exists(i))
    BY <1>0, <1>4 DEF CountAll, Goto, tables, RunRecord
  <2> QED
    BY <1>1, <1>2, <2>1, PostsKept
<1>5. CASE ListPosts(p)
  <2>1. /\ revs' = revs /\ unmatched' = unmatched /\ known' = known /\ run[p].pc = "list"
        /\ run' = [run EXCEPT ![p].pc = "post", ![p].queue = There]
    BY <1>5 DEF ListPosts, At, tables, There
  <2>2. run'[p].pc = "post" /\ run'[p].queue = There
    BY <1>0, <2>1 DEF RunRecord
  <2>3. \A i \in RevIds : ~Exists(i)
    BY <1>0, <2>1 DEF Importing
  <2> QED
    BY <1>1, <1>2, <2>1, <2>2, <2>3, PostsKept
<1>6. CASE PointImported(p)
  <2>1. /\ revs' = revs /\ unmatched' = unmatched /\ known' = known /\ run[p].pc = "point"
        /\ run' = [run EXCEPT ![p].pc = "post", ![p].at = @ + 1, ![p].rev = NoRev]
    BY <1>6 DEF PointImported, At
  <2>2. run'[p].pc = "post" /\ run'[p].queue = run[p].queue
    BY <1>0, <2>1 DEF RunRecord
  <2> QED
    BY <1>1, <1>2, <2>1, <2>2, PostsKept
<1>7. CASE WriteFile(p) \/ CreateIllustration(p) \/ PruneRow(p) \/ PruneFile(p)
  <2>1. revs' = revs /\ unmatched' = unmatched /\ known' = known
    BY <1>7 DEF WriteFile, CreateIllustration, PruneRow, PruneFile
  <2>2. run'[p].pc \in {"row", "insert", "pruneFile", "pruneRev"}
    BY <1>0, <1>7 DEF WriteFile, CreateIllustration, PruneRow, PruneFile, Goto, RunRecord
  <2> QED
    BY <1>1, <1>2, <2>1, <2>2, PostsKept
<1>8. CASE PruneRev(p)
  <2>1. \A i \in RevIds : revs'[i] = revs[i] \/ revs'[i].status = "deleted"
    BY <1>0, <1>8, PruneRevStep
  <2>2. \A i \in RevIds : Exists(i)' => Exists(i) /\ revs'[i] = revs[i]
    BY <2>1 DEF Exists
  <2>3. unmatched' = unmatched /\ known' = known /\ run'[p].pc = "prune"
    BY <1>0, <1>8 DEF PruneRev, Goto, RunRecord
  <2> QED
    BY <1>1, <2>2, <2>3, PostsKept
<1> QED
  BY <1>9, <1>3, <1>4, <1>5, <1>6, <1>7, <1>8, RecordMatchedPosts, InsertDraftPosts
  DEF Telling

\* A merge, a review or a new repository keeps the posts of the revisions; what a
\* merge moves, it moves from a repository that goes.
LEMMA PostsMoved ==
    ASSUME PostsInv, UNCHANGED <<run, unmatched, known>>,
           \A r \in Repos : repos'[r].there => repos[r].there \/ r \in coming,
           \A i \in RevIds :
             /\ Exists(i)' <=> Exists(i)
             /\ Exists(i) => revs'[i].post = revs[i].post /\ revs'[i].version = revs[i].version
             /\ Exists(i) => revs'[i].repo = revs[i].repo \/ ~repos'[revs[i].repo].there
    PROVE  PostStep /\ UnmatchedPosts' /\ Importing'
<1>0. HistoryInv /\ UnmatchedPosts /\ Importing
  BY DEF PostsInv
<1>1. \A x \in Posts : PostsOf(x)' = PostsOf(x)
  BY DEF PostsOf
<1>2. PostStep /\ UnmatchedPosts'
  BY <1>0, <1>1 DEF PostStep, UnmatchedPosts, Fits
<1>3. ASSUME NEW i \in RevIds, Exists(i), NEW Q \in SUBSET Repos, Imported(i, Q), Q \cap coming = {}
      PROVE  Imported(i, Q)'
  <2>1. PICK r \in MatchRepo(revs[i].post, Q) : (revs[i].repo = r /\ revs[i].version = 1) \/ ~repos[r].there
    BY <1>3 DEF Imported
  <2>2. r \in Q /\ r \in Repos /\ revs[i].post \in Posts
    BY <1>3, <2>1, Matches DEF Imported
  <2>3. (revs'[i].repo = r /\ revs'[i].version = 1) \/ ~repos'[r].there
    BY <1>3, <2>1, <2>2
  <2> QED
    BY <1>3, <2>1, <2>2, <2>3 DEF Imported
<1>4. \A q \in Runs : run[q].queue \in SUBSET Repos
  BY <1>0, RunTypes
<1>5. Importing'
  <2> SUFFICES ASSUME NEW q \in Runs, NEW Q \in SUBSET Repos, Q = run[q].queue
               PROVE  /\ run[q].pc = "list" => \A id \in RevIds : ~Exists(id)'
                      /\ run[q].pc \in {"post", "point"} =>
                           \A id \in RevIds : Exists(id)' => Imported(id, Q)'
    BY <1>4 DEF Importing, Imported
  <2>1. run[q].pc \in {"post", "point"} => Q \cap coming = {}
    BY <1>0, RunTypes DEF StageOK
  <2> QED
    BY <1>0, <1>3, <2>1 DEF Importing
<1> QED
  BY <1>2, <1>5

\* Every step records a post at most once.
LEMMA PostsStep == OneRun /\ PostsInv /\ [Next]_vars => PostStep /\ PostsInv'
<1> SUFFICES ASSUME OneRun, PostsInv, [Next]_vars PROVE PostStep /\ PostsInv'
  OBVIOUS
<1>1. HistoryInv /\ HistoryInv'
  BY HistoryStep DEF PostsInv
<1>2. ASSUME NEW p \in Runs, Import(p) \/ ProcessRepo(p) \/ Prune(p) \/ StopRun(p)
      PROVE  PostStep /\ UnmatchedPosts' /\ Importing'
  BY <1>2, RunPostsStep
<1>3. CASE UNCHANGED <<repos, revs, run, unmatched, known>>
  <2>1. PostStep /\ UnmatchedPosts' /\ Importing'
    BY <1>3, PostsMoved DEF Exists
  <2> QED
    BY <1>1, <2>1 DEF PostsInv
<1>4. ASSUME NEW m \in Merges, MergeCommit(m)
      PROVE  PostStep /\ UnmatchedPosts' /\ Importing'
  <2>1. PICK old \in Repos, new \in Repos : old = mrg[m].old /\ new = mrg[m].new
    BY <1>1, MergeTypes
  <2>2. revs' = Reparented(old, new) /\ UNCHANGED <<run, unmatched, known>>
    BY <1>4, <2>1 DEF MergeCommit
  <2>3. ~repos'[old].there /\ \A r \in Repos \ {old} : repos'[r].there = repos[r].there
    BY <1>1, <1>4, <2>1, CommitRepos
  <2>4. \A i \in RevIds :
             /\ Exists(i)' <=> Exists(i)
             /\ Exists(i) => revs'[i].post = revs[i].post /\ revs'[i].version = revs[i].version
             /\ Exists(i) => revs'[i].repo = IF revs[i].repo = old THEN new ELSE revs[i].repo
    BY <1>1, <2>2, ReparentedRows
  <2>5. \A r \in Repos : repos'[r].there => repos[r].there
    BY <2>3
  <2>6. \A i \in RevIds : Exists(i) => revs'[i].repo = revs[i].repo \/ ~repos'[revs[i].repo].there
    BY <2>3, <2>4
  <2> QED
    BY <2>2, <2>4, <2>5, <2>6, PostsMoved
<1>5. ASSUME NEW m \in Merges, Merge(m) \/ StopMerge(m), ~MergeCommit(m)
      PROVE  UNCHANGED <<repos, revs, run, unmatched, known>>
  BY <1>5 DEF Merge, MergeLookup, MergeCheck, MergeRollback, Unlink, StopMerge, tables
<1>6. ASSUME NEW id \in RevIds, Reject(id)
      PROVE  PostStep /\ UnmatchedPosts' /\ Importing'
  <2>1. /\ \A i \in RevIds \ {id} : revs'[i] = revs[i]
        /\ Exists(id) /\ Exists(id)' /\ revs'[id].repo = revs[id].repo
        /\ revs'[id].version = revs[id].version /\ revs'[id].post = revs[id].post
    BY <1>1, <1>6, RejectStep
  <2>2. \A i \in RevIds : /\ Exists(i)' <=> Exists(i)
                          /\ revs'[i].repo = revs[i].repo /\ revs'[i].version = revs[i].version
                          /\ revs'[i].post = revs[i].post
    BY <2>1 DEF Exists
  <2>3. UNCHANGED <<repos, run, unmatched, known>>
    BY <1>6 DEF Reject
  <2> QED
    BY <2>2, <2>3, PostsMoved
<1>7. CASE UNCHANGED vars
  BY <1>3, <1>7 DEF vars, tables
<1>8. ASSUME NEW r \in Repos, AddRepo(r)
      PROVE  PostStep /\ UnmatchedPosts' /\ Importing'
  <2>1. UNCHANGED <<run, revs, unmatched, known>> /\ r \in coming
    BY <1>8 DEF AddRepo
  <2>2. \A q \in Repos : repos'[q].there => repos[q].there \/ q \in coming
    BY <1>1, <1>8, <2>1, Types DEF AddRepo
  <2> QED
    BY <2>1, <2>2, PostsMoved DEF Exists
<1> QED
  BY <1>1, <1>2, <1>3, <1>4, <1>5, <1>6, <1>7, <1>8 DEF Next, PostsInv

\* With one run at a time a post of the campaign is recorded once, although imports
\* are cut short and started again while repositories come, go and are merged: as
\* one revision or as unmatched, and as both only when its repository was inserted
\* after it was found to match none (import.go, import_match.go).
THEOREM PostsAreRecordedOnce == (\A p, q \in Runs : p = q) => (Spec => PostRecordedOnce)
<1> SUFFICES ASSUME \A p, q \in Runs : p = q PROVE Spec => PostRecordedOnce
  OBVIOUS
<1>1. OneRun
  BY DEF OneRun
<1>2. Init => PostsInv
  <2> SUFFICES ASSUME Init PROVE PostsInv
    OBVIOUS
  <2>1. (\A x \in Posts : known[x] = {}) /\ \A p \in Runs : run[p].pc = "off"
    BY OffTypes DEF Init
  <2> QED
    BY <2>1, HistoryInit DEF PostsInv, UnmatchedPosts, Importing
<1>3. PostsInv /\ [Next]_vars => PostsInv'
  BY <1>1, PostsStep
<1>4. PostsInv /\ [Next]_vars
      => [\A x \in Posts :
            /\ x \in unmatched' \ unmatched => PostsOf(x) = {}
            /\ \A id \in PostsOf(x)' \ PostsOf(x) :
                /\ PostsOf(x) = {} /\ PostsOf(x)' = {id}
                /\ x \in unmatched => revs'[id].repo \notin known[x]]_vars
  BY <1>1, PostsStep DEF PostStep
<1> QED
  BY <1>2, <1>3, <1>4, PTL DEF Spec, PostRecordedOnce
=============================================================================
