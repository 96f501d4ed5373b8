----------------------------- MODULE RepoHistory -----------------------------
(***************************************************************************)
(* How a repository comes by its revisions and how they change hands: the  *)
(* first-run import (import.go, import_match.go), the drafts of a process  *)
(* run with their illustrations (pipeline.go, illustration/generator.go),  *)
(* the pruner's clean-up of those (pruner.go) and `merge-history`          *)
(* (merge_history.go), which moves the history of a renamed repository     *)
(* while process runs go on.                                               *)
(*                                                                         *)
(* Review, publication and the queue are ContentSystem's: here a draft is  *)
(* at some time rejected, and a run may take up any repository.  An        *)
(* illustration is known by its prompt, hence by repository and body, and  *)
(* by whether its data were sent along ("data") or a URL or nothing was    *)
(* ("nodata"); only the former has a file, apart from its row.             *)
(*                                                                         *)
(* The database is SQLite, where a transaction that begins with a write    *)
(* has the database to itself: on Postgres other commands come in between  *)
(* the statements of merge-history, and more columns are foreign keys.     *)
(***************************************************************************)
EXTENDS Naturals, Sequences, FiniteSets, SequencesExt

CONSTANTS
    RepoList,       \* the repositories in the order List returns them
    Pages,          \* the pages on which Patreon lists the campaign's posts
    Hits,           \* post -> layer of the matcher -> repositories it fits
    Bodies,         \* what the language model may write
    Painters,       \* the configured image providers
    RevIds,
    NoRev, NoPost,
    Runs,           \* process runs
    Merges,         \* merge-history commands
    MaxArticlesPerRun,
    KeepTop,        \* MAX_REVISIONS
    MaxStops        \* bound: how often a command ends early

Repos == {RepoList[i] : i \in 1..Len(RepoList)}

\* ListCampaignPosts follows the links to the last page; a page that fails ends
\* the run (StopRun).
PostList == FlattenSeq(Pages)

Posts == {PostList[i] : i \in 1..Len(PostList)}
Layers == {"tag", "url", "slug", "substring"}
Images == Repos \X Bodies
Kinds == {"data", "nodata"}

\* What the image providers answer.  Only Stability sends data, unless its answer
\* is empty; what else the others send than a URL is dropped.
DALLE == {"nodata", "error"}
Stability == {"data", "nodata", "error"}
Midjourney == {"nodata", "error"}
OpenAICompat == {"nodata", "error"}

Answers(painter) ==
    CASE painter = "dalle"      -> DALLE
      [] painter = "stability"  -> Stability
      [] painter = "midjourney" -> Midjourney
      [] OTHER                  -> OpenAICompat

\* FallbackProvider: the first that does not fail; "none" when all do.
GenerateImage == ((UNION {Answers(x) : x \in Painters}) \ {"error"}) \cup {"none"}

ASSUME HistoryAssumption ==
    /\ RepoList \in Seq(Repos) /\ RepoList # <<>> /\ PostList \in Seq(Posts)
    /\ Hits \in [Posts -> [Layers -> SUBSET Repos]]
    /\ \A x \in Posts : Hits[x]["slug"] \subseteq Hits[x]["substring"]
    /\ IsFiniteSet(RevIds) /\ RevIds \subseteq Nat /\ NoRev \notin RevIds /\ NoPost \notin Posts
    /\ Painters \subseteq {"dalle", "stability", "midjourney", "openai_compat"}
    /\ KeepTop \in Nat /\ MaxArticlesPerRun \in Nat /\ MaxStops \in Nat

VARIABLES
    repos,      \* repository -> [there, state, current, published]
    revs,       \* id -> row of content_revisions, or Unused, or Deleted
    unmatched,  \* posts in unmatched_patreon_posts
    ills,       \* rows of illustrations: images with their kinds
    files,      \* images with a file in ILLUSTRATION_DIR
    run, mrg,   \* where the commands are and what they have read
    cut,        \* history: an import ended after its first revision
    known,      \* history: repositories listed when a post was found to match none
    coming,     \* repositories whose rows are yet to be inserted
    stops

tables == <<repos, revs, unmatched, ills, files>>
vars == <<tables, run, mrg, cut, known, coming, stops>>

Unused == [status |-> "unused"]
Deleted == [status |-> "deleted"]
Pointer == RevIds \cup {NoRev}

Revision == [status : {"pending_review", "approved", "rejected"}, repo : Repos,
             version : 1..Cardinality(RevIds), body : Bodies \cup {NoPost},
             ill : Kinds \cup {"none"}, image : Images \cup {NoPost}, post : Posts \cup {NoPost}]

Off == [pc |-> "off", at |-> 1, queue |-> {}, repo |-> RepoList[1], body |-> NoPost,
        ill |-> "none", rev |-> NoRev, doomed |-> {}]

Merging == [pc |-> "off", old |-> RepoList[1], new |-> RepoList[1],
            current |-> NoRev, published |-> NoRev, files |-> {}]

TypeOK ==
    /\ repos \in [Repos -> [there : BOOLEAN, state : {"idle", "processing", "awaiting_review"},
                            current : Pointer, published : Pointer]]
    /\ revs \in [RevIds -> Revision \cup {Unused, Deleted}]
    /\ unmatched \subseteq Posts /\ ills \subseteq Images \X Kinds /\ files \subseteq Images
    /\ run \in [Runs -> [pc : {"off", "count", "list", "post", "point", "work", "read",
                               "generate", "image", "file", "row", "insert", "pointers", "state",
                               "revert", "abort", "prune", "pruneRow", "pruneFile", "pruneRev"},
                         at : 1..(Len(PostList) + 1), queue : SUBSET Repos, repo : Repos,
                         body : Bodies \cup {NoPost}, ill : Kinds \cup {"none", "drawn"}, rev : Pointer,
                         doomed : SUBSET RevIds]]
    /\ mrg \in [Merges -> [pc : {"off", "check", "tx", "unlink"}, old : Repos, new : Repos,
                           current : Pointer, published : Pointer, files : SUBSET Images]]
    /\ cut \in BOOLEAN /\ stops \in 0..MaxStops
    /\ known \in [Posts -> SUBSET Repos] /\ coming \subseteq Repos

New == [there |-> TRUE, state |-> "idle", current |-> NoRev, published |-> NoRev]
Gone == [New EXCEPT !.there = FALSE]

\* Any of the repositories may be there when the first run begins.
Init ==
    /\ coming \in SUBSET Repos
    /\ repos = [r \in Repos |-> IF r \in coming THEN Gone ELSE New]
    /\ revs = [id \in RevIds |-> Unused]
    /\ unmatched = {} /\ ills = {} /\ files = {}
    /\ run = [p \in Runs |-> Off] /\ mrg = [m \in Merges |-> Merging]
    /\ cut = FALSE /\ known = [x \in Posts |-> {}] /\ stops = 0

-----------------------------------------------------------------------------
(***************************************************************************)
(* Reads.                                                                  *)
(***************************************************************************)
Exists(id) == id \in RevIds /\ revs[id].status \notin {"unused", "deleted"}
RowsOf(r) == {id \in RevIds : Exists(id) /\ revs[id].repo = r}
Unborn == {id \in RevIds : revs[id].status = "unused"}
First(S) == {i \in S : \A j \in S : i <= j}
Fresh == First(Unborn)   \* a uuid; which one does not matter
MaxVersion(r) ==
    Cardinality({n \in 1..Cardinality(RevIds) : \E id \in RowsOf(r) : n <= revs[id].version})
\* Mutant: the version is counted up twice.
MutCountsTwice(r) == MaxVersion(r) + 2
NextVersion(r) == MaxVersion(r) + 1

\* A layer's answer: the first listed repository that fits, or none.
FirstHit(x, layer, listed) ==
    {RepoList[i] : i \in First({j \in 1..Len(RepoList) : RepoList[j] \in Hits[x][layer] \cap listed})}

matchByTag(x, listed) == FirstHit(x, "tag", listed)              \* repo:<id> in the text
matchByURL(x, listed) == FirstHit(x, "url", listed)              \* its address in the text
matchBySlug(x, listed) == FirstHit(x, "slug", listed)            \* its name, a word of the title
matchBySubstring(x, listed) == FirstHit(x, "substring", listed)  \* its name within the title

\* matchRepoLayered: the first layer that has an answer wins.
MatchRepo(x, listed) ==
    IF matchByTag(x, listed) # {} THEN matchByTag(x, listed)
    ELSE IF matchByURL(x, listed) # {} THEN matchByURL(x, listed)
    ELSE IF matchBySlug(x, listed) # {} THEN matchBySlug(x, listed)
    ELSE matchBySubstring(x, listed)

\* Mutant: no UNIQUE(repository_id, version).
MutNoUniqueVersion(r, v) == repos[r].there
\* INSERT into content_revisions: UNIQUE(repository_id, version), repository_id
\* a foreign key in both dialects.
Insertable(r, v) == repos[r].there /\ \A id \in RowsOf(r) : revs[id].version # v

At(p, pc) == run[p].pc = pc
Goto(p, pc) == run' = [run EXCEPT ![p].pc = pc]
WhereThere(r, row) == IF repos[r].there THEN [repos EXCEPT ![r] = row] ELSE repos

-----------------------------------------------------------------------------
(***************************************************************************)
(* The first-run import, at the start of every process run.                *)
(***************************************************************************)
StartRun(p) ==
    /\ At(p, "off")
    /\ Goto(p, "count")
    /\ UNCHANGED <<tables, mrg, cut, known, coming, stops>>

\* Mutant: only revisions that a repository publishes count.
MutCountsPublished(p) ==
    /\ At(p, "count")
    /\ Goto(p, IF \E r \in Repos : Exists(repos[r].published) THEN "work" ELSE "list")
    /\ UNCHANGED <<tables, mrg, cut, known, coming, stops>>

\* CountAll: any revision at all, and the import is over.
CountAll(p) ==
    /\ At(p, "count")
    /\ Goto(p, IF \E id \in RevIds : Exists(id) THEN "work" ELSE "list")
    /\ UNCHANGED <<tables, mrg, cut, known, coming, stops>>

\* The importer lists the posts and the repositories.
ListPosts(p) ==
    /\ At(p, "list")
    /\ run' = [run EXCEPT ![p].pc = "post", ![p].queue = {r \in Repos : repos[r].there}]
    /\ UNCHANGED <<tables, mrg, cut, known, coming, stops>>

Matched(p) == MatchRepo(PostList[run[p].at], run[p].queue)

\* Record: ON CONFLICT DO NOTHING.
UnmatchedWith(x) == unmatched \cup {x}

\* Mutant: the loop ends at an unmatched post.
MutBreaks(p) ==
    /\ At(p, "post") /\ run[p].at <= Len(PostList)
    /\ Matched(p) = {}
    /\ unmatched' = UnmatchedWith(PostList[run[p].at])
    /\ known' = [known EXCEPT ![PostList[run[p].at]] = @ \cup run[p].queue]
    /\ run' = [run EXCEPT ![p].at = Len(PostList) + 1]
    /\ UNCHANGED <<repos, revs, ills, files, mrg, cut, coming, stops>>

RecordUnmatched(p) ==
    /\ At(p, "post") /\ run[p].at <= Len(PostList)
    /\ Matched(p) = {}
    /\ unmatched' = UnmatchedWith(PostList[run[p].at])
    /\ known' = [known EXCEPT ![PostList[run[p].at]] = @ \cup run[p].queue]
    /\ run' = [run EXCEPT ![p].at = @ + 1]
    /\ UNCHANGED <<repos, revs, ills, files, mrg, cut, coming, stops>>

\* recordMatched: version 1, already live on Patreon.
RecordMatched(p, id) ==
    /\ At(p, "post") /\ run[p].at <= Len(PostList) /\ id \in Fresh
    /\ \E r \in Matched(p) :
        /\ Insertable(r, 1)
        /\ revs' = [revs EXCEPT ![id] =
            [status |-> "approved", repo |-> r, version |-> 1, body |-> NoPost,
             ill |-> "none", image |-> NoPost, post |-> PostList[run[p].at]]]
        /\ run' = [run EXCEPT ![p].pc = "point", ![p].repo = r, ![p].rev = id]
    /\ UNCHANGED <<repos, unmatched, ills, files, mrg, cut, known, coming, stops>>

PointImported(p) ==
    /\ At(p, "point")
    /\ repos' = WhereThere(run[p].repo, [repos[run[p].repo] EXCEPT !.current = run[p].rev,
                                                                  !.published = run[p].rev])
    /\ run' = [run EXCEPT ![p].pc = "post", ![p].at = @ + 1, ![p].rev = NoRev]
    /\ UNCHANGED <<revs, unmatched, ills, files, mrg, cut, known, coming, stops>>

\* A second post of one repository, another run's import of it, or a repository
\* that has gone: the INSERT fails, the import and the run end.
ImportRefused(p) ==
    /\ At(p, "post") /\ run[p].at <= Len(PostList)
    /\ \E r \in Matched(p) : ~ Insertable(r, 1)
    /\ run' = [run EXCEPT ![p] = Off]
    /\ cut' = (cut \/ \E id \in RevIds : Exists(id))
    /\ UNCHANGED <<tables, mrg, known, coming, stops>>

ImportDone(p) ==
    /\ At(p, "post") /\ run[p].at > Len(PostList)
    /\ run' = [run EXCEPT ![p] = [Off EXCEPT !.pc = "work"]]
    /\ UNCHANGED <<tables, mrg, cut, known, coming, stops>>

-----------------------------------------------------------------------------
(***************************************************************************)
(* ProcessRepo and its illustration.                                       *)
(***************************************************************************)
\* The queue: some repositories that are there when it is built (no more than
\* there are ids left for).
Drafting == {q \in Runs : run[q].pc \in {"generate", "image", "file", "row", "insert"}}
Promised(Q) ==
    Cardinality(Q) + Cardinality(Drafting)
        + Cardinality({x \in Runs \X Repos : run[x[1]].pc # "post" /\ x[2] \in run[x[1]].queue})
BuildQueue(p, Q) ==
    /\ At(p, "work")
    /\ Q \subseteq {r \in Repos : repos[r].there}
    /\ Cardinality(Q) <= MaxArticlesPerRun
    /\ Q = {} \/ Promised(Q) <= Cardinality(Unborn)
    /\ run' = [run EXCEPT ![p] = [Off EXCEPT !.pc = "read", !.queue = Q]]
    /\ UNCHANGED <<tables, mrg, cut, known, coming, stops>>

\* GetByID (a repository that is gone is skipped) and SetProcessState.
ReadRepo(p, r) ==
    /\ At(p, "read") /\ r \in run[p].queue
    /\ repos' = WhereThere(r, [repos[r] EXCEPT !.state = "processing"])
    /\ run' = [run EXCEPT ![p].pc = IF repos[r].there THEN "generate" ELSE "read",
                          ![p].queue = @ \ {r}, ![p].repo = r]
    /\ UNCHANGED <<revs, unmatched, ills, files, mrg, cut, known, coming, stops>>

Image(p) == <<run[p].repo, run[p].body>>
RowsFor(image) == {row \in ills : row[1] = image}

\* The article, or the error of the generator.
Generate(p, b) ==
    /\ At(p, "generate")
    /\ \/ Goto(p, "abort")
       \/ run' = [run EXCEPT ![p].pc = "image", ![p].body = b]
    /\ UNCHANGED <<tables, mrg, cut, known, coming, stops>>

\* GenerateForRevision: the illustration on record when the prompt was met before,
\* else what the providers draw.
Illustrate(p) ==
    /\ At(p, "image")
    /\ \/ \E row \in RowsFor(Image(p)) :
            run' = [run EXCEPT ![p].pc = "insert", ![p].ill = row[2]]
       \/ RowsFor(Image(p)) = {} /\ \E a \in GenerateImage :
            run' = [run EXCEPT ![p].ill = IF a = "data" THEN "drawn" ELSE a,
                               ![p].pc = CASE a = "none" -> "insert"
                                           [] a = "data" -> "file"
                                           [] OTHER      -> "row"]
    /\ UNCHANGED <<tables, mrg, cut, known, coming, stops>>

\* Without its file the illustration is given up.
WriteFile(p) ==
    /\ At(p, "file")
    /\ \/ files' = files \cup {Image(p)} /\ Goto(p, "row")
       \/ files' = files /\ run' = [run EXCEPT ![p].pc = "insert", ![p].ill = "none"]
    /\ UNCHANGED <<repos, revs, unmatched, ills, mrg, cut, known, coming, stops>>

Kind(ill) == IF ill = "drawn" THEN "data" ELSE ill

\* IllustrationStore.Create; that the repository is gone, or any other error, is
\* only logged.
CreateIllustration(p) ==
    /\ At(p, "row")
    /\ ills' \in {ills, ills \cup {row \in {<<Image(p), Kind(run[p].ill)>>} :
                                        repos[run[p].repo].there}}
    /\ Goto(p, "insert")
    /\ UNCHANGED <<repos, revs, unmatched, files, mrg, cut, known, coming, stops>>

\* Fingerprint: of the body and of the image's data.  No two drawings are alike.
Duplicate(p) ==
    \E id \in RowsOf(run[p].repo) :
        /\ revs[id].body = run[p].body /\ revs[id].ill = run[p].ill
        /\ run[p].ill = "data" => revs[id].image = Image(p)

\* The constraints of the INSERT.
Accepted(p) == Insertable(run[p].repo, NextVersion(run[p].repo))

InsertDraft(p, id) ==
    /\ At(p, "insert") /\ ~ Duplicate(p) /\ id \in Fresh
    /\ Accepted(p)
    /\ LET r == run[p].repo IN
        revs' = [revs EXCEPT ![id] =
            [status |-> "pending_review", repo |-> r, version |-> NextVersion(r),
             body |-> run[p].body, ill |-> Kind(run[p].ill),
             image |-> IF run[p].ill = "none" THEN NoPost ELSE Image(p), post |-> NoPost]]
    /\ run' = [run EXCEPT ![p].pc = "pointers", ![p].rev = id]
    /\ UNCHANGED <<repos, unmatched, ills, files, mrg, cut, known, coming, stops>>

\* Nothing new to say: back to idle.
Dedup(p) ==
    /\ At(p, "insert") /\ Duplicate(p)
    /\ Goto(p, "revert")
    /\ UNCHANGED <<tables, mrg, cut, known, coming, stops>>

\* The repository went away: the run ends.
InsertRefused(p) ==
    /\ At(p, "insert") /\ ~ Duplicate(p)
    /\ ~ Accepted(p)
    /\ Goto(p, "abort")
    /\ UNCHANGED <<tables, mrg, cut, known, coming, stops>>

SetState(p, s) == repos' = WhereThere(run[p].repo, [repos[run[p].repo] EXCEPT !.state = s])

Revert(p) ==
    /\ run[p].pc \in {"revert", "abort"}
    /\ SetState(p, "idle")
    /\ run' = [run EXCEPT ![p] = IF At(p, "abort") THEN Off
                                 ELSE [Off EXCEPT !.pc = "read", !.queue = run[p].queue]]
    /\ UNCHANGED <<revs, unmatched, ills, files, mrg, cut, known, coming, stops>>

PointDraft(p) ==
    /\ At(p, "pointers")
    /\ repos' = WhereThere(run[p].repo, [repos[run[p].repo] EXCEPT !.current = run[p].rev])
    /\ Goto(p, "state")
    /\ UNCHANGED <<revs, unmatched, ills, files, mrg, cut, known, coming, stops>>

AwaitReview(p) ==
    /\ At(p, "state")
    /\ SetState(p, "awaiting_review")
    /\ run' = [run EXCEPT ![p] = [Off EXCEPT !.pc = "read", !.queue = run[p].queue]]
    /\ UNCHANGED <<revs, unmatched, ills, files, mrg, cut, known, coming, stops>>

-----------------------------------------------------------------------------
(***************************************************************************)
(* Prune: the illustration's row, its file, then the revision.             *)
(***************************************************************************)
ForRetention(r) ==
    {id \in RowsOf(r) :
        /\ revs[id].status = "rejected"
        /\ Cardinality({j \in RowsOf(r) : revs[j].version > revs[id].version}) >= KeepTop}

QueueDone(p) ==
    /\ At(p, "read") /\ run[p].queue = {}
    /\ run' = [run EXCEPT ![p] = [Off EXCEPT !.pc = "prune",
                                             !.queue = {r \in Repos : repos[r].there}]]
    /\ UNCHANGED <<tables, mrg, cut, known, coming, stops>>

ListForRetention(p, r) ==
    /\ At(p, "prune") /\ run[p].doomed = {} /\ run[p].queue # {}
    /\ r = RepoList[CHOOSE i \in First({j \in 1..Len(RepoList) : RepoList[j] \in run[p].queue}) : TRUE]
    /\ run' = [run EXCEPT ![p].queue = @ \ {r}, ![p].doomed = ForRetention(r)]
    /\ UNCHANGED <<tables, mrg, cut, known, coming, stops>>

\* GetByID of its illustration, if there is one; an error of it is dropped.
PruneNext(p, id) ==
    /\ At(p, "prune") /\ id \in run[p].doomed
    /\ \/ /\ Exists(id) /\ RowsFor(revs[id].image) # {}
          /\ run' = [run EXCEPT ![p].pc = "pruneRow", ![p].doomed = @ \ {id}, ![p].rev = id,
                                ![p].repo = revs[id].image[1], ![p].body = revs[id].image[2]]
       \/ run' = [run EXCEPT ![p].pc = "pruneRev", ![p].doomed = @ \ {id}, ![p].rev = id]
    /\ UNCHANGED <<tables, mrg, cut, known, coming, stops>>

\* The error of the DELETE is dropped: refused by a busy database, it leaves the
\* row there and the run goes on to the file.
PruneRow(p) ==
    /\ At(p, "pruneRow")
    /\ ills' \in {ills, ills \ RowsFor(Image(p))}
    /\ Goto(p, "pruneFile")
    /\ UNCHANGED <<repos, revs, unmatched, files, mrg, cut, known, coming, stops>>

\* So is the error of the cleanup.  The path of a row without data is no file
\* below ILLUSTRATION_DIR.
PruneFile(p) ==
    /\ At(p, "pruneFile")
    /\ files' \in {files, IF revs[run[p].rev].ill = "data" THEN files \ {Image(p)} ELSE files}
    /\ Goto(p, "pruneRev")
    /\ UNCHANGED <<repos, revs, unmatched, ills, mrg, cut, known, coming, stops>>

PruneRev(p) ==
    /\ At(p, "pruneRev")
    /\ revs' = [revs EXCEPT ![run[p].rev] = Deleted]
    /\ Goto(p, "prune")
    /\ UNCHANGED <<repos, unmatched, ills, files, mrg, cut, known, coming, stops>>

EndRun(p) ==
    /\ At(p, "prune") /\ run[p].doomed = {} /\ run[p].queue = {}
    /\ run' = [run EXCEPT ![p] = Off]
    /\ UNCHANGED <<tables, mrg, cut, known, coming, stops>>

-----------------------------------------------------------------------------
(***************************************************************************)
(* merge-history <old> <new> [--cleanup].                                  *)
(***************************************************************************)
MergeAt(m, pc) == mrg[m].pc = pc

\* Both rows are read; an old repository that is processing refuses.
MergeLookup(m, old, new) ==
    /\ MergeAt(m, "off") /\ old # new
    /\ repos[old].there /\ repos[new].there
    /\ repos[old].state # "processing"
    /\ mrg' = [mrg EXCEPT ![m] =
        [pc |-> "check", old |-> old, new |-> new, files |-> {},
         current |-> IF repos[new].current = NoRev THEN repos[old].current ELSE NoRev,
         published |-> IF repos[new].published = NoRev THEN repos[old].published ELSE NoRev]]
    /\ UNCHANGED <<tables, run, cut, known, coming, stops>>

\* A new repository with revisions refuses; --cleanup lists the old one's files.
MergeCheck(m, cleanup) ==
    /\ MergeAt(m, "check")
    /\ mrg' = [mrg EXCEPT ![m] =
        IF RowsOf(mrg[m].new) # {} THEN Merging
        ELSE [mrg[m] EXCEPT !.pc = "tx",
                            !.files = {i \in Images : cleanup /\ i[1] = mrg[m].old /\ <<i, "data">> \in ills}]]
    /\ UNCHANGED <<tables, run, cut, known, coming, stops>>

\* UNIQUE(repository_id, version), or the foreign key: the new row is gone.
Collides(old, new) ==
    \/ \E i \in RowsOf(old), j \in RowsOf(new) : revs[i].version = revs[j].version
    \/ RowsOf(old) # {} /\ ~ repos[new].there

\* Mutant: only the approved revisions are re-parented; the others go with the
\* old repository (ON DELETE CASCADE).
MutReparentsApproved(old, new) ==
    [id \in RevIds |->
        IF id \notin RowsOf(old) THEN revs[id]
        ELSE IF revs[id].status = "approved" THEN [revs[id] EXCEPT !.repo = new]
        ELSE Deleted]

Reparented(old, new) ==
    [id \in RevIds |-> IF id \in RowsOf(old) THEN [revs[id] EXCEPT !.repo = new] ELSE revs[id]]

Keep(read, row) == IF read # NoRev THEN read ELSE row

\* Mutant: --cleanup unlinks although the transaction was rolled back.
MutUnlinksAnyway(m) ==
    /\ MergeAt(m, "tx") /\ Collides(mrg[m].old, mrg[m].new)
    /\ mrg' = [mrg EXCEPT ![m].pc = "unlink"]
    /\ UNCHANGED <<tables, run, cut, known, coming, stops>>

MergeRollback(m) ==
    /\ MergeAt(m, "tx") /\ Collides(mrg[m].old, mrg[m].new)
    /\ mrg' = [mrg EXCEPT ![m] = Merging]
    /\ UNCHANGED <<tables, run, cut, known, coming, stops>>

\* The transaction, with what was read before it: re-parent, hand over the
\* pointers the new row did not have, delete the old row (cascades to its
\* illustrations).  It begins with an UPDATE, which holds the database until COMMIT.
MergeCommit(m) ==
    LET old == mrg[m].old  new == mrg[m].new IN
    /\ MergeAt(m, "tx") /\ ~ Collides(old, new)
    /\ revs' = Reparented(old, new)
    /\ repos' = [repos EXCEPT
        ![new].current = IF repos[new].there THEN Keep(mrg[m].current, @) ELSE @,
        ![new].published = IF repos[new].there THEN Keep(mrg[m].published, @) ELSE @,
        ![old] = Gone]
    /\ ills' = {row \in ills : row[1][1] # old}
    /\ mrg' = [mrg EXCEPT ![m].pc = "unlink"]
    /\ UNCHANGED <<unmatched, files, run, cut, known, coming, stops>>

\* unlinkIllustrationFiles: each path that can be removed is.
Unlink(m, failed) ==
    /\ MergeAt(m, "unlink") /\ failed \subseteq mrg[m].files
    /\ files' = files \ (mrg[m].files \ failed)
    /\ mrg' = [mrg EXCEPT ![m] = Merging]
    /\ UNCHANGED <<repos, revs, unmatched, ills, run, cut, known, coming, stops>>

-----------------------------------------------------------------------------
\* A reviewer rejects a draft (PreviewReview).
Reject(id) ==
    /\ Exists(id) /\ revs[id].status = "pending_review"
    /\ revs' = [revs EXCEPT ![id].status = "rejected"]
    /\ UNCHANGED <<repos, unmatched, ills, files, run, mrg, cut, known, coming, stops>>

\* A repository's row is inserted from without; one merged away does not come back.
AddRepo(r) ==
    /\ r \in coming
    /\ coming' = coming \ {r}
    /\ repos' = [repos EXCEPT ![r] = New]
    /\ UNCHANGED <<revs, unmatched, ills, files, run, mrg, cut, known, stops>>

\* A failed call, an expired context or a crash ends a command where it is.
StopRun(p) ==
    /\ ~ At(p, "off") /\ stops < MaxStops /\ stops' = stops + 1
    /\ run' = [run EXCEPT ![p] = Off]
    /\ cut' = (cut \/ (run[p].pc \in {"post", "point"} /\ \E id \in RevIds : Exists(id)))
    /\ UNCHANGED <<tables, mrg, known, coming>>

StopMerge(m) ==
    /\ ~ MergeAt(m, "off") /\ stops < MaxStops /\ stops' = stops + 1
    /\ mrg' = [mrg EXCEPT ![m] = Merging]
    /\ UNCHANGED <<tables, run, cut, known, coming>>

Import(p) ==
    \/ StartRun(p) \/ CountAll(p) \/ ListPosts(p) \/ RecordUnmatched(p)
    \/ \E id \in RevIds : RecordMatched(p, id)
    \/ PointImported(p) \/ ImportRefused(p) \/ ImportDone(p)

ProcessRepo(p) ==
    \/ \E Q \in SUBSET Repos : BuildQueue(p, Q)
    \/ \E r \in Repos : ReadRepo(p, r)
    \/ \E b \in Bodies : Generate(p, b)
    \/ Illustrate(p) \/ WriteFile(p) \/ CreateIllustration(p)
    \/ \E id \in RevIds : InsertDraft(p, id)
    \/ Dedup(p) \/ InsertRefused(p) \/ Revert(p) \/ PointDraft(p) \/ AwaitReview(p)

Prune(p) ==
    \/ QueueDone(p) \/ \E r \in Repos : ListForRetention(p, r)
    \/ \E id \in RevIds : PruneNext(p, id)
    \/ PruneRow(p) \/ PruneFile(p) \/ PruneRev(p) \/ EndRun(p)

Merge(m) ==
    \/ \E old, new \in Repos : MergeLookup(m, old, new)
    \/ \E cleanup \in BOOLEAN : MergeCheck(m, cleanup)
    \/ MergeRollback(m) \/ MergeCommit(m)
    \/ \E failed \in SUBSET mrg[m].files : Unlink(m, failed)

Next ==
    \/ \E p \in Runs : Import(p) \/ ProcessRepo(p) \/ Prune(p) \/ StopRun(p)
    \/ \E m \in Merges : Merge(m) \/ StopMerge(m)
    \/ \E id \in RevIds : Reject(id)
    \/ \E r \in Repos : AddRepo(r)

\* process is run again and again and each run goes on unless it is stopped.
Fairness == \A p \in Runs : WF_vars(Import(p) \/ ProcessRepo(p) \/ Prune(p))

Spec == Init /\ [][Next]_vars
FairSpec == Spec /\ Fairness

-----------------------------------------------------------------------------
(***************************************************************************)
(* Properties.                                                             *)
(***************************************************************************)
Recorded(x) == x \in unmatched \/ \E id \in RevIds : Exists(id) /\ revs[id].post = x

PostsOf(x) == {id \in RevIds : Exists(id) /\ revs[id].post = x}

\* A Patreon post is recorded once, although imports are cut short and started
\* again while repositories come, go and are merged: with a revision of its own it
\* is not recorded again, in either table, and once it is among the unmatched it
\* gets a revision of no repository that was listed then.  (Of one that came later
\* it does: an import that finds no match leaves no revision, so that the next run
\* imports again, import.go:64-74.)
PostRecordedOnce ==
    [][\A x \in Posts :
        /\ x \in unmatched' \ unmatched => PostsOf(x) = {}
        /\ \A id \in PostsOf(x)' \ PostsOf(x) :
            /\ PostsOf(x) = {} /\ PostsOf(x)' = {id}
            /\ x \in unmatched => revs'[id].repo \notin known[x]]_vars

\* A merge between the statements of runs keeps histories whole: every revision
\* belongs to a repository that is there, under a version of its own, and what a
\* repository points to is its own.
OneHistory ==
    /\ \A id \in RevIds : Exists(id) => repos[revs[id].repo].there
    /\ \A i, j \in RevIds :
        Exists(i) /\ Exists(j) /\ revs[i].repo = revs[j].repo /\ revs[i].version = revs[j].version
        => i = j
    /\ \A r \in Repos, id \in RevIds :
        repos[r].there /\ id \in {repos[r].current, repos[r].published} /\ Exists(id)
        => revs[id].repo = r

Unfiled(i) == <<i, "data">> \in ills /\ i \notin files

\* An illustration on record that came as data has its file, which
\* GetByFingerprint's callers count on, whatever --cleanup removes and wherever a
\* run is stopped: only the pruner parts the two, when the error of its DELETE was
\* dropped (pruner.go:54-57).
RowHasFile ==
    [][\A i \in Images :
        Unfiled(i)' => Unfiled(i) \/ \E p \in Runs : At(p, "pruneFile") /\ Image(p) = i]_vars

\* Only the pruner removes a revision: merges move them all, and a draft nobody
\* rejected survives whatever the commands do.
UndecidedSurvives ==
    [][\A id \in RevIds : Exists(id) /\ revs[id].status # "rejected" => Exists(id)']_vars

\* Every post of the campaign is recorded in the end, unless an import ended
\* after its first revision (a crash, or two posts of one repository).
ImportCompletes == <>[](cut \/ \A x \in Posts : Recorded(x))
=============================================================================
