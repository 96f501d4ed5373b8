----------------------------- MODULE ContentStore -----------------------------
(***************************************************************************)
(* The two tables the content workflow shares: content_revisions           *)
(* (internal/database/revisions.go) and the workflow columns of            *)
(* repositories (internal/database/sqlite_stores.go), with the statements  *)
(* the stores run on them.  Every operator is one SQL statement: the value *)
(* it reads, or the table after it.                                        *)
(*                                                                         *)
(* Data is abstracted to what the workflow tells apart.  A body stands for *)
(* its fingerprint (normalised text plus illustration hash), a commit sha  *)
(* for its position in the history, 0 being the empty sha of edits and     *)
(* imports.  A deleted row keeps its contents here and is listed in        *)
(* `deleted`, so that properties can still speak of it.                    *)
(***************************************************************************)
EXTENDS Naturals, FiniteSets

CONSTANTS
    Repos, RevIds, PostIds, Bodies,
    NoRev, NoPost, NoBody,   \* the NULL pointer, the NULL post id, an absent body
    EmptyPost,               \* the post id "", which names no post
    NoRepo,                  \* an actor between two repositories
    MaxSha,                  \* bound: the last commit a repository gets
    VersionBound,            \* bound: highest version number
    ForeignKeys              \* the schema declares the pointers as foreign keys
                             \* (Postgres); SQLite stores them as plain text

ASSUME StoreAssumption ==
    /\ IsFiniteSet(Repos) /\ Repos # {}
    /\ NoRepo \notin Repos
    /\ NoRev \notin RevIds
    /\ EmptyPost \notin PostIds
    /\ NoPost \notin PostIds \cup {EmptyPost}
    /\ NoBody \notin Bodies
    /\ MaxSha \in Nat \ {0}
    /\ VersionBound \in Nat
    /\ ForeignKeys \in BOOLEAN

VARIABLES
    revs,      \* content_revisions, by id
    deleted,   \* ids whose row has been deleted
    repos,     \* repositories: sha, is_archived, process_state, the two pointers
    fair       \* each repository's place in ListForProcessQueue's order
               \* (never processed first, then the oldest last_processed_at)

storeVars == <<revs, deleted, repos, fair>>

Source == {"generated", "manual_edit", "patreon_import"}
Status == {"pending_review", "approved", "rejected", "superseded"}
ProcessState == {"idle", "processing", "awaiting_review", "patreon_drift_detected"}

Revision == [repo : Repos, version : 1..VersionBound, source : Source, status : Status,
             body : Bodies \cup {NoBody}, sha : 0..MaxSha,
             post : PostIds \cup {EmptyPost, NoPost}, live : BOOLEAN,
             from : RevIds \cup {NoRev}]

\* A uuid no row has had.
Unused == [status |-> "unused"]

Repository == [sha : 1..MaxSha, archived : BOOLEAN, state : ProcessState,
               current : RevIds \cup {NoRev}, published : RevIds \cup {NoRev}]

Places == 1..Cardinality(Repos)

StoreTypeOK ==
    /\ revs \in [RevIds -> Revision \cup {Unused}]
    /\ deleted \subseteq RevIds
    /\ repos \in [Repos -> Repository]
    /\ fair \in [Repos -> Places]

\* An empty content_revisions; every repository scanned and never processed.
StoreInit ==
    /\ revs = [id \in RevIds |-> Unused]
    /\ deleted = {}
    /\ repos = [r \in Repos |-> [sha |-> 1, archived |-> FALSE, state |-> "idle",
                                 current |-> NoRev, published |-> NoRev]]
    /\ fair \in [Repos -> Places]
    /\ \A r, q \in Repos : fair[r] = fair[q] => r = q

-----------------------------------------------------------------------------
(***************************************************************************)
(* Reads.                                                                  *)
(***************************************************************************)
Used(id) == revs[id].status # "unused"
Exists(id) == id \in RevIds /\ Used(id) /\ id \notin deleted
\* A uuid that no row has had; which one makes no difference.
Fresh ==
    LET unused == {id \in RevIds : revs[id].status = "unused"}
    IN {id \in unused : id = CHOOSE j \in unused : TRUE}

\* ListAll, as a set: the rows of a repository.
RowsOf(r) == {id \in RevIds : Exists(id) /\ revs[id].repo = r}
WithStatus(r, s) == {id \in RowsOf(r) : revs[id].status = s}
NewestFirst(S) == {id \in S : \A j \in S : revs[j].version <= revs[id].version}

\* MaxVersion, counted: the numbers that some row's version reaches.  It is 0
\* when the repository has no row.
MaxVersionOf(r) ==
    Cardinality({n \in 1..VersionBound : \E id \in RowsOf(r) : n <= revs[id].version})

\* Mutant: no UNIQUE(repository_id, version).
MutNoUniqueVersion(r, v) == FALSE
VersionTaken(r, v) == \E id \in RowsOf(r) : revs[id].version = v

\* ExistsFingerprint.
FingerprintExists(r, b) == \E id \in RowsOf(r) : revs[id].body = b

\* contentRevisionStatusGraph.
Legal(old, new) ==
    \/ old = "pending_review" /\ new \in {"approved", "rejected", "superseded"}
    \/ old = "approved" /\ new = "superseded"

\* Mutant: the i < keepTop test is off by one.
MutRankCountsItself(r, id) ==
    Cardinality({j \in RowsOf(r) : revs[j].version >= revs[id].version})
\* ListForRetention: outside the newest keepTop rows, never published, decided.
Rank(r, id) == Cardinality({j \in RowsOf(r) : revs[j].version > revs[id].version})
\* Mutant: approved and pending rows are not pinned.
MutPinsOnlyLive(r, keepTop) ==
    {id \in RowsOf(r) : Rank(r, id) >= keepTop /\ ~ revs[id].live}
ForRetention(r, keepTop) ==
    {id \in RowsOf(r) :
        /\ Rank(r, id) >= keepTop
        /\ ~ revs[id].live
        /\ revs[id].status \notin {"approved", "pending_review"}}

\* Rows a foreign key protects from DELETE.
Referenced(id) ==
    /\ ForeignKeys
    /\ \/ \E r \in Repos : id \in {repos[r].current, repos[r].published}
       \/ \E j \in RevIds : Exists(j) /\ revs[j].from = id

-----------------------------------------------------------------------------
(***************************************************************************)
(* Writes: the table after the statement.                                  *)
(***************************************************************************)
\* Mutant: versions count from zero.
MutVersionFromZero(r, v, source, status, body, sha, post, from) ==
    [repo |-> r, version |-> v - 1, source |-> source, status |-> status,
     body |-> body, sha |-> sha, post |-> post, live |-> post # NoPost,
     from |-> from]
NewRow(r, v, source, status, body, sha, post, from) ==
    [repo |-> r, version |-> v, source |-> source, status |-> status,
     body |-> body, sha |-> sha, post |-> post, live |-> post # NoPost,
     from |-> from]

Insert(id, row) == [revs EXCEPT ![id] = row]

\* Mutant: UPDATE without AND status = ?.
MutNoCAS(id, seen, new) ==
    IF Exists(id) THEN [revs EXCEPT ![id].status = new] ELSE revs
\* UpdateStatus's UPDATE ... WHERE id = ? AND status = <the status it read>.
CASStatus(id, seen, new) ==
    IF Exists(id) /\ revs[id].status = seen
    THEN [revs EXCEPT ![id].status = new]
    ELSE revs

\* MarkPublished: the row by id, or nothing if it is gone.
MarkPublished(id, post) ==
    IF Exists(id)
    THEN [revs EXCEPT ![id].post = post, ![id].live = TRUE]
    ELSE revs

\* Mutant: drafts under review are superseded with the approved ones.
MutSupersedesDrafts(r, version) ==
    [id \in RevIds |->
        IF id \in RowsOf(r) /\ revs[id].version < version
            /\ revs[id].status \in {"approved", "pending_review"}
        THEN [revs[id] EXCEPT !.status = "superseded"]
        ELSE revs[id]]
SupersedeOlderApproved(r, version) ==
    [id \in RevIds |->
        IF id \in WithStatus(r, "approved") /\ revs[id].version < version
        THEN [revs[id] EXCEPT !.status = "superseded"]
        ELSE revs[id]]

SetProcessState(r, s) == [repos EXCEPT ![r].state = s]

\* Mutant: the published pointer always follows the current one.
MutMovesPublished(r, current, published) ==
    [repos EXCEPT ![r].current = current, ![r].published = current]
\* SetRevisionPointers: an empty published id leaves that pointer alone.
SetRevisionPointers(r, current, published) ==
    IF published = NoRev
    THEN [repos EXCEPT ![r].current = current]
    ELSE [repos EXCEPT ![r].current = current, ![r].published = published]

\* SetLastProcessedAt: the newest timestamp, hence the last place.
SetLastProcessedAt(r) ==
    [q \in Repos |->
        IF q = r THEN Cardinality(Repos)
        ELSE IF fair[q] > fair[r] THEN fair[q] - 1
        ELSE fair[q]]
=============================================================================
