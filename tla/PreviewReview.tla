---------------------------- MODULE PreviewReview ----------------------------
(***************************************************************************)
(* The preview server's handlers on revisions (internal/handlers/preview.go): *)
(* approve, reject, edit and resolve-drift.  A reviewer is one request in  *)
(* flight.  Handlers take no lock and no transaction: each read whose      *)
(* result can go stale and each UPDATE is a step of its own.               *)
(***************************************************************************)
EXTENDS ContentStore

CONSTANTS
    Reviewers,
    Operations   \* the requests that are made: a subset of Requests

Requests == {"approve", "reject", "edit", "keep_ours", "keep_theirs"}

ASSUME ReviewAssumption == Operations \subseteq Requests

VARIABLE req    \* reviewer -> the request it is serving

RequestPC == {"off", "decide", "create", "ours", "list", "theirs", "resume"}

Request == [pc : RequestPC, repo : Repos \cup {NoRepo}, rev : RevIds \cup {NoRev},
            seen : Status \cup {"none"}, new : Status \cup {"none"},
            version : 0..(VersionBound + 1), body : Bodies \cup {NoBody},
            todo : [RevIds -> Status \cup {"none"}]]

NoRequest == [pc |-> "off", repo |-> NoRepo, rev |-> NoRev, seen |-> "none",
              new |-> "none", version |-> 0, body |-> NoBody,
              todo |-> [id \in RevIds |-> "none"]]

ReviewTypeOK == req \in [Reviewers -> Request]

ReviewInit == req = [v \in Reviewers |-> NoRequest]

ReqAt(v, pc) == req[v].pc = pc
Answer(v) == req' = [req EXCEPT ![v] = NoRequest]

-----------------------------------------------------------------------------
(***************************************************************************)
(* transitionRevision: UpdateStatus reads the row, checks the graph, and   *)
(* writes only if the status is still the one it read.                     *)
(***************************************************************************)
ReadStatus(v) ==
    /\ ReqAt(v, "off")
    /\ \E id \in RevIds, new \in {"approved", "rejected"} :
        /\ (IF new = "approved" THEN "approve" ELSE "reject") \in Operations
        /\ Exists(id)
        /\ Legal(revs[id].status, new)
        /\ req' = [req EXCEPT ![v] = [NoRequest EXCEPT !.pc = "decide", !.rev = id,
                                        !.seen = revs[id].status, !.new = new]]
    /\ UNCHANGED storeVars

WriteStatus(v) ==
    /\ ReqAt(v, "decide")
    /\ revs' = CASStatus(req[v].rev, req[v].seen, req[v].new)
    /\ Answer(v)
    /\ UNCHANGED <<deleted, repos, fair>>

(***************************************************************************)
(* EditRevision: GetByID and MaxVersion, then Create.                      *)
(***************************************************************************)
ReadForEdit(v) ==
    /\ ReqAt(v, "off")
    /\ "edit" \in Operations
    /\ \E id \in RevIds, b \in Bodies :
        /\ Exists(id)
        /\ req' = [req EXCEPT ![v] =
                    [NoRequest EXCEPT !.pc = "create", !.repo = revs[id].repo, !.rev = id,
                                      !.version = MaxVersionOf(revs[id].repo) + 1,
                                      !.body = b]]
    /\ UNCHANGED storeVars

\* Mutant: the edit is written into the revision it was made from.
MutEditsInPlace(v) ==
    /\ ReqAt(v, "create")
    /\ revs' = [revs EXCEPT ![req[v].rev].body = req[v].body]
    /\ Answer(v)
    /\ UNCHANGED <<deleted, repos, fair>>

CreateEdit(v) ==
    /\ ReqAt(v, "create")
    /\ req[v].version <= VersionBound
    /\ ~ VersionTaken(req[v].repo, req[v].version)
    /\ ForeignKeys => Exists(req[v].rev)
    /\ \E id \in Fresh :
        revs' = Insert(id, NewRow(req[v].repo, req[v].version, "manual_edit",
                                  "pending_review", req[v].body, 0, NoPost, req[v].rev))
    /\ Answer(v)
    /\ UNCHANGED <<deleted, repos, fair>>

\* The INSERT is refused (500): the version was taken meanwhile, or the
\* edited row was pruned under a foreign key; or the model's bounds are hit.
EditRefused(v) ==
    /\ ReqAt(v, "create")
    /\ \/ VersionTaken(req[v].repo, req[v].version)
       \/ ForeignKeys /\ ~ Exists(req[v].rev)
       \/ req[v].version > VersionBound \/ Fresh = {}
    /\ Answer(v)
    /\ UNCHANGED storeVars

(***************************************************************************)
(* ResolveDrift.                                                           *)
(***************************************************************************)
ReadDrift(v) ==
    /\ ReqAt(v, "off")
    /\ \E r \in Repos, op \in {"keep_ours", "keep_theirs"} \cap Operations :
        /\ repos[r].state = "patreon_drift_detected"
        /\ req' = [req EXCEPT ![v] =
                    [NoRequest EXCEPT !.pc = IF op = "keep_ours" THEN "ours" ELSE "list",
                                      !.repo = r]]
    /\ UNCHANGED storeVars

KeepOurs(v) ==
    /\ ReqAt(v, "ours")
    /\ repos' = SetProcessState(req[v].repo, "idle")
    /\ Answer(v)
    /\ UNCHANGED <<revs, deleted, fair>>

Imports(r) == {id \in RowsOf(r) : revs[id].source = "patreon_import"}

\* What keep_theirs will ask of each row, decided on the list it read.
Sweep(r, imp) ==
    [id \in RevIds |->
        IF id \notin RowsOf(r) \ {imp} THEN "none"
        ELSE IF revs[id].status = "approved" /\ revs[id].version < revs[imp].version
             THEN "superseded"
        ELSE IF revs[id].status = "pending_review" THEN "rejected"
        ELSE "none"]

\* ListAll and the most recent import.  With none on file the answer is 400
\* and nothing changes, as in RequestFails.
ReadForTheirs(v) ==
    LET r == req[v].repo
    IN /\ ReqAt(v, "list")
       /\ \E imp \in NewestFirst(Imports(r)) :
            req' = [req EXCEPT ![v] = [NoRequest EXCEPT !.pc = "theirs", !.repo = r,
                                         !.rev = imp, !.todo = Sweep(r, imp)]]
       /\ UNCHANGED storeVars

Swept(v) == {id \in RevIds : req[v].todo[id] # "none"}

\* One UpdateStatus, newest row first.
SweepOne(v) ==
    /\ ReqAt(v, "theirs")
    /\ \E id \in NewestFirst(Swept(v)) :
        /\ Exists(id) /\ Legal(revs[id].status, req[v].todo[id])
        /\ revs' = CASStatus(id, revs[id].status, req[v].todo[id])
        /\ req' = [req EXCEPT ![v].todo[id] = "none"]
    /\ UNCHANGED <<deleted, repos, fair>>

\* The row changed since it was listed: 500, and the sweep stops half way.
SweepRefused(v) ==
    /\ ReqAt(v, "theirs")
    /\ \E id \in NewestFirst(Swept(v)) :
        ~ Exists(id) \/ ~ Legal(revs[id].status, req[v].todo[id])
    /\ Answer(v)
    /\ UNCHANGED storeVars

SweepDone(v) ==
    /\ ReqAt(v, "theirs")
    /\ Swept(v) = {}
    /\ repos' = SetRevisionPointers(req[v].repo, req[v].rev, req[v].rev)
    /\ req' = [req EXCEPT ![v].pc = "resume"]
    /\ UNCHANGED <<revs, deleted, fair>>

KeepTheirs(v) ==
    /\ ReqAt(v, "resume")
    /\ repos' = SetProcessState(req[v].repo, "idle")
    /\ Answer(v)
    /\ UNCHANGED <<revs, deleted, fair>>

\* A store error (500), a dropped connection or the server's death ends the
\* request where it is; nothing is undone.
RequestFails(v) ==
    /\ ~ ReqAt(v, "off")
    /\ Answer(v)
    /\ UNCHANGED storeVars

ReviewerStep(v) ==
    \/ ReadStatus(v) \/ WriteStatus(v)
    \/ ReadForEdit(v) \/ CreateEdit(v) \/ EditRefused(v)
    \/ ReadDrift(v) \/ KeepOurs(v)
    \/ ReadForTheirs(v) \/ SweepOne(v) \/ SweepRefused(v)
    \/ SweepDone(v) \/ KeepTheirs(v)
    \/ RequestFails(v)
=============================================================================
