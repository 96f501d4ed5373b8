--------------------------- MODULE PatreonPublisher ---------------------------
(***************************************************************************)
(* The `publish` command (internal/services/process/publish.go) against    *)
(* the Patreon API as its client sees it (cmd/cli/publish.go,              *)
(* internal/providers/patreon/client.go).  A publisher is one invocation;  *)
(* nothing stops two from running at once, or beside `process` and the     *)
(* preview server.                                                         *)
(*                                                                         *)
(* Patreon itself is external: a set of posts, each with the body last     *)
(* written to it, which creators also edit and delete on the site.         *)
(***************************************************************************)
EXTENDS ContentStore

CONSTANTS
    Publishers,
    PublishFaults,   \* "crash": the process dies; "db": a statement fails;
                     \* "fetch": GET fails; "push": a write fails;
                     \* "lost": a write is applied and its answer lost;
                     \* "refused": Patreon answers a write with a 4xx status
    MaxEdits         \* bound: edits and deletions made on the Patreon site

ASSUME PublisherAssumption ==
    /\ PublishFaults \subseteq {"crash", "db", "fetch", "push", "lost", "refused"}
    /\ MaxEdits \in Nat

VARIABLES
    pub,     \* publisher -> where it is and what it has read
    posts,   \* Patreon: post id -> repository it is about, body, revision it shows
    edits    \* how often the site was used

publishVars == <<pub, posts, edits>>

PublisherPC == {"off", "next", "check", "drift", "import", "halt", "push", "mark", "point", "supersede"}

PostRef == PostIds \cup {EmptyPost}

\* The columns of a listed repository that publishRepo uses.
Snapshot == [state : ProcessState, published : RevIds \cup {NoRev}]

Publisher == [pc : PublisherPC,
              todo : SUBSET Repos,
              snap : [Repos -> Snapshot],          \* the rows ListForProcessQueue returned
              repo : Repos \cup {NoRepo},
              target : RevIds \cup {NoRev},
              seen : Bodies \cup {NoBody},         \* the drifted content, for the import
              post : PostRef \cup {NoPost},
              version : 0..(VersionBound + 1)]     \* of the drift import

Post == [repo : Repos \cup {NoRepo}, body : Bodies \cup {NoBody}, by : RevIds \cup {NoRev}]
NoSuchPost == [repo |-> NoRepo, body |-> NoBody, by |-> NoRev]

PublisherTypeOK ==
    /\ pub \in [Publishers -> Publisher]
    /\ posts \in [PostIds -> Post]
    /\ edits \in 0..MaxEdits

Idle == [pc |-> "off", todo |-> {},
         snap |-> [r \in Repos |-> [state |-> "idle", published |-> NoRev]],
         repo |-> NoRepo, target |-> NoRev, seen |-> NoBody, post |-> NoPost, version |-> 0]

PublisherInit ==
    /\ pub = [p \in Publishers |-> Idle]
    /\ posts = [x \in PostIds |-> NoSuchPost]
    /\ edits = 0

PubAt(p, pc) == pub[p].pc = pc
PubGoto(p, pc) == pub' = [pub EXCEPT ![p].pc = pc]
\* publishRepo returns; the loop goes on with the next repository.
NextRepo(p) ==
    pub' = [pub EXCEPT ![p] = [Idle EXCEPT !.pc = "next", !.todo = pub[p].todo,
                                          !.snap = pub[p].snap]]

Listed(p) == pub[p].snap[pub[p].repo]

-----------------------------------------------------------------------------
(***************************************************************************)
(* PublishPending and publishRepo.                                         *)
(***************************************************************************)
ListRepos(p) ==
    /\ PubAt(p, "off")
    /\ pub' = [pub EXCEPT ![p] =
                [Idle EXCEPT !.pc = "next", !.todo = Repos,
                             !.snap = [r \in Repos |-> [state |-> repos[r].state,
                                                        published |-> repos[r].published]]]]
    /\ UNCHANGED <<posts, edits, storeVars>>

\* Mutant: only a repository that never published is publishable.
MutPublishesOnce(p, r) ==
    /\ pub[p].snap[r].published = NoRev
    /\ WithStatus(r, "approved") # {}

\* The next repository has nothing to publish: halted by drift, no approved
\* revision, or the newest approved one is already live.
Publishable(p, r) ==
    /\ pub[p].snap[r].state # "patreon_drift_detected"
    /\ WithStatus(r, "approved") # {}
    /\ pub[p].snap[r].published \notin NewestFirst(WithStatus(r, "approved"))

SkipRepo(p) ==
    /\ PubAt(p, "next")
    /\ \E r \in pub[p].todo :
        /\ ~ Publishable(p, r) \/ "db" \in PublishFaults
        /\ pub' = [pub EXCEPT ![p].todo = @ \ {r}]
    /\ UNCHANGED <<posts, edits, storeVars>>

\* Choose the newest approved revision; check drift if something is live.
SelectTarget(p) ==
    /\ PubAt(p, "next")
    /\ \E r \in pub[p].todo :
        /\ Publishable(p, r)
        /\ \E id \in NewestFirst(WithStatus(r, "approved")) :
            pub' = [pub EXCEPT ![p] =
                    [pub[p] EXCEPT !.todo = pub[p].todo \ {r}, !.repo = r, !.target = id,
                                   !.pc = IF pub[p].snap[r].published = NoRev
                                          THEN "push" ELSE "check"]]
    /\ UNCHANGED <<posts, edits, storeVars>>

\* Mutant: the live post is not looked up.
MutForgetsPost(p) == NoPost

\* The live revision's post, as checkAndHandleDrift and pushToPatreon look it up.
LivePost(p) ==
    IF Exists(Listed(p).published) THEN revs[Listed(p).published].post ELSE NoPost

\* What GetPostContent returns: the empty body for a post that is gone (404).
Content(x) == IF x \in PostIds THEN posts[x].body ELSE NoBody

\* No post to compare with, or the fetch failed: "conservatively continue".
DriftUnknown(p) ==
    /\ PubAt(p, "check")
    /\ LivePost(p) = NoPost \/ {"fetch", "db"} \cap PublishFaults # {}
    /\ PubGoto(p, "push")
    /\ UNCHANGED <<posts, edits, storeVars>>

NoDrift(p) ==
    /\ PubAt(p, "check")
    /\ LivePost(p) # NoPost
    /\ Content(LivePost(p)) = revs[Listed(p).published].body
    /\ PubGoto(p, "push")
    /\ UNCHANGED <<posts, edits, storeVars>>

Drift(p) ==
    /\ PubAt(p, "check")
    /\ LivePost(p) # NoPost
    /\ Content(LivePost(p)) # revs[Listed(p).published].body
    /\ pub' = [pub EXCEPT ![p].pc = "drift", ![p].seen = Content(LivePost(p)),
                          ![p].post = LivePost(p)]
    /\ UNCHANGED <<posts, edits, storeVars>>

\* MaxVersion for the import; the row is created in a later statement.
NumberImport(p) ==
    /\ PubAt(p, "drift")
    /\ pub' = [pub EXCEPT ![p].pc = "import",
                          ![p].version = MaxVersionOf(pub[p].repo) + 1]
    /\ UNCHANGED <<posts, edits, storeVars>>

\* Record Patreon's content as an approved, live patreon_import revision.
ImportDrift(p) ==
    /\ PubAt(p, "import")
    /\ pub[p].version <= VersionBound
    /\ ~ VersionTaken(pub[p].repo, pub[p].version)
    /\ \E id \in Fresh :
        revs' = Insert(id, NewRow(pub[p].repo, pub[p].version, "patreon_import", "approved",
                                  pub[p].seen, 0, pub[p].post, NoRev))
    /\ PubGoto(p, "halt")
    /\ UNCHANGED <<posts, edits, deleted, repos, fair>>

\* MaxVersion or Create fails, or another writer took the version meanwhile:
\* the repository is skipped without being marked as drifted.
ImportFails(p) ==
    /\ \/ PubAt(p, "import") /\ VersionTaken(pub[p].repo, pub[p].version)
       \/ PubAt(p, "import") /\ (pub[p].version > VersionBound \/ Fresh = {})
       \/ PubAt(p, "drift") /\ "db" \in PublishFaults
       \/ PubAt(p, "import") /\ "db" \in PublishFaults
    /\ NextRepo(p)
    /\ UNCHANGED <<posts, edits, storeVars>>

HaltRepo(p) ==
    /\ PubAt(p, "halt")
    /\ \/ repos' = SetProcessState(pub[p].repo, "patreon_drift_detected")
       \/ "db" \in PublishFaults /\ UNCHANGED repos
    /\ NextRepo(p)
    /\ UNCHANGED <<posts, edits, revs, deleted, fair>>

-----------------------------------------------------------------------------
(***************************************************************************)
(* pushToPatreon: the live revision is looked up again, its post updated,  *)
(* or a post created.                                                      *)
(***************************************************************************)
Shows(r, id) == [repo |-> r, body |-> revs[id].body, by |-> id]
\* The id Patreon gives a new post.
FreshPosts ==
    LET unused == {x \in PostIds : posts[x] = NoSuchPost}
    IN {x \in unused : x = CHOOSE y \in unused : TRUE}

Pushed(p, x) == pub' = [pub EXCEPT ![p].pc = "mark", ![p].post = x]

\* updatePostRaw does not look at 4xx answers: updating a post that is gone,
\* or one Patreon refuses to change, looks like success.
UpdatePost(p) ==
    /\ PubAt(p, "push")
    /\ LivePost(p) # NoPost
    /\ \/ /\ LivePost(p) \in PostIds /\ Content(LivePost(p)) # NoBody
          /\ posts' = [posts EXCEPT ![LivePost(p)] = Shows(pub[p].repo, pub[p].target)]
       \/ /\ Content(LivePost(p)) = NoBody \/ "refused" \in PublishFaults
          /\ UNCHANGED posts
    /\ Pushed(p, LivePost(p))
    /\ UNCHANGED <<edits, storeVars>>

\* createPostRaw decodes the answer whatever its status: a 4xx yields the id "".
CreatePost(p) ==
    /\ PubAt(p, "push")
    /\ LivePost(p) = NoPost
    /\ \/ \E x \in FreshPosts :
            /\ posts' = [posts EXCEPT ![x] = Shows(pub[p].repo, pub[p].target)]
            /\ Pushed(p, x)
       \/ /\ "refused" \in PublishFaults
          /\ Pushed(p, EmptyPost)
          /\ UNCHANGED posts
    /\ UNCHANGED <<edits, storeVars>>

\* The write fails (5xx, network, open circuit breaker), applied or not.
PushFails(p) ==
    /\ PubAt(p, "push")
    /\ \/ /\ {"push", "db"} \cap PublishFaults # {} \/ (LivePost(p) = NoPost /\ FreshPosts = {})
          /\ UNCHANGED posts
       \/ /\ "lost" \in PublishFaults
          /\ IF LivePost(p) = NoPost
             THEN \E x \in FreshPosts :
                    posts' = [posts EXCEPT ![x] = Shows(pub[p].repo, pub[p].target)]
             ELSE /\ Content(LivePost(p)) # NoBody
                  /\ posts' = [posts EXCEPT ![LivePost(p)] = Shows(pub[p].repo, pub[p].target)]
    /\ NextRepo(p)
    /\ UNCHANGED <<edits, storeVars>>

-----------------------------------------------------------------------------
(***************************************************************************)
(* Bookkeeping after the push; a failure is logged and the next statement  *)
(* still runs.                                                             *)
(***************************************************************************)
Mark(p) ==
    /\ PubAt(p, "mark")
    /\ \/ revs' = MarkPublished(pub[p].target, pub[p].post)
       \/ "db" \in PublishFaults /\ UNCHANGED revs
    /\ PubGoto(p, "point")
    /\ UNCHANGED <<posts, edits, deleted, repos, fair>>

\* With foreign keys the pointers cannot be set to a row that is gone.
Point(p) ==
    /\ PubAt(p, "point")
    /\ \/ /\ ForeignKeys => Exists(pub[p].target)
          /\ repos' = SetRevisionPointers(pub[p].repo, pub[p].target, pub[p].target)
       \/ /\ "db" \in PublishFaults \/ (ForeignKeys /\ ~ Exists(pub[p].target))
          /\ UNCHANGED repos
    /\ PubGoto(p, "supersede")
    /\ UNCHANGED <<posts, edits, revs, deleted, fair>>

Supersede(p) ==
    /\ PubAt(p, "supersede")
    /\ \/ revs' = SupersedeOlderApproved(pub[p].repo, revs[pub[p].target].version)
       \/ "db" \in PublishFaults /\ UNCHANGED revs
    /\ NextRepo(p)
    /\ UNCHANGED <<posts, edits, deleted, repos, fair>>

FinishPublish(p) ==
    /\ PubAt(p, "next")
    /\ pub[p].todo = {}
    /\ pub' = [pub EXCEPT ![p] = Idle]
    /\ UNCHANGED <<posts, edits, storeVars>>

CrashPublish(p) ==
    /\ "crash" \in PublishFaults
    /\ ~ PubAt(p, "off")
    /\ pub' = [pub EXCEPT ![p] = Idle]
    /\ UNCHANGED <<posts, edits, storeVars>>

PublisherStep(p) ==
    \/ ListRepos(p) \/ SkipRepo(p) \/ SelectTarget(p)
    \/ DriftUnknown(p) \/ NoDrift(p) \/ Drift(p)
    \/ NumberImport(p) \/ ImportDrift(p) \/ ImportFails(p) \/ HaltRepo(p)
    \/ UpdatePost(p) \/ CreatePost(p) \/ PushFails(p)
    \/ Mark(p) \/ Point(p) \/ Supersede(p) \/ FinishPublish(p)

\* A creator edits or deletes a post on the Patreon site.
SiteEdit ==
    /\ edits < MaxEdits
    /\ edits' = edits + 1
    /\ \E x \in PostIds : \E b \in Bodies \cup {NoBody} :
        /\ posts[x].body \notin {NoBody, b}
        /\ posts' = [posts EXCEPT ![x].body = b, ![x].by = NoRev]
    /\ UNCHANGED <<pub, storeVars>>
=============================================================================
