------------------------- MODULE MCSyncOrchestrator -------------------------
(* Model-checking instances of SyncOrchestrator. *)
EXTENDS SyncOrchestrator, TLC

Repo(id, service, org, page, key, private, archived, stale) ==
    [id |-> id, service |-> service, org |-> org, page |-> page, key |-> key,
     private |-> private, archived |-> archived, stale |-> stale]

MCServices == <<"github", "gitlab", "gitflic", "gitverse">>

\* GitHub and GitFlic are asked about two organisations, GitLab about one group.
MCOrgs ==
    "github" :> <<"a", "b">> @@ "gitlab" :> <<"a">> @@
    "gitflic" :> <<"a", "b">> @@ "gitverse" :> <<NoOrg>>

\* Two pages of a: an ignored and a kept repository, one that is archived, and a
\* stale one; a mirror of 2 at GitLab; GitVerse has a second page nobody asks for.
MCUpstream ==
    << Repo(1, "github", "a", 1, "a/one", FALSE, FALSE, FALSE),
       Repo(2, "github", "a", 2, "a/two", FALSE, FALSE, FALSE),
       Repo(3, "github", "b", 1, "b/old", FALSE, FALSE, TRUE),
       Repo(4, "github", "b", 1, "b/three", FALSE, FALSE, FALSE),
       Repo(5, "gitlab", "a", 1, "a/two", FALSE, FALSE, FALSE),
       Repo(6, "gitflic", "b", 1, "b/four", FALSE, FALSE, FALSE),
       Repo(7, "gitverse", NoOrg, 1, "v/five", FALSE, TRUE, FALSE),
       Repo(8, "gitverse", NoOrg, 2, "v/six", FALSE, FALSE, FALSE) >>

\* a/**, then !a/two, then a line that is not a pattern.
MCPatterns ==
    << [fits |-> {1, 2, 5}, negation |-> FALSE, brackets |-> "none"],
       [fits |-> {2, 5}, negation |-> TRUE, brackets |-> "none"],
       [fits |-> {4}, negation |-> FALSE, brackets |-> "left"] >>

\* One service, one repository that its owner keeps private.
MCOneService == <<"gitflic">>
MCOneOrg == "gitflic" :> <<NoOrg>>
MCPrivate == << Repo(1, "gitflic", NoOrg, 1, "a/private", TRUE, FALSE, FALSE) >>
MCNoPatterns == <<>>
=============================================================================
