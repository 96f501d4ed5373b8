---------------------------- MODULE GitProviders ----------------------------
(***************************************************************************)
(* The four hosting services as the commands see them (providers/git): what *)
(* a listing and a metadata request return, which answers the circuit      *)
(* breaker of a TokenManager counts, and what a fail-over changes.  Pure   *)
(* operators: SyncOrchestrator keeps the state.                            *)
(*                                                                         *)
(* An answer of a service is "ok", "forbidden" (403), "gone" (404),        *)
(* "refused" (any other 4xx, or a body that does not decode) or "down" (no *)
(* answer, or 5xx).                                                        *)
(***************************************************************************)
EXTENDS Naturals, FiniteSets, Sequences, SequencesExt

CONSTANTS
    Upstream,       \* the repositories of the services, in the order they list them
    Secondary,      \* services configured with a second token
    Threshold       \* consecutive failures that open a breaker

Known == {"github", "gitlab", "gitflic", "gitverse"}
Tokens == {"primary", "secondary"}

ASSUME ProvidersAssumption ==
    /\ Threshold \in Nat \ {0} /\ Secondary \subseteq Known
    /\ Upstream \in Seq(ToSet(Upstream))
    /\ \A i, j \in 1..Len(Upstream) : Upstream[i].id = Upstream[j].id => i = j
    /\ \A u \in ToSet(Upstream) :
         /\ u.service \in Known /\ u.page \in Nat \ {0}
         /\ {u.private, u.archived, u.stale} \subseteq BOOLEAN

-----------------------------------------------------------------------------
(* TokenManager *)

TokenManager == [current : Tokens, fails : 0..Threshold]

NewTokenManager == [current |-> "primary", fails |-> 0]

\* A manager without a second token returns an error, which its callers drop.
Failover(s, t) ==
    IF s \notin Secondary THEN t
    ELSE [t EXCEPT !.current = IF @ = "primary" THEN "secondary" ELSE "primary"]

\* The token a request carries.  The GitHub client was built with the first one;
\* the GitLab client with none (nothing calls Authenticate).
TokenOf(s, t) ==
    CASE s = "github" -> "primary"
      [] s = "gitlab" -> "none"
      [] OTHER        -> t.current

Open(t) == t.fails = Threshold

\* Mutant: failures are counted past the threshold and the breaker stays closed.
MutNeverOpens(t, a) == [t EXCEPT !.fails = IF a = "down" THEN @ + 1 ELSE 0]

\* A request through the breaker.  Half-open is "one failure short of open": the
\* next answer closes it or opens it again (MaxRequests 1).
Execute(t, a) ==
    IF Open(t) THEN t
    ELSE [t EXCEPT !.fails = IF a = "down" THEN @ + 1 ELSE 0]

HalfOpen(t) == [t EXCEPT !.fails = Threshold - 1]

-----------------------------------------------------------------------------
(* What each service's answer becomes. *)

Repository(u, private, archived, stale) ==
    [id |-> u.id, service |-> u.service, key |-> u.key,
     private |-> private, archived |-> archived, stale |-> stale]

GitHubRepository(u) == Repository(u, u.private, u.archived, u.stale)

\* No visibility.
GitLabRepository(u) == Repository(u, FALSE, u.archived, u.stale)

\* isPrivate is decoded and not copied; no archived flag, no commit date.
GitFlicRepository(u) == Repository(u, FALSE, FALSE, FALSE)

\* No visibility, no commit date.
GitVerseRepository(u) == Repository(u, FALSE, u.archived, FALSE)

-----------------------------------------------------------------------------
(* ListRepositories *)

\* What s has at the places in I, in their order.
At(s, I) ==
    LET Nth(n) == CHOOSE i \in I : Cardinality({j \in I : j <= i}) = n
    IN [n \in 1..Cardinality(I) |-> s[Nth(n)]]

Of(s, org) ==
    At(Upstream, {i \in 1..Len(Upstream) : Upstream[i].service = s /\ Upstream[i].org = org})

Page(us, p) == At(us, {i \in 1..Len(us) : us[i].page = p})

Public(us) == At(us, {i \in 1..Len(us) : ~us[i].private})

LastPage(us) ==
    CHOOSE n \in {1} \cup {us[i].page : i \in 1..Len(us)} :
        \A i \in 1..Len(us) : us[i].page <= n

Each(us, Convert(_)) == [i \in 1..Len(us) |-> Convert(us[i])]

\* The pages the provider asks for, page by page, until the service names no next.
GitHubPages(org) ==
    LET us == Of("github", org)
    IN [p \in 1..LastPage(us) |-> Each(Page(us, p), GitHubRepository)]

\* An unauthenticated client sees what is public.
GitLabPages(org) ==
    LET us == Public(Of("gitlab", org))
    IN [p \in 1..LastPage(us) |-> Each(Page(us, p), GitLabRepository)]

\* Until X-Total-Pages.
GitFlicPages(org) ==
    LET us == Of("gitflic", org)
    IN [p \in 1..LastPage(us) |-> Each(Page(us, p), GitFlicRepository)]

\* One request, whatever is behind it.
GitVersePages(org) == <<Each(Page(Of("gitverse", org), 1), GitVerseRepository)>>

PagesOf(s, org) ==
    CASE s = "github"  -> GitHubPages(org)
      [] s = "gitlab"  -> GitLabPages(org)
      [] s = "gitflic" -> GitFlicPages(org)
      [] OTHER         -> GitVersePages(org)

\* A listing that ended at page p with answer a: all pages, or an error and none.
ListRepositories(s, t, all, p, a) ==
    LET begun == IF p = 1 THEN t ELSE Execute(t, "ok")
        ended == Execute(begun, a)
    IN [tm    |-> IF a = "forbidden" THEN Failover(s, ended) ELSE ended,
        ok    |-> a = "ok",
        repos |-> IF a = "ok" THEN all ELSE <<>>]

-----------------------------------------------------------------------------
(* GetRepositoryMetadata: as are the answers to the requests it makes; the   *)
(* ones after the first fill in details and their errors are dropped.        *)

Metadata(t, as, archived) ==
    LET after[i \in 0..Len(as)] == IF i = 0 THEN t ELSE Execute(after[i - 1], as[i])
    IN [tm       |-> after[IF as[1] = "ok" THEN Len(as) ELSE 1],
        ok       |-> as[1] = "ok" /\ ~Open(t),
        archived |-> archived]

Source(r) == Upstream[SelectInSeq(Upstream, LAMBDA u : u.id = r.id)]

\* The repository, its README, its last commit.
GitHubMetadata(r, t, as) == Metadata(t, as, Source(r).archived)

GitLabMetadata(r, t, as) == Metadata(t, as, Source(r).archived)

GitFlicMetadata(r, t, as) == Metadata(t, as, r.archived)

\* A repository that is gone counts as archived.
GitVerseMetadata(r, t, as) ==
    IF as[1] = "gone" /\ ~Open(t) THEN [tm |-> Execute(t, "gone"), ok |-> TRUE, archived |-> TRUE]
    ELSE Metadata(t, as, Source(r).archived)

Requests(s) == IF s = "github" THEN 3 ELSE 2

GetRepositoryMetadata(r, t, as) ==
    CASE r.service = "github"  -> GitHubMetadata(r, t, as)
      [] r.service = "gitlab"  -> GitLabMetadata(r, t, as)
      [] r.service = "gitflic" -> GitFlicMetadata(r, t, as)
      [] OTHER                 -> GitVerseMetadata(r, t, as)
=============================================================================
