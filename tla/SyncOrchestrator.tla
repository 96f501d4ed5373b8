-------------------------- MODULE SyncOrchestrator --------------------------
(***************************************************************************)
(* `scan` and `generate` (cmd/cli/scan.go, generate.go) over the           *)
(* orchestrator of internal/services/sync: the lock file and the row of    *)
(* sync_locks, discovery over the services of GitProviders, the filters,   *)
(* the loop over what is left, and the release.  The scan of `process` is  *)
(* the same ScanOnly.                                                      *)
(*                                                                         *)
(* A command is a process of its own with its own token managers.  A       *)
(* signal, or the deadline of the context main gives `process`, cancels    *)
(* it: from then on every database call and every request that carries the *)
(* context fails.  The database is SQLite; what generation does is         *)
(* ContentGenerator's and ends here in "ok" or "error".                    *)
(***************************************************************************)
EXTENDS GitProviders, FiniteSets

CONSTANTS
    Scans, Generates,       \* the commands
    NoOne,
    Services,               \* the configured services, in the order of setupProviders
    Orgs,                   \* service -> its organisations (NoOrg: the token's own)
    NoOrg,
    Patterns,               \* the lines of .repoignore
    ProcessPrivate,         \* PROCESS_PRIVATE_REPOSITORIES
    MaxInactivity,          \* MIN_MONTHS_COMMIT_ACTIVITY is not 0
    MaxFaults,              \* bound: answers that are not the service's usual one
    MaxStops                \* bound: cancelled or killed commands

Commands == Scans \cup Generates

ASSUME SyncAssumption ==
    /\ NoOne \notin Commands /\ Scans \cap Generates = {}
    /\ Services \in Seq(Known) /\ Orgs \in [ToSet(Services) -> Seq(STRING \cup {NoOrg})]
    /\ ProcessPrivate \in BOOLEAN /\ MaxInactivity \in BOOLEAN
    /\ MaxFaults \in Nat /\ MaxStops \in Nat

VARIABLES
    file,       \* whose content /tmp/patreon-manager-sync.lock has
    rows,       \* the commands with a row in sync_locks
    cmd,        \* the commands; got is what the services have listed, to the end
    spent,      \* <<service, token>>: rate limited by the service
    faults, stops

vars == <<file, rows, cmd, spent, faults, stops>>

Ids == {Upstream[i].id : i \in 1..Len(Upstream)}

\* The requests of discoverRepositories: service by service, organisation by
\* organisation.
Targets ==
    FlattenSeq([i \in 1..Len(Services) |->
        [j \in 1..Len(Orgs[Services[i]]) |-> <<Services[i], Orgs[Services[i]][j]>>]])

Listing ==
    [i \in 1..Len(Targets) |->
        LET pages == PagesOf(Targets[i][1], Targets[i][2])
        IN [last |-> Len(pages), repos |-> FlattenSeq(pages)]]

Idle == [pc |-> "idle", cancelled |-> FALSE, next |-> 1, got |-> <<>>, errs |-> {},
         tms |-> [s \in ToSet(Services) |-> NewTokenManager], todo |-> <<>>, log |-> <<>>]

Holding == {"list", "work", "unlink", "delete"}

Init ==
    /\ file = NoOne /\ rows = {} /\ spent = {} /\ faults = 0 /\ stops = 0
    /\ cmd = [c \in Commands |-> Idle]

\* ensureLLMsVerifier: the verifier neither answers nor comes up from its script;
\* the command ends before it asks for the lock.
BootFails(c) ==
    /\ cmd[c].pc = "idle" /\ c \in Generates
    /\ faults < MaxFaults /\ faults' = faults + 1
    /\ cmd' = [cmd EXCEPT ![c].pc = "refused"]
    /\ UNCHANGED <<file, rows, spent, stops>>

-----------------------------------------------------------------------------
(* LockManager *)

\* The file is written whoever's it was.
WriteFile(c) ==
    /\ cmd[c].pc = "idle"
    /\ file' = c
    /\ cmd' = [cmd EXCEPT ![c].pc = "row"]
    /\ UNCHANGED <<rows, spent, faults, stops>>

\* A statement meets a busy database.
Busy == faults < MaxFaults /\ faults' = faults + 1

\* COUNT and INSERT in one transaction; the age of the row is not looked at.
AcquireRow(c) ==
    /\ cmd[c].pc = "row"
    /\ ~cmd[c].cancelled /\ rows = {}
    /\ rows' = {c}
    /\ cmd' = [cmd EXCEPT ![c].pc = "list"]
    /\ UNCHANGED <<file, spent, faults, stops>>

\* Mutant: the refused command clears the lock row as well.
MutReleasesAll(c) ==
    /\ cmd[c].pc = "row"
    /\ cmd[c].cancelled \/ rows # {}
    /\ file' = NoOne /\ rows' = {}
    /\ cmd' = [cmd EXCEPT ![c].pc = "refused"]
    /\ UNCHANGED <<spent, faults, stops>>

\* The file goes, though it may be the holder's by now.
AcquireRefused(c) ==
    /\ cmd[c].pc = "row"
    /\ \/ (cmd[c].cancelled \/ rows # {}) /\ UNCHANGED faults
       \/ Busy
    /\ file' = NoOne
    /\ cmd' = [cmd EXCEPT ![c].pc = "refused"]
    /\ UNCHANGED <<rows, spent, stops>>

UnlinkFile(c) ==
    /\ cmd[c].pc = "unlink"
    /\ file' = NoOne
    /\ cmd' = [cmd EXCEPT ![c].pc = "delete"]
    /\ UNCHANGED <<rows, spent, faults, stops>>

\* DELETE FROM sync_locks, and the process is gone.  Nobody looks at the error when
\* the context is cancelled or the database busy: the row is left there.
DeleteRows(c) ==
    /\ cmd[c].pc = "delete"
    /\ \/ /\ ~cmd[c].cancelled
          /\ rows' = {} /\ cmd' = [cmd EXCEPT ![c] = [Idle EXCEPT !.pc = "done"]]
          /\ UNCHANGED faults
       \/ /\ (cmd[c].cancelled /\ UNCHANGED faults) \/ Busy
          /\ cmd' = [cmd EXCEPT ![c] = [Idle EXCEPT !.pc = "left"]] /\ UNCHANGED rows
    /\ UNCHANGED <<file, spent, stops>>

-----------------------------------------------------------------------------
(* discoverRepositories *)

\* The answer the situation leaves, if it leaves one only.  The GitLab calls do not
\* carry the context.
Forced(c, s) ==
    LET t == cmd[c].tms[s]
    IN IF Open(t) \/ (cmd[c].cancelled /\ s # "gitlab") THEN {"down"}
       ELSE IF <<s, TokenOf(s, t)>> \in spent THEN {"forbidden"}
       ELSE {}

\* GitLab has no "own" projects for a client without a token.
ForcedList(c, s, org) ==
    IF Forced(c, s) = {} /\ s = "gitlab" /\ org = NoOrg THEN {"refused"} ELSE Forced(c, s)

\* Mutant: a failed listing is not noted in the result.
MutSilent(c, s, l) ==
    [cmd EXCEPT ![c].next = @ + 1, ![c].tms[s] = l.tm, ![c].got = @ \o l.repos]

\* Mutant: a failed listing ends the command without the deferred release.
MutReturnsEarly(c, s, l) ==
    [cmd EXCEPT ![c] = IF l.ok THEN [@ EXCEPT !.next = @ + 1, !.tms[s] = l.tm, !.got = @ \o l.repos]
                       ELSE [Idle EXCEPT !.pc = "done"]]

\* An error is noted and the next organisation asked.
Took(c, s, l) ==
    [cmd EXCEPT ![c].next = @ + 1, ![c].tms[s] = l.tm, ![c].got = @ \o l.repos,
                ![c].errs = IF l.ok THEN @ ELSE @ \cup {s}]

ListNext(c) ==
    /\ cmd[c].pc = "list" /\ cmd[c].next <= Len(Targets)
    /\ LET s == Targets[cmd[c].next][1]
           org == Targets[cmd[c].next][2]
           t == cmd[c].tms[s]
           all == Listing[cmd[c].next]
       IN \/ \E a \in ForcedList(c, s, org) :
                /\ cmd' = Took(c, s, ListRepositories(s, t, all.repos, 1, a))
                /\ UNCHANGED <<spent, faults>>
          \/ /\ ForcedList(c, s, org) = {}
             /\ cmd' = Took(c, s, ListRepositories(s, t, all.repos, all.last, "ok"))
             /\ UNCHANGED <<spent, faults>>
          \/ /\ ForcedList(c, s, org) = {} /\ faults < MaxFaults
             /\ \E p \in 1..all.last, a \in {"forbidden", "refused", "down"} :
                  /\ cmd' = Took(c, s, ListRepositories(s, t, all.repos, p, a))
                  /\ spent' = IF a = "forbidden" THEN spent \cup {<<s, TokenOf(s, t)>>} ELSE spent
             /\ faults' = faults + 1
    /\ UNCHANGED <<file, rows, stops>>

\* Mutant: repositories that share their owner/name are all dropped.
MutDropsBoth(rs) ==
    At(rs, {i \in 1..Len(rs) : \A j \in 1..Len(rs) : rs[j].key = rs[i].key => i = j})

\* owner/name, first come.
Deduped(rs) ==
    At(rs, {i \in 1..Len(rs) : \A j \in 1..(i - 1) : rs[j].key # rs[i].key})

\* A line with one bracket only is dropped when the file is read.
Valid(p) == p.brackets \in {"none", "both"}

\* The last line that fits decides.
Match(id) ==
    LET hits == {i \in 1..Len(Patterns) : Valid(Patterns[i]) /\ id \in Patterns[i].fits}
    IN hits # {} /\ ~Patterns[CHOOSE i \in hits : \A j \in hits : j <= i].negation

Ignored == {id \in Ids : Match(id)}

Passes(r, readable) ==
    /\ readable => r.id \notin Ignored
    /\ ProcessPrivate \/ ~r.private
    /\ MaxInactivity => ~r.stale

Filtered(rs, readable) ==
    LET first == Deduped(rs)
    IN At(first, {i \in 1..Len(first) : Passes(first[i], readable)})

\* The end of discovery.  An unreadable .repoignore is noted, and ignores nothing.
\* A scan logs what it found; a generate goes on to the loop.
Discovered(c, readable) ==
    LET rs == Filtered(cmd[c].got, readable)
        found == [i \in 1..Len(rs) |-> [id |-> rs[i].id, key |-> rs[i].key, outcome |-> "ok"]]
    IN [cmd[c] EXCEPT !.errs = IF readable THEN @ ELSE @ \cup {".repoignore"},
                      !.pc = IF c \in Scans THEN "unlink" ELSE "work",
                      !.log = IF c \in Scans THEN found ELSE <<>>,
                      !.todo = IF c \in Scans THEN <<>> ELSE rs]

Discover(c) ==
    /\ cmd[c].pc = "list" /\ cmd[c].next > Len(Targets)
    /\ \/ cmd' = [cmd EXCEPT ![c] = Discovered(c, TRUE)] /\ UNCHANGED faults
       \/ /\ faults < MaxFaults /\ faults' = faults + 1
          /\ cmd' = [cmd EXCEPT ![c] = Discovered(c, FALSE)]
    /\ UNCHANGED <<file, rows, spent, stops>>

-----------------------------------------------------------------------------
(* The loop of GenerateOnly *)

\* The answers metadata requests may get, with what they cost of MaxFaults.
Replies(c, r) ==
    LET n == Requests(r.service)
        f == Forced(c, r.service)
    IN IF f # {} THEN {[i \in 1..n |-> a] : a \in f}
       ELSE {<<a>> \o as : a \in {"ok", "refused", "down"} \cup
                                IF r.service = "gitverse" THEN {"gone"} ELSE {},
                           as \in [1..(n - 1) -> {"ok", "down"}]}

Cost(c, r, as, good) ==
    IF Forced(c, r.service) # {} THEN 0
    ELSE Cardinality({i \in DOMAIN as : as[i] # "ok"}) + IF good THEN 0 ELSE 1

Outcome(m, good) ==
    IF ~m.ok THEN "error" ELSE IF m.archived THEN "skipped" ELSE IF good THEN "ok" ELSE "error"

GenerateNext(c) ==
    /\ cmd[c].pc = "work" /\ cmd[c].todo # <<>> /\ ~cmd[c].cancelled
    /\ LET r == Head(cmd[c].todo)
           t == cmd[c].tms[r.service]
       IN \E as \in Replies(c, r), good \in BOOLEAN :
            LET m == GetRepositoryMetadata(r, t, as)
            IN /\ good \/ (m.ok /\ ~m.archived)
               /\ faults + Cost(c, r, as, good) <= MaxFaults
               /\ faults' = faults + Cost(c, r, as, good)
               /\ cmd' = [cmd EXCEPT ![c].todo = Tail(@), ![c].tms[r.service] = m.tm,
                    ![c].log = Append(@, [id |-> r.id, key |-> r.key, outcome |-> Outcome(m, good)])]
    /\ UNCHANGED <<file, rows, spent, stops>>

GenerateEnds(c) ==
    /\ cmd[c].pc = "work" /\ (cmd[c].todo = <<>> \/ cmd[c].cancelled)
    /\ cmd' = [cmd EXCEPT ![c].pc = "unlink", ![c].todo = <<>>]
    /\ UNCHANGED <<file, rows, spent, faults, stops>>

-----------------------------------------------------------------------------
(* Outside the program *)

Ended == {"done", "left", "refused", "dead"}

\* The breaker's minute passes.
Cool(c) ==
    /\ cmd[c].pc \in {"list", "work"}
    /\ \E s \in ToSet(Services) :
         /\ Open(cmd[c].tms[s])
         /\ cmd' = [cmd EXCEPT ![c].tms[s] = HalfOpen(@)]
    /\ UNCHANGED <<file, rows, spent, faults, stops>>

Cancel(c) ==
    /\ cmd[c].pc \notin Ended \cup {"idle"} /\ ~cmd[c].cancelled
    /\ stops < MaxStops /\ stops' = stops + 1
    /\ cmd' = [cmd EXCEPT ![c].cancelled = TRUE]
    /\ UNCHANGED <<file, rows, spent, faults>>

Crash(c) ==
    /\ cmd[c].pc \notin Ended \cup {"idle"}
    /\ stops < MaxStops /\ stops' = stops + 1
    /\ cmd' = [cmd EXCEPT ![c] = [Idle EXCEPT !.pc = "dead"]]
    /\ UNCHANGED <<file, rows, spent, faults>>

Step(c) ==
    \/ BootFails(c) \/ WriteFile(c) \/ AcquireRow(c) \/ AcquireRefused(c)
    \/ ListNext(c) \/ Discover(c) \/ GenerateNext(c) \/ GenerateEnds(c)
    \/ UnlinkFile(c) \/ DeleteRows(c)

Quiet == (\A c \in Commands : cmd[c].pc \in Ended) /\ UNCHANGED vars

Next == (\E c \in Commands : Step(c) \/ Cool(c) \/ Cancel(c) \/ Crash(c)) \/ Quiet

Spec == Init /\ [][Next]_vars

FairSpec == Spec /\ \A c \in Commands : WF_vars(Step(c))

-----------------------------------------------------------------------------
(* Properties *)

TypeOK ==
    /\ file \in Commands \cup {NoOne} /\ rows \subseteq Commands
    /\ spent \subseteq Known \X (Tokens \cup {"none"})
    /\ faults \in 0..MaxFaults /\ stops \in 0..MaxStops
    /\ \A c \in Commands :
         /\ cmd[c].pc \in Holding \cup Ended \cup {"idle", "row"}
         /\ cmd[c].cancelled \in BOOLEAN /\ cmd[c].next \in 1..(Len(Targets) + 1)
         /\ cmd[c].errs \subseteq ToSet(Services) \cup {".repoignore"}
         /\ cmd[c].tms \in [ToSet(Services) -> TokenManager]
         /\ \A r \in ToSet(cmd[c].got) \cup ToSet(cmd[c].todo) :
              r.id \in Ids /\ r.service \in ToSet(Services)
         /\ \A e \in ToSet(cmd[c].log) :
              e.id \in Ids /\ e.outcome \in {"ok", "skipped", "error"}

\* One command at a time discovers and generates, and the row in sync_locks is
\* its own until it deletes it: a command that is refused takes nothing but the
\* lock file away (lock.go AcquireLock, sqlite.go AcquireLock and ReleaseLock).
SyncExclusive ==
    \A c \in Commands :
        cmd[c].pc \in Holding =>
            rows = {c} /\ \A d \in Commands \ {c} : cmd[d].pc \notin Holding

\* What an operator expects to be processed: public, active, not ignored.  GitVerse
\* is asked for its first page only.
Expected(u) ==
    /\ u.service \in ToSet(Services) /\ u.org \in ToSet(Orgs[u.service])
    /\ u.service = "gitverse" => u.page = 1
    /\ u.id \notin Ignored /\ ~u.private /\ ~u.stale

\* Of what was listed, the first with u's owner/name is another repository.
ListedBefore(rs, u) ==
    \E n \in 1..Len(rs), m \in 1..Len(rs) :
        /\ m < n /\ rs[n].id = u.id
        /\ rs[m].id # u.id /\ rs[m].key = u.key /\ \A i \in 1..(m - 1) : rs[i].key # u.key

\* When an undisturbed command is about to give the lock back, no owner/name was
\* worked on twice, no ignored repository was worked on unless the log says that
\* .repoignore could not be read, and every expected repository has an outcome,
\* unless its service is among the reported errors or another with its owner/name
\* was listed to this command before it (discoverRepositories, GenerateOnly,
\* ScanOnly).
AllAccountedFor ==
    \A c \in Commands : cmd[c].pc = "delete" /\ ~cmd[c].cancelled =>
        /\ \A i, j \in 1..Len(cmd[c].log) : cmd[c].log[i].key = cmd[c].log[j].key => i = j
        /\ \A e \in ToSet(cmd[c].log) : e.id \in Ignored => ".repoignore" \in cmd[c].errs
        /\ \A i \in 1..Len(Upstream) :
             Expected(Upstream[i]) =>
                \/ Upstream[i].service \in cmd[c].errs
                \/ \E e \in ToSet(cmd[c].log) : e.id = Upstream[i].id
                \/ ListedBefore(cmd[c].got, Upstream[i])

\* The lock comes free again and again, whatever the services answer (the deferred
\* ReleaseLock), unless its holder was killed or its DELETE was refused: the context
\* cancelled, or the database busy (lock.go:90-91).
LockComesFree == []<>(rows = {} \/ \E c \in rows : cmd[c].pc \in {"left", "dead"})

\* With PROCESS_PRIVATE_REPOSITORIES off, no private repository is scanned or
\* written about (orchestrator.go:311, "Filter private repositories unless
\* explicitly enabled.").
PrivateStaysOut ==
    ~ProcessPrivate =>
        \A c \in Commands : \A e \in ToSet(cmd[c].log) :
            \A i \in 1..Len(Upstream) : Upstream[i].id = e.id => ~Upstream[i].private
=============================================================================
