----------------------------- MODULE HttpServer -----------------------------
(***************************************************************************)
(* The HTTP server (cmd/server/main.go) around the webhook handlers: the   *)
(* routes and their middleware (internal/middleware: per-address rate      *)
(* limiter, admin key, webhook signature), the admin and download handlers *)
(* with their audit rings (internal/services/audit/ring_store.go), the     *)
(* background goroutines under concurrency.Lifecycle, start-up and the     *)
(* shutdown sequence of runServer.                                         *)
(*                                                                         *)
(* Requests run concurrently.  Allow is GetLimiter (one critical section)  *)
(* and then rate.Limiter.Allow, so a request holds a limiter in between    *)
(* and the sweeper may run there.  What a request asks for is chosen when  *)
(* its handler runs: the limiter does not look at it.  Time is a tick; a   *)
(* client may leave its request unfinished for ever.  Deduplication is in  *)
(* WebhookIngest and the preview routes are in PreviewReview.              *)
(***************************************************************************)
EXTENDS Integers, Sequences, FiniteSets

CONSTANTS
    Addresses,  \* client addresses
    Conns,      \* request goroutines
    Burst,      \* RateLimitBurst
    Rate,       \* tokens a bucket gains in a tick (RateLimitRPS)
    TTL,        \* ticks after which an untouched entry may be swept
    MaxStall,   \* bound: ticks a request goroutine spends inside Allow
    RingSize,   \* capacity of an audit ring (1024)
    PageSize,   \* entries /admin/audit asks for (100)
    QueueCap,   \* capacity of the webhook queue
    WorkCap,    \* capacity of the orchestrator's channel
    Tokens,     \* git services with a token in the configuration
    AdminKey,   \* whether an admin key is configured
    Secret,     \* whether a webhook secret is configured
    None        \* no limiter

\* One limiter per entry, and one per request that still holds an evicted one.
LimiterIds == 1..(Cardinality(Addresses) + Cardinality(Conns))

\* A bucket that nobody has used since its entry went stale is full again, so
\* replacing it by a new one gives nothing away.  With the default 100 requests
\* a second, a burst of 200 and ten minutes this holds by far.
ASSUME ServerAssumption ==
    /\ IsFiniteSet(Addresses) /\ IsFiniteSet(Conns) /\ None \notin LimiterIds
    /\ Burst \in Nat \ {0} /\ Rate \in Nat \ {0}
    /\ TTL \in Nat /\ MaxStall \in 0..TTL
    /\ (TTL + 1 - MaxStall) * Rate >= Burst
    /\ RingSize \in Nat \ {0} /\ PageSize \in Nat \ {0}
    /\ QueueCap \in Nat \ {0} /\ WorkCap \in Nat \ {0}
    /\ Tokens \subseteq {"github", "gitlab", "gitflic", "gitverse"}
    /\ AdminKey \in BOOLEAN /\ Secret \in BOOLEAN

Entries == {"reload", "error", "denied"}
Supervised == {"drain", "sweeper"}

VARIABLES
    phase,      \* where runServer is
    listening,  \* whether ListenAndServe accepts connections
    orch,       \* what buildOrchestrator left to the drain goroutine
    goroutines, \* background goroutines that run
    rq,         \* connection -> [pc, ip, limiter, stall]
    limiters,   \* IPRateLimiter.limiters: address -> limiter or None
    age,        \* address -> ticks since its entry was seen, up to TTL + 1
    bucket,     \* limiter -> tokens left (rate.Limiter)
    ideal,      \* ghost: address -> tokens of one bucket that was never evicted
    ring,       \* handler -> its RingStore
    page,       \* the last answer of /admin/audit
    backlog,    \* items in the webhook queue
    work        \* items in the orchestrator's channel

serverVars == <<phase, listening, orch, goroutines>>
limitVars == <<limiters, age, bucket, ideal>>
auditVars == <<ring, page>>
flowVars == <<backlog, work>>
vars == <<serverVars, rq, limitVars, auditVars, flowVars>>

-----------------------------------------------------------------------------
(***************************************************************************)
(* The audit ring.                                                         *)
(***************************************************************************)
NewRingStore == [buf |-> [i \in 0..RingSize - 1 |-> "unset"], head |-> 0, count |-> 0]

\* Mutant: the count is taken for the place of the next entry.
MutAtCount(r, e) ==
    [buf |-> [r.buf EXCEPT ![r.count % RingSize] = e],
     head |-> (r.head + 1) % RingSize,
     count |-> IF r.count < RingSize THEN r.count + 1 ELSE r.count]

\* Every entry of the handlers has an actor and an action: Validate accepts it.
Write(r, e) ==
    [buf |-> [r.buf EXCEPT ![r.head] = e],
     head |-> (r.head + 1) % RingSize,
     count |-> IF r.count < RingSize THEN r.count + 1 ELSE r.count]

List(r, limit) ==
    LET n == IF limit > 0 /\ limit < r.count THEN limit ELSE r.count
        start == (r.head - n + RingSize) % RingSize
    IN [i \in 1..n |-> r.buf[(start + i - 1) % RingSize]]

-----------------------------------------------------------------------------
(***************************************************************************)
(* Start.                                                                  *)
(***************************************************************************)
NewIPRateLimiter == [a \in Addresses |-> None]

Idle == [pc |-> "free", ip |-> None, limiter |-> None, stall |-> 0]

\* setupRouter: one limiter for all groups, one ring for each audited handler.
Init ==
    /\ phase = "boot" /\ listening = FALSE /\ orch = "none" /\ goroutines = {}
    /\ rq = [c \in Conns |-> Idle]
    /\ limiters = NewIPRateLimiter /\ age = [a \in Addresses |-> 0]
    /\ bucket = [l \in LimiterIds |-> Burst] /\ ideal = [a \in Addresses |-> Burst]
    /\ ring = [h \in {"admin", "access"} |-> NewRingStore] /\ page = <<>>
    /\ backlog = 0 /\ work = 0

serverSetupProviders == SelectSeq(<<"github", "gitlab", "gitflic", "gitverse">>, LAMBDA s : s \in Tokens)

\* No orchestrator without a database, its schema and a git service.
buildOrchestrator(connects, migrates) ==
    IF connects /\ migrates /\ serverSetupProviders # <<>> THEN "real" ELSE "noop"

Boot(connects, migrates) ==
    /\ phase = "boot"
    /\ phase' = "serving" /\ listening' = TRUE
    /\ orch' = buildOrchestrator(connects, migrates)
    /\ goroutines' = Supervised \cup {"cleanup"}
    /\ UNCHANGED <<rq, limitVars, auditVars, flowVars>>

\* ListenAndServe fails: the error is logged and runServer waits for a signal.
ListenFails ==
    /\ phase = "serving" /\ listening
    /\ \A c \in Conns : rq[c] = Idle
    /\ listening' = FALSE
    /\ UNCHANGED <<phase, orch, goroutines, rq, limitVars, auditVars, flowVars>>

-----------------------------------------------------------------------------
(***************************************************************************)
(* The rate limiter.                                                       *)
(***************************************************************************)
NewLimiter == CHOOSE l \in LimiterIds :
                  /\ \A a \in Addresses : limiters[a] # l
                  /\ \A c \in Conns : rq[c].limiter # l

\* A request to a limited route finds or creates the limiter of its address.
GetLimiter(c, ip) ==
    /\ phase = "serving" /\ listening /\ rq[c].pc = "free"
    /\ LET l == IF limiters[ip] = None THEN NewLimiter ELSE limiters[ip] IN
       /\ limiters' = [limiters EXCEPT ![ip] = l]
       /\ bucket' = IF limiters[ip] = None THEN [bucket EXCEPT ![l] = Burst] ELSE bucket
       /\ rq' = [rq EXCEPT ![c] = [pc |-> "limit", ip |-> ip, limiter |-> l, stall |-> 0]]
    /\ age' = [age EXCEPT ![ip] = 0]
    /\ UNCHANGED <<serverVars, ideal, auditVars, flowVars>>

Alive == phase \notin {"boot", "exited"}

\* rate.Limiter.Allow takes a token.
Allow(c) ==
    /\ Alive /\ rq[c].pc = "limit" /\ bucket[rq[c].limiter] > 0
    /\ bucket' = [bucket EXCEPT ![rq[c].limiter] = @ - 1]
    /\ ideal' = [ideal EXCEPT ![rq[c].ip] = @ - 1]
    /\ rq' = [rq EXCEPT ![c] = [Idle EXCEPT !.pc = "limited"]]
    /\ UNCHANGED <<serverVars, limiters, age, auditVars, flowVars>>

\* 429.
Limit(c) ==
    /\ Alive /\ rq[c].pc = "limit" /\ bucket[rq[c].limiter] = 0
    /\ rq' = [rq EXCEPT ![c] = Idle]
    /\ UNCHANGED <<serverVars, limitVars, auditVars, flowVars>>

\* Mutant: an entry idle since the last sweep goes, TTL or not.
MutSweepsAll ==
    /\ "sweeper" \in goroutines
    /\ limiters' = [a \in Addresses |-> IF age[a] > 0 THEN None ELSE limiters[a]]
    /\ UNCHANGED <<serverVars, rq, age, bucket, ideal, auditVars, flowVars>>

Sweep ==
    /\ "sweeper" \in goroutines
    /\ limiters' = [a \in Addresses |-> IF age[a] > TTL THEN None ELSE limiters[a]]
    /\ UNCHANGED <<serverVars, rq, age, bucket, ideal, auditVars, flowVars>>

Refill(b) == [x \in DOMAIN b |-> IF b[x] + Rate < Burst THEN b[x] + Rate ELSE Burst]

Tick ==
    /\ Alive
    /\ \A c \in Conns : rq[c].pc = "limit" => rq[c].stall < MaxStall
    /\ rq' = [c \in Conns |-> IF rq[c].pc = "limit" THEN [rq[c] EXCEPT !.stall = @ + 1] ELSE rq[c]]
    /\ age' = [a \in Addresses |-> IF age[a] <= TTL THEN age[a] + 1 ELSE age[a]]
    /\ bucket' = Refill(bucket) /\ ideal' = Refill(ideal)
    /\ UNCHANGED <<serverVars, limiters, auditVars, flowVars>>

-----------------------------------------------------------------------------
(***************************************************************************)
(* Routes.                                                                 *)
(***************************************************************************)
\* /debug/pprof, /health and /metrics have no limiter.
Unlimited(c) ==
    /\ phase = "serving" /\ listening /\ rq[c].pc = "free"
    /\ rq' = [rq EXCEPT ![c].pc = "open"]
    /\ UNCHANGED <<serverVars, limitVars, auditVars, flowVars>>

\* The key or signature of a request is right.
Auth(right) == AdminKey /\ right
WebhookAuth(right) == Secret /\ right

\* The request ends with an answer and no other effect: refused with 401 or 403,
\* or a read-only route (health, metrics, sync-status, health/deep, pprof).
Answer(c) ==
    /\ Alive /\ rq[c].pc \in {"limited", "open"}
    /\ rq' = [rq EXCEPT ![c] = Idle]
    /\ UNCHANGED <<serverVars, limitVars, auditVars, flowVars>>

Serve(c) ==
    /\ Alive /\ rq[c].pc = "limited"
    /\ rq' = [rq EXCEPT ![c] = Idle]
    /\ UNCHANGED <<serverVars, limitVars>>

Reload(c, right) ==
    /\ Serve(c) /\ Auth(right)
    /\ ring' = [ring EXCEPT !["admin"] = Write(@, "reload")]
    /\ UNCHANGED <<page, flowVars>>

adminAuditList(c, right) ==
    /\ Serve(c) /\ Auth(right)
    /\ page' = List(ring["admin"], PageSize)
    /\ UNCHANGED <<ring, flowVars>>

\* The stub wired by setupRouter rejects every link.
VerifySignedURL == FALSE

\* One audit entry on every path: parameters missing or an expiry that is no
\* number, or the link rejected.  No link gets past the stub to be served.
Download(c, outcome) ==
    /\ Serve(c)
    /\ outcome = "denied" => ~VerifySignedURL
    /\ ring' = [ring EXCEPT !["access"] = Write(@, outcome)]
    /\ UNCHANGED <<page, flowVars>>

\* GitHub or GitLab: WebhookAuth passes, the handler finds room in the queue: 200, or 429.
Webhook(c, right) ==
    /\ Serve(c) /\ WebhookAuth(right)
    /\ backlog' = IF backlog < QueueCap THEN backlog + 1 ELSE backlog
    /\ UNCHANGED <<auditVars, work>>

\* GitFlic and GitVerse deliveries are answered "queued" and logged as enqueued,
\* and nothing is put into the queue.
GenericWebhook(c, right) ==
    /\ Serve(c) /\ WebhookAuth(right)
    /\ UNCHANGED <<auditVars, flowVars>>

\* The drain goroutine forwards an item.  The no-op orchestrator forgets it; a
\* full channel makes the function fail, and Drain returns.
Drain ==
    /\ "drain" \in goroutines /\ backlog > 0
    /\ backlog' = backlog - 1
    /\ work' = IF orch = "real" /\ work < WorkCap THEN work + 1 ELSE work
    /\ goroutines' = IF orch = "real" /\ work = WorkCap THEN goroutines \ {"drain"} ELSE goroutines
    /\ UNCHANGED <<phase, listening, orch, rq, limitVars, auditVars>>

-----------------------------------------------------------------------------
(***************************************************************************)
(* Shutdown: Server.Shutdown, Lifecycle.Stop, EventDeduplicator.Close.     *)
(***************************************************************************)
Moves(from, to) ==
    /\ phase = from /\ phase' = to
    /\ UNCHANGED <<orch, rq, limitVars, auditVars, flowVars>>

\* SIGINT or SIGTERM: the listener closes, requests may finish.
Signal == Moves("serving", "shutdown") /\ listening' = FALSE /\ UNCHANGED goroutines

Requests == {c \in Conns : rq[c].pc # "free"}

ShutdownReturns ==
    /\ Requests = {}
    /\ Moves("shutdown", "stop") /\ UNCHANGED <<listening, goroutines>>

\* Mutant: Shutdown gets a context without a deadline.
MutWaitsForAll ==
    /\ Requests = {}
    /\ Moves("shutdown", "stop") /\ UNCHANGED <<listening, goroutines>>

\* Shutdown gives up after five seconds; the deferred stop runs all the same.
ShutdownTimesOut ==
    Moves("shutdown", "stop") /\ UNCHANGED <<listening, goroutines>>

\* The supervised goroutines see the cancelled context and return.
Cancelled(g) ==
    /\ phase = "stop" /\ g \in Supervised \cap goroutines
    /\ goroutines' = goroutines \ {g}
    /\ UNCHANGED <<phase, listening, orch, rq, limitVars, auditVars, flowVars>>

\* Stop returns when they are gone, or after five seconds.  Close ends the cleanup
\* goroutine, or gives up after a second, and main exits; what was in memory is gone.
Exit(late) ==
    /\ phase = "stop" /\ (late \/ goroutines \cap Supervised = {})
    /\ phase' = "exited" /\ goroutines' = {}
    /\ rq' = [c \in Conns |-> Idle]
    /\ limiters' = NewIPRateLimiter /\ age' = [a \in Addresses |-> 0]
    /\ bucket' = [l \in LimiterIds |-> Burst] /\ ideal' = [a \in Addresses |-> Burst]
    /\ backlog' = 0 /\ work' = 0
    /\ UNCHANGED <<listening, orch, auditVars>>

Shutdown == ShutdownReturns \/ ShutdownTimesOut \/ \E late \in BOOLEAN : Exit(late)

Next ==
    \/ \E connects, migrates \in BOOLEAN : Boot(connects, migrates)
    \/ ListenFails
    \/ \E c \in Conns, ip \in Addresses : GetLimiter(c, ip)
    \/ \E c \in Conns : Allow(c) \/ Limit(c) \/ Unlimited(c) \/ Answer(c)
    \/ \E c \in Conns, right \in BOOLEAN :
          Reload(c, right) \/ adminAuditList(c, right) \/ Webhook(c, right) \/ GenericWebhook(c, right)
    \/ \E c \in Conns, outcome \in {"error", "denied"} : Download(c, outcome)
    \/ Sweep
    \/ Tick
    \/ Drain
    \/ Signal
    \/ Shutdown
    \/ \E g \in Supervised : Cancelled(g)

Spec == Init /\ [][Next]_vars

\* Timers fire, so the shutdown sequence moves on.  Clients, the goroutines they
\* keep busy and the operator owe nothing.
FairSpec == Spec /\ WF_vars(Shutdown)

-----------------------------------------------------------------------------
(***************************************************************************)
(* Properties.                                                             *)
(***************************************************************************)
\* However requests, refills and the sweeper interleave, the requests admitted
\* from an address never exceed one token bucket of the configured rate and
\* burst: evicting an idle entry and starting a new bucket for the address gives
\* nothing away (ratelimit.go, Sweep "safe to call concurrently").
LimiterConforms == \A a \in Addresses : ideal[a] \in 0..Burst

\* Both rings implement the audit log: what is listed is what was written, in
\* order, the oldest entry giving way when the ring is full (ring_store.go).
AdminLog == INSTANCE AuditLog WITH
    Capacity <- RingSize, log <- List(ring["admin"], 0)
AccessLog == INSTANCE AuditLog WITH
    Capacity <- RingSize, log <- List(ring["access"], 0), page <- <<>>

RingIsLog == AdminLog!Spec /\ AccessLog!Spec

\* After a signal the process exits, whatever requests are still in flight and
\* whatever its background goroutines do (runServer: every wait has a deadline).
ServerStops == (phase = "shutdown") ~> (phase = "exited")
=============================================================================
