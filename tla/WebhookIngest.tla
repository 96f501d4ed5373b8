---------------------------- MODULE WebhookIngest ----------------------------
(***************************************************************************)
(* Webhooks on their way to the orchestrator: the GitHub and GitLab        *)
(* handlers (internal/handlers/webhook.go) with the event deduplicator     *)
(* (internal/services/sync/dedup.go), the bounded webhook queue            *)
(* (webhook_queue.go), the drain goroutine of cmd/server/main.go and the   *)
(* orchestrator's bounded work channel (orchestrator.go).  Everything is   *)
(* in memory: the model is one life of the server.                         *)
(*                                                                         *)
(* Requests run concurrently.  IsDuplicate and TrackEvent lock the map     *)
(* separately, so a request is three steps: check, track, enqueue.         *)
(***************************************************************************)
EXTENDS Naturals, Sequences, FiniteSets

CONSTANTS
    GitHubEvents,   \* pushes to a repository, each with its X-GitHub-Delivery id
    GitLabEvents,   \* the same, all with the X-Gitlab-Token of the installation
    Token,          \* that token
    Requests,       \* request goroutines
    MaxDeliveries,  \* bound: how often an event is delivered
    QueueCap,       \* capacity of WebhookQueue
    WorkCap,        \* DefaultEnqueueBufferCapacity
    Expiry,         \* whether the deduplication window ever runs out
    Consumer,       \* whether anybody calls DrainRepoWork
    None            \* no event

Events == GitHubEvents \cup GitLabEvents

ASSUME WebhookAssumption ==
    /\ None \notin Events
    /\ Token \notin GitHubEvents
    /\ MaxDeliveries \in Nat
    /\ QueueCap \in Nat \ {0}
    /\ WorkCap \in Nat \ {0}
    /\ Expiry \in BOOLEAN
    /\ Consumer \in BOOLEAN

\* What the handler passes to the deduplicator.
EventId(e) == IF e \in GitLabEvents THEN Token ELSE e

VARIABLES
    rq,         \* request -> [pc, event]
    seen,       \* ids tracked within the window
    queue,      \* WebhookQueue.items
    drain,      \* the drain goroutine: "running" or "stopped"
    held,       \* the item it is forwarding
    work,       \* Orchestrator.workCh
    taken,      \* history: what DrainRepoWork handed out
    accepted,   \* history: what was enqueued, in order
    lost,       \* history: the item whose forwarding stopped the drain
    sent        \* event -> number of deliveries

vars == <<rq, seen, queue, drain, held, work, taken, accepted, lost, sent>>
flowVars == <<queue, drain, held, work, taken, accepted, lost>>

Free == [pc |-> "free", event |-> None]

TypeOK ==
    /\ rq \in [Requests -> [pc : {"free", "checked", "tracked"}, event : Events \cup {None}]]
    /\ seen \subseteq GitHubEvents \cup {Token}
    /\ queue \in Seq(Events) /\ Len(queue) <= QueueCap
    /\ drain \in {"running", "stopped"}
    /\ held \in Events \cup {None}
    /\ work \in Seq(Events) /\ Len(work) <= WorkCap
    /\ taken \in Seq(Events)
    /\ accepted \in Seq(Events)
    /\ lost \in Seq(Events)
    /\ sent \in [Events -> 0..MaxDeliveries]

Init ==
    /\ rq = [h \in Requests |-> Free]
    /\ seen = {}
    /\ queue = <<>> /\ drain = "running" /\ held = None
    /\ work = <<>> /\ taken = <<>> /\ accepted = <<>> /\ lost = <<>>
    /\ sent = [e \in Events |-> 0]

-----------------------------------------------------------------------------
(***************************************************************************)
(* The handlers.                                                           *)
(***************************************************************************)
\* IsDuplicate says yes: 200 duplicate_ignored.
Ignore(h, e) ==
    /\ rq[h].pc = "free" /\ sent[e] < MaxDeliveries
    /\ EventId(e) \in seen
    /\ sent' = [sent EXCEPT ![e] = @ + 1]
    /\ UNCHANGED <<rq, seen, flowVars>>

\* IsDuplicate says no.
Check(h, e) ==
    /\ rq[h].pc = "free" /\ sent[e] < MaxDeliveries
    /\ EventId(e) \notin seen
    /\ rq' = [rq EXCEPT ![h] = [pc |-> "checked", event |-> e]]
    /\ sent' = [sent EXCEPT ![e] = @ + 1]
    /\ UNCHANGED <<seen, flowVars>>

Track(h) ==
    /\ rq[h].pc = "checked"
    /\ seen' = seen \cup {EventId(rq[h].event)}
    /\ rq' = [rq EXCEPT ![h].pc = "tracked"]
    /\ UNCHANGED <<sent, flowVars>>

\* Mutant: the queue is not bounded.
MutUnbounded(h) ==
    /\ rq[h].pc = "tracked"
    /\ queue' = Append(queue, rq[h].event)
    /\ accepted' = Append(accepted, rq[h].event)
    /\ rq' = [rq EXCEPT ![h] = Free]
    /\ UNCHANGED <<seen, sent, drain, held, work, taken, lost>>

\* TryEnqueue finds room: 200 queued.
Enqueue(h) ==
    /\ rq[h].pc = "tracked"
    /\ Len(queue) < QueueCap
    /\ queue' = Append(queue, rq[h].event)
    /\ accepted' = Append(accepted, rq[h].event)
    /\ rq' = [rq EXCEPT ![h] = Free]
    /\ UNCHANGED <<seen, sent, drain, held, work, taken, lost>>

\* TryEnqueue finds none: 429.  The id stays tracked.
Drop(h) ==
    /\ rq[h].pc = "tracked"
    /\ Len(queue) = QueueCap
    /\ rq' = [rq EXCEPT ![h] = Free]
    /\ UNCHANGED <<seen, sent, flowVars>>

\* The window runs out for an id; the cleanup goroutine removes it later.
Expire(id) ==
    /\ Expiry
    /\ id \in seen
    /\ seen' = seen \ {id}
    /\ UNCHANGED <<rq, sent, flowVars>>

-----------------------------------------------------------------------------
(***************************************************************************)
(* The drain goroutine and the orchestrator's channel.                     *)
(***************************************************************************)
Take ==
    /\ drain = "running" /\ held = None
    /\ queue # <<>>
    /\ held' = Head(queue)
    /\ queue' = Tail(queue)
    /\ UNCHANGED <<rq, seen, drain, work, taken, accepted, lost, sent>>

\* Mutant: EnqueueRepo puts the repository first.
MutJumpsQueue ==
    /\ held # None
    /\ Len(work) < WorkCap
    /\ work' = <<held>> \o work
    /\ held' = None
    /\ UNCHANGED <<rq, seen, queue, drain, taken, accepted, lost, sent>>

\* Mutant: the drain logs the repository and drops it.
MutLogAndDrop ==
    /\ held # None
    /\ Len(work) < WorkCap
    /\ held' = None
    /\ UNCHANGED <<rq, seen, queue, drain, work, taken, accepted, lost, sent>>

\* EnqueueRepo succeeds.
Forward ==
    /\ held # None
    /\ Len(work) < WorkCap
    /\ work' = Append(work, held)
    /\ held' = None
    /\ UNCHANGED <<rq, seen, queue, drain, taken, accepted, lost, sent>>

\* EnqueueRepo returns ErrWorkQueueFull, the drain function passes it on, and
\* Drain returns: the item is gone and nobody starts the goroutine again.
Overflow ==
    /\ held # None
    /\ Len(work) = WorkCap
    /\ drain' = "stopped"
    /\ lost' = Append(lost, held)
    /\ held' = None
    /\ UNCHANGED <<rq, seen, queue, work, taken, accepted, sent>>

\* DrainRepoWork.
Consume ==
    /\ Consumer
    /\ work # <<>>
    /\ taken' = Append(taken, Head(work))
    /\ work' = Tail(work)
    /\ UNCHANGED <<rq, seen, queue, drain, held, accepted, lost, sent>>

Serve(h) == Track(h) \/ Enqueue(h) \/ Drop(h)
Drain == Take \/ Forward \/ Overflow

Next ==
    \/ \E h \in Requests, e \in Events : Ignore(h, e) \/ Check(h, e)
    \/ \E h \in Requests : Serve(h)
    \/ \E id \in seen : Expire(id)
    \/ Drain
    \/ Consume

Spec == Init /\ [][Next]_vars

\* Goroutines run; senders and the clock owe nothing.
Fairness ==
    /\ \A h \in Requests : WF_vars(Serve(h))
    /\ WF_vars(Drain)
    /\ WF_vars(Consume)

FairSpec == Spec /\ Fairness

-----------------------------------------------------------------------------
(***************************************************************************)
(* Properties.                                                             *)
(***************************************************************************)
InHand == IF held = None THEN <<>> ELSE <<held>>

\* Between the handler and the orchestrator nothing is lost, doubled or
\* reordered: what was taken, what waits in the channel, the item in the
\* drain's hand (or the one that stopped it) and the queue are, in this order,
\* what the handlers accepted.
Conserved ==
    IF drain = "running"
    THEN lost = <<>> /\ taken \o work \o InHand \o queue = accepted
    ELSE held = None /\ taken \o work \o lost \o queue = accepted

\* The inductive invariant: a request at work has an event.
WebhookInv ==
    /\ TypeOK
    /\ \A h \in Requests : rq[h].pc # "free" => rq[h].event \in Events
    /\ Conserved

\* What the queue accepted reaches the orchestrator's channel, unless the drain
\* goroutine has ended on an overflow (after which nothing ever leaves the queue).
Reached(e) == \E i \in 1..Len(taken \o work) : (taken \o work)[i] = e

AcceptedReachesOrchestrator ==
    \A e \in Events :
        (\E i \in 1..Len(accepted) : accepted[i] = e) ~> (Reached(e) \/ drain = "stopped")
=============================================================================
