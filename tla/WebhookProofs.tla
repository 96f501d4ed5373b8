---------------------------- MODULE WebhookProofs ----------------------------
(***************************************************************************)
(* Proofs about WebhookIngest: its types, and that the two queues between  *)
(* the handlers and the orchestrator conserve what the handlers accepted.  *)
(***************************************************************************)
EXTENDS WebhookIngest, SequenceTheorems, TLAPS

\* Appending to the last of two concatenated sequences.
LEMMA AppendLast ==
    ASSUME NEW S, NEW a \in Seq(S), NEW b \in Seq(S), NEW x \in S
    PROVE a \o Append(b, x) = Append(a \o b, x)
  OBVIOUS

\* The head of a sequence may be its own or the end of the one before it.
LEMMA MoveHead ==
    ASSUME NEW S, NEW a \in Seq(S), NEW b \in Seq(S), b # <<>>
    PROVE /\ Append(a, Head(b)) \o Tail(b) = a \o b
          /\ (a \o <<Head(b)>>) \o Tail(b) = a \o b
<1>1. Head(b) \in S /\ Tail(b) \in Seq(S)
  OBVIOUS
<1>2. Append(a, Head(b)) = a \o <<Head(b)>>
  BY <1>1, AppendIsConcat
<1>3. Append(a, Head(b)) \o Tail(b) = a \o b
  BY <1>1
<1> QED
  BY <1>2, <1>3

\* Every step of a handler, of the drain or of the consumer keeps the types,
\* once a request at work is known to have an event.
LEMMA TypeStep == WebhookInv /\ [Next]_vars => TypeOK'
<1> SUFFICES ASSUME WebhookInv, [Next]_vars PROVE TypeOK'
  OBVIOUS
<1> USE DEF TypeOK, WebhookInv
<1>1. ASSUME NEW h \in Requests, NEW e \in Events, Ignore(h, e) PROVE TypeOK'
  BY <1>1, WebhookAssumption DEF Ignore, flowVars
<1>2. ASSUME NEW h \in Requests, NEW e \in Events, Check(h, e) PROVE TypeOK'
  <2>1. sent' \in [Events -> 0..MaxDeliveries]
    BY <1>2, WebhookAssumption DEF Check
  <2> QED
    BY <1>2, <2>1 DEF Check, flowVars
<1>3. ASSUME NEW h \in Requests, Track(h) PROVE TypeOK'
  <2>1. EventId(rq[h].event) \in GitHubEvents \cup {Token}
    BY <1>3 DEF Track, EventId, Events
  <2>2. [rq[h] EXCEPT !.pc = "tracked"]
            \in [pc : {"free", "checked", "tracked"}, event : Events \cup {None}]
    OBVIOUS
  <2> QED
    BY <1>3, <2>1, <2>2 DEF Track, flowVars
<1>4. ASSUME NEW h \in Requests, Enqueue(h) PROVE TypeOK'
  <2>1. rq[h].event \in Events
    BY <1>4 DEF Enqueue
  <2>2. /\ queue' \in Seq(Events) /\ Len(queue') <= QueueCap
        /\ accepted' \in Seq(Events)
    BY <1>4, <2>1, WebhookAssumption DEF Enqueue
  <2> QED
    BY <1>4, <2>2 DEF Enqueue, Free
<1>5. ASSUME NEW h \in Requests, Drop(h) PROVE TypeOK'
  BY <1>5 DEF Drop, flowVars, Free
<1>6. ASSUME NEW id \in seen, Expire(id) PROVE TypeOK'
  BY <1>6 DEF Expire, flowVars
<1>7. CASE Take
  <2>1. Head(queue) \in Events /\ Tail(queue) \in Seq(Events) /\ Len(Tail(queue)) <= QueueCap
    BY <1>7, WebhookAssumption DEF Take
  <2> QED
    BY <1>7, <2>1 DEF Take
<1>8. CASE Forward
  BY <1>8, WebhookAssumption DEF Forward
<1>9. CASE Overflow
  BY <1>9 DEF Overflow
<1>10. CASE Consume
  <2>1. Head(work) \in Events /\ Tail(work) \in Seq(Events) /\ Len(Tail(work)) <= WorkCap
    BY <1>10, WebhookAssumption DEF Consume
  <2> QED
    BY <1>10, <2>1 DEF Consume
<1>11. CASE UNCHANGED vars
  BY <1>11 DEF vars
<1> QED
  BY <1>1, <1>2, <1>3, <1>4, <1>5, <1>6, <1>7, <1>8, <1>9, <1>10, <1>11
     DEF Next, Serve, Drain

\* Every step keeps the order and the number of what was accepted.
LEMMA ConservedStep == WebhookInv /\ [Next]_vars => Conserved'
<1> SUFFICES ASSUME WebhookInv, [Next]_vars PROVE Conserved'
  OBVIOUS
<1>t. /\ queue \in Seq(Events) /\ work \in Seq(Events) /\ taken \in Seq(Events)
      /\ lost \in Seq(Events) /\ accepted \in Seq(Events)
      /\ held \in Events \cup {None} /\ drain \in {"running", "stopped"}
  BY DEF WebhookInv, TypeOK
<1>h. InHand \in Seq(Events)
  BY <1>t DEF InHand
<1>c. Conserved
  BY DEF WebhookInv
<1>b. taken \o work \in Seq(Events)
  BY <1>t, ConcatProperties
<1>f. ASSUME UNCHANGED <<queue, drain, held, work, taken, accepted, lost>> PROVE Conserved'
  BY <1>f, <1>c DEF Conserved, InHand
<1>1. ASSUME NEW h \in Requests, NEW e \in Events, Ignore(h, e) \/ Check(h, e)
      PROVE Conserved'
  BY <1>1, <1>f DEF Ignore, Check, flowVars
<1>2. ASSUME NEW h \in Requests, Track(h) \/ Drop(h) PROVE Conserved'
  BY <1>2, <1>f DEF Track, Drop, flowVars
<1>3. ASSUME NEW h \in Requests, Enqueue(h) PROVE Conserved'
  <2>1. rq[h].event \in Events
    BY <1>3 DEF Enqueue, WebhookInv
  <2>2. ASSUME NEW m \in Seq(Events), taken \o work \o m \o queue = accepted
        PROVE taken \o work \o m \o queue' = accepted'
    <3>1. taken \o work \o m \in Seq(Events)
      BY <1>b, <2>2, ConcatProperties
    <3> DEFINE front == taken \o work \o m
    <3>2. queue' = Append(queue, rq[h].event) /\ accepted' = Append(accepted, rq[h].event)
      BY <1>3 DEF Enqueue
    <3>3. front \in Seq(Events) /\ front \o queue = accepted
      BY <2>2, <3>1
    <3> HIDE DEF front
    <3>4. front \o Append(queue, rq[h].event) = Append(front \o queue, rq[h].event)
      BY <1>t, <2>1, <3>3, AppendLast
    <3>5. front \o queue' = accepted'
      BY <3>2, <3>3, <3>4
    <3> QED
      BY <3>5 DEF front
  <2> QED
    BY <1>3, <1>t, <1>h, <1>c, <2>2 DEF Conserved, Enqueue, InHand
<1>4. ASSUME NEW id \in seen, Expire(id) PROVE Conserved'
  BY <1>4, <1>f DEF Expire, flowVars
<1>5. CASE Take
  <2>1. InHand = <<>> /\ Head(queue) \in Events
    BY <1>5, <1>t DEF Take, InHand
  <2>2. InHand' = <<Head(queue)>>
    BY <1>5, <2>1, WebhookAssumption DEF Take, InHand
  <2>3. taken \o work \o InHand = taken \o work
    BY <1>b, <2>1, ConcatEmptySeq
  <2>4. (taken \o work \o <<Head(queue)>>) \o Tail(queue) = taken \o work \o queue
    BY <1>5, <1>b, <1>t, MoveHead DEF Take
  <2> QED
    BY <1>5, <1>c, <2>2, <2>3, <2>4 DEF Take, Conserved
<1>6. CASE Forward
  <2>1. drain = "running" /\ held \in Events /\ InHand = <<held>>
    BY <1>6, <1>c, <1>t DEF Forward, Conserved, InHand
  <2>2. InHand' = <<>>
    BY <1>6 DEF Forward, InHand
  <2>3. taken \o work' = taken \o work \o <<held>>
    <3>1. work' = Append(work, held)
      BY <1>6 DEF Forward
    <3>2. taken \o Append(work, held) = Append(taken \o work, held)
      BY <1>t, <2>1, AppendLast
    <3>3. Append(taken \o work, held) = taken \o work \o <<held>>
      BY <1>b, <2>1, AppendIsConcat
    <3> QED
      BY <3>1, <3>2, <3>3
  <2>4. taken \o work' \in Seq(Events)
    BY <1>b, <2>1, <2>3, ConcatProperties
  <2>5. taken \o work' \o InHand' = taken \o work \o InHand
    BY <2>1, <2>2, <2>3, <2>4, ConcatEmptySeq
  <2> QED
    BY <1>6, <1>c, <2>1, <2>5 DEF Forward, Conserved
<1>7. CASE Overflow
  <2>1. drain = "running" /\ InHand = <<held>> /\ lost = <<>>
    BY <1>7, <1>c DEF Overflow, Conserved, InHand
  <2>2. lost' = <<held>>
    BY <1>7, <2>1 DEF Overflow
  <2> QED
    BY <1>7, <1>c, <2>1, <2>2 DEF Overflow, Conserved
<1>8. CASE Consume
  <2>1. taken' \o work' = taken \o work
    BY <1>8, <1>t, MoveHead DEF Consume
  <2> QED
    BY <1>8, <1>c, <2>1 DEF Consume, Conserved, InHand
<1>9. CASE UNCHANGED vars
  BY <1>9, <1>f DEF vars
<1> QED
  BY <1>1, <1>2, <1>3, <1>4, <1>5, <1>6, <1>7, <1>8, <1>9 DEF Next, Serve, Drain

\* The inductive invariant holds however requests interleave with the drain.
THEOREM WebhookInvariant == Spec => []WebhookInv
<1>1. Init => WebhookInv
  BY WebhookAssumption DEF Init, WebhookInv, TypeOK, Free, Conserved, InHand
<1>2. WebhookInv /\ [Next]_vars => WebhookInv'
  <2> SUFFICES ASSUME WebhookInv, [Next]_vars
               PROVE (\A h \in Requests : rq[h].pc # "free" => rq[h].event \in Events)'
    BY TypeStep, ConservedStep DEF WebhookInv
  <2> USE DEF WebhookInv, TypeOK
  <2>1. ASSUME NEW h \in Requests, NEW e \in Events, Check(h, e)
        PROVE (\A q \in Requests : rq[q].pc # "free" => rq[q].event \in Events)'
    BY <2>1 DEF Check
  <2>2. ASSUME NEW h \in Requests, Track(h)
        PROVE (\A q \in Requests : rq[q].pc # "free" => rq[q].event \in Events)'
    BY <2>2 DEF Track
  <2>3. ASSUME NEW h \in Requests, Enqueue(h) \/ Drop(h)
        PROVE (\A q \in Requests : rq[q].pc # "free" => rq[q].event \in Events)'
    <3>1. rq' = [rq EXCEPT ![h] = Free] /\ Free.pc = "free"
      BY <2>3 DEF Enqueue, Drop, Free
    <3> QED
      BY <3>1
  <2>4. ASSUME UNCHANGED rq
        PROVE (\A q \in Requests : rq[q].pc # "free" => rq[q].event \in Events)'
    BY <2>4
  <2> QED
    BY <2>1, <2>2, <2>3, <2>4 DEF Next, Serve, Drain, Ignore, Expire, Take, Forward,
       Overflow, Consume, vars
<1> QED
  BY <1>1, <1>2, PTL DEF Spec

\* Every reachable state is well typed; in particular neither channel holds
\* more than its capacity, whichever requests race for the last place.
THEOREM WebhookTypeCorrect == Spec => []TypeOK
<1>1. WebhookInv => TypeOK
  BY DEF WebhookInv
<1> QED
  BY <1>1, WebhookInvariant, PTL

\* What the handlers accepted arrives in order and complete, up to the one
\* event that is lost when the work channel overflows.
THEOREM AcceptedIsConserved == Spec => []Conserved
<1>1. WebhookInv => Conserved
  BY DEF WebhookInv
<1> QED
  BY <1>1, WebhookInvariant, PTL
=============================================================================
