--------------------------- MODULE GeneratorProofs ---------------------------
(***************************************************************************)
(* Theorems about content generation: its semaphore, its audit log and the *)
(* token budget, for any number of calls, any chain of providers and any   *)
(* limits.                                                                 *)
(***************************************************************************)
EXTENDS ContentGenerator, FiniteSetTheorems, WellFoundedInduction, TLAPS

(***************************************************************************)
(* Sums over finite sets.                                                  *)
(***************************************************************************)
\* Of any subsets of a finite set, one is the smallest: induction on finite sets.
LEMMA SmallestSubset ==
    ASSUME NEW S, IsFiniteSet(S), NEW Sets, Sets \subseteq SUBSET S, Sets # {}
    PROVE  \E K \in Sets : \A J \in Sets : J \subseteq K => J = K
<1>1. IsWellFoundedOn(StrictSubsetOrdering(S), SUBSET S)
  BY FS_StrictSubsetOrderingWellFounded, FS_FiniteSubsetsOfFinite
<1>2. \E K \in Sets : \A J \in Sets : ~ (<<J, K>> \in StrictSubsetOrdering(S))
  BY <1>1, WFMin
<1> QED
  BY <1>2 DEF StrictSubsetOrdering

\* The element MapThenSumSet takes out of K.
Pick(K) == CHOOSE x \in K : TRUE

\* g[K] is the total of f over K, for every subset K of S, added up in the order
\* in which MapThenSumSet picks the elements.
IsTally(f, g, S) ==
    /\ g[{}] = 0 /\ \A K \in SUBSET S : g[K] \in Int
    /\ \A K \in SUBSET S : K # {} => g[K] = f[Pick(K)] + g[K \ {Pick(K)}]

\* What is taken out of a set that is not empty is a member of it.
LEMMA PickIn == ASSUME NEW K, K # {} PROVE Pick(K) \in K
BY DEF Pick

\* Tallies of functions that agree on a set agree on its subsets.
LEMMA TalliesAgree ==
    ASSUME NEW S, IsFiniteSet(S), NEW T \in SUBSET S, NEW e, NEW f, NEW g, NEW h,
           IsTally(e, g, S), IsTally(f, h, T), \A x \in T : e[x] = f[x]
    PROVE  \A K \in SUBSET T : g[K] = h[K]
<1> DEFINE Bad == {K \in SUBSET T : g[K] # h[K]}
<1> SUFFICES ASSUME Bad # {} PROVE FALSE
  OBVIOUS
<1>1. PICK K \in Bad : \A J \in Bad : J \subseteq K => J = K
  <2>1. Bad \subseteq SUBSET S
    OBVIOUS
  <2> HIDE DEF Bad
  <2> QED
    BY <2>1, SmallestSubset
<1>2. K # {} /\ K \in SUBSET T /\ K \in SUBSET S
  BY DEF IsTally
<1>3. Pick(K) \in K /\ K \ {Pick(K)} \in SUBSET T
  BY <1>2, PickIn
<1>4. g[K \ {Pick(K)}] = h[K \ {Pick(K)}]
  BY <1>1, <1>3
<1>5. g[K] = e[Pick(K)] + g[K \ {Pick(K)}] /\ h[K] = f[Pick(K)] + h[K \ {Pick(K)}]
  BY <1>2 DEF IsTally
<1> QED
  BY <1>1, <1>2, <1>3, <1>4, <1>5

\* Every function on a finite set has a tally.
LEMMA TallyExists ==
    ASSUME NEW S, IsFiniteSet(S), NEW f \in [S -> Int]
    PROVE  \E g : IsTally(f, g, S)
<1> DEFINE Bad == {T \in SUBSET S : ~ \E g : IsTally(f, g, T)}
<1> SUFFICES ASSUME Bad # {} PROVE FALSE
  OBVIOUS
<1>1. PICK T \in Bad : \A J \in Bad : J \subseteq T => J = T
  <2>1. Bad \subseteq SUBSET S
    OBVIOUS
  <2> HIDE DEF Bad
  <2> QED
    BY <2>1, SmallestSubset
<1> DEFINE Of(K) == CHOOSE g : IsTally(f, g, K)
           Total(K) == IF K = {} THEN 0 ELSE f[Pick(K)] + Of(K \ {Pick(K)})[K \ {Pick(K)}]
           t == [K \in SUBSET T |-> Total(K)]
<1>2. \A K \in SUBSET T : K # T => IsTally(f, Of(K), K)
  BY <1>1
<1>3. ASSUME NEW K \in SUBSET T, K # {}
      PROVE  /\ Pick(K) \in S /\ K \ {Pick(K)} \in SUBSET T
             /\ IsTally(f, Of(K \ {Pick(K)}), K \ {Pick(K)})
  <2>1. Pick(K) \in K
    BY <1>3, PickIn
  <2> QED
    BY <1>2, <2>1
<1>4. t \in [SUBSET T -> Int] /\ t[{}] = 0
  <2>1. ASSUME NEW K \in SUBSET T PROVE Total(K) \in Int
    <3>1. CASE K = {}
      BY <3>1
    <3>2. CASE K # {}
      <4>1. Of(K \ {Pick(K)})[K \ {Pick(K)}] \in Int
        <5>1. IsTally(f, Of(K \ {Pick(K)}), K \ {Pick(K)})
          BY <1>3, <3>2
        <5> HIDE DEF Of
        <5> QED
          BY <5>1 DEF IsTally
      <4> QED
        BY <1>3, <3>2, <4>1
    <3> QED
      BY <3>1, <3>2
  <2> QED
    BY <2>1
<1>5. \A K \in SUBSET T : K # T => t[K] = Of(K)[K]
  <2> SUFFICES ASSUME NEW K \in SUBSET T, K # T PROVE Total(K) = Of(K)[K]
    OBVIOUS
  <2>1. CASE K = {}
    BY <1>2, <2>1 DEF IsTally
  <2>2. CASE K # {}
    <3> DEFINE J == K \ {Pick(K)}
    <3>1. IsTally(f, Of(K), K) /\ IsTally(f, Of(J), J) /\ IsFiniteSet(K) /\ J \in SUBSET K
      BY <1>2, <1>3, <2>2, FS_Subset
    <3> HIDE DEF Of, J
    <3>2. Of(K)[J] = Of(J)[J]
      BY <3>1, TalliesAgree
    <3>3. Of(K)[K] = f[Pick(K)] + Of(K)[J]
      BY <2>2, <3>1 DEF IsTally, J
    <3> QED
      BY <2>2, <3>2, <3>3 DEF J
  <2> QED
    BY <2>1, <2>2
<1>6. \A K \in SUBSET T : K # {} => t[K] = f[Pick(K)] + t[K \ {Pick(K)}]
  <2> SUFFICES ASSUME NEW K \in SUBSET T, K # {} PROVE t[K] = f[Pick(K)] + t[K \ {Pick(K)}]
    OBVIOUS
  <2>1. K \ {Pick(K)} # T /\ K \ {Pick(K)} \in SUBSET T
    BY PickIn
  <2>2. t[K \ {Pick(K)}] = Of(K \ {Pick(K)})[K \ {Pick(K)}]
    BY <1>5, <2>1
  <2> QED
    BY <2>2
<1>7. IsTally(f, t, T)
  <2> HIDE DEF t
  <2> QED
    BY <1>4, <1>6 DEF IsTally
<1> QED
  BY <1>1, <1>7

\* The order of the picks does not matter: any element can be taken out last.
LEMMA TallyWithout ==
    ASSUME NEW S, IsFiniteSet(S), NEW f, \A x \in S : f[x] \in Int, NEW g, IsTally(f, g, S)
    PROVE  \A K \in SUBSET S : \A x \in K : g[K] = f[x] + g[K \ {x}]
<1> DEFINE Bad == {K \in SUBSET S : \E x \in K : g[K] # f[x] + g[K \ {x}]}
<1> SUFFICES ASSUME Bad # {} PROVE FALSE
  OBVIOUS
<1>1. PICK K \in Bad : \A J \in Bad : J \subseteq K => J = K
  <2>1. Bad \subseteq SUBSET S
    OBVIOUS
  <2> HIDE DEF Bad
  <2> QED
    BY <2>1, SmallestSubset
<1>2. PICK x \in K : g[K] # f[x] + g[K \ {x}]
  BY <1>1
<1> DEFINE p == Pick(K)
<1>3. p \in K /\ p \in S /\ x \in S /\ K \in SUBSET S
  BY <1>2, PickIn
<1>4. g[K] = f[p] + g[K \ {p}]
  BY <1>3 DEF IsTally
<1>5. x # p
  BY <1>2, <1>4
<1> HIDE DEF p
<1>6. g[K \ {p}] = f[x] + g[(K \ {p}) \ {x}]
  <2>1. K \ {p} # K /\ K \ {p} \in SUBSET S /\ x \in K \ {p}
    BY <1>3, <1>5
  <2>2. K \ {p} \notin Bad
    BY <1>1, <2>1
  <2> QED
    BY <2>1, <2>2
<1>7. g[K \ {x}] = f[p] + g[(K \ {x}) \ {p}]
  <2>1. K \ {x} # K /\ K \ {x} \in SUBSET S /\ p \in K \ {x}
    BY <1>3, <1>5
  <2>2. K \ {x} \notin Bad
    BY <1>1, <2>1
  <2> QED
    BY <2>1, <2>2
<1>8. (K \ {p}) \ {x} = (K \ {x}) \ {p} /\ g[(K \ {p}) \ {x}] \in Int /\ f[p] \in Int /\ f[x] \in Int
  BY <1>3 DEF IsTally
<1>9. g[K] = f[p] + (f[x] + g[(K \ {p}) \ {x}]) /\ g[K \ {x}] = f[p] + g[(K \ {p}) \ {x}]
  BY <1>4, <1>6, <1>7, <1>8
<1>10. g[K] = f[x] + g[K \ {x}]
  BY <1>8, <1>9
<1> QED
  BY <1>2, <1>10

\* Calls are finite in number.
LEMMA FiniteCalls == IsFiniteSet(Calls)
BY GeneratorAssumption

Total(f) == (CHOOSE g : IsTally(f, g, Calls))[Calls]

\* The sum the model takes of a function on calls is the last value of a tally of it.
LEMMA TotalTally ==
    ASSUME NEW f \in [Calls -> Nat]
    PROVE  \E g : IsTally(f, g, Calls) /\ Total(f) = g[Calls]
<1>1. \E g : IsTally(f, g, Calls)
  <2>1. f \in [Calls -> Int]
    OBVIOUS
  <2> QED
    BY <2>1, TallyExists, FiniteCalls
<1>2. IsTally(f, CHOOSE g : IsTally(f, g, Calls), Calls)
  BY <1>1
<1> QED
  BY <1>2 DEF Total

\* A function that is zero on every call sums to zero.
LEMMA TotalZero ==
    ASSUME NEW f \in [Calls -> Nat], \A k \in Calls : f[k] = 0
    PROVE  Total(f) = 0
<1> DEFINE z == [K \in SUBSET Calls |-> 0]
<1>1. PICK g : IsTally(f, g, Calls) /\ Total(f) = g[Calls]
  BY TotalTally
<1>2. IsTally(f, z, Calls)
  <2>1. \A K \in SUBSET Calls : z[K] = 0
    OBVIOUS
  <2>2. ASSUME NEW K \in SUBSET Calls, K # {} PROVE z[K] = f[Pick(K)] + z[K \ {Pick(K)}]
    <3>1. Pick(K) \in Calls /\ K \ {Pick(K)} \in SUBSET Calls
      BY <2>2, PickIn
    <3> QED
      BY <3>1
  <2> HIDE DEF z
  <2> QED
    BY <2>1, <2>2 DEF IsTally
<1>3. z[Calls] = 0
  OBVIOUS
<1> HIDE DEF z
<1> QED
  BY <1>1, <1>2, <1>3, TalliesAgree, FiniteCalls

\* Changing one call's share changes the total by as much.
LEMMA TotalUpdate ==
    ASSUME NEW f \in [Calls -> Nat], NEW e \in [Calls -> Nat], NEW k \in Calls,
           \A x \in Calls \ {k} : e[x] = f[x]
    PROVE  Total(f) \in Int /\ Total(e) = Total(f) - f[k] + e[k]
<1> DEFINE R == Calls \ {k}
<1>1. PICK g : IsTally(f, g, Calls) /\ Total(f) = g[Calls]
  BY TotalTally
<1>2. PICK h : IsTally(e, h, Calls) /\ Total(e) = h[Calls]
  BY TotalTally
<1>3. \A x \in Calls : f[x] \in Int /\ e[x] \in Int
  OBVIOUS
<1> HIDE DEF R
<1>4. g[Calls] = f[k] + g[R]
  BY <1>1, <1>3, TallyWithout, FiniteCalls DEF R
<1>5. h[Calls] = e[k] + h[R]
  BY <1>2, <1>3, TallyWithout, FiniteCalls DEF R
<1>6. R \in SUBSET Calls /\ IsTally(e, h, R)
  BY <1>2 DEF IsTally, R
<1>7. g[R] = h[R]
  <2>1. \A x \in R : f[x] = e[x]
    BY DEF R
  <2> QED
    BY <1>1, <1>6, <2>1, TalliesAgree, FiniteCalls
<1>8. g[R] \in Int
  BY <1>1, <1>6 DEF IsTally
<1> QED
  BY <1>1, <1>2, <1>3, <1>4, <1>5, <1>7, <1>8

-----------------------------------------------------------------------------
(***************************************************************************)
(* Types and the semaphore.                                                *)
(***************************************************************************)
Places == {"new", "wait", "chain", "asked", "failed", "done", "store", "ended"}
Inside == {"chain", "asked"}
Bests == {NoScore} \cup {reply.score : reply \in GatewayReplies \cup VerifierReplies}
CallRecord == [pc : Places, attempt : 0..MaxRetries, i : 1..(N + 1), gen : Nat,
               best : Bests, tokens : Nat, day : Nat]
BreakerRecord == [state : {"closed", "open", "half"}, fails : 0..(BreakerThreshold - 1), gen : Nat]

Stage(r) == (r.pc = "new" => r.tokens = 0) /\ (r.pc = "asked" => r.i <= N)

\* TypeOK with what its induction needs: a call has reserved on the budget's day
\* or an earlier one, has no count before it has reserved, and has asked a provider
\* of the chain.
GeneratorInv ==
    /\ TypeOK
    /\ call \in [Calls -> CallRecord]
    /\ straddled \in BOOLEAN
    /\ \A k \in Calls : call[k].day <= budgetDay /\ Stage(call[k])

\* The constants, as the proofs use them.
LEMMA Limits ==
    /\ PermitChoices \subseteq Nat \ {0} /\ MaxTokens \in Nat /\ DailyLimit \in Nat
    /\ Earlier \subseteq 0..DailyLimit /\ BreakerThreshold \in Nat \ {0}
    /\ MaxRetries \in Nat /\ MaxDay \in Nat /\ Counts \subseteq Nat
BY GeneratorAssumption

\* The chain has a length.
LEMMA ChainLength == N \in Nat
BY GeneratorAssumption DEF N

\* Every answer a provider can give has a score of the model and a token count.
LEMMA ReplyTypes ==
    ASSUME NEW i, NEW reply \in Replies(i)
    PROVE  reply.score \in Bests /\ reply.tokens \in Nat
<1>1. reply \in GatewayReplies \cup VerifierReplies
  BY DEF Replies
<1>2. reply \in GatewayReplies => reply.tokens \in Nat
  BY GeneratorAssumption DEF GatewayReplies
<1>3. reply \in VerifierReplies => reply.tokens \in Nat
  <2> SUFFICES ASSUME reply \in VerifierReplies PROVE reply.tokens \in Nat
    OBVIOUS
  <2>1. PICK a \in doRequest :
           reply \in IF a = "completion" THEN [score : Scores, tokens : Counts]
                     ELSE {[score |-> 0, tokens |-> 0]}
    BY DEF VerifierReplies
  <2>2. reply \in [score : Scores, tokens : Counts] \/ reply = [score |-> 0, tokens |-> 0]
    BY <2>1
  <2>3. CASE reply \in [score : Scores, tokens : Counts]
    BY <2>3, Limits
  <2>4. CASE reply = [score |-> 0, tokens |-> 0]
    BY <2>4
  <2> QED
    BY <2>2, <2>3, <2>4
<1> QED
  BY <1>1, <1>2, <1>3 DEF Bests

\* A call that has not begun is a call record.
LEMMA FreshTyped == Fresh \in CallRecord /\ Fresh.day = 0 /\ Fresh.tokens = 0
BY GeneratorAssumption, ChainLength DEF Fresh, CallRecord, Places, Bests

\* A breaker that is told of a success or a failure stays a breaker.
LEMMA AfterTyped ==
    ASSUME GeneratorInv, NEW k \in Calls, call[k].i \in 1..N, NEW ok \in BOOLEAN
    PROVE  After(k, ok) \in BreakerRecord
<1>1. breakers[call[k].i] \in BreakerRecord
  BY DEF GeneratorInv, TypeOK, BreakerRecord
<1> DEFINE b == breakers[call[k].i]
<1>2. [b EXCEPT !.fails = @ + 1] = [state |-> b.state, fails |-> b.fails + 1, gen |-> b.gen]
  BY <1>1 DEF BreakerRecord
<1> HIDE DEF b
<1>3. b \in BreakerRecord
  BY <1>1 DEF b
<1>4. CASE call[k].gen # b.gen
  BY <1>3, <1>4 DEF After, b
<1>5. CASE call[k].gen = b.gen /\ ok
  <2>1. After(k, ok) = [state |-> "closed", fails |-> 0, gen |-> IF b.state = "half" THEN b.gen + 1 ELSE b.gen]
    BY <1>5 DEF After, b
  <2> QED
    BY <1>3, <2>1, Limits DEF BreakerRecord
<1>6. CASE call[k].gen = b.gen /\ ~ok /\ (b.state = "half" \/ b.fails + 1 = BreakerThreshold)
  <2>1. After(k, ok) = [state |-> "open", fails |-> 0, gen |-> b.gen + 1]
    BY <1>6 DEF After, b
  <2> QED
    BY <1>3, <2>1, Limits DEF BreakerRecord
<1>7. CASE call[k].gen = b.gen /\ ~ok /\ ~(b.state = "half" \/ b.fails + 1 = BreakerThreshold)
  <2>1. After(k, ok) = [b EXCEPT !.fails = @ + 1]
    BY <1>7 DEF After, b
  <2> QED
    BY <1>2, <1>3, <1>7, <2>1, Limits DEF BreakerRecord
<1> QED
  BY <1>4, <1>5, <1>6, <1>7

\* The invariant holds at the start.
LEMMA GeneratorInvInit == Init => GeneratorInv
<1> SUFFICES ASSUME Init PROVE GeneratorInv
  OBVIOUS
<1> USE GeneratorAssumption, ChainLength DEF Init
<1>1. call \in [Calls -> CallRecord] /\ \A k \in Calls : call[k] = Fresh
  BY FreshTyped
<1>2. \A k \in Calls : call[k].pc = "new"
  BY <1>1 DEF Fresh
<1>3. inflight = {k \in Calls : call[k].pc \in {"chain", "asked"}} /\ Cardinality(inflight) <= permits
  <2>1. Cardinality({}) = 0 /\ permits \in Nat
    BY FS_EmptySet
  <2> QED
    BY <1>2, <2>1
<1>4. breakers \in [1..N -> BreakerRecord]
  BY DEF Closed, BreakerRecord
<1>5. \A k \in Calls : call[k] \in CallRecord /\ call[k].day = 0 /\ call[k].tokens = 0
  BY <1>1, FreshTyped
<1>6. usage \in 0..DailyLimit /\ today \in 0..MaxDay /\ budgetDay \in 0..today
  BY Limits
<1>7. TypeOK
  BY <1>3, <1>4, <1>5, <1>6 DEF TypeOK, CallRecord, BreakerRecord, Places, Bests
<1>8. \A k \in Calls : call[k].day <= budgetDay /\ Stage(call[k])
  BY <1>2, <1>5 DEF Stage
<1> QED
  BY <1>1, <1>7, <1>8 DEF GeneratorInv

\* One call moves: the permits follow it.
LEMMA PermitsFollow ==
    ASSUME GeneratorInv, NEW k \in Calls, permits' = permits,
           \A j \in Calls \ {k} : call'[j].pc = call[j].pc,
           \/ inflight' = inflight /\ (call[k].pc \in Inside <=> call'[k].pc \in Inside)
           \/ inflight' = inflight \cup {k} /\ call'[k].pc \in Inside /\ Cardinality(inflight) < permits
           \/ inflight' = inflight \ {k} /\ call'[k].pc \notin Inside
    PROVE  (/\ inflight = {j \in Calls : call[j].pc \in {"chain", "asked"}}
            /\ permits \in PermitChoices /\ Cardinality(inflight) <= permits)'
<1>1. inflight = {j \in Calls : call[j].pc \in Inside} /\ permits \in PermitChoices /\ Cardinality(inflight) <= permits
  BY DEF GeneratorInv, TypeOK, Inside
<1>2. IsFiniteSet(inflight) /\ permits \in Nat /\ Cardinality(inflight) \in Nat
  BY <1>1, FiniteCalls, FS_Subset, FS_CardinalityType, GeneratorAssumption
<1>3. inflight' = {j \in Calls : call'[j].pc \in Inside}
  BY <1>1
<1>4. Cardinality(inflight') <= permits
  <2>1. CASE inflight' = inflight
    BY <1>1, <2>1
  <2>2. CASE inflight' = inflight \cup {k} /\ Cardinality(inflight) < permits
    <3>1. Cardinality(inflight \cup {k}) \in {Cardinality(inflight), Cardinality(inflight) + 1}
      BY <1>2, FS_AddElement
    <3> QED
      BY <1>2, <2>2, <3>1
  <2>3. CASE inflight' = inflight \ {k}
    <3>1. Cardinality(inflight \ {k}) \in {Cardinality(inflight), Cardinality(inflight) - 1}
      BY <1>2, FS_RemoveElement
    <3> QED
      BY <1>1, <1>2, <2>3, <3>1
  <2> QED
    BY <2>1, <2>2, <2>3
<1> QED
  BY <1>1, <1>3, <1>4 DEF Inside

\* The parts of GeneratorInv about one call's own record.
LEMMA RecordFollows ==
    ASSUME GeneratorInv, NEW k \in Calls, NEW r \in CallRecord, call' = [call EXCEPT ![k] = r],
           budgetDay \in Nat, budgetDay' \in Nat, budgetDay <= budgetDay',
           r.day <= budgetDay', Stage(r)
    PROVE  /\ call' \in [Calls -> CallRecord]
           /\ (\A j \in Calls : call[j].day <= budgetDay /\ Stage(call[j]))'
           /\ \A j \in Calls \ {k} : call'[j] = call[j]
           /\ call'[k] = r
<1>1. \A j \in Calls : call[j] \in CallRecord
  BY DEF GeneratorInv
<1> QED
  BY <1>1 DEF GeneratorInv, CallRecord

\* What a call with record r has taken for certain of the budget of day d.
Share(r, d) ==
    IF r.day # d \/ r.pc = "new" THEN 0
    ELSE IF r.pc \in {"store", "ended"} /\ r.tokens < MaxTokens THEN r.tokens
    ELSE MaxTokens

\* A call's reservation is its share of the budget's day.
LEMMA ReservedIsShare == \A k : Reserved(k) = Share(call[k], budgetDay)
BY DEF Reserved, Share

\* A step from c to r, on one day, after which the call has taken no more.
Covered(c, r) ==
    /\ r.day = c.day
    /\ \/ c.pc \in {"wait", "chain", "asked", "failed", "done"}
       \/ c.pc = "store" /\ r.pc = "ended" /\ r.tokens = c.tokens

\* A step that does not spend more lets a call's share of any day only shrink.
LEMMA ShareShrinks ==
    ASSUME NEW c \in CallRecord, NEW r \in CallRecord, Covered(c, r), NEW d
    PROVE  Share(r, d) <= Share(c, d)
BY Limits DEF Covered, Share, CallRecord

\* A share is a number of tokens, at most the reservation of one call.
LEMMA ShareType ==
    ASSUME NEW r \in CallRecord, NEW d
    PROVE  Share(r, d) \in Nat /\ Share(r, d) <= MaxTokens
BY Limits DEF Share, CallRecord

\* The budget counts what the step takes: on the same day as before, or, reset, on
\* a later one.
Spends(k, r) ==
    ~straddled' =>
      /\ ~straddled
      /\ \/ budgetDay' = budgetDay /\ usage' + Share(call[k], budgetDay) >= usage + Share(r, budgetDay)
         \/ budgetDay' > budgetDay /\ usage' >= Share(r, budgetDay')

\* What every step of a call leaves behind: the call's new record, the permits
\* that follow it, the budget and the breakers within their bounds.
StepEffect(k, r) ==
    /\ r \in CallRecord /\ call' = [call EXCEPT ![k] = r]
    /\ r.day <= budgetDay' /\ Stage(r)
    /\ \/ inflight' = inflight /\ (call[k].pc \in Inside <=> r.pc \in Inside)
       \/ inflight' = inflight \cup {k} /\ r.pc \in Inside /\ Cardinality(inflight) < permits
       \/ inflight' = inflight \ {k} /\ r.pc \notin Inside
    /\ today' = today /\ budgetDay' \in budgetDay..today /\ usage' \in 0..DailyLimit
    /\ breakers' = breakers \/ \E i \in 1..N, b \in BreakerRecord : breakers' = [breakers EXCEPT ![i] = b]
    /\ cancelled' = cancelled /\ straddled' \in BOOLEAN
    /\ Spends(k, r)

\* A step of one call that leaves the permits alone keeps the invariant.
LEMMA EffectKeeps ==
    ASSUME GeneratorInv, NEW k \in Calls, NEW r, StepEffect(k, r), permits' = permits
    PROVE  GeneratorInv'
<1>1. budgetDay \in Nat /\ budgetDay' \in Nat /\ budgetDay <= budgetDay' /\ budgetDay' \in 0..today' /\ today' \in 0..MaxDay
  BY Limits DEF GeneratorInv, TypeOK, StepEffect
<1>2. r \in CallRecord /\ call' = [call EXCEPT ![k] = r] /\ r.day <= budgetDay' /\ Stage(r)
  BY DEF StepEffect
<1>3. /\ call' \in [Calls -> CallRecord]
      /\ (\A j \in Calls : call[j].day <= budgetDay /\ Stage(call[j]))'
      /\ \A j \in Calls \ {k} : call'[j] = call[j]
      /\ call'[k] = r
  BY <1>1, <1>2, RecordFollows
<1>4. (/\ inflight = {j \in Calls : call[j].pc \in {"chain", "asked"}}
       /\ permits \in PermitChoices /\ Cardinality(inflight) <= permits)'
  <2>1. \/ inflight' = inflight /\ (call[k].pc \in Inside <=> call'[k].pc \in Inside)
        \/ inflight' = inflight \cup {k} /\ call'[k].pc \in Inside /\ Cardinality(inflight) < permits
        \/ inflight' = inflight \ {k} /\ call'[k].pc \notin Inside
    BY <1>3 DEF StepEffect
  <2>2. \A j \in Calls \ {k} : call'[j].pc = call[j].pc
    BY <1>3
  <2> QED
    BY <2>1, <2>2, PermitsFollow
<1>5. breakers' \in [1..N -> BreakerRecord]
  <2>1. breakers \in [1..N -> BreakerRecord]
    BY DEF GeneratorInv, TypeOK, BreakerRecord
  <2>2. breakers' = breakers \/ \E i \in 1..N, b \in BreakerRecord : breakers' = [breakers EXCEPT ![i] = b]
    BY DEF StepEffect
  <2> QED
    BY <2>1, <2>2
<1>6. cancelled' \in BOOLEAN /\ straddled' \in BOOLEAN /\ usage' \in 0..DailyLimit
  BY Zenon DEF StepEffect, GeneratorInv, TypeOK
<1>7. \A j \in Calls : call'[j] \in CallRecord
  BY <1>3
<1>8. \A j \in Calls :
        /\ call'[j].pc \in Places /\ call'[j].attempt \in 0..MaxRetries
        /\ call'[j].i \in 1..(N + 1) /\ call'[j].best \in Bests
  BY <1>7 DEF CallRecord
<1>9. TypeOK'
  BY <1>1, <1>4, <1>5, <1>6, <1>8, Zenon DEF TypeOK, BreakerRecord, Places, Bests
<1> QED
  BY <1>3, <1>6, <1>9 DEF GeneratorInv
-----------------------------------------------------------------------------
\* What GeneratorInv says of one call, of the budget and of the breakers.
LEMMA CallFacts ==
    ASSUME GeneratorInv, NEW k \in Calls
    PROVE  /\ call[k] \in CallRecord /\ call[k].day <= budgetDay
           /\ usage \in 0..DailyLimit /\ budgetDay \in 0..today /\ today \in Nat
           /\ cancelled \in BOOLEAN /\ straddled \in BOOLEAN
           /\ breakers \in [1..N -> BreakerRecord]
<1>1. call[k] \in CallRecord /\ call[k].day <= budgetDay /\ cancelled \in BOOLEAN /\ straddled \in BOOLEAN
  BY Zenon DEF GeneratorInv, TypeOK
<1>2. usage \in 0..DailyLimit /\ budgetDay \in 0..today /\ today \in Nat
  BY Limits DEF GeneratorInv, TypeOK
<1>3. breakers \in [1..N -> BreakerRecord]
  BY DEF GeneratorInv, TypeOK, BreakerRecord
<1> QED
  BY <1>1, <1>2, <1>3

\* A step that leaves the budget alone and does not spend more keeps the budget covered.
LEMMA PlainSpends ==
    ASSUME GeneratorInv, NEW k \in Calls, NEW r \in CallRecord, Covered(call[k], r),
           UNCHANGED <<usage, budgetDay, straddled>>
    PROVE  Spends(k, r)
<1>1. Share(r, budgetDay) <= Share(call[k], budgetDay)
  BY CallFacts, ShareShrinks
<1>2. Share(r, budgetDay) \in Nat /\ Share(call[k], budgetDay) \in Nat /\ usage \in Nat
  BY CallFacts, ShareType, Limits
<1>3. usage' + Share(call[k], budgetDay) >= usage + Share(r, budgetDay)
  BY <1>1, <1>2
<1> QED
  BY <1>3, Zenon DEF Spends

\* A step that changes one call's record and no permit, and neither the budget nor
\* the contexts.
LEMMA PlainEffect ==
    ASSUME GeneratorInv, NEW k \in Calls, NEW r \in CallRecord, call' = [call EXCEPT ![k] = r],
           Covered(call[k], r), Stage(r), call[k].pc \in Inside <=> r.pc \in Inside,
           inflight' = inflight,
           breakers' = breakers \/ \E i \in 1..N, b \in BreakerRecord : breakers' = [breakers EXCEPT ![i] = b],
           UNCHANGED <<usage, budgetDay, today, cancelled, straddled>>
    PROVE  StepEffect(k, r)
<1>1. budgetDay' \in budgetDay..today /\ r.day <= budgetDay' /\ usage' \in 0..DailyLimit
  BY CallFacts DEF Covered
<1>2. straddled' \in BOOLEAN
  BY CallFacts, Zenon
<1>3. Spends(k, r)
  BY PlainSpends
<1> QED
  BY <1>1, <1>2, <1>3, Zenon DEF StepEffect

\* The record of a call that returned.
Ended(k) == [Fresh EXCEPT !.pc = "ended", !.day = call[k].day, !.tokens = call[k].tokens]

\* A call that returns keeps its day and its tokens.
LEMMA EndedTyped ==
    ASSUME GeneratorInv, NEW k \in Calls
    PROVE  /\ Ended(k) \in CallRecord /\ Ended(k).pc = "ended" /\ Ended(k).day = call[k].day
           /\ Ended(k).tokens = call[k].tokens
<1>1. Fresh \in CallRecord /\ "ended" \in Places
  BY FreshTyped DEF Places
<1>2. call[k].tokens \in Nat /\ call[k].day \in Nat
  BY CallFacts DEF CallRecord
<1> QED
  BY <1>1, <1>2 DEF Ended, CallRecord

\* The places and positions the steps move to.
LEMMA Constants ==
    /\ 0 \in 0..MaxRetries /\ 1 \in 1..(N + 1) /\ NoScore \in Bests
    /\ {"wait", "chain", "asked", "failed", "done", "store", "ended"} \subseteq Places
BY Limits, ChainLength DEF Bests, Places

\* Every step of a call has such an effect.
LEMMA StepEffects ==
    ASSUME GeneratorInv, NEW k \in Calls, Step(k)
    PROVE  \E r : StepEffect(k, r)
<1> DEFINE c == call[k]
<1>a. /\ c \in CallRecord /\ c.pc \in Places /\ c.attempt \in 0..MaxRetries /\ c.i \in 1..(N + 1) /\ c.gen \in Nat
      /\ c.best \in Bests /\ c.tokens \in Nat /\ c.day \in Nat /\ c.day <= budgetDay
  BY CallFacts DEF CallRecord
<1>b. N \in Nat /\ MaxRetries \in Nat /\ MaxTokens \in Nat /\ DailyLimit \in Nat
  BY Limits, ChainLength
<1>c. /\ usage \in 0..DailyLimit /\ budgetDay \in 0..today /\ today \in Nat
      /\ breakers \in [1..N -> BreakerRecord]
  BY CallFacts
<1>d. cancelled \in BOOLEAN /\ straddled \in BOOLEAN
  BY CallFacts, Zenon
<1>e. /\ 1 \in 1..(N + 1) /\ NoScore \in Bests /\ "wait" \in Places /\ "chain" \in Places /\ "asked" \in Places
      /\ "failed" \in Places /\ "done" \in Places /\ "store" \in Places
  BY Constants
<1>f. Stage(c)
  BY DEF GeneratorInv
<1>1. CASE CheckBudget(k)
  <2>1. /\ today' = today /\ cancelled' = cancelled /\ straddled' \in BOOLEAN /\ breakers' = breakers
        /\ inflight' = inflight /\ straddled' = straddled
    BY <1>d, <1>1, Zenon DEF CheckBudget
  <2>2. budgetDay' \in budgetDay..today /\ c.day <= budgetDay' /\ today \in Nat /\ today <= budgetDay' /\ c.pc = "new"
    BY <1>a, <1>c, <1>1 DEF CheckBudget
  <2>3. UsageNow \in 0..DailyLimit
    BY <1>b, <1>c DEF UsageNow
  <2>a. Share(c, budgetDay) = 0 /\ c.tokens = 0
    BY <1>f, <2>2 DEF Share, Stage
  <2>b. \/ budgetDay' = budgetDay /\ UsageNow = usage
        \/ budgetDay' > budgetDay /\ UsageNow = 0
    <3>1. budgetDay' = IF today > budgetDay THEN today ELSE budgetDay
      BY <1>1 DEF CheckBudget
    <3>2. budgetDay \in Nat /\ today \in Nat
      BY <1>c
    <3> QED
      BY <3>1, <3>2 DEF UsageNow
  <2>4. CASE Exceeds /\ usage' = UsageNow /\ Ends(k, "error")
    <3>1. /\ Ended(k) \in CallRecord /\ call' = [call EXCEPT ![k] = Ended(k)]
          /\ Ended(k).day <= budgetDay' /\ Stage(Ended(k)) /\ (c.pc \in Inside <=> Ended(k).pc \in Inside)
      BY <2>2, <2>4, EndedTyped DEF Ends, Ended, Stage, Inside
    <3>2. Share(Ended(k), budgetDay') = 0
      <4>1. Ended(k).tokens = 0 /\ Ended(k).pc = "ended"
        BY <2>a, EndedTyped
      <4> QED
        BY <1>b, <4>1 DEF Share
    <3>3. \/ budgetDay' = budgetDay /\ usage' + Share(c, budgetDay) >= usage + Share(Ended(k), budgetDay)
          \/ budgetDay' > budgetDay /\ usage' >= Share(Ended(k), budgetDay')
      BY <1>c, <2>3, <2>4, <2>a, <2>b, <3>2
    <3>4. Spends(k, Ended(k))
      BY <2>1, <3>3, Zenon DEF Spends
    <3> QED
      BY <2>1, <2>2, <2>3, <2>4, <3>1, <3>4, Zenon DEF StepEffect
  <2>5. CASE ~Exceeds /\ usage' = UsageNow + MaxTokens /\ call' = [call EXCEPT ![k].pc = "wait", ![k].day = today]
    <3> DEFINE r == [c EXCEPT !.pc = "wait", !.day = today]
    <3>1. call' = [call EXCEPT ![k] = r]
      BY <2>5
    <3>2. r \in CallRecord /\ r.day = today /\ r.pc = "wait"
      BY <1>a, <1>e, <2>2 DEF CallRecord
    <3>3. usage' \in 0..DailyLimit
      BY <1>b, <2>3, <2>5 DEF Exceeds
    <3> HIDE DEF r
    <3>4. r.day <= budgetDay' /\ Stage(r) /\ (c.pc \in Inside <=> r.pc \in Inside)
      BY <2>2, <3>2 DEF Stage, Inside
    <3>5. Share(r, budgetDay') <= MaxTokens /\ Share(r, budgetDay') \in Nat
      BY <3>2, ShareType
    <3>6. \/ budgetDay' = budgetDay /\ usage' + Share(c, budgetDay) >= usage + Share(r, budgetDay)
          \/ budgetDay' > budgetDay /\ usage' >= Share(r, budgetDay')
      BY <1>b, <1>c, <2>5, <2>a, <2>b, <3>5
    <3>7. Spends(k, r)
      BY <2>1, <3>6, Zenon DEF Spends
    <3> QED
      BY <2>1, <2>2, <3>1, <3>2, <3>3, <3>4, <3>7, Zenon DEF StepEffect
  <2> QED
    BY <1>1, <2>4, <2>5 DEF CheckBudget
<1>2. CASE AcquirePermit(k)
  <2> DEFINE r == [c EXCEPT !.pc = "chain", !.i = 1, !.best = NoScore]
  <2>1. call' = [call EXCEPT ![k] = r]
    BY <1>2 DEF AcquirePermit
  <2>2. r \in CallRecord /\ r.day = c.day /\ r.pc = "chain"
    BY <1>a, <1>e DEF CallRecord
  <2> HIDE DEF r
  <2>3. r.pc \in Inside /\ Stage(r) /\ r.day <= budgetDay' /\ budgetDay' \in budgetDay..today /\ usage' \in 0..DailyLimit
    BY <1>a, <1>c, <1>2, <2>2 DEF AcquirePermit, Inside, Stage
  <2>4. Covered(c, r)
    BY <1>2, <2>2 DEF AcquirePermit, Covered
  <2>5. Spends(k, r)
    BY <1>2, <2>2, <2>4, PlainSpends, Zenon DEF AcquirePermit
  <2> QED
    BY <1>d, <1>2, <2>1, <2>2, <2>3, <2>5, Zenon DEF AcquirePermit, StepEffect
<1>3. CASE WaitCancelled(k)
  <2> DEFINE r == [c EXCEPT !.pc = "failed"]
  <2>1. call' = [call EXCEPT ![k] = r]
    BY <1>3 DEF WaitCancelled
  <2>2. r \in CallRecord /\ r.day = c.day
    BY <1>a, <1>b, <1>e, <1>3 DEF WaitCancelled, CallRecord
  <2>3. Stage(r) /\ (c.pc \in Inside <=> r.pc \in Inside) /\ Covered(c, r)
    BY <1>a, <1>3, <2>2 DEF WaitCancelled, CallRecord, Inside, Stage, Covered
  <2> HIDE DEF r
  <2> QED
    BY <1>3, <2>1, <2>2, <2>3, PlainEffect, Zenon DEF WaitCancelled
<1>4. CASE Skip(k)
  <2> DEFINE r == [c EXCEPT !.i = @ + 1]
  <2>1. call' = [call EXCEPT ![k] = r]
    BY <1>4 DEF Skip
  <2>2. r \in CallRecord /\ r.day = c.day
    BY <1>a, <1>b, <1>e, <1>4 DEF Skip, CallRecord
  <2>3. Stage(r) /\ (c.pc \in Inside <=> r.pc \in Inside) /\ Covered(c, r)
    BY <1>a, <1>4, <2>2 DEF Skip, CallRecord, Inside, Stage, Covered
  <2> HIDE DEF r
  <2> QED
    BY <1>4, <2>1, <2>2, <2>3, PlainEffect, Zenon DEF Skip
<1>5. CASE Ask(k)
  <2> DEFINE r == [c EXCEPT !.pc = "asked", !.gen = breakers[c.i].gen]
  <2>1. call' = [call EXCEPT ![k] = r]
    BY <1>5 DEF Ask
  <2>2. c.i \in 1..N /\ breakers[c.i].gen \in Nat
    BY <1>a, <1>b, <1>c, <1>5 DEF Ask, BreakerRecord
  <2>3. r \in CallRecord /\ r.day = c.day /\ r.pc = "asked" /\ r.i = c.i
    BY <1>a, <1>e, <2>2 DEF CallRecord
  <2> HIDE DEF r
  <2>4. Stage(r) /\ (c.pc \in Inside <=> r.pc \in Inside) /\ Covered(c, r)
    BY <1>5, <2>2, <2>3 DEF Ask, Inside, Stage, Covered
  <2> QED
    BY <1>5, <2>1, <2>3, <2>4, PlainEffect, Zenon DEF Ask
<1>6. CASE ProviderFails(k)
  <2> DEFINE r == [c EXCEPT !.pc = "chain", !.gen = 0, !.i = @ + 1]
  <2>1. call' = [call EXCEPT ![k] = r]
    BY <1>6 DEF ProviderFails
  <2>2. c.i \in 1..N /\ c.i + 1 \in 1..(N + 1)
    BY <1>a, <1>b, <1>f, <1>6 DEF ProviderFails, Stage
  <2>3. r \in CallRecord /\ r.day = c.day /\ r.pc = "chain"
    BY <1>a, <1>e, <2>2 DEF CallRecord
  <2> HIDE DEF r
  <2>4. Stage(r) /\ (c.pc \in Inside <=> r.pc \in Inside) /\ Covered(c, r)
    BY <1>6, <2>3 DEF ProviderFails, Inside, Stage, Covered
  <2>5. \E i \in 1..N, b \in BreakerRecord : breakers' = [breakers EXCEPT ![i] = b]
    BY <1>6, <2>2, AfterTyped, Zenon DEF ProviderFails
  <2> QED
    BY <1>6, <2>1, <2>3, <2>4, <2>5, PlainEffect, Zenon DEF ProviderFails
<1>7. CASE ProviderAnswers(k)
  <2>1. c.i \in 1..N /\ c.i + 1 \in 1..(N + 1) /\ c.pc = "asked"
    BY <1>a, <1>b, <1>f, <1>7 DEF ProviderAnswers, Stage
  <2>2. \E i \in 1..N, b \in BreakerRecord : breakers' = [breakers EXCEPT ![i] = b]
    BY <1>7, <2>1, AfterTyped, Zenon DEF ProviderAnswers
  <2>3. PICK reply \in Replies(c.i) :
           \/ /\ call' = [call EXCEPT ![k].pc = "done", ![k].gen = 0, ![k].best = reply.score, ![k].tokens = reply.tokens]
              /\ inflight' = inflight \ {k}
           \/ /\ \/ call' = [call EXCEPT ![k].pc = "chain", ![k].gen = 0, ![k].i = @ + 1,
                                           ![k].best = reply.score, ![k].tokens = reply.tokens]
                 \/ call' = [call EXCEPT ![k].pc = "chain", ![k].gen = 0, ![k].i = @ + 1]
              /\ inflight' = inflight
    BY <1>7, Zenon DEF ProviderAnswers
  <2>4. reply.score \in Bests /\ reply.tokens \in Nat
    BY ReplyTypes
  <2>5. /\ today' = today /\ cancelled' = cancelled /\ straddled' \in BOOLEAN
        /\ budgetDay' = budgetDay /\ usage' = usage /\ straddled' = straddled
    BY <1>d, <1>7, Zenon DEF ProviderAnswers
  <2>6. budgetDay' \in budgetDay..today /\ usage' \in 0..DailyLimit
    BY <1>c, <2>5
  <2>7. CASE call' = [call EXCEPT ![k].pc = "done", ![k].gen = 0, ![k].best = reply.score, ![k].tokens = reply.tokens]
             /\ inflight' = inflight \ {k}
    <3> DEFINE r == [c EXCEPT !.pc = "done", !.gen = 0, !.best = reply.score, !.tokens = reply.tokens]
    <3>1. call' = [call EXCEPT ![k] = r]
      BY <2>7
    <3>2. r \in CallRecord /\ r.day = c.day /\ r.pc = "done"
      BY <1>a, <1>e, <2>4 DEF CallRecord
    <3> HIDE DEF r
    <3>3. r.day <= budgetDay' /\ Stage(r) /\ r.pc \notin Inside
      BY <1>a, <2>5, <3>2 DEF Stage, Inside
    <3>4. Covered(c, r)
      BY <2>1, <3>2 DEF Covered
    <3>5. Spends(k, r)
      BY <2>5, <3>2, <3>4, PlainSpends, Zenon
    <3> QED
      BY <2>2, <2>5, <2>6, <2>7, <3>1, <3>2, <3>3, <3>5, Zenon DEF StepEffect
  <2>8. CASE call' = [call EXCEPT ![k].pc = "chain", ![k].gen = 0, ![k].i = @ + 1,
                                  ![k].best = reply.score, ![k].tokens = reply.tokens]
             /\ inflight' = inflight
    <3> DEFINE r == [c EXCEPT !.pc = "chain", !.gen = 0, !.i = @ + 1, !.best = reply.score, !.tokens = reply.tokens]
    <3>1. call' = [call EXCEPT ![k] = r]
      BY <2>8
    <3>2. r \in CallRecord /\ r.day = c.day /\ r.pc = "chain"
      BY <1>a, <1>e, <2>1, <2>4 DEF CallRecord
    <3> HIDE DEF r
    <3>3. r.day <= budgetDay' /\ Stage(r) /\ (c.pc \in Inside <=> r.pc \in Inside)
      BY <1>a, <2>1, <2>5, <3>2 DEF Stage, Inside
    <3>4. Covered(c, r)
      BY <2>1, <3>2 DEF Covered
    <3>5. Spends(k, r)
      BY <2>5, <3>2, <3>4, PlainSpends, Zenon
    <3> QED
      BY <2>2, <2>5, <2>6, <2>8, <3>1, <3>2, <3>3, <3>5, Zenon DEF StepEffect
  <2>9. CASE call' = [call EXCEPT ![k].pc = "chain", ![k].gen = 0, ![k].i = @ + 1] /\ inflight' = inflight
    <3> DEFINE r == [c EXCEPT !.pc = "chain", !.gen = 0, !.i = @ + 1]
    <3>1. call' = [call EXCEPT ![k] = r]
      BY <2>9
    <3>2. r \in CallRecord /\ r.day = c.day /\ r.pc = "chain"
      BY <1>a, <1>e, <2>1 DEF CallRecord
    <3> HIDE DEF r
    <3>3. r.day <= budgetDay' /\ Stage(r) /\ (c.pc \in Inside <=> r.pc \in Inside)
      BY <1>a, <2>1, <2>5, <3>2 DEF Stage, Inside
    <3>4. Covered(c, r)
      BY <2>1, <3>2 DEF Covered
    <3>5. Spends(k, r)
      BY <2>5, <3>2, <3>4, PlainSpends, Zenon
    <3> QED
      BY <2>2, <2>5, <2>6, <2>9, <3>1, <3>2, <3>3, <3>5, Zenon DEF StepEffect
  <2> QED
    BY <2>3, <2>7, <2>8, <2>9, Zenon
<1>8. CASE ChainEnds(k)
  <2> DEFINE r == [c EXCEPT !.pc = IF c.best = NoScore THEN "failed" ELSE "done"]
  <2>1. call' = [call EXCEPT ![k] = r] /\ inflight' = inflight \ {k}
    BY <1>8 DEF ChainEnds
  <2>2. r \in CallRecord /\ r.day = c.day /\ r.pc \in {"failed", "done"}
    BY <1>a, <1>e DEF CallRecord
  <2> HIDE DEF r
  <2>3. r.pc \notin Inside /\ Stage(r) /\ r.day <= budgetDay' /\ budgetDay' \in budgetDay..today /\ usage' \in 0..DailyLimit
    BY <1>a, <1>c, <1>8, <2>2 DEF ChainEnds, Inside, Stage
  <2>4. Covered(c, r)
    BY <1>8, <2>2 DEF ChainEnds, Covered
  <2>5. Spends(k, r)
    BY <1>8, <2>2, <2>4, PlainSpends, Zenon DEF ChainEnds
  <2> QED
    BY <1>d, <1>8, <2>1, <2>2, <2>3, <2>5, Zenon DEF ChainEnds, StepEffect
<1>9. CASE Retry(k)
  <2> DEFINE r == [c EXCEPT !.pc = "wait", !.attempt = @ + 1]
  <2>1. call' = [call EXCEPT ![k] = r]
    BY <1>9 DEF Retry
  <2>2. c.attempt + 1 \in 0..MaxRetries
    BY <1>a, <1>b, <1>9 DEF Retry
  <2>3. r \in CallRecord /\ r.day = c.day /\ r.pc = "wait"
    BY <1>a, <1>e, <2>2 DEF CallRecord
  <2> HIDE DEF r
  <2>4. Stage(r) /\ (c.pc \in Inside <=> r.pc \in Inside) /\ Covered(c, r)
    BY <1>9, <2>3 DEF Retry, Inside, Stage, Covered
  <2> QED
    BY <1>9, <2>1, <2>3, <2>4, PlainEffect, Zenon DEF Retry
<1>10. CASE GiveUp(k)
  <2>1. Ended(k) \in CallRecord /\ call' = [call EXCEPT ![k] = Ended(k)] /\ Ended(k).day = c.day
    BY <1>10, EndedTyped DEF GiveUp, Ends, Ended
  <2>2. Stage(Ended(k)) /\ (c.pc \in Inside <=> Ended(k).pc \in Inside) /\ Covered(c, Ended(k))
    BY <1>10, EndedTyped DEF GiveUp, Inside, Stage, Covered
  <2> QED
    BY <1>10, <2>1, <2>2, PlainEffect, Zenon DEF GiveUp
<1>11. CASE Refund(k)
  <2> DEFINE r == [c EXCEPT !.pc = "store"]
  <2>1. call' = [call EXCEPT ![k] = r]
    BY <1>11 DEF Refund
  <2>2. r \in CallRecord /\ r.day = c.day /\ r.pc = "store" /\ r.tokens = c.tokens
    BY <1>a, <1>e DEF CallRecord
  <2> HIDE DEF r
  <2>3. Stage(r) /\ (c.pc \in Inside <=> r.pc \in Inside) /\ r.day <= budgetDay' /\ budgetDay' \in budgetDay..today
    BY <1>a, <1>c, <1>11, <2>2 DEF Refund, Inside, Stage
  <2>4. usage' \in 0..DailyLimit
    <3> DEFINE t == c.tokens
    <3>1. usage' = Refunded(t)
      BY <1>11 DEF Refund
    <3>2. t \in Nat /\ usage \in 0..DailyLimit /\ DailyLimit \in Nat /\ MaxTokens \in Nat
      BY <1>a, <1>b, <1>c
    <3> HIDE DEF t
    <3> QED
      BY <3>1, <3>2, SMTT(30) DEF Refunded
  <2>5. straddled' \in BOOLEAN
    BY <1>11, Zenon DEF Refund
  <2>6. ASSUME ~straddled' PROVE ~straddled /\ (c.tokens < MaxTokens => c.day = budgetDay)
    BY <1>11, <2>6, Zenon DEF Refund
  <2>7. ASSUME c.tokens < MaxTokens => c.day = budgetDay
        PROVE  usage' + Share(c, budgetDay) >= usage + Share(r, budgetDay)
    <3>1. c.pc = "done" /\ usage' = Refunded(c.tokens) /\ usage \in Nat
      BY <1>b, <1>c, <1>11 DEF Refund
    <3>2. CASE c.tokens >= MaxTokens
      <4>1. usage' = usage /\ Share(r, budgetDay) = Share(c, budgetDay)
        BY <1>a, <1>b, <2>2, <3>1, <3>2 DEF Refunded, Share
      <4>2. Share(c, budgetDay) \in Nat
        BY <1>a, ShareType
      <4> QED
        BY <3>1, <4>1, <4>2
    <3>3. CASE c.tokens < MaxTokens
      <4>1. Share(c, budgetDay) = MaxTokens /\ Share(r, budgetDay) = c.tokens
        BY <2>2, <2>7, <3>1, <3>3 DEF Share
      <4>2. usage' >= usage - (MaxTokens - c.tokens)
        BY <1>a, <1>b, <3>1, <3>3 DEF Refunded
      <4> QED
        BY <1>a, <1>b, <1>c, <2>4, <3>1, <4>1, <4>2
    <3> QED
      BY <1>a, <1>b, <3>2, <3>3
  <2>8. Spends(k, r)
    <3>1. budgetDay' = budgetDay
      BY <1>11 DEF Refund
    <3> QED
      BY <2>6, <2>7, <3>1, Zenon DEF Spends
  <2> QED
    BY <1>11, <2>1, <2>2, <2>3, <2>4, <2>5, <2>8, Zenon DEF Refund, StepEffect
<1>12. CASE Store(k)
  <2>1. Ended(k) \in CallRecord /\ call' = [call EXCEPT ![k] = Ended(k)] /\ Ended(k).day = c.day
    BY <1>12, EndedTyped DEF Store, Ends, Ended
  <2>2. Stage(Ended(k)) /\ (c.pc \in Inside <=> Ended(k).pc \in Inside) /\ Covered(c, Ended(k))
    BY <1>12, EndedTyped DEF Store, Inside, Stage, Covered
  <2> QED
    BY <1>12, <2>1, <2>2, PlainEffect, Zenon DEF Store
<1>13. CASE StoreFails(k)
  <2>1. Ended(k) \in CallRecord /\ call' = [call EXCEPT ![k] = Ended(k)] /\ Ended(k).day = c.day
    BY <1>13, EndedTyped DEF StoreFails, Ends, Ended
  <2>2. Stage(Ended(k)) /\ (c.pc \in Inside <=> Ended(k).pc \in Inside) /\ Covered(c, Ended(k))
    BY <1>13, EndedTyped DEF StoreFails, Inside, Stage, Covered
  <2> QED
    BY <1>13, <2>1, <2>2, PlainEffect, Zenon DEF StoreFails
<1> QED
  BY <1>1, <1>2, <1>3, <1>4, <1>5, <1>6, <1>7, <1>8, <1>9, <1>10, <1>11, <1>12, <1>13 DEF Step

\* GeneratorInv where neither a call nor the permits nor the budget changes.
LEMMA QuietKeeps ==
    ASSUME GeneratorInv, UNCHANGED <<usage, budgetDay, inflight, call, permits, straddled>>,
           breakers' \in [1..N -> BreakerRecord], today' \in today..MaxDay, cancelled' \in BOOLEAN
    PROVE  GeneratorInv'
<1>1. TypeOK /\ today \in 0..MaxDay /\ budgetDay \in 0..today
  BY DEF GeneratorInv, TypeOK
<1>2. today' \in 0..MaxDay /\ budgetDay' \in 0..today'
  BY <1>1, Limits
<1>3. TypeOK'
  BY <1>1, <1>2, Zenon DEF TypeOK, BreakerRecord
<1> QED
  BY <1>3, Zenon DEF GeneratorInv

\* Every step keeps the invariant.
LEMMA GeneratorInvStep ==
    ASSUME GeneratorInv, [Next]_vars
    PROVE  GeneratorInv'
<1>0. today \in today..MaxDay /\ today \in 0..MaxDay
  BY Limits DEF GeneratorInv, TypeOK
<1>1. /\ breakers \in [1..N -> BreakerRecord] /\ cancelled \in BOOLEAN
      /\ today \in today..MaxDay /\ today \in 0..MaxDay
  BY <1>0, Zenon DEF GeneratorInv, TypeOK, BreakerRecord
<1>2. ASSUME NEW k \in Calls, Step(k), permits' = permits PROVE GeneratorInv'
  BY <1>2, StepEffects, EffectKeeps
<1>3. ASSUME Cancel, permits' = permits PROVE GeneratorInv'
  BY <1>1, <1>3, QuietKeeps DEF Cancel
<1>4. ASSUME Midnight, permits' = permits PROVE GeneratorInv'
  <2>1. today' \in today..MaxDay
    BY <1>1, <1>4, Limits DEF Midnight
  <2> QED
    BY <1>1, <1>4, <2>1, QuietKeeps DEF Midnight
<1>5. ASSUME NEW i \in 1..N, Cool(i), permits' = permits PROVE GeneratorInv'
  <2>1. breakers' \in [1..N -> BreakerRecord]
    BY <1>1, <1>5, Limits DEF Cool, BreakerRecord
  <2> QED
    BY <1>1, <1>5, <2>1, QuietKeeps DEF Cool
<1>6. ASSUME UNCHANGED vars PROVE GeneratorInv'
  BY <1>1, <1>6, QuietKeeps DEF vars
<1> QED
  BY <1>2, <1>3, <1>4, <1>5, <1>6 DEF Next, Quiet

\* The inductive invariant: types, the permits in use are those of the calls in the
\* chain, and a call has reserved on the budget's day or before (fallback.go, budget.go).
THEOREM GeneratorInvariant == Spec => []GeneratorInv
<1>1. Init => GeneratorInv
  BY GeneratorInvInit
<1>2. GeneratorInv /\ [Next]_vars => GeneratorInv'
  BY GeneratorInvStep
<1> QED
  BY <1>1, <1>2, PTL DEF Spec

\* The semaphore: at every moment the permits in use are exactly those of the calls
\* inside the chain, and no more than LLM_CONCURRENCY; every way out of the chain
\* gives the permit back (fallback.go GenerateContent), for any number of calls.
THEOREM PermitsAreHeld == Spec => []TypeOK
<1>1. GeneratorInv => TypeOK
  BY DEF GeneratorInv
<1> QED
  BY <1>1, GeneratorInvariant, PTL

-----------------------------------------------------------------------------
(***************************************************************************)
(* The audit log and the store.                                            *)
(***************************************************************************)
Verdicts == {"ok", "rejected", "error"}

LogInv ==
    /\ rows \in [Calls -> {"none", "passed", "failed"}]
    /\ log \in [Calls -> Seq(Verdicts)]
    /\ LogMatchesStore

\* The outcome logged for a row.
Verdict(row) == IF row = "passed" THEN "ok" ELSE IF row = "failed" THEN "rejected" ELSE "error"

\* LogMatchesStore, call by call.
LEMMA LogInvOf ==
    ASSUME rows \in [Calls -> {"none", "passed", "failed"}]
    PROVE  LogMatchesStore <=>
             \A k \in Calls : IF call[k].pc # "ended" THEN log[k] = <<>> /\ rows[k] = "none"
                              ELSE log[k] = <<Verdict(rows[k])>>
BY DEF LogMatchesStore, Verdict

\* A call goes on.
LEMMA LogWaits ==
    ASSUME LogInv, NEW k \in Calls, call[k].pc # "ended", call'[k].pc # "ended",
           \A j \in Calls \ {k} : call'[j] = call[j], UNCHANGED <<rows, log>>
    PROVE  LogInv'
BY Zenon DEF LogInv, LogMatchesStore

\* A call returns, with the row it left.
LEMMA LogEnds ==
    ASSUME GeneratorInv, LogInv, NEW k \in Calls, call[k].pc # "ended",
           NEW row \in {"none", "passed", "failed"}, Ends(k, Verdict(row)),
           rows' = [rows EXCEPT ![k] = row]
    PROVE  LogInv'
<1>1. call \in [Calls -> CallRecord] /\ rows \in [Calls -> {"none", "passed", "failed"}] /\ log \in [Calls -> Seq(Verdicts)]
  BY DEF GeneratorInv, LogInv
<1>2. \A j \in Calls : IF call[j].pc # "ended" THEN log[j] = <<>> /\ rows[j] = "none"
                       ELSE log[j] = <<Verdict(rows[j])>>
  BY <1>1, LogInvOf DEF LogInv
<1>3. Verdict(row) \in Verdicts
  BY DEF Verdict, Verdicts
<1>4. rows' \in [Calls -> {"none", "passed", "failed"}] /\ rows'[k] = row /\ \A j \in Calls \ {k} : rows'[j] = rows[j]
  BY <1>1
<1>5. log' \in [Calls -> Seq(Verdicts)] /\ log'[k] = <<Verdict(row)>> /\ \A j \in Calls \ {k} : log'[j] = log[j]
  <2>1. log' = [log EXCEPT ![k] = Append(log[k], Verdict(row))]
    BY DEF Ends
  <2>2. Append(log[k], Verdict(row)) = <<Verdict(row)>>
    <3>1. log[k] = <<>>
      BY <1>2
    <3> QED
      BY <1>3, <3>1
  <2>3. <<Verdict(row)>> \in Seq(Verdicts)
    BY <1>3
  <2> QED
    BY <1>1, <2>1, <2>2, <2>3
<1>6. call'[k].pc = "ended" /\ \A j \in Calls \ {k} : call'[j] = call[j]
  <2>1. call' = [call EXCEPT ![k] = Ended(k)]
    BY DEF Ends, Ended
  <2> QED
    BY <1>1, <2>1, EndedTyped
<1>7. \A j \in Calls : IF call'[j].pc # "ended" THEN log'[j] = <<>> /\ rows'[j] = "none"
                       ELSE log'[j] = <<Verdict(rows'[j])>>
  BY <1>2, <1>4, <1>5, <1>6
<1>8. LogMatchesStore'
  BY <1>4, <1>7 DEF LogMatchesStore, Verdict
<1> QED
  BY <1>4, <1>5, <1>8 DEF LogInv

\* Every step keeps log and store in agreement.
LEMMA LogInvStep ==
    ASSUME GeneratorInv, LogInv, [Next]_vars
    PROVE  LogInv'
<1>1. call \in [Calls -> CallRecord] /\ rows \in [Calls -> {"none", "passed", "failed"}]
      /\ \A k \in Calls : DOMAIN call[k] = DOMAIN Fresh
  BY DEF GeneratorInv, LogInv, CallRecord, Fresh
<1>2. ASSUME UNCHANGED <<call, rows, log>> PROVE LogInv'
  BY <1>2, Zenon DEF LogInv, LogMatchesStore
<1>3. ASSUME NEW k \in Calls, Step(k) PROVE LogInv'
  <2>1. rows[k] \in {"none", "passed", "failed"} /\ rows = [rows EXCEPT ![k] = rows[k]]
        /\ (call[k].pc # "ended" => rows[k] = "none")
    BY <1>1 DEF LogInv, LogMatchesStore
  <2>a. ASSUME call[k].pc # "ended", UNCHANGED <<rows, log>>,
               NEW r, call' = [call EXCEPT ![k] = r], r.pc # "ended"
        PROVE  LogInv'
    <3>1. call'[k].pc # "ended" /\ \A j \in Calls \ {k} : call'[j] = call[j]
      BY <1>1, <2>a
    <3> QED
      BY <2>a, <3>1, LogWaits
  <2>b. ASSUME call[k].pc # "ended", rows' = rows, Ends(k, "error") PROVE LogInv'
    <3>1. "error" = Verdict("none") /\ rows' = [rows EXCEPT ![k] = "none"]
      BY <2>1, <2>b DEF Verdict
    <3> QED
      BY <2>b, <3>1, LogEnds
  <2>2. CASE CheckBudget(k)
    <3>1. call[k].pc # "ended" /\ rows' = rows
      BY <2>2 DEF CheckBudget
    <3>2. CASE Ends(k, "error")
      BY <2>b, <3>1, <3>2
    <3>3. CASE UNCHANGED log /\ call' = [call EXCEPT ![k].pc = "wait", ![k].day = today]
      <4> DEFINE r == [call[k] EXCEPT !.pc = "wait", !.day = today]
      <4>1. call' = [call EXCEPT ![k] = r]
        BY <3>3
      <4>2. r.pc # "ended"
        BY <1>1 DEF Fresh
      <4> QED
        BY <2>a, <3>1, <3>3, <4>1, <4>2
    <3> QED
      BY <2>2, <3>2, <3>3, Zenon DEF CheckBudget
  <2>3. CASE AcquirePermit(k)
    <3> DEFINE r == [call[k] EXCEPT !.pc = "chain", !.i = 1, !.best = NoScore]
    <3>1. call' = [call EXCEPT ![k] = r] /\ call[k].pc # "ended" /\ UNCHANGED <<rows, log>>
      BY <2>3 DEF AcquirePermit
    <3>2. r.pc # "ended"
      BY <1>1, <2>3 DEF AcquirePermit, Fresh
    <3> QED
      BY <2>a, <3>1, <3>2
  <2>4. CASE WaitCancelled(k)
    <3> DEFINE r == [call[k] EXCEPT !.pc = "failed"]
    <3>1. call' = [call EXCEPT ![k] = r] /\ call[k].pc # "ended" /\ UNCHANGED <<rows, log>>
      BY <2>4 DEF WaitCancelled
    <3>2. r.pc # "ended"
      BY <1>1, <2>4 DEF WaitCancelled, Fresh
    <3> QED
      BY <2>a, <3>1, <3>2
  <2>5. CASE Skip(k)
    <3> DEFINE r == [call[k] EXCEPT !.i = @ + 1]
    <3>1. call' = [call EXCEPT ![k] = r] /\ call[k].pc # "ended" /\ UNCHANGED <<rows, log>>
      BY <2>5 DEF Skip
    <3>2. r.pc # "ended"
      BY <1>1, <2>5 DEF Skip, Fresh
    <3> QED
      BY <2>a, <3>1, <3>2
  <2>6. CASE Ask(k)
    <3> DEFINE r == [call[k] EXCEPT !.pc = "asked", !.gen = breakers[call[k].i].gen]
    <3>1. call' = [call EXCEPT ![k] = r] /\ call[k].pc # "ended" /\ UNCHANGED <<rows, log>>
      BY <2>6 DEF Ask
    <3>2. r.pc # "ended"
      BY <1>1, <2>6 DEF Ask, Fresh
    <3> QED
      BY <2>a, <3>1, <3>2
  <2>7. CASE ProviderFails(k)
    <3> DEFINE r == [call[k] EXCEPT !.pc = "chain", !.gen = 0, !.i = @ + 1]
    <3>1. call' = [call EXCEPT ![k] = r] /\ call[k].pc # "ended" /\ UNCHANGED <<rows, log>>
      BY <2>7 DEF ProviderFails
    <3>2. r.pc # "ended"
      BY <1>1, <2>7 DEF ProviderFails, Fresh
    <3> QED
      BY <2>a, <3>1, <3>2
  <2>8. CASE ProviderAnswers(k)
    <3>1. call[k].pc # "ended" /\ UNCHANGED <<rows, log>>
      BY <2>8 DEF ProviderAnswers
    <3>2. \E r : call' = [call EXCEPT ![k] = r] /\ r.pc # "ended"
      <4>1. PICK reply \in Replies(call[k].i) :
               \/ call' = [call EXCEPT ![k].pc = "done", ![k].gen = 0, ![k].best = reply.score, ![k].tokens = reply.tokens]
               \/ call' = [call EXCEPT ![k].pc = "chain", ![k].gen = 0, ![k].i = @ + 1,
                                       ![k].best = reply.score, ![k].tokens = reply.tokens]
               \/ call' = [call EXCEPT ![k].pc = "chain", ![k].gen = 0, ![k].i = @ + 1]
        BY <2>8, Zenon DEF ProviderAnswers
      <4> DEFINE r1 == [call[k] EXCEPT !.pc = "done", !.gen = 0, !.best = reply.score, !.tokens = reply.tokens]
                 r2 == [call[k] EXCEPT !.pc = "chain", !.gen = 0, !.i = @ + 1, !.best = reply.score, !.tokens = reply.tokens]
                 r3 == [call[k] EXCEPT !.pc = "chain", !.gen = 0, !.i = @ + 1]
      <4>2. call' = [call EXCEPT ![k] = r1] \/ call' = [call EXCEPT ![k] = r2] \/ call' = [call EXCEPT ![k] = r3]
        BY <4>1
      <4>3. r1.pc # "ended" /\ r2.pc # "ended" /\ r3.pc # "ended"
        BY <1>1 DEF Fresh
      <4> HIDE DEF r1, r2, r3
      <4> QED
        BY <4>2, <4>3
    <3> QED
      BY <2>a, <3>1, <3>2
  <2>9. CASE ChainEnds(k)
    <3> DEFINE r == [call[k] EXCEPT !.pc = IF call[k].best = NoScore THEN "failed" ELSE "done"]
    <3>1. call' = [call EXCEPT ![k] = r] /\ call[k].pc # "ended" /\ UNCHANGED <<rows, log>>
      BY <2>9 DEF ChainEnds
    <3>2. r.pc # "ended"
      BY <1>1, <2>9 DEF ChainEnds, Fresh
    <3> QED
      BY <2>a, <3>1, <3>2
  <2>10. CASE Retry(k)
    <3> DEFINE r == [call[k] EXCEPT !.pc = "wait", !.attempt = @ + 1]
    <3>1. call' = [call EXCEPT ![k] = r] /\ call[k].pc # "ended" /\ UNCHANGED <<rows, log>>
      BY <2>10 DEF Retry
    <3>2. r.pc # "ended"
      BY <1>1, <2>10 DEF Retry, Fresh
    <3> QED
      BY <2>a, <3>1, <3>2
  <2>11. CASE GiveUp(k)
    BY <2>b, <2>11, Zenon DEF GiveUp
  <2>12. CASE Refund(k)
    <3> DEFINE r == [call[k] EXCEPT !.pc = "store"]
    <3>1. call' = [call EXCEPT ![k] = r] /\ call[k].pc # "ended" /\ UNCHANGED <<rows, log>>
      BY <2>12 DEF Refund
    <3>2. r.pc # "ended"
      BY <1>1, <2>12 DEF Refund, Fresh
    <3> QED
      BY <2>a, <3>1, <3>2
  <2>13. CASE Store(k)
    <3> DEFINE row == IF Passed(k) THEN "passed" ELSE "failed"
    <3>1. call[k].pc # "ended" /\ rows' = [rows EXCEPT ![k] = row]
      BY <2>13 DEF Store
    <3>2. Ends(k, Verdict(row)) /\ row \in {"none", "passed", "failed"}
      BY <2>13 DEF Store, Verdict
    <3> HIDE DEF row
    <3> QED
      BY <3>1, <3>2, LogEnds
  <2>14. CASE StoreFails(k)
    BY <2>b, <2>14, Zenon DEF StoreFails
  <2> QED
    BY <1>3, <2>2, <2>3, <2>4, <2>5, <2>6, <2>7, <2>8, <2>9, <2>10, <2>11, <2>12, <2>13, <2>14 DEF Step
<1> QED
  BY <1>2, <1>3 DEF Next, Cancel, Midnight, Cool, Quiet, vars

\* A call that returned is in the audit log once, with the verdict of its row in
\* generated_contents; a call under way has left neither (generator.go:28), for
\* any number of calls and whatever the providers answer.
THEOREM LogIsTrue == Spec => []LogMatchesStore
<1>1. Init => LogInv
  <2> SUFFICES ASSUME Init PROVE LogInv
    OBVIOUS
  <2>1. \A k \in Calls : call[k].pc = "new" /\ rows[k] = "none" /\ log[k] = <<>>
    BY DEF Init, Fresh
  <2>2. rows \in [Calls -> {"none", "passed", "failed"}] /\ log \in [Calls -> Seq(Verdicts)]
    BY DEF Init
  <2> QED
    BY <2>1, <2>2 DEF LogInv, LogMatchesStore
<1>2. GeneratorInv /\ LogInv /\ [Next]_vars => LogInv'
  BY LogInvStep
<1>3. LogInv => LogMatchesStore
  BY DEF LogInv
<1> QED
  BY <1>1, <1>2, <1>3, GeneratorInvariant, PTL DEF Spec

-----------------------------------------------------------------------------
(***************************************************************************)
(* The token budget.                                                       *)
(***************************************************************************)
Shares == [k \in Calls |-> Share(call[k], budgetDay)]

\* The shares of all calls form a function into token counts.
LEMMA SharesTyped == GeneratorInv => Shares \in [Calls -> Nat]
BY CallFacts, ShareType DEF Shares

\* MapThenSumSet adds the shares up in the order of its own picks; so does a tally.
LEMMA SumIsTotal == GeneratorInv => MapThenSumSet(Reserved, Calls) = Total(Shares)
<1> SUFFICES ASSUME GeneratorInv PROVE MapThenSumSet(Reserved, Calls) = Total(Shares)
  OBVIOUS
<1> DEFINE Sums(h) == h = [s \in SUBSET Calls |->
                             IF s = {} THEN 0
                             ELSE Reserved(CHOOSE x \in s : TRUE) + h[s \ {CHOOSE x \in s : TRUE}]]
           h == CHOOSE h : Sums(h)
<1>1. MapThenSumSet(Reserved, Calls) = h[Calls]
  BY DEF MapThenSumSet, MapThenFoldSet
<1>2. \A k \in Calls : Reserved(k) = Shares[k]
  BY ReservedIsShare DEF Shares
<1>3. PICK g : IsTally(Shares, g, Calls) /\ Total(Shares) = g[Calls]
  BY SharesTyped, TotalTally
<1> DEFINE t == [K \in SUBSET Calls |-> g[K]]
<1>4. Sums(t)
  <2>1. ASSUME NEW K \in SUBSET Calls, K # {} PROVE g[K] = Reserved(CHOOSE x \in K : TRUE) + t[K \ {CHOOSE x \in K : TRUE}]
    <3>1. Pick(K) \in Calls /\ K \ {Pick(K)} \in SUBSET Calls
      BY <2>1, PickIn
    <3>2. g[K] = Shares[Pick(K)] + g[K \ {Pick(K)}]
      BY <1>3, <2>1 DEF IsTally
    <3>3. g[K] = Reserved(Pick(K)) + t[K \ {Pick(K)}]
      BY <1>2, <3>1, <3>2
    <3> QED
      BY <3>3 DEF Pick
  <2>2. g[{}] = 0
    BY <1>3 DEF IsTally
  <2> QED
    BY <2>1, <2>2
<1>5. Sums(h)
  <2> HIDE DEF Sums
  <2> QED
    BY <1>4
<1>6. \A K \in SUBSET Calls : K # {} => h[K] = Shares[Pick(K)] + h[K \ {Pick(K)}]
  <2> HIDE DEF h
  <2> SUFFICES ASSUME NEW K \in SUBSET Calls, K # {} PROVE h[K] = Shares[Pick(K)] + h[K \ {Pick(K)}]
    OBVIOUS
  <2>1. Pick(K) \in Calls
    BY PickIn
  <2>2. h[K] = Reserved(Pick(K)) + h[K \ {Pick(K)}]
    BY <1>5 DEF Pick
  <2> QED
    BY <1>2, <2>1, <2>2
<1>7. h[{}] = 0
  <2> HIDE DEF h
  <2> QED
    BY <1>5
<1> HIDE DEF h
<1> DEFINE Bad == {K \in SUBSET Calls : h[K] # g[K]}
<1>8. ASSUME Bad # {} PROVE FALSE
  <2>1. PICK K \in Bad : \A J \in Bad : J \subseteq K => J = K
    <3>1. Bad \subseteq SUBSET Calls
      OBVIOUS
    <3> HIDE DEF Bad
    <3> QED
      BY <1>8, <3>1, SmallestSubset, FiniteCalls
  <2>2. K # {} /\ K \in SUBSET Calls
    BY <1>3, <1>7 DEF IsTally
  <2>3. Pick(K) \in K /\ K \ {Pick(K)} \in SUBSET Calls
    BY <2>2, PickIn
  <2>4. h[K \ {Pick(K)}] = g[K \ {Pick(K)}]
    BY <2>1, <2>3
  <2>5. g[K] = Shares[Pick(K)] + g[K \ {Pick(K)}]
    BY <1>3, <2>2 DEF IsTally
  <2> QED
    BY <1>6, <2>1, <2>2, <2>4, <2>5
<1> QED
  BY <1>1, <1>3, <1>8

SumCovers == ~straddled => usage >= Total(Shares)

\* One call takes its share, on the day of the budget or on a new one.
LEMMA EffectCovers ==
    ASSUME GeneratorInv, GeneratorInv', SumCovers, NEW k \in Calls, NEW r, StepEffect(k, r)
    PROVE  SumCovers'
<1>1. r \in CallRecord /\ call' = [call EXCEPT ![k] = r] /\ Spends(k, r)
  BY DEF StepEffect
<1>2. call'[k] = r /\ \A j \in Calls \ {k} : call'[j] = call[j]
  BY <1>1 DEF GeneratorInv
<1> DEFINE f == Shares
           e == Shares'
<1>3. f \in [Calls -> Nat] /\ e \in [Calls -> Nat]
  <2>1. Shares' \in [Calls -> Nat]
    <3>1. \A j \in Calls : Share(call'[j], budgetDay') \in Nat
      BY ShareType DEF GeneratorInv
    <3> QED
      BY <3>1 DEF Shares
  <2> QED
    BY <2>1, SharesTyped
<1>4. \A j \in Calls : f[j] = Share(call[j], budgetDay) /\ e[j] = Share(call'[j], budgetDay')
  BY DEF Shares
<1>5. usage \in Nat /\ usage' \in Nat /\ budgetDay \in Nat /\ budgetDay' \in Nat
  BY Limits DEF GeneratorInv, TypeOK
<1> HIDE DEF f, e
<1> SUFFICES ASSUME ~straddled' PROVE usage' >= Total(e)
  BY DEF SumCovers, e
<1>6. /\ ~straddled
      /\ \/ budgetDay' = budgetDay /\ usage' + f[k] >= usage + e[k]
         \/ budgetDay' > budgetDay /\ usage' >= e[k]
  BY <1>1, <1>2, <1>4, Zenon DEF Spends
<1>7. usage >= Total(f)
  BY <1>6, Zenon DEF SumCovers, f
<1>8. CASE budgetDay' = budgetDay /\ usage' + f[k] >= usage + e[k]
  <2>1. \A j \in Calls \ {k} : e[j] = f[j]
    BY <1>2, <1>4, <1>8
  <2>2. Total(f) \in Int /\ Total(e) = Total(f) - f[k] + e[k]
    BY <1>3, <2>1, TotalUpdate
  <2>3. f[k] \in Nat /\ e[k] \in Nat
    BY <1>3
  <2> QED
    BY <1>5, <1>7, <1>8, <2>2, <2>3
<1>9. CASE budgetDay' > budgetDay /\ usage' >= e[k]
  <2> DEFINE z == [j \in Calls |-> 0]
  <2>1. ASSUME NEW j \in Calls \ {k} PROVE e[j] = 0
    <3>1. call[j].day <= budgetDay /\ call[j].day \in Nat
      BY CallFacts DEF CallRecord
    <3> QED
      BY <1>2, <1>4, <1>5, <1>9, <3>1 DEF Share
  <2>2. z \in [Calls -> Nat] /\ (\A j \in Calls : z[j] = 0) /\ (\A j \in Calls \ {k} : e[j] = z[j])
    BY <2>1
  <2> HIDE DEF z
  <2>3. Total(z) = 0
    BY <2>2, TotalZero
  <2>4. Total(e) = Total(z) - z[k] + e[k]
    BY <1>3, <2>2, TotalUpdate
  <2>5. Total(e) = e[k] /\ e[k] \in Nat
    BY <1>3, <2>2, <2>3, <2>4
  <2> QED
    BY <1>9, <2>5
<1> QED
  BY <1>6, <1>8, <1>9

\* Every step keeps the sum of the shares within what the budget counts.
LEMMA SumCoversStep ==
    ASSUME GeneratorInv, SumCovers, [Next]_vars
    PROVE  SumCovers'
<1>1. GeneratorInv'
  BY GeneratorInvStep
<1>2. ASSUME UNCHANGED <<usage, budgetDay, call, straddled>> PROVE SumCovers'
  <2>1. Shares' = Shares
    BY <1>2 DEF Shares
  <2> QED
    BY <1>2, <2>1, Zenon DEF SumCovers
<1>3. ASSUME NEW k \in Calls, Step(k) PROVE SumCovers'
  BY <1>1, <1>3, StepEffects, EffectCovers
<1> QED
  BY <1>2, <1>3 DEF Next, Cancel, Midnight, Cool, Quiet, vars

\* The daily budget never forgets tokens: what it counts as used covers every open
\* reservation and every completed call of its day, whatever the interleaving of
\* the calls and wherever midnight falls, until a call that reserved before
\* midnight is refunded after the reset (budget.go CheckBudget and Refund).
THEOREM BudgetCoversSpend == Spec => []UsageCoversSpend
<1>1. Init => SumCovers
  <2> SUFFICES ASSUME Init PROVE SumCovers
    OBVIOUS
  <2>1. Shares \in [Calls -> Nat] /\ \A k \in Calls : Shares[k] = 0
    BY GeneratorInvInit, SharesTyped DEF Init, Shares, Share, Fresh
  <2>2. usage \in Nat
    BY Limits DEF Init
  <2> QED
    BY <2>1, <2>2, TotalZero DEF SumCovers
<1>2. GeneratorInv /\ SumCovers /\ [Next]_vars => SumCovers'
  BY SumCoversStep
<1>3. GeneratorInv /\ SumCovers => UsageCoversSpend
  BY SumIsTotal, Zenon DEF SumCovers, UsageCoversSpend
<1> QED
  BY <1>1, <1>2, <1>3, GeneratorInvariant, PTL DEF Spec
=============================================================================
