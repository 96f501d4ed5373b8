-------------------------- MODULE ContentGenerator --------------------------
(***************************************************************************)
(* GenerateForRepository (services/content/generator.go) over the daily    *)
(* token budget (budget.go) and the chain of language models (providers/llm *)
(* /fallback.go), with its semaphore, its circuit breakers and the         *)
(* generator's retries.  One call is one of Calls; several may be under    *)
(* way at once.                                                            *)
(*                                                                         *)
(* A completion is its quality score and its token count.  A breaker       *)
(* ignores the answer of a request it let through before it last changed   *)
(* its state (gobreaker's generations).                                    *)
(***************************************************************************)
EXTENDS Integers, Sequences, FiniteSets, FiniteSetsExt

CONSTANTS
    Calls,              \* calls of GenerateForRepository
    Chain,              \* the providers in the chain: "gateway" or "verifier"
    PermitChoices,      \* what LLM_CONCURRENCY may be set to
    MaxTokens,          \* what a call reserves
    DailyLimit,         \* LLM_DAILY_TOKEN_BUDGET
    Counts,             \* token counts a completion may report
    Earlier,            \* what the day's earlier calls may have left as used
    Lengths,            \* lengths the gateway's text may have, in hundreds of characters
    Scores,             \* quality scores, in tenths, the verifier may report
    QualityThreshold,   \* CONTENT_QUALITY_THRESHOLD, of the chain and of the gate
    BreakerThreshold,   \* consecutive failures that open a breaker
    MaxRetries,
    MaxDay,             \* bound: midnights
    MaxGen              \* bound: state changes of a breaker

ASSUME GeneratorAssumption ==
    /\ Chain \in Seq({"gateway", "verifier"}) /\ PermitChoices \subseteq Nat \ {0} /\ MaxTokens \in Nat /\ DailyLimit \in Nat
    /\ Lengths \subseteq Nat /\ Counts \subseteq Nat /\ Earlier \subseteq 0..DailyLimit /\ Scores \subseteq Nat /\ QualityThreshold \in Nat
    /\ BreakerThreshold \in Nat \ {0} /\ MaxRetries \in Nat /\ MaxDay \in Nat /\ MaxGen \in Nat
    /\ IsFiniteSet(Calls)

N == Len(Chain)

VARIABLES
    usage,      \* CurrentUsage
    budgetDay,  \* the day ResetAt is the end of
    today,
    breakers,   \* provider -> [state, fails, gen]
    permits,    \* the semaphore's size
    inflight,   \* calls that hold a permit of the semaphore
    call,
    rows,       \* call -> what generated_contents has of it: "none", "passed", "failed"
    log,        \* call -> the outcomes in the audit log
    cancelled,  \* the context of the command that makes the calls is done
    straddled   \* history: a reservation was refunded after its day

vars == <<usage, budgetDay, today, breakers, permits, inflight, call, rows, log, cancelled, straddled>>

NoScore == -1

Fresh == [pc |-> "new", attempt |-> 0, i |-> 1, gen |-> 0, best |-> NoScore,
          tokens |-> 0, day |-> 0]

Closed == [state |-> "closed", fails |-> 0, gen |-> 0]

Init ==
    /\ permits \in PermitChoices
    /\ usage \in Earlier /\ budgetDay = 0 /\ today = 0 /\ inflight = {} /\ cancelled = FALSE /\ straddled = FALSE
    /\ breakers = [i \in 1..N |-> Closed]
    /\ call = [k \in Calls |-> Fresh]
    /\ rows = [k \in Calls |-> "none"]
    /\ log = [k \in Calls |-> <<>>]

\* The call returns with one entry in the audit log.
Ends(k, outcome) ==
    /\ call' = [call EXCEPT ![k] =
                  [Fresh EXCEPT !.pc = "ended", !.day = call[k].day, !.tokens = call[k].tokens]]
    /\ log' = [log EXCEPT ![k] = Append(@, outcome)]

-----------------------------------------------------------------------------
(* TokenBudget *)

UsageNow == IF today > budgetDay THEN 0 ELSE usage

\* More than 100% of the limit; a refused reservation consumes nothing.
Exceeds == UsageNow + MaxTokens > DailyLimit

CheckBudget(k) ==
    /\ call[k].pc = "new"
    /\ budgetDay' = IF today > budgetDay THEN today ELSE budgetDay
    /\ \/ /\ Exceeds
          /\ usage' = UsageNow
          /\ Ends(k, "error")
       \/ /\ ~Exceeds
          /\ usage' = UsageNow + MaxTokens
          /\ call' = [call EXCEPT ![k].pc = "wait", ![k].day = today]
          /\ UNCHANGED log
    /\ UNCHANGED <<today, breakers, inflight, rows, straddled, cancelled>>

\* Mutant: a completed call gives its whole reservation back.
MutRefundsAll(tokens) == IF usage > MaxTokens THEN usage - MaxTokens ELSE 0

\* Down to 0 and no further.
Refunded(tokens) ==
    IF tokens >= MaxTokens THEN usage
    ELSE IF usage < MaxTokens - tokens THEN 0 ELSE usage - (MaxTokens - tokens)

-----------------------------------------------------------------------------
(* FallbackChain.GenerateContent *)

AcquirePermit(k) ==
    /\ call[k].pc = "wait" /\ ~cancelled
    /\ Cardinality(inflight) < permits
    /\ inflight' = inflight \cup {k}
    /\ call' = [call EXCEPT ![k].pc = "chain", ![k].i = 1, ![k].best = NoScore]
    /\ UNCHANGED <<usage, budgetDay, today, breakers, rows, log, cancelled, straddled>>

WaitCancelled(k) ==
    /\ call[k].pc = "wait" /\ cancelled
    /\ call' = [call EXCEPT ![k].pc = "failed"]
    /\ UNCHANGED <<usage, budgetDay, today, breakers, inflight, rows, log, cancelled, straddled>>

\* Requests of the present generation under way at provider i.
Trying(i) ==
    {k \in Calls : call[k].pc = "asked" /\ call[k].i = i /\ call[k].gen = breakers[i].gen}

\* Open, or half-open with its one request out.
Blocked(i) ==
    breakers[i].state = "open" \/ (breakers[i].state = "half" /\ Trying(i) # {})

Skip(k) ==
    /\ call[k].pc = "chain" /\ call[k].i <= N /\ Blocked(call[k].i)
    /\ call' = [call EXCEPT ![k].i = @ + 1]
    /\ UNCHANGED <<usage, budgetDay, today, breakers, inflight, rows, log, cancelled, straddled>>

Ask(k) ==
    /\ call[k].pc = "chain" /\ call[k].i <= N /\ ~Blocked(call[k].i)
    /\ call' = [call EXCEPT ![k].pc = "asked", ![k].gen = breakers[call[k].i].gen]
    /\ UNCHANGED <<usage, budgetDay, today, breakers, inflight, rows, log, cancelled, straddled>>

\* The breaker after the answer to call k.
After(k, ok) ==
    LET b == breakers[call[k].i]
    IN IF call[k].gen # b.gen THEN b
       ELSE IF ok THEN [state |-> "closed", fails |-> 0,
                        gen |-> IF b.state = "half" THEN b.gen + 1 ELSE b.gen]
       ELSE IF b.state = "half" \/ b.fails + 1 = BreakerThreshold
            THEN [state |-> "open", fails |-> 0, gen |-> b.gen + 1]
       ELSE [b EXCEPT !.fails = @ + 1]

ProviderFails(k) ==
    /\ call[k].pc = "asked"
    /\ breakers' = [breakers EXCEPT ![call[k].i] = After(k, FALSE)]
    /\ call' = [call EXCEPT ![k].pc = "chain", ![k].gen = 0, ![k].i = @ + 1]
    /\ UNCHANGED <<usage, budgetDay, today, inflight, rows, log, cancelled, straddled>>

\* The gateway scores the text by its length: nothing is 0, 3000 characters are 1.
estimateQuality(length) ==
    IF length = 0 THEN 0 ELSE Max({3, Min({10, length \div 3})})

GatewayReplies == {[score |-> estimateQuality(l), tokens |-> t] : l \in Lengths, t \in Counts}

\* The verifier's 5xx and 429 are errors; whatever else it answers is decoded.
doRequest == {"completion", "client error"}

\* A 4xx has none of the fields: a completion with score and count 0.
VerifierReplies ==
    UNION {IF a = "completion" THEN [score : Scores, tokens : Counts]
                               ELSE {[score |-> 0, tokens |-> 0]} : a \in doRequest}

Replies(i) == IF Chain[i] = "gateway" THEN GatewayReplies ELSE VerifierReplies

\* Good enough is returned at once; else the best so far is kept.
ProviderAnswers(k) ==
    /\ call[k].pc = "asked" /\ ~cancelled
    /\ breakers' = [breakers EXCEPT ![call[k].i] = After(k, TRUE)]
    /\ \E reply \in Replies(call[k].i) :
       LET score == reply.score  tokens == reply.tokens IN
         \/ /\ score >= QualityThreshold
            /\ call' = [call EXCEPT ![k].pc = "done", ![k].gen = 0, ![k].best = score, ![k].tokens = tokens]
            /\ inflight' = inflight \ {k}
         \/ /\ score < QualityThreshold
            /\ call' = IF score > call[k].best
                       THEN [call EXCEPT ![k].pc = "chain", ![k].gen = 0, ![k].i = @ + 1,
                                         ![k].best = score, ![k].tokens = tokens]
                       ELSE [call EXCEPT ![k].pc = "chain", ![k].gen = 0, ![k].i = @ + 1]
            /\ UNCHANGED inflight
    /\ UNCHANGED <<usage, budgetDay, today, rows, log, cancelled, straddled>>

\* Mutant: the permit is released only with a completion.
MutKeepsPermit(k) ==
    /\ call[k].pc = "chain" /\ call[k].i > N
    /\ inflight' = IF call[k].best = NoScore THEN inflight ELSE inflight \ {k}
    /\ call' = [call EXCEPT ![k].pc = IF call[k].best = NoScore THEN "failed" ELSE "done"]
    /\ UNCHANGED <<usage, budgetDay, today, breakers, rows, log, cancelled, straddled>>

ChainEnds(k) ==
    /\ call[k].pc = "chain" /\ call[k].i > N
    /\ inflight' = inflight \ {k}
    /\ call' = [call EXCEPT ![k].pc = IF call[k].best = NoScore THEN "failed" ELSE "done"]
    /\ UNCHANGED <<usage, budgetDay, today, breakers, rows, log, cancelled, straddled>>

-----------------------------------------------------------------------------
(* The rest of GenerateForRepository *)

\* Mutant: the attempts are not counted.
MutForgetsAttempt(k) ==
    /\ call[k].pc = "failed" /\ ~cancelled /\ call[k].attempt < MaxRetries
    /\ call' = [call EXCEPT ![k].pc = "wait"]
    /\ UNCHANGED <<usage, budgetDay, today, breakers, inflight, rows, log, cancelled, straddled>>

\* After a pause, unless the context is done or this was the last attempt.
Retry(k) ==
    /\ call[k].pc = "failed" /\ ~cancelled /\ call[k].attempt < MaxRetries
    /\ call' = [call EXCEPT ![k].pc = "wait", ![k].attempt = @ + 1]
    /\ UNCHANGED <<usage, budgetDay, today, breakers, inflight, rows, log, cancelled, straddled>>

\* The reservation is not given back.
GiveUp(k) ==
    /\ call[k].pc = "failed" /\ (cancelled \/ call[k].attempt = MaxRetries)
    /\ Ends(k, "error")
    /\ UNCHANGED <<usage, budgetDay, today, breakers, inflight, rows, straddled, cancelled>>

Refund(k) ==
    /\ call[k].pc = "done"
    /\ usage' = Refunded(call[k].tokens)
    /\ straddled' = (straddled \/ (call[k].tokens < MaxTokens /\ call[k].day # budgetDay))
    /\ call' = [call EXCEPT ![k].pc = "store"]
    /\ UNCHANGED <<budgetDay, today, breakers, inflight, rows, log, cancelled>>

Passed(k) == call[k].best >= QualityThreshold

Store(k) ==
    /\ call[k].pc = "store" /\ ~cancelled
    /\ rows' = [rows EXCEPT ![k] = IF Passed(k) THEN "passed" ELSE "failed"]
    /\ Ends(k, IF Passed(k) THEN "ok" ELSE "rejected")
    /\ UNCHANGED <<usage, budgetDay, today, breakers, inflight, straddled, cancelled>>

\* Mutant: a failed save is logged and does not end the call.
MutLogsTwice(k) ==
    /\ call[k].pc = "store"
    /\ call' = [call EXCEPT ![k].pc = "ended"]
    /\ log' = [log EXCEPT ![k] = @ \o <<"error", IF Passed(k) THEN "ok" ELSE "rejected">>]
    /\ UNCHANGED <<usage, budgetDay, today, breakers, inflight, rows, straddled, cancelled>>

StoreFails(k) ==
    /\ call[k].pc = "store"
    /\ Ends(k, "error")
    /\ UNCHANGED <<usage, budgetDay, today, breakers, inflight, rows, straddled, cancelled>>

-----------------------------------------------------------------------------
(* Outside the program *)

Cancel ==
    /\ ~cancelled /\ cancelled' = TRUE
    /\ UNCHANGED <<usage, budgetDay, today, breakers, inflight, call, rows, log, straddled>>

Midnight ==
    /\ today < MaxDay /\ today' = today + 1
    /\ UNCHANGED <<usage, budgetDay, breakers, inflight, call, rows, log, cancelled, straddled>>

\* A breaker's minute passes.
Cool(i) ==
    /\ breakers[i].state = "open" /\ breakers[i].gen < MaxGen
    /\ breakers' = [breakers EXCEPT ![i] =
                      [state |-> "half", fails |-> 0, gen |-> breakers[i].gen + 1]]
    /\ UNCHANGED <<usage, budgetDay, today, inflight, call, rows, log, cancelled, straddled>>

Step(k) ==
    \/ CheckBudget(k) \/ AcquirePermit(k) \/ WaitCancelled(k) \/ Skip(k) \/ Ask(k)
    \/ ProviderFails(k) \/ ProviderAnswers(k) \/ ChainEnds(k) \/ Retry(k) \/ GiveUp(k)
    \/ Refund(k) \/ Store(k) \/ StoreFails(k)

Quiet == (\A k \in Calls : call[k].pc = "ended") /\ UNCHANGED vars

Next ==
    /\ \/ \E k \in Calls : Step(k)
       \/ Cancel \/ Midnight
       \/ \E i \in 1..N : Cool(i)
       \/ Quiet
    /\ UNCHANGED permits

Spec == Init /\ [][Next]_vars

FairSpec == Spec /\ \A k \in Calls : WF_vars(Step(k) /\ UNCHANGED permits)

-----------------------------------------------------------------------------
(* Properties *)

\* The types, and: the semaphore's permits are held by the calls inside the chain,
\* by no others, and there are never more of them than there are.
TypeOK ==
    /\ cancelled \in BOOLEAN /\ usage \in 0..DailyLimit /\ today \in 0..MaxDay /\ budgetDay \in 0..today
    /\ breakers \in [1..N -> [state : {"closed", "open", "half"},
                              fails : 0..(BreakerThreshold - 1), gen : Nat]]
    /\ \A k \in Calls :
         /\ call[k].pc \in {"new", "wait", "chain", "asked", "failed", "done", "store", "ended"}
         /\ call[k].attempt \in 0..MaxRetries /\ call[k].i \in 1..(N + 1)
         /\ call[k].best \in {NoScore} \cup {reply.score : reply \in GatewayReplies \cup VerifierReplies}
    /\ inflight = {k \in Calls : call[k].pc \in {"chain", "asked"}}
    /\ permits \in PermitChoices /\ Cardinality(inflight) <= permits

\* What a call that reserved on the budget's day has taken of it for certain: its
\* whole reservation until the completion's count is known, then what was used.
Reserved(k) ==
    IF call[k].day # budgetDay \/ call[k].pc = "new" THEN 0
    ELSE IF call[k].pc \in {"store", "ended"} /\ call[k].tokens < MaxTokens THEN call[k].tokens
    ELSE MaxTokens

\* The budget never forgets tokens: what it counts as used covers every open
\* reservation of its day and what the completed calls used of theirs, as long as
\* no call that reserved before midnight was refunded after the reset
\* (budget.go CheckBudget and Refund around ResetAt; failed calls stay charged).
UsageCoversSpend == ~straddled => usage >= MapThenSumSet(Reserved, Calls)

\* A call that returned is in the audit log once, and the log says "ok" or
\* "rejected" exactly when generated_contents has its row, with the same verdict
\* (generator.go:28, "emits exactly one audit.Entry").
LogMatchesStore ==
    \A k \in Calls :
        IF call[k].pc # "ended" THEN log[k] = <<>> /\ rows[k] = "none"
        ELSE log[k] = << CASE rows[k] = "passed" -> "ok"
                           [] rows[k] = "failed" -> "rejected"
                           [] OTHER -> "error" >>

\* Every call returns, whatever the providers and the breakers do: no permit is
\* lost on any way out of the chain and the retries are bounded.
EveryCallReturns == \A k \in Calls : <>(call[k].pc = "ended")
=============================================================================
