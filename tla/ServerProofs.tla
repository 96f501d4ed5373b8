---------------------------- MODULE ServerProofs ----------------------------
(***************************************************************************)
(* Theorems about the HTTP server: its rate limiter, for any number of     *)
(* addresses and requests, and its audit rings, of any size.               *)
(***************************************************************************)
EXTENDS HttpServer, FiniteSetTheorems, TLAPS

(***************************************************************************)
(* The rate limiter.                                                       *)
(***************************************************************************)
LimiterTypeOK ==
    /\ rq \in [Conns -> [pc : {"free", "limit", "limited", "open"}, ip : Addresses \cup {None},
                         limiter : LimiterIds \cup {None}, stall : 0..MaxStall]]
    /\ limiters \in [Addresses -> LimiterIds \cup {None}]
    /\ age \in [Addresses -> 0..(TTL + 1)]
    /\ bucket \in [LimiterIds -> 0..Burst]
    /\ ideal \in [Addresses -> 0..Burst]

\* A request inside Allow holds the limiter of its address as it is in the map:
\* the entry was seen when the request began, so the sweeper has to leave it.
HoldersCurrent ==
    \A c \in Conns :
        IF rq[c].pc = "limit"
        THEN /\ rq[c].ip \in Addresses
             /\ rq[c].limiter # None /\ limiters[rq[c].ip] = rq[c].limiter
             /\ age[rq[c].ip] <= rq[c].stall
        ELSE rq[c].limiter = None

\* No two addresses share a limiter.
OwnLimiter ==
    \A a, b \in Addresses : limiters[a] = limiters[b] /\ limiters[a] # None => a = b

\* The bucket of an address never has more than the bucket that was never
\* evicted; without an entry that one is full, since it has been filling for at
\* least as long as the entry has been idle, but for the last request's stall.
NothingGiven ==
    \A a \in Addresses :
        /\ limiters[a] # None => bucket[limiters[a]] <= ideal[a]
        /\ limiters[a] = None => ideal[a] = Burst
        /\ ideal[a] < Burst => (age[a] - MaxStall) * Rate <= ideal[a]

LimiterInv == LimiterTypeOK /\ HoldersCurrent /\ OwnLimiter /\ NothingGiven

\* A new entry finds a limiter nobody uses: the entries' limiters are the only
\* ones in use, and there are more limiters than addresses.
LEMMA FreeLimiter ==
    ASSUME LimiterInv, NEW c \in Conns
    PROVE  /\ NewLimiter \in LimiterIds
           /\ \A a \in Addresses : limiters[a] # NewLimiter
           /\ \A d \in Conns : rq[d].limiter # NewLimiter
<1> DEFINE Owner == [l \in LimiterIds |-> CHOOSE a \in Addresses : limiters[a] = l]
           Size == Cardinality(Addresses) + Cardinality(Conns)
<1>1. Cardinality(Addresses) \in Nat /\ Cardinality(Conns) \in Nat /\ Cardinality(Conns) # 0
  BY ServerAssumption, FS_CardinalityType, FS_EmptySet
<1>2. IsFiniteSet(LimiterIds) /\ Cardinality(LimiterIds) = Size
  <2>1. Size \in Int /\ 1 \in Int /\ ~ (1 > Size)
    BY <1>1
  <2>2. IsFiniteSet(1..Size) /\ Cardinality(1..Size) = IF 1 > Size THEN 0 ELSE Size - 1 + 1
    BY <2>1, FS_Interval
  <2> QED
    BY <1>1, <2>1, <2>2 DEF LimiterIds
<1>3. \E l \in LimiterIds : \A a \in Addresses : limiters[a] # l
  <2> SUFFICES ASSUME \A l \in LimiterIds : \E a \in Addresses : limiters[a] = l
               PROVE  FALSE
    OBVIOUS
  <2>1. \A l \in LimiterIds : Owner[l] \in Addresses /\ limiters[Owner[l]] = l
    OBVIOUS
  <2>2. Owner \in [LimiterIds -> Addresses]
    BY <2>1
  <2>3. Cardinality(Addresses) < Cardinality(LimiterIds)
    BY <1>1, <1>2
  <2> HIDE DEF Owner
  <2>4. \E l, m \in LimiterIds : l # m /\ Owner[l] = Owner[m]
    BY <1>2, <2>2, <2>3, ServerAssumption, FS_PigeonHole
  <2> QED
    BY <2>1, <2>4
<1>4. \E l \in LimiterIds : (\A a \in Addresses : limiters[a] # l) /\ (\A d \in Conns : rq[d].limiter # l)
  BY <1>3, ServerAssumption DEF LimiterInv, HoldersCurrent
<1> QED
  BY <1>4 DEF NewLimiter

\* The invariant holds at the start: no address has a limiter.
LEMMA LimiterInvInit == Init => LimiterInv
<1> SUFFICES ASSUME Init PROVE LimiterInv
  OBVIOUS
<1> USE ServerAssumption DEF Init, Idle, NewIPRateLimiter
<1>1. LimiterTypeOK
  BY DEF LimiterTypeOK
<1>2. HoldersCurrent /\ OwnLimiter /\ NothingGiven
  BY DEF HoldersCurrent, OwnLimiter, NothingGiven
<1> QED
  BY <1>1, <1>2 DEF LimiterInv

\* Looking a limiter up, or creating a full one, keeps the invariant.
LEMMA LimiterInvGet ==
    ASSUME LimiterInv, NEW c \in Conns, NEW ip \in Addresses, GetLimiter(c, ip)
    PROVE  LimiterInv'
<1> DEFINE l == IF limiters[ip] = None THEN NewLimiter ELSE limiters[ip]
<1> USE ServerAssumption DEF LimiterInv, LimiterTypeOK
<1>1. /\ limiters' = [limiters EXCEPT ![ip] = l]
      /\ bucket' = IF limiters[ip] = None THEN [bucket EXCEPT ![l] = Burst] ELSE bucket
      /\ rq' = [rq EXCEPT ![c] = [pc |-> "limit", ip |-> ip, limiter |-> l, stall |-> 0]]
      /\ age' = [age EXCEPT ![ip] = 0] /\ ideal' = ideal /\ rq[c].pc = "free"
  BY DEF GetLimiter
<1>2. /\ l \in LimiterIds
      /\ \A a \in Addresses \ {ip} : limiters[a] # l
      /\ limiters[ip] = None => \A d \in Conns : rq[d].limiter # l
      /\ limiters[ip] = None => \A a \in Addresses : limiters[a] # l
  <2>1. CASE limiters[ip] = None
    BY <2>1, FreeLimiter
  <2>2. CASE limiters[ip] # None
    BY <2>2 DEF OwnLimiter
  <2> QED
    BY <2>1, <2>2
<1> HIDE DEF l
<1>3. LimiterTypeOK'
  BY <1>1, <1>2
<1>4. HoldersCurrent'
  <2> SUFFICES ASSUME NEW d \in Conns
               PROVE  (IF rq[d].pc = "limit"
                       THEN /\ rq[d].ip \in Addresses
                            /\ rq[d].limiter # None /\ limiters[rq[d].ip] = rq[d].limiter
                            /\ age[rq[d].ip] <= rq[d].stall
                       ELSE rq[d].limiter = None)'
    BY DEF HoldersCurrent
  <2>1. CASE d = c
    BY <1>1, <1>2, <2>1
  <2>2. CASE d # c
    <3>1. rq'[d] = rq[d] /\ rq[d].stall \in Nat
      BY <1>1, <2>2
    <3>2. CASE rq[d].pc = "limit" /\ rq[d].ip = ip
      <4>1. limiters[ip] # None /\ l = limiters[ip]
        BY <3>2 DEF HoldersCurrent, l
      <4> QED
        BY <1>1, <3>1, <3>2, <4>1 DEF HoldersCurrent
    <3>3. CASE ~ (rq[d].pc = "limit" /\ rq[d].ip = ip)
      BY <1>1, <3>1, <3>3 DEF HoldersCurrent
    <3> QED
      BY <3>2, <3>3
  <2> QED
    BY <2>1, <2>2
<1>5. OwnLimiter'
  BY <1>1, <1>2 DEF OwnLimiter
<1>6. NothingGiven'
  <2> SUFFICES ASSUME NEW a \in Addresses
               PROVE  (/\ limiters[a] # None => bucket[limiters[a]] <= ideal[a]
                       /\ limiters[a] = None => ideal[a] = Burst
                       /\ ideal[a] < Burst => (age[a] - MaxStall) * Rate <= ideal[a])'
    BY DEF NothingGiven
  <2>1. CASE a # ip
    <3>1. limiters'[a] = limiters[a] /\ age'[a] = age[a] /\ ideal'[a] = ideal[a]
      BY <1>1, <2>1
    <3>2. limiters[a] # None => bucket'[limiters[a]] = bucket[limiters[a]]
      BY <1>1, <1>2, <2>1
    <3> QED
      BY <3>1, <3>2 DEF NothingGiven
  <2>2. CASE a = ip
    <3>1. limiters'[a] = l /\ l # None /\ age'[a] = 0 /\ ideal'[a] = ideal[a]
      BY <1>1, <1>2, <2>2
    <3>2. bucket'[l] <= ideal[a]
      BY <1>1, <1>2, <2>2 DEF NothingGiven, l
    <3>3. (0 - MaxStall) * Rate <= 0
      <4>1. \A m, n \in Nat : (0 - m) * n <= 0
        OBVIOUS
      <4> QED
        BY <4>1
    <3>4. (age'[a] - MaxStall) * Rate <= ideal'[a]
      <4>1. ideal[a] >= 0 /\ ideal[a] \in Int /\ (0 - MaxStall) * Rate \in Int
        OBVIOUS
      <4> QED
        BY <3>1, <3>3, <4>1
    <3> QED
      BY <3>1, <3>2, <3>4
  <2> QED
    BY <2>1, <2>2
<1> QED
  BY <1>3, <1>4, <1>5, <1>6

\* Taking a token from the limiter found earlier keeps the invariant.
LEMMA LimiterInvAllow ==
    ASSUME LimiterInv, NEW c \in Conns, Allow(c)
    PROVE  LimiterInv'
<1> USE ServerAssumption DEF LimiterInv, LimiterTypeOK
<1> DEFINE l == rq[c].limiter
           ip == rq[c].ip
<1>1. /\ rq[c].pc = "limit" /\ bucket[l] > 0
      /\ bucket' = [bucket EXCEPT ![l] = @ - 1]
      /\ ideal' = [ideal EXCEPT ![ip] = @ - 1]
      /\ rq' = [rq EXCEPT ![c] = [pc |-> "limited", ip |-> None, limiter |-> None, stall |-> 0]]
      /\ UNCHANGED <<limiters, age>>
  <2>1. [Idle EXCEPT !.pc = "limited"] = [pc |-> "limited", ip |-> None, limiter |-> None, stall |-> 0]
    BY DEF Idle
  <2> QED
    BY <2>1 DEF Allow
<1>2. /\ ip \in Addresses /\ l \in LimiterIds /\ l # None /\ limiters[ip] = l
      /\ age[ip] <= MaxStall
      /\ bucket[l] <= ideal[ip]
  BY <1>1 DEF HoldersCurrent, NothingGiven
<1> HIDE DEF l, ip
<1>3. LimiterTypeOK'
  BY <1>1, <1>2
<1>4. HoldersCurrent' /\ OwnLimiter'
  BY <1>1 DEF HoldersCurrent, OwnLimiter
<1>5. NothingGiven'
  <2> SUFFICES ASSUME NEW a \in Addresses
               PROVE  (/\ limiters[a] # None => bucket[limiters[a]] <= ideal[a]
                       /\ limiters[a] = None => ideal[a] = Burst
                       /\ ideal[a] < Burst => (age[a] - MaxStall) * Rate <= ideal[a])'
    BY DEF NothingGiven
  <2>1. CASE a # ip
    <3>1. limiters[a] # l
      BY <1>2, <2>1 DEF OwnLimiter
    <3> QED
      BY <1>1, <2>1, <3>1 DEF NothingGiven
  <2>2. CASE a = ip
    <3>1. (age[ip] - MaxStall) * Rate <= 0
      <4>1. \A m \in Int, n \in Nat : m <= 0 => m * n <= 0
        OBVIOUS
      <4>2. age[ip] - MaxStall \in Int /\ age[ip] - MaxStall <= 0
        BY <1>2
      <4> QED
        BY <4>1, <4>2
    <3>2. ideal'[a] = ideal[ip] - 1 /\ bucket'[l] = bucket[l] - 1 /\ limiters[a] = l
      BY <1>1, <1>2, <2>2
    <3>3. ideal[ip] - 1 >= 0 /\ ideal[ip] \in Int /\ (age[ip] - MaxStall) * Rate \in Int
      BY <1>1, <1>2
    <3>4. (age'[a] - MaxStall) * Rate <= ideal'[a]
      BY <1>1, <2>2, <3>1, <3>2, <3>3
    <3>5. limiters'[a] = l /\ l # None /\ bucket'[l] <= ideal'[a]
      BY <1>1, <1>2, <2>2, <3>2
    <3> QED
      BY <3>4, <3>5
  <2> QED
    BY <2>1, <2>2
<1> QED
  BY <1>3, <1>4, <1>5

\* Refilling for one tick keeps the invariant.
LEMMA LimiterInvTick ==
    ASSUME LimiterInv, Tick
    PROVE  LimiterInv'
<1> USE ServerAssumption DEF LimiterInv, LimiterTypeOK
<1>1. /\ \A c \in Conns : rq[c].pc = "limit" => rq[c].stall < MaxStall
      /\ rq' = [c \in Conns |-> IF rq[c].pc = "limit" THEN [rq[c] EXCEPT !.stall = @ + 1] ELSE rq[c]]
      /\ age' = [a \in Addresses |-> IF age[a] <= TTL THEN age[a] + 1 ELSE age[a]]
      /\ bucket' = [l \in LimiterIds |-> IF bucket[l] + Rate < Burst THEN bucket[l] + Rate ELSE Burst]
      /\ ideal' = [a \in Addresses |-> IF ideal[a] + Rate < Burst THEN ideal[a] + Rate ELSE Burst]
      /\ limiters' = limiters
  BY DEF Tick, Refill
<1>2. LimiterTypeOK'
  BY <1>1
<1>3. HoldersCurrent' /\ OwnLimiter'
  BY <1>1 DEF HoldersCurrent, OwnLimiter
<1>4. NothingGiven'
  <2> SUFFICES ASSUME NEW a \in Addresses
               PROVE  (/\ limiters[a] # None => bucket[limiters[a]] <= ideal[a]
                       /\ limiters[a] = None => ideal[a] = Burst
                       /\ ideal[a] < Burst => (age[a] - MaxStall) * Rate <= ideal[a])'
    BY DEF NothingGiven
  <2>1. ideal[a] \in 0..Burst /\ (limiters[a] # None => bucket[limiters[a]] \in 0..Burst)
    OBVIOUS
  <2>2. ideal'[a] < Burst => ideal[a] < Burst /\ ideal'[a] = ideal[a] + Rate
    BY <1>1, <2>1
  <2>3. ideal'[a] < Burst => (age'[a] - MaxStall) * Rate <= ideal'[a]
    <3> SUFFICES ASSUME ideal'[a] < Burst PROVE (age'[a] - MaxStall) * Rate <= ideal'[a]
      OBVIOUS
    <3> DEFINE m == age[a] - MaxStall
    <3>1. m \in Int /\ m * Rate <= ideal[a] /\ m * Rate \in Int
      BY <2>2 DEF NothingGiven
    <3>2. (m + 1) * Rate = m * Rate + Rate
      BY <3>1
    <3>3. age'[a] - MaxStall = m \/ age'[a] - MaxStall = m + 1
      BY <1>1
    <3> HIDE DEF m
    <3> QED
      BY <2>1, <2>2, <3>1, <3>2, <3>3
  <2> QED
    BY <1>1, <2>1, <2>3 DEF NothingGiven
<1> QED
  BY <1>2, <1>3, <1>4

\* Evicting idle entries keeps the invariant: their buckets are full by then.
LEMMA LimiterInvSweep ==
    ASSUME LimiterInv, Sweep
    PROVE  LimiterInv'
<1> USE ServerAssumption DEF LimiterInv, LimiterTypeOK
<1>1. /\ limiters' = [a \in Addresses |-> IF age[a] > TTL THEN None ELSE limiters[a]]
      /\ UNCHANGED <<rq, age, bucket, ideal>>
  BY DEF Sweep
<1>2. LimiterTypeOK' /\ OwnLimiter'
  BY <1>1 DEF OwnLimiter
<1>3. HoldersCurrent'
  BY <1>1 DEF HoldersCurrent
<1>4. \A a \in Addresses : age[a] > TTL => ideal[a] = Burst
  <2> SUFFICES ASSUME NEW a \in Addresses, age[a] > TTL PROVE ideal[a] = Burst
    OBVIOUS
  <2> DEFINE refill == (TTL + 1 - MaxStall) * Rate
  <2>1. age[a] = TTL + 1 /\ ideal[a] \in 0..Burst /\ Burst \in Nat
    OBVIOUS
  <2>2. ideal[a] < Burst => refill <= ideal[a]
    BY <2>1 DEF NothingGiven
  <2>3. refill \in Int /\ refill >= Burst
    OBVIOUS
  <2> HIDE DEF refill
  <2> QED
    BY <2>1, <2>2, <2>3
<1>5. NothingGiven'
  BY <1>1, <1>4 DEF NothingGiven
<1> QED
  BY <1>2, <1>3, <1>5

\* A request leaves the limiter, or one comes to a route without one.
LEMMA LimiterInvRoute ==
    ASSUME LimiterInv, NEW c \in Conns, UNCHANGED limitVars,
           \/ rq' = [rq EXCEPT ![c] = Idle]
           \/ rq' = [rq EXCEPT ![c].pc = "open"] /\ rq[c].pc = "free"
    PROVE  LimiterInv'
<1> USE ServerAssumption DEF LimiterInv, limitVars
<1>1. LimiterTypeOK'
  BY SMTT(30) DEF LimiterTypeOK, Idle
<1>2. HoldersCurrent'
  BY DEF LimiterTypeOK, HoldersCurrent, Idle
<1>3. OwnLimiter' /\ NothingGiven'
  BY DEF OwnLimiter, NothingGiven
<1> QED
  BY <1>1, <1>2, <1>3

\* Steps of the rest of the server keep the invariant.
LEMMA LimiterInvRest ==
    ASSUME LimiterInv, UNCHANGED <<rq, limitVars>>
    PROVE  LimiterInv'
BY DEF LimiterInv, LimiterTypeOK, HoldersCurrent, OwnLimiter, NothingGiven, limitVars

\* The exit of the process keeps the invariant.
LEMMA LimiterInvExit ==
    ASSUME LimiterInv, NEW late \in BOOLEAN, Exit(late)
    PROVE  LimiterInv'
<1> USE ServerAssumption DEF Exit, Idle, NewIPRateLimiter
<1>1. LimiterTypeOK'
  BY DEF LimiterTypeOK
<1>2. HoldersCurrent' /\ OwnLimiter' /\ NothingGiven'
  BY DEF HoldersCurrent, OwnLimiter, NothingGiven
<1> QED
  BY <1>1, <1>2 DEF LimiterInv

\* The inductive invariant of the rate limiter: an entry's bucket never holds more
\* than the bucket the address would have had without eviction (middleware/ratelimit.go).
THEOREM LimiterInvariant == Spec => []LimiterInv
<1>1. LimiterInv /\ [Next]_vars => LimiterInv'
  <2> SUFFICES ASSUME LimiterInv, [Next]_vars PROVE LimiterInv'
    OBVIOUS
  <2>1. CASE \E c \in Conns, ip \in Addresses : GetLimiter(c, ip)
    BY <2>1, LimiterInvGet
  <2>2. ASSUME NEW c \in Conns, Allow(c) PROVE LimiterInv'
    BY <2>2, LimiterInvAllow
  <2>3. ASSUME NEW c \in Conns, Limit(c) \/ Unlimited(c) \/ Answer(c) PROVE LimiterInv'
    BY <2>3, LimiterInvRoute DEF Limit, Unlimited, Answer
  <2>4. ASSUME NEW c \in Conns, Serve(c) PROVE LimiterInv'
    BY <2>4, LimiterInvRoute DEF Serve
  <2>5. CASE Sweep
    BY <2>5, LimiterInvSweep
  <2>6. CASE Tick
    BY <2>6, LimiterInvTick
  <2>7. CASE \E late \in BOOLEAN : Exit(late)
    BY <2>7, LimiterInvExit
  <2>8. CASE UNCHANGED <<rq, limitVars>>
    BY <2>8, LimiterInvRest
  <2>9. CASE Next
    BY <2>2, <2>1, <2>3, <2>4, <2>5, <2>6, <2>7, <2>8, <2>9
       DEF Next, Boot, ListenFails, Reload, adminAuditList, Webhook, GenericWebhook, Download,
           Drain, Signal, Shutdown, ShutdownReturns, ShutdownTimesOut, Cancelled, Moves
  <2> QED
    BY <2>8, <2>9 DEF vars
<1> QED
  BY LimiterInvInit, <1>1, PTL DEF Spec

\* However requests, refills and sweeps interleave, the requests admitted from
\* an address never exceed one token bucket of the configured rate and burst.
THEOREM NothingGivenAway == Spec => []LimiterConforms
<1>1. LimiterInv => LimiterConforms
  BY DEF LimiterInv, LimiterTypeOK, LimiterConforms
<1> QED
  BY <1>1, LimiterInvariant, PTL

-----------------------------------------------------------------------------
(***************************************************************************)
(* The audit rings.                                                        *)
(***************************************************************************)
Cell == Entries \cup {"unset"}

\* A ring that has not been filled yet is filled from its first place on.
IsRing(r) ==
    /\ r \in [buf : [0..(RingSize - 1) -> Cell], head : 0..(RingSize - 1), count : 0..RingSize]
    /\ r.count < RingSize => r.head = r.count

RingInv == ring \in [{"admin", "access"} -> [buf : [0..(RingSize - 1) -> Cell],
                                             head : 0..(RingSize - 1), count : 0..RingSize]]
           /\ IsRing(ring["admin"]) /\ IsRing(ring["access"])

Wrapped(x) == IF x < RingSize THEN x ELSE x - RingSize

\* The i-th oldest entry of a ring.
Kept(r, i) == r.buf[IF r.count < RingSize THEN i - 1 ELSE Wrapped(r.head + i - 1)]

\* The last n entries of s.
Recent(n, s) == IF Len(s) <= n THEN s ELSE SubSeq(s, Len(s) - n + 1, Len(s))

\* Rings and pages have room for one entry at least.
LEMMA Sizes == RingSize \in Nat \ {0} /\ PageSize \in Nat \ {0}
BY ServerAssumption

\* Within two rounds the remainder by the size of the ring is one subtraction.
LEMMA ModWraps ==
    ASSUME NEW x \in 0..(2 * RingSize - 1)
    PROVE  x % RingSize = Wrapped(x)
BY Sizes, SMT DEF Wrapped

\* Where the ring's head goes and where older entries are found, without remainders.
LEMMA WrappedPlace ==
    /\ \A x \in 0..(2 * RingSize - 1) : Wrapped(x) \in 0..(RingSize - 1)
    /\ \A h \in 0..(RingSize - 1) : Wrapped(Wrapped(h + 1) + RingSize - 1) = h
    /\ \A h \in 0..(RingSize - 1), i \in 1..(RingSize - 1) :
          Wrapped(Wrapped(h + 1) + i - 1) = Wrapped(h + i) /\ Wrapped(h + i) # h
BY Sizes DEF Wrapped

\* What List returns: the last n entries, the oldest of them first.
LEMMA ListKept ==
    ASSUME NEW r, IsRing(r), NEW limit \in Nat
    PROVE  LET n == IF limit > 0 /\ limit < r.count THEN limit ELSE r.count
           IN List(r, limit) = [i \in 1..n |-> Kept(r, r.count - n + i)]
<1> DEFINE n == IF limit > 0 /\ limit < r.count THEN limit ELSE r.count
           start == (r.head - n + RingSize) % RingSize
<1> USE Sizes DEF IsRing
<1>1. n \in 0..r.count
  OBVIOUS
<1>2. r.head - n + RingSize \in 0..(2 * RingSize - 1)
  BY <1>1
<1>3. start = Wrapped(r.head - n + RingSize)
  BY <1>2, ModWraps
<1>4. start \in 0..(RingSize - 1)
  BY <1>2, <1>3, WrappedPlace
<1>5. ASSUME NEW i \in 1..n PROVE r.buf[(start + i - 1) % RingSize] = Kept(r, r.count - n + i)
  <2>1. start + i - 1 \in 0..(2 * RingSize - 1)
    BY <1>1, <1>4, SMTT(30)
  <2>2. (start + i - 1) % RingSize = Wrapped(start + i - 1)
    BY <2>1, ModWraps
  <2>3. Wrapped(start + i - 1) = IF r.count < RingSize THEN (r.count - n + i) - 1
                                 ELSE Wrapped(r.head + (r.count - n + i) - 1)
    <3> HIDE DEF n, start
    <3>1. CASE r.count < RingSize
      BY <1>1, <1>3, <3>1 DEF Wrapped
    <3>2. CASE r.count = RingSize
      BY <1>1, <1>3, <3>2 DEF Wrapped
    <3> QED
      BY <3>1, <3>2
  <2> QED
    BY <2>2, <2>3 DEF Kept
<1>6. List(r, limit) = [i \in 1..n |-> r.buf[(start + i - 1) % RingSize]]
  BY DEF List
<1> HIDE DEF n, start
<1>7. List(r, limit) = [i \in 1..n |-> Kept(r, r.count - n + i)]
  BY <1>5, <1>6
<1> QED
  BY <1>7 DEF n

\* A listing without limit shows everything the ring keeps, oldest first.
LEMMA ListAll ==
    ASSUME NEW r, IsRing(r)
    PROVE  /\ List(r, 0) = [i \in 1..r.count |-> Kept(r, i)]
           /\ List(r, 0) \in Seq(Cell) /\ Len(List(r, 0)) = r.count
<1>1. \A i \in 1..r.count : r.count - r.count + i = i
  BY DEF IsRing
<1>2. List(r, 0) = [i \in 1..r.count |-> Kept(r, r.count - r.count + i)]
  BY ListKept
<1>3. List(r, 0) = [i \in 1..r.count |-> Kept(r, i)]
  BY <1>1, <1>2
<1>4. \A i \in 1..r.count : Kept(r, i) \in Cell
  BY Sizes DEF IsRing, Kept, Wrapped
<1> QED
  BY <1>3, <1>4 DEF IsRing

\* A page is the end of the log.
LEMMA PageIsRecent ==
    ASSUME NEW r, IsRing(r)
    PROVE  List(r, PageSize) = Recent(PageSize, List(r, 0))
<1> DEFINE L == List(r, 0)
           n == IF PageSize < r.count THEN PageSize ELSE r.count
<1> USE Sizes
<1>1. r.count \in Nat
  BY DEF IsRing
<1>2. List(r, PageSize) = [i \in 1..n |-> Kept(r, r.count - n + i)]
  BY ListKept
<1>3. L = [i \in 1..r.count |-> Kept(r, i)] /\ L \in Seq(Cell) /\ Len(L) = r.count
  BY ListAll
<1> HIDE DEF L
<1>4. CASE r.count <= PageSize
  BY <1>1, <1>2, <1>3, <1>4, \A i \in 1..r.count : r.count - r.count + i = i DEF Recent, L
<1>5. CASE r.count > PageSize
  <2>0. Len(L) = r.count
    BY <1>3
  <2>1. Recent(PageSize, L) = SubSeq(L, r.count - PageSize + 1, r.count)
    <3>1. ~ (Len(L) <= PageSize)
      BY <1>1, <1>5, <2>0
    <3> QED
      BY <2>0, <3>1, ZenonT(60) DEF Recent
  <2>2. SubSeq(L, r.count - PageSize + 1, r.count) = [i \in 1..PageSize |-> L[i + (r.count - PageSize + 1) - 1]]
    BY <1>1, <1>3, <1>5
  <2>3. ASSUME NEW i \in 1..PageSize
        PROVE L[i + (r.count - PageSize + 1) - 1] = Kept(r, r.count - PageSize + i)
    <3>1. PICK k \in 1..r.count :
              k = i + (r.count - PageSize + 1) - 1 /\ k = r.count - PageSize + i
      BY <1>1, <1>5
    <3>2. L[k] = Kept(r, k)
      BY <1>3
    <3> QED
      BY <3>1, <3>2
  <2> QED
    BY <1>2, <1>5, <2>1, <2>2, <2>3 DEF L
<1> QED
  BY <1>1, <1>4, <1>5

\* A write appends to the log, whose oldest entry goes when it is full.
LEMMA WriteRecords ==
    ASSUME NEW r, IsRing(r), NEW e \in Entries
    PROVE  /\ IsRing(Write(r, e))
           /\ List(Write(r, e), 0) = Recent(RingSize, Append(List(r, 0), e))
<1> DEFINE w == Write(r, e)
           L == List(r, 0)
           A == Append(L, e)
<1> USE Sizes
<1>1. /\ r.count \in 0..RingSize /\ r.head \in 0..(RingSize - 1)
      /\ r.buf \in [0..(RingSize - 1) -> Cell]
      /\ r.count < RingSize => r.head = r.count
  BY DEF IsRing
<1>2. (r.head + 1) % RingSize = Wrapped(r.head + 1)
  BY <1>1, ModWraps
<1>3. /\ w.buf = [r.buf EXCEPT ![r.head] = e]
      /\ w.head = Wrapped(r.head + 1)
      /\ w.count = IF r.count < RingSize THEN r.count + 1 ELSE r.count
  BY <1>2 DEF Write
<1>4. IsRing(w)
  BY <1>1, <1>2 DEF IsRing, Write, Wrapped, Cell
<1>5. List(w, 0) = [i \in 1..w.count |-> Kept(w, i)]
  BY <1>4, ListAll
<1>6. L = [i \in 1..r.count |-> Kept(r, i)] /\ L \in Seq(Cell) /\ Len(L) = r.count
  BY ListAll
<1> HIDE DEF w, L
<1>7. A = [i \in 1..(r.count + 1) |-> IF i = r.count + 1 THEN e ELSE Kept(r, i)]
      /\ Len(A) = r.count + 1 /\ A \in Seq(Cell)
  BY <1>1, <1>6 DEF Cell
<1> HIDE DEF A
<1>8. CASE r.count < RingSize
  <2>1. Recent(RingSize, A) = A
    BY <1>1, <1>7, <1>8 DEF Recent
  <2>2. ASSUME NEW i \in 1..(r.count + 1)
        PROVE  Kept(w, i) = IF i = r.count + 1 THEN e ELSE Kept(r, i)
    <3>1. Kept(w, i) = w.buf[i - 1]
      <4>1. CASE w.count < RingSize
        BY <4>1 DEF Kept
      <4>2. CASE w.count = RingSize
        <5>1. r.head + 1 = RingSize /\ w.head = 0
          BY <1>1, <1>3, <1>8, <4>2 DEF Wrapped
        <5>2. Wrapped(w.head + i - 1) = i - 1
          BY <1>1, <1>8, <5>1 DEF Wrapped
        <5> QED
          BY <4>2, <5>2 DEF Kept
      <4> QED
        BY <1>1, <1>3, <1>8, <4>1, <4>2
    <3> QED
      BY <1>1, <1>3, <1>8, <3>1 DEF Kept
  <2> QED
    BY <1>3, <1>4, <1>5, <1>7, <1>8, <2>1, <2>2, ZenonT(60) DEF w, L, A
<1>9. CASE r.count = RingSize
  <2>1. Recent(RingSize, A) = SubSeq(A, 2, RingSize + 1)
    BY <1>7, <1>9 DEF Recent
  <2>2. SubSeq(A, 2, RingSize + 1) = [i \in 1..RingSize |-> A[i + 2 - 1]]
    BY <1>7, <1>9
  <2>3. ASSUME NEW i \in 1..RingSize PROVE Kept(w, i) = A[i + 2 - 1]
    <3>1. A[i + 2 - 1] = IF i = RingSize THEN e ELSE Kept(r, i + 1)
      BY <1>7, <1>9
    <3>2. Kept(w, i) = w.buf[Wrapped(w.head + i - 1)]
      BY <1>3, <1>9 DEF Kept
    <3>3. CASE i = RingSize
      <4>1. Wrapped(w.head + i - 1) = r.head
        BY <1>1, <1>3, <3>3, WrappedPlace
      <4> QED
        BY <1>1, <1>3, <3>1, <3>2, <3>3, <4>1
    <3>4. CASE i < RingSize
      <4>0. i \in 1..(RingSize - 1) /\ r.head + i \in 0..(2 * RingSize - 1)
        BY <1>1, <3>4
      <4>1. /\ Wrapped(w.head + i - 1) = Wrapped(r.head + i)
            /\ Wrapped(r.head + i) # r.head /\ Wrapped(r.head + i) \in 0..(RingSize - 1)
        <5>1. w.head = Wrapped(r.head + 1) /\ r.head \in 0..(RingSize - 1)
          BY <1>1, <1>3
        <5>2. Wrapped(r.head + i) \in 0..(RingSize - 1)
          BY <4>0, WrappedPlace, Zenon
        <5>3. Wrapped(Wrapped(r.head + 1) + i - 1) = Wrapped(r.head + i) /\ Wrapped(r.head + i) # r.head
          BY <4>0, <5>1, WrappedPlace, Zenon
        <5> QED
          BY <5>1, <5>2, <5>3, Zenon
      <4>2. Kept(r, i + 1) = r.buf[Wrapped(r.head + i)]
        <5>1. r.head + (i + 1) - 1 = r.head + i
          BY <1>1
        <5> QED
          BY <1>9, <5>1 DEF Kept
      <4>3. w.buf[Wrapped(r.head + i)] = r.buf[Wrapped(r.head + i)]
        BY <1>1, <1>3, <4>1
      <4> QED
        BY <3>1, <3>2, <3>4, <4>1, <4>2, <4>3
    <3> QED
      BY <3>3, <3>4
  <2>4. List(w, 0) = [i \in 1..RingSize |-> A[i + 2 - 1]]
    BY <1>3, <1>5, <1>9, <2>3
  <2> QED
    BY <1>4, <2>1, <2>2, <2>4 DEF w, L, A
<1> QED
  BY <1>1, <1>8, <1>9

\* Both rings start empty.
LEMMA RingInvInit == Init => RingInv
<1> SUFFICES ASSUME Init PROVE RingInv
  OBVIOUS
<1>1. ring = [h \in {"admin", "access"} |-> NewRingStore] /\ IsRing(NewRingStore)
  BY ServerAssumption DEF Init, NewRingStore, IsRing, Cell
<1> QED
  BY <1>1 DEF RingInv, IsRing

\* What a step may do to the rings and the page: an entry is written to one of
\* the rings, or the admin ring is listed.
LEMMA AuditSteps ==
    ASSUME [Next]_vars
    PROVE  \/ UNCHANGED <<ring, page>>
           \/ ring' = [ring EXCEPT !["admin"] = Write(@, "reload")] /\ UNCHANGED page
           \/ page' = List(ring["admin"], PageSize) /\ UNCHANGED ring
           \/ \E e \in {"error", "denied"} :
                  ring' = [ring EXCEPT !["access"] = Write(@, e)] /\ UNCHANGED page
<1>1. ASSUME NEW c \in Conns, NEW ip \in Addresses, GetLimiter(c, ip)
      PROVE  UNCHANGED <<ring, page>>
  BY <1>1 DEF GetLimiter, auditVars
<1>2. ASSUME NEW c \in Conns, Allow(c) \/ Limit(c) \/ Unlimited(c) \/ Answer(c)
      PROVE  UNCHANGED <<ring, page>>
  BY <1>2 DEF Allow, Limit, Unlimited, Answer, auditVars
<1>3. CASE Sweep \/ Tick \/ Drain \/ ListenFails
  BY <1>3 DEF Sweep, Tick, Drain, ListenFails, auditVars
<1>4. CASE Signal \/ Shutdown
  BY <1>4 DEF Signal, Shutdown, ShutdownReturns, ShutdownTimesOut, Exit, Moves, auditVars
<1>5. ASSUME NEW c \in Conns, NEW right \in BOOLEAN,
             Reload(c, right) \/ adminAuditList(c, right) \/ Webhook(c, right) \/ GenericWebhook(c, right)
      PROVE  \/ UNCHANGED <<ring, page>>
             \/ ring' = [ring EXCEPT !["admin"] = Write(@, "reload")] /\ UNCHANGED page
             \/ page' = List(ring["admin"], PageSize) /\ UNCHANGED ring
  BY <1>5 DEF Reload, adminAuditList, Webhook, GenericWebhook, auditVars
<1>6. ASSUME NEW c \in Conns, NEW e \in {"error", "denied"}, Download(c, e)
      PROVE  ring' = [ring EXCEPT !["access"] = Write(@, e)] /\ UNCHANGED page
  BY <1>6 DEF Download
<1>7. ASSUME NEW g \in Supervised, Cancelled(g) PROVE UNCHANGED <<ring, page>>
  BY <1>7 DEF Cancelled, auditVars
<1>8. ASSUME NEW connects \in BOOLEAN, NEW migrates \in BOOLEAN, Boot(connects, migrates)
      PROVE  UNCHANGED <<ring, page>>
  BY <1>8 DEF Boot, auditVars
<1>9. CASE UNCHANGED vars
  BY <1>9 DEF vars, auditVars
<1> QED
  BY <1>1, <1>2, <1>3, <1>4, <1>5, <1>6, <1>7, <1>8, <1>9 DEF Next

\* Both audit rings keep their head in range and count no more than their size.
LEMMA RingInvariant == Spec => []RingInv
<1>1. RingInv /\ [Next]_vars => RingInv'
  <2> SUFFICES ASSUME RingInv, [Next]_vars PROVE RingInv'
    OBVIOUS
  <2>1. ASSUME NEW h \in {"admin", "access"}, NEW e \in Entries,
               ring' = [ring EXCEPT ![h] = Write(@, e)]
        PROVE  RingInv'
    <3>1. IsRing(Write(ring[h], e))
      BY WriteRecords DEF RingInv
    <3> QED
      BY <2>1, <3>1 DEF RingInv, IsRing
  <2>2. CASE UNCHANGED ring
    BY <2>2 DEF RingInv
  <2> QED
    BY <2>1, <2>2, AuditSteps DEF Entries
<1> QED
  BY RingInvInit, <1>1, PTL DEF Spec

\* Each step of the server is a step of the audit log behind /admin/audit or
\* leaves it alone; nobody lists the access ring, which is only written.
LEMMA AuditLogSteps ==
    ASSUME RingInv, [Next]_vars
    PROVE  /\ [AdminLog!Next]_<<List(ring["admin"], 0), page>>
           /\ [AccessLog!Next]_<<List(ring["access"], 0), <<>>>>
<1>1. CASE UNCHANGED <<ring, page>>
  BY <1>1
<1>2. CASE ring' = [ring EXCEPT !["admin"] = Write(@, "reload")] /\ UNCHANGED page
  <2>1. "reload" \in Entries /\ ring'["admin"] = Write(ring["admin"], "reload") /\ ring'["access"] = ring["access"]
    BY <1>2 DEF RingInv, Entries
  <2>2. List(ring["admin"], 0)' = Recent(RingSize, Append(List(ring["admin"], 0), "reload"))
    BY <2>1, WriteRecords DEF RingInv
  <2>3. AdminLog!Record("reload")
    BY <1>2, <2>2 DEF AdminLog!Record, AdminLog!Latest, Recent
  <2> QED
    BY <2>1, <2>3 DEF AdminLog!Next
<1>3. CASE page' = List(ring["admin"], PageSize) /\ UNCHANGED ring
  <2>1. page' = Recent(PageSize, List(ring["admin"], 0))
    BY <1>3, PageIsRecent DEF RingInv
  <2>2. AdminLog!Show
    BY <1>3, <2>1 DEF AdminLog!Show, AdminLog!Latest, Recent
  <2> QED
    BY <1>3, <2>2 DEF AdminLog!Next
<1>4. ASSUME NEW e \in {"error", "denied"},
             ring' = [ring EXCEPT !["access"] = Write(@, e)] /\ UNCHANGED page
      PROVE  /\ [AdminLog!Next]_<<List(ring["admin"], 0), page>>
             /\ [AccessLog!Next]_<<List(ring["access"], 0), <<>>>>
  <2>1. e \in Entries /\ ring'["access"] = Write(ring["access"], e) /\ ring'["admin"] = ring["admin"]
    BY <1>4 DEF RingInv, Entries
  <2>2. List(ring["access"], 0)' = Recent(RingSize, Append(List(ring["access"], 0), e))
    BY <2>1, WriteRecords DEF RingInv
  <2>3. AccessLog!Record(e)
    BY <1>4, <2>2 DEF AccessLog!Record, AccessLog!Latest, Recent
  <2> QED
    BY <1>4, <2>1, <2>3 DEF AccessLog!Next
<1> QED
  BY <1>1, <1>2, <1>3, <1>4, AuditSteps

\* Both audit rings implement the audit log: what a listing shows is the end of
\* what was written, in order, whatever the ring's size and however often its
\* head has come round.
THEOREM RingImplementsLog == Spec => RingIsLog
<1>1. Init => AdminLog!Init /\ AccessLog!Init
  <2> SUFFICES ASSUME Init PROVE List(ring["admin"], 0) = <<>> /\ List(ring["access"], 0) = <<>> /\ page = <<>>
    BY DEF AdminLog!Init, AccessLog!Init
  <2>1. IsRing(ring["admin"]) /\ IsRing(ring["access"])
    BY RingInvInit DEF RingInv
  <2>2. ring["admin"].count = 0 /\ ring["access"].count = 0 /\ page = <<>>
    BY DEF Init, NewRingStore
  <2> QED
    BY <2>1, <2>2, ListAll
<1> QED
  BY <1>1, AuditLogSteps, RingInvariant, PTL DEF Spec, RingIsLog, AdminLog!Spec, AccessLog!Spec
=============================================================================
