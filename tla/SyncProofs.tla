----------------------------- MODULE SyncProofs -----------------------------
(***************************************************************************)
(* Theorems about `scan` and `generate`, for any number of commands,       *)
(* whatever the services list and answer: about the locks; about the       *)
(* operators discovery is made of; and, on those, that every repository a  *)
(* command should have seen has an outcome when it gives the lock back.    *)
(***************************************************************************)
EXTENDS SyncOrchestrator, FiniteSetTheorems, SequenceTheorems, WellFoundedInduction, TLAPS

Fields == {"pc", "cancelled", "next", "got", "errs", "tms", "todo", "log"}

\* What the proofs need to know of a command's record.
CommandShape ==
    DOMAIN cmd = Commands /\ \A c \in Commands : DOMAIN cmd[c] = Fields

\* What a step of command c may do: to its own place and to the row of the
\* lock; no step moves another command.
Moved(c) ==
    /\ \A d \in Commands \ {c} : cmd'[d] = cmd[d]
    /\ \/ cmd[c].pc \notin Holding /\ cmd'[c].pc \notin Holding /\ rows' = rows
       \/ cmd[c].pc \notin Holding /\ cmd'[c].pc \in Holding /\ rows = {} /\ rows' = {c}
       \/ cmd[c].pc \in Holding /\ cmd'[c].pc \in Holding /\ rows' = rows
       \/ cmd[c].pc \in Holding /\ cmd'[c].pc \in Ended /\ rows' \in {rows, {}}

\* The fields of a command.
LEMMA IdleShape == DOMAIN Idle = Fields
BY DEF Idle, Fields

\* A listing changes what a command has found and the state of its tokens.
LEMMA TookMoves ==
    ASSUME CommandShape, NEW c \in Commands, NEW s, NEW l,
           cmd' = Took(c, s, l)
    PROVE  CommandShape' /\ cmd'[c].pc = cmd[c].pc /\ \A d \in Commands \ {c} : cmd'[d] = cmd[d]
BY DEF CommandShape, Took, Fields

\* A step of a command changes the record of that command alone and keeps its fields.
LEMMA StepMoves ==
    ASSUME CommandShape, NEW c \in Commands, Step(c) \/ Cool(c) \/ Cancel(c) \/ Crash(c)
    PROVE  CommandShape' /\ Moved(c)
<1> USE DEF Moved, Holding, Ended
<1>1. CASE BootFails(c)
  BY <1>1 DEF BootFails, CommandShape, Fields
<1>2. CASE WriteFile(c)
  BY <1>2 DEF WriteFile, CommandShape, Fields
<1>3. CASE AcquireRow(c)
  BY <1>3 DEF AcquireRow, CommandShape, Fields
<1>4. CASE AcquireRefused(c)
  BY <1>4 DEF AcquireRefused, CommandShape, Fields
<1>5. CASE ListNext(c)
  <2>1. \E s, l : cmd' = Took(c, s, l)
    BY <1>5 DEF ListNext
  <2>2. cmd[c].pc = "list" /\ rows' = rows
    BY <1>5 DEF ListNext
  <2> QED
    BY <2>1, <2>2, TookMoves
<1>6. CASE Discover(c)
  <2>1. PICK readable \in BOOLEAN : cmd' = [cmd EXCEPT ![c] = Discovered(c, readable)]
    BY <1>6 DEF Discover
  <2>2. /\ DOMAIN Discovered(c, readable) = Fields
        /\ Discovered(c, readable).pc \in {"unlink", "work"}
    BY DEF Discovered, CommandShape, Fields
  <2>3. cmd[c].pc = "list" /\ rows' = rows
    BY <1>6 DEF Discover
  <2> QED
    BY <2>1, <2>2, <2>3 DEF CommandShape
<1>7. CASE GenerateNext(c)
  <2> DEFINE r == Head(cmd[c].todo)
             m(as) == GetRepositoryMetadata(r, cmd[c].tms[r.service], as)
  <2>1. PICK as \in Replies(c, r), good \in BOOLEAN :
           cmd' = [cmd EXCEPT ![c].todo = Tail(@), ![c].tms[r.service] = m(as).tm,
                    ![c].log = Append(@, [id |-> r.id, key |-> r.key, outcome |-> Outcome(m(as), good)])]
    BY <1>7, Zenon DEF GenerateNext
  <2>2. cmd[c].pc = "work" /\ rows' = rows
    BY <1>7 DEF GenerateNext
  <2> QED
    BY <2>1, <2>2 DEF CommandShape, Fields
<1>8. CASE GenerateEnds(c)
  BY <1>8 DEF GenerateEnds, CommandShape, Fields
<1>9. CASE UnlinkFile(c)
  BY <1>9 DEF UnlinkFile, CommandShape, Fields
<1>10. CASE DeleteRows(c)
  BY <1>10, IdleShape DEF DeleteRows, CommandShape, Fields
<1>11. CASE Cool(c)
  <2>1. PICK s, t : cmd' = [cmd EXCEPT ![c].tms[s] = t]
    BY <1>11 DEF Cool
  <2>2. cmd[c].pc \in {"list", "work"} /\ rows' = rows
    BY <1>11 DEF Cool
  <2> QED
    BY <2>1, <2>2 DEF CommandShape, Fields
<1>12. CASE Cancel(c)
  <2>1. cmd[c].pc \notin Ended /\ rows' = rows /\ cmd' = [cmd EXCEPT ![c].cancelled = TRUE]
    BY <1>12 DEF Cancel
  <2> QED
    BY <2>1 DEF CommandShape, Fields
<1>13. CASE Crash(c)
  BY <1>13, IdleShape DEF Crash, CommandShape, Fields
<1> QED
  BY <1>1, <1>2, <1>3, <1>4, <1>5, <1>6, <1>7, <1>8, <1>9, <1>10, <1>11, <1>12, <1>13 DEF Step

\* No command holds anything at the start.
LEMMA ShapeInit == Init => CommandShape /\ SyncExclusive
BY IdleShape DEF Init, CommandShape, SyncExclusive, Idle, Holding

\* One command at a time discovers and generates, and the row in sync_locks is
\* its own until it deletes it, for any number of commands started, refused,
\* cancelled and killed in any order.
THEOREM OneCommandHolds == Spec => []SyncExclusive
<1>1. CommandShape /\ SyncExclusive /\ [Next]_vars => CommandShape' /\ SyncExclusive'
  <2> SUFFICES ASSUME CommandShape, SyncExclusive, [Next]_vars
               PROVE  CommandShape' /\ SyncExclusive'
    OBVIOUS
  <2>1. ASSUME NEW c \in Commands, Step(c) \/ Cool(c) \/ Cancel(c) \/ Crash(c)
        PROVE  CommandShape' /\ SyncExclusive'
    <3>1. CommandShape' /\ Moved(c)
      BY <2>1, StepMoves
    <3>2. SyncExclusive'
      <4>1. Ended \cap Holding = {}
        BY DEF Ended, Holding
      <4> QED
        BY <3>1, <4>1 DEF Moved, SyncExclusive
    <3> QED
      BY <3>1, <3>2
  <2>2. CASE UNCHANGED vars
    BY <2>2 DEF vars, CommandShape, SyncExclusive
  <2> QED
    BY <2>1, <2>2 DEF Next, Quiet
<1> QED
  BY ShapeInit, <1>1, PTL DEF Spec

Holders == {c \in Commands : cmd[c].pc \in Holding}

Turns == INSTANCE ExclusiveRun WITH Actors <- Commands, inside <- Holders

\* Commands take turns between lock and unlock, without any condition on time: no
\* command declares another dead, which is also why a row left behind blocks them all.
THEOREM CommandsTakeTurns == Spec => Turns!Spec
<1>1. Init => Turns!Init
  BY DEF Init, Idle, Holding, Holders, Turns!Init
<1>2. CommandShape /\ SyncExclusive /\ [Next]_vars => [Turns!Next]_Holders
  <2> SUFFICES ASSUME CommandShape, SyncExclusive, [Next]_vars PROVE [Turns!Next]_Holders
    OBVIOUS
  <2>1. ASSUME NEW c \in Commands, Step(c) \/ Cool(c) \/ Cancel(c) \/ Crash(c)
        PROVE  [Turns!Next]_Holders
    <3>1. Moved(c)
      BY <2>1, StepMoves
    <3>2. Holders \ {c} = Holders' \ {c}
      BY <3>1 DEF Moved, Holders
    <3>3. CASE cmd[c].pc \in Holding
      <4>1. Holders = {c}
        BY <3>3 DEF SyncExclusive, Holders
      <4>2. Holders' = {c} \/ Holders' = {}
        BY <3>2, <4>1
      <4> QED
        BY <4>1, <4>2 DEF Turns!Next, Turns!Leave
    <3>4. CASE cmd[c].pc \notin Holding /\ cmd'[c].pc \in Holding
      <4>1. rows = {}
        BY <3>1, <3>4 DEF Moved
      <4>2. Holders = {}
        BY <4>1 DEF SyncExclusive, Holders
      <4>3. Holders' = {c}
        BY <3>2, <3>4, <4>2 DEF Holders
      <4> QED
        BY <4>2, <4>3 DEF Turns!Next, Turns!Enter
    <3>5. CASE cmd[c].pc \notin Holding /\ cmd'[c].pc \notin Holding
      BY <3>2, <3>5 DEF Holders
    <3> QED
      BY <3>3, <3>4, <3>5
  <2>2. CASE UNCHANGED vars
    BY <2>2 DEF vars, Holders
  <2> QED
    BY <2>1, <2>2 DEF Next, Quiet
<1>3. CommandShape /\ [Next]_vars => CommandShape'
  BY StepMoves DEF Next, Quiet, vars, CommandShape
<1> QED
  BY <1>1, <1>2, <1>3, ShapeInit, OneCommandHolds, PTL DEF Spec, Turns!Spec

-----------------------------------------------------------------------------
\* The row of a command that ended without deleting it (a cancelled context, a
\* busy database, a killed process) is never taken away: AcquireLock does not look at its age, and
\* ReleaseLock is only reached by the command that holds the lock.
LeftRowStays ==
    [][\A c \in Commands : c \in rows /\ cmd[c].pc \in Ended => rows' = rows]_vars

\* Whatever other commands do, a row left behind stays until an operator deletes
\* it, so no `scan` or `generate` gets the lock again.
THEOREM LeftRowBlocks == Spec => LeftRowStays
<1>1. Spec => [](CommandShape /\ SyncExclusive)
  <2>1. CommandShape /\ [Next]_vars => CommandShape'
    BY StepMoves DEF Next, Quiet, vars, CommandShape
  <2> QED
    BY ShapeInit, <2>1, OneCommandHolds, PTL DEF Spec
<1>2. CommandShape /\ SyncExclusive /\ [Next]_vars =>
        [\A c \in Commands : c \in rows /\ cmd[c].pc \in Ended => rows' = rows]_vars
  <2> SUFFICES ASSUME CommandShape, SyncExclusive, [Next]_vars,
                      NEW c \in Commands, c \in rows, cmd[c].pc \in Ended
               PROVE  rows' = rows
    OBVIOUS
  <2>1. \A d \in Commands : cmd[d].pc \in Holding => rows = {d}
    BY DEF SyncExclusive
  <2>2. \A d \in Commands : cmd[d].pc \notin Holding
    BY <2>1 DEF Holding, Ended
  <2> QED
    BY <2>2, StepMoves DEF Moved, Next, Quiet, vars
<1> QED
  BY <1>1, <1>2, PTL DEF Spec, LeftRowStays

-----------------------------------------------------------------------------
(***************************************************************************)
(* Induction and recursion on numbers, in terms of sets and functions.     *)
(***************************************************************************)
\* Of any numbers, one is the least.
LEMMA Least == ASSUME NEW J \in SUBSET Nat, J # {} PROVE \E j \in J : \A i \in J : j <= i
<1> DEFINE Less == {ss \in Nat \X Nat : ss[1] < ss[2]}
<1>1. \E j \in J : \A i \in J : ~ (<<i, j>> \in Less)
  <2>1. IsWellFoundedOn(Less, Nat)
    BY NatLessThanWellFounded DEF OpToRel
  <2> HIDE DEF Less
  <2> QED
    BY <2>1, WFMin
<1>2. \A i, j \in Nat : <<i, j>> \in Less \/ j <= i
  OBVIOUS
<1> HIDE DEF Less
<1> QED
  BY <1>1, <1>2

\* What holds of 0 and passes from each number to the next holds up to n.
LEMMA UpTo ==
    ASSUME NEW n \in Nat, NEW K, 0 \in K, \A k \in 0..(n - 1) : k \in K => k + 1 \in K
    PROVE  \A k \in 0..n : k \in K
<1> DEFINE Rest == (0..n) \ K
<1> SUFFICES ASSUME Rest # {} PROVE FALSE
  OBVIOUS
<1>1. PICK k \in Rest : \A j \in Rest : k <= j
  <2>1. Rest \in SUBSET Nat
    OBVIOUS
  <2> HIDE DEF Rest
  <2> QED
    BY <2>1, Least
<1>2. k # 0 /\ k - 1 \in 0..(n - 1)
  OBVIOUS
<1>3. k - 1 \in K
  BY <1>1, <1>2
<1> QED
  BY <1>2, <1>3

\* f starts at a and goes on as e says, up to n.
Iteration(f, A, a, n, e) ==
    f \in [0..n -> A] /\ f[0] = a /\ \A i \in 1..n : f[i] = e[f[i - 1]][i]

\* A function can be built from a start and a step.
LEMMA Iterates ==
    ASSUME NEW A, NEW a \in A, NEW n \in Nat, NEW e, \A b \in A, i \in 1..n : e[b][i] \in A
    PROVE  \E f : Iteration(f, A, a, n, e)
<1> DEFINE Upto(k, f) == f[0] = a /\ \A i \in 1..k : f[i] = e[f[i - 1]][i]
           K == {k \in 0..n : \E f \in [0..k -> A] : Upto(k, f)}
<1>1. 0 \in K
  <2> DEFINE g == [i \in 0..0 |-> a]
  <2>1. g \in [0..0 -> A] /\ g[0] = a /\ 1..0 = {}
    OBVIOUS
  <2> HIDE DEF g
  <2> QED
    BY <2>1
<1>2. ASSUME NEW k \in 0..(n - 1), k \in K PROVE k + 1 \in K
  <2>1. PICK f \in [0..k -> A] : Upto(k, f)
    BY <1>2
  <2> DEFINE g == [i \in 0..(k + 1) |-> IF i <= k THEN f[i] ELSE e[f[k]][k + 1]]
  <2>2. f[k] \in A /\ k + 1 \in 1..n
    OBVIOUS
  <2>3. e[f[k]][k + 1] \in A
    BY <2>2
  <2>4. g \in [0..(k + 1) -> A]
    BY <2>3
  <2>5. g[0] = a /\ g[k + 1] = e[g[k]][k + 1]
    BY <2>1
  <2>6. \A i \in 1..k : g[i] = e[g[i - 1]][i]
    BY <2>1
  <2> HIDE DEF g
  <2>7. Upto(k + 1, g)
    <3>1. ASSUME NEW i \in 1..(k + 1) PROVE g[i] = e[g[i - 1]][i]
      <4>1. CASE i = k + 1
        <5>1. i - 1 = k
          BY <4>1
        <5> QED
          BY <2>5, <4>1, <5>1
      <4>2. CASE i # k + 1
        <5>1. i \in 1..k
          BY <4>2
        <5> QED
          BY <2>6, <5>1
      <4> QED
        BY <4>1, <4>2
    <3> QED
      BY <2>5, <3>1
  <2> QED
    BY <2>2, <2>4, <2>7
<1>3. n \in K
  <2> HIDE DEF K
  <2>1. \A k \in 0..(n - 1) : k \in K => k + 1 \in K
    BY <1>2
  <2>2. \A k \in 0..n : k \in K
    BY <1>1, <2>1, UpTo
  <2> QED
    BY <2>2
<1> QED
  BY <1>3 DEF Iteration

\* The number of places in I that are not after i is its rank, and every rank is taken.
LEMMA NthPlace ==
    ASSUME NEW m \in Nat, NEW I \in SUBSET (1..m)
    PROVE  /\ IsFiniteSet(I) /\ Cardinality(I) \in Nat
           /\ \A n \in 1..Cardinality(I) :
                \E i \in I : Cardinality({j \in I : j <= i}) = n
           /\ \A i \in I : Cardinality({j \in I : j <= i}) \in 1..Cardinality(I)
           /\ \A i, k \in I :
                Cardinality({j \in I : j <= i}) = Cardinality({j \in I : j <= k}) => i = k
<1> DEFINE Upto(i) == {j \in I : j <= i}
           rank == [i \in I |-> Cardinality(Upto(i))]
<1>1. IsFiniteSet(I) /\ Cardinality(I) \in Nat
  <2>1. IsFiniteSet(1..m)
    BY FS_Interval
  <2> QED
    BY <2>1, FS_Subset, FS_CardinalityType
<1>2. ASSUME NEW i \in I
      PROVE IsFiniteSet(Upto(i)) /\ Cardinality(Upto(i)) \in 1..Cardinality(I)
  <2>1. Upto(i) \subseteq I /\ i \in Upto(i)
    OBVIOUS
  <2>2. IsFiniteSet(Upto(i)) /\ Cardinality(Upto(i)) <= Cardinality(I)
    BY <1>1, <2>1, FS_Subset
  <2>3. Cardinality(Upto(i)) \in Nat /\ Cardinality(Upto(i)) # 0
    BY <2>1, <2>2, FS_CardinalityType, FS_EmptySet
  <2> QED
    BY <1>1, <2>2, <2>3
<1>3. rank \in [I -> 1..Cardinality(I)]
  BY <1>2
<1>4. ASSUME NEW i \in I, NEW j \in I, i < j PROVE rank[i] # rank[j]
  <2>1. i \in Nat /\ j \in Nat /\ I \subseteq Nat
    OBVIOUS
  <2>2. Upto(i) \subseteq Upto(j) /\ j \in Upto(j) /\ j \notin Upto(i)
    <3>1. \A x \in I : x <= i => x <= j
      BY <1>4, <2>1
    <3>2. j <= j /\ ~ (j <= i)
      BY <1>4, <2>1
    <3> QED
      BY <3>1, <3>2
  <2>3. Cardinality(Upto(i)) # Cardinality(Upto(j))
    <3>1. IsFiniteSet(Upto(j)) /\ Upto(i) # Upto(j)
      BY <1>2, <2>2
    <3> HIDE DEF Upto
    <3> QED
      BY <2>2, <3>1, FS_Subset
  <2> QED
    BY <2>3
<1>5. rank \in Injection(I, 1..Cardinality(I))
  <2>1. ASSUME NEW i \in I, NEW j \in I, rank[i] = rank[j] PROVE i = j
    <3>1. i \in Nat /\ j \in Nat
      OBVIOUS
    <3>2. ~ (i < j) /\ ~ (j < i)
      BY <1>4, <2>1
    <3> QED
      BY <3>1, <3>2
  <2> HIDE DEF rank
  <2> QED
    BY <1>3, <2>1 DEF Injection, IsInjective
<1>6. rank \in Surjection(I, 1..Cardinality(I))
  <2>1. IsFiniteSet(1..Cardinality(I)) /\ Cardinality(1..Cardinality(I)) = Cardinality(I)
    BY <1>1, FS_Interval
  <2> HIDE DEF rank
  <2> QED
    BY <1>5, <2>1, FS_Injection
<1>7. /\ \A n \in 1..Cardinality(I) : \E i \in I : rank[i] = n
      /\ \A i, k \in I : rank[i] = rank[k] => i = k
  <2> HIDE DEF rank
  <2> QED
    BY <1>3, <1>5, <1>6 DEF Surjection, Injection, IsInjective
<1> QED
  BY <1>1, <1>2, <1>7

-----------------------------------------------------------------------------
(***************************************************************************)
(* The operators on sequences that discovery is made of.                   *)
(***************************************************************************)
\* At picks each place once and no other.
LEMMA AtIs ==
    ASSUME NEW S, NEW s \in Seq(S), NEW I \in SUBSET (1..Len(s))
    PROVE  /\ At(s, I) \in Seq(S) /\ ToSet(At(s, I)) = {s[i] : i \in I}
           /\ \E f \in [1..Len(At(s, I)) -> I] :
                /\ \A n \in 1..Len(At(s, I)) : At(s, I)[n] = s[f[n]]
                /\ \A n, m \in 1..Len(At(s, I)) : f[n] = f[m] => n = m
<1> DEFINE Rank(i) == Cardinality({j \in I : j <= i})
           Nth(n) == CHOOSE i \in I : Rank(i) = n
           c == Cardinality(I)
           f == [n \in 1..c |-> Nth(n)]
           t == [n \in 1..c |-> s[Nth(n)]]
<1>1. Len(s) \in Nat /\ \A i \in 1..Len(s) : s[i] \in S
  OBVIOUS
<1>2. /\ c \in Nat
      /\ \A n \in 1..c : \E i \in I : Rank(i) = n
      /\ \A i \in I : Rank(i) \in 1..c
      /\ \A i, k \in I : Rank(i) = Rank(k) => i = k
  <2> HIDE DEF Rank, c
  <2> QED
    BY <1>1, NthPlace DEF Rank, c
<1>3. At(s, I) = t
  BY DEF At
<1>4. \A n \in 1..c : Nth(n) \in I /\ Rank(Nth(n)) = n
  <2> HIDE DEF Rank, c
  <2> QED
    BY <1>2
<1>5. f \in [1..c -> I] /\ t \in Seq(S) /\ Len(t) = c /\ DOMAIN t = 1..c
  <2> HIDE DEF Nth, c
  <2>1. f \in [1..c -> I] /\ t \in [1..c -> S]
    BY <1>1, <1>4
  <2> HIDE DEF f
  <2>2. t \in Seq(S) /\ Len(t) = c
    BY <1>2, <2>1
  <2> QED
    BY <2>1, <2>2
<1>6. \A n \in 1..c : t[n] = s[f[n]]
  OBVIOUS
<1>7. \A n, m \in 1..c : f[n] = f[m] => n = m
  <2>1. \A n \in 1..c : f[n] = Nth(n)
    OBVIOUS
  <2> HIDE DEF f, Nth, Rank, c
  <2> QED
    BY <1>4, <2>1
<1>8. \A i \in I : \E n \in 1..c : t[n] = s[i]
  <2> SUFFICES ASSUME NEW i \in I PROVE \E n \in 1..c : t[n] = s[i]
    OBVIOUS
  <2>1. Rank(i) \in 1..c /\ Nth(Rank(i)) \in I /\ Rank(Nth(Rank(i))) = Rank(i)
    <3> HIDE DEF Rank, Nth, c
    <3> QED
      BY <1>2, <1>4
  <2>2. Nth(Rank(i)) = i
    <3> HIDE DEF Rank, Nth, c
    <3> QED
      BY <1>2, <2>1
  <2> QED
    BY <2>1, <2>2
<1> HIDE DEF t, f, c
<1>9. ToSet(t) = {s[i] : i \in I}
  <2>1. ToSet(t) = {t[n] : n \in 1..c}
    BY <1>5 DEF ToSet
  <2>2. \A n \in 1..c : f[n] \in I
    BY <1>5
  <2>3. ASSUME NEW x \in ToSet(t) PROVE \E i \in I : x = s[i]
    <3>1. PICK n \in 1..c : x = t[n]
      BY <2>1
    <3> QED
      BY <1>6, <2>2, <3>1
  <2>4. \A i \in I : s[i] \in ToSet(t)
    <3> SUFFICES ASSUME NEW i \in I PROVE s[i] \in ToSet(t)
      OBVIOUS
    <3>1. PICK n \in 1..c : t[n] = s[i]
      BY <1>8
    <3> QED
      BY <2>1, <3>1
  <2> QED
    BY <2>3, <2>4
<1> QED
  BY <1>3, <1>5, <1>6, <1>7, <1>9

\* Appending adds the members.
LEMMA Joined ==
    ASSUME NEW S, NEW a \in Seq(S), NEW b \in Seq(S)
    PROVE  ToSet(a \o b) = ToSet(a) \cup ToSet(b)
<1>1. ToSet(a \o b) = Range(a \o b) /\ ToSet(a) = Range(a) /\ ToSet(b) = Range(b)
  BY DEF ToSet, Range
<1> QED
  BY <1>1, RangeConcatenation

\* g[i] is z followed by the first i sequences of ss.
Appends(g, S, z, n, ss) ==
    g[0] = z /\ \A i \in 1..n : g[i - 1] \in Seq(S) /\ g[i] = g[i - 1] \o ss[i]

\* Sequences can be appended one by one.
LEMMA Appended ==
    ASSUME NEW S, NEW z \in Seq(S), NEW n \in Nat, NEW ss, \A i \in 1..n : ss[i] \in Seq(S)
    PROVE  \E g : Appends(g, S, z, n, ss)
<1> DEFINE A == Seq(S)
           e == [b \in A |-> [i \in 1..n |-> b \o ss[i]]]
<1>1. z \in A
  OBVIOUS
<1>2. \A a \in A, i \in 1..n : a \o ss[i] \in A
  OBVIOUS
<1>3. \A a \in A, i \in 1..n : e[a][i] = a \o ss[i]
  OBVIOUS
<1> HIDE DEF A, e
<1>4. PICK g : Iteration(g, A, z, n, e)
  <2>1. \A b \in A, i \in 1..n : e[b][i] \in A
    BY <1>2, <1>3
  <2> QED
    BY <1>1, <2>1, Iterates
<1>5. ASSUME NEW i \in 1..n PROVE g[i - 1] \in A /\ g[i] = g[i - 1] \o ss[i]
  <2>1. i - 1 \in 0..n
    OBVIOUS
  <2> QED
    BY <1>3, <1>4, <2>1 DEF Iteration
<1> QED
  BY <1>4, <1>5 DEF A, Appends, Iteration

\* FlattenSeq is a sequence of everything in the sequences it is given.
LEMMA FlattenIs ==
    ASSUME NEW S, NEW ss \in Seq(Seq(S))
    PROVE  /\ FlattenSeq(ss) \in Seq(S)
           /\ \A x : x \in ToSet(FlattenSeq(ss)) <=> \E i \in 1..Len(ss) : x \in ToSet(ss[i])
<1>0. Len(ss) \in Nat /\ \A i \in 1..Len(ss) : ss[i] \in Seq(S)
  OBVIOUS
<1>1. CASE Len(ss) = 0
  <2>1. ss = <<>> /\ FlattenSeq(ss) = ss
    BY <1>1 DEF FlattenSeq
  <2>2. ToSet(<<>>) = {} /\ 1..Len(ss) = {}
    BY <1>1 DEF ToSet
  <2>3. FlattenSeq(ss) = <<>> /\ <<>> \in Seq(S)
    BY <2>1
  <2> QED
    BY <2>2, <2>3
<1>2. CASE Len(ss) # 0
  <2> DEFINE n == Len(ss)
             Flat(f) == f = [i \in 1..n |-> IF i = 1 THEN ss[i] ELSE f[i - 1] \o ss[i]]
             flatten == CHOOSE f : Flat(f)
  <2>1. n \in Nat \ {0} /\ \A i \in 1..n : ss[i] \in Seq(S)
    BY <1>0, <1>2
  <2>2. FlattenSeq(ss) = flatten[n]
    BY <1>2 DEF FlattenSeq
  <2>3. PICK z : z = <<>> /\ z \in Seq(S)
    <3>1. <<>> \in Seq(S)
      OBVIOUS
    <3> QED
      BY <3>1
  <2>4. PICK g : Appends(g, S, z, n, ss)
    <3> HIDE DEF n, flatten
    <3> QED
      BY <2>1, <2>3, Appended
  <2>5. g[0] = z /\ \A i \in 1..n : g[i - 1] \in Seq(S) /\ g[i] = g[i - 1] \o ss[i]
    BY <2>4 DEF Appends
  <2>6. \E f : Flat(f)
    <3> DEFINE h == [i \in 1..n |-> g[i]]
    <3>1. ASSUME NEW i \in 1..n PROVE h[i] = IF i = 1 THEN ss[i] ELSE h[i - 1] \o ss[i]
      <4>1. CASE i = 1
        <5>1. g[1] = <<>> \o ss[1] /\ ss[1] \in Seq(S)
          <6>1. 1 \in 1..n /\ 1 - 1 = 0
            BY <2>1
          <6> QED
            BY <2>1, <2>3, <2>5, <6>1
        <5>2. g[1] = ss[1]
          BY <5>1, ConcatEmptySeq
        <5> QED
          BY <4>1, <5>2
      <4>2. CASE i # 1
        <5>1. i - 1 \in 1..n
          BY <2>1, <4>2
        <5> QED
          BY <2>5, <4>2, <5>1
      <4> QED
        BY <4>1, <4>2
    <3>2. Flat(h)
      <4>1. h = [i \in 1..n |-> h[i]]
        OBVIOUS
      <4> HIDE DEF h
      <4>2. [i \in 1..n |-> h[i]] = [i \in 1..n |-> IF i = 1 THEN ss[i] ELSE h[i - 1] \o ss[i]]
        BY <3>1
      <4> QED
        BY <4>1, <4>2
    <3> QED
      BY <3>2
  <2>7. Flat(flatten)
    <3> HIDE DEF Flat
    <3> QED
      BY <2>6
  <2>8. /\ flatten[1] = ss[1]
        /\ \A i \in 1..n : i # 1 => flatten[i] = flatten[i - 1] \o ss[i]
    <3>1. 1 \in 1..n
      BY <2>1
    <3> HIDE DEF flatten, n
    <3> QED
      BY <2>7, <3>1
  <2> DEFINE K == {k \in 0..(n - 1) :
                     /\ flatten[k + 1] \in Seq(S)
                     /\ \A x : x \in ToSet(flatten[k + 1]) <=>
                                 \E i \in 1..(k + 1) : x \in ToSet(ss[i])}
  <2> HIDE DEF flatten, n
  <2>9. 0 \in K
    <3>1. flatten[1] = ss[1] /\ ss[1] \in Seq(S) /\ 0 \in 0..(n - 1)
      <4>1. 1 \in 1..n
        BY <2>1
      <4> QED
        BY <2>1, <2>8, <4>1
    <3>2. \A i : i \in 1..(0 + 1) <=> i = 1
      OBVIOUS
    <3> QED
      BY <3>1, <3>2
  <2>10. ASSUME NEW k \in 0..(n - 1 - 1), k \in K PROVE k + 1 \in K
    <3>1. k + 2 \in 1..n /\ k + 2 # 1 /\ (k + 2) - 1 = k + 1 /\ (k + 1) + 1 = k + 2
      BY <2>1
    <3>2. flatten[k + 2] = flatten[k + 1] \o ss[k + 2]
      BY <2>8, <3>1
    <3>3. flatten[k + 1] \in Seq(S) /\ ss[k + 2] \in Seq(S)
      BY <2>1, <2>10, <3>1
    <3>4. ToSet(flatten[k + 1] \o ss[k + 2]) = ToSet(flatten[k + 1]) \cup ToSet(ss[k + 2])
      BY <3>3, Joined
    <3>5. \A x : x \in ToSet(flatten[k + 2]) <=>
                   \/ \E i \in 1..(k + 1) : x \in ToSet(ss[i])
                   \/ x \in ToSet(ss[k + 2])
      BY <2>10, <3>2, <3>3, <3>4
    <3>6. flatten[k + 2] \in Seq(S)
      BY <3>2, <3>3
    <3>7. \A i : i \in 1..(k + 2) <=> i \in 1..(k + 1) \/ i = k + 2
      BY <2>1
    <3>8. \A x : x \in ToSet(flatten[k + 2]) <=> \E i \in 1..(k + 2) : x \in ToSet(ss[i])
      BY <3>5, <3>7
    <3> QED
      BY <2>1, <3>1, <3>6, <3>8
  <2>11. n - 1 \in K
    <3>1. n - 1 \in Nat /\ n - 1 \in 0..(n - 1)
      BY <2>1
    <3> HIDE DEF K
    <3> QED
      BY <2>9, <2>10, <3>1, UpTo
  <2>12. (n - 1) + 1 = n
    BY <2>1
  <2> QED
    BY <2>2, <2>11, <2>12 DEF n
<1> QED
  BY <1>1, <1>2

-----------------------------------------------------------------------------
(***************************************************************************)
(* Token managers.                                                         *)
(***************************************************************************)
\* Whatever a service answers, a manager stays a manager: the breaker counts no
\* further than its threshold.
LEMMA ManagerTypes ==
    /\ NewTokenManager \in TokenManager
    /\ \A t \in TokenManager :
         /\ \A a : Execute(t, a) \in TokenManager
         /\ \A s : Failover(s, t) \in TokenManager /\ TokenOf(s, t) \in Tokens \cup {"none"}
         /\ HalfOpen(t) \in TokenManager
<1>1. Threshold \in Nat \ {0}
  BY ProvidersAssumption
<1>2. NewTokenManager \in TokenManager
  BY <1>1 DEF NewTokenManager, TokenManager, Tokens
<1>3. ASSUME NEW t \in TokenManager
      PROVE /\ \A a : Execute(t, a) \in TokenManager
            /\ \A s : Failover(s, t) \in TokenManager
            /\ HalfOpen(t) \in TokenManager
  BY <1>1, <1>3 DEF TokenManager, Tokens, Execute, Open, Failover, HalfOpen
<1>4. ASSUME NEW t \in TokenManager, NEW s PROVE TokenOf(s, t) \in Tokens \cup {"none"}
  BY <1>4 DEF TokenManager, Tokens, TokenOf
<1> QED
  BY <1>2, <1>3, <1>4

\* The answers to the requests of one metadata call are counted one after another.
LEMMA MetadataType ==
    ASSUME NEW t \in TokenManager, NEW as, Len(as) \in Nat \ {0}, NEW archived
    PROVE  Metadata(t, as, archived).tm \in TokenManager
<1>0. PICK n \in Nat \ {0} : n = Len(as)
  OBVIOUS
<1> DEFINE Def(f) == f = [i \in 0..n |-> IF i = 0 THEN t ELSE Execute(f[i - 1], as[i])]
           after == CHOOSE f : Def(f)
           e == [b \in TokenManager |-> [i \in 1..n |-> Execute(b, as[i])]]
<1>1. Metadata(t, as, archived).tm = after[IF as[1] = "ok" THEN Len(as) ELSE 1]
  BY <1>0 DEF Metadata
<1>2. \A b \in TokenManager, i \in 1..n : e[b][i] = Execute(b, as[i]) /\ e[b][i] \in TokenManager
  BY ManagerTypes
<1>3. PICK g : Iteration(g, TokenManager, t, n, e)
  <2> HIDE DEF e
  <2> QED
    BY <1>2, Iterates
<1>4. \E f : Def(f)
  <2>1. g \in [0..n -> TokenManager] /\ g[0] = t /\ \A i \in 1..n : g[i] = e[g[i - 1]][i]
    BY <1>3 DEF Iteration
  <2>2. \A i \in 1..n : g[i] = Execute(g[i - 1], as[i])
    <3> HIDE DEF e
    <3>1. \A i \in 1..n : g[i - 1] \in TokenManager
      <4>1. \A i \in 1..n : i - 1 \in 0..n
        OBVIOUS
      <4> QED
        BY <2>1, <4>1
    <3> QED
      BY <1>2, <2>1, <3>1
  <2>3. \A i \in 0..n : g[i] = IF i = 0 THEN t ELSE Execute(g[i - 1], as[i])
    <3>1. \A i \in 0..n : i # 0 => i \in 1..n
      OBVIOUS
    <3> QED
      BY <2>1, <2>2, <3>1
  <2>4. g = [i \in 0..n |-> g[i]]
    BY <2>1
  <2>5. Def(g)
    <3>1. [i \in 0..n |-> g[i]]
            = [i \in 0..n |-> IF i = 0 THEN t ELSE Execute(g[i - 1], as[i])]
      BY <2>3
    <3> QED
      BY <2>4, <3>1
  <2> QED
    BY <2>5
<1>5. Def(after)
  <2> HIDE DEF Def
  <2> QED
    BY <1>4
<1> DEFINE K == {k \in 0..n : after[k] \in TokenManager}
<1>6. \A k \in 0..n : k \in K
  <2>1. n \in Nat
    OBVIOUS
  <2>2. /\ after[0] = t
        /\ \A k \in 1..n : after[k] = Execute(after[k - 1], as[k])
    <3> HIDE DEF after
    <3> QED
      BY <1>5, <2>1
  <2> HIDE DEF after
  <2>3. 0 \in K
    BY <2>1, <2>2
  <2>4. ASSUME NEW k \in 0..(n - 1), k \in K PROVE k + 1 \in K
    <3>1. k + 1 \in 1..n /\ (k + 1) - 1 = k
      BY <2>1
    <3>2. after[k + 1] = Execute(after[k], as[k + 1])
      BY <2>2, <3>1
    <3>3. after[k + 1] \in TokenManager
      BY <2>4, <3>2, ManagerTypes
    <3> QED
      BY <2>1, <3>1, <3>3
  <2> HIDE DEF K
  <2>5. \A k \in 0..(n - 1) : k \in K => k + 1 \in K
    BY <2>4
  <2> QED
    BY <2>1, <2>3, <2>5, UpTo
<1>7. n \in 0..n /\ 1 \in 0..n
  OBVIOUS
<1> HIDE DEF after
<1> QED
  BY <1>0, <1>1, <1>6, <1>7

\* A metadata call leaves a manager a manager.
LEMMA RepositoryMetadataType ==
    ASSUME NEW t \in TokenManager, NEW as, Len(as) \in Nat \ {0}, NEW r
    PROVE  GetRepositoryMetadata(r, t, as).tm \in TokenManager
<1>1. \A archived : Metadata(t, as, archived).tm \in TokenManager
  BY MetadataType
<1>2. GitVerseMetadata(r, t, as).tm \in TokenManager
  <2>1. CASE as[1] = "gone" /\ ~Open(t)
    BY <2>1, ManagerTypes DEF GitVerseMetadata
  <2>2. CASE ~(as[1] = "gone" /\ ~Open(t))
    BY <1>1, <2>2 DEF GitVerseMetadata
  <2> QED
    BY <2>1, <2>2
<1> QED
  BY <1>1, <1>2 DEF GetRepositoryMetadata, GitHubMetadata, GitLabMetadata, GitFlicMetadata

\* A listing leaves a manager a manager.
LEMMA ListTypes ==
    ASSUME NEW t \in TokenManager, NEW s, NEW all, NEW p, NEW a
    PROVE  LET l == ListRepositories(s, t, all, p, a)
           IN  /\ l.tm \in TokenManager /\ l.ok = (a = "ok")
               /\ l.repos = IF a = "ok" THEN all ELSE <<>>
<1> DEFINE begun == IF p = 1 THEN t ELSE Execute(t, "ok")
           ended == Execute(begun, a)
<1>1. begun \in TokenManager
  BY ManagerTypes
<1>2. ended \in TokenManager
  <2> HIDE DEF begun
  <2> QED
    BY <1>1, ManagerTypes
<1>3. (IF a = "forbidden" THEN Failover(s, ended) ELSE ended) \in TokenManager
  <2> HIDE DEF ended
  <2> QED
    BY <1>2, ManagerTypes
<1> QED
  BY <1>3 DEF ListRepositories

-----------------------------------------------------------------------------
(***************************************************************************)
(* What the services list.                                                 *)
(***************************************************************************)
\* The services whose listings say what is private: GitHub flags it, and GitLab,
\* asked without a token, lists nothing that is.
Candid == {"github", "gitlab"}

\* An entry of a listing is about u; it may hide that u is stale or, from a service
\* that is not candid, private, and says neither of a repository that is not.
Describes(e, u) ==
    /\ e.id = u.id /\ e.service = u.service /\ e.key = u.key
    /\ e.private => u.private
    /\ u.service \in Candid => e.private = u.private
    /\ e.stale => u.stale

Entry == [id : Ids, service : ToSet(Services), key : {u.key : u \in ToSet(Upstream)},
          private : BOOLEAN, archived : BOOLEAN, stale : BOOLEAN]

\* Entries of listings that are true of some repository.
Listed == {e \in Entry : \E u \in ToSet(Upstream) : Describes(e, u)}

\* What ListOf returns for the repositories us: one entry for each.
Renders(es, us) ==
    es \in Seq(Listed) /\ Len(es) = Len(us) /\ \A i \in 1..Len(us) : Describes(es[i], us[i])

\* The repositories a service has.
LEMMA UpstreamIs ==
    /\ Len(Upstream) \in Nat /\ Upstream \in Seq(ToSet(Upstream))
    /\ \A u : u \in ToSet(Upstream) <=> \E i \in 1..Len(Upstream) : u = Upstream[i]
    /\ \A u \in ToSet(Upstream) :
         /\ u.id \in Ids /\ u.page \in Nat \ {0}
         /\ u.private \in BOOLEAN /\ u.archived \in BOOLEAN /\ u.stale \in BOOLEAN
<1>1. Upstream \in Seq(ToSet(Upstream))
  BY ProvidersAssumption
<1>2. Len(Upstream) \in Nat /\ DOMAIN Upstream = 1..Len(Upstream)
  BY <1>1, LenProperties
<1>3. \A u : u \in ToSet(Upstream) <=> \E i \in 1..Len(Upstream) : u = Upstream[i]
  BY <1>2 DEF ToSet
<1>4. \A u \in ToSet(Upstream) : u.id \in Ids
  BY <1>3 DEF Ids
<1> QED
  BY <1>1, <1>2, <1>3, <1>4, ProvidersAssumption

\* An entry made of a repository of a configured service.
LEMMA RepositoryIs ==
    ASSUME NEW u \in ToSet(Upstream), u.service \in ToSet(Services),
           NEW private \in {u.private, FALSE}, NEW archived \in {u.archived, FALSE},
           NEW stale \in {u.stale, FALSE},
           u.service \in Candid => private = u.private
    PROVE  LET e == Repository(u, private, archived, stale)
           IN  e \in Listed /\ Describes(e, u)
<1> DEFINE e == Repository(u, private, archived, stale)
<1>1. private \in BOOLEAN /\ archived \in BOOLEAN /\ stale \in BOOLEAN /\ u.id \in Ids
  BY UpstreamIs
<1>2. e \in Entry
  BY <1>1 DEF Repository, Entry
<1>3. (private => u.private) /\ (stale => u.stale)
  BY <1>1, UpstreamIs
<1>4. Describes(e, u)
  BY <1>3 DEF Repository, Describes
<1> QED
  BY <1>2, <1>4 DEF Listed

\* Some repository is on the last page, and none behind it.
LEMMA LastPageIs ==
    ASSUME NEW us \in Seq(ToSet(Upstream))
    PROVE  LastPage(us) \in Nat \ {0} /\ \A i \in 1..Len(us) : us[i].page <= LastPage(us)
<1> DEFINE Pages == {1} \cup {us[i].page : i \in 1..Len(us)}
<1>0. PICK n \in Nat : n = Len(us)
  OBVIOUS
<1>1. \A i \in 1..n : us[i].page \in Nat \ {0}
  <2>1. \A i \in 1..n : us[i] \in ToSet(Upstream)
    BY <1>0
  <2> QED
    BY <2>1, UpstreamIs
<1>2. Pages \subseteq Nat \ {0} /\ 1 \in Pages /\ \A i \in 1..n : us[i].page \in Pages
  BY <1>0, <1>1
<1> DEFINE K == {k \in 0..n : \E m \in Pages : \A i \in 1..k : us[i].page <= m}
<1>3. \A k \in 0..n : k \in K
  <2> HIDE DEF Pages
  <2>1. 0 \in K
    BY <1>2
  <2>2. ASSUME NEW k \in 0..(n - 1), k \in K PROVE k + 1 \in K
    <3>1. PICK m \in Pages : \A i \in 1..k : us[i].page <= m
      BY <2>2
    <3>2. k + 1 \in 1..n /\ \A i \in 1..(k + 1) : i \in 1..k \/ i = k + 1
      OBVIOUS
    <3>3. m \in Nat /\ us[k + 1].page \in Nat /\ us[k + 1].page \in Pages
      BY <1>1, <1>2, <3>2
    <3>4. \A i \in 1..k : us[i].page \in Nat
      BY <1>1
    <3>5. CASE us[k + 1].page <= m
      BY <3>1, <3>2, <3>5
    <3>6. CASE m <= us[k + 1].page
      <4>1. PICK l \in Pages : l = us[k + 1].page
        BY <3>3
      <4>2. \A i \in 1..(k + 1) : us[i].page <= l
        BY <3>1, <3>2, <3>3, <3>4, <3>6, <4>1
      <4> QED
        BY <3>2, <4>2
    <3> QED
      BY <3>3, <3>5, <3>6
  <2> HIDE DEF K
  <2>3. \A k \in 0..(n - 1) : k \in K => k + 1 \in K
    BY <2>2
  <2> QED
    BY <2>1, <2>3, UpTo
<1>4. \E m \in Pages : \A i \in 1..n : us[i].page <= m
  <2>1. n \in 0..n
    OBVIOUS
  <2> HIDE DEF Pages
  <2> QED
    BY <1>3, <2>1
<1>5. LastPage(us) = CHOOSE m \in Pages : \A i \in 1..n : us[i].page <= m
  BY <1>0 DEF LastPage
<1> HIDE DEF Pages
<1>6. LastPage(us) \in Pages /\ \A i \in 1..n : us[i].page <= LastPage(us)
  BY <1>4, <1>5
<1> QED
  BY <1>0, <1>2, <1>6

\* The repositories of a service under an organisation are repositories of Upstream.
LEMMA OfIs ==
    ASSUME NEW s, NEW org
    PROVE  /\ Of(s, org) \in Seq(ToSet(Upstream))
           /\ ToSet(Of(s, org)) = {u \in ToSet(Upstream) : u.service = s /\ u.org = org}
<1> DEFINE I == {i \in 1..Len(Upstream) : Upstream[i].service = s /\ Upstream[i].org = org}
<1>1. Of(s, org) = At(Upstream, I) /\ I \subseteq 1..Len(Upstream)
  BY DEF Of
<1>2. /\ At(Upstream, I) \in Seq(ToSet(Upstream))
      /\ ToSet(At(Upstream, I)) = {Upstream[i] : i \in I}
  <2>1. Upstream \in Seq(ToSet(Upstream))
    BY UpstreamIs
  <2>2. I \in SUBSET (1..Len(Upstream))
    OBVIOUS
  <2> HIDE DEF I
  <2>3. \A S : \A t \in Seq(S) : \A J \in SUBSET (1..Len(t)) :
           At(t, J) \in Seq(S) /\ ToSet(At(t, J)) = {t[i] : i \in J}
    BY AtIs
  <2> QED
    BY <2>1, <2>2, <2>3, Zenon
<1>3. ASSUME NEW x
      PROVE  x \in {Upstream[i] : i \in I} <=> x \in ToSet(Upstream) /\ x.service = s /\ x.org = org
  <2>1. ASSUME x \in {Upstream[i] : i \in I}
        PROVE  x \in ToSet(Upstream) /\ x.service = s /\ x.org = org
    <3>1. PICK i \in 1..Len(Upstream) : /\ x = Upstream[i]
                                       /\ Upstream[i].service = s /\ Upstream[i].org = org
      BY <2>1
    <3> HIDE DEF I
    <3> QED
      BY <3>1, UpstreamIs
  <2>2. ASSUME x \in ToSet(Upstream), x.service = s, x.org = org
        PROVE  x \in {Upstream[i] : i \in I}
    <3>1. PICK i \in 1..Len(Upstream) : x = Upstream[i]
      BY <2>2, UpstreamIs
    <3>2. i \in I
      BY <2>2, <3>1
    <3> HIDE DEF I
    <3> QED
      BY <3>1, <3>2
  <2> QED
    BY <2>1, <2>2
<1> HIDE DEF I
<1> QED
  BY <1>1, <1>2, <1>3

\* The members of a sequence are what it has in its places.
LEMMA Members ==
    ASSUME NEW S, NEW s \in Seq(S)
    PROVE  /\ \A x : x \in ToSet(s) <=> \E i \in 1..Len(s) : x = s[i]
           /\ ToSet(s) \subseteq S /\ Len(s) \in Nat /\ s \in Seq(ToSet(s))
<1>1. Len(s) \in Nat /\ DOMAIN s = 1..Len(s)
  BY LenProperties
<1>2. ToSet(s) = Range(s)
  BY DEF ToSet, Range
<1>3. s \in Seq(ToSet(s))
  BY <1>2, SeqOfRange
<1>4. \A x : x \in ToSet(s) <=> \E i \in 1..Len(s) : x = s[i]
  BY <1>1 DEF ToSet
<1>5. \A i \in 1..Len(s) : s[i] \in S
  BY ElementOfSeq
<1> QED
  BY <1>1, <1>3, <1>4, <1>5

\* Each repository is on its page, once the pages are put one after another.
LEMMA PagesShowAll ==
    ASSUME NEW us \in Seq(ToSet(Upstream)), NEW m \in Nat \ {0}, NEW pages,
           pages = [p \in 1..m |-> pages[p]],
           \A p \in 1..m : Renders(pages[p], Page(us, p))
    PROVE  /\ pages \in Seq(Seq(Listed)) /\ Len(pages) = m
           /\ \A p \in 1..m : \A e \in ToSet(pages[p]) : \E u \in ToSet(us) : Describes(e, u)
           /\ \A u \in ToSet(us) : u.page \in 1..m =>
                \E e \in ToSet(FlattenSeq(pages)) : Describes(e, u)
<1>1. \A p \in 1..m : pages[p] \in Seq(Listed)
  BY DEF Renders
<1>2. pages \in Seq(Seq(Listed)) /\ Len(pages) = m
  <2>1. pages \in [1..m -> Seq(Listed)]
    BY <1>1, Zenon
  <2> QED
    BY <2>1
<1> DEFINE I(p) == {i \in 1..Len(us) : us[i].page = p}
<1>3. ASSUME NEW p
      PROVE /\ Page(us, p) \in Seq(ToSet(Upstream))
            /\ ToSet(Page(us, p)) = {us[i] : i \in I(p)}
  <2>1. Page(us, p) = At(us, I(p)) /\ I(p) \in SUBSET (1..Len(us))
    BY DEF Page
  <2> HIDE DEF I
  <2> QED
    BY <2>1, AtIs
<1>4. \A u : u \in ToSet(us) <=> \E i \in 1..Len(us) : u = us[i]
  BY Members
<1>5. ASSUME NEW p \in 1..m, NEW e \in ToSet(pages[p])
      PROVE \E u \in ToSet(us) : Describes(e, u)
  <2>1. PICK i \in 1..Len(pages[p]) : e = pages[p][i]
    BY <1>1, <1>5, Members
  <2>2. i \in 1..Len(Page(us, p)) /\ Describes(e, Page(us, p)[i])
    BY <1>5, <2>1 DEF Renders
  <2>3. Page(us, p)[i] \in ToSet(Page(us, p))
    BY <1>3, <2>2, Members
  <2>4. Page(us, p)[i] \in ToSet(us)
    BY <1>3, <1>4, <2>3
  <2> QED
    BY <2>2, <2>4
<1>6. ASSUME NEW u \in ToSet(us), u.page \in 1..m
      PROVE \E e \in ToSet(FlattenSeq(pages)) : Describes(e, u)
  <2>1. PICK p \in 1..m : p = u.page
    BY <1>6
  <2>2. u \in ToSet(Page(us, p))
    BY <1>3, <1>4, <1>6, <2>1
  <2>3. PICK i \in 1..Len(Page(us, p)) : u = Page(us, p)[i]
    BY <1>3, <2>2, Members
  <2>4. i \in 1..Len(pages[p]) /\ Describes(pages[p][i], u)
    BY <2>1, <2>3 DEF Renders
  <2>5. pages[p][i] \in ToSet(pages[p])
    BY <1>1, <2>1, <2>4, Members
  <2>6. pages[p][i] \in ToSet(FlattenSeq(pages))
    BY <1>2, <2>1, <2>5, FlattenIs
  <2> QED
    BY <2>4, <2>6
<1> QED
  BY <1>2, <1>5, <1>6

\* A page of repositories of a configured service, as each service renders it.
LEMMA PageIs ==
    ASSUME NEW us \in Seq(ToSet(Upstream)),
           \A u \in ToSet(us) : u.service \in ToSet(Services)
    PROVE  /\ Renders(Each(us, GitHubRepository), us)
           /\ (\A u \in ToSet(us) : ~u.private) => Renders(Each(us, GitLabRepository), us)
           /\ (\A u \in ToSet(us) : u.service \notin Candid) =>
                /\ Renders(Each(us, GitFlicRepository), us)
                /\ Renders(Each(us, GitVerseRepository), us)
<1>0. PICK n \in Nat : n = Len(us)
  OBVIOUS
<1>1. \A i \in 1..n : /\ us[i] \in ToSet(Upstream) /\ us[i].service \in ToSet(Services)
                      /\ us[i] \in ToSet(us)
  BY <1>0, Members
<1>2. ASSUME NEW es, es = [i \in 1..n |-> es[i]],
             \A i \in 1..n : es[i] \in Listed /\ Describes(es[i], us[i])
      PROVE  Renders(es, us)
  <2>1. es \in [1..n -> Listed]
    BY <1>2, Zenon
  <2>2. es \in Seq(Listed) /\ Len(es) = n
    BY <2>1
  <2> QED
    BY <1>0, <1>2, <2>2 DEF Renders
<1>3. ASSUME NEW u \in ToSet(Upstream), u.service \in ToSet(Services)
      PROVE  /\ GitHubRepository(u) \in Listed /\ Describes(GitHubRepository(u), u)
             /\ ~u.private => GitLabRepository(u) \in Listed /\ Describes(GitLabRepository(u), u)
             /\ u.service \notin Candid =>
                  /\ GitFlicRepository(u) \in Listed /\ Describes(GitFlicRepository(u), u)
                  /\ GitVerseRepository(u) \in Listed /\ Describes(GitVerseRepository(u), u)
  <2>1. u.private \in BOOLEAN
    BY UpstreamIs
  <2>2. GitHubRepository(u) \in Listed /\ Describes(GitHubRepository(u), u)
    BY <1>3, RepositoryIs DEF GitHubRepository
  <2>3. ~u.private => GitLabRepository(u) \in Listed /\ Describes(GitLabRepository(u), u)
    BY <1>3, <2>1, RepositoryIs DEF GitLabRepository
  <2>4. u.service \notin Candid =>
          /\ GitFlicRepository(u) \in Listed /\ Describes(GitFlicRepository(u), u)
          /\ GitVerseRepository(u) \in Listed /\ Describes(GitVerseRepository(u), u)
    BY <1>3, RepositoryIs DEF GitFlicRepository, GitVerseRepository
  <2> QED
    BY <2>2, <2>3, <2>4
<1>4. Renders(Each(us, GitHubRepository), us)
  <2> DEFINE es == [i \in 1..n |-> GitHubRepository(us[i])]
  <2>1. es = [i \in 1..n |-> es[i]] /\ \A i \in 1..n : es[i] \in Listed /\ Describes(es[i], us[i])
    BY <1>1, <1>3
  <2>2. Each(us, GitHubRepository) = es
    BY <1>0 DEF Each
  <2> HIDE DEF es
  <2> QED
    BY <1>2, <2>1, <2>2
<1>5. ASSUME \A u \in ToSet(us) : ~u.private
      PROVE  Renders(Each(us, GitLabRepository), us)
  <2> DEFINE es == [i \in 1..n |-> GitLabRepository(us[i])]
  <2>1. es = [i \in 1..n |-> es[i]] /\ \A i \in 1..n : es[i] \in Listed /\ Describes(es[i], us[i])
    BY <1>1, <1>3, <1>5
  <2>2. Each(us, GitLabRepository) = es
    BY <1>0 DEF Each
  <2> HIDE DEF es
  <2> QED
    BY <1>2, <2>1, <2>2
<1>6. ASSUME \A u \in ToSet(us) : u.service \notin Candid
      PROVE  Renders(Each(us, GitFlicRepository), us)
  <2> DEFINE es == [i \in 1..n |-> GitFlicRepository(us[i])]
  <2>1. es = [i \in 1..n |-> es[i]] /\ \A i \in 1..n : es[i] \in Listed /\ Describes(es[i], us[i])
    BY <1>1, <1>3, <1>6
  <2>2. Each(us, GitFlicRepository) = es
    BY <1>0 DEF Each
  <2> HIDE DEF es
  <2> QED
    BY <1>2, <2>1, <2>2
<1>7. ASSUME \A u \in ToSet(us) : u.service \notin Candid
      PROVE  Renders(Each(us, GitVerseRepository), us)
  <2> DEFINE es == [i \in 1..n |-> GitVerseRepository(us[i])]
  <2>1. es = [i \in 1..n |-> es[i]] /\ \A i \in 1..n : es[i] \in Listed /\ Describes(es[i], us[i])
    BY <1>1, <1>3, <1>7
  <2>2. Each(us, GitVerseRepository) = es
    BY <1>0 DEF Each
  <2> HIDE DEF es
  <2> QED
    BY <1>2, <2>1, <2>2
<1> QED
  BY <1>4, <1>5, <1>6, <1>7

\* The pages of a listing are entries of repositories of the service, and show every
\* public repository it has under the organisation; GitVerse only its first page.
Shows(pages, s, org) ==
    /\ pages \in Seq(Seq(Listed)) /\ Len(pages) \in Nat \ {0}
    /\ \A u \in ToSet(Upstream) :
         /\ u.service = s /\ u.org = org /\ ~u.private
         /\ s = "gitverse" => u.page = 1
         => \E e \in ToSet(FlattenSeq(pages)) : Describes(e, u)

\* Pages of everything the service has under the organisation, or of what is public.
LEMMA PagesShow ==
    ASSUME NEW s \in ToSet(Services), NEW org, NEW us \in Seq(ToSet(Upstream)),
           ToSet(us) \subseteq ToSet(Of(s, org)),
           \A u \in ToSet(Of(s, org)) : ~u.private => u \in ToSet(us),
           NEW m \in Nat \ {0}, \A i \in 1..Len(us) : us[i].page <= m \/ s = "gitverse",
           NEW pages, pages = [p \in 1..m |-> pages[p]],
           \/ \A p \in 1..m : pages[p] = Each(Page(us, p), GitHubRepository)
           \/ /\ \A p \in 1..m : pages[p] = Each(Page(us, p), GitLabRepository)
              /\ \A u \in ToSet(us) : ~u.private
           \/ /\ \A p \in 1..m : \/ pages[p] = Each(Page(us, p), GitFlicRepository)
                                 \/ pages[p] = Each(Page(us, p), GitVerseRepository)
              /\ s \notin Candid
    PROVE  Shows(pages, s, org)
<1>1. ASSUME NEW p \in 1..m PROVE Renders(pages[p], Page(us, p))
  <2> DEFINE I == {i \in 1..Len(us) : us[i].page = p}
  <2>1. Page(us, p) \in Seq(ToSet(Upstream)) /\ ToSet(Page(us, p)) = {us[i] : i \in I}
    <3>1. Page(us, p) = At(us, I) /\ I \in SUBSET (1..Len(us))
      BY DEF Page
    <3> HIDE DEF I
    <3> QED
      BY <3>1, AtIs
  <2>2. ToSet(Page(us, p)) \subseteq ToSet(us)
    BY <2>1, Members
  <2>3. \A u \in ToSet(Page(us, p)) : u.service = s /\ u \in ToSet(us)
    BY <2>2, OfIs
  <2>4. PICK qs \in Seq(ToSet(Upstream)) : qs = Page(us, p)
    BY <2>1
  <2>5. \A u \in ToSet(qs) : u.service = s /\ u.service \in ToSet(Services) /\ u \in ToSet(us)
    BY <2>3, <2>4
  <2>6. /\ Renders(Each(qs, GitHubRepository), qs)
        /\ (\A u \in ToSet(qs) : ~u.private) => Renders(Each(qs, GitLabRepository), qs)
        /\ (\A u \in ToSet(qs) : u.service \notin Candid) =>
             /\ Renders(Each(qs, GitFlicRepository), qs)
             /\ Renders(Each(qs, GitVerseRepository), qs)
    BY <2>5, PageIs
  <2>7. \/ pages[p] = Each(qs, GitHubRepository)
        \/ pages[p] = Each(qs, GitLabRepository) /\ \A u \in ToSet(qs) : ~u.private
        \/ /\ pages[p] = Each(qs, GitFlicRepository) \/ pages[p] = Each(qs, GitVerseRepository)
           /\ \A u \in ToSet(qs) : u.service \notin Candid
    BY <1>1, <2>4, <2>5
  <2> QED
    BY <2>4, <2>6, <2>7
<1>2. /\ pages \in Seq(Seq(Listed)) /\ Len(pages) = m
      /\ \A u \in ToSet(us) : u.page \in 1..m =>
           \E e \in ToSet(FlattenSeq(pages)) : Describes(e, u)
  BY <1>1, PagesShowAll
<1>3. ASSUME NEW u \in ToSet(Upstream), u.service = s, u.org = org, ~u.private,
             s = "gitverse" => u.page = 1
      PROVE  \E e \in ToSet(FlattenSeq(pages)) : Describes(e, u)
  <2>1. u \in ToSet(us)
    BY <1>3, OfIs
  <2>2. u.page \in 1..m
    <3>1. PICK q \in Nat \ {0} : q = u.page
      BY UpstreamIs
    <3>2. q <= m
      <4>1. CASE s = "gitverse"
        BY <1>3, <3>1, <4>1
      <4>2. CASE s # "gitverse"
        BY <2>1, <3>1, <4>2, Members
      <4> QED
        BY <4>1, <4>2
    <3> QED
      BY <3>1, <3>2
  <2> QED
    BY <1>2, <2>1, <2>2
<1> QED
  BY <1>2, <1>3 DEF Shows

\* Every service's pages show what it has.
LEMMA PagesOfShow ==
    ASSUME NEW s \in ToSet(Services), NEW org PROVE Shows(PagesOf(s, org), s, org)
<1> DEFINE us == Of(s, org)
<1>1. us \in Seq(ToSet(Upstream)) /\ s \in Known
  <2>1. ToSet(Services) \subseteq Known
    BY SyncAssumption, Members
  <2> QED
    BY <2>1, OfIs
<1>2. LastPage(us) \in Nat \ {0} /\ \A i \in 1..Len(us) : us[i].page <= LastPage(us)
  BY <1>1, LastPageIs
<1>3. CASE s = "github"
  <2> DEFINE pages == [p \in 1..LastPage(us) |-> Each(Page(us, p), GitHubRepository)]
  <2>1. PagesOf(s, org) = pages
    BY <1>3 DEF PagesOf, GitHubPages
  <2>2. /\ pages = [p \in 1..LastPage(us) |-> pages[p]]
        /\ \A p \in 1..LastPage(us) : pages[p] = Each(Page(us, p), GitHubRepository)
    OBVIOUS
  <2> HIDE DEF pages
  <2> QED
    BY <1>1, <1>2, <2>1, <2>2, PagesShow
<1>4. CASE s = "gitlab"
  <2> DEFINE I == {i \in 1..Len(us) : ~us[i].private}
             public == Public(us)
             pages == [p \in 1..LastPage(public) |-> Each(Page(public, p), GitLabRepository)]
  <2>1. PagesOf(s, org) = pages
    BY <1>4 DEF PagesOf, GitLabPages
  <2>2. public = At(us, I) /\ I \in SUBSET (1..Len(us))
    BY DEF Public
  <2>3. public \in Seq(ToSet(Upstream)) /\ ToSet(public) = {us[i] : i \in I}
    <3> HIDE DEF I, us
    <3> QED
      BY <1>1, <2>2, AtIs
  <2>4. /\ ToSet(public) \subseteq ToSet(us)
        /\ \A u \in ToSet(us) : ~u.private => u \in ToSet(public)
        /\ \A u \in ToSet(public) : ~u.private
    <3>1. \A u : u \in ToSet(us) <=> \E i \in 1..Len(us) : u = us[i]
      <4> HIDE DEF us
      <4> QED
        BY <1>1, Members
    <3> HIDE DEF us, public
    <3>2. \A u \in ToSet(public) : u \in ToSet(us)
      BY <2>3, <3>1
    <3>3. \A i \in 1..Len(us) : ~us[i].private => us[i] \in ToSet(public)
      BY <2>3
    <3>4. \A u \in ToSet(public) : ~u.private
      BY <2>3
    <3> QED
      BY <3>1, <3>2, <3>3, <3>4
  <2>5. LastPage(public) \in Nat \ {0} /\ \A i \in 1..Len(public) : public[i].page <= LastPage(public)
    BY <2>3, LastPageIs
  <2>6. /\ pages = [p \in 1..LastPage(public) |-> pages[p]]
        /\ \A p \in 1..LastPage(public) : pages[p] = Each(Page(public, p), GitLabRepository)
    OBVIOUS
  <2> HIDE DEF pages, public
  <2> QED
    BY <2>1, <2>3, <2>4, <2>5, <2>6, PagesShow
<1>5. CASE s = "gitflic"
  <2> DEFINE pages == [p \in 1..LastPage(us) |-> Each(Page(us, p), GitFlicRepository)]
  <2>1. PagesOf(s, org) = pages
    BY <1>5 DEF PagesOf, GitFlicPages
  <2>2. /\ pages = [p \in 1..LastPage(us) |-> pages[p]]
        /\ \A p \in 1..LastPage(us) : pages[p] = Each(Page(us, p), GitFlicRepository)
    OBVIOUS
  <2>3. s \notin Candid
    BY <1>5 DEF Candid
  <2> HIDE DEF pages
  <2> QED
    BY <1>1, <1>2, <2>1, <2>2, <2>3, PagesShow
<1>6. CASE s = "gitverse"
  <2>1. PICK pages : pages = PagesOf(s, org)
    OBVIOUS
  <2>2. pages = <<Each(Page(us, 1), GitVerseRepository)>>
    BY <1>6, <2>1 DEF PagesOf, GitVersePages
  <2>3. PICK m \in Nat \ {0} : m = 1
    OBVIOUS
  <2>4. /\ pages = [p \in 1..m |-> pages[p]]
        /\ \A p \in 1..m : pages[p] = Each(Page(us, p), GitVerseRepository)
    BY <2>2, <2>3
  <2> HIDE DEF us
  <2> QED
    BY <1>1, <1>6, <2>1, <2>4, PagesShow DEF us, Candid
<1> QED
  BY <1>1, <1>3, <1>4, <1>5, <1>6 DEF Known

\* Discovery asks every configured service about every organisation configured for it.
LEMMA TargetsAre ==
    /\ Len(Targets) \in Nat
    /\ \A k \in 1..Len(Targets) : Targets[k][1] \in ToSet(Services)
    /\ \A s \in ToSet(Services) : \A org \in ToSet(Orgs[s]) :
         \E k \in 1..Len(Targets) : Targets[k] = <<s, org>>
<1> DEFINE Org == STRING \cup {NoOrg}
           S == ToSet(Services) \X Org
           part(i) == [j \in 1..Len(Orgs[Services[i]]) |-> <<Services[i], Orgs[Services[i]][j]>>]
           parts == [i \in 1..Len(Services) |-> part(i)]
<1>1. /\ Len(Services) \in Nat
      /\ \A s : s \in ToSet(Services) <=> \E i \in 1..Len(Services) : s = Services[i]
  BY SyncAssumption, Members
<1>2. \A s \in ToSet(Services) : Orgs[s] \in Seq(Org)
  BY SyncAssumption
<1>3. ASSUME NEW i \in 1..Len(Services)
      PROVE  /\ part(i) \in Seq(S) /\ Len(part(i)) = Len(Orgs[Services[i]])
             /\ \A org \in ToSet(Orgs[Services[i]]) : <<Services[i], org>> \in ToSet(part(i))
  <2>1. PICK s \in ToSet(Services) : s = Services[i]
    BY <1>1
  <2>2. PICK os \in Seq(Org) : os = Orgs[s]
    BY <1>2
  <2>3. part(i) = [j \in 1..Len(os) |-> <<s, os[j]>>]
    BY <2>1, <2>2
  <2> HIDE DEF part, Org
  <2>4. \A j \in 1..Len(os) : <<s, os[j]>> \in S
    OBVIOUS
  <2> HIDE DEF S
  <2>5. part(i) \in [1..Len(os) -> S]
    BY <2>3, <2>4
  <2>6. Len(os) \in Nat
    OBVIOUS
  <2>7. part(i) \in Seq(S) /\ Len(part(i)) = Len(os)
    BY <2>5, <2>6
  <2>8. \A org \in ToSet(os) : \E j \in 1..Len(os) : org = os[j]
    BY Members
  <2>9. \A org \in ToSet(os) : <<s, org>> \in ToSet(part(i))
    <3> SUFFICES ASSUME NEW org \in ToSet(os) PROVE <<s, org>> \in ToSet(part(i))
      OBVIOUS
    <3>1. PICK j \in 1..Len(os) : org = os[j]
      BY <2>8
    <3>2. j \in 1..Len(part(i)) /\ part(i)[j] = <<s, org>>
      BY <2>3, <2>7, <3>1
    <3> QED
      BY <2>7, <3>2, Members
  <2> QED
    BY <2>1, <2>2, <2>7, <2>9
<1>4. parts \in Seq(Seq(S)) /\ Len(parts) = Len(Services)
  <2> HIDE DEF part, S
  <2>1. parts \in [1..Len(Services) -> Seq(S)]
    BY <1>3
  <2> QED
    BY <1>1, <2>1
<1>5. Targets = FlattenSeq(parts)
  BY DEF Targets
<1> HIDE DEF parts
<1>6. /\ Targets \in Seq(S)
      /\ \A x : x \in ToSet(Targets) <=> \E i \in 1..Len(Services) : x \in ToSet(parts[i])
  <2> HIDE DEF S
  <2> QED
    BY <1>4, <1>5, FlattenIs
<1>7. Len(Targets) \in Nat /\ \A k \in 1..Len(Targets) : Targets[k][1] \in ToSet(Services)
  <2>1. \A x \in S : x[1] \in ToSet(Services)
    OBVIOUS
  <2> HIDE DEF S
  <2> QED
    BY <1>6, <2>1
<1>8. ASSUME NEW s \in ToSet(Services), NEW org \in ToSet(Orgs[s])
      PROVE  \E k \in 1..Len(Targets) : Targets[k] = <<s, org>>
  <2>1. PICK i \in 1..Len(Services) : s = Services[i]
    BY <1>1
  <2>2. parts[i] = part(i)
    BY DEF parts
  <2>3. <<s, org>> \in ToSet(parts[i])
    BY <1>3, <1>8, <2>1, <2>2
  <2> HIDE DEF S, part
  <2>4. <<s, org>> \in ToSet(Targets)
    BY <1>6, <2>3
  <2> QED
    BY <1>6, <2>4, Members
<1> QED
  BY <1>7, <1>8

\* What discovery would hear of each of its requests.
LEMMA ListingIs ==
    ASSUME NEW k \in 1..Len(Targets)
    PROVE  /\ Listing[k].last \in Nat \ {0} /\ Listing[k].repos \in Seq(Listed)
           /\ \A u \in ToSet(Upstream) :
                /\ Targets[k] = <<u.service, u.org>> /\ ~u.private
                /\ u.service = "gitverse" => u.page = 1
                => \E e \in ToSet(Listing[k].repos) : Describes(e, u)
<1>1. PICK s, org : s = Targets[k][1] /\ org = Targets[k][2]
  OBVIOUS
<1>2. PICK pages : pages = PagesOf(s, org)
  OBVIOUS
<1>3. Shows(pages, s, org)
  BY <1>1, <1>2, TargetsAre, PagesOfShow
<1>4. Listing[k].last = Len(pages) /\ Listing[k].repos = FlattenSeq(pages)
  BY <1>1, <1>2 DEF Listing
<1>5. Listing[k].last \in Nat \ {0} /\ Listing[k].repos \in Seq(Listed)
  BY <1>3, <1>4, FlattenIs DEF Shows
<1>6. ASSUME NEW u \in ToSet(Upstream), Targets[k] = <<u.service, u.org>>, ~u.private,
             u.service = "gitverse" => u.page = 1
      PROVE  \E e \in ToSet(Listing[k].repos) : Describes(e, u)
  <2>1. u.service = s /\ u.org = org
    BY <1>1, <1>6
  <2> QED
    BY <1>3, <1>4, <1>6, <2>1 DEF Shows
<1> QED
  BY <1>5, <1>6

-----------------------------------------------------------------------------
(***************************************************************************)
(* Deduplication and the filters.                                          *)
(***************************************************************************)
\* No two places have the same owner/name.
UniqueKeys(es) == \A i, j \in 1..Len(es) : es[i].key = es[j].key => i = j

\* Deduplication keeps one entry for every owner/name, the first.
LEMMA DedupedIs ==
    ASSUME NEW rs \in Seq(Listed)
    PROVE  /\ Deduped(rs) \in Seq(Listed) /\ UniqueKeys(Deduped(rs))
           /\ ToSet(Deduped(rs)) \subseteq ToSet(rs)
           /\ \A n \in 1..Len(rs) : \E m \in 1..n :
                /\ rs[m] \in ToSet(Deduped(rs)) /\ rs[m].key = rs[n].key
                /\ \A i \in 1..(m - 1) : rs[i].key # rs[n].key
<1> DEFINE I == {i \in 1..Len(rs) : \A j \in 1..(i - 1) : rs[j].key # rs[i].key}
<1>1. Deduped(rs) = At(rs, I) /\ I \in SUBSET (1..Len(rs))
  BY DEF Deduped
<1>0. PICK n \in Nat : n = Len(rs)
  OBVIOUS
<1>2. \A i, j \in I : rs[i].key = rs[j].key => i = j
  <2> SUFFICES ASSUME NEW i \in I, NEW j \in I, rs[i].key = rs[j].key, i < j PROVE FALSE
    BY <1>0
  <2>1. i \in 1..(j - 1)
    BY <1>0
  <2> QED
    BY <2>1
<1>3. \A k \in 1..n : \E i \in I :
        i \in 1..k /\ rs[i].key = rs[k].key /\ \A j \in 1..(i - 1) : rs[j].key # rs[k].key
  <2> SUFFICES ASSUME NEW k \in 1..n
               PROVE  \E i \in I : i \in 1..k /\ rs[i].key = rs[k].key
                                   /\ \A j \in 1..(i - 1) : rs[j].key # rs[k].key
    OBVIOUS
  <2> DEFINE J == {j \in 1..n : rs[j].key = rs[k].key}
  <2>1. J \in SUBSET Nat /\ k \in J
    OBVIOUS
  <2>2. PICK j \in J : \A i \in J : j <= i
    <3> HIDE DEF J
    <3> QED
      BY <2>1, Least
  <2>3. \A i \in 1..(j - 1) : rs[i].key # rs[j].key
    <3> SUFFICES ASSUME NEW i \in 1..(j - 1), rs[i].key = rs[j].key PROVE FALSE
      OBVIOUS
    <3>1. i \in J /\ ~ (j <= i)
      OBVIOUS
    <3> QED
      BY <2>2, <3>1
  <2>4. j \in 1..n /\ j \in 1..k /\ rs[j].key = rs[k].key
    BY <2>1, <2>2
  <2> QED
    BY <1>0, <2>3, <2>4
<1> HIDE DEF I
<1>4. /\ At(rs, I) \in Seq(Listed) /\ ToSet(At(rs, I)) = {rs[i] : i \in I}
      /\ \E f \in [1..Len(At(rs, I)) -> I] :
           /\ \A k \in 1..Len(At(rs, I)) : At(rs, I)[k] = rs[f[k]]
           /\ \A k, l \in 1..Len(At(rs, I)) : f[k] = f[l] => k = l
  BY <1>1, AtIs
<1>5. UniqueKeys(At(rs, I))
  BY <1>2, <1>4 DEF UniqueKeys
<1>6. \A e : e \in ToSet(rs) <=> \E i \in 1..n : e = rs[i]
  BY <1>0, Members
<1>7. ToSet(At(rs, I)) \subseteq ToSet(rs)
  BY <1>0, <1>1, <1>4, <1>6
<1>8. \A k \in 1..n : \E m \in 1..k :
        /\ rs[m] \in ToSet(At(rs, I)) /\ rs[m].key = rs[k].key
        /\ \A i \in 1..(m - 1) : rs[i].key # rs[k].key
  <2>1. \A i \in I : rs[i] \in ToSet(At(rs, I))
    BY <1>4
  <2> QED
    BY <1>3, <2>1
<1> QED
  BY <1>0, <1>1, <1>4, <1>5, <1>7, <1>8

\* The filters keep what passes them of what is left, and nothing else.
LEMMA FilteredIs ==
    ASSUME NEW rs \in Seq(Listed), NEW readable
    PROVE  /\ Filtered(rs, readable) \in Seq(Listed) /\ UniqueKeys(Filtered(rs, readable))
           /\ \A e : e \in ToSet(Filtered(rs, readable)) <=>
                       e \in ToSet(Deduped(rs)) /\ Passes(e, readable)
<1>0. Deduped(rs) \in Seq(Listed) /\ UniqueKeys(Deduped(rs))
  BY DedupedIs
<1>1. PICK first \in Seq(Listed) : first = Deduped(rs)
  BY <1>0
<1>2. first \in Seq(Listed) /\ UniqueKeys(first)
  BY <1>0, <1>1
<1> DEFINE I == {i \in 1..Len(first) : Passes(first[i], readable)}
<1>3. Filtered(rs, readable) = At(first, I) /\ I \in SUBSET (1..Len(first))
  BY <1>1 DEF Filtered
<1>4. \A i : i \in I <=> i \in 1..Len(first) /\ Passes(first[i], readable)
  OBVIOUS
<1> HIDE DEF I
<1>5. /\ At(first, I) \in Seq(Listed) /\ ToSet(At(first, I)) = {first[i] : i \in I}
      /\ \E f \in [1..Len(At(first, I)) -> I] :
           /\ \A k \in 1..Len(At(first, I)) : At(first, I)[k] = first[f[k]]
           /\ \A k, l \in 1..Len(At(first, I)) : f[k] = f[l] => k = l
  BY <1>3, AtIs, SMTT(30)
<1>6. UniqueKeys(At(first, I))
  <2>1. \A i, j \in I : first[i].key = first[j].key => i = j
    BY <1>2, <1>3 DEF UniqueKeys
  <2> QED
    BY <1>5, <2>1, SMTT(30) DEF UniqueKeys
<1>7. \A e : e \in ToSet(first) <=> \E i \in 1..Len(first) : e = first[i]
  BY <1>2, Members
<1>8. \A e : e \in ToSet(At(first, I)) <=> e \in ToSet(first) /\ Passes(e, readable)
  <2>1. \A e \in ToSet(At(first, I)) : \E i \in I : e = first[i]
    BY <1>5
  <2>2. \A i \in I : first[i] \in ToSet(At(first, I))
    BY <1>5
  <2> HIDE DEF I
  <2> QED
    BY <1>4, <1>7, <2>1, <2>2
<1> QED
  BY <1>1, <1>3, <1>5, <1>6, <1>8

-----------------------------------------------------------------------------
(***************************************************************************)
(* The type of the state, and what a command has accounted for.            *)
(***************************************************************************)
LogEntry == [id : Ids, key : {u.key : u \in ToSet(Upstream)}, outcome : {"ok", "skipped", "error"}]

Reportable == ToSet(Services) \cup {".repoignore"}

Command ==
    [pc : Holding \cup Ended \cup {"idle", "row"}, cancelled : BOOLEAN,
     next : 1..(Len(Targets) + 1), got : Seq(Listed), errs : SUBSET Reportable,
     tms : [ToSet(Services) -> TokenManager], todo : Seq(Listed), log : Seq(LogEntry)]

\* What was listed so far is in got, or its service among the errors.
Heard(next, got, errs) ==
    \A k \in 1..(next - 1) :
        Targets[k][1] \in errs \/ ToSet(Listing[k].repos) \subseteq ToSet(got)

\* The repository is worked on, or will be.
Mentioned(id, log, todo) ==
    (\E i \in 1..Len(log) : log[i].id = id) \/ (\E j \in 1..Len(todo) : todo[j].id = id)

\* What the log and the rest of the list promise.
Settles(log, todo, got, errs) ==
    /\ UniqueKeys(log) /\ UniqueKeys(todo)
    /\ \A i \in 1..Len(log), j \in 1..Len(todo) : log[i].key # todo[j].key
    /\ \A id \in Ignored : Mentioned(id, log, todo) => ".repoignore" \in errs
    /\ \A i \in 1..Len(Upstream) : Expected(Upstream[i]) =>
        \/ Upstream[i].service \in errs
        \/ Mentioned(Upstream[i].id, log, todo)
        \/ ListedBefore(got, Upstream[i])

\* With PROCESS_PRIVATE_REPOSITORIES off, what is left to do is not listed as
\* private, and what was done is not private if its service is candid.
Cleared(e) == ProcessPrivate \/ ~e.private

TellsPublic(x) ==
    \E u \in ToSet(Upstream) :
        /\ x.id = u.id
        /\ ~ProcessPrivate /\ u.service \in Candid => ~u.private

Discreet(log, todo) ==
    /\ \A i \in 1..Len(log) : TellsPublic(log[i])
    /\ \A j \in 1..Len(todo) : Cleared(todo[j])

\* What a command in the state k has done.
Kept(k) ==
    /\ Discreet(k.log, k.todo)
    /\ k.pc \in {"idle", "row", "list"} => Heard(k.next, k.got, k.errs)
    /\ k.pc \in {"work", "unlink", "delete"} /\ ~k.cancelled =>
        Settles(k.log, k.todo, k.got, k.errs) /\ (k.pc # "work" => k.todo = <<>>)

SyncInv ==
    /\ file \in Commands \cup {NoOne} /\ rows \subseteq Commands
    /\ spent \subseteq Known \X (Tokens \cup {"none"})
    /\ faults \in 0..MaxFaults /\ stops \in 0..MaxStops
    /\ cmd \in [Commands -> Command]
    /\ \A c \in Commands : Kept(cmd[c])

\* What passed the filter may be logged.
LEMMA ClearedTells ==
    ASSUME NEW e \in Listed, Cleared(e), NEW x, x.id = e.id
    PROVE  TellsPublic(x)
<1>1. PICK u \in ToSet(Upstream) : Describes(e, u)
  BY DEF Listed
<1>2. x.id = u.id
  BY <1>1 DEF Describes
<1>3. ~ProcessPrivate /\ u.service \in Candid => ~u.private
  BY <1>1 DEF Describes, Cleared
<1> QED
  BY <1>2, <1>3 DEF TellsPublic

\* The state of a command before its first step.
LEMMA IdleIs ==
    /\ Idle \in Command /\ Kept(Idle)
    /\ \A pc \in {"done", "left", "dead"} :
         [Idle EXCEPT !.pc = pc] \in Command /\ Kept([Idle EXCEPT !.pc = pc])
<1>1. /\ Idle.pc = "idle" /\ Idle.cancelled = FALSE /\ Idle.next = 1 /\ Idle.got = <<>>
      /\ Idle.errs = {} /\ Idle.tms = [s \in ToSet(Services) |-> NewTokenManager]
      /\ Idle.todo = <<>> /\ Idle.log = <<>>
  BY DEF Idle
<1>2. 1 \in 1..(Len(Targets) + 1)
  BY TargetsAre
<1>3. [s \in ToSet(Services) |-> NewTokenManager] \in [ToSet(Services) -> TokenManager]
  BY ManagerTypes
<1>4. Idle \in Command
  BY <1>2, <1>3 DEF Idle, Command, Holding, Ended
<1>5. Heard(1, <<>>, {})
  BY DEF Heard
<1>6. Discreet(<<>>, <<>>) /\ Kept(Idle)
  <2>1. Discreet(<<>>, <<>>)
    BY DEF Discreet
  <2> QED
    BY <1>1, <1>5, <2>1 DEF Kept
<1>7. ASSUME NEW pc \in {"done", "left", "dead"}
      PROVE [Idle EXCEPT !.pc = pc] \in Command /\ Kept([Idle EXCEPT !.pc = pc])
  <2>1. PICK k \in Command : k = Idle
    BY <1>4
  <2>2. /\ [k EXCEPT !.pc = pc] \in Command /\ [k EXCEPT !.pc = pc].pc = pc
        /\ [k EXCEPT !.pc = pc].log = k.log /\ [k EXCEPT !.pc = pc].todo = k.todo
    BY <1>7 DEF Command, Ended
  <2> QED
    BY <1>1, <1>6, <1>7, <2>1, <2>2 DEF Kept
<1> QED
  BY <1>4, <1>6, <1>7

\* A listing that succeeds adds what it found, and one that fails an error.
LEMMA TookKeeps ==
    ASSUME NEW k \in Command, Kept(k), k.pc = "list", k.next <= Len(Targets),
           NEW s, s = Targets[k.next][1], NEW tm \in TokenManager, NEW ok \in BOOLEAN,
           NEW repos, repos = IF ok THEN Listing[k.next].repos ELSE <<>>,
           NEW l, l = [k EXCEPT !.next = @ + 1, !.tms[s] = tm, !.got = @ \o repos,
                                !.errs = IF ok THEN @ ELSE @ \cup {s}]
    PROVE  l \in Command /\ Kept(l)
<1>1. /\ Len(Targets) \in Nat /\ k.next \in 1..Len(Targets) /\ s \in ToSet(Services)
  BY TargetsAre DEF Command
<1>2. repos \in Seq(Listed)
  <2>1. Listing[k.next].repos \in Seq(Listed)
    BY <1>1, ListingIs
  <2> QED
    BY <2>1
<1>3. /\ l.pc = "list" /\ l.next = k.next + 1 /\ l.got = k.got \o repos
      /\ l.log = k.log /\ l.todo = k.todo
      /\ l.errs = IF ok THEN k.errs ELSE k.errs \cup {s}
  BY DEF Command
<1>4. k.got \in Seq(Listed) /\ k.got \o repos \in Seq(Listed)
  <2>1. k.got \in Seq(Listed)
    BY DEF Command
  <2> QED
    BY <1>2, <2>1, ConcatProperties
<1>5. l \in Command
  <2>1. k.next + 1 \in 1..(Len(Targets) + 1)
    BY <1>1
  <2>2. (IF ok THEN k.errs ELSE k.errs \cup {s}) \in SUBSET Reportable
    BY <1>1 DEF Command, Reportable
  <2>3. [k.tms EXCEPT ![s] = tm] \in [ToSet(Services) -> TokenManager]
    BY <1>1 DEF Command
  <2> QED
    BY <1>4, <2>1, <2>2, <2>3 DEF Command
<1>6. Heard(k.next, k.got, k.errs)
  BY DEF Kept
<1>7. ToSet(k.got \o repos) = ToSet(k.got) \cup ToSet(repos)
  <2>1. \A a, b \in Seq(Listed) : ToSet(a \o b) = ToSet(a) \cup ToSet(b)
    BY Joined
  <2> QED
    BY <1>2, <1>4, <2>1, Zenon
<1>8. Heard(k.next + 1, k.got \o repos, l.errs)
  <2> SUFFICES ASSUME NEW i \in 1..((k.next + 1) - 1)
               PROVE  \/ Targets[i][1] \in l.errs
                      \/ ToSet(Listing[i].repos) \subseteq ToSet(k.got \o repos)
    BY DEF Heard
  <2>1. CASE i = k.next
    BY <1>3, <1>7, <2>1
  <2>2. CASE i # k.next
    <3>1. i \in 1..(k.next - 1)
      BY <1>1, <2>2
    <3>2. Targets[i][1] \in k.errs \/ ToSet(Listing[i].repos) \subseteq ToSet(k.got)
      BY <1>6, <3>1 DEF Heard
    <3> QED
      BY <1>3, <1>7, <3>2
  <2> QED
    BY <2>1, <2>2
<1>9. Kept(l)
  BY <1>3, <1>8 DEF Kept
<1> QED
  BY <1>5, <1>9

\* The last listing heard, what passes the filters settles every expected repository.
LEMMA FilteredSettles ==
    ASSUME NEW got \in Seq(Listed), NEW errs, Heard(Len(Targets) + 1, got, errs),
           NEW readable \in BOOLEAN, NEW rs, rs = Filtered(got, readable),
           NEW late, late = IF readable THEN errs ELSE errs \cup {".repoignore"}
    PROVE  Settles(<<>>, rs, got, late)
<1>1. /\ rs \in Seq(Listed) /\ UniqueKeys(rs)
      /\ \A e : e \in ToSet(rs) <=> e \in ToSet(Deduped(got)) /\ Passes(e, readable)
  BY FilteredIs
<1>2. \A e : e \in ToSet(rs) <=> \E i \in 1..Len(rs) : e = rs[i]
  BY <1>1, Members
<1>3. ASSUME NEW id \in Ignored, Mentioned(id, <<>>, rs) PROVE ".repoignore" \in late
  <2>1. PICK e \in ToSet(rs) : e.id = id
    BY <1>2, <1>3 DEF Mentioned
  <2>2. ~readable
    BY <1>1, <1>3, <2>1 DEF Passes
  <2> QED
    BY <2>2
<1>4. ASSUME NEW i \in 1..Len(Upstream), Expected(Upstream[i]), Upstream[i].service \notin late
      PROVE  \/ Mentioned(Upstream[i].id, <<>>, rs)
             \/ ListedBefore(got, Upstream[i])
  <2>1. PICK u \in ToSet(Upstream) : u = Upstream[i]
    BY UpstreamIs
  <2>2. /\ u.service \in ToSet(Services) /\ u.org \in ToSet(Orgs[u.service])
        /\ u.service = "gitverse" => u.page = 1
        /\ u.id \notin Ignored /\ ~u.private /\ ~u.stale
    BY <1>4, <2>1 DEF Expected
  <2>3. PICK k \in 1..Len(Targets) : Targets[k] = <<u.service, u.org>>
    BY <2>2, TargetsAre
  <2>4. ToSet(Listing[k].repos) \subseteq ToSet(got)
    <3>1. k \in 1..((Len(Targets) + 1) - 1)
      BY <2>3, TargetsAre
    <3>2. Targets[k][1] = u.service /\ u.service \notin errs
      BY <1>4, <2>1, <2>3
    <3> QED
      BY <3>1, <3>2 DEF Heard
  <2>5. PICK e \in ToSet(got) : Describes(e, u)
    BY <2>2, <2>3, <2>4, ListingIs
  <2>6. PICK n \in 1..Len(got) : e = got[n]
    BY <2>5, Members
  <2>7. PICK m \in 1..n : /\ got[m] \in ToSet(Deduped(got)) /\ got[m].key = u.key
                         /\ \A l \in 1..(m - 1) : got[l].key # u.key
    <3>1. got[n].key = u.key
      BY <2>5, <2>6 DEF Describes
    <3> QED
      BY <2>6, <3>1, DedupedIs
  <2>8. m \in 1..Len(got) /\ got[m] \in Listed /\ got[n].id = u.id
    BY <2>5, <2>6 DEF Describes
  <2>9. CASE got[m].id # u.id
    <3>1. m < n
      BY <2>8, <2>9
    <3> QED
      BY <2>1, <2>6, <2>7, <2>8, <2>9, <3>1 DEF ListedBefore
  <2>10. CASE got[m].id = u.id
    <3>0. PICK v \in ToSet(Upstream) : Describes(got[m], v)
      BY <2>8 DEF Listed
    <3>1. v = u
      <4>1. v.id = u.id
        BY <2>10, <3>0 DEF Describes
      <4>2. PICK j \in 1..Len(Upstream) : v = Upstream[j]
        BY UpstreamIs
      <4> QED
        BY <2>1, <4>1, <4>2, ProvidersAssumption
    <3>2. Passes(got[m], readable)
      BY <2>2, <2>10, <3>0, <3>1 DEF Passes, Describes
    <3>3. got[m] \in ToSet(rs)
      BY <1>1, <2>7, <3>2
    <3>4. PICK l \in 1..Len(rs) : got[m] = rs[l]
      BY <1>2, <3>3
    <3> QED
      BY <2>1, <2>10, <3>4 DEF Mentioned
  <2> QED
    BY <2>9, <2>10
<1>5. Len(<<>>) = 0 /\ 1..0 = {}
  OBVIOUS
<1>6. UniqueKeys(<<>>) /\ \A i \in 1..Len(<<>>), j \in 1..Len(rs) : <<>>[i].key # rs[j].key
  BY <1>5 DEF UniqueKeys
<1> QED
  BY <1>1, <1>3, <1>4, <1>6 DEF Settles

\* A scan logs what it found; it settles what it would have worked on.
LEMMA LoggedSettles ==
    ASSUME NEW rs \in Seq(Listed), NEW got, NEW errs, Settles(<<>>, rs, got, errs),
           NEW log, log = [i \in 1..Len(rs) |-> [id |-> rs[i].id, key |-> rs[i].key, outcome |-> "ok"]]
    PROVE  log \in Seq(LogEntry) /\ Settles(log, <<>>, got, errs)
<1>0. PICK n \in Nat : n = Len(rs)
  OBVIOUS
<1>1. \A i \in 1..n : rs[i] \in Entry
  <2>1. \A i \in 1..n : rs[i] \in Listed
    BY <1>0
  <2> QED
    BY <2>1 DEF Listed
<1>2. \A i \in 1..n : log[i] \in LogEntry /\ log[i].id = rs[i].id /\ log[i].key = rs[i].key
  BY <1>0, <1>1 DEF Entry, LogEntry
<1>3. log \in Seq(LogEntry) /\ Len(log) = n
  <2>1. log \in [1..n -> LogEntry]
    BY <1>0, <1>2
  <2> QED
    BY <2>1
<1>4. Len(<<>>) = 0 /\ 1..0 = {}
  OBVIOUS
<1>5. \A id : Mentioned(id, log, <<>>) <=> Mentioned(id, <<>>, rs)
  BY <1>0, <1>2, <1>3, <1>4 DEF Mentioned
<1>6. UniqueKeys(log) /\ UniqueKeys(<<>>)
  BY <1>0, <1>2, <1>3, <1>4 DEF UniqueKeys, Settles
<1>7. \A i \in 1..Len(log), j \in 1..Len(<<>>) : log[i].key # <<>>[j].key
  BY <1>4
<1> QED
  BY <1>3, <1>5, <1>6, <1>7 DEF Settles

\* What the loop logs about the head of the list settles as much as the list did.
LEMMA NextSettles ==
    ASSUME NEW log \in Seq(LogEntry), NEW todo \in Seq(Listed), todo # <<>>, NEW got, NEW errs,
           Settles(log, todo, got, errs), NEW x \in LogEntry,
           x.id = Head(todo).id, x.key = Head(todo).key
    PROVE  Settles(Append(log, x), Tail(todo), got, errs)
<1>0. PICK n \in Nat, m \in Nat : n = Len(log) /\ m + 1 = Len(todo)
  <2>1. Len(log) \in Nat /\ Len(todo) \in Nat /\ Len(todo) # 0
    BY EmptySeq
  <2>2. Len(todo) - 1 \in Nat /\ (Len(todo) - 1) + 1 = Len(todo)
    BY <2>1
  <2> QED
    BY <2>1, <2>2
<1>1. PICK after, rest : after = Append(log, x) /\ rest = Tail(todo)
  OBVIOUS
<1>2. /\ Len(after) = n + 1 /\ after[n + 1] = x
      /\ \A i \in 1..n : after[i] = log[i]
  BY <1>0, <1>1, AppendProperties
<1>3. /\ Len(rest) = m /\ \A j \in 1..m : rest[j] = todo[j + 1]
      /\ todo[1] = Head(todo)
  BY <1>0, <1>1, HeadTailProperties
<1>4. /\ \A i : i \in 1..(n + 1) <=> i \in 1..n \/ i = n + 1
      /\ \A j : j \in 1..(m + 1) <=> j = 1 \/ (j - 1 \in 1..m /\ j \in Nat)
      /\ \A j \in 1..m : j + 1 \in 1..(m + 1) /\ j + 1 # 1
      /\ 1 \in 1..(m + 1)
  OBVIOUS
<1>5. /\ \A i, k \in 1..n : log[i].key = log[k].key => i = k
      /\ \A i, k \in 1..(m + 1) : todo[i].key = todo[k].key => i = k
      /\ \A i \in 1..n, j \in 1..(m + 1) : log[i].key # todo[j].key
  BY <1>0 DEF Settles, UniqueKeys
<1>6. \A j \in 1..m : todo[j + 1].key # todo[1].key
  BY <1>4, <1>5
<1>7. UniqueKeys(after)
  <2> SUFFICES ASSUME NEW i \in 1..(n + 1), NEW k \in 1..(n + 1), after[i].key = after[k].key
               PROVE i = k
    BY <1>2 DEF UniqueKeys
  <2>1. \A l \in 1..n : log[l].key # todo[1].key
    BY <1>4, <1>5
  <2>2. \A l \in 1..n : after[l].key # x.key
    BY <1>2, <1>3, <2>1
  <2>3. CASE i \in 1..n /\ k \in 1..n
    BY <1>2, <1>5, <2>3
  <2>4. CASE i = n + 1 \/ k = n + 1
    BY <1>2, <1>4, <2>2, <2>4
  <2> QED
    BY <1>4, <2>3, <2>4
<1>8. UniqueKeys(rest)
  <2> SUFFICES ASSUME NEW i \in 1..m, NEW k \in 1..m, rest[i].key = rest[k].key
               PROVE i = k
    BY <1>3 DEF UniqueKeys
  <2>1. i + 1 \in 1..(m + 1) /\ k + 1 \in 1..(m + 1)
    BY <1>4
  <2>2. rest[i] = todo[i + 1] /\ rest[k] = todo[k + 1]
    BY <1>3
  <2>3. i + 1 = k + 1
    BY <1>5, <2>1, <2>2
  <2> QED
    BY <2>3
<1>9. \A i \in 1..(n + 1), j \in 1..m : after[i].key # rest[j].key
  <2> SUFFICES ASSUME NEW i \in 1..(n + 1), NEW j \in 1..m PROVE after[i].key # todo[j + 1].key
    BY <1>3
  <2>1. CASE i = n + 1
    BY <1>2, <1>3, <1>6, <2>1
  <2>2. CASE i \in 1..n
    BY <1>2, <1>4, <1>5, <2>2
  <2> QED
    BY <1>4, <2>1, <2>2
<1>10. ASSUME NEW id PROVE Mentioned(id, after, rest) <=> Mentioned(id, log, todo)
  <2>1. (\E i \in 1..(n + 1) : after[i].id = id) <=> x.id = id \/ \E i \in 1..n : log[i].id = id
    BY <1>2, <1>4
  <2>2. (\E j \in 1..(m + 1) : todo[j].id = id) <=> x.id = id \/ \E j \in 1..m : rest[j].id = id
    <3>1. ASSUME NEW j \in 1..(m + 1), todo[j].id = id
          PROVE  x.id = id \/ \E l \in 1..m : rest[l].id = id
      <4>1. CASE j = 1
        BY <1>3, <3>1, <4>1
      <4>2. CASE j # 1
        <5>1. j - 1 \in 1..m /\ (j - 1) + 1 = j
          BY <4>2
        <5> QED
          BY <1>3, <3>1, <5>1
      <4> QED
        BY <4>1, <4>2
    <3> QED
      BY <1>3, <1>4, <3>1
  <2> QED
    BY <1>0, <1>2, <1>3, <2>1, <2>2 DEF Mentioned
<1>11. Settles(after, rest, got, errs)
  <2>1. \A i \in 1..Len(after), j \in 1..Len(rest) : after[i].key # rest[j].key
    BY <1>2, <1>3, <1>9
  <2>2. \A id \in Ignored : Mentioned(id, after, rest) => ".repoignore" \in errs
    BY <1>10 DEF Settles
  <2>3. \A i \in 1..Len(Upstream) : Expected(Upstream[i]) =>
          \/ Upstream[i].service \in errs
          \/ Mentioned(Upstream[i].id, after, rest)
          \/ ListedBefore(got, Upstream[i])
    BY <1>10 DEF Settles
  <2> QED
    BY <1>7, <1>8, <2>1, <2>2, <2>3 DEF Settles
<1> QED
  BY <1>1, <1>11

-----------------------------------------------------------------------------
(***************************************************************************)
(* What each step does to the command that takes it.                       *)
(***************************************************************************)
\* Moving on without finding or logging anything.
LEMMA PlaceKeeps ==
    ASSUME NEW k \in Command, Kept(k), NEW pc,
           \/ k.pc = "idle" /\ pc \in {"row", "refused"}
           \/ k.pc = "row" /\ pc \in {"list", "refused"}
           \/ k.pc = "unlink" /\ pc = "delete"
    PROVE  [k EXCEPT !.pc = pc] \in Command /\ Kept([k EXCEPT !.pc = pc])
<1> DEFINE l == [k EXCEPT !.pc = pc]
<1>1. /\ l \in Command /\ l.pc = pc /\ l.next = k.next /\ l.got = k.got /\ l.errs = k.errs
      /\ l.cancelled = k.cancelled /\ l.log = k.log /\ l.todo = k.todo
  BY DEF Command, Holding, Ended
<1> HIDE DEF l
<1>2. Kept(l)
  BY <1>1 DEF Kept
<1> QED
  BY <1>1, <1>2 DEF l

\* A cancelled command promises less.
LEMMA CancelKeeps ==
    ASSUME NEW k \in Command, Kept(k)
    PROVE  [k EXCEPT !.cancelled = TRUE] \in Command /\ Kept([k EXCEPT !.cancelled = TRUE])
<1> DEFINE l == [k EXCEPT !.cancelled = TRUE]
<1>1. /\ l \in Command /\ l.pc = k.pc /\ l.next = k.next /\ l.got = k.got /\ l.errs = k.errs
      /\ l.cancelled = TRUE /\ l.log = k.log /\ l.todo = k.todo
  BY DEF Command
<1> HIDE DEF l
<1>2. Kept(l)
  BY <1>1 DEF Kept
<1> QED
  BY <1>1, <1>2 DEF l

\* A breaker that lets a request through again.
LEMMA CoolKeeps ==
    ASSUME NEW k \in Command, Kept(k), NEW s \in ToSet(Services)
    PROVE  LET l == [k EXCEPT !.tms[s] = HalfOpen(@)] IN l \in Command /\ Kept(l)
<1> DEFINE l == [k EXCEPT !.tms[s] = HalfOpen(@)]
<1>1. k.tms \in [ToSet(Services) -> TokenManager]
  BY DEF Command
<1>2. [k.tms EXCEPT ![s] = HalfOpen(@)] \in [ToSet(Services) -> TokenManager]
  BY <1>1, ManagerTypes
<1>3. /\ l \in Command /\ l.pc = k.pc /\ l.next = k.next /\ l.got = k.got /\ l.errs = k.errs
      /\ l.cancelled = k.cancelled /\ l.log = k.log /\ l.todo = k.todo
  BY <1>2 DEF Command
<1> HIDE DEF l
<1>4. Kept(l)
  BY <1>3 DEF Kept
<1> QED
  BY <1>3, <1>4 DEF l

\* The loop ends with nothing left to do, or cancelled.
LEMMA EndsKeeps ==
    ASSUME NEW k \in Command, Kept(k), k.pc = "work", k.todo = <<>> \/ k.cancelled
    PROVE  LET l == [k EXCEPT !.pc = "unlink", !.todo = <<>>] IN l \in Command /\ Kept(l)
<1>0. PICK none \in Seq(Listed) : none = <<>>
  <2>1. <<>> \in Seq(Listed)
    OBVIOUS
  <2> QED
    BY <2>1, Zenon
<1> DEFINE l == [k EXCEPT !.pc = "unlink", !.todo = none]
<1>1. /\ l \in Command /\ l.pc = "unlink" /\ l.next = k.next /\ l.got = k.got /\ l.errs = k.errs
      /\ l.cancelled = k.cancelled /\ l.log = k.log /\ l.todo = none
  BY DEF Command, Holding
<1> HIDE DEF l
<1>2. Kept(l)
  <2>1. Discreet(k.log, <<>>)
    BY DEF Kept, Discreet
  <2> QED
    BY <1>0, <1>1, <2>1 DEF Kept
<1> QED
  BY <1>0, <1>1, <1>2 DEF l

\* Discovery ends with everything expected settled: logged by a scan, listed for a
\* generate.
LEMMA DiscoverKeeps ==
    ASSUME NEW c \in Commands, cmd[c] \in Command, Kept(cmd[c]), cmd[c].pc = "list",
           cmd[c].next > Len(Targets), NEW readable \in BOOLEAN
    PROVE  Discovered(c, readable) \in Command /\ Kept(Discovered(c, readable))
<1>1. PICK k \in Command, got \in Seq(Listed) : k = cmd[c] /\ got = k.got
  BY DEF Command
<1>2. PICK rs : rs = Filtered(got, readable)
  OBVIOUS
<1>3. PICK late : late = IF readable THEN k.errs ELSE k.errs \cup {".repoignore"}
  OBVIOUS
<1>4. PICK found :
        found = [i \in 1..Len(rs) |-> [id |-> rs[i].id, key |-> rs[i].key, outcome |-> "ok"]]
  OBVIOUS
<1>5. k.next = Len(Targets) + 1
  BY <1>1, TargetsAre DEF Command
<1>6. rs \in Seq(Listed) /\ Settles(<<>>, rs, got, late)
  <2>1. Heard(Len(Targets) + 1, got, k.errs)
    BY <1>1, <1>5 DEF Kept
  <2>2. rs \in Seq(Listed)
    BY <1>2, FilteredIs
  <2> QED
    BY <1>2, <1>3, <2>1, <2>2, FilteredSettles
<1>7. found \in Seq(LogEntry) /\ Settles(found, <<>>, got, late)
  BY <1>4, <1>6, LoggedSettles
<1>8. PICK pc, log, todo :
          /\ pc = IF c \in Scans THEN "unlink" ELSE "work"
          /\ log = IF c \in Scans THEN found ELSE <<>>
          /\ todo = IF c \in Scans THEN <<>> ELSE rs
  OBVIOUS
<1> DEFINE l == [k EXCEPT !.errs = late, !.pc = pc, !.log = log, !.todo = todo]
<1>9. Discovered(c, readable) = l
  BY <1>1, <1>2, <1>3, <1>4, <1>8 DEF Discovered
<1>10. late \in SUBSET Reportable /\ log \in Seq(LogEntry) /\ todo \in Seq(Listed)
  BY <1>3, <1>6, <1>7, <1>8 DEF Command, Reportable
<1>11. pc \in {"unlink", "work"} /\ (pc # "work" => todo = <<>>) /\ Settles(log, todo, got, late)
  BY <1>6, <1>7, <1>8
<1>12. /\ l \in Command /\ l.pc = pc /\ l.got = got /\ l.errs = late /\ l.log = log /\ l.todo = todo
  BY <1>1, <1>10, <1>11 DEF Command, Holding
<1> HIDE DEF l
<1>13. Discreet(log, todo)
  <2>1. \A i \in 1..Len(rs) : rs[i] \in Listed /\ Cleared(rs[i])
    <3>1. \A e : e \in ToSet(rs) => Passes(e, readable)
      BY <1>2, FilteredIs
    <3>2. \A i \in 1..Len(rs) : rs[i] \in Listed /\ rs[i] \in ToSet(rs)
      BY <1>6, Members
    <3> QED
      BY <3>1, <3>2 DEF Passes, Cleared
  <2>2. Len(found) = Len(rs) /\ \A i \in 1..Len(rs) : found[i].id = rs[i].id
    <3>1. Len(rs) \in Nat
      BY <1>6, Members
    <3> QED
      BY <1>4, <1>7, <3>1
  <2>3. \A i \in 1..Len(rs) : TellsPublic(found[i])
    BY <2>1, <2>2, ClearedTells
  <2>4. 1..Len(<<>>) = {}
    OBVIOUS
  <2> QED
    BY <1>8, <2>1, <2>2, <2>3, <2>4 DEF Discreet
<1>14. Kept(l)
  BY <1>11, <1>12, <1>13 DEF Kept
<1> QED
  BY <1>9, <1>12, <1>14

\* The loop logs the outcome of the head of the list.
LEMMA WorkKeeps ==
    ASSUME NEW k \in Command, Kept(k), k.pc = "work", k.todo # <<>>, ~k.cancelled,
           NEW r, r = Head(k.todo), NEW tm \in TokenManager,
           NEW outcome \in {"ok", "skipped", "error"}
    PROVE  LET l == [k EXCEPT !.todo = Tail(@), !.tms[r.service] = tm,
                     !.log = Append(@, [id |-> r.id, key |-> r.key, outcome |-> outcome])]
           IN l \in Command /\ Kept(l)
<1> DEFINE x == [id |-> r.id, key |-> r.key, outcome |-> outcome]
           l == [k EXCEPT !.todo = Tail(@), !.tms[r.service] = tm, !.log = Append(@, x)]
<1>1. /\ k.todo \in Seq(Listed) /\ k.log \in Seq(LogEntry)
      /\ k.tms \in [ToSet(Services) -> TokenManager]
  BY DEF Command
<1>2. r \in Entry /\ r.service \in ToSet(Services)
  <2>1. r \in Listed
    BY <1>1, HeadTailProperties
  <2> QED
    BY <2>1 DEF Listed, Entry
<1>3. x \in LogEntry /\ x.id = r.id /\ x.key = r.key
  BY <1>2 DEF LogEntry, Entry
<1> HIDE DEF x
<1>4. Tail(k.todo) \in Seq(Listed) /\ Append(k.log, x) \in Seq(LogEntry)
  BY <1>1, <1>3, HeadTailProperties, AppendProperties
<1>5. [k.tms EXCEPT ![r.service] = tm] \in [ToSet(Services) -> TokenManager]
  BY <1>1, <1>2
<1>6. Settles(k.log, k.todo, k.got, k.errs)
  BY DEF Kept
<1>7. Settles(Append(k.log, x), Tail(k.todo), k.got, k.errs)
  BY <1>1, <1>3, <1>6, NextSettles
<1>8. /\ l \in Command /\ l.pc = "work" /\ l.got = k.got /\ l.errs = k.errs
      /\ l.log = Append(k.log, x) /\ l.todo = Tail(k.todo)
  BY <1>4, <1>5 DEF Command
<1>9. Discreet(Append(k.log, x), Tail(k.todo))
  <2>0. PICK log \in Seq(LogEntry), todo \in Seq(Listed) : log = k.log /\ todo = k.todo /\ todo # <<>>
    BY <1>1
  <2>1. Discreet(log, todo)
    BY <2>0 DEF Kept
  <2>2. PICK n \in Nat, m \in Nat : n = Len(log) /\ m + 1 = Len(todo)
    <3>1. Len(log) \in Nat /\ Len(todo) \in Nat /\ Len(todo) # 0
      BY <2>0, EmptySeq
    <3>2. Len(todo) - 1 \in Nat /\ (Len(todo) - 1) + 1 = Len(todo)
      BY <3>1
    <3> QED
      BY <3>1, <3>2
  <2>3. TellsPublic(x)
    <3>1. r \in Listed /\ r = todo[1] /\ 1 \in 1..Len(todo)
      BY <2>0, <2>2, HeadTailProperties
    <3>2. Cleared(r)
      BY <2>1, <3>1 DEF Discreet
    <3> QED
      BY <1>3, <3>1, <3>2, ClearedTells
  <2>4. /\ Len(Append(log, x)) = n + 1 /\ Append(log, x)[n + 1] = x
        /\ \A i \in 1..n : Append(log, x)[i] = log[i]
    BY <1>3, <2>0, <2>2, AppendProperties
  <2>5. Len(Tail(todo)) = m /\ \A j \in 1..m : Tail(todo)[j] = todo[j + 1]
    BY <2>0, <2>2, HeadTailProperties
  <2>6. /\ \A i : i \in 1..(n + 1) <=> i \in 1..n \/ i = n + 1
        /\ \A j \in 1..m : j + 1 \in 1..(m + 1)
    OBVIOUS
  <2>7. \A i \in 1..(n + 1) : TellsPublic(Append(log, x)[i])
    BY <2>1, <2>2, <2>3, <2>4, <2>6 DEF Discreet
  <2>8. \A j \in 1..m : Cleared(Tail(todo)[j])
    BY <2>1, <2>2, <2>5, <2>6 DEF Discreet
  <2> QED
    BY <2>0, <2>4, <2>5, <2>7, <2>8 DEF Discreet
<1> HIDE DEF l
<1>10. Kept(l)
  BY <1>7, <1>8, <1>9 DEF Kept
<1> QED
  BY <1>8, <1>10 DEF l, x

\* A metadata request is answered at least once, and its answers cost a number.
LEMMA RepliesAre ==
    ASSUME NEW c, NEW r, NEW reply \in Replies(c, r), NEW good
    PROVE  Len(reply) \in Nat \ {0} /\ Cost(c, r, reply, good) \in Nat
<1>1. PICK n \in Nat : n = Requests(r.service) /\ n \in {2, 3}
  BY DEF Requests
<1>2. n \in Nat \ {0}
  BY <1>1
<1>3. Len(reply) = n /\ DOMAIN reply = 1..n
  <2>1. CASE Forced(c, r.service) # {}
    <3>1. PICK a : reply = [i \in 1..n |-> a]
      <4>1. Replies(c, r) = {[i \in 1..n |-> a] : a \in Forced(c, r.service)}
        BY <1>1, <2>1 DEF Replies
      <4> QED
        BY <4>1
    <3>2. reply \in Seq({a})
      BY <3>1
    <3> QED
      BY <3>1, <3>2
  <2>2. CASE Forced(c, r.service) = {}
    <3> DEFINE first == {"ok", "refused", "down"} \cup
                           IF r.service = "gitverse" THEN {"gone"} ELSE {}
               after == [1..(n - 1) -> {"ok", "down"}]
               both(a, rest) == <<a>> \o rest
    <3>1. Replies(c, r) = {both(a, rest) : a \in first, rest \in after}
      BY <1>1, <2>2 DEF Replies
    <3> HIDE DEF first, after, both
    <3>2. PICK a \in first, rest \in after : reply = both(a, rest)
      <4>1. reply \in {both(a, rest) : a \in first, rest \in after}
        BY <3>1
      <4> QED
        BY <4>1
    <3>3. reply = <<a>> \o rest /\ rest \in [1..(n - 1) -> {"ok", "down"}]
      BY <3>2 DEF both, after
    <3>4. n - 1 \in Nat
      BY <1>1
    <3>5. rest \in Seq({"ok", "down"}) /\ Len(rest) = n - 1
      BY <3>3, <3>4
    <3>6. <<a>> \in Seq({a, "ok", "down"}) /\ Len(<<a>>) = 1
      OBVIOUS
    <3>7. rest \in Seq({a, "ok", "down"})
      BY <3>5
    <3>8. reply \in Seq({a, "ok", "down"}) /\ Len(reply) = 1 + (n - 1)
      BY <3>3, <3>5, <3>6, <3>7, ConcatProperties
    <3> QED
      BY <3>8
  <2> QED
    BY <2>1, <2>2
<1>4. Cost(c, r, reply, good) \in Nat
  <2>1. IsFiniteSet(1..n)
    BY FS_Interval
  <2>2. Cardinality({i \in DOMAIN reply : reply[i] # "ok"}) \in Nat
    <3>1. {i \in DOMAIN reply : reply[i] # "ok"} \subseteq 1..n
      BY <1>3
    <3> QED
      BY <2>1, <3>1, FS_Subset, FS_CardinalityType
  <2> QED
    BY <2>2 DEF Cost
<1> QED
  BY <1>2, <1>3, <1>4, Zenon

\* Every step of a command leaves it in a state that keeps what it has done.
Advances(c) == \E l \in Command : cmd' = [cmd EXCEPT ![c] = l] /\ Kept(l)

\* A request of discovery is answered, and the command has heard one listing more.
LEMMA ListAdvances ==
    ASSUME SyncInv, NEW c \in Commands, ListNext(c)
    PROVE  /\ Advances(c)
           /\ spent' \subseteq Known \X (Tokens \cup {"none"}) /\ faults' \in 0..MaxFaults
<1>1. PICK k \in Command : k = cmd[c] /\ Kept(k) /\ k.pc = "list" /\ k.next <= Len(Targets)
  BY DEF SyncInv, ListNext
<1>2. PICK s, t, repos : /\ s = Targets[k.next][1] /\ t = k.tms[s] /\ repos = Listing[k.next].repos
                         /\ s \in ToSet(Services) /\ s \in Known /\ t \in TokenManager
  <2>1. k.next \in 1..Len(Targets)
    BY <1>1, TargetsAre DEF Command
  <2>2. Targets[k.next][1] \in ToSet(Services)
    BY <2>1, TargetsAre
  <2>3. Targets[k.next][1] \in Known
    BY <2>2, SyncAssumption, Members
  <2>4. k.tms[Targets[k.next][1]] \in TokenManager
    BY <2>2 DEF Command
  <2> QED
    BY <2>2, <2>3, <2>4
<1>3. PICK p, a : cmd' = Took(c, s, ListRepositories(s, t, repos, p, a))
  BY <1>1, <1>2 DEF ListNext
<1>4. PICK tm, ok, found :
        /\ tm \in TokenManager /\ ok \in BOOLEAN
        /\ found = IF ok THEN repos ELSE <<>>
        /\ LET l == ListRepositories(s, t, repos, p, a)
           IN l.tm = tm /\ l.ok = ok /\ l.repos = found
  <2>1. LET l == ListRepositories(s, t, repos, p, a)
        IN  /\ l.tm \in TokenManager /\ l.ok = (a = "ok")
            /\ l.repos = IF a = "ok" THEN repos ELSE <<>>
    BY <1>2, ListTypes
  <2> QED
    BY <2>1
<1>5. PICK l : l = [k EXCEPT !.next = @ + 1, !.tms[s] = tm, !.got = @ \o found,
                             !.errs = IF ok THEN @ ELSE @ \cup {s}]
  OBVIOUS
<1>6. l \in Command /\ Kept(l)
  <2>1. found = IF ok THEN Listing[k.next].repos ELSE <<>>
    BY <1>2, <1>4
  <2>2. Kept(k) /\ k.pc = "list" /\ k.next <= Len(Targets) /\ s = Targets[k.next][1]
    BY <1>1, <1>2
  <2>3. tm \in TokenManager /\ ok \in BOOLEAN
    BY <1>4
  <2> QED
    BY <1>5, <2>1, <2>2, <2>3, TookKeeps, Zenon
<1>7. cmd' = [cmd EXCEPT ![c] = l]
  <2>1. PICK x : x = ListRepositories(s, t, repos, p, a)
    OBVIOUS
  <2>2. cmd' = Took(c, s, x) /\ x.tm = tm /\ x.ok = ok /\ x.repos = found
    BY <1>3, <1>4, <2>1
  <2>3. Took(c, s, x) = [cmd EXCEPT ![c] = [cmd[c] EXCEPT !.next = @ + 1, !.tms[s] = x.tm,
                             !.got = @ \o x.repos, !.errs = IF x.ok THEN @ ELSE @ \cup {s}]]
    BY DEF Took
  <2> QED
    BY <1>1, <1>5, <2>2, <2>3
<1>8. spent' \subseteq Known \X (Tokens \cup {"none"})
  <2>1. spent' = spent \/ spent' = spent \cup {<<s, TokenOf(s, t)>>}
    BY <1>1, <1>2 DEF ListNext
  <2>2. TokenOf(s, t) \in Tokens \cup {"none"}
    BY <1>2, ManagerTypes
  <2> QED
    BY <1>2, <2>1, <2>2 DEF SyncInv
<1>9. faults' \in 0..MaxFaults
  <2>1. faults' = faults \/ (faults < MaxFaults /\ faults' = faults + 1)
    BY DEF ListNext
  <2> QED
    BY <2>1, SyncAssumption DEF SyncInv
<1> QED
  BY <1>6, <1>7, <1>8, <1>9 DEF Advances

\* One repository is generated, skipped or fails, and the loop goes on.
LEMMA GenerateAdvances ==
    ASSUME SyncInv, NEW c \in Commands, GenerateNext(c)
    PROVE  Advances(c) /\ faults' \in 0..MaxFaults
<1>1. PICK k, r : /\ k \in Command /\ k = cmd[c] /\ Kept(k)
                  /\ k.pc = "work" /\ k.todo # <<>> /\ ~k.cancelled /\ r = Head(k.todo)
  BY DEF SyncInv, GenerateNext
<1>2. PICK t \in TokenManager : t = k.tms[r.service]
  <2>1. r \in Listed
    BY <1>1, HeadTailProperties DEF Command
  <2>2. r.service \in ToSet(Services)
    BY <2>1 DEF Listed, Entry
  <2> QED
    BY <1>1, <2>2 DEF Command
<1>3. PICK reply, good, m :
        /\ reply \in Replies(c, r) /\ m = GetRepositoryMetadata(r, t, reply)
        /\ faults + Cost(c, r, reply, good) <= MaxFaults
        /\ faults' = faults + Cost(c, r, reply, good)
        /\ cmd' = [cmd EXCEPT ![c].todo = Tail(@), ![c].tms[r.service] = m.tm,
             ![c].log = Append(@, [id |-> r.id, key |-> r.key, outcome |-> Outcome(m, good)])]
  <2> DEFINE h == Head(cmd[c].todo)
             meta(as) == GetRepositoryMetadata(h, cmd[c].tms[h.service], as)
  <2>1. PICK reply \in Replies(c, h), good \in BOOLEAN :
          /\ faults + Cost(c, h, reply, good) <= MaxFaults
          /\ faults' = faults + Cost(c, h, reply, good)
          /\ cmd' = [cmd EXCEPT ![c].todo = Tail(@), ![c].tms[h.service] = meta(reply).tm,
               ![c].log = Append(@, [id |-> h.id, key |-> h.key, outcome |-> Outcome(meta(reply), good)])]
    BY Zenon DEF GenerateNext
  <2>2. h = r /\ cmd[c].tms[h.service] = t
    BY <1>1, <1>2
  <2> HIDE DEF h
  <2> QED
    BY <2>1, <2>2
<1>4. PICK n \in Nat : n = Cost(c, r, reply, good)
  BY <1>3, RepliesAre
<1>5. faults' \in 0..MaxFaults
  BY <1>3, <1>4, SyncAssumption DEF SyncInv
<1>6. PICK tm \in TokenManager : tm = m.tm
  <2>1. Len(reply) \in Nat \ {0}
    BY <1>3, RepliesAre
  <2> QED
    BY <1>3, <2>1, RepositoryMetadataType
<1>7. PICK outcome \in {"ok", "skipped", "error"} : outcome = Outcome(m, good)
  BY DEF Outcome
<1>8. PICK l : l = [k EXCEPT !.todo = Tail(@), !.tms[r.service] = tm,
                     !.log = Append(@, [id |-> r.id, key |-> r.key, outcome |-> outcome])]
  OBVIOUS
<1>9. l \in Command /\ Kept(l)
  BY <1>1, <1>8, WorkKeeps
<1>10. cmd' = [cmd EXCEPT ![c] = l]
  BY <1>1, <1>3, <1>6, <1>7, <1>8
<1> QED
  BY <1>5, <1>9, <1>10 DEF Advances

\* A busy database is one of the faults counted.
LEMMA BusyCounts == faults \in 0..MaxFaults /\ Busy => faults' \in 0..MaxFaults
BY SyncAssumption DEF Busy

\* Every step.
LEMMA StepAdvances ==
    ASSUME SyncInv, NEW c \in Commands, Step(c) \/ Cool(c) \/ Cancel(c) \/ Crash(c)
    PROVE  /\ Advances(c)
           /\ file' \in Commands \cup {NoOne} /\ rows' \subseteq Commands
           /\ spent' \subseteq Known \X (Tokens \cup {"none"})
           /\ faults' \in 0..MaxFaults /\ stops' \in 0..MaxStops
<1>1. PICK k \in Command : k = cmd[c] /\ Kept(k)
  BY DEF SyncInv
<1>2. /\ MaxFaults \in Nat /\ MaxStops \in Nat /\ faults \in 0..MaxFaults /\ stops \in 0..MaxStops
      /\ file \in Commands \cup {NoOne} /\ rows \subseteq Commands
      /\ spent \subseteq Known \X (Tokens \cup {"none"})
  BY SyncAssumption DEF SyncInv
<1>3. CASE BootFails(c)
  <2>1. [k EXCEPT !.pc = "refused"] \in Command /\ Kept([k EXCEPT !.pc = "refused"])
    BY <1>1, <1>3, PlaceKeeps DEF BootFails
  <2>2. Advances(c)
    BY <1>1, <1>3, <2>1 DEF BootFails, Advances
  <2> QED
    BY <1>2, <1>3, <2>2 DEF BootFails
<1>4. CASE WriteFile(c)
  <2>1. [k EXCEPT !.pc = "row"] \in Command /\ Kept([k EXCEPT !.pc = "row"])
    BY <1>1, <1>4, PlaceKeeps DEF WriteFile
  <2>2. Advances(c)
    BY <1>1, <1>4, <2>1 DEF WriteFile, Advances
  <2> QED
    BY <1>2, <1>4, <2>2 DEF WriteFile
<1>5. CASE AcquireRow(c)
  <2>1. [k EXCEPT !.pc = "list"] \in Command /\ Kept([k EXCEPT !.pc = "list"])
    BY <1>1, <1>5, PlaceKeeps DEF AcquireRow
  <2>2. Advances(c)
    BY <1>1, <1>5, <2>1 DEF AcquireRow, Advances
  <2> QED
    BY <1>2, <1>5, <2>2 DEF AcquireRow
<1>6. CASE AcquireRefused(c)
  <2>0. faults' \in 0..MaxFaults
    BY <1>2, <1>6, BusyCounts DEF AcquireRefused
  <2>1. [k EXCEPT !.pc = "refused"] \in Command /\ Kept([k EXCEPT !.pc = "refused"])
    BY <1>1, <1>6, PlaceKeeps DEF AcquireRefused
  <2>2. Advances(c)
    BY <1>1, <1>6, <2>1 DEF AcquireRefused, Advances
  <2> QED
    BY <1>2, <1>6, <2>0, <2>2 DEF AcquireRefused
<1>7. CASE ListNext(c)
  BY <1>2, <1>7, ListAdvances DEF ListNext
<1>8. CASE Discover(c)
  <2>1. cmd[c].pc = "list" /\ cmd[c].next > Len(Targets)
    BY <1>8 DEF Discover
  <2>2. PICK readable, l : /\ readable \in BOOLEAN /\ l = Discovered(c, readable)
                           /\ cmd' = [cmd EXCEPT ![c] = l]
    BY <1>8 DEF Discover
  <2>3. l \in Command /\ Kept(l)
    BY <1>1, <2>1, <2>2, DiscoverKeeps
  <2>4. Advances(c)
    BY <2>2, <2>3 DEF Advances
  <2>5. faults' = faults \/ (faults < MaxFaults /\ faults' = faults + 1)
    BY <1>8 DEF Discover
  <2>6. faults' \in 0..MaxFaults
    BY <1>2, <2>5
  <2> QED
    BY <1>2, <1>8, <2>4, <2>6 DEF Discover
<1>9. CASE GenerateNext(c)
  BY <1>2, <1>9, GenerateAdvances DEF GenerateNext
<1>10. CASE GenerateEnds(c)
  <2>1. PICK l : l = [k EXCEPT !.pc = "unlink", !.todo = <<>>]
    OBVIOUS
  <2>2. l \in Command /\ Kept(l)
    BY <1>1, <1>10, <2>1, EndsKeeps DEF GenerateEnds
  <2>3. Advances(c)
    BY <1>1, <1>10, <2>1, <2>2 DEF GenerateEnds, Advances
  <2> QED
    BY <1>2, <1>10, <2>3 DEF GenerateEnds
<1>11. CASE UnlinkFile(c)
  <2>1. [k EXCEPT !.pc = "delete"] \in Command /\ Kept([k EXCEPT !.pc = "delete"])
    BY <1>1, <1>11, PlaceKeeps DEF UnlinkFile
  <2>2. Advances(c)
    BY <1>1, <1>11, <2>1 DEF UnlinkFile, Advances
  <2> QED
    BY <1>2, <1>11, <2>2 DEF UnlinkFile
<1>12. CASE DeleteRows(c)
  <2>1. \A pc \in {"done", "left"} :
          [Idle EXCEPT !.pc = pc] \in Command /\ Kept([Idle EXCEPT !.pc = pc])
    BY IdleIs
  <2>2. PICK pc \in {"done", "left"} : cmd' = [cmd EXCEPT ![c] = [Idle EXCEPT !.pc = pc]]
    BY <1>12 DEF DeleteRows
  <2>3. Advances(c)
    BY <2>1, <2>2 DEF Advances
  <2>4. faults' \in 0..MaxFaults /\ rows' \subseteq Commands
    BY <1>2, <1>12, BusyCounts DEF DeleteRows
  <2> QED
    BY <1>2, <1>12, <2>3, <2>4 DEF DeleteRows
<1>13. CASE Cool(c)
  <2>1. PICK s, l : /\ s \in ToSet(Services) /\ l = [k EXCEPT !.tms[s] = HalfOpen(@)]
                    /\ cmd' = [cmd EXCEPT ![c] = l]
    BY <1>1, <1>13 DEF Cool
  <2>2. l \in Command /\ Kept(l)
    BY <1>1, <2>1, CoolKeeps
  <2>3. Advances(c)
    BY <2>1, <2>2 DEF Advances
  <2> QED
    BY <1>2, <1>13, <2>3 DEF Cool
<1>14. CASE Cancel(c)
  <2>1. [k EXCEPT !.cancelled = TRUE] \in Command /\ Kept([k EXCEPT !.cancelled = TRUE])
    BY <1>1, CancelKeeps
  <2>2. Advances(c)
    BY <1>1, <1>14, <2>1 DEF Cancel, Advances
  <2> QED
    BY <1>2, <1>14, <2>2 DEF Cancel
<1>15. CASE Crash(c)
  <2>1. [Idle EXCEPT !.pc = "dead"] \in Command /\ Kept([Idle EXCEPT !.pc = "dead"])
    BY IdleIs
  <2>2. Advances(c)
    BY <1>15, <2>1 DEF Crash, Advances
  <2> QED
    BY <1>2, <1>15, <2>2 DEF Crash
<1> QED
  BY <1>3, <1>4, <1>5, <1>6, <1>7, <1>8, <1>9, <1>10, <1>11, <1>12, <1>13, <1>14, <1>15 DEF Step

\* What has been heard and settled holds from the start and is kept by every step,
\* for any services, organisations, repositories, patterns and commands.
THEOREM SyncInvariant == Spec => []SyncInv
<1>1. Init => SyncInv
  <2> SUFFICES ASSUME Init PROVE SyncInv
    OBVIOUS
  <2>1. PICK k \in Command : k = Idle /\ Kept(k)
    BY IdleIs
  <2>2. cmd = [c \in Commands |-> k]
    BY <2>1 DEF Init
  <2>3. cmd \in [Commands -> Command] /\ \A c \in Commands : Kept(cmd[c])
    BY <2>1, <2>2
  <2> QED
    BY <2>3, SyncAssumption DEF Init, SyncInv
<1>2. SyncInv /\ [Next]_vars => SyncInv'
  <2> SUFFICES ASSUME SyncInv, [Next]_vars PROVE SyncInv'
    OBVIOUS
  <2>1. ASSUME NEW c \in Commands, Step(c) \/ Cool(c) \/ Cancel(c) \/ Crash(c)
        PROVE  SyncInv'
    <3>1. PICK l \in Command : cmd' = [cmd EXCEPT ![c] = l] /\ Kept(l)
      BY <2>1, StepAdvances DEF Advances
    <3>2. cmd' \in [Commands -> Command]
      BY <3>1 DEF SyncInv
    <3>3. \A d \in Commands : Kept(cmd'[d])
      <4>1. \A d \in Commands : cmd'[d] = IF d = c THEN l ELSE cmd[d]
        BY <3>1 DEF SyncInv
      <4>2. \A d \in Commands : Kept(cmd[d])
        BY DEF SyncInv
      <4> QED
        BY <3>1, <4>1, <4>2
    <3> QED
      BY <2>1, <3>2, <3>3, StepAdvances DEF SyncInv
  <2>2. CASE UNCHANGED vars
    BY <2>2 DEF vars, SyncInv
  <2> QED
    BY <2>1, <2>2 DEF Next, Quiet
<1> QED
  BY <1>1, <1>2, PTL DEF Spec

\* The state of the commands has its type, whatever the services answer: a breaker
\* counts no further than its threshold, and discovery does not leave its targets.
THEOREM SyncTypes == Spec => []TypeOK
<1>1. SyncInv => TypeOK
  <2> SUFFICES ASSUME SyncInv PROVE TypeOK
    OBVIOUS
  <2>1. ASSUME NEW c \in Commands
        PROVE  /\ cmd[c].pc \in Holding \cup Ended \cup {"idle", "row"}
               /\ cmd[c].cancelled \in BOOLEAN /\ cmd[c].next \in 1..(Len(Targets) + 1)
               /\ cmd[c].errs \subseteq ToSet(Services) \cup {".repoignore"}
               /\ cmd[c].tms \in [ToSet(Services) -> TokenManager]
               /\ \A r \in ToSet(cmd[c].got) \cup ToSet(cmd[c].todo) :
                    r.id \in Ids /\ r.service \in ToSet(Services)
               /\ \A e \in ToSet(cmd[c].log) :
                    e.id \in Ids /\ e.outcome \in {"ok", "skipped", "error"}
    <3>1. PICK k \in Command : k = cmd[c]
      BY DEF SyncInv
    <3>2. /\ k.pc \in Holding \cup Ended \cup {"idle", "row"}
          /\ k.cancelled \in BOOLEAN /\ k.next \in 1..(Len(Targets) + 1)
          /\ k.errs \subseteq ToSet(Services) \cup {".repoignore"}
          /\ k.tms \in [ToSet(Services) -> TokenManager]
          /\ k.got \in Seq(Listed) /\ k.todo \in Seq(Listed) /\ k.log \in Seq(LogEntry)
      BY DEF Command, Reportable
    <3>3. /\ ToSet(k.got) \subseteq Listed /\ ToSet(k.todo) \subseteq Listed
          /\ ToSet(k.log) \subseteq LogEntry
      BY <3>2, Members
    <3>4. \A r \in Listed : r.id \in Ids /\ r.service \in ToSet(Services)
      BY DEF Listed, Entry
    <3>5. \A e \in LogEntry : e.id \in Ids /\ e.outcome \in {"ok", "skipped", "error"}
      BY DEF LogEntry
    <3> QED
      BY <3>1, <3>2, <3>3, <3>4, <3>5
  <2> QED
    BY <2>1 DEF SyncInv, TypeOK
<1> QED
  BY <1>1, SyncInvariant, PTL

\* No owner/name is worked on twice, no ignored repository unless the log says that
\* .repoignore could not be read, and every expected repository has an outcome,
\* unless its service is among the reported errors or another with its owner/name
\* was listed to the command before it: for any services, organisations, pages,
\* repositories and patterns.
THEOREM EveryRepositoryAccounted == Spec => []AllAccountedFor
<1>1. SyncInv => AllAccountedFor
  <2> SUFFICES ASSUME SyncInv, NEW c \in Commands, cmd[c].pc = "delete", ~cmd[c].cancelled
               PROVE
        /\ \A i, j \in 1..Len(cmd[c].log) : cmd[c].log[i].key = cmd[c].log[j].key => i = j
        /\ \A e \in ToSet(cmd[c].log) : e.id \in Ignored => ".repoignore" \in cmd[c].errs
        /\ \A i \in 1..Len(Upstream) :
             Expected(Upstream[i]) =>
                \/ Upstream[i].service \in cmd[c].errs
                \/ \E e \in ToSet(cmd[c].log) : e.id = Upstream[i].id
                \/ ListedBefore(cmd[c].got, Upstream[i])
    BY DEF AllAccountedFor
  <2>1. PICK k \in Command, log \in Seq(LogEntry) : k = cmd[c] /\ log = k.log
    BY DEF SyncInv, Command
  <2>2. Settles(log, <<>>, k.got, k.errs)
    BY <2>1 DEF SyncInv, Kept
  <2>3. \A e : e \in ToSet(log) <=> \E i \in 1..Len(log) : e = log[i]
    BY Members
  <2>4. \A id : Mentioned(id, log, <<>>) <=> \E e \in ToSet(log) : e.id = id
    <3>1. 1..Len(<<>>) = {}
      OBVIOUS
    <3> QED
      BY <2>3, <3>1 DEF Mentioned
  <2>5. UniqueKeys(log)
    BY <2>2 DEF Settles
  <2>6. \A e \in ToSet(log) : e.id \in Ignored => ".repoignore" \in k.errs
    BY <2>2, <2>4 DEF Settles
  <2>7. \A i \in 1..Len(Upstream) : Expected(Upstream[i]) =>
          \/ Upstream[i].service \in k.errs
          \/ \E e \in ToSet(log) : e.id = Upstream[i].id
          \/ ListedBefore(k.got, Upstream[i])
    BY <2>2, <2>4 DEF Settles
  <2> QED
    BY <2>1, <2>5, <2>6, <2>7 DEF UniqueKeys
<1> QED
  BY <1>1, SyncInvariant, PTL

-----------------------------------------------------------------------------
\* With PROCESS_PRIVATE_REPOSITORIES off, no private repository of GitHub or GitLab
\* is scanned or written about.
CandidPrivateStaysOut ==
    ~ProcessPrivate =>
        \A c \in Commands : \A e \in ToSet(cmd[c].log) :
            \A i \in 1..Len(Upstream) :
                Upstream[i].id = e.id /\ Upstream[i].service \in Candid => ~Upstream[i].private

\* The filter on private repositories (orchestrator.go discoverRepositories) keeps
\* its word for the two services whose listings do: what SyncPrivate shows of
\* GitFlic is not the filter's doing.
THEOREM FilterKeepsCandidPrivateOut == Spec => []CandidPrivateStaysOut
<1>1. SyncInv => CandidPrivateStaysOut
  <2> SUFFICES ASSUME SyncInv, ~ProcessPrivate, NEW c \in Commands, NEW e \in ToSet(cmd[c].log),
                      NEW i \in 1..Len(Upstream), Upstream[i].id = e.id,
                      Upstream[i].service \in Candid
               PROVE  ~Upstream[i].private
    BY DEF CandidPrivateStaysOut
  <2>1. PICK log \in Seq(LogEntry) : log = cmd[c].log
    BY DEF SyncInv, Command
  <2>2. PICK n \in 1..Len(log) : e = log[n]
    <3>1. \A x : x \in ToSet(log) <=> \E n \in 1..Len(log) : x = log[n]
      BY Members
    <3> QED
      BY <2>1, <3>1
  <2>3. TellsPublic(e)
    BY <2>1, <2>2 DEF SyncInv, Kept, Discreet
  <2>4. PICK u \in ToSet(Upstream) : e.id = u.id /\ (u.service \in Candid => ~u.private)
    BY <2>3 DEF TellsPublic
  <2>5. PICK j \in 1..Len(Upstream) : u = Upstream[j]
    BY UpstreamIs
  <2> QED
    BY <2>4, <2>5, ProvidersAssumption
<1> QED
  BY <1>1, SyncInvariant, PTL
=============================================================================
