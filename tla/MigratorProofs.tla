--------------------------- MODULE MigratorProofs ---------------------------
(***************************************************************************)
(* Theorems about the schema migrations: types, and that the bookkeeping   *)
(* agrees with the schema, for any set of migration files, any number of   *)
(* commands at once, any number of stops and of rollbacks.                 *)
(***************************************************************************)
EXTENDS SchemaMigrator, TLAPS

ProcRecord == [pc : PCs, at : 0..(N + 1), done : SUBSET Versions, target : 0..N]
RowRecord == [dir : {"none", "up", "down"}, sum : BOOLEAN]
States == {"absent", "partial", "present"}

Upping == {"upDelete", "upInsert"}
Downing == {"downDelete", "downInsert"}
Rolling == {"backup", "downSnapshot", "down"} \cup Downing

\* Where commands exclude each other only one is at work, and only there is there
\* one that rolls back.
Alone ==
    /\ exclusive => \A p, q \in Procs : p # q => At(p, "idle") \/ At(q, "idle")
    /\ \A p \in Procs : procs[p].pc \in Rolling => exclusive

\* Between a migration's SQL and its row the schema stays as the SQL left it.
Written ==
    \A p \in Procs :
        /\ procs[p].pc \in Upping \cup Downing \cup {"seedInsert"} => procs[p].at \in Versions
        /\ procs[p].pc \in Upping => schema[procs[p].at] = "present"
        /\ procs[p].pc \in Downing =>
             schema[procs[p].at] = "absent" \/ Discover[procs[p].at].down.sql = "none"

MigratorInv == TypeOK /\ Alone /\ Written /\ BookkeepingAgrees

\* The constants, as the proofs use them.
LEMMA Sizes == N \in Nat \ {0} /\ Versions = 1..N /\ MaxStops \in Nat /\ MaxDowns \in Nat
BY SchemaAssumption

\* TypeOK, part by part.
LEMMA Types ==
    ASSUME TypeOK
    PROVE  /\ procs \in [Procs -> ProcRecord] /\ rows \in [Versions -> RowRecord]
           /\ schema \in [Versions -> States] /\ edited \subseteq Versions
           /\ seeded \subseteq Versions /\ gap \subseteq Versions
           /\ \A p \in Procs : /\ procs[p].pc \in PCs /\ procs[p].at \in 0..(N + 1)
                               /\ procs[p].done \subseteq Versions /\ procs[p].target \in 0..N
BY DEF TypeOK, ProcRecord, RowRecord, States

-----------------------------------------------------------------------------
(* How one command's record changes. *)
Moved(p) ==
    /\ procs' \in [Procs -> ProcRecord]
    /\ \A q \in Procs \ {p} : procs'[q] = procs[q]

\* Going on at another statement changes nothing else of any command.
LEMMA GotoMoves ==
    ASSUME TypeOK, NEW p \in Procs, NEW pc \in PCs, Goto(p, pc)
    PROVE  Moved(p) /\ procs'[p].pc = pc /\ procs'[p].at = procs[p].at
<1>1. procs[p] \in ProcRecord /\ procs \in [Procs -> ProcRecord]
  BY Types
<1>2. [procs[p] EXCEPT !.pc = pc] \in ProcRecord
  BY <1>1 DEF ProcRecord
<1>3. procs' = [procs EXCEPT ![p] = [procs[p] EXCEPT !.pc = pc]]
  BY DEF Goto
<1>4. [procs[p] EXCEPT !.pc = pc].pc = pc /\ [procs[p] EXCEPT !.pc = pc].at = procs[p].at
  BY <1>1 DEF ProcRecord
<1> QED
  BY <1>1, <1>2, <1>3, <1>4 DEF Moved

\* Going on at another version changes nothing else of any command.
LEMMA MoveToMoves ==
    ASSUME TypeOK, NEW p \in Procs, NEW pc \in PCs, NEW at \in 0..(N + 1), MoveTo(p, pc, at)
    PROVE  Moved(p) /\ procs'[p].pc = pc /\ procs'[p].at = at
<1>1. procs[p] \in ProcRecord /\ procs \in [Procs -> ProcRecord]
  BY Types
<1> DEFINE r == [procs[p] EXCEPT !.pc = pc, !.at = at]
<1>2. r \in ProcRecord /\ r.pc = pc /\ r.at = at
  BY <1>1 DEF ProcRecord
<1>3. procs' = [procs EXCEPT ![p] = r]
  BY DEF MoveTo
<1> HIDE DEF r
<1> QED
  BY <1>1, <1>2, <1>3 DEF Moved

\* A command that ends changes no other command.
LEMMA IdleMoves ==
    ASSUME TypeOK, NEW p \in Procs, procs' = [procs EXCEPT ![p] = Idle]
    PROVE  Moved(p) /\ procs'[p].pc = "idle"
<1>1. procs \in [Procs -> ProcRecord]
  BY Types
<1>2. Idle \in ProcRecord /\ Idle.pc = "idle"
  BY Sizes DEF Idle, ProcRecord, PCs
<1> QED
  BY <1>1, <1>2 DEF Moved

\* Reading the applied versions changes no other command.
LEMMA ScanMoves ==
    ASSUME TypeOK, NEW p \in Procs, NEW pc \in PCs, NEW at \in 0..(N + 1),
           procs' = [procs EXCEPT ![p].pc = pc, ![p].at = at, ![p].done = Applied]
    PROVE  Moved(p) /\ procs'[p].pc = pc
<1>1. procs[p] \in ProcRecord /\ procs \in [Procs -> ProcRecord]
  BY Types
<1> DEFINE r == [procs[p] EXCEPT !.pc = pc, !.at = at, !.done = Applied]
<1>2. Applied \in SUBSET Versions
  BY DEF Applied
<1>3. r \in ProcRecord /\ r.pc = pc
  BY <1>1, <1>2 DEF ProcRecord
<1> HIDE DEF r
<1>4. procs' = [procs EXCEPT ![p] = r]
  BY DEF r
<1> QED
  BY <1>1, <1>3, <1>4, ZenonT(60) DEF Moved

\* One command moves on; what the others wait to write stays true.
LEMMA ControlKeeps ==
    ASSUME MigratorInv, NEW p \in Procs, Moved(p), exclusive' = exclusive,
           exclusive => \/ procs[p].pc # "idle" \/ procs'[p].pc = "idle"
                        \/ \A q \in Procs : At(q, "idle"),
           procs'[p].pc \in Rolling => exclusive,
           procs'[p].pc \in Upping \cup Downing \cup {"seedInsert"} => procs'[p].at \in Versions,
           procs'[p].pc \in Upping => schema'[procs'[p].at] = "present",
           procs'[p].pc \in Downing =>
             schema'[procs'[p].at] = "absent" \/ Discover[procs'[p].at].down.sql = "none",
           \/ schema' = schema
           \/ /\ procs[p].pc # "idle"
              /\ exclusive \/ \A v \in Versions : schema[v] = "present" => schema'[v] = "present"
    PROVE  Alone' /\ Written'
<1>1. Alone'
  BY ZenonT(40) DEF MigratorInv, Alone, Moved, At
<1>2. ASSUME NEW q \in Procs
      PROVE  /\ procs'[q].pc \in Upping \cup Downing \cup {"seedInsert"} => procs'[q].at \in Versions
             /\ procs'[q].pc \in Upping => schema'[procs'[q].at] = "present"
             /\ procs'[q].pc \in Downing =>
                  schema'[procs'[q].at] = "absent" \/ Discover[procs'[q].at].down.sql = "none"
  <2>1. CASE q = p
    BY <2>1
  <2>2. CASE q # p
    <3>1. procs'[q] = procs[q]
      BY <2>2 DEF Moved
    <3>2. CASE schema' = schema
      BY <3>1, <3>2 DEF MigratorInv, Written
    <3>3. CASE procs[p].pc # "idle" /\ exclusive
      <4>1. procs[q].pc = "idle"
        BY <2>2, <3>3 DEF MigratorInv, Alone, At
      <4> QED
        BY <3>1, <4>1 DEF Upping, Downing
    <3>4. CASE ~exclusive /\ \A v \in Versions : schema[v] = "present" => schema'[v] = "present"
      <4>1. procs[q].pc \notin Downing
        BY <3>4 DEF MigratorInv, Alone, Rolling
      <4> QED
        BY <3>1, <3>4, <4>1 DEF MigratorInv, Written
    <3> QED
      BY <3>2, <3>3, <3>4
  <2> QED
    BY <2>1, <2>2
<1> QED
  BY <1>1, <1>2 DEF Written
-----------------------------------------------------------------------------
(* What the steps do *)
\* A step of one command that leaves the rows and the schema alone and is not
\* between a migration's SQL and its row.
LEMMA QuietMove ==
    ASSUME MigratorInv, NEW p \in Procs, Moved(p),
           UNCHANGED <<rows, schema, edited, exclusive, seeded, gap>>,
           table' \in {"missing", "old", "new"}, stops' \in 0..MaxStops, downs' \in 0..MaxDowns,
           exclusive => \/ procs[p].pc # "idle" \/ procs'[p].pc = "idle"
                        \/ \A q \in Procs : At(q, "idle"),
           procs'[p].pc \in Rolling => exclusive,
           procs'[p].pc \notin Upping \cup Downing \cup {"seedInsert"}
    PROVE  MigratorInv'
<1>1. Alone' /\ Written'
  BY ControlKeeps
<1>2. BookkeepingAgrees'
  BY DEF MigratorInv, BookkeepingAgrees
<1>3. TypeOK'
  BY DEF MigratorInv, TypeOK, Moved, ProcRecord
<1> QED
  BY <1>1, <1>2, <1>3 DEF MigratorInv

\* A step that writes a row or runs a migration's SQL.
LEMMA DataMove ==
    ASSUME MigratorInv, NEW p \in Procs, Moved(p), UNCHANGED <<edited, downs>>, exclusive' = exclusive,
           table' \in {"missing", "old", "new"}, stops' \in 0..MaxStops,
           rows' \in [Versions -> RowRecord], schema' \in [Versions -> States],
           seeded' \subseteq Versions, gap' \subseteq Versions,
           procs[p].pc # "idle", procs'[p].pc \in Rolling => exclusive,
           procs'[p].pc \in Upping \cup Downing \cup {"seedInsert"} => procs'[p].at \in Versions,
           procs'[p].pc \in Upping => schema'[procs'[p].at] = "present",
           procs'[p].pc \in Downing =>
             schema'[procs'[p].at] = "absent" \/ Discover[procs'[p].at].down.sql = "none",
           schema' = schema \/ exclusive
             \/ (\A v \in Versions : schema[v] = "present" => schema'[v] = "present"),
           \A v \in Versions : v \notin gap' \cup seeded' =>
              \/ rows'[v].dir = "none"
              \/ rows'[v].dir = "up" /\ schema'[v] = "present"
              \/ rows'[v].dir = "down" /\ (schema'[v] = "absent" \/ Discover[v].down.sql = "none")
              \/ v \notin gap \cup seeded /\ rows'[v] = rows[v] /\ schema'[v] = schema[v]
    PROVE  MigratorInv'
<1>1. Alone' /\ Written'
  BY ControlKeeps
<1>2. BookkeepingAgrees'
  BY DEF MigratorInv, BookkeepingAgrees
<1>3. TypeOK'
  BY DEF MigratorInv, TypeOK, Moved, ProcRecord, RowRecord, States
<1> QED
  BY <1>1, <1>2, <1>3 DEF MigratorInv

\* Deleting a row of schema_migrations leaves the others.
LEMMA RowDeleted ==
    ASSUME TypeOK, NEW v \in Versions, DeleteRow(v)
    PROVE  /\ rows' \in [Versions -> RowRecord] /\ rows'[v].dir = "none"
           /\ \A w \in Versions \ {v} : rows'[w] = rows[w]
BY Types DEF DeleteRow, RowRecord, Unrecorded

\* Inserting a row of schema_migrations leaves the others.
LEMMA RowInserted ==
    ASSUME TypeOK, NEW v \in Versions, NEW dir \in {"up", "down"}, InsertRow(v, dir)
    PROVE  /\ rows' \in [Versions -> RowRecord] /\ rows'[v].dir = dir
           /\ \A w \in Versions \ {v} : rows'[w] = rows[w]
<1>1. [dir |-> dir, sum |-> v \in edited] \in RowRecord
  BY DEF RowRecord
<1> QED
  BY <1>1, Types DEF InsertRow

\* Every step of a command keeps the invariant.
LEMMA MigratorStep ==
    ASSUME MigratorInv, NEW p \in Procs,
           \/ Migrate(p) \/ MigrateDown(p) \/ Finish(p) \/ ExecUpTorn(p) \/ Stop(p)
           \/ \E target \in 0..N, backup \in BOOLEAN : PlanDown(p, target, backup)
    PROVE  MigratorInv'
<1> DEFINE c == procs[p]
<1>a. TypeOK /\ table \in {"missing", "old", "new"} /\ stops \in 0..MaxStops /\ downs \in 0..MaxDowns
  BY DEF MigratorInv, TypeOK
<1>b. /\ c.pc \in PCs /\ c.at \in 0..(N + 1) /\ c.done \subseteq Versions /\ c.target \in 0..N
      /\ N \in Nat \ {0} /\ Versions = 1..N
      /\ rows \in [Versions -> RowRecord] /\ schema \in [Versions -> States]
      /\ seeded \subseteq Versions /\ gap \subseteq Versions
  BY <1>a, Types, Sizes
<1>c. /\ c.pc \in Upping \cup Downing \cup {"seedInsert"} => c.at \in Versions
      /\ c.pc \in Upping => schema[c.at] = "present"
      /\ c.pc \in Downing => schema[c.at] = "absent" \/ Discover[c.at].down.sql = "none"
      /\ c.pc \in Rolling => exclusive
  BY DEF MigratorInv, Written, Alone
<1>1. CASE Start(p)
  <2>1. Goto(p, "shape") /\ "shape" \in PCs
    BY <1>1 DEF Start, PCs
  <2>2. Moved(p) /\ procs'[p].pc = "shape"
    BY <1>a, <2>1, GotoMoves
  <2> QED
    BY <1>a, <1>c, <1>1, <2>2, QuietMove DEF Start, At, Upping, Downing, Rolling
<1>2. CASE Shape(p)
  <2>1. Goto(p, "drop") \/ Goto(p, "ensure")
    BY <1>2 DEF Shape
  <2>2. Moved(p) /\ procs'[p].pc \in {"drop", "ensure"}
    <3>1. "drop" \in PCs /\ "ensure" \in PCs
      BY DEF PCs
    <3> QED
      BY <1>a, <2>1, <3>1, GotoMoves
  <2> QED
    BY <1>a, <1>c, <1>2, <2>2, QuietMove DEF Shape, At, Upping, Downing, Rolling
<1>3. CASE DropOld(p)
  <2>1. Goto(p, "ensure") /\ "ensure" \in PCs /\ rows' = [v \in Versions |-> Unrecorded] /\ c.pc = "drop"
    BY <1>3 DEF DropOld, PCs, At
  <2>2. Moved(p) /\ procs'[p].pc = "ensure"
    BY <1>a, <2>1, GotoMoves
  <2>3. rows' \in [Versions -> RowRecord] /\ \A v \in Versions : rows'[v].dir = "none"
    BY <2>1 DEF Unrecorded, RowRecord
  <2> QED
    BY <1>a, <1>b, <1>3, <2>1, <2>2, <2>3, DataMove DEF DropOld, Upping, Downing, Rolling
<1>4. CASE EnsureTable(p)
  <2>1. Goto(p, "count") /\ "count" \in PCs
    BY <1>4 DEF EnsureTable, PCs
  <2>2. Moved(p) /\ procs'[p].pc = "count"
    BY <1>a, <2>1, GotoMoves
  <2> QED
    BY <1>a, <1>c, <1>4, <2>2, QuietMove DEF EnsureTable, At, Upping, Downing, Rolling
<1>5. CASE CountRows(p)
  <2>1. Goto(p, "snapshot") \/ Goto(p, "probe")
    BY <1>5 DEF CountRows
  <2>2. Moved(p) /\ procs'[p].pc \in {"snapshot", "probe"}
    <3>1. "snapshot" \in PCs /\ "probe" \in PCs
      BY DEF PCs
    <3> QED
      BY <1>a, <2>1, <3>1, GotoMoves
  <2> QED
    BY <1>a, <1>c, <1>5, <2>2, QuietMove DEF CountRows, At, Upping, Downing, Rolling
<1>6. CASE Probe(p)
  <2>1. Goto(p, "snapshot") \/ Goto(p, "seed")
    BY <1>6 DEF Probe
  <2>2. Moved(p) /\ procs'[p].pc \in {"snapshot", "seed"}
    <3>1. "snapshot" \in PCs /\ "seed" \in PCs
      BY DEF PCs
    <3> QED
      BY <1>a, <2>1, <3>1, GotoMoves
  <2> QED
    BY <1>a, <1>c, <1>6, <2>2, QuietMove DEF Probe, At, Upping, Downing, Rolling
<1>7. CASE SeedDelete(p)
  <2>1. c.pc = "seed" /\ c.at \in Versions
    BY <1>7 DEF SeedDelete, At
  <2>2. CASE HasUp(c.at)
    <3>1. Goto(p, "seedInsert") /\ "seedInsert" \in PCs /\ DeleteRow(c.at)
      BY <1>7, <2>2 DEF SeedDelete, PCs
    <3>2. Moved(p) /\ procs'[p].pc = "seedInsert" /\ procs'[p].at = c.at
      BY <1>a, <3>1, GotoMoves
    <3>3. /\ rows' \in [Versions -> RowRecord] /\ rows'[c.at].dir = "none"
          /\ \A w \in Versions \ {c.at} : rows'[w] = rows[w]
      BY <1>a, <2>1, <3>1, RowDeleted
    <3> HIDE DEF c
    <3> QED
      BY <1>a, <1>b, <1>7, <2>1, <3>2, <3>3, DataMove DEF SeedDelete, Upping, Downing, Rolling, c
  <2>3. CASE ~HasUp(c.at)
    <3>1. MoveTo(p, "seed", c.at + 1) /\ UNCHANGED rows
      BY <1>7, <2>3 DEF SeedDelete
    <3>2. "seed" \in PCs /\ c.at + 1 \in 0..(N + 1)
      BY <1>b, <2>1 DEF PCs
    <3>3. Moved(p) /\ procs'[p].pc = "seed"
      BY <1>a, <3>1, <3>2, MoveToMoves
    <3> QED
      BY <1>a, <1>7, <2>1, <3>1, <3>3, QuietMove DEF SeedDelete, Upping, Downing, Rolling
  <2> QED
    BY <2>2, <2>3
<1>8. CASE SeedInsert(p)
  <2>1. c.pc = "seedInsert" /\ c.at \in Versions /\ InsertRow(c.at, "up") /\ MoveTo(p, "seed", c.at + 1)
    BY <1>c, <1>8 DEF SeedInsert, At
  <2>2. "seed" \in PCs /\ c.at + 1 \in 0..(N + 1)
    BY <1>b, <2>1 DEF PCs
  <2>3. Moved(p) /\ procs'[p].pc = "seed"
    BY <1>a, <2>1, <2>2, MoveToMoves
  <2>4. /\ rows' \in [Versions -> RowRecord] /\ rows'[c.at].dir = "up"
        /\ \A w \in Versions \ {c.at} : rows'[w] = rows[w]
    BY <1>a, <2>1, RowInserted
  <2> QED
    BY <1>a, <1>b, <1>8, <2>1, <2>3, <2>4, DataMove DEF SeedInsert, Upping, Downing, Rolling
<1>9. CASE SeedEnds(p)
  <2>1. Goto(p, "snapshot") /\ "snapshot" \in PCs
    BY <1>9 DEF SeedEnds, PCs
  <2>2. Moved(p) /\ procs'[p].pc = "snapshot"
    BY <1>a, <2>1, GotoMoves
  <2> QED
    BY <1>a, <1>c, <1>9, <2>2, QuietMove DEF SeedEnds, At, Upping, Downing, Rolling
<1>10. CASE Snapshot(p)
  <2>1. Moved(p) /\ procs'[p].pc = "up"
    <3>1. "up" \in PCs /\ 1 \in 0..(N + 1)
      BY <1>b DEF PCs
    <3> QED
      BY <1>a, <1>10, <3>1, ScanMoves DEF Snapshot
  <2> QED
    BY <1>a, <1>10, <2>1, QuietMove DEF Snapshot, At, Upping, Downing, Rolling
<1>11. CASE SkipApplied(p)
  <2>1. c.at \in Versions /\ MoveTo(p, "up", c.at + 1)
    BY <1>11 DEF SkipApplied
  <2>2. "up" \in PCs /\ c.at + 1 \in 0..(N + 1)
    BY <1>b, <2>1 DEF PCs
  <2>3. Moved(p) /\ procs'[p].pc = "up"
    BY <1>a, <2>1, <2>2, MoveToMoves
  <2> QED
    BY <1>a, <1>11, <2>3, QuietMove DEF SkipApplied, At, Upping, Downing, Rolling
<1>12. CASE ChecksumMismatch(p)
  <2>1. Moved(p) /\ procs'[p].pc = "idle"
    BY <1>a, <1>12, IdleMoves DEF ChecksumMismatch
  <2> QED
    BY <1>a, <1>12, <2>1, QuietMove DEF ChecksumMismatch, Upping, Downing, Rolling
<1>13. CASE ExecUp(p)
  <2>1. c.pc = "up" /\ c.at \in Versions /\ Goto(p, "upDelete") /\ "upDelete" \in PCs
    BY <1>13 DEF ExecUp, At, Pending, PCs
  <2>2. Moved(p) /\ procs'[p].pc = "upDelete" /\ procs'[p].at = c.at
    BY <1>a, <2>1, GotoMoves
  <2>3. schema' = [schema EXCEPT ![c.at] = "present"] /\ gap' = gap \cup {c.at}
    BY <1>13 DEF ExecUp
  <2>4. /\ schema' \in [Versions -> States] /\ schema'[c.at] = "present"
        /\ \A v \in Versions \ {c.at} : schema'[v] = schema[v]
    BY <1>b, <2>1, <2>3 DEF States
  <2> HIDE DEF c
  <2> QED
    BY <1>a, <1>b, <1>13, <2>1, <2>2, <2>3, <2>4, DataMove DEF ExecUp, Upping, Downing, Rolling, c
<1>14. CASE UpDelete(p)
  <2>1. c.pc = "upDelete" /\ c.at \in Versions /\ Goto(p, "upInsert") /\ "upInsert" \in PCs /\ DeleteRow(c.at)
    BY <1>c, <1>14 DEF UpDelete, At, PCs, Upping
  <2>2. Moved(p) /\ procs'[p].pc = "upInsert" /\ procs'[p].at = c.at
    BY <1>a, <2>1, GotoMoves
  <2>3. /\ rows' \in [Versions -> RowRecord] /\ rows'[c.at].dir = "none"
        /\ \A w \in Versions \ {c.at} : rows'[w] = rows[w]
    BY <1>a, <2>1, RowDeleted
  <2>4. schema[c.at] = "present"
    BY <1>c, <2>1 DEF Upping
  <2> HIDE DEF c
  <2> QED
    BY <1>a, <1>b, <1>14, <2>1, <2>2, <2>3, <2>4, DataMove DEF UpDelete, Upping, Downing, Rolling, c
<1>15. CASE UpInsert(p)
  <2>1. c.pc = "upInsert" /\ c.at \in Versions /\ InsertRow(c.at, "up") /\ MoveTo(p, "up", c.at + 1)
    BY <1>c, <1>15 DEF UpInsert, At, Upping
  <2>2. "up" \in PCs /\ c.at + 1 \in 0..(N + 1)
    BY <1>b, <2>1 DEF PCs
  <2>3. Moved(p) /\ procs'[p].pc = "up"
    BY <1>a, <2>1, <2>2, MoveToMoves
  <2>4. /\ rows' \in [Versions -> RowRecord] /\ rows'[c.at].dir = "up"
        /\ \A w \in Versions \ {c.at} : rows'[w] = rows[w]
    BY <1>a, <2>1, RowInserted
  <2>5. schema[c.at] = "present"
    BY <1>c, <2>1 DEF Upping
  <2> HIDE DEF c
  <2> QED
    BY <1>a, <1>b, <1>15, <2>1, <2>3, <2>4, <2>5, DataMove DEF UpInsert, Upping, Downing, Rolling, c
<1>16. CASE UpEnds(p)
  <2>1. Goto(p, "ready") /\ "ready" \in PCs
    BY <1>16 DEF UpEnds, PCs
  <2>2. Moved(p) /\ procs'[p].pc = "ready"
    BY <1>a, <2>1, GotoMoves
  <2> QED
    BY <1>a, <1>c, <1>16, <2>2, QuietMove DEF UpEnds, At, Upping, Downing, Rolling
<1>17. CASE Refused(p)
  <2>1. Moved(p) /\ procs'[p].pc = "idle"
    BY <1>a, <1>17, IdleMoves DEF Refused
  <2> QED
    BY <1>a, <1>17, <2>1, QuietMove DEF Refused, Upping, Downing, Rolling
<1>18. CASE Backup(p)
  <2>1. Goto(p, "downSnapshot") /\ "downSnapshot" \in PCs
    BY <1>18 DEF Backup, PCs
  <2>2. Moved(p) /\ procs'[p].pc = "downSnapshot"
    BY <1>a, <2>1, GotoMoves
  <2> QED
    BY <1>a, <1>c, <1>18, <2>2, QuietMove DEF Backup, At, Upping, Downing, Rolling
<1>19. CASE DownSnapshot(p)
  <2>1. Moved(p) /\ procs'[p].pc = "down"
    <3>1. "down" \in PCs /\ N \in 0..(N + 1)
      BY <1>b DEF PCs
    <3> QED
      BY <1>a, <1>19, <3>1, ScanMoves DEF DownSnapshot
  <2> QED
    BY <1>a, <1>c, <1>19, <2>1, QuietMove DEF DownSnapshot, At, Upping, Downing, Rolling
<1>20. CASE ExecDown(p)
  <2>1. c.pc = "down" /\ c.at \in Versions /\ Goto(p, "downDelete") /\ "downDelete" \in PCs /\ exclusive
    BY <1>b, <1>c, <1>20 DEF ExecDown, At, PCs, Rolling
  <2>2. Moved(p) /\ procs'[p].pc = "downDelete" /\ procs'[p].at = c.at
    BY <1>a, <2>1, GotoMoves
  <2>3. /\ schema' = IF Discover[c.at].down.sql = "none" THEN schema ELSE [schema EXCEPT ![c.at] = "absent"]
        /\ gap' = gap \cup {c.at}
    BY <1>20 DEF ExecDown
  <2>4. /\ schema' \in [Versions -> States]
        /\ schema'[c.at] = "absent" \/ Discover[c.at].down.sql = "none"
        /\ \A v \in Versions \ {c.at} : schema'[v] = schema[v]
    BY <1>b, <2>1, <2>3 DEF States
  <2> HIDE DEF c
  <2> QED
    BY <1>a, <1>b, <1>20, <2>1, <2>2, <2>3, <2>4, DataMove DEF ExecDown, Upping, Downing, Rolling, c
<1>21. CASE DownDelete(p)
  <2>1. /\ c.pc = "downDelete" /\ c.at \in Versions /\ Goto(p, "downInsert") /\ "downInsert" \in PCs
        /\ DeleteRow(c.at) /\ exclusive
    BY <1>c, <1>21 DEF DownDelete, At, PCs, Downing, Rolling
  <2>2. Moved(p) /\ procs'[p].pc = "downInsert" /\ procs'[p].at = c.at
    BY <1>a, <2>1, GotoMoves
  <2>3. /\ rows' \in [Versions -> RowRecord] /\ rows'[c.at].dir = "none"
        /\ \A w \in Versions \ {c.at} : rows'[w] = rows[w]
    BY <1>a, <2>1, RowDeleted
  <2>4. schema[c.at] = "absent" \/ Discover[c.at].down.sql = "none"
    BY <1>c, <2>1 DEF Downing
  <2> HIDE DEF c
  <2> QED
    BY <1>a, <1>b, <1>21, <2>1, <2>2, <2>3, <2>4, DataMove DEF DownDelete, Upping, Downing, Rolling, c
<1>22. CASE DownInsert(p)
  <2>1. /\ c.pc = "downInsert" /\ c.at \in Versions /\ InsertRow(c.at, "down")
        /\ MoveTo(p, "down", c.at - 1) /\ exclusive
    BY <1>c, <1>22 DEF DownInsert, At, Downing, Rolling
  <2>2. "down" \in PCs /\ c.at - 1 \in 0..(N + 1)
    BY <1>b, <2>1 DEF PCs
  <2>3. Moved(p) /\ procs'[p].pc = "down"
    BY <1>a, <2>1, <2>2, MoveToMoves
  <2>4. /\ rows' \in [Versions -> RowRecord] /\ rows'[c.at].dir = "down"
        /\ \A w \in Versions \ {c.at} : rows'[w] = rows[w]
    BY <1>a, <2>1, RowInserted
  <2>5. schema[c.at] = "absent" \/ Discover[c.at].down.sql = "none"
    BY <1>c, <2>1 DEF Downing
  <2> HIDE DEF c
  <2> QED
    BY <1>a, <1>b, <1>22, <2>1, <2>3, <2>4, <2>5, DataMove DEF DownInsert, Upping, Downing, Rolling, c
<1>23. CASE DownEnds(p)
  <2>1. Moved(p) /\ procs'[p].pc = "idle"
    BY <1>a, <1>23, IdleMoves DEF DownEnds
  <2> QED
    BY <1>a, <1>23, <2>1, QuietMove DEF DownEnds, Upping, Downing, Rolling
<1>24. CASE Finish(p)
  <2>1. Moved(p) /\ procs'[p].pc = "idle"
    BY <1>a, <1>24, IdleMoves DEF Finish
  <2> QED
    BY <1>a, <1>24, <2>1, QuietMove DEF Finish, Upping, Downing, Rolling
<1>25. CASE ExecUpTorn(p)
  <2>1. c.pc = "up" /\ c.at \in Versions /\ schema[c.at] = "absent" /\ procs' = [procs EXCEPT ![p] = Idle]
    BY <1>25 DEF ExecUpTorn, At, Pending
  <2>2. Moved(p) /\ procs'[p].pc = "idle"
    BY <1>a, <2>1, IdleMoves
  <2>3. schema' = [schema EXCEPT ![c.at] = "partial"] /\ gap' = gap \cup {c.at} /\ stops' \in 0..MaxStops
    BY <1>a, Sizes, <1>25 DEF ExecUpTorn
  <2>4. /\ schema' \in [Versions -> States]
        /\ \A v \in Versions \ {c.at} : schema'[v] = schema[v]
    BY <1>b, <2>1, <2>3 DEF States
  <2> HIDE DEF c
  <2> QED
    BY <1>a, <1>b, <1>25, <2>1, <2>2, <2>3, <2>4, DataMove DEF ExecUpTorn, Upping, Downing, Rolling, c
<1>26. CASE Stop(p)
  <2>1. Moved(p) /\ procs'[p].pc = "idle"
    BY <1>a, <1>26, IdleMoves DEF Stop
  <2>2. stops' \in 0..MaxStops
    BY <1>a, <1>26, Sizes DEF Stop
  <2> QED
    BY <1>a, <1>26, <2>1, <2>2, QuietMove DEF Stop, Upping, Downing, Rolling
<1>27. CASE \E target \in 0..N, backup \in BOOLEAN : PlanDown(p, target, backup)
  <2>1. PICK target \in 0..N, backup \in BOOLEAN : PlanDown(p, target, backup)
    BY <1>27
  <2> DEFINE r == [c EXCEPT !.pc = IF backup THEN "backup" ELSE "downSnapshot", !.target = target]
  <2>2. procs' = [procs EXCEPT ![p] = r] /\ procs \in [Procs -> ProcRecord] /\ c \in ProcRecord
    BY <1>a, <2>1, Types DEF PlanDown
  <2>3. "backup" \in PCs /\ "downSnapshot" \in PCs
    BY DEF PCs
  <2>4. r \in ProcRecord /\ r.pc \in {"backup", "downSnapshot"}
    BY <2>2, <2>3 DEF ProcRecord
  <2> HIDE DEF r
  <2>5. Moved(p) /\ procs'[p].pc \in {"backup", "downSnapshot"}
    BY <2>2, <2>4 DEF Moved
  <2>6. downs' \in 0..MaxDowns
    BY <1>a, <2>1, Sizes DEF PlanDown
  <2> QED
    BY <1>a, <2>1, <2>5, <2>6, QuietMove DEF PlanDown, At, Upping, Downing, Rolling
<1> QED
  BY <1>1, <1>2, <1>3, <1>4, <1>5, <1>6, <1>7, <1>8, <1>9, <1>10, <1>11, <1>12, <1>13, <1>14, <1>15, <1>16, <1>17, <1>18, <1>19, <1>20, <1>21, <1>22, <1>23, <1>24, <1>25, <1>26, <1>27 DEF Migrate, MigrateDown

\* The inductive invariant: types, exclusion and what is written between a
\* migration's SQL and its row.
THEOREM MigratorInvariant == Spec => []MigratorInv
<1>1. Init => MigratorInv
  <2> SUFFICES ASSUME Init PROVE MigratorInv
    OBVIOUS
  <2>1. Idle \in ProcRecord /\ \A p \in Procs : procs[p] = Idle
    BY Sizes DEF Init, Idle, ProcRecord, PCs
  <2>2. Idle.pc = "idle" /\ \A v \in Versions : rows[v].dir = "none"
    BY DEF Init, Idle, Unrecorded
  <2>3. table \in {"missing", "old", "new"} /\ schema \in [Versions -> States]
    BY DEF Init, States
  <2>4. rows \in [Versions -> RowRecord] /\ procs \in [Procs -> ProcRecord]
    BY <2>1 DEF Init, Unrecorded, RowRecord
  <2>5. exclusive \in BOOLEAN
    BY Zenon DEF Init
  <2>6. TypeOK
    BY <2>3, <2>4, <2>5, Sizes DEF Init, TypeOK, ProcRecord, RowRecord, States
  <2>7. Alone /\ Written
    BY <2>1, <2>2 DEF Alone, Written, At, Upping, Downing, Rolling
  <2>8. BookkeepingAgrees
    BY <2>2 DEF BookkeepingAgrees
  <2> QED
    BY <2>6, <2>7, <2>8 DEF MigratorInv
<1>2. MigratorInv /\ [Next]_vars => MigratorInv'
  <2> SUFFICES ASSUME MigratorInv, [Next]_vars PROVE MigratorInv'
    OBVIOUS
  <2>1. ASSUME NEW v \in Versions, EditFile(v) PROVE MigratorInv'
    <3>1. /\ UNCHANGED <<table, rows, schema, procs, exclusive, seeded, gap, stops, downs>>
          /\ edited' \subseteq Versions
      BY <2>1 DEF EditFile
    <3> QED
      BY <3>1 DEF MigratorInv, TypeOK, Alone, Written, BookkeepingAgrees, At
  <2>2. ASSUME UNCHANGED vars PROVE MigratorInv'
    BY <2>2 DEF vars, MigratorInv, TypeOK, Alone, Written, BookkeepingAgrees, At
  <2> QED
    BY <2>1, <2>2, MigratorStep DEF Next
<1> QED
  BY <1>1, <1>2, PTL DEF Spec

\* Between any number of starters, each stopped anywhere, and with one command at a
\* time also through rollbacks, the bookkeeping and the schema only disagree about
\* a version whose row was about to be written when a command stopped, or one the
\* bootstrap vouched for (migrator.go migrateUpInternal, MigrateDownTo;
\* bootstrap.go), for every set of migration files.
THEOREM RowsTellTheSchema == Spec => []BookkeepingAgrees
<1>1. MigratorInv => BookkeepingAgrees
  BY DEF MigratorInv
<1> QED
  BY <1>1, MigratorInvariant, PTL

\* The types: a command's loop never leaves the discovered versions, whichever of
\* them have a file for which direction (migrator.go).
THEOREM LoopsStayInside == Spec => []TypeOK
<1>1. MigratorInv => TypeOK
  BY DEF MigratorInv
<1> QED
  BY <1>1, MigratorInvariant, PTL
=============================================================================
