------------------------------ MODULE AuditLog ------------------------------
(***************************************************************************)
(* What the audit stores promise (internal/services/audit, Store): the     *)
(* most recent entries in the order they were written, and a listing that  *)
(* shows the end of them.  RingStore implements it (HttpServer).           *)
(***************************************************************************)
EXTENDS Naturals, Sequences

CONSTANTS
    Entries,    \* audit entries
    Capacity,   \* how many are kept
    PageSize    \* how many a listing shows at most

VARIABLES
    log,        \* the entries kept, oldest first
    page        \* what was last shown

Latest(n, s) == IF Len(s) <= n THEN s ELSE SubSeq(s, Len(s) - n + 1, Len(s))

Init == log = <<>> /\ page = <<>>

Record(e) == log' = Latest(Capacity, Append(log, e)) /\ UNCHANGED page

Show == page' = Latest(PageSize, log) /\ UNCHANGED log

Next == Show \/ \E e \in Entries : Record(e)

Spec == Init /\ [][Next]_<<log, page>>
=============================================================================
