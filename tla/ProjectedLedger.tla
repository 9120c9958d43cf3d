--------------------------- MODULE ProjectedLedger ---------------------------
(***************************************************************************)
(* What the execution ledger promises its readers: a list of events that   *)
(* only grows, and projection tables that change in one step from one      *)
(* replay of that list to a newer one.  No locks, no half-built tables, no *)
(* reads before writes.  ExecutionLedger implements it.                    *)
(***************************************************************************)
EXTENDS LedgerReplay

CONSTANT Events

VARIABLES events, tables, upTo

Init ==
  /\ events = <<>>
  /\ tables = EmptyTables
  /\ upTo = 0

Record(e) ==
  /\ events' = Append(events, e)
  /\ UNCHANGED <<tables, upTo>>

Project ==
  /\ tables' = Replay(events)
  /\ upTo' = Len(events)
  /\ UNCHANGED events

Next == (\E e \in Events : Record(e)) \/ Project

Spec == Init /\ [][Next]_<<events, tables, upTo>>
=============================================================================
