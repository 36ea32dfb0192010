------------------------------- MODULE Ledger -------------------------------
(***************************************************************************)
(* What the pipeline promises, with no queue, workers or failures in it:   *)
(* events are accepted in some order; each accepted event may be recorded, *)
(* once per event id and for good, or set aside.  The consumer      *)
(* (app/consumer.py:7) calls it "exactly-once storage built out of         *)
(* at-least-once delivery", README.md "effectively exactly-once".          *)
(***************************************************************************)
EXTENDS Integers, Sequences

CONSTANTS
  Payload, EventId, IdOf, NoRow,
  Processable  \* the events that can be recorded at all

VARIABLES
  accepted,  \* the events taken from producers, in order
  table,     \* the event recorded under an id, or NoRow
  aside      \* the accepted events set aside, by their place in accepted

ledgerVars == <<accepted, table, aside>>

LedgerInit ==
  /\ accepted = <<>>
  /\ table = [e \in EventId |-> NoRow]
  /\ aside = {}

Accept(p) ==
  /\ accepted' = Append(accepted, p)
  /\ UNCHANGED <<table, aside>>

\* Only an id that has no record yet gets one.
Record(m) ==
  /\ accepted[m] \in Processable /\ table[IdOf[accepted[m]]] = NoRow
  /\ table' = [table EXCEPT ![IdOf[accepted[m]]] = accepted[m]]
  /\ UNCHANGED <<accepted, aside>>

SetAside(m) ==
  /\ aside' = aside \cup {m}
  /\ UNCHANGED <<accepted, table>>

LedgerNext ==
  \/ \E p \in Payload : Accept(p)
  \/ \E m \in 1..Len(accepted) : Record(m) \/ SetAside(m)

LedgerSpec == LedgerInit /\ [][LedgerNext]_ledgerVars
=============================================================================
