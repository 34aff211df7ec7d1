--------------------------- MODULE EventDelivery ---------------------------
(***************************************************************************)
(* What the outbox promises the module that writes an event to it: an      *)
(* accepted event is handled by every registered handler at least once     *)
(* before it is done, or it ends up in the dead-letter list, from which    *)
(* only an operator's redrive brings it back.  No dispatchers, leases,     *)
(* clocks or retries here: Outbox implements this specification.           *)
(***************************************************************************)
EXTENDS Naturals

CONSTANTS Messages, Handlers

VARIABLES
  status,   \* per message: "none", "pending", "done" or "dead"
  handled   \* per message: the handlers that have run for it

vars == <<status, handled>>

TypeOK ==
  /\ status \in [Messages -> {"none", "pending", "done", "dead"}]
  /\ handled \in [Messages -> SUBSET Handlers]

Init ==
  /\ status = [m \in Messages |-> "none"]
  /\ handled = [m \in Messages |-> {}]

Accept(m) ==
  /\ status[m] = "none"
  /\ status' = [status EXCEPT ![m] = "pending"]
  /\ UNCHANGED handled

Handle(m, h) ==
  /\ status[m] = "pending"
  /\ handled' = [handled EXCEPT ![m] = @ \cup {h}]
  /\ UNCHANGED status

Complete(m) ==
  /\ status[m] = "pending"
  /\ handled[m] = Handlers
  /\ status' = [status EXCEPT ![m] = "done"]
  /\ UNCHANGED handled

GiveUp(m) ==
  /\ status[m] = "pending"
  /\ status' = [status EXCEPT ![m] = "dead"]
  /\ UNCHANGED handled

Redrive(S) ==
  /\ \A m \in S : status[m] = "dead"
  /\ status' = [m \in Messages |-> IF m \in S THEN "pending" ELSE status[m]]
  /\ UNCHANGED handled

Next ==
  \/ \E m \in Messages : Accept(m) \/ Complete(m) \/ GiveUp(m)
  \/ \E m \in Messages, h \in Handlers : Handle(m, h)
  \/ \E S \in SUBSET Messages : Redrive(S)

Spec == Init /\ [][Next]_vars
=============================================================================
