--------------------------- MODULE TicketDispatch ---------------------------
(***************************************************************************)
(* What the Proxy's queue promises about one instance: requests take       *)
(* tickets as they arrive, and the instance computes the prefill of one    *)
(* request at a time, in ticket order.  Only the requests in Overtaking    *)
(* may start while an earlier ticket is still waiting; a request that is   *)
(* dropped gives its turn away.                                            *)
(***************************************************************************)
EXTENDS Naturals

CONSTANTS Request, Overtaking, Droppable

VARIABLES
  ticket,      \* the ticket of a request, 0 before it arrives
  nextTicket,
  stage        \* how far a request is

tdVars == <<ticket, nextTicket, stage>>

TDInit ==
  /\ ticket = [r \in Request |-> 0]
  /\ nextTicket = 1
  /\ stage = [r \in Request |-> "none"]

Arrive(r) ==
  /\ stage[r] = "none"
  /\ ticket' = [ticket EXCEPT ![r] = nextTicket]
  /\ nextTicket' = nextTicket + 1
  /\ stage' = [stage EXCEPT ![r] = "waiting"]

(* The earlier tickets are over, or the request may overtake those that    *)
(* are still waiting.                                                      *)
StartPrefill(r) ==
  /\ stage[r] = "waiting"
  /\ \A q \in Request : stage[q] # "prefill"
  /\ r \in Overtaking \/ \A q \in Request : 0 < ticket[q] /\ ticket[q] < ticket[r] => stage[q] = "over"
  /\ stage' = [stage EXCEPT ![r] = "prefill"]
  /\ UNCHANGED <<ticket, nextTicket>>

EndPrefill(r) ==
  /\ stage[r] = "prefill"
  /\ stage' = [stage EXCEPT ![r] = "over"]
  /\ UNCHANGED <<ticket, nextTicket>>

Drop(S) ==
  /\ \A r \in S : stage[r] = "waiting"
  /\ stage' = [r \in Request |-> IF r \in S THEN "over" ELSE stage[r]]
  /\ UNCHANGED <<ticket, nextTicket>>

TDNext ==
  \/ \E r \in Request : Arrive(r) \/ StartPrefill(r) \/ EndPrefill(r)
  \/ \E S \in SUBSET Droppable : Drop(S)

TDSpec == TDInit /\ [][TDNext]_tdVars
=============================================================================
