----------------------------- MODULE OneAnswer -----------------------------
(***************************************************************************)
(* What request_feedback promises (_automa.py:418-452): a request that is  *)
(* open ends once and for all, with something the application has offered  *)
(* for THIS request, with a timeout if it has a limit, or in error.        *)
(***************************************************************************)
CONSTANTS Requests, Values, Limited

VARIABLES outcome, offered

Init == outcome = [r \in Requests |-> "open"] /\ offered = [r \in Requests |-> {}]

Ends(r, how) == outcome[r] = "open" /\ outcome' = [outcome EXCEPT ![r] = how]

Step(r) ==
  \E more \in SUBSET Values :
    /\ offered' = [offered EXCEPT ![r] = @ \union more]
    /\ \/ UNCHANGED outcome
       \/ \E v \in offered'[r] : Ends(r, v)
       \/ r \in Limited /\ Ends(r, "expired")
       \/ Ends(r, "raised")

Spec == Init /\ [][\E r \in Requests : Step(r)]_<<outcome, offered>>
=============================================================================
