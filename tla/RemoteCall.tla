----------------------------- MODULE RemoteCall -----------------------------
(***************************************************************************)
(* What a caller of SAGE X3 may assume of one HTTP call: X3 handles the    *)
(* request between zero and Limit times; a call that returns was handled   *)
(* at least once, a call that raises may have been handled all the same.   *)
(* PurchaseOrders is written against this (PostAnswered and PostFailed     *)
(* choose how many attempts X3 handled); SageX3Client implements it.       *)
(***************************************************************************)
EXTENDS Naturals

CONSTANTS Callers, Limit

VARIABLES phase, handled

callVars == <<phase, handled>>

CallInit ==
    /\ phase = [c \in Callers |-> "idle"]
    /\ handled = [c \in Callers |-> 0]

Begin(c) ==
    /\ phase[c] = "idle"
    /\ phase' = [phase EXCEPT ![c] = "calling"]
    /\ UNCHANGED handled

\* X3 handles the request, and the caller may learn it in the same exchange.
Handle(c) ==
    /\ phase[c] = "calling"
    /\ handled[c] < Limit
    /\ handled' = [handled EXCEPT ![c] = @ + 1]
    /\ \E p \in {"calling", "returned", "raised"} : phase' = [phase EXCEPT ![c] = p]

Raise(c) ==
    /\ phase[c] = "calling"
    /\ phase' = [phase EXCEPT ![c] = "raised"]
    /\ UNCHANGED handled

End(c) ==
    /\ phase[c] \in {"returned", "raised"}
    /\ phase' = [phase EXCEPT ![c] = "idle"]
    /\ handled' = [handled EXCEPT ![c] = 0]

CallNext == \E c \in Callers : Begin(c) \/ Handle(c) \/ Raise(c) \/ End(c)

CallSpec == CallInit /\ [][CallNext]_callVars
=============================================================================
