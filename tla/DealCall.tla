------------------------------- MODULE DealCall -------------------------------
(***************************************************************************)
(* What IGClient.place_order promises its caller: IG executes the order at *)
(* most once, an order that is answered was executed, an order that is     *)
(* denied or refused was not, and only an unknown one may be either.       *)
(***************************************************************************)
EXTENDS Naturals

CONSTANT Tasks

VARIABLES
    result,    \* what each task's latest order came to
    executed   \* how often IG has executed it

Init == result = [t \in Tasks |-> "none"] /\ executed = [t \in Tasks |-> 0]

Place(t) ==
    /\ result[t] # "pending"
    /\ result' = [result EXCEPT ![t] = "pending"]
    /\ executed' = [executed EXCEPT ![t] = 0]

Execute(t) ==
    /\ result[t] = "pending" /\ executed[t] = 0
    /\ executed' = [executed EXCEPT ![t] = 1]
    /\ UNCHANGED result

Resolve(t) ==
    /\ result[t] = "pending"
    /\ \/ executed[t] = 1 /\ result' = [result EXCEPT ![t] = "ok"]
       \/ /\ executed[t] = 0
          /\ \E r \in {"denied", "refused"} : result' = [result EXCEPT ![t] = r]
       \/ result' = [result EXCEPT ![t] = "unknown"]
    /\ UNCHANGED executed

\* The process ends, or cancels its tasks, with orders under way.
Interrupt ==
    /\ result' = [t \in Tasks |-> IF result[t] = "pending" THEN "unknown"
                                                           ELSE result[t]]
    /\ UNCHANGED executed

Next == \/ \E t \in Tasks : Place(t) \/ Execute(t) \/ Resolve(t)
        \/ Interrupt

Spec == Init /\ [][Next]_<<result, executed>>
=============================================================================
