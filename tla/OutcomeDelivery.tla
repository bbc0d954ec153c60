--------------------------- MODULE OutcomeDelivery ---------------------------
(* What the completion outbox promises to the application library, without   *)
(* threads, crashes, retries or files: every attempt has at most one outcome,*)
(* numbered in the order the outcomes were recorded; a success is delivered  *)
(* only once the library stands at its number or at a later one; and the     *)
(* library never returns to an earlier number.                               *)
EXTENDS Naturals, FiniteSets

CONSTANTS Attempts, Outcomes

VARIABLES
    outcome,    \* attempt -> its outcome, "none" while it is open
    number,     \* attempt -> the number of its outcome, 0 while it is open
    delivered,  \* attempts whose outcome has been acknowledged
    projected   \* number of the success the library shows, 0 for none

avars == <<outcome, number, delivered, projected>>

Init ==
    /\ outcome = [a \in Attempts |-> "none"]
    /\ number = [a \in Attempts |-> 0]
    /\ delivered = {}
    /\ projected = 0

Record(a, o) ==
    /\ outcome[a] = "none"
    /\ outcome' = [outcome EXCEPT ![a] = o]
    /\ number' = [number EXCEPT ![a] = Cardinality({b \in Attempts : number[b] # 0}) + 1]
    /\ UNCHANGED <<delivered, projected>>

Project(a) ==
    /\ outcome[a] = "succeeded"
    /\ number[a] > projected
    /\ projected' = number[a]
    /\ UNCHANGED <<outcome, number, delivered>>

Deliver(a) ==
    /\ outcome[a] # "none" /\ a \notin delivered
    /\ outcome[a] = "succeeded" => projected >= number[a]
    /\ delivered' = delivered \cup {a}
    /\ UNCHANGED <<outcome, number, projected>>

Next == \E a \in Attempts : (\E o \in Outcomes : Record(a, o)) \/ Project(a) \/ Deliver(a)

Spec == Init /\ [][Next]_avars
=============================================================================
