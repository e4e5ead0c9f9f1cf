----------------------------- MODULE Withdrawals -----------------------------
(***************************************************************************)
(* What the withdrawal queue promises: requests are finalized in the order *)
(* they were made, the value of a request is fixed when it is finalized    *)
(* and is at most the amount asked for, and each request is claimed at     *)
(* most once, for exactly its value.                                       *)
(***************************************************************************)
EXTENDS Integers, Sequences

CONSTANT Amounts

VARIABLES
  requests,   \* the requests in the order they were made
  paid        \* the ether paid out for claims

vars == <<requests, paid>>

Pending(amount) == [amount |-> amount, state |-> "pending", value |-> 0]

Init ==
  /\ requests = <<>>
  /\ paid = 0

Request ==
  /\ Len(requests') = Len(requests) + 1
  /\ LET amount == requests'[Len(requests')].amount
     IN  amount \in Amounts /\ requests' = Append(requests, Pending(amount))
  /\ UNCHANGED paid

(***************************************************************************)
(* All pending requests up to the k-th get their value.                    *)
(***************************************************************************)
Finalize(k) ==
  /\ requests[k].state = "pending"
  /\ DOMAIN requests' = DOMAIN requests
  /\ \A i \in DOMAIN requests :
       IF i <= k /\ requests[i].state = "pending"
       THEN /\ requests'[i] = [requests[i] EXCEPT !.state = "finalized",
                                                  !.value = requests'[i].value]
            /\ requests'[i].value \in 0..requests[i].amount
       ELSE requests'[i] = requests[i]
  /\ UNCHANGED paid

Claim(i) ==
  /\ requests[i].state = "finalized"
  /\ requests' = [requests EXCEPT ![i].state = "claimed"]
  /\ paid' = paid + requests[i].value

Next ==
  \/ Request
  \/ \E i \in DOMAIN requests : Finalize(i) \/ Claim(i)

Spec == Init /\ [][Next]_vars

==============================================================================
