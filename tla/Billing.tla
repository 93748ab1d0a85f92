------------------------------ MODULE Billing ------------------------------
(***************************************************************************)
(* What the relay and the control plane promise together about money: a    *)
(* call comes to owe a bill when it has been served, the bill is fixed     *)
(* from then on, and it is charged at most once and only as owed.          *)
(***************************************************************************)
CONSTANTS
  Call,     \* client calls
  Bills,    \* settlements
  None,     \* no settlement
  Receipts  \* what tells two charges of one call apart

VARIABLES
  owed,    \* owed[c]: what call c has to pay
  account  \* account[c]: the charges made for call c

Init ==
  /\ owed = [c \in Call |-> None]
  /\ account = [c \in Call |-> {}]

Owe(c) ==
  /\ owed[c] = None
  /\ owed'[c] \in Bills
  /\ owed' = [owed EXCEPT ![c] = owed'[c]]
  /\ UNCHANGED account

Charge(c) ==
  /\ owed[c] # None
  /\ account[c] = {}
  /\ \E n \in Receipts :
       account' = [account EXCEPT ![c] = {[receipt |-> n, bill |-> owed[c]]}]
  /\ UNCHANGED owed

Next == \E c \in Call : Owe(c) \/ Charge(c)

Spec == Init /\ [][Next]_<<owed, account>>
=============================================================================
