---------------------------- MODULE CreditAccount ---------------------------
(***************************************************************************)
(* What the credit ledger and the payments built on it promise together:   *)
(* each employer has an account that is topped up at most once per reason  *)
(* and pays one credit for each good, never for the same good twice and    *)
(* never beyond its balance.                                               *)
(***************************************************************************)
EXTENDS Integers, FiniteSets

CONSTANTS
  Employers,
  TopUpKeys,  \* reasons to be credited
  Goods       \* what a credit buys

VARIABLES balance, granted, charged

accountVars == <<balance, granted, charged>>

Init ==
  /\ balance = [e \in Employers |-> 0]
  /\ granted = {}
  /\ charged = [e \in Employers |-> {}]

(* Any positive number of credits, once per key.                           *)
TopUp(e, key) ==
  /\ key \notin granted
  /\ granted' = granted \cup {key}
  /\ balance'[e] > balance[e]
  /\ balance' = [balance EXCEPT ![e] = balance'[e]]
  /\ UNCHANGED charged

Charge(e, goods) ==
  /\ goods \cap charged[e] = {}
  /\ Cardinality(goods) <= balance[e]
  /\ balance' = [balance EXCEPT ![e] = @ - Cardinality(goods)]
  /\ charged' = [charged EXCEPT ![e] = @ \cup goods]
  /\ UNCHANGED granted

Next ==
  \E e \in Employers :
    \/ \E key \in TopUpKeys : TopUp(e, key)
    \/ \E goods \in (SUBSET Goods) \ {{}} : Charge(e, goods)

Spec == Init /\ [][Next]_accountVars
=============================================================================
