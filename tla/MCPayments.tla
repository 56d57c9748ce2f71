----------------------------- MODULE MCPayments -----------------------------
(***************************************************************************)
(* Small instances of Payments: one employer owns every submission and     *)
(* buys every pack, so that all requests contend for one account.          *)
(***************************************************************************)
EXTENDS Payments

CONSTANT e1

OneOwner == [s \in Submissions |-> e1]
OneBuyer == [p \in Purchases |-> e1]
SingleCredit == [p \in Purchases |-> 1]
=============================================================================
