------------------------------- MODULE MCServer -------------------------------
(***************************************************************************)
(* Instances of Server for TLC: a transfer, which writes to two users, and *)
(* the payment of one installment.                                         *)
(***************************************************************************)
EXTENDS Server, TLC

CONSTANTS transfer, installment

MCRecipients ==
  transfer :> <<"alice", "bob">> @@ installment :> <<"alice">>
=============================================================================
