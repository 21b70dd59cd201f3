--------------------------- MODULE AccountAtomicity ---------------------------
(***************************************************************************)
(* When are the statements of AccountService as good as a transaction?     *)
(* The two things a transaction would have given must come from elsewhere: *)
(* no two requests are between their first SELECT and their COMMIT on one  *)
(* account, and nothing fails after the first UPDATE, not even for lack of *)
(* room in the column of a destination.  Then the bank implements          *)
(* BankLedger: an operation takes effect at COMMIT, and until then the     *)
(* abstract funds are the balances the request has read.                   *)
(***************************************************************************)
EXTENDS AccountService

(* An account without a row has no funds, which is not an amount. *)
ASSUME NoFundsAssumption == NoRow \notin Int

(* Labels of a request that has begun to read balances, and of one that    *)
(* has stored one.                                                         *)
Reading == {"read_peer", "write"}
Storing == {"write_peer", "record", "record_peer", "commit"}

Touched(r) == {call[r].acct, call[r].peer} \ {None}

Engaged(r, a) == pc[r] \in Reading \cup Storing /\ a \in Touched(r)

Alone(r) ==
  pc[r] = "read" =>
    \A s \in Requests \ {r} : \A a \in Touched(r) : ~Engaged(s, a)

Room(r) ==
  pc[r] = "read_peer" /\ account[call[r].peer] # NoRow =>
    account[call[r].peer].balance + call[r].amount <= MaxBalance

CarefulNext ==
  \/ \E r \in Requests : Alone(r) /\ Room(r) /\ Step(r)
  \/ \E r \in Requests : pc[r] \notin Storing /\ Fail(r)
  \/ (\A r \in Requests : pc[r] \notin Storing) /\ Crash
  \/ Idle

CarefulSpec == Init /\ [][CarefulNext]_vars
-----------------------------------------------------------------------------
(* The refinement mapping. *)

(* Request r has stored a new balance of a and is not answered yet. *)
HasStored(r, a) ==
  \/ pc[r] \in Storing /\ a = call[r].acct
  \/ pc[r] \in Storing \ {"write_peer"} /\ a = call[r].peer

Before(r, a) == IF a = call[r].acct THEN seen[r].acct ELSE seen[r].peer

Funds(a) ==
  IF account[a] = NoRow THEN NoRow
  ELSE IF \E r \in Requests : HasStored(r, a)
  THEN Before(CHOOSE r \in Requests : HasStored(r, a), a)
  ELSE account[a].balance

Booked == {row \in ledger : row.req \in Requests => pc[row.req] = "done"}

Ledger == INSTANCE BankLedger
            WITH funds <- [a \in Accounts |-> Funds(a)],
                 booked <- Booked,
                 NoFunds <- NoRow

(* Requests that do not overlap on an account, and that fail before they   *)
(* have stored anything or not at all, behave as atomic deposits,          *)
(* withdrawals and transfers, however they overlap with requests on other  *)
(* accounts.                                                               *)
ImplementsBankLedger == Ledger!Spec
=============================================================================
