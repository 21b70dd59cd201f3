----------------------------- MODULE AccountAudit -----------------------------
(***************************************************************************)
(* Double entry: does the table transactions explain the balances in the   *)
(* table accounts?  A history variable marks the accounts on which one of  *)
(* the two hazards of AccountService has struck: a write computed from a   *)
(* balance that was no longer current, and a request that failed between   *)
(* writing a balance and recording it.  On every other account the two     *)
(* tables agree to the kopeck.                                             *)
(***************************************************************************)
EXTENDS AccountService, FiniteSets, Functions

(* Finitely many requests reach the server. *)
ASSUME RequestsAssumption == IsFiniteSet(Requests)

VARIABLE tainted  \* accounts on which a hazard has struck

auditVars == <<account, ledger, call, pc, seen, reply, tainted>>

RowsOn(a) == {row \in ledger : row.acct = a}

LedgerTotal(a) == SumFunction([row \in RowsOn(a) |-> row.amount])

(* The part of its operation that request r has written into the balance   *)
(* of account a and not yet recorded.                                      *)
Unrecorded(r, a) ==
  LET c == call[r]
      own == IF pc[r] \in {"write_peer", "record"} /\ a = c.acct
             THEN Delta(c) ELSE 0
      other == IF /\ pc[r] \in {"record", "record_peer"}
                  /\ c.op = "transfer"
                  /\ a = c.peer
               THEN c.amount ELSE 0
  IN  own + other

StillToRecord(a) == SumFunction([r \in Requests |-> Unrecorded(r, a)])

(* Request r overwrites the balance of a with one computed from a balance  *)
(* that has changed since.                                                 *)
WritesStale(r, a) ==
  \/ /\ pc[r] = "write" /\ pc'[r] # "done"
     /\ a = call[r].acct
     /\ seen[r].acct # account[a].balance
  \/ /\ pc[r] = "write_peer" /\ pc'[r] # "done"
     /\ a = call[r].peer
     /\ seen[r].peer # account[a].balance

AbandonsWrite(r, a) ==
  /\ pc[r] # "done"
  /\ pc'[r] = "done"
  /\ Unrecorded(r, a) # 0

AuditInit == Init /\ tainted = {}

AuditNext ==
  /\ Next
  /\ tainted' = tainted \cup {a \in Accounts : \E r \in Requests :
                                WritesStale(r, a) \/ AbandonsWrite(r, a)}

AuditSpec == AuditInit /\ [][AuditNext]_auditVars

(* The balance of an account that no stale write and no abandoned write    *)
(* has touched is the sum of its recorded transactions and of the          *)
(* movements still to be recorded by requests in flight: refused requests, *)
(* overlapping requests on other accounts and crashes never disturb it.    *)
UntaintedBalances ==
  \A a \in Accounts : account[a] # NoRow /\ a \notin tainted =>
    account[a].balance = LedgerTotal(a) + StillToRecord(a)

(* Once every request is answered without an error, each balance is the    *)
(* sum of the account's transactions: what README.md promises of deposits, *)
(* withdrawals and transfers.  Overlapping requests break it.              *)
LedgerExplainsBalances ==
  (\A r \in Requests : pc[r] = "done" /\ reply[r] # "error") =>
    \A a \in Accounts : account[a] # NoRow => account[a].balance = LedgerTotal(a)
=============================================================================
