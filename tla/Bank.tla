--------------------------------- MODULE Bank ---------------------------------
(***************************************************************************)
(* The whole process: the goroutines of the requests and the goroutine of  *)
(* the scheduler, on one table of accounts.                                *)
(*                                                                         *)
(* SchedulerService assumes only that somebody stores balances; here they  *)
(* are the columns AccountService writes.  The two write them differently: *)
(* a request by statements that commit by themselves, an installment in a  *)
(* transaction that locks the row from its UPDATE to its end, but has read *)
(* the balance before.                                                     *)
(***************************************************************************)
EXTENDS AccountAudit

CONSTANTS
  LoanAccounts,  \* accounts loans are taken on, open from the start
  CreditIds, Applications, MaxFines, Horizon, NoCredit, Nil, MaxFaults

ASSUME BankAssumption ==
  /\ LoanAccounts \subseteq Accounts
  /\ \A a \in LoanAccounts : Opening[a] # NoRow

VARIABLES credit, schedule, grants, collected, now, payment,
          phase, todo, plan, next, faults

Scheduler ==
  INSTANCE SchedulerService
    WITH Accounts <- LoanAccounts,
         Owner <- [a \in LoanAccounts |-> Opening[a].owner],
         balance <- [a \in LoanAccounts |-> account[a].balance]

(* What SchedulerService assumes of its constants. *)
ASSUME LoanAssumption ==
  /\ IsFiniteSet(CreditIds)
  /\ Scheduler!CreditAssumption
  /\ Scheduler!SchedulerAssumption

requestVars == <<ledger, call, pc, seen, reply>>
loanVars == <<credit, schedule, grants, collected, now, payment,
              phase, todo, plan, next, faults>>
sweepVars == <<phase, todo, plan, next>>
bankVars == <<account, requestVars, loanVars, tainted>>

(* Mutant: nobody waits for the row lock of an installment. *)
WaitsForNobody(r) == FALSE

(* The UPDATE of a request waits while an installment holds the row. *)
Waits(r) ==
  \/ pc[r] = "write" /\ call[r].acct \in LoanAccounts /\ Scheduler!Locked(call[r].acct)
  \/ pc[r] = "write_peer" /\ call[r].peer \in LoanAccounts /\ Scheduler!Locked(call[r].peer)

RequestStep ==
  /\ \E r \in Requests : (~Waits(r) /\ Step(r)) \/ Fail(r)
  /\ UNCHANGED loanVars

(* The table accounts after the UPDATE of the running installment. *)
Debited ==
  LET c == credit[payment.credit]
  IN  [account EXCEPT ![c.acct].balance = payment.seen - payment.amount]

(* A step of the scheduler writes the table only at the COMMIT of an       *)
(* installment.                                                            *)
SchedulerStep ==
  /\ account' \in {account} \cup (IF payment.stage = "settle" THEN {Debited} ELSE {})
  /\ \/ Scheduler!Sweep
     \/ Scheduler!FailVisit \/ Scheduler!FailFine \/ Scheduler!FailMarkOverdue
     \/ (Scheduler!Fault /\ Scheduler!FailPayment /\ UNCHANGED sweepVars)
  /\ UNCHANGED requestVars

Elsewhere ==
  /\ UNCHANGED <<account, requestVars>>
  /\ \/ \E k \in CreditIds : Scheduler!ApplyForCredit(k)
     \/ Scheduler!Day
  /\ UNCHANGED <<sweepVars, faults>>

(* The process dies: the requests and the sweep with it. *)
ProcessCrash ==
  \/ Crash /\ Scheduler!Crash
  \/ Crash /\ phase = "waiting" /\ UNCHANGED loanVars
  \/ /\ \A r \in Requests : ~InFlight(r)
     /\ UNCHANGED <<account, requestVars>>
     /\ Scheduler!Crash

(* An installment overwrites the balance of its account with one computed  *)
(* from a balance that has changed since.                                  *)
PaysStale(a) ==
  /\ payment.stage = "settle"
  /\ collected' # collected
  /\ a = credit[payment.credit].acct
  /\ payment.seen # account[a].balance

BankInit ==
  /\ Init
  /\ tainted = {}
  /\ credit = [k \in CreditIds |-> NoCredit]
  /\ schedule = [k \in CreditIds |-> <<>>]
  /\ grants = [user \in Scheduler!Borrowers |-> <<>>]
  /\ collected = [k \in CreditIds |-> 0]
  /\ now = 0
  /\ payment = Scheduler!NoPayment
  /\ phase = "waiting"
  /\ todo = <<>>
  /\ plan = <<>>
  /\ next = 0
  /\ faults = 0

BankNext ==
  /\ RequestStep \/ SchedulerStep \/ Elsewhere \/ ProcessCrash
  /\ tainted' = tainted \cup
       {a \in Accounts : \/ PaysStale(a)
                         \/ \E r \in Requests : WritesStale(r, a) \/ AbandonsWrite(r, a)}

BankSpec == BankInit /\ [][BankNext]_bankVars
-----------------------------------------------------------------------------
(* Properties.                                                             *)

(* The installments booked on account a: rows of type credit_payment. *)
Installments(a) ==
  SumFunction([k \in {l \in CreditIds : credit[l] # NoCredit /\ credit[l].acct = a}
                 |-> collected[k]])

(* On every account that neither a stale nor an abandoned write has        *)
(* touched, the balance is the sum of the transactions of both writers,    *)
(* requests and installments, and of what requests in flight have still to *)
(* record, at every moment.                                                *)
UntaintedBankBalances ==
  \A a \in Accounts : account[a] # NoRow /\ a \notin tainted =>
    account[a].balance = LedgerTotal(a) + StillToRecord(a) - Installments(a)

(* The requests do to the scheduler only what SchedulerService assumed of  *)
(* them: they store balances within bounds, one at a time, and never in a  *)
(* row that an installment has locked.  So what holds of the scheduler     *)
(* alone holds of it inside the bank.                                      *)
SchedulerKeepsItsPromises == Scheduler!Spec
=============================================================================
