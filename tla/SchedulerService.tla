--------------------------- MODULE SchedulerService ---------------------------
(***************************************************************************)
(* The scheduler: one goroutine that every twelve hours walks over credits *)
(* and their installments, collects what is overdue through                *)
(* ProcessMonthlyPayment, and fines what it cannot collect.                *)
(*                                                                         *)
(* A sweep works on copies: the rows of all credits are read when it       *)
(* begins, the rows of a schedule when it reaches the credit.  Fining      *)
(* writes whole rows back from these copies.                               *)
(***************************************************************************)
EXTENDS CreditService

CONSTANTS
  Nil,        \* uuid.Nil, the user whose credits a sweep asks for
  MaxFaults   \* bound on the failed statements and crashes of a behaviour

ASSUME SchedulerAssumption == MaxFaults \in Nat

VARIABLES
  phase,   \* where the sweep is
  todo,    \* copies of the credits still to be visited
  plan,    \* a copy of the schedule of the credit being visited
  next,    \* the row of plan that is looked at next
  faults   \* failures so far

sweepVars == <<phase, todo, plan, next>>
vars == <<creditVars, sweepVars, faults>>

Phases == {"waiting", "credit", "installment", "paying", "fine", "overdue"}

Current == Head(todo).id

Fault == faults < MaxFaults /\ faults' = faults + 1

-----------------------------------------------------------------------------
(* The sweep.                                                              *)

Tick ==
  LET ids == GetCreditsByUserID(Nil)
  IN  /\ phase = "waiting"
      /\ phase' = "credit"
      /\ todo' = [i \in DOMAIN ids |-> [id |-> ids[i], row |-> credit[ids[i]]]]
      /\ UNCHANGED <<creditVars, plan, next, faults>>

EndSweep ==
  /\ phase = "credit"
  /\ todo = <<>>
  /\ phase' = "waiting"
  /\ UNCHANGED <<creditVars, todo, plan, next, faults>>

LeaveCredit ==
  /\ todo' = Tail(todo)
  /\ phase' = "credit"
  /\ plan' = <<>>
  /\ next' = 0

(* Mutant: credits marked overdue are no longer collected. *)
CollectibleActive(row) == row.status = "active"

Collectible(row) == row.status \in {"active", "overdue"}

SkipCredit ==
  /\ phase = "credit"
  /\ todo # <<>>
  /\ ~Collectible(Head(todo).row)
  /\ LeaveCredit
  /\ UNCHANGED <<creditVars, faults>>

VisitCredit ==
  /\ phase = "credit"
  /\ todo # <<>>
  /\ Collectible(Head(todo).row)
  /\ phase' = "installment"
  /\ plan' = GetPaymentSchedulesByCreditID(Current)
  /\ next' = 1
  /\ UNCHANGED <<creditVars, todo, faults>>

(* The column due_date has no time of day: an installment is overdue as    *)
(* soon as its day has begun.                                              *)
Overdue(k, i) == DueDate(k, i) <= now

GoOn ==
  /\ phase' = "installment"
  /\ next' = next + 1
  /\ UNCHANGED <<todo, plan>>

VisitInstallment ==
  /\ phase = "installment"
  /\ next <= Len(plan)
  /\ IF ~plan[next].isPaid /\ Overdue(Current, next)
     THEN /\ BeginPayment(Current, plan[next].due)
          /\ phase' = "paying"
          /\ UNCHANGED <<todo, plan, next>>
     ELSE GoOn /\ UNCHANGED payment
  /\ UNCHANGED <<balance, credit, schedule, grants, collected, now, faults>>

EndCredit ==
  /\ phase = "installment"
  /\ next > Len(plan)
  /\ LeaveCredit
  /\ UNCHANGED <<creditVars, faults>>

(* Mutant: a failed payment is tried again at once. *)
PaymentResultRetry ==
  /\ phase = "paying"
  /\ payment.stage \in {"ok", "failed", "insufficient"}
  /\ payment' = NoPayment
  /\ CASE payment.stage = "insufficient" ->
            phase' = "fine" /\ UNCHANGED <<todo, plan, next>>
       [] payment.stage = "failed" ->
            phase' = "installment" /\ UNCHANGED <<todo, plan, next>>
       [] OTHER -> GoOn
  /\ UNCHANGED <<balance, credit, schedule, grants, collected, now, faults>>

(* A payment that succeeded, or failed for any reason but a lack of funds, *)
(* is only logged.                                                         *)
PaymentResult ==
  /\ phase = "paying"
  /\ payment.stage \in {"ok", "failed", "insufficient"}
  /\ payment' = NoPayment
  /\ IF payment.stage = "insufficient"
     THEN phase' = "fine" /\ UNCHANGED <<todo, plan, next>>
     ELSE GoOn
  /\ UNCHANGED <<balance, credit, schedule, grants, collected, now, faults>>

(* Where a sweep goes on after fining a row: a credit that was active when *)
(* the sweep began is marked overdue first, once.                          *)
AfterFine ==
  IF Head(todo).row.status = "active"
  THEN phase' = "overdue" /\ UNCHANGED <<todo, plan, next>>
  ELSE GoOn

AddFine(row) == [row EXCEPT !.fines = Min({@ + 1, MaxFines})]

(* The copy of the row, with the fine, overwrites the row. *)
FineInstallment ==
  /\ phase = "fine"
  /\ UpdatePaymentSchedule(Current, next, AddFine(plan[next]))
  /\ AfterFine
  /\ UNCHANGED <<balance, credit, grants, collected, now, payment, faults>>

(* UpdateCredit writes status, debt and closing date, all from the copy. *)
MarkOverdue ==
  /\ phase = "overdue"
  /\ UpdateCredit(Current, [Head(todo).row EXCEPT !.status = "overdue"])
  /\ todo' = [todo EXCEPT ![1].row.status = "overdue"]
  /\ phase' = "installment"
  /\ next' = next + 1
  /\ UNCHANGED <<balance, schedule, grants, collected, now, payment, plan, faults>>

-----------------------------------------------------------------------------
(* Failures.                                                               *)

(* A failed lookup of the schedule leaves the credit to the next sweep. *)
FailVisit ==
  /\ Fault
  /\ phase = "credit"
  /\ todo # <<>>
  /\ LeaveCredit
  /\ UNCHANGED creditVars

FailFine ==
  /\ Fault
  /\ phase = "fine"
  /\ AfterFine
  /\ UNCHANGED creditVars

FailMarkOverdue ==
  /\ Fault
  /\ phase = "overdue"
  /\ todo' = [todo EXCEPT ![1].row.status = "overdue"]
  /\ phase' = "installment"
  /\ next' = next + 1
  /\ UNCHANGED <<creditVars, plan>>

(* The process stops, in the middle of a sweep or of a payment, and starts *)
(* again: main does not wait for the scheduler.  PostgreSQL rolls back the *)
(* transaction of the lost connection.                                     *)
Crash ==
  /\ Fault
  /\ phase # "waiting"
  /\ phase' = "waiting"
  /\ todo' = <<>>
  /\ plan' = <<>>
  /\ next' = 0
  /\ payment' = NoPayment
  /\ UNCHANGED <<balance, credit, schedule, grants, collected, now>>

-----------------------------------------------------------------------------
Sweep ==
  \/ Tick \/ EndSweep
  \/ SkipCredit \/ VisitCredit \/ EndCredit
  \/ VisitInstallment \/ PaymentResult
  \/ FineInstallment \/ MarkOverdue
  \/ (ReadForPayment \/ DebitAccount \/ SettlePayment) /\ UNCHANGED <<sweepVars, faults>>

Failure ==
  \/ FailVisit \/ FailFine \/ FailMarkOverdue \/ Crash
  \/ Fault /\ FailPayment /\ UNCHANGED sweepVars

Environment ==
  /\ \/ \E k \in CreditIds : ApplyForCredit(k)
     \/ \E a \in Accounts : UpdateAccount(a)
     \/ Day
  /\ UNCHANGED <<sweepVars, faults>>

Init ==
  /\ CreditInit
  /\ phase = "waiting"
  /\ todo = <<>>
  /\ plan = <<>>
  /\ next = 0
  /\ faults = 0

Next == Sweep \/ Failure \/ Environment

Spec == Init /\ [][Next]_vars

(* The ticker goes on ticking and a sweep goes on sweeping; days pass. *)
FairSpec == Spec /\ WF_vars(Sweep) /\ WF_vars(Day /\ UNCHANGED <<sweepVars, faults>>)
-----------------------------------------------------------------------------
(* Properties.                                                             *)

(* The state holds rows, copies of rows and labels of the right kind. *)
TypeOK ==
  /\ CreditTypeOK
  /\ phase \in Phases
  /\ todo \in Seq([id : CreditIds, row : Credit])
  /\ plan \in Seq(Installment)
  /\ next \in Nat
  /\ faults \in 0 .. MaxFaults

(* What has been booked for a credit is what its rows have been paid, and  *)
(* a row is settled when that is enough: no failure, crash or ambiguous    *)
(* commit collects money without crediting an installment, credits one     *)
(* without collecting, or collects once and credits twice, though the      *)
(* money may go to another row than it was asked for, and fall short.      *)
InstallmentsMatchLedger ==
  \A k \in Loans :
    /\ collected[k] = SumFunction([i \in DOMAIN schedule[k] |-> schedule[k][i].paid])
    /\ \A i \in DOMAIN schedule[k] :
         LET row == schedule[k][i]
         IN  row.isPaid <=> row.paid > 0 /\ row.paid >= row.due

(* Installments are paid in the order they fall due, although a sweep goes *)
(* past one it could not collect and may collect with the next: no money   *)
(* goes to a row while an earlier one is not settled.                      *)
PaidInOrder ==
  \A k \in Loans : \A i, j \in DOMAIN schedule[k] :
    i < j /\ schedule[k][j].paid > 0 => schedule[k][i].isPaid

(* No installment is paid once more after it was settled: the last payment *)
(* it received was the amount of some row, its own or a later one, and     *)
(* what it had received before was not enough.  So however often a sweep   *)
(* fails and comes again, a client pays less than one installment too much *)
(* on a row.                                                               *)
NoRowPaidAgain ==
  \A k \in Loans : \A i \in DOMAIN schedule[k] :
    LET row == schedule[k][i]
    IN  row.paid > 0 =>
          \E j \in DOMAIN schedule[k] :
            LET before == row.paid - schedule[k][j].due
            IN  /\ j >= i
                /\ schedule[k][j].due > 0
                /\ before = 0 \/ (0 < before /\ before < row.due)

(* A fine stands only on an installment that is overdue and unpaid: the    *)
(* copies fines are written from never bring one back after the payment.   *)
FinesOnlyOnOverdue ==
  \A k \in Loans : \A i \in DOMAIN schedule[k] :
    schedule[k][i].fines > 0 => ~schedule[k][i].isPaid /\ Overdue(k, i)

(* The copy of an installment a sweep is collecting or fining is current.  *)
CopyIsCurrent ==
  \/ phase = "fine"
  \/ phase = "paying" /\ payment.stage \in {"read", "debit", "settle", "insufficient"}
  => plan[next] = schedule[Current][next]

(* The debt of a credit is never less than what has not been repaid; it is *)
(* exactly that as long as the credit has never been overdue; and only a   *)
(* credit repaid in full is closed.                                        *)
DebtCoversLoan ==
  \A k \in Loans :
    LET c == credit[k]
    IN  /\ c.outstanding >= c.granted - collected[k]
        /\ c.status = "active" => c.outstanding = c.granted - collected[k]
        /\ c.status = "paid" => c.outstanding = 0 /\ collected[k] >= c.granted
        /\ c.closed <=> c.status = "paid"

(* What is overdue is collected, or the credit is closed. *)
Settled(k) ==
  k \in Loans => \/ credit[k].status = "paid"
                 \/ \A i \in DOMAIN schedule[k] : Overdue(k, i) => schedule[k][i].isPaid

(* An installment that rounds to nothing is refused as a payment. *)
Funded(k) ==
  k \in Loans =>
    \A i \in DOMAIN schedule[k] :
      schedule[k][i].due > 0 /\ balance[credit[k].acct] >= schedule[k][i].due

(* If from some time on the account always holds any installment, then in  *)
(* the end no overdue installment is left: the scheduler collects it, in   *)
(* spite of failed statements and crashes.                                 *)
CollectsWhenFunded ==
  \A k \in CreditIds : <>[]Funded(k) => <>[]Settled(k)

(* Whatever the sweep copies, retries, fines and writes back, and wherever *)
(* it fails, the schedules and the money collected behave as LoanBook      *)
(* promises: the copies and the stages of a payment are invisible.         *)
Book == INSTANCE LoanBook

ImplementsLoanBook == Book!Spec
=============================================================================
