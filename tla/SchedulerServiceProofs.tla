----------------------- MODULE SchedulerServiceProofs -----------------------
(***************************************************************************)
(* Proofs about CreditService and SchedulerService, for every set of       *)
(* accounts and credits, every application, every horizon and any number   *)
(* of faults: what is collected, marked, fined and written back agrees,    *)
(* and the scheduler implements LoanBook.                                  *)
(*                                                                         *)
(* The invariant says, besides the properties themselves, how far the      *)
(* copies a sweep works on may be behind the tables: the copy of a credit  *)
(* by payments that reduced its debt, the copy of a schedule by nothing    *)
(* from the row the sweep looks at on.                                     *)
(***************************************************************************)
EXTENDS SchedulerService, FiniteSums, SequenceTheorems

-----------------------------------------------------------------------------
(* The inductive invariant.                                                *)

(* A credit id without a row has no installments and no payments. *)
TablesOK ==
  /\ schedule \in [CreditIds -> Seq(Installment)]
  /\ \A k \in CreditIds \ Loans : schedule[k] = <<>> /\ collected[k] = 0

(* A copy of a credit may be stale, but only as a debt that has been       *)
(* reduced since.                                                          *)
CopyOK(copy) ==
  /\ copy.id \in Loans
  /\ copy.row \in Credit
  /\ copy.row.outstanding >= credit[copy.id].granted - collected[copy.id]
  /\ copy.row.closed <=> copy.row.status = "paid"

(* The payment that is running is for the row being visited, and the       *)
(* balance it has seen covers the amount.                                  *)
Running == {"read", "debit", "settle", "insufficient"}

PaymentOK ==
  /\ phase # "paying" => payment = NoPayment
  /\ phase = "paying" =>
       /\ payment.stage # "idle"
       /\ payment.credit = Current
       /\ payment.stage \in Running => payment.amount = plan[next].due /\ payment.amount > 0
       /\ payment.stage \in {"debit", "settle"} =>
            payment.seen \in payment.amount .. MaxBalance

(* From row i on, the copy of the schedule is current. *)
CurrentFrom(i) == \A j \in DOMAIN plan : j >= i => plan[j] = schedule[Current][j]

(* A sweep that is within a credit. *)
PlanOK ==
  phase \in {"installment", "paying", "fine", "overdue"} =>
    /\ todo # <<>>
    /\ Len(plan) = Len(schedule[Current])
    /\ next >= 1
    /\ CurrentFrom(next + 1)
    /\ phase = "installment" => CurrentFrom(next)
    /\ phase \in {"paying", "fine", "overdue"} => next <= Len(plan)
    /\ phase \in {"paying", "fine"} => ~plan[next].isPaid /\ Overdue(Current, next)
    /\ phase = "overdue" => Head(todo).row.status = "active"

Inv ==
  /\ TypeOK
  /\ TablesOK
  /\ \A i \in DOMAIN todo : CopyOK(todo[i])
  /\ PaymentOK
  /\ PlanOK
  /\ CopyIsCurrent
  /\ InstallmentsMatchLedger
  /\ PaidInOrder
  /\ NoRowPaidAgain
  /\ FinesOnlyOnOverdue
  /\ DebtCoversLoan

-----------------------------------------------------------------------------
(* Facts about a state. *)

(* The lists of credits stay right while no credit changes hands. *)
LEMMA GrantsFrame ==
  ASSUME GrantsOK, UNCHANGED grants, Loans' = Loans,
         \A k \in Loans : credit'[k].owner = credit[k].owner
  PROVE  GrantsOK'
BY DEF GrantsOK

Copies == [id : CreditIds, row : Credit]

(* The row of a loan has the columns of a credit. *)
LEMMA LoanRow ==
  ASSUME CreditTypeOK, NEW k \in Loans
  PROVE  /\ k \in CreditIds
         /\ credit[k] \in Credit
         /\ credit[k].granted \in Nat /\ credit[k].since \in Nat
         /\ credit[k].outstanding \in Int /\ credit[k].acct \in Accounts
         /\ credit[k].status \in Statuses /\ credit[k].closed \in BOOLEAN
         /\ credit[k].owner \in Borrowers
BY DEF CreditTypeOK, Loans, Credit

(* The copy the sweep has in hand, and those it has still to visit. *)
LEMMA Visited ==
  ASSUME Inv, todo # <<>>
  PROVE  /\ Head(todo) = todo[1] /\ Head(todo) \in Copies /\ 1 \in DOMAIN todo
         /\ Current \in Loans
         /\ CopyOK(Head(todo))
         /\ Tail(todo) \in Seq(Copies)
         /\ \A i \in DOMAIN Tail(todo) : CopyOK(Tail(todo)[i])
<1>1. todo \in Seq(Copies)
  BY DEF Inv, TypeOK, Copies
<1>2. Head(todo) = todo[1] /\ 1 \in DOMAIN todo /\ Head(todo) \in Copies
  BY <1>1
<1>3. /\ Tail(todo) \in Seq(Copies)
      /\ \A i \in DOMAIN Tail(todo) : i + 1 \in DOMAIN todo /\ Tail(todo)[i] = todo[i + 1]
  BY <1>1
<1>4. \A i \in DOMAIN todo : CopyOK(todo[i])
  BY DEF Inv
<1>5. CopyOK(Head(todo))
  BY <1>2, <1>4
<1>6. Current \in Loans
  BY <1>5 DEF CopyOK, Current
<1> QED
  BY <1>1, <1>2, <1>3, <1>4, <1>5, <1>6

(* What is known within a credit. *)
LEMMA Within ==
  ASSUME Inv, phase \in {"installment", "paying", "fine", "overdue"}
  PROVE  /\ todo # <<>> /\ Current \in Loans /\ Current \in CreditIds
         /\ schedule[Current] \in Seq(Installment)
         /\ DOMAIN plan = DOMAIN schedule[Current]
         /\ DOMAIN plan = 1 .. Len(plan) /\ Len(plan) \in Nat
         /\ next \in Nat /\ next >= 1
         /\ phase # "installment" => next \in DOMAIN plan
<1>1. todo # <<>> /\ next \in Nat /\ next >= 1 /\ Len(plan) = Len(schedule[Current])
  BY DEF Inv, PlanOK, TypeOK
<1>2. Current \in Loans
  BY <1>1, Visited
<1>3. Current \in CreditIds
  BY <1>2 DEF Loans
<1>4. schedule[Current] \in Seq(Installment)
  BY <1>3 DEF Inv, TablesOK
<1>5. plan \in Seq(Installment)
  BY DEF Inv, TypeOK
<1>6. DOMAIN plan = DOMAIN schedule[Current] /\ DOMAIN plan = 1 .. Len(plan) /\ Len(plan) \in Nat
  BY <1>1, <1>4, <1>5
<1>7. phase # "installment" => next \in DOMAIN plan
  BY <1>1, <1>6 DEF Inv, PlanOK
<1> QED
  BY <1>1, <1>2, <1>3, <1>4, <1>6, <1>7

(* What the rows of a credit have been paid, and which are settled. *)
PaidOf(rows) == [i \in DOMAIN rows |-> rows[i].paid]

RowsSettled(rows) ==
  \A i \in DOMAIN rows :
    rows[i].isPaid <=> rows[i].paid > 0 /\ rows[i].paid >= rows[i].due

LEMMA LedgerParts ==
  InstallmentsMatchLedger <=>
    \A k \in Loans : collected[k] = SumFunction(PaidOf(schedule[k])) /\ RowsSettled(schedule[k])
BY DEF InstallmentsMatchLedger, PaidOf, RowsSettled

(* What a schedule has been paid, row by row. *)
LEMMA PaidOfRows ==
  ASSUME NEW rows \in Seq(Installment)
  PROVE  /\ PaidOf(rows) \in [DOMAIN rows -> Int]
         /\ \A i \in DOMAIN rows : PaidOf(rows)[i] = rows[i].paid
<1>1. \A i \in DOMAIN rows : rows[i] \in Installment
  OBVIOUS
<1>2. \A i \in DOMAIN rows : rows[i].paid \in Int
  BY <1>1 DEF Installment
<1> QED
  BY <1>2 DEF PaidOf

(* The rows of a sequence are finitely many. *)
LEMMA SequenceIsFinite ==
  ASSUME NEW S, NEW s \in Seq(S)
  PROVE  IsFiniteSet(DOMAIN s)
<1>1. DOMAIN s = 1 .. Len(s) /\ Len(s) \in Nat
  OBVIOUS
<1> QED
  BY <1>1, FS_Interval

-----------------------------------------------------------------------------
(* The tables stay as they are. *)

Tables == <<credit, schedule, grants, collected, now>>

LedgerOK ==
  /\ InstallmentsMatchLedger
  /\ PaidInOrder
  /\ NoRowPaidAgain
  /\ FinesOnlyOnOverdue
  /\ DebtCoversLoan

(* A step that leaves the tables alone keeps what is said of them. *)
LEMMA TablesFrame ==
  ASSUME Inv, UNCHANGED Tables
  PROVE  /\ Loans' = Loans
         /\ TablesOK'
         /\ LedgerOK'
         /\ \A copy : CopyOK(copy) => CopyOK(copy)'
<1>1. Loans' = Loans
  BY DEF Tables, Loans
<1>2. TablesOK'
  BY <1>1 DEF Inv, TablesOK, Tables
<1>3. InstallmentsMatchLedger'
  <2>1. InstallmentsMatchLedger
    BY DEF Inv
  <2> QED
    BY <1>1, <2>1 DEF InstallmentsMatchLedger, Tables
<1>4. PaidInOrder' /\ FinesOnlyOnOverdue'
  BY <1>1 DEF Inv, PaidInOrder, FinesOnlyOnOverdue, Overdue, DueDate, Tables
<1>7. NoRowPaidAgain'
  <2>1. NoRowPaidAgain
    BY DEF Inv
  <2> QED
    BY <1>1, <2>1 DEF NoRowPaidAgain, Tables
<1>5. DebtCoversLoan'
  BY <1>1 DEF Inv, DebtCoversLoan, Tables
<1>6. \A copy : CopyOK(copy) => CopyOK(copy)'
  BY <1>1 DEF CopyOK, Tables
<1> QED
  BY <1>1, <1>2, <1>3, <1>4, <1>5, <1>6, <1>7 DEF LedgerOK

PaymentType ==
  [stage : Stages, credit : CreditIds \cup {NoCredit}, amount : Int, seen : Nat]

(* A step of the sweep that leaves the tables alone is right if it leaves  *)
(* the sweep in order.                                                     *)
LEMMA SweepFrame ==
  ASSUME Inv, UNCHANGED <<Tables, balance>>,
         payment' \in PaymentType, phase' \in Phases, todo' \in Seq(Copies),
         plan' \in Seq(Installment), next' \in Nat, faults' \in 0 .. MaxFaults,
         \A i \in DOMAIN todo' : CopyOK(todo'[i]),
         PaymentOK', PlanOK', CopyIsCurrent'
  PROVE  Inv'
<1>1. UNCHANGED Tables
  OBVIOUS
<1>2. CreditTypeOK'
  <2>1. GrantsOK'
    BY GrantsFrame DEF Inv, TypeOK, CreditTypeOK, Loans, Tables
  <2> QED
    BY <2>1 DEF Inv, TypeOK, CreditTypeOK, Loans, Tables, PaymentType
<1>3. TypeOK'
  BY <1>2 DEF TypeOK, Copies
<1>4. (\A i \in DOMAIN todo : CopyOK(todo[i]))'
  BY <1>1, TablesFrame
<1> QED
  BY <1>1, <1>3, <1>4, TablesFrame DEF Inv, LedgerOK

(* The types a sweep starts a step with. *)
LEMMA SweepTypes ==
  ASSUME Inv
  PROVE  /\ payment \in PaymentType /\ phase \in Phases /\ todo \in Seq(Copies)
         /\ plan \in Seq(Installment) /\ next \in Nat /\ faults \in 0 .. MaxFaults
         /\ NoPayment \in PaymentType
         /\ \A i \in DOMAIN todo : CopyOK(todo[i])
BY DEF Inv, TypeOK, CreditTypeOK, PaymentType, Copies, NoPayment, Stages

(* A failure is counted, up to the bound. *)
LEMMA FaultType ==
  ASSUME Inv, Fault
  PROVE  faults' \in 0 .. MaxFaults
BY SchedulerAssumption DEF Inv, TypeOK, Fault

-----------------------------------------------------------------------------
(* The sweep goes from credit to credit. *)

(* A sweep begins with copies of credits that exist. *)
LEMMA TickInv ==
  ASSUME Inv, Tick
  PROVE  Inv'
<1> DEFINE ids == GetCreditsByUserID(Nil)
<1>1. ids \in Seq(Loans)
  BY DEF Inv, TypeOK, CreditTypeOK, GrantsOK, GetCreditsByUserID
<1>2. /\ todo' = [i \in DOMAIN ids |-> [id |-> ids[i], row |-> credit[ids[i]]]]
      /\ phase = "waiting" /\ phase' = "credit"
      /\ UNCHANGED <<creditVars, plan, next, faults>>
  BY DEF Tick
<1> HIDE DEF ids
<1>3. DOMAIN ids = 1 .. Len(ids) /\ \A i \in DOMAIN ids : ids[i] \in Loans
  BY <1>1
<1>4. \A k \in Loans : CopyOK([id |-> k, row |-> credit[k]])
  <2> SUFFICES ASSUME NEW k \in Loans PROVE CopyOK([id |-> k, row |-> credit[k]])
    OBVIOUS
  <2>1. credit[k] \in Credit
    BY LoanRow DEF Inv, TypeOK
  <2>2. /\ credit[k].outstanding >= credit[k].granted - collected[k]
        /\ credit[k].closed <=> credit[k].status = "paid"
    BY DEF Inv, DebtCoversLoan
  <2> QED
    BY <2>1, <2>2 DEF CopyOK
<1>5. \A i \in DOMAIN todo' : CopyOK(todo'[i])
  BY <1>2, <1>3, <1>4
<1>6. todo' \in Seq(Copies)
  <2>1. \A i \in DOMAIN ids : [id |-> ids[i], row |-> credit[ids[i]]] \in Copies
    BY <1>3, LoanRow DEF Inv, TypeOK, Copies
  <2>2. Len(ids) \in Nat
    BY <1>1
  <2> QED
    BY <1>2, <1>3, <2>1, <2>2
<1>7. PaymentOK' /\ PlanOK' /\ CopyIsCurrent'
  BY <1>2 DEF Inv, PaymentOK, PlanOK, CopyIsCurrent, creditVars
<1> QED
  BY <1>2, <1>5, <1>6, <1>7, SweepTypes, SweepFrame DEF creditVars, Tables, Phases

(* A sweep ends when no credit is left to visit. *)
LEMMA EndSweepInv ==
  ASSUME Inv, EndSweep
  PROVE  Inv'
<1>1. PaymentOK' /\ PlanOK' /\ CopyIsCurrent'
  BY DEF EndSweep, Inv, PaymentOK, PlanOK, CopyIsCurrent, creditVars
<1> QED
  BY <1>1, SweepTypes, SweepFrame DEF EndSweep, creditVars, Tables, Phases

(* Whatever the reason to leave a credit, the next one is as good. *)
LEMMA LeaveCreditInv ==
  ASSUME Inv, LeaveCredit, UNCHANGED creditVars, phase # "paying", todo # <<>>,
         faults' \in 0 .. MaxFaults
  PROVE  Inv'
<1>1. /\ todo' = Tail(todo) /\ phase' = "credit" /\ plan' = <<>> /\ next' = 0
  BY DEF LeaveCredit
<1>2. PaymentOK' /\ PlanOK' /\ CopyIsCurrent'
  BY <1>1 DEF Inv, PaymentOK, PlanOK, CopyIsCurrent, creditVars
<1>3. todo' \in Seq(Copies) /\ \A i \in DOMAIN todo' : CopyOK(todo'[i])
  BY <1>1, Visited
<1> QED
  BY <1>1, <1>2, <1>3, SweepTypes, SweepFrame DEF creditVars, Tables, Phases

(* The copy of a schedule is current when it is taken. *)
LEMMA VisitCreditInv ==
  ASSUME Inv, VisitCredit
  PROVE  Inv'
<1>1. /\ phase = "credit" /\ phase' = "installment" /\ todo # <<>>
      /\ plan' = schedule[Current] /\ next' = 1
      /\ UNCHANGED <<creditVars, todo, faults>>
  BY DEF VisitCredit, GetPaymentSchedulesByCreditID
<1>2. Current \in CreditIds /\ Current' = Current
  BY <1>1, Visited DEF Loans, Current
<1>3. plan' \in Seq(Installment)
  BY <1>1, <1>2 DEF Inv, TablesOK
<1>4. PaymentOK' /\ CopyIsCurrent'
  BY <1>1 DEF Inv, PaymentOK, CopyIsCurrent, creditVars
<1>5. PlanOK'
  BY <1>1, <1>2 DEF PlanOK, CurrentFrom, creditVars
<1> QED
  BY <1>1, <1>3, <1>4, <1>5, SweepTypes, SweepFrame DEF creditVars, Tables, Phases

-----------------------------------------------------------------------------
(* The sweep goes from installment to installment. *)

(* Once row next has been dealt with, the rows after it are still current. *)
LEMMA GoOnInv ==
  ASSUME Inv, GoOn, UNCHANGED <<Tables, balance>>,
         phase \in {"installment", "paying", "fine"},
         phase = "installment" => next <= Len(plan),
         payment' = NoPayment, faults' \in 0 .. MaxFaults
  PROVE  Inv'
<1>1. phase' = "installment" /\ next' = next + 1 /\ UNCHANGED <<todo, plan>>
  BY DEF GoOn
<1>2. PaymentOK' /\ CopyIsCurrent'
  BY <1>1 DEF PaymentOK, CopyIsCurrent
<1>3. PlanOK'
  BY <1>1 DEF Inv, PlanOK, CurrentFrom, Current, Tables, TypeOK
<1> QED
  BY <1>1, <1>2, <1>3, SweepTypes, SweepFrame DEF Phases

(* A payment begins only for a row that is unpaid and overdue. *)
LEMMA VisitInstallmentInv ==
  ASSUME Inv, VisitInstallment
  PROVE  Inv'
<1>1. phase = "installment" /\ next <= Len(plan) /\ UNCHANGED <<Tables, balance, faults>>
  BY DEF VisitInstallment, Tables
<1>2. CASE ~plan[next].isPaid /\ Overdue(Current, next)
  <2>1. /\ BeginPayment(Current, plan[next].due) /\ phase' = "paying"
        /\ UNCHANGED <<todo, plan, next>>
    BY <1>2 DEF VisitInstallment
  <2>2. Current \in Loans /\ Current \in CreditIds /\ next \in DOMAIN plan
    BY <1>1, Within DEF Inv, TypeOK
  <2>8. plan[next].due \in Int
    <3>1. plan \in Seq(Installment)
      BY DEF Inv, TypeOK
    <3>2. plan[next] \in Installment
      BY <2>2, <3>1
    <3> QED
      BY <3>2 DEF Installment
  <2>3. payment' = [stage |-> IF plan[next].due > 0 THEN "read" ELSE "failed",
                    credit |-> Current, amount |-> plan[next].due, seen |-> 0]
    BY <2>1 DEF BeginPayment
  <2>4. payment' \in PaymentType
    BY <2>2, <2>3, <2>8 DEF PaymentType, Stages
  <2>5. PaymentOK'
    BY <1>1, <2>1, <2>2, <2>3 DEF PaymentOK, Current, Tables, Running
  <2>6. PlanOK'
    BY <1>1, <1>2, <2>1 DEF Inv, PlanOK, CurrentFrom, Current, Tables, Overdue, DueDate, TypeOK
  <2>7. CopyIsCurrent'
    BY <1>1, <2>1, <2>2 DEF Inv, PlanOK, CurrentFrom, CopyIsCurrent, Current, Tables, TypeOK
  <2> QED
    BY <1>1, <2>1, <2>4, <2>5, <2>6, <2>7, SweepTypes, SweepFrame DEF Phases
<1>3. CASE ~(~plan[next].isPaid /\ Overdue(Current, next))
  <2>1. GoOn /\ payment' = NoPayment
    BY <1>1, <1>3 DEF VisitInstallment, Inv, PaymentOK
  <2> QED
    BY <1>1, <2>1, SweepTypes, GoOnInv
<1> QED
  BY <1>2, <1>3

(* A credit is left when its rows have been looked at. *)
LEMMA EndCreditInv ==
  ASSUME Inv, EndCredit
  PROVE  Inv'
<1>1. todo # <<>> /\ phase # "paying"
  BY DEF EndCredit, Inv, PlanOK
<1> QED
  BY <1>1, SweepTypes, LeaveCreditInv DEF EndCredit

(* The payment has not touched the row that is fined. *)
LEMMA PaymentResultInv ==
  ASSUME Inv, PaymentResult
  PROVE  Inv'
<1>1. /\ phase = "paying" /\ payment' = NoPayment
      /\ UNCHANGED <<Tables, balance, faults>>
  BY DEF PaymentResult, Tables
<1>2. CASE payment.stage = "insufficient"
  <2>1. phase' = "fine" /\ UNCHANGED <<todo, plan, next>>
    BY <1>2 DEF PaymentResult
  <2>2. PaymentOK'
    BY <1>1, <2>1 DEF PaymentOK
  <2>3. PlanOK'
    BY <1>1, <2>1 DEF Inv, PlanOK, CurrentFrom, Current, Tables, Overdue, DueDate
  <2>4. CopyIsCurrent'
    BY <1>1, <1>2, <2>1 DEF Inv, CopyIsCurrent, Current, Tables
  <2> QED
    BY <1>1, <2>1, <2>2, <2>3, <2>4, SweepTypes, SweepFrame DEF Phases
<1>3. CASE payment.stage # "insufficient"
  BY <1>1, <1>3, SweepTypes, GoOnInv DEF PaymentResult
<1> QED
  BY <1>2, <1>3

(* A fine that could not be written, or that had not to be followed by a   *)
(* change of the credit. *)
LEMMA AfterFineInv ==
  ASSUME Inv, AfterFine, UNCHANGED creditVars, phase = "fine", faults' \in 0 .. MaxFaults
  PROVE  Inv'
<1>1. payment' = NoPayment /\ UNCHANGED <<Tables, balance>>
  BY DEF Inv, PaymentOK, creditVars, Tables
<1>2. CASE Head(todo).row.status = "active"
  <2>1. phase' = "overdue" /\ UNCHANGED <<todo, plan, next>>
    BY <1>2 DEF AfterFine
  <2>2. PaymentOK' /\ CopyIsCurrent'
    BY <1>1, <2>1 DEF PaymentOK, CopyIsCurrent
  <2>3. PlanOK'
    BY <1>1, <1>2, <2>1 DEF Inv, PlanOK, CurrentFrom, Current, Tables
  <2> QED
    BY <1>1, <2>1, <2>2, <2>3, SweepTypes, SweepFrame DEF Phases
<1>3. CASE Head(todo).row.status # "active"
  BY <1>1, <1>3, GoOnInv DEF AfterFine
<1> QED
  BY <1>2, <1>3

(* The copy of a credit is marked overdue, whatever becomes of the row. *)
LEMMA MarkedCopy ==
  ASSUME Inv, phase = "overdue",
         todo' = [todo EXCEPT ![1].row.status = "overdue"]
  PROVE  /\ todo' \in Seq(Copies) /\ todo' # <<>> /\ Current' = Current
         /\ \A i \in DOMAIN todo' : CopyOK(todo'[i])
<1>1. todo # <<>> /\ Head(todo).row.status = "active"
  BY DEF Inv, PlanOK
<1>2. /\ Head(todo) = todo[1] /\ Head(todo) \in Copies /\ 1 \in DOMAIN todo
      /\ CopyOK(todo[1])
  BY <1>1, Visited
<1>3. [todo[1] EXCEPT !.row.status = "overdue"] \in Copies
  BY <1>2 DEF Copies, Credit, Statuses
<1>4. todo' = [todo EXCEPT ![1] = [todo[1] EXCEPT !.row.status = "overdue"]]
  OBVIOUS
<1>5. todo' \in Seq(Copies) /\ todo' # <<>> /\ DOMAIN todo' = DOMAIN todo
  BY <1>1, <1>2, <1>3, <1>4, SweepTypes
<1>6. Current' = Current
  BY <1>1, <1>2, <1>4, <1>5, SweepTypes DEF Current, Copies
<1>7. CopyOK([todo[1] EXCEPT !.row.status = "overdue"])
  BY <1>1, <1>2 DEF CopyOK, Copies, Credit, Statuses
<1> QED
  BY <1>2, <1>4, <1>5, <1>6, <1>7, SweepTypes

(* The copy is marked even though the row is not. *)
LEMMA FailMarkOverdueInv ==
  ASSUME Inv, FailMarkOverdue
  PROVE  Inv'
<1>1. /\ phase = "overdue" /\ phase' = "installment" /\ next' = next + 1
      /\ todo' = [todo EXCEPT ![1].row.status = "overdue"]
      /\ UNCHANGED <<Tables, balance>> /\ UNCHANGED <<payment, plan>>
  BY DEF FailMarkOverdue, creditVars, Tables
<1>2. faults' \in 0 .. MaxFaults
  BY FaultType DEF FailMarkOverdue
<1>3. PaymentOK' /\ CopyIsCurrent'
  BY <1>1 DEF Inv, PaymentOK, CopyIsCurrent
<1>4. PlanOK'
  BY <1>1, MarkedCopy DEF Inv, PlanOK, CurrentFrom, Tables, TypeOK
<1>5. todo' \in Seq(Copies) /\ \A i \in DOMAIN todo' : CopyOK(todo'[i])
  BY <1>1, MarkedCopy
<1>6. /\ payment' \in PaymentType /\ phase' \in Phases
      /\ plan' \in Seq(Installment) /\ next' \in Nat
  BY <1>1, SweepTypes DEF Phases
<1> QED
  BY <1>1, <1>2, <1>3, <1>4, <1>5, <1>6, SweepFrame

(* After a crash nothing is left of the sweep or the payment. *)
LEMMA CrashInv ==
  ASSUME Inv, Crash
  PROVE  Inv'
<1>1. /\ phase' = "waiting" /\ todo' = <<>> /\ plan' = <<>> /\ next' = 0
      /\ payment' = NoPayment /\ UNCHANGED <<Tables, balance>>
  BY DEF Crash, Tables
<1>2. PaymentOK' /\ PlanOK' /\ CopyIsCurrent'
  BY <1>1 DEF PaymentOK, PlanOK, CopyIsCurrent
<1>3. faults' \in 0 .. MaxFaults
  BY FaultType DEF Crash
<1> QED
  BY <1>1, <1>2, <1>3, SweepTypes, SweepFrame DEF Phases

-----------------------------------------------------------------------------
(* The payment, before it takes effect. *)

(* The stage of a payment changes, and nothing else. *)
LEMMA StageInv ==
  ASSUME Inv, phase = "paying", NEW stage \in Stages \ {"idle"}, NEW seen \in Nat,
         payment' = [payment EXCEPT !.stage = stage, !.seen = seen],
         stage \in Running => payment.stage \in Running,
         stage \in {"debit", "settle"} => seen \in payment.amount .. MaxBalance,
         faults' \in 0 .. MaxFaults,
         UNCHANGED <<Tables, balance, sweepVars>>
  PROVE  Inv'
<1>1. payment \in PaymentType /\ payment.credit = Current
  BY SweepTypes DEF Inv, PaymentOK
<1>2. payment' = [stage |-> stage, credit |-> Current, amount |-> payment.amount, seen |-> seen]
  BY <1>1 DEF PaymentType
<1>3. payment' \in PaymentType
  BY <1>1, <1>2 DEF PaymentType
<1>4. Current' = Current
  BY DEF Current, sweepVars
<1>5. PaymentOK'
  BY <1>2, <1>4 DEF Inv, PaymentOK, Tables, sweepVars
<1>6. PlanOK'
  BY <1>4 DEF Inv, PlanOK, CurrentFrom, Overdue, DueDate, Tables, sweepVars
<1>7. CopyIsCurrent'
  BY <1>2, <1>4 DEF Inv, CopyIsCurrent, Running, Tables, sweepVars
<1> QED
  BY <1>3, <1>5, <1>6, <1>7, SweepTypes, SweepFrame DEF sweepVars

(* A payment that is running belongs to the sweep. *)
LEMMA PayingPhase ==
  ASSUME Inv, payment.stage # "idle"
  PROVE  /\ phase = "paying" /\ payment.credit = Current
         /\ payment.stage \in Running => payment.amount = plan[next].due /\ payment.amount > 0
         /\ Current \in Loans
         /\ payment \in PaymentType
<1>1. phase = "paying"
  BY DEF Inv, PaymentOK, NoPayment
<1> QED
  BY <1>1, SweepTypes, Within DEF Inv, PaymentOK

(* A payment goes on only with a balance that covers it. *)
LEMMA ReadForPaymentInv ==
  ASSUME Inv, ReadForPayment, UNCHANGED <<sweepVars, faults>>
  PROVE  Inv'
<1>1. payment.stage = "read" /\ UNCHANGED <<Tables, balance>>
  BY DEF ReadForPayment, Paying, Tables
<1>2. phase = "paying" /\ payment.credit = Current /\ Current \in Loans /\ payment \in PaymentType
  BY <1>1, PayingPhase
<1> DEFINE c == credit[Current]
<1>3. c.acct \in Accounts /\ payment.amount \in Int
  BY <1>2, LoanRow DEF Inv, TypeOK, PaymentType
<1>4. balance[c.acct] \in 0 .. MaxBalance
  BY <1>3 DEF Inv, TypeOK, CreditTypeOK
<1>5. CASE balance[c.acct] < payment.amount
  <2>1. payment' = [payment EXCEPT !.stage = "insufficient"]
    BY <1>2, <1>5 DEF ReadForPayment, GetCreditByID
  <2>2. payment' = [payment EXCEPT !.stage = "insufficient", !.seen = payment.seen]
    BY <1>2, <2>1 DEF PaymentType
  <2>3. payment.seen \in Nat
    BY <1>2 DEF PaymentType
  <2> QED
    BY <1>1, <1>2, <2>2, <2>3, StageInv, SweepTypes DEF Running, Stages
<1>6. CASE ~(balance[c.acct] < payment.amount)
  <2>1. payment' = [payment EXCEPT !.stage = "debit", !.seen = balance[c.acct]]
    BY <1>2, <1>6 DEF ReadForPayment, GetCreditByID
  <2>2. balance[c.acct] \in Nat /\ balance[c.acct] \in payment.amount .. MaxBalance
    BY <1>3, <1>4, <1>6
  <2> QED
    BY <1>1, <1>2, <2>1, <2>2, StageInv, SweepTypes DEF Running, Stages
<1> QED
  BY <1>5, <1>6

(* The debit is not visible before the commit. *)
LEMMA DebitAccountInv ==
  ASSUME Inv, DebitAccount, UNCHANGED <<sweepVars, faults>>
  PROVE  Inv'
<1>1. /\ payment.stage = "debit" /\ payment' = [payment EXCEPT !.stage = "settle"]
      /\ UNCHANGED <<Tables, balance>>
  BY DEF DebitAccount, Paying, Tables
<1>2. phase = "paying" /\ payment \in PaymentType
  BY <1>1, PayingPhase
<1>3. /\ payment' = [payment EXCEPT !.stage = "settle", !.seen = payment.seen]
      /\ payment.seen \in Nat
  BY <1>1, <1>2 DEF PaymentType
<1>4. payment.seen \in payment.amount .. MaxBalance
  BY <1>1, <1>2 DEF Inv, PaymentOK
<1> QED
  BY <1>1, <1>2, <1>3, <1>4, StageInv, SweepTypes DEF Running, Stages

(* A payment that failed has changed nothing. *)
LEMMA FailPaymentInv ==
  ASSUME Inv, Fault, FailPayment, UNCHANGED sweepVars
  PROVE  Inv'
<1>1. /\ payment.stage # "idle" /\ payment' = [payment EXCEPT !.stage = "failed", !.seen = 0]
      /\ UNCHANGED <<Tables, balance>>
  BY DEF FailPayment, Tables
<1>2. phase = "paying"
  BY <1>1, PayingPhase
<1> QED
  BY <1>1, <1>2, FaultType, StageInv DEF Running, Stages

-----------------------------------------------------------------------------
(* Other requests, and days that pass. *)

(* Requests only store balances. *)
LEMMA UpdateAccountInv ==
  ASSUME Inv, NEW a \in Accounts, UpdateAccount(a), UNCHANGED <<sweepVars, faults>>
  PROVE  Inv'
<1>1. UNCHANGED Tables /\ UNCHANGED payment /\ UNCHANGED <<phase, todo, plan, next, faults>>
  BY DEF UpdateAccount, Tables, sweepVars
<1>2. balance' \in [Accounts -> 0 .. MaxBalance]
  BY DEF Inv, TypeOK, CreditTypeOK, UpdateAccount
<1>3. Current' = Current
  BY <1>1 DEF Current
<1>4. TypeOK'
  <2>1. GrantsOK'
    BY <1>1, GrantsFrame DEF Inv, TypeOK, CreditTypeOK, Loans, Tables
  <2> QED
    BY <1>1, <1>2, <2>1 DEF Inv, TypeOK, CreditTypeOK, Loans, Tables
<1>5. (\A i \in DOMAIN todo : CopyOK(todo[i]))'
  BY <1>1, TablesFrame DEF Inv
<1>6. PaymentOK' /\ PlanOK' /\ CopyIsCurrent'
  BY <1>1, <1>3 DEF Inv, PaymentOK, PlanOK, CurrentFrom, Overdue, DueDate, CopyIsCurrent, Tables
<1> QED
  BY <1>1, <1>4, <1>5, <1>6, TablesFrame DEF Inv, LedgerOK

(* What is overdue stays overdue. *)
LEMMA DayInv ==
  ASSUME Inv, Day, UNCHANGED <<sweepVars, faults>>
  PROVE  Inv'
<1>1. /\ now' = now + 1 /\ now < Horizon
      /\ UNCHANGED <<balance, credit, schedule, grants, collected, payment>>
      /\ UNCHANGED <<phase, todo, plan, next, faults>>
  BY DEF Day, sweepVars
<1>2. Current' = Current /\ Loans' = Loans
  BY <1>1 DEF Current, Loans
<1>3. now \in Nat /\ now' \in 0 .. Horizon
  BY <1>1, CreditAssumption DEF Inv, TypeOK, CreditTypeOK
<1>4. TypeOK'
  <2>1. GrantsOK'
    BY <1>1, <1>2, GrantsFrame DEF Inv, TypeOK, CreditTypeOK
  <2> QED
    BY <1>1, <1>2, <1>3, <2>1 DEF Inv, TypeOK, CreditTypeOK
<1>5. TablesOK' /\ InstallmentsMatchLedger' /\ PaidInOrder' /\ NoRowPaidAgain' /\ DebtCoversLoan'
  <2>1. TablesOK'
    BY <1>1, <1>2 DEF Inv, TablesOK
  <2>2. InstallmentsMatchLedger'
    <3>1. InstallmentsMatchLedger
      BY DEF Inv
    <3> QED
      BY <1>1, <1>2, <3>1 DEF InstallmentsMatchLedger
  <2>4. PaidInOrder'
    BY <1>1, <1>2 DEF Inv, PaidInOrder
  <2>5. NoRowPaidAgain'
    <3>1. NoRowPaidAgain
      BY DEF Inv
    <3> QED
      BY <1>1, <1>2, <3>1 DEF NoRowPaidAgain
  <2>3. DebtCoversLoan'
    BY <1>1, <1>2 DEF Inv, DebtCoversLoan
  <2> QED
    BY <2>1, <2>2, <2>3, <2>4, <2>5
<1>6. \A k \in Loans : \A i \in Nat : Overdue(k, i) => Overdue(k, i)'
  <2> SUFFICES ASSUME NEW k \in Loans, NEW i \in Nat, Overdue(k, i) PROVE Overdue(k, i)'
    OBVIOUS
  <2>1. credit[k].since \in Nat
    BY LoanRow DEF Inv, TypeOK
  <2> QED
    BY <1>1, <1>3, <2>1 DEF Overdue, DueDate
<1>7. FinesOnlyOnOverdue'
  <2>1. \A k \in Loans : DOMAIN schedule[k] \subseteq Nat
    BY DEF Inv, TypeOK, CreditTypeOK
  <2> QED
    BY <1>1, <1>2, <1>6, <2>1 DEF Inv, FinesOnlyOnOverdue
<1>8. (\A i \in DOMAIN todo : CopyOK(todo[i]))'
  BY <1>1, <1>2 DEF Inv, CopyOK
<1>9. PaymentOK' /\ CopyIsCurrent'
  BY <1>1, <1>2 DEF Inv, PaymentOK, CopyIsCurrent
<1>10. PlanOK'
  <2>1. phase \in {"paying", "fine"} => Overdue(Current, next)'
    <3> SUFFICES ASSUME phase \in {"paying", "fine"} PROVE Overdue(Current, next)'
      OBVIOUS
    <3>1. Overdue(Current, next) /\ Current \in Loans /\ next \in Nat
      BY Within DEF Inv, PlanOK
    <3>2. credit[Current].since \in Nat
      BY <3>1, LoanRow DEF Inv, TypeOK
    <3> QED
      BY <1>1, <1>2, <1>3, <3>1, <3>2 DEF Overdue, DueDate
  <2> QED
    BY <1>1, <1>2, <2>1 DEF Inv, PlanOK, CurrentFrom, Overdue
<1> QED
  BY <1>4, <1>5, <1>7, <1>8, <1>9, <1>10 DEF Inv

-----------------------------------------------------------------------------
(* A loan is granted. *)

(* An installment is a number of kopecks. *)
LEMMA AmountDueType ==
  ASSUME NEW app \in Applications, app.term > 0, NEW i
  PROVE  AmountDue(app, i) \in Int
<1>1. /\ app.amount \in Int /\ app.interest \in Int /\ app.term \in Int
      /\ app.residue \in Int
  BY CreditAssumption DEF Application
<1>2. \A n \in Int, d \in Int : d > 0 => n \div (2 * d) \in Int
  OBVIOUS
<1>3. Rounded(app.amount + app.interest, app.term) \in Int
  BY <1>1, <1>2 DEF Rounded
<1> QED
  BY <1>1, <1>3 DEF AmountDue

(* Rows nobody has paid or fined yet. *)
Untouched(rows) ==
  \A i \in DOMAIN rows : rows[i].due \in Int /\ rows[i] = Unpaid(rows[i].due)

(* A loan is granted: a row that owes what was granted, and a schedule of  *)
(* unpaid installments.                                                    *)
LEMMA GrantedLoan ==
  ASSUME Inv, NEW k \in CreditIds, ApplyForCredit(k)
  PROVE  \E row \in Credit, rows \in Seq(Installment) :
           /\ row # NoCredit
           /\ row.outstanding = row.granted /\ row.status = "active" /\ ~row.closed
           /\ credit' = [credit EXCEPT ![k] = row]
           /\ grants' = [grants EXCEPT ![row.owner] = <<k>> \o @]
           /\ rows # <<>> /\ Untouched(rows)
           /\ schedule' = [schedule EXCEPT ![k] = rows]
<1>1. PICK app \in Applications :
        /\ app.amount > 0 /\ app.term > 0
        /\ CreateCredit(k,
             [owner |-> Applicant(app), acct |-> app.acct, granted |-> app.amount,
              outstanding |-> app.amount, status |-> "active", closed |-> FALSE,
              since |-> now])
        /\ schedule' = [schedule EXCEPT ![k] =
                          [i \in 1 .. app.term |-> Unpaid(AmountDue(app, i))]]
  BY DEF ApplyForCredit
<1> DEFINE row == [owner |-> Applicant(app), acct |-> app.acct, granted |-> app.amount,
                   outstanding |-> app.amount, status |-> "active", closed |-> FALSE,
                   since |-> now]
           rows == [i \in 1 .. app.term |-> Unpaid(AmountDue(app, i))]
<1>2. /\ app.acct \in Accounts /\ app.amount \in Int /\ app.amount > 0
      /\ app.term \in Nat \ {0}
  BY <1>1, CreditAssumption DEF Application
<1>3. Applicant(app) \in Borrowers
  BY <1>2 DEF Applicant, Borrowers
<1>4. now \in Nat
  BY CreditAssumption DEF Inv, TypeOK, CreditTypeOK
<1>5. row \in Credit
  BY <1>2, <1>3, <1>4 DEF Credit, Statuses
<1>6. row # NoCredit
  BY <1>5, CreditAssumption
<1>7. row.outstanding = row.granted /\ row.status = "active" /\ ~row.closed
  OBVIOUS
<1>8. /\ credit' = [credit EXCEPT ![k] = row]
      /\ grants' = [grants EXCEPT ![row.owner] = <<k>> \o @]
  BY <1>1 DEF CreateCredit
<1>9. \A i : AmountDue(app, i) \in Int
  BY <1>1, AmountDueType
<1>10. \A due \in Int : Unpaid(due) \in Installment /\ Unpaid(due).due = due
  BY CreditAssumption DEF Unpaid, Installment
<1>11. rows \in Seq(Installment) /\ rows # <<>>
  BY <1>2, <1>9, <1>10
<1>12. Untouched(rows)
  BY <1>9, <1>10 DEF Untouched
<1>13. schedule' = [schedule EXCEPT ![k] = rows]
  BY <1>1
<1> HIDE DEF row, rows
<1> QED
  BY <1>5, <1>6, <1>7, <1>8, <1>11, <1>12, <1>13

(* A new loan disturbs none that is there. *)
LEMMA ApplyForCreditInv ==
  ASSUME Inv, NEW k \in CreditIds, ApplyForCredit(k), UNCHANGED <<sweepVars, faults>>
  PROVE  Inv'
<1>1. PICK row \in Credit, rows \in Seq(Installment) :
        /\ row # NoCredit
        /\ row.outstanding = row.granted /\ row.status = "active" /\ ~row.closed
        /\ credit' = [credit EXCEPT ![k] = row]
        /\ grants' = [grants EXCEPT ![row.owner] = <<k>> \o @]
        /\ rows # <<>> /\ Untouched(rows)
        /\ schedule' = [schedule EXCEPT ![k] = rows]
  BY GrantedLoan
<1>2. /\ k \notin Loans
      /\ UNCHANGED <<balance, collected, now, payment>>
      /\ UNCHANGED <<phase, todo, plan, next, faults>>
  BY DEF ApplyForCredit, Loans, sweepVars
<1>3. row.owner \in Borrowers /\ row.granted \in Nat
  BY DEF Credit
<1>4. rows \in Seq(Installment) /\ rows # <<>>
  BY <1>1
<1>6. credit' \in [CreditIds -> Credit \cup {NoCredit}] /\ Loans' = Loans \cup {k}
  BY <1>1 DEF Inv, TypeOK, CreditTypeOK, Loans
<1>7. schedule' = [schedule EXCEPT ![k] = rows]
  BY <1>1
<1>8. schedule' \in [CreditIds -> Seq(Installment)]
  BY <1>4, <1>7 DEF Inv, TablesOK
<1>9. \A l \in Loans : credit'[l] = credit[l] /\ schedule'[l] = schedule[l]
  BY <1>1, <1>2, <1>7 DEF Loans, Inv, TypeOK, CreditTypeOK, TablesOK
<1>10. /\ credit'[k] = row /\ schedule'[k] = rows /\ collected'[k] = 0
       /\ \A i \in DOMAIN rows : /\ rows[i].due \in Int /\ rows[i].paid = 0
                                  /\ ~rows[i].isPaid /\ rows[i].fines = 0
  <2>1. \A i \in DOMAIN rows : /\ rows[i].due \in Int /\ rows[i].paid = 0
                                /\ ~rows[i].isPaid /\ rows[i].fines = 0
    BY <1>1 DEF Untouched, Unpaid
  <2> QED
    BY <1>1, <1>2, <1>7, <2>1 DEF Inv, TypeOK, CreditTypeOK, TablesOK
<1>11. GrantsOK'
  <2> DEFINE ids == grants[row.owner]
             new == <<k>> \o ids
  <2>1. /\ grants \in [Borrowers -> Seq(Loans)] /\ grants \in [Borrowers -> Seq(Loans')]
        /\ \A user \in Borrowers :
             /\ {grants[user][i] : i \in DOMAIN grants[user]} = {l \in Loans : credit[l].owner = user}
             /\ \A i, j \in DOMAIN grants[user] : grants[user][i] = grants[user][j] => i = j
    <3>1. \A s \in Seq(Loans) : s \in Seq(Loans')
      BY <1>6
    <3> QED
      BY <3>1 DEF Inv, TypeOK, CreditTypeOK, GrantsOK
  <2>2. ids \in Seq(Loans) /\ ids \in Seq(Loans')
    BY <1>3, <2>1
  <2>3. /\ new \in Seq(Loans') /\ DOMAIN new = 1 .. Len(ids) + 1 /\ Len(ids) \in Nat
        /\ new[1] = k /\ DOMAIN ids = 1 .. Len(ids)
        /\ \A i \in DOMAIN ids : i + 1 \in DOMAIN new /\ new[i + 1] = ids[i] /\ ids[i] # k
        /\ \A i \in DOMAIN new : i # 1 => i - 1 \in DOMAIN ids /\ new[i] = ids[i - 1]
    BY <1>2, <1>6, <2>2
  <2>4. /\ grants' \in [Borrowers -> Seq(Loans')]
        /\ grants'[row.owner] = new
        /\ \A user \in Borrowers : user # row.owner => grants'[user] = grants[user]
    BY <1>1, <1>3, <2>1, <2>3
  <2>5. \A i, j \in DOMAIN new : new[i] = new[j] => i = j
    <3>1. \A i, j \in DOMAIN ids : ids[i] = ids[j] => i = j
      BY <1>3, <2>1
    <3> SUFFICES ASSUME NEW i \in DOMAIN new, NEW j \in DOMAIN new, new[i] = new[j]
                 PROVE  i = j
      OBVIOUS
    <3> QED
      BY <2>3, <3>1
  <2>6. {new[i] : i \in DOMAIN new} = {ids[i] : i \in DOMAIN ids} \cup {k}
    BY <2>3
  <2>7. {new[i] : i \in DOMAIN new} = {l \in Loans' : credit'[l].owner = row.owner}
    <3>1. {ids[i] : i \in DOMAIN ids} = {l \in Loans : credit[l].owner = row.owner}
      BY <1>3, <2>1
    <3> QED
      BY <1>6, <1>9, <1>10, <2>6, <3>1
  <2> HIDE DEF new
  <2>8. \A user \in Borrowers :
          /\ {grants'[user][i] : i \in DOMAIN grants'[user]}
                = {l \in Loans' : credit'[l].owner = user}
          /\ \A i, j \in DOMAIN grants'[user] : grants'[user][i] = grants'[user][j] => i = j
    <3> SUFFICES ASSUME NEW user \in Borrowers
                 PROVE  /\ {grants'[user][i] : i \in DOMAIN grants'[user]}
                              = {l \in Loans' : credit'[l].owner = user}
                        /\ \A i, j \in DOMAIN grants'[user] :
                             grants'[user][i] = grants'[user][j] => i = j
      OBVIOUS
    <3>1. CASE user = row.owner
      BY <2>4, <2>5, <2>7, <3>1
    <3>2. CASE user # row.owner
      <4>1. {l \in Loans' : credit'[l].owner = user} = {l \in Loans : credit[l].owner = user}
        BY <1>2, <1>6, <1>9, <1>10, <3>2
      <4> QED
        BY <2>1, <2>4, <3>2, <4>1
    <3> QED
      BY <3>1, <3>2
  <2> QED
    BY <2>4, <2>8 DEF GrantsOK
<1>12. TypeOK'
  <2>1. \A l \in Loans' : schedule'[l] \in Seq(Installment) /\ schedule'[l] # <<>>
    BY <1>4, <1>6, <1>9, <1>10 DEF Inv, TypeOK, CreditTypeOK
  <2>2. CreditTypeOK'
    BY <1>2, <1>6, <1>11, <2>1 DEF Inv, TypeOK, CreditTypeOK
  <2> QED
    BY <1>2, <2>2 DEF Inv, TypeOK
<1>13. TablesOK'
  BY <1>2, <1>6, <1>7, <1>8 DEF Inv, TablesOK
<1>14. InstallmentsMatchLedger'
  <2>1. \A l \in Loans : PaidOf(schedule'[l]) = PaidOf(schedule[l]) /\ collected'[l] = collected[l]
    BY <1>2, <1>9 DEF PaidOf
  <2>2. PaidOf(schedule'[k]) = [i \in DOMAIN rows |-> 0]
    BY <1>10 DEF PaidOf
  <2>3. SumFunction([i \in DOMAIN rows |-> 0]) = 0
    <3>1. IsFiniteSet(DOMAIN rows)
      BY <1>4, SequenceIsFinite
    <3> QED
      BY <3>1, SumOfZeros
  <2>4. /\ \A l \in Loans : collected[l] = SumFunction(PaidOf(schedule[l]))
        /\ \A l \in Loans : RowsSettled(schedule[l])
    BY LedgerParts DEF Inv
  <2>5. \A l \in Loans : RowsSettled(schedule'[l])
    BY <1>9, <2>4 DEF RowsSettled
  <2>6. RowsSettled(schedule'[k])
    BY <1>10 DEF RowsSettled
  <2>7. \A l \in Loans' : collected'[l] = SumFunction(PaidOf(schedule'[l]))
    BY <1>6, <1>10, <2>1, <2>2, <2>3, <2>4
  <2> QED
    BY <1>6, <2>5, <2>6, <2>7 DEF InstallmentsMatchLedger, PaidOf, RowsSettled
<1>15. PaidInOrder'
  BY <1>6, <1>9, <1>10 DEF Inv, PaidInOrder
<1>23. NoRowPaidAgain'
  <2>1. NoRowPaidAgain
    BY DEF Inv
  <2> QED
    BY <1>6, <1>9, <1>10, <2>1 DEF NoRowPaidAgain
<1>16. FinesOnlyOnOverdue'
  BY <1>2, <1>6, <1>9, <1>10 DEF Inv, FinesOnlyOnOverdue, Overdue, DueDate
<1>17. DebtCoversLoan'
  <2>1. \A l \in Loans : LET c == credit'[l]
          IN  /\ c.outstanding >= c.granted - collected'[l]
              /\ c.status = "active" => c.outstanding = c.granted - collected'[l]
              /\ c.status = "paid" => c.outstanding = 0 /\ collected'[l] >= c.granted
              /\ c.closed <=> c.status = "paid"
    BY <1>2, <1>9 DEF Inv, DebtCoversLoan
  <2>2. LET c == credit'[k]
          IN  /\ c.outstanding >= c.granted - collected'[k]
              /\ c.status = "active" => c.outstanding = c.granted - collected'[k]
              /\ c.status = "paid" => c.outstanding = 0 /\ collected'[k] >= c.granted
              /\ c.closed <=> c.status = "paid"
    BY <1>1, <1>3, <1>10
  <2> QED
    BY <1>6, <2>1, <2>2 DEF DebtCoversLoan
<1>18. (\A i \in DOMAIN todo : CopyOK(todo[i]))'
  BY <1>2, <1>6, <1>9 DEF Inv, CopyOK
<1>19. todo # <<>> => /\ Current' = Current /\ Current \in Loans
                     /\ credit'[Current] = credit[Current]
                     /\ schedule'[Current] = schedule[Current]
  BY <1>2, <1>9, Visited DEF Current
<1>20. PaymentOK'
  BY <1>2, <1>19 DEF Inv, PaymentOK, PlanOK
<1>21. PlanOK'
  BY <1>2, <1>19 DEF Inv, PlanOK, CurrentFrom, Overdue, DueDate
<1>22. CopyIsCurrent'
  BY <1>2, <1>19 DEF Inv, PlanOK, CopyIsCurrent
<1> QED
  BY <1>12, <1>13, <1>14, <1>15, <1>16, <1>17, <1>18, <1>20, <1>21, <1>22, <1>23 DEF Inv

-----------------------------------------------------------------------------
(* The statements that write credits and schedules. *)

(* UPDATE credits changes three columns of one row. *)
LEMMA UpdateCreditRow ==
  ASSUME CreditTypeOK, NEW k \in Loans, NEW row \in Credit, UpdateCredit(k, row)
  PROVE  /\ credit' \in [CreditIds -> Credit \cup {NoCredit}]
         /\ Loans' = Loans
         /\ \A l \in Loans : l # k => credit'[l] = credit[l]
         /\ \A l \in Loans : /\ credit'[l].owner = credit[l].owner
                             /\ credit'[l].granted = credit[l].granted
                             /\ credit'[l].acct = credit[l].acct
                             /\ credit'[l].since = credit[l].since
         /\ credit'[k].status = row.status
         /\ credit'[k].outstanding = row.outstanding
         /\ credit'[k].closed = row.closed
<1>1. credit[k] \in Credit /\ k \in CreditIds
  BY LoanRow
<1> DEFINE new == [credit[k] EXCEPT !.status = row.status, !.outstanding = row.outstanding,
                                   !.closed = row.closed]
<1>2. new \in Credit /\ new # NoCredit
  <2>1. new \in Credit
    BY <1>1 DEF Credit
  <2> QED
    BY <2>1, CreditAssumption
<1>3. credit \in [CreditIds -> Credit \cup {NoCredit}]
  BY DEF CreditTypeOK
<1>4. credit' = [credit EXCEPT ![k] = new]
  BY <1>1, <1>3 DEF UpdateCredit
<1>5. /\ new.owner = credit[k].owner /\ new.granted = credit[k].granted
      /\ new.acct = credit[k].acct /\ new.since = credit[k].since
      /\ new.status = row.status /\ new.outstanding = row.outstanding
      /\ new.closed = row.closed
  BY <1>1 DEF Credit
<1> HIDE DEF new
<1>6. Loans' = Loans
  BY <1>1, <1>2, <1>3, <1>4 DEF Loans
<1> QED
  BY <1>1, <1>2, <1>3, <1>4, <1>5, <1>6 DEF Loans

(* UPDATE payment_schedules changes one row of one schedule. *)
LEMMA UpdateScheduleRow ==
  ASSUME TablesOK, NEW k \in CreditIds, NEW i \in DOMAIN schedule[k],
         NEW row \in Installment, UpdatePaymentSchedule(k, i, row)
  PROVE  /\ schedule' \in [CreditIds -> Seq(Installment)]
         /\ \A l \in CreditIds : DOMAIN schedule'[l] = DOMAIN schedule[l]
         /\ \A l \in CreditIds : Len(schedule'[l]) = Len(schedule[l])
         /\ \A l \in CreditIds : l # k => schedule'[l] = schedule[l]
         /\ \A j \in DOMAIN schedule[k] : j # i => schedule'[k][j] = schedule[k][j]
         /\ schedule'[k][i] = row
         /\ DOMAIN schedule[k] \subseteq Nat
<1>1. schedule \in [CreditIds -> Seq(Installment)]
  BY DEF TablesOK
<1> DEFINE rows == [schedule[k] EXCEPT ![i] = row]
<1>2. schedule[k] \in Seq(Installment)
  BY <1>1
<1>3. /\ rows \in Seq(Installment)
      /\ DOMAIN rows = DOMAIN schedule[k]
      /\ Len(rows) = Len(schedule[k])
      /\ rows[i] = row
      /\ \A j \in DOMAIN schedule[k] : j # i => rows[j] = schedule[k][j]
  BY <1>2
<1>4. schedule' = [schedule EXCEPT ![k] = rows]
  BY <1>1 DEF UpdatePaymentSchedule
<1>5. DOMAIN schedule[k] \subseteq Nat
  BY <1>2
<1> HIDE DEF rows
<1> QED
  BY <1>1, <1>3, <1>4, <1>5

(* The smaller of two numbers, by the definition of Min. *)
LEMMA MinOfTwo ==
  ASSUME NEW a \in Int, NEW b \in Int
  PROVE  Min({a, b}) = IF a <= b THEN a ELSE b
BY DEF Min

-----------------------------------------------------------------------------
(* A fine. *)

(* A fine changes nothing but the fines of a row that is unpaid. *)
LEMMA FineInstallmentInv ==
  ASSUME Inv, FineInstallment
  PROVE  Inv'
<1> DEFINE k == Current
           old == schedule[k][next]
           row == AddFine(plan[next])
<1>1. /\ phase = "fine" /\ UpdatePaymentSchedule(k, next, row) /\ AfterFine
      /\ UNCHANGED <<balance, credit, grants, collected, now, payment, faults>>
  BY DEF FineInstallment
<1>2. /\ todo # <<>> /\ k \in Loans /\ k \in CreditIds /\ next \in DOMAIN schedule[k]
      /\ next \in DOMAIN plan /\ next \in Nat /\ next >= 1
  BY <1>1, Within
<1>3. plan[next] = old /\ ~old.isPaid /\ Overdue(k, next)
  BY <1>1 DEF Inv, CopyIsCurrent, PlanOK
<1>4. old \in Installment
  BY <1>2 DEF Inv, TablesOK
<1>5. /\ row \in Installment /\ row.paid = old.paid /\ row.isPaid = old.isPaid
      /\ row.due = old.due
  <2>1. old.fines \in 0 .. MaxFines /\ MaxFines \in Nat
    BY <1>4, CreditAssumption DEF Installment
  <2>2. Min({old.fines + 1, MaxFines}) \in 0 .. MaxFines
    BY <2>1, MinOfTwo
  <2>3. row = [old EXCEPT !.fines = Min({old.fines + 1, MaxFines})]
    BY <1>3 DEF AddFine
  <2> QED
    BY <1>4, <2>2, <2>3 DEF Installment
<1> HIDE DEF row
<1>6. /\ schedule' \in [CreditIds -> Seq(Installment)]
      /\ \A l \in CreditIds : DOMAIN schedule'[l] = DOMAIN schedule[l]
      /\ \A l \in CreditIds : Len(schedule'[l]) = Len(schedule[l])
      /\ \A l \in CreditIds : l # k => schedule'[l] = schedule[l]
      /\ \A j \in DOMAIN schedule[k] : j # next => schedule'[k][j] = schedule[k][j]
      /\ schedule'[k][next] = row
      /\ DOMAIN schedule[k] \subseteq Nat
  BY <1>1, <1>2, <1>5, UpdateScheduleRow DEF Inv
<1>7. Loans' = Loans /\ Loans \subseteq CreditIds
  BY <1>1 DEF Loans
<1>8. \A l \in Loans : \A i \in DOMAIN schedule[l] :
        /\ schedule'[l][i].isPaid = schedule[l][i].isPaid
        /\ schedule'[l][i].paid = schedule[l][i].paid
        /\ schedule'[l][i].due = schedule[l][i].due
        /\ schedule'[l][i].fines # schedule[l][i].fines => l = k /\ i = next
  BY <1>5, <1>6, <1>7
<1> HIDE DEF k, old
<1>9. TypeOK'
  <2>1. \A l \in Loans' : schedule'[l] \in Seq(Installment) /\ schedule'[l] # <<>>
    <3>1. \A rows \in Seq(Installment) : rows # <<>> <=> Len(rows) # 0
      OBVIOUS
    <3>2. \A l \in Loans : schedule[l] \in Seq(Installment) /\ Len(schedule[l]) # 0
      BY <3>1 DEF Inv, TypeOK, CreditTypeOK
    <3> QED
      BY <1>6, <1>7, <3>1, <3>2
  <2>2. GrantsOK'
    BY <1>1, <1>7, GrantsFrame DEF Inv, TypeOK, CreditTypeOK
  <2>3. CreditTypeOK'
    BY <1>1, <1>7, <2>1, <2>2 DEF Inv, TypeOK, CreditTypeOK
  <2> QED
    BY <1>1, <1>2, <2>3 DEF Inv, TypeOK, AfterFine, GoOn, Phases
<1>10. TablesOK'
  BY <1>1, <1>2, <1>6, <1>7 DEF Inv, TablesOK
<1>11. InstallmentsMatchLedger'
  <2>1. \A l \in Loans : PaidOf(schedule'[l]) = PaidOf(schedule[l])
    BY <1>6, <1>7, <1>8 DEF PaidOf
  <2>2. \A l \in Loans : collected[l] = SumFunction(PaidOf(schedule[l])) /\ RowsSettled(schedule[l])
    BY LedgerParts DEF Inv
  <2>3. \A l \in Loans : RowsSettled(schedule'[l])
    BY <1>6, <1>7, <1>8, <2>2 DEF RowsSettled
  <2>4. \A l \in Loans' : collected'[l] = SumFunction(PaidOf(schedule'[l]))
    BY <1>1, <1>7, <2>1, <2>2
  <2> QED
    BY <1>7, <2>3, <2>4 DEF InstallmentsMatchLedger, PaidOf, RowsSettled
<1>12. PaidInOrder' /\ NoRowPaidAgain'
  <2>1. PaidInOrder'
    BY <1>6, <1>7, <1>8 DEF Inv, PaidInOrder
  <2>2. NoRowPaidAgain
    BY DEF Inv
  <2>3. NoRowPaidAgain'
    BY <1>6, <1>7, <1>8, <2>2 DEF NoRowPaidAgain
  <2> QED
    BY <2>1, <2>3
<1>13. FinesOnlyOnOverdue'
  <2>1. \A l \in Loans, i \in Nat : Overdue(l, i)' = Overdue(l, i)
    BY <1>1 DEF Overdue, DueDate
  <2>2. ~schedule'[k][next].isPaid /\ Overdue(k, next)
    BY <1>3, <1>5, <1>6 DEF old
  <2>3. \A l \in Loans : \A i \in DOMAIN schedule[l] : i \in Nat
    BY <1>7 DEF Inv, TablesOK
  <2> QED
    BY <1>6, <1>7, <1>8, <2>1, <2>2, <2>3 DEF Inv, FinesOnlyOnOverdue
<1>14. DebtCoversLoan'
  BY <1>1, <1>7 DEF Inv, DebtCoversLoan
<1>15. UNCHANGED <<todo, plan>> /\ Current' = Current
  BY <1>1 DEF AfterFine, GoOn, Current
<1>16. (\A i \in DOMAIN todo : CopyOK(todo[i]))'
  BY <1>1, <1>7, <1>15 DEF Inv, CopyOK
<1>17. PaymentOK' /\ CopyIsCurrent'
  BY <1>1 DEF Inv, PaymentOK, CopyIsCurrent, AfterFine, GoOn
<1>18. PlanOK'
  <2>1. \A j \in DOMAIN plan : j >= next + 1 => plan[j] = schedule'[k][j]
    BY <1>1, <1>2, <1>6, Within DEF Inv, PlanOK, CurrentFrom, k
  <2>2. Len(plan) = Len(schedule'[k])
    BY <1>1, <1>2, <1>6 DEF Inv, PlanOK, k
  <2>3. next <= Len(plan)
    BY <1>1 DEF Inv, PlanOK
  <2>4. CASE Head(todo).row.status = "active"
    BY <1>1, <1>2, <1>15, <2>1, <2>2, <2>3, <2>4 DEF PlanOK, CurrentFrom, AfterFine, k
  <2>5. CASE Head(todo).row.status # "active"
    BY <1>1, <1>2, <1>15, <2>1, <2>2, <2>3, <2>5 DEF PlanOK, CurrentFrom, AfterFine, GoOn, k
  <2> QED
    BY <2>4, <2>5
<1> QED
  BY <1>9, <1>10, <1>11, <1>12, <1>13, <1>14, <1>16, <1>17, <1>18 DEF Inv

-----------------------------------------------------------------------------
(* A credit is marked overdue, from the copy. *)

(* The debt written from the copy still covers the loan. *)
LEMMA MarkOverdueInv ==
  ASSUME Inv, MarkOverdue
  PROVE  Inv'
<1> DEFINE k == Current
           copy == Head(todo).row
           row == [copy EXCEPT !.status = "overdue"]
<1>1. /\ phase = "overdue" /\ phase' = "installment" /\ next' = next + 1
      /\ UpdateCredit(k, row)
      /\ todo' = [todo EXCEPT ![1].row.status = "overdue"]
      /\ UNCHANGED <<balance, schedule, grants, collected, now, payment, plan, faults>>
  BY DEF MarkOverdue
<1>2. /\ todo # <<>> /\ k \in Loans /\ copy.status = "active" /\ next \in Nat
  BY <1>1, Within DEF Inv, PlanOK
<1>3. /\ copy \in Credit /\ ~copy.closed
      /\ copy.outstanding >= credit[k].granted - collected[k]
  BY <1>2, Visited DEF CopyOK, Current
<1>4. row \in Credit /\ row.status = "overdue" /\ row.outstanding = copy.outstanding
      /\ row.closed = FALSE
  BY <1>3 DEF Credit, Statuses
<1> HIDE DEF row, copy, k
<1>5. /\ credit' \in [CreditIds -> Credit \cup {NoCredit}]
      /\ Loans' = Loans
      /\ \A l \in Loans : l # k => credit'[l] = credit[l]
      /\ \A l \in Loans : /\ credit'[l].owner = credit[l].owner
                          /\ credit'[l].granted = credit[l].granted
                          /\ credit'[l].acct = credit[l].acct
                          /\ credit'[l].since = credit[l].since
      /\ credit'[k].status = "overdue"
      /\ credit'[k].outstanding = copy.outstanding
      /\ credit'[k].closed = FALSE
  BY <1>1, <1>2, <1>4, UpdateCreditRow DEF Inv, TypeOK
<1>6. /\ todo' \in Seq(Copies) /\ todo' # <<>> /\ Current' = Current
      /\ \A i \in DOMAIN todo' : CopyOK(todo'[i])
  BY <1>1, MarkedCopy
<1>7. TypeOK'
  <2>1. GrantsOK'
    BY <1>1, <1>5, GrantsFrame DEF Inv, TypeOK, CreditTypeOK
  <2>2. CreditTypeOK'
    BY <1>1, <1>5, <2>1 DEF Inv, TypeOK, CreditTypeOK
  <2> QED
    BY <1>1, <1>2, <1>6, <2>2 DEF Inv, TypeOK, Phases, Copies
<1>8. TablesOK'
  BY <1>1, <1>5 DEF Inv, TablesOK
<1>9. InstallmentsMatchLedger'
  <2>1. InstallmentsMatchLedger
    BY DEF Inv
  <2> QED
    BY <1>1, <1>5, <2>1 DEF InstallmentsMatchLedger
<1>10. PaidInOrder' /\ FinesOnlyOnOverdue'
  BY <1>1, <1>5 DEF Inv, PaidInOrder, FinesOnlyOnOverdue, Overdue, DueDate
<1>15. NoRowPaidAgain'
  <2>1. NoRowPaidAgain
    BY DEF Inv
  <2> QED
    BY <1>1, <1>5, <2>1 DEF NoRowPaidAgain
<1>11. DebtCoversLoan'
  <2> SUFFICES ASSUME NEW l \in Loans
               PROVE  LET c == credit'[l]
                      IN  /\ c.outstanding >= c.granted - collected[l]
                          /\ c.status = "active" => c.outstanding = c.granted - collected[l]
                          /\ c.status = "paid" => c.outstanding = 0 /\ collected[l] >= c.granted
                          /\ c.closed <=> c.status = "paid"
    BY <1>1, <1>5 DEF DebtCoversLoan
  <2>1. CASE l = k
    BY <1>2, <1>3, <1>5, <2>1
  <2>2. CASE l # k
    BY <1>5, <2>2 DEF Inv, DebtCoversLoan
  <2> QED
    BY <2>1, <2>2
<1>12. (\A i \in DOMAIN todo : CopyOK(todo[i]))'
  BY <1>1, <1>5, <1>6 DEF CopyOK
<1>13. PaymentOK' /\ CopyIsCurrent'
  BY <1>1 DEF Inv, PaymentOK, CopyIsCurrent
<1>14. PlanOK'
  BY <1>1, <1>2, <1>6 DEF Inv, PlanOK, CurrentFrom
<1> QED
  BY <1>7, <1>8, <1>9, <1>10, <1>11, <1>12, <1>13, <1>14, <1>15 DEF Inv

-----------------------------------------------------------------------------
(* The least element of a set of numbers. *)

(* Min, defined by CHOOSE, is the least element. *)
LEMMA LeastElement ==
  ASSUME NEW S \in SUBSET Nat, S # {}
  PROVE  Min(S) \in S /\ \A m \in S : Min(S) <= m
<1>1. PICK least \in S : \A m \in S : least <= m
  <2> SUFFICES ASSUME ~(\E least \in S : \A m \in S : least <= m) PROVE FALSE
    OBVIOUS
  <2> DEFINE X == {n \in Nat : \A m \in 0 .. n : m \notin S}
  <2>1. 0 \in X
    OBVIOUS
  <2>2. \A i \in Nat : i \in X => i + 1 \in X
    <3> SUFFICES ASSUME NEW i \in Nat, i \in X, i + 1 \in S PROVE FALSE
      OBVIOUS
    <3>1. \A m \in S : i + 1 <= m
      OBVIOUS
    <3> QED
      BY <3>1
  <2> HIDE DEF X
  <2>3. Nat \subseteq X
    BY <2>1, <2>2, SetInduction
  <2>4. PICK n \in S : n \in Nat
    OBVIOUS
  <2> QED
    BY <2>3, <2>4 DEF X
<1> QED
  BY <1>1 DEF Min

-----------------------------------------------------------------------------
(* An installment is collected. *)

(* Which row a payment settles: the first that is not paid, at the latest  *)
(* the row the sweep is looking at.                                        *)
LEMMA TargetRow ==
  ASSUME Inv, payment.stage = "settle", NEW k, k = payment.credit
  PROVE  /\ Payable(k) # {}
         /\ Target(k) \in DOMAIN schedule[k]
         /\ Target(k) \in Nat /\ Target(k) <= next
         /\ ~schedule[k][Target(k)].isPaid
         /\ \A i \in DOMAIN schedule[k] : i < Target(k) => schedule[k][i].isPaid
<1>1. phase = "paying" /\ k = Current /\ k \in Loans
  BY PayingPhase
<1>2. /\ next \in DOMAIN schedule[k] /\ schedule[k] \in Seq(Installment) /\ next \in Nat
  BY <1>1, Within
<1>3. ~schedule[k][next].isPaid /\ DueDate(k, next) <= now
  BY <1>1 DEF Inv, PlanOK, CopyIsCurrent, Overdue
<1>4. credit[k].since \in Nat /\ now \in Nat
  BY <1>1, LoanRow, CreditAssumption DEF Inv, TypeOK, CreditTypeOK
<1>5. next \in Payable(k)
  BY <1>2, <1>3, <1>4 DEF Payable, GetPaymentSchedulesByCreditID, DueDate
<1>6. Payable(k) \in SUBSET Nat
  BY <1>2 DEF Payable, GetPaymentSchedulesByCreditID
<1>7. Target(k) \in Payable(k) /\ \A m \in Payable(k) : Target(k) <= m
  BY <1>5, <1>6, LeastElement DEF Target
<1>8. Target(k) \in DOMAIN schedule[k] /\ ~schedule[k][Target(k)].isPaid
      /\ DueDate(k, Target(k)) <= now + 1
  BY <1>7 DEF Payable, GetPaymentSchedulesByCreditID
<1>9. \A i \in DOMAIN schedule[k] : i < Target(k) => schedule[k][i].isPaid
  <2> SUFFICES ASSUME NEW i \in DOMAIN schedule[k], i < Target(k), ~schedule[k][i].isPaid
               PROVE  FALSE
    BY <1>2 DEF Installment
  <2>1. i \in Nat /\ Target(k) \in Nat
    BY <1>2, <1>6, <1>7
  <2>2. DueDate(k, i) <= now + 1
    BY <1>4, <1>8, <2>1 DEF DueDate
  <2>3. i \in Payable(k)
    BY <2>2 DEF Payable, GetPaymentSchedulesByCreditID
  <2> QED
    BY <1>7, <2>1, <2>3
<1> QED
  BY <1>5, <1>6, <1>7, <1>8, <1>9

(* The payment credits a row and cancels its fines. *)
LEMMA PaidRow ==
  ASSUME NEW row \in Installment, NEW amount \in Nat, amount > 0,
         NEW new, new = PayInstallment(row, amount)
  PROVE  /\ new \in Installment
         /\ new.due = row.due /\ new.fines = 0
         /\ new.paid = row.paid + amount
         /\ new.isPaid <=> new.paid > 0 /\ new.paid >= new.due
<1> DEFINE enough == row.paid + amount >= row.due
<1>1. /\ row.paid \in Nat /\ row.due \in Int
      /\ enough \in BOOLEAN
  BY DEF Installment
<1>2. new = [due |-> row.due, paid |-> row.paid + amount, isPaid |-> enough, fines |-> 0]
  BY DEF PayInstallment, Installment
<1>3. enough <=> row.paid + amount > 0 /\ row.paid + amount >= row.due
  BY <1>1
<1>4. 0 \in 0 .. MaxFines /\ row.paid + amount \in Nat
  BY <1>1, CreditAssumption
<1> HIDE DEF enough
<1>5. /\ new.due = row.due /\ new.paid = row.paid + amount /\ new.fines = 0
      /\ new.isPaid = enough
  BY <1>2
<1>6. new \in Installment
  BY <1>1, <1>2, <1>4 DEF Installment
<1>7. new.isPaid <=> enough
  BY <1>5, Zenon
<1>8. new.isPaid <=> new.paid > 0 /\ new.paid >= new.due
  BY <1>3, <1>5, <1>7
<1> QED
  BY <1>5, <1>6, <1>8

(* A credit that is repaid in full is closed, another owes that much less. *)
LEMMA ReducedDebt ==
  ASSUME NEW c \in Credit, NEW amount \in Nat
  PROVE  /\ ReduceDebt(c, amount) \in Credit
         /\ c.outstanding <= amount =>
              /\ ReduceDebt(c, amount).outstanding = 0
              /\ ReduceDebt(c, amount).status = "paid" /\ ReduceDebt(c, amount).closed
         /\ c.outstanding > amount =>
              /\ ReduceDebt(c, amount).outstanding = c.outstanding - amount
              /\ ReduceDebt(c, amount).status = c.status /\ ReduceDebt(c, amount).closed = c.closed
<1>1. c.outstanding \in Int
  BY DEF Credit
<1>2. CASE c.outstanding <= amount
  <2>1. ReduceDebt(c, amount) = [c EXCEPT !.outstanding = 0, !.status = "paid", !.closed = TRUE]
    BY <1>1, <1>2 DEF ReduceDebt
  <2>2. /\ ReduceDebt(c, amount).outstanding = 0 /\ ReduceDebt(c, amount).status = "paid"
        /\ ReduceDebt(c, amount).closed
    BY <2>1 DEF Credit
  <2>3. ReduceDebt(c, amount) \in Credit
    <3>1. [c EXCEPT !.outstanding = 0] \in Credit
      BY DEF Credit
    <3>2. \A d \in Credit : [d EXCEPT !.status = "paid"] \in Credit
      BY DEF Credit, Statuses
    <3>3. \A d \in Credit : [d EXCEPT !.closed = TRUE] \in Credit
      BY DEF Credit
    <3> QED
      BY <2>1, <3>1, <3>2, <3>3
  <2>4. ~(c.outstanding > amount)
    BY <1>1, <1>2
  <2> QED
    BY <1>2, <2>2, <2>3, <2>4, Zenon
<1>3. CASE c.outstanding > amount
  <2>1. ReduceDebt(c, amount) = [c EXCEPT !.outstanding = c.outstanding - amount]
    BY <1>1, <1>3 DEF ReduceDebt
  <2> QED
    BY <1>1, <1>3, <2>1 DEF Credit, Statuses
<1> QED
  BY <1>1, <1>2, <1>3

(* Money and rows agree because both change in the one step that commits.  *)
LEMMA SettlePaymentInv ==
  ASSUME Inv, SettlePayment, UNCHANGED <<sweepVars, faults>>
  PROVE  Inv'
<1> DEFINE k == payment.credit
           c == credit[k]
           t == Target(k)
           old == schedule[k][t]
           amount == payment.amount
           row == PayInstallment(old, amount)
<1>1. /\ payment.stage = "settle"
      /\ balance' = [balance EXCEPT ![c.acct] = payment.seen - amount]
      /\ UpdateCredit(k, ReduceDebt(c, amount))
      /\ collected' = [collected EXCEPT ![k] = @ + amount]
      /\ UNCHANGED <<grants, now>>
      /\ UNCHANGED <<phase, todo, plan, next, faults>>
  BY DEF SettlePayment, Paying, sweepVars
<1>2. PICK result \in {"ok", "failed"} : payment' = [payment EXCEPT !.stage = result, !.seen = 0]
  BY DEF SettlePayment
<1>3. /\ phase = "paying" /\ k = Current /\ k \in Loans /\ k \in CreditIds
      /\ payment \in PaymentType /\ amount > 0 /\ amount = plan[next].due
      /\ payment.seen \in amount .. MaxBalance
  BY <1>1, PayingPhase DEF Inv, PaymentOK, Running, Loans
<1>4. c \in Credit /\ c.acct \in Accounts /\ c.granted \in Nat
      /\ c.outstanding \in Int /\ amount \in Nat
  <2>1. amount \in Int
    BY <1>3 DEF PaymentType
  <2> QED
    BY <1>3, <2>1, LoanRow DEF Inv, TypeOK
<1>5. /\ Payable(k) # {} /\ t \in DOMAIN schedule[k] /\ t \in Nat /\ t <= next
      /\ ~old.isPaid
      /\ \A i \in DOMAIN schedule[k] : i < t => schedule[k][i].isPaid
  BY <1>1, TargetRow
<1>6. old \in Installment
  BY <1>3, <1>5 DEF Inv, TablesOK
<1>7. UpdatePaymentSchedule(k, t, row)
  BY <1>5 DEF SettlePayment
<1> HIDE DEF row, t, amount
<1>8. /\ row \in Installment /\ row.due = old.due /\ row.fines = 0
      /\ row.paid = old.paid + amount
      /\ row.isPaid <=> row.paid > 0 /\ row.paid >= row.due
  BY <1>3, <1>4, <1>6, PaidRow DEF row
<1>25. old.due \in Int /\ old.paid \in Nat
  BY <1>6 DEF Installment
<1>9. /\ schedule' \in [CreditIds -> Seq(Installment)]
      /\ \A l \in CreditIds : DOMAIN schedule'[l] = DOMAIN schedule[l]
      /\ \A l \in CreditIds : Len(schedule'[l]) = Len(schedule[l])
      /\ \A l \in CreditIds : l # k => schedule'[l] = schedule[l]
      /\ \A j \in DOMAIN schedule[k] : j # t => schedule'[k][j] = schedule[k][j]
      /\ schedule'[k][t] = row
      /\ DOMAIN schedule[k] \subseteq Nat
  BY <1>3, <1>5, <1>7, <1>8, UpdateScheduleRow DEF Inv
<1>26. /\ \A l \in Loans : collected[l] = SumFunction(PaidOf(schedule[l])) /\ RowsSettled(schedule[l])
       /\ old.paid = 0 \/ old.paid < old.due
  <2>1. \A l \in Loans : collected[l] = SumFunction(PaidOf(schedule[l])) /\ RowsSettled(schedule[l])
    BY LedgerParts DEF Inv
  <2> QED
    BY <1>3, <1>5, <1>25, <2>1 DEF RowsSettled
<1>27. next \in DOMAIN schedule[k] /\ schedule[k][next].due = amount /\ next \in Nat
  BY <1>1, <1>3, Within DEF Inv, CopyIsCurrent
<1> HIDE DEF c, k, old
<1>10. /\ credit' \in [CreditIds -> Credit \cup {NoCredit}]
       /\ Loans' = Loans
       /\ \A l \in Loans : l # k => credit'[l] = credit[l]
       /\ \A l \in Loans : /\ credit'[l].owner = credit[l].owner
                           /\ credit'[l].granted = credit[l].granted
                           /\ credit'[l].acct = credit[l].acct
                           /\ credit'[l].since = credit[l].since
       /\ credit'[k].status = ReduceDebt(c, amount).status
       /\ credit'[k].outstanding = ReduceDebt(c, amount).outstanding
       /\ credit'[k].closed = ReduceDebt(c, amount).closed
  BY <1>1, <1>3, <1>4, ReducedDebt, UpdateCreditRow DEF Inv, TypeOK
<1>11. Loans \subseteq CreditIds
  BY DEF Loans
<1>12. /\ collected \in [CreditIds -> Nat]
       /\ collected' \in [CreditIds -> Nat]
       /\ collected'[k] = collected[k] + amount
       /\ \A l \in CreditIds : l # k => collected'[l] = collected[l]
       /\ \A l \in CreditIds : collected'[l] >= collected[l]
  <2>1. collected \in [CreditIds -> Nat]
    BY DEF Inv, TypeOK, CreditTypeOK
  <2> QED
    BY <1>1, <1>3, <1>4, <2>1
<1>13. Current' = Current
  BY <1>1 DEF Current
<1>14. TypeOK'
  <2>1. \A l \in Loans' : schedule'[l] \in Seq(Installment) /\ schedule'[l] # <<>>
    <3>1. \A rows \in Seq(Installment) : rows # <<>> <=> Len(rows) # 0
      OBVIOUS
    <3>2. \A l \in Loans : schedule[l] \in Seq(Installment) /\ Len(schedule[l]) # 0
      BY <3>1 DEF Inv, TypeOK, CreditTypeOK
    <3> QED
      BY <1>9, <1>10, <1>11, <3>1, <3>2
  <2>2. balance' \in [Accounts -> 0 .. MaxBalance]
    <3>1. payment.seen - amount \in 0 .. MaxBalance
      BY <1>3, <1>4, CreditAssumption
    <3> QED
      BY <1>1, <3>1 DEF Inv, TypeOK, CreditTypeOK
  <2>3. payment' \in PaymentType
    BY <1>2, <1>3 DEF PaymentType, Stages
  <2>4. GrantsOK'
    BY <1>1, <1>10, GrantsFrame DEF Inv, TypeOK, CreditTypeOK
  <2>5. CreditTypeOK'
    BY <1>1, <1>10, <1>12, <2>1, <2>2, <2>3, <2>4 DEF Inv, TypeOK, CreditTypeOK, PaymentType
  <2> QED
    BY <1>1, <2>5 DEF Inv, TypeOK
<1>15. TablesOK'
  BY <1>3, <1>9, <1>10, <1>12 DEF Inv, TablesOK
<1>28. \A l \in Loans : l # k => schedule'[l] = schedule[l]
  BY <1>9, <1>11
<1>29. SumFunction(PaidOf(schedule'[k])) = SumFunction(PaidOf(schedule[k])) + amount
  <2> DEFINE S == DOMAIN schedule[k]
             f == PaidOf(schedule[k])
             g == PaidOf(schedule'[k])
  <2>1. schedule[k] \in Seq(Installment) /\ schedule'[k] \in Seq(Installment)
    BY <1>3, <1>9 DEF Inv, TablesOK
  <2>2. IsFiniteSet(S)
    BY <2>1, SequenceIsFinite
  <2>3. DOMAIN schedule'[k] = S
    BY <1>3, <1>9
  <2>4. /\ f \in [S -> Int] /\ g \in [S -> Int]
        /\ \A i \in S : f[i] = schedule[k][i].paid /\ g[i] = schedule'[k][i].paid
    BY <2>1, <2>3, PaidOfRows
  <2>5. /\ t \in S /\ g[t] = f[t] + amount /\ f[t] \in Int
        /\ \A i \in S \ {t} : g[i] = f[i]
    BY <1>5, <1>8, <1>9, <2>4 DEF old
  <2>6. SumFunction(f) \in Int
    BY <2>2, <2>4, SumIsInt
  <2> HIDE DEF f, g, S
  <2>7. SumFunction(g) = SumFunction(f) + g[t] - f[t]
    BY <2>2, <2>4, <2>5, SumChange
  <2>8. SumFunction(g) = SumFunction(f) + amount
    BY <1>4, <2>5, <2>6, <2>7
  <2> QED
    BY <2>8 DEF f, g
<1>16. InstallmentsMatchLedger'
  <2>1. \A l \in Loans : collected'[l] = SumFunction(PaidOf(schedule'[l]))
    BY <1>3, <1>11, <1>12, <1>26, <1>28, <1>29
  <2>2. \A l \in Loans : RowsSettled(schedule'[l])
    <3>1. ASSUME NEW l \in Loans, l # k PROVE RowsSettled(schedule'[l])
      BY <1>26, <1>28, <3>1
    <3>2. RowsSettled(schedule'[k])
      <4>1. RowsSettled(schedule[k]) /\ DOMAIN schedule'[k] = DOMAIN schedule[k]
        BY <1>3, <1>9, <1>26
      <4> QED
        BY <1>8, <1>9, <4>1 DEF RowsSettled
    <3> QED
      BY <3>1, <3>2
  <2> QED
    BY <1>10, <2>1, <2>2 DEF InstallmentsMatchLedger, PaidOf, RowsSettled
<1>17. PaidInOrder'
  <2> SUFFICES ASSUME NEW l \in Loans, NEW i \in DOMAIN schedule[l], NEW j \in DOMAIN schedule[l],
                      i < j, schedule'[l][j].paid > 0
               PROVE  schedule'[l][i].isPaid
    BY <1>9, <1>10, <1>11 DEF PaidInOrder
  <2>1. CASE l # k
    BY <1>9, <1>11, <2>1 DEF Inv, PaidInOrder
  <2>2. CASE l = k /\ j = t
    BY <1>5, <1>9, <2>2
  <2>3. CASE l = k /\ j # t
    <3>1. schedule[k][i].isPaid
      BY <1>9, <2>3 DEF Inv, PaidInOrder
    <3>2. i # t
      BY <1>5, <3>1 DEF old
    <3> QED
      BY <1>9, <2>3, <3>1, <3>2
  <2> QED
    BY <2>1, <2>2, <2>3
<1>30. NoRowPaidAgain'
  <2> DEFINE Explains(l, i, j) ==
               LET before == schedule'[l][i].paid - schedule'[l][j].due
               IN  /\ j >= i
                   /\ schedule'[l][j].due > 0
                   /\ before = 0 \/ (0 < before /\ before < schedule'[l][i].due)
  <2> SUFFICES ASSUME NEW l \in Loans, NEW i \in DOMAIN schedule[l], schedule'[l][i].paid > 0
               PROVE  \E j \in DOMAIN schedule[l] : Explains(l, i, j)
    BY <1>9, <1>10, <1>11 DEF NoRowPaidAgain
  <2>1. \A j \in DOMAIN schedule[l] : schedule'[l][j].due = schedule[l][j].due
    BY <1>8, <1>9, <1>11 DEF old
  <2>2. CASE l = k /\ i = t
    <3>1. /\ schedule'[l][i].paid = old.paid + amount /\ schedule'[l][i].due = old.due
          /\ schedule'[l][next].due = amount
      BY <1>8, <1>9, <1>27, <2>1, <2>2
    <3>2. Explains(l, i, next)
      BY <1>3, <1>4, <1>5, <1>25, <1>26, <1>27, <2>2, <3>1
    <3> QED
      BY <1>27, <2>2, <3>2
  <2>3. CASE ~(l = k /\ i = t)
    <3>1. schedule'[l][i] = schedule[l][i]
      BY <1>9, <1>11, <2>3
    <3>2. NoRowPaidAgain
      BY DEF Inv
    <3>3. PICK j \in DOMAIN schedule[l] :
            LET before == schedule[l][i].paid - schedule[l][j].due
            IN  /\ j >= i
                /\ schedule[l][j].due > 0
                /\ before = 0 \/ (0 < before /\ before < schedule[l][i].due)
      BY <3>1, <3>2 DEF NoRowPaidAgain
    <3>4. Explains(l, i, j)
      BY <2>1, <3>1, <3>3
    <3> QED
      BY <3>4
  <2> QED
    BY <2>2, <2>3
<1>18. FinesOnlyOnOverdue'
  <2> SUFFICES ASSUME NEW l \in Loans, NEW i \in DOMAIN schedule[l], schedule'[l][i].fines > 0
               PROVE  ~schedule'[l][i].isPaid /\ Overdue(l, i)'
    BY <1>9, <1>10, <1>11 DEF FinesOnlyOnOverdue
  <2>1. schedule'[l][i] = schedule[l][i]
    BY <1>8, <1>9, <1>11
  <2> QED
    BY <1>1, <1>10, <2>1 DEF Inv, FinesOnlyOnOverdue, Overdue, DueDate
<1>19. DebtCoversLoan'
  <2> SUFFICES ASSUME NEW l \in Loans
               PROVE  LET d == credit'[l]
                      IN  /\ d.outstanding >= d.granted - collected'[l]
                          /\ d.status = "active" => d.outstanding = d.granted - collected'[l]
                          /\ d.status = "paid" => d.outstanding = 0 /\ collected'[l] >= d.granted
                          /\ d.closed <=> d.status = "paid"
    BY <1>10 DEF DebtCoversLoan
  <2>1. CASE l # k
    BY <1>10, <1>11, <1>12, <2>1 DEF Inv, DebtCoversLoan
  <2>2. CASE l = k
    <3>1. /\ c.outstanding >= c.granted - collected[k]
          /\ c.status = "active" => c.outstanding = c.granted - collected[k]
          /\ c.status = "paid" => c.outstanding = 0 /\ collected[k] >= c.granted
          /\ c.closed <=> c.status = "paid"
      BY <1>3 DEF Inv, DebtCoversLoan, c
    <3>2. collected[k] \in Nat /\ credit'[k].granted = c.granted
      BY <1>3, <1>10, <1>12 DEF c
    <3>5. collected'[l] = collected[k] + amount /\ credit'[l].granted = c.granted
      BY <1>12, <2>2, <3>2
    <3>3. CASE c.outstanding <= amount
      <4>1. /\ credit'[l].outstanding = 0
            /\ credit'[l].status = "paid" /\ credit'[l].closed
        BY <1>4, <1>10, <2>2, <3>3, ReducedDebt
      <4>2. c.granted - (collected[k] + amount) <= 0
        BY <1>4, <3>1, <3>2, <3>3
      <4> QED
        BY <1>4, <3>2, <3>5, <4>1, <4>2
    <3>4. CASE c.outstanding > amount
      <4>1. /\ credit'[l].outstanding = c.outstanding - amount
            /\ credit'[l].status = c.status /\ credit'[l].closed = c.closed
        BY <1>4, <1>10, <2>2, <3>4, ReducedDebt
      <4>2. c.status # "paid" /\ ~c.closed
        BY <1>4, <3>1, <3>4
      <4> QED
        BY <1>4, <3>1, <3>2, <3>5, <4>1, <4>2
    <3> QED
      BY <1>4, <3>3, <3>4
  <2> QED
    BY <2>1, <2>2
<1>20. (\A i \in DOMAIN todo : CopyOK(todo[i]))'
  <2> SUFFICES ASSUME NEW i \in DOMAIN todo PROVE CopyOK(todo[i])'
    BY <1>1
  <2>1. CopyOK(todo[i])
    BY DEF Inv
  <2>2. todo[i].id \in Loans /\ todo[i].id \in CreditIds /\ todo[i].row.outstanding \in Int
    BY <1>11, <2>1 DEF CopyOK, Credit
  <2>3. /\ credit[todo[i].id].granted \in Nat
        /\ credit'[todo[i].id].granted = credit[todo[i].id].granted
        /\ collected'[todo[i].id] >= collected[todo[i].id]
        /\ collected'[todo[i].id] \in Nat /\ collected[todo[i].id] \in Nat
    BY <1>10, <1>12, <2>2, LoanRow DEF Inv, TypeOK
  <2> QED
    BY <1>1, <1>10, <2>1, <2>2, <2>3 DEF CopyOK
<1>21. payment' = [stage |-> result, credit |-> k, amount |-> amount, seen |-> 0]
  BY <1>2, <1>3 DEF PaymentType, k, amount
<1>22. PaymentOK'
  BY <1>1, <1>3, <1>13, <1>21 DEF PaymentOK, Running
<1>23. PlanOK'
  <2>1. \A j \in DOMAIN plan : j >= next + 1 => plan[j] = schedule'[Current][j]
    BY <1>3, <1>5, <1>9, Within DEF Inv, PlanOK, CurrentFrom
  <2>2. Overdue(Current, next)'
    BY <1>1, <1>3, <1>10, <1>13 DEF Inv, PlanOK, Overdue, DueDate
  <2> QED
    BY <1>1, <1>3, <1>9, <1>13, <2>1, <2>2 DEF Inv, PlanOK, CurrentFrom
<1>24. CopyIsCurrent'
  BY <1>1, <1>3, <1>21 DEF CopyIsCurrent
<1> QED
  BY <1>14, <1>15, <1>16, <1>17, <1>30, <1>18, <1>19, <1>20, <1>22, <1>23, <1>24 DEF Inv

-----------------------------------------------------------------------------
(* All steps. *)

(* No loans, no sweep, no payment. *)
LEMMA InitInv == Init => Inv
<1> SUFFICES ASSUME Init PROVE Inv
  OBVIOUS
<1>1. /\ CreditInit /\ phase = "waiting" /\ todo = <<>> /\ plan = <<>> /\ next = 0 /\ faults = 0
  BY DEF Init
<1>2. Loans = {}
  BY <1>1 DEF CreditInit, Loans
<1>3. \A S : <<>> \in Seq(S)
  OBVIOUS
<1>4. CreditTypeOK
  <2>1. NoPayment \in PaymentType
    BY DEF NoPayment, Stages, PaymentType
  <2>2. GrantsOK
    BY <1>1, <1>2, <1>3 DEF CreditInit, GrantsOK
  <2> QED
    BY <1>1, <1>2, <2>1, <2>2, CreditAssumption DEF CreditInit, CreditTypeOK, PaymentType
<1>5. TypeOK
  BY <1>1, <1>3, <1>4, SchedulerAssumption DEF TypeOK, Phases
<1>6. TablesOK
  BY <1>1, <1>3 DEF CreditInit, TablesOK
<1>7. PaymentOK /\ PlanOK /\ CopyIsCurrent
  BY <1>1 DEF CreditInit, PaymentOK, PlanOK, CopyIsCurrent
<1>8. LedgerOK
  BY <1>2 DEF LedgerOK, InstallmentsMatchLedger, PaidInOrder, NoRowPaidAgain,
              FinesOnlyOnOverdue, DebtCoversLoan
<1>9. \A i \in DOMAIN todo : CopyOK(todo[i])
  BY <1>1
<1> QED
  BY <1>5, <1>6, <1>7, <1>8, <1>9 DEF Inv, LedgerOK

(* One case for each action. *)
LEMMA NextInv == Inv /\ [Next]_vars => Inv'
<1> SUFFICES ASSUME Inv, [Next]_vars PROVE Inv'
  OBVIOUS
<1>1. CASE UNCHANGED vars
  <2>1. /\ UNCHANGED <<Tables, balance>> /\ UNCHANGED <<phase, todo, plan, next, faults, payment>>
    BY <1>1 DEF vars, creditVars, sweepVars, Tables
  <2>2. Current' = Current
    BY <2>1 DEF Current
  <2>3. PaymentOK' /\ PlanOK' /\ CopyIsCurrent'
    BY <2>1, <2>2 DEF Inv, PaymentOK, PlanOK, CurrentFrom, Overdue, DueDate, CopyIsCurrent, Tables
  <2> QED
    BY <2>1, <2>3, SweepTypes, SweepFrame
<1>2. CASE Sweep
  <2>1. CASE SkipCredit
    <3>1. todo # <<>> /\ phase # "paying" /\ LeaveCredit /\ UNCHANGED creditVars /\ UNCHANGED faults
      BY <2>1 DEF SkipCredit, creditVars
    <3> QED
      BY <3>1, SweepTypes, LeaveCreditInv
  <2> QED
    BY <1>2, <2>1, TickInv, EndSweepInv, VisitCreditInv, EndCreditInv, VisitInstallmentInv,
       PaymentResultInv, FineInstallmentInv, MarkOverdueInv, ReadForPaymentInv,
       DebitAccountInv, SettlePaymentInv DEF Sweep
<1>3. CASE Failure
  <2>1. CASE FailVisit
    BY <2>1, FaultType, LeaveCreditInv DEF FailVisit
  <2>2. CASE FailFine
    BY <2>2, FaultType, AfterFineInv DEF FailFine
  <2> QED
    BY <1>3, <2>1, <2>2, FailMarkOverdueInv, CrashInv, FailPaymentInv DEF Failure
<1>4. CASE Environment
  BY <1>4, ApplyForCreditInv, UpdateAccountInv, DayInv DEF Environment
<1> QED
  BY <1>1, <1>2, <1>3, <1>4 DEF Next

(* The invariant holds in every state the scheduler can reach. *)
THEOREM InvHolds == Spec => []Inv
  BY InitInv, NextInv, PTL DEF Spec

-----------------------------------------------------------------------------
(* The results. *)

(* Every row, copy and label is of its kind, for every number of credits   *)
(* and faults: no balance is ever negative or out of bounds after an       *)
(* installment, no installment or count is negative.                       *)
THEOREM TypesHold == Spec => []TypeOK
  BY InvHolds, PTL DEF Inv

(* What ProcessMonthlyPayment has collected for a credit is what its rows  *)
(* have been paid, equal or not, and a row is settled when that is enough, *)
(* whatever fails or crashes.                                              *)
THEOREM InstallmentsMatchLedgerHolds == Spec => []InstallmentsMatchLedger
  BY InvHolds, PTL DEF Inv

(* Installments are paid in the order they fall due, although a sweep may  *)
(* pass one it could not collect and collect with the next.                *)
THEOREM PaidInOrderHolds == Spec => []PaidInOrder
  BY InvHolds, PTL DEF Inv

(* No row is paid once more after it was settled, however many rows, loans *)
(* and faults there are and however unequal the installments.              *)
THEOREM NoRowPaidAgainHolds == Spec => []NoRowPaidAgain
  BY InvHolds, PTL DEF Inv

(* A fine never stands on an installment that is paid, or not yet due: no  *)
(* copy brings one back.                                                   *)
THEOREM FinesOnlyOnOverdueHolds == Spec => []FinesOnlyOnOverdue
  BY InvHolds, PTL DEF Inv

(* Between reading a schedule and writing a fine, nothing has changed the  *)
(* row, whatever requests and payments came between.                       *)
THEOREM CopyIsCurrentHolds == Spec => []CopyIsCurrent
  BY InvHolds, PTL DEF Inv

(* UpdateCredit writes debts from stale copies, but never one that is less *)
(* than what is left to repay, and only a repaid credit is closed.         *)
THEOREM DebtCoversLoanHolds == Spec => []DebtCoversLoan
  BY InvHolds, PTL DEF Inv

-----------------------------------------------------------------------------
(* The scheduler implements the loan book. *)

(* The book begins empty. *)
LEMMA BookInit == Init => Book!Init
BY DEF Init, CreditInit, Book!Init

(* A loan enters the book with installments nothing was paid on. *)
LEMMA BookGrant ==
  ASSUME Inv, NEW k \in CreditIds, ApplyForCredit(k)
  PROVE  Book!Grant(k)
<1>1. PICK row \in Credit, rows \in Seq(Installment) :
        /\ row # NoCredit
        /\ row.outstanding = row.granted /\ row.status = "active" /\ ~row.closed
        /\ credit' = [credit EXCEPT ![k] = row]
        /\ grants' = [grants EXCEPT ![row.owner] = <<k>> \o @]
        /\ rows # <<>> /\ Untouched(rows)
        /\ schedule' = [schedule EXCEPT ![k] = rows]
  BY GrantedLoan
<1>2. credit[k] = NoCredit /\ k \notin Loans /\ UNCHANGED collected
  BY DEF ApplyForCredit, Loans
<1>3. schedule[k] = <<>> /\ schedule \in [CreditIds -> Seq(Installment)]
  BY <1>2 DEF Inv, TablesOK
<1>4. schedule'[k] = rows
  BY <1>1, <1>3
<1>5. /\ DOMAIN rows = 1 .. Len(rows)
      /\ \A i \in DOMAIN rows : rows[i].due \in Int /\ rows[i] = Book!Untouched(rows[i].due)
  BY <1>1 DEF Untouched, Unpaid, Book!Untouched
<1>6. rows = [i \in 1 .. Len(rows) |-> Book!Untouched(rows[i].due)]
  BY <1>5
<1> QED
  BY <1>1, <1>2, <1>3, <1>4, <1>5, <1>6 DEF Book!Grant

(* Book and scheduler use the same minimum. *)
LEMMA BookMin ==
  ASSUME NEW S
  PROVE  Book!Min(S) = Min(S)
BY DEF Book!Min, Min

(* The payment is that of the row the sweep looks at, which is not paid,   *)
(* and goes to the earliest row that is not paid, as the book asks.        *)
LEMMA BookCollect ==
  ASSUME Inv, SettlePayment, NEW k, k = payment.credit
  PROVE  Book!Collect(k)
<1> DEFINE t == Target(k)
           amount == payment.amount
<1>1. /\ payment.stage = "settle"
      /\ collected' = [collected EXCEPT ![k] = @ + amount]
  BY DEF SettlePayment, Paying
<1>2. /\ phase = "paying" /\ k = Current /\ k \in CreditIds
      /\ amount = plan[next].due /\ amount > 0
  BY <1>1, PayingPhase DEF Running, Loans
<1>3. /\ Payable(k) # {} /\ t \in DOMAIN schedule[k] /\ t \in Nat
      /\ ~schedule[k][t].isPaid
      /\ \A i \in DOMAIN schedule[k] : i < t => schedule[k][i].isPaid
  BY <1>1, TargetRow
<1>4. schedule' = [schedule EXCEPT ![k][t] = Book!Credited(@, amount)]
  <2>1. UpdatePaymentSchedule(k, t, PayInstallment(schedule[k][t], amount))
    BY <1>3 DEF SettlePayment
  <2>2. PayInstallment(schedule[k][t], amount) = Book!Credited(schedule[k][t], amount)
    BY DEF PayInstallment, Book!Credited
  <2> QED
    BY <2>1, <2>2 DEF UpdatePaymentSchedule
<1>5. Min(Book!Unsettled(k)) = t
  <2>1. schedule[k] \in Seq(Installment)
    BY <1>2 DEF Inv, TablesOK
  <2>2. t \in Book!Unsettled(k) /\ Book!Unsettled(k) \in SUBSET Nat
    BY <1>3, <2>1 DEF Book!Unsettled
  <2>3. /\ Min(Book!Unsettled(k)) \in Book!Unsettled(k)
        /\ Min(Book!Unsettled(k)) <= t
    BY <2>2, LeastElement
  <2>4. ~(Min(Book!Unsettled(k)) < t)
    BY <1>3, <2>3 DEF Book!Unsettled
  <2> QED
    BY <1>3, <2>2, <2>3, <2>4
<1>6. next \in Book!Unsettled(k) /\ amount = schedule[k][next].due
  <2>1. next \in DOMAIN schedule[k]
    BY <1>2, Within
  <2>2. plan[next] = schedule[k][next] /\ ~plan[next].isPaid
    BY <1>1, <1>2 DEF Inv, CopyIsCurrent, PlanOK
  <2> QED
    BY <1>2, <2>1, <2>2 DEF Book!Unsettled
<1>7. Book!Min(Book!Unsettled(k)) = t
  BY <1>5, BookMin
<1> HIDE DEF t, amount
<1> QED
  BY <1>1, <1>2, <1>4, <1>6, <1>7 DEF Book!Collect

(* Only a row that is not paid is fined: the copy it is written from is    *)
(* current.                                                                *)
LEMMA BookFine ==
  ASSUME Inv, FineInstallment
  PROVE  Book!Fine(Current) /\ Current \in CreditIds
<1>1. /\ phase = "fine" /\ UpdatePaymentSchedule(Current, next, AddFine(plan[next]))
      /\ UNCHANGED <<credit, collected>>
  BY DEF FineInstallment
<1>2. Current \in CreditIds /\ next \in DOMAIN schedule[Current]
  BY <1>1, Within
<1>3. plan[next] = schedule[Current][next] /\ ~plan[next].isPaid
  BY <1>1 DEF Inv, CopyIsCurrent, PlanOK
<1>4. next \in Book!Unsettled(Current)
  BY <1>2, <1>3 DEF Book!Unsettled
<1>5. schedule' = [schedule EXCEPT ![Current][next].fines = Min({@ + 1, MaxFines})]
  BY <1>1, <1>3 DEF UpdatePaymentSchedule, AddFine
<1>6. \A S : Book!Min(S) = Min(S)
  BY BookMin
<1> QED
  BY <1>1, <1>2, <1>4, <1>5, <1>6 DEF Book!Fine

(* Every step of the scheduler is a step of the book or invisible to it. *)
LEMMA BookStep ==
  ASSUME Inv, [Next]_vars
  PROVE  [Book!Next]_(Book!bookVars)
<1>1. ASSUME UNCHANGED <<schedule, collected>>
      PROVE  UNCHANGED Book!bookVars
  BY <1>1 DEF Book!bookVars
<1>2. CASE UNCHANGED vars
  BY <1>1, <1>2 DEF vars, creditVars
<1>3. CASE SettlePayment
  <2>1. payment.credit \in CreditIds
    BY <1>3, PayingPhase DEF SettlePayment, Paying, Loans
  <2> QED
    BY <1>3, <2>1, BookCollect DEF Book!Next
<1>4. CASE FineInstallment
  BY <1>4, BookFine DEF Book!Next
<1>5. CASE MarkOverdue
  BY <1>1, <1>5 DEF MarkOverdue
<1>6. CASE \E k \in CreditIds : ApplyForCredit(k)
  BY <1>6, BookGrant DEF Book!Next
<1>7. CASE /\ Sweep /\ ~SettlePayment /\ ~FineInstallment /\ ~MarkOverdue
  <2>1. UNCHANGED <<schedule, collected>>
    BY <1>7 DEF Sweep, Tick, EndSweep, SkipCredit, VisitCredit, EndCredit, VisitInstallment,
                PaymentResult, ReadForPayment, DebitAccount, creditVars
  <2> QED
    BY <1>1, <2>1
<1>8. CASE Failure
  <2>1. UNCHANGED <<schedule, collected>>
    BY <1>8 DEF Failure, FailVisit, FailFine, FailMarkOverdue, Crash, FailPayment, creditVars
  <2> QED
    BY <1>1, <2>1
<1>9. CASE (\E a \in Accounts : UpdateAccount(a)) \/ Day
  <2>1. UNCHANGED <<schedule, collected>>
    BY <1>9 DEF UpdateAccount, Day
  <2> QED
    BY <1>1, <2>1
<1> QED
  BY <1>2, <1>3, <1>4, <1>5, <1>6, <1>7, <1>8, <1>9 DEF Next, Sweep, Environment

(* Whatever the sweep copies, retries, fines and writes back, and wherever *)
(* it fails, the schedules and the money collected behave as LoanBook says.*)
THEOREM LoanBookImplemented == Spec => ImplementsLoanBook
<1>1. Inv /\ [Next]_vars => [Book!Next]_(Book!bookVars)
  BY BookStep
<1> QED
  BY <1>1, BookInit, InvHolds, PTL DEF Spec, Book!Spec, ImplementsLoanBook
=============================================================================
