---------------------------- MODULE ForecastProofs ----------------------------
(***************************************************************************)
(* BalanceForecast, for every number of accounts and credits and every     *)
(* horizon of the forecast: nothing is charged twice, and what is left out *)
(* has been collected meanwhile.                                           *)
(*                                                                         *)
(* The forecast reads balance, credits and schedules at different times.   *)
(* What makes it right is how the tables may change between: a paid        *)
(* installment stays paid, which LoanBook promises and SchedulerService    *)
(* keeps, a credit keeps its account, its owner and its days, and it stands*)
(* in the list of its owner.                                               *)
(***************************************************************************)
EXTENDS BalanceForecast, SchedulerServiceProofs

-----------------------------------------------------------------------------
(* The inductive invariant.                                                *)

(* A credit belongs to the owner of its account. *)
OwnersOK == \A k \in Loans : credit[k].owner = Owner[credit[k].acct]

IsInstallment(inst) ==
  /\ inst = <<inst[1], inst[2]>>
  /\ inst[1] \in Loans
  /\ inst[2] \in DOMAIN schedule[inst[1]]

IsPaid(inst) == schedule[inst[1]][inst[2]].isPaid

Entries == [id : CreditIds, open : BOOLEAN]

(* The forecast has still to look at credit k. *)
Ahead(k) == \E i \in DOMAIN toRead : toRead[i].id = k /\ toRead[i].open

(* What was paid when the balance was read is paid still, and not charged. *)
PaidOK == \A inst \in inBalance : IsInstallment(inst) /\ IsPaid(inst) /\ inst \notin counted

(* What was not is charged, ahead, or paid by now. *)
KnownOK ==
  \A inst \in known :
    /\ IsInstallment(inst)
    /\ /\ reading \in {"schedules", "done"}
       /\ credit[inst[1]].acct = Asked
       /\ DueDate(inst[1], inst[2]) <= until
       => \/ inst \in counted
          \/ IsPaid(inst)
          \/ reading = "schedules" /\ Ahead(inst[1])

ForecastInv ==
  /\ Inv
  /\ OwnersOK
  /\ toRead \in Seq(Entries)
  /\ reading = "balance" => counted = {}
  /\ PaidOK
  /\ KnownOK

-----------------------------------------------------------------------------
(* What a step of the scheduler leaves to the forecast.                    *)

(* Credits keep their account, owner and days, and are only added, for the *)
(* owner of the account.                                                   *)
LEMMA CreditsKept ==
  ASSUME Inv, [Next]_vars
  PROVE  /\ \A k \in Loans : /\ k \in Loans'
                             /\ credit'[k].acct = credit[k].acct
                             /\ credit'[k].owner = credit[k].owner
                             /\ credit'[k].since = credit[k].since
         /\ \A k \in Loans' \ Loans : credit'[k].owner = Owner[credit'[k].acct]
<1>1. CASE UNCHANGED credit
  BY <1>1 DEF Loans
<1>2. CASE SettlePayment
  <2> DEFINE k == payment.credit
  <2>1. UpdateCredit(k, ReduceDebt(credit[k], payment.amount)) /\ payment.stage = "settle"
    BY <1>2 DEF SettlePayment, Paying
  <2>2. k \in Loans /\ payment.amount \in Nat
    BY <2>1, PayingPhase DEF Running, PaymentType
  <2>3. ReduceDebt(credit[k], payment.amount) \in Credit
    BY <2>2, LoanRow, ReducedDebt DEF Inv, TypeOK
  <2> QED
    BY <2>1, <2>2, <2>3, UpdateCreditRow DEF Inv, TypeOK
<1>3. CASE MarkOverdue
  <2>1. Current \in Loans /\ Head(todo) \in Copies
    BY <1>3, Within, Visited DEF MarkOverdue
  <2>2. [Head(todo).row EXCEPT !.status = "overdue"] \in Credit
    BY <2>1 DEF Copies, Credit, Statuses
  <2> QED
    BY <1>3, <2>1, <2>2, UpdateCreditRow DEF MarkOverdue, Inv, TypeOK
<1>4. CASE \E k \in CreditIds : ApplyForCredit(k)
  <2>1. PICK k \in CreditIds : ApplyForCredit(k)
    BY <1>4
  <2>2. PICK row : row.owner = Owner[row.acct] /\ credit' = [credit EXCEPT ![k] = row]
    BY <2>1 DEF ApplyForCredit, CreateCredit, Applicant
  <2>3. /\ k \notin Loans /\ credit'[k] = row
        /\ \A l \in CreditIds : l # k => credit'[l] = credit[l]
    BY <2>1, <2>2 DEF ApplyForCredit, Loans, Inv, TypeOK, CreditTypeOK
  <2> QED
    BY <2>2, <2>3 DEF Loans
<1> QED
  BY <1>1, <1>2, <1>3, <1>4
  DEF Next, Sweep, Failure, Environment, vars, creditVars, Tick, EndSweep, SkipCredit,
      VisitCredit, EndCredit, VisitInstallment, PaymentResult, FineInstallment,
      ReadForPayment, DebitAccount, FailVisit, FailFine, FailMarkOverdue, Crash,
      FailPayment, UpdateAccount, Day

(* Installments stay, and paid ones stay paid: LoanBook knows no other     *)
(* steps.                                                                  *)
LEMMA InstallmentsKept ==
  ASSUME Inv, [Next]_vars, NEW k \in Loans
  PROVE  /\ DOMAIN schedule'[k] = DOMAIN schedule[k]
         /\ \A i \in DOMAIN schedule[k] : schedule[k][i].isPaid => schedule'[k][i].isPaid
<1>1. /\ schedule \in [CreditIds -> Seq(Installment)]
      /\ k \in CreditIds /\ schedule[k] # <<>>
  BY DEF Inv, TablesOK, TypeOK, CreditTypeOK, Loans
<1>2. CASE UNCHANGED schedule
  BY <1>2
<1>3. ASSUME NEW l \in CreditIds, Book!Grant(l)
      PROVE  schedule'[k] = schedule[k]
  BY <1>1, <1>3 DEF Book!Grant
<1>4. ASSUME NEW l \in CreditIds, NEW i \in DOMAIN schedule[l], NEW row,
             schedule' = [schedule EXCEPT ![l][i] = row],
             schedule[l][i].isPaid => row.isPaid
      PROVE  /\ DOMAIN schedule'[k] = DOMAIN schedule[k]
             /\ \A j \in DOMAIN schedule[k] : schedule[k][j].isPaid => schedule'[k][j].isPaid
  BY <1>1, <1>4
<1>5. ASSUME NEW l \in CreditIds, Book!Collect(l)
      PROVE  \E i \in DOMAIN schedule[l] : \E row :
               schedule' = [schedule EXCEPT ![l][i] = row] /\ ~schedule[l][i].isPaid
  <2> DEFINE i == Book!Min(Book!Unsettled(l))
  <2>1. schedule[l] \in Seq(Installment)
    BY <1>1
  <2>2. Book!Unsettled(l) \in SUBSET Nat /\ Book!Unsettled(l) # {}
    BY <1>5, <2>1 DEF Book!Unsettled, Book!Collect
  <2>3. i \in Book!Unsettled(l)
    BY <2>2, BookMin, LeastElement
  <2>4. i \in DOMAIN schedule[l] /\ ~schedule[l][i].isPaid
    BY <2>3 DEF Book!Unsettled
  <2>5. PICK amount : schedule' = [schedule EXCEPT ![l][i] = Book!Credited(@, amount)]
    BY <1>5 DEF Book!Collect
  <2> DEFINE row == Book!Credited(schedule[l][i], amount)
  <2>6. schedule' = [schedule EXCEPT ![l][i] = row]
    BY <2>5
  <2> HIDE DEF row, i
  <2> QED
    BY <2>4, <2>6
<1>6. ASSUME NEW l \in CreditIds, Book!Fine(l)
      PROVE  \E i \in DOMAIN schedule[l] : \E row :
               schedule' = [schedule EXCEPT ![l][i] = row] /\ row.isPaid = schedule[l][i].isPaid
  <2>1. PICK i \in DOMAIN schedule[l] :
          schedule' = [schedule EXCEPT ![l][i].fines = Min({@ + 1, MaxFines})]
    BY <1>6, BookMin DEF Book!Fine, Book!Unsettled
  <2>2. schedule[l] \in Seq(Installment) /\ schedule[l][i] \in Installment
    BY <1>1
  <2> DEFINE row == [schedule[l][i] EXCEPT !.fines = Min({@ + 1, MaxFines})]
  <2>3. schedule' = [schedule EXCEPT ![l][i] = row]
    BY <1>1, <2>1
  <2>4. row.isPaid = schedule[l][i].isPaid
    BY <2>2 DEF Installment
  <2> QED
    BY <2>3, <2>4
<1> QED
  BY <1>2, <1>3, <1>4, <1>5, <1>6, BookStep DEF Book!Next, Book!bookVars

(* A step of the scheduler disturbs nothing of what the forecast relies on. *)
LEMMA SchedulerStepInv ==
  ASSUME ForecastInv, [Next]_vars, UNCHANGED forecastVars
  PROVE  ForecastInv'
<1>1. Inv /\ OwnersOK /\ toRead \in Seq(Entries) /\ PaidOK /\ KnownOK
  BY DEF ForecastInv
<1>2. UNCHANGED <<until, reading, toRead, counted, inBalance, known>>
  BY DEF forecastVars
<1>3. Inv'
  BY <1>1, NextInv
<1>4. OwnersOK'
  BY <1>1, CreditsKept DEF OwnersOK
<1>5. ASSUME NEW inst, IsInstallment(inst)
      PROVE  IsInstallment(inst)' /\ (IsPaid(inst) => IsPaid(inst)')
  BY <1>1, <1>5, CreditsKept, InstallmentsKept DEF IsInstallment, IsPaid
<1>6. PaidOK'
  BY <1>1, <1>2, <1>5 DEF PaidOK
<1>7. KnownOK'
  <2> SUFFICES ASSUME NEW inst \in known'
               PROVE  /\ IsInstallment(inst)'
                      /\ /\ reading' \in {"schedules", "done"}
                         /\ credit'[inst[1]].acct = Asked
                         /\ DueDate(inst[1], inst[2])' <= until'
                         => \/ inst \in counted'
                            \/ IsPaid(inst)'
                            \/ reading' = "schedules" /\ Ahead(inst[1])'
    BY DEF KnownOK
  <2>1. inst \in known /\ IsInstallment(inst) /\ inst[1] \in Loans
    BY <1>1, <1>2 DEF KnownOK, IsInstallment
  <2>2. /\ credit'[inst[1]].acct = credit[inst[1]].acct
        /\ DueDate(inst[1], inst[2])' = DueDate(inst[1], inst[2])
    BY <1>1, <2>1, CreditsKept DEF DueDate
  <2>3. Ahead(inst[1])' <=> Ahead(inst[1])
    BY <1>2 DEF Ahead
  <2> QED
    BY <1>1, <1>2, <1>5, <2>1, <2>2, <2>3 DEF KnownOK
<1> QED
  BY <1>1, <1>2, <1>3, <1>4, <1>6, <1>7 DEF ForecastInv

-----------------------------------------------------------------------------
(* The steps of the forecast.                                              *)

(* The forecast leaves the loans alone. *)
LEMMA LoansStay ==
  ASSUME ForecastInv, UNCHANGED vars
  PROVE  /\ Inv' /\ OwnersOK' /\ Loans' = Loans
         /\ UNCHANGED <<credit, schedule, now>>
         /\ \A inst : /\ IsInstallment(inst)' <=> IsInstallment(inst)
                      /\ IsPaid(inst)' <=> IsPaid(inst)
                      /\ DueDate(inst[1], inst[2])' = DueDate(inst[1], inst[2])
<1>1. UNCHANGED <<credit, schedule, now>>
  BY DEF vars, creditVars
<1>2. Inv'
  BY NextInv DEF ForecastInv
<1> QED
  BY <1>1, <1>2 DEF ForecastInv, OwnersOK, Loans, IsInstallment, IsPaid, DueDate

(* The credits ahead, but for the first. *)
LEMMA RestAhead ==
  ASSUME toRead \in Seq(Entries), toRead # <<>>, toRead' = Tail(toRead)
  PROVE  /\ toRead' \in Seq(Entries) /\ Head(toRead) \in Entries
         /\ \A k : Ahead(k) => Ahead(k)' \/ (k = Head(toRead).id /\ Head(toRead).open)
<1>1. /\ toRead' \in Seq(Entries) /\ Head(toRead) \in Entries /\ Head(toRead) = toRead[1]
      /\ \A i \in DOMAIN toRead : i # 1 => i - 1 \in DOMAIN toRead' /\ toRead'[i - 1] = toRead[i]
  OBVIOUS
<1> QED
  BY <1>1 DEF Ahead

(* What is paid when the balance is read, and what is not. *)
LEMMA ReadBalanceInv ==
  ASSUME ForecastInv, ReadBalance, UNCHANGED vars
  PROVE  ForecastInv'
<1>1. /\ Inv' /\ OwnersOK' /\ Loans' = Loans
      /\ \A inst : /\ IsInstallment(inst)' <=> IsInstallment(inst)
                   /\ IsPaid(inst)' <=> IsPaid(inst)
  BY LoansStay
<1>2. /\ reading' = "credits" /\ UNCHANGED <<toRead, counted>>
      /\ inBalance' = {row \in UNION {Rows(k) : k \in Loans} : schedule[row[1]][row[2]].isPaid}
      /\ known' = UNION {Rows(k) : k \in Loans} \ inBalance'
      /\ counted = {}
  BY DEF ReadBalance, After, ForecastInv
<1>3. \A inst \in UNION {Rows(k) : k \in Loans} : IsInstallment(inst)
  BY DEF Rows, IsInstallment
<1>4. PaidOK'
  BY <1>1, <1>2, <1>3 DEF PaidOK, IsPaid
<1>5. KnownOK'
  BY <1>1, <1>2, <1>3 DEF KnownOK
<1> QED
  BY <1>1, <1>2, <1>4, <1>5 DEF ForecastInv

(* Every credit that is open and on the account is in the list of its      *)
(* owner, so it is ahead now.                                              *)
LEMMA ReadCreditsInv ==
  ASSUME ForecastInv, ReadCredits, UNCHANGED vars
  PROVE  ForecastInv'
<1> DEFINE ids == GetCreditsByUserID(Owner[Asked])
           open(k) == credit[k].acct = Asked /\ Collectible(credit[k])
<1>1. /\ Inv' /\ OwnersOK' /\ Loans' = Loans /\ UNCHANGED <<credit, schedule, now>>
      /\ \A inst : /\ IsInstallment(inst)' <=> IsInstallment(inst)
                   /\ IsPaid(inst)' <=> IsPaid(inst)
  BY LoansStay
<1>2. /\ reading' = "schedules" /\ UNCHANGED <<counted, inBalance>>
      /\ toRead' = [i \in DOMAIN ids |-> [id |-> ids[i], open |-> open(ids[i])]]
      /\ known' = {inst \in known : credit[inst[1]].status # "paid"}
  BY DEF ReadCredits, After
<1>3. ids \in Seq(CreditIds)
  <2>1. GrantsOK /\ Loans \subseteq CreditIds
    BY DEF ForecastInv, Inv, TypeOK, CreditTypeOK, Loans
  <2>2. CASE Owner[Asked] \in Borrowers
    <3>1. ids \in Seq(Loans)
      BY <2>1, <2>2 DEF GrantsOK, GetCreditsByUserID
    <3> QED
      BY <2>1, <3>1
  <2>3. CASE Owner[Asked] \notin Borrowers
    BY <2>3 DEF GetCreditsByUserID
  <2> QED
    BY <2>2, <2>3
<1>4. toRead' \in Seq(Entries)
  <2>1. \A k : open(k) \in BOOLEAN
    OBVIOUS
  <2> DEFINE entry(i) == [id |-> ids[i], open |-> open(ids[i])]
             len == Len(ids)
  <2> HIDE DEF ids, open
  <2>2. len \in Nat /\ DOMAIN ids = 1 .. len /\ \A i \in 1 .. len : ids[i] \in CreditIds
    BY <1>3
  <2>3. \A i \in 1 .. len : entry(i) \in Entries
    BY <2>1, <2>2 DEF Entries
  <2>4. toRead' = [i \in 1 .. len |-> entry(i)]
    BY <1>2, <2>2
  <2> HIDE DEF entry, len
  <2> QED
    BY <2>2, <2>3, <2>4
<1>5. ASSUME NEW k \in Loans, credit[k].acct = Asked, credit[k].status # "paid"
      PROVE  Ahead(k)'
  <2>1. /\ credit[k].owner = Owner[Asked] /\ credit[k].owner \in Borrowers
        /\ credit[k].status \in Statuses
    BY <1>5, LoanRow DEF ForecastInv, OwnersOK, Inv, TypeOK
  <2>2. open(k)
    BY <1>5, <2>1 DEF Collectible, Statuses
  <2>3. \E i \in DOMAIN ids : ids[i] = k
    BY <2>1 DEF ForecastInv, Inv, TypeOK, CreditTypeOK, GrantsOK, GetCreditsByUserID
  <2> HIDE DEF ids, open
  <2> QED
    BY <1>2, <2>2, <2>3 DEF Ahead
<1>6. PaidOK'
  BY <1>1, <1>2 DEF ForecastInv, PaidOK
<1>7. KnownOK'
  <2> SUFFICES ASSUME NEW inst \in known'
               PROVE  /\ IsInstallment(inst)'
                      /\ /\ reading' \in {"schedules", "done"}
                         /\ credit'[inst[1]].acct = Asked
                         /\ DueDate(inst[1], inst[2])' <= until'
                         => \/ inst \in counted'
                            \/ IsPaid(inst)'
                            \/ reading' = "schedules" /\ Ahead(inst[1])'
    BY DEF KnownOK
  <2>1. IsInstallment(inst) /\ credit[inst[1]].status # "paid"
    BY <1>2 DEF ForecastInv, KnownOK
  <2> QED
    BY <1>1, <1>2, <1>5, <2>1 DEF IsInstallment
<1> QED
  BY <1>1, <1>2, <1>4, <1>6, <1>7 DEF ForecastInv

(* A credit that is not open holds nothing that is due. *)
LEMMA PassCreditInv ==
  ASSUME ForecastInv, PassCredit, UNCHANGED vars
  PROVE  ForecastInv'
<1>1. /\ Inv' /\ OwnersOK' /\ UNCHANGED <<credit, schedule, now>>
      /\ \A inst : /\ IsInstallment(inst)' <=> IsInstallment(inst)
                   /\ IsPaid(inst)' <=> IsPaid(inst)
                   /\ DueDate(inst[1], inst[2])' = DueDate(inst[1], inst[2])
  BY LoansStay
<1>2. /\ UNCHANGED <<until, reading, counted, inBalance, known>>
      /\ reading = "schedules" /\ ~Head(toRead).open
      /\ toRead # <<>> /\ toRead' = Tail(toRead)
  BY DEF PassCredit
<1>3. toRead' \in Seq(Entries) /\ \A k : Ahead(k) => Ahead(k)'
  BY <1>2, RestAhead DEF ForecastInv
<1>4. PaidOK'
  BY <1>1, <1>2 DEF ForecastInv, PaidOK
<1>5. KnownOK'
  BY <1>1, <1>2, <1>3 DEF ForecastInv, KnownOK
<1> QED
  BY <1>1, <1>2, <1>3, <1>4, <1>5 DEF ForecastInv

(* What is due of the first credit is charged, unless it is paid by now.   *)
LEMMA ReadScheduleInv ==
  ASSUME ForecastInv, ReadSchedule, UNCHANGED vars
  PROVE  ForecastInv'
<1> DEFINE k == Head(toRead).id
<1>1. /\ Inv' /\ OwnersOK' /\ UNCHANGED <<credit, schedule, now>>
      /\ \A inst : /\ IsInstallment(inst)' <=> IsInstallment(inst)
                   /\ IsPaid(inst)' <=> IsPaid(inst)
                   /\ DueDate(inst[1], inst[2])' = DueDate(inst[1], inst[2])
  BY LoansStay
<1>2. /\ UNCHANGED <<until, reading, inBalance, known>>
      /\ reading = "schedules"
      /\ toRead # <<>> /\ toRead' = Tail(toRead)
      /\ counted' = counted \cup ({k} \X Charged(k))
  BY DEF ReadSchedule
<1>3. toRead' \in Seq(Entries) /\ \A l : Ahead(l) => Ahead(l)' \/ l = k
  BY <1>2, RestAhead DEF ForecastInv
<1>4. \A inst \in {k} \X Charged(k) : ~IsPaid(inst)
  BY DEF Charged, GetPaymentSchedulesByCreditID, IsPaid
<1>5. PaidOK'
  BY <1>1, <1>2, <1>4 DEF ForecastInv, PaidOK
<1>6. ASSUME NEW inst \in known, inst[1] = k, DueDate(inst[1], inst[2]) <= until, ~IsPaid(inst)
      PROVE  inst \in counted'
  <2>1. inst = <<k, inst[2]>> /\ inst[2] \in DOMAIN schedule[k]
    BY <1>6 DEF ForecastInv, KnownOK, IsInstallment
  <2>2. inst[2] \in Charged(k)
    BY <1>6, <2>1 DEF IsPaid, Charged, GetPaymentSchedulesByCreditID
  <2> QED
    BY <1>2, <2>1, <2>2
<1>7. KnownOK'
  BY <1>1, <1>2, <1>3, <1>6 DEF ForecastInv, KnownOK
<1> QED
  BY <1>1, <1>2, <1>3, <1>5, <1>7 DEF ForecastInv

(* With nothing ahead, the forecast is complete. *)
LEMMA PredictInv ==
  ASSUME ForecastInv, Predict, UNCHANGED vars
  PROVE  ForecastInv'
<1>1. /\ Inv' /\ OwnersOK' /\ UNCHANGED <<credit, schedule, now>>
      /\ \A inst : /\ IsInstallment(inst)' <=> IsInstallment(inst)
                   /\ IsPaid(inst)' <=> IsPaid(inst)
                   /\ DueDate(inst[1], inst[2])' = DueDate(inst[1], inst[2])
  BY LoansStay
<1>2. /\ UNCHANGED <<until, toRead, counted, inBalance, known>>
      /\ reading = "schedules" /\ toRead = <<>> /\ reading' = "done"
  BY DEF Predict, After
<1>3. \A k : ~Ahead(k)
  BY <1>2 DEF Ahead
<1>4. PaidOK'
  BY <1>1, <1>2 DEF ForecastInv, PaidOK
<1>5. KnownOK'
  BY <1>1, <1>2, <1>3 DEF ForecastInv, KnownOK
<1> QED
  BY <1>1, <1>2, <1>4, <1>5 DEF ForecastInv

(* A forecast that failed claims nothing. *)
LEMMA FailForecastInv ==
  ASSUME ForecastInv, FailForecast, UNCHANGED vars
  PROVE  ForecastInv'
<1>1. Inv' /\ OwnersOK'
  BY LoansStay
<1>2. reading' = "failed" /\ toRead' = <<>> /\ inBalance' = {} /\ known' = {}
  BY DEF FailForecast
<1> QED
  BY <1>1, <1>2 DEF ForecastInv, PaidOK, KnownOK

-----------------------------------------------------------------------------
(* The results.                                                            *)

LEMMA ForecastInitInv == ForecastInit => ForecastInv
<1> SUFFICES ASSUME ForecastInit PROVE ForecastInv
  OBVIOUS
<1>1. Init /\ toRead = <<>> /\ counted = {} /\ inBalance = {} /\ known = {}
  BY DEF ForecastInit
<1>2. Loans = {}
  BY <1>1 DEF Init, CreditInit, Loans
<1> QED
  BY <1>1, <1>2, InitInv DEF ForecastInv, OwnersOK, PaidOK, KnownOK

LEMMA ForecastNextInv == ForecastInv /\ [ForecastNext]_<<vars, forecastVars>> => ForecastInv'
<1> SUFFICES ASSUME ForecastInv, [ForecastNext]_<<vars, forecastVars>> PROVE ForecastInv'
  OBVIOUS
<1>1. CASE [Next]_vars /\ UNCHANGED forecastVars
  BY <1>1, SchedulerStepInv
<1>2. CASE Forecast /\ UNCHANGED vars
  BY <1>2, ReadBalanceInv, ReadCreditsInv, PassCreditInv, ReadScheduleInv, PredictInv,
     FailForecastInv DEF Forecast
<1> QED
  BY <1>1, <1>2 DEF ForecastNext

LEMMA ForecastInvHolds == ForecastSpec => []ForecastInv
BY ForecastInitInv, ForecastNextInv, PTL DEF ForecastSpec

(* With any number of credits, whatever is granted, collected, fined or    *)
(* fails between the statements: no installment the balance has already    *)
(* lost is subtracted.                                                     *)
THEOREM NeverCountedTwiceHolds == ForecastSpec => []NeverCountedTwice
<1>1. ForecastInv => NeverCountedTwice
  BY DEF ForecastInv, PaidOK, NeverCountedTwice
<1> QED
  BY <1>1, ForecastInvHolds, PTL

(* And every installment that was unpaid when the balance was read, of a   *)
(* credit still open when the credits were, and due by the day asked for,  *)
(* is subtracted, or has been paid since.                                  *)
THEOREM UncountedWasCollectedHolds == ForecastSpec => []UncountedWasCollected
<1>1. ForecastInv => UncountedWasCollected
  BY DEF ForecastInv, KnownOK, IsPaid, UncountedWasCollected
<1> QED
  BY <1>1, ForecastInvHolds, PTL
===============================================================================
