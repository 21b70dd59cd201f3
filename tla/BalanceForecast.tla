---------------------------- MODULE BalanceForecast ----------------------------
(***************************************************************************)
(* PredictAccountBalance, while the scheduler collects: the balance, then  *)
(* the credits of the owner, then the schedule of one credit after the     *)
(* other are read by statements of their own, and every installment that   *)
(* is unpaid by then and due before the date asked for is subtracted.      *)
(*                                                                         *)
(* The forecast only reads: it never disturbs the loans.                   *)
(***************************************************************************)
EXTENDS SchedulerService

CONSTANTS
  Asked,  \* the account the forecast is for
  Days    \* how many days ahead

VARIABLES
  until,      \* the day asked for
  reading,    \* what the forecast reads next
  toRead,     \* the credits the forecast has still to look at
  counted,    \* the installments subtracted
  inBalance,  \* history: those already paid when the balance was read
  known       \* history: those not paid then, of credits not closed since

forecastVars == <<until, reading, toRead, counted, inBalance, known>>

Rows(k) == {k} \X DOMAIN schedule[k]

(* Mutant: the balance is read after the schedules. *)
AfterLate(step) ==
  CASE step = "new" -> "credits"
    [] step = "credits" -> "schedules"
    [] step = "schedules" -> "balance"
    [] step = "balance" -> "done"

After(step) ==
  CASE step = "new" -> "balance"
    [] step = "balance" -> "credits"
    [] step = "credits" -> "schedules"
    [] step = "schedules" -> "done"

ReadBalance ==
  /\ reading = "balance"
  /\ inBalance' = {row \in UNION {Rows(k) : k \in Loans} : schedule[row[1]][row[2]].isPaid}
  /\ known' = UNION {Rows(k) : k \in Loans} \ inBalance'
  /\ reading' = After("balance")
  /\ UNCHANGED <<until, toRead, counted>>

(* The rows are read once; whether a credit is asked for is decided by     *)
(* its row, not by what becomes of the credit meanwhile.                   *)
ReadCredits ==
  LET ids == GetCreditsByUserID(Owner[Asked])
      row(i) == credit[ids[i]]
  IN  /\ reading = "credits"
      /\ toRead' = [i \in DOMAIN ids |->
                      [id |-> ids[i], open |-> row(i).acct = Asked /\ Collectible(row(i))]]
      /\ until' = now + Days
      /\ known' = {inst \in known : credit[inst[1]].status # "paid"}
      /\ reading' = After("credits")
      /\ UNCHANGED <<counted, inBalance>>

(* Credits that are paid, or linked to another account, are passed over. *)
PassCredit ==
  /\ reading = "schedules"
  /\ toRead # <<>>
  /\ ~Head(toRead).open
  /\ toRead' = Tail(toRead)
  /\ UNCHANGED <<until, reading, counted, inBalance, known>>

(* What is unpaid, and due before the day asked for. *)
Charged(k) ==
  LET rows == GetPaymentSchedulesByCreditID(k)
  IN  {i \in DOMAIN rows : ~rows[i].isPaid /\ DueDate(k, i) <= until}

ReadSchedule ==
  /\ reading = "schedules"
  /\ toRead # <<>>
  /\ Head(toRead).open
  /\ counted' = counted \cup ({Head(toRead).id} \X Charged(Head(toRead).id))
  /\ toRead' = Tail(toRead)
  /\ UNCHANGED <<until, reading, inBalance, known>>

Predict ==
  /\ reading = "schedules"
  /\ toRead = <<>>
  /\ reading' = After("schedules")
  /\ UNCHANGED <<until, toRead, counted, inBalance, known>>

(* A statement fails: the client gets no forecast, what was read is lost. *)
FailForecast ==
  /\ \/ reading \in {"balance", "credits"}
     \/ reading = "schedules" /\ toRead # <<>> /\ Head(toRead).open
  /\ reading' = "failed"
  /\ until' = 0
  /\ toRead' = <<>>
  /\ counted' = {}
  /\ inBalance' = {}
  /\ known' = {}

Forecast ==
  ReadBalance \/ ReadCredits \/ PassCredit \/ ReadSchedule \/ Predict \/ FailForecast

ForecastInit ==
  /\ Init
  /\ until = 0
  /\ reading = After("new")
  /\ toRead = <<>>
  /\ counted = {}
  /\ inBalance = {}
  /\ known = {}

ForecastNext ==
  \/ Next /\ UNCHANGED forecastVars
  \/ Forecast /\ UNCHANGED vars

ForecastSpec == ForecastInit /\ [][ForecastNext]_<<vars, forecastVars>>
-----------------------------------------------------------------------------
(* Properties.                                                             *)

(* No installment is charged twice: one that was settled when the balance  *)
(* was read is not subtracted again, whatever is collected between the     *)
(* statements.  One that was paid in part is: the code subtracts it whole. *)
NeverCountedTwice == reading = "done" => counted \cap inBalance = {}

(* What a forecast leaves out has been collected meanwhile: every          *)
(* installment of an open credit that was unpaid when the balance was read *)
(* and is due by the day asked for is subtracted, or has been paid since.  *)
UncountedWasCollected ==
  reading = "done" =>
    \A row \in known :
      /\ credit[row[1]].acct = Asked
      /\ DueDate(row[1], row[2]) <= until
      => row \in counted \/ schedule[row[1]][row[2]].isPaid
=============================================================================
