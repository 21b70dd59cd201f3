----------------------------- MODULE IncomeExpense -----------------------------
(***************************************************************************)
(* GetMonthlyIncomeExpense, while money moves: the accounts of the user,   *)
(* then the transactions of one account after the other are read, and      *)
(* those of the month are added up.                                        *)
(*                                                                         *)
(* A row of the table transactions carries the time the application built  *)
(* it, which is before it can be seen.  Instants are the microseconds of   *)
(* the column, a month has MonthLength of them.  Balances are the business *)
(* of AccountService: a writer here is a request, or the collection of an  *)
(* installment, reduced to the rows it inserts.                            *)
(***************************************************************************)
EXTENDS Integers, Sequences, FiniteSets, Functions

CONSTANTS
  UserAccounts, \* the accounts the user may come to have
  Writers,      \* what moves money on them
  Bookings,     \* the rows a writer may insert: a set of sequences of entries
  Months,       \* the months reports are asked for
  MonthLength,  \* instants of a month
  Horizon       \* the last instant of these models

Entry == [acct : UserAccounts, amount : Int]

ASSUME MonthAssumption ==
  /\ Bookings \subseteq Seq(Entry) \ {<<>>}
  /\ Months \subseteq Nat
  /\ MonthLength \in Nat \ {0}
  /\ Horizon \in Nat

VARIABLES
  clock,   \* the time
  opened,  \* the accounts of the user
  rows,    \* their rows in the table transactions
  writer,  \* per writer: what it is doing, the entries left, the time of the next row
  report,  \* the request for a report and its local variables
  before,  \* history: the rows when the report was asked for
  quiet    \* history: the month was over then, and nothing under way bore its date

bookVars == <<clock, opened, rows, writer>>
reportVars == <<report, before, quiet>>
monthVars == <<bookVars, reportVars>>

NoReport == [stage |-> "new", month |-> 0, toRead |-> {}, income |-> 0, expense |-> 0]

-----------------------------------------------------------------------------
(* Money moves.                                                            *)

Tick ==
  /\ clock < Horizon
  /\ clock' = clock + 1
  /\ UNCHANGED <<opened, rows, writer, reportVars>>

OpenAccount(a) ==
  /\ a \notin opened
  /\ opened' = opened \cup {a}
  /\ UNCHANGED <<clock, rows, writer, reportVars>>

Begin(w) ==
  /\ writer[w].stage = "new"
  /\ \E entries \in Bookings :
       /\ \A i \in DOMAIN entries : entries[i].acct \in opened
       /\ writer' = [writer EXCEPT ![w] = [@ EXCEPT !.stage = "build", !.left = entries]]
  /\ UNCHANGED <<clock, opened, rows, reportVars>>

(* The row is built in memory, with time.Now() ... *)
BuildTransaction(w) ==
  /\ writer[w].stage = "build"
  /\ writer' = [writer EXCEPT ![w] = [@ EXCEPT !.stage = "insert", !.at = clock]]
  /\ UNCHANGED <<clock, opened, rows, reportVars>>

(* ... and inserted, or committed, later. *)
CreateTransaction(w) ==
  LET entry == Head(writer[w].left)
      left == Tail(writer[w].left)
  IN  /\ writer[w].stage = "insert"
      /\ rows' = rows \cup {[by |-> w, nth |-> Len(left), acct |-> entry.acct,
                             amount |-> entry.amount, at |-> writer[w].at]}
      /\ writer' = [writer EXCEPT ![w] =
           [stage |-> IF left = <<>> THEN "done" ELSE "build", left |-> left, at |-> 0]]
      /\ UNCHANGED <<clock, opened, reportVars>>

(* A statement fails, or the process dies: the rows left are not inserted. *)
Abandon(w) ==
  /\ writer[w].stage \in {"build", "insert"}
  /\ writer' = [writer EXCEPT ![w] = [stage |-> "done", left |-> <<>>, at |-> 0]]
  /\ UNCHANGED <<clock, opened, rows, reportVars>>

-----------------------------------------------------------------------------
(* The report.                                                             *)

StartOfMonth(m) == m * MonthLength

(* Mutant: the end of the month is not tested. *)
InMonthOpenEnd(row, m) == row.at > StartOfMonth(m)

(* After the first instant, and before the last nanosecond, which no       *)
(* microsecond reaches.                                                    *)
InMonth(row, m) == row.at > StartOfMonth(m) /\ row.at < StartOfMonth(m + 1)

Total(some) == SumFunction([row \in some |-> row.amount])

Ask ==
  /\ report.stage = "new"
  /\ \E m \in Months :
       /\ report' = [NoReport EXCEPT !.stage = "accounts", !.month = m]
       /\ quiet' = /\ clock >= StartOfMonth(m + 1)
                   /\ \A w \in Writers : writer[w].stage = "insert" =>
                        writer[w].at >= StartOfMonth(m + 1)
  /\ before' = rows
  /\ UNCHANGED bookVars

GetAccountsByUserID ==
  /\ report.stage = "accounts"
  /\ report' = [report EXCEPT !.stage = "transactions", !.toRead = opened]
  /\ UNCHANGED <<bookVars, before, quiet>>

(* Mutant: the total of an account replaces that of the accounts before. *)
ReadTransactionsReplacing ==
  /\ report.stage = "transactions"
  /\ \E a \in report.toRead :
       LET found == {row \in rows : row.acct = a /\ InMonth(row, report.month)}
           incomes == {row \in found : row.amount > 0}
       IN  report' = [report EXCEPT !.toRead = @ \ {a},
                                    !.income = Total(incomes),
                                    !.expense = Total(found \ incomes)]
  /\ UNCHANGED <<bookVars, before, quiet>>

ReadTransactions ==
  /\ report.stage = "transactions"
  /\ \E a \in report.toRead :
       LET found == {row \in rows : row.acct = a /\ InMonth(row, report.month)}
           incomes == {row \in found : row.amount > 0}
       IN  report' = [report EXCEPT !.toRead = @ \ {a},
                                    !.income = @ + Total(incomes),
                                    !.expense = @ + Total(found \ incomes)]
  /\ UNCHANGED <<bookVars, before, quiet>>

Answer ==
  /\ report.stage = "transactions"
  /\ report.toRead = {}
  /\ report' = [report EXCEPT !.stage = "done", !.expense = -@]
  /\ UNCHANGED <<bookVars, before, quiet>>

FailReport ==
  /\ report.stage \in {"accounts", "transactions"}
  /\ report' = [NoReport EXCEPT !.stage = "failed"]
  /\ UNCHANGED <<bookVars, before, quiet>>

-----------------------------------------------------------------------------
MonthInit ==
  /\ clock = 0
  /\ opened = {}
  /\ rows = {}
  /\ writer = [w \in Writers |-> [stage |-> "new", left |-> <<>>, at |-> 0]]
  /\ report = NoReport
  /\ before = {}
  /\ quiet = FALSE

Write(w) == Begin(w) \/ BuildTransaction(w) \/ CreateTransaction(w) \/ Abandon(w)

MonthNext ==
  \/ Tick
  \/ \E a \in UserAccounts : OpenAccount(a)
  \/ \E w \in Writers : Write(w)
  \/ Ask \/ GetAccountsByUserID \/ ReadTransactions \/ Answer \/ FailReport

MonthSpec == MonthInit /\ [][MonthNext]_monthVars
-----------------------------------------------------------------------------
(* Properties.                                                             *)

RowsOfMonth(some, m) == {row \in some : row.at \div MonthLength = m}

AfterFirstInstant(some) == {row \in some : row.at % MonthLength # 0}

Income(some) == Total({row \in some : row.amount > 0})
Expense(some) == -Total({row \in some : row.amount < 0})

Reported == report.stage = "done"

(* A report taken while money moves lies between the month as it was when  *)
(* the report was asked for and the month as it is now: accounts read one  *)
(* after the other make it count nothing twice and lose nothing that was   *)
(* there.  (The first instant of a month apart.)                           *)
ReportIsBetween ==
  LET was == AfterFirstInstant(RowsOfMonth(before, report.month))
      is == AfterFirstInstant(RowsOfMonth(rows, report.month))
  IN  Reported => /\ Income(was) <= report.income /\ report.income <= Income(is)
                  /\ Expense(was) <= report.expense /\ report.expense <= Expense(is)

(* A report of a month that was over, with nothing under way that bore its *)
(* date, is final: whatever was booked during the report or afterwards is  *)
(* not missing from it and not in it.  (The first instant apart.)          *)
ReportIsFinal ==
  LET is == AfterFirstInstant(RowsOfMonth(rows, report.month))
  IN  Reported /\ quiet => report.income = Income(is) /\ report.expense = Expense(is)
=============================================================================
