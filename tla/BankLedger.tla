------------------------------ MODULE BankLedger ------------------------------
(***************************************************************************)
(* What a bank promises of its accounts, whatever happens inside: money    *)
(* moves in single steps that change the funds and book the rows that      *)
(* explain the change; nothing is withdrawn that is not there; a transfer  *)
(* takes from one account what it gives to another.                        *)
(***************************************************************************)
EXTENDS Integers

CONSTANTS
  Accounts,  \* the accounts there can be
  NoFunds    \* an account that is not open

VARIABLES
  funds,   \* the money on each account
  booked   \* the rows of the transactions: account, amount, related account

ledgerVars == <<funds, booked>>

Posted == booked' \ booked

Open(a) == funds[a] # NoFunds

OpenAccount ==
  /\ \E a \in Accounts : ~Open(a) /\ funds' = [funds EXCEPT ![a] = 0]
  /\ UNCHANGED booked

Deposit(row) ==
  /\ Open(row.acct)
  /\ row.amount > 0
  /\ Posted = {row}
  /\ funds' = [funds EXCEPT ![row.acct] = @ + row.amount]

Withdraw(row) ==
  /\ Open(row.acct)
  /\ row.amount < 0
  /\ funds[row.acct] + row.amount >= 0
  /\ Posted = {row}
  /\ funds' = [funds EXCEPT ![row.acct] = @ + row.amount]

Transfer(out, in) ==
  /\ Open(out.acct) /\ Open(in.acct) /\ out.acct # in.acct
  /\ out.related = in.acct /\ in.related = out.acct
  /\ in.amount > 0 /\ out.amount = -in.amount
  /\ funds[out.acct] >= in.amount
  /\ Posted = {out, in}
  /\ funds' = [funds EXCEPT ![out.acct] = @ + out.amount, ![in.acct] = @ + in.amount]

Book ==
  /\ booked \subseteq booked'
  /\ \E row, other \in Posted :
       Deposit(row) \/ Withdraw(row) \/ Transfer(row, other)

Next == OpenAccount \/ Book

Init ==
  /\ \A a \in Accounts : Open(a) => funds[a] >= 0
  /\ \A row \in booked : Open(row.acct)

Spec == Init /\ [][Next]_ledgerVars
=============================================================================
