------------------------------- MODULE Amounts -------------------------------
(***************************************************************************)
(* Fractions of a kopeck: amounts are float64, the columns balance and     *)
(* amount are NUMERIC(18, 2).  The new balance and the amount recorded are *)
(* rounded separately, by PostgreSQL, and nobody rounds before.            *)
(*                                                                         *)
(* Amounts are tenths of a kopeck, columns are kopecks.  Up to Exact the   *)
(* numbers of float64 are so close together that a sum is right but for a  *)
(* half kopeck.  Beyond they are Unit apart: the column holds balances up  *)
(* to 10^16 roubles, where float64 has but every second rouble.  One       *)
(* spacing stands for all of those between.  How operations overlap is the *)
(* business of AccountService; here each is one step.                      *)
(***************************************************************************)
EXTENDS Integers, FiniteSets

CONSTANTS
  Accounts,
  Requested,   \* the amounts clients ask for, as they are decoded
  Exact,       \* the largest sum that float64 gets right but for a half
  Unit,        \* how far apart the numbers of float64 are beyond
  MaxBalance,  \* what the column balance has room for
  MaxOps       \* bound on the operations of a behaviour

ASSUME AmountsAssumption ==
  /\ Requested \subseteq Nat \ {0}
  /\ Exact \in Nat
  /\ Unit \in Nat \ {0}
  /\ MaxBalance \in Nat
  /\ MaxOps \in Nat

VARIABLES
  balance,     \* accounts.balance
  booked,      \* the total of the rows of the account in transactions
  halvesIn,    \* history: credits of so many kopecks and a half
  halvesOut,   \* history: debits of so many kopecks and a half
  coarse,      \* history: tenths that writes beyond Exact may lose or win
  ops          \* operations so far

vars == <<balance, booked, halvesIn, halvesOut, coarse, ops>>

-----------------------------------------------------------------------------
(* Mutant: the amount is cut off instead of rounded. *)
RecordedTruncated(amount) == amount \div 10

(* The column amount: a half is rounded away from zero, for a debit too. *)
Recorded(amount) == (amount + 5) \div 10

(* The numbers of float64 that are nearest. *)
Floats(tenths) ==
  IF tenths <= Exact THEN {tenths}
  ELSE LET below == Unit * (tenths \div Unit)
       IN  {f \in {below, below + Unit} :
              2 * (f - tenths) \in -Unit .. Unit}

(* What account.Balance is after the SELECT. *)
Read(a) == Floats(10 * balance[a])

(* What the UPDATE puts into the column balance.  A sum of floats may come *)
(* out a bit below a half; a credit to an empty account is the amount.     *)
Stored(read, change) ==
  LET sums == Floats(read + change)
      kopecks == {(f + 5) \div 10 : f \in sums} \cup
                   (IF read = 0 THEN {} ELSE {(f + 4) \div 10 : f \in sums})
  IN  {b \in kopecks : b <= MaxBalance}

Half(amount) == IF amount % 10 = 5 THEN 1 ELSE 0

(* Two numbers are rounded to float64, and two more to kopecks. *)
Coarse(a, change) ==
  IF 10 * balance[a] > Exact \/ 10 * balance[a] + change > Exact THEN Unit + 10 ELSE 0

Funds(read, amount) == read >= amount

Count == ops < MaxOps /\ ops' = ops + 1

Deposit(a, amount) ==
  /\ Count
  /\ \E read \in Read(a) : \E b \in Stored(read, amount) :
       balance' = [balance EXCEPT ![a] = b]
  /\ booked' = [booked EXCEPT ![a] = @ + Recorded(amount)]
  /\ halvesIn' = [halvesIn EXCEPT ![a] = @ + Half(amount)]
  /\ coarse' = [coarse EXCEPT ![a] = @ + Coarse(a, amount)]
  /\ UNCHANGED halvesOut

Withdraw(a, amount) ==
  /\ Count
  /\ \E read \in Read(a) :
       /\ Funds(read, amount)
       /\ \E b \in Stored(read, -amount) : balance' = [balance EXCEPT ![a] = b]
  /\ booked' = [booked EXCEPT ![a] = @ - Recorded(amount)]
  /\ halvesOut' = [halvesOut EXCEPT ![a] = @ + Half(amount)]
  /\ coarse' = [coarse EXCEPT ![a] = @ + Coarse(a, -amount)]
  /\ UNCHANGED halvesIn

Transfer(from, to, amount) ==
  /\ Count
  /\ from # to
  /\ \E read \in Read(from), readTo \in Read(to) :
       /\ Funds(read, amount)
       /\ \E b \in Stored(read, -amount), c \in Stored(readTo, amount) :
            balance' = [balance EXCEPT ![from] = b, ![to] = c]
  /\ booked' = [booked EXCEPT ![from] = @ - Recorded(amount), ![to] = @ + Recorded(amount)]
  /\ halvesOut' = [halvesOut EXCEPT ![from] = @ + Half(amount)]
  /\ halvesIn' = [halvesIn EXCEPT ![to] = @ + Half(amount)]
  /\ coarse' = [coarse EXCEPT ![from] = @ + Coarse(from, -amount),
                              ![to] = @ + Coarse(to, amount)]

Init ==
  /\ balance = [a \in Accounts |-> 0]
  /\ booked = [a \in Accounts |-> 0]
  /\ halvesIn = [a \in Accounts |-> 0]
  /\ halvesOut = [a \in Accounts |-> 0]
  /\ coarse = [a \in Accounts |-> 0]
  /\ ops = 0

Next ==
  \E a \in Accounts, amount \in Requested :
    \/ Deposit(a, amount)
    \/ Withdraw(a, amount)
    \/ \E b \in Accounts : Transfer(a, b, amount)

Spec == Init /\ [][Next]_vars
-----------------------------------------------------------------------------
(* Properties.                                                             *)

(* No account goes below zero, however coarse the sums.  What an account   *)
(* is short of its transactions is at most a kopeck for each credit of so  *)
(* many kopecks and a half, and what it has too much at most a kopeck for  *)
(* each such debit; only writes beyond Exact lose or win more, and those   *)
(* no more than the spacing of float64 and a kopeck each.                  *)
DriftIsBounded ==
  \A a \in Accounts :
    /\ balance[a] >= 0
    /\ 10 * (booked[a] - halvesIn[a]) - coarse[a] <= 10 * balance[a]
    /\ 10 * balance[a] <= 10 * (booked[a] + halvesOut[a]) + coarse[a]
=============================================================================
