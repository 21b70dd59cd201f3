--------------------------------- MODULE Luhn ---------------------------------
(***************************************************************************)
(* Card numbers: random digits and a check digit, as                       *)
(* generateLuhnCardNumber and calculateLuhnChecksum compute them, against  *)
(* the definition of the Luhn algorithm.  A behaviour draws one number.    *)
(***************************************************************************)
EXTENDS Integers, SequencesExt

CONSTANT BaseLength  \* the digits before the check digit; 15 in the code

ASSUME LengthAssumption == BaseLength \in Nat

VARIABLES
  base,   \* the random digits
  number  \* the card number, once it is generated

Digits == 0 .. 9

Bases == [1 .. BaseLength -> Digits]

Addend(digit, double) ==
  IF ~double THEN digit
  ELSE IF 2 * digit > 9 THEN 2 * digit - 9
  ELSE 2 * digit

(* Mutant: a sum that needs no check digit gets the digit ten. *)
CheckDigitOfTen(sum) == 10 - (sum % 10)

CheckDigit(sum) == (10 - (sum % 10)) % 10

(* The loop runs from the last digit to the first and toggles a flag. *)
AddDigit(digit, loop) ==
  [sum |-> loop.sum + Addend(digit, loop.double), double |-> ~loop.double]

calculateLuhnChecksum(digits) ==
  CheckDigit(FoldRight(AddDigit, digits, [sum |-> 0, double |-> TRUE]).sum)

generateLuhnCardNumber == Append(base, calculateLuhnChecksum(base))

DrawInit ==
  /\ base \in Bases
  /\ number = <<>>

Generate ==
  /\ number = <<>>
  /\ number' = generateLuhnCardNumber
  /\ UNCHANGED base

DrawSpec == DrawInit /\ [][Generate]_<<base, number>>
-----------------------------------------------------------------------------
(* The definition: every second digit from the right, the check digit not  *)
(* counted, is replaced by the digit sum of its double; the sum of all is  *)
(* a multiple of ten.                                                      *)
DigitSum(n) == (n \div 10) + (n % 10)

Weight(digits, pos) ==
  IF (Len(digits) - pos) % 2 = 1 THEN DigitSum(2 * digits[pos]) ELSE digits[pos]

LuhnValid(digits) ==
  SumFunction([pos \in DOMAIN digits |-> Weight(digits, pos)]) % 10 = 0

(* The loop, which runs from the right and toggles a flag, produces        *)
(* numbers of decimal digits that the Luhn algorithm accepts.              *)
GeneratedIsValid ==
  number # <<>> =>
    /\ \A pos \in DOMAIN number : number[pos] \in Digits
    /\ LuhnValid(number)
=============================================================================
