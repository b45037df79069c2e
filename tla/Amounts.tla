------------------------------- MODULE Amounts -------------------------------
(***************************************************************************)
(* The amount of a transfer as a user of the bot types it: a decimal       *)
(* number without a sign, perhaps with an exponent, [digits, exponent].    *)
(* Amounts that are stored count hundredths.                               *)
(***************************************************************************)
EXTENDS Integers

CONSTANTS
    DIGITS_COUNT,    \* BankAccount.DIGITS_COUNT
    PRECISION        \* of Python's decimal context

DECIMAL_PLACES == 2

ASSUME AmountsAssumption ==
    /\ DIGITS_COUNT \in Nat
    /\ PRECISION \in Nat /\ PRECISION >= DIGITS_COUNT + DECIMAL_PLACES

Decimals == [digits : Nat, exponent : Int]

\* What parse_accrual comes to without an amount: its ValueError, and the
\* InvalidOperation that nobody catches.
Invalid == -1
Unrepresentable == -2

\* 10 ^ n, by a recursion of its own: of ^ the provers know nothing.
TenTo[n \in Nat] == IF n = 0 THEN 1 ELSE 10 * TenTo[n - 1]

\* A number of n digits at most.
HasDigits(m, n) == m < TenTo[n]

\* Mutant: what is beyond the last place is cut off.
Truncated(m, d) == m \div d

\* m / d rounded to an integer, half to even.
HalfEven(m, d) ==
    LET q == m \div d
        r == m % d
    IN  IF 2 * r < d \/ (2 * r = d /\ q % 2 = 0) THEN q ELSE q + 1

\* round(Decimal(digits), DECIMAL_PLACES), in hundredths
Round(x) ==
    LET places == x.exponent + DECIMAL_PLACES
    IN  IF places >= 0 THEN x.digits * TenTo[places]
        ELSE HalfEven(x.digits, TenTo[-places])

\* validate_accrual of a number of hundredths: its exponent is right already,
\* and the digits before the point are not too many.
validate_accrual(cents) == cents > 0 /\ HasDigits(cents, DIGITS_COUNT + DECIMAL_PLACES)

parse_accrual(x) ==
    LET cents == Round(x)
    IN  CASE ~HasDigits(cents, PRECISION) -> Unrepresentable
          [] validate_accrual(cents) -> cents
          [] OTHER -> Invalid

=============================================================================
