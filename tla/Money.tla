------------------------------- MODULE Money -------------------------------
(***************************************************************************)
(* Amounts of money under sequences of operations, in machine integers of  *)
(* Width bits: the constructor, Add, Sub, Neg, and the line totals of      *)
(* ComputeTotal.  Each step is shadowed by the same step on true integers. *)
(***************************************************************************)
EXTENDS Integers, Sequences

CONSTANTS
  Width,            \* int64's 64
  NanosPerUnit,
  Currencies,
  MaxNanos,         \* int32's maximum: more than one unit
  MaxQuantity       \* the largest factor

HalfRange == 2^(Width - 1)

\* An int32 of nanos fits the machine's integers, and so does a unit.
ASSUME MoneyAssumption ==
  /\ HalfRange \in Nat /\ NanosPerUnit \in Nat /\ NanosPerUnit >= 2 /\ NanosPerUnit < HalfRange
  /\ MaxNanos \in Nat /\ MaxNanos < HalfRange
  /\ Currencies # {} /\ MaxQuantity \in Nat

VARIABLES
  amount,           \* the Money in hand
  exact,            \* history: the sum of nanos it stands for
  refused           \* history: an operation was refused that had a representable result

moneyVars == <<amount, exact, refused>>

-----------------------------------------------------------------------------
(* Machine arithmetic: wraparound, and division that truncates. *)

MaxInt == HalfRange - 1
MinInt == -HalfRange
Wrap(x) == ((x - MinInt) % (2 * HalfRange)) + MinInt
Quot(a, b) == LET q == (IF a < 0 THEN -a ELSE a) \div (IF b < 0 THEN -b ELSE b)
              IN Wrap(IF (a < 0) = (b < 0) THEN q ELSE -q)
Rem(a, b) == a - b * Quot(a, b)

\* Room is left for the largest nanos.
maxUnits == (MaxInt - (NanosPerUnit - 1)) \div NanosPerUnit

Amount(c, u, n) == [cur |-> c, units |-> u, nanos |-> n]
Zero(c) == Amount(c, 0, 0)
InRange(u) == u <= maxUnits /\ u >= -maxUnits

\* normalized: fold the nanos into the units, then make the signs agree.
normalized(c, u, n) ==
  LET units == Wrap(u + Quot(n, NanosPerUnit))
      nanos == Rem(n, NanosPerUnit)
  IN CASE units > 0 /\ nanos < 0 -> Amount(c, units - 1, nanos + NanosPerUnit)
       [] units < 0 /\ nanos > 0 -> Amount(c, units + 1, nanos - NanosPerUnit)
       [] OTHER -> Amount(c, units, nanos)

\* Validate, of an amount whose currency code has three letters.
ValidateMoney(m) ==
  /\ m.nanos > -NanosPerUnit /\ m.nanos < NanosPerUnit
  /\ ~(m.units > 0 /\ m.nanos < 0) /\ ~(m.units < 0 /\ m.nanos > 0)
  /\ InRange(m.units)

\* totalNanos, behind its range check.
totalNanos(m) == Wrap(Wrap(m.units * NanosPerUnit) + m.nanos)

\* fromTotalNanos, before its range check.
fromTotalNanos(c, total) == Amount(c, Quot(total, NanosPerUnit), Rem(total, NanosPerUnit))

Overflow == [error |-> "overflow"]
Mismatch == [error |-> "mismatch"]
Ranged(m) == IF InRange(m.units) THEN m ELSE Overflow
Ok(m) == "error" \notin DOMAIN m

\* Mutant: the constructor does not validate.
NewMoney_Unvalidated(c, u, n) == normalized(c, u, n)

NewMoney(c, u, n) == LET m == normalized(c, u, n) IN IF ValidateMoney(m) THEN m ELSE Overflow

\* Add and Sub.
combine(m, o, negate) ==
  LET a == totalNanos(m)
      b == IF negate THEN Wrap(-totalNanos(o)) ELSE totalNanos(o)
      sum == Wrap(a + b)
      wrapped == (b > 0 /\ sum < a) \/ (b < 0 /\ sum > a)
  IN IF m.cur # o.cur THEN Mismatch
     ELSE IF ~InRange(m.units) \/ ~InRange(o.units) \/ wrapped THEN Overflow
     ELSE Ranged(fromTotalNanos(m.cur, sum))

\* Mutant: the product is not checked.
Mul_Unchecked(m, n) == Ranged(fromTotalNanos(m.cur, Wrap(totalNanos(m) * n)))

Mul(m, n) ==
  LET total == totalNanos(m)
      product == Wrap(total * n)
  IN IF ~InRange(m.units) THEN Overflow
     ELSE IF n = 0 THEN Zero(m.cur)
     ELSE IF Quot(product, n) # total THEN Overflow
     ELSE Ranged(fromTotalNanos(m.cur, product))

Neg(m) == Amount(m.cur, Wrap(-m.units), -m.nanos)

-----------------------------------------------------------------------------
(* Sequences of operations *)

Nanos(m) == m.units * NanosPerUnit + m.nanos          \* in true integers
Largest == maxUnits * NanosPerUnit + NanosPerUnit - 1
Representable(x) == x \in -Largest..Largest

\* The amounts that pass Item.Validate, at both ends of the range.
Prices ==
  {m \in {Amount(c, u, n) : c \in Currencies, u \in {0, 1, maxUnits \div 2, maxUnits - 1, maxUnits},
                            n \in 0..NanosPerUnit - 1} : ValidateMoney(m)}

MoneyTypeOK ==
  /\ ValidateMoney(amount) /\ amount.cur \in Currencies
  /\ exact \in Int /\ refused \in BOOLEAN

MoneyInit ==
  /\ amount = Zero(CHOOSE c \in Currencies : TRUE)
  /\ exact = 0 /\ refused = FALSE

\* An operation's result replaces the amount, or its error is returned; trues
\* are the results it should have on the way and at the end.
Settle(result, trues) ==
  IF Ok(result)
    THEN amount' = result /\ exact' = trues[Len(trues)] /\ UNCHANGED refused
    ELSE /\ refused' = (result = Overflow /\ \A i \in DOMAIN trues : Representable(trues[i]))
         /\ UNCHANGED <<amount, exact>>

MakeMoney(c, u, n) == Settle(NewMoney(c, u, n), <<u * NanosPerUnit + n>>)
AddTo(m) == Settle(combine(amount, m, FALSE), <<exact + Nanos(m)>>)
SubtractFrom(m) == Settle(combine(amount, m, TRUE), <<exact - Nanos(m)>>)
Negate == Settle(Neg(amount), <<-exact>>)

\* ComputeTotal, a line at a time: LineTotal, then Add.
AddLine(price, quantity) ==
  LET line == Mul(price, quantity)
  IN Settle(IF Ok(line) THEN combine(amount, line, FALSE) ELSE line,
            <<Nanos(price) * quantity, exact + Nanos(price) * quantity>>)

MoneyNext ==
  \/ \E c \in Currencies, u \in {MinInt, -maxUnits - 1, -maxUnits, -1, 0, 1, maxUnits, maxUnits + 1, MaxInt},
        n \in -MaxNanos..MaxNanos : MakeMoney(c, u, n)
  \/ \E m \in Prices : AddTo(m) \/ SubtractFrom(m) \/ (\E q \in -1..MaxQuantity : AddLine(m, q))
  \/ Negate

MoneySpec == MoneyInit /\ [][MoneyNext]_moneyVars

-----------------------------------------------------------------------------
(* Properties *)

\* No sequence of operations wraps around unnoticed: the amount in hand is the
\* true one, and an overflow is reported only when the result, or the line total
\* on its way, cannot be represented (Mul, combine, fromTotalNanos, NewMoney).
AmountsAreExact == Nanos(amount) = exact /\ ~refused
=============================================================================
