------------------------------ MODULE Decimal64 ------------------------------
(***************************************************************************)
(* CDecimal64 (cdecimal64.cpp): the number Data * 10^Scale.  The word of   *)
(* 64 bits is scaled down: MaxValue stands for 2^63 - 1, and the number of *)
(* digits the code calls MaxPrecision follows from it.  An operation is    *)
(* one step from a decimal x to its result, which is a decimal, an integer *)
(* or Error, when the code throws.  The sets by float and double, which    *)
(* the hardware rounds, are left out.                                      *)
(***************************************************************************)
EXTENDS Integers, Sequences, SequencesExt, FiniteSetsExt

CONSTANTS
  MaxValue, MinScale, MaxScale,
  MaxDigits,  \* how many digits the widest intermediate result may have
  NotScale,   \* the scale of a decimal that has none, below every other
  Decimal,    \* the decimals to begin with
  Operand,    \* those they are combined with
  Scales,     \* the scales of new decimals
  Text,       \* numbers as text: [neg, int, frac, exp], digit by digit
  Signed, Unsigned, \* integers that are assigned
  Narrowest, Widest, \* the range of the narrow integer type converted to
  Error

(* 10 to a power. *)
Ten[k \in Nat] == IF k = 0 THEN 1 ELSE 10 * Ten[k - 1]

(* 2^63 - 1 ends in 7: a quotient that is too large by one is rounded up    *)
(* when it loses a digit.                                                  *)
ASSUME MaxValueAssumption ==
  /\ MaxValue \in Nat /\ MaxValue >= 10 /\ MaxValue % 10 >= 4
  /\ MaxDigits \in Nat /\ MaxValue < Ten[MaxDigits]
ASSUME ScaleAssumption ==
  /\ MinScale \in Int /\ MaxScale \in Int /\ MinScale < MaxScale
  /\ NotScale \in Int /\ NotScale < MinScale /\ Scales \subseteq MinScale..MaxScale
ASSUME DecimalAssumption ==
  /\ Decimal \cup Operand \subseteq [data : (-MaxValue)..MaxValue, scale : MinScale..MaxScale]
  /\ Error \notin Int /\ Error \notin [data : Int, scale : Int]
(* The greatest unsigned number is 2 * MaxValue + 1, that of the narrow     *)
(* type 2 * Widest + 1, and both narrow types are within the word.          *)
ASSUME IntegerAssumption ==
  /\ Signed \subseteq (-MaxValue - 1)..MaxValue /\ Unsigned \subseteq 0..(2 * MaxValue + 1)
  /\ Narrowest \in (-MaxValue)..MaxValue /\ Widest \in Nat /\ 2 * Widest + 1 <= MaxValue

VARIABLES x, last

vars == <<x, last>>

Abs(n) == IF n < 0 THEN -n ELSE n
Quo(a, b) == IF (a < 0) = (b < 0) THEN Abs(a) \div Abs(b) ELSE -(Abs(a) \div Abs(b))
Rem(a, b) == a - b * Quo(a, b)

(* The number of digits, that of MaxValue at most; and 10 to a power.      *)
Size(n) == Min({k \in 1..MaxDigits : Abs(n) < Ten[k]})
MaxPrecision == Size(MaxValue)
GetDigits(n) == Min({Size(n), MaxPrecision})
pow_10(k) == IF k \in 0..(MaxPrecision - 1) THEN Ten[k] ELSE 0

(* How many zeros can be put behind n. *)
ToMaxDigits(n) == Max({0} \cup {k \in 1..(MaxPrecision - 1) : Abs(n) * Ten[k] <= MaxValue})

InRange(n) == -MaxValue <= n /\ n <= MaxValue
Dec(d, s) == [data |-> d, scale |-> s]

(* Faulty variant: the digit that is dropped does not count. *)
DropDigitDown(n) == Quo(n, 10)

(* The last digit is dropped, and rounded half away from zero. *)
DropDigit(n) ==
  LET digit == Rem(n, 10)
  IN  Quo(n, 10) + (IF digit >= 5 THEN 1 ELSE IF digit <= -5 THEN -1 ELSE 0)

(* k > 0 digits are dropped. *)
DropDigits(n, k) == DropDigit(Quo(n, pow_10(k - 1)))
-----------------------------------------------------------------------------
ChangeScale(d, scale) ==
  IF d.scale > scale
  THEN IF d.scale - scale > ToMaxDigits(d.data) THEN Error
       ELSE d.data * pow_10(d.scale - scale)
  ELSE IF d.scale = scale THEN d.data
  ELSE IF scale - d.scale > MaxPrecision THEN 0
  ELSE DropDigits(d.data, scale - d.scale)

(* Set(CDecimal64), and the constructor that copies. *)
SetDecimal(d, scale) ==
  LET data == ChangeScale(d, scale)
  IN  IF scale = NotScale THEN d ELSE IF data = Error THEN Error ELSE Dec(data, scale)

(* The int64_t that has no opposite. *)
MinInt64 == -MaxValue - 1

(* The scale a new decimal gets from an integer. *)
Given(asked) == IF asked = NotScale THEN 0 ELSE asked

(* Set(int64_t) *)
SetSigned(n, asked) ==
  LET scale == Given(asked)
  IN  IF n = 0 THEN Dec(0, scale)
      ELSE IF scale <= 0
      THEN IF n = MinInt64 \/ -scale > ToMaxDigits(n) THEN Error ELSE Dec(n * pow_10(-scale), scale)
      ELSE IF scale > MaxPrecision THEN Dec(0, scale)
      ELSE Dec(DropDigits(n, scale), scale)

(* ToMaxDigits takes the opposite of MinInt64, which is undefined: it may  *)
(* find no room for zeros, or room for as many as there are.  Then         *)
(* MinInt64 times a power of ten overflows, to 0.                          *)
SignedResults(n, asked) ==
  IF n = MinInt64 /\ Given(asked) < 0 /\ -asked < MaxPrecision
  THEN {Error, Dec(0, asked)} ELSE {SetSigned(n, asked)}

(* Set(uint64_t): what does not fit the signed word may still fit when it  *)
(* has lost digits.                                                        *)
SetUnsigned(n, asked) ==
  LET scale == Given(asked)
  IN  IF n > MaxValue /\ scale <= 0 THEN Error ELSE SetSigned(n, scale)

(* ToInt64 *)
ToInt64(d, round) ==
  IF d.data = 0 THEN 0
  ELSE IF d.scale >= 0
  THEN IF d.scale > ToMaxDigits(d.data) THEN Error ELSE d.data * pow_10(d.scale)
  ELSE IF -d.scale > MaxPrecision THEN 0
  ELSE CASE round = "round" -> DropDigits(d.data, -d.scale)
         [] round = "floor" -> IF -d.scale < MaxPrecision THEN Quo(d.data, pow_10(-d.scale)) ELSE 0
         [] round = "ceil"  ->
              LET n == Quo(d.data, pow_10(-d.scale - 1))
              IN  Quo(n, 10) + (IF Rem(n, 10) > 0 THEN 1 ELSE IF Rem(n, 10) < 0 THEN -1 ELSE 0)

(* Faulty variant: the answer for "out of range" passes for a number. *)
LimitedBlindly(n, least, greatest) ==
  IF n # Error /\ n > greatest THEN Error ELSE IF n = Error \/ n < least THEN least ELSE n

(* The integer when it is within the type. *)
Limited(n, least, greatest) == IF n = Error \/ n \notin least..greatest THEN Error ELSE n

(* ToInt32, ToInt16 and ToInt8, which differ in their limits. *)
ToNarrow(d, round) == Limited(ToInt64(d, round), Narrowest, Widest)

(* ToUInt32, ToUInt16 and ToUInt8 look at the sign before they round. *)
ToUnsigned(d, round) == IF d.data < 0 THEN Error ELSE Limited(ToInt64(d, round), 0, 2 * Widest + 1)

(* ToUInt64 looks at it afterwards. *)
ToUInt64(d, round) == Limited(ToInt64(d, round), 0, MaxValue)
-----------------------------------------------------------------------------
(* Set(string).  The digits before and behind the point are written one    *)
(* after the other; the zeros before the point are not, those behind it    *)
(* are.  Of more than fit the first are taken.                             *)

NumberOf(digits) == MapThenSumSet(LAMBDA i : digits[i] * Ten[Len(digits) - i], DOMAIN digits)

NonZero(digits) == {i \in DOMAIN digits : digits[i] # 0}
NoLeading(digits) == IF NonZero(digits) = {} THEN <<>> ELSE SubSeq(digits, Min(NonZero(digits)), Len(digits))
NoTrailing(digits) == SubSeq(digits, 1, Max({0} \cup NonZero(digits)))

Digits(text) == NoLeading(text.int) \o NoTrailing(text.frac)
Exponent(text) == text.exp - Len(NoTrailing(text.frac))

CheckIfIntStringOutOfRange(digits) == NumberOf(digits) > MaxValue

(* The digits that are kept. *)
Kept(digits) ==
  LET first == SubSeq(digits, 1, Min({Len(digits), MaxPrecision}))
  IN  IF Len(first) = MaxPrecision /\ CheckIfIntStringOutOfRange(first)
      THEN SubSeq(first, 1, MaxPrecision - 1) ELSE first

Sign(text) == IF text.neg THEN -1 ELSE 1

(* The number that is kept, rounded unless it is the greatest. *)
Rounded(text) ==
  LET digits == Digits(text)
      kept == Kept(digits)
      up == Len(kept) < Len(digits) /\ digits[Len(kept) + 1] >= 5 /\ NumberOf(kept) < MaxValue
  IN  Sign(text) * (NumberOf(kept) + (IF up THEN 1 ELSE 0))

(* Its exponent. *)
Shifted(text) == Exponent(text) + Len(Digits(text)) - Len(Kept(Digits(text)))

(* The decimal has no scale yet. *)
SetTextFree(text) ==
  LET kept == Kept(Digits(text))
      top == Shifted(text) + Len(kept)
  IN  IF top > MaxScale + MaxPrecision THEN Error
      ELSE IF top < MinScale THEN Dec(0, 0)
      ELSE IF top = MinScale
      THEN IF kept # <<>> /\ kept[1] >= 5 THEN Dec(Sign(text), top) ELSE Dec(0, 0)
      ELSE Dec(Rounded(text), Shifted(text))

(* The decimal has a scale: the one of a field. *)
SetTextScaled(text, scale) ==
  LET top == Shifted(text) + Len(Kept(Digits(text)))
      data == ChangeScale(Dec(Rounded(text), Shifted(text)), scale)
  IN  IF top > MaxPrecision + scale THEN Error
      ELSE IF top < scale THEN Dec(0, scale)
      ELSE IF data = Error THEN Error ELSE Dec(data, scale)

SetText(text, scale) == IF scale = NotScale THEN SetTextFree(text) ELSE SetTextScaled(text, scale)

(* Faulty variant: the exponent is that of the last digit. *)
ScientificLast(d) ==
  LET n == Abs(d.data)
      digits == [i \in 1..Size(n) |-> (n \div Ten[Size(n) - i]) % 10]
  IN  IF d.data = 0 THEN [neg |-> FALSE, int |-> <<0>>, frac |-> <<>>, exp |-> 0]
      ELSE [neg |-> d.data < 0, int |-> <<digits[1]>>, frac |-> NoTrailing(Tail(digits)), exp |-> d.scale]

(* ToString(false): d.dddEn, the form rows are sent in. *)
Scientific(d) ==
  LET n == Abs(d.data)
      digits == [i \in 1..Size(n) |-> (n \div Ten[Size(n) - i]) % 10]
  IN  IF d.data = 0 THEN [neg |-> FALSE, int |-> <<0>>, frac |-> <<>>, exp |-> 0]
      ELSE [neg |-> d.data < 0, int |-> <<digits[1]>>, frac |-> NoTrailing(Tail(digits)),
            exp |-> Size(n) - 1 + d.scale]
-----------------------------------------------------------------------------
(* Arithmetic *)

Minus(d) == Dec(-d.data, d.scale)

(* Plus: a sum that is too large gives up its last digit. *)
Plus(a, b, scale) ==
  IF InRange(a + b) THEN Dec(a + b, scale)
  ELSE IF scale = MaxScale THEN Error
  ELSE Dec(DropDigit(a + b), scale + 1)

(* Faulty variant: the scale of the sum is that of the larger scale. *)
AddAtLarger(a, b) ==
  LET high == IF a.scale > b.scale THEN a ELSE b
      low == IF a.scale > b.scale THEN b ELSE a
      diff == high.scale - low.scale
      up == Min({diff, ToMaxDigits(high.data)})
      down == IF up < diff THEN DropDigits(low.data, diff - up) ELSE low.data
  IN  IF a.data = 0 THEN b
      ELSE IF b.data = 0 THEN a
      ELSE IF NotScale \in {a.scale, b.scale} THEN Error
      ELSE IF diff >= MaxPrecision THEN high
      ELSE Plus(high.data * pow_10(up), down, high.scale)

(* operator+: the number with the larger scale gets as many zeros as fit,  *)
(* the other one loses the digits that are then too low.  When the scales  *)
(* are too far apart, the number with the lower one is taken for zero.     *)
Add(a, b) ==
  LET high == IF a.scale > b.scale THEN a ELSE b
      low == IF a.scale > b.scale THEN b ELSE a
      diff == high.scale - low.scale
      up == Min({diff, ToMaxDigits(high.data)})
      down == IF up < diff THEN DropDigits(low.data, diff - up) ELSE low.data
  IN  IF a.data = 0 THEN b
      ELSE IF b.data = 0 THEN a
      ELSE IF NotScale \in {a.scale, b.scale} THEN Error
      ELSE IF diff >= MaxPrecision THEN high
      ELSE Plus(high.data * pow_10(up), down, high.scale - up)

Subtract(a, b) == Add(a, Minus(b))

(* Faulty variant: a scale that is too high is cut. *)
MakeScaleEffectiveCut(d) == Dec(d.data, Max({MinScale, Min({MaxScale, d.scale})}))

(* A scale that is too low loses digits, one that is too high gets zeros.  *)
MakeScaleEffective(d) ==
  IF d.scale < MinScale
  THEN IF MinScale - d.scale > MaxPrecision THEN Dec(0, MinScale)
       ELSE Dec(DropDigits(d.data, MinScale - d.scale), MinScale)
  ELSE IF d.scale > MaxScale
  THEN IF ToMaxDigits(d.data) < d.scale - MaxScale THEN Error
       ELSE Dec(d.data * pow_10(d.scale - MaxScale), MaxScale)
  ELSE d

(* Shrink: a product is cut to the word; the number of digits to give up   *)
(* is computed from the quotient by MaxValue.                              *)
Shrink(n, scale) ==
  LET digits == GetDigits((Abs(n) + MaxValue - 1) \div MaxValue)
  IN  Dec(DropDigits(n, digits), scale + digits)

Multiply(a, b) ==
  LET scale == a.scale + b.scale
      n == a.data * b.data
  IN  IF n = 0 \/ scale + 2 * MaxPrecision + 1 < MinScale THEN Dec(0, 0)
      ELSE IF scale > MaxScale THEN Error
      ELSE MakeScaleEffective(IF InRange(n) THEN Dec(n, scale) ELSE Shrink(n, scale))

(* Faulty variant: the remainder is not looked at. *)
DividedDown(n, by) == Quo(n, by)

(* The quotient of two integers, rounded when it fits. *)
Divided(n, by) ==
  LET q == Quo(n, by)
  IN  IF InRange(q) /\ Rem(n, by) # 0 /\ 2 * Abs(Rem(n, by)) >= Abs(by)
      THEN IF (n < 0) = (by < 0) THEN q + 1 ELSE q - 1
      ELSE q

(* Digits are dropped one by one until the number fits the word. *)
Fitted(n, scale) ==
  IF InRange(n) THEN Dec(n, scale)
  ELSE IF InRange(DropDigit(n)) THEN Dec(DropDigit(n), scale + 1)
  ELSE IF InRange(DropDigit(DropDigit(n))) THEN Dec(DropDigit(DropDigit(n)), scale + 2)
  ELSE Dec(DropDigit(DropDigit(DropDigit(n))), scale + 3)

(* operator/: the dividend gets zeros so that the quotient has at least as *)
(* many digits as the word.                                                *)
Divide(a, b) ==
  LET scale == a.scale - b.scale
      zeros == GetDigits(b.data) + MaxPrecision - GetDigits(a.data)
  IN  IF b.data = 0 THEN Error
      ELSE IF a.data = 0 \/ scale + MaxPrecision < MinScale THEN Dec(0, 0)
      ELSE IF scale - MaxPrecision > MaxScale + MaxPrecision - 1 THEN Error
      ELSE MakeScaleEffective(Fitted(Divided(a.data * Ten[zeros], b.data), scale - zeros))
-----------------------------------------------------------------------------
NoOp == [op |-> "none", a |-> Error, b |-> Error, out |-> Error]
NewDecimals == {Dec(0, scale) : scale \in Scales \cup {NotScale}}

Init == x \in Decimal \cup NewDecimals /\ last = NoOp

(* What Set leaves behind when it throws: the integer, in 64 bits, and the *)
(* number that was read, if its length was right, are stored by then.      *)
Left(op, b) ==
  CASE op \in {"signed", "unsigned"} ->
         Dec(IF b > MaxValue THEN b - 2 * (MaxValue + 1) ELSE b, Given(x.scale))
    [] op = "text" /\ x.scale # NotScale /\ Shifted(b) + Len(Kept(Digits(b))) <= MaxPrecision + x.scale ->
         Dec(Rounded(b), x.scale)
    [] OTHER -> x

(* Each decimal does one operation: the result of another is one of those  *)
(* to begin with.                                                          *)
Does(op, b, out) ==
  /\ last' = [op |-> op, a |-> x, b |-> b, out |-> out]
  /\ x' = IF out = Error THEN Left(op, b) ELSE out

Arithmetic ==
  \E b \in Operand :
    \/ Does("add", b, Add(x, b))
    \/ Does("subtract", b, Subtract(x, b))
    \/ Does("multiply", b, Multiply(x, b))
    \/ Does("divide", b, Divide(x, b))

Set ==
  \/ x \in NewDecimals /\ \E text \in Text : Does("text", text, SetText(text, x.scale))
  \/ x \in NewDecimals /\ \E n \in Signed : \E out \in SignedResults(n, x.scale) : Does("signed", n, out)
  \/ x \in NewDecimals /\ \E n \in Unsigned : Does("unsigned", n, SetUnsigned(n, x.scale))
  \/ \E scale \in Scales : Does("scale", scale, SetDecimal(x, scale))

Convert ==
  /\ UNCHANGED x
  /\ \E round \in {"round", "floor", "ceil"} :
       last' \in {[op |-> "int64", a |-> x, b |-> round, out |-> ToInt64(x, round)],
                  [op |-> "uint64", a |-> x, b |-> round, out |-> ToUInt64(x, round)],
                  [op |-> "narrow", a |-> x, b |-> round, out |-> ToNarrow(x, round)],
                  [op |-> "narrow_unsigned", a |-> x, b |-> round, out |-> ToUnsigned(x, round)]}

Next == last = NoOp /\ (Arithmetic \/ Set \/ Convert)

Spec == Init /\ [][Next]_vars
-----------------------------------------------------------------------------
(* Type invariant: what is stored always fits the word, and a scale is one *)
(* a sum, a product or a number read from a text may have.                 *)
TypeOK ==
  /\ x.data \in MinInt64..MaxValue
  /\ x.scale \in (MinScale - MaxPrecision)..(MaxScale + MaxPrecision) \cup {NotScale}
  /\ last.op \in {"none", "add", "subtract", "multiply", "divide", "text", "signed", "unsigned",
                  "scale", "int64", "uint64", "narrow", "narrow_unsigned"}

(* n * 10^s in units of 10^low. *)
In(n, s, low) == IF n = 0 THEN 0 ELSE n * Ten[s - low]

(* |n*10^s - m*10^t| <= 0.555*by*10^unit: rounding three times is allowed. *)
Within(n, s, m, t, by, unit) ==
  LET low == Min({unit} \cup (IF n = 0 THEN {} ELSE {s}) \cup (IF m = 0 THEN {} ELSE {t}))
      gap == Abs(In(n, s, low) - In(m, t, low))
  IN  IF unit < low + 3 THEN 200 * gap <= 111 * by * Ten[unit - low]
      ELSE gap <= 555 * by * Ten[unit - low - 3]

Done(op) == last.op = op /\ last.out # Error

(* A result 0 without a scale of its own stands for less than half of the  *)
(* least number.                                                           *)
Unit(d) == IF d.data = 0 THEN MinScale ELSE d.scale

(* The sum in the smaller of the two scales *)
ExactSum == LET low == Min({last.a.scale, last.b.scale}) IN
  last.a.data * Ten[last.a.scale - low]
    + (IF last.op = "add" THEN 1 ELSE -1) * last.b.data * Ten[last.b.scale - low]

Near == last.a.data # 0 /\ last.b.data # 0 /\ Abs(last.a.scale - last.b.scale) < MaxPrecision

(* When the scales are MaxPrecision apart, the sum is rounded in its last  *)
(* digit too, as long as there is a next number to round to: the comment   *)
(* in operator+ wants one added when the greatest number begins with 5 or  *)
(* more, as it does.                                                       *)
FarSumsAreRounded ==
  last.op \in {"add", "subtract"} /\ last.a.data # 0 /\ last.b.data # 0 /\ last.out # Error
    /\ Abs(last.a.scale - last.b.scale) = MaxPrecision /\ Abs(last.out.data) < MaxValue =>
    Within(last.out.data, last.out.scale, ExactSum, Min({last.a.scale, last.b.scale}),
           1, last.out.scale)

(* When the scales are less than MaxPrecision apart, operator+ and         *)
(* operator- return the sum rounded in the last digit of the result,       *)
(* whatever digits had to be given up on the way, and refuse only what is  *)
(* above the greatest decimal.                                             *)
SumsAreRounded ==
  last.op \in {"add", "subtract"} /\ Near =>
    LET low == Min({last.a.scale, last.b.scale})
    IN  IF last.out = Error THEN Abs(ExactSum) > MaxValue * Ten[MaxScale - low]
        ELSE Within(last.out.data, last.out.scale, ExactSum, low, 1, last.out.scale)

(* operator* returns the product rounded in the last digit of the result,  *)
(* although Shrink guesses how many digits to give up and                  *)
(* MakeScaleEffective may give up more.  Shrink may guess one too many,    *)
(* which shows at the greatest scale, where a zero takes its place.        *)
ProductsAreRounded ==
  Done("multiply") =>
    Within(last.out.data, last.out.scale, last.a.data * last.b.data, last.a.scale + last.b.scale,
           1, IF last.out.scale = MaxScale THEN MaxScale + 1 ELSE Unit(last.out))

(* operator/ returns the quotient rounded likewise: multiplied by the      *)
(* divisor, it differs from the dividend by little more than half a unit:  *)
(* up to two digits are dropped by operator/, one by MakeScaleEffective.   *)
QuotientsAreRounded ==
  Done("divide") =>
    Within(last.out.data * last.b.data, last.out.scale + last.b.scale, last.a.data, last.a.scale,
           Abs(last.b.data), Unit(last.out) + last.b.scale)

(* Addition, subtraction, multiplication and division give the exact       *)
(* result rounded in its last digit, whichever digits had to be given up.  *)
ArithmeticIsRounded ==
  /\ SumsAreRounded
  /\ ProductsAreRounded
  /\ QuotientsAreRounded

(* n * 10^s is above what a decimal of scale t can hold. *)
Exceeds(n, s, t) ==
  LET low == Min({s, t}) IN Abs(n) * Ten[s - low] > MaxValue * Ten[t - low]

(* Set from a text whose first digit is no zero behind the point: it is    *)
(* rounded in the last digit, and refused only when it does not fit the    *)
(* scale.  Zeros behind the point count as digits: behind them only what   *)
(* then fits is kept, and what fits may be refused.                        *)
TextsAreRounded ==
  last.op = "text" =>
    LET digits == Digits(last.b)
        n == Sign(last.b) * NumberOf(digits)
        plain == digits # <<>> /\ digits[1] # 0
        free == last.a.scale = NotScale
    IN  IF last.out = Error
        THEN plain =>
               Exceeds(n, Exponent(last.b), IF free THEN MaxScale ELSE last.a.scale)
        ELSE Len(digits) <= MaxPrecision \/ plain =>
               Within(n, Exponent(last.b), last.out.data, last.out.scale, 1,
                      IF free THEN Unit(last.out) ELSE last.a.scale)

(* A decimal that is sent to a client (ToString) and stored again (Set) is *)
(* the same, in a field of the same scale, and without a scale it has the  *)
(* same value.  (A field with MaxPrecision digits or more behind the point *)
(* refuses 0, and MinInt64 is left behind only by a Set that threw.)       *)
TextComesBack ==
  /\ InRange(x.data)
  /\ x.scale \in MinScale..MaxScale
  /\ x.data # 0 \/ -x.scale < MaxPrecision
  =>
    LET free == SetText(Scientific(x), NotScale)
    IN  /\ SetText(Scientific(x), x.scale) = x
        /\ free # Error
        /\ LET low == Min({free.scale, x.scale}) IN In(free.data, free.scale, low) = In(x.data, x.scale, low)

(* The decimal is converted to the integer of least..greatest next to it,  *)
(* and refused when it is at least half away from all of them.             *)
NextTo(least, greatest) ==
  LET low == Min({last.a.scale, 0})
      n == last.a.data * Ten[last.a.scale - low]
  IN  IF last.out = Error
      THEN \A m \in least..greatest : 2 * Abs(n - m * Ten[-low]) >= Ten[-low]
      ELSE last.out \in least..greatest /\ 2 * Abs(n - last.out * Ten[-low]) <= Ten[-low]

(* A conversion between integers and decimals, or to another scale, rounds *)
(* to the nearest, and refuses only what does not fit; that to a narrow    *)
(* integer, which relies on the number ToInt64 gives for an error, too.    *)
(* The narrow unsigned ones refuse whatever is below zero, what would be   *)
(* rounded to 0 included.  (MinInt64 is left out where Set(int64_t)        *)
(* overflows, and 0 where it can be refused: a scale lower by              *)
(* MaxPrecision.)                                                          *)
ConversionsAreRounded ==
  /\ last.op \in {"signed", "unsigned"} /\ (last.b = MinInt64 => Given(last.a.scale) >= 0) =>
       LET scale == Given(last.a.scale)
       IN  IF last.out = Error THEN Exceeds(last.b, 0, scale)
           ELSE Within(last.b, 0, last.out.data, scale, 1, scale)
  /\ last.op = "scale" /\ last.a.data # 0 =>
       IF last.out = Error THEN Exceeds(last.a.data, last.a.scale, last.b)
       ELSE Within(last.a.data, last.a.scale, last.out.data, last.b, 1, last.b)
  /\ last.op = "int64" /\ last.b = "round" /\ last.a.scale # NotScale =>
       IF last.out = Error THEN Exceeds(last.a.data, last.a.scale, 0)
       ELSE Within(last.a.data, last.a.scale, last.out, 0, 1, 0)
  /\ last.op = "uint64" /\ last.b = "round" /\ last.a.data # 0 => NextTo(0, MaxValue)
  /\ last.op = "narrow" /\ last.b = "round" /\ last.a.data # 0 => NextTo(Narrowest, Widest)
  /\ last.op = "narrow_unsigned" /\ last.b = "round" /\ last.a.data # 0 =>
       IF last.a.data < 0 THEN last.out = Error ELSE NextTo(0, 2 * Widest + 1)
=============================================================================
