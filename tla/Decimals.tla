------------------------------ MODULE Decimals ------------------------------
(***************************************************************************)
(* Barq's own 128-bit decimals: what fromString makes of a text and what   *)
(* toString makes of a decimal.                                            *)
(*                                                                         *)
(* A text is [negative, whole, fraction, exponent]: its sign, the digits   *)
(* on the two sides of its point, and the exponent it is written with; a   *)
(* special one is the model value it names.  A lone point, with no digits, *)
(* is taken for zero.  A decimal is [negative, coefficient, exponent]; the *)
(* bits it is packed into hold just these.                                 *)
(***************************************************************************)
EXTENDS Integers, Sequences, SequencesExt

CONSTANTS
  MaxDigits,     \* 34
  ExponentBias,  \* 6176
  ExponentMax,   \* 6111
  PlainZeros,    \* 6: fractions with fewer zeros in front are written plainly
  Specials,      \* NaN and the two infinities
  Unrepresentable,
  Texts          \* the texts looked at

ASSUME DigitsHold == MaxDigits \in Nat \ {0}

VARIABLE text

ExponentMin == -ExponentBias

RECURSIVE DigitsOf(_)
Power(n) == FoldLeft(LAMBDA product, i : product * 10, 1, [i \in 1..n |-> i])
NumberOfDigits(digits) == FoldLeft(LAMBDA number, d : number * 10 + d, 0, digits)
DigitsOf(n) == IF n < 10 THEN <<n>> ELSE DigitsOf(n \div 10) \o <<n % 10>>
\* Mutated Zeros: one too few.
TooFewZeros(n) == [i \in 1..(n - 1) |-> 0]

Zeros(n) == [i \in 1..n |-> 0]

(* Without leading zeros, but with one digit at least.                     *)
Stripped(digits) ==
  LET significant == {i \in DOMAIN digits : digits[i] # 0 \/ i = Len(digits)}
  IN IF digits = <<>> THEN <<0>>
     ELSE SubSeq(digits, CHOOSE i \in significant : \A j \in significant : i <= j, Len(digits))

RoundsUp(digits) == digits[MaxDigits + 1] >= 5

(* Rounded to MaxDigits digits by the first one dropped; 99..9 becomes one *)
(* digit longer.                                                           *)
Rounded(d) ==
  LET dropped == Len(d.digits) - MaxDigits
      up == IF RoundsUp(d.digits) THEN 1 ELSE 0
      digits == DigitsOf(NumberOfDigits(SubSeq(d.digits, 1, MaxDigits)) + up)
  IN IF dropped <= 0 THEN d
     ELSE [digits |-> SubSeq(digits, 1, MaxDigits),
           exponent |-> d.exponent + dropped + (Len(digits) - Len(SubSeq(digits, 1, MaxDigits)))]

(* Zeros are appended while the exponent is too large.                     *)
Lowered(d) ==
  LET by == IF d.exponent <= ExponentMax THEN 0
            ELSE Min({d.exponent - ExponentMax, MaxDigits - Len(d.digits)})
  IN [digits |-> d.digits \o Zeros(by), exponent |-> d.exponent - by]

(* Zeros at the end are dropped while it is too small.                     *)
RECURSIVE Raised(_)
Raised(d) ==
  IF d.exponent < ExponentMin /\ Len(d.digits) > 1 /\ Last(d.digits) = 0
  THEN Raised([digits |-> Front(d.digits), exponent |-> d.exponent + 1])
  ELSE d

DecimalFromString(t) ==
  LET written == [digits |-> Stripped(t.whole \o t.fraction),
                  exponent |-> t.exponent - Len(t.fraction)]
      d == Raised(Lowered(Rounded(written)))
  IN IF t \in Specials THEN t
     ELSE IF d.exponent \notin ExponentMin..ExponentMax THEN Unrepresentable
     ELSE [negative |-> t.negative, coefficient |-> NumberOfDigits(d.digits), exponent |-> d.exponent]

(* Plainly as long as it needs neither an exponent nor too many zeros.     *)
DecimalToString(d) ==
  LET digits == DigitsOf(d.coefficient)
      adjusted == d.exponent + Len(digits) - 1
      point == Len(digits) + d.exponent
      texted(whole, fraction, exponent) ==
        [negative |-> d.negative, whole |-> whole, fraction |-> fraction, exponent |-> exponent]
  IN IF d \in Specials THEN d
     ELSE IF d.exponent > 0 \/ adjusted < -PlainZeros THEN texted(<<Head(digits)>>, Tail(digits), adjusted)
     ELSE IF point <= 0 THEN texted(<<0>>, Zeros(-point) \o digits, 0)
     ELSE texted(SubSeq(digits, 1, point), SubSeq(digits, point + 1, Len(digits)), 0)
-----------------------------------------------------------------------------
DecimalsInit == text \in Texts

(* Ten to the scale times a number is a whole number.                      *)
Scale == MaxDigits + ExponentBias
Scaled(coefficient, exponent) == coefficient * Power(exponent + Scale)
ScaledText(t) == Scaled(NumberOfDigits(t.whole \o t.fraction), t.exponent - Len(t.fraction))

(* The numbers that are decimals, other than zero, and those near a text.  *)
Representable ==
  {Scaled(coefficient, exponent) :
     coefficient \in 1..(Power(MaxDigits) - 1), exponent \in ExponentMin..ExponentMax}
Distance(x, y) == IF x < y THEN y - x ELSE x - y

(* A decimal that is given out as a text, to the engine or to EJSON, and   *)
(* read again is the same one, to the bit: same zeros, same exponent.      *)
DecimalReadsBack ==
  LET d == DecimalFromString(text)
  IN d # Unrepresentable => DecimalFromString(DecimalToString(d)) = d

(* The decimal of a text is a nearest one with MaxDigits digits, and a     *)
(* text of a number that is a decimal, other than zero, has that decimal:  *)
(* however many zeros it is written with.                                  *)
DecimalOfText ==
  LET d == DecimalFromString(text)
      exact == ScaledText(text)
      distance == Distance(Scaled(d.coefficient, d.exponent), exact)
  IN \/ text \in Specials
     \/ /\ d # Unrepresentable =>
             \A other \in Representable \cup {0} : distance <= Distance(other, exact)
        /\ exact \in Representable => d # Unrepresentable /\ distance = 0

(* Texts and decimals stand for each other (Decimal128.ts).                *)
TextsAreDecimals == DecimalReadsBack /\ DecimalOfText
=============================================================================
