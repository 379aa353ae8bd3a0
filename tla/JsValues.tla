------------------------------ MODULE JsValues ------------------------------
(***************************************************************************)
(* The values on the two sides of the native binding, and the arithmetic   *)
(* of their conversion.                                                    *)
(*                                                                         *)
(* A JavaScript value is [kind, holds] and a C++ value [type, holds], with *)
(* what it holds.  A Number is counted in halves, so that there are        *)
(* fractions; NaN stands for those that are not finite.  A string is known *)
(* by what the conversions that read one make of it: its bytes, as base64, *)
(* and its time, as a date.                                                *)
(***************************************************************************)
EXTENDS Integers, Sequences

CONSTANTS
  Word,        \* the number of values of 32 bits
  Exact,       \* integers up to here are Numbers (2^53)
  FloatExact,  \* halves up to here are floats
  NaN

ASSUME WordsAreEven == Word \in Nat /\ Word % 2 = 0 /\ Word > 0

Js(kindOf, data) == [kind |-> kindOf, holds |-> data]
Cpp(typeOf, data) == [type |-> typeOf, holds |-> data]

JsUndefined == Js("undefined", <<>>)
JsNull == Js("null", <<>>)
CppNull == Cpp("null", <<>>)
Nothing == Cpp("nothing", <<>>)

(* What a conversion comes to that throws.                                 *)
Refused == Js("thrown", <<>>)

(* The bits of n as a signed integer with size values.                     *)
AsSigned(n, size) == ((n + size \div 2) % size) - size \div 2

WrapSigned(n) == AsSigned(n, Word * Word)

FitsInt64(n) == n = WrapSigned(n)
FitsUint64(n) == n \in 0..(Word * Word - 1)

(* The low and the high half of a 64-bit integer, as 32-bit integers.      *)
Low(n) == AsSigned(n % Word, Word)
High(n) == AsSigned((n \div Word) % Word, Word)
Joined(high, low) == (high % Word) * Word + (low % Word)

IsWhole(halves) == halves # NaN /\ halves % 2 = 0
Truncated(halves) == IF halves >= 0 THEN halves \div 2 ELSE -((-halves) \div 2)

(* Beyond the limit only every other number has a representation; halfway  *)
(* the even one is taken.                                                  *)
Nearest(n, limit) ==
  IF n = NaN \/ n \in -limit..limit \/ n % 2 = 0 THEN n
  ELSE CHOOSE even \in {n - 1, n + 1} : even % 4 = 0

(* Number() of a BigInt.                                                   *)
NumberOf(n) == Js("number", 2 * Nearest(n, Exact))

(* Of the elements of an array, an object or a structure that convert each *)
(* on its own: the whole throws if one of them does.                       *)
OrThrown(whole, elements) ==
  IF \E i \in DOMAIN elements : elements[i] = Refused THEN Refused ELSE whole
=============================================================================
