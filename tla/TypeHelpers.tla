---------------------------- MODULE TypeHelpers -----------------------------
(***************************************************************************)
(* A value on its way from a property of an object into the engine and     *)
(* back: the type helper of the property, the conversion that the          *)
(* generator wrote for the platform, the engine, and both the other way.   *)
(* Platforms are "node", "hermes" (React Native) and "jsc" (React Native   *)
(* on JavaScriptCore, where 64-bit integers are Longs).                    *)
(*                                                                         *)
(* A Date is known by its time in milliseconds; a view is of a part of the *)
(* bytes of a buffer; a BarqObject has an owner, and may be embedded.      *)
(***************************************************************************)
EXTENDS NodeConversions, JsiConversions

CONSTANTS
  PerSecond,      \* milliseconds in a second
  Platforms,
  PropertyTypes,  \* "int", "counter", "bool", "double", ..., "mixed"
  Assignable,     \* the JavaScript values looked at
  CppTypes        \* the C++ types looked at, each with values: [is, values]

ASSUME SecondsHaveParts == PerSecond \in Nat \ {0}

VARIABLE assignment   \* [platform, type, optional, value], or [platform, type]

ToMixed(platform, v) == IF platform = "node" THEN NodeToMixed(v) ELSE JsiToMixed(v)
ToQueryArg(platform, v) == IF platform = "node" THEN NodeToQueryArg(v) ELSE JsiToQueryArg(v)
FromMixed(platform, m) ==
  IF platform = "node" THEN NodeFromMixed(m) ELSE JsiFromMixed(platform, m)
ToJs(platform, t, c) == IF platform = "node" THEN ToNode(t, c) ELSE ToJsi(platform, t, c)
FromJs(platform, t, v) == IF platform = "node" THEN FromNode(t, v) ELSE FromJsi(t, v)

(* binding.Int64: the native BigInt, or Barq's Long.                       *)
NativeNumToInt(v) ==
  IF v.kind = "number" /\ IsWhole(v.holds) THEN Js("bigint", v.holds \div 2) ELSE Refused

PolyfilledNumToInt(v) ==
  IF v.kind = "number" /\ v.holds # NaN THEN NewLong(Truncated(v.holds)) ELSE Refused

NumToInt(platform, v) ==
  IF platform = "jsc" THEN PolyfilledNumToInt(v) ELSE NativeNumToInt(v)

IsInt(platform, v) == v.kind = IF platform = "jsc" THEN "Long" ELSE "bigint"

(* JavaScript's remainder has the sign of the dividend, and Math.floor     *)
(* rounds down.                                                            *)
Remainder(n, by) == IF n >= 0 THEN n % by ELSE -((-n) % by)

(* The seconds are a 64-bit integer, the nanoseconds (counted here in the  *)
(* milliseconds they come from) an int32_t.                                *)
FromDate(platform, time) ==
  LET seconds == NumToInt(platform, Js("number", IF time = NaN THEN NaN
                                                 ELSE 2 * (time \div PerSecond)))
  IN IF seconds = Refused THEN Refused
     ELSE Js("Timestamp", [seconds |-> seconds.holds, nanoseconds |-> Remainder(time, PerSecond)])

ToDate(platform, timestamp) ==
  LET seconds == FromMixed(platform, Cpp("int64", timestamp.holds.seconds))
  IN Js("Date", (NumberOf(seconds.holds).holds \div 2) * PerSecond + timestamp.holds.nanoseconds)

IsView(v) == v.kind = "view"
\* Mutated Slice: the whole buffer.
WholeBuffer(v) == Js("arrayBuffer", v.holds.buffer)

Slice(v) == Js("arrayBuffer", SubSeq(v.holds.buffer, v.holds.from + 1, v.holds.to))

ToArrayBuffer(v) ==
  CASE v.kind = "string" -> Js("arrayBuffer", v.holds.bytes)
    [] IsView(v) -> Slice(v)
    [] v.kind = "arrayBuffer" -> v
    [] OTHER -> Refused

IntToBinding(platform, presentation, v) ==
  CASE v.kind = "number" -> NumToInt(platform, v)
    [] IsInt(platform, v) -> v
    [] v.kind = "Counter" /\ presentation = "counter" -> NumToInt(platform, Js("number", v.holds))
    [] OTHER -> Refused

DateToBinding(platform, v) ==
  CASE v.kind = "string" -> FromDate(platform, v.holds.time)
    [] v.kind = "Date" -> FromDate(platform, v.holds)
    [] OTHER -> Refused

FloatToBinding(v) == IF v.kind = "number" THEN Js("Float", v.holds) ELSE Refused

(* The type helpers that only assert what the value is.                    *)
AssertedKinds ==
  [bool |-> {"boolean"}, double |-> {"number"}, string |-> {"string"},
   objectId |-> {"ObjectId"}, uuid |-> {"UUID"}, decimal128 |-> {"Decimal128"}]

(* Lists and dictionaries are taken apart before they come here; what is   *)
(* left as it is the binding converts, or rejects.                         *)
MixedToBinding(platform, v, isQueryArg) ==
  CASE v.kind \in {"string", "number", "boolean", "null"} -> v
    [] v = JsUndefined -> JsNull
    [] v.kind = "Date" -> FromDate(platform, v.holds)
    [] v.kind = "BarqObject" ->
         IF v.holds.embedded \/ v.holds.owner # "this" THEN Refused ELSE Js("Obj", v.holds.id)
    [] v.kind \in {"Set", "BarqSet", "Counter"} -> Refused
    [] isQueryArg /\ v.kind \in {"array", "BarqList", "BarqDictionary"} -> Refused
    [] isQueryArg /\ v.kind = "geo" -> Js("Geospatial", v.holds)
    [] IsView(v) -> Slice(v)
    [] OTHER -> v

NullPassthrough(optional, v, converted) ==
  IF optional /\ v.kind \in {"undefined", "null"} THEN JsNull ELSE converted

ValueToBinding(platform, type, optional, v) ==
  IF type = "mixed" THEN MixedToBinding(platform, v, FALSE)
  ELSE NullPassthrough(optional, v,
         CASE type \in {"int", "counter"} -> IntToBinding(platform, type, v)
           [] type = "float" -> FloatToBinding(v)
           [] type = "data" -> ToArrayBuffer(v)
           [] type = "date" -> DateToBinding(platform, v)
           [] OTHER -> IF v.kind \in AssertedKinds[type] THEN v ELSE Refused)

MixedFromBinding(platform, b) ==
  CASE IsInt(platform, b) -> NumberOf(b.holds)
    [] b.kind = "Timestamp" -> ToDate(platform, b)
    [] b.kind = "Float" -> Js("number", b.holds)
    [] b.kind = "ObjLink" -> Js("BarqObject", [id |-> b.holds, owner |-> "this", embedded |-> FALSE])
    [] OTHER -> b

(* Number() of a BigInt or of a Long.                                      *)
ValueFromBinding(platform, type, optional, b) ==
  IF type = "mixed" THEN MixedFromBinding(platform, b)
  ELSE NullPassthrough(optional, b,
         CASE type \in {"int", "counter"} -> NumberOf(b.holds)
           [] type = "float" -> Js("number", b.holds)
           [] type = "date" -> ToDate(platform, b)
           [] OTHER -> b)

(* The engine keeps a link to an object as the link.                       *)
Kept(m) == IF m.type = "Obj" THEN Cpp("ObjLink", m.holds) ELSE m

(* What the engine gets for an assigned value, and what reading the        *)
(* property then gives.                                                    *)
Sent(platform, type, optional, v) ==
  LET b == ValueToBinding(platform, type, optional, v)
  IN IF b = Refused THEN Refused ELSE ToMixed(platform, b)

Read(platform, type, optional, m) ==
  ValueFromBinding(platform, type, optional, FromMixed(platform, Kept(m)))

Asked(platform, v) ==
  LET b == MixedToBinding(platform, v, TRUE)
  IN IF b = Refused THEN Refused ELSE ToQueryArg(platform, b)

(* min() and max() of a collection, from what the engine found; for a      *)
(* decimal they throw, and an empty collection has none.                   *)
ExtremeFromBinding(platform, b) ==
  CASE b.kind \in {"Date", "number", "undefined"} -> b
    [] IsInt(platform, b) -> NumberOf(b.holds)
    [] b.kind = "Float" -> Js("number", b.holds)
    [] b.kind = "Timestamp" -> ToDate(platform, b)
    [] OTHER -> Refused

(* sum() and avg(): there is no sum of times.                              *)
SumFromBinding(platform, b) ==
  IF b.kind \in {"Date", "Timestamp", "undefined"} THEN Refused ELSE ExtremeFromBinding(platform, b)

(* getPropertyType() of a mixed property.                                  *)
PropertyTypeOf(platform, b) ==
  CASE b.kind = "null" -> "null"
    [] IsInt(platform, b) -> "int"
    [] b.kind = "Float" -> "float"
    [] b.kind = "Timestamp" -> "date"
    [] b.kind \in {"Obj", "ObjLink"} -> "<class>"
    [] b.kind = "arrayBuffer" -> "data"
    [] b.kind = "number" -> "double"
    [] b.kind \in {"string", "boolean", "ObjectId", "Decimal128", "UUID"} ->
         [string |-> "string", boolean |-> "bool", ObjectId |-> "objectId",
          Decimal128 |-> "decimal128", UUID |-> "uuid"][b.kind]
    [] b.kind = "symbol" -> b.holds
-----------------------------------------------------------------------------
Assignments ==
  [platform : Platforms, type : PropertyTypes, optional : BOOLEAN, value : Assignable]

TypeHelpersInit == assignment \in Assignments \cup [platform : Platforms, type : CppTypes]

IsAssignment == "value" \in DOMAIN assignment

(* The value as a caller who knows the type expects it back.               *)
AsRead(type, v) ==
  CASE v = JsUndefined -> JsNull
    [] v.kind = "bigint" -> NumberOf(v.holds)
    [] v.kind = "Counter" -> Js("number", v.holds)
    [] v.kind = "string" /\ type = "date" -> Js("Date", v.holds.time)
    [] v.kind = "string" /\ type = "data" -> Js("arrayBuffer", v.holds.bytes)
    [] v.kind = "view" ->
         Js("arrayBuffer", [i \in 1..(v.holds.to - v.holds.from) |-> v.holds.buffer[v.holds.from + i]])
    [] v.kind = "number" /\ type = "float" -> Js("number", Nearest(v.holds, FloatExact))
    [] OTHER -> v

(* A time before 1970 that is not of a whole second.                       *)
IsEarlyFraction(type, v) ==
  LET time == CASE v.kind = "Date" -> v.holds
                [] v.kind = "string" /\ type = "date" -> v.holds.time
                [] OTHER -> 0
  IN time # NaN /\ time < 0 /\ time % PerSecond # 0

ReadsBack ==
  LET a == assignment
      m == Sent(a.platform, a.type, a.optional, a.value)
      read == Read(a.platform, a.type, a.optional, m)
  IN m # Refused => read = AsRead(a.type, a.value)

(* What the engine calls the types of its values.                          *)
TypeNames ==
  [int64 |-> "int", double |-> "double", float |-> "float", bool |-> "bool", string |-> "string",
   binary |-> "data", Timestamp |-> "date", Obj |-> "<class>", ObjLink |-> "<class>",
   ObjectId |-> "objectId", Decimal128 |-> "decimal128", UUID |-> "uuid", null |-> "null"]

(* Of a value that is stored: min() and max() of a collection of nothing   *)
(* else give what reading the element gives, sum() gives it if it has sums *)
(* at all, and a mixed property has the type that the engine knows it by.  *)
IsToldAlike ==
  LET a == assignment
      m == Sent(a.platform, a.type, a.optional, a.value)
      b == FromMixed(a.platform, Kept(m))
      read == Read(a.platform, a.type, a.optional, m)
  IN m # Refused =>
       /\ a.type \in {"int", "float", "double", "date"} /\ m # CppNull =>
            /\ ExtremeFromBinding(a.platform, b) = read
            /\ SumFromBinding(a.platform, b) = IF a.type = "date" THEN Refused ELSE read
       /\ a.type = "mixed" => PropertyTypeOf(a.platform, b) = TypeNames[m.type]

(* A value that a property accepts reads back as itself: as its nearest    *)
(* Number if it is a BigInt, as its bytes if it is a view.  It passes six  *)
(* conversions in three languages, and the ends of the integers, what is   *)
(* not a whole number, null, undefined and parts of buffers have ways of   *)
(* their own through them.  min(), max(), sum() and getPropertyType() tell *)
(* the same as reading does.  Not so a time before 1970 with a fraction of *)
(* a second (DatesReadBack).                                               *)
ValuesReadBack ==
  (IsAssignment /\ assignment.platform # "jsc"
     /\ ~IsEarlyFraction(assignment.type, assignment.value))
    => ReadsBack /\ IsToldAlike

(* A Date that is assigned is the Date that is read.                       *)
DatesReadBack ==
  (IsAssignment /\ assignment.type = "date" /\ assignment.value.kind = "Date") => ReadsBack

(* On JavaScriptCore, too, an integer reads back.                          *)
LongsReadBack ==
  (IsAssignment /\ assignment.type = "int" /\ assignment.value.kind = "number"
     /\ IsWhole(assignment.value.holds) /\ FitsInt64(assignment.value.holds \div 2))
    => ReadsBack

(* Two templates are kept by hand for the two engine interfaces: what one  *)
(* accepts the other accepts, the engine gets the same from both, as the   *)
(* value of a property and as an argument of a query, and gives the same.  *)
PlatformsAgree ==
  IsAssignment =>
    LET a == assignment
        node == Sent("node", a.type, a.optional, a.value)
        hermes == Sent("hermes", a.type, a.optional, a.value)
    IN /\ node = hermes
       /\ Asked("node", a.value) = Asked("hermes", a.value)
       /\ node # Refused => Read("node", a.type, a.optional, node)
                             = Read("hermes", a.type, a.optional, hermes)

(* What C++ hands to JavaScript comes back as what it was: nothing, null   *)
(* and undefined are told apart however options, arrays, records and       *)
(* structures are nested.  A required field that may be absent does not    *)
(* come back, nor do milliseconds on Node, which go out as a Number and    *)
(* are only taken as a BigInt.                                             *)
ConversionsInvert ==
  IsAssignment \/
    LET t == assignment.type.is
        back(c) == FromJs(assignment.platform, t, ToJs(assignment.platform, t, c))
    IN \A c \in assignment.type.values : back(c) = c
=============================================================================
