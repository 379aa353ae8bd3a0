--------------------------- MODULE JsiConversions ---------------------------
(***************************************************************************)
(* The conversions that the JSI template of the binding generator writes,  *)
(* for React Native.  They are kept by hand beside those of the Node       *)
(* template and have to agree with them.  What differs is the engine: on   *)
(* Hermes a 64-bit integer is a BigInt; on JavaScriptCore it is a Long,    *)
(* which JavaScript hands in.                                              *)
(*                                                                         *)
(* Types and values are those of NodeConversions.                          *)
(***************************************************************************)
EXTENDS JsValues

(* Barq's own Long takes one argument, the value; it ignores others.       *)
NewLong(value) == Js("Long", WrapSigned(value))

(* The generated code calls it with the low half, the high half and the    *)
(* signedness.                                                             *)
BigIntFrom64(engine, n) ==
  IF engine = "hermes" THEN Js("bigint", n) ELSE NewLong(Low(n))

JsiKind ==
  [bool |-> "boolean", float |-> "Float", double |-> "number", string |-> "string",
   binary |-> "arrayBuffer", ObjectId |-> "ObjectId", UUID |-> "UUID", Decimal128 |-> "Decimal128",
   EJson |-> "json", Obj |-> "Obj", ObjLink |-> "ObjLink", Timestamp |-> "Timestamp",
   Geospatial |-> "Geospatial"]

\* Mutated JsiMixedType: kept as it was when the other template changed.
StaleMixedType ==
  [string |-> "string", number |-> "double", bigint |-> "int64", boolean |-> "bool", Obj |-> "Obj",
   Timestamp |-> "Timestamp", Long |-> "int64"]

JsiMixedType ==
  [string |-> "string", number |-> "double", bigint |-> "int64",
   boolean |-> "bool", arrayBuffer |-> "binary", Obj |-> "Obj", Timestamp |-> "Timestamp",
   Float |-> "float", ObjLink |-> "ObjLink", ObjectId |-> "ObjectId",
   Decimal128 |-> "Decimal128", UUID |-> "UUID", Long |-> "int64", Geospatial |-> "Geospatial"]

BigIntToI64(v) ==
  CASE v.kind = "bigint" -> IF FitsInt64(v.holds) THEN Cpp("int64", v.holds) ELSE Refused
    [] v.kind = "Long" -> Cpp("int64", WrapSigned(Joined(High(v.holds), Low(v.holds))))
    [] OTHER -> Refused

BigIntToU64(type, v) ==
  CASE v.kind = "bigint" -> IF FitsUint64(v.holds) THEN Cpp(type, v.holds) ELSE Refused
    [] v.kind = "Long" -> Cpp(type, Joined(High(v.holds), Low(v.holds)))
    [] OTHER -> Refused

JsiPrimFrom(type, v) ==
  CASE type = "int32" -> IF v.kind = "number" THEN Cpp(type, Truncated(v.holds)) ELSE Refused
    [] type = "count" ->
         IF v.kind = "number" THEN Cpp(type, Truncated(v.holds) % (Word * Word)) ELSE Refused
    [] type = "int64" -> BigIntToI64(v)
    [] type \in {"uint64", "milliseconds"} -> BigIntToU64(type, v)
    [] type = "float" ->
         IF v.kind = "Float" THEN Cpp(type, Nearest(v.holds, FloatExact)) ELSE Refused
    [] OTHER -> IF v.kind = JsiKind[type] THEN Cpp(type, v.holds) ELSE Refused

JsiToMixed(v) ==
  CASE v = JsNull -> CppNull
    [] v.kind \in DOMAIN JsiMixedType -> JsiPrimFrom(JsiMixedType[v.kind], v)
    [] OTHER -> Refused

JsiPrimTo(engine, type, c) ==
  CASE type \in {"int32", "enum"} -> Js("number", 2 * c.holds)
    [] type = "count" -> Js("number", 2 * WrapSigned(c.holds))
    [] type \in {"int64", "uint64", "milliseconds"} -> BigIntFrom64(engine, c.holds)
    [] type = "void" -> JsUndefined
    [] type = "Status" ->
         IF c.holds = "ok" THEN JsUndefined ELSE Js("object", [reason |-> Js("string", c.holds)])
    [] OTHER -> Js(JsiKind[type], c.holds)

JsiFromMixed(engine, m) ==
  CASE m = CppNull -> JsNull
    [] m.type \in {"list", "dictionary"} -> Js("symbol", m.type)
    [] OTHER -> JsiPrimTo(engine, m.type, m)

RECURSIVE ToJsi(_, _, _), FromJsi(_, _)

JsiStructTo(engine, t, c) ==
  Js("object", [field \in {f \in DOMAIN c.holds : t.inner[f].type # "function"} |->
                  ToJsi(engine, t.inner[field], c.holds[field])])

JsiInitial(type) ==
  CASE type \in {"optional", "Nullable", "function"} -> Nothing
    [] type = "Mixed" -> CppNull
    [] type = "vector" -> Cpp(type, <<>>)
    [] OTHER -> Cpp(type, 0)

JsiStructFrom(t, v) ==
  LET has(f) == f \in DOMAIN v.holds /\ v.holds[f] # JsUndefined
      fields == [f \in DOMAIN t.inner |->
                   CASE has(f) -> FromJsi(t.inner[f], v.holds[f])
                     [] f = "first" -> Refused
                     [] OTHER -> JsiInitial(t.inner[f].type)]
  IN IF v.kind = "object" THEN OrThrown(Cpp("struct", fields), fields) ELSE Refused

ToJsi(engine, t, c) ==
  CASE t.type = "Nullable" -> IF c = Nothing THEN JsNull ELSE ToJsi(engine, t.inner[1], c)
    [] t.type = "optional" -> IF c = Nothing THEN JsUndefined ELSE ToJsi(engine, t.inner[1], c)
    [] t.type = "vector" ->
         Js("array", [i \in DOMAIN c.holds |-> ToJsi(engine, t.inner[1], c.holds[i])])
    [] t.type = "tuple" ->
         Js("array", [i \in DOMAIN t.inner |-> ToJsi(engine, t.inner[i], c.holds[i])])
    [] t.type = "map" ->
         Js("object", [key \in DOMAIN c.holds |-> ToJsi(engine, t.inner[2], c.holds[key])])
    [] t.type = "struct" -> JsiStructTo(engine, t, c)
    [] t.type = "Mixed" -> JsiFromMixed(engine, c)
    [] OTHER -> JsiPrimTo(engine, t.type, c)

FromJsi(t, v) ==
  LET each(type(_)) == [i \in DOMAIN v.holds |-> FromJsi(type(i), v.holds[i])]
  IN CASE t.type = "Nullable" -> IF v = JsNull THEN Nothing ELSE FromJsi(t.inner[1], v)
       [] t.type = "optional" -> IF v = JsUndefined THEN Nothing ELSE FromJsi(t.inner[1], v)
       [] t.type \in {"vector", "tuple"} /\ v.kind # "array" -> Refused
       [] t.type = "vector" ->
            LET elements == each(LAMBDA i : t.inner[1]) IN OrThrown(Cpp("vector", elements), elements)
       [] t.type = "tuple" /\ Len(v.holds) # Len(t.inner) -> Refused
       [] t.type = "tuple" ->
            LET elements == each(LAMBDA i : t.inner[i]) IN OrThrown(Cpp("tuple", elements), elements)
       [] t.type = "map" ->
            LET entries == each(LAMBDA key : t.inner[2]) IN OrThrown(Cpp("map", entries), entries)
       [] t.type = "struct" -> JsiStructFrom(t, v)
       [] t.type = "enum" -> Cpp("enum", Truncated(v.holds))
       [] t.type = "Mixed" -> JsiToMixed(v)
       [] OTHER -> JsiPrimFrom(t.type, v)

JsiToQueryArg(v) ==
  IF v.kind = "array" THEN FromJsi([type |-> "vector", inner |-> <<[type |-> "Mixed", inner |-> <<>>]>>], v)
  ELSE JsiToMixed(v)
=============================================================================
