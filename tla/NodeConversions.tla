--------------------------- MODULE NodeConversions --------------------------
(***************************************************************************)
(* The conversions that the Node template of the binding generator writes: *)
(* ToNode of a C++ value and FromNode of a JavaScript one, by C++ type.    *)
(*                                                                         *)
(* A type is [type |-> name, inner |-> types].  Pointers, references and    *)
(* constness leave the conversion to what they are of.  A structure has    *)
(* the fields "first", that is required, and "second", that is not; one    *)
(* that is a function is left out on its way to JavaScript.                *)
(***************************************************************************)
EXTENDS JsValues

(* The kinds of JavaScript value of the primitives and classes that keep   *)
(* their data.                                                             *)
NodeKind ==
  [bool |-> "boolean", float |-> "Float", double |-> "number", int64 |-> "bigint",
   uint64 |-> "bigint", string |-> "string", binary |-> "arrayBuffer", ObjectId |-> "ObjectId",
   UUID |-> "UUID", Decimal128 |-> "Decimal128", EJson |-> "json", Obj |-> "Obj",
   ObjLink |-> "ObjLink", Timestamp |-> "Timestamp", Geospatial |-> "Geospatial"]

(* The C++ type that a JavaScript value has in a Mixed.                    *)
NodeMixedType ==
  [string |-> "string", number |-> "double", bigint |-> "int64",
   boolean |-> "bool", arrayBuffer |-> "binary", Obj |-> "Obj", Timestamp |-> "Timestamp",
   Float |-> "float", ObjLink |-> "ObjLink", ObjectId |-> "ObjectId",
   Decimal128 |-> "Decimal128", UUID |-> "UUID", Geospatial |-> "Geospatial"]

NodePrimFrom(type, v) ==
  CASE type = "int32" -> IF v.kind = "number" THEN Cpp(type, Truncated(v.holds)) ELSE Refused
    [] type = "count" ->
         IF v.kind = "number" THEN Cpp(type, Truncated(v.holds) % (Word * Word)) ELSE Refused
    [] type = "int64" ->
         IF v.kind = "bigint" /\ FitsInt64(v.holds) THEN Cpp(type, v.holds) ELSE Refused
    [] type \in {"uint64", "milliseconds"} ->
         IF v.kind = "bigint" /\ FitsUint64(v.holds) THEN Cpp(type, v.holds) ELSE Refused
    [] type = "float" ->
         IF v.kind = "Float" THEN Cpp(type, Nearest(v.holds, FloatExact)) ELSE Refused
    [] OTHER -> IF v.kind = NodeKind[type] THEN Cpp(type, v.holds) ELSE Refused

(* undefined is not null here: optional<Mixed> tells them apart.           *)
NodeToMixed(v) ==
  CASE v = JsNull -> CppNull
    [] v.kind \in DOMAIN NodeMixedType -> NodePrimFrom(NodeMixedType[v.kind], v)
    [] OTHER -> Refused

(* size_t(-1), "not found", comes out as -1.                               *)
NodePrimTo(type, c) ==
  CASE type \in {"int32", "milliseconds", "enum"} -> Js("number", 2 * c.holds)
    [] type = "count" -> Js("number", 2 * WrapSigned(c.holds))
    [] type = "void" -> JsUndefined
    [] type = "Status" ->
         IF c.holds = "ok" THEN JsUndefined ELSE Js("object", [reason |-> Js("string", c.holds)])
    [] OTHER -> Js(NodeKind[type], c.holds)

NodeFromMixed(m) ==
  CASE m = CppNull -> JsNull
    [] m.type \in {"list", "dictionary"} -> Js("symbol", m.type)
    [] OTHER -> NodePrimTo(m.type, m)

RECURSIVE ToNode(_, _), FromNode(_, _)

NodeStructTo(t, c) ==
  Js("object", [field \in {f \in DOMAIN c.holds : t.inner[f].type # "function"} |->
                  ToNode(t.inner[field], c.holds[field])])

(* What a field is that the object does not have.                          *)
NodeInitial(type) ==
  CASE type \in {"optional", "Nullable", "function"} -> Nothing
    [] type = "Mixed" -> CppNull
    [] type = "vector" -> Cpp(type, <<>>)
    [] OTHER -> Cpp(type, 0)

NodeStructFrom(t, v) ==
  LET has(f) == f \in DOMAIN v.holds /\ v.holds[f] # JsUndefined
      fields == [f \in DOMAIN t.inner |->
                   CASE has(f) -> FromNode(t.inner[f], v.holds[f])
                     [] f = "first" -> Refused
                     [] OTHER -> NodeInitial(t.inner[f].type)]
  IN IF v.kind = "object" THEN OrThrown(Cpp("struct", fields), fields) ELSE Refused

ToNode(t, c) ==
  CASE t.type = "Nullable" -> IF c = Nothing THEN JsNull ELSE ToNode(t.inner[1], c)
    [] t.type = "optional" -> IF c = Nothing THEN JsUndefined ELSE ToNode(t.inner[1], c)
    [] t.type = "vector" -> Js("array", [i \in DOMAIN c.holds |-> ToNode(t.inner[1], c.holds[i])])
    [] t.type = "tuple" -> Js("array", [i \in DOMAIN t.inner |-> ToNode(t.inner[i], c.holds[i])])
    [] t.type = "map" -> Js("object", [key \in DOMAIN c.holds |-> ToNode(t.inner[2], c.holds[key])])
    [] t.type = "struct" -> NodeStructTo(t, c)
    [] t.type = "Mixed" -> NodeFromMixed(c)
    [] OTHER -> NodePrimTo(t.type, c)

FromNode(t, v) ==
  LET each(type(_)) == [i \in DOMAIN v.holds |-> FromNode(type(i), v.holds[i])]
  IN CASE t.type = "Nullable" -> IF v = JsNull THEN Nothing ELSE FromNode(t.inner[1], v)
       [] t.type = "optional" -> IF v = JsUndefined THEN Nothing ELSE FromNode(t.inner[1], v)
       [] t.type \in {"vector", "tuple"} /\ v.kind # "array" -> Refused
       [] t.type = "vector" ->
            LET elements == each(LAMBDA i : t.inner[1]) IN OrThrown(Cpp("vector", elements), elements)
       [] t.type = "tuple" /\ Len(v.holds) # Len(t.inner) -> Refused
       [] t.type = "tuple" ->
            LET elements == each(LAMBDA i : t.inner[i]) IN OrThrown(Cpp("tuple", elements), elements)
       [] t.type = "map" ->
            LET entries == each(LAMBDA key : t.inner[2]) IN OrThrown(Cpp("map", entries), entries)
       [] t.type = "struct" -> NodeStructFrom(t, v)
       [] t.type = "enum" -> Cpp("enum", Truncated(v.holds))
       [] t.type = "Mixed" -> NodeToMixed(v)
       [] OTHER -> NodePrimFrom(t.type, v)

(* A query argument may be an array of Mixed values.                       *)
NodeToQueryArg(v) ==
  IF v.kind = "array" THEN FromNode([type |-> "vector", inner |-> <<[type |-> "Mixed", inner |-> <<>>]>>], v)
  ELSE NodeToMixed(v)
=============================================================================
