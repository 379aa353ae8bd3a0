---------------------------- MODULE BindingTypes ----------------------------
(***************************************************************************)
(* The types that the generator declares for TypeScript beside the         *)
(* conversions it writes in C++: what an argument may be and what a result *)
(* is.  A structure is relaxed as an argument, where fields that are not   *)
(* required may be left out; what a function is given is what a call       *)
(* returns, and the other way around.                                      *)
(*                                                                         *)
(* A declared type is [ts |-> name, of |-> types]; of an object also its   *)
(* optional fields.  Not modelled: brands of classes, promises, comments,  *)
(* and milliseconds, which are declared as Int64 but come out as a number  *)
(* on Node.                                                                *)
(* External: which types a Mixed holds, which values TypeScript lets have  *)
(* a type.                                                                 *)
(***************************************************************************)
EXTENDS TypeHelpers

Flipped == [Argument |-> "Return", Return |-> "Argument"]

Ts(name, types) == [ts |-> name, of |-> types]

DeclaredPrimitive ==
  [void |-> "void", bool |-> "boolean", double |-> "number", float |-> "Float", int64 |-> "Int64",
   int32 |-> "number", count |-> "number", uint64 |-> "Int64", milliseconds |-> "Int64",
   string |-> "string", binary |-> "ArrayBuffer", ObjectId |-> "ObjectId", UUID |-> "UUID",
   Decimal128 |-> "Decimal128", EJson |-> "EJson", enum |-> "number"]

RECURSIVE Declared(_, _)

(* The fields of a structure, which all come out, and of which the first   *)
(* alone is required on the way in.                                        *)
DeclaredRecord(t, way) ==
  [ts |-> "object", of |-> [f \in DOMAIN t.inner |-> Declared(t.inner[f], way)],
   optional |-> IF way = "Argument" THEN {"second"} ELSE {}]

DeclaredTemplate(t, way) ==
  LET of(i) == Declared(t.inner[i], way)
  IN CASE t.type = "vector" -> Ts("Array", <<of(1)>>)
       [] t.type = "optional" -> Ts("union", <<Ts("undefined", <<>>), of(1)>>)
       [] t.type = "Nullable" -> Ts("union", <<Ts("null", <<>>), of(1)>>)
       [] t.type = "tuple" -> Ts("tuple", [i \in DOMAIN t.inner |-> of(i)])
       [] t.type = "map" -> Ts("Record", <<of(2)>>)

Declared(t, way) ==
  CASE t.type \in {"vector", "optional", "Nullable", "tuple", "map"} -> DeclaredTemplate(t, way)
    [] t.type = "struct" -> DeclaredRecord(t, way)
    [] t.type = "function" ->
         Ts("function", [i \in DOMAIN t.inner |->
                           Declared(t.inner[i], IF i = 1 THEN Flipped[way] ELSE way)])
    [] t.type = "Mixed" -> Ts(IF way = "Argument" THEN "MixedArg" ELSE "Mixed", <<>>)
    [] OTHER -> Ts(DeclaredPrimitive[t.type], <<>>)

-----------------------------------------------------------------------------
(* What a value of a type is                                               *)

KindOfTs ==
  [boolean |-> "boolean", number |-> "number", Float |-> "Float", string |-> "string",
   ArrayBuffer |-> "arrayBuffer", ObjectId |-> "ObjectId", UUID |-> "UUID",
   Decimal128 |-> "Decimal128", EJson |-> "json", void |-> "undefined", undefined |-> "undefined",
   null |-> "null"]

IntegerKind(platform) == IF platform = "jsc" THEN "Long" ELSE "bigint"

MixedKinds(platform) ==
  {"null", "boolean", "number", "string", "arrayBuffer", "Obj", "Timestamp", "Float", "ObjLink",
   "ObjectId", "Decimal128", "UUID", IntegerKind(platform)}

RECURSIVE Has(_, _, _)
Has(platform, ts, v) ==
  LET has(type, value) == Has(platform, type, value)
  IN CASE ts.ts = "union" -> \E i \in DOMAIN ts.of : has(ts.of[i], v)
       [] ts.ts = "Array" -> v.kind = "array" /\ \A i \in DOMAIN v.holds : has(ts.of[1], v.holds[i])
       [] ts.ts = "tuple" -> /\ v.kind = "array" /\ Len(v.holds) = Len(ts.of)
                             /\ \A i \in DOMAIN ts.of : has(ts.of[i], v.holds[i])
       [] ts.ts = "Record" -> v.kind = "object" /\ \A key \in DOMAIN v.holds : has(ts.of[1], v.holds[key])
       [] ts.ts = "object" ->
            /\ v.kind = "object"
            /\ \A f \in DOMAIN ts.of :
                 IF f \in DOMAIN v.holds /\ v.holds[f] # JsUndefined THEN has(ts.of[f], v.holds[f])
                 ELSE f \in ts.optional \/ (f \in DOMAIN v.holds /\ has(ts.of[f], JsUndefined))
       [] ts.ts = "function" -> v.kind = "function"
       [] ts.ts = "Int64" -> v.kind = IntegerKind(platform)
       [] ts.ts = "MixedArg" -> v.kind \in MixedKinds(platform)
       [] ts.ts = "Mixed" -> v.kind \in MixedKinds(platform) \cup {"symbol"}
       [] OTHER -> v.kind = KindOfTs[ts.ts]

(* Values of every kind, in arrays and objects of their own and of each    *)
(* other, with the fields of a structure there and not.                    *)
SomeValues(platform) ==
  LET leaves == {JsUndefined, JsNull, Js("boolean", FALSE), Js("number", 2), Js("string", "text"),
                 Js("Float", 3), Js("UUID", "id"), Js(IntegerKind(platform), 7)}
      array(values) == {Js("array", <<>>)} \cup {Js("array", <<v>>) : v \in values}
      object(values) ==
        {Js("object", <<>>)} \cup {Js("object", [k |-> v]) : v \in values}
          \cup {Js("object", [first |-> Js(IntegerKind(platform), 7)])}
          \cup {Js("object", [first |-> Js(IntegerKind(platform), 7), second |-> v]) : v \in values}
      pairs == {Js("array", <<v, Js("boolean", FALSE)>>) : v \in leaves}
      inner == leaves \cup array(leaves)
  IN inner \cup array(inner) \cup pairs \cup object(inner)

(* What a conversion may give beside what comes back: the sentinel of a    *)
(* list, which is not an argument.                                         *)
GivenOut(t, values) == values \cup IF t.type = "Mixed" THEN {Cpp("list", "list")} ELSE {}

HoldsFunction(t) == t.type = "struct" /\ \E f \in DOMAIN t.inner : t.inner[f].type = "function"

(* Whoever calls the binding as its types say is understood, and gets what *)
(* they say, on Node and on React Native alike: the types are generated    *)
(* once, the conversions twice, with their own cases for null, undefined,  *)
(* fields that are left out and integers (wrapper.ts:80, node.ts, jsi.ts). *)
(* The same goes for a callback, whose arguments are results and whose     *)
(* result is an argument.  A field that is a function is declared of a     *)
(* result, but does not come out (wrapper.ts:129).                         *)
TypesTellValues ==
  ~IsAssignment =>
    LET t == assignment.type.is
        given == {ToJs(assignment.platform, t, c) : c \in GivenOut(t, assignment.type.values)}
        taken(type) == \A v \in SomeValues(assignment.platform) :
                         Has(assignment.platform, type, v) => FromJs(assignment.platform, t, v) # Refused
        has(type, v) == Has(assignment.platform, type, v)
        callback == Declared([type |-> "function", inner |-> <<t, t>>], "Argument")
    IN /\ taken(Declared(t, "Argument")) /\ taken(callback.of[2])
       /\ ~HoldsFunction(t) =>
            \A v \in given : has(Declared(t, "Return"), v) /\ has(callback.of[1], v)

(* The conversions of the two templates fit: to each other, to their       *)
(* inverses and to the types declared of them (node.ts, jsi.ts and         *)
(* wrapper.ts of the generator).                                           *)
ConversionsAgree == PlatformsAgree /\ ConversionsInvert /\ TypesTellValues
=============================================================================
