----------------------------- MODULE ValueTypes -----------------------------
(***************************************************************************)
(* Barq's own value types outside the engine: how ObjectIds and UUIDs are  *)
(* made, written and read, the extended JSON that partition values and     *)
(* other values are exchanged in, and the places of a geospatial query.    *)
(*                                                                         *)
(* An ObjectId is [time, process, count], a UUID [version, variant, rest], *)
(* and a text of either [of, upper, dashes]: upper or lower case, dashes   *)
(* where they belong or not at all; every other text is Wrong, as are      *)
(* bytes of another number.  External: JSON itself, and base64.            *)
(***************************************************************************)
EXTENDS JsValues, FiniteSets

CONSTANTS
  Seconds,      \* the number of times an ObjectId can hold: 2^32
  Counts,       \* the number of its counts: 2^24
  LeftOut,      \* an argument or an altitude that is left out
  Wrong,        \* a text or bytes that are no id
  Samples,      \* the values looked at
  MaxMade       \* how many ObjectIds are made

ASSUME ValueTypesAssumption ==
  /\ Seconds \in Nat /\ Seconds % 2 = 0 /\ Seconds > 0
  /\ Counts \in Nat \ {0} /\ MaxMade \in Nat

VARIABLES
  sample,       \* [is |-> "id", "exchanged" or "shapes", of]
  counter,      \* the module's counter, seeded at random
  made          \* the ObjectIds made, in order

valueVars == <<sample, counter, made>>

-----------------------------------------------------------------------------
(* ObjectId and UUID                                                       *)

ProcessRandom == "random"

ObjectIdAt(time, process, count) == [time |-> time % Seconds, process |-> process, count |-> count]

NextCount(count) == (count + 1) % Counts

(* new ObjectId(), or with a number of seconds: the time is that of the    *)
(* clock, which may be set back, or the one that is given.                 *)
Generate(time) ==
  /\ Len(made) < MaxMade
  /\ counter' = NextCount(counter)
  /\ made' = Append(made, ObjectIdAt(time, ProcessRandom, NextCount(counter)))
  /\ UNCHANGED sample

CreateFromTime(seconds) == ObjectIdAt(seconds, "none", 0)

(* id[0] << 24 is a signed number.                                         *)
GetTimestamp(id) == AsSigned(id.time, Seconds)

ToText(id) == [of |-> id, upper |-> FALSE, dashes |-> FALSE]
ToDashedText(uuid) == [of |-> uuid, upper |-> FALSE, dashes |-> TRUE]

IsObjectId(id) == "time" \in DOMAIN id
IsUuid(id) == "version" \in DOMAIN id

(* isHexOfLength(), and the two patterns of a UUID.                        *)
IsObjectIdText(text) == text # Wrong /\ IsObjectId(text.of) /\ ~text.dashes
IsUuidText(text) == text # Wrong /\ IsUuid(text.of)

(* The constructors, given something: a text, bytes or an id.              *)
ObjectIdOf(input) ==
  CASE input.kind = "string" /\ IsObjectIdText(input.holds) -> input.holds.of
    [] input.kind \in {"ObjectId", "bytes"} /\ input.holds # Wrong /\ IsObjectId(input.holds) -> input.holds
    [] OTHER -> Wrong

UuidOf(input) ==
  CASE input.kind = "string" /\ IsUuidText(input.holds) -> input.holds.of
    [] input.kind \in {"UUID", "bytes"} /\ input.holds # Wrong /\ IsUuid(input.holds) -> input.holds
    [] OTHER -> Wrong

IsValidObjectId(input) ==
  \/ input.kind = "ObjectId"
  \/ input.kind = "bytes" /\ input.holds # Wrong /\ IsObjectId(input.holds)
  \/ input.kind = "string" /\ IsObjectIdText(input.holds)

IsValidUuid(input) ==
  \/ input.kind = "UUID"
  \/ input.kind = "bytes" /\ input.holds # Wrong /\ IsUuid(input.holds)
  \/ input.kind = "string" /\ IsUuidText(input.holds)

(* equals(): of a text, however it is written; an ObjectId also asks what  *)
(* else has a toHexString(), which a UUID answers with dashes.             *)
Lower(text) == [text EXCEPT !.upper = FALSE]
WithoutDashes(text) == [text EXCEPT !.dashes = FALSE]

ObjectIdEquals(id, other) ==
  CASE other.kind = "ObjectId" -> other.holds = id
    [] other.kind = "string" -> IsValidObjectId(other) /\ Lower(other.holds) = ToText(id)
    [] other.kind = "UUID" -> ToDashedText(other.holds) = ToText(id)
    [] OTHER -> FALSE

UuidEquals(id, other) ==
  CASE other.kind = "UUID" -> other.holds = id
    [] other.kind = "string" ->
         IsValidUuid(other) /\ Lower(WithoutDashes(other.holds)) = ToText(id)
    [] OTHER -> FALSE

(* UUID.generate()                                                         *)
Versioned(uuid) == [uuid EXCEPT !.version = 4, !.variant = 2]

-----------------------------------------------------------------------------
(* Extended JSON                                                           *)

Plain(fields) == Js("plain", fields)
Tagged(marker, doc) == Plain([m \in {marker} |-> doc])

RECURSIVE Serialize(_), Deserialize(_), JsonOf(_)

(* serializeValue(): toISOString() throws for a date that is none.         *)
Serialize(v) ==
  CASE v.kind = "ObjectId" -> Tagged("$oid", Js("string", ToText(v.holds)))
    [] v.kind = "UUID" -> Tagged("$uuid", Js("string", ToDashedText(v.holds)))
    [] v.kind = "Decimal128" -> Tagged("$numberDecimal", Js("string", v.holds))
    [] v.kind = "Binary" ->
         Tagged("$binary", Plain([base64 |-> Js("string", v.holds.bytes),
                                  subType |-> Js("string", v.holds.subType)]))
    [] v.kind = "Date" -> IF v.holds = NaN THEN Refused ELSE Tagged("$date", Js("string", v.holds))
    [] v.kind \in {"array", "plain"} ->
         LET inner == [i \in DOMAIN v.holds |-> Serialize(v.holds[i])]
         IN OrThrown(Js(v.kind, inner), inner)
    [] OTHER -> v

(* JSON.parse(JSON.stringify(v)): what has no JSON is left out, is null in *)
(* an array, or throws.                                                    *)
JsonOf(v) ==
  CASE v.kind = "bigint" -> Refused
    [] v.kind = "number" /\ v.holds = NaN -> JsNull
    [] v.kind = "array" ->
         LET inner == [i \in DOMAIN v.holds |->
                         IF v.holds[i].kind = "undefined" THEN JsNull ELSE JsonOf(v.holds[i])]
         IN OrThrown(Js("array", inner), inner)
    [] v.kind = "plain" ->
         LET inner == [k \in {f \in DOMAIN v.holds : v.holds[f].kind # "undefined"} |-> JsonOf(v.holds[k])]
         IN OrThrown(Plain(inner), inner)
    [] v.kind = "undefined" -> Refused
    [] OTHER -> v

HasMarker(doc, marker) ==
  /\ DOMAIN doc.holds = {marker}
  /\ doc.holds[marker].kind = IF marker = "$binary" THEN "plain" ELSE "string"

IdOrThrown(kindOf, id) == IF id = Wrong THEN Refused ELSE Js(kindOf, id)

(* deserializeValue()                                                      *)
Deserialize(doc) ==
  IF doc.kind \notin {"array", "plain"} THEN doc
  ELSE IF doc.kind = "plain" /\ HasMarker(doc, "$oid")
  THEN IdOrThrown("ObjectId", ObjectIdOf(doc.holds["$oid"]))
  ELSE IF doc.kind = "plain" /\ HasMarker(doc, "$uuid")
  THEN IdOrThrown("UUID", UuidOf(doc.holds["$uuid"]))
  ELSE IF doc.kind = "plain" /\ HasMarker(doc, "$numberDecimal")
  THEN Js("Decimal128", doc.holds["$numberDecimal"].holds)
  ELSE IF doc.kind = "plain" /\ HasMarker(doc, "$date")
  THEN Js("Date", doc.holds["$date"].holds)
  ELSE IF doc.kind = "plain" /\ HasMarker(doc, "$binary")
  THEN LET fields == doc.holds["$binary"].holds
       IN Js("Binary", [bytes |-> fields.base64.holds, subType |-> fields.subType.holds])
  ELSE LET inner == [i \in DOMAIN doc.holds |-> Deserialize(doc.holds[i])]
       IN OrThrown(Js(doc.kind, inner), inner)

(* EJSON.parse(EJSON.stringify(v))                                         *)
Exchanged(v) ==
  LET written == Serialize(v)
      json == IF written = Refused THEN Refused ELSE JsonOf(written)
  IN IF json = Refused THEN Refused ELSE Deserialize(json)

-----------------------------------------------------------------------------
(* A place is an array [position], a GeoJSON point or the coordinates by   *)
(* name.                                                                   *)

Field(fields, name) == IF name \in DOMAIN fields THEN fields[name] ELSE LeftOut

ToBindingGeoPoint(p) ==
  LET of(position) == [longitude |-> position[1], latitude |-> position[2], altitude |-> Field(position, 3)]
  IN CASE "position" \in DOMAIN p -> of(p.position)
       [] "type" \in DOMAIN p -> of(p.coordinates)
       [] OTHER -> [longitude |-> p.longitude, latitude |-> p.latitude, altitude |-> Field(p, "altitude")]

IsGeoCircle(value) == {"center", "distance"} \subseteq DOMAIN value
IsGeoBox(value) == {"bottomLeft", "topRight"} \subseteq DOMAIN value
IsGeoPolygon(value) ==
  \/ {"type", "coordinates"} \subseteq DOMAIN value /\ value.type = "Polygon"
  \/ "outerRing" \in DOMAIN value

ToBindingRings(rings) ==
  [i \in DOMAIN rings |-> [j \in DOMAIN rings[i] |-> ToBindingGeoPoint(rings[i][j])]]

CircleToBinding(circle) == [center |-> ToBindingGeoPoint(circle.center), radius |-> circle.distance]

BoxToBinding(box) ==
  [lo |-> ToBindingGeoPoint(box.bottomLeft), hi |-> ToBindingGeoPoint(box.topRight)]

PolygonToBinding(polygon) ==
  [points |-> ToBindingRings(
     IF "type" \in DOMAIN polygon
     THEN [i \in DOMAIN polygon.coordinates |->
             [j \in DOMAIN polygon.coordinates[i] |-> [position |-> polygon.coordinates[i][j]]]]
     ELSE <<polygon.outerRing>> \o IF "holes" \in DOMAIN polygon THEN polygon.holes ELSE <<>>)]

(* An argument of a query that is a plain object.                          *)
GeoToBinding(value) ==
  CASE IsGeoCircle(value) -> CircleToBinding(value)
    [] IsGeoBox(value) /\ ~IsGeoCircle(value) -> BoxToBinding(value)
    [] IsGeoPolygon(value) /\ ~IsGeoBox(value) /\ ~IsGeoCircle(value) -> PolygonToBinding(value)
    [] OTHER -> Refused

-----------------------------------------------------------------------------
ValueTypesInit ==
  /\ sample \in Samples
  /\ counter \in 0..(Counts - 1)
  /\ made = <<>>

ValueTypesNext == \E time \in 0..Seconds : Generate(time)

(* Whatever the clock does, and however many are made within a second, two *)
(* ObjectIds of a process are the same only if the counter went all the    *)
(* way round between them.                                                 *)
ObjectIdsDiffer ==
  \A i, j \in DOMAIN made : (i < j /\ j - i < Counts) => made[i] # made[j]

(* An id is read back from every text of it, with dashes and without, in   *)
(* capitals and not, and equals() knows it in each; isValid() tells what   *)
(* the constructor takes.  The time of an ObjectId reads back up to 2038.  *)
IdsReadBack ==
  sample.is = "id" =>
    LET input == sample.of
        id == input.holds
    IN /\ IsValidObjectId(input) <=> ObjectIdOf(input) # Wrong
       /\ IsValidUuid(input) <=> UuidOf(input) # Wrong
       /\ ObjectIdOf(input) # Wrong => ObjectIdOf(Js("string", ToText(ObjectIdOf(input)))) = ObjectIdOf(input)
       /\ UuidOf(input) # Wrong =>
            \A write \in {ToText(UuidOf(input)), ToDashedText(UuidOf(input))} :
              UuidOf(Js("string", write)) = UuidOf(input)
       /\ input.kind \in {"string", "ObjectId"} /\ ObjectIdOf(input) # Wrong =>
            ObjectIdEquals(ObjectIdOf(input), input)
       /\ input.kind \in {"string", "UUID"} /\ UuidOf(input) # Wrong => UuidEquals(UuidOf(input), input)
       /\ \A seconds \in 0..(Seconds \div 2 - 1) : GetTimestamp(CreateFromTime(seconds)) = seconds

RECURSIVE HasJson(_)

(* It has a form of its own in extended JSON, and is not an object whose   *)
(* only key is one of the notation's, down to its elements.                *)
HasJson(v) ==
  /\ v.kind \notin {"undefined", "bigint"}
  /\ v.kind \in {"number", "Date"} => v.holds # NaN
  /\ v.kind \in {"array", "plain"} => \A i \in DOMAIN v.holds : HasJson(v.holds[i])
  /\ v.kind = "plain" =>
       DOMAIN v.holds \notin {{"$oid"}, {"$uuid"}, {"$numberDecimal"}, {"$date"}, {"$binary"}}

ValuesExchange ==
  (sample.is = "exchanged" /\ HasJson(sample.of)) => Exchanged(sample.of) = sample.of

(* The same shape, however its places and its rings are written, is the    *)
(* same for the engine.                                                    *)
ShapesAgree ==
  sample.is = "shapes" =>
    \A i, j \in DOMAIN sample.of : GeoToBinding(sample.of[i]) = GeoToBinding(sample.of[j])

ValueTypesAgree == ObjectIdsDiffer /\ IdsReadBack /\ ValuesExchange /\ ShapesAgree

(* The date in an ObjectId is the one it was made of.                      *)
LateTimesReadBack ==
  \A seconds \in 0..(Seconds - 1) : GetTimestamp(CreateFromTime(seconds)) = seconds
=============================================================================
