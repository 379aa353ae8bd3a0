------------------------------ MODULE Objects -------------------------------
(***************************************************************************)
(* Objects of one class in a write transaction: Barq.create() with its     *)
(* update modes, defaults and nested objects, assignment of properties,    *)
(* deletion of objects, arrays and sets of them, and Results.update().     *)
(* The class has a primary key, a required value (or counter) and an       *)
(* optional link to an object of the class, for which a plain object may   *)
(* be given that is created, or updated, on the way.  Each call makes      *)
(* several changes and may throw after some of them.                       *)
(*                                                                         *)
(* External: a new object has the engine's zero for its value and no link; *)
(* removing an object clears the links to it; a link to an object that has *)
(* been removed throws, as does removing it again.                         *)
(***************************************************************************)
EXTENDS Integers, Sequences, SequencesExt, FiniteSets

CONSTANTS
  Ids,          \* primary keys
  Amounts,      \* values of the required property
  Unfit,        \* something neither property accepts
  NotGiven,     \* undefined
  Gone,         \* in place of an object that does not exist
  Zero,         \* the engine's value for a new object
  Null,
  Singleton,    \* the object that a default function creates: one of Ids
  Schemas       \* how the class is declared

ASSUME ObjectsAssumption ==
  /\ Singleton \in Ids /\ IsFiniteSet(Ids) /\ Amounts # {}
  /\ {Unfit, NotGiven, Null} \cap (Ids \cup Amounts) = {}
  /\ Unfit # NotGiven /\ Unfit # Null /\ NotGiven # Null
  /\ NotGiven \notin {"creates", "never", "modified", "all"} /\ "creates" \notin Amounts
  /\ Gone \notin [value : Amounts \cup {Zero}, link : Ids \cup {Null}]
  /\ \A s \in Schemas :
       /\ s.order \in {<<"value", "link">>, <<"link", "value">>}
       /\ s.default \in Amounts \cup {NotGiven, "creates"}
       /\ s.counter \in BOOLEAN

VARIABLES
  schema,       \* the class
  objects,      \* by primary key
  did           \* the last call, what it was made on and how it ended

objectVars == <<schema, objects, did>>

Modes == {"never", "modified", "all"}

NewObject == [value |-> Zero, link |-> Null]

IsPlainObject(v) == v \notin Ids \cup Amounts \cup {Unfit, NotGiven, Null}

----------------------------------------------------------------------------
(* A call under way: the objects so far, barq.currentUpdateMode, and       *)
(* whether it has thrown.                                                  *)

Doing(objs, mode) == [objects |-> objs, mode |-> mode, threw |-> FALSE]
Thrown(doing) == [doing EXCEPT !.threw = TRUE]

(* What toBinding() creates a linked object with.                          *)
LinkNever(doing) == "never"
LinkMode(doing) == IF doing.mode = NotGiven THEN "never" ELSE doing.mode

(* The set of the property accessor, for what is no plain object.          *)
SetGiven(doing, id, p, v, created) ==
  IF p = "value"
  THEN IF v \in Amounts /\ (schema.counter => created)
       THEN [doing EXCEPT !.objects[id].value = v]
       ELSE Thrown(doing)
  ELSE IF v = Null \/ (v \in Ids /\ doing.objects[v] # Gone)
  THEN [doing EXCEPT !.objects[id].link = v]
  ELSE Thrown(doing)

(* mode === Modified && getProperty(obj) === propertyValue: a getter makes *)
(* a new wrapper of a linked object, or of a counter, each time.           *)
IsUnchanged(doing, id, p, v) ==
  IF p = "value" THEN doing.objects[id].value = v /\ ~schema.counter
  ELSE doing.objects[id].link = v /\ v = Null

GivenFor(values, p) == IF p = "value" THEN values.value ELSE values.link

(* BarqObject.create(): the object, then its properties in the order of    *)
(* the schema, each with what sets it and what gives its default.          *)
FillBy(SetIt(_, _, _, _, _), Default(_, _, _), doing, values, p, mode, created) ==
  LET v == GivenFor(values, p)
  IN IF doing.threw THEN doing
     ELSE IF v # NotGiven
     THEN IF mode = "modified" /\ IsUnchanged(doing, values.id, p, v) THEN doing
          ELSE SetIt(doing, values.id, p, v, created)
     ELSE IF created THEN Default(doing, values.id, p) ELSE doing

(* The object with the primary key: the one there is, or a new one.        *)
GotOrNew(doing, id) ==
  IF doing.objects[id] = Gone THEN [doing EXCEPT !.objects[id] = NewObject] ELSE doing

CreateBy(SetIt(_, _, _, _, _), Default(_, _, _), doing, values, mode) ==
  LET created == doing.objects[values.id] = Gone
      first == FillBy(SetIt, Default, GotOrNew(doing, values.id), values, schema.order[1], mode, created)
  IN IF mode = "never" /\ ~created THEN Thrown(doing)
     ELSE FillBy(SetIt, Default, first, values, schema.order[2], mode, created)

(* What the default function creates has its value.  It calls barq.create()*)
(* inside another one, whose finally block leaves no mode.                 *)
AnAmount == CHOOSE v \in Amounts : TRUE

NothingElse(doing, id, p) == IF p = "link" THEN doing ELSE Thrown(doing)

CreateInDefault(doing) ==
  [CreateBy(SetGiven, NothingElse, [doing EXCEPT !.mode = "all"],
            [id |-> Singleton, value |-> AnAmount, link |-> NotGiven], "all")
     EXCEPT !.mode = NotGiven]

SetDefault(doing, id, p) ==
  IF p = "link" THEN doing
  ELSE IF schema.default = NotGiven THEN Thrown(doing)      \* Missing value
  ELSE IF schema.default = "creates"
  THEN LET made == CreateInDefault(doing)
       IN IF made.threw THEN made ELSE SetGiven(made, id, p, AnAmount, TRUE)
  ELSE SetGiven(doing, id, p, schema.default, TRUE)

(* A plain object for the link is created by toBinding(); in one that is   *)
(* nested there is no other.                                               *)
CreateNested(doing, values, mode) == CreateBy(SetGiven, SetDefault, doing, values, mode)

SetProperty(doing, id, p, v, created) ==
  IF p = "link" /\ IsPlainObject(v)
  THEN LET made == CreateNested(doing, v, LinkMode(doing))
       IN IF made.threw THEN made ELSE [made EXCEPT !.objects[id].link = v.id]
  ELSE SetGiven(doing, id, p, v, created)

CreateObject(doing, values, mode) == CreateBy(SetProperty, SetDefault, doing, values, mode)

(* Barq.create()                                                           *)
Create(objs, values, mode) == CreateObject(Doing(objs, mode), values, mode)

(* object[p] = v                                                           *)
Assign(objs, id, p, v) ==
  IF objs[id] = Gone THEN Thrown(Doing(objs, NotGiven))
  ELSE SetProperty(Doing(objs, NotGiven), id, p, v, FALSE)

(* Table::removeObject                                                     *)
RemoveObject(objs, id) ==
  [j \in Ids |->
     IF j = id THEN Gone
     ELSE IF objs[j] # Gone /\ objs[j].link = id THEN [objs[j] EXCEPT !.link = Null]
     ELSE objs[j]]

(* Barq.delete() of something iterable, one object after the other.        *)
DeleteOne(doing, id) ==
  IF doing.threw \/ doing.objects[id] = Gone THEN Thrown(doing)
  ELSE [doing EXCEPT !.objects = RemoveObject(doing.objects, id)]

DeleteEach(objs, subjects) ==
  LET after[n \in 0..Len(subjects)] ==
        IF n = 0 THEN Doing(objs, NotGiven) ELSE DeleteOne(after[n - 1], subjects[n])
  IN after[Len(subjects)]

(* The values() of a set are those of a snapshot: deleting an object takes *)
(* it out of the set, too.                                                 *)
SetValues(members) == SetToSeq(members)

(* Results.update() of all objects that have a value: the i-th object of a *)
(* snapshot, as the results change with every object.                      *)
Matching(objs, v) == {id \in Ids : objs[id] # Gone /\ objs[id].value = v}

LiveResults(objs, start, v) == SetToSeq(Matching(objs, v))
Snapshot(objs, start, v) == SetToSeq(Matching(start, v))

UpdateOne(doing, found, i, p, v) ==
  IF doing.threw \/ i > Len(found) THEN doing        \* the end of the loop
  ELSE SetProperty(doing, found[i], p, v, FALSE)

UpdateEach(objs, filter, p, v) ==
  LET size == Cardinality(Matching(objs, filter))
      after[i \in 0..size] ==
        IF i = 0 THEN Doing(objs, NotGiven)
        ELSE UpdateOne(after[i - 1], Snapshot(after[i - 1].objects, objs, filter), i, p, v)
  IN after[size]

----------------------------------------------------------------------------
(* The calls                                                               *)

Idle == [op |-> "none", args |-> <<>>, from |-> objects, threw |-> FALSE]

(* What a call that throws has done before stays, if the callback of       *)
(* write() catches what it throws.                                         *)
Made(op, args, doing) ==
  /\ objects' = doing.objects
  /\ did' = [op |-> op, args |-> args, from |-> objects, threw |-> doing.threw]
  /\ UNCHANGED schema

Plain == [id : Ids, value : Amounts \cup {Unfit, NotGiven}, link : {NotGiven, Null} \cup Ids]
Nesting ==
  Plain \cup
  {[o EXCEPT !.link = inner] : o \in {q \in Plain : q.link = Null}, inner \in Plain \cup {Unfit}}

ASSUME PlainObjectsAssumption == \A o \in Nesting : IsPlainObject(o)

Calls ==
  \/ \E values \in Nesting, mode \in Modes :
       Made("create", <<values, mode>>, Create(objects, values, mode))
  \/ \E id \in Ids, v \in Amounts \cup {Unfit} :
       Made("assign", <<id, "value", v>>, Assign(objects, id, "value", v))
  \/ \E id \in Ids, v \in Ids \cup {Unfit, Null} \cup Plain :
       Made("assign", <<id, "link", v>>, Assign(objects, id, "link", v))
  \/ \E s \in BoundedSeq(Ids, 2) :
       Made("delete", <<s>>, DeleteEach(objects, s))
  \/ \E members \in SUBSET {id \in Ids : objects[id] # Gone} :
       Made("delete", <<SetValues(members)>>, DeleteEach(objects, SetValues(members)))
  \/ \E filter \in Amounts \cup {Zero}, v \in Amounts \cup {Unfit} :
       Made("update", <<filter, "value", v>>, UpdateEach(objects, filter, "value", v))
  \/ \E filter \in Amounts \cup {Zero}, v \in Ids \cup {Null} \cup Plain :
       Made("update", <<filter, "link", v>>, UpdateEach(objects, filter, "link", v))

ObjectsInit ==
  /\ schema \in Schemas
  /\ objects \in [Ids -> [value : Amounts \cup {Zero}, link : Ids \cup {Null}] \cup {Gone}]
  /\ \A id \in Ids : objects[id] # Gone /\ objects[id].link # Null => objects[objects[id].link] # Gone
  /\ did = Idle

(* One call, on any objects.                                               *)
ObjectsNext == did.op = "none" /\ Calls

ObjectsSpec == ObjectsInit /\ [][ObjectsNext]_objectVars

----------------------------------------------------------------------------
(* Properties                                                              *)

ObjectsTypeOK ==
  /\ schema \in Schemas
  /\ \A id \in Ids :
       objects[id] # Gone =>
         /\ objects[id].value \in Amounts \cup {Zero}
         /\ objects[id].link \in Ids \cup {Null}

(* What create() is told to make of one object.                            *)
Named(values) == {values.id} \cup (IF IsPlainObject(values.link) THEN {values.link.id} ELSE {})

ValueTold(o, from) ==
  IF o.value # NotGiven THEN o.value
  ELSE IF from[o.id] # Gone THEN from[o.id].value
  ELSE IF schema.default = "creates" THEN AnAmount ELSE schema.default

LinkTold(o, from) ==
  IF o.link = NotGiven THEN (IF from[o.id] = Gone THEN Null ELSE from[o.id].link)
  ELSE IF IsPlainObject(o.link) THEN o.link.id ELSE o.link

AsTold(o, from) ==
  objects[o.id] = [value |-> ValueTold(o, from), link |-> LinkTold(o, from)]

(* Why create() may throw: a value, required and not given, or not         *)
(* accepted, a link to nothing, a key that is taken, a counter that is     *)
(* there already.                                                          *)
Refusable(o, from, mode) ==
  \/ o.value = Unfit \/ o.link = Unfit
  \/ o.value = NotGiven /\ schema.default = NotGiven /\ from[o.id] = Gone
  \/ o.link \in Ids /\ from[o.link] = Gone
  \/ mode = "never" /\ from[o.id] # Gone
  \/ schema.counter /\ from[o.id] # Gone /\ o.value # NotGiven

(* A default function that creates an object itself ends the update mode   *)
(* of the call (see the README), and refuses another value of a counter.   *)
ModeIsLost(o, from) ==
  /\ schema.default = "creates"
  /\ from[o.id] = Gone /\ o.value = NotGiven
  /\ IsPlainObject(o.link) \/ schema.counter

(* create() that returns has made of the object, and of the one nested in  *)
(* it, what it was told to: given values are set, the others keep theirs   *)
(* or get the default if the object is new, in whichever order and mode,   *)
(* and no other object has changed; and it throws for a cause only.        *)
CreatesAsTold ==
  LET values == did.args[1]
      mode == did.args[2]
      parts == {values} \cup (IF IsPlainObject(values.link) THEN {values.link} ELSE {})
      others == IF schema.default = "creates" THEN {Singleton} ELSE {}
  IN did.op = "create" /\ Cardinality(Named(values) \cup others) = Cardinality(parts) + Cardinality(others) =>
       IF did.threw THEN \E o \in parts : Refusable(o, did.from, mode) \/ ModeIsLost(o, did.from)
       ELSE /\ \A o \in parts : AsTold(o, did.from)
            /\ \A id \in Ids \ (Named(values) \cup others) : objects[id] = did.from[id]

(* A deletion that returns has taken all objects of its subject, and no    *)
(* other, although they disappear from the set that is walked; an update   *)
(* of results that returns has reached all objects that were there,        *)
(* although they leave the results one by one.                             *)
WalksReachAll ==
  ~did.threw =>
    /\ did.op = "delete" =>
         {id \in Ids : objects[id] # Gone} =
           {id \in Ids : did.from[id] # Gone} \ ToSet(did.args[1])
    /\ did.op = "update" =>
         LET v == did.args[3]
         IN \A id \in Matching(did.from, did.args[1]) :
              objects[id][did.args[2]] = IF IsPlainObject(v) THEN v.id ELSE v
=============================================================================
