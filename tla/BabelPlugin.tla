----------------------------- MODULE BabelPlugin -----------------------------
(***************************************************************************)
(* The plugin that writes the schema of a class from its declaration in    *)
(* TypeScript: what a property may hold is read off its type, or off its   *)
(* initializer, and ends in front of the normalization of schemas.         *)
(*                                                                         *)
(* A type is [is |-> "keyword", name], [is |-> "undefined"], [is |->       *)
(* "literal", name], [is |-> "union", of |-> types] or [is |->             *)
(* "reference", left, name, from, args]: name with what stands before it   *)
(* ("none", "Types", "Barq", "Barq.Types"), and the package its first      *)
(* identifier is imported from, or "none".  A decorator is [name, called,  *)
(* arg, from].  A class has one property, a superclass [left, name, from], *)
(* static fields, and the extension of the file it is in.                  *)
(* A type is read four levels deep: itself, the member of a union, the     *)
(* element of a collection, and the member of that.                        *)
(* External: Babel.                                                        *)
(***************************************************************************)
EXTENDS Schemas, FiniteSets

CONSTANTS
  DeclaredProperties    \* the class properties that are looked at

VARIABLE
  classProperty

Packages == {"@barqdb/barq", "@barqdb/react"}
IsImportedFromBarq(node) == node.from \in Packages

Undetermined == [undetermined |-> TRUE]
Throws == [throws |-> TRUE]
LeftAlone == [leftAlone |-> TRUE]

BarqType(type) == [type |-> type, objectType |-> Missing, optional |-> Missing, property |-> Missing]

----------------------------------------------------------------------------
(* Types                                                                   *)

(* The members of the namespace Types; some are exported from Barq, too.   *)
Aliases ==
  [Bool |-> "bool", String |-> "string", Int |-> "int", Float |-> "float", Double |-> "double",
   Decimal128 |-> "decimal128", ObjectId |-> "objectId", UUID |-> "uuid", Date |-> "date",
   Data |-> "data", Mixed |-> "mixed"]
CollectionAliases == [List |-> "list", Set |-> "set", Dictionary |-> "dictionary"]
GlobalNames == [Date |-> "date", ArrayBuffer |-> "data"]
Keywords == [boolean |-> "bool", string |-> "string", number |-> "double"]

AlsoInBarq == DOMAIN CollectionAliases \cup {"Mixed"}

IsAlias(t, names) ==
  /\ t.name \in names
  /\ IsImportedFromBarq(t)
  /\ t.left \in {"none", "Types", "Barq.Types"} \/ (t.left = "Barq" /\ t.name \in AlsoInBarq)

(* LinkingObjects<Class, "property">, as the type of a required property.  *)
LinkingObjects(t, isRequired) ==
  LET fits ==
        /\ isRequired
        /\ Len(t.args) = 2
        /\ t.args[1].is = "reference" /\ t.args[1].left = "none"
        /\ t.args[2].is = "literal"
  IN IF fits THEN [BarqType("linkingObjects") EXCEPT !.objectType = t.args[1].name,
                                                     !.property = t.args[2].name]
     ELSE Throws

\* Mutated ElementOptional: what an element may be is not handed on.
NotHandedOn(element) == Missing

ElementOptional(element) == element.optional

CollectionOf(type, element) ==
  CASE element = Throws -> Throws
    [] element = Undetermined -> BarqType(type)
    [] OTHER ->
         [BarqType(type) EXCEPT
            !.objectType = IF element.type = "object" THEN element.objectType ELSE element.type,
            !.optional = ElementOptional(element)]

TypeOfReference(t, isRequired, element) ==
  CASE IsAlias(t, DOMAIN Aliases) -> BarqType(Aliases[t.name])
    [] IsAlias(t, DOMAIN CollectionAliases) -> CollectionOf(CollectionAliases[t.name], element)
    [] IsAlias(t, {"LinkingObjects"}) -> LinkingObjects(t, isRequired)
    [] ~IsAlias(t, DOMAIN Aliases \cup DOMAIN CollectionAliases \cup {"LinkingObjects"}) ->
         IF t.left # "none" THEN Undetermined
         ELSE IF t.name \in DOMAIN GlobalNames THEN BarqType(GlobalNames[t.name])
         ELSE [BarqType("object") EXCEPT !.objectType = t.name]

(* A union with undefined, of which the other member counts.               *)
AbsentIn(types) == {i \in DOMAIN types : types[i].is = "undefined"}
MayBeAbsent(t) == t.is = "union" /\ Len(t.of) = 2 /\ AbsentIn(t.of) # {}
OtherMember(types) ==
  IF types[1].is = "undefined" THEN types[2] ELSE types[1]

TypeOfUnion(t, member) ==
  IF ~MayBeAbsent(t) THEN Undetermined
  ELSE IF member \in {Undetermined, Throws} THEN member
  ELSE [member EXCEPT !.optional = TRUE]

(* A type, from that of the member or the element in it.                   *)
(* isRequired: t is the annotation itself, of a property without "?".      *)
TypeFrom(t, isRequired, inner) ==
  CASE t.is = "keyword" /\ t.name \in DOMAIN Keywords -> BarqType(Keywords[t.name])
    [] t.is = "reference" -> TypeOfReference(t, isRequired, inner)
    [] t.is = "union" -> TypeOfUnion(t, inner)
    [] OTHER -> Undetermined

HasInner(t) == MayBeAbsent(t) \/ (t.is = "reference" /\ t.args # <<>>)
InnerOf(t) == IF t.is = "union" THEN OtherMember(t.of) ELSE t.args[1]

InnermostType(t) == TypeFrom(t, FALSE, Undetermined)
TypeOfElement(t) ==
  TypeFrom(t, FALSE, IF HasInner(t) THEN InnermostType(InnerOf(t)) ELSE Undetermined)
TypeOfMember(t) ==
  TypeFrom(t, FALSE, IF HasInner(t) THEN TypeOfElement(InnerOf(t)) ELSE Undetermined)
TypeOf(t, isRequired) ==
  TypeFrom(t, isRequired, IF HasInner(t) THEN TypeOfMember(InnerOf(t)) ELSE Undetermined)

(* An initializer is [is |-> "literal", of |-> a type of Barq] or          *)
(* [is |-> "new", left, name, from] or [is |-> "other"].                   *)
InferFromInitializer(value) ==
  LET constructors == {"Decimal128", "ObjectId", "UUID", "Date", "Data"}
      isMember == value.left # "none" /\ value.name \in constructors /\ IsImportedFromBarq(value)
  IN CASE value.is = "literal" -> BarqType(value.of)
       [] value.is = "new" /\ isMember -> BarqType(Aliases[value.name])
       [] value.is = "new" /\ ~isMember /\ value.left = "none" /\ value.name \in DOMAIN GlobalNames ->
            BarqType(GlobalNames[value.name])
       [] OTHER -> Undetermined

TypeOfProperty(p) ==
  IF p.annotation # Missing THEN TypeOf(p.annotation, ~p.optional)
  ELSE IF p.value # Missing THEN InferFromInitializer(p.value)
  ELSE Undetermined

----------------------------------------------------------------------------
(* Decorators and the property                                             *)

DecoratorsNamed(decorators, name, called) ==
  {d \in decorators : d.name = name /\ d.called = called /\ IsImportedFromBarq(d)}

ArgumentOf(decorators) ==
  IF decorators = {} THEN Missing ELSE (CHOOSE d \in decorators : TRUE).arg

(* Both may be written: the later field of the object counts.              *)
Indexed(decorators) ==
  LET call == ArgumentOf(DecoratorsNamed(decorators, "index", TRUE))
  IN CASE call # Missing -> call
       [] call = Missing /\ DecoratorsNamed(decorators, "index", FALSE) # {} -> "indexed"
       [] OTHER -> Missing

MapTo(decorators) == ArgumentOf(DecoratorsNamed(decorators, "mapTo", TRUE))

(* The default: a literal itself, of any other expression a function.      *)
DefaultOf(value) ==
  CASE value = Missing -> Missing
    [] value # Missing /\ value.is = "literal" -> "value"
    [] OTHER -> "function"

VisitProperty(p) ==
  LET t == TypeOfProperty(p)
  IN IF t \in {Undetermined, Throws} THEN t
     ELSE [type |-> t.type, objectType |-> t.objectType, property |-> t.property,
           optional |-> IF p.optional \/ t.optional = TRUE THEN TRUE ELSE Missing,
           default |-> DefaultOf(p.value), indexed |-> Indexed(p.decorators),
           mapTo |-> MapTo(p.decorators), presentation |-> Missing, vector |-> Missing]

(* The static fields that are written: strings and booleans.               *)
Static(statics, name) == IF name \in DOMAIN statics THEN statics[name] ELSE Missing

(* A property whose type is not found is left out, with a warning.         *)
VisitClass(p) ==
  LET property == VisitProperty(p)
  IN IF "schema" \in DOMAIN p.statics THEN Throws
     ELSE IF property \in {Throws, Undetermined} THEN property
     ELSE [notation |-> "object", property |-> property,
           primaryKey |-> Static(p.statics, "primaryKey"),
           embedded |-> Static(p.statics, "embedded"),
           asymmetric |-> Static(p.statics, "asymmetric")]

(* extends Barq.Object, or Object from the package, in a file of TypeScript*)
IsVisited(superClass, extension) ==
  /\ superClass.name = "Object" /\ superClass.left \in {"none", "Barq"}
  /\ IsImportedFromBarq(superClass)
  /\ extension \in {"ts", "cts", "mts", "tsx"}

Visit(p) == IF IsVisited(p.superClass, p.extension) THEN VisitClass(p) ELSE LeftAlone

(* Schemas has one name for the primitives that have no case of their own, *)
(* and one for those without a template value.                             *)
Represented(type) ==
  CASE type \in {"bool", "double", "date", "data"} -> "string"
    [] type \in {"objectId", "uuid"} -> "decimal128"
    [] OTHER -> type

CanonicalOf(written) ==
  NormalizeObject([written EXCEPT !.property.type = Represented(@),
                                  !.property.objectType = Represented(@)])

(* Types, as TypeScript takes them.  A reference is to a class of the      *)
(* application, unless it is to an alias or a global name.                 *)
IsType(t) ==
  /\ t.is = "union" => t.of \in Seq(ToSet(t.of)) /\ \A m \in ToSet(t.of) : m.is # "union"
  /\ t.is = "reference" =>
       /\ t.args \in Seq(ToSet(t.args))
       /\ \/ t.left # "none" \/ t.name \in Classes \cup DOMAIN GlobalNames
          \/ IsAlias(t, DOMAIN Aliases \cup DOMAIN CollectionAliases \cup {"LinkingObjects"})

TypesIn(t) ==
  CASE t.is = "union" -> ToSet(t.of)
    [] t.is = "reference" -> ToSet(t.args)
    [] OTHER -> {}

LinksToClass(t) ==
  t.is = "reference" /\ t.name = "LinkingObjects" /\ Len(t.args) = 2 =>
    /\ t.args[1].is = "reference" => t.args[1].name \in Classes
    /\ t.args[2].is = "literal" => t.args[2].name \notin {Missing, Mistyped}

(* Of a decorator the arguments, and of a static field the values, that it *)
(* is documented with.                                                     *)
IsDecorator(d) ==
  /\ d.called \in BOOLEAN
  /\ d.name = "index" /\ d.called => d.arg \in {"indexed", "full-text"}
  /\ d.name = "mapTo" => d.called /\ d.arg \notin {Missing, Mistyped}

IsClassProperty(p) ==
  /\ p.annotation # Missing =>
       /\ LinksToClass(p.annotation)
       /\ \A t \in {p.annotation} \cup TypesIn(p.annotation) : IsType(t) /\ \A u \in TypesIn(t) : IsType(u)
  /\ p.value # Missing /\ p.value.is = "literal" => p.value.of \in {"bool", "string", "double"}
  /\ p.optional \in BOOLEAN
  /\ \A d \in p.decorators : IsDecorator(d)
  /\ \A d, e \in p.decorators : d.name = "mapTo" /\ e.name = "mapTo" => d = e
  /\ "primaryKey" \in DOMAIN p.statics => p.statics.primaryKey = PropertyName
  /\ \A name \in {"embedded", "asymmetric"} \cap DOMAIN p.statics : p.statics[name] \in BOOLEAN

ASSUME PluginAssumption ==
  /\ (Classes \cup {Missing, Mistyped}) \cap {"bool", "double", "date", "data", "objectId", "uuid"} = {}
  /\ {Missing, Mistyped} \cap {"value", "function"} = {}
  /\ \A p \in DeclaredProperties : IsClassProperty(p)

PluginInit == classProperty \in DeclaredProperties

\* What was declared stays.
PluginSpec == PluginInit /\ [][UNCHANGED classProperty]_classProperty

----------------------------------------------------------------------------
(* What TypeScript says of a property                                      *)

AnyValue == "any value"

KindsOfAliases ==
  [Bool |-> "boolean", String |-> "string", Int |-> "number", Float |-> "number",
   Double |-> "number", Decimal128 |-> "Decimal128", ObjectId |-> "ObjectId", UUID |-> "UUID",
   Date |-> "Date", Data |-> "ArrayBuffer", Mixed |-> AnyValue, List |-> "List", Set |-> "Set",
   Dictionary |-> "Dictionary", LinkingObjects |-> "LinkingObjects"]

(* The values of a type: for a class, its name.                            *)
KindOf(t) ==
  IF t.is = "keyword" \/ ~IsImportedFromBarq(t) \/ t.name \notin DOMAIN KindsOfAliases THEN t.name
  ELSE KindsOfAliases[t.name]

Members(t) == IF t.is = "union" THEN ToSet(t.of) ELSE {t}
Present(t) == {m \in Members(t) : m.is # "undefined"}
MayBeUndefined(t) == \E m \in Members(t) : m.is = "undefined"

(* The values a property of a type of Barq takes.                          *)
KindsOfBarq ==
  [bool |-> "boolean", string |-> "string", int |-> "number", float |-> "number",
   double |-> "number", decimal128 |-> "Decimal128", objectId |-> "ObjectId", uuid |-> "UUID",
   date |-> "Date", data |-> "ArrayBuffer", mixed |-> AnyValue, list |-> "List", set |-> "Set",
   dictionary |-> "Dictionary", linkingObjects |-> "LinkingObjects"]

(* "object" stands for the class it is of.                                 *)
StoredKind(type, class) ==
  IF type \in DOMAIN KindsOfBarq THEN KindsOfBarq[type]
  ELSE IF type = "object" THEN class ELSE type

InitializerKind(value) == IF value.is = "literal" THEN KindsOfBarq[value.of] ELSE KindOf(value)

SaysCollection(t) == \E m \in Present(t) : KindOf(m) \in {"List", "Set", "Dictionary"}

(* Collections that no schema can tell: of an element whose type is not    *)
(* found, of collections, of classes that may be undefined; and a          *)
(* collection that may itself be undefined.  Nor a primary key with a full *)
(* text index.                                                             *)
Untold(p) ==
  /\ p.annotation # Missing /\ SaysCollection(p.annotation)
  /\ \/ p.optional
     \/ p.annotation.is = "union"
     \/ LET args == p.annotation.args
        IN \/ args = <<>> \/ TypeOfMember(args[1]) = Undetermined \/ SaysCollection(args[1])
           \/ MayBeUndefined(args[1]) /\ \E m \in Present(args[1]) : KindOf(m) \in Classes

(* A class the plugin finds types for has a schema that is accepted, and   *)
(* that takes the values TypeScript lets the property have: of the same    *)
(* kind, undefined just where the declaration says so (or where Barq has   *)
(* no other way), the elements of a collection alike; with the index, the  *)
(* other name, the default and the key that are declared.                  *)
PluginKeepsTypes ==
  LET p == classProperty
      written == Visit(p)
      property == written.property
      canonical == CanonicalOf(written)
      annotated == p.annotation # Missing
      kind == StoredKind(property.type, property.objectType)
      isCollection == property.type \in CollectionTypes
      always == IsAlwaysOptional(Represented(property.type), Represented(property.objectType))
      element == p.annotation.args[1]
      optional ==
        IF annotated /\ isCollection THEN MayBeUndefined(element)
        ELSE p.optional \/ (annotated /\ MayBeUndefined(p.annotation))
      toldAll ==
        /\ ~Untold(p)
        /\ ~(Indexed(p.decorators) = "full-text" /\ "primaryKey" \in DOMAIN p.statics)
  IN (p # <<>> /\ written \notin {Undetermined, Throws, LeftAlone} /\ toldAll) =>
       /\ canonical # Rejected
       /\ annotated => Present(p.annotation) # {} /\ \A m \in Present(p.annotation) : KindOf(m) = kind
       /\ ~annotated => kind = InitializerKind(p.value)
       /\ annotated /\ isCollection =>
            \A m \in Present(element) : KindOf(m) = StoredKind(property.objectType, property.objectType)
       /\ canonical.property.optional = (optional \/ always)
       /\ (canonical.property.default = Missing) = (p.value = Missing)
       /\ (canonical.property.indexed = "none") =
            (canonical.primaryKey = Missing /\ \A d \in p.decorators : d.name # "index" \/ d.from \notin Packages)
       /\ \A d \in p.decorators :
            d.name = "mapTo" /\ d.from \in Packages => canonical.property.mapTo = d.arg
       /\ canonical.primaryKey = Static(p.statics, "primaryKey")
       /\ canonical.embedded = (Static(p.statics, "embedded") = TRUE)
=============================================================================
