------------------------------ MODULE Schemas ------------------------------
(***************************************************************************)
(* The way of a model through the schema code: it is validated, brought to *)
(* its canonical form, handed to the engine, and read back from it as      *)
(* barq.schema, which an application may open a Barq with again.           *)
(*                                                                         *)
(* A name is one of the types, of the classes, or a name with a mark of    *)
(* the shorthand on it.  The types that the code treats alike have one     *)
(* representative: "string" stands for the primitives with no case of      *)
(* their own, "decimal128" for those without a template value.  A model    *)
(* has one property.  Not modelled: the constructor of a class based model,*)
(* the deprecated arrays of properties, the engine's own validation but    *)
(* for the classes it has to find.                                         *)
(***************************************************************************)
EXTENDS Naturals, Sequences, SequencesExt

CONSTANTS
  Classes,          \* names of the classes the application declares
  Marked,           \* a name that ends with a mark of the shorthand
  Missing,          \* a field that is not given
  Mistyped,         \* a field of a JavaScript type it may not have
  SomeVector, PartialVector, FilledVector,   \* vector options
  SomeDefault,
  PropertyName, OtherName,
  DeclaredModels      \* the models that are looked at

Primitives == {"int", "float", "string", "decimal128", "mixed"}
CollectionTypes == {"list", "dictionary", "set"}
UserDefined == Classes \cup {Marked, "counter"}
TypeMappings == Primitives \cup CollectionTypes \cup {"object", "linkingObjects"}

VARIABLE declaration

Rejected == [rejected |-> TRUE]

----------------------------------------------------------------------------
(* Validation                                                              *)

(* Each field of a property in object notation has a type of its own; one  *)
(* of a wrong JavaScript type, or a vector option out of its range, throws.*)
ValidatesProperty(p) == \A field \in DOMAIN p : p[field] # Mistyped

ValidatesObject(d) ==
  /\ d.primaryKey # Mistyped /\ d.embedded # Mistyped /\ d.asymmetric # Mistyped
  /\ d.notation = "object" => ValidatesProperty(d.property)

----------------------------------------------------------------------------
(* The canonical form of a property                                        *)

IsAlwaysOptional(type, objectType) ==
  \/ "mixed" \in {type, objectType}
  \/ type = "object"
  \/ type = "dictionary" /\ objectType \in UserDefined

IsNeverOptional(type, objectType) ==
  type \in {"list", "set", "linkingObjects"} /\ objectType \in UserDefined

Canonical(type, objectType, presentation, property, optional, indexed, mapTo, default, vector) ==
  [type |-> type, objectType |-> objectType, presentation |-> presentation, property |-> property,
   optional |-> optional, indexed |-> indexed, name |-> PropertyName, mapTo |-> mapTo,
   default |-> default, vector |-> vector]

(* A shorthand is a sequence of marks after a name: <<"int", "?", "[]">>.  *)
Suffix == [s \in {"[]", "{}", "<>"} |->
             CASE s = "[]" -> "list" [] s = "{}" -> "dictionary" [] s = "<>" -> "set"]

HasSuffix(marks) == marks # <<>> /\ Last(marks) \in DOMAIN Suffix
HasOptional(marks) == marks # <<>> /\ Last(marks) = "?"

(* What is left of a shorthand is a name; with a mark it is an odd one.    *)
NameOf(marks) == IF Len(marks) = 1 THEN marks[1] ELSE Marked

NormalizeShorthand(marks, isPrimaryKey) ==
  LET element == IF HasSuffix(marks) THEN Front(marks) ELSE marks
      stripped == IF HasOptional(element) THEN Front(element) ELSE element
      name == NameOf(stripped)
      counter == name = "counter"
      item == IF counter THEN "int" ELSE name
      type == IF HasSuffix(marks) THEN Suffix[Last(marks)]
              ELSE IF item \in Primitives THEN item ELSE "object"
      objectType == IF HasSuffix(marks) \/ item \notin Primitives THEN item ELSE Missing
      fails ==
        \/ stripped = <<>>
        \/ HasSuffix(element)
        \/ HasSuffix(stripped)
        \/ item \in CollectionTypes \cup {"object", "linkingObjects"}
        \/ counter /\ type # "int"
        \/ IsNeverOptional(type, objectType) /\ HasOptional(element)
  IN IF fails THEN Rejected
     ELSE Canonical(type, objectType, IF counter THEN "counter" ELSE Missing, Missing,
                    IF IsAlwaysOptional(type, objectType) THEN TRUE ELSE HasOptional(element),
                    IF isPrimaryKey THEN "indexed" ELSE "none", PropertyName, Missing, Missing)

(* normalizeVectorIndex() fills in what the options leave out.             *)
FillVector(vector) == IF vector = PartialVector THEN FilledVector ELSE vector

(* The object notation takes no name with a mark of the shorthand on it.   *)
UsesShorthand(p) == {p.type, p.objectType} \cap {Marked, "counter"} # {}

(* What an object notation has to say of a type, and may not say.          *)
ObjectTypeFits(p) ==
  CASE p.type \in Primitives -> p.objectType = Missing
    [] p.type \in CollectionTypes -> p.objectType \in Primitives \cup UserDefined
    [] p.type = "object" -> p.objectType \in UserDefined
    [] p.type = "linkingObjects" -> p.objectType \in UserDefined /\ p.property # Missing
    [] OTHER -> FALSE

OptionalFits(p) ==
  /\ IsAlwaysOptional(p.type, p.objectType) => p.optional # FALSE
  /\ IsNeverOptional(p.type, p.objectType) => p.optional # TRUE

PrimaryKeyFits(p) == p.indexed \notin {"none", "full-text"} /\ p.presentation # "counter"

VectorFits(p, isPrimaryKey) ==
  /\ p.type = "list" /\ p.objectType = "float"
  /\ ~isPrimaryKey
  /\ p.indexed \in {Missing, "none"}

Allowed(p, isPrimaryKey) ==
  /\ ~UsesShorthand(p)
  /\ ObjectTypeFits(p)
  /\ p.type # "linkingObjects" => p.property = Missing
  /\ p.presentation = "counter" => p.type = "int"
  /\ OptionalFits(p)
  /\ isPrimaryKey => PrimaryKeyFits(p)
  /\ p.vector # Missing => VectorFits(p, isPrimaryKey)

Optionality(p) ==
  IF IsAlwaysOptional(p.type, p.objectType) THEN TRUE
  ELSE IF IsNeverOptional(p.type, p.objectType) THEN FALSE ELSE p.optional = TRUE

NormalizeProperty(p, isPrimaryKey) ==
  IF ~Allowed(p, isPrimaryKey) THEN Rejected
  ELSE Canonical(p.type, p.objectType, p.presentation, p.property, Optionality(p),
         IF isPrimaryKey THEN "indexed" ELSE IF p.indexed = Missing THEN "none" ELSE p.indexed,
         IF p.mapTo = Missing THEN PropertyName ELSE p.mapTo, p.default, FillVector(p.vector))

(* normalizeObjectSchema(), after its validation.                          *)
NormalizeObject(d) ==
  LET isPrimaryKey == d.primaryKey = PropertyName
      property == IF d.notation = "object" THEN NormalizeProperty(d.property, isPrimaryKey)
                  ELSE NormalizeShorthand(d.property, isPrimaryKey)
  IN IF \/ ~ValidatesObject(d)
        \/ d.primaryKey \notin {Missing, PropertyName}
        \/ property = Rejected
     THEN Rejected
     ELSE [primaryKey |-> d.primaryKey, embedded |-> d.embedded = TRUE,
           asymmetric |-> d.asymmetric = TRUE, property |-> property]

----------------------------------------------------------------------------
(* To the engine                                                           *)

(* The types that are nullable, or are not, whatever the schema says.      *)
IsNullable(c) ==
  \/ "mixed" \in {c.type, c.objectType}
  \/ c.type = "object"
  \/ /\ c.optional
     /\ c.type \in {"list", "set"} => c.objectType \in TypeMappings

(* The item's type and the flags.                                          *)
ToBindingType(c) ==
  IF c.type = "linkingObjects" THEN [item |-> "linkingObjects", flags |-> {"list"}]
  ELSE [item |-> IF c.type \notin CollectionTypes THEN c.type
                 ELSE IF c.objectType \in TypeMappings THEN c.objectType ELSE "object",
        flags |-> ({c.type} \cap CollectionTypes) \cup (IF IsNullable(c) THEN {"nullable"} ELSE {})]

ToBindingProperty(c) ==
  [name |-> c.mapTo,
   publicName |-> IF c.mapTo = c.name THEN Missing ELSE c.name,
   type |-> ToBindingType(c),
   objectType |-> IF c.objectType \in TypeMappings THEN Missing ELSE c.objectType,
   linkOrigin |-> c.property,
   isIndexed |-> c.indexed = "indexed",
   isFulltextIndexed |-> c.indexed = "full-text"]

TableType(o) ==
  IF o.embedded THEN "embedded" ELSE IF o.asymmetric THEN "asymmetric" ELSE "top level"

ToBindingObject(o) ==
  LET property == ToBindingProperty(o.property)
  IN [tableType |-> TableType(o), primaryKey |-> o.primaryKey, property |-> property,
      isPrimary |-> property.name = o.primaryKey]

(* The engine takes a schema when it finds each class it mentions.         *)
EngineTakes(b) == b.property.objectType \in Classes \cup {Missing}

----------------------------------------------------------------------------
(* And back                                                                *)

FromBindingItem(type, objectType) ==
  IF type.item = "object" THEN [type |-> "object", objectType |-> objectType, optional |-> TRUE]
  ELSE [type |-> type.item, objectType |-> Missing, optional |-> FALSE]

(* A collection of objects is read as not optional, before what the flag   *)
(* of its type says.                                                       *)
FromBindingType(b) ==
  LET item == FromBindingItem(b.type, b.objectType)
      collection == b.type.flags \cap CollectionTypes
      plain ==
        CASE b.type.item = "linkingObjects" ->
               [type |-> "linkingObjects", objectType |-> b.objectType, optional |-> FALSE]
          [] b.type.item # "linkingObjects" /\ collection # {} ->
               [type |-> CHOOSE t \in collection : TRUE,
                objectType |-> IF item.type = "object" THEN item.objectType ELSE item.type,
                optional |-> FALSE]
          [] OTHER -> item
  IN [plain EXCEPT !.optional = @ \/ "nullable" \in b.type.flags]

FromBindingProperty(b) ==
  LET t == FromBindingType(b)
  IN [type |-> t.type, objectType |-> t.objectType, optional |-> t.optional,
      property |-> b.linkOrigin,
      indexed |-> IF b.isFulltextIndexed THEN "full-text" ELSE IF b.isIndexed THEN "indexed" ELSE "none",
      name |-> IF b.publicName = Missing THEN b.name ELSE b.publicName,
      mapTo |-> b.name]

(* What the engine does not keep of a property.                            *)
ExtrasWithoutVector(c) == [default |-> c.default, presentation |-> c.presentation]
ExtrasOfProperty(c) == [default |-> c.default, presentation |-> c.presentation, vector |-> c.vector]

WithExtras(property, extras) ==
  [field \in DOMAIN property \cup DOMAIN extras |->
     IF field \in DOMAIN extras THEN extras[field] ELSE property[field]]

(* barq.schema of a Barq that was opened with the canonical form.          *)
SchemaOf(o) ==
  LET b == ToBindingObject(o)
  IN [primaryKey |-> b.primaryKey,
      embedded |-> b.tableType = "embedded",
      asymmetric |-> b.tableType = "asymmetric",
      property |-> WithExtras(FromBindingProperty(b.property), ExtrasOfProperty(o.property))]

----------------------------------------------------------------------------
(* Barq.createTemplateObject()                                             *)

TemplateValue(c) ==
  CASE c.default # Missing -> c.default
    [] c.default = Missing /\ ~c.optional /\ c.type \in {"int", "float", "string"} -> "zero"
    [] OTHER -> Missing

----------------------------------------------------------------------------
(* The declarations an application can make                                *)

Names == Primitives \cup CollectionTypes \cup {"object", "linkingObjects", "counter", Marked} \cup Classes

Shorthands ==
  LET marks == {"?"} \cup DOMAIN Suffix
  IN UNION {[1..n -> marks] : n \in 0..2}
       \cup {<<name>> \o m : name \in Names \ {Marked}, m \in UNION {[1..n -> marks] : n \in 0..3}}

PropertyObjects ==
  [type : Names, objectType : Names \cup {Missing}, presentation : {Missing, "counter"},
   property : {Missing, OtherName}, optional : {Missing, TRUE, FALSE},
   indexed : {Missing, "indexed", "none", "full-text"},
   vector : {Missing, SomeVector, PartialVector}, mapTo : {Missing, OtherName},
   default : {Missing, SomeDefault}]

(* Of the shorthand, any sequence of names and marks.                      *)
IsDeclaration(d) ==
  \/ d.notation = "shorthand" /\ d.property \in Seq((Names \ {Marked}) \cup {"?"} \cup DOMAIN Suffix)
  \/ d.notation = "object" /\ (d.property \in PropertyObjects \/ ~ValidatesProperty(d.property))

ASSUME SchemasAssumption ==
  /\ Classes \cap (TypeMappings \cup {"counter", "?", Marked, Missing, Mistyped} \cup DOMAIN Suffix) = {}
  /\ {Marked, Missing, Mistyped} \cap (TypeMappings \cup {"counter", "?"} \cup DOMAIN Suffix) = {}
  /\ {Missing, Mistyped} \cap {Marked, PropertyName, OtherName, SomeVector, PartialVector,
                              FilledVector, SomeDefault, "indexed", "none", "full-text"} = {}
  /\ {Missing, Mistyped} \cap BOOLEAN = {} /\ Missing # Mistyped
  /\ PropertyName # OtherName
  /\ \A d \in DeclaredModels : IsDeclaration(d)

SchemasInit == declaration \in DeclaredModels

\* What was declared stays.
SchemasSpec == SchemasInit /\ [][UNCHANGED declaration]_declaration

(* A canonical form, as an application hands it in again.                  *)
AsDeclaration(o) ==
  [notation |-> "object", primaryKey |-> o.primaryKey, embedded |-> o.embedded,
   asymmetric |-> o.asymmetric,
   property |-> [field \in DOMAIN o.property \ {"name"} |-> o.property[field]]]

(* A name, a question mark or not, and a suffix or not: the object         *)
(* notation that says the same.                                            *)
WellFormed(marks) ==
  \E name \in Names, t \in DOMAIN Suffix :
    marks \in {<<name>>, <<name, "?">>, <<name, t>>, <<name, "?", t>>}

Spelled(marks) ==
  LET name == IF marks[1] = "counter" THEN "int" ELSE marks[1]
      plain == IF name \in Classes THEN "object" ELSE name
  IN [type |-> IF HasSuffix(marks) THEN Suffix[Last(marks)] ELSE plain,
      objectType |-> IF HasSuffix(marks) \/ name \in Classes THEN name ELSE Missing,
      presentation |-> IF marks[1] = "counter" THEN "counter" ELSE Missing,
      optional |-> IF Contains(marks, "?") THEN TRUE ELSE Missing,
      property |-> Missing, indexed |-> Missing, vector |-> Missing, mapTo |-> Missing,
      default |-> Missing]

----------------------------------------------------------------------------
(* Properties                                                              *)

(* A schema that has been accepted and stored comes back from the engine   *)
(* as the canonical form of what was declared, and a Barq can be opened    *)
(* with it again.  Excepted are a counter that is the primary key, which   *)
(* the shorthand lets pass and the object notation does not, and a model   *)
(* both embedded and asymmetric, which is stored as embedded.              *)
SchemaReadsBack ==
  LET canonical == NormalizeObject(declaration)
  IN (canonical # Rejected /\ EngineTakes(ToBindingObject(canonical))
        /\ ~(canonical.embedded /\ canonical.asymmetric)) =>
       /\ SchemaOf(canonical) = canonical
       /\ (canonical.property.presentation = "counter" => canonical.primaryKey = Missing) =>
            NormalizeObject(AsDeclaration(SchemaOf(canonical))) = canonical

(* A shorthand means what the object notation spells out, and is rejected  *)
(* where that is; excepted is the counter that is the primary key.         *)
ShorthandIsSpelledOut ==
  LET isPrimaryKey == declaration.primaryKey = PropertyName
  IN (/\ declaration.notation = "shorthand"
      /\ WellFormed(declaration.property)
      /\ ~(isPrimaryKey /\ declaration.property[1] = "counter")) =>
       NormalizeShorthand(declaration.property, isPrimaryKey) =
         NormalizeProperty(Spelled(declaration.property), isPrimaryKey)

(* However it is written, a model is stored as what it means (normalize.ts,*)
(* to-binding.ts, from-binding.ts).                                        *)
SchemaIsKept == SchemaReadsBack /\ ShorthandIsSpelledOut

(* "Ensure the primary property is marked accordingly" (to-binding.ts:72). *)
PrimaryPropertyIsMarked ==
  LET canonical == NormalizeObject(declaration)
  IN canonical # Rejected /\ canonical.primaryKey # Missing => ToBindingObject(canonical).isPrimary

(* "all required fields have the default value for the given data type"    *)
(* (Barq.ts:319).                                                          *)
TemplateFillsRequired ==
  LET canonical == NormalizeObject(declaration)
  IN (canonical # Rejected /\ ~canonical.property.optional
        /\ canonical.property.type \in Primitives) => TemplateValue(canonical.property) # Missing
=============================================================================
