----------------------------- MODULE ClassMaps ------------------------------
(***************************************************************************)
(* ClassMap, PropertyMap and PropertyHelpers: the classes a Barq makes of  *)
(* its schema, and the ways to name one of them in a call: by name, by the *)
(* key of its table, by an object, or by a class.                          *)
(*                                                                         *)
(* Each change of the schema makes a new map with new classes.  An         *)
(* application goes on using what it has: the objects and the classes it   *)
(* got from earlier maps, and its own classes, several of which may        *)
(* declare the same model.  A class that was made for a map extends the    *)
(* application's class, if there is one, and has its static schema.        *)
(*                                                                         *)
(* BarqInstance has the class map of a Barq as a whole, with what changes  *)
(* it; this module has what is in one.                                     *)
(*                                                                         *)
(* External: table keys are those of the engine and stay.                  *)
(***************************************************************************)
EXTENDS BarqInstance

CONSTANTS
  ModelNames,
  OwnClasses,       \* classes of the application, each with a static schema
  BarqObject,       \* what a class extends otherwise
  SchemaOf,         \* [OwnClasses -> ModelNames], the names in the static schemas
  TableKeyOf,       \* the engine's key of the table of each model
  ObjectSchemas,    \* the models looked at: [name, ctor, tableType, properties],
                    \* where ctor is an own class, or BarqObject if none was given
  MaxMaps,          \* bounds the changes of the schema
  MaxWrappers       \* bounds the objects the application has

ASSUME ClassMapsAssumption ==
  /\ BarqObject \notin OwnClasses
  /\ SchemaOf \in [OwnClasses -> ModelNames]
  /\ DOMAIN TableKeyOf = ModelNames
  /\ \A m, n \in ModelNames : TableKeyOf[m] = TableKeyOf[n] => m = n
  /\ \A model \in ObjectSchemas :
       /\ model.name \in ModelNames /\ model.ctor \in OwnClasses \cup {BarqObject}
       /\ \A p \in DOMAIN model.properties :   \* links from elsewhere are a list
            /\ model.properties[p].collection # "linkingObjects"
            /\ model.properties[p].item = "linkingObjects" => model.properties[p].collection = "list"
  /\ MaxMaps \in Nat \ {0} /\ MaxWrappers \in Nat

VARIABLES
  modelsOf,         \* the schema of each map so far, in the engine's order
  maps,             \* the maps: [name -> class]
  wrappers          \* the classes of the objects the application has

classMapVars == <<modelsOf, maps, wrappers>>

Refusal == [is |-> "refusal"]     \* an exception
NamesIn(models) == {models[i].name : i \in DOMAIN models}
ModelOf(models, name) == models[CHOOSE i \in DOMAIN models : models[i].name = name]

(* What a class map knows of a property; linking objects are a list.       *)
AccessorOf(property) ==
  IF property.collection # "none" THEN property.collection
  ELSE IF property.item \in {"int", "object", "mixed", "linkingObjects"} THEN property.item
  ELSE "default"

CreatePropertyHelpers(property, embedded) ==
  [accessor |-> AccessorOf(property), embedded |-> embedded, objectType |-> property.objectType]

(* PropertyMap.initialize() asks for the helpers of the linked class, which*)
(* it finds if that class has been made.                                   *)
InitializedFrom(made, model) ==
  [p \in DOMAIN model.properties |->
    LET property == model.properties[p] IN
      IF property.objectType = "none" THEN CreatePropertyHelpers(property, FALSE)
      ELSE IF property.objectType \in NamesIn(made)
      THEN CreatePropertyHelpers(property, ModelOf(made, property.objectType).tableType = "Embedded")
      ELSE Refusal]

CreateClass(model, n) ==
  [is |-> "class", name |-> model.name, map |-> n, extends |-> model.ctor]

\* Mutated FoundBy: the classes and their properties are made in one pass.
FoundSoFar(models, i) == SubSeq(models, 1, i)

(* All classes have been made before the first property map is initialized.*)
FoundBy(models, i) == models

NewMap(models, n) ==
  [name \in NamesIn(models) |->
    LET i == CHOOSE i \in DOMAIN models : models[i].name = name IN
      [class |-> CreateClass(models[i], n),
       properties |-> InitializedFrom(FoundBy(models, i), models[i])]]

Current == maps[Len(maps)]
NameByTableKey == [key \in {TableKeyOf[name] : name \in DOMAIN Current} |->
                     CHOOSE name \in DOMAIN Current : TableKeyOf[name] = key]

GetByName(name) == IF name \in DOMAIN Current THEN Current[name].class ELSE Refusal

GetByTableKey(key) ==
  IF key \in DOMAIN NameByTableKey THEN GetByName(NameByTableKey[key]) ELSE Refusal

GetByObject(class) == GetByName(class.name)

(* The static schema of a class: its own, or that of the class it extends. *)
StaticSchema(class) ==
  LET own == IF class \in OwnClasses THEN class ELSE class.extends IN
    IF own \in OwnClasses THEN SchemaOf[own] ELSE "none"

\* Mutated Registered: any class with the name of a model will do.
AnyNamed(result, class) == result # Refusal

Registered(result, class) == result = class \/ (result # Refusal /\ result.extends = class)

GetByClass(class) ==
  LET result == GetByName(StaticSchema(class)) IN
    IF Registered(result, class) THEN result ELSE Refusal

(* Every sequence of models that may be one schema: names are distinct and *)
(* links go to models in it.                                               *)
BarqSchemas ==
  {models \in UNION {[1..n -> ObjectSchemas] : n \in 1..Cardinality(ModelNames)} :
    /\ \A i, j \in DOMAIN models : models[i].name = models[j].name => i = j
    /\ \A i \in DOMAIN models :
         models[i].ctor # BarqObject => SchemaOf[models[i].ctor] = models[i].name
    /\ \A i \in DOMAIN models : \A p \in DOMAIN models[i].properties :
         models[i].properties[p].objectType \in NamesIn(models) \cup {"none"}}

ClassMapsInit ==
  /\ \E models \in BarqSchemas : modelsOf = <<models>>
  /\ maps = <<NewMap(modelsOf[1], 1)>>
  /\ wrappers = {}

(* A migration or another process has changed the schema.                  *)
SchemaChanges ==
  /\ Len(maps) < MaxMaps
  /\ \E models \in BarqSchemas :
       /\ modelsOf' = Append(modelsOf, models)
       /\ maps' = Append(maps, NewMap(models, Len(maps) + 1))
  /\ UNCHANGED wrappers

(* wrapObject of a class of the map.                                       *)
WrapObject(name) ==
  /\ name \in DOMAIN Current
  /\ Cardinality(wrappers) < MaxWrappers
  /\ wrappers' = wrappers \cup {Current[name].class}
  /\ UNCHANGED <<modelsOf, maps>>

ClassMapsNext ==
  \/ SchemaChanges
  \/ \E name \in ModelNames : WrapObject(name)

ClassMapsSpec == ClassMapsInit /\ [][ClassMapsNext]_classMapVars

-----------------------------------------------------------------------------
ClassesMade == UNION {{maps[n][name].class : name \in DOMAIN maps[n]} : n \in DOMAIN maps}

(* Whatever an application has kept from earlier maps, a class it names    *)
(* stands for itself or for a class made of it: what it is given are       *)
(* instances of the class it named.  An object stands for the class its    *)
(* model has now, the same that the name and the table give.  And whatever *)
(* the order of the models and the cycles of their links, each property    *)
(* knows whether its target is embedded (ClassMap.ts:104-181).             *)
LookupsFindOwn ==
  /\ \A class \in OwnClasses \cup ClassesMade : GetByClass(class) # Refusal =>
       /\ GetByClass(class).map = Len(maps)
       /\ class \in {GetByClass(class), GetByClass(class).extends}
  /\ \A class \in wrappers :
       /\ GetByObject(class) = GetByTableKey(TableKeyOf[class.name])
       /\ GetByObject(class) = Refusal <=> class.name \notin NamesIn(Last(modelsOf))
  /\ LET models == Last(modelsOf) IN
       \A i \in DOMAIN models : \A p \in DOMAIN models[i].properties :
         LET helpers == Current[models[i].name].properties[p]
             target == models[i].properties[p].objectType IN
           /\ helpers # Refusal
           /\ helpers.accessor # "linkingObjects"
           /\ target # "none" => helpers.embedded = (ModelOf(models, target).tableType = "Embedded")

(* The classes are those of the schema (Barq.ts:613, ClassMap.ts): with    *)
(* its properties and their defaults, and found however they are named.    *)
ClassesFollowSchema == ClassesAreOfSchema /\ (maps # <<>> => LookupsFindOwn)
=============================================================================
