------------------------------- MODULE MCData -------------------------------
(***************************************************************************)
(* Small instances of the parts of one Barq in its JavaScript thread.  A   *)
(* behaviour looks at one of them.  Of the collections and the objects it  *)
(* looks at one call: what a call does depends only on what it is made on, *)
(* and every content within the bounds is an initial one.  Of the graphs   *)
(* it looks at one, without a step.                                        *)
(***************************************************************************)
EXTENDS Collections, Objects, BarqInstance, Reads, Serialization, ClassMaps

CONSTANTS PartsToCheck

VARIABLE part

vars == <<part, collectionVars, objectVars, barqVars, readVars, graph,
          transactionVars, classMapVars>>

(* Values are alike: one of them is enough as a default.                   *)
MCSchemas ==
  LET value == CHOOSE v \in Amounts : TRUE
      orders == {<<"value", "link">>, <<"link", "value">>}
  IN {s \in [order : orders, default : {value, NotGiven, "creates"}, counter : BOOLEAN] :
        s.counter => s.order = <<"value", "link">>}

NoCollection ==
  /\ kind = "set"
  /\ content = SetOf({})
  /\ last = [op |-> "none", args |-> <<>>, from |-> content, threw |-> FALSE, returned |-> Undefined]

NoObjects ==
  /\ schema = CHOOSE s \in Schemas : TRUE
  /\ objects = [id \in Ids |-> Gone]
  /\ did = Idle

NoBarq ==
  /\ declared = <<>> /\ internalSchema = <<>> /\ schemaExtras = <<>> /\ classes = <<>>
  /\ listeners = [key \in Events \cup Holders |-> <<>>]
  /\ rounds = <<>> /\ ended = NoRound
  /\ open = FALSE /\ inTransaction = FALSE /\ operations = 0

(* A class of each kind: two that link to the second, and two that are not *)
(* looked up.                                                              *)
MCTables == {"A", "B", "Embedded", "Asymmetric"}
MCTableType ==
  [t \in MCTables |-> CASE t = "Embedded" -> "Embedded" [] t = "Asymmetric" -> "TopLevelAsymmetric"
                        [] OTHER -> "TopLevel"]
MCPrimaryKeyed == {"A", "Asymmetric"}
MCLinksTo == [t \in MCTables |-> "B"]

(* Two models that may link to each other, in any order; the classes of an *)
(* application declare the first.                                          *)
MCModelNames == {"A", "B"}
MCSchemaOf == [class \in OwnClasses |-> "A"]
MCTableKeyOf == [name \in MCModelNames |-> IF name = "A" THEN 1 ELSE 2]

MCObjectSchemas ==
  LET property(collection, item, target) ==
        [collection |-> collection, item |-> item, objectType |-> target]
      links(target) == {<<property("none", "int", "none")>>,
                        <<property("list", "linkingObjects", target)>>,
                        <<property("none", "object", target), property("set", "string", "none")>>}
  IN [name : {"A"}, ctor : OwnClasses \cup {BarqObject}, tableType : {"TopLevel"},
      properties : links("B")]
       \cup [name : {"B"}, ctor : {BarqObject}, tableType : {"TopLevel", "Embedded"},
             properties : links("A")]

NoClassMaps == modelsOf = <<>> /\ maps = <<>> /\ wrappers = {}

NoReads ==
  /\ type = "none" /\ entries = <<>>
  /\ walks = [w \in Walkers |-> NotWalking] /\ changes = 0

(* Three objects, two of which have the same key in different tables: the  *)
(* first with a property and a list of up to two, the others of up to one. *)
Entity(table, id) == [table |-> table, key |-> id]
MCEntities == {Entity("A", 1), Entity("A", 2), Entity("B", 1)}
MCRoot == Entity("A", 1)

MCGraphs ==
  LET link(o) == [is |-> "link", to |-> o]
      collection(items) == [is |-> "collection", items |-> items]
      links == {link(o) : o \in MCEntities}
      elements == links \cup {collection(<<link(MCRoot)>>)}
      holding(size) ==
        {<<first, collection(items)>> :
           first \in links \cup {[is |-> "plain"]}, items \in UNION {[1..n -> elements] : n \in 0..size}}
  IN {g \in [MCEntities -> holding(2)] : \A o \in MCEntities \ {MCRoot} : g[o] \in holding(1)}

Init ==
  /\ part \in PartsToCheck
  /\ IF part = "collections" THEN CollectionsInit ELSE NoCollection
  /\ IF part = "objects" THEN ObjectsInit ELSE NoObjects
  /\ IF part = "barq" THEN BarqInit ELSE NoBarq
  /\ IF part = "reads" THEN ReadsInit ELSE NoReads
  /\ TransactionsInit
  /\ IF part = "classes" THEN ClassMapsInit ELSE NoClassMaps
  /\ IF part = "json" THEN graph \in Graphs ELSE graph = <<>>

Next ==
  /\ UNCHANGED <<part, graph>>
  /\ \/ /\ part = "collections" /\ CollectionsNext
        /\ UNCHANGED <<objectVars, barqVars, readVars, transactionVars, classMapVars>>
     \/ /\ part = "objects" /\ ObjectsNext
        /\ UNCHANGED <<collectionVars, barqVars, readVars, transactionVars, classMapVars>>
     \/ /\ part = "barq" /\ BarqNext
        /\ UNCHANGED <<collectionVars, objectVars, readVars, transactionVars, classMapVars>>
     \/ /\ part = "reads" /\ ReadsNext
        /\ UNCHANGED <<collectionVars, objectVars, barqVars, transactionVars, classMapVars>>
     \/ /\ part = "transactions" /\ TransactionsNext
        /\ UNCHANGED <<collectionVars, objectVars, barqVars, readVars, classMapVars>>
     \/ /\ part = "classes" /\ ClassMapsNext
        /\ UNCHANGED <<collectionVars, objectVars, barqVars, readVars, transactionVars>>

Spec == Init /\ [][Next]_vars

MCSymmetry == Permutations(Models) \cup Permutations(Callbacks)
=============================================================================
