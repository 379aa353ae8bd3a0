---------------------------- MODULE Serialization ----------------------------
(***************************************************************************)
(* toJSON() of an object: a graph of plain objects, made depth first with  *)
(* a cache, which is what ends the walk where links go round.              *)
(*                                                                         *)
(* A value is [is |-> "plain"], [is |-> "link", to |-> an object] or       *)
(* [is |-> "collection", items |-> values]; a collection that is an item   *)
(* is nested.  An object is [table, key], and graph gives the values of    *)
(* its properties.  In the result a link is [is |-> "node", at |-> i].     *)
(***************************************************************************)
EXTENDS Integers, Sequences, SequencesExt, FiniteSets, TLC

CONSTANTS
  Entities,     \* objects
  Root,         \* the object that is serialized
  Graphs        \* what they may hold

VARIABLE
  graph         \* of each object: the values of its properties

Node(i) == [is |-> "node", at |-> i]

\* Mutated CacheKey: the keys of two tables are taken for one.
ObjectKeyOnly(object) == <<object.key>>

CacheKey(object) == <<object.table, object.key>>

RECURSIVE ToJson(_, _)

(* The values one by one, those of the given kinds converted with the same *)
(* cache, the others left as they are.                                     *)
EachToJson(values, kinds, state) ==
  FoldLeft(LAMBDA done, value :
             IF value.is \notin kinds THEN [done EXCEPT !.out = Append(@, value)]
             ELSE LET made == ToJson(value, done.state)
                  IN [state |-> made.state, out |-> Append(done.out, made.out)],
           [state |-> state, out |-> <<>>], values)

(* An object is in the cache before its properties are walked.             *)
ObjectToJson(object, state) ==
  LET i == Len(state.nodes) + 1
      begun == [nodes |-> Append(state.nodes, <<>>), cache |-> state.cache @@ (CacheKey(object) :> i)]
      walked == EachToJson(graph[object], {"link", "collection"}, begun)
  IN IF CacheKey(object) \in DOMAIN state.cache
     THEN [state |-> state, out |-> Node(state.cache[CacheKey(object)])]
     ELSE [state |-> [walked.state EXCEPT !.nodes[i] = walked.out], out |-> Node(i)]

(* Of the items of a collection only objects are converted.                *)
CollectionToJson(items, state) ==
  LET walked == EachToJson(items, {"link"}, state)
  IN [state |-> walked.state, out |-> [is |-> "collection", items |-> walked.out]]

ToJson(value, state) ==
  IF value.is = "link" THEN ObjectToJson(value.to, state) ELSE CollectionToJson(value.items, state)

NothingYet == [nodes |-> <<>>, cache |-> <<>>]

-----------------------------------------------------------------------------
LinksOf(object) ==
  LET values == ToSet(graph[object])
      items == UNION {ToSet(v.items) : v \in {v \in values : v.is = "collection"}}
  IN {v.to : v \in {v \in values \cup items : v.is = "link"}}

RECURSIVE LinkedFrom(_)
LinkedFrom(objects) ==
  LET next == objects \cup UNION {LinksOf(o) : o \in objects}
  IN IF next = objects THEN objects ELSE LinkedFrom(next)

(* What toJSON() returns mirrors what the object links to: one plain       *)
(* object for each object, however many ways lead to it and however they   *)
(* go round, and none for two.  (Nested collections are left as they are.) *)
JsonMirrorsGraph ==
  LET nodes == ObjectToJson(Root, NothingYet).state.nodes
      reached == LinkedFrom({Root})
      mirrored(value, at) == IF value.is = "link" THEN Node(at[value.to]) ELSE value
      mirror(value, at) ==
        IF value.is = "collection"
        THEN [value EXCEPT !.items = [j \in DOMAIN @ |-> mirrored(@[j], at)]]
        ELSE mirrored(value, at)
  IN graph # <<>> => \E at \in [reached -> DOMAIN nodes] :
       /\ at[Root] = 1
       /\ {at[o] : o \in reached} = DOMAIN nodes
       /\ Cardinality(reached) = Len(nodes)
       /\ \A o \in reached :
            nodes[at[o]] = [p \in DOMAIN graph[o] |-> mirror(graph[o][p], at)]
=============================================================================
