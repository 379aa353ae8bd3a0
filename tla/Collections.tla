---------------------------- MODULE Collections -----------------------------
(***************************************************************************)
(* The collections of one object inside a write transaction: a list, a     *)
(* set, a dictionary and a mixed property, as List, BarqSet and Dictionary *)
(* change them and as the property accessors assign them.  Most methods    *)
(* make several calls of the engine, one per element, and a value that     *)
(* cannot be stored throws after the elements before it are in.  A list    *)
(* or a dictionary in a mixed property is filled level by level.           *)
(*                                                                         *)
(* Values are what the application passes: an element, an array, a plain   *)
(* object (whose keys have an order), or the property's own collection.    *)
(* External: List.insertAny, removeAny and so on act on one element.       *)
(* What is given is nested two levels deep: a collection in a collection,  *)
(* whose elements are none.                                                *)
(* Not modelled: embedded objects, conversions of elements.                *)
(***************************************************************************)
EXTENDS Integers, Sequences, SequencesExt

CONSTANTS
  Values,       \* elements that any collection can hold
  Bad,          \* a value whose conversion throws
  Own,          \* the wrapper of the collection that is changed
  Undefined,    \* what pop() and shift() of an empty list return
  Keys,         \* keys of dictionaries
  Kinds,        \* the properties: a subset of AllKinds
  MaxLength,    \* longest list a call is made on
  MaxGiven,     \* most elements an assignment is given, and a list of mixed holds
  MaxNested     \* most of a collection in another, and that a list of mixed is given

AllKinds == {"list", "mixedList", "set", "dictionary", "mixedDictionary", "mixed"}

ASSUME CollectionsAssumption ==
  /\ Kinds \subseteq AllKinds
  /\ Bad \notin Values /\ Undefined \notin Int
  /\ {MaxLength, MaxGiven, MaxNested} \subseteq Nat

VARIABLES
  kind,         \* the property this behaviour looks at
  content,      \* what it holds
  last          \* the last call, what it was made on and how it ended

collectionVars == <<kind, content, last>>

----------------------------------------------------------------------------
(* Values.  An array is a ListOf, a plain object an ObjectOf; the engine    *)
(* keeps the former as it is and the latter without the order of its keys. *)

ListOf(items) == [type |-> "list", items |-> items]
ObjectOf(pairs) == [type |-> "object", pairs |-> pairs]
DictionaryOf(entries) == [type |-> "dictionary", entries |-> entries]
SetOf(members) == [type |-> "set", members |-> members]

NoEntries == [k \in {} |-> Undefined]

HasType(v, type) ==
  /\ v \notin Values \cup {Bad, Own, Undefined}
  /\ v.type = type

IsJsOrBarqList(v) == HasType(v, "list")
IsJsOrBarqDictionary(v) == HasType(v, "object")

IsMixed == kind \in {"mixedList", "mixedDictionary", "mixed"}

Without(entries, keys) ==
  [k \in DOMAIN entries \ keys |-> entries[k]]

(* What a call leaves behind: the content, and whether it threw.           *)
Left(into, threw) == [into |-> into, threw |-> threw]

(* What a new slot keeps of an element: one that cannot be converted is    *)
(* not put at all.                                                         *)
Leaf(v) == [kept |-> IF v \in Values THEN <<v>> ELSE <<>>, threw |-> v \notin Values]
Leaves(items) == [i \in DOMAIN items |-> Leaf(items[i])]

(* insert(internal, index, item) for each of the items, counting from 0.   *)
InsertOne(left, position, slot) ==
  IF left.threw THEN left
  ELSE IF position < 1 THEN Left(left.into, TRUE)
  ELSE Left(IF slot.kept = <<>> THEN left.into ELSE InsertAt(left.into, position, slot.kept[1]),
            slot.threw)

InsertEach(s, start, slots) ==
  LET after[n \in 0..Len(slots)] ==
        IF n = 0 THEN Left(s, FALSE) ELSE InsertOne(after[n - 1], start + n, slots[n])
  IN after[Len(slots)]

(* set(internal, key, value) for each of the pairs.                        *)
Put(entries, key, v) ==
  [k \in DOMAIN entries \cup {key} |-> IF k = key THEN v ELSE entries[k]]

SetOne(left, key, slot) ==
  IF left.threw THEN left
  ELSE Left(IF slot.kept = <<>> THEN left.into ELSE Put(left.into, key, slot.kept[1]), slot.threw)

SetEntries(entries, pairs, slots) ==
  LET after[n \in 0..Len(pairs)] ==
        IF n = 0 THEN Left(entries, FALSE) ELSE SetOne(after[n - 1], pairs[n][1], slots[n])
  IN after[Len(pairs)]

(* A nested collection is put in its slot before it is filled.             *)
ValuesOf(pairs) == [i \in DOMAIN pairs |-> pairs[i][2]]

InsertIntoListOfMixed(slots) ==
  LET left == InsertEach(<<>>, 0, slots)
  IN [kept |-> <<ListOf(left.into)>>, threw |-> left.threw]

InsertIntoDictionaryOfMixed(pairs, slots) ==
  LET left == SetEntries(NoEntries, pairs, slots)
  IN [kept |-> <<DictionaryOf(left.into)>>, threw |-> left.threw]

Slot(v) ==
  IF IsMixed /\ IsJsOrBarqList(v) THEN InsertIntoListOfMixed(Leaves(v.items))
  ELSE IF IsMixed /\ IsJsOrBarqDictionary(v)
  THEN InsertIntoDictionaryOfMixed(v.pairs, Leaves(ValuesOf(v.pairs)))
  ELSE Leaf(v)

Slots(items) == [i \in DOMAIN items |-> Slot(items[i])]

----------------------------------------------------------------------------
(* Calls                                                                   *)

Answer(op, args, left, returned) ==
  /\ content' = left.into
  /\ last' = [op |-> op, args |-> args, from |-> content,
              threw |-> left.threw, returned |-> returned]
  /\ UNCHANGED kind

List == content.items
OnList(left) == Left(ListOf(left.into), left.threw)

OnAList == kind \in {"list", "mixedList"}

Push(items) ==
  /\ OnAList
  /\ LET left == InsertEach(List, Len(List), Slots(items))
     IN Answer("push", <<items>>, OnList(left), Len(left.into))

Unshift(items) ==
  /\ OnAList
  /\ LET left == InsertEach(List, 0, Slots(items))
     IN Answer("unshift", <<items>>, OnList(left), Len(left.into))

Pop ==
  /\ OnAList
  /\ IF List = <<>> THEN Answer("pop", <<>>, Left(content, FALSE), Undefined)
     ELSE Answer("pop", <<>>, Left(ListOf(Front(List)), FALSE), List[Len(List)])

Shift ==
  /\ OnAList
  /\ IF List = <<>> THEN Answer("shift", <<>>, Left(content, FALSE), Undefined)
     ELSE Answer("shift", <<>>, Left(ListOf(Tail(List)), FALSE), List[1])

(* start and end as splice() computes them.                                *)
SpliceStart(s, start) ==
  LET counted == IF start < 0 THEN Len(s) + start ELSE start
  IN IF counted > Len(s) THEN Len(s) ELSE counted

SpliceEnd(s, start, deleteCount) ==
  IF deleteCount = Undefined \/ start + deleteCount > Len(s) THEN Len(s)
  ELSE start + deleteCount

(* The elements from end - 1 down to start are removed one by one.         *)
Removals(start, end) == IF end > start THEN end - start ELSE 0

RemoveForwards(s, start, end) ==
  LET after[n \in 0..Removals(start, end)] ==
        IF n = 0 THEN s
        ELSE IF start + n <= Len(after[n - 1]) THEN RemoveAt(after[n - 1], start + n)
        ELSE after[n - 1]
  IN after[Removals(start, end)]

RemoveBackwards(s, start, end) ==
  LET after[n \in 0..Removals(start, end)] ==
        IF n = 0 THEN s ELSE RemoveAt(after[n - 1], end - n + 1)
  IN after[Removals(start, end)]

Splice(start, deleteCount, items) ==
  /\ OnAList
  /\ LET first == SpliceStart(List, start)
         end == SpliceEnd(List, first, deleteCount)
         left == InsertEach(RemoveBackwards(List, first, end), first, Slots(items))
     IN IF first < 0 /\ first < end      \* get(start) throws
        THEN Answer("splice", <<start, deleteCount, items>>, Left(content, TRUE), <<>>)
        ELSE Answer("splice", <<start, deleteCount, items>>, OnList(left),
                    SubSeq(List, first + 1, end))

InRange(index) == index \in 0..(Len(List) - 1)

RemoveIndex(index) ==
  /\ OnAList
  /\ LET left == IF InRange(index) THEN Left(ListOf(RemoveAt(List, index + 1)), FALSE)
                 ELSE Left(content, TRUE)
     IN Answer("remove", <<index>>, left, Undefined)

Move(from, to) ==
  /\ OnAList
  /\ LET left == IF InRange(from) /\ InRange(to)
                 THEN Left(ListOf(InsertAt(RemoveAt(List, from + 1), to + 1, List[from + 1])), FALSE)
                 ELSE Left(content, TRUE)
     IN Answer("move", <<from, to>>, left, Undefined)

Swap(index1, index2) ==
  /\ OnAList
  /\ LET left == IF InRange(index1) /\ InRange(index2)
                 THEN Left(ListOf([List EXCEPT ![index1 + 1] = List[index2 + 1],
                                               ![index2 + 1] = List[index1 + 1]]), FALSE)
                 ELSE Left(content, TRUE)
     IN Answer("swap", <<index1, index2>>, left, Undefined)

(* list[index] = v.  setCollection() replaces the element before the       *)
(* nested collection is filled.                                            *)
SetIndex(index, v) ==
  /\ OnAList
  /\ LET slot == Slot(v)
         left == IF InRange(index) /\ slot.kept # <<>>
                 THEN Left(ListOf([List EXCEPT ![index + 1] = slot.kept[1]]), slot.threw)
                 ELSE Left(content, TRUE)
     IN Answer("set", <<index, v>>, left, Undefined)

(* object.list = values.  The list itself is replaced by a snapshot before *)
(* removeAll().                                                            *)
ListSnapshot(values) == IF values = Own THEN List ELSE values.items

AssignList(values) ==
  /\ OnAList
  /\ IF values = Own \/ IsJsOrBarqList(values)
     THEN Answer("assign", <<values>>, OnList(InsertEach(<<>>, 0, Slots(ListSnapshot(values)))), Undefined)
     ELSE Answer("assign", <<values>>, Left(content, TRUE), Undefined)

----------------------------------------------------------------------------
(* Sets                                                                    *)

InsertMember(left, v) ==
  IF left.threw \/ v \notin Values THEN Left(left.into, TRUE) ELSE Left(left.into \cup {v}, FALSE)

InsertMembers(members, items) ==
  LET after[n \in 0..Len(items)] ==
        IF n = 0 THEN Left(members, FALSE) ELSE InsertMember(after[n - 1], items[n])
  IN after[Len(items)]

OnSet(left) == Left(SetOf(left.into), left.threw)

SetAdd(v) ==
  /\ kind = "set"
  /\ Answer("add", <<v>>, OnSet(InsertMembers(content.members, <<v>>)), Own)

SetDelete(v) ==
  /\ kind = "set"
  /\ Answer("delete", <<v>>, OnSet(Left(content.members \ {v}, v = Bad)), v \in content.members)

SetClear ==
  /\ kind = "set"
  /\ Answer("clear", <<>>, Left(SetOf({}), FALSE), Undefined)

(* object.set = values: the set is emptied first, even if values turns out *)
(* to be no array, as the set itself is none.                              *)
AssignSet(values) ==
  /\ kind = "set"
  /\ LET left == IF IsJsOrBarqList(values) THEN InsertMembers({}, values.items)
                 ELSE Left({}, TRUE)
     IN Answer("assign", <<values>>, OnSet(left), Undefined)

----------------------------------------------------------------------------
(* Dictionaries                                                            *)

OnADictionary == kind \in {"dictionary", "mixedDictionary"}

OnDictionary(left) == Left(DictionaryOf(left.into), left.threw)

(* set(elements), set(key, value) and dictionary.key = value.              *)
DictionarySet(pairs) ==
  /\ OnADictionary
  /\ Answer("set", <<ObjectOf(pairs)>>, OnDictionary(SetEntries(content.entries, pairs, Slots(ValuesOf(pairs)))), Own)

(* remove(key), remove(keys) and delete dictionary.key.                    *)
DictionaryRemove(keys) ==
  /\ OnADictionary
  /\ Answer("remove", <<keys>>, Left(DictionaryOf(Without(content.entries, keys)), FALSE), Own)

(* object.dictionary = value: it is emptied before the value is looked at, *)
(* which is why the dictionary itself has no entries left to give.         *)
PairsAfterRemoveAll(value) == IF value = Own THEN <<>> ELSE value.pairs

KeepEntries(entries) == entries
RemoveAllEntries(entries) == NoEntries

AssignDictionary(value) ==
  /\ OnADictionary
  /\ LET left == IF value = Own \/ IsJsOrBarqDictionary(value)
                 THEN LET pairs == PairsAfterRemoveAll(value)
                      IN SetEntries(RemoveAllEntries(content.entries), pairs, Slots(ValuesOf(pairs)))
                 ELSE Left(RemoveAllEntries(content.entries), TRUE)
     IN Answer("assign", <<value>>, OnDictionary(left), Undefined)

----------------------------------------------------------------------------
(* Mixed properties                                                        *)

MixedSlot(v) ==
  IF IsJsOrBarqList(v) THEN InsertIntoListOfMixed(Slots(v.items))
  ELSE IF IsJsOrBarqDictionary(v)
  THEN InsertIntoDictionaryOfMixed(v.pairs, Slots(ValuesOf(v.pairs)))
  ELSE Leaf(v)

(* object.mixed = value.  The collection the property holds is emptied by  *)
(* setCollection() and removeAll() before its own wrapper is read.         *)
AssignMixed(value) ==
  /\ kind = "mixed"
  /\ LET slot == MixedSlot(value)
         emptied == IF HasType(content, "list") THEN ListOf(<<>>) ELSE DictionaryOf(NoEntries)
     IN \/ /\ value # Own
           /\ Answer("assign", <<value>>,
                     Left(IF slot.kept = <<>> THEN content ELSE slot.kept[1], slot.threw), Undefined)
        \/ /\ value = Own
           /\ HasType(content, "list") \/ HasType(content, "dictionary")
           /\ Answer("assign", <<value>>, Left(emptied, FALSE), Undefined)

----------------------------------------------------------------------------
(* What a value reads back as, and what may be stored.                     *)

EntriesOf(pairs, values) ==
  [k \in {pairs[i][1] : i \in DOMAIN pairs} |->
     values[CHOOSE i \in DOMAIN pairs : pairs[i][1] = k]]

ReadLeaves(v) ==
  IF IsJsOrBarqList(v) THEN ListOf(v.items)
  ELSE IF IsJsOrBarqDictionary(v) THEN DictionaryOf(EntriesOf(v.pairs, ValuesOf(v.pairs)))
  ELSE v

Row(items) == [i \in DOMAIN items |-> ReadLeaves(items[i])]

ReadBack(v) ==
  IF IsJsOrBarqList(v) THEN ListOf(Row(v.items))
  ELSE IF IsJsOrBarqDictionary(v) THEN DictionaryOf(EntriesOf(v.pairs, Row(ValuesOf(v.pairs))))
  ELSE v

IsStorable(v) ==
  CASE HasType(v, "list") -> ToSet(v.items) \subseteq Values
    [] HasType(v, "dictionary") -> \A k \in DOMAIN v.entries : v.entries[k] \in Values
    [] OTHER -> v \in Values

HoldsStorable(v) ==
  CASE HasType(v, "list") -> \A i \in DOMAIN v.items : IsStorable(v.items[i])
    [] HasType(v, "dictionary") -> \A k \in DOMAIN v.entries : IsStorable(v.entries[k])
    [] HasType(v, "set") -> v.members \subseteq Values
    [] OTHER -> v \in Values

----------------------------------------------------------------------------
(* The calls the checks make                                               *)

Items == Values \cup {Bad}

HasDistinctKeys(pairs) == \A i, j \in DOMAIN pairs : i # j => pairs[i][1] # pairs[j][1]

ListsOf(elements, size) == {ListOf(s) : s \in BoundedSeq(elements, size)}
PlainOf(elements, size) ==
  {ObjectOf(s) : s \in {p \in BoundedSeq(Keys \X elements, size) : HasDistinctKeys(p)}}

Nested == ListsOf(Items, MaxNested) \cup PlainOf(Items, MaxNested)

Elements == IF IsMixed THEN Items \cup Nested ELSE Items
Rows == BoundedSeq(Elements, IF IsMixed THEN MaxNested ELSE MaxGiven)
Arrays == ListsOf(Elements, MaxGiven)
PlainObjects == PlainOf(Elements, MaxGiven)

ASSUME NestedAssumption ==
  \A v \in ListsOf(Items \cup Nested, MaxGiven) \cup PlainOf(Items \cup Nested, MaxGiven) \cup Nested :
    v \notin Values \cup {Bad, Own, Undefined}
Indexes == -(MaxLength + 1)..(MaxLength + 1)

(* What each kind of property may hold, with elements of one level.        *)
Stored == Values \cup {v \in {ReadLeaves(n) : n \in Nested} : IsStorable(v)}

Contents(k) ==
  CASE k = "list" -> {ListOf(s) : s \in BoundedSeq(Values, MaxLength)}
    [] k = "mixedList" -> {ListOf(s) : s \in BoundedSeq(Stored, MaxGiven)}
    [] k = "set" -> {SetOf(s) : s \in SUBSET Values}
    [] k = "dictionary" -> {DictionaryOf(f) : f \in UNION {[ks -> Values] : ks \in SUBSET Keys}}
    [] k = "mixedDictionary" -> {DictionaryOf(f) : f \in UNION {[ks -> Stored] : ks \in SUBSET Keys}}
    [] k = "mixed" -> Stored

(* One call, on any content: what a call does depends on nothing else.     *)
CollectionsInit ==
  /\ kind \in Kinds
  /\ content \in Contents(kind)
  /\ last = [op |-> "none", args |-> <<>>, from |-> content, threw |-> FALSE, returned |-> Undefined]

ListCalls ==
  \/ \E items \in Rows : Push(items) \/ Unshift(items)
  \/ Pop
  \/ Shift
  \/ \E start \in Indexes, deleteCount \in Indexes \cup {Undefined}, items \in Rows :
       Splice(start, deleteCount, items)
  \/ \E i \in Indexes : RemoveIndex(i)
  \/ \E i \in Indexes, v \in Elements : SetIndex(i, v)
  \/ \E i, j \in Indexes : Move(i, j) \/ Swap(i, j)
  \/ \E v \in Arrays \cup {Own, Bad} : AssignList(v)

SetCalls ==
  \/ \E v \in Items : SetAdd(v) \/ SetDelete(v)
  \/ SetClear
  \/ \E v \in Arrays \cup {Own, Bad} : AssignSet(v)

DictionaryCalls ==
  \/ \E o \in PlainObjects : DictionarySet(o.pairs)
  \/ \E keys \in SUBSET Keys : DictionaryRemove(keys)
  \/ \E v \in PlainObjects \cup {Own, Bad} : AssignDictionary(v)

CollectionsNext ==
  /\ last.op = "none"
  /\ \/ OnAList /\ ListCalls
     \/ kind = "set" /\ SetCalls
     \/ OnADictionary /\ DictionaryCalls
     \/ kind = "mixed" /\ \E v \in Arrays \cup PlainObjects \cup {Own, Bad} \cup Values : AssignMixed(v)

CollectionsSpec == CollectionsInit /\ [][CollectionsNext]_collectionVars

----------------------------------------------------------------------------
(* What is expected: what the methods of JavaScript's own Array do.        *)

ArrayPosition(length, index) ==
  IF index < 0 THEN (IF length + index < 0 THEN 0 ELSE length + index)
  ELSE (IF index > length THEN length ELSE index)

ArraySplice(s, start, deleteCount, items) ==
  LET first == ArrayPosition(Len(s), start)
      rest == Len(s) - first
      count == IF deleteCount = Undefined \/ deleteCount > rest THEN rest
               ELSE IF deleteCount < 0 THEN 0 ELSE deleteCount
  IN [into |-> SubSeq(s, 1, first) \o items \o SubSeq(s, first + count + 1, Len(s)),
      returned |-> SubSeq(s, first + 1, first + count)]

ArrayMove(s, from, to) ==
  LET without == ArraySplice(s, from, 1, <<>>).into
  IN ArraySplice(without, to, 0, <<s[from + 1]>>).into

(* A method of a list that returns has done what the method of that name   *)
(* does to an array, returned what that returns, and an assignment of      *)
(* values, of the list itself too, leaves exactly those: whatever order    *)
(* elements are removed and inserted in.  (A start of splice() before the  *)
(* first element is not moved there, it throws; see the README.)           *)
ListsActLikeArrays ==
  LET s == last.from.items
      a == last.args
      Is(into, returned) == content.items = into /\ last.returned = returned
  IN kind \in {"list", "mixedList"} /\ ~last.threw =>
       CASE last.op = "push" -> Is(s \o Row(a[1]), Len(s) + Len(a[1]))
         [] last.op = "unshift" -> Is(Row(a[1]) \o s, Len(s) + Len(a[1]))
         [] last.op = "pop" -> Is(ArraySplice(s, -1, 1, <<>>).into,
                                  IF s = <<>> THEN Undefined ELSE s[Len(s)])
         [] last.op = "shift" -> Is(ArraySplice(s, 0, 1, <<>>).into,
                                    IF s = <<>> THEN Undefined ELSE s[1])
         [] last.op = "splice" ->
              Len(s) + a[1] >= 0 =>
              LET expected == ArraySplice(s, a[1], a[2], Row(a[3]))
              IN Is(expected.into, expected.returned)
         [] last.op = "remove" -> content.items = ArraySplice(s, a[1], 1, <<>>).into
         [] last.op = "move" -> content.items = ArrayMove(s, a[1], a[2])
         [] last.op = "swap" ->
              content.items = [i \in DOMAIN s |-> IF i = a[1] + 1 THEN s[a[2] + 1]
                                                 ELSE IF i = a[2] + 1 THEN s[a[1] + 1] ELSE s[i]]
         [] last.op = "set" ->
              content.items = ArraySplice(s, a[1], 1, Row(<<a[2]>>)).into
         [] last.op = "assign" ->
              content.items = IF a[1] = Own THEN s ELSE Row(a[1].items)
         [] OTHER -> TRUE

Over(new, old) ==
  [k \in DOMAIN new \cup DOMAIN old |-> IF k \in DOMAIN new THEN new[k] ELSE old[k]]

(* What was assigned to a set, a dictionary or a mixed property, or set in *)
(* a dictionary, reads back, to the last level of nesting, and the other   *)
(* entries are as they were.                                               *)
AssignedReadsBack ==
  last.op \in {"assign", "set"} /\ ~last.threw /\ last.args[1] # Own =>
    CASE kind = "set" -> content.members = ToSet(last.args[1].items)
      [] kind = "mixed" -> content = ReadBack(last.args[1])
      [] kind \in {"dictionary", "mixedDictionary"} ->
           content.entries = IF last.op = "assign" THEN ReadBack(last.args[1]).entries
                             ELSE Over(ReadBack(last.args[1]).entries, last.from.entries)
      [] OTHER -> TRUE

(* Nothing that cannot be stored is ever stored, however far a call got    *)
(* before it threw.                                                        *)
CollectionsTypeOK ==
  /\ kind \in Kinds
  /\ HoldsStorable(content)
  /\ last.threw \in BOOLEAN

(* Assigning a collection to the property it came from changes nothing.    *)
(* The list accessor takes a snapshot "in case we're iterating the list    *)
(* we're mutating" (property-accessors/Array.ts:89); the others do not.    *)
SelfAssignmentKeeps ==
  last.op = "assign" /\ last.args[1] = Own => content = last.from
=============================================================================
