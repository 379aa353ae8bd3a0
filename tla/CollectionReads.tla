--------------------------- MODULE CollectionReads ---------------------------
(***************************************************************************)
(* The ways to read a list, a set, a Results or a dictionary: through the  *)
(* proxy that stands before each, through the methods they share with      *)
(* arrays, through the engine's own search, and through generators, which  *)
(* run a step at a time while the loops over them change the collection.   *)
(*                                                                         *)
(* A collection is known by its entries, [key, value], in the order the    *)
(* engine keeps them: the key of a dictionary, or nothing else than the    *)
(* value.  Values are integers, to have an order, or NoValue, for null.    *)
(* External: snapshots, the search and the sort of the engine.             *)
(***************************************************************************)
EXTENDS Integers, Sequences, SequencesExt, FiniteSets, FiniteSetsExt, Functions

CONSTANTS
  Numbers,      \* values of elements
  NoValue,      \* null
  Absent,       \* undefined
  Stranger,     \* a value that has no conversion
  DictionaryKeys,
  MaxSize,      \* of a collection
  Walkers,      \* loops
  MaxChanges    \* during loops

ASSUME ReadsAssumption ==
  /\ Numbers \subseteq Int /\ NoValue \notin Numbers
  /\ Absent \notin Int \cup {NoValue} /\ Stranger \notin Numbers \cup {NoValue, Absent}
  /\ MaxSize \in Nat /\ MaxChanges \in Nat

VARIABLES
  type,         \* "list", "set", "results" or "dictionary"
  entries,
  walks,        \* of each loop: its method, and what its generator holds
  changes       \* made so far

readVars == <<type, entries, walks, changes>>

OrderedTypes == {"list", "set", "results"}

NotFound == -1
NullableNumbers == Numbers \cup {NoValue}

KeysIn(es) == [i \in DOMAIN es |-> es[i].key]
ValuesIn(es) == [i \in DOMAIN es |-> es[i].value]
Size == Len(entries)

-----------------------------------------------------------------------------
(* Generators.  Nothing runs before the first next().                      *)

Methods == {"keys", "values", "entries"}

Unstarted(method) ==
  [method |-> method, begun |-> FALSE, keys |-> <<>>, values |-> <<>>, size |-> 0,
   out |-> <<>>, done |-> FALSE, from |-> <<>>]

NotWalking == [Unstarted("none") EXCEPT !.done = TRUE]

Loop(w, method) ==
  /\ walks[w].done
  /\ walks' = [walks EXCEPT ![w] = Unstarted(method)]
  /\ UNCHANGED <<type, entries, changes>>

\* Mutated SnapshotOf: the loop reads the collection itself.
LiveValues(walk) == ValuesIn(entries)

(* What a generator reads its values from: the snapshot of its first step. *)
SnapshotOf(walk) == walk.values

(* keys() of an ordered collection counts; the other generators, and that  *)
(* of a dictionary, take snapshots.  The number of steps is known before   *)
(* the first: values() asks the collection, entries() the snapshot.        *)
Begun(walk) ==
  IF walk.begun THEN walk
  ELSE [walk EXCEPT !.begun = TRUE,
                    !.keys = IF type = "dictionary" THEN KeysIn(entries) ELSE <<>>,
                    !.values = ValuesIn(entries),
                    !.size = Size,
                    !.from = entries]

(* snapshot[i]: beyond the end the proxy has nothing.                      *)
Item(values, i) == IF i \in DOMAIN values THEN values[i] ELSE Absent

Yielded(walk, i) ==
  LET key == IF type = "dictionary" THEN walk.keys[i] ELSE i - 1
      value == Item(SnapshotOf(walk), i)
  IN CASE walk.method = "keys" -> key
       [] walk.method = "values" -> value
       [] walk.method = "entries" /\ type = "set" -> <<value, value>>
       [] OTHER -> <<key, value>>

NextStep(w) ==
  /\ ~walks[w].done
  /\ LET walk == Begun(walks[w])
         i == Len(walk.out) + 1
     IN walks' = [walks EXCEPT ![w] =
          IF i > walk.size THEN [walk EXCEPT !.done = TRUE]
          ELSE [walk EXCEPT !.out = Append(@, Yielded(walk, i))]]
  /\ UNCHANGED <<type, entries, changes>>

(* break: the generator is left where it is.                               *)
Break(w) ==
  /\ ~walks[w].done
  /\ walks' = [walks EXCEPT ![w] = NotWalking]
  /\ UNCHANGED <<type, entries, changes>>

-----------------------------------------------------------------------------
(* Changes: of one element, by the body of a loop or by anything else.     *)

IsOrdered(es) ==
  /\ type = "set" => \A i, j \in DOMAIN es : i # j => es[i] # es[j]
  /\ type = "dictionary" => \A i, j \in DOMAIN es : i # j => es[i].key # es[j].key

Entry(key, value) == [key |-> key, value |-> value]
EntryKeys == IF type = "dictionary" THEN DictionaryKeys ELSE {Absent}

Changed(es) ==
  /\ changes < MaxChanges /\ changes' = changes + 1
  /\ Len(es) <= MaxSize /\ IsOrdered(es)
  /\ entries' = es
  /\ UNCHANGED <<type, walks>>

Inserted(i, key, value) == Changed(InsertAt(entries, i, Entry(key, value)))
Removed(i) == Changed(RemoveAt(entries, i))
Replaced(i, value) == Changed([entries EXCEPT ![i].value = value])

-----------------------------------------------------------------------------
(* Calls that read.  [...this] runs the generator to its end.              *)

Spread == ValuesIn(entries)

(* Array.prototype: reads of an array that is a copy.                      *)
Sliced(from, to) == SubSeq(Spread, from + 1, to)
Concat(items) == Spread \o items

(* An argument that is passed as undefined is not one that is left out.    *)
ArrayLastIndexOf(array, v, args) ==
  LET from == CASE args = <<>> -> Len(array) - 1
                [] args = <<Absent>> -> 0
                [] OTHER -> IF args[1] < 0 THEN Len(array) + args[1] ELSE args[1]
      found == {i \in DOMAIN array : array[i] = v /\ i - 1 <= from}
  IN IF found = {} THEN NotFound ELSE Max(found) - 1

LastIndexOf(v, fromIndex) == ArrayLastIndexOf(Spread, v, <<fromIndex>>)

Every(pred) == \A i \in DOMAIN Spread : Spread[i] \in pred
SomeOf(pred) == \E i \in DOMAIN Spread : Spread[i] \in pred
Filter(pred) ==
  LET after[n \in 0..Size] ==
        IF n = 0 THEN <<>>
        ELSE IF Spread[n] \in pred THEN Append(after[n - 1], Spread[n]) ELSE after[n - 1]
  IN after[Size]
FindIndex(pred) ==
  IF SomeOf(pred) THEN Min({i \in DOMAIN Spread : Spread[i] \in pred}) - 1 ELSE NotFound
Find(pred) == IF SomeOf(pred) THEN Spread[FindIndex(pred) + 1] ELSE Absent
MapEach(f) == [i \in DOMAIN Spread |-> f[Spread[i]]]
FlatMap(f) ==
  LET after[n \in 0..Size] == IF n = 0 THEN <<>> ELSE after[n - 1] \o f[Spread[n]]
  IN after[Size]
Reduce(initial) ==
  LET after[n \in 0..Size] == IF n = 0 THEN <<initial>> ELSE Append(after[n - 1], Spread[n])
  IN after[Size]
ReduceRight(initial) ==
  LET after[n \in 0..Size] ==
        IF n = 0 THEN <<initial>> ELSE Append(after[n - 1], Spread[Size - n + 1])
  IN after[Size]
At(index) == Item(Spread, IF index < 0 THEN Size + index + 1 ELSE index + 1)

(* collection[index], for an index that is written as a number.            *)
ProxyGet(index) ==
  IF index >= 0 /\ index < Size THEN Spread[index + 1] ELSE Absent

OwnKeys == 0..(Size - 1)

(* "-1", too, is below the length.                                         *)
HasDescriptor(index) == index < Size

(* indexOf(v): by the engine, from what v converts to; undefined is null.  *)
SearchedFor(v) == IF v = Absent THEN NoValue ELSE v

IndexOf(v) ==
  IF v = Stranger THEN NotFound
  ELSE LET found == {i \in DOMAIN entries : entries[i].value = SearchedFor(v)}
       IN IF found = {} THEN NotFound ELSE Min(found) - 1

Includes(v) == IndexOf(v) # NotFound
Has(v) == Includes(v)
IsEmpty == Size = 0

(* sorted(): a name with the direction, true for ascending; by default the *)
(* elements themselves.  The arguments are those it was called with.       *)
Descriptors(args) ==
  LET descriptor(arg) == IF Len(arg) = 1 THEN <<arg[1], TRUE>> ELSE <<arg[1], ~arg[2]>>
  IN CASE args.is = "descriptors" -> [i \in DOMAIN args.list |-> descriptor(args.list[i])]
       [] args.is = "name" -> <<descriptor(<<args.name, args.reverse = TRUE>>)>>
       [] args.is = "reverse" -> <<descriptor(<<"self", args.reverse>>)>>
       [] args.is = "none" -> <<descriptor(<<"self", FALSE>>)>>

(* sortByNames, for elements: null is least.                               *)
Precedes(x, y) == y # NoValue /\ (x = NoValue \/ x < y)
MayFollow(x, y, ascending) == IF ascending THEN ~Precedes(y, x) ELSE ~Precedes(x, y)

Orders(ascending) ==
  {p \in Bijection(DOMAIN Spread, DOMAIN Spread) :
    \A i, j \in DOMAIN Spread : i < j => MayFollow(Spread[p[i]], Spread[p[j]], ascending)}

SortByNames(descriptors) ==
  LET p == CHOOSE p \in Orders(descriptors[1][2]) : TRUE
  IN [i \in DOMAIN Spread |-> Spread[p[i]]]

Sorted(args) == SortByNames(Descriptors(args))

(* dictionary[key].  (KeysIn that are names of methods read as the methods.) *)
DictionaryGet(key) ==
  LET found == {i \in DOMAIN entries : entries[i].key = key}
  IN IF found = {} THEN Absent ELSE entries[Min(found)].value

DictionaryOwnKeys == ToSet(KeysIn(entries))
DictionaryHasDescriptor(key) == \E i \in DOMAIN entries : entries[i].key = key

-----------------------------------------------------------------------------
Possible == {Entry(k, v) : k \in EntryKeys, v \in NullableNumbers}

ReadsInit ==
  /\ type \in OrderedTypes \cup {"dictionary"}
  /\ entries \in {es \in BoundedSeq(Possible, MaxSize) : IsOrdered(es)}
  /\ walks = [w \in Walkers |-> NotWalking]
  /\ changes = 0

ReadsNext ==
  \/ \E w \in Walkers : NextStep(w) \/ Break(w) \/ \E m \in Methods : Loop(w, m)
  \/ \E i \in 1..(Size + 1), k \in EntryKeys, v \in NullableNumbers : Inserted(i, k, v)
  \/ \E i \in DOMAIN entries : Removed(i) \/ \E v \in NullableNumbers : Replaced(i, v)

ReadsSpec == ReadsInit /\ [][ReadsNext]_readVars

-----------------------------------------------------------------------------
(* A loop over a collection goes over what was in it when it began, each   *)
(* element once and in order, however many its body and other loops add,   *)
(* remove and replace, and ends after the last.                            *)
LoopsSeeTheirStart ==
  \A w \in Walkers :
    LET walk == walks[w]
        expected(i) ==
          LET key == IF type = "dictionary" THEN walk.from[i].key ELSE i - 1
              value == walk.from[i].value
          IN CASE walk.method = "keys" -> key
               [] walk.method = "values" -> value
               [] OTHER -> <<IF type = "set" THEN value ELSE key, value>>
    IN /\ Len(walk.out) <= Len(walk.from)
       /\ \A i \in DOMAIN walk.out : walk.out[i] = expected(i)
       /\ walk.begun /\ walk.done => Len(walk.out) = Len(walk.from)

(* Everything that reads a collection tells of the same elements in the    *)
(* same places: the proxy, the methods of arrays, the engine's search and  *)
(* its sort, however the direction is given.  (Not so undefined, which     *)
(* indexOf() finds where null is, and negative indexes, which have a       *)
(* descriptor and no value.)                                               *)
PlacesAgree ==
  /\ \A index \in 0..MaxSize :
       /\ ProxyGet(index) = At(index)
       /\ index \in OwnKeys <=> HasDescriptor(index)
       /\ index \in OwnKeys <=> ProxyGet(index) # Absent
       /\ index < Size => At(index - Size) = ProxyGet(index)
  /\ IsEmpty <=> OwnKeys = {}

SearchesAgree ==
  \A v \in NullableNumbers \cup {Stranger} :
    /\ IndexOf(v) = FindIndex({v})
    /\ Includes(v) <=> LastIndexOf(v, MaxSize) # NotFound
    /\ LastIndexOf(v, -1) = LastIndexOf(v, MaxSize)
    /\ Has(v) <=> Find({v}) = v
    /\ IndexOf(v) # NotFound => ProxyGet(IndexOf(v)) = v
    /\ type = "set" => IndexOf(v) = LastIndexOf(v, MaxSize)

FoldsAgree ==
  /\ \A pred \in SUBSET NullableNumbers :
       /\ Every(pred) <=> Filter(pred) = Sliced(0, Size)
       /\ SomeOf(pred) <=> ~Every(NullableNumbers \ pred)
       /\ FlatMap([v \in NullableNumbers |-> IF v \in pred THEN <<v>> ELSE <<>>]) = Filter(pred)
  /\ Reduce(NoValue) = <<NoValue>> \o MapEach([v \in NullableNumbers |-> v])
  /\ ReduceRight(NoValue) = <<NoValue>> \o Reverse(Concat(<<>>))

DirectionsAgree ==
  \A reverse \in BOOLEAN :
    LET named == Sorted([is |-> "name", name |-> "self", reverse |-> reverse])
    IN /\ named = Sorted([is |-> "descriptors", list |-> <<<<"self", reverse>>>>])
       /\ named = Sorted([is |-> "reverse", reverse |-> reverse])
       /\ Sorted([is |-> "none"]) = IF reverse THEN Reverse(named) ELSE named

ReadsAgree ==
  /\ type = "dictionary" =>
       \A key \in DictionaryKeys :
         /\ DictionaryHasDescriptor(key) <=> key \in DictionaryOwnKeys
         /\ DictionaryHasDescriptor(key) <=> DictionaryGet(key) # Absent
  /\ type \in OrderedTypes => PlacesAgree /\ SearchesAgree /\ FoldsAgree /\ DirectionsAgree

(* What is read from a collection is consistent: with the other ways to    *)
(* read it and with what it was when a loop began (OrderedCollection.ts,   *)
(* Dictionary.ts).                                                         *)
CollectionsReadAlike == LoopsSeeTheirStart /\ ReadsAgree

(* lastIndexOf(v) searches from the last index.                            *)
FoundFromTheEnd ==
  type \in OrderedTypes => \A v \in NullableNumbers :
    LastIndexOf(v, Absent) = ArrayLastIndexOf(Spread, v, <<>>)
=============================================================================
