----------------------------- MODULE QueryHook ------------------------------
(***************************************************************************)
(* useQuery() in one component: how it reads its arguments, its memos,     *)
(* refs and effect, the cached collections of createCachedCollection with  *)
(* the listener each registers and the objects each caches, the Barqs the  *)
(* context may hold, and their objects, which anybody may write.           *)
(*                                                                         *)
(* Renders, effects and notifications are those of ObjectHook.             *)
(***************************************************************************)
EXTENDS Naturals, Sequences, FiniteSets

CONSTANTS
  Barqs,     \* the Barqs the context may hold
  Items,     \* the objects of the type
  Tags,      \* what a query selects objects by
  All,       \* the query of a call without one: every object
  MaxCalls   \* bound on how often the parent changes the call or the Barq

VARIABLES
  items,     \* per Barq and object its tag, or All if there is no such object
  step,      \* unmounted, committed (effects to be flushed), idle, threw or gone
  call,      \* how the component calls useQuery: the form and the query
  barq,      \* the Barq of the context
  calls,     \* how often one of them has changed
  rerender,  \* a re-render is queued
  collections, \* the cached collections so far
  memo,      \* what the last render made its cached collection of
  updated,   \* updatedRef.current
  held,      \* the cached collection whose tearDown the effect holds
  returned   \* the cached collection behind the returned reference, the objects the
             \* component read through it, and whether it has changed since

queryVars == <<items, step, call, barq, calls, rerender, collections, memo, updated,
               held, returned>>

NoCollection == 0
Queries == Tags \cup {All}

ASSUME QueryHookAssumption == "throw" \notin Queries

\* The forms of a call that UseQueryHook declares: the kind of the three arguments, with
\* the defaults of those that are left out (identity is a function).
Forms == {
  <<"options", "array", "array">>,       \* (options, deps)
  <<"options", "identity", "array">>,    \* (options)
  <<"type", "identity", "array">>,       \* (type)
  <<"type", "function", "array">>,       \* (type, query, deps)
  <<"function", "array", "options">>}    \* (query, deps, options)

\* The query that a form gives, and whether deps can tell of its change.
QueryOf(form, query) == IF form = <<"type", "identity", "array">> THEN All ELSE query
HasDeps(form) == form # <<"options", "identity", "array">>

IsTypeFunctionDeps(form) == form[1] = "type" /\ form[2] \in {"function", "identity"} /\ form[3] = "array"

IsOptionsDepsNone(form) == form[1] = "options" /\ form[2] \in {"array", "identity"}
IsFunctionDepsOptions(form) == form[1] = "function" /\ form[2] = "array" /\ form[3] = "options"

\* The query and deps useQuery is called with, or a throw.
Understood(c) ==
  CASE IsTypeFunctionDeps(c.form) ->
         [query |-> IF c.form[2] = "identity" THEN All ELSE c.query, deps |-> c.query]
    [] ~IsTypeFunctionDeps(c.form) /\ IsOptionsDepsNone(c.form) ->
         [query |-> c.query, deps |-> IF c.form[2] = "array" THEN c.query ELSE All]
    [] IsFunctionDepsOptions(c.form) -> [query |-> c.query, deps |-> c.query]
    [] OTHER -> [query |-> All, deps |-> "throw"]

\* queryCallback(getObjects(barq, type))
Selected(b, q) == {i \in Items : items[b][i] # All /\ q \in {items[b][i], All}}

QueryInit ==
  /\ items = [b \in Barqs |-> [i \in Items |-> All]]
  /\ step = "unmounted"
  /\ call \in [form: Forms, query: Tags]
  /\ barq \in Barqs
  /\ calls = 0
  /\ rerender = FALSE
  /\ collections = <<>>
  /\ memo = [barq |-> barq, deps |-> NoCollection, query |-> All]
  /\ updated = TRUE
  /\ held = NoCollection
  /\ returned = [n |-> NoCollection, read |-> {}, changed |-> FALSE]
----------------------------------------------------------------------------
(***************************************************************************)
(* Writers and the parent.                                                 *)
(***************************************************************************)

\* A collection's listener is told of what has changed in its results.
Noted(c, b, i, tag) ==
  LET before == items[b][i] # All /\ c.query \in {items[b][i], All}
      after == tag # All /\ c.query \in {tag, All}
  IN  IF c.barq # b \/ ~(before \/ after) THEN c
      ELSE [c EXCEPT
              !.cache = IF before /\ @[i] = "current" THEN [@ EXCEPT ![i] = "stale"] ELSE @,
              !.news = IF c.stage # "added" THEN @
                       ELSE @ \cup {IF before /\ after THEN i ELSE IF after THEN "insertion" ELSE "deletion"}]

\* A commit gives an object another tag, changes something else of it (the tag stays),
\* creates it or deletes it.
WriteItem(b, i, tag) ==
  /\ step # "gone"
  /\ tag # All \/ items[b][i] # All
  /\ items' = [items EXCEPT ![b][i] = tag]
  /\ collections' = [n \in DOMAIN collections |-> Noted(collections[n], b, i, tag)]
  /\ returned' = [returned EXCEPT !.changed =
                    @ \/ (returned.n # NoCollection /\ collections'[returned.n].news # collections[returned.n].news)]
  /\ UNCHANGED <<step, call, barq, calls, rerender, memo, updated, held>>

\* The component calls the hook in one form, for another query, or in another Barq.
ChangeCall(q, b) ==
  /\ step \in {"committed", "idle"}
  /\ calls < MaxCalls
  /\ calls' = calls + 1
  /\ <<q, b>> # <<call.query, barq>>
  /\ call' = [call EXCEPT !.query = q]
  /\ barq' = b
  /\ rerender' = TRUE
  /\ UNCHANGED <<items, step, collections, memo, updated, held, returned>>

OthersRender ==
  /\ step \in {"committed", "idle"}
  /\ ~rerender
  /\ rerender' = TRUE
  /\ UNCHANGED <<items, step, call, barq, calls, collections, memo, updated, held, returned>>
----------------------------------------------------------------------------
(***************************************************************************)
(* Cached collections.                                                     *)
(***************************************************************************)

NoCache == [i \in Items |-> "absent"]

\* createCachedCollection
CachedCollection(b, q, inTransaction) ==
  [barq |-> b, query |-> q, stage |-> IF inTransaction THEN "scheduled" ELSE "added",
   late |-> inTransaction, news |-> {}, cache |-> NoCache]

\* Mutated TornDownCollection: the immediate is not cleared.
TornDownLate(c) ==
  [c EXCEPT !.stage = IF @ = "added" THEN "removed" ELSE @, !.news = {}, !.cache = NoCache]

\* tearDown clears the immediate, removes the listener and empties the cache.
TornDownCollection(c) == [c EXCEPT !.stage = "removed", !.news = {}, !.cache = NoCache]

\* The setImmediate of a collection that was made inside a transaction.
AddQueryListener(n) ==
  /\ collections[n].stage = "scheduled"
  /\ collections' = [collections EXCEPT ![n].stage = "added"]
  /\ UNCHANGED <<items, step, call, barq, calls, rerender, memo, updated, held, returned>>

\* The listener drops what was modified from the cache, and everything if something was
\* deleted.
Dropped(c) ==
  IF "deletion" \in c.news THEN NoCache
  ELSE [i \in Items |-> IF i \in c.news THEN "absent" ELSE c.cache[i]]

\* The engine calls the listeners of the collections that have changed.
AdvanceCollections ==
  LET told == {n \in DOMAIN collections : collections[n].news # {}} IN
  /\ told # {}
  /\ collections' = [n \in DOMAIN collections |->
       [collections[n] EXCEPT !.cache = Dropped(collections[n]), !.news = {}]]
  /\ updated' = TRUE
  /\ rerender' = (step # "gone")
  /\ UNCHANGED <<items, step, call, barq, calls, memo, held, returned>>
----------------------------------------------------------------------------
(***************************************************************************)
(* The component.                                                          *)
(***************************************************************************)

\* updatedRef is set when queryCallback changes, which is when the deps do.
Renews(deps) == updated \/ deps # memo.deps

\* The component reads every object through the reference it gets: an object that is
\* not in the cache is put there.
ReadBy(c) == [c EXCEPT !.cache = [i \in Items |->
                IF i \in Selected(c.barq, c.query) /\ @[i] = "absent" THEN "current" ELSE @[i]]]

\* A render makes a cached collection when Barq, deps or both have changed; the query is
\* the one that was given when the deps last changed.
RenderQuery(inTransaction) ==
  LET u == Understood(call)
      first == step = "unmounted"
      recalls == first \/ u.deps # memo.deps
      query == IF recalls THEN u.query ELSE memo.query
      all == IF recalls \/ barq # memo.barq
             THEN Append(collections, CachedCollection(barq, query, inTransaction))
             ELSE collections
      n == IF Renews(u.deps) THEN Len(all) ELSE returned.n
  IN  /\ first \/ (step = "idle" /\ rerender)
      /\ IF u.deps = "throw"
         THEN /\ step' = "threw"
              /\ UNCHANGED <<collections, memo, updated, returned>>
         ELSE /\ step' = "committed"
              /\ memo' = [barq |-> barq, deps |-> u.deps, query |-> query]
              /\ updated' = FALSE
              /\ collections' = [all EXCEPT ![n] = ReadBy(all[n])]
              /\ returned' = [n |-> n, read |-> Selected(all[n].barq, all[n].query),
                              changed |-> IF Renews(u.deps) THEN FALSE ELSE returned.changed]
      /\ rerender' = FALSE
      /\ UNCHANGED <<items, call, barq, calls, held>>

QueryEffects ==
  /\ step = "committed"
  /\ collections' = IF held \in {NoCollection, Len(collections)} THEN collections
                    ELSE [collections EXCEPT ![held] = TornDownCollection(@)]
  /\ held' = Len(collections)
  /\ step' = "idle"
  /\ UNCHANGED <<items, call, barq, calls, rerender, memo, updated, returned>>

UnmountQuery ==
  /\ step = "idle"
  /\ collections' = [collections EXCEPT ![held] = TornDownCollection(@)]
  /\ step' = "gone"
  /\ rerender' = FALSE
  /\ UNCHANGED <<items, call, barq, calls, memo, updated, held, returned>>
----------------------------------------------------------------------------
QueryNext ==
  \/ \E b \in Barqs, i \in Items, tag \in Queries : WriteItem(b, i, tag)
  \/ \E q \in Tags, b \in Barqs : ChangeCall(q, b)
  \/ OthersRender
  \/ \E n \in DOMAIN collections : AddQueryListener(n)
  \/ AdvanceCollections
  \/ \E inTransaction \in BOOLEAN : RenderQuery(inTransaction)
  \/ QueryEffects
  \/ UnmountQuery

QuerySpec == QueryInit /\ [][QueryNext]_queryVars
----------------------------------------------------------------------------
(***************************************************************************)
(* Properties.                                                             *)
(***************************************************************************)

QueryHookTypeOK ==
  /\ items \in [Barqs -> [Items -> Queries]]
  /\ step \in {"unmounted", "committed", "idle", "gone"}
  /\ call \in [form: Forms, query: Tags]
  /\ barq \in Barqs
  /\ calls \in 0 .. MaxCalls
  /\ held \in DOMAIN collections \cup {NoCollection}
  /\ returned.n \in DOMAIN collections \cup {NoCollection}
  /\ returned.read \subseteq Items

QuerySettled ==
  /\ step = "idle"
  /\ ~rerender
  /\ \A n \in DOMAIN collections : collections[n].news = {} /\ collections[n].stage # "scheduled"

\* Every form of a call that is declared is understood, and what was read through the
\* reference that useQuery returned is what its query selects now: the reference is newer
\* than its last change, and so is that of each object, although objects are kept in a
\* cache between renders; except for a collection that was made in a transaction.
QueryIsFresh ==
  /\ step # "threw"
  /\ QuerySettled /\ returned.n = Len(collections) =>
       LET c == collections[returned.n] IN
       /\ HasDeps(call.form) => c.query = QueryOf(call.form, call.query)
       /\ c.late \/ /\ returned.read = Selected(c.barq, c.query)
                    /\ ~returned.changed
                    /\ \A i \in returned.read : c.cache[i] = "current"

\* "Wrap the cachedObject in useMemo, so we only replace it with a new instance if `barq`
\* or `queryResult` change": the reference is of the collection made for them.
QueryIsOfBarq == QuerySettled => collections[returned.n].barq = barq

\* The only listener that is left is the one of the collection in use, and none after the
\* unmount, also for collections that were made in a transaction.
QueryListenersRemoved ==
  \A n \in DOMAIN collections :
    (step = "gone" \/ (step = "idle" /\ n # Len(collections))) =>
      collections[n].stage \notin {"added", "scheduled"}
=============================================================================
