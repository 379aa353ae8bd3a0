----------------------------- MODULE ObjectHook -----------------------------
(***************************************************************************)
(* useObject() in one component: its refs, its two effects, the cached     *)
(* objects of createCachedObject with the listeners they register, and the *)
(* objects of one type with their primary keys, which anybody may write.   *)
(*                                                                         *)
(* A render and its commit are one step.  The effects of the commit are    *)
(* flushed later, before the next render.  The engine calls the listeners  *)
(* of one advance in one task, some time after the commit it tells of.     *)
(***************************************************************************)
EXTENDS Naturals, Sequences

CONSTANTS
  Keys,     \* primary keys
  MaxBorn,  \* bound on the objects that are created
  MaxAsks   \* bound on how often the parent changes the primary key

VARIABLES
  born,    \* the objects created so far
  objects, \* per key the object that has it (None: there is none)
  phase,   \* unmounted, committed (effects to be flushed), idle or gone
  primaryKey, \* the key the parent asks for
  asks,    \* how often it has changed
  queued,  \* a re-render is queued: by forceRerender or by the parent
  ref,     \* the refs: primaryKey, original (whether originalObject is set),
           \* cached (an index into caches), updated
  caches,  \* the cached objects so far, with the listeners of each
  torn,    \* the cached object whose tearDown the first effect holds
  watch,   \* the listener of the second effect and the keys inserted since its last call
  shown,   \* the cached object the last render returned, and what has changed
           \* since the reference to it, or to its list, was renewed
  awaited  \* the object that was inserted while the hook watched for it [history]

objectVars == <<born, objects, phase, primaryKey, asks, queued, ref, caches, torn,
                watch, shown, awaited>>

None == 0
Parts == {"scalar", "list"}     \* the object's own properties, and its list of objects

NoWatch == [on |-> FALSE, inserted |-> {}]
Nothing == [cache |-> None, stale |-> {}]

Exists(k) == objects[k] # None
Valid(c) == c.id # None /\ objects[c.key] = c.id

ObjectInit ==
  /\ born = 0
  /\ objects = [k \in Keys |-> None]
  /\ phase = "unmounted"
  /\ primaryKey \in Keys
  /\ asks = 0
  /\ queued = FALSE
  /\ ref = [primaryKey |-> primaryKey, original |-> FALSE, cached |-> None, updated |-> TRUE]
  /\ caches = <<>>
  /\ torn = None
  /\ watch = NoWatch
  /\ shown = Nothing
  /\ awaited = None
----------------------------------------------------------------------------
(***************************************************************************)
(* Writers and the parent.                                                 *)
(***************************************************************************)

CreateObject(k) ==
  /\ ~Exists(k)
  /\ born < MaxBorn
  /\ born' = born + 1
  /\ objects' = [objects EXCEPT ![k] = born']
  /\ watch' = [watch EXCEPT !.inserted = IF watch.on THEN @ \cup {k} ELSE @]
  /\ awaited' = IF watch.on /\ ~ref.original /\ ref.primaryKey = k THEN born' ELSE awaited
  /\ UNCHANGED <<phase, primaryKey, asks, queued, ref, caches, torn, shown>>

DeleteObject(k) ==
  /\ Exists(k)
  /\ objects' = [objects EXCEPT ![k] = None]
  /\ watch' = [watch EXCEPT !.inserted = @ \ {k}]
  /\ UNCHANGED <<born, phase, primaryKey, asks, queued, ref, caches, torn, shown, awaited>>

\* One commit may change scalar properties, the list, or both.
ModifyObject(k, parts) ==
  /\ Exists(k)
  /\ caches' = [n \in DOMAIN caches |->
       LET c == caches[n] IN
       IF c.id # objects[k] THEN c
       ELSE [c EXCEPT !.news = IF c.stage = "added" THEN @ \cup parts ELSE @,
                      !.listNews = @ \/ (c.stage = "added" /\ ~c.torn /\ "list" \in parts)]]
  /\ shown' = IF shown.cache # None /\ caches[shown.cache].id = objects[k]
              THEN [shown EXCEPT !.stale = @ \cup parts] ELSE shown
  /\ UNCHANGED <<born, objects, phase, primaryKey, asks, queued, ref, torn, watch, awaited>>

AskFor(k) ==
  /\ phase \in {"committed", "idle"}
  /\ k # primaryKey
  /\ asks < MaxAsks
  /\ primaryKey' = k
  /\ asks' = asks + 1
  /\ queued' = TRUE
  /\ UNCHANGED <<born, objects, phase, ref, caches, torn, watch, shown, awaited>>

ParentRenders ==
  /\ phase \in {"committed", "idle"}
  /\ ~queued
  /\ queued' = TRUE
  /\ UNCHANGED <<born, objects, phase, primaryKey, asks, ref, caches, torn, watch,
                 shown, awaited>>
----------------------------------------------------------------------------
(***************************************************************************)
(* Cached objects.                                                         *)
(***************************************************************************)

\* createCachedObject: the listeners are registered at once, or by setImmediate
\* when the render runs inside a transaction.
CachedObject(k, inTransaction) ==
  LET stage == IF ~Exists(k) THEN "none" ELSE IF inTransaction THEN "scheduled" ELSE "added" IN
  [key |-> k, id |-> objects[k],
   stage |-> stage,            \* of the object's listener, and of its list's until
   torn |-> FALSE,             \* tearDown has run
   late |-> inTransaction,     \* it was made inside a transaction
   news |-> {"initial"},       \* what the next call of the object's listener tells of
   listNews |-> FALSE,         \* the list's listener has changes to be told of
   listUpdated |-> TRUE]       \* updatedRef of the list's cache

\* tearDown: the immediate of the object's own listener is not cleared, that of
\* the list's is.
TornDown(c) ==
  IF c.stage = "scheduled"
  THEN [c EXCEPT !.torn = TRUE]
  ELSE [c EXCEPT !.torn = TRUE, !.stage = "removed", !.id = None, !.news = {},
                 !.listNews = FALSE, !.listUpdated = FALSE]

\* The setImmediates of createCachedCollection and createCachedObject, which run in
\* one turn of the event loop.  A listener cannot be added to an object that is gone
\* by then: that throws into the event loop.
RunImmediates(n) ==
  /\ caches[n].stage = "scheduled"
  /\ caches' = [caches EXCEPT ![n].stage = IF Valid(caches[n]) THEN "added" ELSE "none"]
  /\ UNCHANGED <<born, objects, phase, primaryKey, asks, queued, ref, torn, watch, shown, awaited>>

\* The listeners have something to be told of: the object's is called once more
\* when the object is gone, and never again.
Told(c) == c.stage = "added" /\ (c.news # {} \/ ~Valid(c))
ListTold(c) == c.listNews

\* What the object's listener makes of the changes: a change of the list is left to
\* the listener of the list's cache.
ObjectRerenders(c) ==
  /\ Told(c)
  /\ Valid(c) => "scalar" \in c.news /\ "list" \notin c.news

\* Mutated Rerenders: the object's listener alone, without the one of the list.
ObjectOnlyRerenders(c) == ObjectRerenders(c)

Rerenders(c) == ObjectRerenders(c) \/ ListTold(c)

Matches == watch.on /\ ref.primaryKey \in watch.inserted

\* The engine calls the listeners of all cached objects and of the collection.
\* updatedRef is the component's, whichever cached object the listener is of.
Advance ==
  /\ \/ \E n \in DOMAIN caches : Told(caches[n]) \/ ListTold(caches[n])
     \/ watch.inserted # {}
  /\ caches' = [n \in DOMAIN caches |->
       LET c == caches[n] IN
       [c EXCEPT !.news = IF Told(c) THEN {} ELSE @,
                 !.listNews = FALSE,
                 !.listUpdated = @ \/ ListTold(c),
                 !.stage = IF Told(c) /\ ~Valid(c) THEN "removed" ELSE @]]
  /\ ref' = [ref EXCEPT !.updated = @ \/ \E n \in DOMAIN caches : Told(caches[n])]
  /\ watch' = IF Matches THEN NoWatch ELSE [watch EXCEPT !.inserted = {}]
  /\ queued' = (queued \/ (phase # "gone" /\ (Matches \/ \E n \in DOMAIN caches : Rerenders(caches[n]))))
  /\ UNCHANGED <<born, objects, phase, primaryKey, asks, torn, shown, awaited>>
----------------------------------------------------------------------------
(***************************************************************************)
(* The component.                                                          *)
(***************************************************************************)

\* Mutated Reinstantiates: for another primary key only.
OtherKeyOnly == primaryKey # ref.primaryKey

\* The cached object is re-instantiated for another primary key, or when the
\* object has gone from null to not null.
Reinstantiates ==
  primaryKey # ref.primaryKey \/ (~ref.original /\ Exists(primaryKey))

\* What a render returns and the refs it leaves, given the refs and cached
\* objects it works with.  It reads the list through the reference.
Returns(r, all) ==
  LET c == all[r.cached] IN
  IF ~Valid(c)
  THEN /\ shown' = Nothing
       /\ ref' = r
       /\ caches' = all
  ELSE /\ shown' = [cache |-> r.cached,
                    stale |-> shown.stale \ ((IF r.updated THEN {"scalar"} ELSE {}) \cup
                                              (IF c.listUpdated THEN {"list"} ELSE {}))]
       /\ ref' = [r EXCEPT !.updated = FALSE]
       /\ caches' = [all EXCEPT ![r.cached].listUpdated = FALSE]

MountObject(inTransaction) ==
  /\ phase = "unmounted"
  /\ Returns([primaryKey |-> primaryKey, original |-> Exists(primaryKey),
              cached |-> 1, updated |-> TRUE],
             <<CachedObject(primaryKey, inTransaction)>>)
  /\ phase' = "committed"
  /\ UNCHANGED <<born, objects, primaryKey, asks, queued, torn, watch, awaited>>

RenderObject(inTransaction) ==
  /\ phase = "idle"
  /\ queued
  /\ IF Reinstantiates
     THEN Returns([primaryKey |-> primaryKey, original |-> Exists(primaryKey),
                   cached |-> Len(caches) + 1, updated |-> TRUE],
                  Append(caches, CachedObject(primaryKey, inTransaction)))
     ELSE Returns(ref, caches)
  /\ queued' = FALSE
  /\ phase' = "committed"
  /\ UNCHANGED <<born, objects, primaryKey, asks, torn, watch, awaited>>

\* The cleanup of the first effect, when tearDown has changed.
Replaced == IF torn \notin {None, ref.cached} THEN [caches EXCEPT ![torn] = TornDown(@)] ELSE caches

\* The second effect runs once: type and Barq stay what they are.
ObjectEffects ==
  /\ phase = "committed"
  /\ caches' = Replaced
  /\ torn' = ref.cached
  /\ watch' = IF torn = None THEN [on |-> ~ref.original, inserted |-> {}] ELSE watch
  /\ phase' = "idle"
  /\ UNCHANGED <<born, objects, primaryKey, asks, queued, ref, shown, awaited>>

UnmountObject ==
  /\ phase = "idle"
  /\ caches' = [caches EXCEPT ![torn] = TornDown(@)]
  /\ watch' = NoWatch
  /\ phase' = "gone"
  /\ queued' = FALSE
  /\ UNCHANGED <<born, objects, primaryKey, asks, ref, torn, shown, awaited>>
----------------------------------------------------------------------------
Writes ==
  \E k \in Keys : \/ CreateObject(k)
                  \/ DeleteObject(k)
                  \/ \E parts \in SUBSET Parts \ {{}} : ModifyObject(k, parts)

ObjectNext ==
  \/ Writes
  \/ \E k \in Keys : AskFor(k)
  \/ ParentRenders
  \/ \E n \in DOMAIN caches : RunImmediates(n)
  \/ Advance
  \/ \E inTransaction \in BOOLEAN : MountObject(inTransaction) \/ RenderObject(inTransaction)
  \/ ObjectEffects
  \/ UnmountObject

ObjectSpec == ObjectInit /\ [][ObjectNext]_objectVars
----------------------------------------------------------------------------
(***************************************************************************)
(* Properties.                                                             *)
(***************************************************************************)

ObjectHookTypeOK ==
  /\ born \in 0 .. MaxBorn
  /\ objects \in [Keys -> 0 .. born]
  /\ phase \in {"unmounted", "committed", "idle", "gone"}
  /\ primaryKey \in Keys
  /\ asks \in 0 .. MaxAsks
  /\ queued \in BOOLEAN
  /\ ref.cached \in DOMAIN caches \cup {None}
  /\ torn \in DOMAIN caches \cup {None}
  /\ shown.cache \in DOMAIN caches \cup {None}
  /\ shown.stale \subseteq Parts
  /\ watch.inserted \subseteq Keys

\* The component has rendered what the engine has told it of.
ObjectSettled ==
  /\ phase = "idle"
  /\ ~queued
  /\ \A n \in DOMAIN caches :
       ~Told(caches[n]) /\ ~ListTold(caches[n]) /\ caches[n].stage # "scheduled"
  /\ watch.inserted = {}

\* "The hook will update on any changes to the properties on the returned object and
\* return null if it either doesn't exists or has been deleted": an object that is
\* returned exists and has the key that is asked for, and the reference, and that
\* of its list, are newer than its last change, although the object's listener
\* leaves some changes to the one of the list; except for an object whose listener
\* was put off until the end of a transaction.
ShownIsFresh ==
  ObjectSettled /\ shown.cache # None =>
    LET c == caches[shown.cache] IN
    /\ c.key = primaryKey
    /\ c.late \/ (Valid(c) /\ shown.stale = {})

\* An object that is inserted while the hook listens for it is returned.
AwaitedIsShown ==
  ObjectSettled /\ awaited # None /\ objects[primaryKey] = awaited => shown.cache # None

\* "Either the desired object or null in the case of it being deleted or not existing":
\* whichever way it came to exist.
ExistingIsShown == ObjectSettled /\ Exists(primaryKey) => shown.cache # None

\* Once things have settled, the listeners that are left are those of the cached
\* object in use, and none after the unmount; except for an object whose listener
\* was put off until the end of a transaction.
ObjectListenersRemoved ==
  \A n \in DOMAIN caches :
    (phase = "gone" \/ (phase = "idle" /\ n # ref.cached)) =>
      (caches[n].stage = "added" => caches[n].late)
=============================================================================
