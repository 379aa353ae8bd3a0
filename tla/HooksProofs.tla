---------------------------- MODULE HooksProofs ----------------------------
(***************************************************************************)
(* What useObject() and useQuery() return is what is there, and neither    *)
(* leaves a listener behind: for any objects, keys, Barqs and calls, and   *)
(* any number of writes, renders and changes of the call.                  *)
(*                                                                         *)
(* Between a change and the render that shows it, what is stale is either  *)
(* still to be told by the engine or known to the refs, and then a render  *)
(* is queued.  The two hooks share no variable; each has an invariant of   *)
(* its own.                                                                *)
(***************************************************************************)
EXTENDS MCHooks, SequenceTheorems, TLAPS

----------------------------------------------------------------------------
(***************************************************************************)
(* useObject().                                                            *)
(***************************************************************************)

Mounted == phase \in {"committed", "idle"}

Stages == {"none", "scheduled", "added", "removed"}
Cache == [key: Keys, id: Nat, stage: Stages, torn: BOOLEAN, late: BOOLEAN,
          news: SUBSET (Parts \cup {"initial"}), listNews: BOOLEAN, listUpdated: BOOLEAN]
Ref == [primaryKey: Keys, original: BOOLEAN, cached: Nat, updated: BOOLEAN]

\* The types of the variables.  The component uses the cached object made last.
ObjectTypes ==
  /\ born \in Nat
  /\ objects \in [Keys -> Nat]
  /\ phase \in {"unmounted", "committed", "idle", "gone"}
  /\ primaryKey \in Keys
  /\ queued \in BOOLEAN
  /\ ref \in Ref
  /\ caches \in Seq(Cache)
  /\ torn \in Nat
  /\ watch \in [on: BOOLEAN, inserted: SUBSET Keys]
  /\ shown \in [cache: Nat, stale: SUBSET Parts]
  /\ awaited \in Nat
  /\ ref.cached = Len(caches)
  /\ torn <= Len(caches)
  /\ shown.cache \in {None, ref.cached}
  /\ shown.cache = None => shown.stale = {}
  /\ phase = "unmounted" <=> caches = <<>>

\* An object keeps the key it was created with, and no other gets its number.
Identity ==
  /\ \A k \in Keys : objects[k] <= born
  /\ \A j, k \in Keys : objects[j] = objects[k] => j = k \/ ~Exists(j)
  /\ awaited <= born
  /\ \A n \in DOMAIN caches :
       /\ caches[n].id <= born
       /\ \A k \in Keys : Exists(k) /\ objects[k] = caches[n].id => k = caches[n].key

\* A cached object that was made outside a transaction has listeners as long as its
\* object may come to change and nobody tears it down.
Listening ==
  \A n \in DOMAIN caches :
    LET c == caches[n] IN
    /\ c.stage = "scheduled" => c.late
    /\ c.stage = "none" /\ ~c.late => ~Valid(c)
    /\ c.stage = "removed" => ~Valid(c)
    /\ "list" \in c.news => c.stage = "added"
    /\ "list" \in c.news /\ ~c.torn => c.listNews
    /\ n = ref.cached /\ Mounted => ~c.torn
    /\ c.stage = "added" /\ ~c.late =>
         Mounted /\ (n = ref.cached \/ (phase = "committed" /\ n = torn))

\* The first effect holds the cached object in use, or the one before until it runs.
Held ==
  /\ phase = "idle" => torn = ref.cached
  /\ phase = "committed" => torn \in {ref.cached, ref.cached - 1}
  /\ torn = None => ~watch.on

\* The refs are those of the cached object, and of the key the parent asks for
\* until it asks for another.
Current ==
  Mounted => /\ caches[ref.cached].key = ref.primaryKey
             /\ ~queued => ref.primaryKey = primaryKey

\* What is stale in what is shown, the engine will tell of, or a render will renew.
Renewal ==
  Mounted /\ shown.cache # None /\ ~caches[shown.cache].late =>
    LET c == caches[shown.cache] IN
    /\ c.stage = "added" \/ queued
    /\ "scalar" \in shown.stale /\ Valid(c) => "scalar" \in c.news \/ (ref.updated /\ queued)
    /\ "list" \in shown.stale /\ Valid(c) => c.listNews \/ (c.listUpdated /\ queued)

\* The object that was watched for is shown, or a render that will show it is due.
Watched ==
  Mounted /\ awaited # None /\ objects[ref.primaryKey] = awaited =>
    \/ ref.original /\ caches[ref.cached].id = awaited /\ shown.cache = ref.cached
    \/ ~ref.original /\ (queued \/ Matches)

ObjectIInv == ObjectTypes /\ Identity /\ Listening /\ Held /\ Current /\ Renewal /\ Watched


\* A sequence that is mapped element by element stays one.
LEMMA Mapped ==
  ASSUME NEW S, NEW s \in Seq(S), NEW t, t = [n \in DOMAIN s |-> t[n]],
         \A n \in DOMAIN s : t[n] \in S
  PROVE  t \in Seq(S) /\ Len(t) = Len(s) /\ DOMAIN t = DOMAIN s
  <1>1. DOMAIN s = 1 .. Len(s) /\ Len(s) \in Nat
    OBVIOUS
  <1>2. t \in [1 .. Len(s) -> S]
    BY <1>1
  <1> QED
    BY <1>1, <1>2

\* The cached object in use is the last of them.
LEMMA CurrentIsLast ==
  ASSUME ObjectTypes
  PROVE  /\ Mounted => ref.cached \in DOMAIN caches /\ ref.cached \in 1 .. Len(caches)
         /\ DOMAIN caches = 1 .. Len(caches) /\ Len(caches) \in Nat
         /\ \A n \in DOMAIN caches : caches[n] \in Cache
  BY DEF ObjectTypes, Mounted

LEMMA ObjectInitially == ObjectInit => ObjectIInv
  <1> SUFFICES ASSUME ObjectInit PROVE ObjectIInv
    OBVIOUS
  <1> USE DEF ObjectInit, None
  <1>1. ObjectTypes
    <2>1. caches \in Seq(Cache) /\ Len(caches) = 0 /\ objects \in [Keys -> Nat]
      OBVIOUS
    <2>2. ref \in Ref /\ ref.cached = 0
      BY DEF Ref
    <2>3. /\ watch \in [on: BOOLEAN, inserted: SUBSET Keys]
          /\ shown \in [cache: Nat, stale: SUBSET Parts] /\ shown.cache = 0 /\ shown.stale = {}
      BY DEF NoWatch, Nothing
    <2>4. /\ born \in Nat /\ torn = 0 /\ torn \in Nat /\ awaited \in Nat
          /\ phase = "unmounted" /\ caches = <<>>
          /\ primaryKey \in Keys /\ queued \in BOOLEAN
      OBVIOUS
    <2> QED
      BY ONLY <2>1, <2>2, <2>3, <2>4 DEF ObjectTypes, None
  <1>2. Identity
    BY DEF Identity, Exists
  <1>3. Listening /\ Held /\ Current /\ Renewal /\ Watched
    BY DEF Listening, Held, Current, Renewal, Watched, Mounted, NoWatch
  <1> QED
    BY <1>1, <1>2, <1>3 DEF ObjectIInv

LEMMA Creating ==
  ASSUME ObjectIInv, NEW k \in Keys, CreateObject(k)
  PROVE  ObjectIInv'
  <1> USE DEF CreateObject, ObjectIInv
  <1>1. /\ born \in Nat /\ born' = born + 1 /\ objects' \in [Keys -> Nat] /\ objects'[k] = born + 1
        /\ \A j \in Keys \ {k} : objects'[j] = objects[j]
        /\ watch' \in [on: BOOLEAN, inserted: SUBSET Keys] /\ watch'.on = watch.on
        /\ watch.inserted \subseteq watch'.inserted
        /\ watch.on => k \in watch'.inserted
    <2>1. born \in Nat /\ objects \in [Keys -> Nat] /\ born + 1 \in Nat
      BY DEF ObjectTypes
    <2>2. watch \in [on: BOOLEAN, inserted: SUBSET Keys]
      BY DEF ObjectTypes
    <2>3. /\ watch' \in [on: BOOLEAN, inserted: SUBSET Keys] /\ watch'.on = watch.on
          /\ watch'.inserted = IF watch.on THEN watch.inserted \cup {k} ELSE watch.inserted
      BY <2>2
    <2> QED
      BY <2>1, <2>3
  <1>2. ObjectTypes'
    BY <1>1 DEF ObjectTypes
  <1>3. \A n \in DOMAIN caches : caches[n] \in Cache /\ caches[n].id <= born /\ caches[n].id \in Nat
    BY CurrentIsLast DEF Identity, Cache
  <1>4. \A j \in Keys : objects[j] <= born /\ objects[j] \in Nat
    BY DEF Identity, ObjectTypes
  <1>5. Identity'
    <2>1. \A j \in Keys : objects'[j] <= born'
      BY <1>1, <1>4
    <2>2. \A i, j \in Keys : objects'[i] = objects'[j] => i = j \/ ~Exists(i)'
      BY <1>1, <1>4 DEF Identity, Exists
    <2>3. awaited' <= born'
      BY <1>1 DEF Identity, ObjectTypes
    <2>4. ASSUME NEW n \in DOMAIN caches, NEW j \in Keys, Exists(j)', objects'[j] = caches[n].id
          PROVE  j = caches[n].key
      BY <1>1, <1>3, <2>4 DEF Identity, Exists
    <2>5. \A n \in DOMAIN caches : caches[n].id <= born'
      BY <1>1, <1>3
    <2> QED
      BY <2>1, <2>2, <2>3, <2>4, <2>5 DEF Identity
  <1>6. ASSUME NEW n \in DOMAIN caches
        PROVE  Valid(caches[n])' => Valid(caches[n])
    BY <1>1, <1>3, <1>6 DEF Valid, None
  <1>7. Listening' /\ Held' /\ Current'
    <2>1. Held'
      BY <1>1 DEF Held
    <2>2. Current'
      BY DEF Current, Mounted
    <2>3. Listening'
      BY <1>6 DEF Listening, Mounted
    <2> QED
      BY <2>1, <2>2, <2>3
  <1>8. Renewal'
    <2>1. shown.cache # None /\ Mounted => shown.cache \in DOMAIN caches
      BY CurrentIsLast DEF ObjectTypes
    <2> QED
      BY <1>6, <2>1 DEF Renewal, Mounted
  <1>9. Watched'
    <2> SUFFICES ASSUME Mounted, awaited' # None, objects'[ref.primaryKey] = awaited'
                 PROVE  \/ ref.original /\ caches[ref.cached].id = awaited' /\ shown.cache = ref.cached
                        \/ ~ref.original /\ (queued \/ Matches')
      BY DEF Watched, Mounted
    <2>1. ref.primaryKey \in Keys /\ awaited <= born /\ awaited \in Nat
      BY DEF ObjectTypes, Ref, Identity
    <2>2. CASE ref.primaryKey = k
      <3>1. watch.on /\ ~ref.original
        BY <1>1, <2>1, <2>2
      <3> QED
        BY <1>1, <2>2, <3>1 DEF Matches
    <2>3. CASE ref.primaryKey # k
      <3>1. objects[ref.primaryKey] = awaited /\ awaited' = awaited
        BY <1>1, <2>1, <2>3
      <3> QED
        BY <1>1, <3>1 DEF Watched, Matches
    <2> QED
      BY <2>2, <2>3
  <1> QED
    BY <1>2, <1>5, <1>7, <1>8, <1>9

LEMMA Deleting ==
  ASSUME ObjectIInv, NEW k \in Keys, DeleteObject(k)
  PROVE  ObjectIInv'
  <1> USE DEF DeleteObject, ObjectIInv
  <1>1. /\ objects' \in [Keys -> Nat] /\ objects'[k] = None
        /\ \A j \in Keys \ {k} : objects'[j] = objects[j]
        /\ watch' \in [on: BOOLEAN, inserted: SUBSET Keys] /\ watch'.on = watch.on
        /\ watch'.inserted = watch.inserted \ {k}
    BY DEF ObjectTypes, None
  <1>2. ObjectTypes'
    BY <1>1 DEF ObjectTypes
  <1>3. Identity'
    BY <1>1 DEF Identity, Exists, ObjectTypes, None
  <1>4. ASSUME NEW n \in DOMAIN caches
        PROVE  Valid(caches[n])' => Valid(caches[n])
    BY <1>1, CurrentIsLast DEF Valid, None, Cache
  <1>5. Listening' /\ Held' /\ Current'
    <2>1. Held'
      BY <1>1 DEF Held
    <2>2. Current'
      BY DEF Current, Mounted
    <2>3. Listening'
      BY <1>4 DEF Listening, Mounted
    <2> QED
      BY <2>1, <2>2, <2>3
  <1>6. Renewal'
    <2>1. shown.cache # None /\ Mounted => shown.cache \in DOMAIN caches
      BY CurrentIsLast DEF ObjectTypes
    <2> QED
      BY <1>4, <2>1 DEF Renewal, Mounted
  <1>7. Watched'
    <2>1. ref.primaryKey \in Keys
      BY DEF ObjectTypes, Ref
    <2> QED
      BY <1>1, <2>1 DEF Watched, Mounted, Matches
  <1> QED
    BY <1>2, <1>3, <1>5, <1>6, <1>7

\* A change of an object is news for the cached objects of it that listen.
LEMMA Modifying ==
  ASSUME ObjectIInv, NEW k \in Keys, NEW parts \in SUBSET Parts, ModifyObject(k, parts)
  PROVE  ObjectIInv'
  <1> USE DEF ObjectIInv
  <1>0. Exists(k) /\ UNCHANGED <<born, objects, phase, primaryKey, asks, queued, ref, torn, watch, awaited>>
    BY DEF ModifyObject
  <1>1. ASSUME NEW n \in DOMAIN caches
        PROVE  /\ caches'[n] \in Cache
               /\ caches'[n].key = caches[n].key /\ caches'[n].id = caches[n].id
               /\ caches'[n].stage = caches[n].stage /\ caches'[n].late = caches[n].late
               /\ caches'[n].torn = caches[n].torn
               /\ caches'[n].listUpdated = caches[n].listUpdated
               /\ caches[n].news \subseteq caches'[n].news
               /\ caches[n].stage # "added" => caches'[n].news = caches[n].news
               /\ caches[n].listNews => caches'[n].listNews
               /\ "list" \in caches'[n].news /\ ~caches[n].torn =>
                    "list" \in caches[n].news \/ caches'[n].listNews
               /\ caches[n].id = objects[k] /\ caches[n].stage = "added" =>
                    /\ parts \subseteq caches'[n].news
                    /\ ~caches[n].torn /\ "list" \in parts => caches'[n].listNews
    <2> DEFINE c == caches[n]
               d == [c EXCEPT !.news = IF c.stage = "added" THEN @ \cup parts ELSE @,
                      !.listNews = @ \/ (c.stage = "added" /\ ~c.torn /\ "list" \in parts)]
    <2>1. caches'[n] = IF c.id # objects[k] THEN c ELSE d
      BY DEF ModifyObject
    <2>2. c \in Cache
      BY CurrentIsLast
    <2>3. /\ d \in Cache
          /\ d.key = c.key /\ d.id = c.id /\ d.stage = c.stage /\ d.late = c.late /\ d.torn = c.torn
          /\ d.listUpdated = c.listUpdated
          /\ d.news = IF c.stage = "added" THEN c.news \cup parts ELSE c.news
          /\ d.listNews = (c.listNews \/ (c.stage = "added" /\ ~c.torn /\ "list" \in parts))
      BY <2>2 DEF Cache
    <2> HIDE DEF d
    <2> QED
      BY <2>1, <2>2, <2>3
  <1>2. caches' \in Seq(Cache) /\ Len(caches') = Len(caches) /\ DOMAIN caches' = DOMAIN caches
    <2>1. caches \in Seq(Cache)
      BY DEF ObjectTypes
    <2>2. caches' = [n \in DOMAIN caches |-> caches'[n]]
      BY DEF ModifyObject
    <2> QED
      BY <1>1, <2>1, <2>2, Mapped
  <1>3. /\ shown' \in [cache: Nat, stale: SUBSET Parts] /\ shown'.cache = shown.cache
        /\ shown.cache = None => shown'.stale = shown.stale
        /\ shown.cache # None =>
             shown'.stale = IF caches[shown.cache].id = objects[k] THEN shown.stale \cup parts
                            ELSE shown.stale
    BY DEF ModifyObject, ObjectTypes
  <1>4. ObjectTypes'
    BY <1>0, <1>2, <1>3 DEF ObjectTypes
  <1>5. Identity'
    BY <1>0, <1>1, <1>2 DEF Identity, Exists
  <1>6. \A n \in DOMAIN caches : Valid(caches[n])' <=> Valid(caches[n])
    BY <1>0, <1>1 DEF Valid
  <1>7. Listening'
    BY <1>0, <1>1, <1>2, <1>6 DEF Listening, Mounted
  <1>8. Held' /\ Watched'
    <2>1. Mounted => ref.cached \in DOMAIN caches
      BY CurrentIsLast
    <2> QED
      BY <1>0, <1>1, <1>3, <2>1 DEF Held, Watched, Mounted, Matches
  <1>9. Current'
    BY <1>0, <1>1, CurrentIsLast DEF Current, Mounted
  <1>10. Renewal'
    <2> SUFFICES ASSUME Mounted, shown'.cache # None, ~caches'[shown'.cache].late
                 PROVE  (LET c == caches[shown.cache] IN
                         /\ c.stage = "added" \/ queued
                         /\ "scalar" \in shown.stale /\ Valid(c) =>
                              "scalar" \in c.news \/ (ref.updated /\ queued)
                         /\ "list" \in shown.stale /\ Valid(c) =>
                              c.listNews \/ (c.listUpdated /\ queued))'
      BY <1>0 DEF Renewal, Mounted
    <2>1. PICK n \in DOMAIN caches : n = shown.cache /\ n = ref.cached /\ shown'.cache = n
      BY <1>3, CurrentIsLast DEF ObjectTypes
    <2>2. ~caches[n].late /\ ~caches[n].torn
      BY <1>1, <2>1 DEF Listening
    <2>3. Valid(caches[n]) /\ ~queued => caches[n].stage = "added"
      BY <2>1, <2>2 DEF Renewal
    <2>4. Valid(caches[n]) => caches[n].stage = "added"
      BY <2>1, <2>2, CurrentIsLast DEF Listening, Cache, Stages
    <2>5. "scalar" \in shown'.stale =>
            "scalar" \in shown.stale \/ (caches[n].id = objects[k] /\ "scalar" \in parts)
      BY <1>3, <2>1
    <2>6. "list" \in shown'.stale =>
            "list" \in shown.stale \/ (caches[n].id = objects[k] /\ "list" \in parts)
      BY <1>3, <2>1
    <2>7. caches'[n].stage = "added" \/ queued
      BY <1>1, <2>1, <2>2 DEF Renewal
    <2>8. ASSUME "scalar" \in shown'.stale, Valid(caches[n])
          PROVE  "scalar" \in caches'[n].news \/ (ref.updated /\ queued)
      BY <1>1, <2>1, <2>2, <2>4, <2>5, <2>8 DEF Renewal
    <2>9. ASSUME "list" \in shown'.stale, Valid(caches[n])
          PROVE  caches'[n].listNews \/ (caches'[n].listUpdated /\ queued)
      BY <1>1, <2>1, <2>2, <2>4, <2>6, <2>9 DEF Renewal
    <2> QED
      BY <1>0, <1>6, <2>1, <2>7, <2>8, <2>9
  <1> QED
    BY <1>4, <1>5, <1>7, <1>8, <1>9, <1>10

\* The parent queues a render, for another key or not.
LEMMA Asking ==
  ASSUME ObjectIInv, ParentRenders \/ \E k \in Keys : AskFor(k)
  PROVE  ObjectIInv'
  <1> USE DEF ObjectIInv
  <1>1. /\ UNCHANGED <<born, objects, phase, ref, caches, torn, watch, shown, awaited>>
        /\ queued' = TRUE /\ primaryKey' \in Keys
    BY DEF ParentRenders, AskFor, ObjectTypes
  <1>2. ObjectTypes'
    BY <1>1 DEF ObjectTypes
  <1>3. Identity' /\ Listening' /\ Held'
    BY <1>1 DEF Identity, Listening, Held, Exists, Valid, Mounted
  <1>4. Current' /\ Renewal' /\ Watched'
    BY <1>1 DEF Current, Renewal, Watched, Valid, Mounted, Matches
  <1> QED
    BY <1>2, <1>3, <1>4

\* A listener that was put off is added at last, if its object still exists.
LEMMA RunningImmediates ==
  ASSUME ObjectIInv, NEW n \in DOMAIN caches, RunImmediates(n)
  PROVE  ObjectIInv'
  <1> USE DEF ObjectIInv
  <1>1. /\ caches[n].stage = "scheduled"
        /\ UNCHANGED <<born, objects, phase, primaryKey, queued, ref, torn, watch, shown, awaited>>
    BY DEF RunImmediates
  <1>2. /\ \A m \in DOMAIN caches \ {n} : caches'[m] = caches[m]
        /\ caches'[n] = [caches[n] EXCEPT !.stage = IF Valid(caches[n]) THEN "added" ELSE "none"]
        /\ DOMAIN caches' = DOMAIN caches
        /\ caches' \in Seq(Cache) /\ Len(caches') = Len(caches)
    <2>1. caches \in Seq(Cache)
      BY DEF ObjectTypes
    <2>2. [caches[n] EXCEPT !.stage = IF Valid(caches[n]) THEN "added" ELSE "none"] \in Cache
      BY CurrentIsLast DEF Cache, Stages
    <2> QED
      BY <2>1, <2>2 DEF RunImmediates
  <1>3. /\ caches'[n].key = caches[n].key /\ caches'[n].id = caches[n].id
        /\ caches'[n].late = caches[n].late /\ caches'[n].torn = caches[n].torn
        /\ caches'[n].news = caches[n].news /\ caches'[n].listNews = caches[n].listNews
        /\ caches'[n].stage \in {"added", "none"}
    BY <1>2, CurrentIsLast DEF Cache
  <1>4. caches[n].late
    BY <1>1 DEF Listening
  <1>5. ObjectTypes'
    BY <1>1, <1>2 DEF ObjectTypes
  <1>6. Identity' /\ Held' /\ Current'
    <2>1. \A m \in DOMAIN caches : caches'[m].key = caches[m].key /\ caches'[m].id = caches[m].id
      BY <1>2, <1>3
    <2>2. Mounted => ref.cached \in DOMAIN caches
      BY CurrentIsLast
    <2> QED
      BY <1>1, <1>2, <2>1, <2>2 DEF Identity, Held, Current, Exists, Mounted
  <1>7. Listening'
    <2>1. ASSUME NEW m \in DOMAIN caches
          PROVE  Valid(caches[m])' <=> Valid(caches[m])
      BY <1>1, <1>2, <1>3, ZenonT(30) DEF Valid
    <2>2. "list" \notin caches'[n].news
      BY <1>1, <1>3 DEF Listening
    <2>3. ASSUME NEW m \in DOMAIN caches, m # n
          PROVE  caches'[m] = caches[m]
      BY <1>2, <2>3
    <2>4. ASSUME NEW m \in DOMAIN caches
          PROVE  (LET c == caches[m] IN
                  /\ c.stage = "scheduled" => c.late
                  /\ c.stage = "none" /\ ~c.late => ~Valid(c)
                  /\ c.stage = "removed" => ~Valid(c)
                  /\ "list" \in c.news => c.stage = "added"
                  /\ "list" \in c.news /\ ~c.torn => c.listNews
                  /\ m = ref.cached /\ Mounted => ~c.torn
                  /\ c.stage = "added" /\ ~c.late =>
                       Mounted /\ (m = ref.cached \/ (phase = "committed" /\ m = torn)))'
      <3>1. CASE m = n
        BY <1>1, <1>3, <1>4, <2>2, <3>1 DEF Listening, Mounted
      <3>2. CASE m # n
        BY <1>1, <2>1, <2>3, <3>2 DEF Listening, Mounted
      <3> QED
        BY <3>1, <3>2
    <2> QED
      BY <1>2, <2>4 DEF Listening
  <1>8. Renewal' /\ Watched'
    <2>1. Mounted /\ shown.cache # None => shown.cache \in DOMAIN caches
      BY CurrentIsLast DEF ObjectTypes
    <2>2. Mounted => ref.cached \in DOMAIN caches
      BY CurrentIsLast
    <2>3. Watched'
      BY <1>1, <1>2, <1>3, <2>2 DEF Watched, Mounted, Matches
    <2>4. Renewal'
      BY <1>1, <1>2, <1>3, <1>4, <2>1 DEF Renewal, Mounted, Valid
    <2> QED
      BY <2>3, <2>4
  <1> QED
    BY <1>5, <1>6, <1>7, <1>8

\* The engine tells of changes: what it tells of is in the refs from then on, and a
\* render is queued for it.
LEMMA Advancing ==
  ASSUME ObjectIInv, Advance
  PROVE  ObjectIInv'
  <1> USE DEF ObjectIInv
  <1>1. ASSUME NEW n \in DOMAIN caches
        PROVE  /\ caches'[n] \in Cache
               /\ caches'[n].key = caches[n].key /\ caches'[n].id = caches[n].id
               /\ caches'[n].late = caches[n].late /\ caches'[n].torn = caches[n].torn
               /\ caches'[n].news = IF Told(caches[n]) THEN {} ELSE caches[n].news
               /\ caches'[n].listNews = FALSE
               /\ caches'[n].listUpdated = (caches[n].listUpdated \/ caches[n].listNews)
               /\ caches'[n].stage = IF Told(caches[n]) /\ ~Valid(caches[n]) THEN "removed"
                                     ELSE caches[n].stage
    <2>1. caches[n] \in Cache
      BY CurrentIsLast
    <2>2. caches'[n] = [caches[n] EXCEPT
             !.news = IF Told(caches[n]) THEN {} ELSE caches[n].news,
             !.listNews = FALSE,
             !.listUpdated = caches[n].listUpdated \/ caches[n].listNews,
             !.stage = IF Told(caches[n]) /\ ~Valid(caches[n]) THEN "removed" ELSE caches[n].stage]
      BY DEF Advance, ListTold
    <2> QED
      BY <2>1, <2>2 DEF Cache, Stages
  <1>2. caches' \in Seq(Cache) /\ Len(caches') = Len(caches) /\ DOMAIN caches' = DOMAIN caches
    <2>1. caches \in Seq(Cache)
      BY DEF ObjectTypes
    <2>2. caches' = [n \in DOMAIN caches |-> caches'[n]]
      BY DEF Advance
    <2> QED
      BY <1>1, <2>1, <2>2, Mapped
  <1>3. /\ UNCHANGED <<born, objects, phase, primaryKey, torn, shown, awaited>>
        /\ queued' \in BOOLEAN /\ (queued => queued')
        /\ Mounted /\ Matches => queued'
        /\ Mounted => \A n \in DOMAIN caches : Rerenders(caches[n]) => queued'
    BY DEF Advance, ObjectTypes, Mounted
  <1>4. /\ ref' \in Ref /\ ref'.primaryKey = ref.primaryKey /\ ref'.original = ref.original
        /\ ref'.cached = ref.cached /\ (ref.updated => ref'.updated)
        /\ \A n \in DOMAIN caches : Told(caches[n]) => ref'.updated
    <2>1. ref \in Ref
      BY DEF ObjectTypes
    <2>2. ref' = [ref EXCEPT !.updated = ref.updated \/ \E n \in DOMAIN caches : Told(caches[n])]
      BY DEF Advance
    <2> QED
      BY <2>1, <2>2 DEF Ref
  <1>5. watch' \in [on: BOOLEAN, inserted: SUBSET Keys] /\ (watch'.on => watch.on)
    BY DEF Advance, ObjectTypes, NoWatch
  <1>6. ObjectTypes'
    BY <1>2, <1>3, <1>4, <1>5 DEF ObjectTypes
  <1>7. Identity' /\ Held' /\ Current'
    <2>1. Identity'
      BY <1>1, <1>2, <1>3, ZenonT(30) DEF Identity, Exists
    <2>2. Held'
      BY <1>3, <1>4, <1>5 DEF Held
    <2>3. Current'
      BY <1>1, <1>3, <1>4, CurrentIsLast DEF Current, Mounted
    <2> QED
      BY <2>1, <2>2, <2>3
  <1>8. \A n \in DOMAIN caches : Valid(caches[n])' <=> Valid(caches[n])
    BY <1>1, <1>3 DEF Valid
  <1>9. Listening'
    <2>1. ASSUME NEW n \in DOMAIN caches, "list" \in caches'[n].news
          PROVE  FALSE
      <3>1. ~Told(caches[n]) /\ "list" \in caches[n].news
        BY <1>1, <2>1
      <3> QED
        BY <3>1 DEF Listening, Told
    <2>2. \A n \in DOMAIN caches :
            \/ caches'[n].stage = caches[n].stage
            \/ caches'[n].stage = "removed" /\ ~Valid(caches[n])
      BY <1>1
    <2>3. ASSUME NEW n \in DOMAIN caches
          PROVE  (LET c == caches[n] IN
                  /\ c.stage = "scheduled" => c.late
                  /\ c.stage = "none" /\ ~c.late => ~Valid(c)
                  /\ c.stage = "removed" => ~Valid(c)
                  /\ "list" \in c.news => c.stage = "added"
                  /\ "list" \in c.news /\ ~c.torn => c.listNews
                  /\ n = ref.cached /\ Mounted => ~c.torn
                  /\ c.stage = "added" /\ ~c.late =>
                       Mounted /\ (n = ref.cached \/ (phase = "committed" /\ n = torn)))'
      <3>1. /\ caches'[n].late = caches[n].late /\ caches'[n].torn = caches[n].torn
            /\ phase' = phase /\ torn' = torn /\ ref'.cached = ref.cached
            /\ Valid(caches[n])' <=> Valid(caches[n])
        BY <1>1, <1>3, <1>4, <1>8
      <3>2. CASE caches'[n].stage = caches[n].stage
        BY <2>1, <3>1, <3>2 DEF Listening, Mounted
      <3>3. CASE caches'[n].stage = "removed" /\ ~Valid(caches[n])
        BY <2>1, <3>1, <3>3 DEF Listening, Mounted
      <3> QED
        BY <2>2, <3>2, <3>3
    <2> QED
      BY <1>2, <2>3 DEF Listening
  <1>10. Renewal'
    <2> SUFFICES ASSUME Mounted, shown.cache # None, ~caches'[shown.cache].late
                 PROVE  (LET c == caches[shown.cache] IN
                         /\ c.stage = "added" \/ queued
                         /\ "scalar" \in shown.stale /\ Valid(c) =>
                              "scalar" \in c.news \/ (ref.updated /\ queued)
                         /\ "list" \in shown.stale /\ Valid(c) =>
                              c.listNews \/ (c.listUpdated /\ queued))'
      BY <1>3 DEF Renewal, Mounted
    <2>1. PICK n \in DOMAIN caches : n = shown.cache /\ n = ref.cached
      BY CurrentIsLast DEF ObjectTypes
    <2>2. ~caches[n].late /\ ~caches[n].torn
      BY <1>1, <2>1 DEF Listening
    <2>3. Valid(caches[n]) => caches[n].stage = "added"
      BY <2>1, <2>2, CurrentIsLast DEF Listening, Cache, Stages
    <2>4. caches'[n].stage = "added" \/ queued'
      <3>1. CASE Told(caches[n]) /\ ~Valid(caches[n])
        BY <1>3, <3>1 DEF Rerenders, ObjectRerenders
      <3>2. CASE ~(Told(caches[n]) /\ ~Valid(caches[n]))
        BY <1>1, <1>3, <2>1, <2>2, <3>2 DEF Renewal
      <3> QED
        BY <3>1, <3>2
    <2>5. ASSUME "scalar" \in shown.stale, Valid(caches[n])
          PROVE  ref'.updated /\ queued'
      <3>1. CASE ref.updated /\ queued
        BY <1>3, <1>4, <3>1
      <3>2. CASE "scalar" \in caches[n].news
        <4>1. Told(caches[n])
          BY <2>3, <2>5, <3>2 DEF Told
        <4>2. Rerenders(caches[n])
          BY <2>2, <3>2, <4>1 DEF Rerenders, ObjectRerenders, ListTold, Listening
        <4> QED
          BY <1>3, <1>4, <4>1, <4>2
      <3> QED
        BY <2>1, <2>2, <2>5, <3>1, <3>2 DEF Renewal
    <2>6. ASSUME "list" \in shown.stale, Valid(caches[n])
          PROVE  caches'[n].listUpdated /\ queued'
      <3>1. CASE caches[n].listUpdated /\ queued
        BY <1>1, <1>3, <3>1
      <3>2. CASE caches[n].listNews
        BY <1>1, <1>3, <3>2 DEF Rerenders, ListTold
      <3> QED
        BY <2>1, <2>2, <2>6, <3>1, <3>2 DEF Renewal
    <2> QED
      BY <1>3, <1>8, <2>1, <2>4, <2>5, <2>6
  <1>11. Watched'
    <2> SUFFICES ASSUME Mounted, awaited # None, objects[ref.primaryKey] = awaited
                 PROVE  \/ ref.original /\ caches'[ref.cached].id = awaited /\ shown.cache = ref.cached
                        \/ ~ref.original /\ queued'
      BY <1>3, <1>4 DEF Watched, Mounted
    <2> QED
      BY <1>1, <1>3, CurrentIsLast DEF Watched
  <1> QED
    BY <1>6, <1>7, <1>9, <1>10, <1>11

\* A cached object is one of the object that has its key by now, if any.
LEMMA Fresh ==
  ASSUME ObjectIInv, NEW k \in Keys, NEW late \in BOOLEAN
  PROVE  LET c == CachedObject(k, late) IN
         /\ c \in Cache
         /\ c.key = k /\ c.id = objects[k] /\ c.late = late /\ ~c.torn
         /\ c.news = {"initial"} /\ c.listUpdated
         /\ c.stage \in {"none", "scheduled", "added"}
         /\ c.stage = "none" <=> ~Exists(k)
         /\ c.stage = "scheduled" => late
         /\ ~late /\ Exists(k) => c.stage = "added"
         /\ Valid(c) <=> Exists(k)
  <1> DEFINE stage == IF ~Exists(k) THEN "none" ELSE IF late THEN "scheduled" ELSE "added"
  <1>1. objects[k] \in Nat
    BY DEF ObjectIInv, ObjectTypes
  <1>2. /\ stage \in {"none", "scheduled", "added"}
        /\ stage = "none" <=> ~Exists(k)
        /\ stage = "scheduled" => late
        /\ ~late /\ Exists(k) => stage = "added"
    OBVIOUS
  <1>3. CachedObject(k, late) =
          [key |-> k, id |-> objects[k], stage |-> stage, torn |-> FALSE, late |-> late,
           news |-> {"initial"}, listNews |-> FALSE, listUpdated |-> TRUE]
    BY DEF CachedObject
  <1> HIDE DEF stage
  <1> QED
    BY <1>1, <1>2, <1>3 DEF Cache, Stages, Valid, Exists

\* The first render, or one that re-instantiates, makes a cached object and shows it.
LEMMA Instantiating ==
  ASSUME ObjectIInv, NEW late \in BOOLEAN,
         phase \in {"unmounted", "idle"}, phase' = "committed",
         Returns([primaryKey |-> primaryKey, original |-> Exists(primaryKey),
                  cached |-> Len(caches) + 1, updated |-> TRUE],
                 Append(caches, CachedObject(primaryKey, late))),
         queued' \in BOOLEAN,
         UNCHANGED <<born, objects, primaryKey, torn, watch, awaited>>
  PROVE  ObjectIInv'
  <1> DEFINE new == CachedObject(primaryKey, late)
             all == Append(caches, new)
             N == Len(caches) + 1
             r == [primaryKey |-> primaryKey, original |-> Exists(primaryKey),
                   cached |-> N, updated |-> TRUE]
  <1> USE DEF ObjectIInv
  <1>1. /\ caches \in Seq(Cache) /\ Len(caches) \in Nat /\ primaryKey \in Keys
        /\ DOMAIN caches = 1 .. Len(caches)
    BY CurrentIsLast DEF ObjectTypes
  <1>2. /\ new \in Cache
        /\ new.key = primaryKey /\ new.id = objects[primaryKey] /\ new.late = late /\ ~new.torn
        /\ new.news = {"initial"} /\ new.listUpdated
        /\ new.stage \in {"none", "scheduled", "added"}
        /\ new.stage = "none" <=> ~Exists(primaryKey)
        /\ new.stage = "scheduled" => late
        /\ ~late /\ Exists(primaryKey) => new.stage = "added"
        /\ Valid(new) <=> Exists(primaryKey)
    BY <1>1, Fresh
  <1> HIDE DEF new
  <1>3. /\ all \in Seq(Cache) /\ Len(all) = N /\ all[N] = new
        /\ \A n \in DOMAIN caches : all[n] = caches[n]
        /\ DOMAIN all = 1 .. N /\ N \in Nat /\ N \in 1 .. N
        /\ DOMAIN caches = (1 .. N) \ {N}
    BY <1>1, <1>2
  <1>4. /\ r.primaryKey = primaryKey /\ r.original = Exists(primaryKey) /\ r.cached = N
        /\ r.updated = TRUE /\ r \in Ref
    BY <1>1, <1>3 DEF Ref, Exists
  <1>5. Returns(r, all)
    BY DEF new
  <1> HIDE DEF all, r
  <1>6. \/ /\ ~Exists(primaryKey)
           /\ shown' = Nothing /\ ref' = r /\ caches' = all
        \/ /\ Exists(primaryKey)
           /\ shown' = [cache |-> N, stale |-> shown.stale \ {"scalar", "list"}]
           /\ ref' = [r EXCEPT !.updated = FALSE]
           /\ caches' = [all EXCEPT ![N].listUpdated = FALSE]
    <2>1. all[r.cached] = new
      BY <1>3, <1>4
    <2>2. CASE ~Exists(primaryKey)
      BY <1>2, <1>5, <2>1, <2>2 DEF Returns
    <2>3. CASE Exists(primaryKey)
      <3>1. shown' = [cache |-> r.cached,
                      stale |-> shown.stale \ ((IF r.updated THEN {"scalar"} ELSE {}) \cup
                                                (IF new.listUpdated THEN {"list"} ELSE {}))]
            /\ ref' = [r EXCEPT !.updated = FALSE]
            /\ caches' = [all EXCEPT ![r.cached].listUpdated = FALSE]
        BY <1>2, <1>5, <2>1, <2>3 DEF Returns
      <3>2. ((IF r.updated THEN {"scalar"} ELSE {}) \cup (IF new.listUpdated THEN {"list"} ELSE {}))
              = {"scalar", "list"}
        BY <1>2, <1>4
      <3> QED
        BY <1>4, <2>3, <3>1, <3>2
    <2> QED
      BY <2>2, <2>3
  <1>7. /\ shown' \in [cache: Nat, stale: SUBSET Parts] /\ shown'.stale = {}
        /\ shown'.cache = IF Exists(primaryKey) THEN N ELSE None
    BY <1>3, <1>6 DEF Nothing, None, Parts, ObjectTypes
  <1>8. /\ ref' \in Ref /\ ref'.primaryKey = primaryKey /\ ref'.original = Exists(primaryKey)
        /\ ref'.cached = N
    BY <1>4, <1>6 DEF Ref
  <1>9. /\ caches' \in Seq(Cache) /\ Len(caches') = N /\ DOMAIN caches' = 1 .. N
        /\ \A n \in DOMAIN caches : caches'[n] = caches[n]
        /\ caches'[N].key = primaryKey /\ caches'[N].id = objects[primaryKey]
        /\ caches'[N].late = late /\ caches'[N].stage = new.stage
        /\ caches'[N].torn = FALSE /\ caches'[N].news = {"initial"}
    <2>1. CASE caches' = all
      BY <1>2, <1>3, <2>1 DEF Cache
    <2>2. CASE caches' = [all EXCEPT ![N].listUpdated = FALSE]
      <3>1. [new EXCEPT !.listUpdated = FALSE] \in Cache
        BY <1>2 DEF Cache
      <3>2. /\ caches' \in Seq(Cache) /\ Len(caches') = N /\ DOMAIN caches' = 1 .. N
            /\ caches'[N] = [new EXCEPT !.listUpdated = FALSE]
            /\ \A n \in DOMAIN caches : caches'[n] = all[n]
        BY <1>3, <2>2, <3>1
      <3>3. LET d == [new EXCEPT !.listUpdated = FALSE] IN
            /\ d.key = new.key /\ d.id = new.id /\ d.late = new.late /\ d.stage = new.stage
            /\ d.torn = new.torn /\ d.news = new.news
        BY <1>2 DEF Cache
      <3>4. new.torn = FALSE
        BY <1>2 DEF Cache
      <3> QED
        BY <1>2, <1>3, <3>2, <3>3, <3>4
    <2> QED
      BY <1>6, <2>1, <2>2
  <1>10. torn \in Nat /\ torn <= Len(caches) /\ torn = N - 1
    <2>1. torn \in Nat /\ torn <= Len(caches) /\ ref.cached = Len(caches)
      BY DEF ObjectTypes
    <2>2. CASE phase = "idle"
      BY <1>1, <2>1, <2>2 DEF Held
    <2>3. CASE phase = "unmounted"
      <3>1. Len(caches) = 0
        BY <2>3 DEF ObjectTypes
      <3> QED
        BY <2>1, <3>1
    <2> QED
      BY <2>2, <2>3
  <1>11. ObjectTypes'
    <2>1. caches' # <<>>
      BY <1>9, <1>3
    <2> QED
      BY <1>3, <1>7, <1>8, <1>9, <1>10, <2>1 DEF ObjectTypes
  <1>12. Identity'
    <2>1. ASSUME NEW n \in 1 .. N
          PROVE  /\ caches'[n].id <= born
                 /\ \A k \in Keys : Exists(k) /\ objects[k] = caches'[n].id => k = caches'[n].key
      <3>1. CASE n = N
        BY <1>1, <1>9, <3>1 DEF Identity, Exists
      <3>2. CASE n # N
        BY <1>3, <1>9, <3>2 DEF Identity
      <3> QED
        BY <3>1, <3>2
    <2> QED
      BY <1>9, <2>1 DEF Identity, Exists
  <1>13. Held'
    BY <1>8, <1>10 DEF Held
  <1>14. Current'
    BY <1>8, <1>9 DEF Current
  <1>15. Listening'
    <2>1. ASSUME NEW n \in 1 .. N
          PROVE  (LET c == caches[n] IN
                  /\ c.stage = "scheduled" => c.late
                  /\ c.stage = "none" /\ ~c.late => ~Valid(c)
                  /\ c.stage = "removed" => ~Valid(c)
                  /\ "list" \in c.news => c.stage = "added"
                  /\ "list" \in c.news /\ ~c.torn => c.listNews
                  /\ n = ref.cached /\ Mounted => ~c.torn
                  /\ c.stage = "added" /\ ~c.late =>
                       Mounted /\ (n = ref.cached \/ (phase = "committed" /\ n = torn)))'
      <3>1. CASE n = N
        BY <1>2, <1>8, <1>9, <3>1 DEF Mounted, Valid, Exists
      <3>2. CASE n # N
        <4>1. n \in DOMAIN caches /\ caches'[n] = caches[n]
          BY <1>3, <1>9, <3>2
        <4>2. n = ref.cached => torn = n
          BY <1>3, <1>10, <4>1 DEF ObjectTypes
        <4> QED
          BY <1>8, <3>2, <4>1, <4>2 DEF Mounted, Listening, Valid
      <3> QED
        BY <3>1, <3>2
    <2> QED
      BY <1>9, <2>1 DEF Listening
  <1>16. Renewal'
    BY <1>2, <1>7, <1>9 DEF Renewal
  <1>17. Watched'
    BY <1>7, <1>8, <1>9 DEF Watched, Exists
  <1> QED
    BY <1>11, <1>12, <1>13, <1>14, <1>15, <1>16, <1>17

\* A render with the cached object of the one before shows it as long as it is valid,
\* and renews what the refs have noted.
LEMMA Rerendering ==
  ASSUME ObjectIInv, phase = "idle", phase' = "committed", ~Reinstantiates,
         Returns(ref, caches), queued' = FALSE,
         UNCHANGED <<born, objects, primaryKey, torn, watch, awaited>>
  PROVE  ObjectIInv'
  <1> USE DEF ObjectIInv
  <1>1. PICK m \in DOMAIN caches : m = ref.cached
    BY CurrentIsLast DEF Mounted
  <1>2. /\ ref \in Ref /\ caches \in Seq(Cache) /\ caches[m] \in Cache
        /\ torn = m /\ primaryKey = ref.primaryKey
    BY <1>1, CurrentIsLast DEF ObjectTypes, Held, Reinstantiates
  <1>3. CASE ~Valid(caches[m])
    <2>1. shown' = Nothing /\ ref' = ref /\ caches' = caches
      BY <1>1, <1>3 DEF Returns
    <2>2. ObjectTypes'
      BY <2>1 DEF ObjectTypes, Nothing, None
    <2>3. Identity' /\ Held' /\ Current'
      BY <1>1, <1>2, <2>1 DEF Identity, Held, Current, Exists, Mounted
    <2>4. Listening'
      BY <1>1, <1>2, <2>1 DEF Listening, Mounted, Valid
    <2>5. Renewal'
      BY <2>1 DEF Renewal, Nothing
    <2>6. Watched'
      <3>1. ref.original \/ ~Exists(primaryKey)
        BY DEF Reinstantiates
      <3>2. ASSUME awaited # None, objects[ref.primaryKey] = awaited
            PROVE  FALSE
        <4>1. caches[m].id = awaited
          BY <1>1, <1>2, <3>1, <3>2 DEF Watched, Mounted, Exists
        <4> QED
          BY <1>1, <1>3, <3>2, <4>1 DEF Valid, Current, Mounted
      <3> QED
        BY <2>1, <3>2 DEF Watched
    <2> QED
      BY <2>2, <2>3, <2>4, <2>5, <2>6
  <1>4. CASE Valid(caches[m])
    <2>1. /\ shown' = [cache |-> m,
                       stale |-> shown.stale \ ((IF ref.updated THEN {"scalar"} ELSE {}) \cup
                                                 (IF caches[m].listUpdated THEN {"list"} ELSE {}))]
          /\ ref' = [ref EXCEPT !.updated = FALSE]
          /\ caches' = [caches EXCEPT ![m].listUpdated = FALSE]
      BY <1>1, <1>4 DEF Returns
    <2>2. /\ shown' \in [cache: Nat, stale: SUBSET Parts] /\ shown'.cache = m
          /\ shown'.stale \subseteq shown.stale
          /\ "scalar" \in shown'.stale => ~ref.updated
          /\ "list" \in shown'.stale => ~caches[m].listUpdated
      BY <1>1, <2>1 DEF ObjectTypes
    <2>3. /\ ref' \in Ref /\ ref'.primaryKey = ref.primaryKey /\ ref'.original = ref.original
          /\ ref'.cached = m
      BY <1>1, <1>2, <2>1 DEF Ref
    <2>4. [caches[m] EXCEPT !.listUpdated = FALSE] \in Cache
      BY <1>2 DEF Cache
    <2>5. /\ caches' \in Seq(Cache) /\ Len(caches') = Len(caches) /\ DOMAIN caches' = DOMAIN caches
          /\ caches'[m] = [caches[m] EXCEPT !.listUpdated = FALSE]
          /\ \A n \in DOMAIN caches : n # m => caches'[n] = caches[n]
      BY <1>2, <2>1, <2>4
    <2>6. /\ caches'[m].key = caches[m].key /\ caches'[m].id = caches[m].id
          /\ caches'[m].stage = caches[m].stage /\ caches'[m].late = caches[m].late
          /\ caches'[m].torn = caches[m].torn /\ caches'[m].news = caches[m].news
          /\ caches'[m].listNews = caches[m].listNews
      BY <1>2, <2>5 DEF Cache
    <2>7. ASSUME NEW n \in DOMAIN caches
          PROVE  /\ caches'[n].key = caches[n].key /\ caches'[n].id = caches[n].id
                 /\ caches'[n].stage = caches[n].stage /\ caches'[n].late = caches[n].late
                 /\ caches'[n].torn = caches[n].torn /\ caches'[n].news = caches[n].news
                 /\ caches'[n].listNews = caches[n].listNews
                 /\ Valid(caches[n])' <=> Valid(caches[n])
      <3>1. CASE n = m
        BY <2>6, <3>1 DEF Valid
      <3>2. CASE n # m
        BY <2>5, <3>2 DEF Valid
      <3> QED
        BY <3>1, <3>2
    <2>8. ObjectTypes'
      <3>1. caches' # <<>> /\ m \in Nat
        BY <1>1, <2>5
      <3> QED
        BY <1>1, <2>2, <2>3, <2>5, <3>1 DEF ObjectTypes, None
    <2>9. Identity' /\ Held' /\ Current'
      <3>1. Identity'
        BY <2>5, <2>7 DEF Identity, Exists
      <3>2. Held' /\ Current'
        BY <1>1, <1>2, <2>3, <2>7 DEF Held, Current, Mounted
      <3> QED
        BY <3>1, <3>2
    <2>10. Listening'
      BY <1>1, <1>2, <2>3, <2>5, <2>7 DEF Listening, Mounted
    <2>11. caches[m].late \/ caches[m].stage = "added"
      BY <1>2, <1>4 DEF Listening, Cache, Stages
    <2>12. Renewal'
      <3>1. shown.stale # {} => shown.cache = m /\ shown.cache # None
        BY <1>1 DEF ObjectTypes
      <3>2. ASSUME ~caches[m].late, "scalar" \in shown'.stale
            PROVE  "scalar" \in caches'[m].news
        BY <1>1, <1>4, <2>2, <2>6, <3>1, <3>2 DEF Renewal, Mounted
      <3>3. ASSUME ~caches[m].late, "list" \in shown'.stale
            PROVE  caches'[m].listNews
        BY <1>1, <1>4, <2>2, <2>6, <3>1, <3>3 DEF Renewal, Mounted
      <3> QED
        BY <2>2, <2>6, <2>11, <3>2, <3>3 DEF Renewal
    <2>13. Watched'
      <3>1. ref.original \/ ~Exists(primaryKey)
        BY DEF Reinstantiates
      <3> QED
        BY <1>1, <1>2, <2>2, <2>3, <2>6, <3>1 DEF Watched, Mounted, Exists
    <2> QED
      BY <2>8, <2>9, <2>10, <2>12, <2>13
  <1> QED
    BY <1>3, <1>4

\* A cached object that is torn down has no listener, unless it is yet to be added.
LEMMA TearingDown ==
  ASSUME ObjectIInv, NEW m \in DOMAIN caches, phase' \in {"idle", "gone"},
         caches' = [caches EXCEPT ![m] = TornDown(@)],
         UNCHANGED <<born, objects>>
  PROVE  /\ caches' \in Seq(Cache) /\ Len(caches') = Len(caches) /\ DOMAIN caches' = DOMAIN caches
         /\ \A n \in DOMAIN caches \ {m} : caches'[n] = caches[n]
         /\ caches'[m].key = caches[m].key /\ caches'[m].late = caches[m].late
         /\ caches'[m].id \in {caches[m].id, None}
         /\ caches'[m].stage = "scheduled" => caches'[m].late /\ caches'[m].id = caches[m].id
         /\ caches'[m].stage \in {"scheduled", "removed"}
         /\ caches'[m].stage = "removed" => caches'[m].id = None
         /\ "list" \notin caches'[m].news
  <1> USE DEF ObjectIInv
  <1>1. caches \in Seq(Cache) /\ caches[m] \in Cache
    BY CurrentIsLast DEF ObjectTypes
  <1> DEFINE d == TornDown(caches[m])
  <1>2. CASE caches[m].stage = "scheduled"
    <2>1. d = [caches[m] EXCEPT !.torn = TRUE]
      BY <1>2 DEF TornDown
    <2>2. /\ d \in Cache /\ d.key = caches[m].key /\ d.late = caches[m].late /\ d.id = caches[m].id
          /\ d.stage = "scheduled" /\ d.news = caches[m].news
      BY <1>1, <1>2, <2>1 DEF Cache
    <2>3. caches[m].late /\ "list" \notin caches[m].news
      BY <1>2 DEF Listening
    <2> HIDE DEF d
    <2>4. caches' = [caches EXCEPT ![m] = d]
      BY DEF d
    <2>5. /\ caches' \in Seq(Cache) /\ Len(caches') = Len(caches) /\ DOMAIN caches' = DOMAIN caches
          /\ caches'[m] = d /\ \A n \in DOMAIN caches \ {m} : caches'[n] = caches[n]
      BY <1>1, <2>2, <2>4
    <2> QED
      BY <2>2, <2>3, <2>5
  <1>3. CASE caches[m].stage # "scheduled"
    <2>1. d = [caches[m] EXCEPT !.torn = TRUE, !.stage = "removed", !.id = None, !.news = {},
                                !.listNews = FALSE, !.listUpdated = FALSE]
      BY <1>3 DEF TornDown
    <2>2. d = [key |-> caches[m].key, id |-> 0, stage |-> "removed", torn |-> TRUE,
               late |-> caches[m].late, news |-> {}, listNews |-> FALSE, listUpdated |-> FALSE]
      BY <1>1, <2>1 DEF Cache, None
    <2>4. caches[m].key \in Keys /\ caches[m].late \in BOOLEAN
      BY <1>1 DEF Cache
    <2>5. /\ d \in Cache /\ d.key = caches[m].key /\ d.late = caches[m].late /\ d.id = None
          /\ d.stage = "removed" /\ d.news = {}
      BY <2>2, <2>4 DEF Cache, Stages, None
    <2> HIDE DEF d
    <2>3. caches' = [caches EXCEPT ![m] = d]
      BY DEF d
    <2>6. /\ caches' \in Seq(Cache) /\ Len(caches') = Len(caches) /\ DOMAIN caches' = DOMAIN caches
          /\ caches'[m] = d /\ \A n \in DOMAIN caches \ {m} : caches'[n] = caches[n]
      BY <1>1, <2>3, <2>5
    <2> QED
      BY <2>5, <2>6
  <1> QED
    BY <1>2, <1>3

\* ... and is never valid again, nor another's.
LEMMA TornDownStays ==
  ASSUME ObjectIInv, NEW m \in DOMAIN caches, phase' \in {"idle", "gone"},
         caches' = [caches EXCEPT ![m] = TornDown(@)],
         UNCHANGED <<born, objects, awaited>>
  PROVE  /\ Identity'
         /\ \A n \in DOMAIN caches :
              (LET c == caches[n] IN
               /\ c.stage = "scheduled" => c.late
               /\ c.stage = "none" /\ ~c.late => ~Valid(c)
               /\ c.stage = "removed" => ~Valid(c)
               /\ "list" \in c.news => c.stage = "added"
               /\ "list" \in c.news /\ ~c.torn => c.listNews)'
  <1> USE DEF ObjectIInv
  <1>1. /\ DOMAIN caches' = DOMAIN caches
        /\ \A n \in DOMAIN caches \ {m} : caches'[n] = caches[n]
        /\ caches'[m].key = caches[m].key /\ caches'[m].late = caches[m].late
        /\ caches'[m].id \in {caches[m].id, None}
        /\ caches'[m].stage = "scheduled" => caches'[m].late /\ caches'[m].id = caches[m].id
        /\ caches'[m].stage \in {"scheduled", "removed"}
        /\ caches'[m].stage = "removed" => caches'[m].id = None
        /\ "list" \notin caches'[m].news
    BY TearingDown
  <1>2. ASSUME NEW n \in DOMAIN caches
        PROVE  /\ caches'[n].key = caches[n].key
               /\ caches'[n].id = caches[n].id \/ caches'[n].id = None
    BY <1>1
  <1>3. Identity'
    <2>1. ASSUME NEW n \in DOMAIN caches
          PROVE  /\ caches'[n].id <= born
                 /\ \A k \in Keys : Exists(k) /\ objects[k] = caches'[n].id => k = caches'[n].key
      <3>1. caches[n].id <= born /\ None <= born
        BY DEF Identity, None, ObjectTypes
      <3>2. \A k \in Keys : Exists(k) /\ objects[k] = caches[n].id => k = caches[n].key
        BY DEF Identity
      <3> QED
        BY <1>2, <3>1, <3>2 DEF Exists
    <2> QED
      BY <1>1, <2>1 DEF Identity, Exists
  <1>4. ASSUME NEW n \in DOMAIN caches
        PROVE  (LET c == caches[n] IN
                /\ c.stage = "scheduled" => c.late
                /\ c.stage = "none" /\ ~c.late => ~Valid(c)
                /\ c.stage = "removed" => ~Valid(c)
                /\ "list" \in c.news => c.stage = "added"
                /\ "list" \in c.news /\ ~c.torn => c.listNews)'
    <2>1. CASE n = m
      BY <1>1, <2>1 DEF Valid
    <2>2. CASE n # m
      BY <1>1, <2>2 DEF Valid, Listening
    <2> QED
      BY <2>1, <2>2
  <1> QED
    BY <1>3, <1>4

\* The effects of a commit tear down the cached object that has been replaced.
LEMMA FlushingEffects ==
  ASSUME ObjectIInv, ObjectEffects
  PROVE  ObjectIInv'
  <1> USE DEF ObjectIInv
  <1>1. /\ phase = "committed" /\ phase' = "idle" /\ torn' = ref.cached
        /\ UNCHANGED <<born, objects, primaryKey, queued, ref, shown, awaited>>
        /\ watch' \in [on: BOOLEAN, inserted: SUBSET Keys]
        /\ torn # None => watch' = watch
    BY DEF ObjectEffects, ObjectTypes
  <1>2. PICK m \in DOMAIN caches : m = ref.cached
    BY <1>1, CurrentIsLast DEF Mounted
  <1>3. m # None /\ m \in Nat /\ caches # <<>> /\ caches \in Seq(Cache) /\ ref.cached = Len(caches)
    BY <1>2, CurrentIsLast DEF None, ObjectTypes
  <1>4. /\ caches' \in Seq(Cache) /\ Len(caches') = Len(caches) /\ DOMAIN caches' = DOMAIN caches
        /\ caches'[m] = caches[m]
        /\ Identity'
        /\ \A n \in DOMAIN caches :
              (LET c == caches[n] IN
               /\ c.stage = "scheduled" => c.late
               /\ c.stage = "none" /\ ~c.late => ~Valid(c)
               /\ c.stage = "removed" => ~Valid(c)
               /\ "list" \in c.news => c.stage = "added"
               /\ "list" \in c.news /\ ~c.torn => c.listNews)'
        /\ \A n \in DOMAIN caches : caches'[n].stage = "added" /\ ~caches'[n].late => n = m
    <2>1. CASE torn \in {None, ref.cached}
      <3>1. caches' = caches
        BY <2>1 DEF ObjectEffects, Replaced
      <3>2. ASSUME NEW n \in DOMAIN caches, caches[n].stage = "added", ~caches[n].late
            PROVE  n = m
        <4>1. n # None
          BY CurrentIsLast DEF None
        <4> QED
          BY <1>2, <2>1, <3>2, <4>1 DEF Listening
      <3> QED
        BY <1>1, <1>3, <3>1, <3>2 DEF Identity, Listening, Exists, Valid
    <2>2. CASE torn \notin {None, ref.cached}
      <3>1. torn \in DOMAIN caches
        <4>1. torn \in Nat /\ torn <= Len(caches) /\ torn # 0
          BY <2>2 DEF ObjectTypes, None
        <4> QED
          BY <4>1, CurrentIsLast
      <3>2. PICK t \in DOMAIN caches : t = torn
        BY <3>1
      <3>3. caches' = [caches EXCEPT ![t] = TornDown(@)]
        BY <2>2, <3>2 DEF ObjectEffects, Replaced
      <3>4. /\ caches' \in Seq(Cache) /\ Len(caches') = Len(caches)
            /\ DOMAIN caches' = DOMAIN caches
            /\ \A n \in DOMAIN caches \ {t} : caches'[n] = caches[n]
            /\ caches'[t].stage \in {"scheduled", "removed"}
        BY <1>1, <3>3, TearingDown
      <3>5. ASSUME NEW n \in DOMAIN caches, caches'[n].stage = "added", ~caches'[n].late
            PROVE  n = m
        BY <1>2, <3>2, <3>4, <3>5 DEF Listening
      <3>6. caches'[m] = caches[m]
        BY <1>2, <2>2, <3>2, <3>4
      <3> QED
        BY <1>1, <3>3, <3>4, <3>5, <3>6, TornDownStays
    <2> QED
      BY <2>1, <2>2
  <1>5. ObjectTypes'
    <2>1. caches' # <<>>
      BY <1>3, <1>4
    <2> QED
      BY <1>1, <1>3, <1>4, <2>1 DEF ObjectTypes
  <1>6. Held' /\ Current'
    BY <1>1, <1>2, <1>3, <1>4 DEF Held, Current, Mounted
  <1>7. Listening'
    <2>1. ~caches[m].torn
      BY <1>1, <1>2 DEF Listening, Mounted
    <2> QED
      BY <1>1, <1>2, <1>4, <2>1 DEF Listening, Mounted
  <1>8. Renewal'
    <2>1. shown.cache # None => shown.cache = m
      BY <1>2 DEF ObjectTypes
    <2> QED
      BY <1>1, <1>4, <2>1 DEF Renewal, Mounted, Valid
  <1>9. Watched'
    <2>1. torn = None => ~Matches
      BY DEF Held, Matches
    <2> QED
      BY <1>1, <1>2, <1>4, <2>1 DEF Watched, Mounted, Matches
  <1> QED
    BY <1>4, <1>5, <1>6, <1>7, <1>8, <1>9

LEMMA Unmounting ==
  ASSUME ObjectIInv, UnmountObject
  PROVE  ObjectIInv'
  <1> USE DEF ObjectIInv
  <1>1. /\ phase = "idle" /\ phase' = "gone" /\ queued' = FALSE
        /\ UNCHANGED <<born, objects, primaryKey, ref, torn, shown, awaited>>
        /\ watch' \in [on: BOOLEAN, inserted: SUBSET Keys] /\ ~watch'.on
    BY DEF UnmountObject, NoWatch
  <1>2. PICK m \in DOMAIN caches : m = ref.cached /\ m = torn
    BY <1>1, CurrentIsLast DEF Mounted, Held
  <1>3. caches' = [caches EXCEPT ![m] = TornDown(@)]
    BY <1>2 DEF UnmountObject
  <1>4. /\ caches' \in Seq(Cache) /\ Len(caches') = Len(caches) /\ DOMAIN caches' = DOMAIN caches
        /\ \A n \in DOMAIN caches \ {m} : caches'[n] = caches[n]
        /\ caches'[m].stage \in {"scheduled", "removed"}
    BY <1>1, <1>3, TearingDown
  <1>5. /\ Identity'
        /\ \A n \in DOMAIN caches :
              (LET c == caches[n] IN
               /\ c.stage = "scheduled" => c.late
               /\ c.stage = "none" /\ ~c.late => ~Valid(c)
               /\ c.stage = "removed" => ~Valid(c)
               /\ "list" \in c.news => c.stage = "added"
               /\ "list" \in c.news /\ ~c.torn => c.listNews)'
    BY <1>1, <1>3, TornDownStays
  <1>6. ObjectTypes'
    <2>1. caches # <<>> /\ caches \in Seq(Cache)
      BY <1>1 DEF ObjectTypes
    <2>2. caches' # <<>>
      BY <1>4, <2>1
    <2> QED
      BY <1>1, <1>4, <2>2 DEF ObjectTypes
  <1>7. Held' /\ Current' /\ Renewal' /\ Watched'
    BY <1>1 DEF Held, Current, Renewal, Watched, Mounted
  <1>8. Listening'
    <2>1. \A n \in DOMAIN caches : caches'[n].stage = "added" => caches'[n].late
      BY <1>1, <1>2, <1>4 DEF Listening
    <2> QED
      BY <1>1, <1>4, <1>5, <2>1 DEF Listening, Mounted
  <1> QED
    BY <1>5, <1>6, <1>7, <1>8

\* The invariant is inductive.
LEMMA ObjectStep == ObjectIInv /\ [ObjectNext]_objectVars => ObjectIInv'
  <1> SUFFICES ASSUME ObjectIInv, [ObjectNext]_objectVars PROVE ObjectIInv'
    OBVIOUS
  <1>1. CASE Writes
    BY <1>1, Creating, Deleting, Modifying DEF Writes
  <1>2. CASE ParentRenders \/ \E k \in Keys : AskFor(k)
    BY <1>2, Asking
  <1>3. CASE Advance \/ \E n \in DOMAIN caches : RunImmediates(n)
    BY <1>3, Advancing, RunningImmediates
  <1>4. ASSUME NEW late \in BOOLEAN, MountObject(late)
        PROVE  ObjectIInv'
    <2>1. caches = <<>> /\ phase = "unmounted"
      BY <1>4 DEF MountObject, ObjectIInv, ObjectTypes
    <2>2. /\ Len(caches) + 1 = 1
          /\ <<CachedObject(primaryKey, late)>> = Append(caches, CachedObject(primaryKey, late))
      BY <2>1
    <2>3. Returns([primaryKey |-> primaryKey, original |-> Exists(primaryKey),
                   cached |-> Len(caches) + 1, updated |-> TRUE],
                  Append(caches, CachedObject(primaryKey, late)))
      BY <1>4, <2>2 DEF MountObject
    <2>4. /\ phase' = "committed" /\ queued' \in BOOLEAN
          /\ UNCHANGED <<born, objects, primaryKey, torn, watch, awaited>>
      BY <1>4 DEF MountObject, ObjectIInv, ObjectTypes
    <2> QED
      BY <2>1, <2>3, <2>4, Instantiating
  <1>5. ASSUME NEW late \in BOOLEAN, RenderObject(late)
        PROVE  ObjectIInv'
    <2>1. /\ phase = "idle" /\ phase' = "committed" /\ queued' = FALSE
          /\ UNCHANGED <<born, objects, primaryKey, torn, watch, awaited>>
      BY <1>5 DEF RenderObject
    <2>2. CASE Reinstantiates
      BY <1>5, <2>1, <2>2, Instantiating DEF RenderObject
    <2>3. CASE ~Reinstantiates
      BY <1>5, <2>1, <2>3, Rerendering DEF RenderObject
    <2> QED
      BY <2>2, <2>3
  <1>6. CASE ObjectEffects \/ UnmountObject
    BY <1>6, FlushingEffects, Unmounting
  <1>7. CASE UNCHANGED objectVars
    BY <1>7 DEF objectVars, ObjectIInv, ObjectTypes, Identity, Listening, Held, Current, Renewal,
                Watched, Mounted, Exists, Valid, Matches
  <1> QED
    BY <1>1, <1>2, <1>3, <1>4, <1>5, <1>6, <1>7 DEF ObjectNext

LEMMA ObjectHolds ==
  ASSUME ObjectIInv
  PROVE  ShownIsFresh /\ AwaitedIsShown /\ ObjectListenersRemoved
  <1> USE DEF ObjectIInv
  <1>1. ShownIsFresh
    <2> SUFFICES ASSUME ObjectSettled, shown.cache # None
                 PROVE  LET c == caches[shown.cache] IN
                        /\ c.key = primaryKey
                        /\ c.late \/ (Valid(c) /\ shown.stale = {})
      BY DEF ShownIsFresh
    <2>1. PICK m \in DOMAIN caches : m = shown.cache /\ m = ref.cached
      BY CurrentIsLast DEF ObjectTypes, Mounted, ObjectSettled
    <2>2. caches[m].key = primaryKey
      BY <2>1 DEF Current, ObjectSettled, Mounted
    <2>3. ASSUME ~caches[m].late
          PROVE  Valid(caches[m]) /\ shown.stale = {}
      <3>1. caches[m].stage = "added" /\ ~queued
        BY <2>1, <2>3 DEF Renewal, ObjectSettled, Mounted
      <3>2. Valid(caches[m]) /\ caches[m].news = {} /\ ~caches[m].listNews
        BY <3>1 DEF ObjectSettled, Told, ListTold
      <3>3. "scalar" \notin shown.stale /\ "list" \notin shown.stale
        BY <2>1, <2>3, <3>1, <3>2 DEF Renewal, ObjectSettled, Mounted
      <3>4. shown.stale \subseteq {"scalar", "list"}
        BY DEF ObjectTypes, Parts
      <3> QED
        BY <3>2, <3>3, <3>4
    <2> QED
      BY <2>1, <2>2, <2>3
  <1>2. AwaitedIsShown
    <2> SUFFICES ASSUME ObjectSettled, awaited # None, objects[primaryKey] = awaited
                 PROVE  shown.cache # None
      BY DEF AwaitedIsShown
    <2>1. ref.primaryKey = primaryKey /\ ~queued /\ ~Matches
      BY DEF ObjectSettled, Current, Mounted, Matches
    <2>2. ref.cached # None
      BY CurrentIsLast DEF ObjectSettled, Mounted, None
    <2> QED
      BY <2>1, <2>2 DEF Watched, ObjectSettled, Mounted
  <1>3. ObjectListenersRemoved
    BY DEF ObjectListenersRemoved, Listening, Mounted, Held
  <1> QED
    BY <1>1, <1>2, <1>3
----------------------------------------------------------------------------
(***************************************************************************)
(* useQuery().                                                             *)
(***************************************************************************)

News == Items \cup {"insertion", "deletion"}
Collection == [barq: Barqs, query: Queries, stage: {"scheduled", "added", "removed"},
               late: BOOLEAN, news: SUBSET News, cache: [Items -> {"absent", "current", "stale"}]]
Called == step \in {"committed", "idle"}
Latest == collections[Len(collections)]

\* The types of the variables.
QueryTypes ==
  /\ items \in [Barqs -> [Items -> Queries]]
  /\ step \in {"unmounted", "committed", "idle", "gone"}
  /\ call \in [form: Forms, query: Tags]
  /\ barq \in Barqs
  /\ rerender \in BOOLEAN
  /\ updated \in BOOLEAN
  /\ collections \in Seq(Collection)
  /\ held \in Nat
  /\ memo.query \in Queries
  /\ returned \in [n: Nat, read: SUBSET Items, changed: BOOLEAN]
  /\ step = "unmounted" <=> collections = <<>>
  /\ step = "unmounted" => updated
  /\ held <= Len(collections)
  /\ step # "unmounted" => returned.n \in DOMAIN collections

\* The effect holds the collection made last, or the one before until it runs: only
\* those have a listener, or are to have one.
OneListener ==
  /\ step = "idle" => held = Len(collections)
  /\ step = "committed" => held \in {Len(collections), Len(collections) - 1}
  /\ \A n \in DOMAIN collections :
       collections[n].stage # "removed" =>
         Called /\ (n = Len(collections) \/ (step = "committed" /\ n = held))
  /\ Called => Latest.stage # "removed"

\* The collection made last is of the query that was given when the deps last changed,
\* which the parent has not changed since unless a render is queued.
Memoized ==
  Called => /\ Latest.query = memo.query
            /\ HasDeps(call.form) => memo.query = QueryOf(call.form, memo.deps)
            /\ ~rerender => memo.deps = Understood(call).deps /\ ~updated

\* A cached object that has changed since it was read is one the engine will tell of.
NewsTold ==
  \A n \in DOMAIN collections :
    LET c == collections[n] IN
    /\ c.stage = "scheduled" => c.late
    /\ c.news # {} => c.stage = "added"
    /\ \A i \in Items : c.cache[i] = "stale" /\ c.stage = "added" /\ ~c.late =>
                         i \in c.news \/ "deletion" \in c.news

\* What was read through the reference is what is selected, until the engine tells of
\* a change.
ReadFresh ==
  Called /\ returned.n = Len(collections) /\ ~Latest.late =>
    /\ returned.changed => Latest.news # {} \/ updated
    /\ Latest.news = {} /\ ~updated =>
         /\ returned.read = Selected(Latest.barq, Latest.query)
         /\ \A i \in returned.read : Latest.cache[i] = "current"

QueryIInv == QueryTypes /\ OneListener /\ Memoized /\ NewsTold /\ ReadFresh

LEMMA Collections ==
  ASSUME QueryTypes
  PROVE  /\ DOMAIN collections = 1 .. Len(collections) /\ Len(collections) \in Nat
         /\ \A n \in DOMAIN collections : collections[n] \in Collection
         /\ Called => Len(collections) \in DOMAIN collections
  BY DEF QueryTypes, Called

\* Every form of a call that is declared is understood.
LEMMA FormsUnderstood ==
  ASSUME NEW c \in [form: Forms, query: Tags]
  PROVE  /\ Understood(c).query \in Queries /\ Understood(c).deps # "throw"
         /\ HasDeps(c.form) => /\ Understood(c).deps = c.query
                               /\ Understood(c).query = QueryOf(c.form, c.query)
  <1> USE DEF IsTypeFunctionDeps, IsOptionsDepsNone, IsFunctionDepsOptions, HasDeps, QueryOf, Queries
  <1>1. CASE c.form = <<"options", "array", "array">>
    <2>1. Understood(c) = [query |-> c.query, deps |-> c.query]
      BY <1>1 DEF Understood
    <2> QED
      BY <1>1, <2>1, QueryHookAssumption
  <1>2. CASE c.form = <<"options", "identity", "array">>
    <2>1. Understood(c) = [query |-> c.query, deps |-> All]
      BY <1>2 DEF Understood
    <2> QED
      BY <1>2, <2>1, QueryHookAssumption
  <1>3. CASE c.form = <<"type", "identity", "array">>
    <2>1. Understood(c) = [query |-> All, deps |-> c.query]
      BY <1>3 DEF Understood
    <2> QED
      BY <1>3, <2>1, QueryHookAssumption
  <1>4. CASE c.form = <<"type", "function", "array">>
    <2>1. Understood(c) = [query |-> c.query, deps |-> c.query]
      BY <1>4 DEF Understood
    <2> QED
      BY <1>4, <2>1, QueryHookAssumption
  <1>5. CASE c.form = <<"function", "array", "options">>
    <2>1. Understood(c) = [query |-> c.query, deps |-> c.query]
      BY <1>5 DEF Understood
    <2> QED
      BY <1>5, <2>1, QueryHookAssumption
  <1> QED
    BY <1>1, <1>2, <1>3, <1>4, <1>5 DEF Forms

LEMMA QueryInitially == QueryInit => QueryIInv
  <1> SUFFICES ASSUME QueryInit PROVE QueryIInv
    OBVIOUS
  <1> USE DEF QueryInit, NoCollection
  <1>1. QueryTypes
    <2>1. collections = <<>> /\ collections \in Seq(Collection) /\ Len(collections) = 0
      OBVIOUS
    <2>2. items \in [Barqs -> [Items -> Queries]] /\ memo.query \in Queries
      BY DEF Queries
    <2>3. returned \in [n: Nat, read: SUBSET Items, changed: BOOLEAN]
      OBVIOUS
    <2>4. /\ step = "unmounted" /\ call \in [form: Forms, query: Tags] /\ barq \in Barqs
          /\ rerender \in BOOLEAN /\ updated \in BOOLEAN /\ updated /\ held = 0
      OBVIOUS
    <2> QED
      BY ONLY <2>1, <2>2, <2>3, <2>4 DEF QueryTypes
  <1>2. OneListener /\ Memoized /\ NewsTold /\ ReadFresh
    BY DEF OneListener, Memoized, NewsTold, ReadFresh, Called
  <1> QED
    BY <1>1, <1>2 DEF QueryIInv

Concerns(c, b, i, tag) ==
  /\ c.barq = b
  /\ \/ items[b][i] # All /\ c.query \in {items[b][i], All}
     \/ tag # All /\ c.query \in {tag, All}

\* A collection is told of what concerns it, and of nothing else.
LEMMA Noting ==
  ASSUME NEW c \in Collection, NEW b \in Barqs, NEW i \in Items, NEW tag \in Queries
  PROVE  LET d == Noted(c, b, i, tag) IN
         /\ d \in Collection
         /\ d.barq = c.barq /\ d.query = c.query /\ d.stage = c.stage /\ d.late = c.late
         /\ c.news \subseteq d.news
         /\ c.stage # "added" => d.news = c.news
         /\ ~Concerns(c, b, i, tag) => d = c
         /\ Concerns(c, b, i, tag) /\ c.stage = "added" => d.news # {}
         /\ \A j \in Items : d.cache[j] = "stale" =>
              \/ c.cache[j] = "stale"
              \/ j = i /\ (c.stage = "added" => i \in d.news \/ "deletion" \in d.news)
  <1> DEFINE Before == items[b][i] # All /\ c.query \in {items[b][i], All}
             After == tag # All /\ c.query \in {tag, All}
             cache == IF Before /\ c.cache[i] = "current"
                      THEN [c.cache EXCEPT ![i] = "stale"] ELSE c.cache
             news == IF c.stage # "added" THEN c.news
                     ELSE c.news \cup {IF Before /\ After THEN i
                                       ELSE IF After THEN "insertion" ELSE "deletion"}
             d == [c EXCEPT !.cache = cache, !.news = news]
  <1>1. c.cache \in [Items -> {"absent", "current", "stale"}] /\ c.news \in SUBSET News
    BY DEF Collection
  <1>2. cache \in [Items -> {"absent", "current", "stale"}] /\ news \in SUBSET News
    BY <1>1 DEF News
  <1>3. Noted(c, b, i, tag) = IF Concerns(c, b, i, tag) THEN d ELSE c
    BY DEF Noted, Concerns
  <1>4. /\ c.news \subseteq news /\ (c.stage # "added" => news = c.news)
        /\ (c.stage = "added" => news # {})
        /\ c.stage = "added" /\ Before => i \in news \/ "deletion" \in news
    OBVIOUS
  <1>5. \A j \in Items : cache[j] = "stale" => c.cache[j] = "stale" \/ (j = i /\ Before)
    BY <1>1
  <1> HIDE DEF cache, news
  <1>6. /\ d \in Collection
        /\ d.barq = c.barq /\ d.query = c.query /\ d.stage = c.stage /\ d.late = c.late
        /\ d.news = news /\ d.cache = cache
    BY <1>2 DEF Collection
  <1> HIDE DEF d, Before
  <1>7. CASE Concerns(c, b, i, tag)
    BY <1>3, <1>4, <1>5, <1>6, <1>7
  <1>8. CASE ~Concerns(c, b, i, tag)
    BY <1>3, <1>8
  <1> QED
    BY <1>7, <1>8

\* A write is news for the collections that select the object before or after it.
LEMMA Writing ==
  ASSUME QueryIInv, NEW b \in Barqs, NEW i \in Items, NEW tag \in Queries, WriteItem(b, i, tag)
  PROVE  QueryIInv'
  <1> USE DEF QueryIInv
  <1> DEFINE Relevant(c) == Concerns(c, b, i, tag)
  <1>1. /\ UNCHANGED <<step, call, barq, rerender, memo, updated, held>>
        /\ items' \in [Barqs -> [Items -> Queries]]
        /\ items'[b][i] = tag
        /\ \A d \in Barqs, j \in Items : d # b \/ j # i => items'[d][j] = items[d][j]
    BY DEF WriteItem, QueryTypes
  <1>2. ASSUME NEW n \in DOMAIN collections
        PROVE  /\ collections'[n] \in Collection
               /\ collections'[n].barq = collections[n].barq
               /\ collections'[n].query = collections[n].query
               /\ collections'[n].stage = collections[n].stage
               /\ collections'[n].late = collections[n].late
               /\ collections[n].news \subseteq collections'[n].news
               /\ collections[n].stage # "added" => collections'[n].news = collections[n].news
               /\ ~Relevant(collections[n]) => collections'[n] = collections[n]
               /\ Relevant(collections[n]) /\ collections[n].stage = "added" =>
                    collections'[n].news # {}
               /\ \A j \in Items : collections'[n].cache[j] = "stale" =>
                    \/ collections[n].cache[j] = "stale"
                    \/ /\ j = i
                       /\ collections[n].stage = "added" =>
                            i \in collections'[n].news \/ "deletion" \in collections'[n].news
    <2>1. collections'[n] = Noted(collections[n], b, i, tag)
      BY DEF WriteItem
    <2>2. collections[n] \in Collection
      BY Collections
    <2> QED
      BY <2>1, <2>2, Noting
  <1> HIDE DEF Relevant
  <1>3. /\ collections' \in Seq(Collection) /\ Len(collections') = Len(collections)
        /\ DOMAIN collections' = DOMAIN collections
    <2>1. collections \in Seq(Collection)
      BY DEF QueryTypes
    <2>2. collections' = [n \in DOMAIN collections |-> collections'[n]]
      BY DEF WriteItem
    <2> QED
      BY <1>2, <2>1, <2>2, Mapped
  <1>4. /\ returned' \in [n: Nat, read: SUBSET Items, changed: BOOLEAN]
        /\ returned'.n = returned.n /\ returned'.read = returned.read
        /\ returned'.changed => \/ returned.changed
                                \/ collections'[returned.n].news # collections[returned.n].news
    <2>1. returned \in [n: Nat, read: SUBSET Items, changed: BOOLEAN]
      BY DEF QueryTypes
    <2>2. returned' = [returned EXCEPT !.changed =
              returned.changed \/ (returned.n # NoCollection
                                   /\ collections'[returned.n].news # collections[returned.n].news)]
      BY DEF WriteItem
    <2> QED
      BY <2>1, <2>2
  <1>5. QueryTypes'
    <2>1. collections' = <<>> <=> collections = <<>>
      BY <1>3 DEF QueryTypes
    <2> QED
      BY <1>1, <1>3, <1>4, <2>1 DEF QueryTypes
  <1>6. OneListener' /\ Memoized'
    BY <1>1, <1>2, <1>3, Collections DEF OneListener, Memoized, Called, Latest
  <1>7. NewsTold'
    <2>1. ASSUME NEW n \in DOMAIN collections
          PROVE  (LET c == collections[n] IN
                  /\ c.stage = "scheduled" => c.late
                  /\ c.news # {} => c.stage = "added"
                  /\ \A j \in Items : c.cache[j] = "stale" /\ c.stage = "added" /\ ~c.late =>
                                       j \in c.news \/ "deletion" \in c.news)'
      BY <1>2 DEF NewsTold
    <2> QED
      BY <1>3, <2>1 DEF NewsTold
  <1>8. ReadFresh'
    <2> SUFFICES ASSUME Called, returned.n = Len(collections), ~collections'[Len(collections)].late
                 PROVE  (/\ returned.changed => Latest.news # {} \/ updated
                         /\ Latest.news = {} /\ ~updated =>
                              /\ returned.read = Selected(Latest.barq, Latest.query)
                              /\ \A j \in returned.read : Latest.cache[j] = "current")'
      BY <1>1, <1>3, <1>4 DEF ReadFresh, Called, Latest
    <2>1. PICK n \in DOMAIN collections : n = Len(collections)
      BY Collections
    <2>2. ~collections[n].late /\ Latest = collections[n] /\ Latest' = collections'[n]
      BY <1>2, <1>3, <2>1 DEF Latest
    <2>3. collections[n].stage = "added"
      BY <2>1, <2>2, Collections DEF OneListener, NewsTold, Collection
    <2>4. returned'.changed => collections'[n].news # {} \/ updated
      BY <1>2, <1>4, <2>1, <2>2 DEF ReadFresh
    <2>5. ASSUME collections'[n].news = {}, ~updated
          PROVE  /\ returned.read = Selected(collections[n].barq, collections[n].query)'
                 /\ \A j \in returned.read : collections'[n].cache[j] = "current"
      <3>1. ~Relevant(collections[n]) /\ collections[n].news = {}
        BY <1>2, <2>3, <2>5
      <3>2. collections'[n] = collections[n]
        BY <1>2, <3>1
      <3>3. /\ returned.read = Selected(collections[n].barq, collections[n].query)
            /\ \A j \in returned.read : collections[n].cache[j] = "current"
        BY <2>1, <2>2, <2>5, <3>1 DEF ReadFresh
      <3>4. collections[n].barq \in Barqs
        BY Collections DEF Collection
      <3>5. ASSUME NEW j \in Items
            PROVE  /\ items'[collections[n].barq][j] # All
                   /\ collections[n].query \in {items'[collections[n].barq][j], All}
                   <=>
                   /\ items[collections[n].barq][j] # All
                   /\ collections[n].query \in {items[collections[n].barq][j], All}
        BY <1>1, <3>1, <3>4 DEF Relevant, Concerns
      <3>6. Selected(collections[n].barq, collections[n].query)'
              = {j \in Items : /\ items'[collections'[n].barq][j] # All
                               /\ collections'[n].query \in {items'[collections'[n].barq][j], All}}
        BY DEF Selected
      <3>7. Selected(collections[n].barq, collections[n].query)
              = Selected(collections[n].barq, collections[n].query)'
        BY <3>2, <3>5, <3>6 DEF Selected
      <3> QED
        BY <3>2, <3>3, <3>7
    <2> QED
      BY <1>1, <1>4, <2>2, <2>4, <2>5
  <1> QED
    BY <1>5, <1>6, <1>7, <1>8

\* The parent queues a render, for another query or Barq or for neither.
LEMMA Calling ==
  ASSUME QueryIInv, OthersRender \/ \E q \in Tags, b \in Barqs : ChangeCall(q, b)
  PROVE  QueryIInv'
  <1> USE DEF QueryIInv
  <1>1. /\ UNCHANGED <<items, step, collections, memo, updated, held, returned>>
        /\ rerender' = TRUE /\ barq' \in Barqs
        /\ call' \in [form: Forms, query: Tags] /\ call'.form = call.form
    <2>1. call \in [form: Forms, query: Tags] /\ barq \in Barqs
      BY DEF QueryTypes
    <2>2. \A q \in Tags : LET d == [call EXCEPT !.query = q] IN
            d \in [form: Forms, query: Tags] /\ d.form = call.form
      BY <2>1
    <2> QED
      BY <2>1, <2>2 DEF OthersRender, ChangeCall
  <1>2. QueryTypes'
    BY <1>1 DEF QueryTypes
  <1>3. OneListener' /\ Memoized' /\ NewsTold' /\ ReadFresh'
    BY <1>1 DEF OneListener, Memoized, NewsTold, ReadFresh, Called, Latest, Selected
  <1> QED
    BY <1>2, <1>3

\* The listener of a collection that was made in a transaction is added.
LEMMA AddingListener ==
  ASSUME QueryIInv, NEW n \in DOMAIN collections, AddQueryListener(n)
  PROVE  QueryIInv'
  <1> USE DEF QueryIInv
  <1>1. /\ collections[n].stage = "scheduled" /\ collections[n].late
        /\ UNCHANGED <<items, step, call, barq, rerender, memo, updated, held, returned>>
    BY DEF AddQueryListener, NewsTold
  <1>2. collections \in Seq(Collection) /\ collections[n] \in Collection
    BY Collections DEF QueryTypes
  <1>3. LET d == [collections[n] EXCEPT !.stage = "added"] IN
        /\ d \in Collection
        /\ d.barq = collections[n].barq /\ d.query = collections[n].query
        /\ d.late = collections[n].late /\ d.stage = "added"
    BY <1>2 DEF Collection
  <1>4. /\ collections' \in Seq(Collection) /\ Len(collections') = Len(collections)
        /\ DOMAIN collections' = DOMAIN collections
        /\ \A m \in DOMAIN collections \ {n} : collections'[m] = collections[m]
        /\ collections'[n] = [collections[n] EXCEPT !.stage = "added"]
    BY <1>2, <1>3 DEF AddQueryListener
  <1>5. ASSUME NEW m \in DOMAIN collections
        PROVE  \/ collections'[m] = collections[m]
               \/ /\ collections[m].stage = "scheduled" /\ collections'[m].stage = "added"
                  /\ collections'[m].late
                  /\ collections'[m].barq = collections[m].barq
                  /\ collections'[m].query = collections[m].query
    BY <1>1, <1>3, <1>4
  <1>6. QueryTypes'
    <2>1. collections' = <<>> <=> collections = <<>>
      BY <1>4 DEF QueryTypes
    <2> QED
      BY <1>1, <1>4, <2>1 DEF QueryTypes
  <1>7. OneListener'
    BY <1>1, <1>4, <1>5, Collections DEF OneListener, Called, Latest
  <1>8. Memoized'
    BY <1>1, <1>4, <1>5, Collections DEF Memoized, Called, Latest
  <1>9. NewsTold'
    BY <1>4, <1>5 DEF NewsTold
  <1>10. ReadFresh'
    BY <1>1, <1>4, <1>5, Collections DEF ReadFresh, Called, Latest, Selected
  <1> QED
    BY <1>6, <1>7, <1>8, <1>9, <1>10

\* The engine tells the collections of their news: what has changed leaves the cache,
\* and a render is queued that renews the reference.
LEMMA AdvancingCollections ==
  ASSUME QueryIInv, AdvanceCollections
  PROVE  QueryIInv'
  <1> USE DEF QueryIInv
  <1>1. /\ updated' = TRUE /\ rerender' = (step # "gone")
        /\ UNCHANGED <<items, step, call, barq, memo, held, returned>>
    BY DEF AdvanceCollections
  <1>2. ASSUME NEW n \in DOMAIN collections
        PROVE  /\ collections'[n] \in Collection
               /\ collections'[n].query = collections[n].query
               /\ collections'[n].stage = collections[n].stage
               /\ collections'[n].late = collections[n].late
               /\ collections'[n].news = {}
               /\ collections'[n].cache = Dropped(collections[n])
    <2>1. collections[n] \in Collection
      BY Collections
    <2>2. Dropped(collections[n]) \in [Items -> {"absent", "current", "stale"}]
      BY <2>1 DEF Dropped, NoCache, Collection
    <2>3. collections'[n] = [collections[n] EXCEPT !.cache = Dropped(collections[n]), !.news = {}]
      BY DEF AdvanceCollections
    <2> QED
      BY <2>1, <2>2, <2>3 DEF Collection
  <1>3. /\ collections' \in Seq(Collection) /\ Len(collections') = Len(collections)
        /\ DOMAIN collections' = DOMAIN collections
    <2>1. collections \in Seq(Collection)
      BY DEF QueryTypes
    <2>2. collections' = [n \in DOMAIN collections |-> collections'[n]]
      BY DEF AdvanceCollections
    <2> QED
      BY <1>2, <2>1, <2>2, Mapped
  <1>4. QueryTypes'
    <2>1. collections' = <<>> <=> collections = <<>>
      BY <1>3 DEF QueryTypes
    <2> QED
      BY <1>1, <1>3, <2>1 DEF QueryTypes
  <1>5. OneListener' /\ Memoized' /\ ReadFresh'
    BY <1>1, <1>2, <1>3, Collections DEF OneListener, Memoized, ReadFresh, Called, Latest
  <1>6. NewsTold'
    <2>1. ASSUME NEW n \in DOMAIN collections, NEW i \in Items,
                 collections'[n].cache[i] = "stale", collections[n].stage = "added",
                 ~collections[n].late
          PROVE  FALSE
      <3>1. "deletion" \notin collections[n].news /\ i \notin collections[n].news
            /\ collections[n].cache[i] = "stale"
        BY <1>2, <2>1 DEF Dropped, NoCache
      <3> QED
        BY <2>1, <3>1 DEF NewsTold
    <2> QED
      BY <1>2, <1>3, <2>1 DEF NewsTold
  <1> QED
    BY <1>4, <1>5, <1>6

\* Reading through the reference fills the cache with what is missing.
LEMMA Reading ==
  ASSUME NEW c \in Collection
  PROVE  LET d == ReadBy(c) IN
         /\ d \in Collection
         /\ d.barq = c.barq /\ d.query = c.query /\ d.stage = c.stage /\ d.late = c.late
         /\ d.news = c.news
         /\ \A i \in Items : d.cache[i] = "stale" => c.cache[i] = "stale"
         /\ \A i \in Selected(c.barq, c.query) :
              d.cache[i] = "current" \/ (d.cache[i] = "stale" /\ c.cache[i] = "stale")
  <1> DEFINE cache == [i \in Items |->
                IF i \in Selected(c.barq, c.query) /\ c.cache[i] = "absent" THEN "current"
                ELSE c.cache[i]]
             d == [c EXCEPT !.cache = cache]
  <1>1. ReadBy(c) = d
    BY DEF ReadBy
  <1>2. c.cache \in [Items -> {"absent", "current", "stale"}]
    BY DEF Collection
  <1>3. cache \in [Items -> {"absent", "current", "stale"}]
    BY <1>2
  <1>4. Selected(c.barq, c.query) \subseteq Items
    BY DEF Selected
  <1>5. \A i \in Items : cache[i] = "stale" => c.cache[i] = "stale"
    OBVIOUS
  <1>6. \A i \in Selected(c.barq, c.query) :
          cache[i] = "current" \/ (cache[i] = "stale" /\ c.cache[i] = "stale")
    BY <1>2, <1>4
  <1> HIDE DEF cache
  <1>7. /\ d \in Collection
        /\ d.barq = c.barq /\ d.query = c.query /\ d.stage = c.stage /\ d.late = c.late
        /\ d.news = c.news /\ d.cache = cache
    BY <1>3 DEF Collection
  <1> HIDE DEF d
  <1> QED
    BY <1>1, <1>5, <1>6, <1>7

\* A render makes a collection if it needs one, and returns the reference to the one it
\* made last if that has news, or is new.
LEMMA Rendering ==
  ASSUME QueryIInv, NEW late \in BOOLEAN, RenderQuery(late)
  PROVE  QueryIInv'
  <1> USE DEF QueryIInv
  <1> DEFINE u == Understood(call)
             recalls == step = "unmounted" \/ u.deps # memo.deps
             query == IF recalls THEN u.query ELSE memo.query
             new == CachedCollection(barq, query, late)
             appends == recalls \/ barq # memo.barq
             all == IF appends THEN Append(collections, new) ELSE collections
             n == IF Renews(u.deps) THEN Len(all) ELSE returned.n
  <1>1. /\ u.query \in Queries /\ u.deps # "throw"
        /\ HasDeps(call.form) => u.deps = call.query /\ u.query = QueryOf(call.form, call.query)
    BY FormsUnderstood DEF QueryTypes
  <1>2. /\ step = "unmounted" \/ (step = "idle" /\ rerender)
        /\ step' = "committed"
        /\ memo' = [barq |-> barq, deps |-> u.deps, query |-> query]
        /\ updated' = FALSE
        /\ collections' = [all EXCEPT ![n] = ReadBy(all[n])]
        /\ returned' = [n |-> n, read |-> Selected(all[n].barq, all[n].query),
                        changed |-> IF Renews(u.deps) THEN FALSE ELSE returned.changed]
        /\ rerender' = FALSE
        /\ UNCHANGED <<items, call, barq, held>>
    BY <1>1 DEF RenderQuery
  <1>3. recalls => Renews(u.deps)
    BY DEF Renews, QueryTypes
  <1> HIDE DEF u
  <1>4. query \in Queries /\ barq \in Barqs
    BY <1>1 DEF QueryTypes
  <1>5. /\ new \in Collection
        /\ new.query = query /\ new.stage \in {"scheduled", "added"} /\ new.late = late
        /\ new.stage = "scheduled" => new.late
        /\ new.news = {} /\ \A i \in Items : new.cache[i] # "stale"
    BY <1>4 DEF CachedCollection, NoCache, Collection
  <1>6. ~appends => ~recalls /\ step = "idle"
    BY <1>2
  <1> HIDE DEF new, query
  <1>7. /\ all \in Seq(Collection) /\ Len(all) \in Nat /\ DOMAIN all = 1 .. Len(all)
        /\ Len(all) = Len(collections) + (IF appends THEN 1 ELSE 0)
        /\ Len(all) > 0
        /\ appends => all[Len(all)] = new
        /\ ~appends => all[Len(all)] = Latest
        /\ \A m \in DOMAIN collections : all[m] = collections[m] /\ m \in DOMAIN all
        /\ \A m \in DOMAIN all : m \in DOMAIN collections \/ (appends /\ m = Len(all))
    <2>1. collections \in Seq(Collection) /\ Len(collections) \in Nat
      BY DEF QueryTypes
    <2>2. CASE appends
      <3>1. all = Append(collections, new)
        BY <2>2
      <3> HIDE DEF all
      <3> QED
        BY <1>5, <2>1, <2>2, <3>1
    <2>3. CASE ~appends
      <3>1. all = collections
        BY <2>3
      <3>2. Len(collections) > 0
        BY <1>6, <2>1, <2>3 DEF QueryTypes
      <3> HIDE DEF all
      <3> QED
        BY <2>1, <2>3, <3>1, <3>2 DEF Latest
    <2> QED
      BY <2>2, <2>3
  <1>8. n \in DOMAIN all
    <2>1. CASE Renews(u.deps)
      BY <1>7, <2>1
    <2>2. CASE ~Renews(u.deps)
      <3>1. returned.n \in DOMAIN collections
        BY <1>3, <2>2 DEF QueryTypes
      <3> QED
        BY <1>7, <2>2, <3>1
    <2> QED
      BY <2>1, <2>2
  <1>9. ~Renews(u.deps) /\ n = Len(all) =>
          /\ ~appends /\ ~updated /\ step = "idle" /\ Called /\ returned.n = Len(collections)
    <2> SUFFICES ASSUME ~Renews(u.deps), n = Len(all)
                 PROVE  ~appends /\ ~updated /\ step = "idle" /\ Called
                        /\ returned.n = Len(collections)
      OBVIOUS
    <2>1. ~updated /\ step # "unmounted" /\ returned.n = Len(all)
      BY <1>3 DEF Renews
    <2>2. returned.n \in DOMAIN collections
      BY <2>1 DEF QueryTypes
    <2>3. Len(all) <= Len(collections)
      BY <2>1, <2>2, Collections
    <2>4. ~appends
      BY <1>7, <2>3, Collections
    <2> QED
      BY <1>2, <1>7, <2>1, <2>4 DEF Called
  <1> HIDE DEF all, n, appends
  <1>10. PICK k \in DOMAIN all : k = n
    BY <1>8
  <1>11. /\ all[k] \in Collection
         /\ \A m \in DOMAIN all : all[m] \in Collection
    BY <1>7
  <1>12. /\ collections' \in Seq(Collection) /\ Len(collections') = Len(all)
         /\ DOMAIN collections' = DOMAIN all
         /\ \A m \in DOMAIN all \ {k} : collections'[m] = all[m]
         /\ collections'[k] = ReadBy(all[k])
    BY <1>2, <1>7, <1>10, <1>11, Reading
  <1>13. ASSUME NEW m \in DOMAIN all
         PROVE  /\ collections'[m].barq = all[m].barq /\ collections'[m].query = all[m].query
                /\ collections'[m].stage = all[m].stage /\ collections'[m].late = all[m].late
                /\ collections'[m].news = all[m].news
                /\ \A i \in Items : collections'[m].cache[i] = "stale" => all[m].cache[i] = "stale"
    BY <1>11, <1>12, Reading
  <1>14. QueryTypes'
    <2>1. collections' # <<>>
      BY <1>7, <1>12
    <2>2. returned' \in [n: Nat, read: SUBSET Items, changed: BOOLEAN] /\ returned'.n = k
      <3>1. k \in Nat /\ returned.changed \in BOOLEAN
        BY <1>7 DEF QueryTypes
      <3>2. Selected(all[n].barq, all[n].query) \in SUBSET Items
        BY DEF Selected
      <3> QED
        BY <1>2, <1>10, <3>1, <3>2
    <2>3. held <= Len(all)
      BY <1>7 DEF QueryTypes
    <2> QED
      BY <1>2, <1>4, <1>10, <1>12, <2>1, <2>2, <2>3 DEF QueryTypes
  <1>15. ASSUME NEW m \in DOMAIN all
         PROVE  /\ all[m].stage = "scheduled" => all[m].late
                /\ all[m].news # {} => all[m].stage = "added"
                /\ \A i \in Items : all[m].cache[i] = "stale" /\ all[m].stage = "added" /\ ~all[m].late =>
                                     i \in all[m].news \/ "deletion" \in all[m].news
    BY <1>5, <1>7 DEF NewsTold
  <1>16. all[Len(all)].stage \in {"scheduled", "added"}
    <2>1. CASE appends
      BY <1>5, <1>7, <2>1
    <2>2. CASE ~appends
      <3>1. step = "idle"
        BY <1>6, <2>2 DEF appends
      <3> QED
        BY <1>7, <2>2, <3>1, Collections DEF OneListener, Called, Latest, Collection
    <2> QED
      BY <2>1, <2>2
  <1>17. OneListener'
    <2>1. held \in {Len(all), Len(all) - 1}
      <3>1. CASE step = "idle"
        BY <1>7, <3>1, Collections DEF OneListener
      <3>2. CASE step = "unmounted"
        <4>1. Len(collections) = 0 /\ held = 0
          BY <3>2 DEF QueryTypes
        <4> QED
          BY <1>7, <4>1
      <3> QED
        BY <1>2, <3>1, <3>2
    <2>2. ASSUME NEW m \in DOMAIN all, all[m].stage # "removed"
          PROVE  m = Len(all) \/ m = held
      <3>1. CASE m \in DOMAIN collections
        BY <1>2, <1>7, <2>2, <3>1 DEF OneListener, Called
      <3> QED
        BY <1>7, <3>1
    <2>3. Latest' = collections'[Len(all)] /\ Len(all) \in DOMAIN all
      BY <1>7, <1>12 DEF Latest
    <2> QED
      BY <1>2, <1>12, <1>13, <1>16, <2>1, <2>2, <2>3 DEF OneListener, Called
  <1>18. Memoized'
    <2>1. Latest'.query = all[Len(all)].query
      BY <1>7, <1>12, <1>13 DEF Latest
    <2>2. all[Len(all)].query = query
      <3>1. CASE appends
        BY <1>5, <1>7, <3>1
      <3>2. CASE ~appends
        <4>1. step = "idle" /\ ~recalls
          BY <1>6, <3>2
        <4> QED
          BY <1>7, <3>2, <4>1 DEF Memoized, Called, query
      <3> QED
        BY <3>1, <3>2
    <2>3. HasDeps(call.form) => query = QueryOf(call.form, u.deps)
      <3>1. CASE recalls
        BY <1>1, <3>1 DEF query
      <3>2. CASE ~recalls
        BY <1>2, <3>2 DEF query, Memoized, Called
      <3> QED
        BY <3>1, <3>2
    <2>4. Understood(call)' = u
      BY <1>2 DEF u
    <2>5. memo'.query = query /\ memo'.deps = u.deps
      BY <1>2
    <2> QED
      BY <1>2, <2>1, <2>2, <2>3, <2>4, <2>5 DEF Memoized
  <1>19. NewsTold'
    BY <1>12, <1>13, <1>15 DEF NewsTold
  <1>20. ReadFresh'
    <2> SUFFICES ASSUME k = Len(all), ~all[k].late
                 PROVE  (/\ returned.changed => Latest.news # {} \/ updated
                         /\ Latest.news = {} /\ ~updated =>
                              /\ returned.read = Selected(Latest.barq, Latest.query)
                              /\ \A j \in returned.read : Latest.cache[j] = "current")'
      BY <1>2, <1>10, <1>12, <1>13 DEF ReadFresh, Latest
    <2>1. Latest' = collections'[k]
      BY <1>12 DEF Latest
    <2>2. all[k].stage = "added"
      BY <1>15, <1>16
    <2>3. returned'.changed => all[k].news # {}
      <3> SUFFICES ASSUME ~Renews(u.deps), returned.changed PROVE all[k].news # {}
        BY <1>2
      <3>1. all[k] = Latest /\ returned.n = Len(collections) /\ Called /\ ~updated
        BY <1>7, <1>9, <1>10
      <3> QED
        BY <3>1 DEF ReadFresh
    <2>4. returned'.read = Selected(all[k].barq, all[k].query)
      BY <1>2, <1>10
    <2>5. Selected(Latest.barq, Latest.query)' = Selected(all[k].barq, all[k].query)
      BY <1>2, <1>13, <2>1 DEF Selected
    <2>6. ASSUME all[k].news = {}, NEW j \in Selected(all[k].barq, all[k].query)
          PROVE  collections'[k].cache[j] = "current"
      <3>1. j \in Items
        BY DEF Selected
      <3>2. all[k].cache[j] # "stale"
        BY <1>15, <2>2, <2>6, <3>1
      <3> QED
        BY <1>11, <1>12, <3>2, Reading
    <2> QED
      BY <1>13, <2>1, <2>3, <2>4, <2>5, <2>6
  <1> QED
    BY <1>14, <1>17, <1>18, <1>19, <1>20

\* A collection that is torn down has no listener and is to have none.
LEMMA TearingCollection ==
  ASSUME QueryIInv, NEW t \in DOMAIN collections,
         collections' = [collections EXCEPT ![t] = TornDownCollection(@)]
  PROVE  /\ collections' \in Seq(Collection) /\ Len(collections') = Len(collections)
         /\ DOMAIN collections' = DOMAIN collections
         /\ \A m \in DOMAIN collections \ {t} : collections'[m] = collections[m]
         /\ collections'[t].stage = "removed" /\ collections'[t].news = {}
  <1>1. collections \in Seq(Collection) /\ collections[t] \in Collection
    BY Collections DEF QueryIInv, QueryTypes
  <1>2. LET d == TornDownCollection(collections[t]) IN
        d \in Collection /\ d.stage = "removed" /\ d.news = {}
    BY <1>1 DEF TornDownCollection, Collection, NoCache
  <1> QED
    BY <1>1, <1>2

LEMMA FlushingQueryEffects ==
  ASSUME QueryIInv, QueryEffects
  PROVE  QueryIInv'
  <1> USE DEF QueryIInv
  <1>1. /\ step = "committed" /\ step' = "idle" /\ held' = Len(collections)
        /\ UNCHANGED <<items, call, barq, rerender, memo, updated, returned>>
    BY DEF QueryEffects
  <1>2. PICK l \in DOMAIN collections : l = Len(collections)
    BY <1>1, Collections DEF Called
  <1>3. /\ collections' \in Seq(Collection) /\ Len(collections') = Len(collections)
        /\ DOMAIN collections' = DOMAIN collections
        /\ collections'[l] = collections[l]
        /\ \A m \in DOMAIN collections :
             \/ collections'[m] = collections[m]
             \/ collections'[m].stage = "removed" /\ collections'[m].news = {}
        /\ \A m \in DOMAIN collections : collections'[m].stage # "removed" => m = l
    <2>1. CASE held \in {NoCollection, Len(collections)}
      <3>1. collections' = collections
        BY <2>1 DEF QueryEffects
      <3>2. collections \in Seq(Collection)
        BY DEF QueryTypes
      <3>3. ASSUME NEW m \in DOMAIN collections, collections[m].stage # "removed"
            PROVE  m = l
        <4>1. m # NoCollection
          BY Collections DEF NoCollection
        <4> QED
          BY <1>2, <2>1, <3>3, <4>1 DEF OneListener
      <3> QED
        BY <3>1, <3>2, <3>3
    <2>2. CASE held \notin {NoCollection, Len(collections)}
      <3>1. held \in DOMAIN collections
        <4>1. held \in Nat /\ held <= Len(collections) /\ held # 0
          BY <2>2 DEF QueryTypes, NoCollection
        <4> QED
          BY <4>1, Collections
      <3>2. PICK t \in DOMAIN collections : t = held
        BY <3>1
      <3>3. collections' = [collections EXCEPT ![t] = TornDownCollection(@)]
        BY <2>2, <3>2 DEF QueryEffects
      <3>4. /\ collections' \in Seq(Collection) /\ Len(collections') = Len(collections)
            /\ DOMAIN collections' = DOMAIN collections
            /\ \A m \in DOMAIN collections \ {t} : collections'[m] = collections[m]
            /\ collections'[t].stage = "removed" /\ collections'[t].news = {}
        BY <3>3, TearingCollection
      <3> QED
        BY <1>2, <2>2, <3>2, <3>4 DEF OneListener
    <2> QED
      BY <2>1, <2>2
  <1>4. QueryTypes'
    <2>1. collections' # <<>> /\ Len(collections) \in Nat
      BY <1>2, <1>3, Collections
    <2> QED
      BY <1>1, <1>3, <2>1 DEF QueryTypes
  <1>5. Latest' = collections[l] /\ Latest = collections[l]
    BY <1>2, <1>3 DEF Latest
  <1>6. OneListener'
    BY <1>1, <1>2, <1>3, <1>5 DEF OneListener, Called
  <1>7. Memoized' /\ ReadFresh'
    BY <1>1, <1>3, <1>5 DEF Memoized, ReadFresh, Called, Selected
  <1>8. NewsTold'
    BY <1>3 DEF NewsTold
  <1> QED
    BY <1>4, <1>6, <1>7, <1>8

LEMMA UnmountingQuery ==
  ASSUME QueryIInv, UnmountQuery
  PROVE  QueryIInv'
  <1> USE DEF QueryIInv
  <1>1. /\ step = "idle" /\ step' = "gone" /\ rerender' = FALSE
        /\ UNCHANGED <<items, call, barq, memo, updated, held, returned>>
    BY DEF UnmountQuery
  <1>2. PICK t \in DOMAIN collections : t = held /\ t = Len(collections)
    BY <1>1, Collections DEF Called, OneListener
  <1>3. collections' = [collections EXCEPT ![t] = TornDownCollection(@)]
    BY <1>2 DEF UnmountQuery
  <1>4. /\ collections' \in Seq(Collection) /\ Len(collections') = Len(collections)
        /\ DOMAIN collections' = DOMAIN collections
        /\ \A m \in DOMAIN collections \ {t} : collections'[m] = collections[m]
        /\ collections'[t].stage = "removed" /\ collections'[t].news = {}
    BY <1>3, TearingCollection
  <1>5. QueryTypes'
    <2>1. collections' # <<>>
      BY <1>2, <1>4, Collections
    <2> QED
      BY <1>1, <1>4, <2>1 DEF QueryTypes
  <1>6. OneListener'
    BY <1>1, <1>2, <1>4 DEF OneListener, Called
  <1>7. Memoized' /\ ReadFresh'
    BY <1>1 DEF Memoized, ReadFresh, Called
  <1>8. NewsTold'
    BY <1>4 DEF NewsTold
  <1> QED
    BY <1>5, <1>6, <1>7, <1>8

\* The invariant is inductive.
LEMMA QueryStep == QueryIInv /\ [QueryNext]_queryVars => QueryIInv'
  <1> SUFFICES ASSUME QueryIInv, [QueryNext]_queryVars PROVE QueryIInv'
    OBVIOUS
  <1>1. CASE \E b \in Barqs, i \in Items, tag \in Queries : WriteItem(b, i, tag)
    BY <1>1, Writing
  <1>2. CASE OthersRender \/ \E q \in Tags, b \in Barqs : ChangeCall(q, b)
    BY <1>2, Calling
  <1>3. CASE AdvanceCollections \/ \E n \in DOMAIN collections : AddQueryListener(n)
    BY <1>3, AdvancingCollections, AddingListener
  <1>4. CASE \E late \in BOOLEAN : RenderQuery(late)
    BY <1>4, Rendering
  <1>5. CASE QueryEffects \/ UnmountQuery
    BY <1>5, FlushingQueryEffects, UnmountingQuery
  <1>6. CASE UNCHANGED queryVars
    BY <1>6 DEF queryVars, QueryIInv, QueryTypes, OneListener, Memoized, NewsTold, ReadFresh,
                Called, Latest, Selected
  <1> QED
    BY <1>1, <1>2, <1>3, <1>4, <1>5, <1>6 DEF QueryNext

LEMMA QueryHolds ==
  ASSUME QueryIInv
  PROVE  QueryIsFresh /\ QueryListenersRemoved
  <1> USE DEF QueryIInv
  <1>1. step # "threw"
    BY DEF QueryTypes
  <1>2. ASSUME QuerySettled, returned.n = Len(collections)
        PROVE  LET c == collections[returned.n] IN
               /\ HasDeps(call.form) => c.query = QueryOf(call.form, call.query)
               /\ c.late \/ /\ returned.read = Selected(c.barq, c.query)
                            /\ ~returned.changed
                            /\ \A i \in returned.read : c.cache[i] = "current"
    <2>1. Called /\ ~rerender /\ Latest = collections[returned.n]
      BY <1>2 DEF QuerySettled, Called, Latest
    <2>2. returned.n \in DOMAIN collections
      BY <1>2 DEF QuerySettled, QueryTypes
    <2>3. Latest.news = {} /\ ~updated
      BY <1>2, <2>1, <2>2 DEF QuerySettled, Memoized
    <2>4. HasDeps(call.form) => Understood(call).deps = call.query
      BY FormsUnderstood DEF QueryTypes
    <2>5. HasDeps(call.form) => Latest.query = QueryOf(call.form, call.query)
      BY <2>1, <2>4 DEF Memoized
    <2> QED
      BY <1>2, <2>1, <2>3, <2>5 DEF ReadFresh
  <1>3. QueryListenersRemoved
    BY DEF QueryListenersRemoved, OneListener, Called
  <1> QED
    BY <1>1, <1>2, <1>3 DEF QueryIsFresh
----------------------------------------------------------------------------
(***************************************************************************)
(* The theorems.                                                           *)
(***************************************************************************)

\* A behaviour looks at one of the hooks, and the other one stands still.
LEMMA EachHook == Spec => ObjectSpec /\ QuerySpec
  <1>1. Init => ObjectInit /\ QueryInit
    BY DEF Init
  <1>2. [Next]_vars => [ObjectNext]_objectVars /\ [QueryNext]_queryVars
    BY DEF Next, vars
  <1> QED
    BY <1>1, <1>2, PTL DEF Spec, ObjectSpec, QuerySpec

LEMMA ObjectInvariance == ObjectSpec => []ObjectIInv
  BY ObjectInitially, ObjectStep, PTL DEF ObjectSpec

LEMMA QueryInvariance == QuerySpec => []QueryIInv
  BY QueryInitially, QueryStep, PTL DEF QuerySpec

\* Once a hook has rendered what the engine has told it of, what it has returned is
\* what is there, through a reference newer than its last change: the object of the
\* key, and what the query selects.
THEOREM ReturnedIsFresh == Spec => []HooksAreFresh
  <1>1. ObjectIInv /\ QueryIInv => HooksAreFresh
    BY ObjectHolds, QueryHolds DEF HooksAreFresh
  <1> QED
    BY <1>1, EachHook, ObjectInvariance, QueryInvariance, PTL

\* An object that is inserted while useObject() listens for it is returned.
THEOREM AwaitedShows == Spec => []AwaitedIsShown
  <1>1. ObjectIInv => AwaitedIsShown
    BY ObjectHolds
  <1> QED
    BY <1>1, EachHook, ObjectInvariance, PTL

\* Whatever a component renders and whenever it goes, no listener is left behind but the
\* one of an object that was put off until the end of a transaction.
THEOREM NoListenerLeft == Spec => []ListenersRemoved
  <1>1. ObjectIInv /\ QueryIInv => ListenersRemoved
    BY ObjectHolds, QueryHolds DEF ListenersRemoved
  <1> QED
    BY <1>1, EachHook, ObjectInvariance, QueryInvariance, PTL
=============================================================================
