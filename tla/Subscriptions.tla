--------------------------- MODULE Subscriptions ---------------------------
(***************************************************************************)
(* The flexible sync subscriptions of one Barq: SubscriptionSet,           *)
(* MutableSubscriptionSet and Results.subscribe().                         *)
(*                                                                         *)
(* A committed set is a version that never changes; a SubscriptionSet      *)
(* instance points at one.  The application may keep several instances,    *)
(* while subscribe() and unsubscribe() take the latest set themselves.     *)
(* JavaScript runs on one thread, so update() up to its first await is one *)
(* step; what follows the await runs when the engine has posted the        *)
(* server's answer, and the instance may point elsewhere by then.          *)
(***************************************************************************)
EXTENDS Naturals, FiniteSets

CONSTANTS
  Results,        \* the Results instances the application subscribes with
  QueryOf,        \* their queries
  ClassOf,        \* the object type of each query
  Names,          \* names a subscription may be given
  EmptyName,      \* the name "", which JavaScript takes for false
  NoName,         \* what an unnamed subscription has
  Options,        \* the options subscribe() and add() are called with
  Handles,        \* the SubscriptionSet instances the application keeps
  Calls,          \* the calls of update() and subscribe()
  MaxVersion      \* bound on the number of commits

Queries == {QueryOf[r] : r \in Results}
MaybeName == Names \cup {NoName}
Subscription == [name: MaybeName, query: Queries]
Versions == 0 .. MaxVersion
NoHandle == "subscriptions of the Barq"

Option == [name: MaybeName, behavior: {"first", "always", "never", "default"},
           throwOnUpdate: BOOLEAN, timeout: BOOLEAN]

ASSUME SubscriptionsAssumption ==
  /\ DOMAIN QueryOf = Results
  /\ Queries \subseteq DOMAIN ClassOf
  /\ NoName \notin Names
  /\ NoHandle \notin Handles
  /\ Options \subseteq Option
  /\ MaxVersion \in Nat

VARIABLES
  latest,     \* the version of the latest committed set
  content,    \* the subscriptions of each version
  state,      \* what the server has made of each version
  at,         \* the version an instance points at
  known,      \* the state an instance knew when it was last refreshed
  stale,      \* instances that another one has superseded [history]
  subscriptionName, \* Results.subscriptionName
  status,     \* each call: idle, waiting, its answer posted, or settled
  version,    \* the version each call waits for, 0 for none
  by,         \* the instance each call was made on
  awaited,    \* the calls that chose to wait
  timed,      \* those of them with a timeout
  first,      \* the calls that created a subscription, of a query nobody had
              \* subscribed to, and whose behavior is to wait for it [history]
  closed      \* Barq.isClosed

callVars == <<status, version, by, awaited, timed, first>>
setVars == <<at, known, stale>>
vars == <<latest, content, state, setVars, subscriptionName, callVars, closed>>

\* What the server made of version v, with SubscriptionSetState's fourth value.
StateOf(v) ==
  IF \E u \in Versions : u > v /\ state[u] = "complete" THEN "superseded" ELSE state[v]

Answered(v) == \E u \in Versions : u >= v /\ state[u] = "complete"
----------------------------------------------------------------------------
(***************************************************************************)
(* What MutableSubscriptionSet does to the subscriptions S it was copied   *)
(* from.                                                                   *)
(***************************************************************************)

Add(q, name, S) ==
  IF name = NoName THEN S \cup {[name |-> NoName, query |-> q]}
  ELSE {s \in S : s.name # name} \cup {[name |-> name, query |-> q]}

\* add() throws: throwOnUpdate, and the name belongs to another query.
AddThrows(q, option, S) ==
  /\ option.throwOnUpdate
  /\ \E s \in S : s.name = option.name /\ option.name # NoName /\ s.query # q

\* eraseByQuery erases one subscription of the query, whatever its name.
Remove(q, S) ==
  IF \E s \in S : s.query = q THEN {S \ {s} : s \in {t \in S : t.query = q}} ELSE {S}

RemoveByName(n, S) == {s \in S : s.name # n}
RemoveByObjectType(class, S) == {s \in S : ClassOf[s.query] # class}
RemoveUnnamed(S) == {s \in S : s.name # NoName}
RemoveAll(S) == {}

\* Everything a callback that removes may leave.
Removals(S) ==
  (UNION {Remove(q, S) : q \in Queries})        \* remove, removeSubscription
    \cup {RemoveByName(n, S) : n \in Names}
    \cup {RemoveByObjectType(c, S) : c \in {ClassOf[q] : q \in Queries}}
    \cup {RemoveUnnamed(S), RemoveAll(S)}

\* Mutated Exists: the test the wrong way round.
NotExists(r, S) ==
  IF subscriptionName[r] = NoName
  THEN \A s \in S : s.query # QueryOf[r]
  ELSE \A s \in S : s.name # subscriptionName[r]

\* BaseSubscriptionSet.exists(query)
Exists(r, S) ==
  IF subscriptionName[r] = NoName
  THEN \E s \in S : s.query = QueryOf[r]
  ELSE \E s \in S : s.name = subscriptionName[r]

ShouldWait(r, option, S) ==
  \/ option.behavior = "always"
  \/ option.behavior = "first" /\ ~Exists(r, S)

\* mutableSubscriptions.commit()
Commit(S) ==
  /\ latest < MaxVersion
  /\ latest' = latest + 1
  /\ content' = [content EXCEPT ![latest + 1] = S]
  /\ state' = [state EXCEPT ![latest + 1] = "pending"]

\* Mutated PointAt: "this.internal = ..." is missing.
KeepPointing(h) ==
  /\ stale' = (stale \cup Handles) \ {h}
  /\ UNCHANGED <<at, known>>

\* this.internal is the set just committed; the other instances are superseded.
PointAt(h) ==
  /\ at' = [at EXCEPT ![h] = latest + 1]
  /\ known' = [known EXCEPT ![h] = "pending"]
  /\ stale' = (stale \cup Handles) \ {h}
----------------------------------------------------------------------------
(***************************************************************************)
(* The application.                                                        *)
(***************************************************************************)

\* The getter Barq.subscriptions.
GetSubscriptions(h) ==
  /\ ~closed
  /\ at[h] # latest \/ known[h] # StateOf(latest)
  /\ at' = [at EXCEPT ![h] = latest]
  /\ known' = [known EXCEPT ![h] = StateOf(latest)]
  /\ stale' = stale \ {h}
  /\ UNCHANGED <<latest, content, state, subscriptionName, callVars, closed>>

\* A call c on the instance h starts to wait for version v.
Await(c, h, v) ==
  /\ status' = [status EXCEPT ![c] = "waiting"]
  /\ version' = [version EXCEPT ![c] = v]
  /\ by' = [by EXCEPT ![c] = h]
  /\ awaited' = awaited \cup {c}

\* update(callback): updateNoWait, then wait.  If the callback throws, what it
\* did to the names of Results stays, and nothing is committed.
Update(c, h) ==
  /\ ~closed
  /\ status[c] = "idle"
  /\ \/ \E r \in Results, option \in Options :
          /\ ~AddThrows(QueryOf[r], option, content[at[h]])
          /\ subscriptionName' = [subscriptionName EXCEPT ![r] = option.name]
          /\ \/ /\ Commit(Add(QueryOf[r], option.name, content[at[h]]))
                /\ PointAt(h)
                /\ Await(c, h, latest + 1)
             \/ /\ status' = [status EXCEPT ![c] = "rejected"]
                /\ UNCHANGED <<latest, content, state, setVars, version, by, awaited>>
     \/ \E S \in Removals(content[at[h]]) :
          /\ Commit(S)
          /\ PointAt(h)
          /\ Await(c, h, latest + 1)
          /\ UNCHANGED subscriptionName
     \/ /\ status' = [status EXCEPT ![c] = "rejected"]
        /\ UNCHANGED <<latest, content, state, setVars, subscriptionName, version, by, awaited>>
  /\ UNCHANGED <<timed, first, closed>>

\* waitForSynchronization() on an instance that may have its answer already.
WaitForSynchronization(c, h) ==
  /\ ~closed
  /\ status[c] = "idle"
  /\ at[h] # 0
  /\ version' = [version EXCEPT ![c] = at[h]]
  /\ by' = [by EXCEPT ![c] = h]
  /\ awaited' = awaited \cup {c}
  /\ status' = [status EXCEPT ![c] =
                  IF Answered(at[h]) THEN "complete"
                  ELSE IF state[at[h]] = "error" THEN "refused" ELSE "waiting"]
  /\ UNCHANGED <<latest, content, state, setVars, subscriptionName, timed, first, closed>>

\* Results.subscribe(options): the latest set, whether to wait, add, commit.
Subscribe(c, r, option) ==
  LET q == QueryOf[r]
      S == content[latest]
      isNew == \A s \in S : s.query # q /\ (s.name = option.name => s.name = NoName)
  IN  /\ ~closed
      /\ status[c] = "idle"
      /\ \/ /\ ~AddThrows(q, option, S)
            /\ Commit(Add(q, option.name, S))
            /\ stale' = Handles
            /\ subscriptionName' = [subscriptionName EXCEPT ![r] = option.name]
            /\ first' = IF option.behavior \in {"first", "default"} /\ isNew
                        THEN first \cup {c} ELSE first
            /\ IF ShouldWait(r, option, S)
               THEN /\ Await(c, NoHandle, latest + 1)
                    /\ timed' = IF option.timeout THEN timed \cup {c} ELSE timed
               ELSE /\ status' = [status EXCEPT ![c] = "resolved"]
                    /\ version' = [version EXCEPT ![c] = latest + 1]
                    /\ UNCHANGED <<by, awaited, timed>>
         \/ /\ AddThrows(q, option, S)
            /\ status' = [status EXCEPT ![c] = "rejected"]
            /\ UNCHANGED <<latest, content, state, stale, subscriptionName, version, by,
                           awaited, timed, first>>
      /\ UNCHANGED <<at, known, closed>>

\* Results.unsubscribe(): by name if there is a name that is not empty.
Unsubscribe(r) ==
  LET S == content[latest] IN
  /\ ~closed
  /\ IF subscriptionName[r] \notin {NoName, EmptyName}
     THEN Commit(RemoveByName(subscriptionName[r], S))
     ELSE \E T \in Remove(QueryOf[r], S) : Commit(T)
  /\ stale' = Handles
  /\ UNCHANGED <<at, known, subscriptionName, callVars, closed>>

Close ==
  /\ ~closed
  /\ closed' = TRUE
  /\ UNCHANGED <<latest, content, state, setVars, subscriptionName, callVars>>
----------------------------------------------------------------------------
(***************************************************************************)
(* The server, and what the event loop delivers.                           *)
(***************************************************************************)

\* The server completes or refuses a version; the engine posts that to whoever
\* waits for it, and completion also to whoever waits for an older version.
ServerAnswers(v, answer) ==
  /\ state[v] = "pending"
  /\ ~Answered(v)
  /\ state' = [state EXCEPT ![v] = answer]
  /\ status' = [c \in Calls |->
                  IF /\ status[c] = "waiting"
                     /\ \/ version[c] = v
                        \/ answer = "complete" /\ version[c] < v
                  THEN IF answer = "complete" THEN "complete" ELSE "refused"
                  ELSE status[c]]
  /\ UNCHANGED <<latest, content, setVars, subscriptionName, version, by, awaited, timed, first,
                 closed>>

\* Mutated Deliver: asks the instance for its state.
DeliverByState(c) ==
  /\ status[c] \in {"complete", "refused"}
  /\ status' = [status EXCEPT ![c] =
                  IF by[c] # NoHandle /\ StateOf(at[by[c]]) = "error" THEN "rejected"
                  ELSE "resolved"]
  /\ IF ~closed /\ by[c] # NoHandle
     THEN known' = [known EXCEPT ![by[c]] = StateOf(at[by[c]])]
     ELSE UNCHANGED known
  /\ UNCHANGED <<latest, content, state, at, stale, subscriptionName, version, by,
                 awaited, timed, first, closed>>

\* Mutated Deliver: does not look at the state it is given.
DeliverAnyState(c) ==
  /\ status[c] \in {"complete", "refused"}
  /\ status' = [status EXCEPT ![c] = "resolved"]
  /\ IF ~closed /\ by[c] # NoHandle
     THEN known' = [known EXCEPT ![by[c]] = StateOf(at[by[c]])]
     ELSE UNCHANGED known
  /\ UNCHANGED <<latest, content, state, at, stale, subscriptionName, version, by,
                 awaited, timed, first, closed>>

\* Mutated Deliver: refreshes only if it throws nothing.
DeliverWithoutFinally(c) ==
  /\ status[c] \in {"complete", "refused"}
  /\ status' = [status EXCEPT ![c] = IF @ = "complete" THEN "resolved" ELSE "rejected"]
  /\ IF ~closed /\ by[c] # NoHandle /\ status[c] = "complete"
     THEN known' = [known EXCEPT ![by[c]] = StateOf(at[by[c]])]
     ELSE UNCHANGED known
  /\ UNCHANGED <<latest, content, state, at, stale, subscriptionName, version, by,
                 awaited, timed, first, closed>>

\* Mutated Deliver: an answer counts only if the instance still waits for it.
DeliverIfCurrent(c) ==
  /\ status[c] \in {"complete", "refused"}
  /\ by[c] # NoHandle => at[by[c]] = version[c]
  /\ status' = [status EXCEPT ![c] = IF @ = "complete" THEN "resolved" ELSE "rejected"]
  /\ IF ~closed /\ by[c] # NoHandle
     THEN known' = [known EXCEPT ![by[c]] = StateOf(at[by[c]])]
     ELSE UNCHANGED known
  /\ UNCHANGED <<latest, content, state, at, stale, subscriptionName, version, by,
                 awaited, timed, first, closed>>

\* waitForSynchronization continues: it throws if the server refused, and either
\* way refreshes the set the instance points at by now.
Deliver(c) ==
  /\ status[c] \in {"complete", "refused"}
  /\ status' = [status EXCEPT ![c] = IF @ = "complete" THEN "resolved" ELSE "rejected"]
  /\ IF ~closed /\ by[c] # NoHandle
     THEN known' = [known EXCEPT ![by[c]] = StateOf(at[by[c]])]
     ELSE UNCHANGED known
  /\ UNCHANGED <<latest, content, state, at, stale, subscriptionName, version, by,
                 awaited, timed, first, closed>>

\* The TimeoutPromise around update() resolves, and swallows what comes later.
Expire(c) ==
  /\ status[c] \in {"waiting", "complete", "refused"}
  /\ c \in timed
  /\ status' = [status EXCEPT ![c] = "expired"]
  /\ UNCHANGED <<latest, content, state, setVars, subscriptionName, version, by, awaited,
                 timed, first, closed>>
----------------------------------------------------------------------------
Init ==
  /\ latest = 0
  /\ content = [v \in Versions |-> {}]
  /\ state = [v \in Versions |-> IF v = 0 THEN "complete" ELSE "none"]
  /\ at = [h \in Handles |-> 0]
  /\ known = [h \in Handles |-> "complete"]
  /\ stale = {}
  /\ subscriptionName = [r \in Results |-> NoName]
  /\ status = [c \in Calls |-> "idle"]
  /\ version = [c \in Calls |-> 0]
  /\ by = [c \in Calls |-> NoHandle]
  /\ awaited = {}
  /\ timed = {}
  /\ first = {}
  /\ closed = FALSE

Answers == \E v \in Versions, answer \in {"complete", "error"} : ServerAnswers(v, answer)

Next ==
  \/ \E h \in Handles : GetSubscriptions(h)
  \/ \E c \in Calls, h \in Handles : Update(c, h) \/ WaitForSynchronization(c, h)
  \/ \E c \in Calls, r \in Results, option \in Options : Subscribe(c, r, option)
  \/ \E r \in Results : Unsubscribe(r)
  \/ \E c \in Calls : Deliver(c) \/ Expire(c)
  \/ Answers
  \/ Close

Spec == Init /\ [][Next]_vars

\* The event loop delivers what was posted, and the server answers.
FairSpec == Spec /\ (\A c \in Calls : WF_vars(Deliver(c))) /\ WF_vars(Answers)
----------------------------------------------------------------------------
(***************************************************************************)
(* Properties.                                                             *)
(***************************************************************************)

Pending == {"waiting", "complete", "refused"}

\* Type correctness; the versions up to the latest, and no others, have a state.
TypeOK ==
  /\ latest \in Versions
  /\ content \in [Versions -> SUBSET Subscription]
  /\ state \in [Versions -> {"none", "pending", "complete", "error"}]
  /\ \A v \in Versions : (state[v] = "none") <=> (v > latest)
  /\ at \in [Handles -> Versions]
  /\ known \in [Handles -> {"pending", "complete", "error", "superseded"}]
  /\ stale \subseteq Handles
  /\ subscriptionName \in [Results -> MaybeName]
  /\ status \in [Calls -> {"idle", "resolved", "rejected", "expired"} \cup Pending]
  /\ version \in [Calls -> Versions]
  /\ by \in [Calls -> Handles \cup {NoHandle}]
  /\ awaited \subseteq Calls /\ timed \subseteq Calls /\ first \subseteq Calls
  /\ closed \in BOOLEAN

\* A call that waits resolves only when the server has completed the set it
\* committed or a later one, although its instance may have moved on meanwhile.
AwaitedIsAnswered ==
  \A c \in awaited : status[c] = "resolved" => Answered(version[c])

\* ... and is rejected only because the server refused that very set.
RejectedIsRefused ==
  \A c \in awaited : status[c] = "rejected" => state[version[c]] = "error"

\* When a call has settled, the instance it was made on knows the state of the
\* set it waited for, if it still points at it.
SettledIsKnown ==
  \A c \in awaited :
    /\ status[c] \in {"resolved", "rejected"}
    /\ by[c] # NoHandle
    /\ ~closed
    /\ at[by[c]] = version[c]
    => known[by[c]] # "pending"

\* One edit of the subscriptions S.
EditOf(T, S) ==
  \/ T \in Removals(S)
  \/ \E r \in Results, name \in MaybeName : T = Add(QueryOf[r], name, S)

\* An update changes nothing but what its callback asks for: the committed set is
\* one edit away from the latest, so no subscription is lost.  Only a commit made
\* through an instance that another one has superseded starts from what that
\* instance was left with.
EditsCompose ==
  [][latest' # latest =>
       \/ EditOf(content'[latest'], content[latest])
       \/ \E h \in stale :
            at'[h] = latest' /\ EditOf(content'[latest'], content[at[h]])]_vars

\* Every call settles if the server answers, unless the Barq is closed before.
EventuallySettles ==
  \A c \in Calls : (status[c] \in Pending) ~> (status[c] \notin Pending \/ closed)

\* WaitForSync.FirstTime "waits until the objects have been downloaded from the
\* server the first time the subscription is created", and is the default: a call
\* that creates a subscription, of a query no other has, resolves only when the
\* server has completed the set.
FirstTimeWaits ==
  \A c \in first : status[c] = "resolved" => Answered(version[c])

\* unsubscribe() removes one subscription at most: of this query if the Results
\* has no name that counts, and then it finds the one there is, else of that name.
UnsubscribesOwn ==
  [][\A r \in Results :
       Unsubscribe(r) =>
         LET gone == content[latest] \ content'[latest']
         IN  /\ \A s, t \in gone : s = t
             /\ IF subscriptionName[r] \in {NoName, EmptyName}
                THEN /\ \A s \in gone : s.query = QueryOf[r]
                     /\ (\E s \in content[latest] : s.query = QueryOf[r]) => gone # {}
                ELSE \A s \in gone : s.name = subscriptionName[r]]_vars

\* A commit changes what its caller asks for and loses nobody else's subscription
\* (SubscriptionSet.ts:96-116, Results.ts:167-175).
EditsAreOwn == EditsCompose /\ UnsubscribesOwn
=============================================================================
