------------------------ MODULE SubscriptionsProofs ------------------------
(***************************************************************************)
(* A call that waits for a subscription set settles for that very set, for *)
(* any number of calls, instances, Results, options and commits.           *)
(*                                                                         *)
(* The instance a call was made on may move on while it waits.  The proof  *)
(* rests on the call's own version: the server's answer to a version is    *)
(* final (Commit and ServerAnswers change no version that has one), so     *)
(* what was posted to a call stays true until it is delivered and after.   *)
(***************************************************************************)
EXTENDS Subscriptions, TLAPS

\* No version that is waited for or pointed at is still to be committed.
Committed ==
  /\ \A c \in Calls : version[c] <= latest
  /\ \A h \in Handles : at[h] <= latest

\* What has been posted to a call that waits is true of its version.
Posted ==
  /\ \A c \in Calls : status[c] = "idle" => c \notin awaited
  /\ \A c \in awaited :
       /\ status[c] = "complete" => Answered(version[c])
       /\ status[c] = "refused" => state[version[c]] = "error"

IInv ==
  /\ TypeOK
  /\ Committed
  /\ Posted
  /\ AwaitedIsAnswered
  /\ RejectedIsRefused
  /\ SettledIsKnown

\* What a removal may leave is part of what was there.
LEMMA RemovalFacts ==
  ASSUME NEW S, NEW T \in Removals(S)
  PROVE  T \subseteq S
  <1>1. CASE \E q \in Queries : T \in Remove(q, S)
    <2>1. \A q : T \in Remove(q, S) => T = S \/ \E s \in S : T = S \ {s}
      BY DEF Remove
    <2> QED
      BY <1>1, <2>1
  <1>2. CASE \E n \in Names : T = RemoveByName(n, S)
    BY <1>2 DEF RemoveByName
  <1>3. CASE \E c \in {ClassOf[q] : q \in Queries} : T = RemoveByObjectType(c, S)
    BY <1>3 DEF RemoveByObjectType
  <1>4. CASE T = RemoveUnnamed(S) \/ T = RemoveAll(S)
    BY <1>4 DEF RemoveUnnamed, RemoveAll
  <1> QED
    BY <1>1, <1>2, <1>3, <1>4 DEF Removals

\* An edit of a set of subscriptions is one again.
LEMMA AddFacts ==
  ASSUME NEW q \in Queries, NEW name \in MaybeName, NEW S \in SUBSET Subscription
  PROVE  Add(q, name, S) \in SUBSET Subscription
  BY DEF Add, Subscription

\* The state of a committed version is one an instance may know.
LEMMA StateFacts ==
  ASSUME TypeOK, NEW v \in Versions, v <= latest
  PROVE  /\ StateOf(v) \in {"pending", "complete", "error", "superseded"}
         /\ Answered(v) \/ state[v] = "error" => StateOf(v) # "pending"
  <1>1. latest \in Nat /\ Versions \subseteq Nat
    BY SubscriptionsAssumption DEF TypeOK, Versions
  <1>2. state[v] \in {"pending", "complete", "error"}
    BY <1>1 DEF TypeOK
  <1>3. CASE \E u \in Versions : u > v /\ state[u] = "complete"
    BY <1>3 DEF StateOf
  <1>4. CASE ~\E u \in Versions : u > v /\ state[u] = "complete"
    <2>1. StateOf(v) = state[v]
      BY <1>4 DEF StateOf
    <2>2. Answered(v) => state[v] = "complete"
      BY <1>1, <1>4 DEF Answered
    <2> QED
      BY <1>2, <2>1, <2>2
  <1> QED
    BY <1>3, <1>4

\* The initial states satisfy the invariant.
LEMMA InitIInv == Init => IInv
  <1> SUFFICES ASSUME Init PROVE IInv
    OBVIOUS
  <1> USE DEF Init
  <1>1. 0 \in Versions /\ Versions \subseteq Nat
    BY SubscriptionsAssumption DEF Versions
  <1>2. TypeOK
    <2>1. latest \in Versions /\ content \in [Versions -> SUBSET Subscription]
      BY <1>1
    <2>2. state \in [Versions -> {"none", "pending", "complete", "error"}]
      BY <1>1
    <2>3. \A v \in Versions : (state[v] = "none") <=> (v > latest)
      BY <1>1
    <2>4. at \in [Handles -> Versions] /\ version \in [Calls -> Versions]
      BY <1>1
    <2>5. known \in [Handles -> {"pending", "complete", "error", "superseded"}]
      OBVIOUS
    <2>6. subscriptionName \in [Results -> MaybeName] /\ by \in [Calls -> Handles \cup {NoHandle}]
      BY DEF MaybeName
    <2>7. status \in [Calls -> {"idle", "resolved", "rejected", "expired"} \cup Pending]
      OBVIOUS
    <2> QED
      BY <2>1, <2>2, <2>3, <2>4, <2>5, <2>6, <2>7 DEF TypeOK
  <1>3. Committed /\ Posted
    BY <1>1 DEF Committed, Posted
  <1>4. AwaitedIsAnswered /\ RejectedIsRefused /\ SettledIsKnown
    BY DEF AwaitedIsAnswered, RejectedIsRefused, SettledIsKnown
  <1> QED
    BY <1>2, <1>3, <1>4 DEF IInv

\* A commit makes a new version and leaves the answers to all others alone.
LEMMA CommitFacts ==
  ASSUME TypeOK, NEW S \in SUBSET Subscription, Commit(S)
  PROVE  /\ latest' = latest + 1 /\ latest' \in Versions
         /\ content' \in [Versions -> SUBSET Subscription]
         /\ state' \in [Versions -> {"none", "pending", "complete", "error"}]
         /\ \A v \in Versions : (state'[v] = "none") <=> (v > latest')
         /\ \A v \in Versions : state[v] # "none" => state'[v] = state[v]
  <1>1. latest \in Nat /\ Versions \subseteq Nat /\ latest + 1 \in Versions
    BY SubscriptionsAssumption DEF TypeOK, Versions, Commit
  <1>2. latest' = latest + 1
    BY DEF Commit
  <1>3. content' \in [Versions -> SUBSET Subscription]
    BY <1>1 DEF Commit, TypeOK
  <1>4. \A v \in Versions : state'[v] = IF v = latest + 1 THEN "pending" ELSE state[v]
    BY <1>1 DEF Commit, TypeOK
  <1>5. state' \in [Versions -> {"none", "pending", "complete", "error"}]
    BY <1>1 DEF Commit, TypeOK
  <1>6. \A v \in Versions : (state'[v] = "none") <=> (v > latest')
    BY <1>1, <1>2, <1>4 DEF TypeOK
  <1>7. state[latest + 1] = "none"
    BY <1>1 DEF TypeOK
  <1> QED
    BY <1>1, <1>2, <1>3, <1>4, <1>5, <1>6, <1>7

\* Answers are final: if no version that had one changes, whatever was true of a
\* version's answer stays true.
LEMMA AnswersStay ==
  ASSUME \A v \in Versions : state[v] \in {"complete", "error"} => state'[v] = state[v],
         NEW v \in Versions
  PROVE  /\ Answered(v) => Answered(v)'
         /\ state[v] = "error" => state'[v] = "error"
  BY DEF Answered
----------------------------------------------------------------------------
(***************************************************************************)
(* One lemma per action: each preserves the inductive invariant.           *)
(***************************************************************************)

\* Commits: no call settles, and nothing points at the new version but the
\* instance that made it, if any.
LEMMA CommitStep ==
  ASSUME IInv, NEW S \in SUBSET Subscription, Commit(S),
         NEW h \in Handles \cup {NoHandle},
         \/ UNCHANGED <<at, known>>
         \/ h \in Handles /\ PointAt(h),
         stale' \subseteq Handles,
         subscriptionName' \in [Results -> MaybeName],
         \/ UNCHANGED <<status, version, by, awaited>>
         \/ \E c \in Calls :
              /\ status[c] = "idle"
              /\ \/ Await(c, h, latest + 1)
                 \/ /\ status' = [status EXCEPT ![c] = "resolved"]
                    /\ version' = [version EXCEPT ![c] = latest + 1]
                    /\ UNCHANGED <<by, awaited>>,
         timed' \subseteq Calls, first' \subseteq Calls, UNCHANGED closed
  PROVE  IInv'
  <1>1. /\ latest' = latest + 1 /\ latest' \in Versions
        /\ content' \in [Versions -> SUBSET Subscription]
        /\ state' \in [Versions -> {"none", "pending", "complete", "error"}]
        /\ \A v \in Versions : (state'[v] = "none") <=> (v > latest')
        /\ \A v \in Versions : state[v] # "none" => state'[v] = state[v]
    BY CommitFacts DEF IInv
  <1>2. latest \in Nat /\ Versions \subseteq Nat /\ latest + 1 \in Versions
    BY <1>1, SubscriptionsAssumption DEF IInv, TypeOK, Versions
  <1>3. \A v \in Versions : /\ Answered(v) => Answered(v)'
                            /\ state[v] = "error" => state'[v] = "error"
    BY <1>1, AnswersStay
  <1>4. /\ at' \in [Handles -> Versions]
        /\ known' \in [Handles -> {"pending", "complete", "error", "superseded"}]
        /\ \A k \in Handles :
             \/ at'[k] = at[k] /\ known'[k] = known[k]
             \/ at'[k] = latest + 1 /\ k = h
    BY <1>2 DEF IInv, TypeOK, PointAt
  <1>5. /\ status' \in [Calls -> {"idle", "resolved", "rejected", "expired"} \cup Pending]
        /\ version' \in [Calls -> Versions]
        /\ by' \in [Calls -> Handles \cup {NoHandle}]
        /\ awaited' \subseteq Calls
    BY <1>2 DEF IInv, TypeOK, Await, Pending
  <1>6. \A d \in Calls : \/ /\ status'[d] = status[d] /\ version'[d] = version[d] /\ by'[d] = by[d]
                            /\ d \in awaited' => d \in awaited
                         \/ /\ status[d] = "idle" /\ status'[d] = "waiting"
                            /\ version'[d] = latest + 1
                         \/ /\ status[d] = "idle" /\ status'[d] = "resolved"
                            /\ version'[d] = latest + 1 /\ d \notin awaited'
    BY DEF IInv, TypeOK, Await, Posted
  <1>7. TypeOK'
    BY <1>1, <1>4, <1>5 DEF IInv, TypeOK
  <1>8. Committed'
    <2>1. \A d \in Calls : version'[d] = version[d] \/ version'[d] = latest + 1
      BY <1>6
    <2>2. \A k \in Handles : at'[k] = at[k] \/ at'[k] = latest + 1
      BY <1>4
    <2>3. \A n \in Nat : n <= latest => n <= latest + 1
      BY <1>2
    <2>4. /\ \A d \in Calls : version[d] \in Nat /\ version[d] <= latest
          /\ \A k \in Handles : at[k] \in Nat /\ at[k] <= latest
      BY <1>2 DEF IInv, Committed, TypeOK
    <2>5. latest' = latest + 1 /\ latest + 1 <= latest + 1
      BY <1>1, <1>2
    <2> QED
      BY <2>1, <2>2, <2>3, <2>4, <2>5 DEF Committed
  <1>9. Posted'
    BY <1>3, <1>5, <1>6 DEF IInv, Posted, TypeOK
  <1>10. AwaitedIsAnswered'
    BY <1>3, <1>5, <1>6 DEF IInv, AwaitedIsAnswered, TypeOK
  <1>11. RejectedIsRefused'
    BY <1>3, <1>5, <1>6 DEF IInv, RejectedIsRefused, TypeOK
  <1>12. SettledIsKnown'
    <2> SUFFICES ASSUME NEW d \in awaited', status'[d] \in {"resolved", "rejected"},
                        by'[d] # NoHandle, ~closed', at'[by'[d]] = version'[d]
                 PROVE  known'[by'[d]] # "pending"
      BY DEF SettledIsKnown
    <2>1. d \in Calls /\ d \in awaited /\ status'[d] = status[d]
          /\ version'[d] = version[d] /\ by'[d] = by[d]
      BY <1>5, <1>6
    <2>2. version[d] # latest + 1 /\ by[d] \in Handles
      BY <1>2, <2>1 DEF IInv, Committed, TypeOK
    <2>3. at'[by[d]] = at[by[d]] /\ known'[by[d]] = known[by[d]]
      BY <1>4, <2>1, <2>2
    <2> QED
      BY <2>1, <2>2, <2>3 DEF IInv, SettledIsKnown
  <1> QED
    BY <1>7, <1>8, <1>9, <1>10, <1>11, <1>12 DEF IInv

\* A call that fails before it waits is one nobody awaits.
LEMMA RejectStep ==
  ASSUME IInv, NEW c \in Calls, status[c] = "idle",
         status' = [status EXCEPT ![c] = "rejected"],
         UNCHANGED <<latest, content, state, setVars, version, by, awaited, timed, first, closed>>,
         subscriptionName' \in [Results -> MaybeName]
  PROVE  IInv'
  <1>1. \A d \in Calls : status'[d] = status[d] \/ (status'[d] = "rejected" /\ d \notin awaited)
    BY DEF IInv, TypeOK, Posted
  <1>2. TypeOK'
    BY DEF IInv, TypeOK, setVars
  <1>3. Committed'
    BY DEF IInv, Committed, setVars
  <1>4. Posted' /\ AwaitedIsAnswered' /\ RejectedIsRefused' /\ SettledIsKnown'
    BY <1>1 DEF IInv, TypeOK, Posted, AwaitedIsAnswered, RejectedIsRefused, SettledIsKnown,
                Answered, setVars
  <1> QED
    BY <1>2, <1>3, <1>4 DEF IInv

LEMMA UpdateStep ==
  ASSUME IInv, NEW c \in Calls, NEW h \in Handles, Update(c, h)
  PROVE  IInv'
  <1>1. /\ status[c] = "idle" /\ UNCHANGED <<timed, first, closed>>
        /\ content[at[h]] \in SUBSET Subscription
    BY DEF Update, IInv, TypeOK
  <1>2. CASE \E r \in Results, option \in Options :
               /\ subscriptionName' = [subscriptionName EXCEPT ![r] = option.name]
               /\ Commit(Add(QueryOf[r], option.name, content[at[h]]))
               /\ PointAt(h)
               /\ Await(c, h, latest + 1)
    <2>1. PICK r \in Results, option \in Options :
               /\ subscriptionName' = [subscriptionName EXCEPT ![r] = option.name]
               /\ Commit(Add(QueryOf[r], option.name, content[at[h]]))
               /\ PointAt(h)
               /\ Await(c, h, latest + 1)
      BY <1>2
    <2>2. option.name \in MaybeName /\ QueryOf[r] \in Queries
      BY SubscriptionsAssumption DEF Option, Queries
    <2>3. Add(QueryOf[r], option.name, content[at[h]]) \in SUBSET Subscription
      BY <1>1, <2>2, AddFacts
    <2>4. /\ stale' \subseteq Handles /\ timed' \subseteq Calls /\ first' \subseteq Calls
          /\ subscriptionName' \in [Results -> MaybeName]
      BY <1>1, <2>1, <2>2 DEF PointAt, IInv, TypeOK
    <2> QED
      BY <1>1, <2>1, <2>3, <2>4, CommitStep
  <1>3. CASE \E S \in Removals(content[at[h]]) :
               Commit(S) /\ PointAt(h) /\ Await(c, h, latest + 1) /\ UNCHANGED subscriptionName
    <2>1. PICK S \in Removals(content[at[h]]) :
               Commit(S) /\ PointAt(h) /\ Await(c, h, latest + 1) /\ UNCHANGED subscriptionName
      BY <1>3
    <2>2. S \in SUBSET Subscription
      BY <1>1, RemovalFacts
    <2>3. /\ stale' \subseteq Handles /\ timed' \subseteq Calls /\ first' \subseteq Calls
          /\ subscriptionName' \in [Results -> MaybeName]
      BY <1>1, <2>1 DEF PointAt, IInv, TypeOK
    <2> QED
      BY <1>1, <2>1, <2>2, <2>3, CommitStep
  <1>4. CASE /\ status' = [status EXCEPT ![c] = "rejected"]
             /\ UNCHANGED <<latest, content, state, setVars, version, by, awaited>>
             /\ \/ UNCHANGED subscriptionName
                \/ \E r \in Results, option \in Options :
                     subscriptionName' = [subscriptionName EXCEPT ![r] = option.name]
    <2>1. subscriptionName' \in [Results -> MaybeName]
      BY <1>4, SubscriptionsAssumption DEF IInv, TypeOK, Option
    <2> QED
      BY <1>1, <1>4, <2>1, RejectStep
  <1> QED
    BY <1>2, <1>3, <1>4 DEF Update

LEMMA SubscribeStep ==
  ASSUME IInv, NEW c \in Calls, NEW r \in Results, NEW option \in Options,
         Subscribe(c, r, option)
  PROVE  IInv'
  <1> DEFINE T == Add(QueryOf[r], option.name, content[latest])
  <1>1. option.name \in MaybeName /\ QueryOf[r] \in Queries
    BY SubscriptionsAssumption DEF Option, Queries
  <1>2. T \in SUBSET Subscription
    BY <1>1, AddFacts DEF IInv, TypeOK
  <1>3. status[c] = "idle" /\ UNCHANGED <<at, known, closed>>
    BY DEF Subscribe
  <1>4. CASE /\ Commit(T) /\ stale' = Handles
             /\ subscriptionName' = [subscriptionName EXCEPT ![r] = option.name]
             /\ first' = first \/ first' = first \cup {c}
             /\ \/ /\ Await(c, NoHandle, latest + 1)
                   /\ timed' = timed \/ timed' = timed \cup {c}
                \/ /\ status' = [status EXCEPT ![c] = "resolved"]
                   /\ version' = [version EXCEPT ![c] = latest + 1]
                   /\ UNCHANGED <<by, awaited, timed>>
    <2>1. /\ timed' \subseteq Calls /\ first' \subseteq Calls /\ stale' \subseteq Handles
          /\ subscriptionName' \in [Results -> MaybeName]
      BY <1>1, <1>4 DEF IInv, TypeOK
    <2> HIDE DEF T
    <2>2. NoHandle \in Handles \cup {NoHandle}
      OBVIOUS
    <2> QED
      BY <1>2, <1>3, <1>4, <2>1, <2>2, CommitStep
  <1>5. CASE /\ status' = [status EXCEPT ![c] = "rejected"]
             /\ UNCHANGED <<latest, content, state, stale, subscriptionName, version, by,
                            awaited, timed, first>>
    <2>1. subscriptionName' \in [Results -> MaybeName] /\ UNCHANGED setVars
      BY <1>3, <1>5 DEF IInv, TypeOK, setVars
    <2> QED
      BY <1>3, <1>5, <2>1, RejectStep
  <1> QED
    BY <1>4, <1>5 DEF Subscribe

LEMMA UnsubscribeStep ==
  ASSUME IInv, NEW r \in Results, Unsubscribe(r)
  PROVE  IInv'
  <1>1. content[latest] \in SUBSET Subscription
    BY DEF IInv, TypeOK
  <1>2. \E S \in SUBSET Subscription : Commit(S)
    <2>1. CASE Commit(RemoveByName(subscriptionName[r], content[latest]))
      BY <1>1, <2>1 DEF RemoveByName
    <2>2. CASE \E T \in Remove(QueryOf[r], content[latest]) : Commit(T)
      BY <1>1, <2>2 DEF Remove
    <2> QED
      BY <2>1, <2>2 DEF Unsubscribe
  <1>3. PICK S \in SUBSET Subscription : Commit(S)
    BY <1>2
  <1>4. /\ UNCHANGED <<at, known>> /\ UNCHANGED <<status, version, by, awaited>> /\ UNCHANGED closed
        /\ stale' \subseteq Handles /\ timed' \subseteq Calls /\ first' \subseteq Calls
        /\ subscriptionName' \in [Results -> MaybeName]
    BY DEF Unsubscribe, callVars, IInv, TypeOK
  <1> QED
    BY <1>3, <1>4, CommitStep

\* An instance that is refreshed knows the answer to the version it points at.
LEMMA RefreshedKnows ==
  ASSUME IInv, NEW d \in awaited, status[d] \in {"resolved", "rejected"}
  PROVE  StateOf(version[d]) # "pending"
  <1>1. d \in Calls /\ version[d] \in Versions /\ version[d] <= latest
    BY DEF IInv, TypeOK, Committed
  <1>2. Answered(version[d]) \/ state[version[d]] = "error"
    BY DEF IInv, AwaitedIsAnswered, RejectedIsRefused
  <1> QED
    BY <1>1, <1>2, StateFacts DEF IInv

LEMMA GetSubscriptionsStep ==
  ASSUME IInv, NEW h \in Handles, GetSubscriptions(h)
  PROVE  IInv'
  <1> USE DEF GetSubscriptions, callVars
  <1>1. latest \in Versions /\ latest \in Nat
    BY SubscriptionsAssumption DEF IInv, TypeOK, Versions
  <1>2. StateOf(latest) \in {"pending", "complete", "error", "superseded"}
    BY <1>1, StateFacts DEF IInv
  <1>3. TypeOK'
    BY <1>1, <1>2 DEF IInv, TypeOK
  <1>4. Committed'
    BY <1>1 DEF IInv, TypeOK, Committed
  <1>5. Posted' /\ AwaitedIsAnswered' /\ RejectedIsRefused'
    BY DEF IInv, Posted, AwaitedIsAnswered, RejectedIsRefused, Answered
  <1>6. SettledIsKnown'
    <2> SUFFICES ASSUME NEW d \in awaited, status[d] \in {"resolved", "rejected"},
                        by[d] # NoHandle, ~closed, at'[by[d]] = version[d]
                 PROVE  known'[by[d]] # "pending"
      BY DEF SettledIsKnown
    <2>1. by[d] \in Handles
      BY DEF IInv, TypeOK
    <2>2. CASE by[d] = h
      <3>1. at'[h] = latest /\ known'[h] = StateOf(latest)
        BY DEF IInv, TypeOK
      <3> QED
        BY <2>2, <3>1, RefreshedKnows
    <2>3. CASE by[d] # h
      <3>1. at'[by[d]] = at[by[d]] /\ known'[by[d]] = known[by[d]]
        BY <2>1, <2>3 DEF IInv, TypeOK
      <3> QED
        BY <3>1 DEF IInv, SettledIsKnown
    <2> QED
      BY <2>2, <2>3
  <1> QED
    BY <1>3, <1>4, <1>5, <1>6 DEF IInv

LEMMA WaitForSynchronizationStep ==
  ASSUME IInv, NEW c \in Calls, NEW h \in Handles, WaitForSynchronization(c, h)
  PROVE  IInv'
  <1> USE DEF WaitForSynchronization, setVars
  <1>1. at[h] \in Versions /\ at[h] <= latest /\ c \notin awaited
    BY DEF IInv, TypeOK, Committed, Posted
  <1>2. /\ status'[c] \in {"complete", "refused", "waiting"}
        /\ status'[c] = "complete" => Answered(at[h])
        /\ status'[c] = "refused" => state[at[h]] = "error"
        /\ version'[c] = at[h]
    BY DEF IInv, TypeOK
  <1>3. \A d \in Calls \ {c} :
          status'[d] = status[d] /\ version'[d] = version[d] /\ by'[d] = by[d]
    BY DEF IInv, TypeOK
  <1>4. TypeOK'
    BY <1>1 DEF IInv, TypeOK, Pending
  <1>5. Committed'
    BY <1>1, <1>2, <1>3 DEF IInv, Committed
  <1>6. Posted'
    BY <1>2, <1>3 DEF IInv, Posted, TypeOK, Answered
  <1>7. AwaitedIsAnswered' /\ RejectedIsRefused' /\ SettledIsKnown'
    BY <1>2, <1>3 DEF IInv, TypeOK, AwaitedIsAnswered, RejectedIsRefused, SettledIsKnown, Answered
  <1> QED
    BY <1>4, <1>5, <1>6, <1>7 DEF IInv

LEMMA DeliverStep ==
  ASSUME IInv, NEW c \in Calls, Deliver(c)
  PROVE  IInv'
  <1> USE DEF Deliver
  <1>1. /\ status'[c] = "resolved" => status[c] = "complete"
        /\ status'[c] = "rejected" => status[c] = "refused"
        /\ status'[c] \in {"resolved", "rejected"}
        /\ \A d \in Calls \ {c} : status'[d] = status[d]
    BY DEF IInv, TypeOK
  <1>2. \A h \in Handles : known'[h] = known[h] \/ known'[h] = StateOf(at[h])
    BY DEF IInv, TypeOK
  <1>3. known' \in [Handles -> {"pending", "complete", "error", "superseded"}]
    <2>1. \A h \in Handles : StateOf(at[h]) \in {"pending", "complete", "error", "superseded"}
      BY StateFacts DEF IInv, TypeOK, Committed
    <2> QED
      BY <2>1 DEF IInv, TypeOK
  <1>4. TypeOK'
    BY <1>3 DEF IInv, TypeOK
  <1>5. Committed'
    BY DEF IInv, Committed
  <1>6. Posted'
    BY <1>1 DEF IInv, TypeOK, Posted, Answered
  <1>7. AwaitedIsAnswered' /\ RejectedIsRefused'
    BY <1>1 DEF IInv, TypeOK, Posted, AwaitedIsAnswered, RejectedIsRefused, Answered
  <1>8. SettledIsKnown'
    <2> SUFFICES ASSUME NEW d \in awaited, status'[d] \in {"resolved", "rejected"},
                        by[d] # NoHandle, ~closed, at[by[d]] = version[d]
                 PROVE  known'[by[d]] # "pending"
      BY DEF SettledIsKnown
    <2>1. d \in Calls /\ by[d] \in Handles /\ version[d] \in Versions /\ version[d] <= latest
      BY DEF IInv, TypeOK, Committed
    <2>2. Answered(version[d]) \/ state[version[d]] = "error"
      BY <1>1, <2>1 DEF IInv, Posted, AwaitedIsAnswered, RejectedIsRefused
    <2>3. StateOf(at[by[d]]) # "pending"
      BY <2>1, <2>2, StateFacts DEF IInv
    <2>4. CASE d = c
      BY <2>1, <2>3, <2>4 DEF IInv, TypeOK
    <2>5. CASE d # c
      <3>1. known[by[d]] # "pending"
        BY <1>1, <2>1, <2>5 DEF IInv, SettledIsKnown
      <3> QED
        BY <1>2, <2>1, <2>3, <3>1
    <2> QED
      BY <2>4, <2>5
  <1> QED
    BY <1>4, <1>5, <1>6, <1>7, <1>8 DEF IInv

LEMMA ExpireStep ==
  ASSUME IInv, NEW c \in Calls, Expire(c)
  PROVE  IInv'
  <1> USE DEF Expire, setVars
  <1>1. status'[c] = "expired" /\ \A d \in Calls \ {c} : status'[d] = status[d]
    BY DEF IInv, TypeOK
  <1>2. TypeOK'
    BY DEF IInv, TypeOK
  <1>3. Committed'
    BY DEF IInv, Committed
  <1>4. Posted' /\ AwaitedIsAnswered' /\ RejectedIsRefused' /\ SettledIsKnown'
    BY <1>1 DEF IInv, TypeOK, Posted, AwaitedIsAnswered, RejectedIsRefused, SettledIsKnown,
                Answered
  <1> QED
    BY <1>2, <1>3, <1>4 DEF IInv

LEMMA ServerAnswersStep ==
  ASSUME IInv, NEW v \in Versions, NEW answer \in {"complete", "error"},
         ServerAnswers(v, answer)
  PROVE  IInv'
  <1> USE DEF ServerAnswers, setVars
  <1>1. \A u \in Versions : state'[u] = IF u = v THEN answer ELSE state[u]
    BY DEF IInv, TypeOK
  <1>2. \A u \in Versions : /\ Answered(u) => Answered(u)'
                            /\ state[u] = "error" => state'[u] = "error"
    <2>1. \A u \in Versions : state[u] \in {"complete", "error"} => state'[u] = state[u]
      BY <1>1
    <2> QED
      BY <2>1, AnswersStay
  <1>3. \A d \in Calls :
          \/ status'[d] = status[d]
          \/ /\ status[d] = "waiting" /\ status'[d] = "complete" /\ answer = "complete"
             /\ version[d] <= v
          \/ /\ status[d] = "waiting" /\ status'[d] = "refused" /\ answer = "error"
             /\ version[d] = v
    BY SubscriptionsAssumption DEF IInv, TypeOK, Versions
  <1>4. answer = "complete" => \A u \in Versions : u <= v => Answered(u)'
    BY <1>1, SubscriptionsAssumption DEF Answered, Versions
  <1>5. TypeOK'
    <2>1. state' \in [Versions -> {"none", "pending", "complete", "error"}]
      BY DEF IInv, TypeOK
    <2>2. \A u \in Versions : (state'[u] = "none") <=> (u > latest')
      BY <1>1 DEF IInv, TypeOK
    <2>3. status' \in [Calls -> {"idle", "resolved", "rejected", "expired"} \cup Pending]
      BY DEF IInv, TypeOK, Pending
    <2> QED
      BY <2>1, <2>2, <2>3 DEF IInv, TypeOK
  <1>6. Committed'
    BY DEF IInv, Committed
  <1>7. Posted'
    <2>1. \A d \in Calls : status'[d] = "idle" => d \notin awaited'
      BY <1>3 DEF IInv, Posted
    <2>2. ASSUME NEW d \in awaited
          PROVE  /\ status'[d] = "complete" => Answered(version[d])'
                 /\ status'[d] = "refused" => state'[version[d]] = "error"
      <3>1. d \in Calls /\ version[d] \in Versions
        BY DEF IInv, TypeOK
      <3>2. CASE status'[d] = status[d]
        BY <1>2, <3>1, <3>2 DEF IInv, Posted, Answered
      <3>3. CASE status'[d] # status[d]
        BY <1>1, <1>3, <1>4, <3>1, <3>3 DEF Answered
      <3> QED
        BY <3>2, <3>3
    <2> QED
      BY <2>1, <2>2 DEF Posted, Answered
  <1>8. AwaitedIsAnswered' /\ RejectedIsRefused'
    <2> SUFFICES ASSUME NEW d \in awaited
                 PROVE  /\ status'[d] = "resolved" => Answered(version[d])'
                        /\ status'[d] = "rejected" => state'[version[d]] = "error"
      BY DEF AwaitedIsAnswered, RejectedIsRefused, Answered
    <2>1. d \in Calls /\ version[d] \in Versions
      BY DEF IInv, TypeOK
    <2> QED
      BY <1>2, <1>3, <2>1 DEF IInv, AwaitedIsAnswered, RejectedIsRefused, Answered
  <1>9. SettledIsKnown'
    BY <1>3 DEF IInv, TypeOK, SettledIsKnown
  <1> QED
    BY <1>5, <1>6, <1>7, <1>8, <1>9 DEF IInv

LEMMA StutterOrCloseStep ==
  ASSUME IInv, Close \/ UNCHANGED vars
  PROVE  IInv'
  <1>1. /\ UNCHANGED <<latest, content, state, setVars, subscriptionName, callVars>>
        /\ closed' \in BOOLEAN /\ (closed => closed')
    BY DEF Close, vars, IInv, TypeOK
  <1>2. TypeOK' /\ Committed'
    BY <1>1 DEF IInv, TypeOK, Committed, setVars, callVars
  <1>3. Posted' /\ AwaitedIsAnswered' /\ RejectedIsRefused' /\ SettledIsKnown'
    BY <1>1 DEF IInv, Posted, AwaitedIsAnswered, RejectedIsRefused, SettledIsKnown, Answered,
                setVars, callVars
  <1> QED
    BY <1>2, <1>3 DEF IInv
----------------------------------------------------------------------------
(***************************************************************************)
(* The theorems.                                                           *)
(***************************************************************************)

\* The invariant is inductive: every step preserves it.
LEMMA NextIInv == IInv /\ [Next]_vars => IInv'
  <1> SUFFICES ASSUME IInv, [Next]_vars PROVE IInv'
    OBVIOUS
  <1>1. CASE \E h \in Handles : GetSubscriptions(h)
    BY <1>1, GetSubscriptionsStep
  <1>2. CASE \E c \in Calls, h \in Handles : Update(c, h) \/ WaitForSynchronization(c, h)
    BY <1>2, UpdateStep, WaitForSynchronizationStep
  <1>3. CASE \E c \in Calls, r \in Results, option \in Options : Subscribe(c, r, option)
    BY <1>3, SubscribeStep
  <1>4. CASE \E r \in Results : Unsubscribe(r)
    BY <1>4, UnsubscribeStep
  <1>5. CASE \E c \in Calls : Deliver(c) \/ Expire(c)
    BY <1>5, DeliverStep, ExpireStep
  <1>6. CASE Answers
    BY <1>6, ServerAnswersStep DEF Answers
  <1>7. CASE Close \/ UNCHANGED vars
    BY <1>7, StutterOrCloseStep
  <1> QED
    BY <1>1, <1>2, <1>3, <1>4, <1>5, <1>6, <1>7 DEF Next

\* Every reachable state satisfies the inductive invariant.
LEMMA Invariance == Spec => []IInv
  BY InitIInv, NextIInv, PTL DEF Spec

\* Type correctness of the subscriptions of a Barq.
THEOREM TypeCorrect == Spec => []TypeOK
  <1>1. IInv => TypeOK
    BY DEF IInv
  <1> QED
    BY <1>1, Invariance, PTL

\* A call of update(), subscribe() or waitForSynchronization() that waits resolves
\* only if the server has completed the set it waits for or a later one, whatever
\* its instance points at by then.
THEOREM Awaited == Spec => []AwaitedIsAnswered
  <1>1. IInv => AwaitedIsAnswered
    BY DEF IInv
  <1> QED
    BY <1>1, Invariance, PTL

\* ... and rejects after waiting only if the server refused that very set.
THEOREM Rejected == Spec => []RejectedIsRefused
  <1>1. IInv => RejectedIsRefused
    BY DEF IInv
  <1> QED
    BY <1>1, Invariance, PTL

\* The refresh that follows an answer reaches the instance in time: a caller who
\* looks at it then does not find the set it waited for still pending.
THEOREM Known == Spec => []SettledIsKnown
  <1>1. IInv => SettledIsKnown
    BY DEF IInv
  <1> QED
    BY <1>1, Invariance, PTL
----------------------------------------------------------------------------
(***************************************************************************)
(* Commits lose nobody else's subscription.  An instance that no other has *)
(* superseded points at the latest set, so what update() copies and edits  *)
(* is what subscribe() or another instance committed last.                 *)
(***************************************************************************)

CurrentInv ==
  /\ IInv
  /\ \A h \in Handles \ stale : at[h] = latest

LEMMA InitCurrent == Init => CurrentInv
  BY InitIInv DEF Init, CurrentInv

\* The instance a commit is made on is current after it, and all others are stale.
LEMMA NextCurrent ==
  ASSUME CurrentInv, [Next]_vars
  PROVE  CurrentInv'
  <1>1. IInv'
    BY NextIInv DEF CurrentInv
  <1>2. ASSUME NEW h \in Handles, GetSubscriptions(h)
        PROVE  \A k \in Handles \ stale' : at'[k] = latest'
    BY <1>2 DEF GetSubscriptions, CurrentInv, IInv, TypeOK
  <1>3. ASSUME NEW c \in Calls, NEW h \in Handles, Update(c, h)
        PROVE  \A k \in Handles \ stale' : at'[k] = latest'
    <2>1. CASE UNCHANGED <<latest, setVars>>
      BY <2>1 DEF CurrentInv, setVars
    <2>2. CASE latest' = latest + 1 /\ PointAt(h)
      BY <2>2 DEF PointAt, CurrentInv, IInv, TypeOK
    <2> QED
      BY <1>3, <2>1, <2>2 DEF Update, Commit
  <1>4. ASSUME NEW c \in Calls, NEW h \in Handles, WaitForSynchronization(c, h)
        PROVE  \A k \in Handles \ stale' : at'[k] = latest'
    BY <1>4 DEF WaitForSynchronization, CurrentInv, setVars
  <1>5. ASSUME NEW c \in Calls, NEW r \in Results, NEW option \in Options,
               Subscribe(c, r, option)
        PROVE  \A k \in Handles \ stale' : at'[k] = latest'
    <2>1. UNCHANGED at /\ (stale' = Handles \/ UNCHANGED <<latest, stale>>)
      BY <1>5 DEF Subscribe
    <2> QED
      BY <2>1 DEF CurrentInv
  <1>6. ASSUME NEW r \in Results, Unsubscribe(r)
        PROVE  \A k \in Handles \ stale' : at'[k] = latest'
    BY <1>6 DEF Unsubscribe
  <1>7. ASSUME NEW c \in Calls, Deliver(c) \/ Expire(c)
        PROVE  \A k \in Handles \ stale' : at'[k] = latest'
    BY <1>7 DEF Deliver, Expire, CurrentInv, setVars
  <1>8. CASE Answers \/ Close \/ UNCHANGED vars
    BY <1>1, <1>8 DEF Answers, ServerAnswers, Close, vars, CurrentInv, setVars
  <1> QED
    BY <1>1, <1>2, <1>3, <1>4, <1>5, <1>6, <1>7, <1>8 DEF Next, CurrentInv

\* What a commit made is the content of the version it made.
LEMMA CommittedContent ==
  ASSUME TypeOK, NEW S, Commit(S)
  PROVE  content'[latest'] = S
  BY SubscriptionsAssumption DEF Commit, TypeOK, Versions

\* A step that commits makes one edit: of the latest set, or of the one that the
\* superseded instance it is made through points at.
LEMMA EditStep ==
  ASSUME CurrentInv, [Next]_vars, latest' # latest
  PROVE  \/ EditOf(content'[latest'], content[latest])
         \/ \E h \in stale : at'[h] = latest' /\ EditOf(content'[latest'], content[at[h]])
  <1>1. TypeOK
    BY DEF CurrentInv, IInv
  <1>2. ASSUME NEW c \in Calls, NEW h \in Handles, Update(c, h)
        PROVE  \/ EditOf(content'[latest'], content[latest])
               \/ h \in stale /\ at'[h] = latest' /\ EditOf(content'[latest'], content[at[h]])
    <2>1. h \in stale \/ at[h] = latest
      BY DEF CurrentInv
    <2>2. CASE \E r \in Results, option \in Options :
                 Commit(Add(QueryOf[r], option.name, content[at[h]])) /\ PointAt(h)
      <3>1. PICK r \in Results, option \in Options :
                 Commit(Add(QueryOf[r], option.name, content[at[h]])) /\ PointAt(h)
        BY <2>2
      <3>2. option.name \in MaybeName
        BY SubscriptionsAssumption DEF Option
      <3>3. content'[latest'] = Add(QueryOf[r], option.name, content[at[h]])
        BY <1>1, <3>1, CommittedContent
      <3>4. EditOf(content'[latest'], content[at[h]])
        BY <3>2, <3>3 DEF EditOf
      <3>5. at'[h] = latest'
        BY <1>1, <3>1 DEF PointAt, Commit, TypeOK
      <3> QED
        BY <2>1, <3>4, <3>5
    <2>3. CASE \E S \in Removals(content[at[h]]) : Commit(S) /\ PointAt(h)
      <3>1. EditOf(content'[latest'], content[at[h]])
        BY <1>1, <2>3, CommittedContent DEF EditOf
      <3>2. at'[h] = latest'
        BY <1>1, <2>3 DEF PointAt, Commit, TypeOK
      <3> QED
        BY <2>1, <3>1, <3>2
    <2> QED
      BY <1>2, <2>2, <2>3 DEF Update
  <1>3. ASSUME NEW c \in Calls, NEW r \in Results, NEW option \in Options,
               Subscribe(c, r, option)
        PROVE  EditOf(content'[latest'], content[latest])
    <2>1. Commit(Add(QueryOf[r], option.name, content[latest]))
      BY <1>3 DEF Subscribe
    <2>2. option.name \in MaybeName
      BY SubscriptionsAssumption DEF Option
    <2>3. content'[latest'] = Add(QueryOf[r], option.name, content[latest])
      BY <1>1, <2>1, CommittedContent
    <2> QED
      BY <2>2, <2>3 DEF EditOf
  <1>4. ASSUME NEW r \in Results, Unsubscribe(r)
        PROVE  EditOf(content'[latest'], content[latest])
    <2>1. CASE /\ subscriptionName[r] \notin {NoName, EmptyName}
               /\ Commit(RemoveByName(subscriptionName[r], content[latest]))
      <3>1. subscriptionName[r] \in Names
        BY <1>1, <2>1 DEF TypeOK, MaybeName
      <3>2. content'[latest'] = RemoveByName(subscriptionName[r], content[latest])
        BY <1>1, <2>1, CommittedContent
      <3> QED
        BY <3>1, <3>2 DEF EditOf, Removals
    <2>2. CASE \E T \in Remove(QueryOf[r], content[latest]) : Commit(T)
      <3>1. PICK T \in Remove(QueryOf[r], content[latest]) : Commit(T)
        BY <2>2
      <3>2. content'[latest'] = T /\ QueryOf[r] \in Queries
        BY <1>1, <3>1, CommittedContent DEF Queries
      <3>3. T \in Removals(content[latest])
        BY <3>1, <3>2 DEF Removals
      <3> QED
        BY <3>2, <3>3 DEF EditOf
    <2> QED
      BY <1>4, <2>1, <2>2 DEF Unsubscribe
  <1>5. /\ \A h \in Handles : GetSubscriptions(h) => latest' = latest
        /\ \A c \in Calls, h \in Handles : WaitForSynchronization(c, h) => latest' = latest
        /\ \A c \in Calls : Deliver(c) \/ Expire(c) => latest' = latest
        /\ Answers \/ Close \/ UNCHANGED vars => latest' = latest
    BY DEF GetSubscriptions, WaitForSynchronization, Deliver, Expire, Answers, ServerAnswers,
           Close, vars
  <1> QED
    BY <1>2, <1>3, <1>4, <1>5 DEF Next

\* Every commit, of whichever instance or Results, is one edit of the set that was
\* the latest, so none undoes what another one committed in between: but for a commit
\* through a superseded instance, which edits what that instance points at.
THEOREM EditsAreComposed == Spec => EditsCompose
  <1>1. CurrentInv /\ [Next]_vars => CurrentInv'
    BY NextCurrent
  <1>2. CurrentInv /\ [Next]_vars =>
          [latest' # latest =>
             \/ EditOf(content'[latest'], content[latest])
             \/ \E h \in stale :
                  at'[h] = latest' /\ EditOf(content'[latest'], content[at[h]])]_vars
    BY EditStep
  <1> QED
    BY <1>1, <1>2, InitCurrent, PTL DEF Spec, EditsCompose
----------------------------------------------------------------------------
(***************************************************************************)
(* A name is the name of one subscription: add() assigns to the one that   *)
(* has it.  So unsubscribe() removes one, whatever names Results remembers.*)
(***************************************************************************)

UniqueNames(S) == \A s, t \in S : s.name = t.name /\ s.name # NoName => s = t

NamesInv ==
  /\ IInv
  /\ \A v \in Versions : UniqueNames(content[v])

LEMMA InitNames == Init => NamesInv
  BY InitIInv DEF Init, NamesInv, UniqueNames

LEMMA UniqueAdd ==
  ASSUME NEW S, UniqueNames(S), NEW q, NEW name
  PROVE  UniqueNames(Add(q, name, S))
  BY DEF UniqueNames, Add

LEMMA UniqueRemoval ==
  ASSUME NEW S, UniqueNames(S), NEW T \in Removals(S)
  PROVE  UniqueNames(T)
  <1>1. T \subseteq S
    BY RemovalFacts
  <1> QED
    BY <1>1 DEF UniqueNames

\* A commit of subscriptions whose names are unique keeps all names unique.
LEMMA UniqueCommit ==
  ASSUME NamesInv, NEW S, Commit(S), UniqueNames(S)
  PROVE  \A v \in Versions : UniqueNames(content'[v])
  <1>1. \A v \in Versions : content'[v] = content[v] \/ content'[v] = S
    BY DEF Commit, NamesInv, IInv, TypeOK
  <1> QED
    BY <1>1 DEF NamesInv

\* What unsubscribe() commits is a removal.
LEMMA UnsubscribeRemoves ==
  ASSUME TypeOK, NEW r \in Results, Unsubscribe(r)
  PROVE  \E T \in Removals(content[latest]) : Commit(T)
  <1>1. CASE /\ subscriptionName[r] \notin {NoName, EmptyName}
             /\ Commit(RemoveByName(subscriptionName[r], content[latest]))
    <2>1. subscriptionName[r] \in Names
      BY <1>1 DEF TypeOK, MaybeName
    <2> QED
      BY <1>1, <2>1 DEF Removals
  <1>2. CASE \E T \in Remove(QueryOf[r], content[latest]) : Commit(T)
    BY <1>2 DEF Removals, Queries
  <1> QED
    BY <1>1, <1>2 DEF Unsubscribe

LEMMA NextNames ==
  ASSUME NamesInv, [Next]_vars
  PROVE  NamesInv'
  <1> DEFINE Unique == \A v \in Versions : UniqueNames(content'[v])
  <1>1. IInv'
    BY NextIInv DEF NamesInv
  <1>2. UniqueNames(content[latest]) /\ \A h \in Handles : UniqueNames(content[at[h]])
    BY DEF NamesInv, IInv, TypeOK
  <1>3. ASSUME UNCHANGED content
        PROVE  Unique
    BY <1>3 DEF NamesInv
  <1>4. ASSUME NEW c \in Calls, NEW h \in Handles, Update(c, h)
        PROVE  Unique
    <2>1. CASE \E r \in Results, option \in Options :
                 Commit(Add(QueryOf[r], option.name, content[at[h]]))
      <3>1. PICK r \in Results, option \in Options :
                 Commit(Add(QueryOf[r], option.name, content[at[h]]))
        BY <2>1
      <3>2. UniqueNames(Add(QueryOf[r], option.name, content[at[h]]))
        BY <1>2, UniqueAdd
      <3> QED
        BY <3>1, <3>2, UniqueCommit
    <2>2. CASE \E S \in Removals(content[at[h]]) : Commit(S)
      <3>1. PICK S \in Removals(content[at[h]]) : Commit(S)
        BY <2>2
      <3>2. UniqueNames(S)
        BY <1>2, UniqueRemoval
      <3> QED
        BY <3>1, <3>2, UniqueCommit
    <2> QED
      BY <1>3, <1>4, <2>1, <2>2 DEF Update
  <1>5. ASSUME NEW c \in Calls, NEW r \in Results, NEW option \in Options,
               Subscribe(c, r, option)
        PROVE  Unique
    <2>1. UniqueNames(Add(QueryOf[r], option.name, content[latest]))
      BY <1>2, UniqueAdd
    <2>2. Commit(Add(QueryOf[r], option.name, content[latest])) \/ UNCHANGED content
      BY <1>5 DEF Subscribe
    <2> QED
      BY <1>3, <2>1, <2>2, UniqueCommit
  <1>6. ASSUME NEW r \in Results, Unsubscribe(r)
        PROVE  Unique
    <2>1. PICK T \in Removals(content[latest]) : Commit(T)
      BY <1>6, UnsubscribeRemoves DEF NamesInv, IInv
    <2>2. UniqueNames(T)
      BY <1>2, UniqueRemoval
    <2> QED
      BY <2>1, <2>2, UniqueCommit
  <1>7. /\ \A h \in Handles : GetSubscriptions(h) => UNCHANGED content
        /\ \A c \in Calls, h \in Handles : WaitForSynchronization(c, h) => UNCHANGED content
        /\ \A c \in Calls : Deliver(c) \/ Expire(c) => UNCHANGED content
        /\ Answers \/ Close \/ UNCHANGED vars => UNCHANGED content
    BY DEF GetSubscriptions, WaitForSynchronization, Deliver, Expire, Answers, ServerAnswers,
           Close, vars
  <1>8. Unique
    BY <1>3, <1>4, <1>5, <1>6, <1>7 DEF Next
  <1> QED
    BY <1>1, <1>8 DEF NamesInv

\* unsubscribe() erases one subscription of its query if there is any, or the one
\* of its name.
LEMMA UnsubscribeErases ==
  ASSUME NamesInv, NEW r \in Results, Unsubscribe(r)
  PROVE  LET gone == content[latest] \ content'[latest']
         IN  /\ \A s, t \in gone : s = t
             /\ IF subscriptionName[r] \in {NoName, EmptyName}
                THEN /\ \A s \in gone : s.query = QueryOf[r]
                     /\ (\E s \in content[latest] : s.query = QueryOf[r]) => gone # {}
                ELSE \A s \in gone : s.name = subscriptionName[r]
  <1>t. TypeOK /\ UniqueNames(content[latest])
    BY DEF NamesInv, IInv, TypeOK
  <1>1. CASE subscriptionName[r] \in {NoName, EmptyName}
    <2>1. PICK T \in Remove(QueryOf[r], content[latest]) : Commit(T)
      BY <1>1 DEF Unsubscribe
    <2>2. content'[latest'] = T
      BY <1>t, <2>1, CommittedContent
    <2>3. CASE \E s \in content[latest] : s.query = QueryOf[r]
      <3>1. PICK s \in content[latest] : s.query = QueryOf[r] /\ T = content[latest] \ {s}
        BY <2>1, <2>3 DEF Remove
      <3> QED
        BY <1>1, <2>2, <3>1
    <2>4. CASE ~\E s \in content[latest] : s.query = QueryOf[r]
      BY <1>1, <2>1, <2>2, <2>4 DEF Remove
    <2> QED
      BY <2>3, <2>4
  <1>2. CASE subscriptionName[r] \notin {NoName, EmptyName}
    <2>1. Commit(RemoveByName(subscriptionName[r], content[latest]))
      BY <1>2 DEF Unsubscribe
    <2>2. content'[latest'] = RemoveByName(subscriptionName[r], content[latest])
      BY <1>t, <2>1, CommittedContent
    <2>3. \A s \in content[latest] \ content'[latest'] : s.name = subscriptionName[r]
      BY <2>2 DEF RemoveByName
    <2> QED
      BY <1>t, <1>2, <2>3 DEF UniqueNames
  <1> QED
    BY <1>1, <1>2

\* A commit changes what its caller asks for, and unsubscribe() removes one
\* subscription at most, of its own query or of the name its Results remembers: for
\* any names, options and instances.
THEOREM EditsOwn == Spec => EditsAreOwn
  <1>1. NamesInv /\ [Next]_vars => NamesInv'
    BY NextNames
  <1>2. NamesInv /\ [Next]_vars =>
          [\A r \in Results :
             Unsubscribe(r) =>
               LET gone == content[latest] \ content'[latest']
               IN  /\ \A s, t \in gone : s = t
                   /\ IF subscriptionName[r] \in {NoName, EmptyName}
                      THEN /\ \A s \in gone : s.query = QueryOf[r]
                           /\ (\E s \in content[latest] : s.query = QueryOf[r]) => gone # {}
                      ELSE \A s \in gone : s.name = subscriptionName[r]]_vars
    BY UnsubscribeErases
  <1>3. Spec => UnsubscribesOwn
    BY <1>1, <1>2, InitNames, PTL DEF Spec, UnsubscribesOwn
  <1> QED
    BY <1>3, EditsAreComposed, PTL DEF EditsAreOwn
=============================================================================
