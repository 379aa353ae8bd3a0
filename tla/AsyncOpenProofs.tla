-------------------------- MODULE AsyncOpenProofs --------------------------
(***************************************************************************)
(* Proofs about AsyncOpen, for any opens, paths, configurations and        *)
(* constructor errors.                                                     *)
(***************************************************************************)
EXTENDS AsyncOpen, FiniteSetTheorems, TLAPS

(***************************************************************************)
(* The inductive invariant.  Stages orders what happens to one open: the   *)
(* async function starts only when its task has delivered, and an active   *)
(* task is one the promise still holds.                                    *)
(***************************************************************************)
Stages ==
  \A o \in Opens :
    /\ handle[o] = "idle" => task[o] = "none" /\ chain[o] = "idle" /\ o \notin timer
    /\ chain[o] # "idle" => task[o] = "delivered"
    /\ task[o] \in Active => o \in held
    /\ handle[o] = "synced" => task[o] = "delivered"

\* Why a settled open cannot leave its task or its timer behind: until Quiet, the
\* reaction that will see to it is still pending.
TaskWatched ==
  \A o \in Opens :
    handle[o] \in Settled /\ task[o] \in Active => <<o, "cancelTask">> \in jobs

TimerWatched ==
  \A o \in timer :
    /\ timeoutPromise[o] # "none"
    /\ \/ handle[o] = "pending"
       \/ <<o, "settleTimeout">> \in jobs
       \/ <<o, "clearTimer">> \in jobs

\* What cancel() cleared is not registered, and cancel() settles.
ListenersInv ==
  /\ late = {}
  /\ listeners \cap silenced = {}
  /\ \A o \in cancelled : handle[o] \in Settled
  /\ \A o \in instances : handle[o] # "idle"

\* What an open that goes on after its subscriptions knows about the server.
SubscriptionsInv ==
  /\ \A p \in Paths : answered[p] <= version[p]
  /\ \A o \in Opens :
       /\ seen[o] <= version[PathOf[o]]
       /\ /\ config[o].flexible
          /\ chain[o] \in {"complete", "refused", "return"} \/ handle[o] = "synced"
          => seen[o] <= answered[PathOf[o]]

IInv == /\ TypeOK /\ Stages /\ TaskWatched /\ TimerWatched
        /\ ListenersInv /\ SubscriptionsInv
----------------------------------------------------------------------------
(***************************************************************************)
(* What the operators the actions share do.                                *)
(***************************************************************************)

\* Settle changes only pending handles of S, keeps the jobs there are, and
\* schedules the reactions that were registered.
LEMMA SettleFacts ==
  ASSUME TypeOK, NEW S \in SUBSET Opens, NEW how \in Settled, Settle(S, how)
  PROVE  /\ handle' = [o \in Opens |-> IF o \in S /\ handle[o] = "pending"
                                      THEN how ELSE handle[o]]
         /\ handle' \in [Opens -> {"idle", "pending"} \cup Settled]
         /\ jobs' \subseteq Opens \X Reactions
         /\ jobs \subseteq jobs'
         /\ \A o \in S : /\ handle[o] = "pending" /\ how \in Rejected /\ task[o] # "none"
                        => <<o, "cancelTask">> \in jobs'
         /\ \A o \in S : /\ handle[o] = "pending" /\ timeoutPromise[o] # "none"
                        => <<o, "settleTimeout">> \in jobs'
<1> DEFINE P == {o \in S : handle[o] = "pending"}
<1>1. /\ handle' = [o \in Opens |-> IF o \in P THEN how ELSE handle[o]]
      /\ jobs' = jobs
           \cup {j \in P \X {"cancelTask"} : how \in Rejected /\ task[j[1]] # "none"}
           \cup {j \in P \X {"settleTimeout"} : timeoutPromise[j[1]] # "none"}
  BY DEF Settle
<1>2. handle' = [o \in Opens |-> IF o \in S /\ handle[o] = "pending" THEN how ELSE handle[o]]
  BY <1>1
<1>3. handle' \in [Opens -> {"idle", "pending"} \cup Settled]
  BY <1>2 DEF TypeOK
<1>4. jobs' \subseteq Opens \X Reactions
  BY <1>1 DEF TypeOK, Reactions
<1>5. ASSUME NEW o \in S, handle[o] = "pending"
      PROVE  /\ how \in Rejected /\ task[o] # "none" => <<o, "cancelTask">> \in jobs'
             /\ timeoutPromise[o] # "none" => <<o, "settleTimeout">> \in jobs'
  <2>1. /\ <<o, "cancelTask">> \in P \X {"cancelTask"}
        /\ <<o, "settleTimeout">> \in P \X {"settleTimeout"}
        /\ <<o, "cancelTask">>[1] = o /\ <<o, "settleTimeout">>[1] = o
    BY <1>5
  <2> QED BY <1>1, <2>1
<1> QED BY <1>1, <1>2, <1>3, <1>4, <1>5

\* CancelTasks stops every active task of S that is held, and otherwise changes
\* running tasks only, to a state that is not active.
LEMMA CancelTasksFacts ==
  ASSUME TypeOK, NEW S \in SUBSET Opens, CancelTasks(S)
  PROVE  /\ task' \in [Opens -> {"none", "cancelled", "delivered"} \cup Active \cup Posted]
         /\ \A o \in Opens :
              \/ task'[o] = task[o]
              \/ task[o] \in Active /\ task'[o] \in {"cancelled", "inactive"}
         /\ \A o \in S \cap held : task'[o] \notin Active
<1> DEFINE C == {o \in S \cap held : task[o] \in Active}
<1>1. PICK own \in {"cancelled", "inactive"} :
        task' = [p \in Opens |->
                   IF p \in C
                   THEN IF task[p] = "created" THEN "cancelled" ELSE own
                   ELSE IF task[p] = "running" /\ C \cap Siblings(p) # {}
                   THEN "inactive" ELSE task[p]]
  BY DEF CancelTasks
<1>2. ASSUME NEW o \in Opens
      PROVE  /\ task'[o] \in {"none", "cancelled", "delivered"} \cup Active \cup Posted
             /\ \/ task'[o] = task[o]
                \/ task[o] \in Active /\ task'[o] \in {"cancelled", "inactive"}
             /\ o \in S \cap held => task'[o] \notin Active
  <2>1. task[o] \in {"none", "cancelled", "delivered"} \cup Active \cup Posted
    BY DEF TypeOK
  <2>2. o \in C <=> o \in S \cap held /\ task[o] \in Active
    OBVIOUS
  <2> HIDE DEF C
  <2> QED BY <1>1, <2>1, <2>2 DEF Active, Posted
<1> QED BY <1>1, <1>2
----------------------------------------------------------------------------
(***************************************************************************)
(* The invariant is inductive.                                             *)
(***************************************************************************)
LEMMA InitIInv == Init => IInv
BY OpenAssumption DEF Init, IInv, TypeOK, Stages, TaskWatched, TimerWatched, ListenersInv,
  SubscriptionsInv, Settled, Resolved, Rejected, Active, Posted, Reactions, Errors

LEMMA NextIInv == IInv /\ [Next]_vars => IInv'
<1> SUFFICES ASSUME IInv, [Next]_vars PROVE IInv'
  OBVIOUS
<1> USE OpenAssumption
<1>t. TypeOK
  BY DEF IInv
<1>c. ASSUME NEW S \in SUBSET Opens, CancelOpens(S), \A o \in S : handle[o] # "idle",
             instances' \subseteq instances, survivors' \subseteq Opens
      PROVE  IInv'
  <2>1. CancelTasks(S) /\ Settle(S, "canceled")
    BY <1>c DEF CancelOpens
  <2>2. "canceled" \in Settled /\ "canceled" \in Rejected /\ "canceled" # "synced"
    BY DEF Settled, Rejected
  <2>3. /\ task' \in [Opens -> {"none", "cancelled", "delivered"} \cup Active \cup Posted]
        /\ \A o \in Opens :
             \/ task'[o] = task[o]
             \/ task[o] \in Active /\ task'[o] \in {"cancelled", "inactive"}
        /\ \A o \in S \cap held : task'[o] \notin Active
    BY <1>t, <2>1, CancelTasksFacts
  <2>4. /\ handle' = [o \in Opens |-> IF o \in S /\ handle[o] = "pending"
                                     THEN "canceled" ELSE handle[o]]
        /\ handle' \in [Opens -> {"idle", "pending"} \cup Settled]
        /\ jobs' \subseteq Opens \X Reactions
        /\ jobs \subseteq jobs'
    BY <1>t, <2>1, <2>2, SettleFacts
  <2>5. TypeOK'
    BY <1>c, <2>3, <2>4 DEF IInv, TypeOK, CancelOpens, subVars
  <2>6. Stages'
    BY <1>c, <2>3, <2>4 DEF IInv, TypeOK, Stages, CancelOpens, Active
  <2>7. TaskWatched'
    BY <1>c, <2>3, <2>4 DEF IInv, TypeOK, Stages, TaskWatched, CancelOpens, Active, Settled
  <2>8. TimerWatched'
    BY <1>c, <2>4 DEF IInv, TypeOK, TimerWatched, CancelOpens
  <2>9. ListenersInv'
    BY <1>c, <2>2, <2>4 DEF IInv, TypeOK, ListenersInv, CancelOpens
  <2>10. SubscriptionsInv'
    BY <1>c, <2>4 DEF IInv, TypeOK, SubscriptionsInv, CancelOpens, subVars
  <2> QED
    BY <2>5, <2>6, <2>7, <2>8, <2>9, <2>10 DEF IInv
<1>1. ASSUME NEW o \in Opens, OpenImmediately(o) PROVE IInv'
  <2>1. TypeOK'
    BY <1>1 DEF OpenImmediately, OpenCommon, ConstructBarq, Seeds, IInv, TypeOK, Settled,
      Resolved, Rejected, appVars
  <2>2. Stages'
    BY <1>1 DEF OpenImmediately, OpenCommon, IInv, TypeOK, Stages
  <2>3. TaskWatched'
    BY <1>1 DEF OpenImmediately, OpenCommon, IInv, TypeOK, TaskWatched, Stages, Active
  <2>4. TimerWatched'
    BY <1>1 DEF OpenImmediately, OpenCommon, IInv, TypeOK, TimerWatched, Stages
  <2>5. ListenersInv'
    BY <1>1 DEF OpenImmediately, OpenCommon, IInv, TypeOK, ListenersInv, Settled, Resolved,
      Rejected
  <2>6. SubscriptionsInv'
    BY <1>1 DEF OpenImmediately, OpenCommon, ConstructBarq, Seeds, IInv, TypeOK,
      SubscriptionsInv, Stages
  <2> QED
    BY <2>1, <2>2, <2>3, <2>4, <2>5, <2>6 DEF IInv
<1>2. ASSUME NEW o \in Opens, DownloadBeforeOpen(o) PROVE IInv'
  <2>1. DetermineBehavior(o) \in Behaviors
    BY <1>t DEF TypeOK, DetermineBehavior, Config
  <2>2. DetermineBehavior(o) \in {"wait", "throw", "local", "invalid"}
    BY <1>2, <2>1 DEF DownloadBeforeOpen, Behaviors
  <2>20. TypeOK'
    BY <1>2, <2>2 DEF DownloadBeforeOpen, OpenCommon, IInv, TypeOK, Settled, Resolved,
      Rejected, Active, Posted, Reactions, Errors, subVars, appVars
  <2>21. Stages'
    BY <1>2, <2>2 DEF DownloadBeforeOpen, OpenCommon, IInv, TypeOK, Stages, Settled,
      Resolved, Rejected, Active, Posted, Reactions, Errors, subVars, appVars
  <2>22. TaskWatched'
    BY <1>2, <2>2 DEF DownloadBeforeOpen, OpenCommon, IInv, TypeOK, TaskWatched, Stages,
      Settled, Resolved, Rejected, Active, Posted, Reactions, Errors, subVars, appVars
  <2>23. TimerWatched'
    <3> SUFFICES ASSUME NEW q \in timer'
                 PROVE  /\ timeoutPromise'[q] # "none"
                        /\ \/ handle'[q] = "pending"
                           \/ <<q, "settleTimeout">> \in jobs'
                           \/ <<q, "clearTimer">> \in jobs'
      BY DEF TimerWatched
    <3>1. CASE q = o
      <4>1. DetermineBehavior(o) # "wait"
        BY <1>2, <3>1 DEF DownloadBeforeOpen, OpenCommon, IInv, TypeOK, Stages
      <4> QED
        BY <1>2, <2>2, <3>1, <4>1 DEF DownloadBeforeOpen, IInv, TypeOK
    <3>2. CASE q # o
      <4>1. q \in timer /\ q \in Opens
        BY <1>2, <3>2 DEF DownloadBeforeOpen, IInv, TypeOK
      <4> QED
        BY <1>2, <3>2, <4>1 DEF DownloadBeforeOpen, IInv, TypeOK, TimerWatched
    <3> QED
      BY <3>1, <3>2
  <2>24. ListenersInv'
    BY <1>2, <2>2 DEF DownloadBeforeOpen, OpenCommon, IInv, TypeOK, ListenersInv, Settled,
      Resolved, Rejected, Active, Posted, Reactions, Errors, subVars, appVars
  <2>25. SubscriptionsInv'
    BY <1>2, <2>2 DEF DownloadBeforeOpen, OpenCommon, IInv, TypeOK, SubscriptionsInv,
      Stages, Settled, Resolved, Rejected, Active, Posted, Reactions, Errors, subVars,
      appVars
  <2> QED
    BY <2>20, <2>21, <2>22, <2>23, <2>24, <2>25 DEF IInv
<1>3. ASSUME NEW o \in Opens, Cancel(o) PROVE IInv'
  BY <1>3, <1>c DEF Cancel, IInv, TypeOK
<1>4. ASSUME NEW o \in Opens, Progress(o) PROVE IInv'
  BY <1>4 DEF Progress, IInv, TypeOK, Stages, TaskWatched, TimerWatched, ListenersInv,
    SubscriptionsInv, Settled, Resolved, Rejected, Active, Posted, Reactions, Errors,
    subVars, appVars
<1>5. ASSUME NEW o \in Opens, TaskProgresses(o) PROVE IInv'
  BY <1>5 DEF TaskProgresses, IInv, TypeOK, Stages, TaskWatched, TimerWatched, ListenersInv,
    SubscriptionsInv, Settled, Resolved, Rejected, Active, Posted, Reactions, Errors,
    subVars, appVars
<1>6. ASSUME NEW o \in Opens, DeliverReference(o) PROVE IInv'
  BY <1>6, SMTT(30) DEF DeliverReference, ConstructBarq, MustWait, IInv, TypeOK, Stages, TaskWatched,
    TimerWatched, ListenersInv, SubscriptionsInv, Settled, Resolved, Rejected, Active,
    Posted, Reactions, Errors, subVars, appVars
<1>7. ASSUME NEW o \in Opens, DeliverFailure(o) PROVE IInv'
  <2> DEFINE how == IF task[o] = "inactive" THEN "canceled" ELSE "failed"
  <2>1. Settle({o}, how) /\ {o} \in SUBSET Opens /\ how \in Rejected /\ how \in Settled
    BY <1>7 DEF DeliverFailure, Settled, Resolved, Rejected
  <2>2a. how # "synced" /\ how # "pending"
    OBVIOUS
  <2> HIDE DEF how
  <2>2. /\ handle' = [q \in Opens |-> IF q \in {o} /\ handle[q] = "pending" THEN how ELSE handle[q]]
        /\ handle' \in [Opens -> {"idle", "pending"} \cup Settled]
        /\ jobs' \subseteq Opens \X Reactions
        /\ jobs \subseteq jobs'
        /\ /\ handle[o] = "pending" /\ how \in Rejected /\ task[o] # "none"
           => <<o, "cancelTask">> \in jobs'
        /\ handle[o] = "pending" /\ timeoutPromise[o] # "none" => <<o, "settleTimeout">> \in jobs'
    BY <1>t, <2>1, SettleFacts
  <2> QED
    BY <1>7, <2>1, <2>2, <2>2a, SMTT(30) DEF DeliverFailure, IInv, TypeOK, Stages, TaskWatched,
      TimerWatched, ListenersInv, SubscriptionsInv, Settled, Resolved, Rejected, Active,
      Posted, Reactions, Errors, subVars, appVars
<1>8. ASSUME NEW o \in Opens, DeliverSubscriptionState(o) PROVE IInv'
  BY <1>8 DEF DeliverSubscriptionState, IInv, TypeOK, Stages, TaskWatched, TimerWatched,
    ListenersInv, SubscriptionsInv, Settled, Resolved, Rejected, Active, Posted, Reactions,
    Errors, subVars, appVars
<1>9. ASSUME NEW o \in Opens, EmitProgress(o) PROVE IInv'
  BY <1>9 DEF EmitProgress, IInv, TypeOK, Stages, TaskWatched, TimerWatched, ListenersInv,
    SubscriptionsInv, Settled, Resolved, Rejected, Active, Posted, Reactions, Errors,
    subVars, appVars
<1>10. ASSUME NEW o \in Opens, TimeoutRejects(o) PROVE IInv'
  <2>1. Settle({o}, "timedOut") /\ {o} \in SUBSET Opens /\ "timedOut" \in Settled
    BY <1>10 DEF TimeoutRejects, Settled, Resolved, Rejected
  <2>2. /\ handle' = [q \in Opens |-> IF q \in {o} /\ handle[q] = "pending" THEN "timedOut" ELSE handle[q]]
        /\ handle' \in [Opens -> {"idle", "pending"} \cup Settled]
        /\ jobs' \subseteq Opens \X Reactions
        /\ jobs \subseteq jobs'
        /\ /\ handle[o] = "pending" /\ "timedOut" \in Rejected /\ task[o] # "none"
           => <<o, "cancelTask">> \in jobs'
        /\ handle[o] = "pending" /\ timeoutPromise[o] # "none" => <<o, "settleTimeout">> \in jobs'
    BY <1>t, <2>1, SettleFacts
  <2> QED
    BY <1>10, <2>1, <2>2 DEF TimeoutRejects, IInv, TypeOK, Stages, TaskWatched, TimerWatched,
      ListenersInv, SubscriptionsInv, Settled, Resolved, Rejected, Active, Posted,
      Reactions, Errors, subVars, appVars
<1>11. ASSUME NEW o \in Opens, TimeoutOpensLocal(o) PROVE IInv'
  <2>1. CancelTasks({o}) /\ {o} \in SUBSET Opens
    BY <1>11 DEF TimeoutOpensLocal
  <2>2. /\ task' \in [Opens -> {"none", "cancelled", "delivered"} \cup Active \cup Posted]
        /\ \A q \in Opens :
             \/ task'[q] = task[q]
             \/ task[q] \in Active /\ task'[q] \in {"cancelled", "inactive"}
        /\ \A q \in {o} \cap held : task'[q] \notin Active
    BY <1>t, <2>1, CancelTasksFacts
  <2>3. CASE Settle({o}, "local") /\ ConstructBarq(o, PathOf[o] \in file, "local")
    <3>1. "local" \in Settled /\ "local" \in Resolved
      BY DEF Settled, Resolved
    <3>2. /\ handle' = [q \in Opens |-> IF q \in {o} /\ handle[q] = "pending" THEN "local" ELSE handle[q]]
          /\ handle' \in [Opens -> {"idle", "pending"} \cup Settled]
          /\ jobs' \subseteq Opens \X Reactions
          /\ jobs \subseteq jobs'
          /\ /\ handle[o] = "pending" /\ "local" \in Rejected /\ task[o] # "none"
             => <<o, "cancelTask">> \in jobs'
          /\ handle[o] = "pending" /\ timeoutPromise[o] # "none" => <<o, "settleTimeout">> \in jobs'
      BY <1>t, <2>1, <2>3, <3>1, SettleFacts
    <3>20. TypeOK'
      BY <1>11, <2>2, <2>3, <3>1, <3>2 DEF TimeoutOpensLocal, ConstructBarq, IInv, TypeOK,
        Settled, Resolved, Rejected, Active, Posted, Reactions, Errors, subVars, appVars
    <3>21. Stages'
      BY <1>11, <2>2, <2>3, <3>1, <3>2 DEF TimeoutOpensLocal, ConstructBarq, IInv, TypeOK,
        Stages, Settled, Resolved, Rejected, Active, Posted, Reactions, Errors, subVars,
        appVars
    <3>22. TaskWatched'
      BY <1>11, <2>2, <2>3, <3>1, <3>2 DEF TimeoutOpensLocal, ConstructBarq, IInv, TypeOK,
        TaskWatched, Stages, Settled, Resolved, Rejected, Active, Posted, Reactions, Errors,
        subVars, appVars
    <3>23. TimerWatched'
      BY <1>11, <2>2, <2>3, <3>1, <3>2 DEF TimeoutOpensLocal, ConstructBarq, IInv, TypeOK,
        TimerWatched, Settled, Resolved, Rejected, Active, Posted, Reactions, Errors,
        subVars, appVars
    <3>24. ListenersInv'
      BY <1>11, <2>2, <2>3, <3>1, <3>2 DEF TimeoutOpensLocal, ConstructBarq, IInv, TypeOK,
        ListenersInv, Settled, Resolved, Rejected, Active, Posted, Reactions, Errors,
        subVars, appVars
    <3>25. SubscriptionsInv'
      BY <1>11, <2>2, <2>3, <3>1, <3>2 DEF TimeoutOpensLocal, ConstructBarq, IInv, TypeOK,
        SubscriptionsInv, Stages, Settled, Resolved, Rejected, Active, Posted, Reactions,
        Errors, subVars, appVars
    <3> QED
      BY <3>20, <3>21, <3>22, <3>23, <3>24, <3>25 DEF IInv
  <2>4. CASE UNCHANGED <<handle, jobs, made, file, version, seeders>>
    BY <1>11, <2>2, <2>4 DEF TimeoutOpensLocal, IInv, TypeOK, Stages, TaskWatched,
      TimerWatched, ListenersInv, SubscriptionsInv, Settled, Resolved, Rejected, Active,
      Posted, Reactions, Errors, subVars, appVars
  <2> QED
    BY <1>11, <2>3, <2>4 DEF TimeoutOpensLocal
<1>12. ASSUME NEW o \in Opens, CancelTaskOnReject(o) PROVE IInv'
  <2>1. CancelTasks({o}) /\ {o} \in SUBSET Opens
    BY <1>12 DEF CancelTaskOnReject
  <2>2. /\ task' \in [Opens -> {"none", "cancelled", "delivered"} \cup Active \cup Posted]
        /\ \A q \in Opens :
             \/ task'[q] = task[q]
             \/ task[q] \in Active /\ task'[q] \in {"cancelled", "inactive"}
        /\ \A q \in {o} \cap held : task'[q] \notin Active
    BY <1>t, <2>1, CancelTasksFacts
  <2> QED
    BY <1>12, <2>1, <2>2 DEF CancelTaskOnReject, IInv, TypeOK, Stages, TaskWatched,
      TimerWatched, ListenersInv, SubscriptionsInv, Settled, Resolved, Rejected, Active,
      Posted, Reactions, Errors, subVars, appVars
<1>13. ASSUME NEW o \in Opens, SettleTimeout(o) PROVE IInv'
  BY <1>13 DEF SettleTimeout, IInv, TypeOK, Stages, TaskWatched, TimerWatched, ListenersInv,
    SubscriptionsInv, Settled, Resolved, Rejected, Active, Posted, Reactions, Errors,
    subVars, appVars
<1>14. ASSUME NEW o \in Opens, ClearTimer(o) PROVE IInv'
  BY <1>14 DEF ClearTimer, IInv, TypeOK, Stages, TaskWatched, TimerWatched, ListenersInv,
    SubscriptionsInv, Settled, Resolved, Rejected, Active, Posted, Reactions, Errors,
    subVars, appVars
<1>15. ASSUME NEW o \in Opens, ReturnBarq(o) PROVE IInv'
  <2>1. Settle({o}, "synced") /\ {o} \in SUBSET Opens /\ "synced" \in Settled
    BY <1>15 DEF ReturnBarq, Settled, Resolved, Rejected
  <2>2. /\ handle' = [q \in Opens |-> IF q \in {o} /\ handle[q] = "pending" THEN "synced" ELSE handle[q]]
        /\ handle' \in [Opens -> {"idle", "pending"} \cup Settled]
        /\ jobs' \subseteq Opens \X Reactions
        /\ jobs \subseteq jobs'
        /\ /\ handle[o] = "pending" /\ "synced" \in Rejected /\ task[o] # "none"
           => <<o, "cancelTask">> \in jobs'
        /\ handle[o] = "pending" /\ timeoutPromise[o] # "none" => <<o, "settleTimeout">> \in jobs'
    BY <1>t, <2>1, SettleFacts
  <2> QED
    BY <1>15, <2>1, <2>2, SMTT(30) DEF ReturnBarq, IInv, TypeOK, Stages, TaskWatched, TimerWatched,
      ListenersInv, SubscriptionsInv, Settled, Resolved, Rejected, Active, Posted,
      Reactions, Errors, subVars, appVars
<1>16. ASSUME NEW o \in Opens, FailOpen(o) PROVE IInv'
  <2>1. CASE chain[o] = "coded"
    BY <1>16, <2>1 DEF FailOpen, IInv, TypeOK, Stages, TaskWatched, TimerWatched,
      ListenersInv, SubscriptionsInv, Settled, Resolved, Rejected, Active, Posted,
      Reactions, Errors, subVars, appVars
  <2>2. CASE chain[o] # "coded"
    <3>1. Settle({o}, "failed") /\ {o} \in SUBSET Opens /\ "failed" \in Settled
      BY <1>16, <2>2 DEF FailOpen, Settled, Rejected
    <3>2. /\ handle' = [q \in Opens |-> IF q \in {o} /\ handle[q] = "pending" THEN "failed" ELSE handle[q]]
          /\ handle' \in [Opens -> {"idle", "pending"} \cup Settled]
          /\ jobs' \subseteq Opens \X Reactions
          /\ jobs \subseteq jobs'
          /\ /\ handle[o] = "pending" /\ "failed" \in Rejected /\ task[o] # "none"
             => <<o, "cancelTask">> \in jobs'
          /\ handle[o] = "pending" /\ timeoutPromise[o] # "none" => <<o, "settleTimeout">> \in jobs'
      BY <1>t, <3>1, SettleFacts
    <3>20. TypeOK'
      BY <1>16, <2>2, <3>1, <3>2 DEF FailOpen, IInv, TypeOK, Settled, Resolved, Rejected,
        Active, Posted, Reactions, Errors, subVars, appVars
    <3>21. Stages'
      BY <1>16, <2>2, <3>1, <3>2 DEF FailOpen, IInv, TypeOK, Stages, Settled, Resolved,
        Rejected, Active, Posted, Reactions, Errors, subVars, appVars
    <3>22. TaskWatched'
      BY <1>16, <2>2, <3>1, <3>2 DEF FailOpen, IInv, TypeOK, TaskWatched, Stages, Settled,
        Resolved, Rejected, Active, Posted, Reactions, Errors, subVars, appVars
    <3>23. TimerWatched'
      BY <1>16, <2>2, <3>1, <3>2 DEF FailOpen, IInv, TypeOK, TimerWatched, Settled,
        Resolved, Rejected, Active, Posted, Reactions, Errors, subVars, appVars
    <3>24. ListenersInv'
      BY <1>16, <2>2, <3>1, <3>2 DEF FailOpen, IInv, TypeOK, ListenersInv, Settled,
        Resolved, Rejected, Active, Posted, Reactions, Errors, subVars, appVars
    <3>25. SubscriptionsInv'
      BY <1>16, <2>2, <3>1, <3>2 DEF FailOpen, IInv, TypeOK, SubscriptionsInv, Stages,
        Settled, Resolved, Rejected, Active, Posted, Reactions, Errors, subVars, appVars
    <3> QED
      BY <3>20, <3>21, <3>22, <3>23, <3>24, <3>25 DEF IInv
  <2> QED
    BY <2>1, <2>2
<1>17. ASSUME NEW o \in Opens, NEW result \in {"tsr", "error"}, TaskCompletes(o, result)
     PROVE  IInv'
  BY <1>17 DEF TaskCompletes, IInv, TypeOK, Stages, TaskWatched, TimerWatched, ListenersInv,
    SubscriptionsInv, Settled, Resolved, Rejected, Active, Posted, Reactions, Errors,
    subVars, appVars
<1>18. ASSUME NEW p \in Paths, NEW state \in {"complete", "refused"}, ServerAnswers(p, state)
     PROVE  IInv'
  BY <1>18 DEF ServerAnswers, IInv, TypeOK, Stages, TaskWatched, TimerWatched, ListenersInv,
    SubscriptionsInv, Settled, Resolved, Rejected, Active, Posted, Reactions, Errors,
    subVars, appVars
<1>19. CASE CancelAll
  BY <1>19, <1>c DEF CancelAll, IInv, TypeOK, ListenersInv
<1>20. CASE UNCHANGED vars
  BY <1>20 DEF vars, IInv, TypeOK, Stages, TaskWatched, TimerWatched, ListenersInv,
    SubscriptionsInv, Settled, Resolved, Rejected, Active, Posted, Reactions, Errors,
    subVars, appVars
<1> QED
  BY <1>1, <1>2, <1>3, <1>4, <1>5, <1>6, <1>7, <1>8, <1>9, <1>10, <1>11, <1>12, <1>13,
    <1>14, <1>15, <1>16, <1>17, <1>18, <1>19, <1>20 DEF Next, Application, Engine,
    Macrotask, Microtask
----------------------------------------------------------------------------
(***************************************************************************)
(* What follows for every behaviour.                                       *)
(***************************************************************************)

\* Every state the program reaches satisfies the inductive invariant.
THEOREM Invariance == Spec => []IInv
BY InitIInv, NextIInv, PTL DEF Spec

\* The promise, task, timer and chain of every open keep their types.
THEOREM TypeCorrect == Spec => []TypeOK
<1>1. IInv => TypeOK
  BY DEF IInv
<1> QED
  BY <1>1, Invariance, PTL

\* A settled open leaves no native download running: the rejections that cancel()
\* does not cause are seen to by the catch handler on handle.promise, the
\* resolutions by cancelAndResetTask or by the task having delivered.
THEOREM NoOrphan == Spec => []NoOrphanTask
<1>1. IInv => NoOrphanTask
  BY DEF IInv, TaskWatched, NoOrphanTask, Quiet
<1> QED
  BY <1>1, Invariance, PTL

\* A settled open leaves no timer armed.
THEOREM NoLeak == Spec => []NoTimerLeak
<1>1. IInv => NoTimerLeak
  BY DEF IInv, TimerWatched, NoTimerLeak, Quiet
<1> QED
  BY <1>1, Invariance, PTL

\* An open resolved after the download had its subscriptions answered.
THEOREM Synchronized == Spec => []ResolvesSynchronized
<1>1. IInv => ResolvesSynchronized
  BY DEF IInv, SubscriptionsInv, ResolvesSynchronized
<1> QED
  BY <1>1, Invariance, PTL

\* No callback that cancel() has cleared is called, unless progress() registers it again.
THEOREM NoLate == Spec => []NoLateProgress
<1>1. IInv => NoLateProgress
  BY DEF IInv, ListenersInv, NoLateProgress
<1> QED
  BY <1>1, Invariance, PTL

\* An open that has settled or was cancelled leaves no task and no timer, and the callbacks
\* that cancel() has cleared are silent.
THEOREM NoLeaks == Spec => []NothingLeaks
<1>1. NoOrphanTask /\ NoTimerLeak /\ NoLateProgress => NothingLeaks
  BY DEF NothingLeaks
<1> QED
  BY <1>1, NoOrphan, NoLeak, NoLate, PTL
----------------------------------------------------------------------------
(***************************************************************************)
(* Who seeds a new file, and who is left after a shutdown.  The opens that *)
(* found no file may seed it; the first of them that gets anywhere makes   *)
(* the file before another can look, so there is one (Founders).           *)
(***************************************************************************)
MaySeed(o) ==
  o \notin existed /\ (task[o] # "none" \/ (o \in seeders /\ config[o].initial = "once"))

Founders ==
  /\ \A o \in Opens : task[o] # "none" => PathOf[o] \in file
  /\ \A o \in timer : task[o] # "none"
  /\ \A o \in existed : handle[o] # "idle"
  /\ \A o \in seeders : /\ handle[o] # "idle"
                        /\ config[o].initial = "once" => o \notin existed /\ PathOf[o] \in file
  /\ \A o, q \in Opens : MaySeed(o) /\ MaySeed(q) /\ PathOf[o] = PathOf[q] => o = q

\* With the flag set, cancelAll() knows every open that is pending.
Collected ==
  AllowClearTestState =>
    /\ survivors = {}
    /\ \A o \in Opens : handle[o] = "pending" => o \in instances

\* What every action but those that open does to a handle and a task: a handle that is
\* not pending does not become so, and nobody gains a task or forgets having had one.
Onward ==
  /\ \A o \in Opens : (handle'[o] = "idle") <=> (handle[o] = "idle")
  /\ \A o \in Opens : handle'[o] = "pending" => handle[o] = "pending"
  /\ \A o \in Opens : (task'[o] = "none") <=> (task[o] = "none")
  /\ timer' \subseteq timer

\* ... and whoever seeds does so on what it found when it opened, or finds now.
Seeding ==
  /\ UNCHANGED <<config, existed>>
  /\ file \subseteq file'
  /\ \/ seeders' = seeders
     \/ \E o \in Opens :
          /\ seeders' = seeders \cup {o}
          /\ o \in timer \/ task[o] # "none"
          /\ PathOf[o] \in file'
          /\ config[o].initial = "once" => o \notin existed \/ PathOf[o] \notin file

LEMMA SettleOnward ==
  ASSUME TypeOK, NEW S \in SUBSET Opens, NEW how \in Settled, Settle(S, how)
  PROVE  /\ \A o \in Opens : (handle'[o] = "idle") <=> (handle[o] = "idle")
         /\ \A o \in Opens : handle'[o] = "pending" => handle[o] = "pending"
<1>1. handle' = [o \in Opens |-> IF o \in S /\ handle[o] = "pending" THEN how ELSE handle[o]]
  BY SettleFacts
<1> QED BY <1>1 DEF Settled, Resolved, Rejected

LEMMA CancelOnward ==
  ASSUME TypeOK, NEW S \in SUBSET Opens, CancelTasks(S)
  PROVE  \A o \in Opens : (task'[o] = "none") <=> (task[o] = "none")
<1>1. \A o \in Opens : \/ task'[o] = task[o]
                       \/ task[o] \in Active /\ task'[o] \in {"cancelled", "inactive"}
  BY CancelTasksFacts
<1> QED BY <1>1 DEF Active

LEMMA OnwardFacts ==
  ASSUME TypeOK, [Next]_vars
  PROVE  \/ \E o \in Opens : OpenImmediately(o) \/ DownloadBeforeOpen(o)
         \/ Onward /\ Seeding
<1>h. {"timedOut", "canceled", "failed", "local", "synced"} \subseteq Settled
  BY DEF Settled, Resolved, Rejected
<1>1. ASSUME NEW o \in Opens, Application(o)
      PROVE  OpenImmediately(o) \/ DownloadBeforeOpen(o) \/ (Onward /\ Seeding)
  <2>1. CASE Cancel(o)
    <3>1. CancelTasks({o}) /\ Settle({o}, "canceled") /\ timer' \subseteq timer
      BY <2>1 DEF Cancel, CancelOpens
    <3>s. Seeding
      BY <2>1 DEF Cancel, CancelOpens, Seeding, subVars
    <3> QED BY <1>h, <3>s, <3>1, SettleOnward, CancelOnward DEF Onward
  <2>2. CASE Progress(o)
    BY <2>2 DEF Progress, Onward, Seeding, subVars
  <2>3. CASE OpenImmediately(o) \/ DownloadBeforeOpen(o)
    BY <2>3
  <2> QED BY <1>1, <2>1, <2>2, <2>3 DEF Application
<1>2. ASSUME NEW o \in Opens, Engine(o)
      PROVE  Onward /\ Seeding
  BY <1>2 DEF Engine, TaskCompletes, TaskProgresses, Onward, Seeding, subVars, TypeOK
<1>3. ASSUME NEW o \in Opens, Macrotask(o)
      PROVE  Onward /\ Seeding
  <2>1. CASE DeliverReference(o)
    <3>1. Onward
      BY <2>1 DEF DeliverReference, Onward, TypeOK
    <3>2. Seeding
      BY <2>1 DEF DeliverReference, ConstructBarq, Seeds, Seeding
    <3> QED BY <3>1, <3>2
  <2>2. CASE DeliverFailure(o)
    <3>1. PICK how \in {"canceled", "failed"} : Settle({o}, how)
      BY <2>2 DEF DeliverFailure
    <3>2. \A q \in Opens : (task'[q] = "none") <=> (task[q] = "none")
      BY <2>2 DEF DeliverFailure, TypeOK
    <3>3. timer' = timer
      BY <2>2 DEF DeliverFailure
    <3>s. Seeding
      BY <2>2 DEF DeliverFailure, Seeding, subVars
    <3> QED BY <1>h, <3>s, <3>1, <3>2, <3>3, SettleOnward DEF Onward
  <2>3. CASE DeliverSubscriptionState(o)
    BY <2>3 DEF DeliverSubscriptionState, Onward, Seeding, subVars
  <2>4. CASE EmitProgress(o)
    BY <2>4 DEF EmitProgress, Onward, Seeding, subVars
  <2>5. CASE TimeoutRejects(o)
    <3>1. Settle({o}, "timedOut") /\ timer' \subseteq timer /\ task' = task
      BY <2>5 DEF TimeoutRejects
    <3>s. Seeding
      BY <2>5 DEF TimeoutRejects, Seeding, subVars
    <3> QED BY <1>h, <3>s, <3>1, SettleOnward DEF Onward
  <2>6. CASE TimeoutOpensLocal(o)
    <3>1. CancelTasks({o}) /\ timer' \subseteq timer /\ (handle' = handle \/ Settle({o}, "local"))
      BY <2>6 DEF TimeoutOpensLocal
    <3>s. Seeding
      BY <2>6 DEF TimeoutOpensLocal, ConstructBarq, Seeds, Seeding
    <3> QED BY <1>h, <3>s, <3>1, SettleOnward, CancelOnward DEF Onward
  <2> QED BY <1>3, <2>1, <2>2, <2>3, <2>4, <2>5, <2>6 DEF Macrotask
<1>4. ASSUME NEW o \in Opens, Microtask(o)
      PROVE  Onward /\ Seeding
  <2>1. CASE CancelTaskOnReject(o)
    <3>1. CancelTasks({o}) /\ UNCHANGED <<handle, timer>>
      BY <2>1 DEF CancelTaskOnReject
    <3>s. Seeding
      BY <2>1 DEF CancelTaskOnReject, Seeding, subVars
    <3> QED BY <3>s, <3>1, CancelOnward DEF Onward
  <2>2. CASE SettleTimeout(o) \/ ClearTimer(o)
    BY <2>2 DEF SettleTimeout, ClearTimer, Onward, Seeding, subVars
  <2>3. CASE ReturnBarq(o)
    <3>1. Settle({o}, "synced") /\ UNCHANGED <<task, timer>>
      BY <2>3 DEF ReturnBarq
    <3>s. Seeding
      BY <2>3 DEF ReturnBarq, Seeding, subVars
    <3> QED BY <1>h, <3>s, <3>1, SettleOnward DEF Onward
  <2>4. CASE FailOpen(o)
    <3>1. (handle' = handle \/ Settle({o}, "failed")) /\ UNCHANGED <<task, timer>>
      BY <2>4 DEF FailOpen
    <3>s. Seeding
      BY <2>4 DEF FailOpen, Seeding, subVars
    <3> QED BY <1>h, <3>s, <3>1, SettleOnward DEF Onward
  <2> QED BY <1>4, <2>1, <2>2, <2>3, <2>4 DEF Microtask
<1>5. ASSUME NEW p \in Paths, NEW state \in {"complete", "refused"}, ServerAnswers(p, state)
      PROVE  Onward /\ Seeding
  BY <1>5 DEF ServerAnswers, Onward, Seeding
<1>6. CASE CancelAll
  <2>1. CancelTasks(instances) /\ Settle(instances, "canceled") /\ timer' \subseteq timer
    BY <1>6 DEF CancelAll, CancelOpens
  <2>2. instances \in SUBSET Opens
    BY DEF TypeOK
  <2>s. Seeding
    BY <1>6 DEF CancelAll, CancelOpens, Seeding, subVars
  <2> QED BY <1>h, <2>s, <2>1, <2>2, SettleOnward, CancelOnward DEF Onward
<1>7. CASE UNCHANGED vars
  BY <1>7 DEF vars, Onward, Seeding, subVars
<1> QED BY <1>1, <1>2, <1>3, <1>4, <1>5, <1>6, <1>7 DEF Next

LEMMA NextFounders ==
  ASSUME IInv, Founders, [Next]_vars
  PROVE  Founders'
<1> USE OpenAssumption
<1>t. TypeOK /\ Stages
  BY DEF IInv
<1>1. ASSUME NEW o \in Opens, OpenImmediately(o)
      PROVE  Founders'
  <2>1. /\ handle[o] = "idle" /\ task[o] = "none" /\ o \notin timer
        /\ existed' = IF PathOf[o] \in file THEN existed \cup {o} ELSE existed
        /\ UNCHANGED <<config, task, timer>>
        /\ file \subseteq file'
        /\ handle'[o] # "idle" /\ \A q \in Opens \ {o} : handle'[q] = handle[q]
        /\ \/ seeders' = seeders
           \/ /\ seeders' = seeders \cup {o} /\ PathOf[o] \in file'
              /\ config[o].initial = "once" => PathOf[o] \notin file
    BY <1>1, <1>t DEF OpenImmediately, OpenCommon, ConstructBarq, Seeds, Stages, TypeOK
  <2>2. o \notin existed /\ o \notin seeders
    BY <2>1 DEF Founders
  <2>3. existed \subseteq Opens /\ seeders \subseteq Opens /\ timer \subseteq Opens
    BY <1>t DEF TypeOK
  <2>4. ASSUME NEW q \in Opens, MaySeed(q)'
        PROVE  MaySeed(q) \/ (q = o /\ PathOf[o] \notin file)
    <3>1. CASE q = o
      <4>1. o \in seeders' /\ config[o].initial = "once"
        BY <2>1, <2>4, <3>1 DEF MaySeed
      <4> QED BY <2>1, <2>2, <3>1, <4>1
    <3>2. CASE q # o
      <4>1. /\ q \in seeders' => q \in seeders
            /\ q \notin existed' => q \notin existed
        BY <2>1, <3>2
      <4> QED BY <2>1, <2>4, <4>1 DEF MaySeed
    <3> QED BY <3>1, <3>2
  <2>5. \A q \in Opens : MaySeed(q) => PathOf[q] \in file
    BY DEF Founders, MaySeed
  <2>6. \A p, q \in Opens : MaySeed(p)' /\ MaySeed(q)' /\ PathOf[p] = PathOf[q] => p = q
    BY <2>4, <2>5 DEF Founders
  <2>7. \A q \in seeders' : /\ handle'[q] # "idle"
                            /\ config'[q].initial = "once" => q \notin existed' /\ PathOf[q] \in file'
    BY <2>1, <2>2, <2>3 DEF Founders
  <2>8. \A q \in existed' : handle'[q] # "idle"
    BY <2>1, <2>3 DEF Founders
  <2> QED BY <2>1, <2>6, <2>7, <2>8 DEF Founders
<1>2. ASSUME NEW o \in Opens, DownloadBeforeOpen(o)
      PROVE  Founders'
  <2>1. /\ handle[o] = "idle"
        /\ existed' = IF PathOf[o] \in file THEN existed \cup {o} ELSE existed
        /\ UNCHANGED <<config, seeders>>
        /\ file' = file \cup {PathOf[o]}
        /\ handle'[o] # "idle" /\ \A q \in Opens \ {o} : handle'[q] = handle[q]
        /\ task'[o] # "none" /\ \A q \in Opens \ {o} : task'[q] = task[q]
        /\ timer' \subseteq timer \cup {o}
    BY <1>2, <1>t DEF DownloadBeforeOpen, OpenCommon, TypeOK
  <2>2. o \notin existed /\ o \notin seeders
    BY <2>1 DEF Founders
  <2>3. existed \subseteq Opens /\ seeders \subseteq Opens /\ timer \subseteq Opens
    BY <1>t DEF TypeOK
  <2>4. ASSUME NEW q \in Opens, MaySeed(q)'
        PROVE  MaySeed(q) \/ (q = o /\ PathOf[o] \notin file)
    <3>1. CASE q = o
      <4>1. o \notin existed'
        BY <2>4, <3>1 DEF MaySeed
      <4> QED BY <2>1, <3>1, <4>1
    <3>2. CASE q # o
      <4>1. q \notin existed' => q \notin existed
        BY <2>1, <3>2
      <4>2. task'[q] = task[q]
        BY <2>1, <3>2
      <4> QED BY <2>1, <2>4, <4>1, <4>2 DEF MaySeed
    <3> QED BY <3>1, <3>2
  <2>5. \A q \in Opens : MaySeed(q) => PathOf[q] \in file
    BY DEF Founders, MaySeed
  <2>6. \A p, q \in Opens : MaySeed(p)' /\ MaySeed(q)' /\ PathOf[p] = PathOf[q] => p = q
    BY <2>4, <2>5 DEF Founders
  <2>7. \A q \in seeders' : /\ handle'[q] # "idle"
                            /\ config'[q].initial = "once" => q \notin existed' /\ PathOf[q] \in file'
    BY <2>1, <2>2, <2>3 DEF Founders
  <2>8. /\ \A q \in existed' : handle'[q] # "idle"
        /\ \A q \in timer' : task'[q] # "none"
        /\ \A q \in Opens : task'[q] # "none" => PathOf[q] \in file'
    BY <2>1, <2>3 DEF Founders
  <2> QED BY <2>6, <2>7, <2>8 DEF Founders
<1>3. ASSUME Onward, Seeding
      PROVE  Founders'
  <2>1. UNCHANGED <<config, existed>> /\ file \subseteq file'
    BY <1>3 DEF Seeding
  <2>2. /\ \A o \in Opens : (handle'[o] = "idle") <=> (handle[o] = "idle")
        /\ \A o \in Opens : (task'[o] = "none") <=> (task[o] = "none")
        /\ timer' \subseteq timer
    BY <1>3 DEF Onward
  <2>3. existed \subseteq Opens /\ seeders \subseteq Opens /\ timer \subseteq Opens
    BY <1>t DEF TypeOK
  <2>4. ASSUME NEW q \in seeders'
        PROVE  /\ q \in Opens /\ handle[q] # "idle"
               /\ config[q].initial = "once" => q \notin existed /\ PathOf[q] \in file'
               /\ q \in seeders \/ task[q] # "none"
    <3>1. CASE q \in seeders
      BY <2>1, <2>3, <3>1 DEF Founders
    <3>2. CASE q \notin seeders
      <4>1. /\ q \in Opens /\ PathOf[q] \in file' /\ (q \in timer \/ task[q] # "none")
            /\ config[q].initial = "once" => q \notin existed \/ PathOf[q] \notin file
        BY <1>3, <2>4, <3>2 DEF Seeding
      <4>2. task[q] # "none" /\ PathOf[q] \in file /\ handle[q] # "idle"
        BY <1>t, <4>1 DEF Founders, Stages
      <4> QED BY <4>1, <4>2
    <3> QED BY <3>1, <3>2
  <2>5. \A q \in Opens : MaySeed(q)' => MaySeed(q)
    BY <2>1, <2>2, <2>4 DEF MaySeed
  <2>6. \A p, q \in Opens : MaySeed(p)' /\ MaySeed(q)' /\ PathOf[p] = PathOf[q] => p = q
    BY <2>5 DEF Founders
  <2>7. /\ \A q \in Opens : task'[q] # "none" => PathOf[q] \in file'
        /\ \A q \in timer' : task'[q] # "none"
        /\ \A q \in existed' : handle'[q] # "idle"
    BY <2>1, <2>2, <2>3 DEF Founders
  <2>8. \A q \in seeders' : /\ handle'[q] # "idle"
                            /\ config'[q].initial = "once" => q \notin existed' /\ PathOf[q] \in file'
    BY <2>1, <2>2, <2>4
  <2> QED BY <2>6, <2>7, <2>8 DEF Founders
<1> QED BY <1>1, <1>2, <1>3, <1>t, OnwardFacts

LEMMA NextCollected ==
  ASSUME TypeOK, Collected, [Next]_vars
  PROVE  Collected'
<1>1. ASSUME NEW o \in Opens, OpenImmediately(o) \/ DownloadBeforeOpen(o)
      PROVE  Collected'
  <2>1. /\ AllowClearTestState => instances' = instances \cup {o}
        /\ survivors' = survivors
        /\ \A q \in Opens \ {o} : handle'[q] = handle[q]
    BY <1>1 DEF OpenImmediately, DownloadBeforeOpen, OpenCommon, TypeOK
  <2> QED BY <2>1 DEF Collected
<1>2. CASE CancelAll
  <2>1. Settle(instances, "canceled") /\ survivors' = {o \in Opens : handle'[o] = "pending"}
    BY <1>2 DEF CancelAll, CancelOpens
  <2>2. instances \in SUBSET Opens /\ "canceled" \in Settled
    BY DEF TypeOK, Settled, Rejected
  <2>3. handle' = [o \in Opens |-> IF o \in instances /\ handle[o] = "pending"
                                   THEN "canceled" ELSE handle[o]]
    BY <2>1, <2>2, SettleFacts
  <2> QED BY <2>1, <2>3 DEF Collected
<1>3. CASE Onward /\ UNCHANGED <<instances, survivors>>
  BY <1>3 DEF Onward, Collected
<1>4. \/ \E o \in Opens : OpenImmediately(o) \/ DownloadBeforeOpen(o)
      \/ CancelAll
      \/ UNCHANGED <<instances, survivors>>
  BY DEF Next, Application, Engine, Macrotask, Microtask, Cancel, Progress, TaskCompletes,
    TaskProgresses, ServerAnswers, DeliverReference, DeliverFailure, DeliverSubscriptionState,
    EmitProgress, TimeoutRejects, TimeoutOpensLocal, CancelTaskOnReject, SettleTimeout,
    ClearTimer, ReturnBarq, FailOpen, appVars, vars
<1> QED BY <1>1, <1>2, <1>3, <1>4, OnwardFacts

\* A new file is seeded once, however many opens race for it.
THEOREM Seeded == Spec => []SeededOnce
<1>1. Init => Founders
  BY DEF Init, Founders, MaySeed
<1>2. IInv /\ Founders /\ [Next]_vars => Founders'
  BY NextFounders
<1>3. IInv /\ Founders => SeededOnce
  <2> SUFFICES ASSUME IInv, Founders, NEW p \in Paths
               PROVE  Cardinality({o \in seeders : PathOf[o] = p /\ config[o].initial = "once"}) <= 1
    BY DEF SeededOnce
  <2> DEFINE S == {o \in seeders : PathOf[o] = p /\ config[o].initial = "once"}
  <2>1. seeders \subseteq Opens
    BY DEF IInv, TypeOK
  <2>2. \A o, q \in S : o = q
    BY <2>1 DEF Founders, MaySeed
  <2>3. CASE S = {}
    <3>1. Cardinality(S) = 0
      BY <2>3, FS_EmptySet
    <3> QED BY <3>1
  <2>4. CASE S # {}
    <3> PICK o : o \in S
      BY <2>4
    <3>1. S = {o}
      BY <2>2
    <3>2. Cardinality(S) = 1
      BY <3>1, FS_Singleton
    <3> QED BY <3>2
  <2> QED BY <2>3, <2>4
<1> QED
  BY <1>1, <1>2, <1>3, Invariance, PTL DEF Spec

\* With the flag set, a shutdown leaves no open pending.
THEOREM Shutdown == Spec => [](AllowClearTestState => ShutdownCancelsAll)
<1>1. Init => Collected
  BY DEF Init, Collected
<1>2. TypeOK /\ Collected /\ [Next]_vars => Collected'
  BY NextCollected
<1>3. Collected => (AllowClearTestState => ShutdownCancelsAll)
  BY DEF Collected, ShutdownCancelsAll
<1> QED
  BY <1>1, <1>2, <1>3, TypeCorrect, PTL DEF Spec
----------------------------------------------------------------------------
(***************************************************************************)
(* The refinement: AsyncOpen keeps what PromisedOpen promises.  What an    *)
(* outcome needs for a reason is found in the state: a download that       *)
(* reports an inactive session has a sibling that was given up, a timeout  *)
(* is one the configuration asks for.                                      *)
(***************************************************************************)
Unwanted == Rejected \cup {"local"}

Reasons ==
  \A o \in Opens :
    /\ handle[o] = "idle" => o \notin held
    /\ timeoutPromise[o] # "none" => Promise!MayBe(o, timeoutPromise[o])
    /\ <<o, "cancelTask">> \in jobs => handle[o] \in Rejected
    /\ task[o] = "inactive" => \E q \in GivenUp : PathOf[q] = PathOf[o]

\* Only what S does may change who has given up, and nobody takes it back.
LEMMA GivenUpFacts ==
  ASSUME NEW S \in SUBSET Opens,
         \A o \in Opens : (task'[o] = "none") <=> (task[o] = "none"),
         \A o \in Opens \ S : /\ (handle'[o] \in Unwanted) <=> (handle[o] \in Unwanted)
                              /\ (o \in cancelled') <=> (o \in cancelled)
                              /\ (o \in held') <=> (o \in held)
  PROVE  /\ S = {} => GivenUp' = GivenUp
         /\ S \subseteq GivenUp' => GivenUp' = GivenUp \cup S
<1>1. \A o \in Opens \ S : (o \in GivenUp') <=> (o \in GivenUp)
  BY DEF GivenUp, Unwanted
<1>2. GivenUp \subseteq Opens /\ GivenUp' \subseteq Opens
  BY DEF GivenUp
<1> QED BY <1>1, <1>2

\* The reaction that cancels the task is scheduled by a rejection only.
LEMMA SettleJobs ==
  ASSUME TypeOK, NEW S \in SUBSET Opens, NEW how \in Settled, Settle(S, how)
  PROVE  \A o \in Opens : <<o, "cancelTask">> \in jobs' =>
           \/ <<o, "cancelTask">> \in jobs
           \/ o \in S /\ handle[o] = "pending" /\ how \in Rejected
<1> DEFINE P == {o \in S : handle[o] = "pending"}
<1>1. jobs' = jobs
        \cup {j \in P \X {"cancelTask"} : how \in Rejected /\ task[j[1]] # "none"}
        \cup {j \in P \X {"settleTimeout"} : timeoutPromise[j[1]] # "none"}
  BY DEF Settle
<1>2. ASSUME NEW o \in Opens, <<o, "cancelTask">> \in jobs', <<o, "cancelTask">> \notin jobs
      PROVE  o \in S /\ handle[o] = "pending" /\ how \in Rejected
  <2>1. <<o, "cancelTask">> \notin P \X {"settleTimeout"}
    OBVIOUS
  <2>2. <<o, "cancelTask">> \in P \X {"cancelTask"} /\ how \in Rejected
    BY <1>1, <1>2, <2>1
  <2> QED BY <2>2
<1> QED BY <1>2

\* A session becomes inactive when a task of its path is cancelled.
LEMMA CancelTasksInactive ==
  ASSUME TypeOK, NEW S \in SUBSET Opens, CancelTasks(S)
  PROVE  \A o \in Opens : task'[o] = "inactive" =>
           task[o] = "inactive" \/ \E q \in S : PathOf[q] = PathOf[o]
<1> DEFINE C == {o \in S \cap held : task[o] \in Active}
<1>1. PICK own \in {"cancelled", "inactive"} :
        task' = [p \in Opens |->
                   IF p \in C
                   THEN IF task[p] = "created" THEN "cancelled" ELSE own
                   ELSE IF task[p] = "running" /\ C \cap Siblings(p) # {}
                   THEN "inactive" ELSE task[p]]
  BY DEF CancelTasks
<1>2. C \subseteq S
  OBVIOUS
<1>3. \A o \in Opens : C \cap Siblings(o) # {} => \E q \in S : PathOf[q] = PathOf[o]
  BY <1>2 DEF Siblings
<1> HIDE DEF C
<1> QED BY <1>1, <1>2, <1>3

\* Settling pending opens of S without giving anyone up is no reason for anything.
LEMMA SettleReasons ==
  ASSUME TypeOK, Reasons, NEW S \in SUBSET Opens, NEW how \in Settled, Settle(S, how),
         UNCHANGED <<config, timeoutPromise>>, held' \subseteq held,
         GivenUp \subseteq GivenUp',
         \A o \in Opens : task'[o] = "inactive" =>
           task[o] = "inactive" \/ \E q \in GivenUp' : PathOf[q] = PathOf[o]
  PROVE  Reasons'
<1>1. handle' = [o \in Opens |-> IF o \in S /\ handle[o] = "pending" THEN how ELSE handle[o]]
  BY SettleFacts
<1>2. ASSUME NEW o \in Opens
      PROVE  /\ handle'[o] = "idle" => o \notin held'
             /\ <<o, "cancelTask">> \in jobs' => handle'[o] \in Rejected
  <2>1. handle[o] = "pending" => handle[o] \notin Rejected
    BY DEF Rejected
  <2>2. handle'[o] = "idle" => handle[o] = "idle"
    BY <1>1 DEF Settled, Resolved, Rejected
  <2>3. <<o, "cancelTask">> \in jobs' =>
           \/ <<o, "cancelTask">> \in jobs
           \/ o \in S /\ handle[o] = "pending" /\ how \in Rejected
    BY SettleJobs
  <2> QED BY <1>1, <2>1, <2>2, <2>3 DEF Reasons
<1>3. ASSUME NEW o \in Opens, timeoutPromise'[o] # "none"
      PROVE  Promise!MayBe(o, timeoutPromise[o])'
  BY <1>3 DEF Reasons, Promise!MayBe
<1>4. ASSUME NEW o \in Opens, task'[o] = "inactive"
      PROVE  \E q \in GivenUp' : PathOf[q] = PathOf[o]
  BY <1>4 DEF Reasons
<1> QED BY <1>2, <1>3, <1>4 DEF Reasons, Promise!MayBe

\* ... and steps that settle nothing keep the reasons too.
LEMMA OtherReasons ==
  ASSUME TypeOK, Reasons, UNCHANGED <<config, handle, timeoutPromise>>,
         held' \subseteq held, GivenUp \subseteq GivenUp',
         \A o \in Opens : <<o, "cancelTask">> \in jobs' => <<o, "cancelTask">> \in jobs,
         \A o \in Opens : task'[o] = "inactive" =>
           task[o] = "inactive" \/ \E q \in GivenUp' : PathOf[q] = PathOf[o]
  PROVE  Reasons'
<1>1. ASSUME NEW o \in Opens
      PROVE  /\ handle'[o] = "idle" => o \notin held'
             /\ <<o, "cancelTask">> \in jobs' => handle'[o] \in Rejected
             /\ timeoutPromise'[o] # "none" => timeoutPromise[o] \in {config'[o].onNew, config'[o].onExisting}
             /\ task'[o] = "inactive" => \E q \in GivenUp' : PathOf[q] = PathOf[o]
  BY DEF Reasons, Promise!MayBe
<1> QED BY <1>1 DEF Reasons, Promise!MayBe

\* cancel() on the opens of S is the promise's Withdraw.
LEMMA CancelKeeps ==
  ASSUME IInv, Reasons, NEW S \in SUBSET Opens, CancelOpens(S)
  PROVE  Reasons' /\ Promise!Next
<1>t. TypeOK
  BY DEF IInv
<1>1. /\ CancelTasks(S) /\ Settle(S, "canceled")
      /\ held' = held \ S /\ cancelled' = cancelled \cup S
      /\ UNCHANGED <<config, timeoutPromise>>
  BY DEF CancelOpens
<1>2. "canceled" \in Settled
  BY DEF Settled, Rejected
<1>3. handle' = [o \in Opens |-> IF o \in S /\ handle[o] = "pending" THEN "canceled" ELSE handle[o]]
  BY <1>t, <1>1, <1>2, SettleFacts
<1>4. \A o \in Opens : (task'[o] = "none") <=> (task[o] = "none")
  BY <1>t, <1>1, CancelOnward
<1>5. S \subseteq GivenUp'
  BY <1>1 DEF GivenUp
<1>6. GivenUp' = GivenUp \cup S
  BY <1>1, <1>3, <1>4, <1>5, GivenUpFacts
<1>7. \A o \in Opens : task'[o] = "inactive" =>
        task[o] = "inactive" \/ \E q \in GivenUp' : PathOf[q] = PathOf[o]
  BY <1>t, <1>1, <1>6, CancelTasksInactive
<1>8. Reasons'
  BY <1>t, <1>1, <1>2, <1>6, <1>7, SettleReasons
<1>9. Promise!Withdraw(S)
  BY <1>3, <1>6 DEF Promise!Withdraw, Promise!Pending
<1> QED BY <1>1, <1>8, <1>9 DEF Promise!Next

\* Every step keeps the reasons, and is a step of the promise or none.
Kept == Promise!Next \/ UNCHANGED Promise!promised

\* A step that neither settles nor gives up anyone.
LEMMA QuietKeeps ==
  ASSUME TypeOK, Reasons, UNCHANGED <<config, handle, timeoutPromise, held, cancelled>>,
         \A o \in Opens : (task'[o] = "none") <=> (task[o] = "none"),
         \A o \in Opens : <<o, "cancelTask">> \in jobs' => <<o, "cancelTask">> \in jobs,
         \A o \in Opens : task'[o] = "inactive" =>
           task[o] = "inactive" \/ \E q \in GivenUp : PathOf[q] = PathOf[o]
  PROVE  Reasons' /\ Kept
<1>1. GivenUp' = GivenUp
  BY GivenUpFacts
<1>2. Reasons'
  BY <1>1, OtherReasons
<1> QED BY <1>1, <1>2 DEF Kept, Promise!promised

\* A step in which the pending o settles, and nobody else.
LEMMA SettleKeeps ==
  ASSUME TypeOK, Reasons, NEW o \in Opens, NEW how \in Settled, Settle({o}, how),
         UNCHANGED <<config, timeoutPromise, held, cancelled>>,
         \A q \in Opens : (task'[q] = "none") <=> (task[q] = "none"),
         \A q \in Opens : task'[q] = "inactive" => task[q] = "inactive"
  PROVE  /\ Reasons'
         /\ \/ UNCHANGED Promise!promised
            \/ /\ Promise!Pending(o) /\ Promise!Become(o, how)
               /\ GivenUp' = IF how \in Unwanted THEN GivenUp \cup {o} ELSE GivenUp
<1>1. handle' = [q \in Opens |-> IF q \in {o} /\ handle[q] = "pending" THEN how ELSE handle[q]]
  BY SettleFacts, ZenonT(30)
<1>2. \A q \in Opens \ {o} : handle'[q] = handle[q]
  BY <1>1
<1>3. CASE handle[o] = "pending"
  <2>1. handle' = [handle EXCEPT ![o] = how]
    BY <1>1, <1>3 DEF TypeOK
  <2>2. handle'[o] = how
    BY <1>1, <1>3
  <2>3. GivenUp' = IF how \in Unwanted THEN GivenUp \cup {o} ELSE GivenUp
    <3>1. CASE how \in Unwanted
      <4>1. {o} \subseteq GivenUp'
        BY <2>2, <3>1 DEF GivenUp, Unwanted
      <4> QED BY <1>2, <3>1, <4>1, GivenUpFacts
    <3>2. CASE how \notin Unwanted
      <4>1. handle[o] \notin Unwanted
        BY <1>3 DEF Unwanted, Rejected
      <4>2. \A q \in Opens \ {} : (handle'[q] \in Unwanted) <=> (handle[q] \in Unwanted)
        BY <1>2, <2>2, <3>2, <4>1
      <4> QED BY <3>2, <4>2, GivenUpFacts
    <3> QED BY <3>1, <3>2
  <2>4. Reasons'
    <3>1. GivenUp \subseteq GivenUp'
      BY <2>3
    <3> QED BY <3>1, SettleReasons
  <2> QED BY <1>3, <2>1, <2>3, <2>4 DEF Promise!Pending, Promise!Become
<1>4. CASE handle[o] # "pending"
  <2>1. handle' = handle
    BY <1>1, <1>4 DEF TypeOK
  <2>2. GivenUp' = GivenUp
    BY <2>1, GivenUpFacts
  <2>3. Reasons'
    BY <2>2, SettleReasons
  <2> QED BY <2>1, <2>2, <2>3 DEF Promise!promised
<1> QED BY <1>3, <1>4

LEMMA BeginKeeps ==
  ASSUME IInv, Reasons, NEW o \in Opens, OpenImmediately(o) \/ DownloadBeforeOpen(o)
  PROVE  Reasons' /\ Kept
<1>t. TypeOK /\ Stages
  BY DEF IInv
<1>1. /\ handle[o] = "idle" /\ task[o] = "none" /\ o \notin held /\ o \notin cancelled
      /\ handle[o] \notin Unwanted /\ o \notin GivenUp /\ <<o, "cancelTask">> \notin jobs
  <2>1. handle[o] = "idle"
    BY DEF OpenImmediately, DownloadBeforeOpen, OpenCommon
  <2> QED BY <2>1
    DEF IInv, Stages, Reasons, ListenersInv, Settled, Resolved, Rejected, Unwanted, GivenUp
<1>2. DetermineBehavior(o) \in {config[o].onNew, config[o].onExisting}
  BY DEF DetermineBehavior
<1>3. /\ UNCHANGED <<config, cancelled>>
      /\ held' \in {held, held \cup {o}}
      /\ \A q \in Opens \ {o} :
           /\ handle'[q] = handle[q] /\ task'[q] = task[q]
           /\ timeoutPromise'[q] = timeoutPromise[q]
           /\ <<q, "cancelTask">> \in jobs' => <<q, "cancelTask">> \in jobs
      /\ timeoutPromise'[o] \in {timeoutPromise[o], "none", DetermineBehavior(o)}
      /\ handle'[o] # "idle" /\ task'[o] # "inactive"
      /\ <<o, "cancelTask">> \in jobs' => handle'[o] = "failed"
  <2>1. CASE OpenImmediately(o)
    BY <1>t, <1>1, <2>1 DEF OpenImmediately, OpenCommon, TypeOK
  <2>2. CASE DownloadBeforeOpen(o)
    BY <1>t, <1>1, <2>2 DEF DownloadBeforeOpen, OpenCommon, TypeOK
  <2> QED BY <2>1, <2>2
<1>4. GivenUp \subseteq GivenUp'
  <2>1. \A q \in Opens \ {o} : q \in held' <=> q \in held
    BY <1>3
  <2> QED BY <1>1, <1>3, <2>1 DEF GivenUp
<1>5. Reasons'
  <2>1. ASSUME NEW q \in Opens
        PROVE  /\ handle'[q] = "idle" => q \notin held'
               /\ timeoutPromise'[q] # "none"
                    => timeoutPromise'[q] \in {config[q].onNew, config[q].onExisting}
               /\ <<q, "cancelTask">> \in jobs' => handle'[q] \in Rejected
               /\ task'[q] = "inactive" => \E p \in GivenUp' : PathOf[p] = PathOf[q]
    <3>1. CASE q = o
      <4>1. timeoutPromise[o] # "none" => timeoutPromise[o] \in {config[o].onNew, config[o].onExisting}
        BY DEF Reasons, Promise!MayBe
      <4> QED BY <1>2, <1>3, <3>1, <4>1 DEF Rejected
    <3>2. CASE q # o
      <4>1. /\ handle[q] = "idle" => q \notin held
            /\ timeoutPromise[q] # "none"
                 => timeoutPromise[q] \in {config[q].onNew, config[q].onExisting}
            /\ <<q, "cancelTask">> \in jobs => handle[q] \in Rejected
            /\ task[q] = "inactive" => \E p \in GivenUp : PathOf[p] = PathOf[q]
        BY DEF Reasons, Promise!MayBe
      <4> QED BY <1>3, <1>4, <3>2, <4>1
    <3> QED BY <3>1, <3>2
  <2> QED BY <1>3, <2>1 DEF Reasons, Promise!MayBe
<1>6. \A q \in Opens \ {o} : (q \in GivenUp') <=> (q \in GivenUp)
  BY <1>3 DEF GivenUp
<1>7. GivenUp \subseteq Opens /\ GivenUp' \subseteq Opens
  BY DEF GivenUp
<1>8. CASE OpenImmediately(o)
  <2>1. UNCHANGED <<task, held>> /\ DetermineBehavior(o) = "immediate"
    BY <1>8 DEF OpenImmediately
  <2>2. PICK how \in {"immediate", "failed"} : handle' = [handle EXCEPT ![o] = how]
    BY <1>8 DEF OpenImmediately
  <2>3. handle'[o] = how
    BY <1>t, <2>2 DEF TypeOK
  <2>4. (o \in GivenUp') <=> (how = "failed")
    BY <1>1, <1>3, <2>1, <2>3 DEF GivenUp, Rejected
  <2>5. GivenUp' = IF how = "failed" THEN GivenUp \cup {o} ELSE GivenUp
    BY <1>1, <1>6, <1>7, <2>4
  <2>6. Promise!Begin(o)
    BY <1>1, <1>2, <2>1, <2>2, <2>5 DEF Promise!Begin, Promise!Become, Promise!MayBe
  <2> QED BY <1>3, <1>5, <2>6 DEF Kept, Promise!Next
<1>9. CASE DownloadBeforeOpen(o)
  <2>1. held' = held \cup {o}
    BY <1>9 DEF DownloadBeforeOpen
  <2>2. PICK how \in {"pending", "failed"} : handle' = [handle EXCEPT ![o] = how]
    BY <1>9 DEF DownloadBeforeOpen
  <2>3. handle'[o] = how
    BY <1>t, <2>2 DEF TypeOK
  <2>4. (o \in GivenUp') <=> (how = "failed")
    BY <1>1, <1>3, <2>1, <2>3 DEF GivenUp, Rejected
  <2>5. GivenUp' = IF how = "failed" THEN GivenUp \cup {o} ELSE GivenUp
    BY <1>1, <1>6, <1>7, <2>4
  <2>6. Promise!Begin(o)
    BY <1>1, <2>2, <2>5 DEF Promise!Begin, Promise!Become
  <2> QED BY <1>3, <1>5, <2>6 DEF Kept, Promise!Next
<1> QED BY <1>8, <1>9

LEMMA NextKeeps ==
  ASSUME IInv, Founders, Reasons, [Next]_vars
  PROVE  Reasons' /\ Kept
<1>t. TypeOK
  BY DEF IInv
<1>h. {"timedOut", "canceled", "failed", "local", "synced"} \subseteq Settled
  BY DEF Settled, Resolved, Rejected
<1>r. {"timedOut", "canceled", "failed", "local"} \subseteq Unwanted /\ "synced" \notin Unwanted
  BY DEF Unwanted, Rejected
<1>1. ASSUME NEW o \in Opens, Cancel(o)
      PROVE  Reasons' /\ Kept
  BY <1>1, CancelKeeps DEF Cancel, Kept
<1>2. CASE CancelAll
  <2>1. CancelOpens(instances) /\ instances \in SUBSET Opens
    BY <1>t, <1>2 DEF CancelAll, TypeOK
  <2> QED BY <2>1, CancelKeeps DEF Kept
<1>3. ASSUME NEW o \in Opens, DeliverFailure(o)
      PROVE  Reasons' /\ Kept
  <2>1. PICK how \in {"canceled", "failed"} :
          /\ Settle({o}, how) /\ how = IF task[o] = "inactive" THEN "canceled" ELSE "failed"
    BY <1>3 DEF DeliverFailure
  <2>2. /\ UNCHANGED <<config, timeoutPromise, held, cancelled>>
        /\ \A q \in Opens : (task'[q] = "none") <=> (task[q] = "none")
        /\ \A q \in Opens : task'[q] = "inactive" => task[q] = "inactive"
    BY <1>t, <1>3 DEF DeliverFailure, TypeOK, appVars
  <2>3. /\ Reasons'
        /\ \/ UNCHANGED Promise!promised
           \/ /\ Promise!Pending(o) /\ Promise!Become(o, how)
              /\ GivenUp' = IF how \in Unwanted THEN GivenUp \cup {o} ELSE GivenUp
    BY <1>t, <1>h, <2>1, <2>2, SettleKeeps
  <2>4. task[o] = "inactive" => \E q \in GivenUp : PathOf[q] = PathOf[o]
    BY DEF Reasons
  <2>5. Promise!Pending(o) /\ Promise!Become(o, how) /\ GivenUp' = GivenUp \cup {o}
          => Promise!Abort(o) \/ Promise!Fail(o)
    BY <2>1, <2>4 DEF Promise!Abort, Promise!Fail
  <2> QED BY <1>r, <2>2, <2>3, <2>5 DEF Kept, Promise!Next
<1>4. ASSUME NEW o \in Opens, ReturnBarq(o)
      PROVE  Reasons' /\ Kept
  <2>1. Settle({o}, "synced") /\ UNCHANGED <<config, timeoutPromise, held, cancelled, task>>
    BY <1>4 DEF ReturnBarq, appVars
  <2>2. /\ Reasons'
        /\ \/ UNCHANGED Promise!promised
           \/ /\ Promise!Pending(o) /\ Promise!Become(o, "synced")
              /\ GivenUp' = GivenUp
    BY <1>t, <1>h, <1>r, <2>1, SettleKeeps
  <2> QED BY <2>1, <2>2 DEF Kept, Promise!Next, Promise!Complete
<1>5. ASSUME NEW o \in Opens, FailOpen(o)
      PROVE  Reasons' /\ Kept
  <2>1. /\ UNCHANGED <<config, timeoutPromise, held, cancelled, task>>
        /\ Settle({o}, "failed") \/ UNCHANGED <<handle, jobs>>
    BY <1>5 DEF FailOpen, appVars
  <2>2. CASE Settle({o}, "failed")
    <3>1. /\ Reasons'
          /\ \/ UNCHANGED Promise!promised
             \/ /\ Promise!Pending(o) /\ Promise!Become(o, "failed")
                /\ GivenUp' = GivenUp \cup {o}
      BY <1>t, <1>h, <1>r, <2>1, <2>2, SettleKeeps
    <3> QED BY <2>1, <3>1 DEF Kept, Promise!Next, Promise!Fail
  <2>3. CASE UNCHANGED <<handle, jobs>>
    BY <1>t, <2>1, <2>3, QuietKeeps
  <2> QED BY <2>1, <2>2, <2>3
<1>6. ASSUME NEW o \in Opens, TimeoutRejects(o)
      PROVE  Reasons' /\ Kept
  <2>1. /\ Settle({o}, "timedOut") /\ UNCHANGED <<config, timeoutPromise, held, cancelled, task>>
        /\ timeoutPromise[o] = "throw"
    BY <1>6 DEF TimeoutRejects, appVars
  <2>2. /\ Reasons'
        /\ \/ UNCHANGED Promise!promised
           \/ /\ Promise!Pending(o) /\ Promise!Become(o, "timedOut")
              /\ GivenUp' = GivenUp \cup {o}
    BY <1>t, <1>h, <1>r, <2>1, SettleKeeps
  <2>3. Promise!MayBe(o, "throw")
    BY <2>1 DEF Reasons
  <2> QED BY <2>1, <2>2, <2>3 DEF Kept, Promise!Next, Promise!Expire
<1>7. ASSUME NEW o \in Opens, TimeoutOpensLocal(o)
      PROVE  Reasons' /\ Kept
  <2>1. /\ CancelTasks({o}) /\ held' = held \ {o}
        /\ UNCHANGED <<config, timeoutPromise, cancelled>>
        /\ Settle({o}, "local") \/ UNCHANGED <<handle, jobs>>
        /\ timeoutPromise[o] = "local" /\ o \in timer /\ Quiet
    BY <1>7 DEF TimeoutOpensLocal, appVars
  <2>2. Promise!MayBe(o, "local")
    BY <2>1 DEF Reasons
  <2>3. handle[o] = "pending" /\ task[o] # "none"
    BY <2>1 DEF IInv, TimerWatched, Quiet, Founders
  <2>4. \A q \in Opens : (task'[q] = "none") <=> (task[q] = "none")
    BY <1>t, <2>1, CancelOnward
  <2>5. {o} \subseteq GivenUp'
    BY <2>1, <2>3, <2>4 DEF GivenUp
  <2>6. \A q \in Opens \ {o} : handle'[q] = handle[q]
    <3>1. CASE Settle({o}, "local")
      BY <1>t, <1>h, <3>1, SettleFacts
    <3> QED BY <2>1, <3>1
  <2>7. GivenUp' = GivenUp \cup {o}
    BY <2>1, <2>4, <2>5, <2>6, GivenUpFacts
  <2>8. \A q \in Opens : task'[q] = "inactive" =>
          task[q] = "inactive" \/ \E p \in GivenUp' : PathOf[p] = PathOf[q]
    BY <1>t, <2>1, <2>7, CancelTasksInactive
  <2>9. CASE Settle({o}, "local")
    <3>1. Reasons'
      BY <1>t, <1>h, <2>1, <2>7, <2>8, <2>9, SettleReasons
    <3>2. handle' = [q \in Opens |-> IF q \in {o} /\ handle[q] = "pending" THEN "local" ELSE handle[q]]
      BY <1>t, <1>h, <2>9, SettleFacts
    <3>3. handle' = [handle EXCEPT ![o] = "local"]
      BY <1>t, <2>3, <3>2 DEF TypeOK
    <3>4. Promise!Expire(o)
      BY <2>2, <2>3, <2>7, <3>3 DEF Promise!Expire, Promise!Pending, Promise!Become
    <3> QED BY <2>1, <3>1, <3>4 DEF Kept, Promise!Next
  <2>10. CASE UNCHANGED <<handle, jobs>>
    <3>1. Reasons'
      BY <1>t, <2>1, <2>7, <2>8, <2>10, OtherReasons
    <3>2. Promise!Expire(o)
      BY <2>2, <2>3, <2>7, <2>10 DEF Promise!Expire, Promise!Pending
    <3> QED BY <2>1, <3>1, <3>2 DEF Kept, Promise!Next
  <2> QED BY <2>1, <2>9, <2>10
<1>8. ASSUME NEW o \in Opens, CancelTaskOnReject(o)
      PROVE  Reasons' /\ Kept
  <2>1. /\ CancelTasks({o}) /\ jobs' \subseteq jobs
        /\ UNCHANGED <<config, handle, timeoutPromise, held, cancelled>>
    BY <1>8 DEF CancelTaskOnReject, appVars
  <2>2. o \in GivenUp
    BY <1>8 DEF CancelTaskOnReject, Reasons, GivenUp
  <2>3. \A q \in Opens : (task'[q] = "none") <=> (task[q] = "none")
    BY <1>t, <2>1, CancelOnward
  <2>4. \A q \in Opens : task'[q] = "inactive" =>
          task[q] = "inactive" \/ \E p \in GivenUp : PathOf[p] = PathOf[q]
    BY <1>t, <2>1, <2>2, CancelTasksInactive
  <2> QED BY <1>t, <2>1, <2>3, <2>4, QuietKeeps
<1>9. ASSUME UNCHANGED <<config, handle, timeoutPromise, held, cancelled>>,
             \A o \in Opens : (task'[o] = "none") <=> (task[o] = "none"),
             \A o \in Opens : task'[o] = "inactive" => task[o] = "inactive",
             \A o \in Opens : <<o, "cancelTask">> \in jobs' => <<o, "cancelTask">> \in jobs
      PROVE  Reasons' /\ Kept
  BY <1>t, <1>9, QuietKeeps
<1>10. ASSUME NEW o \in Opens, Progress(o) \/ Engine(o)
       PROVE  Reasons' /\ Kept
  <2>1. /\ UNCHANGED <<config, handle, timeoutPromise, held, cancelled, jobs>>
        /\ \A q \in Opens : (task'[q] = "none") <=> (task[q] = "none")
        /\ \A q \in Opens : task'[q] = "inactive" => task[q] = "inactive"
    BY <1>t, <1>10 DEF Progress, Engine, TaskCompletes, TaskProgresses, TypeOK, appVars
  <2> QED BY <1>9, <2>1
<1>11. ASSUME NEW o \in Opens, DeliverReference(o)
       PROVE  Reasons' /\ Kept
  <2>1. /\ UNCHANGED <<config, handle, timeoutPromise, held, cancelled, jobs>>
        /\ task[o] = "tsr" /\ task' = [task EXCEPT ![o] = "delivered"]
    BY <1>11 DEF DeliverReference, appVars
  <2>2. /\ \A q \in Opens : (task'[q] = "none") <=> (task[q] = "none")
        /\ \A q \in Opens : task'[q] = "inactive" => task[q] = "inactive"
    BY <1>t, <2>1 DEF TypeOK
  <2> QED BY <1>9, <2>1, <2>2
<1>12. ASSUME NEW o \in Opens,
              \/ DeliverSubscriptionState(o) \/ EmitProgress(o)
              \/ SettleTimeout(o) \/ ClearTimer(o)
       PROVE  Reasons' /\ Kept
  <2>1. /\ UNCHANGED <<config, handle, timeoutPromise, held, cancelled, task>>
        /\ \A q \in Opens : <<q, "cancelTask">> \in jobs' => <<q, "cancelTask">> \in jobs
    BY <1>12 DEF DeliverSubscriptionState, EmitProgress, SettleTimeout, ClearTimer, appVars
  <2> QED BY <1>9, <2>1
<1>13. ASSUME NEW p \in Paths, NEW s \in {"complete", "refused"}, ServerAnswers(p, s)
       PROVE  Reasons' /\ Kept
  <2>1. UNCHANGED <<config, handle, timeoutPromise, held, cancelled, task, jobs>>
    BY <1>13 DEF ServerAnswers, appVars
  <2> QED BY <1>9, <2>1
<1>14. CASE UNCHANGED vars
  <2>1. UNCHANGED <<config, handle, timeoutPromise, held, cancelled, task, jobs>>
    BY <1>14 DEF vars, appVars
  <2> QED BY <1>9, <2>1
<1>15. ASSUME NEW o \in Opens, Application(o) \/ Engine(o) \/ Macrotask(o) \/ Microtask(o)
       PROVE  Reasons' /\ Kept
  BY <1>1, <1>3, <1>4, <1>5, <1>6, <1>7, <1>8, <1>10, <1>11, <1>12, <1>15, BeginKeeps
    DEF Application, Macrotask, Microtask
<1> QED BY <1>2, <1>13, <1>14, <1>15 DEF Next

\* AsyncOpen implements PromisedOpen: whatever races with what, a call is rejected as
\* canceled only after a download of its file was given up, and times out only as told.
THEOREM Refinement == Spec => KeepsPromise
<1>1. Init => Founders /\ Reasons /\ Promise!Init
  BY DEF Init, Founders, MaySeed, Reasons, GivenUp, Rejected, Promise!Init
<1>2. IInv /\ Founders /\ [Next]_vars => Founders'
  BY NextFounders
<1>3. IInv /\ Founders /\ Reasons /\ [Next]_vars => Reasons' /\ Kept
  BY NextKeeps
<1>4. Kept => [Promise!Next]_(Promise!promised)
  BY DEF Kept
<1> QED
  BY <1>1, <1>2, <1>3, <1>4, Invariance, PTL DEF Spec, KeepsPromise, Promise!Spec
=============================================================================
