----------------------------- MODULE AsyncOpen -----------------------------
(***************************************************************************)
(* Opening a synchronized Barq asynchronously: ProgressBarqPromise, with   *)
(* the PromiseHandle and the TimeoutPromise it is built from, the task and *)
(* the sync session of the native engine, and the server that answers for  *)
(* the subscriptions.                                                      *)
(*                                                                         *)
(* Several opens may be under way at once; opens of one path share one     *)
(* sync session.  JavaScript runs on one thread.  A macrotask (a timer, a  *)
(* call the engine posted from its own thread) starts only when no         *)
(* microtask is pending, which is what Quiet says; application code may    *)
(* run between two microtasks, because the code that follows cancel() in   *)
(* the application runs before the reactions cancel() schedules.  Pending  *)
(* microtasks of different opens run in any order (the host's is FIFO, one *)
(* of those).  The first reaction of a timer or of a posted call is the    *)
(* only microtask of its macrotask, so it is part of the same action.      *)
(***************************************************************************)
EXTENDS Naturals, FiniteSets

CONSTANTS
  Opens,      \* the calls of Barq.open() that may be made
  Paths,      \* the Barq files
  PathOf,     \* the file each call opens
  Configs,    \* the configurations the application may pass
  BarqThrows, \* the errors the Barq constructor may throw: "plain", "coded"
  Watched,    \* the calls whose progress the application follows
  AllowClearTestState \* flags.ALLOW_CLEAR_TEST_STATE

\* How a file is opened: at once; after the download, for as long as it takes;
\* after the download, with a timeout that rejects, opens the local file, or
\* comes without the timeOutBehavior that says which.
Behaviors == {"immediate", "wait", "throw", "local", "invalid"}

Config == [onNew: Behaviors, onExisting: Behaviors, flexible: BOOLEAN,
           initial: {"none", "once", "rerun"}]

ASSUME OpenAssumption ==
  /\ PathOf \in [Opens -> Paths]
  /\ Configs \subseteq Config
  /\ \A c \in Configs : c.initial # "none" => c.flexible
  /\ BarqThrows \subseteq {"plain", "coded"}
  /\ Watched \subseteq Opens
  /\ AllowClearTestState \in BOOLEAN

VARIABLES
  config,     \* the configuration of each call
  handle,     \* PromiseHandle.promise: idle before the call, pending, or how it settled
  task,       \* the native open task and the result it posted to the event loop
  held,       \* the opens whose this.task is not null
  timer,      \* the opens whose TimeoutPromise has its timer armed
  timeoutPromise, \* the TimeoutPromise itself
  jobs,       \* pending reactions of handle.promise and of the TimeoutPromise
  chain,      \* where the async function that consumes the reference is
  existed,    \* the opens that captured barqExists = true
  file,       \* the paths whose file exists
  version,    \* the latest subscription set version of each path
  answered,   \* the latest of them the server has answered for
  seen,       \* the version each open's Barq had when it was constructed
  seeders,    \* the opens that ran initialSubscriptions.update
  made,       \* the Barq instances each open constructed
  listeners,  \* the opens with a progress callback registered
  notifiers,  \* the opens whose progress notifier is registered with their task
  posted,     \* the opens with a progress notification in the event loop
  silenced,   \* the opens whose callback cancel() cleared and nobody registered
              \* again since [history]
  late,       \* the opens whose callback was called although silenced [history]
  cancelled,  \* the opens on which cancel() was called [history]
  instances,  \* ProgressBarqPromise.instances
  survivors   \* the opens pending when cancelAll() returned [history]

appVars == <<listeners, notifiers, posted, silenced, late, cancelled, instances, survivors>>
subVars == <<existed, file, version, answered, seen, seeders, made>>
vars == <<config, handle, task, held, timer, timeoutPromise, jobs, chain,
          subVars, appVars>>

Resolved == {"synced", "local", "immediate"}
Rejected == {"timedOut", "canceled", "failed"}
Settled == Resolved \cup Rejected
Active == {"created", "running"}             \* the native task is at work
Posted == {"tsr", "inactive", "error"}       \* its result is in the event loop
Reactions == {"cancelTask", "settleTimeout", "clearTimer"}
Errors == {"plain", "coded"}

Siblings(o) == {p \in Opens : PathOf[p] = PathOf[o]}

\* No microtask is pending, so the event loop may start the next macrotask.
Quiet == jobs = {} /\ \A o \in Opens : chain[o] \notin Errors \cup {"return"}
----------------------------------------------------------------------------
(***************************************************************************)
(* What the actions are made of.                                           *)
(***************************************************************************)

\* Mutated Settle: forgets that a promise settles only once.
SettleAgain(S, how) ==
  LET P == {o \in S : handle[o] # "idle"}
  IN  /\ handle' = [o \in Opens |-> IF o \in P THEN how ELSE handle[o]]
      /\ jobs' = jobs \cup (P \X {"cancelTask"})

\* Settling the pending handles of S: a promise settles once, and then its
\* reactions run, task.cancel() only on rejection.
Settle(S, how) ==
  LET P == {o \in S : handle[o] = "pending"}
  IN  /\ handle' = [o \in Opens |-> IF o \in P THEN how ELSE handle[o]]
      /\ jobs' = jobs
           \cup {j \in P \X {"cancelTask"} : how \in Rejected /\ task[j[1]] # "none"}
           \cup {j \in P \X {"settleTimeout"} : timeoutPromise[j[1]] # "none"}

\* task.cancel() on the tasks of S: the engine closes the session of the path,
\* which makes the other tasks of that path report an inactive session.  The
\* cancelled task stays silent or reports the same.
CancelTasks(S) ==
  LET C == {o \in S \cap held : task[o] \in Active}
  IN  \E own \in {"cancelled", "inactive"} :
        task' = [p \in Opens |->
                   IF p \in C
                   THEN IF task[p] = "created" THEN "cancelled" ELSE own
                   ELSE IF task[p] = "running" /\ C \cap Siblings(p) # {}
                   THEN "inactive" ELSE task[p]]

\* new Barq(config, { barqExists }): the file exists from now on and
\* initialSubscriptions.update has run when handleInitialSubscriptions says so.
\* Mutated Seeds: ignores barqExists.
SeedsAlways(o, exists) == config[o].initial # "none"

Seeds(o, exists) ==
  \/ config[o].initial = "rerun"
  \/ config[o].initial = "once" /\ ~exists

ConstructBarq(o, exists, kind) ==
  LET p == PathOf[o] IN
  /\ made' = [made EXCEPT ![o] = @ \cup {kind}]
  /\ file' = file \cup {p}
  /\ IF Seeds(o, exists)
     THEN /\ version' = [version EXCEPT ![p] = @ + 1]
          /\ seeders' = seeders \cup {o}
     ELSE UNCHANGED <<version, seeders>>

\* Mutated MustWait: only the version before the update counts.
WaitsForOlder(o, constructed) ==
  config[o].flexible /\ answered[PathOf[o]] + 1 < constructed

\* subscriptions.state === Pending, asked of the Barq just constructed.
MustWait(o, constructed) ==
  config[o].flexible /\ answered[PathOf[o]] < constructed

\* The behaviour that applies depends on whether the file exists.
DetermineBehavior(o) ==
  IF PathOf[o] \in file THEN config[o].onExisting ELSE config[o].onNew
----------------------------------------------------------------------------
(***************************************************************************)
(* The application: the constructor, cancel(), progress() and cancelAll(). *)
(***************************************************************************)

OpenCommon(o) ==
  /\ handle[o] = "idle"
  /\ existed' = IF PathOf[o] \in file THEN existed \cup {o} ELSE existed
  /\ instances' = IF AllowClearTestState THEN instances \cup {o} ELSE instances
  /\ UNCHANGED <<config, chain, answered, seen, listeners, posted, silenced, late,
                 cancelled, survivors>>

\* OpenImmediately: the Barq constructor runs now, and may throw; a
\* configuration that validation refuses rejects in the same way.
OpenImmediately(o) ==
  /\ OpenCommon(o)
  /\ DetermineBehavior(o) = "immediate"
  /\ \/ /\ ConstructBarq(o, PathOf[o] \in file, "immediate")
        /\ handle' = [handle EXCEPT ![o] = "immediate"]
     \/ /\ BarqThrows # {}
        /\ handle' = [handle EXCEPT ![o] = "failed"]
        /\ UNCHANGED <<made, file, version, seeders>>
  /\ UNCHANGED <<task, held, timer, timeoutPromise, jobs, notifiers>>

\* DownloadBeforeOpen: create the task (which creates the file), arm the
\* timeout, start the task and register for progress.  Without a
\* timeOutBehavior the constructor throws once the timer is armed, before the
\* task is started.
DownloadBeforeOpen(o) ==
  LET b == DetermineBehavior(o) IN
  /\ OpenCommon(o)
  /\ b # "immediate"
  /\ file' = file \cup {PathOf[o]}
  /\ held' = held \cup {o}
  /\ timer' = IF b = "wait" THEN timer ELSE timer \cup {o}
  /\ timeoutPromise' = [timeoutPromise EXCEPT ![o] = IF b = "wait" THEN "none" ELSE b]
  /\ task' = [task EXCEPT ![o] = IF b = "invalid" THEN "created" ELSE "running"]
  /\ handle' = [handle EXCEPT ![o] = IF b = "invalid" THEN "failed" ELSE "pending"]
  /\ jobs' = IF b = "invalid"
             THEN jobs \cup {<<o, "cancelTask">>, <<o, "settleTimeout">>}
             ELSE jobs
  /\ notifiers' = IF b = "invalid" THEN notifiers ELSE notifiers \cup {o}
  /\ UNCHANGED <<version, seeders, made>>

\* cancel() on the opens of S: their tasks are cancelled and dropped, timers
\* and listeners cleared, and the handles rejected as canceled.  The notifiers
\* are unregistered through this.task, which has just been dropped: never.
CancelOpens(S) ==
  /\ CancelTasks(S)
  /\ held' = held \ S
  /\ timer' = timer \ S
  /\ notifiers' = notifiers \ (S \cap held')
  /\ listeners' = listeners \ S
  /\ silenced' = silenced \cup (S \cap listeners)
  /\ Settle(S, "canceled")
  /\ cancelled' = cancelled \cup S
  /\ UNCHANGED <<config, timeoutPromise, chain, subVars, posted, late>>

Cancel(o) ==
  /\ handle[o] # "idle"
  /\ o \notin cancelled \ listeners   \* a second call clears what was registered since
  /\ CancelOpens({o})
  /\ UNCHANGED <<instances, survivors>>

\* ProgressBarqPromise.cancelAll(), which Barq.shutdown() calls.
CancelAll ==
  /\ \E o \in Opens : handle[o] # "idle"
  /\ CancelOpens(instances)
  /\ instances' = {}
  /\ survivors' = {o \in Opens : handle'[o] = "pending"}

\* progress(callback), at any time: also after the promise has settled and
\* after cancel().
Progress(o) ==
  /\ o \in Watched
  /\ handle[o] # "idle"
  /\ o \notin listeners   \* a second callback of the open is no other case
  /\ listeners' = listeners \cup {o}
  /\ silenced' = silenced \ {o}
  /\ UNCHANGED <<config, handle, task, held, timer, timeoutPromise, jobs, chain,
                 subVars, notifiers, posted, late, cancelled, instances, survivors>>
----------------------------------------------------------------------------
(***************************************************************************)
(* The engine and the server, off the JavaScript thread.  A completion or  *)
(* a progress notification is posted, and delivered by a later macrotask.  *)
(***************************************************************************)

TaskCompletes(o, result) ==
  /\ task[o] = "running"
  /\ task' = [task EXCEPT ![o] = result]
  /\ UNCHANGED <<config, handle, held, timer, timeoutPromise, jobs, chain,
                 subVars, appVars>>

\* A notifier that is registered may hear of the download as long as the
\* session lives, whatever became of the task.
TaskProgresses(o) ==
  /\ o \in Watched \cap notifiers
  /\ o \notin posted
  /\ posted' = posted \cup {o}
  /\ UNCHANGED <<config, handle, task, held, timer, timeoutPromise, jobs, chain,
                 subVars, listeners, notifiers, silenced, late, cancelled, instances,
                 survivors>>

\* The server accepts or refuses the latest subscription set of a path, and
\* the engine posts the new state to everyone who waits for it.
ServerAnswers(p, state) ==
  /\ answered[p] < version[p]
  /\ answered' = [answered EXCEPT ![p] = version[p]]
  /\ chain' = [o \in Opens |->
                 IF chain[o] = "waiting" /\ PathOf[o] = p THEN state ELSE chain[o]]
  /\ UNCHANGED <<config, handle, task, held, timer, timeoutPromise, jobs,
                 existed, file, version, seen, seeders, made, appVars>>
----------------------------------------------------------------------------
(***************************************************************************)
(* Macrotasks.                                                             *)
(***************************************************************************)

\* The reference arrives: the async function consumes it, constructs the Barq
\* and, with flexible sync, waits for subscriptions that are pending.
DeliverReference(o) ==
  /\ Quiet
  /\ task[o] = "tsr"
  /\ task' = [task EXCEPT ![o] = "delivered"]
  /\ \/ /\ ConstructBarq(o, o \in existed, "synced")
        /\ seen' = [seen EXCEPT ![o] = version'[PathOf[o]]]
        /\ chain' = [chain EXCEPT ![o] =
                       IF MustWait(o, version'[PathOf[o]]) THEN "waiting" ELSE "return"]
     \/ /\ \E err \in BarqThrows : chain' = [chain EXCEPT ![o] = err]
        /\ UNCHANGED <<made, file, version, seen, seeders>>
  /\ UNCHANGED <<config, handle, held, timer, timeoutPromise, jobs, existed,
                 answered, appVars>>

\* The task failed: an inactive session means that another open of the path
\* was cancelled, and rejects as canceled.
DeliverFailure(o) ==
  /\ Quiet
  /\ task[o] \in {"inactive", "error"}
  /\ task' = [task EXCEPT ![o] = "delivered"]
  /\ Settle({o}, IF task[o] = "inactive" THEN "canceled" ELSE "failed")
  /\ UNCHANGED <<config, held, timer, timeoutPromise, chain, subVars, appVars>>

\* waitForSynchronization continues: it throws if the server refused.
DeliverSubscriptionState(o) ==
  /\ Quiet
  /\ chain[o] \in {"complete", "refused"}
  /\ chain' = [chain EXCEPT ![o] = IF @ = "complete" THEN "return" ELSE "plain"]
  /\ UNCHANGED <<config, handle, task, held, timer, timeoutPromise, jobs,
                 subVars, appVars>>

\* emitProgress calls whoever is registered when the notification arrives.
EmitProgress(o) ==
  /\ Quiet
  /\ o \in posted
  /\ posted' = posted \ {o}
  /\ late' = late \cup ({o} \cap listeners \cap silenced)
  /\ UNCHANGED <<config, handle, task, held, timer, timeoutPromise, jobs, chain,
                 subVars, listeners, notifiers, silenced, cancelled, instances, survivors>>

\* The timer of a TimeoutPromise that has not settled fires, and its catch
\* handler runs: reject, or give the download up and open the local file.
TimeoutRejects(o) ==
  /\ Quiet
  /\ o \in timer
  /\ timeoutPromise[o] = "throw"
  /\ timer' = timer \ {o}
  /\ Settle({o}, "timedOut")
  /\ UNCHANGED <<config, task, held, timeoutPromise, chain, subVars, appVars>>

TimeoutOpensLocal(o) ==
  /\ Quiet
  /\ o \in timer
  /\ timeoutPromise[o] = "local"
  /\ timer' = timer \ {o}
  /\ CancelTasks({o})
  /\ held' = held \ {o}
  /\ \/ /\ ConstructBarq(o, PathOf[o] \in file, "local")
        /\ Settle({o}, "local")
     \/ /\ BarqThrows # {}
        /\ UNCHANGED <<handle, jobs, made, file, version, seeders>>
  /\ UNCHANGED <<config, timeoutPromise, chain, existed, answered, seen, appVars>>
----------------------------------------------------------------------------
(***************************************************************************)
(* Microtasks: the reactions registered in the constructors.               *)
(***************************************************************************)

\* Mutated CancelTaskOnReject: the task is left to itself.
KeepTaskOnReject(o) ==
  /\ <<o, "cancelTask">> \in jobs
  /\ jobs' = jobs \ {<<o, "cancelTask">>}
  /\ UNCHANGED <<config, handle, task, held, timer, timeoutPromise, chain, subVars, appVars>>

\* handle.promise.catch(() => this.task?.cancel())
CancelTaskOnReject(o) ==
  /\ <<o, "cancelTask">> \in jobs
  /\ jobs' = jobs \ {<<o, "cancelTask">>}
  /\ CancelTasks({o})
  /\ UNCHANGED <<config, handle, held, timer, timeoutPromise, chain, subVars, appVars>>

\* TimeoutPromise: inner.then(resolve, reject) settles it as the handle did;
\* its own catch handler can then only reject a handle that has settled.
SettleTimeout(o) ==
  /\ <<o, "settleTimeout">> \in jobs
  /\ jobs' = (jobs \ {<<o, "settleTimeout">>}) \cup {<<o, "clearTimer">>}
  /\ UNCHANGED <<config, handle, task, held, timer, timeoutPromise, chain,
                 subVars, appVars>>

\* ... .finally(() => this.cancel()) clears the timer.
ClearTimer(o) ==
  /\ <<o, "clearTimer">> \in jobs
  /\ jobs' = jobs \ {<<o, "clearTimer">>}
  /\ timer' = timer \ {o}
  /\ UNCHANGED <<config, handle, task, held, timeoutPromise, chain, subVars, appVars>>

\* .then(this.handle.resolve, ...)
ReturnBarq(o) ==
  /\ chain[o] = "return"
  /\ chain' = [chain EXCEPT ![o] = "done"]
  /\ Settle({o}, "synced")
  /\ UNCHANGED <<config, task, held, timer, timeoutPromise, subVars, appVars>>

\* Mutated FailOpen: the rejection handler forgets the handle.
FailUnheard(o) ==
  /\ chain[o] \in Errors
  /\ chain' = [chain EXCEPT ![o] = "done"]
  /\ UNCHANGED <<config, handle, jobs, task, held, timer, timeoutPromise, subVars, appVars>>

\* ... (err) => { assert.undefined(err.code); ...; this.handle.reject(err) }
FailOpen(o) ==
  /\ chain[o] \in Errors
  /\ chain' = [chain EXCEPT ![o] = "done"]
  /\ IF chain[o] = "coded"
     THEN UNCHANGED <<handle, jobs>>
     ELSE Settle({o}, "failed")
  /\ UNCHANGED <<config, task, held, timer, timeoutPromise, subVars, appVars>>
----------------------------------------------------------------------------
Init ==
  /\ config \in [Opens -> Configs]
  /\ handle = [o \in Opens |-> "idle"]
  /\ task = [o \in Opens |-> "none"]
  /\ held = {}
  /\ timer = {}
  /\ timeoutPromise = [o \in Opens |-> "none"]
  /\ jobs = {}
  /\ chain = [o \in Opens |-> "idle"]
  /\ existed = {}
  /\ file \in SUBSET Paths
  /\ version = [p \in Paths |-> 0]
  /\ answered = [p \in Paths |-> 0]
  /\ seen = [o \in Opens |-> 0]
  /\ seeders = {}
  /\ made = [o \in Opens |-> {}]
  /\ listeners = {}
  /\ notifiers = {}
  /\ silenced = {}
  /\ posted = {}
  /\ late = {}
  /\ cancelled = {}
  /\ instances = {}
  /\ survivors = {}

Application(o) ==
  \/ OpenImmediately(o) \/ DownloadBeforeOpen(o) \/ Cancel(o) \/ Progress(o)

Engine(o) ==
  \/ \E result \in {"tsr", "error"} : TaskCompletes(o, result)
  \/ TaskProgresses(o)

Macrotask(o) ==
  \/ DeliverReference(o) \/ DeliverFailure(o) \/ DeliverSubscriptionState(o)
  \/ EmitProgress(o) \/ TimeoutRejects(o) \/ TimeoutOpensLocal(o)

Microtask(o) ==
  \/ CancelTaskOnReject(o) \/ SettleTimeout(o) \/ ClearTimer(o)
  \/ ReturnBarq(o) \/ FailOpen(o)

Next ==
  \/ \E o \in Opens : Application(o) \/ Engine(o) \/ Macrotask(o) \/ Microtask(o)
  \/ \E p \in Paths, state \in {"complete", "refused"} : ServerAnswers(p, state)
  \/ CancelAll

Spec == Init /\ [][Next]_vars

\* The event loop keeps running microtasks, timers and posted calls.
LoopFairness ==
  \A o \in Opens : WF_vars(Microtask(o)) /\ WF_vars(Macrotask(o))

\* A task that is neither cancelled nor aborted completes or fails, and the
\* server answers.  Only the properties that say so rely on it.
NetworkFairness ==
  /\ \A o \in Opens : WF_vars(\E result \in {"tsr", "error"} : TaskCompletes(o, result))
  /\ \A p \in Paths : WF_vars(\E state \in {"complete", "refused"} : ServerAnswers(p, state))

LoopSpec == Spec /\ LoopFairness
FairSpec == Spec /\ LoopFairness /\ NetworkFairness
----------------------------------------------------------------------------
(***************************************************************************)
(* Properties.                                                             *)
(***************************************************************************)

\* Type correctness of the promise, the task, the timer and the chain.
TypeOK ==
  /\ config \in [Opens -> Configs]
  /\ handle \in [Opens -> {"idle", "pending"} \cup Settled]
  /\ task \in [Opens -> {"none", "cancelled", "delivered"} \cup Active \cup Posted]
  /\ timeoutPromise \in [Opens -> {"none", "throw", "local", "invalid"}]
  /\ jobs \subseteq Opens \X Reactions
  /\ chain \in [Opens -> {"idle", "waiting", "complete", "refused", "return", "done"}
                          \cup Errors]
  /\ file \subseteq Paths
  /\ version \in [Paths -> Nat] /\ answered \in [Paths -> Nat]
  /\ seen \in [Opens -> Nat]
  /\ made \in [Opens -> SUBSET Resolved]
  /\ {held, timer, existed, seeders, listeners, notifiers, silenced, posted, late,
      cancelled, instances, survivors}
       \subseteq SUBSET Opens

\* Once the promise of an open has settled and its reactions have run, its
\* download is not left running: whatever settled it, handle.promise.catch and
\* cancelAndResetTask see to it between them.
NoOrphanTask ==
  Quiet => \A o \in Opens : handle[o] \in Settled => task[o] \notin Active

\* ... and its timer is not left armed, so a settled open does not hold the
\* event loop of a process that wants to exit.
NoTimerLeak ==
  Quiet => \A o \in timer : handle[o] = "pending"

\* A pending open still has something that will settle it: its task, its timer,
\* its subscriptions or a job.
StillUnderWay(o) ==
  \/ task[o] \in Active \cup Posted
  \/ o \in timer
  \/ chain[o] \in {"waiting", "complete", "refused", "return", "plain"}

NothingStuck == \A o \in Opens : handle[o] = "pending" => StillUnderWay(o)

\* A Barq that open() resolves with after the download has had the subscription
\* set it was constructed with answered by the server, even when another open
\* of the path made a newer one in between.
ResolvesSynchronized ==
  \A o \in Opens :
    handle[o] = "synced" /\ config[o].flexible => seen[o] <= answered[PathOf[o]]

\* initialSubscriptions.update runs once for a new file, however many opens
\* race for it, unless rerunOnOpen asks for more.
SeededOnce ==
  \A p \in Paths :
    Cardinality({o \in seeders : PathOf[o] = p /\ config[o].initial = "once"}) <= 1

\* A callback that cancel() cleared is not called until somebody registers it
\* again, though the notifier stays registered with the engine and may have a
\* notification in the event loop.
NoLateProgress == late = {}

\* Barq.shutdown() "cancels all pending Barq.open calls".
ShutdownCancelsAll == survivors = {}

\* An open that has settled leaves no task and no timer behind, and cancel() silences the
\* callbacks there are (ProgressBarqPromise.ts:109-239, TimeoutPromise.ts:46).  It says
\* nothing of the callbacks of opens that settled by themselves: they stay registered.
NothingLeaks == NoOrphanTask /\ NoTimerLeak /\ NoLateProgress

\* The open keeps what it promises (PromisedOpen).
GivenUp ==
  {o \in Opens : \/ handle[o] \in Rejected \cup {"local"}
                 \/ o \in cancelled
                 \/ task[o] # "none" /\ o \notin held}

Promise == INSTANCE PromisedOpen WITH outcome <- handle, givenUp <- GivenUp

KeepsPromise == Promise!Spec

\* Every open settles ...
EventuallySettles ==
  \A o \in Opens : (handle[o] = "pending") ~> (handle[o] \in Settled)

\* ... if the network answers: by its own completion, the subscriptions, the
\* cancellation of another open of the file or an error of the constructor.
NetworkSettles == NetworkFairness => EventuallySettles

\* ... and by the event loop alone if it has a timeout that rejects.
TimeoutSettles ==
  \A o \in Opens :
    (handle[o] = "pending" /\ timeoutPromise[o] = "throw") ~> (handle[o] \in Settled)

\* Every open whose timeout does not open the local file settles, by the network or by
\* the event loop (ProgressBarqPromise.ts:104-151, 204-216).
Settles == NetworkSettles /\ TimeoutSettles

----------------------------------------------------------------------------
(***************************************************************************)
(* What comments and documentation say and the code does not keep.         *)
(***************************************************************************)

\* Barq.open() with initialSubscriptions "will not resolve until this set of
\* subscriptions has been fully synchronized": somebody applied them, if the
\* file was new when the first of the opens was called.
SeededWhenResolved ==
  \A o, q \in Opens :
    /\ handle[o] = "synced" /\ config[o].initial # "none"
    /\ PathOf[q] = PathOf[o] /\ config[q].initial # "none"
    /\ handle[q] # "idle" /\ q \notin existed
    => seeders \cap Siblings(o) # {}
=============================================================================
