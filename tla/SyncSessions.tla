---------------------------- MODULE SyncSessions ----------------------------
(***************************************************************************)
(* sync/SyncSession.ts, sync/Sync.ts and Listeners.ts: how JavaScript      *)
(* reaches the sync sessions of the engine.                                *)
(*                                                                         *)
(* A SyncSession object holds a weak reference.  Each of its methods takes *)
(* a strong one, makes its call and gives it back (WeakSyncSession's       *)
(* withDeref in binding/patch.ts), while the threads of the engine go on:  *)
(* the session may lose its last owner at any moment.  Progress and        *)
(* connection callbacks are registered with the engine and kept by         *)
(* callback in two module-wide registries, shared by all sessions.  The    *)
(* engine posts what happens to the event loop, which delivers in order.   *)
(*                                                                         *)
(* The engine is not in the repository: a session lives while a Barq, its  *)
(* stop policy or a strong reference keeps it, tells its notifiers of      *)
(* every change, and drops those for outstanding work when that is done.   *)
(***************************************************************************)
EXTENDS SyncConfigs, FiniteSets

CONSTANTS
  Sessions,       \* the sessions the engine may make, one after the other
  Configs,        \* the sync configurations the application uses
  Callbacks,      \* the callbacks it registers
  MaxTokens,      \* bound on the registrations
  MaxInbox,       \* bound on the events in the event loop
  MaxEvents       \* bound on the events the engine posts

Kinds == {"progress", "connection"}
ConnectionStates == {"Disconnected", "Connecting", "Connected"}

VARIABLES
  settings,    \* the configuration of each session that was made
  owners,      \* what keeps each session: its "barq", "uploads", its "policy"
  strong,      \* how many strong references JavaScript has to each session
  connection,  \* the connection state of each session
  notifiers,   \* the notifiers registered with each session
  listeners,   \* for each kind, the registry: the entry of each callback in it
  inbox,       \* the events posted to the event loop
  call,        \* the call through withDeref under way
  told,        \* what the last step delivered to the application, if it did
  tokens,      \* how many registrations were made
  events       \* how many events were posted

sessionVars == <<settings, owners, strong, connection, notifiers, listeners, inbox,
                 call, told, tokens, events>>

Idle == [op |-> "idle"]
Nothing == [what |-> "nothing"]

Made(s) == s \in DOMAIN settings

\* What the engine was given for the session.
BindingConfigs == [config \in {c \in Configs : Valid(c)} |-> BindingConfig(config)]
Given(s) == BindingConfigs[settings[s]]

\* Where Barqs are kept, and where they are looked for.
OpenPaths == [config \in Configs |-> OpenPath(config)]
LookupPaths == [config \in Configs |-> LookupPath(config.user, config.partitionValue)]

Alive(s) == Made(s) /\ (owners[s] # {} \/ strong[s] > 0)

SessionInit ==
  /\ settings = [s \in {} |-> s]
  /\ owners = [s \in Sessions |-> {}]
  /\ strong = [s \in Sessions |-> 0]
  /\ connection = [s \in Sessions |-> "Disconnected"]
  /\ notifiers = [s \in Sessions |-> {}]
  /\ listeners = [k \in Kinds |-> [c \in {} |-> c]]
  /\ inbox = <<>>
  /\ call = Idle
  /\ told = Nothing
  /\ tokens = 0
  /\ events = 0

-----------------------------------------------------------------------------
(* References *)

\* A strong reference to each session of S.
Referenced(refs, S) == [s \in Sessions |-> refs[s] + IF s \in S THEN 1 ELSE 0]

\* SyncSession.weaken, for each session of S: the wrapper keeps a weak copy, and the
\* strong reference it was made from is released.
Weakened(refs, S) == [s \in Sessions |-> refs[s] - IF s \in S THEN 1 ELSE 0]

\* The sessions the engine has at a path.
At(path) == {s \in Sessions : Alive(s) /\ OpenPaths[settings[s]] = path}

\* new Barq with a sync configuration that is valid: the engine makes the session of the
\* path, or shares the one it has, and the constructor makes a SyncSession of it.
OpenSynced(config) ==
  /\ call = Idle
  /\ Valid(config) /\ ~NoHandler(config)
  /\ \E s \in Sessions :
       \/ /\ s \in At(OpenPaths[config])
          /\ settings[s] = config
          /\ UNCHANGED settings
          /\ owners' = [owners EXCEPT ![s] = @ \cup {"barq"}]
          /\ strong' = Weakened(Referenced(strong, {s}), {s})
       \/ /\ At(OpenPaths[config]) = {} /\ ~Made(s)
          /\ settings' = [x \in DOMAIN settings \cup {s} |->
                            IF x = s THEN config ELSE settings[x]]
          /\ owners' = [owners EXCEPT ![s] = {"barq"}]
          /\ strong' = Weakened(Referenced(strong, {s}), {s})
  /\ UNCHANGED <<connection, notifiers, listeners, inbox, call, told, tokens, events>>

\* Sync.getSyncSession: the engine gives the session only while it is active; an invalid
\* partition value is refused.
GetSyncSession(config) ==
  /\ call = Idle
  /\ ValidPartition(config.partitionValue)
  /\ \E found \in SUBSET At(LookupPaths[config]) :
       strong' = Weakened(Referenced(strong, found), found)
  /\ UNCHANGED <<settings, owners, connection, notifiers, listeners, inbox, call,
                 tokens, events>>

\* Sync.getAllSyncSessions
GetAllSyncSessions(user) ==
  /\ call = Idle
  /\ LET found == {s \in Sessions : Alive(s) /\ settings[s].user = user} IN
       strong' = Weakened(Referenced(strong, found), found)
  /\ UNCHANGED <<settings, owners, connection, notifiers, listeners, inbox, call,
                 tokens, events>>

-----------------------------------------------------------------------------
(* Calls on a SyncSession *)

\* withInternal: withDeref takes a strong reference, or finds that the session is gone,
\* and then the assertion throws.
BeginCall(s, op) ==
  /\ call = Idle
  /\ Made(s) /\ Alive(s)
  /\ strong' = Referenced(strong, {s})
  /\ call' = [op |-> op, on |-> s]
  /\ UNCHANGED <<settings, owners, connection, notifiers, listeners, inbox, tokens,
                 events>>

During(op) == call # Idle /\ call.op = op

\* Mutated EndCall: it is given back after a call that returned.
EndUnlessThrown(throws) ==
  /\ strong' = IF throws THEN strong ELSE Weakened(strong, {call.on})
  /\ call' = Idle

\* The finally of withDeref: the reference is given back whether the call has returned or
\* thrown.
EndCall(throws) ==
  /\ strong' = Weakened(strong, {call.on})
  /\ call' = Idle

\* pause, resume, reconnect and the getters: what they ask of the engine is its concern,
\* and it may refuse.
EngineBody ==
  /\ During("engine")
  /\ \E throws \in BOOLEAN : EndCall(throws)
  /\ UNCHANGED <<settings, owners, connection, notifiers, listeners, inbox, tokens, events>>

\* What Listeners.add does before it calls its option.
Registered(kind, c) == c \in DOMAIN listeners[kind]

\* Listeners.add throws for a callback that has an entry, and toBindingDirection for a
\* direction it does not know.
Refused(kind, c, validDirection) == Registered(kind, c) \/ ~validDirection

\* Listeners.add of PROGRESS_LISTENERS and CONNECTION_LISTENERS.
AddBody(kind, c, indefinite, validDirection) ==
  /\ During("add") /\ EndCall(Refused(kind, c, validDirection))
  /\ IF Refused(kind, c, validDirection)
     THEN UNCHANGED <<notifiers, listeners, tokens>>
     ELSE /\ tokens < MaxTokens
          /\ tokens' = tokens + 1
          /\ notifiers' = [notifiers EXCEPT ![call.on] = @ \cup
               {[kind |-> kind, callback |-> c, token |-> tokens, indefinite |-> indefinite]}]
          /\ listeners' = [listeners EXCEPT ![kind] =
               [x \in DOMAIN @ \cup {c} |->
                 IF x = c THEN [on |-> call.on, token |-> tokens] ELSE @[x]]]
  /\ UNCHANGED <<settings, owners, connection, inbox, events>>

\* removeProgressNotification and removeConnectionNotification, of any SyncSession: the
\* registration is undone at the session it was made with, if that is still alive.
RemoveListener(kind, c) ==
  /\ call = Idle
  /\ Registered(kind, c)
  /\ LET entry == listeners[kind][c] IN
       notifiers' = IF Alive(entry.on)
         THEN [notifiers EXCEPT ![entry.on] = {n \in @ : n.token # entry.token}]
         ELSE notifiers
  /\ listeners' = [listeners EXCEPT ![kind] = [x \in DOMAIN @ \ {c} |-> @[x]]]
  /\ UNCHANGED <<settings, owners, strong, connection, inbox, call, tokens, events>>

-----------------------------------------------------------------------------
(* The engine *)

\* The Barq is closed or collected; its stop policy may keep the session for its uploads,
\* or for good.
CloseSynced(s) ==
  /\ call = Idle
  /\ "barq" \in owners[s]
  /\ owners' = [owners EXCEPT ![s] = (@ \ {"barq"}) \cup
       CASE Given(s).stopPolicy = "AfterChangesUploaded" -> {"uploads"}
         [] Given(s).stopPolicy = "LiveIndefinitely" -> {"policy"}
         [] Given(s).stopPolicy = "Immediately" -> {}]
  /\ UNCHANGED <<settings, strong, connection, notifiers, listeners, inbox, call,
                 tokens, events>>

Uploaded(s) ==
  /\ "uploads" \in owners[s] /\ "barq" \notin owners[s]
  /\ owners' = [owners EXCEPT ![s] = @ \ {"uploads"}]
  /\ UNCHANGED <<settings, strong, connection, notifiers, listeners, inbox, call,
                 tokens, events>>

\* The events an occurrence at s posts, one for each notifier of a kind, in some order.
Post(s, kind, event) ==
  LET hear == {n \in notifiers[s] : n.kind = kind}
  IN  /\ Len(inbox) + Cardinality(hear) <= MaxInbox
      /\ events < MaxEvents
      /\ events' = events + 1
      /\ \E order \in [1..Cardinality(hear) -> hear] :
           /\ \A i, j \in DOMAIN order : order[i] = order[j] => i = j
           /\ inbox' = inbox \o [i \in DOMAIN order |-> [event EXCEPT !.notifier = order[i]]]

ConnectionChanges(s, state) ==
  /\ Alive(s) /\ state # connection[s]
  /\ connection' = [connection EXCEPT ![s] = state]
  /\ Post(s, "connection",
          [what |-> "connection", on |-> s, notifier |-> Nothing, old |-> connection[s],
           new |-> state])
  /\ UNCHANGED <<settings, owners, strong, notifiers, listeners, call, tokens>>

\* Notifiers for outstanding work are dropped once that is done.
WorkDone(s) ==
  /\ Alive(s) /\ \E n \in notifiers[s] : n.kind = "progress"
  /\ Post(s, "progress", [what |-> "progress", notifier |-> Nothing])
  /\ notifiers' = [notifiers EXCEPT ![s] = {n \in @ : n.kind = "connection" \/ n.indefinite}]
  /\ UNCHANGED <<settings, owners, strong, connection, listeners, call, tokens>>

\* An error; the event holds a strong reference to the session.
ErrorRaised(s, error) ==
  /\ Alive(s) /\ Given(s).handler # "none"
  /\ Len(inbox) < MaxInbox /\ events < MaxEvents
  /\ events' = events + 1
  /\ inbox' = Append(inbox, [what |-> "error", on |-> s, error |-> error])
  /\ strong' = Referenced(strong, {s})
  /\ UNCHANGED <<settings, owners, connection, notifiers, listeners, call, tokens>>

\* An error of a session whose configuration gave the engine no handler: nobody hears.
ErrorUnheard(s, error) ==
  /\ call = Idle
  /\ Alive(s) /\ Given(s).handler = "none"
  /\ events < MaxEvents
  /\ events' = events + 1
  /\ told' = [what |-> "error", on |-> s, error |-> error, by |-> {}]
  /\ UNCHANGED <<settings, owners, strong, connection, notifiers, listeners, inbox, call, tokens>>

\* A reset may recover only what its mode recovers, and manual mode has none.
ResetPossible(s, didRecover) ==
  /\ Alive(s) /\ Given(s).resetMode # "Manual"
  /\ didRecover => Given(s).resetMode \in {"Recover", "RecoverOrDiscard"}

\* The engine has reset the client, by recovery or otherwise.
ResetDone(s, didRecover) ==
  /\ ResetPossible(s, didRecover) /\ Given(s).after # "none"
  /\ Len(inbox) < MaxInbox /\ events < MaxEvents
  /\ events' = events + 1
  /\ inbox' = Append(inbox, [what |-> "reset", on |-> s, didRecover |-> didRecover])
  /\ UNCHANGED <<settings, owners, strong, connection, notifiers, listeners, call,
                 tokens>>

\* A reset of a session whose configuration gave the engine no callback for after it.
ResetUnheard(s, didRecover) ==
  /\ call = Idle
  /\ ResetPossible(s, didRecover) /\ Given(s).after = "none"
  /\ events < MaxEvents
  /\ events' = events + 1
  /\ told' = [what |-> "reset", on |-> s, didRecover |-> didRecover, by |-> {}]
  /\ UNCHANGED <<settings, owners, strong, connection, notifiers, listeners, inbox, call, tokens>>

-----------------------------------------------------------------------------
(* The event loop *)

NextEvent(what) == call = Idle /\ inbox # <<>> /\ Head(inbox).what = what /\ inbox' = Tail(inbox)

\* The adapter of CONNECTION_LISTENERS: the engine says old and new, the callback hears
\* new and old.
Adapted(old, new) == [new |-> new, old |-> old]

DeliverConnection ==
  /\ NextEvent("connection")
  /\ LET e == Head(inbox) IN
       told' = [what |-> "connection", on |-> e.on, notifier |-> e.notifier,
                change |-> Adapted(e.old, e.new)]
  /\ UNCHANGED <<settings, owners, strong, connection, notifiers, listeners, call,
                 tokens, events>>

DeliverProgress ==
  /\ NextEvent("progress")
  /\ told' = Nothing
  /\ UNCHANGED <<settings, owners, strong, connection, notifiers, listeners, call,
                 tokens, events>>

\* toBindingErrorHandler: the wrapper it makes weakens the reference before the callback runs.
DeliverError ==
  /\ NextEvent("error")
  /\ LET e == Head(inbox) IN
       /\ strong' = Weakened(strong, {e.on})
       /\ told' = [what |-> "error", on |-> e.on, error |-> e.error,
                   by |-> ToldOfError(Given(e.on).handler, e.error)]
  /\ UNCHANGED <<settings, owners, connection, notifiers, listeners, call, tokens,
                 events>>

DeliverReset ==
  /\ NextEvent("reset")
  /\ LET e == Head(inbox) IN
       told' = [what |-> "reset", on |-> e.on, didRecover |-> e.didRecover,
                by |-> ToldOfReset(Given(e.on).after, e.didRecover,
                                   settings[e.on].onFallback)]
  /\ UNCHANGED <<settings, owners, strong, connection, notifiers, listeners, call,
                 tokens, events>>

Errors == [compensatingWrites : BOOLEAN, clientReset : BOOLEAN]

\* These steps tell the application nothing, and nothing is lost.
Acts ==
  \/ \E config \in Configs : OpenSynced(config)
  \/ \E config \in Configs : GetSyncSession(config)
  \/ \E config \in Configs : GetAllSyncSessions(config.user)
  \/ \E s \in Sessions, op \in {"engine", "add"} : BeginCall(s, op)
  \/ EngineBody
  \/ \E c \in Callbacks, indefinite, valid \in BOOLEAN : AddBody("progress", c, indefinite, valid)
  \/ \E c \in Callbacks : AddBody("connection", c, TRUE, TRUE)
  \/ \E kind \in Kinds, c \in Callbacks : RemoveListener(kind, c)
  \/ \E s \in Sessions : CloseSynced(s)
  \/ \E s \in Sessions : Uploaded(s)
  \/ \E s \in Sessions, state \in ConnectionStates : ConnectionChanges(s, state)
  \/ \E s \in Sessions : WorkDone(s)
  \/ \E s \in Sessions, error \in Errors : ErrorRaised(s, error)
  \/ \E s \in Sessions, didRecover \in BOOLEAN : ResetDone(s, didRecover)

SessionNext ==
  \/ Acts /\ told' = Nothing
  \/ DeliverConnection
  \/ DeliverProgress
  \/ DeliverError
  \/ DeliverReset
  \/ \E s \in Sessions, error \in Errors : ErrorUnheard(s, error)
  \/ \E s \in Sessions, didRecover \in BOOLEAN : ResetUnheard(s, didRecover)

SessionSpec == SessionInit /\ [][SessionNext]_sessionVars

-----------------------------------------------------------------------------
(* Properties *)

\* The state is well-formed: counted references, registries that point at sessions that
\* were made (SyncSession.ts).
SessionsTypeOK ==
  /\ DOMAIN settings \subseteq Sessions
  /\ owners \in [Sessions -> SUBSET {"barq", "uploads", "policy"}]
  /\ strong \in [Sessions -> Nat]
  /\ connection \in [Sessions -> ConnectionStates]
  /\ \A k \in Kinds : \A c \in DOMAIN listeners[k] : Made(listeners[k][c].on)
  /\ tokens \in 0..MaxTokens /\ events \in 0..MaxEvents

\* Between the calls of the application JavaScript keeps no session alive: only the engine
\* and the errors it has posted hold one, whatever call has returned or thrown before
\* (withDeref and weaken, patch.ts:89-106).
SessionsNotKept ==
  call = Idle => \A s \in Sessions :
    strong[s] = Cardinality({i \in 1..Len(inbox) : inbox[i].what = "error" /\ inbox[i].on = s})

\* A callback that a live session would call can be removed: the registry has the entry of
\* that very registration, on that session (Listeners.ts:42-57 with the registries that
\* all SyncSessions share, SyncSession.ts:294-330).
NotifiersRemovable ==
  \A s \in Sessions : Alive(s) => \A n \in notifiers[s] :
    Registered(n.kind, n.callback) /\ listeners[n.kind][n.callback] = [on |-> s, token |-> n.token]

\* Nothing an application did with a session is out of its hands afterwards: no call keeps
\* the session open, and no callback stays registered for good (patch.ts:89-106,
\* SyncSession.ts:294-330).
SessionsReleased == SessionsNotKept /\ NotifiersRemovable

\* Each error reaches exactly the callback its configuration means for it: a client
\* reset in manual mode onManual, everything else and what has no onManual onError,
\* and nobody only where that is not given (toBindingErrorHandlerWithOnManual,
\* SyncSession.ts:174).
ErrorCallback(config, error) ==
  IF config.mode = "manual" /\ config.onManual /\ ErrorClass(error) = "ClientResetError"
  THEN {"onManual"}
  ELSE IF config.onError THEN {"onError"} ELSE {}

ErrorsReachOne ==
  told.what = "error" => told.by = ErrorCallback(settings[told.on], told.error)

\* Each client reset reaches exactly the callback its configuration gives for the way
\* it ended: onAfter if everything was recovered or the mode only discards, else
\* onFallback, and without one it throws (SyncSession.ts:224).  But a configuration
\* with onFallback and no onAfter hears nothing (SyncConfiguration.ts:456).
ResetCallback(config, didRecover) ==
  IF config.mode \in {"none", "manual"} THEN {}
  ELSE IF didRecover \/ config.mode = "discardUnsyncedChanges"
  THEN IF config.onAfter THEN {"onAfter"} ELSE {}
  ELSE IF config.onFallback THEN {"onFallback"}
  ELSE IF config.onAfter THEN {"throws"} ELSE {}

FallbackDropped(config) == config.onFallback /\ ~config.onAfter

ResetsReachRightCallback ==
  told.what = "reset" =>
    LET config == settings[told.on] IN
      \/ told.by = ResetCallback(config, told.didRecover)
      \/ FallbackDropped(config) /\ told.by = {}

\* No combination of callbacks loses an error or a reset, but for the one named above.
CallbacksReached == ErrorsReachOne /\ ResetsReachRightCallback

=============================================================================
