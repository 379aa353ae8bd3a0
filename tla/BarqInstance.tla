---------------------------- MODULE BarqInstance ----------------------------
(***************************************************************************)
(* One Barq in its JavaScript thread: the classes it makes of its schema,  *)
(* the schema updates of migrations and of applications that add models,   *)
(* and its listeners: those of the three events of a Barq, and those of    *)
(* objects and collections, which the engine calls through tokens.         *)
(*                                                                         *)
(* A notification is a round of calls.  Application code runs when no      *)
(* round is under way and inside a listener, where it may add and remove   *)
(* listeners, update the schema, close the Barq, or throw.                 *)
(*                                                                         *)
(* External: the engine notifies from the event loop and, of a schema that *)
(* has changed, inside updateSchema(); it does not call a callback whose   *)
(* token has been unregistered.  Not modelled: the cancellation of a       *)
(* transaction that has updated the schema, which is the engine's.         *)
(***************************************************************************)
EXTENDS Naturals, Sequences, SequencesExt, FiniteSets, TLC

CONSTANTS
  Models,           \* names of object schemas
  PropertyNames,
  Defaults,         \* values a declaration may give as default
  NoDefault,
  Callbacks,        \* listeners
  Holders,          \* wrappers of objects and collections, which have listeners
  MaxOperations     \* bounds what the application does

Events == {"change", "schema", "beforenotify"}

ASSUME BarqInstanceAssumption ==
  /\ NoDefault \notin Defaults
  /\ Holders \cap Events = {}
  /\ MaxOperations \in Nat

(* What an application declares: properties, and a default for one of them.*)
Declarations == [properties : SUBSET PropertyNames \ {{}}, default : Defaults \cup {NoDefault}]

VARIABLES
  internalSchema,   \* the engine's, with the properties of each model
  declared,         \* how each model was declared last
  schemaExtras,     \* what the engine does not keep of the configured models
  classes,          \* the class map
  listeners,        \* the callbacks of each event, and of each holder, in order
  rounds,           \* the rounds of calls under way, the innermost last
  ended,            \* the round that has just ended
  open,
  inTransaction,
  operations        \* how many the application has made

barqVars == <<internalSchema, declared, schemaExtras, classes, listeners, rounds, ended,
              open, inTransaction, operations>>

----------------------------------------------------------------------------
(* Schemas and classes                                                     *)

(* extractObjectSchemaExtras()                                             *)
ExtrasOf(declarations) ==
  [m \in DOMAIN declarations |-> declarations[m].default]

ToBinding(declarations) ==
  [m \in DOMAIN declarations |-> declarations[m].properties]

(* The schema of a Barq: the engine's, with the extras by name.            *)
CanonicalSchema(internal, extras) ==
  [m \in DOMAIN internal |->
     [properties |-> internal[m],
      default |-> IF m \in DOMAIN extras THEN extras[m] ELSE NoDefault]]

PropertyMap(objectSchema, canonical) ==
  [names |-> objectSchema, default |-> canonical.default]

NewClassMap(internal, canonical) ==
  [m \in DOMAIN internal |-> PropertyMap(internal[m], canonical[m])]

----------------------------------------------------------------------------
(* Rounds of calls                                                         *)

(* kept: the listeners that have been there since the round began.         *)
NoRound == [of |-> "none", start |-> <<>>, kept |-> {}, todo |-> <<>>, called |-> <<>>,
            running |-> FALSE, threw |-> FALSE]

RoundOf(of) ==
  [NoRound EXCEPT !.of = of, !.start = listeners[of], !.todo = listeners[of],
                  !.kept = ToSet(listeners[of])]

(* Application code runs.                                                  *)
ApplicationRuns == IF rounds = <<>> THEN TRUE ELSE Last(rounds).running

Operates ==
  /\ ApplicationRuns
  /\ operations < MaxOperations
  /\ operations' = operations + 1

(* The spread array of BarqListeners.notify() does not grow with the set   *)
(* it was made of, nor shrink with it.                                     *)
Growing(todo, callback) == Append(todo, callback)
AfterAdding(todo, callback) == todo

(* What is no longer there at the end of the rounds of some of keys.       *)
Forgotten(keys, gone) ==
  [i \in DOMAIN rounds |->
     IF rounds[i].of \in keys THEN [rounds[i] EXCEPT !.kept = @ \ gone] ELSE rounds[i]]

(* The engine does not call what has been unregistered.                    *)
Unregistered(holder, callback) ==
  [i \in DOMAIN rounds |->
     IF rounds[i].of = holder
     THEN [rounds[i] EXCEPT !.kept = @ \ {callback}, !.todo = RemoveFirst(@, callback)]
     ELSE rounds[i]]

AllUnregistered(holder) ==
  [i \in DOMAIN rounds |->
     IF rounds[i].of = holder THEN [rounds[i] EXCEPT !.kept = {}, !.todo = <<>>]
     ELSE rounds[i]]

BarqInit ==
  /\ \E models \in SUBSET Models : declared \in [models -> Declarations]
  /\ internalSchema = ToBinding(declared)
  /\ schemaExtras = ExtrasOf(declared)
  /\ classes = NewClassMap(internalSchema, CanonicalSchema(internalSchema, schemaExtras))
  /\ listeners = [key \in Events \cup Holders |-> <<>>]
  /\ rounds = <<>>
  /\ ended = NoRound
  /\ open = TRUE
  /\ inTransaction = FALSE
  /\ operations = 0

BeginRound(of) ==
  /\ rounds = <<>> /\ open
  /\ listeners[of] # <<>>
  /\ rounds' = <<RoundOf(of)>>
  /\ ended' = NoRound
  /\ UNCHANGED <<internalSchema, declared, schemaExtras, classes, listeners, open, inTransaction, operations>>

(* The engine calls didChange or beforeNotify of the binding context.      *)
NotifyBarq(event) == event # "schema" /\ BeginRound(event)

(* The engine calls the callbacks that are registered for a holder.        *)
NotifyHolder(holder) == BeginRound(holder)

Innermost(round) == [rounds EXCEPT ![Len(rounds)] = round]

CallNext ==
  /\ rounds # <<>> /\ ~Last(rounds).running
  /\ Last(rounds).todo # <<>>
  /\ rounds' = Innermost([Last(rounds) EXCEPT !.todo = Tail(@), !.running = TRUE,
                            !.called = Append(@, Head(Last(rounds).todo))])
  /\ ended' = NoRound
  /\ UNCHANGED <<internalSchema, declared, schemaExtras, classes, listeners, open, inTransaction, operations>>

CallbackReturns ==
  /\ rounds # <<>> /\ Last(rounds).running
  /\ rounds' = Innermost([Last(rounds) EXCEPT !.running = FALSE])
  /\ UNCHANGED <<internalSchema, declared, schemaExtras, classes, listeners, ended, open, inTransaction, operations>>

ListenerThrows(todo) ==
  /\ Last(rounds).running
  /\ Operates
  /\ rounds' = Innermost([Last(rounds) EXCEPT !.running = FALSE, !.threw = TRUE, !.todo = todo])
  /\ UNCHANGED <<internalSchema, declared, schemaExtras, classes, listeners, ended, open, inTransaction>>

(* What a listener of a Barq throws ends its round.                        *)
BarqListenerThrows ==
  rounds # <<>> /\ Last(rounds).of \in Events /\ ListenerThrows(<<>>)

(* What a listener of an object or a collection throws is thrown again     *)
(* later.                                                                  *)
HolderListenerThrows ==
  rounds # <<>> /\ Last(rounds).of \in Holders /\ ListenerThrows(Last(rounds).todo)

EndRound ==
  /\ rounds # <<>> /\ ~Last(rounds).running /\ Last(rounds).todo = <<>>
  /\ rounds' = Front(rounds)
  /\ ended' = Last(rounds)
  /\ UNCHANGED <<internalSchema, declared, schemaExtras, classes, listeners, open, inTransaction, operations>>

----------------------------------------------------------------------------
(* What the application does                                               *)

(* barq.addListener(): the set keeps a callback once.                      *)
AddBarqListener(event, callback) ==
  /\ open
  /\ Operates
  /\ ~Contains(listeners[event], callback)
  /\ listeners' = [listeners EXCEPT ![event] = Append(@, callback)]
  /\ rounds' = [i \in DOMAIN rounds |->
                  IF rounds[i].of = event
                  THEN [rounds[i] EXCEPT !.todo = AfterAdding(@, callback)] ELSE rounds[i]]
  /\ ended' = NoRound
  /\ UNCHANGED <<internalSchema, declared, schemaExtras, classes, open, inTransaction>>

(* addListener() of an object or a collection: Listeners.add() refuses a   *)
(* callback that it has.                                                   *)
AddHolderListener(holder, callback) ==
  /\ open
  /\ Operates
  /\ ~Contains(listeners[holder], callback)
  /\ listeners' = [listeners EXCEPT ![holder] = Append(@, callback)]
  /\ ended' = NoRound
  /\ UNCHANGED <<internalSchema, declared, schemaExtras, classes, rounds, open, inTransaction>>

(* A callback is in a list once, so that its place is the first.           *)
Drop(key, callback) ==
  /\ Contains(listeners[key], callback)
  /\ listeners' = [listeners EXCEPT ![key] = RemoveFirst(@, callback)]
  /\ ended' = NoRound
  /\ UNCHANGED <<internalSchema, declared, schemaExtras, classes, open, inTransaction>>

DropAll(keys) ==
  /\ \E key \in keys : listeners[key] # <<>>
  /\ listeners' = [key \in DOMAIN listeners |-> IF key \in keys THEN <<>> ELSE listeners[key]]
  /\ ended' = NoRound
  /\ UNCHANGED <<internalSchema, declared, schemaExtras, classes, open, inTransaction>>

(* A Barq asserts that it is open.                                         *)
RemoveBarqListener(event, callback) ==
  /\ open
  /\ Operates
  /\ Drop(event, callback)
  /\ rounds' = Forgotten({event}, {callback})

(* removeAllListeners(), of one event or without one of every event.       *)
RemoveAllBarqListeners(events) ==
  /\ open
  /\ Operates
  /\ DropAll(events)
  /\ rounds' = Forgotten(events, Callbacks)

(* A token can be unregistered after close(), too.                         *)
RemoveHolderListener(holder, callback) ==
  /\ Operates
  /\ Drop(holder, callback)
  /\ rounds' = Unregistered(holder, callback)

RemoveAllHolderListeners(holder) ==
  /\ Operates
  /\ DropAll({holder})
  /\ rounds' = AllUnregistered(holder)

BeginTransaction ==
  /\ open /\ ~inTransaction
  /\ Operates
  /\ inTransaction' = TRUE
  /\ ended' = NoRound
  /\ UNCHANGED <<internalSchema, declared, schemaExtras, classes, listeners, rounds, open>>

CommitTransaction ==
  /\ open /\ inTransaction
  /\ Operates
  /\ inTransaction' = FALSE
  /\ ended' = NoRound
  /\ UNCHANGED <<internalSchema, declared, schemaExtras, classes, listeners, rounds, open>>

SameClasses(internal) == classes
ClassesFor(internal) == NewClassMap(internal, CanonicalSchema(internal, schemaExtras))

(* schemaDidChange of the binding context, inside updateSchema().          *)
SchemaDidChange(internal) ==
  /\ internalSchema' = internal
  /\ classes' = ClassesFor(internal)
  /\ rounds' = IF listeners["schema"] = <<>> THEN rounds ELSE Append(rounds, RoundOf("schema"))

(* An update inside a listener of the schema is left out: whether the      *)
(* engine can be entered again there is not known.                         *)
MayUpdate ==
  /\ open /\ inTransaction
  /\ \A i \in DOMAIN rounds : rounds[i].of # "schema"

UpdateSchema(declarations) ==
  /\ MayUpdate
  /\ Operates
  /\ ToBinding(declarations) # internalSchema
  /\ declared' = declarations
  /\ SchemaDidChange(ToBinding(declarations))
  /\ ended' = NoRound
  /\ UNCHANGED <<schemaExtras, listeners, open, inTransaction>>

DeleteModel(name) ==
  /\ MayUpdate
  /\ name \in DOMAIN internalSchema
  /\ Operates
  /\ declared' = [m \in DOMAIN declared \ {name} |-> declared[m]]
  /\ SchemaDidChange([m \in DOMAIN internalSchema \ {name} |-> internalSchema[m]])
  /\ ended' = NoRound
  /\ UNCHANGED <<schemaExtras, listeners, open, inTransaction>>

Close ==
  /\ open
  /\ Operates
  /\ open' = FALSE
  /\ inTransaction' = FALSE
  /\ ended' = NoRound
  /\ UNCHANGED <<internalSchema, declared, schemaExtras, classes, listeners, rounds>>

AllDeclarations == UNION {[models -> Declarations] : models \in SUBSET Models}

BarqNext ==
  \/ \E event \in Events : NotifyBarq(event)
  \/ \E holder \in Holders : NotifyHolder(holder)
  \/ CallNext \/ CallbackReturns \/ EndRound
  \/ BarqListenerThrows \/ HolderListenerThrows
  \/ \E event \in Events, callback \in Callbacks :
       AddBarqListener(event, callback) \/ RemoveBarqListener(event, callback)
  \/ \E events \in {{event} : event \in Events} \cup {Events} : RemoveAllBarqListeners(events)
  \/ \E holder \in Holders, callback \in Callbacks :
       AddHolderListener(holder, callback) \/ RemoveHolderListener(holder, callback)
  \/ \E holder \in Holders : RemoveAllHolderListeners(holder)
  \/ BeginTransaction \/ CommitTransaction
  \/ \E declarations \in AllDeclarations : UpdateSchema(declarations)
  \/ \E name \in Models : DeleteModel(name)
  \/ Close

BarqSpec == BarqInit /\ [][BarqNext]_barqVars

----------------------------------------------------------------------------
(* Properties                                                              *)

BarqTypeOK ==
  /\ DOMAIN internalSchema \subseteq Models
  /\ \A key \in DOMAIN listeners : IsInjective(listeners[key]) /\ ToSet(listeners[key]) \subseteq Callbacks
  /\ Len(rounds) <= 2
  /\ open \in BOOLEAN /\ inTransaction \in BOOLEAN
  /\ operations \in 0..MaxOperations

(* Whatever the listeners of a round do to the listeners, each that was    *)
(* there at its start and still is at its end has been called, none twice, *)
(* and none that was added on the way; only what a listener of the Barq    *)
(* itself throws keeps later ones from being called.                       *)
CalledOnce ==
  ended # NoRound =>
    /\ IsInjective(ended.called)
    /\ ToSet(ended.called) \subseteq ToSet(ended.start)
    /\ (ended.threw => ended.of \in Holders) => ended.kept \subseteq ToSet(ended.called)

(* Wherever application code runs, in a listener of the change of schema   *)
(* too, each model has a class with exactly its properties, and a model    *)
(* that has kept its declaration still has its default.                    *)
ClassesAreOfSchema ==
  ApplicationRuns =>
    /\ DOMAIN classes = DOMAIN internalSchema
    /\ \A m \in DOMAIN internalSchema :
         /\ classes[m].names = declared[m].properties
         /\ m \in DOMAIN schemaExtras /\ declared[m].default = schemaExtras[m] =>
              classes[m].default = declared[m].default

(* _updateSchema() takes "the schema which the Barq should be updated to   *)
(* use" (Barq.ts:1287): the defaults in it are used, too.                  *)
DefaultsAsDeclared ==
  \A m \in DOMAIN classes : classes[m].default = declared[m].default
=============================================================================
