# Verification of the Barq JavaScript SDK

TLA+ models of the JavaScript, React and binding layers of Barq, the TLC
configurations that check them on small instances, and proofs, checked by TLAPS,
that the most important safety properties hold for every value of the constants.
Paths below are relative to the repository; `barq/` stands for
`packages/barq/src/`, `react/` for `packages/react/src/` and `templates/` for
`packages/barq/bindgen/src/templates/`.

    tlc -config AsyncOpen.cfg MCAsyncOpen.tla      # check a run
    tlapm AsyncOpenProofs.tla                      # check a proof module

## 1. The system

The SDK is a layer of TypeScript over a native engine (`barq-core`, a submodule
that is not in the repository). JavaScript runs on one thread. The engine works
on threads of its own and posts completions and notifications to the event loop
(`templates/node.ts`, `EventLoopDispatcher`), and other processes may have the
same file open.

| Component | State it keeps | Operations | Interacts with |
|---|---|---|---|
| Asynchronous open (`barq/ProgressBarqPromise.ts`, `PromiseHandle.ts`, `TimeoutPromise.ts`) | the promise, the native task, the timer, listeners, the set of live opens | `Barq.open`, `cancel`, `cancelAll`, `progress`, the timeout | the engine's task and session, the `Barq` constructor, subscriptions |
| Barq instance (`barq/Barq.ts`) | native Barq, class map, schema extras, update mode, listener sets | open, close, `create`, `delete`, lookups, `write`, transactions, events, vector indexes, initial subscriptions | everything |
| Subscriptions (`barq/sync/*SubscriptionSet.ts`, `barq/Results.ts`) | the version an instance points at, the name a `Results` was subscribed with | `update`, `waitForSynchronization`, `subscribe`, `unsubscribe`, `add`, `remove*` | the server, `TimeoutPromise` |
| Listeners (`barq/Listeners.ts`, `BarqListeners.ts`, `ObjectListeners.ts`, `Collection.ts`) | callbacks and the engine's tokens | `add`, `remove`, `removeAll`, `notify` | the engine's notifiers |
| SyncSession (`barq/sync/SyncSession.ts`) | listener registries shared by all sessions | progress and connection listeners, waits, error and client-reset handlers | the engine's session |
| Configurations (`barq/Configuration.ts`, `barq/sync/SyncConfiguration.ts`) | none | validation, conversion for the engine, the path of a Barq | the engine, the environment |
| User (`barq/sync/User.ts`) | listeners of one wrapper | token, route, log-out | the engine's user |
| Objects (`barq/Object.ts`, `barq/property-accessors/`) | none of their own | creation with update modes, property assignment, links, `toJSON` | class map, transactions |
| Collections (`barq/List.ts`, `Set.ts`, `Dictionary.ts`, `OrderedCollection.ts`, `collection-accessors/`) | none of their own | array-like operations, reads, iteration, nested mixed collections | transactions, listeners |
| Class and property maps (`barq/ClassMap.ts`, `PropertyMap.ts`, `PropertyHelpers.ts`) | classes by name and by table | rebuilt on schema changes, lookups | Barq instance |
| Schema (`barq/schema/`) | none | validation, normalization, to the engine and back | Barq instance, Babel plugin |
| Files (`Barq.deleteFile`, `copyBundledBarqFiles`, `clearTestState`, `barq/platform/`, `packages/barq/binding/*/platform.cpp`) | the default directory, the files | paths, removals, copies | the file systems of three platforms |
| Values (`barq/type-helpers/`, `barq/BSON/`, `barq/GeoSpatial.ts`, `binding/patch.ts`) | the counter of ObjectId | conversions, ids, decimals, extended JSON | the binding |
| Native binding and its generator (`packages/barq/binding/`, `templates/`) | buffers, injected functions, wrappers | calls both ways, conversions of every type on Node and React Native | engine, garbage collector |
| React provider (`react/BarqProvider.tsx`, `UserProvider.tsx`) | two states, three refs, three effects | mount, render, effects, unmount, opens that settle | `Barq.open`, `Barq.close` |
| React hooks (`react/useObject.tsx`, `useQuery.tsx`, `cachedObject.ts`, `cachedCollection.ts`) | cached proxies, refs, listeners | render, listener callbacks, tear-down | listeners |
| Babel plugin (`packages/babel-plugin/src/`) | none | the schema of a class from its TypeScript declaration | schema |

What is hard, and what makes each component correct:

* **Asynchronous open.** A completion, a timer, `cancel()`, the cancellation of
  another open of the same file and an exception in the constructor race to
  settle one promise. Correct: it settles once, in a way its configuration allows;
  nothing is left running afterwards; what it resolves with is synchronized; it
  does settle.
* **Subscriptions.** A call waits for the set it committed while its instance
  moves on to newer sets, and sets are superseded before the server answers.
  Correct: a call settles for its own set, no commit drops another's edits, and
  waiting follows the rules of `WaitForSync`.
* **BarqProvider.** Configuration changes, opens and unmounts race; effects see
  the values of the render they were made in, refs those of now. Correct: children
  never get a closed Barq in the end, the Barq is of the current configuration,
  and nothing is left open.
* **React hooks.** Data changes between a render and the registration of the
  listener; listeners are registered later than they are torn down. Correct: what
  a hook returns is what is there, through a reference newer than its last change.
* **Vector indexes.** A decision made on one version of the file is carried out
  on a later one. Correct: whoever has the file open finds its indexes, a failure
  changes nothing and releases the lock.
* **Sessions and users.** Objects of the engine die between two calls through a
  weak reference; a callback is registered with several sessions in one registry;
  a listener changes the set it is called from. Correct: nothing keeps a session
  alive after a call, what is registered can be removed, every listener is called.
* **Barq instance, listeners, transactions.** Listeners are added, removed and
  throw while a notification is dispatched; schemas change inside it; a `write()`
  callback ends the transaction, or nests another. Correct: each listener is called
  once in a round, classes follow the schema, a write happens as a whole or not.
* **Objects, collections.** An operation makes several changes and fails in the
  middle; boundary indices; loops over what they change. Correct: the operation
  ends as its one-step counterpart on arrays or objects says, and every way to read
  shows the same.
* **What crosses layers.** Models, values, configurations and class declarations
  go through several conversions, two of them written twice by hand for two
  platforms. Correct: what comes back is what was put in, and the two agree.
* **Native calls.** Buffers are shared by nested calls and the collector runs at
  any time. Correct: nothing is freed while C++ or an iterator uses it.
* **Files.** A Barq is several files, removed and copied one at a time. Correct:
  they go together, and no call touches the files of another Barq.

## 2. The modules and the code

Each module begins with what it models; what it says of code that is not in the
repository is marked *external* there. Modules that are composed only to be checked
together (`MCSync`, `MCHooks`, `MCData`, `MCValues`) have a variable `part` that says
which of them a behaviour looks at: parts that share no state of JavaScript gain
nothing from their product, and one run answers for all of them.

### AsyncOpen, PromisedOpen

`AsyncOpen` models `ProgressBarqPromise` for several opens of several files.
`handle` is `PromiseHandle.promise`, `task` the native task with the result it
has posted, `held` whether `this.task` still points at it, `timer` and
`timeoutPromise` the `TimeoutPromise`, `chain` how far the async function that
consumes the reference has come, and `jobs` the pending reactions
(`handle.promise.catch`, `inner.then(...).finally(...)`). The steps are those of
the event loop: a macrotask (a timer, a posted call) starts only if no microtask
is pending (`Quiet`), application code may run between microtasks. Actions and
code correspond one to one: `OpenImmediately` and `DownloadBeforeOpen` are the
two paths of the constructor, `DeliverReference` and `DeliverFailure` the two
callbacks of `task.start()`, `ReturnBarq` and `FailOpen` the two arguments of the
last `then`. `Progress` is `progress()`, which registers a callback whatever has become of the
promise; `notifiers` are the notifiers the engine has, `silenced` the opens whose
callbacks `cancel()` has cleared.

`PromisedOpen` says what a caller may rely on, without tasks, timers or jobs; the
property `KeepsPromise` is the refinement (`handle` is its `outcome`; the opens
that were cancelled, rejected or timed out are those whose download was given
up). A rejection as *canceled*, in particular, has a cause: some open of the same
file was given up before.

External, from how the code uses it: `task.cancel()` closes the sync session of
the path, so that other tasks of the path fail with "Sync session became
inactive" (comment at `ProgressBarqPromise.ts:134`), and the cancelled task
is silent or does the same; `getSynchronizedBarq` creates the file (comment at
`:96`); the server answers for the latest subscription set.

### Subscriptions

A committed set is a version (`content`, `state`); an instance of
`SubscriptionSet` points at one (`at`) and knows the state it had at its last
refresh (`known`). `update()` up to its `await` is one action, `Deliver` what
comes after it, and between them the instance may have moved on. The operations
of `MutableSubscriptionSet` are functions from sets to sets. External: a mutable
copy starts from the instance's set; erasing by query erases one subscription of
the query; the engine posts an answer to whoever waits for that version, and
completion also to whoever waits for an older one. Names are part of it throughout: a
`Results` keeps the name it was last subscribed with, also when the set it committed is
superseded or another query takes the name, and `Exists` goes by it.

### BarqProvider

`state` holds the states `barq` and `configVersion` with what is queued for them,
`shown` the props and states of the last commit, `ran` what the open effect saw
when it last ran, which is what its cleanup sees. `Render` renders and commits;
`Effects` runs the cleanup and the three effects of that commit, in order, in a
later task but before the next render or the unmount, as React does. `ClosedIn`
closes all open Barqs of one file, because Barqs of one path and thread share one
native Barq (`cache: true` in `Barq.transformConfig`; the README of the React
package says the same of `close()`).

### VectorIndexes

`Barq.reconcileVectorIndexes` in several processes that open one file: `ReadPass`
is the loop before `beginTransaction()`, then one action per call of the engine.
`Clashes`, `Fits` and `NeedsWrite` are the comparisons of the loop; a shape stands
for `dimensions`, `metric`, `encoding`, `m` and `efConstruction`, a breadth for
`efSearch`. External: transactions are isolated, one process at a time has the
write lock and loses it when it dies, and `addVectorIndex` creates an index,
updates the `efSearch` of one of the same shape and throws for any other (which
the comments at `Barq.ts:699` say).

### Users, SyncConfigs, SyncSessions (`MCSync`)

`Users`: wrappers of native users with their listeners. `emissions` is a stack,
since a listener that changes the user again starts an emission within the
emission; a JavaScript `Set` is walked in the order of insertion, what is removed
before its turn is not visited (`Shifted`) and what is added is.

`SyncConfigs` is the pure part of a sync configuration: what is refused, which
callbacks the engine gets for errors and client resets (`ErrorHandler` and its
neighbours), and the path of a Barq (`PathFor`), with the suffix that makes `a` and
`a.barq` one name (`WithSuffix`). `SyncSessions` has the weak
references: `strong` counts what `withDeref` holds, while `CloseSynced` and `Uploaded`
may take the last owner of a session between any two steps; `notifiers` are what the engine
keeps, `listeners` the two registries of the module `SyncSession.ts`, keyed by
callback alone. An error or a reset for which the engine was given no callback is a step,
too (`ErrorUnheard`, `ResetUnheard`): nobody hears of it, and `CallbacksReached` says for
which configurations that is right.

### ObjectHook, QueryHook (`MCHooks`)

`ObjectHook` is `useObject` with `createCachedObject`: the refs, the two effects,
the listener with its change set, `tearDown`, and a registration that is put off to
the end of a transaction. `QueryHook` is `useQuery` with `createCachedCollection`:
how it reads its arguments, its memos and refs, and a cache of objects by index or
key. In both, a render with its commit is one step and the effects a later one; the
objects may be created, changed and deleted at any step, and the notification of a
change arrives some time after it.

### Collections, Objects, CollectionReads, Reads, Serialization (`MCData`)

`Collections` has one action per method of `List`, `BarqSet` and `Dictionary` and
per assignment of such a property; a method that makes several calls of the engine
is written as the loop over those calls, and its result is compared with a
one-step reference: `Array.prototype.splice` and the other array methods, or the
value assigned. The code fills a mixed property by recursion over what it is given;
the model has an operator for each of two levels, a collection and a collection in it.
`Objects` does the same for `Barq.create` with its modes, defaults and one level of
nested objects (`FillBy` is `create()` for the object and for the one it links to), for
`delete` and `Results.update`. `CollectionReads` puts the
ways to read a collection side by side: the proxy, the array methods, the engine's
own search, and generators, which run a step at a time while `entries` changes.
`Reads` composes it with `Transactions`: `ReadsAreConsistent` is about both.
`Serialization` is `toJSON` with its cache on graphs with cycles.

### BarqInstance, ClassMaps, Transactions (`MCData`)

`BarqInstance` has the listener registries with the round of calls under way
(`rounds`, a stack: a schema change notifies inside a listener), each kind of
listener as the code dispatches it, and the classes, which `_updateSchema`,
migrations and `onSchemaChange` remake. `ClassMaps` goes into the maps: `maps` is
every map there has been, `wrappers` the objects the application still holds, and
the lookups are by name, by table key, by object and by class. `Transactions` is
`write()` with a stack of the calls under way; its callback may do everything
an application may, so that a `write()` may find the transaction gone, or another one
in its place.

### Configurations, Files, Schemas, BabelPlugin (`MCValues`)

`Configurations` is what is accepted and what the engine gets of it; `Files` the
path of a Barq, its removal with the files beside it, the copies and the clean-up,
on three platforms, one file at a time (`ProcessEnds` may cut any of them short). `Schemas`
is the way of a model from either notation through validation and
normalization to the engine and back. `BabelPlugin` stands before it: a class in
TypeScript, what the plugin writes of it, and what it normalizes to. The plugin follows
a type as deep as it goes; the model reads it four levels deep (a type, the member of a union, the element of
a collection, the member of that), below which no schema tells anything more: deeper types
are collections of collections, which the property leaves out.

### JsValues, NodeConversions, JsiConversions, TypeHelpers, BindingTypes, Decimals, ValueTypes, NativeCalls (`MCValues`)

`NodeConversions` and `JsiConversions` translate the C++ that the two templates
generate, type by type; the repository keeps them in step by hand, and
`ConversionsAgree` compares them. `TypeHelpers` composes the helper of a property,
the conversion of the platform and the engine, both ways. `BindingTypes` is what
`templates/wrapper.ts` declares of the same types for TypeScript, which the values that
come out must have (`TypesTellValues`). `Decimals` and
`ValueTypes` are `Decimal128`, `ObjectId`, `UUID`, extended JSON and the shapes of
geospatial queries. `NativeCalls` is about lifetimes: the stack of nested calls, the
string buffer they share, the wrappers that a call or an iterator must keep, and
callbacks that are posted from other threads.

### Assumptions on constants

Each module names its own (`OpenAssumption`, `SubscriptionsAssumption`,
`ProviderAssumption`, `VectorIndexesAssumption`, `TransactionsAssumption`, ...); they
only say what the values are, and TLC evaluates them in every run.

## 3. The runs

| Run | Properties | Shows | Bounds |
|---|---|---|---|
| `AsyncOpen` | `NothingLeaks`, `ResolvesSynchronized`, `SeededOnce`, `KeepsPromise` | no orphaned task, no leaked timer, no call of what `cancel()` has cleared, no unanswered subscriptions, one seeding, refinement of `PromisedOpen` | two opens of one file that is there or not, two configurations |
| `AsyncOpenSettles` | `Settles` | an open settles if the network answers, and by the event loop alone if it has a timeout that rejects | the same, with configurations that only the network ends |
| `AsyncOpenUnseeded` | `SeededWhenResolved` | a disagreement, see below | the smallest configuration that shows it |
| `Subscriptions` | `AwaitedIsAnswered`, `RejectedIsRefused`, `SettledIsKnown`, `EventuallySettles`, `EditsAreOwn` | calls settle for the set they committed, and settle at all; each commit is one edit, of the latest set or of the superseded one its caller still holds; `unsubscribe()` takes one subscription, of its query or of its name | two calls, two instances, two commits, two `Results` of two queries, named, unnamed and empty names, timeouts, exceptions, close |
| `SubscriptionsFirstTime` | `FirstTimeWaits` | a disagreement, see below | the smallest configuration that shows it |
| `BarqProvider` | `ChildrenGetTheirBarq`, `CalmIsInOrder`, `EventuallyShown` | no closed Barq for the children, an open Barq in the end; for a provider that is left alone until it settles also the right configuration, one open at a time, everything closed | two changes of the props among three configurations (another user, another file without sync) |
| `VectorIndexes` | `OpenIndexesAreDeclared`, `CommitsAreWhole`, `EventuallyOpens` | indexes fit, commits are whole, the lock is released, `efSearch` is adopted, every open ends | two processes, two properties, four schemas, two crashes |
| `Sync` | `EmissionReachesAll`, `SessionsReleased`, `CallbacksReached` | listeners that change the set they are called from; no strong reference outlives a call and no notifier its entry; each error and reset reaches the callback that its configuration means for it, and nobody where none is meant | one native user, one wrapper, two listeners, two emissions and changes; two sessions, one callback registered with both, two registrations, one posted notification; ten configurations, with every combination of callbacks, paths that become equal by the suffix, and three that are refused |
| `Hooks` | `HooksAreFresh`, `AwaitedIsShown`, `ListenersRemoved` | what a hook returns is what is there, through a newer reference; an object that is waited for is shown; no listener outlives its use | two keys, each born twice, two Barqs, one item, two tags, one call of each kind by the application |
| `Data` | `ListsActLikeArrays`, `AssignedReadsBack`, `CreatesAsTold`, `WalksReachAll`, `CalledOnce`, `ClassesFollowSchema`, `ReadsAreConsistent`, `JsonMirrorsGraph` | every call that makes several changes ends as its reference says or throws for a cause; listeners; classes; reads; transactions | lists of up to three elements, two of them assigned or in a mixed property, one in a collection inside it, two values, two keys, two ids, two models, two callbacks and four operations, two changes during a loop, two nested writes with five edits, two class maps of two models, graphs of three objects |
| `Values` | `SchemaIsKept`, `ValuesReadBack`, `ConversionsAgree`, `NotationsAgree`, `BorrowedIsKept`, `PluginKeepsTypes`, `AcceptedIsOpened`, `FilesGoTogether` | what goes through the layers arrives, and has its declared type; nothing that is borrowed is freed; the files of a Barq stay together | words of four bits, doubles exact to 4 and floats to 8 halves, decimals of two digits, call depth three, four calls on files on three platforms, four ids out of three counts |
| `UsersKeepApart` | `UsersKeepApart` | a disagreement, see below | two users and one relative path |

The bounds are small but let every hazard happen.

* Two opens of one path are enough for everything one open does to another, since
  opens interact only through the path's session, file and subscription set. An open
  may be cancelled once: a second `cancel()` finds nothing to do.
* Two commits and two instances let an instance move on while a call waits for its
  first set, let one supersede the other, and let a `Results` lose its name to another
  query.
* Two changes of the props suffice for every race in the provider: one while an open
  or a render is under way, and one after it.
* Two processes suffice for a stale read pass, and two crashes for one before and one
  after the other's commit.
* Two listeners let one remove the other before and after its turn; two emissions
  let one start inside the other. One callback and two sessions are the case in which
  the registries, which know callbacks only, could confuse sessions.
* Two births of a key let an object be replaced by one of the same key between a
  render and its effects.
* A list of three has a first, a middle and a last element, so that a splice, a move
  and a swap differ in each; start indices go one beyond either end. Where a call is
  compared with a reference every content within the bounds is an initial one.
* Graphs of three objects with two tables have the cycles, shared links and equal keys
  in two tables that the cache of `toJSON` must tell apart.
* Words of four bits have a sign, an overflow, and integers that a double of that
  precision cannot hold; nothing in the conversions depends on the width. Texts of
  decimals of two digits have rounding, leading and trailing zeros, and exponents on
  both sides of what can be shifted.
* Depth three lets a native call call back and be called again below it. Four file
  calls let a Barq be opened, its directory be changed, and it be removed and
  copied.

**Fairness.** `LoopFairness` (`AsyncOpen`) and the fairness of `Deliver`
(`Subscriptions`), of `React` and of `Settles` (`BarqProvider`) say that the event
loop goes on, which is true of a host that is alive. `NetworkFairness` and the
fairness of `Answers` say that a task that nobody cancelled completes or fails and
that the server answers; only the properties whose statement says so rely on it:
`NetworkSettles` has it as a hypothesis, while `TimeoutSettles` holds without it.
`VectorIndexes` assumes that a constructor runs on and gets the lock if it stays
free. Nothing is assumed of the application: it may never call anything. The other
modules state safety only and assume no fairness: their calls run to their end in
JavaScript's one thread, and what follows them is the application's or the engine's.
Deadlock is not checked because all these systems legitimately come to rest.

**Disagreements** between the code and what is said of it, each a run that TLC
finds violated:

* The second of two opens of a new file resolves before the initial subscriptions
  were applied (`AsyncOpenUnseeded`; `initialSubscriptions` is documented to have been
  applied by then).
* A `Results` that was subscribed under a name which another query has taken since
  subscribes with `FirstTime` to a query that nobody is subscribed to, and does not wait
  (`SubscriptionsFirstTime`): `subscribe()` asks whether its remembered name exists
  (`Results.ts:142`), while `MutableSubscriptionSet.ts:34` promises to wait the first time
  the subscription is created.
* Two users who open a synced Barq with the same relative path share one file
  (`UsersKeepApart`; `barq/Configuration.ts:55` says that the path is used together
  with the route and the user's id to avoid that).

**Also seen** with these models, without a run of their own. The definitions named here
are in the modules, and can be checked by adding them to a `.cfg`.

*Opening and sync.* An open with `openLocalBarq` never settles if the local file
cannot be opened (`ProgressBarqPromise.ts:222`; the comment at `:218` expects the
promise to be resolved), nor does one without a timeout whose constructor throws an
error with a `code` (`:132`). `Barq.shutdown()` cancels no open unless
`flags.ALLOW_CLEAR_TEST_STATE` is set (`:91`, against `Barq.ts:199`), and closes no Barq
for the same reason. A completion posted before `cancel()` still constructs a Barq that
nobody receives (`:118`). The notifier of an open is never unregistered: `cancel()` drops the task
(`:159`) before it asks it to (`:162`), and an open that settles by itself does not ask; the
callbacks of the latter stay, and are called if the engine still has progress to tell, as is
one that `progress()` adds after `cancel()`. Options without a behavior never wait, although
`FirstTime` is documented as the default (`Results.ts:139`, `MutableSubscriptionSet.ts:69`);
`unsubscribe()` under a name that another query has taken removes that
query's subscription (`:169`), which `EditsAreOwn` allows as the code's meaning of a name.
A configuration with a path of its own is not found by its partition
(`SyncConfiguration.ts:339`, against the comment at `:328` that the two always agree);
characters that are unsafe in a path become underscores, so that two users or
partitions may share a path (`:343`). A configuration with `onFallback` and without
`onAfter` hears of no reset (`:456`, against `:111`; `FallbackDropped`). `cancelWaitsOnNonFatalError` is validated under a
misspelled name (`:505`); `onFirstOpen`, `excludeFromIcloudBackup` and `proxyConfig` are
not validated. `EveryWrapperHears` fails: listeners of another wrapper of a user are not
called (`User.ts:115`, against `:239`).

*React.* A provider ignores props that change while it opens, or after an open has
failed (`ConfigApplied`, `BarqProvider.tsx:153`); two quick changes open two
Barqs of which one stays open (`:151`); one that unmounts while it opens leaves the
Barq open (`ClosedOnUnmount`, `:185`). `ExistingIsShown` fails: an object that is created
after `useObject` looked may not be shown (`useObject.tsx:168`). `QueryIsOfBarq` fails:
a query with unchanged dependencies keeps the results of an earlier Barq
(`useQuery.tsx:137`, against `:119`). A listener put off until the end of a transaction
outlives `tearDown` (`cachedObject.ts:149`).

*Barq, listeners, classes.* A listener that an earlier one in the same round of a Barq
has removed is still called, and one that throws ends the round; removing listeners of a
closed Barq throws; a listener added through one wrapper of an object cannot be removed
through another. `DefaultsAsDeclared` fails: defaults of properties added by
`_updateSchema` are not applied (`Barq.ts:1287`). A wrapper made before a schema change
keeps its old class, without accessors for new properties; a generated class kept from an
earlier map is refused by `barq.objects()` and `create()`. A `write()` callback that
commits or cancels itself makes `write()`'s own `commit` or `cancel` throw, which
hides the original error (`meddled` in `Transactions`).

*Objects and collections.* A default that creates objects of the same class loses the
update mode of the call (`ModeIsLost`); deleting an array with duplicates throws halfway;
an object of another Barq is copied as a plain one where a link is expected. `lastIndexOf`
without a second argument passes `undefined` on and searches the first element only
(`FoundFromTheEnd`, `OrderedCollection.ts:421`), `reduce` without an initial value does
the like; `splice` with a negative start beyond the length throws, and a negative
delete count is not clamped. Assigning a mixed value, a dictionary or a set to itself
empties it; a list takes a snapshot first (`SelfAssignmentKeeps`). `indexOf(undefined)`
finds `null`; `list["-1"]` has a descriptor but no value; dictionary keys that are names
of methods read as the methods, in `toJSON` too; `toJSON` leaves collections nested in
mixed collections unconverted.

*Values.* On JavaScriptCore 64-bit integers read back as their low half
(`LongsReadBack`), dates after 2038 lose their upper half, and fractions are truncated
where Node and Hermes throw. `DatesReadBack` fails (`binding/patch.ts:83`), `ObjectId`'s
`getTimestamp()` is negative after 2038 (`LateTimesReadBack`), and a `BigInt` beyond 2^53
reads back as a rounded Number. A structure that is returned declares its function fields,
which never come out (`wrapper.ts:129`), and milliseconds are declared `Int64` but are
Numbers on Node. Extended JSON turns a plain object with one key such as
`$oid` into the typed value, or throws. A lone `"."` is a decimal zero.

*Schemas.* `PrimaryPropertyIsMarked` (`to-binding.ts:72`) and `TemplateFillsRequired`
(`Barq.ts:319`) fail; a `counter` primary key is accepted in shorthand and rejected as
an object; `assert.boolean` in `deriveTableType` never rejects a model that is embedded and
asymmetric; `"int??"` is taken for a class. The plugin makes `list?: Barq.List<string>` a
list of optional elements, drops `string | null`, arrays and untyped fields with a
warning, cannot infer `-1`, and does not know `Types.Counter`.

*Files and bindings.* React Native's helpers look at the last extension only, so that
`clearTestState` leaves lock, note and management files; Node's is not recursive and
leaves synced Barqs. An interrupted `copyBundledBarqFiles` leaves a truncated file that
is never overwritten (`platform.cpp:86`). `Barq.defaultPath` is made when the class is
loaded. `barq_jsi_close_sync_sessions` is empty despite its comment; methods
of the JSI binding have no check for a reset pointer, which those of Node have.

## 4. The proofs

TLAPS proves the following for every number of opens, files, calls, instances, processes,
properties, schemas, configurations, listeners, objects and rows, from the assumptions on
the constants alone. Eight modules hold the proofs. Where the code loops, the model has a
recursive function or a fold, and nothing can be proved of those by the induction
theorems of the library, which take an operator as a parameter; the proofs instead take the
least step of the loop at which the claim fails, in a set of natural numbers
(`EveryStep`, `LoopRuns`, and `GuardedLoop` for loops that may throw).

**AsyncOpenProofs.** `TypeCorrect`, `NoOrphan`, `NoLeak`, `NoLeaks`, `Synchronized`,
`Seeded`, `NoLate`, `Shutdown` and `Refinement`. The inductive invariant `IInv` adds to
the types `Stages` (how handle, task, chain and `TimeoutPromise` fit together),
`TaskWatched` and `TimerWatched` (a settled open whose task or timer is alive still has the
job pending that will end it), `ListenersInv` and `SubscriptionsInv` (whoever waits has
seen a version, and once it stops waiting that version is answered). `SettleFacts` and
`CancelTasksFacts` say what the two shared operations do; `NextIInv` goes through the
actions one by one. For the refinement `IInv` is not enough: a download may fail as
*inactive* long after the cancellation that caused it, so `Reasons` keeps, for each
result that is still on its way, the sibling that was given up; every step then maps
to one of `PromisedOpen` or to none.

**SubscriptionsProofs.** `TypeCorrect`, `Awaited`, `Rejected` and `Known`. The
instance a call was made on may have moved to a newer set when the answer arrives,
so nothing about the instance helps; the argument follows the version the call waits
for. A version that has an answer never gets another (`AnswersStay`: a commit touches
only the next version, the server only a pending one), so what was posted to a call
is still true when it is delivered (`Posted`); and no call waits for, and no instance
points at, a version still to be committed (`Committed`), so a commit leaves every
settled call as it was. `CommitStep` is shared by the actions that commit.

`EditsAreComposed` and `EditsOwn` are about what is committed, for any names, options and
instances. An instance that is not superseded points at the latest set (`CurrentInv`), so
that what it commits is one edit of what was committed before it; a superseded one edits
what it was left with, as the property says. That `unsubscribe()` removes one
subscription by its name and no more needs that no two of a set have one name (`UniqueNames`,
which `Add` keeps by replacing: `NamesInv`). `FirstTimeWaits` is not
a theorem: the run `SubscriptionsFirstTime` refutes it.

**BarqProviderProofs.** `TypeCorrect`, `ChildrenServed` and `CalmOrdered`. Barqs are closed
in two places only, the cleanup of the effect, which empties the state in the same step,
and the unmount; what is queued for a state was opened and has not been closed since. For
`CalmOrdered` that is not enough: that a calm provider never has two Barqs open depends on
where it is in its cycle of renders and effects. `CalmInv` lists the stages
of that cycle, by what was rendered and which effect runs next (`Presented`, `Noticed`,
`Rerunning`, `Reopening`, ...), and `CalmStep` shows that each action leads from one to
the next or leaves calm.

**HooksProofs.** `ReturnedIsFresh`, `AwaitedShows` and `NoListenerLeft`. The two hooks share
no variable (`EachHook`); each has its invariant. What makes freshness inductive is an
account of where a change is between the write and the render that shows it: still to be
told by the engine, which needs a listener (`Listening`, `NewsTold`), or known to a ref,
which needs a render that is queued (`Renewal`, `ReadFresh`). An effect runs after the
render that made its successor, so that for a moment two cached objects are listened to
(`Held`, `OneListener`); `ListenersRemoved` is what is left of this when the component is
gone. `Identity` (a key that is created again is another object) and `Watched` carry
`AwaitedShows`; `Memoized` says of which query the collection in use is. The cached
objects that are to get their listener after the transaction (`late`) are
excepted, in the properties as in the invariant.

**BarqProofs.** `WritesAreWhole` (`NoHalfWrites`, a part of the run's
`ReadsAreConsistent`). A callback may cancel the transaction of its `write()`, begin
another and write in it, so that "the state is what it was when the call began" is not
inductive; the invariant adds that the `write()` whose transaction is still its own is
the innermost one (`OwnIsInnermost`).

`EachCalledOnce`. Listeners may add and remove listeners and cause notifications inside the
one that calls them. For each notification under way `InOrder` keeps that what was called
and what is to be called are disjoint, without repetition, of those it began with, and
contain all that have stayed; lists without repetition stay so because a callback
is added only if it is not in the list, and the lemmas about `RemoveFirst` carry this
through a removal.

`ClassesFollow`. `ClassesIInv` says that the class map is the one that would be made of the
engine's schema now, `MapsIInv` that the last map was made of the last schema. That
lookups by name, by object, by class and by the key of the table agree then needs that a name
stands for one model, as in every schema of the engine (`BarqSchemas`), and a key for one
table, as `ClassMapsAssumption` says.

`ReadsAgreeAlways` is `ReadsAreConsistent` of `Reads`. That the array methods, the
proxy and the engine's search agree is one loop per method, each with what it has found
after `n` elements. For the generators `WalksIInv` keeps that what a loop goes by, its
collection and its length, is what was there when it began. A sort picks an order, and
the ways to ask for one must agree on it, the descending being the ascending turned
around: two orders of the same elements agree by counting (`OneAscent`), and that there
is one is shown by giving each element its rank (`AnAscent`). The
lookups of an object by primary key and by row agree because no two rows of a table have
one key (`RowsApart`), which `create` keeps by looking first.

`WalksReachAllAlways` and `CreatesAsToldAlways` compare one call with its reference. They
are proved of a call on any objects, whichever calls came before, so the invariant is
short (`ObjectsIInv` adds that a first call is made on typed objects) and the work is in
the lemmas: what each step of `create()` keeps of the other objects and makes of its
own, which property throws first, and for `delete` and `update` what the loop has
done after `n` of the objects it was given. `ObjectsAssumption` says that the ids are
finite and that what stands for an absent, an unfit or a deleted value is none of the others.

**CollectionsProofs.** `ListsActLikeArraysAlways` and `AssignedReadsBackAlways`, again of
one call on any content; `CollectionsIInv` adds only that a first call is made on
a content that its property can hold. A splice of the code removes from the back
and inserts one by one, and may throw between any two; `RemovedUpTo` and `InsertedUpTo` say
what is there after each of those calls, and `GuardedLoop` that a loop whose every step
keeps such a statement has a last step. The splice of an array is then the same because a sequence is known by its three
pieces, before, between and after (`Pieces`, `ArraySpliceIs`). Assignments to
dictionaries and sets go by `SetUpTo` and `AddedUpTo`; `LeafKeeps`, `NestedKeeps` and
`ElementKeeps` say, level by level, that a slot of a mixed property keeps what it was
given, or that the call threw because something in it cannot be stored.
`CollectionsAssumption` and `NestedAssumption` tell elements, the value that cannot
be converted, and collections apart; how long the collections are is left open, how deep
they nest is two levels.

**ValuesProofs.** `BorrowedKept`. All nested native calls put their strings into one
buffer, and a call that returns cuts it back to where it found it. That no call cuts off
another's strings needs two things that `BorrowedIsKept` does not say: that native and
JavaScript calls alternate on the stack (`Alternating`), and that the strings of one call
begin where those of the native call before it end (`Segments`).

`GoTogether`. Each call on files is compared with the disk before it, which needs of the
state only that every file is that of a Barq or one beside it (`FilesOfBarqs`): a removal
that goes by the names of files then takes no other Barq's. `FilesAssumption` says that
directories are sequences of names and that there are three platforms.

`AcceptedOpens` and `Kept` are about functions of what the application hands in, and
what was handed in does not change; they are proved of each configuration and each
declaration, whatever their fields hold. `Kept` goes by the canonical form: a declaration that
normalizes has a type, flags and a rest that fit each other (`IsCanonical`); of such a
form the way to the engine and back is the identity (`CanonicalAgain` says that it
normalizes to itself once more); and a shorthand of a name, a question mark and a
suffix fails exactly when the object notation that spells it out does (`SpelledOut`). Both
assume only that the constants are told apart: that no class is called like a primitive or a mark,
and that what stands for an absent or a mistyped value is none of the others.
`SchemasAssumption` also says what a declaration is: in the shorthand, any sequence of
names and marks; in the object notation, a record of the fields of `PropertyObjects` or
one that validation refuses.

`PluginKeeps` is about classes in TypeScript, which do not change either. What one level of a
type says follows from what the level in it says (`LeafType`, `MaybeType`), and so what
an annotation or an initializer tells is what its property takes (`AnnotationIsTold`,
`InitializerIsTold`); that is in a form that normalization accepts (`ShapedIsAllowed`),
and the decorators and static fields arrive with it (`DecoratorsTold`). `PluginAssumption`
says what a declaration is: types that TypeScript takes, in which a bare name is a class
of the application, a global or imported from the package; of the decorators the
arguments they are documented with; at most one name to map to. What no schema can tell
(`Untold`: collections of collections, or without a type) is left out.

Of vector indexes, with `VectorIndexes`: `TypeCorrect`, `OpenFits`, `OpenAsDeclared`, `LockHeld` and
`WholeCommits`. A read pass is out of date when its transaction begins; the argument is
that the shape of an index in the file never changes (`Monotone`), so what the read pass
found fitting still fits (`Decided`), and what it left to write is written in the
declared shape or fails the transaction (`Written`).

**SyncProofs.** `EveryListenerHears`, of users. A walk goes on by position while listeners before and
after that position come and go, and other walks of the same list begin and end inside
it. What is kept is that whoever stands before the position has been called *by that
emission* (`CalledBefore`, with `HeardBy`), and that no position is further than the end
of its list (`NotBeyond`), so that what is appended is still to come.

`Released`, of sessions. The references to a session are counted
(`ReferencesCounted`): one for the call that is under way, one for each of its errors in
the event loop, whatever the threads of the engine do meanwhile. That a callback can be
removed follows from the registries: a session that lives and has a notifier keeps the
entry of that registration, since `add` refuses a callback that has an entry, no matter
with which session.

`Reached`. Which callback hears of an error is decided when the session is made and acted on
when the engine's event is delivered, with any calls between. `CallbacksIInv` keeps that
a session still has the configuration it was made with and that this was validated
(`Chosen`), that somebody is to be told in manual mode (`NoHandler`), and that a reset waits to be
told only where a callback was given to the engine for it (`Announcements`). What the handlers
made of `onError`, `onManual`, `onAfter` and `onFallback` then tell is compared with what
the configuration means for every combination (`HandlerTells`, `ResetTells`); the one that
is dropped, `onFallback` without `onAfter`, is named in the property.

**Only model-checked.** Liveness (`Settles`, `EventuallySettles`, `EventuallyShown`,
`EventuallyOpens`) and what needs `ENABLED` are out of the prover's reach. So are
modules that declare a `RECURSIVE` operator or extend one that does (`Serialization`,
`NodeConversions`, `JsiConversions`, `TypeHelpers`, `BindingTypes`, `Decimals`,
`ValueTypes` and the MC modules above them): `JsonMirrorsGraph`, `ValuesReadBack`,
`ConversionsAgree` and `NotationsAgree` compare what they compute with its reference for
every value within the bounds. They follow values, graphs and types as deep as these go,
which takes an induction over data.

## 5. Not modelled

* **The native engine.** Its source is not in the repository. Every module marks as
  external what it takes from how the code uses it.
* **Common, tools, reporter, fetch.** Environment helpers, command-line tools, and a
  wrapper of the host's `fetch` that has no logic of its own.
* **The rest of React.** Renders that React discards and StrictMode's double effects, the
  fallbacks of `UserProvider`, `useBarq`, `useProgress`, `keyPaths`, and providers that are
  given a Barq. `barqRef` keeps a closed Barq after an unmount (`BarqProvider.tsx:162`);
  only a parent that still reads the ref of a child that is gone sees it.
* **React Native's reload.** Whether `barq_jsi_invalidate_caches` and the scheduler of the old
  runtime go before the new module comes depends on the order in which the host destroys
  and makes its modules, which nothing in the repository states.
* **Sync.** The waits for uploads and downloads, which pass a promise of the engine on with
  a timeout; the process-wide settings; dates and ids of subscriptions. The error
  message that `SubscriptionSet.ts:62` reads from the set it is about to leave is one of
  wording.
* **Barq instance.** `compact` and `writeCopyTo`. A constructor that throws after `getSharedBarq` (`Barq.ts:655`) leaves the
  native Barq open until its wrapper is collected; nothing in JavaScript observes it.
  Native migration objects are reset by `$resetSharedPtr` when the callback returns; the
  effect of the reset on a call is in `NativeCalls`.
* **Objects and collections.** Embedded objects inside collections, the increments of
  a `Counter`, and the construction of queries by `filtered()` and `knn()`, which hand
  strings and arguments to the engine's parser.
* **Platform.** Detection of the environment, logger settings, `logger.hpp`
  (which nothing includes), and the wording of errors.

## 6. What could be added

Proofs that the conversions agree for words of every width, from a model of them that bounds
how deep values nest, as `Collections` does. In the models: embedded objects in collections,
the waits of a session with the errors they share with its listeners, and renders that React
starts and discards.
