---------------------------- MODULE NativeCalls -----------------------------
(***************************************************************************)
(* Calls between JavaScript and C++ through the generated binding: what    *)
(* C++ borrows from JavaScript for the time of a call, and what            *)
(* JavaScript borrows from C++.                                            *)
(*                                                                         *)
(* Calls nest: a native function may call a JavaScript function that it    *)
(* was given, which may call a native function.  A callback that C++ makes *)
(* from another thread is posted to the event loop and runs when nothing   *)
(* else does.  A string that was converted for a call is kept in a buffer  *)
(* that all calls share.  A wrapper owns a C++ object, which dies with it: *)
(* when JavaScript has forgotten it the collector may take it at any time, *)
(* unless a call or an iterator has a hold on it.                          *)
(***************************************************************************)
EXTENDS Naturals, Sequences

CONSTANTS
  Wrappers,     \* of C++ objects
  MaxDepth,     \* of calls within calls
  MaxStrings,   \* that one call converts
  MaxPosted     \* callbacks waiting in the event loop

ASSUME CallBounds == MaxDepth \in Nat /\ MaxStrings \in Nat /\ MaxPosted \in Nat

VARIABLES
  injected,     \* the native module has been injected into the binding
  owned,        \* the C++ object of a wrapper: "absent", "live", "reset" or "freed"
  held,         \* the wrappers that JavaScript can reach
  iterators,    \* the wrappers that an iterator keeps alive
  stack,        \* the calls that run: [native, self, kept, converted]
  strings,      \* m_string_bufs: of each string, the depth of its call
  posted        \* callbacks in the event loop

callVars == <<injected, owned, held, iterators, stack, strings, posted>>

CallsInit ==
  /\ injected = FALSE
  /\ owned = [w \in Wrappers |-> "absent"]
  /\ held = {} /\ iterators = {}
  /\ stack = <<>> /\ strings = <<>>
  /\ posted = 0

Depth == Len(stack)
Top == stack[Depth]
RunsNative == Depth > 0 /\ Top.native
RunsJs == ~RunsNative
InUse(w) == \E i \in DOMAIN stack : stack[i].native /\ stack[i].self = w

Copies(n, depth) == [i \in 1..n |-> depth]

(* Classes are not there before the native module is injected.             *)
Inject ==
  /\ ~injected
  /\ injected' = TRUE
  /\ UNCHANGED <<owned, held, iterators, stack, strings, posted>>

(* C++ returns an object: it moves into a new wrapper.                     *)
Wrap(w) ==
  /\ injected /\ owned[w] = "absent"
  /\ owned' = [owned EXCEPT ![w] = "live"]
  /\ held' = held \cup {w}
  /\ UNCHANGED <<injected, iterators, stack, strings, posted>>

(* A method: it takes the object out of its wrapper, rejects one whose     *)
(* pointer has been reset, and converts its arguments.                     *)
Enter(w, n) ==
  /\ injected /\ RunsJs /\ Depth < MaxDepth
  /\ w \in held /\ owned[w] = "live"
  /\ stack' = Append(stack, [native |-> TRUE, self |-> w, kept |-> Len(strings), converted |-> n])
  /\ strings' = strings \o Copies(n, Depth + 1)
  /\ UNCHANGED <<injected, owned, held, iterators, posted>>

(* It returns or throws: the buffer is as long again as it was.            *)
Leave ==
  /\ RunsNative
  /\ stack' = SubSeq(stack, 1, Depth - 1)
  /\ strings' = SubSeq(strings, 1, Top.kept)
  /\ UNCHANGED <<injected, owned, held, iterators, posted>>

Callback == [native |-> FALSE, self |-> "none", kept |-> 0, converted |-> 0]

(* C++ calls a JavaScript function, in the thread that gave it.            *)
CallBack ==
  /\ RunsNative /\ Depth < MaxDepth
  /\ stack' = Append(stack, Callback)
  /\ UNCHANGED <<injected, owned, held, iterators, strings, posted>>

(* What the function returns is converted for the call that called it.     *)
CallBackReturns(n) ==
  /\ Depth > 1 /\ RunsJs /\ stack[Depth - 1].converted + n <= MaxStrings
  /\ stack' = [SubSeq(stack, 1, Depth - 1) EXCEPT ![Depth - 1].converted = @ + n]
  /\ strings' = strings \o Copies(n, Depth - 1)
  /\ UNCHANGED <<injected, owned, held, iterators, posted>>

(* Another thread has something to tell, and does not wait.                *)
Post ==
  /\ injected /\ posted < MaxPosted
  /\ posted' = posted + 1
  /\ UNCHANGED <<injected, owned, held, iterators, stack, strings>>

Dispatch ==
  /\ stack = <<>> /\ posted > 0
  /\ posted' = posted - 1
  /\ stack' = <<Callback>>
  /\ UNCHANGED <<injected, owned, held, iterators, strings>>

Dispatched ==
  /\ Depth = 1 /\ RunsJs
  /\ stack' = <<>>
  /\ UNCHANGED <<injected, owned, held, iterators, strings, posted>>

(* [Symbol.iterator](): the iterator keeps the wrapper's external.         *)
Iterate(w) ==
  /\ RunsJs /\ w \in held /\ owned[w] = "live"
  /\ iterators' = iterators \cup {w}
  /\ UNCHANGED <<injected, owned, held, stack, strings, posted>>

ForgetIterator(w) ==
  /\ RunsJs /\ w \in iterators
  /\ iterators' = iterators \ {w}
  /\ UNCHANGED <<injected, owned, held, stack, strings, posted>>

(* $resetSharedPtr(), which weaken() and withDeref() call when they are    *)
(* done with a session: calls on it have returned by then.                 *)
ResetSharedPtr(w) ==
  /\ RunsJs /\ w \in held /\ owned[w] = "live" /\ ~InUse(w) /\ w \notin iterators
  /\ owned' = [owned EXCEPT ![w] = "reset"]
  /\ UNCHANGED <<injected, held, iterators, stack, strings, posted>>

Forget(w) ==
  /\ RunsJs /\ w \in held
  /\ held' = held \ {w}
  /\ UNCHANGED <<injected, owned, iterators, stack, strings, posted>>

\* Mutated Reachable: the iterator does not keep its container.
ReachableFromJs(w) == w \in held \/ InUse(w)

(* The arguments of a call, its object among them, are reachable.          *)
Reachable(w) == w \in held \/ w \in iterators \/ InUse(w)

(* The finalizer deletes the C++ object.                                   *)
Collect(w) ==
  /\ owned[w] \in {"live", "reset"} /\ ~Reachable(w)
  /\ owned' = [owned EXCEPT ![w] = "freed"]
  /\ UNCHANGED <<injected, held, iterators, stack, strings, posted>>

CallsNext ==
  \/ Inject \/ Leave \/ CallBack \/ Post \/ Dispatch \/ Dispatched
  \/ \E n \in 0..MaxStrings : CallBackReturns(n)
  \/ \E w \in Wrappers :
       \/ \E n \in 0..MaxStrings : Enter(w, n)
       \/ Wrap(w) \/ Iterate(w) \/ ForgetIterator(w) \/ ResetSharedPtr(w) \/ Forget(w) \/ Collect(w)

CallsSpec == CallsInit /\ [][CallsNext]_callVars
-----------------------------------------------------------------------------
(* What is borrowed outlives the borrowing: while a native function runs,  *)
(* its object lives and every string that was converted for it is where it *)
(* was, whatever the JavaScript functions it calls do and the collector    *)
(* takes; the container of an iterator lives while there is the iterator;  *)
(* and the strings of calls that have returned are gone.                   *)
BorrowedIsKept ==
  /\ \A i \in DOMAIN stack : stack[i].native =>
       /\ owned[stack[i].self] = "live"
       /\ \A n \in 1..stack[i].converted :
            stack[i].kept + n \in DOMAIN strings /\ strings[stack[i].kept + n] = i
  /\ \A w \in iterators : owned[w] = "live"
  /\ \A p \in DOMAIN strings : strings[p] \in DOMAIN stack /\ stack[strings[p]].native
=============================================================================
