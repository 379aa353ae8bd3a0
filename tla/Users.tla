------------------------------- MODULE Users -------------------------------
(***************************************************************************)
(* sync/User.ts: token users and the change listeners of their wrappers.   *)
(*                                                                         *)
(* A User object wraps a native user.  User.get makes a new wrapper every  *)
(* time, each with a set of listeners of its own; the calls that change    *)
(* the native user fire the listeners of the wrapper they are made on.     *)
(* The listeners run inside the call, and may add and remove listeners,    *)
(* throw, or change the user again, which starts an emission within the    *)
(* emission.  A JavaScript Set is walked in the order of insertion: what   *)
(* is removed before its turn is not visited, what is added is.            *)
(***************************************************************************)
EXTENDS Naturals, Sequences

CONSTANTS
  NativeUsers,     \* the users barq-core knows
  Wrappers,        \* the User objects
  UserListeners,   \* the callbacks the application adds
  MaxEmissions,    \* bound on the emissions within one another
  MaxUserChanges   \* bound on the calls that change a user

VARIABLES
  internal,        \* the native user of each wrapper that exists
  userState,       \* "LoggedIn" or "LoggedOut", of each native user
  changeListeners, \* the listeners of each wrapper, in the order of insertion
  emissions,       \* the emissions under way, the innermost first
  heard,           \* the listeners of the innermost emission called so far
  userChanges      \* how many changes were made

userVars == <<internal, userState, changeListeners, emissions, heard, userChanges>>

In(l, list) == \E i \in 1..Len(list) : list[i] = l

UserInit ==
  /\ internal = [w \in {} |-> w]
  /\ userState = [n \in NativeUsers |-> "LoggedIn"]
  /\ changeListeners = [w \in Wrappers |-> <<>>]
  /\ emissions = <<>>
  /\ heard = {}
  /\ userChanges = 0

Exists(w) == w \in DOMAIN internal

\* User.fromToken, or User.get of the user of a session: a new wrapper, without listeners.
GetUser(w, n) ==
  /\ ~Exists(w)
  /\ internal' = [x \in DOMAIN internal \cup {w} |-> IF x = w THEN n ELSE internal[x]]
  /\ UNCHANGED <<userState, changeListeners, emissions, heard, userChanges>>

AddUserListener(w, l) ==
  /\ Exists(w)
  /\ changeListeners' = [changeListeners EXCEPT ![w] = IF In(l, @) THEN @ ELSE Append(@, l)]
  /\ UNCHANGED <<internal, userState, emissions, heard, userChanges>>

Position(l, list) == CHOOSE i \in 1..Len(list) : list[i] = l
Without(list, i) == SubSeq(list, 1, i - 1) \o SubSeq(list, i + 1, Len(list))

\* Mutated Shifted: the listeners are an array, walked by index.
NotShifted(w, i) == emissions

\* The emissions as they go on after the i-th listener of w is gone.
Shifted(w, i) ==
  [k \in 1..Len(emissions) |->
    IF emissions[k].on = w /\ i < emissions[k].next
    THEN [emissions[k] EXCEPT !.next = @ - 1] ELSE emissions[k]]

RemoveUserListener(w, l) ==
  /\ Exists(w)
  /\ In(l, changeListeners[w])
  /\ LET i == Position(l, changeListeners[w]) IN
       /\ changeListeners' = [changeListeners EXCEPT ![w] = Without(@, i)]
       /\ emissions' = Shifted(w, i)
  /\ UNCHANGED <<internal, userState, heard, userChanges>>

RemoveAllUserListeners(w) ==
  /\ Exists(w)
  /\ changeListeners' = [changeListeners EXCEPT ![w] = <<>>]
  /\ emissions' = [k \in 1..Len(emissions) |->
       IF emissions[k].on = w THEN [emissions[k] EXCEPT !.next = 1] ELSE emissions[k]]
  /\ UNCHANGED <<internal, userState, heard, userChanges>>

\* setRoute, setAccessToken, markAccessTokenRefreshRequired and logOut: the
\* native user changes, then the listeners of this wrapper are walked.
\* setAccessToken makes a user that is logged out usable again.
ChangeUser(w, state) ==
  /\ Exists(w)
  /\ userChanges < MaxUserChanges /\ Len(emissions) < MaxEmissions
  /\ userState' = [userState EXCEPT ![internal[w]] = state]
  /\ emissions' = <<[on |-> w, next |-> 1, from |-> changeListeners, outer |-> heard]>> \o emissions
  /\ heard' = {}
  /\ userChanges' = userChanges + 1
  /\ UNCHANGED <<internal, changeListeners>>

\* emitChange calls the next listener.
CallUserListener ==
  /\ emissions # <<>>
  /\ LET e == Head(emissions) IN
       /\ e.next <= Len(changeListeners[e.on])
       /\ heard' = heard \cup {changeListeners[e.on][e.next]}
       /\ emissions' = <<[e EXCEPT !.next = @ + 1]>> \o Tail(emissions)
  /\ UNCHANGED <<internal, userState, changeListeners, userChanges>>

\* The loop of emitChange ends.
EndEmission ==
  /\ emissions # <<>>
  /\ Head(emissions).next > Len(changeListeners[Head(emissions).on])
  /\ heard' = Head(emissions).outer
  /\ emissions' = Tail(emissions)
  /\ UNCHANGED <<internal, userState, changeListeners, userChanges>>

\* The listener that runs throws: the walk that called it is abandoned.  The listener
\* around that, if there is one, catches the exception or throws it on.
UserListenerThrows ==
  /\ emissions # <<>> /\ Head(emissions).next > 1
  /\ heard' = Head(emissions).outer
  /\ emissions' = Tail(emissions)
  /\ UNCHANGED <<internal, userState, changeListeners, userChanges>>

UserNext ==
  \/ \E w \in Wrappers, n \in NativeUsers : GetUser(w, n)
  \/ \E w \in Wrappers, l \in UserListeners : AddUserListener(w, l)
  \/ \E w \in Wrappers, l \in UserListeners : RemoveUserListener(w, l)
  \/ \E w \in Wrappers : RemoveAllUserListeners(w)
  \/ \E w \in Wrappers : ChangeUser(w, "LoggedIn")
  \/ \E w \in Wrappers : ChangeUser(w, "LoggedOut")
  \/ CallUserListener
  \/ EndEmission
  \/ UserListenerThrows

UserSpec == UserInit /\ [][UserNext]_userVars

-----------------------------------------------------------------------------
\* The users are well-formed (User.ts): a wrapper's set holds a listener once.
UsersTypeOK ==
  /\ DOMAIN internal \subseteq Wrappers
  /\ \A w \in Wrappers : \A i, j \in 1..Len(changeListeners[w]) :
       changeListeners[w][i] = changeListeners[w][j] => i = j
  /\ userChanges \in 0..MaxUserChanges

\* The loop of the innermost emission has come to its end.
WalkedThrough ==
  emissions # <<>> /\ Head(emissions).next > Len(changeListeners[Head(emissions).on])

\* A listener that was there when the change was made, and is there when the walk ends,
\* has been called for it, whatever the listeners before it added, removed or changed
\* (emitChange, User.ts:263).
EmissionReachesAll ==
  WalkedThrough => LET e == Head(emissions) IN
    \A l \in UserListeners :
      In(l, e.from[e.on]) /\ In(l, changeListeners[e.on]) => l \in heard

\* So has a listener that another wrapper of the same user had and has (the documentation
\* of User.addListener, User.ts:239, speaks of the user, not of the object).
EveryWrapperHears ==
  WalkedThrough => LET e == Head(emissions) IN
    \A w \in DOMAIN internal, l \in UserListeners :
      internal[w] = internal[e.on] /\ In(l, e.from[w]) /\ In(l, changeListeners[w]) => l \in heard
=============================================================================
