-------------------------- MODULE MCSubscriptions --------------------------
(***************************************************************************)
(* Small instances of Subscriptions.                                       *)
(***************************************************************************)
EXTENDS Subscriptions, TLC

CONSTANTS r1, r2, q1, q2, person, c1, c2, n1

\* Two queries of one class.
MCQueryOf == (r1 :> q1) @@ (r2 :> q2)
MCClassOf == (q1 :> person) @@ (q2 :> person)

Opt(name, behavior, throwOnUpdate, timeout) ==
  [name |-> name, behavior |-> behavior, throwOnUpdate |-> throwOnUpdate,
   timeout |-> timeout]

MixedOptions ==
  {Opt(NoName, "first", FALSE, FALSE), Opt(n1, "always", TRUE, TRUE),
   Opt(EmptyName, "never", FALSE, FALSE)}

\* Subscribing for the first time, under a name and without one.
FirstOptions == {Opt(NoName, "first", FALSE, FALSE), Opt(n1, "first", FALSE, FALSE)}
=============================================================================
