------------------------------ MODULE MCHooks -------------------------------
(***************************************************************************)
(* Small instances of the hooks.  A behaviour looks at one of them: two    *)
(* hooks share no state but the objects they read.                         *)
(***************************************************************************)
EXTENDS ObjectHook, QueryHook, TLC

CONSTANTS PartsToCheck

VARIABLE part

vars == <<part, objectVars, queryVars>>

Init ==
  /\ part \in PartsToCheck
  /\ ObjectInit
  /\ QueryInit
  /\ part = "object" => call.form = <<"type", "identity", "array">>

Next ==
  /\ UNCHANGED part
  /\ \/ part = "object" /\ ObjectNext /\ UNCHANGED queryVars
     \/ part = "query" /\ QueryNext /\ UNCHANGED objectVars

Spec == Init /\ [][Next]_vars

-----------------------------------------------------------------------------
\* What either hook has returned is what is there, through a reference that is newer than
\* its last change (cachedObject.ts:86-142, cachedCollection.ts:156-184).
HooksAreFresh == ShownIsFresh /\ QueryIsFresh

\* Neither hook leaves a listener behind, but for the one of an object that is put off
\* (cachedObject.ts:157-162, cachedCollection.ts:199-208).
ListenersRemoved == ObjectListenersRemoved /\ QueryListenersRemoved

MCSymmetry ==
  UNION {Permutations(S) : S \in {Keys, Barqs, Items, Tags}}
=============================================================================
