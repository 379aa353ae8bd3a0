---------------------------- MODULE PromisedOpen ----------------------------
(***************************************************************************)
(* What Barq.open() promises its callers.  The promise of a call settles   *)
(* once; it is rejected as canceled only after a download of the same file *)
(* was given up; a timeout or a local Barq is the outcome only of a call   *)
(* configured for it.                                                      *)
(***************************************************************************)
EXTENDS FiniteSets

CONSTANTS Opens, Paths, PathOf

VARIABLES
  config,   \* the configuration of each call
  outcome,  \* the promise of each call
  givenUp   \* the calls whose download was given up

promised == <<config, outcome, givenUp>>

Pending(o) == outcome[o] = "pending"
MayBe(o, behavior) == behavior \in {config[o].onNew, config[o].onExisting}

Become(o, how) == outcome' = [outcome EXCEPT ![o] = how]

Begin(o) ==
  /\ outcome[o] = "idle"
  /\ \/ Become(o, "pending") /\ UNCHANGED givenUp
     \/ MayBe(o, "immediate") /\ Become(o, "immediate") /\ UNCHANGED givenUp
     \/ Become(o, "failed") /\ givenUp' = givenUp \cup {o}

Complete(o) == Pending(o) /\ Become(o, "synced") /\ UNCHANGED givenUp

Fail(o) == Pending(o) /\ Become(o, "failed") /\ givenUp' = givenUp \cup {o}

Expire(o) ==
  /\ Pending(o)
  /\ givenUp' = givenUp \cup {o}
  /\ \/ MayBe(o, "throw") /\ Become(o, "timedOut")
     \/ MayBe(o, "local") /\ Become(o, "local")
     \/ MayBe(o, "local") /\ UNCHANGED outcome  \* the local file could not be opened

Withdraw(S) ==
  /\ givenUp' = givenUp \cup S
  /\ outcome' = [o \in Opens |->
                   IF o \in S /\ Pending(o) THEN "canceled" ELSE outcome[o]]

Abort(o) ==
  /\ Pending(o)
  /\ \E q \in givenUp : PathOf[q] = PathOf[o]
  /\ Become(o, "canceled")
  /\ givenUp' = givenUp \cup {o}

Init ==
  /\ outcome = [o \in Opens |-> "idle"]
  /\ givenUp = {}

Next ==
  /\ UNCHANGED config
  /\ \/ \E o \in Opens : Begin(o) \/ Complete(o) \/ Fail(o) \/ Expire(o) \/ Abort(o)
     \/ \E S \in SUBSET Opens : Withdraw(S)

Spec == Init /\ [][Next]_promised
=============================================================================
