---------------------------- MODULE BarqProvider ----------------------------
(***************************************************************************)
(* The React component BarqProvider that createBarqProviderFromConfig      *)
(* makes: its states, refs and three effects, the Barq.open() calls it has *)
(* under way, and the parent that renders, changes and unmounts it.        *)
(*                                                                         *)
(* React renders and commits in one step (Render).  The effects of that    *)
(* commit are flushed in a later task (Effects), before the next render or *)
(* the unmount; the promise of an open may be delivered in between.  The   *)
(* cleanup of an effect sees what its last run saw, which is ran.          *)
(***************************************************************************)
EXTENDS Naturals, Sequences, FiniteSets

CONSTANTS
  Configs,   \* the merged configurations the parent's props may ask for
  NoUser,    \* the user of a configuration without sync
  MaxChanges \* bound on how often the parent changes the props

\* What two configurations differ by: the file and the sync user.
Config == [path: {c.path : c \in Configs}, user: {c.user : c \in Configs} \cup {NoUser}]

ASSUME ProviderAssumption ==
  /\ Configs \subseteq Config
  /\ MaxChanges \in Nat

VARIABLES
  phase,   \* unmounted, committed (effects to be flushed), idle or gone
  props,   \* what the parent passes: config and close
  state,   \* the states barq and configVersion, with what is queued for them
  shown,   \* the props and states of the last commit
  ran,     \* what the open effect saw when it last ran
  current, \* currentBarq.current
  configuration, \* configuration.current
  barqs,   \* the opens, in order: their configuration and what became of them
  changes, \* how often the props have changed
  calm     \* the parent has left a provider that had not settled alone, and
           \* closeOnUnmount as it was, and every open has succeeded [history]

vars == <<phase, props, state, shown, ran, current, configuration, barqs, changes, calm>>

None == 0                       \* null: a Barq is its index in barqs
Stages == {"opening", "open", "closed", "failed"}

Bare(c) == [c EXCEPT !.user = NoUser]

Opening == \E n \in DOMAIN barqs : barqs[n].stage = "opening"

\* What the next render would commit.
Snapshot == [config |-> props.config, close |-> props.close,
             barq |-> state.barq, version |-> state.version]

\* What the open effect depends on.
Dependencies(s) == [barq |-> s.barq, version |-> s.version, close |-> s.close]

Settled == phase = "idle" /\ shown = Snapshot /\ ~Opening

\* barq.close(): Barqs of one file share the native Barq while it is open.
ClosedIn(all, b) ==
  IF b # None /\ all[b].stage = "open"
  THEN [n \in DOMAIN all |->
          IF all[n].stage = "open" /\ all[n].config.path = all[b].config.path
          THEN [all[n] EXCEPT !.stage = "closed"] ELSE all[n]]
  ELSE all
----------------------------------------------------------------------------
(***************************************************************************)
(* The parent.                                                             *)
(***************************************************************************)

\* The first render: useState and useRef take their initial values, and the
\* configuration does not have the user of the context yet.  Without sync,
\* useState opens the first Barq itself.
Mount ==
  /\ phase = "unmounted"
  /\ barqs' = IF props.config.user = NoUser THEN <<[config |-> props.config, stage |-> "open"]>> ELSE <<>>
  /\ state' = [barq |-> Len(barqs'), version |-> 0]
  /\ shown' = [config |-> props.config, close |-> props.close,
               barq |-> Len(barqs'), version |-> 0]
  /\ current' = Len(barqs')
  /\ configuration' = Bare(props.config)
  /\ phase' = "committed"
  /\ UNCHANGED <<props, ran, changes, calm>>

ChangeProps ==
  /\ phase \in {"committed", "idle"}
  /\ changes < MaxChanges
  /\ \E c \in Configs, close \in BOOLEAN : props' = [config |-> c, close |-> close]
  /\ props' # props
  /\ changes' = changes + 1
  /\ calm' = (calm /\ Settled /\ props'.close = props.close)
  /\ UNCHANGED <<phase, state, shown, ran, current, configuration, barqs>>

\* Only the open effect has a cleanup.
Unmount ==
  /\ phase = "idle"
  /\ calm' = (calm /\ Settled)
  /\ barqs' = IF ran.close THEN ClosedIn(barqs, ran.barq) ELSE barqs
  /\ phase' = "gone"
  /\ UNCHANGED <<props, state, shown, ran, current, configuration, changes>>
----------------------------------------------------------------------------
(***************************************************************************)
(* React.                                                                  *)
(***************************************************************************)

Render ==
  /\ phase = "idle"
  /\ shown # Snapshot
  /\ shown' = Snapshot
  /\ phase' = "committed"
  /\ UNCHANGED <<props, state, ran, current, configuration, barqs, changes, calm>>

\* The first effect sees a new configuration while there is a Barq to replace.
ConfigChanged == shown.config # configuration /\ current # None

\* Mutated Cleanup: the closed Barq stays in the state.
CleanupKeepsState(all) ==
  IF ran.barq # None
  THEN [barqs |-> IF ran.close THEN ClosedIn(all, ran.barq) ELSE all, barq |-> state.barq]
  ELSE [barqs |-> all, barq |-> state.barq]

\* Mutated Cleanup: closes nothing.
CleanupKeepsOpen(all) ==
  [barqs |-> all, barq |-> IF ran.barq # None THEN None ELSE state.barq]

\* The cleanup of the open effect: close the Barq it ran for, setBarq(null).
Cleanup(all) ==
  IF ran.barq # None
  THEN [barqs |-> IF ran.close THEN ClosedIn(all, ran.barq) ELSE all, barq |-> None]
  ELSE [barqs |-> all, barq |-> state.barq]

\* Mutated NextCurrent: the ref keeps the Barq of the first render.
CurrentIsFirst == current

\* The second effect keeps currentBarq at the Barq that is rendered.
NextCurrent == shown.barq

\* The third effect runs after the first one has updated the configuration.
ConfigToOpen == shown.config

\* The cleanup, then the three effects in order.
Effects ==
  LET reruns == ran # Dependencies(shown)
      cleaned == IF reruns THEN Cleanup(barqs)
                 ELSE [barqs |-> barqs, barq |-> state.barq]
  IN  /\ phase = "committed"
      /\ configuration' = shown.config
      /\ current' = NextCurrent
      /\ barqs' = IF reruns /\ current' = None
                  THEN Append(cleaned.barqs, [config |-> ConfigToOpen, stage |-> "opening"])
                  ELSE cleaned.barqs
      /\ state' = [barq |-> cleaned.barq,
                   version |-> IF ConfigChanged THEN state.version + 1 ELSE state.version]
      /\ ran' = Dependencies(shown)
      /\ phase' = "idle"
      /\ UNCHANGED <<props, shown, changes, calm>>
----------------------------------------------------------------------------
(***************************************************************************)
(* Barq.open() settles.                                                    *)
(***************************************************************************)

\* setBarq(openBarq) does nothing once the component is gone.
Opened(n) ==
  /\ barqs[n].stage = "opening"
  /\ barqs' = [barqs EXCEPT ![n].stage = "open"]
  /\ state' = IF phase = "gone" THEN state ELSE [state EXCEPT !.barq = n]
  /\ UNCHANGED <<phase, props, shown, ran, current, configuration, changes, calm>>

\* initBarq().catch(console.error)
OpenFailed(n) ==
  /\ barqs[n].stage = "opening"
  /\ barqs' = [barqs EXCEPT ![n].stage = "failed"]
  /\ calm' = FALSE
  /\ UNCHANGED <<phase, props, state, shown, ran, current, configuration, changes>>
----------------------------------------------------------------------------
Init ==
  /\ phase = "unmounted"
  /\ props \in [config: Configs, close: BOOLEAN]
  /\ state = [barq |-> None, version |-> 0]
  /\ shown = [config |-> props.config, close |-> props.close, barq |-> None, version |-> 0]
  /\ ran = [barq |-> None, version |-> MaxChanges + 1, close |-> FALSE]
  /\ current = None
  /\ configuration = props.config
  /\ barqs = <<>>
  /\ changes = 0
  /\ calm = TRUE

React == Render \/ Effects
Settles == \E n \in DOMAIN barqs : Opened(n) \/ OpenFailed(n)

Next == Mount \/ ChangeProps \/ Unmount \/ React \/ Settles

Spec == Init /\ [][Next]_vars

\* React renders and flushes effects, and opens settle.
FairSpec == Spec /\ WF_vars(React) /\ WF_vars(Settles)
----------------------------------------------------------------------------
(***************************************************************************)
(* Properties.                                                             *)
(***************************************************************************)

\* Type correctness; a Barq in a state or a ref is one that was opened, and once
\* the effects are flushed the ref is the Barq that is rendered.
TypeOK ==
  /\ phase \in {"unmounted", "committed", "idle", "gone"}
  /\ props \in [config: Configs, close: BOOLEAN]
  /\ barqs \in Seq([config: Config, stage: Stages])
  /\ state \in [barq: DOMAIN barqs \cup {None}, version: Nat]
  /\ shown \in [config: Configs, close: BOOLEAN, barq: DOMAIN barqs \cup {None},
                version: Nat]
  /\ ran \in [barq: DOMAIN barqs \cup {None}, version: Nat, close: BOOLEAN]
  /\ current \in DOMAIN barqs \cup {None}
  /\ phase = "idle" => current = shown.barq /\ ran = Dependencies(shown)
  /\ configuration \in Config
  /\ changes \in 0 .. MaxChanges
  /\ calm \in BOOLEAN

\* Once React and the opens have settled, the children get a Barq that is open,
\* although effects close Barqs that an earlier render was for.
ChildrenGetOpenBarq ==
  Settled /\ shown.barq # None => barqs[shown.barq].stage = "open"

\* As long as the parent leaves a provider that has not settled alone, it has
\* one open under way at most.
OneOpenAtATime ==
  calm => Cardinality({n \in DOMAIN barqs : barqs[n].stage = "opening"}) <= 1

\* The user of the context is in the configuration before the first open, though
\* the first render's configuration lacks it.
OpensWithUser == \A n \in DOMAIN barqs : barqs[n].config \in Configs

\* "If false, Barq will not be closed when the component unmounts.  @default true":
\* nothing the provider opened is open after it is gone.
ClosedOnUnmount ==
  phase = "gone" /\ props.close /\ ~Opening =>
    \A n \in DOMAIN barqs : barqs[n].stage # "open"

\* ... which holds for a provider that is only disturbed when it has settled.
ClosedWhenCalm == calm => ClosedOnUnmount

\* What the provider shows, or failed to open last.
Tried == IF shown.barq # None THEN shown.barq ELSE Len(barqs)

\* "We increment `configVersion` when a config override passed as a prop changes,
\* which triggers a `useEffect` to re-open the Barq with the new config."
ConfigApplied ==
  Settled /\ barqs # <<>> => barqs[Tried].config = props.config

\* ... which holds for a provider that is only disturbed when it has settled.
AppliedWhenCalm == calm => ConfigApplied

\* The Barq the children get is open and was opened with the user of the context
\* (BarqProvider.tsx:143-192).
ChildrenGetTheirBarq == ChildrenGetOpenBarq /\ OpensWithUser

\* A provider that is only disturbed when it has settled opens one Barq at a time, shows
\* that of its configuration and closes what it opened (BarqProvider.tsx:143-192).
CalmIsInOrder == OneOpenAtATime /\ ClosedWhenCalm /\ AppliedWhenCalm

\* A mounted provider shows an open Barq in the end, unless an open fails.
EventuallyShown ==
  (phase = "committed") ~>
    \/ phase = "gone"
    \/ shown.barq # None /\ barqs[shown.barq].stage = "open"
    \/ \E n \in DOMAIN barqs : barqs[n].stage = "failed"
=============================================================================
