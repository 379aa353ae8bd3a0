------------------------- MODULE BarqProviderProofs -------------------------
(***************************************************************************)
(* The children of a BarqProvider get a Barq that is open, for any         *)
(* configurations and however often the parent changes its props.  The     *)
(* provider closes Barqs in two places only: the cleanup of its effect,    *)
(* which empties the state in the same step, and the unmount.              *)
(*                                                                         *)
(* A provider that is left alone until it has settled goes through one     *)
(* cycle of renders and effects for each change of its props (Calmly).     *)
(***************************************************************************)
EXTENDS BarqProvider, SequenceTheorems, FiniteSetTheorems, TLAPS

\* What is in the state has not been closed.
StateIsOpen ==
  phase # "gone" /\ state.barq # None => barqs[state.barq].stage = "open"

\* Nothing is opened before the first render.
NoneBefore == phase = "unmounted" => barqs = <<>>

IInv == TypeOK /\ OpensWithUser /\ StateIsOpen /\ NoneBefore

----------------------------------------------------------------------------
(***************************************************************************)
(* Where a provider is in its cycle, as long as it is calm.                *)
(***************************************************************************)
Last == Len(barqs)

\* The last Barq is the one the parent asks for.
LastIs(stage) == Last > 0 /\ barqs[Last].stage = stage /\ barqs[Last].config = props.config

\* What is rendered is the last Barq, of an earlier configuration.
ShowsEarlier == Last > 0 /\ shown.barq = Last /\ barqs[Last].stage = "open"

Done(n) == barqs[n].stage # "opening" /\ (props.close => barqs[n].stage # "open")
OthersDone == \A n \in DOMAIN barqs : n # Last => Done(n)
AllDone == \A n \in DOMAIN barqs : Done(n)

\* Rendered, with the effects to be flushed: for the first time, ...
Mounted ==
  /\ phase = "committed" /\ shown = Snapshot
  /\ shown.barq = Last /\ current = Last
  /\ ran.barq = None /\ ran.version # shown.version
  /\ barqs = <<>> \/ (LastIs("open") /\ configuration = props.config)

\* ... with the Barq that was opened, ...
Presented ==
  /\ phase = "committed" /\ shown = Snapshot /\ configuration = props.config
  /\ shown.barq = Last /\ LastIs("open")
  /\ ran.barq = None

\* ... with the props that changed, ...
Noticed ==
  /\ phase = "committed" /\ shown = Snapshot /\ configuration # props.config
  /\ ShowsEarlier /\ current = Last
  /\ ran = Dependencies(shown)

\* ... with the next version of the configuration, ...
Rerunning ==
  /\ phase = "committed" /\ shown = Snapshot /\ configuration = props.config
  /\ ShowsEarlier
  /\ ran.version # shown.version /\ ran.barq = Last /\ ran.close = props.close

\* ... and without a Barq.
Reopening ==
  /\ phase = "committed" /\ shown = Snapshot /\ configuration = props.config
  /\ shown.barq = None /\ Last > 0 /\ AllDone
  /\ ran.barq = Last /\ ran.close = props.close

\* Between the effects and the next render: for the Barq to open, ...
Waiting ==
  /\ phase = "idle" /\ shown = Snapshot /\ configuration = props.config
  /\ shown.barq = None /\ LastIs("opening")

\* ... with one that has opened, ...
Arrived ==
  /\ phase = "idle" /\ configuration = props.config
  /\ state.barq = Last /\ LastIs("open") /\ shown = [Snapshot EXCEPT !.barq = None]

\* ... with nothing to do, ...
Steady ==
  /\ phase = "idle" /\ shown = Snapshot /\ configuration = props.config
  /\ shown.barq = Last /\ LastIs("open")

\* ... with new props, ...
Changed ==
  /\ phase = "idle" /\ configuration # props.config
  /\ ShowsEarlier /\ shown = [Snapshot EXCEPT !.config = configuration]

\* ... with the next version, ...
Counted ==
  /\ phase = "idle" /\ configuration = props.config
  /\ ShowsEarlier /\ shown.version # state.version
  /\ shown = [Snapshot EXCEPT !.version = shown.version]

\* ... and with the old Barq closed.
Emptied ==
  /\ phase = "idle" /\ configuration = props.config
  /\ state.barq = None /\ Last > 0 /\ AllDone
  /\ shown = [Snapshot EXCEPT !.barq = Last]

Calmly ==
  /\ OthersDone
  /\ \/ phase = "unmounted" /\ ran.version # 0
     \/ Mounted \/ Presented \/ Noticed \/ Rerunning \/ Reopening
     \/ Waiting \/ Arrived \/ Steady \/ Changed \/ Counted \/ Emptied
     \/ phase = "gone" /\ AllDone

CalmInv == calm => Calmly
----------------------------------------------------------------------------
Instance == [config: Config, stage: Stages]
Instances == Seq(Instance)
BarqsOf(all) == DOMAIN all \cup {None}
States(all) == [barq: BarqsOf(all), version: Nat]
----------------------------------------------------------------------------
\* A function on the indices of a sequence is one.
LEMMA SameLength ==
  ASSUME NEW all \in Instances, NEW f \in [DOMAIN all -> Instance]
  PROVE  f \in Instances /\ DOMAIN f = DOMAIN all /\ Len(f) = Len(all)
<1>1. Len(all) \in Nat /\ DOMAIN all = 1 .. Len(all)
  BY LenProperties DEF Instances
<1>2. f \in Seq(Instance)
  BY <1>1
<1>3. DOMAIN f = 1 .. Len(f) /\ Len(f) \in Nat
  BY <1>2, LenProperties
<1> QED BY <1>1, <1>2, <1>3 DEF Instances

LEMMA ElementFacts ==
  ASSUME NEW all \in Instances, NEW n \in DOMAIN all
  PROVE  /\ all[n] \in Instance
         /\ \A stage \in Stages : /\ [all[n] EXCEPT !.stage = stage] \in Instance
                                  /\ [all[n] EXCEPT !.stage = stage].config = all[n].config
                                  /\ [all[n] EXCEPT !.stage = stage].stage = stage
<1>1. n \in 1 .. Len(all)
  BY LenProperties DEF Instances
<1>2. all[n] \in Instance
  BY <1>1, ElementOfSeq DEF Instances
<1> QED BY <1>2 DEF Instance

\* An open that settles changes its stage and nothing else.
LEMMA StageFacts ==
  ASSUME barqs \in Instances, NEW n \in DOMAIN barqs, NEW stage \in Stages,
         barqs' = [barqs EXCEPT ![n].stage = stage]
  PROVE  /\ barqs' \in Instances
         /\ DOMAIN barqs' = DOMAIN barqs
         /\ \A m \in DOMAIN barqs : /\ barqs'[m].config = barqs[m].config
                                  /\ barqs'[m].stage = IF m = n THEN stage ELSE barqs[m].stage
<1>1. barqs' = [m \in DOMAIN barqs |-> IF m = n THEN [barqs[n] EXCEPT !.stage = stage] ELSE barqs[m]]
  BY LenProperties DEF Instances
<1>2. \A m \in DOMAIN barqs : barqs'[m] = IF m = n THEN [barqs[n] EXCEPT !.stage = stage] ELSE barqs[m]
  BY <1>1
<1>3. \A m \in DOMAIN barqs : barqs'[m] \in Instance
  BY <1>2, ElementFacts
<1>4. barqs' \in [DOMAIN barqs -> Instance]
  BY <1>1, <1>3
<1>5. barqs' \in Instances /\ DOMAIN barqs' = DOMAIN barqs
  BY <1>4, SameLength
<1>6. \A m \in DOMAIN barqs : /\ barqs'[m].config = barqs[m].config
                            /\ barqs'[m].stage = IF m = n THEN stage ELSE barqs[m].stage
  BY <1>2, ElementFacts
<1> QED BY <1>5, <1>6

\* close() changes stages only.
LEMMA ClosedFacts ==
  ASSUME NEW all \in Instances, NEW b \in BarqsOf(all)
  PROVE  /\ ClosedIn(all, b) \in Instances
         /\ DOMAIN ClosedIn(all, b) = DOMAIN all
         /\ \A n \in DOMAIN all : ClosedIn(all, b)[n].config = all[n].config
<1>1. CASE b # None /\ all[b].stage = "open"
  <2> DEFINE closed(n) == IF all[n].stage = "open" /\ all[n].config.path = all[b].config.path
                          THEN [all[n] EXCEPT !.stage = "closed"] ELSE all[n]
  <2>1. ClosedIn(all, b) = [n \in DOMAIN all |-> closed(n)]
    BY <1>1 DEF ClosedIn
  <2>2. \A n \in DOMAIN all : closed(n) \in Instance /\ closed(n).config = all[n].config
    BY ElementFacts DEF Stages
  <2> HIDE DEF closed
  <2>3. [n \in DOMAIN all |-> closed(n)] \in [DOMAIN all -> Instance]
    BY <2>2
  <2> QED BY <2>1, <2>2, <2>3, SameLength
<1>2. CASE ~(b # None /\ all[b].stage = "open")
  BY <1>2 DEF ClosedIn
<1> QED BY <1>1, <1>2

\* close() closes an open Barq, with others, and opens none.
LEMMA ClosedStages ==
  ASSUME NEW all \in Instances, NEW b \in BarqsOf(all)
  PROVE  /\ \A n \in DOMAIN all : ClosedIn(all, b)[n].stage \in {all[n].stage, "closed"}
         /\ b # None => ClosedIn(all, b)[b].stage # "open"
         /\ b = None \/ all[b].stage # "open" => ClosedIn(all, b) = all
<1>1. CASE b # None /\ all[b].stage = "open"
  <2> DEFINE closed(n) == IF all[n].stage = "open" /\ all[n].config.path = all[b].config.path
                          THEN [all[n] EXCEPT !.stage = "closed"] ELSE all[n]
  <2>1. ClosedIn(all, b) = [n \in DOMAIN all |-> closed(n)]
    BY <1>1 DEF ClosedIn
  <2>2. \A n \in DOMAIN all :
          closed(n).stage = IF all[n].stage = "open" /\ all[n].config.path = all[b].config.path
                            THEN "closed" ELSE all[n].stage
    BY ElementFacts DEF Stages
  <2>3. b \in DOMAIN all
    BY <1>1 DEF BarqsOf
  <2> HIDE DEF closed
  <2>4. \A n \in DOMAIN all : ClosedIn(all, b)[n] = closed(n)
    BY <2>1
  <2> QED BY <1>1, <2>2, <2>3, <2>4
<1>2. CASE ~(b # None /\ all[b].stage = "open")
  BY <1>2 DEF ClosedIn
<1> QED BY <1>1, <1>2

\* The cleanup empties the state if it closes anything.
LEMMA CleanupFacts ==
  ASSUME TypeOK
  PROVE  /\ Cleanup(barqs).barqs \in Instances
         /\ DOMAIN Cleanup(barqs).barqs = DOMAIN barqs
         /\ \A n \in DOMAIN barqs : Cleanup(barqs).barqs[n].config = barqs[n].config
         /\ \/ Cleanup(barqs).barq = None
            \/ Cleanup(barqs) = [barqs |-> barqs, barq |-> state.barq]
<1>1. barqs \in Instances /\ ran.barq \in BarqsOf(barqs)
  BY DEF TypeOK, Instances, Instance, BarqsOf
<1>2. CASE ran.barq # None /\ ran.close
  BY <1>1, <1>2, ClosedFacts DEF Cleanup
<1>3. CASE ~(ran.barq # None /\ ran.close)
  BY <1>1, <1>3 DEF Cleanup
<1> QED BY <1>2, <1>3
----------------------------------------------------------------------------
LEMMA InitIInv == Init => IInv
<1> SUFFICES ASSUME Init PROVE IInv
  OBVIOUS
<1>1. Configs \subseteq Config /\ MaxChanges \in Nat
  BY ProviderAssumption
<1>2. barqs \in Seq(Instance) /\ DOMAIN barqs = {}
  BY EmptySeq DEF Init
<1>3. TypeOK
  BY <1>1, <1>2 DEF Init, TypeOK, None, Dependencies, Instance
<1> QED BY <1>2, <1>3 DEF Init, IInv, OpensWithUser, StateIsOpen, NoneBefore, None

LEMMA NextIInv == IInv /\ [Next]_vars => IInv'
<1> SUFFICES ASSUME IInv, [Next]_vars PROVE IInv'
  OBVIOUS
<1> USE ProviderAssumption
<1>t. TypeOK /\ OpensWithUser /\ StateIsOpen /\ NoneBefore
  BY DEF IInv
<1>l. /\ barqs \in Instances /\ DOMAIN barqs = 1 .. Len(barqs) /\ Len(barqs) \in Nat
      /\ props.config \in Configs /\ props.config \in Config /\ props.close \in BOOLEAN
  BY <1>t, LenProperties DEF TypeOK, Instances, Instance
<1>1. CASE Mount
  <2>1. /\ phase = "unmounted" /\ phase' = "committed" /\ UNCHANGED <<props, ran, changes, calm>>
        /\ barqs' = IF props.config.user = NoUser
                    THEN <<[config |-> props.config, stage |-> "open"]>> ELSE <<>>
        /\ state' = [barq |-> Len(barqs'), version |-> 0]
        /\ shown' = [config |-> props.config, close |-> props.close,
                     barq |-> Len(barqs'), version |-> 0]
        /\ current' = Len(barqs') /\ configuration' = Bare(props.config)
    BY <1>1 DEF Mount
  <2>2. Bare(props.config) \in Config
    BY <1>l DEF Bare, Config
  <2>3. /\ barqs' \in Seq(Instance)
        /\ \A n \in DOMAIN barqs' : barqs'[n].config \in Configs /\ barqs'[n].stage = "open"
        /\ Len(barqs') \in DOMAIN barqs' \cup {None}
    <3>1. CASE props.config.user = NoUser
      <4> DEFINE first == [config |-> props.config, stage |-> "open"]
      <4>1. first \in Instance /\ barqs' = <<first>>
        BY <1>l, <2>1, <3>1 DEF Instance, Stages
      <4>2. first.config \in Configs /\ first.stage = "open"
        BY <1>l
      <4> HIDE DEF first
      <4>3. Len(barqs') = 1 /\ DOMAIN barqs' = {1} /\ barqs'[1] = first
        BY <4>1
      <4> QED BY <4>1, <4>2, <4>3
    <3>2. CASE props.config.user # NoUser
      BY <2>1, <3>2, EmptySeq DEF None
    <3> QED BY <3>1, <3>2
  <2>4. ran.barq = None /\ ran.version \in Nat /\ ran.close \in BOOLEAN
        /\ ran = [barq |-> ran.barq, version |-> ran.version, close |-> ran.close]
    BY <1>t, <2>1 DEF TypeOK, NoneBefore
  <2>5. TypeOK'
    BY <1>t, <1>l, <2>1, <2>2, <2>3, <2>4 DEF TypeOK, Instance
  <2> QED BY <2>1, <2>3, <2>5 DEF IInv, OpensWithUser, StateIsOpen, NoneBefore
<1>2. CASE ChangeProps
  <2>1. PICK c \in Configs, close \in BOOLEAN : props' = [config |-> c, close |-> close]
    BY <1>2 DEF ChangeProps
  <2>2. calm' \in BOOLEAN /\ changes' \in 0 .. MaxChanges
    BY <1>t, <1>2 DEF ChangeProps, TypeOK
  <2>3. UNCHANGED <<phase, state, shown, ran, current, configuration, barqs>>
    BY <1>2 DEF ChangeProps
  <2> QED BY <1>t, <2>1, <2>2, <2>3
    DEF IInv, TypeOK, OpensWithUser, StateIsOpen, NoneBefore, Dependencies
<1>3. CASE Unmount
  <2>1. /\ phase' = "gone" /\ UNCHANGED <<props, state, shown, ran, current, configuration, changes>>
        /\ barqs' = barqs \/ barqs' = ClosedIn(barqs, ran.barq)
        /\ calm' \in BOOLEAN
    BY <1>t, <1>3 DEF Unmount, TypeOK
  <2>2. ran.barq \in BarqsOf(barqs)
    BY <1>t DEF TypeOK, BarqsOf
  <2>3. /\ barqs' \in Seq(Instance) /\ DOMAIN barqs' = DOMAIN barqs
        /\ \A n \in DOMAIN barqs : barqs'[n].config = barqs[n].config
    BY <1>l, <2>1, <2>2, ClosedFacts DEF Instances
  <2>4. TypeOK'
    BY <1>t, <2>1, <2>3 DEF TypeOK, Instance
  <2> QED BY <1>t, <2>1, <2>3, <2>4 DEF IInv, OpensWithUser, StateIsOpen, NoneBefore
<1>4. CASE Render
  <2>1. /\ phase' = "committed" /\ shown' = Snapshot
        /\ UNCHANGED <<props, state, ran, current, configuration, barqs, changes, calm>>
        /\ phase # "gone"
    BY <1>4 DEF Render
  <2>2. shown' \in [config: Configs, close: BOOLEAN, barq: BarqsOf(barqs), version: Nat]
    BY <1>t, <1>l, <2>1 DEF Snapshot, TypeOK, BarqsOf
  <2>3. TypeOK'
    BY <1>t, <2>1, <2>2 DEF TypeOK, BarqsOf
  <2> QED BY <1>t, <2>1, <2>3 DEF IInv, OpensWithUser, StateIsOpen, NoneBefore
<1>5. CASE Effects
  <2> DEFINE cleaned == IF ran # Dependencies(shown) THEN Cleanup(barqs)
                        ELSE [barqs |-> barqs, barq |-> state.barq]
             opened == [config |-> shown.config, stage |-> "opening"]
  <2>1. /\ phase = "committed" /\ phase' = "idle" /\ UNCHANGED <<props, shown, changes, calm>>
        /\ configuration' = shown.config /\ current' = shown.barq
        /\ ran' = Dependencies(shown)
        /\ barqs' = cleaned.barqs \/ barqs' = Append(cleaned.barqs, opened)
        /\ state' = [barq |-> cleaned.barq,
                     version |-> IF ConfigChanged THEN state.version + 1 ELSE state.version]
    BY <1>5 DEF Effects, NextCurrent, ConfigToOpen
  <2>2. /\ cleaned.barqs \in Instances
        /\ DOMAIN cleaned.barqs = DOMAIN barqs
        /\ \A n \in DOMAIN barqs : cleaned.barqs[n].config = barqs[n].config
        /\ cleaned.barq = None \/ cleaned = [barqs |-> barqs, barq |-> state.barq]
    BY <1>t, <1>l, CleanupFacts
  <2>3. opened \in Instance /\ opened.config \in Configs
    BY <1>t DEF TypeOK, Instance, Stages
  <2> HIDE DEF cleaned, opened
  <2>4. /\ barqs' \in Seq(Instance) /\ DOMAIN barqs \subseteq DOMAIN barqs'
        /\ \A n \in DOMAIN barqs : barqs'[n] = cleaned.barqs[n]
        /\ \A n \in DOMAIN barqs' \ DOMAIN barqs : barqs'[n] = opened
    <3>1. CASE barqs' = cleaned.barqs
      BY <2>2, <3>1 DEF Instances
    <3>2. CASE barqs' = Append(cleaned.barqs, opened)
      <4>1. /\ Len(cleaned.barqs) \in Nat /\ DOMAIN cleaned.barqs = 1 .. Len(cleaned.barqs)
            /\ cleaned.barqs \in Seq(Instance)
        BY <2>2, LenProperties DEF Instances
      <4>2. /\ barqs' \in Seq(Instance) /\ Len(barqs') = Len(cleaned.barqs) + 1
            /\ DOMAIN barqs' = 1 .. Len(cleaned.barqs) + 1
            /\ \A n \in 1 .. Len(cleaned.barqs) : barqs'[n] = cleaned.barqs[n]
            /\ barqs'[Len(cleaned.barqs) + 1] = opened
        BY <2>3, <3>2, <4>1
      <4> QED BY <2>2, <4>1, <4>2
    <3> QED BY <2>1, <3>1, <3>2
  <2>5. cleaned.barq \in BarqsOf(barqs)
    BY <1>t, <2>2 DEF TypeOK, BarqsOf
  <2>6. state' \in [barq: DOMAIN barqs' \cup {None}, version: Nat]
    BY <1>t, <2>1, <2>4, <2>5 DEF TypeOK, BarqsOf
  <2>7. shown.barq \in DOMAIN barqs' \cup {None} /\ shown.config \in Config
    BY <1>t, <2>4 DEF TypeOK
  <2>8. ran' \in [barq: DOMAIN barqs' \cup {None}, version: Nat, close: BOOLEAN]
    BY <1>t, <2>1, <2>7 DEF TypeOK, Dependencies
  <2>9. shown \in [config: Configs, close: BOOLEAN, barq: DOMAIN barqs' \cup {None}, version: Nat]
    BY <1>t, <2>4 DEF TypeOK
  <2>10. TypeOK'
    BY <1>t, <2>1, <2>4, <2>6, <2>7, <2>8, <2>9 DEF TypeOK, Instance
  <2>11. OpensWithUser'
    BY <1>t, <2>2, <2>3, <2>4 DEF OpensWithUser
  <2>12. StateIsOpen'
    <3>1. CASE cleaned.barq = None
      BY <2>1, <3>1 DEF StateIsOpen
    <3>2. CASE cleaned = [barqs |-> barqs, barq |-> state.barq]
      BY <1>t, <2>1, <2>4, <3>2 DEF StateIsOpen, TypeOK
    <3> QED BY <2>2, <3>1, <3>2
  <2> QED BY <2>1, <2>10, <2>11, <2>12 DEF IInv, NoneBefore
<1>6. ASSUME NEW n \in DOMAIN barqs, Opened(n) PROVE IInv'
  <2>1. /\ barqs' = [barqs EXCEPT ![n].stage = "open"]
        /\ state' = state \/ (state' = [state EXCEPT !.barq = n])
        /\ phase = "gone" \/ (state' = [state EXCEPT !.barq = n])
        /\ UNCHANGED <<phase, props, shown, ran, current, configuration, changes, calm>>
    BY <1>6 DEF Opened
  <2>2. /\ barqs' \in Seq(Instance) /\ DOMAIN barqs' = DOMAIN barqs
        /\ \A m \in DOMAIN barqs : /\ barqs'[m].config = barqs[m].config
                                   /\ barqs'[m].stage = IF m = n THEN "open" ELSE barqs[m].stage
    <3>1. "open" \in Stages
      BY DEF Stages
    <3>2. /\ barqs' \in Instances /\ DOMAIN barqs' = DOMAIN barqs
          /\ \A m \in DOMAIN barqs : /\ barqs'[m].config = barqs[m].config
                                     /\ barqs'[m].stage = IF m = n THEN "open" ELSE barqs[m].stage
      BY <1>l, <2>1, <3>1, StageFacts
    <3> QED BY <3>2 DEF Instances
  <2>3. TypeOK'
    BY <1>t, <2>1, <2>2 DEF TypeOK, Instance, Dependencies
  <2>4. StateIsOpen'
    BY <1>t, <2>1, <2>2 DEF StateIsOpen, TypeOK
  <2> QED BY <1>t, <2>1, <2>2, <2>3, <2>4 DEF IInv, OpensWithUser, NoneBefore
<1>7. ASSUME NEW n \in DOMAIN barqs, OpenFailed(n) PROVE IInv'
  <2>1. /\ barqs' = [barqs EXCEPT ![n].stage = "failed"] /\ barqs[n].stage = "opening"
        /\ calm' \in BOOLEAN
        /\ UNCHANGED <<phase, props, state, shown, ran, current, configuration, changes>>
    BY <1>7 DEF OpenFailed
  <2>2. /\ barqs' \in Seq(Instance) /\ DOMAIN barqs' = DOMAIN barqs
        /\ \A m \in DOMAIN barqs : /\ barqs'[m].config = barqs[m].config
                                   /\ barqs'[m].stage = IF m = n THEN "failed" ELSE barqs[m].stage
    <3>1. "failed" \in Stages
      BY DEF Stages
    <3>2. /\ barqs' \in Instances /\ DOMAIN barqs' = DOMAIN barqs
          /\ \A m \in DOMAIN barqs : /\ barqs'[m].config = barqs[m].config
                                     /\ barqs'[m].stage = IF m = n THEN "failed" ELSE barqs[m].stage
      BY <1>l, <2>1, <3>1, StageFacts
    <3> QED BY <3>2 DEF Instances
  <2>3. TypeOK'
    BY <1>t, <2>1, <2>2 DEF TypeOK, Instance, Dependencies
  <2>4. StateIsOpen'
    BY <1>t, <2>1, <2>2 DEF StateIsOpen, TypeOK
  <2> QED BY <1>t, <2>1, <2>2, <2>3, <2>4 DEF IInv, OpensWithUser, NoneBefore
<1>8. CASE UNCHANGED vars
  BY <1>t, <1>8 DEF vars, IInv, TypeOK, OpensWithUser, StateIsOpen, NoneBefore, Dependencies
<1> QED BY <1>1, <1>2, <1>3, <1>4, <1>5, <1>6, <1>7, <1>8 DEF Next, React, Settles
----------------------------------------------------------------------------
\* The provider is calm only if it was, and what disturbed it has left it settled.
LEMMA CalmStep == IInv /\ CalmInv /\ [Next]_vars => CalmInv'
<1> SUFFICES ASSUME IInv, CalmInv, [Next]_vars, calm' PROVE Calmly'
  BY DEF CalmInv
<1>t. TypeOK /\ NoneBefore
  BY DEF IInv
<1>c. CASE ~calm
  BY <1>c DEF Next, Mount, ChangeProps, Unmount, React, Render, Effects, Settles, Opened,
              OpenFailed, vars
<1> SUFFICES ASSUME Calmly PROVE Calmly'
  BY <1>c DEF CalmInv
<1>l. /\ barqs \in Instances /\ DOMAIN barqs = 1 .. Last /\ Last \in Nat
      /\ props = [config |-> props.config, close |-> props.close] /\ props.close \in BOOLEAN
      /\ state = [barq |-> state.barq, version |-> state.version] /\ state.version \in Nat
      /\ ran = [barq |-> ran.barq, version |-> ran.version, close |-> ran.close]
      /\ shown = [config |-> shown.config, close |-> shown.close, barq |-> shown.barq,
                  version |-> shown.version]
  BY <1>t, LenProperties DEF TypeOK, Instances, Instance, Last
<1>1. CASE Mount
  <2>1. /\ phase' = "committed" /\ UNCHANGED <<props, ran>> /\ phase = "unmounted"
        /\ barqs' = IF props.config.user = NoUser
                    THEN <<[config |-> props.config, stage |-> "open"]>> ELSE <<>>
        /\ state' = [barq |-> Len(barqs'), version |-> 0]
        /\ shown' = [config |-> props.config, close |-> props.close,
                     barq |-> Len(barqs'), version |-> 0]
        /\ current' = Len(barqs') /\ configuration' = Bare(props.config)
    BY <1>1 DEF Mount
  <2>2. barqs = <<>> /\ ran.barq = None /\ ran.version # 0
    BY <1>t, <2>1 DEF NoneBefore, TypeOK, Calmly, Mounted, Presented, Noticed, Rerunning,
                      Reopening, Waiting, Arrived, Steady, Changed, Counted, Emptied
  <2>3. shown' = Snapshot'
    BY <2>1 DEF Snapshot
  <2>4. \/ barqs' = <<>>
        \/ /\ barqs' = <<[config |-> props.config, stage |-> "open"]>>
           /\ configuration' = props.config
    <3>1. props.config \in Config
      BY <1>t, ProviderAssumption DEF TypeOK
    <3>2. CASE props.config.user = NoUser
      BY <2>1, <3>1, <3>2 DEF Bare, Config
    <3> QED BY <2>1, <3>2
  <2>5. /\ OthersDone'
        /\ barqs' = <<>> \/ (LastIs("open")' /\ configuration' = props'.config)
    BY <2>1, <2>4 DEF OthersDone, Last, LastIs
  <2> QED BY <2>1, <2>2, <2>3, <2>5 DEF Calmly, Mounted, Last
<1>2. CASE ChangeProps
  <2>1. /\ UNCHANGED <<phase, state, shown, ran, current, configuration, barqs>>
        /\ Settled /\ props'.close = props.close /\ props' # props
        /\ \E c \in Configs, close \in BOOLEAN : props' = [config |-> c, close |-> close]
    BY <1>2 DEF ChangeProps
  <2>2. props'.config # props.config
    BY <1>l, <2>1
  <2>3. Steady
    BY <2>1, <1>l DEF Calmly, Settled, Snapshot, Opening, LastIs, Mounted, Presented, Noticed,
                      Rerunning, Reopening, Waiting, Arrived, Steady, Changed, Counted, Emptied, None,
                      ShowsEarlier
  <2>4. Changed'
    BY <1>l, <2>1, <2>2, <2>3 DEF Steady, Changed, Snapshot, LastIs, ShowsEarlier, Last
  <2>5. OthersDone'
    BY <2>1 DEF Calmly, OthersDone, Done, Last
  <2> QED BY <2>4, <2>5 DEF Calmly
<1>3. CASE Unmount
  <2>1. /\ phase' = "gone" /\ UNCHANGED <<props, state, shown, ran, current, configuration>>
        /\ barqs' = IF ran.close THEN ClosedIn(barqs, ran.barq) ELSE barqs
        /\ Settled
    BY <1>3 DEF Unmount
  <2>2. Steady /\ ran = Dependencies(shown)
    BY <2>1, <1>l, <1>t DEF Calmly, Settled, Snapshot, Opening, LastIs, Mounted, Presented, Noticed,
                      Rerunning, Reopening, Waiting, Arrived, Steady, Changed, Counted, Emptied, None,
                      ShowsEarlier, TypeOK
  <2>3. ran.barq = Last /\ ran.close = props.close /\ Last \in BarqsOf(barqs) /\ Last # None
        /\ barqs[Last].stage = "open"
    BY <1>l, <2>2 DEF Steady, LastIs, Dependencies, Snapshot, BarqsOf, None
  <2>4. AllDone' /\ OthersDone'
    <3>1. CASE props.close
      <4>1. /\ DOMAIN barqs' = DOMAIN barqs /\ barqs'[Last].stage # "open"
            /\ \A n \in DOMAIN barqs : barqs'[n].stage \in {barqs[n].stage, "closed"}
        BY <1>l, <2>1, <2>3, <3>1, ClosedFacts, ClosedStages
      <4>2. \A n \in DOMAIN barqs : n # Last => Done(n)
        BY DEF Calmly, OthersDone
      <4>3. ASSUME NEW n \in DOMAIN barqs PROVE barqs'[n].stage \notin {"opening", "open"}
        BY <2>3, <3>1, <4>1, <4>2 DEF Done
      <4> QED BY <4>1, <4>3 DEF AllDone, OthersDone, Done
    <3>2. CASE ~props.close
      BY <2>1, <2>3, <3>2 DEF Calmly, OthersDone, AllDone, Done, Last
    <3> QED BY <3>1, <3>2
  <2> QED BY <2>1, <2>4 DEF Calmly
<1>4. CASE Render
  <2>1. /\ phase = "idle" /\ shown # Snapshot /\ shown' = Snapshot /\ phase' = "committed"
        /\ UNCHANGED <<props, state, ran, current, configuration, barqs>>
    BY <1>4 DEF Render
  <2>2. /\ shown' = Snapshot' /\ Last' = Last /\ OthersDone' /\ (AllDone => AllDone')
        /\ \A stage : LastIs(stage) => LastIs(stage)'
        /\ ran = Dependencies(shown) /\ current = shown.barq
    BY <1>t, <2>1 DEF Snapshot, Last, OthersDone, AllDone, Done, LastIs, Calmly, TypeOK
  <2>3. CASE Arrived
    BY <1>l, <2>1, <2>2, <2>3 DEF Arrived, Presented, Calmly, Snapshot, Dependencies
  <2>4. CASE Changed
    BY <1>l, <2>1, <2>2, <2>4 DEF Changed, Noticed, Calmly, Snapshot, Dependencies, ShowsEarlier
  <2>5. CASE Counted
    BY <1>l, <2>1, <2>2, <2>5 DEF Counted, Rerunning, Calmly, Snapshot, Dependencies, ShowsEarlier
  <2>6. CASE Emptied
    BY <1>l, <2>1, <2>2, <2>6 DEF Emptied, Reopening, Calmly, Snapshot, Dependencies
  <2> QED BY <2>1, <2>3, <2>4, <2>5, <2>6 DEF Calmly, Mounted, Presented, Noticed, Rerunning,
             Reopening, Waiting, Steady
<1>5. CASE Effects
  <2> DEFINE opened == [config |-> shown.config, stage |-> "opening"]
             reruns == ran # Dependencies(shown)
             cleaned == IF reruns THEN Cleanup(barqs)
                        ELSE [barqs |-> barqs, barq |-> state.barq]
  <2>1. /\ phase = "committed" /\ phase' = "idle" /\ UNCHANGED <<props, shown>>
        /\ configuration' = shown.config /\ current' = shown.barq /\ ran' = Dependencies(shown)
        /\ barqs' = IF reruns /\ shown.barq = None THEN Append(cleaned.barqs, opened)
                    ELSE cleaned.barqs
        /\ state' = [barq |-> cleaned.barq,
                     version |-> IF ConfigChanged THEN state.version + 1 ELSE state.version]
    BY <1>5 DEF Effects, NextCurrent, ConfigToOpen
  <2>2. shown = Snapshot /\ shown.config = props.config /\ shown.close = props.close
        /\ shown.barq = state.barq /\ shown.version = state.version
    BY <1>l, <2>1 DEF Calmly, Mounted, Presented, Noticed, Rerunning, Reopening, Waiting, Arrived,
                Steady, Changed, Counted, Emptied, Snapshot
  <2>3. ASSUME barqs' = Append(barqs, opened), shown.barq = None, state' = state, AllDone
        PROVE  Calmly'
    <3>1. opened \in Instance
      BY <1>t, ProviderAssumption DEF TypeOK, Instance, Stages
    <3>2. /\ Last' = Last + 1 /\ barqs'[Last'] = opened /\ DOMAIN barqs' = 1 .. Last + 1
          /\ \A n \in DOMAIN barqs : barqs'[n] = barqs[n]
      <4> HIDE DEF opened
      <4> QED BY <1>l, <2>3, <3>1 DEF Last, Instances
    <3>3. LastIs("opening")'
      BY <1>l, <2>1, <2>2, <3>2 DEF LastIs
    <3>4. OthersDone'
      <4> SUFFICES ASSUME NEW n \in DOMAIN barqs', n # Last' PROVE Done(n)'
        BY DEF OthersDone
      <4>1. n \in DOMAIN barqs
        BY <1>l, <3>2
      <4> QED BY <2>1, <2>3, <3>2, <4>1 DEF AllDone, Done
    <3>5. Waiting'
      BY <2>1, <2>2, <2>3, <3>3 DEF Waiting, Snapshot
    <3> QED BY <3>4, <3>5 DEF Calmly
  <2>4. ASSUME barqs' = barqs, state' = state, shown.barq = Last, LastIs("open") PROVE Calmly'
    <3>1. Steady'
      BY <2>1, <2>2, <2>4 DEF Steady, Snapshot, LastIs, Last
    <3> QED BY <2>1, <2>4, <3>1 DEF Calmly, OthersDone, Done, Last
  <2>5. CASE Mounted
    <3>1. cleaned = [barqs |-> barqs, barq |-> state.barq] /\ reruns
      BY <2>5 DEF Mounted, Cleanup, Dependencies
    <3>2. CASE barqs = <<>>
      <4>1. Last = 0 /\ shown.barq = None /\ ~ConfigChanged /\ AllDone
        BY <2>5, <3>2 DEF Mounted, Last, None, ConfigChanged, AllDone
      <4> QED BY <1>l, <2>1, <2>3, <3>1, <4>1
    <3>3. CASE LastIs("open") /\ configuration = props.config
      <4>1. ~ConfigChanged /\ shown.barq # None
        BY <2>2, <2>5, <3>3 DEF ConfigChanged, Mounted, LastIs, None
      <4> QED BY <1>l, <2>1, <2>4, <2>5, <3>1, <3>3, <4>1 DEF Mounted
    <3> QED BY <2>5, <3>2, <3>3 DEF Mounted
  <2>6. CASE Presented
    <3>1. cleaned = [barqs |-> barqs, barq |-> state.barq]
      BY <2>6 DEF Presented, Cleanup
    <3>2. ~ConfigChanged /\ shown.barq # None
      BY <2>2, <2>6 DEF ConfigChanged, Presented, LastIs, None
    <3> QED BY <1>l, <2>1, <2>4, <2>6, <3>1, <3>2 DEF Presented
  <2>7. CASE Noticed
    <3>1. ~reruns /\ cleaned = [barqs |-> barqs, barq |-> state.barq]
      BY <2>7 DEF Noticed
    <3>2. ConfigChanged
      BY <2>2, <2>7 DEF ConfigChanged, Noticed, ShowsEarlier, None
    <3>3. barqs' = barqs /\ state' = [barq |-> state.barq, version |-> state.version + 1]
      BY <2>1, <3>1, <3>2
    <3>4. state'.version # shown.version
      BY <1>l, <2>2, <3>3
    <3>5. Counted'
      BY <1>l, <2>1, <2>2, <2>7, <3>3, <3>4 DEF Counted, Noticed, ShowsEarlier, Snapshot, Last
    <3> QED BY <2>1, <3>3, <3>5 DEF Calmly, OthersDone, Done, Last
  <2>8. CASE Rerunning
    <3>1. reruns /\ ran.barq = Last /\ Last # None /\ shown.barq # None /\ ran.close = props.close
          /\ Last \in BarqsOf(barqs) /\ Last \in DOMAIN barqs
      BY <1>l, <2>8 DEF Rerunning, ShowsEarlier, Dependencies, None, BarqsOf
    <3>2. ~ConfigChanged
      BY <2>2, <2>8 DEF Rerunning, ConfigChanged
    <3>3. /\ barqs' = IF props.close THEN ClosedIn(barqs, Last) ELSE barqs
          /\ state' = [barq |-> None, version |-> state.version]
      BY <2>1, <3>1, <3>2 DEF Cleanup
    <3>4. AllDone' /\ DOMAIN barqs' = DOMAIN barqs /\ Last' = Last
      <4>1. CASE props.close
        <5>1. /\ barqs' \in Instances /\ DOMAIN barqs' = DOMAIN barqs /\ barqs'[Last].stage # "open"
              /\ \A n \in DOMAIN barqs : barqs'[n].stage \in {barqs[n].stage, "closed"}
          BY <1>l, <3>1, <3>3, <4>1, ClosedFacts, ClosedStages
        <5>2. \A n \in DOMAIN barqs : n # Last => Done(n)
          BY DEF Calmly, OthersDone
        <5>3. barqs[Last].stage = "open"
          BY <2>8 DEF Rerunning, ShowsEarlier
        <5>4. ASSUME NEW n \in DOMAIN barqs PROVE barqs'[n].stage \notin {"opening", "open"}
          BY <4>1, <5>1, <5>2, <5>3 DEF Done
        <5>5. Last' = Last
          <6>1. DOMAIN barqs' = 1 .. Last' /\ Last' \in Nat
            BY <5>1, LenProperties DEF Last, Instances
          <6> QED BY <1>l, <5>1, <6>1
        <5> QED BY <5>1, <5>4, <5>5 DEF AllDone, Done
      <4>2. CASE ~props.close
        BY <2>1, <2>8, <3>3, <4>2 DEF AllDone, Done, Last, Rerunning, ShowsEarlier, Calmly, OthersDone
      <4> QED BY <4>1, <4>2
    <3>5. Emptied'
      BY <1>l, <2>1, <2>2, <2>8, <3>3, <3>4 DEF Emptied, Rerunning, ShowsEarlier, Snapshot
    <3> QED BY <3>4, <3>5 DEF Calmly, AllDone, OthersDone
  <2>9. CASE Reopening
    <3>1. reruns /\ ran.barq = Last /\ Last # None /\ shown.barq = None /\ ran.close = props.close
          /\ Last \in BarqsOf(barqs) /\ Last \in DOMAIN barqs /\ AllDone
      BY <1>l, <2>9 DEF Reopening, Dependencies, None, BarqsOf
    <3>2. ~ConfigChanged
      BY <2>2, <2>9 DEF Reopening, ConfigChanged
    <3>3. props.close => ClosedIn(barqs, Last) = barqs
      BY <1>l, <3>1, ClosedStages DEF AllDone, Done
    <3>4. cleaned = [barqs |-> barqs, barq |-> None]
      BY <3>1, <3>3 DEF Cleanup
    <3> HIDE DEF cleaned, reruns
    <3>5. barqs' = Append(barqs, opened)
      BY <2>1, <3>1, <3>4
    <3>6. state' = state
      BY <1>l, <2>1, <2>2, <3>1, <3>2, <3>4
    <3> QED BY <2>3, <3>1, <3>5, <3>6
  <2> QED BY <2>1, <2>5, <2>6, <2>7, <2>8, <2>9 DEF Calmly, Waiting, Arrived, Steady, Changed,
             Counted, Emptied
<1>6. ASSUME NEW n \in DOMAIN barqs, Opened(n) PROVE Calmly'
  <2>1. /\ barqs[n].stage = "opening" /\ barqs' = [barqs EXCEPT ![n].stage = "open"]
        /\ phase = "gone" \/ state' = [state EXCEPT !.barq = n]
        /\ UNCHANGED <<phase, props, shown, ran, current, configuration>>
    BY <1>6 DEF Opened
  <2>2. n = Last
    BY <2>1 DEF Calmly, OthersDone, Done
  <2>3. Waiting
    BY <1>t, <2>1, <2>2 DEF Calmly, NoneBefore, Mounted, Presented, Noticed, Rerunning, Reopening,
                Arrived, Steady, Changed, Counted, Emptied, LastIs, ShowsEarlier, AllDone, Done
  <2>4. /\ barqs' \in Instances /\ DOMAIN barqs' = DOMAIN barqs
        /\ \A m \in DOMAIN barqs : /\ barqs'[m].config = barqs[m].config
                                   /\ barqs'[m].stage = IF m = n THEN "open" ELSE barqs[m].stage
    <3>1. "open" \in Stages
      BY DEF Stages
    <3> QED BY <1>l, <2>1, <3>1, StageFacts
  <2>5. Last' = Last
    <3>1. DOMAIN barqs' = 1 .. Last' /\ Last' \in Nat
      BY <2>4, LenProperties DEF Last, Instances
    <3> QED BY <1>l, <2>4, <3>1
  <2>6. LastIs("open")'
    BY <2>1, <2>2, <2>3, <2>4, <2>5 DEF LastIs, Waiting
  <2>7. state' = [barq |-> Last, version |-> state.version]
    BY <1>l, <2>1, <2>2, <2>3 DEF Waiting
  <2>8. Arrived'
    BY <1>l, <2>1, <2>3, <2>5, <2>6, <2>7 DEF Arrived, Waiting, Snapshot
  <2>9. OthersDone'
    BY <2>1, <2>2, <2>4, <2>5 DEF Calmly, OthersDone, Done
  <2> QED BY <2>8, <2>9 DEF Calmly
<1>7. ASSUME NEW n \in DOMAIN barqs, OpenFailed(n) PROVE Calmly'
  BY <1>7 DEF OpenFailed
<1>8. CASE UNCHANGED vars
  BY <1>8 DEF vars, Calmly, OthersDone, AllDone, Done, Last, LastIs, ShowsEarlier, Snapshot,
              Dependencies, Mounted, Presented, Noticed, Rerunning, Reopening, Waiting, Arrived,
              Steady, Changed, Counted, Emptied
<1> QED BY <1>1, <1>2, <1>3, <1>4, <1>5, <1>6, <1>7, <1>8 DEF Next, React, Settles

\* Only the last Barq can be opening, and a provider that has settled shows it.
LEMMA CalmOrder == IInv /\ CalmInv => CalmIsInOrder
<1> SUFFICES ASSUME IInv, CalmInv, calm PROVE CalmIsInOrder
  BY DEF CalmIsInOrder, OneOpenAtATime, ClosedWhenCalm, AppliedWhenCalm
<1>1. Calmly
  BY DEF CalmInv
<1>2. OneOpenAtATime
  <2> DEFINE Pending == {n \in DOMAIN barqs : barqs[n].stage = "opening"}
  <2>1. Pending \in SUBSET {Last}
    BY <1>1 DEF Calmly, OthersDone, Done
  <2>2. IsFiniteSet({Last}) /\ Cardinality({Last}) = 1
    BY FS_Singleton
  <2>3. Cardinality(Pending) <= 1
    BY <2>1, <2>2, FS_Subset
  <2> QED BY <2>3 DEF OneOpenAtATime
<1>3. ClosedOnUnmount
  BY <1>1 DEF ClosedOnUnmount, Calmly, Mounted, Presented, Noticed, Rerunning, Reopening, Waiting,
              Arrived, Steady, Changed, Counted, Emptied, AllDone, Done
<1>4. ConfigApplied
  <2> SUFFICES ASSUME Settled, barqs # <<>> PROVE barqs[Tried].config = props.config
    BY DEF ConfigApplied
  <2>1. DOMAIN barqs = 1 .. Last /\ Last \in Nat
    BY LenProperties DEF IInv, TypeOK, Last
  <2>2. Steady
    BY <1>1, <2>1 DEF Calmly, Settled, Snapshot, Opening, LastIs, Mounted, Presented, Noticed,
                      Rerunning, Reopening, Waiting, Arrived, Steady, Changed, Counted, Emptied, None,
                      ShowsEarlier
  <2> QED BY <2>2 DEF Steady, Tried, LastIs, None
<1> QED BY <1>2, <1>3, <1>4 DEF CalmIsInOrder, ClosedWhenCalm, AppliedWhenCalm
----------------------------------------------------------------------------
LEMMA Invariance == Spec => []IInv
  BY InitIInv, NextIInv, PTL DEF Spec

\* The variables keep their types: a state or a ref holds a Barq that was opened.
THEOREM TypeCorrect == Spec => []TypeOK
<1>1. IInv => TypeOK
  BY DEF IInv
<1> QED BY <1>1, Invariance, PTL

\* The Barq the children get is open and was opened with the user of the context.
THEOREM ChildrenServed == Spec => []ChildrenGetTheirBarq
<1>1. IInv => ChildrenGetTheirBarq
  <2> SUFFICES ASSUME IInv, Settled, shown.barq # None
               PROVE  barqs[shown.barq].stage = "open"
    BY DEF IInv, ChildrenGetTheirBarq, ChildrenGetOpenBarq
  <2>1. phase # "gone" /\ shown.barq = state.barq
    BY DEF Settled, Snapshot
  <2> QED BY <2>1 DEF IInv, StateIsOpen
<1> QED BY <1>1, Invariance, PTL

\* A provider whose parent leaves it alone until it has settled opens one Barq at a time,
\* shows the one of its configuration and leaves none open (BarqProvider.tsx:143-192).
THEOREM CalmOrdered == Spec => []CalmIsInOrder
<1>1. Init => CalmInv
  BY ProviderAssumption DEF Init, CalmInv, Calmly, OthersDone, Done, Last
<1>2. IInv /\ IInv' /\ CalmInv /\ [Next]_vars => CalmInv'
  BY CalmStep
<1>3. Spec => []CalmInv
  BY <1>1, <1>2, Invariance, PTL DEF Spec
<1> QED BY <1>3, CalmOrder, Invariance, PTL
=============================================================================
