---------------------------- MODULE MCAsyncOpen ----------------------------
(***************************************************************************)
(* Small instances of AsyncOpen.                                           *)
(***************************************************************************)
EXTENDS AsyncOpen

CONSTANTS o1, o2, p1

OnePath == [o \in {o1, o2} |-> p1]

Same(b, flexible, initial) ==
  [onNew |-> b, onExisting |-> b, flexible |-> flexible, initial |-> initial]

\* Timeouts that reject and that open the local file, initial subscriptions for
\* a new file, and a file that is opened at once if it exists.
SafeConfigs ==
  {[onNew |-> "throw", onExisting |-> "immediate", flexible |-> TRUE, initial |-> "once"],
   Same("local", FALSE, "none")}

\* A download that nothing but the network ends, with initial subscriptions for
\* every open, an open that is refused because its timeout lacks a behaviour, and
\* a download with a timeout that rejects.
SettlingConfigs ==
  {[onNew |-> "wait", onExisting |-> "invalid", flexible |-> TRUE, initial |-> "rerun"],
   Same("throw", FALSE, "none")}

OnceConfigs == {Same("wait", TRUE, "once")}
=============================================================================
