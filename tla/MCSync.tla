------------------------------- MODULE MCSync -------------------------------
(***************************************************************************)
(* Small instances of the sync modules.  Users and sessions share no state *)
(* of JavaScript, so a behaviour looks at one of them: the product of the  *)
(* two would add nothing.                                                  *)
(***************************************************************************)
EXTENDS Users, SyncSessions, TLC

CONSTANTS PartsToCheck

VARIABLE part

vars == <<part, userVars, sessionVars>>

Init == part \in PartsToCheck /\ UserInit /\ SessionInit

Next ==
  /\ UNCHANGED part
  /\ \/ part = "users" /\ UserNext /\ UNCHANGED sessionVars
     \/ part = "sessions" /\ SessionNext /\ UNCHANGED userVars

Spec == Init /\ [][Next]_vars

-----------------------------------------------------------------------------
MCSafe == {"a", "b", "1", "_", ".barq"}
Ann == [tenantId |-> <<"a">>, id |-> <<"a">>]
Bob == [tenantId |-> <<"a">>, id |-> <<"b", " ", "1">>]
One == [kind |-> "integer", text |-> <<"1">>]
OneText == [kind |-> "string", text |-> <<"1">>]
None == [kind |-> "undefined", text |-> <<"u">>]

Plain(user, value) ==
  [user |-> user, flexible |-> "undefined", partitionValue |-> value,
   initialSubscriptions |-> "undefined", mode |-> "none", onManual |-> FALSE,
   onBefore |-> FALSE, onAfter |-> FALSE, onFallback |-> FALSE, onError |-> FALSE,
   stopPolicy |-> "undefined", customPath |-> <<>>]

Manual(onManual, onError) ==
  [Plain(Ann, OneText) EXCEPT !.mode = "manual", !.onManual = onManual, !.onError = onError,
                              !.stopPolicy = "immediately"]

Recovering(onAfter, onFallback, customPath) ==
  [Plain(Ann, One) EXCEPT !.mode = "recoverOrDiscardUnsyncedChanges", !.onAfter = onAfter,
                          !.onFallback = onFallback, !.customPath = customPath]

\* Partitions that are a number and the same in letters, paths of the configuration's own
\* that become one path; flexible sync of another user; callbacks for errors and resets
\* in every combination; and configurations that are refused.
MCConfigs ==
  { [Recovering(TRUE, TRUE, <<>>) EXCEPT !.onError = TRUE],
    Recovering(TRUE, FALSE, <<"a">>),
    Recovering(FALSE, TRUE, <<"a", ".barq">>),
    Manual(TRUE, TRUE), Manual(TRUE, FALSE), Manual(FALSE, TRUE), Manual(FALSE, FALSE),
    [Plain(Bob, None) EXCEPT !.flexible = "true", !.initialSubscriptions = "valid",
                             !.mode = "discardUnsyncedChanges", !.onAfter = TRUE,
                             !.onFallback = TRUE, !.stopPolicy = "never"],
    [Plain(Ann, One) EXCEPT !.flexible = "true"],
    [Plain(Bob, OneText) EXCEPT !.initialSubscriptions = "valid"] }

MCSymmetry == Permutations(Sessions)
=============================================================================
