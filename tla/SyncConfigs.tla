---------------------------- MODULE SyncConfigs ----------------------------
(***************************************************************************)
(* sync/SyncConfiguration.ts: what a sync configuration must look like,    *)
(* where its Barq is kept, and which callbacks of the application the      *)
(* engine gets for errors and client resets.                               *)
(*                                                                         *)
(* A configuration is a record.  Callbacks are abstracted to whether they  *)
(* are given; the type checks of single fields (ssl, headers, proxy) are   *)
(* not modelled.  A name is a sequence of characters, of which ".barq" is  *)
(* taken for one.                                                          *)
(***************************************************************************)
EXTENDS Naturals, Sequences

CONSTANTS
  SafeCharacters  \* those that may stand in a path segment: letters, digits, ".", "_", "-"
                  \* and with them ".barq"

Modes == {"manual", "discardUnsyncedChanges", "recoverUnsyncedChanges",
          "recoverOrDiscardUnsyncedChanges"}

-----------------------------------------------------------------------------
(* Validation *)

\* validatePartitionValue: what EJSON.stringify can put into a path for good.
ValidPartition(value) ==
  value.kind \in {"integer", "string", "ObjectId", "UUID", "null"}

\* validateFlexibleSyncConfiguration
ValidFlexible(config) ==
  /\ config.flexible = "true"
  /\ config.initialSubscriptions \in {"undefined", "valid"}
  /\ config.partitionValue.kind = "undefined"

\* validatePartitionSyncConfiguration
ValidPartitionBased(config) ==
  /\ ValidPartition(config.partitionValue)
  /\ config.flexible = "undefined"
  /\ config.initialSubscriptions = "undefined"

\* validateSyncConfiguration: any truthy value of flexible is meant as flexible sync.
Valid(config) ==
  /\ config.mode \in Modes \cup {"none"}
  /\ IF config.flexible \in {"true", "truthy"}
     THEN ValidFlexible(config) ELSE ValidPartitionBased(config)

-----------------------------------------------------------------------------
(* Paths *)

Sanitized(name) ==
  IF name = <<>> THEN <<"_">>
  ELSE [i \in 1..Len(name) |-> IF name[i] \in SafeCharacters THEN name[i] ELSE "_"]

\* EJSON.stringify: a string is quoted, so that "1" and 1 differ.
Stringified(value) ==
  IF value.kind = "string" THEN <<"quote">> \o value.text \o <<"quote">> ELSE value.text

\* withSuffix: "a" and "a.barq" are one name.
WithSuffix(name) ==
  IF name # <<>> /\ name[Len(name)] = ".barq" THEN name ELSE Append(name, ".barq")

\* pathForSyncConfig: the segments below the default directory.
PathFor(user, flexible, partitionValue, customPath) ==
  IF customPath # <<>> THEN <<WithSuffix(customPath)>>
  ELSE << <<"barq-sync">>, Sanitized(user.tenantId), Sanitized(user.id),
          WithSuffix(IF flexible THEN <<"flx">> ELSE Sanitized(Stringified(partitionValue))) >>

\* Barq.determinePath for a synchronized Barq.
OpenPath(config) ==
  PathFor(config.user, config.flexible = "true", config.partitionValue, config.customPath)

\* Sync.getSyncSession
LookupPath(user, partitionValue) == PathFor(user, FALSE, partitionValue, <<>>)

-----------------------------------------------------------------------------
(* What the engine gets *)

\* toBindingErrorHandlerWithOnManual throws: there is nobody to tell.
NoHandler(config) == config.mode = "manual" /\ ~config.onError /\ ~config.onManual

\* Mutated ErrorHandler: onManual takes the place of onError.
ManualFirst(config) ==
  IF config.mode = "manual" /\ config.onManual THEN "onManual"
  ELSE IF config.onError THEN "onError" ELSE "none"

\* toBindingErrorHandlerWithOnManual and toBindingErrorHandler
ErrorHandler(config) ==
  IF config.mode # "manual" THEN (IF config.onError THEN "onError" ELSE "none")
  ELSE IF config.onError /\ config.onManual THEN "both"
  ELSE IF config.onError THEN "onError"
  ELSE "onManual"

\* parseDiscardUnsyncedChanges, parseRecoverUnsyncedChanges and
\* parseRecoverOrDiscardUnsyncedChanges: the fallback comes with onAfter.
AfterReset(config) ==
  IF config.mode \in {"none", "manual"} \/ ~config.onAfter THEN "none"
  ELSE IF config.mode = "discardUnsyncedChanges" THEN "after" ELSE "afterOrFallback"

BeforeReset(config) == config.mode \notin {"none", "manual"} /\ config.onBefore

\* parseClientResetConfig and toBindingClientResetMode
ResetMode(config) ==
  CASE config.mode = "manual" -> "Manual"
    [] config.mode = "discardUnsyncedChanges" -> "DiscardLocal"
    [] config.mode \in {"none", "recoverUnsyncedChanges"} -> "Recover"
    [] config.mode = "recoverOrDiscardUnsyncedChanges" -> "RecoverOrDiscard"

\* toBindingStopPolicy, and its default
StopPolicy(config) ==
  CASE config.stopPolicy \in {"undefined", "after-upload"} -> "AfterChangesUploaded"
    [] config.stopPolicy = "immediately" -> "Immediately"
    [] config.stopPolicy = "never" -> "LiveIndefinitely"

\* toBindingSyncConfig: what the engine opens a session with.
BindingConfig(config) ==
  [user |-> config.user, flexible |-> config.flexible = "true",
   partitionValue |-> config.partitionValue, stopPolicy |-> StopPolicy(config),
   resetMode |-> ResetMode(config), handler |-> ErrorHandler(config),
   before |-> BeforeReset(config), after |-> AfterReset(config)]

-----------------------------------------------------------------------------
(* What the callbacks the engine got do *)

\* fromBindingSyncError: a compensating write is one even if a reset is requested, too.
ErrorClass(error) ==
  IF error.compensatingWrites THEN "CompensatingWriteError"
  ELSE IF error.clientReset THEN "ClientResetError" ELSE "SyncError"

\* toBindingErrorHandler: the callbacks of the application that an error reaches.
ToldOfError(handler, error) ==
  CASE handler = "both" ->
         {IF ErrorClass(error) = "ClientResetError" THEN "onManual" ELSE "onError"}
    [] handler = "onError" -> {"onError"}
    [] handler = "onManual" ->
         IF ErrorClass(error) = "ClientResetError" THEN {"onManual"} ELSE {}
    [] handler = "none" -> {}

\* toBindingNotifyAfterClientReset and its variant with a fallback, which throws if
\* there is none.
ToldOfReset(after, didRecover, hasFallback) ==
  CASE after = "after" -> {"onAfter"}
    [] after = "afterOrFallback" ->
         IF didRecover THEN {"onAfter"} ELSE IF hasFallback THEN {"onFallback"} ELSE {"throws"}
    [] after = "none" -> {}
=============================================================================
