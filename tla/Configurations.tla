--------------------------- MODULE Configurations ---------------------------
(***************************************************************************)
(* Configuration.ts and sync/SyncConfiguration.ts: which configurations of *)
(* an application are accepted; and Barq.transformConfig: what the engine  *)
(* gets of an accepted one.                                                *)
(*                                                                         *)
(* A field holds Unset, WrongType (a value of a JavaScript type it may not *)
(* have) or one of a few values that the code tells apart.  Schemas and    *)
(* paths have modules of their own.                                        *)
(***************************************************************************)
EXTENDS SyncConfigs

CONSTANTS
  Unset,        \* undefined
  WrongType,
  Openings      \* what is looked at: [config, environment]

\* What is returned where an exception is thrown.
Thrown == [thrown |-> TRUE]

ASSUME ConfigurationsAssumption ==
  /\ WrongType \notin {Unset, "text", "bytes", "boolean"} /\ WrongType \notin BOOLEAN
  /\ Unset # Thrown

\* A configuration, and the proxies the environment names.
VARIABLE opening

-----------------------------------------------------------------------------
(* Validation *)

\* Mutated AcceptedValues: the check of encryptionKey is gone.
AcceptedWithAnyKey ==
  [path |-> {"relative", "absolute"}, schema |-> {"models"}, schemaVersion |-> {"whole"},
   inMemory |-> BOOLEAN, readOnly |-> BOOLEAN, fifoFilesFallbackPath |-> {"text"},
   onMigration |-> {"function"}, openSyncedBarqLocally |-> {TRUE}, shouldCompact |-> {"function"},
   deleteBarqIfMigrationNeeded |-> BOOLEAN, disableFormatUpgrade |-> BOOLEAN,
   encryptionKey |-> {"bytes", WrongType}]

\* What a field may hold that is given.
AcceptedValues ==
  [path |-> {"relative", "absolute"}, schema |-> {"models"}, schemaVersion |-> {"whole"},
   inMemory |-> BOOLEAN, readOnly |-> BOOLEAN, fifoFilesFallbackPath |-> {"text"},
   onMigration |-> {"function"}, openSyncedBarqLocally |-> {TRUE}, shouldCompact |-> {"function"},
   deleteBarqIfMigrationNeeded |-> BOOLEAN, disableFormatUpgrade |-> BOOLEAN,
   encryptionKey |-> {"bytes"}]

\* validateMigrationOptions; a falsy value is taken for none.
ValidMigrationOptions(options) ==
  \/ options \in {Unset, "falsy"}
  \/ options \in {"resolve", "keep", "empty"}

\* What excludes a sync configuration.
SyncAllowed(config) ==
  /\ config.onMigration = Unset
  /\ config.migrationOptions \in {Unset, "falsy"}
  /\ config.inMemory = Unset
  /\ config.deleteBarqIfMigrationNeeded = Unset

\* validateOpenBarqBehaviorConfiguration
ValidBehavior(behavior) ==
  \/ behavior = Unset
  \/ /\ behavior # WrongType
     /\ behavior.type \in {"downloadBeforeOpen", "openImmediately"}
     /\ behavior.timeOut \in {Unset, "number"}
     /\ behavior.timeOutBehavior \in {Unset, "openLocalBarq", "throwException"}

\* validateSSLConfiguration
ValidSsl(ssl) ==
  \/ ssl = Unset
  \/ /\ ssl # WrongType
     /\ ssl.validate \in {Unset, "boolean"}
     /\ ssl.certificatePath \in {Unset, "text"}
     /\ ssl.validateCertificates \in {Unset, "function"}

\* validateClientResetConfiguration; the mode is looked at with the rest.
ValidClientReset(sync) ==
  \A callback \in {"onManual", "onAfter", "onBefore", "onFallback"} : sync[callback] # WrongType

\* validateSyncConfiguration; the name of one field is misspelled, so that the field of
\* that name, which nobody sets, is what is checked.
ValidSync(sync) ==
  /\ sync # WrongType
  /\ sync.user # WrongType
  /\ sync.cancelWaitOnNonFatalError \in {Unset, "boolean"}
  /\ ValidBehavior(sync.newBarqFileBehavior)
  /\ ValidBehavior(sync.existingBarqFileBehavior)
  /\ sync.onError # WrongType
  /\ sync.customHttpHeaders \in {Unset, "texts"}
  /\ ValidSsl(sync.ssl)
  /\ ValidClientReset(sync)
  /\ Valid(sync)

\* validateConfiguration
Accepted(config) ==
  /\ \A field \in DOMAIN AcceptedValues :
       config[field] = Unset \/ config[field] \in AcceptedValues[field]
  /\ config.sync # Unset => SyncAllowed(config) /\ ValidSync(config.sync)
  /\ ValidMigrationOptions(config.migrationOptions)

-----------------------------------------------------------------------------
(* What the engine gets *)

IsOn(value) == value # Unset /\ value

\* Barq.determineSchemaMode refuses these, which were accepted.
Contradictory(config) ==
  /\ IsOn(config.deleteBarqIfMigrationNeeded)
  /\ IsOn(config.readOnly) \/ config.onMigration # Unset

SchemaMode(config) ==
  IF IsOn(config.readOnly) THEN "Immutable"
  ELSE IF IsOn(config.deleteBarqIfMigrationNeeded) THEN "SoftResetFile"
  ELSE IF config.sync # Unset THEN "AdditiveExplicit" ELSE "Automatic"

\* The variables in the order they are looked at: the first that is set is taken.
ProxyVariables == <<"HTTPS_PROXY", "https_proxy", "HTTP_PROXY", "http_proxy">>

\* syncProxyConfig.create of Node throws for another protocol.
EnvironmentProxy(environment) ==
  LET given == {i \in DOMAIN ProxyVariables : environment[ProxyVariables[i]] # Unset}
      first == environment[ProxyVariables[CHOOSE i \in given : \A j \in given : i <= j]]
  IN IF given = {} THEN Unset
     ELSE IF first \in {"http", "https"} THEN first ELSE WrongType

\* parseProxyType has no value for another type, and the binding refuses the struct.
ParsedProxy(proxy) == IF proxy \in {"http", "https"} THEN proxy ELSE WrongType

Proxy(sync, environment) ==
  IF sync.proxyConfig # Unset THEN ParsedProxy(sync.proxyConfig) ELSE EnvironmentProxy(environment)

\* The binding converts an optional field that is given, and throws.
Converts(value) == value # WrongType

\* toBindingSyncConfig and the conversion of what it returns; a user that is logged out
\* is none for it to use.
SyncForEngine(sync, environment) ==
  IF \/ NoHandler(sync)
     \/ sync.ssl # Unset /\ ~(Converts(sync.ssl.validate) /\ Converts(sync.ssl.certificatePath))
     \/ sync.customHttpHeaders \notin {Unset, "texts"}
     \/ ~Converts(sync.cancelWaitsOnNonFatalError)
     \/ ~Converts(Proxy(sync, environment))
  THEN Thrown
  ELSE [given |-> BindingConfig(sync), proxy |-> Proxy(sync, environment),
        verifies |-> sync.ssl # Unset /\ sync.ssl.validateCertificates # Unset]

\* Barq.transformConfig and the conversion of what it returns.
TransformConfig(config, environment) ==
  LET sync == IF config.sync = Unset THEN Unset ELSE SyncForEngine(config.sync, environment)
  IN IF \/ Contradictory(config)
        \/ sync = Thrown
        \/ ~Converts(config.fifoFilesFallbackPath)
        \/ ~Converts(config.disableFormatUpgrade)
        \/ ~Converts(config.encryptionKey)
     THEN Thrown
     ELSE [schemaMode |-> SchemaMode(config),
           schemaVersion |-> IF config.schema = Unset THEN Unset
                             ELSE IF config.schemaVersion = Unset THEN "zero" ELSE config.schemaVersion,
           inMemory |-> IsOn(config.inMemory),
           migrates |-> config.onMigration # Unset,
           compacts |-> config.shouldCompact # Unset,
           encryptionKey |-> config.encryptionKey,
           sync |-> sync,
           forceSyncHistory |-> config.openSyncedBarqLocally,
           resolvesConstraints |-> config.migrationOptions = "resolve"]

ConfigurationsInit == opening \in Openings

\* What was given stays.
ConfigurationsSpec == ConfigurationsInit /\ [][UNCHANGED opening]_opening

-----------------------------------------------------------------------------
(***************************************************************************)
(* Properties.                                                             *)
(***************************************************************************)

\* A configuration that was accepted can be opened: the engine is asked for one way to
\* treat the file, and not for two that exclude each other, and no value reaches the
\* conversions that they refuse.  This leaves out what the code does not check before:
\* two pairs of options, a manual client reset nobody handles, the misspelled field,
\* proxies.
AcceptedIsOpened ==
  LET config == opening.config
      sync == config.sync
      given == TransformConfig(config, opening.environment)
      isUnchecked ==
        \/ Contradictory(config)
        \/ /\ sync # Unset
           /\ \/ NoHandler(sync) \/ ~Converts(sync.cancelWaitsOnNonFatalError)
              \/ ~Converts(Proxy(sync, opening.environment))
  IN Accepted(config) /\ ~isUnchecked =>
       /\ given # Thrown
       /\ given.schemaMode = "SoftResetFile" => ~given.migrates
       /\ given.sync # Unset =>
            /\ ~given.inMemory /\ ~given.migrates
            /\ given.schemaMode \in {"Immutable", "AdditiveExplicit"}
            /\ given.sync.given.handler = "none" => given.sync.given.resetMode # "Manual"
=============================================================================
