------------------------------ MODULE MCValues ------------------------------
(***************************************************************************)
(* Small instances of what crosses the boundary between an application and *)
(* the engine: configurations, schemas, values, decimals, the classes that *)
(* the Babel plugin turns into schemas, ids and values in the notations    *)
(* they are exchanged in, the native calls themselves and the files.  A    *)
(* behaviour looks at one of them, and, but for the calls, the files and   *)
(* the making of ids, at one value, without a step.                        *)
(***************************************************************************)
EXTENDS BindingTypes, Decimals, NativeCalls, BabelPlugin, Configurations,
        Files, ValueTypes

CONSTANTS PartsToCheck

VARIABLE part

vars == <<part, callVars, declaration, assignment, text, classProperty, opening, fileVars,
          valueVars>>

(* Each way to write a property, as the primary key and not; and the ways  *)
(* to write the rest of a model, each field of a wrong type among them.    *)
MCDeclarations ==
  LET string == [f \in {"type", "objectType", "presentation", "property", "optional", "indexed",
                        "vector", "mapTo", "default"} |-> IF f = "type" THEN "string" ELSE Missing]
      mistyped == {[string EXCEPT ![f] = Mistyped] : f \in DOMAIN string \ {"default"}}
      flags == {Missing, TRUE, FALSE, Mistyped}
      model(notation, properties, keys, values) ==
        [notation : {notation}, property : properties, primaryKey : keys, embedded : values,
         asymmetric : values]
      written == {Missing, PropertyName}
  IN model("shorthand", Shorthands, written, {Missing})
       \cup model("object", PropertyObjects, written, {Missing})
       \cup model("object", mistyped \cup {string}, written \cup {OtherName, Mistyped}, flags)

NoDeclaration ==
  [notation |-> "shorthand", property |-> <<>>, primaryKey |-> Missing, embedded |-> Missing,
   asymmetric |-> Missing]

(* The ends of the integers and those beyond, whole numbers and halves, a  *)
(* number that is only nearly a float, times before and after 1970, parts  *)
(* of buffers, and one value of every other kind.                          *)
MCAssignable ==
  LET some(kindOf, values) == {Js(kindOf, h) : h \in values}
      buffer == <<1, 2, 3, 4>>
      views == {[buffer |-> buffer, from |-> 1, to |-> 3], [buffer |-> buffer, from |-> 0, to |-> 4]}
  IN some("number", {-20, -16, -3, 0, 3, 12, 16, NaN})
       \cup {JsUndefined, JsNull, Js("boolean", TRUE)}
       \cup some("bigint", {-9, -8, -5, 0, 5, 7, 8})
       \cup some("string", [bytes : {<<1, 2>>}, time : {NaN, 5, -2}])
       \cup some("Date", {NaN, -8, -7, -2, 0, 7, 8})
       \cup some("arrayBuffer", {<<1, 2>>}) \cup some("view", views)
       \cup some("Counter", {4})
       \cup {Js(k, "id") : k \in {"ObjectId", "UUID", "Decimal128"}}
       \cup some("BarqObject", [id : {"id"}, owner : {"this", "another"}, embedded : BOOLEAN])
       \cup {Js(k, <<>>) : k \in {"Set", "BarqSet", "BarqList", "BarqDictionary", "geo",
                                 "function", "symbol", "plain"}}
       \cup some("array", {<<Js("number", 3), Js("bigint", 5)>>, <<JsUndefined>>})

(* The templates of the generator, in one another.                         *)
MCCppTypes ==
  LET leaf(name) == [type |-> name, inner |-> <<>>]
      typed(name, inner, values) == [is |-> [type |-> name, inner |-> inner], values |-> values]
      some(name, data) == [is |-> leaf(name), values |-> {Cpp(name, d) : d \in data}]
      mixed == [is |-> leaf("Mixed"), values |-> {CppNull, Cpp("double", 3), Cpp("UUID", "id")}]
      leaves == {some("bool", {FALSE}), some("int64", {-8, 7}), some("uint64", {15}),
                 some("count", {0, 15}), some("float", {3}), some("enum", {1}),
                 some("string", {"text"}), mixed}
      optional(types) == {typed("optional", <<t.is>>, t.values \cup {Nothing}) : t \in types}
      nullable(types) ==
        {typed("Nullable", <<t.is>>, t.values \cup {Nothing}) : t \in types \ {mixed}}
      upTo2(values) == UNION {[1..n -> values] : n \in 0..2}
      vectors(types) ==
        {typed("vector", <<t.is>>, {Cpp("vector", v) : v \in upTo2(t.values)}) : t \in types}
      tuples(types) ==
        {typed("tuple", <<t.is, leaf("bool")>>,
               {Cpp("tuple", <<v, Cpp("bool", FALSE)>>) : v \in t.values}) : t \in types}
      maps(types) ==
        {typed("map", <<leaf("string"), t.is>>,
               {Cpp("map", m) : m \in UNION {[keys -> t.values] : keys \in SUBSET {"k", "l"}}}) :
           t \in types}
      structs(types) ==
        {typed("struct", [first |-> leaf("int64"), second |-> t.is],
               {Cpp("struct", [first |-> Cpp("int64", 7), second |-> v]) : v \in t.values}) :
           t \in types}
      unary == leaves \cup optional(leaves) \cup nullable(leaves) \cup vectors(leaves)
      function == [is |-> leaf("function"), values |-> {Nothing}]
  IN unary \cup optional(nullable(leaves)) \cup optional(vectors(leaves)) \cup vectors(unary)
       \cup tuples(unary) \cup maps(unary) \cup structs(unary \cup {function})

NoAssignment == [platform |-> "node", type |-> "bool", optional |-> FALSE, value |-> JsNull]

(* Up to three digits before the point and two behind it, where a decimal  *)
(* holds two.                                                              *)
MCTexts ==
  LET upTo(n) == UNION {[1..k -> {0, 1, 5, 9}] : k \in 0..n}
  IN [negative : {FALSE}, whole : upTo(3), fraction : upTo(2), exponent : -2..2] \cup Specials

NoText == CHOOSE special \in Specials : TRUE

(* Each type, in a union and as the element of each collection, required   *)
(* and not; for the simplest, each initializer, decorator and static.      *)
MCDeclaredProperties ==
  LET barq == "@barqdb/barq"
      reference(left, name, from, args) ==
        [is |-> "reference", left |-> left, name |-> name, from |-> from, args |-> args]
      alias(name) == reference("Types", name, barq, <<>>)
      keyword(name) == [is |-> "keyword", name |-> name]
      undefined == [is |-> "undefined"]
      literal == [is |-> "literal", name |-> PropertyName]
      or(first, second) == [is |-> "union", of |-> <<first, second>>]
      someClass == CHOOSE class \in Classes : TRUE
      class == reference("none", someClass, "none", <<>>)
      leaves ==
        {keyword(name) : name \in {"boolean", "string", "number", "any"}}
          \cup {alias(name) : name \in DOMAIN Aliases}
          \cup {class, reference("none", "Date", "none", <<>>), reference("none", "ArrayBuffer", "none", <<>>),
                reference("none", "Int", barq, <<>>), reference("Barq", "Mixed", barq, <<>>),
                reference("Barq", "Int", barq, <<>>), reference("Barq.Types", "UUID", barq, <<>>),
                reference("Types", "Int", "none", <<>>)}
      maybe(types) == {or(t, undefined) : t \in types} \cup {or(undefined, t) : t \in types}
      collections(types) ==
        {reference(left, name, barq, <<t>>) :
           left \in {"Types", "Barq"}, name \in DOMAIN CollectionAliases, t \in types}
      backlinks ==
        {reference("Types", "LinkingObjects", barq, args) :
           args \in {<<class, literal>>, <<class>>, <<keyword("string"), literal>>, <<class, class>>}}
      some == leaves \cup collections(leaves)
      types == some \cup maybe(some) \cup collections(maybe(leaves) \cup collections({alias("Int")}))
                 \cup backlinks \cup maybe(backlinks) \cup {or(undefined, undefined), or(class, alias("Int"))}
                 \cup {[is |-> "union", of |-> <<class, alias("Int"), undefined>>]}
                 \cup {reference("Types", "List", barq, <<>>)}
      plain == [annotation |-> keyword("string"), optional |-> FALSE, value |-> Missing,
                decorators |-> {}, statics |-> <<>>, extension |-> "ts",
                superClass |-> [left |-> "Barq", name |-> "Object", from |-> barq]]
      typed == {[plain EXCEPT !.annotation = t, !.optional = o] : t \in types, o \in BOOLEAN}
      created(left, name, from) == [is |-> "new", left |-> left, name |-> name, from |-> from]
      values ==
        {Missing, [is |-> "other"]} \cup {[is |-> "literal", of |-> t] : t \in {"bool", "string", "double"}}
          \cup {created("Types", name, barq) : name \in {"ObjectId", "UUID", "Date", "Int"}}
          \cup {created("none", "Date", "none"), created("Types", "UUID", "none")}
      decorator(name, called, arg, from) == [name |-> name, called |-> called, arg |-> arg, from |-> from]
      decorators ==
        {{}, {decorator("index", FALSE, Missing, barq)}, {decorator("index", FALSE, Missing, "none")},
         {decorator("index", TRUE, "full-text", barq)}, {decorator("mapTo", TRUE, OtherName, barq)},
         {decorator("mapTo", TRUE, OtherName, barq), decorator("index", TRUE, "indexed", barq)}}
      statics ==
        {<<>>, [primaryKey |-> PropertyName], [embedded |-> TRUE], [schema |-> TRUE]}
      superClasses ==
        {[left |-> left, name |-> name, from |-> from] :
           left \in {"none", "Barq"}, name \in {"Object", "Other"}, from \in {barq, "none"}}
  IN typed
       \cup {[plain EXCEPT !.annotation = t, !.value = v, !.decorators = d, !.statics = s] :
              t \in {Missing, keyword("string")}, v \in values, d \in decorators, s \in statics}
       \cup {[plain EXCEPT !.superClass = c, !.extension = e] : c \in superClasses, e \in {"ts", "js"}}

(* Each field that is looked at alone, with a value of each kind; those    *)
(* that are looked at together in every combination.                       *)
MCPlain ==
  [f \in DOMAIN AcceptedValues \cup {"sync", "migrationOptions"} |-> Unset]

MCNoProxies == [v \in {ProxyVariables[i] : i \in DOMAIN ProxyVariables} |-> Unset]

MCSync ==
  [user |-> [tenantId |-> <<"t">>, id |-> <<"u">>], flexible |-> "undefined",
   partitionValue |-> [kind |-> "integer", text |-> <<"1">>], initialSubscriptions |-> "undefined",
   mode |-> "none", onManual |-> FALSE, onBefore |-> FALSE, onAfter |-> FALSE, onFallback |-> FALSE,
   onError |-> FALSE, stopPolicy |-> "undefined", customPath |-> <<>>,
   cancelWaitOnNonFatalError |-> Unset, cancelWaitsOnNonFatalError |-> Unset,
   newBarqFileBehavior |-> Unset, existingBarqFileBehavior |-> Unset, customHttpHeaders |-> Unset,
   ssl |-> Unset, proxyConfig |-> Unset]

MCSyncs ==
  LET behaviors ==
        {WrongType} \cup [type : {"downloadBeforeOpen", "openImmediately", WrongType},
                          timeOut : {Unset, "number", WrongType},
                          timeOutBehavior : {Unset, "openLocalBarq", "throwException", WrongType}]
      ssls ==
        {WrongType} \cup [validate : {Unset, "boolean", WrongType}, certificatePath : {Unset, "text", WrongType},
                          validateCertificates : {Unset, "function", WrongType}]
      callbacks == BOOLEAN \cup {WrongType}
      partitions == {[kind |-> k, text |-> <<"1">>] : k \in {"undefined", "integer", "other"}}
  IN {[MCSync EXCEPT !.newBarqFileBehavior = b] : b \in behaviors}
       \cup {[MCSync EXCEPT !.existingBarqFileBehavior = b] : b \in behaviors}
       \cup {[MCSync EXCEPT !.ssl = s] : s \in ssls}
       \cup {[MCSync EXCEPT !.cancelWaitOnNonFatalError = c, !.cancelWaitsOnNonFatalError = d] :
               c \in {Unset, "boolean", WrongType}, d \in {Unset, "boolean", WrongType}}
       \cup {[MCSync EXCEPT !.customHttpHeaders = h] : h \in {"texts", "others", WrongType}}
       \cup {[MCSync EXCEPT !.proxyConfig = p] : p \in {"http", "https", "other"}}
       \cup {[MCSync EXCEPT !.flexible = f, !.partitionValue = v, !.initialSubscriptions = i] :
               f \in {"undefined", "true", "truthy"}, v \in partitions,
               i \in {"undefined", "valid", "invalid"}}
       \cup {[MCSync EXCEPT !.mode = m, !.onManual = manual, !.onError = e, !.onAfter = a] :
               m \in Modes \cup {"none", "other"}, manual \in callbacks, e \in callbacks, a \in callbacks}
       \cup {WrongType, [MCSync EXCEPT !.user = WrongType]}

MCOpenings ==
  LET fields == [path |-> {"relative", "empty", WrongType}, schema |-> {"models", WrongType},
                 schemaVersion |-> {"whole", "negative", WrongType},
                 fifoFilesFallbackPath |-> {"text", WrongType}, shouldCompact |-> {"function", WrongType},
                 disableFormatUpgrade |-> BOOLEAN \cup {WrongType}, encryptionKey |-> {"bytes", WrongType},
                 readOnly |-> {WrongType}, inMemory |-> {WrongType}, onMigration |-> {WrongType},
                 migrationOptions |-> {"keep", WrongType}, openSyncedBarqLocally |-> {FALSE},
                 deleteBarqIfMigrationNeeded |-> {WrongType}]
      flags == BOOLEAN \cup {Unset}
      alone == UNION {{[MCPlain EXCEPT ![f] = v] : v \in fields[f]} : f \in DOMAIN fields}
      together ==
        {[MCPlain EXCEPT !.readOnly = r, !.deleteBarqIfMigrationNeeded = d, !.inMemory = m,
                         !.onMigration = c, !.migrationOptions = o, !.sync = s,
                         !.openSyncedBarqLocally = l, !.schemaVersion = v] :
           r \in flags, d \in flags, m \in flags, c \in {Unset, "function"},
           o \in {Unset, "falsy", "resolve", "empty"}, s \in {Unset, MCSync}, l \in {Unset, TRUE},
           v \in {Unset, "whole"}}
      proxies == [DOMAIN MCNoProxies -> {Unset, "http", "https", "other"}]
      with(configs, environments) == [config : configs, environment : environments]
  IN with(alone \cup together, {MCNoProxies})
       \cup with({[MCPlain EXCEPT !.sync = s] : s \in MCSyncs}, {MCNoProxies})
       \cup with({[MCPlain EXCEPT !.sync = MCSync]}, proxies)

(* A Barq of no user at three paths, one of them without ".barq"; and of   *)
(* each user, where it is kept by default.                                 *)
MCAsked ==
  LET local(path) == [path |-> path, user |-> NoUser, locally |-> FALSE]
      named(isAbsolute, directory, stem, barq) ==
        [isAbsolute |-> isAbsolute, directory |-> directory, stem |-> stem, barq |-> barq]
  IN {local(NoPath), local(named(FALSE, <<>>, "some", TRUE)), local(named(FALSE, <<>>, "some", FALSE)),
      local(named(TRUE, <<"documents", "below">>, "some", TRUE)),
      [path |-> NoPath, user |-> "u1", locally |-> FALSE]}

(* Two users ask for the same name.                                        *)
MCShared ==
  {[path |-> [isAbsolute |-> FALSE, directory |-> <<>>, stem |-> "some", barq |-> TRUE],
    user |-> u, locally |-> FALSE] : u \in {"u1", "u2"}}

MCDocuments == <<"documents">>
MCDirectories == {MCDocuments, <<"documents", "below">>}

(* The second is below a directory, the third not named like a Barq.       *)
MCBundled ==
  {Path(<<>>, "some", TRUE), Path(<<"below">>, "some", TRUE), Path(<<>>, "other", TRUE)}

NoSample == [is |-> "none", of |-> <<>>]

(* Each id in each of its notations, as an argument of either constructor; *)
(* a value of each kind, also within arrays and objects, some of them with *)
(* the keys of the notation; shapes in groups that are the same shape.     *)
MCSamples ==
  LET objectId == ObjectIdAt(1, ProcessRandom, 2)
      uuid == Versioned([version |-> 1, variant |-> 3, rest |-> 0])
      texts == [of : {objectId, uuid}, upper : BOOLEAN, dashes : BOOLEAN] \cup {Wrong}
      ids == {Js("string", t) : t \in texts} \cup {Js("bytes", b) : b \in {objectId, uuid, Wrong}}
               \cup {Js("ObjectId", objectId), Js("UUID", uuid), Js("boolean", TRUE)}
      simple == {Js("ObjectId", objectId), Js("UUID", uuid), Js("Decimal128", "1.5"),
                 Js("Binary", [bytes |-> "some", subType |-> 4]), Js("Date", 3), Js("Date", NaN),
                 Js("number", 3), Js("number", NaN), Js("bigint", 3), Js("boolean", TRUE),
                 Js("string", ToText(objectId)), Js("string", Wrong), JsNull, JsUndefined}
      tagged(values) == {Tagged(m, v) : m \in {"$oid", "$uuid", "$numberDecimal", "$date"}, v \in values}
      within(values) ==
        {Js("array", <<v, JsNull>>) : v \in values}
          \cup {Plain([first |-> v, second |-> JsNull]) : v \in values}
          \cup {Plain([m \in {"$oid", "second"} |-> v]) : v \in values}
      once == within(simple) \cup tagged(simple)
      other == <<3, 1>>
      notations(position) ==
        <<[position |-> position], [type |-> "Point", coordinates |-> position],
          [longitude |-> position[1], latitude |-> position[2]]
            @@ IF Len(position) = 2 THEN <<>> ELSE [altitude |-> position[3]]>>
      end == [position |-> other]
      circles(points) == [i \in DOMAIN points |-> [center |-> points[i], distance |-> 1]]
      boxes(points) == [i \in DOMAIN points |-> [bottomLeft |-> points[i], topRight |-> end]]
      rings(points) == [i \in DOMAIN points |-> [outerRing |-> <<points[i], end, points[i]>>]]
      holed(points) == [i \in DOMAIN points |-> rings(points)[i] @@ [holes |-> <<<<end>>>>]]
      polygon(position, holes) ==
        <<[type |-> "Polygon", coordinates |-> <<<<position, other, position>>>> \o holes]>>
      shapes(position) ==
        LET points == notations(position)
        IN {circles(points), boxes(points), rings(points) \o polygon(position, <<>>),
            holed(points) \o polygon(position, <<<<other>>>>)}
      samples(is, of) == [is : {is}, of : of]
  IN samples("id", ids)
       \cup samples("exchanged", simple \cup once \cup within(once) \cup tagged(once))
       \cup samples("shapes", shapes(<<1, 2>>) \cup shapes(<<1, 2, 3>>)) \cup {NoSample}

NoValueTypes == sample = NoSample /\ counter = 0 /\ made = <<>>

(* What is read is what was written, in each notation there is of it: a    *)
(* decimal of digits, an id, a value of extended JSON and a shape.         *)
NotationsAgree == TextsAreDecimals /\ ValueTypesAgree

NoFiles ==
  /\ system = "node" /\ defaultDirectory = Documents /\ directories = {Documents}
  /\ disk = <<>> /\ opened = {} /\ fileCalls = 0
  /\ filed = [op |-> "none", path |-> DefaultPath, before |-> <<>>, threw |-> FALSE]

Init ==
  /\ part \in PartsToCheck
  /\ IF part = "schemas" THEN SchemasInit ELSE declaration = NoDeclaration
  /\ IF part = "values" THEN TypeHelpersInit ELSE assignment = NoAssignment
  /\ IF part = "decimals" THEN DecimalsInit ELSE text = NoText
  /\ IF part = "plugin" THEN PluginInit ELSE classProperty = <<>>
  /\ IF part = "configurations" THEN ConfigurationsInit
     ELSE opening = [config |-> MCPlain, environment |-> MCNoProxies]
  /\ IF part = "files" THEN FilesInit ELSE NoFiles
  /\ IF part \in {"types", "ids"} THEN ValueTypesInit ELSE NoValueTypes
  /\ part \in {"types", "ids"} => ((part = "ids") <=> (sample.is = "none"))
  /\ CallsInit

Next ==
  /\ UNCHANGED <<part, declaration, assignment, text, classProperty, opening>>
  /\ \/ part = "calls" /\ CallsNext /\ UNCHANGED <<fileVars, valueVars>>
     \/ part = "files" /\ FilesNext /\ UNCHANGED <<callVars, valueVars>>
     \/ part = "ids" /\ ValueTypesNext /\ UNCHANGED <<callVars, fileVars>>

Spec == Init /\ [][Next]_vars

MCSymmetry == Permutations(Wrappers)
=============================================================================
