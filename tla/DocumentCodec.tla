---------------------------- MODULE DocumentCodec ----------------------------
(***************************************************************************)
(* The JSON layer of the configuration document: the toJSON / fromJSON    *)
(* pair of External, Pipeline (with its PipelineProcess steps) and of the *)
(* process kinds Aggregator, Completer, Filter, Spawner, Tee,             *)
(* Continuation and Entwine, the tag dispatch of Editor.updateState and   *)
(* the document Editor.render writes.  (The Annotator and Transformer     *)
(* codecs are modelled in AnnotatorBuilder and TransformerBuilder; the    *)
(* documents checked with this module hold no such process.)              *)
(*                                                                         *)
(* A JSON object is a function from its keys to its values.  An in-memory *)
(* object is a record of the class fields.  What JSON.stringify does to   *)
(* the document text is modelled where a value meets it: a key whose      *)
(* value is undefined is not written, and NaN is written as null.  A      *)
(* string the code concatenates or tests for a prefix (the external type) *)
(* is a sequence of words.                                                 *)
(***************************************************************************)
EXTENDS ConditionCodec, TLC

CONSTANTS
    UndefCond,   \* the UndefinedCondition instance
    NaN,         \* what parseInt returns for a text that is no number
    Null,        \* JSON null
    Undef        \* undefined, also the value read for a key an object lacks

\* props.k: undefined when the object has no key k.
Get(o, k) == IF k \in DOMAIN o THEN o[k] ELSE Undef

\* Reading a property of this value does not throw a TypeError.
IsObj(v) == v \notin {Undef, Null}

\* The written form of a value: JSON.stringify writes NaN as null.
Wire(v) == IF v = NaN THEN Null ELSE v

\* The written form of an object literal: keys of undefined values vanish.
Obj(r) == [k \in {x \in DOMAIN r : r[x] # Undef} |-> Wire(r[k])]

\* Condition.toJSON, and Condition.fromJSON, which gives the sentinel back
\* for no object and for {} (the JSON of the sentinel).
CondToJSON(c) == IF c = UndefCond THEN toJSON(UndefinedFields) ELSE toJSON(c)
CondFromJSON(j) == IF ~IsObj(j) THEN UndefCond
                   ELSE IF j.shape = "none" THEN UndefCond ELSE fromJSON(j)

-----------------------------------------------------------------------------
\* External: the wire type is "External" + externalType.

ExternalTypes == {"Unknown", "KVStore", "ObjectStore", "PubSub", "Http", "LocalFile"}

\* ExternalType[s]: the member of that name, else undefined (which the
\* "External" + ... concatenation writes as the word "undefined").
StrToExternalType(w) == IF Len(w) = 1 /\ w[1] \in ExternalTypes THEN w ELSE <<"undefined">>

ExternalToJSON(e) ==
    Obj([name |-> e.name, connectionString |-> e.connectionString,
         externalType |-> <<"External">> \o e.externalType])

\* Mutant: the props are taken as they are, the prefix stays on.
ExternalFromJSONRaw(j) ==
    [name |-> Get(j, "name"), externalType |-> j.externalType,
     connectionString |-> Get(j, "connectionString")]

\* External.fromJSON calls props.externalType.startsWith, which throws
\* when the type is absent.
ExternalDecodes(j) == IsObj(Get(j, "externalType"))

\* External.fromJSON: strip the first "External" when the type starts with
\* it, else keep the props as they are.
ExternalFromJSON(j) ==
    IF Len(j.externalType) > 0 /\ Head(j.externalType) = "External"
    THEN [name |-> Get(j, "name"), externalType |-> StrToExternalType(Tail(j.externalType)),
          connectionString |-> Get(j, "connectionString")]
    ELSE ExternalFromJSONRaw(j)

-----------------------------------------------------------------------------
\* Pipeline and its steps.

PipelineProcessToJSON(p) ==
    Obj([name |-> p.processRef,
         retryStrategy |-> Obj([numRetries |-> p.numRetries, initialBackOffMs |-> p.initialBackOffMs]),
         instrumentation |-> Obj([enableTracing |-> p.enableTracing, latency |-> p.enableLatency,
                                  counter |-> p.enableCounter])])

\* PipelineProcess.fromJSON: 0 and false when a group is absent.
PipelineProcessFromJSON(j) ==
    LET r == Get(j, "retryStrategy")
        i == Get(j, "instrumentation")
    IN [processRef |-> Get(j, "name"),
        numRetries |-> IF IsObj(r) THEN Get(r, "numRetries") ELSE 0,
        initialBackOffMs |-> IF IsObj(r) THEN Get(r, "initialBackOffMs") ELSE 0,
        enableTracing |-> IF IsObj(i) THEN Get(i, "enableTracing") ELSE FALSE,
        enableLatency |-> IF IsObj(i) THEN Get(i, "latency") ELSE FALSE,
        enableCounter |-> IF IsObj(i) THEN Get(i, "counter") ELSE FALSE]

\* Pipeline.toJSON: the checkpoint key only for a non-empty connector.
PipelineToJSON(p) ==
    Obj([name |-> p.name,
         processes |-> [i \in DOMAIN p.processes |-> PipelineProcessToJSON(p.processes[i])],
         enableTracing |-> p.enableTracing, enableMetrics |-> p.enableMetrics])
    @@ (IF p.checkPointConnectorRef # ""
        THEN "checkpoint" :> Obj([outputConnectorRef |-> p.checkPointConnectorRef])
        ELSE <<>>)

\* Pipeline.toJSON reads checkPointConnectorRef.length.
PipelineRenders(p) == p.checkPointConnectorRef # Undef

\* Pipeline.fromJSON maps props.processes, which throws when absent.
PipelineDecodes(j) == IsObj(Get(j, "processes"))

\* Pipeline.fromJSON: an absent or null checkpoint becomes {outputConnectorRef: ""}.
PipelineFromJSON(j) ==
    LET cp == Get(j, "checkpoint")
    IN [name |-> Get(j, "name"),
        processes |-> [i \in DOMAIN j.processes |-> PipelineProcessFromJSON(j.processes[i])],
        checkPointConnectorRef |-> IF IsObj(cp) THEN Get(cp, "outputConnectorRef") ELSE "",
        enableTracing |-> Get(j, "enableTracing"), enableMetrics |-> Get(j, "enableMetrics")]
-----------------------------------------------------------------------------
\* The process kinds.  An in-memory process is a record with its kind and
\* the fields of its class and spec object.

\* The tags Editor.updateState tests, in its order.
ProcessTags == <<"aggregator", "completer", "filter", "spawner", "tee", "continuation", "entwine">>
\* The tag each kind's toJSON writes its object under.
TagOf == [Aggregator |-> "aggregator", Completer |-> "completer", Filter |-> "filter",
          Spawner |-> "spawner", Tee |-> "tee", Continuation |-> "continuation", Entwine |-> "entwine"]

AggregationTypes == {"Unknown", "Sum", "Max", "Min", "Avg", "Count", "DiscreteHistogram"}
StrToAggregationType(s) == IF s \in AggregationTypes THEN s ELSE Undef

\* The toJSON of each kind: the object under its tag, with the spec
\* fields under the code's key names.
AggregatorToJSON(p) ==
    [name |-> p.name, condition |-> CondToJSON(p.condition), stateStore |-> p.stateStore,
     asyncCheckpoint |-> p.asyncCheckpoint, forwardState |-> p.forwardState,
     aggregation |-> Obj([key |-> p.aggregationKey, aggregationType |-> p.aggregationType,
                          groupByKeys |-> p.groupByKeys])]
CompleterToJSON(p) ==
    [name |-> p.name, condition |-> CondToJSON(p.condition), stateStore |-> p.stateStore,
     completion |-> Obj([joinKeys |-> p.joinKeys, timeoutMs |-> p.timeoutMs])]
FilterToJSON(p) == [name |-> p.name, regex |-> p.regex, keepMatched |-> p.keepMatched]
SpawnerToJSON(p) ==
    [name |-> p.name, condition |-> CondToJSON(p.condition), delayInMs |-> p.delayInMs,
     doSync |-> p.doSync,
     job |-> [runnable |-> Obj([pathToExec |-> p.pathToExec, cmdArgs |-> p.commandArgs])]]
TeeToJSON(p) ==
    [name |-> p.name, condition |-> CondToJSON(p.condition), outputConnectorRef |-> p.outputConnector,
     transformerRef |-> p.transformerRef, additionalBody |-> p.additionalBody]
ContinuationToJSON(p) == [name |-> p.name, condition |-> CondToJSON(p.condition)]
EntwineToJSON(p) ==
    [name |-> p.name, streamStateStore |-> p.streamStateStoreRef, objectStore |-> p.objectStoreRef,
     pemPath |-> p.pemPath, subStreamID |-> p.subStreamID, tickerEndpoint |-> p.tickerEndpoint,
     tickerInterval |-> p.tickerInterval, condition |-> CondToJSON(p.condition)]

\* proc.toJSON() in Editor.render: {tag: {...}}.
ProcessToJSON(p) ==
    TagOf[p.kind] :> Obj(CASE p.kind = "Aggregator" -> AggregatorToJSON(p)
                           [] p.kind = "Completer" -> CompleterToJSON(p)
                           [] p.kind = "Filter" -> FilterToJSON(p)
                           [] p.kind = "Spawner" -> SpawnerToJSON(p)
                           [] p.kind = "Tee" -> TeeToJSON(p)
                           [] p.kind = "Continuation" -> ContinuationToJSON(p)
                           [] p.kind = "Entwine" -> EntwineToJSON(p))

\* The tag Editor.updateState dispatches on: the first of its tests that
\* the object passes, or none ("cannot find process definition type").
TagIn(j) == LET hits == {i \in DOMAIN ProcessTags : ProcessTags[i] \in DOMAIN j}
            IN IF hits = {} THEN "none" ELSE ProcessTags[CHOOSE i \in hits : \A h \in hits : i <= h]

\* The dispatch finds a tag, and the fromJSON it calls reads props.a.b
\* only where props.a is there (Aggregator: aggregation, Completer:
\* completion, Spawner: job.runnable).
ProcessDecodes(j) ==
    LET t == TagIn(j)
        b == IF t = "none" THEN <<>> ELSE j[t]
    IN /\ t # "none"
       /\ t = "aggregator" => IsObj(Get(b, "aggregation"))
       /\ t = "completer" => IsObj(Get(b, "completion"))
       /\ t = "spawner" => IsObj(Get(b, "job")) /\ IsObj(Get(b.job, "runnable"))

\* The fromJSON of each kind, given proc[tag].
AggregatorFromJSON(b) ==
    [kind |-> "Aggregator", name |-> Get(b, "name"), condition |-> CondFromJSON(Get(b, "condition")),
     stateStore |-> Get(b, "stateStore"), aggregationKey |-> Get(b.aggregation, "key"),
     aggregationType |-> StrToAggregationType(Get(b.aggregation, "aggregationType")),
     groupByKeys |-> Get(b.aggregation, "groupByKeys"),
     asyncCheckpoint |-> Get(b, "asyncCheckpoint"), forwardState |-> Get(b, "forwardState")]
CompleterFromJSON(b) ==
    [kind |-> "Completer", name |-> Get(b, "name"), condition |-> CondFromJSON(Get(b, "condition")),
     stateStore |-> Get(b, "stateStore"), joinKeys |-> Get(b.completion, "joinKeys"),
     timeoutMs |-> Get(b.completion, "timeoutMs")]
FilterFromJSON(b) ==
    [kind |-> "Filter", name |-> Get(b, "name"), regex |-> Get(b, "regex"),
     keepMatched |-> Get(b, "keepMatched")]
SpawnerFromJSON(b) ==
    [kind |-> "Spawner", name |-> Get(b, "name"), condition |-> CondFromJSON(Get(b, "condition")),
     delayInMs |-> Get(b, "delayInMs"), doSync |-> Get(b, "doSync"),
     pathToExec |-> Get(b.job.runnable, "pathToExec"), commandArgs |-> Get(b.job.runnable, "cmdArgs")]
\* TeeSpec's constructor turns a null or absent body into {}.
TeeFromJSON(b) ==
    [kind |-> "Tee", name |-> Get(b, "name"), condition |-> CondFromJSON(Get(b, "condition")),
     outputConnector |-> Get(b, "outputConnectorRef"), transformerRef |-> Get(b, "transformerRef"),
     additionalBody |-> IF IsObj(Get(b, "additionalBody")) THEN b.additionalBody ELSE <<>>]
ContinuationFromJSON(b) ==
    [kind |-> "Continuation", name |-> Get(b, "name"), condition |-> CondFromJSON(Get(b, "condition"))]
EntwineFromJSON(b) ==
    [kind |-> "Entwine", name |-> Get(b, "name"),
     streamStateStoreRef |-> Get(b, "streamStateStore"), objectStoreRef |-> Get(b, "objectStore"),
     pemPath |-> Get(b, "pemPath"), subStreamID |-> Get(b, "subStreamID"),
     tickerEndpoint |-> Get(b, "tickerEndpoint"), tickerInterval |-> Get(b, "tickerInterval"),
     condition |-> CondFromJSON(Get(b, "condition"))]

\* X.fromJSON(proc[tag]) for the tag the dispatch picked.
ProcessFromJSON(j) ==
    LET t == TagIn(j)
    IN CASE t = "aggregator" -> AggregatorFromJSON(j[t])
         [] t = "completer" -> CompleterFromJSON(j[t])
         [] t = "filter" -> FilterFromJSON(j[t])
         [] t = "spawner" -> SpawnerFromJSON(j[t])
         [] t = "tee" -> TeeFromJSON(j[t])
         [] t = "continuation" -> ContinuationFromJSON(j[t])
         [] t = "entwine" -> EntwineFromJSON(j[t])
=============================================================================
