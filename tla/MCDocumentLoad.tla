---------------------------- MODULE MCDocumentLoad ----------------------------
(* The objects the builders save: an External, an Aggregator with a       *)
(* condition, a Spawner whose delay field held no number (parseInt gave   *)
(* NaN), and a pipeline without checkpoint connector.  The documents: one *)
(* with a partitionUuid, an External of another type, a Filter, a         *)
(* Continuation and an Aggregator without flags or known type; one        *)
(* without partitionUuid, with a Tee (null body) and an Entwine under one *)
(* name and a pipeline with bare steps; one that is not JSON; one whose   *)
(* Spawner has no job and whose other process has no known tag; one with  *)
(* an External without prefix, a Completer and a checkpoint of {}.        *)
EXTENDS DocumentLoad, ProcessForms

CONSTANTS a, b, u1, u2, gen, absent, undefcond, nan, null, undef

MCCollections == {"externalSystems", "processDefinitions", "pipelines"}

Ex == [operatorType |-> "Exists", operator |-> "Exists", lhs |-> <<>>, rhs |-> <<"k">>]
ExJSON == [shape |-> "exists", op |-> "Exists", key |-> <<"k">>]

\* An input event and a condition save of a builder dialog.
Ev(id, v) == [id |-> id, v |-> v]
Cond == Ev("condition", Ex)

\* The objects the builders save: create dialogs driven through every
\* onChange branch.  Converted texts are character sequences: "" and
\* "7a" for parseInt, "x,y" and "" for split.
MCVals ==
  [c \in MCCollections |->
     CASE c = "externalSystems" ->
            {Built("External", <<Ev("externalName", a), Ev("externalType", <<"ObjectStore">>),
                                 Ev("connectionString", "cs")>>, "")}
       [] c = "processDefinitions" ->
            {Built("Aggregator", <<Ev("aggregatorName", a), Ev("stateStore", "kv"),
                                   Ev("aggregationKey", "k"), Ev("aggregationType", "Sum"), Cond,
                                   Ev("groupByKeys", <<"x", ",", "y">>), Ev("forwardState", "on")>>, ""),
             Built("Aggregator", <<Ev("aggregatorName", b), Ev("aggregationType", "Choose..."),
                                   Ev("groupByKeys", <<>>), Ev("asyncCheckpoint", "on")>>, ""),
             Built("Completer", <<Ev("completerName", a), Ev("stateStore", "kv"),
                                  Ev("joinKeys", <<"x">>), Ev("timeoutMs", <<"1", "0">>), Cond>>, ""),
             Built("Filter", <<Ev("filterName", b), Ev("regex", "r"), Ev("keepMatched", "on")>>, ""),
             Built("Spawner", <<Ev("spawnerName", b), Ev("pathToExec", "exec"), Ev("delayInMs", <<>>),
                                Ev("commandArgs", <<"x", ",", "y">>), Ev("doSync", "on"), Cond>>, ""),
             Built("Tee", <<Ev("teeName", a), Ev("outputConnector", "o"), Ev("transformerRef", "t"), Cond>>,
                   [k |-> "v"]),
             Built("Continuation", <<Cond>>, ""),
             Built("Entwine", <<Ev("entwineName", a), Ev("streamStateStore", "s"),
                                Ev("objectStore", "Choose..."), Ev("pemPath", "p"), Ev("subStreamID", "1"),
                                Ev("tickerEndpoint", "e"), Ev("tickerInterval", <<"7", "a">>), Cond>>, "")}
       [] c = "pipelines" ->
            {[name |-> a, checkPointConnectorRef |-> "", enableTracing |-> FALSE, enableMetrics |-> TRUE,
              processes |-> <<[processRef |-> b, numRetries |-> 1, initialBackOffMs |-> 0,
                               enableTracing |-> TRUE, enableLatency |-> FALSE, enableCounter |-> FALSE]>>]}]

MCNames == {a, b, ""}

MCDocs ==
  { [parses |-> TRUE,
     json |-> [partitionUuid |-> u1,
               externalSystems |-> <<[name |-> a, connectionString |-> "cs",
                                      externalType |-> <<"External", "PubSub">>]>>,
               processDefinitions |->
                 <<[filter |-> [name |-> a, regex |-> "r", keepMatched |-> TRUE]],
                   [continuation |-> [name |-> a, condition |-> ExJSON]],
                   [aggregator |-> [name |-> b, aggregation |-> [key |-> "k", aggregationType |-> "Bogus"]]]>>]],
    [parses |-> TRUE,
     json |-> [processDefinitions |->
                 <<[tee |-> [name |-> a, outputConnectorRef |-> "o", transformerRef |-> "t",
                             additionalBody |-> null]],
                   [entwine |-> [name |-> a, streamStateStore |-> "s", objectStore |-> "o",
                                 pemPath |-> "p", subStreamID |-> "1", tickerEndpoint |-> "e",
                                 tickerInterval |-> 5, condition |-> ExJSON]]>>,
               pipelines |-> <<[name |-> a, processes |-> <<[name |-> b]>>]>>]],
    [parses |-> FALSE, json |-> <<>>],
    [parses |-> TRUE,
     json |-> [partitionUuid |-> u2,
               processDefinitions |-> <<[spawner |-> [name |-> b, delayInMs |-> 10]],
                                        [processor |-> [name |-> a]]>>]],
    [parses |-> TRUE,
     json |-> [externalSystems |-> <<[name |-> b, externalType |-> <<"Http">>]>>,
               processDefinitions |->
                 <<[completer |-> [name |-> b, completion |-> [joinKeys |-> <<"k">>, timeoutMs |-> 100]]]>>,
               pipelines |-> <<[name |-> b, processes |-> <<>>, checkpoint |-> <<>>]>>]] }
=============================================================================
