---------------------------- MODULE ProcessForms ----------------------------
(***************************************************************************)
(* The field forms of the External and process builders: what each       *)
(* builder's constructor starts a create with, what its onChange writes   *)
(* for an input id and the value the browser hands over, when its         *)
(* ConditionBuilder button is enabled (canAddCondition), what             *)
(* saveConditionHandler writes, and the object handleSave stores.         *)
(*                                                                         *)
(* The conversions are modelled by what they do: parseInt reads the      *)
(* leading digits of a text (NaN when there are none), split(",") cuts a *)
(* text at every comma, a checkbox handler compares event.target.value   *)
(* with "on", and a select goes through the enum lookup.  Texts that are  *)
(* converted are sequences of characters; the others are kept as given.  *)
(* The objects are the in-memory records of DocumentCodec.                *)
(***************************************************************************)
EXTENDS DocumentCodec
LOCAL INSTANCE SequencesExt

\* The characters of converted texts, and the digits among them.
Digit == [c \in {"0", "1", "7"} |-> CASE c = "0" -> 0 [] c = "1" -> 1 [] c = "7" -> 7]

\* parseInt(s): the decimal value of the leading digits, NaN without any.
ParseInt(s) ==
    LET k == CHOOSE k \in 0..Len(s) :
                 /\ \A i \in 1..k : s[i] \in DOMAIN Digit
                 /\ k < Len(s) => s[k + 1] \notin DOMAIN Digit
    IN IF k = 0 THEN NaN
       ELSE FoldLeft(LAMBDA acc, c : 10 * acc + Digit[c], 0, SubSeq(s, 1, k))

\* s.split(","): "" gives <<"">>, and every comma starts a new part.
RECURSIVE Split(_)
Split(s) ==
    IF \A i \in DOMAIN s : s[i] # "," THEN <<s>>
    ELSE LET k == CHOOSE k \in DOMAIN s : s[k] = "," /\ \A i \in 1..k - 1 : s[i] # ","
         IN <<SubSeq(s, 1, k - 1)>> \o Split(SubSeq(s, k + 1, Len(s)))

\* What a handler writes for the input value v, by the conversion it uses.
Decode(as, v) ==
    CASE as = "text"    -> v
      [] as = "int"     -> ParseInt(v)
      [] as = "list"    -> Split(v)
      [] as = "check"   -> v = "on"
      [] as = "aggType" -> StrToAggregationType(v)
      [] as = "extType" -> StrToExternalType(v)

-----------------------------------------------------------------------------
\* The constructors' create branch (props.x == null): a new object with
\* the builder's defaults.

NewExternal == [name |-> "", externalType |-> <<"KVStore">>, connectionString |-> ""]
NewAggregator ==
    [kind |-> "Aggregator", name |-> "", condition |-> UndefCond, stateStore |-> "",
     aggregationKey |-> "", aggregationType |-> "Unknown", groupByKeys |-> <<>>,
     asyncCheckpoint |-> FALSE, forwardState |-> FALSE]
NewCompleter ==
    [kind |-> "Completer", name |-> "", condition |-> UndefCond, stateStore |-> "",
     joinKeys |-> <<>>, timeoutMs |-> 0]
NewFilter == [kind |-> "Filter", name |-> "", regex |-> "", keepMatched |-> FALSE]
NewSpawner ==
    [kind |-> "Spawner", name |-> "", condition |-> UndefCond, delayInMs |-> 0, doSync |-> FALSE,
     pathToExec |-> "", commandArgs |-> <<>>]
\* TeeSpec gets "" as additionalBody, which is not == null and is kept.
NewTee ==
    [kind |-> "Tee", name |-> "", condition |-> UndefCond, outputConnector |-> "",
     transformerRef |-> "", additionalBody |-> ""]
NewContinuation == [kind |-> "Continuation", name |-> "", condition |-> UndefCond]
NewEntwine ==
    [kind |-> "Entwine", name |-> "", streamStateStoreRef |-> "", objectStoreRef |-> "",
     pemPath |-> "", subStreamID |-> "", tickerEndpoint |-> "", tickerInterval |-> 0,
     condition |-> UndefCond]

New(k) == CASE k = "External" -> NewExternal [] k = "Aggregator" -> NewAggregator
            [] k = "Completer" -> NewCompleter [] k = "Filter" -> NewFilter
            [] k = "Spawner" -> NewSpawner [] k = "Tee" -> NewTee
            [] k = "Continuation" -> NewContinuation [] k = "Entwine" -> NewEntwine

-----------------------------------------------------------------------------
\* The onChange branches: input id -> the field written and its conversion.

ExternalInputs ==
    [externalName |-> [f |-> "name", as |-> "text"],
     externalType |-> [f |-> "externalType", as |-> "extType"],
     connectionString |-> [f |-> "connectionString", as |-> "text"]]
AggregatorInputs ==
    [aggregatorName |-> [f |-> "name", as |-> "text"],
     stateStore |-> [f |-> "stateStore", as |-> "text"],
     aggregationKey |-> [f |-> "aggregationKey", as |-> "text"],
     aggregationType |-> [f |-> "aggregationType", as |-> "aggType"],
     groupByKeys |-> [f |-> "groupByKeys", as |-> "list"],
     asyncCheckpoint |-> [f |-> "asyncCheckpoint", as |-> "check"],
     forwardState |-> [f |-> "forwardState", as |-> "check"]]
CompleterInputs ==
    [completerName |-> [f |-> "name", as |-> "text"],
     stateStore |-> [f |-> "stateStore", as |-> "text"],
     joinKeys |-> [f |-> "joinKeys", as |-> "list"],
     timeoutMs |-> [f |-> "timeoutMs", as |-> "int"]]
FilterInputs ==
    [filterName |-> [f |-> "name", as |-> "text"],
     regex |-> [f |-> "regex", as |-> "text"],
     keepMatched |-> [f |-> "keepMatched", as |-> "check"]]
SpawnerInputs ==
    [spawnerName |-> [f |-> "name", as |-> "text"],
     pathToExec |-> [f |-> "pathToExec", as |-> "text"],
     doSync |-> [f |-> "doSync", as |-> "check"],
     delayInMs |-> [f |-> "delayInMs", as |-> "int"],
     commandArgs |-> [f |-> "commandArgs", as |-> "list"]]
TeeInputs ==
    [teeName |-> [f |-> "name", as |-> "text"],
     outputConnector |-> [f |-> "outputConnector", as |-> "text"],
     transformerRef |-> [f |-> "transformerRef", as |-> "text"]]
ContinuationInputs == [continuationName |-> [f |-> "name", as |-> "text"]]
EntwineInputs ==
    [entwineName |-> [f |-> "name", as |-> "text"],
     streamStateStore |-> [f |-> "streamStateStoreRef", as |-> "text"],
     objectStore |-> [f |-> "objectStoreRef", as |-> "text"],
     pemPath |-> [f |-> "pemPath", as |-> "text"],
     subStreamID |-> [f |-> "subStreamID", as |-> "text"],
     tickerEndpoint |-> [f |-> "tickerEndpoint", as |-> "text"],
     tickerInterval |-> [f |-> "tickerInterval", as |-> "int"]]

Inputs(k) == CASE k = "External" -> ExternalInputs [] k = "Aggregator" -> AggregatorInputs
                [] k = "Completer" -> CompleterInputs [] k = "Filter" -> FilterInputs
                [] k = "Spawner" -> SpawnerInputs [] k = "Tee" -> TeeInputs
                [] k = "Continuation" -> ContinuationInputs [] k = "Entwine" -> EntwineInputs

KindOf(p) == IF "kind" \in DOMAIN p THEN p.kind ELSE "External"

\* onChange(event): a copy of the object with the field of the input id
\* written; an id of no branch leaves it as it is.
OnChange(p, id, v) ==
    LET in == Inputs(KindOf(p))
    IN IF id \in DOMAIN in THEN [p EXCEPT ![in[id].f] = Decode(in[id].as, v)] ELSE p

-----------------------------------------------------------------------------
\* canAddCondition: the ConditionBuilder button is enabled.

AggregatorCanAddCondition(p) ==
    p.aggregationType # "Unknown" /\ p.aggregationKey # "" /\ p.stateStore # ""
CompleterCanAddCondition(p) == Len(p.joinKeys) > 0 /\ p.stateStore # ""
SpawnerCanAddCondition(p) == p.pathToExec # ""
TeeCanAddCondition(p) == p.outputConnector # ""
ContinuationCanAddCondition(p) == p.name # ""
EntwineCanAddCondition(p) ==
    \A f \in {"streamStateStoreRef", "name", "objectStoreRef", "pemPath", "subStreamID",
              "tickerEndpoint"} : p[f] # ""

CanAddCondition(p) ==
    CASE KindOf(p) = "Aggregator" -> AggregatorCanAddCondition(p)
      [] KindOf(p) = "Completer" -> CompleterCanAddCondition(p)
      [] KindOf(p) = "Spawner" -> SpawnerCanAddCondition(p)
      [] KindOf(p) = "Tee" -> TeeCanAddCondition(p)
      [] KindOf(p) = "Continuation" -> ContinuationCanAddCondition(p)
      [] KindOf(p) = "Entwine" -> EntwineCanAddCondition(p)
      [] OTHER -> FALSE

\* saveConditionHandler: a copy with the condition the ConditionBuilder
\* hands back; reachable only while its button is enabled.
SaveCondition(p, c) == IF CanAddCondition(p) THEN [p EXCEPT !.condition = c] ELSE p

\* One step of a dialog: an input event, or a condition save.
Step(p, e) == IF e.id = "condition" THEN SaveCondition(p, e.v) ELSE OnChange(p, e.id, e.v)

\* handleSave stores the dialog's object; TeeBuilder first writes the
\* parsed additionalBody textarea into the (shared) TeeSpec.
Saved(p, body) == IF KindOf(p) = "Tee" THEN [p EXCEPT !.additionalBody = body] ELSE p

\* The object a create dialog of kind k stores after the events of script.
Built(k, script, body) == Saved(FoldLeft(Step, New(k), script), body)
=============================================================================
