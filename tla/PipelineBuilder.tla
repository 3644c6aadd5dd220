--------------------------- MODULE PipelineBuilder ---------------------------
(***************************************************************************)
(* The step list of a PipelineBuilder (Pipelines.tsx): the processes of   *)
(* state.pipeline, edited in a MainModal by appendProcess, deleteProcess, *)
(* moveProcessUp, moveProcessDown and the per-step onChange handlers,     *)
(* and saved by handleSave.                                                *)
(*                                                                         *)
(* Each step is rendered as an Accordion card without a React key, so     *)
(* React matches cards to steps by position.  Its checkboxes are          *)
(* uncontrolled (defaultChecked).  On every re-render React writes the    *)
(* new defaultChecked into the DOM node of the card at that position;     *)
(* the browser lets that change the box only while the user has not      *)
(* clicked it (its dirty checkedness flag is unset).  dom models one      *)
(* checkbox per card, enableTracing; the others behave alike.             *)
(* Name validation and storage are ConfigStore's concern: a save here     *)
(* stores the list the builder holds.                                     *)
(***************************************************************************)
EXTENDS Naturals, Sequences, FiniteSets
LOCAL INSTANCE SequencesExt

CONSTANTS
    MaxSteps,   \* bound on the length of the step list
    MaxIds      \* bound on the steps created in a behaviour

VARIABLES
    steps,      \* state.pipeline.processes: Seq of [id, tracing]
    dom,        \* the mounted cards' checkboxes: Seq of [checked, dirty]
    shown,      \* the MainModal is open (its body is mounted)
    saved,      \* the processes of the stored pipeline
    nextId,     \* ghost: identity of the next appended step
    alive       \* ghost: identities appended and not deleted

vars == <<steps, dom, shown, saved, nextId, alive>>

Step == [id : 1..MaxIds, tracing : BOOLEAN]
Box == [checked : BOOLEAN, dirty : BOOLEAN]

\* The DOM after a re-render with step list ss: a card at a position that
\* existed keeps its node, whose box follows defaultChecked unless dirty;
\* cards past the end are mounted fresh, cards beyond Len(ss) unmounted.
Rerender(ss, d) ==
    [i \in 1..Len(ss) |->
        IF i <= Len(d) /\ d[i].dirty THEN d[i]
        ELSE [checked |-> ss[i].tracing, dirty |-> FALSE]]

Mount(ss) == Rerender(ss, <<>>)

\* Swap positions i and j: tmp = p[i]; p[i] = p[j]; p[j] = tmp.
\* Mutant: the swap without tmp, p[i] = p[j]; p[j] = p[i].
SwapNoTmp(p, i, j) == [p EXCEPT ![i] = p[j]]
Swap(p, i, j) == [p EXCEPT ![i] = p[j], ![j] = p[i]]

Init ==
    /\ steps = <<>>
    /\ dom = <<>>
    /\ shown = FALSE
    /\ saved = <<>>
    /\ nextId = 1
    /\ alive = {}

\* MainModal handleShow: the form is mounted from state.
handleShow ==
    /\ ~shown
    /\ shown' = TRUE
    /\ dom' = Mount(steps)
    /\ UNCHANGED <<steps, saved, nextId, alive>>

\* MainModal handleClose: the form is unmounted; state.pipeline is kept.
handleClose ==
    /\ shown
    /\ shown' = FALSE
    /\ dom' = <<>>
    /\ UNCHANGED <<steps, saved, nextId, alive>>

\* Applies a new step list and re-renders the form.
Update(ss) ==
    /\ steps' = ss
    /\ dom' = Rerender(ss, dom)

\* appendProcess: new PipelineProcess("", 0, 0, false, false, false).
appendProcess ==
    /\ shown
    /\ Len(steps) < MaxSteps /\ nextId <= MaxIds
    /\ Update(Append(steps, [id |-> nextId, tracing |-> FALSE]))
    /\ nextId' = nextId + 1
    /\ alive' = alive \cup {nextId}
    /\ UNCHANGED <<shown, saved>>

\* deleteProcess(processIndex): processes.filter(idx !== processIndex).
deleteProcess(i) ==
    /\ shown
    /\ i \in 1..Len(steps)
    /\ Update(RemoveAt(steps, i))
    /\ alive' = alive \ {steps[i].id}
    /\ UNCHANGED <<shown, saved, nextId>>

\* moveProcessUp(index): the Up button is hidden on the first card.
moveProcessUp(i) ==
    /\ shown
    /\ i \in 2..Len(steps)
    /\ Update(Swap(steps, i, i - 1))
    /\ UNCHANGED <<shown, saved, nextId, alive>>

\* moveProcessDown(index): the Down button is hidden on the last card.
moveProcessDown(i) ==
    /\ shown
    /\ i \in 1..Len(steps) - 1
    /\ Update(Swap(steps, i, i + 1))
    /\ UNCHANGED <<shown, saved, nextId, alive>>

\* A click on the enableTracing box of card i: the browser flips the box
\* and marks it dirty; onChange flips processes[i].enableTracing in state.
ClickTracing(i) ==
    /\ shown
    /\ i \in 1..Len(steps)
    /\ steps' = [steps EXCEPT ![i].tracing = ~@]
    /\ dom' = Rerender(steps', [dom EXCEPT ![i] = [checked |-> ~@.checked, dirty |-> TRUE]])
    /\ UNCHANGED <<shown, saved, nextId, alive>>

\* handleSave: setPipelineState(state.pipeline); the store change remounts
\* the builder on the stored pipeline, and the modal with it.
handleSave ==
    /\ shown
    /\ saved' = steps
    /\ shown' = FALSE
    /\ dom' = <<>>
    /\ UNCHANGED <<steps, nextId, alive>>

Next ==
    \/ handleShow \/ handleClose \/ appendProcess \/ handleSave
    \/ \E i \in 1..MaxSteps :
          deleteProcess(i) \/ moveProcessUp(i) \/ moveProcessDown(i) \/ ClickTracing(i)

Spec == Init /\ [][Next]_vars

-----------------------------------------------------------------------------

TypeOK ==
    /\ steps \in Seq(Step) /\ Len(steps) <= MaxSteps
    /\ dom \in Seq(Box)
    /\ shown \in BOOLEAN
    /\ saved \in Seq(Step)
    /\ nextId \in 1..MaxIds + 1
    /\ alive \subseteq 1..MaxIds

\* Reordering and deleting never lose or duplicate a step: the list holds
\* each step appended and not deleted exactly once.
StepsArePermutation ==
    /\ {steps[i].id : i \in 1..Len(steps)} = alive
    /\ Len(steps) = Cardinality(alive)
=============================================================================
