---------------------------- MODULE OrderedOutput ----------------------------
(***************************************************************************)
(* What an OutputCollector promises, without its maps and its mutex: texts  *)
(* are delivered in any order, and the stream receives them in the order of *)
(* their ids, each as soon as all those before it have been delivered.      *)
(***************************************************************************)
EXTENDS Naturals, Sequences

CONSTANTS Tasks, SourceId

VARIABLES
    delivered,  \* the tasks that have called Write
    printed     \* the texts in the stream

Due(t) == SourceId[t] = Len(printed)

Init == delivered = {} /\ printed = <<>>

\* A text that is due when it is delivered is printed at once.
Deliver(t) ==
    /\ t \notin delivered
    /\ delivered' = delivered \cup {t}
    /\ printed' = IF Due(t) THEN Append(printed, t) ELSE printed

\* A text delivered earlier is printed once it is due.
Emit(t) ==
    /\ t \in delivered /\ Due(t)
    /\ printed' = Append(printed, t)
    /\ UNCHANGED delivered

Next == \E t \in Tasks : Deliver(t) \/ Emit(t)

\* A text that is due does not wait for ever.
Spec == /\ Init /\ [][Next]_<<delivered, printed>>
        /\ \A t \in Tasks : WF_<<delivered, printed>>(Emit(t))
=============================================================================
