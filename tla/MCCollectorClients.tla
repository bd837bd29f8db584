------------------------ MODULE MCCollectorClients ------------------------
(* CollectorClients for TLC: the tasks are numbers, so that a task's id can *)
(* be given by arithmetic. *)
EXTENDS CollectorClients

CONSTANT NumTasks

MCTasks == 1 .. NumTasks
MCIds == 0 .. NumTasks
\* moses-cmd and extract-rules without failures: ids 0, 1, 2, ...
MCSourceId == [t \in MCTasks |-> t - 1]
===========================================================================
