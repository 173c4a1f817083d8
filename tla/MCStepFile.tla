----------------------------- MODULE MCStepFile -----------------------------
(***************************************************************************)
(* StepFile on two ids and the argument lists util.sh builds: the first    *)
(* write of a step carries a time (-t), the second does not, and the row   *)
(* of a skipped step is written before the rows of earlier steps.          *)
(***************************************************************************)
EXTENDS StepFile

CONSTANTS p1, p2, p3

MCIds == {1, 2}
MCFields == {"name", "exit", "time", "log"}
MCMandatory == {"name", "exit", "time"}
MCValues == {"a", "b", "-1", "0", "t", "x.log", ""}
MCDefault == ""

Begun == [name |-> "a", exit |-> "-1", time |-> "t", log |-> "x.log"]
Ended == [name |-> "a", exit |-> "0"]
MCKeyvals == {Begun, Ended}
MCNames == {"a"}
MCIndices == {1, -1}
=============================================================================
