------------------------------- MODULE MCJobs -------------------------------
(* Jobs with two threads: the menus and the debugger window have one, the  *)
(* command line, if it is built, the other.                                *)
EXTENDS Jobs

CONSTANTS v0, v1

MCImage == [w \in Words |-> IF w = 1 THEN v1 ELSE v0]

MCMenu ==
  [t \in Threads |-> IF t = "cli" THEN {"go", "halt", "step"}
                             ELSE JobNames \ {"go", "halt", "step"}]
=============================================================================
