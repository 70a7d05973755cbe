---------------------------- MODULE MCSubagents ----------------------------
(* Small instances of SubagentScheduler for TLC.                           *)
EXTENDS SubagentScheduler, TLC

CONSTANTS t1, t2, t3, root, y1, y2

(* A handle of the root agent, its child and its grandchild.                *)
NestedParent == [t \in Tasks |-> IF t = t2 THEN t1 ELSE IF t = t3 THEN t2 ELSE root]
NestedDepth  == [t \in Tasks |-> IF t = t2 THEN 1 ELSE IF t = t3 THEN 2 ELSE 0]

(* Siblings only.                                                          *)
FlatParent == [t \in Tasks |-> root]
FlatDepth  == [t \in Tasks |-> 0]

OneType  == [t \in Tasks |-> y1]
TwoTypes == [t \in Tasks |-> IF t = t3 THEN y2 ELSE y1]
=============================================================================
