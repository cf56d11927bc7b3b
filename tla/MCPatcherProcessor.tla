------------------------ MODULE MCPatcherProcessor ------------------------
(* An image for TLC in which each archive may grow, shrink or not fit.     *)
EXTENDS PatcherProcessor

MCOldSize == [a \in Archives |-> IF a = "main" THEN 3 ELSE 2]
MCRoom == [a \in {"embedded", "main"} |-> 3]
=============================================================================
