------------------------ MODULE MCOrchestrationEngine ------------------------
(***************************************************************************)
(* Instances of OrchestrationEngine.  "create" stands for thread.create,    *)
(* "start" for thread.turn.start (two events, wants the thread) and "again" *)
(* for a thread.create of the same thread under another command id.         *)
(***************************************************************************)
EXTENDS OrchestrationEngine

MCCommands   == {"create", "start", "again"}
MCCalls      == {1, 2, 3, 4}
MCCommandOf  == <<"create", "start", "again", "start">>
MCEventCount == [c \in MCCommands |-> IF c = "start" THEN 2 ELSE 1]
MCRequires   == [c \in MCCommands |-> IF c = "start" THEN {"create"} ELSE {}]
MCExcludes   == [c \in MCCommands |-> IF c = "again" THEN {"create"}
                                      ELSE IF c = "create" THEN {"again"} ELSE {}]

===============================================================================
