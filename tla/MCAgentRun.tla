---------------------------- MODULE MCAgentRun ----------------------------
(* Small instances of AgentRun: a scheduling tool and one with a budget of   *)
(* its own.                                                                *)
EXTENDS AgentRun

CONSTANTS cron, web

ToolLimits == [t \in {cron, web} |-> IF t = web THEN 1 ELSE 0]
=============================================================================
