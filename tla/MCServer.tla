------------------------------ MODULE MCServer ------------------------------
(* The parts of the server that share no state with the session turns: each  *)
(* behaviour is one of the part that its scene names, and the others rest.   *)
EXTENDS FeishuChannel, MemoryStore, RuntimeMonitor, ContextBuilder, Grounding, Toolset,
        RuntimeContext

CONSTANT Scenes

VARIABLE scene

serverVars == <<scene, channelVars, memoryVars, monitorVars, contextVars, groundingVars,
                toolsetVars, blocksVars>>

(* What the model may answer: claims that need a tool that ran, or one that   *)
(* worked, one that it takes back itself, a call written as text, ids.        *)
Reply(claims, safe, markup, ids, success, presents) ==
  [claims |-> claims, safe |-> safe, markup |-> markup, ids |-> ids, success |-> success,
   presents |-> presents]

MCReplies ==
  { Reply({}, FALSE, {}, {}, FALSE, FALSE),
    Reply({"commandDone", "environment"}, FALSE, {}, {}, FALSE, FALSE),
    Reply({"memory"}, FALSE, {}, {}, TRUE, FALSE),
    Reply({"file"}, TRUE, {"web_search"}, {}, FALSE, FALSE) }
  \cup {Reply({}, FALSE, {}, {j}, TRUE, TRUE) : j \in JobIds}

(* A skill file with the name of a built-in skill, and a broken one.          *)
MCSkillFiles ==
  { [root |-> 1, at |-> 1, name |-> "grounding", kind |-> "good"],
    [root |-> 2, at |-> 2, name |-> "notes", kind |-> "broken"] }

MCAgentFiles ==
  { [root |-> 1, at |-> 1, name |-> "coder", tools |-> {<<"bash">>, <<"read">>}, broken |-> FALSE] }

(* A server two tools of which get the same name.                             *)
MCServers ==
  << [name |-> <<"a">>, asks |-> TRUE,
      tools |-> << [remote |-> "b.c", words |-> <<"b", "c">>],
                   [remote |-> "b/c", words |-> <<"b", "c">>] >>] >>

MCWanted == {<<"bash">>, <<"delegate_agent">>, <<"mcp", "a", "b", "c">>}

MCServerInit ==
  /\ scene \in Scenes
  /\ ChannelInit /\ MemoryInit /\ MonitorInit /\ ContextInit
  /\ GroundingInit /\ (scene = "grounding" \/ (~ resumed /\ ~ schedules /\ jobs = {}))
  /\ ToolsetInit /\ \/ scene = "toolset"
                    \/ skillFiles = {} /\ agentFiles = {} /\ mcp = [tools |-> <<>>, open |-> {}]
  /\ BlocksInit /\ (scene = "blocks" \/ (intent = "chat"))

MCServerNext ==
  /\ UNCHANGED scene
  /\ \/ /\ scene = "channel" /\ ChannelNext
        /\ UNCHANGED <<memoryVars, monitorVars, contextVars, groundingVars,
                       toolsetVars, blocksVars>>
     \/ /\ \/ scene = "memory" /\ SessionNext
           \/ scene = "long term" /\ LongTermNext
        /\ UNCHANGED <<channelVars, monitorVars, contextVars, groundingVars,
                       toolsetVars, blocksVars>>
     \/ /\ scene = "monitor" /\ MonitorNext
        /\ UNCHANGED <<channelVars, memoryVars, contextVars, groundingVars,
                       toolsetVars, blocksVars>>
     \/ /\ scene = "context" /\ ContextNext
        /\ UNCHANGED <<channelVars, memoryVars, monitorVars, groundingVars,
                       toolsetVars, blocksVars>>
     \/ /\ scene = "grounding" /\ GroundingNext
        /\ UNCHANGED <<channelVars, memoryVars, monitorVars, contextVars,
                       toolsetVars, blocksVars>>
     \/ /\ scene = "toolset" /\ ToolsetNext
        /\ UNCHANGED <<channelVars, memoryVars, monitorVars, contextVars,
                       groundingVars, blocksVars>>
     \/ /\ scene = "blocks" /\ BlocksNext
        /\ UNCHANGED <<channelVars, memoryVars, monitorVars, contextVars,
                       groundingVars, toolsetVars>>

MCServerSpec == MCServerInit /\ [][MCServerNext]_serverVars /\ ChannelFairness
=============================================================================
