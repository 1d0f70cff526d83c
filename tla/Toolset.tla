------------------------------- MODULE Toolset -------------------------------
(***************************************************************************)
(* What an agent may call and who is asked first.  Every run, and every run *)
(* that resumes, has an agent of its own, put together from the built-in    *)
(* skills, the skill files and the definitions of specialist agents that    *)
(* are on the disk at that time, and the tools of the MCP servers that       *)
(* answered when the process started: agent/skill.go, skill_loader.go,      *)
(* delegated_agent.go, approval.go, internal/mcpruntime/runtime.go and      *)
(* internal/app/skill.go, delegated_agent.go, runtime_inventory.go.         *)
(*                                                                         *)
(* The name of a tool is the sequence of the words that underscores join; a *)
(* tool of a server also has the name it has there, as sanitizeName may give *)
(* two of them one name.                                                    *)
(***************************************************************************)
EXTENDS Naturals, Sequences, FiniteSets

CONSTANTS
  Users,         (* the sessions                                             *)
  SkillFiles,    (* the SKILL.md files there may be                          *)
  ScanLimit,     (* maxSkillScanEntries                                      *)
  AgentFiles,    (* the definitions of specialist agents there may be        *)
  Servers,       (* the configured MCP servers, in the order of their names: *)
                 (* each with the tools it may list                          *)
  ApprovalMode,  (* "none", "dangerous", "side_effects", "all"               *)
  Wanted,        (* bound: the names of the tools the model calls            *)
  ToolCalls,     (* bound: the calls there are                               *)
  MaxToolsetFaults,  (* bound: restarts, and changes of the disk             *)
  Absent

(* Of a skill file there is its root, its place in the walk through it, the   *)
(* name in it, and if it is outside of its root behind a link, broken, not    *)
(* wanted (allowlist, platform and so on) or good.  sanitizeName leaves no     *)
(* name empty.                                                              *)
ASSUME ToolsetAssumption ==
  /\ IsFiniteSet(SkillFiles)
  /\ \A f \in SkillFiles : /\ f.root \in Nat /\ f.at \in Nat
                           /\ f.kind \in {"outside", "broken", "unwanted", "good"}
  /\ \A f \in AgentFiles : f.root \in Nat /\ f.at \in Nat /\ f.broken \in BOOLEAN
  /\ Servers \in Seq([name  : Seq(STRING),
                      tools : Seq([remote : STRING, words : Seq(STRING)]), asks : BOOLEAN])
  /\ \A i \in 1..Len(Servers) : Servers[i].name # <<>>
  /\ ApprovalMode \in {"none", "dangerous", "side_effects", "all"}
  /\ ScanLimit \in Nat /\ MaxToolsetFaults \in Nat

VARIABLES
  skillFiles, agentFiles,  (* the files on the disk                          *)
  mcp,        (* Runtime: its tools, and the servers whose client is open     *)
  agent,      (* session -> the agent of its run, or Absent                   *)
  inventory,  (* agentServer.inventory: the tools, those of MCP servers, and  *)
              (* history: the session whose agent it shows                    *)
  toolCall,   (* call -> what became of it, or Absent                         *)
  toolsetFaults

toolsetVars == <<skillFiles, agentFiles, mcp, agent, inventory, toolCall, toolsetFaults>>

-----------------------------------------------------------------------------
(* Skills.                                                                 *)

Local(name) == [name |-> <<name>>, server |-> <<>>, remote |-> name, asks |-> FALSE]

Skill(name, tools, hooks) ==
  [name |-> name, tools |-> [i \in 1..Len(tools) |-> Local(tools[i])], hooks |-> hooks]

BuiltIns ==
  << Skill("workspace", <<"read", "edit", "write", "bash", "update_todos", "compact">>, <<>>),
     Skill("memory", <<"remember", "forget_memory">>,
           <<"session_summary", "active_memory", "tool_memory">>),
     Skill("schedule", <<"cron">>, <<"current_time", "schedule_guidance", "state_guard">>),
     Skill("web", <<"web_search", "web_fetch">>, <<>>),
     Skill("grounding", <<>>, <<"tool_grounding_guard">>) >>

(* Of entries with the same key, the first.                                  *)
Repeats(key, n) == \E i \in 1..n - 1 : key[i] = key[n]

Once(list, key) ==
  LET kept[n \in 0..Len(list)] ==
        IF n = 0 THEN <<>>
        ELSE IF Repeats(key, n) THEN kept[n - 1]
        ELSE Append(kept[n - 1], list[n])
  IN kept[Len(list)]

ToolsOnce(list) == Once(list, [i \in 1..Len(list) |-> list[i].name])
HooksOnce(list) == Once(list, list)

(* Mutant: the skill that comes second is dropped.                          *)
MergeFirst(first, second) == first

(* mergeSkills.                                                            *)
Merge(first, second) ==
  [name  |-> first.name,
   tools |-> ToolsOnce(first.tools \o second.tools),
   hooks |-> HooksOnce(first.hooks \o second.hooks)]

Register(registry, skill) ==
  LET same == {i \in 1..Len(registry) : registry[i].name = skill.name}
  IN IF same = {} THEN Append(registry, skill)
     ELSE [i \in 1..Len(registry) |->
             IF i \in same THEN Merge(registry[i], skill) ELSE registry[i]]

Registered(skills) ==
  LET registry[n \in 0..Len(skills)] ==
        IF n = 0 THEN <<>> ELSE Register(registry[n - 1], skills[n])
  IN registry[Len(skills)]

(* Of tools with one name, in whichever skills, the first.                   *)
RegistryTools(registry) ==
  LET places  == UNION {{i} \X (1..Len(registry[i].tools)) : i \in 1..Len(registry)}
      tool(p) == registry[p[1]].tools[p[2]]
      before(p, q) == p[1] < q[1] \/ (p[1] = q[1] /\ p[2] < q[2])
  IN {tool(p) : p \in {q \in places :
                        ~ \E o \in places : tool(o).name = tool(q).name /\ before(o, q)}}

(* The hooks, each at its place; the one that lists the skills comes first.    *)
RegistryHooks(registry) ==
  LET places == UNION {{i} \X (1..Len(registry[i].hooks)) : i \in 1..Len(registry)}
  IN [p \in {<<0, 1>>} \cup places |->
        IF p[1] = 0 THEN "skills" ELSE registry[p[1]].hooks[p[2]]]

-----------------------------------------------------------------------------
(* The disk.                                                               *)

Earlier(f, g) == \/ f.root < g.root
                 \/ f.root = g.root /\ f.at < g.at

(* ParseSkillFile comes before the allowlist and the rest: one broken file    *)
(* that the walk through any of the roots reaches, and there are no files.    *)
Read == {f \in skillFiles : f.at <= ScanLimit /\ f.kind # "outside"}

(* LoadSkills: of files with one name the first; those of a root are in the    *)
(* order of the walk here, by name in the code.                              *)
FileSkills ==
  LET good  == {f \in Read : f.kind = "good"}
      first == {f \in good : \A g \in good \ {f} : g.name = f.name => Earlier(f, g)}
      at(i) == CHOOSE f \in first : Cardinality({g \in first : Earlier(g, f)}) = i - 1
  IN IF \E f \in Read : f.kind = "broken" THEN <<>>
     ELSE [i \in 1..Cardinality(first) |-> Skill(at(i).name, <<>>, <<>>)]

(* LoadDelegatedAgents: of definitions with one name the last, and a broken one *)
(* costs them all.                                                          *)
Definitions ==
  IF \E f \in agentFiles : f.broken THEN {}
  ELSE {f \in agentFiles : \A g \in agentFiles \ {f} : g.name = f.name => Earlier(g, f)}

-----------------------------------------------------------------------------
(* MCP servers.                                                            *)

ServerTools(server) ==
  [i \in 1..Len(server.tools) |->
     [name |-> <<"mcp">> \o server.name \o server.tools[i].words, server |-> server.name,
      remote |-> server.tools[i].remote, asks |-> server.asks]]

(* What a server may list when it is asked: some of its tools, in any order.   *)
Lists(server) ==
  UNION {{list \in [1..k -> 1..Len(server.tools)] :
            \A i, j \in 1..k : list[i] = list[j] => i = j} : k \in 0..Len(server.tools)}

(* Load, loadServer: a server does not answer, or one of its tools cannot be   *)
(* taken over, and those before it stay although the client is closed.        *)
LoadResults(server) ==
  {a \in [list : Lists(server), open : BOOLEAN] :
     ~ a.open => a.list = <<>> \/ Len(a.list) < Len(server.tools)}

Loaded(got) ==
  LET tools(n) == [k \in 1..Len(got[n].list) |-> ServerTools(Servers[n])[got[n].list[k]]]
      taken[n \in 0..Len(Servers)] == IF n = 0 THEN <<>> ELSE taken[n - 1] \o tools(n)
  IN [tools |-> taken[Len(Servers)],
      open  |-> {Servers[i].name : i \in {j \in 1..Len(Servers) : got[j].open}}]

Yields ==
  {got \in [1..Len(Servers) -> UNION {LoadResults(Servers[i]) : i \in 1..Len(Servers)}] :
     \A i \in 1..Len(Servers) : got[i] \in LoadResults(Servers[i])}

-----------------------------------------------------------------------------
(* An agent.                                                               *)

Registry == Registered(FileSkills \o BuiltIns)

(* newSkillRegistry: the specialists get tools of the registry as it is before *)
(* their own and those of MCP servers are in it.                             *)
WholeRegistry(runtime) ==
  LET delegation == Skill("delegation", <<"delegate_agent">>, <<>>)
      servers    == [name |-> "mcp", tools |-> runtime.tools, hooks |-> <<>>]
      more == (IF Definitions = {} THEN <<>> ELSE <<delegation>>)
                \o (IF runtime.tools = <<>> THEN <<>> ELSE <<servers>>)
  IN Registered((FileSkills \o BuiltIns) \o more)

NewAgent(runtime) ==
  [tools       |-> RegistryTools(WholeRegistry(runtime)),
   hooks       |-> RegistryHooks(WholeRegistry(runtime)),
   definitions |-> Definitions,
   available   |-> RegistryTools(Registry)]

(* buildRuntimeInventory goes through the skills, not through their tools once. *)
Inventory(runtime, user) ==
  LET registry == WholeRegistry(runtime)
      skills   == 1..Len(registry)
      names(S) == UNION {{registry[i].tools[k].name : k \in 1..Len(registry[i].tools)} : i \in S}
  IN [tools |-> names(skills),
      mcp   |-> names({i \in skills : registry[i].name = "mcp"})
                  \cup {name \in names(skills) : name[1] = "mcp"},
      of    |-> user]

Build(user) ==
  /\ agent' = [agent EXCEPT ![user] = NewAgent(mcp)]
  /\ inventory' = Inventory(mcp, user)

-----------------------------------------------------------------------------
(* Calls.                                                                  *)

SideEffects == {<<"write">>, <<"edit">>, <<"bash">>, <<"remember">>, <<"forget_memory">>, <<"cron">>}
Inspected   == {<<"write">>, <<"edit">>, <<"bash">>}

(* RequiresApproval: risky stands for a destructive command or a path outside   *)
(* of the workspace.                                                         *)
PolicyAsks(t, risky) ==
  \/ ApprovalMode = "all"
  \/ ApprovalMode = "side_effects" /\ t.name \in SideEffects
  \/ ApprovalMode = "dangerous" /\ t.name \in Inspected /\ risky

(* toolApprovalRequirement.                                                 *)
NeedsApproval(t, risky) == ApprovalMode # "none" /\ (PolicyAsks(t, risky) \/ t.asks)

Open(c)     == toolCall[c] # Absent /\ toolCall[c].state = "running"
CallsOf(u)  == {c \in ToolCalls : toolCall[c] # Absent /\ toolCall[c].user = u}
Within(d)   == {c \in ToolCalls : toolCall[c] # Absent /\ toolCall[c].within = d}

(* selectDelegatedAgentTools.                                               *)
Selected(a, definition) == {t \in a.available : t.name \in definition.tools}
Complete(a, definition)  == definition.tools \subseteq {t.name : t \in a.available}

(* The tools there may be, and the calls of them.                             *)
Words == {"read", "edit", "write", "bash", "update_todos", "compact", "remember",
          "forget_memory", "cron", "web_search", "web_fetch"}
Locals == {Local(w) : w \in Words}

McpTools == UNION {{ServerTools(Servers[i])[m] : m \in 1..Len(Servers[i].tools)} : i \in 1..Len(Servers)}

Tools == Locals \cup {Local("delegate_agent")} \cup McpTools

CallRecords ==
  [user : Users, tool : Tools, asked : Tools \cup {Absent}, risky : BOOLEAN,
   within : ToolCalls \cup {Absent}, task : AgentFiles \cup {Absent}, approved : BOOLEAN,
   state : {"waiting", "running", "done", "failed", "dropped", "missing", "rejected", "lost"}]

ASSUME CallsAssumption == Absent \notin CallRecords

Dispatched(a, t) ==
  IF t.name # <<"delegate_agent">> THEN {[state |-> "running", task |-> Absent]}
  ELSE {[state |-> "failed", task |-> Absent]} \cup
       {[state |-> "running", task |-> d] : d \in {d \in a.definitions : Complete(a, d)}}

CallOf(user, t, risky, within) ==
  [user |-> user, tool |-> t, asked |-> Absent, risky |-> risky, within |-> within,
   task |-> Absent, state |-> "waiting", approved |-> FALSE]

StartAgent(user) ==
  /\ agent[user] = Absent
  /\ Build(user)
  /\ UNCHANGED <<skillFiles, agentFiles, mcp, toolCall, toolsetFaults>>

(* gateToolCall: the call runs, or waits and ends the run when the calls beside *)
(* it are done.                                                             *)
CallTool(user, c) ==
  /\ agent[user] # Absent /\ toolCall[c] = Absent
  /\ \E t \in agent[user].tools, risky \in BOOLEAN :
       LET call == CallOf(user, t, risky, Absent)
       IN /\ t.name \in Wanted /\ (risky => t.name \in Inspected)
          /\ IF NeedsApproval(t, risky)
               THEN toolCall' = [toolCall EXCEPT ![c] = [call EXCEPT !.asked = t]]
               ELSE \E b \in Dispatched(agent[user], t) :
                      toolCall' = [toolCall EXCEPT ![c] =
                                     [call EXCEPT !.state = b.state, !.task = b.task]]
  /\ UNCHANGED <<skillFiles, agentFiles, mcp, agent, inventory, toolsetFaults>>

(* A specialist has no checkpoint: a call of it that needs an approval ends its  *)
(* run, and what it would ask of the user is what the parent is told.           *)
CallInside(d, c) ==
  /\ Open(d) /\ toolCall[d].task # Absent /\ toolCall[c] = Absent
  /\ \A e \in Within(d) : toolCall[e].state # "dropped"
  /\ \E t \in Selected(agent[toolCall[d].user], toolCall[d].task), risky \in BOOLEAN :
       /\ t.name \in Wanted /\ (risky => t.name \in Inspected)
       /\ toolCall' = [toolCall EXCEPT ![c] =
            [CallOf(toolCall[d].user, t, risky, d) EXCEPT
               !.state = IF NeedsApproval(t, risky) THEN "dropped" ELSE "running"]]
  /\ UNCHANGED <<skillFiles, agentFiles, mcp, agent, inventory, toolsetFaults>>

(* A tool of an MCP server needs its client.                                 *)
EndTool(c) ==
  /\ Open(c) /\ \A e \in Within(c) : ~ Open(e)
  /\ LET t == toolCall[c].tool
     IN toolCall' = [toolCall EXCEPT ![c].state =
                       IF t.server # <<>> /\ t.server \notin mcp.open THEN "failed" ELSE "done"]
  /\ UNCHANGED <<skillFiles, agentFiles, mcp, agent, inventory, toolsetFaults>>

StopAgent(user) ==
  /\ agent[user] # Absent /\ \A c \in CallsOf(user) : ~ Open(c)
  /\ agent' = [agent EXCEPT ![user] = Absent]
  /\ UNCHANGED <<skillFiles, agentFiles, mcp, inventory, toolCall, toolsetFaults>>

(* The user decides, and a new agent goes on with the tool of that name.       *)
Approve(c, approves) ==
  /\ toolCall[c] # Absent /\ toolCall[c].state = "waiting" /\ agent[toolCall[c].user] = Absent
  /\ Build(toolCall[c].user)
  /\ LET now  == NewAgent(mcp)
         same == {t \in now.tools : t.name = toolCall[c].tool.name}
     IN IF same = {} THEN toolCall' = [toolCall EXCEPT ![c].state = "missing"]
        ELSE IF ~ approves THEN toolCall' = [toolCall EXCEPT ![c].state = "rejected"]
        ELSE \E t \in same : \E b \in Dispatched(now, t) :
               toolCall' = [toolCall EXCEPT ![c] =
                 [@ EXCEPT !.tool = t, !.approved = TRUE, !.state = b.state, !.task = b.task]]
  /\ UNCHANGED <<skillFiles, agentFiles, mcp, toolsetFaults>>

-----------------------------------------------------------------------------
(* The files change, at any time.                                           *)
EditFiles ==
  /\ toolsetFaults < MaxToolsetFaults /\ toolsetFaults' = toolsetFaults + 1
  /\ \/ \E f \in SkillFiles :
          /\ skillFiles' = IF f \in skillFiles THEN skillFiles \ {f} ELSE skillFiles \cup {f}
          /\ UNCHANGED agentFiles
     \/ \E f \in AgentFiles :
          /\ agentFiles' = IF f \in agentFiles THEN agentFiles \ {f} ELSE agentFiles \cup {f}
          /\ UNCHANGED skillFiles
  /\ UNCHANGED <<mcp, agent, inventory, toolCall>>

(* The process starts again: what waits for a decision is on the disk.          *)
RestartServer ==
  /\ toolsetFaults < MaxToolsetFaults /\ toolsetFaults' = toolsetFaults + 1
  /\ \E got \in Yields :
       mcp' = Loaded(got) /\ inventory' = Inventory(Loaded(got), Absent)
  /\ agent' = [u \in Users |-> Absent]
  /\ toolCall' = [c \in ToolCalls |-> IF Open(c) THEN [toolCall[c] EXCEPT !.state = "lost"]
                                      ELSE toolCall[c]]
  /\ UNCHANGED <<skillFiles, agentFiles>>

ToolsetInit ==
  /\ skillFiles \in SUBSET SkillFiles /\ agentFiles \in SUBSET AgentFiles
  /\ \E got \in Yields : mcp = Loaded(got)
  /\ agent = [u \in Users |-> Absent] /\ inventory = Inventory(mcp, Absent)
  /\ toolCall = [c \in ToolCalls |-> Absent] /\ toolsetFaults = 0

ToolsetNext ==
  \/ \E u \in Users : StartAgent(u) \/ StopAgent(u) \/ \E c \in ToolCalls : CallTool(u, c)
  \/ \E c \in ToolCalls : EndTool(c) \/ (\E b \in BOOLEAN : Approve(c, b))
                           \/ \E d \in ToolCalls : CallInside(d, c)
  \/ EditFiles \/ RestartServer

ToolsetSpec == ToolsetInit /\ [][ToolsetNext]_toolsetVars

-----------------------------------------------------------------------------
Executed == {c \in ToolCalls : toolCall[c] # Absent /\ toolCall[c].state \in {"running", "done"}}

(* Whatever files there are, broken ones or ones with the name of a built-in    *)
(* skill, an agent has each built-in tool and each built-in hook, and of each   *)
(* name one tool.                                                           *)
BuiltInsKept ==
  \A u \in Users : agent[u] # Absent =>
    /\ \A s, t \in agent[u].tools : s.name = t.name => s = t
    /\ \A i \in 1..Len(BuiltIns) :
         /\ \A k \in 1..Len(BuiltIns[i].tools) : BuiltIns[i].tools[k] \in agent[u].tools
         /\ \A k \in 1..Len(BuiltIns[i].hooks) :
              \E p \in DOMAIN agent[u].hooks : \A q \in DOMAIN agent[u].hooks :
                agent[u].hooks[q] = BuiltIns[i].hooks[k] <=> q = p

(* A specialist calls no other specialist and nothing outside of its definition, *)
(* so no tool of an MCP server.                                              *)
SpecialistIsBound ==
  \A c \in ToolCalls : toolCall[c] # Absent /\ toolCall[c].within # Absent =>
    /\ toolCall[c].tool.name \in toolCall[toolCall[c].within].task.tools
    /\ toolCall[c].tool.server = <<>> /\ toolCall[c].tool.name # <<"delegate_agent">>

(* No call that needs an approval runs without one, those of a specialist, that  *)
(* nobody can decide about, included.                                        *)
NothingUnapproved ==
  \A c \in Executed :
    NeedsApproval(toolCall[c].tool, toolCall[c].risky) =>
      toolCall[c].approved /\ toolCall[c].within = Absent

(* What runs after an approval is the tool the user was asked about.  Another  *)
(* one can only be a tool of an MCP server in place of one whose joined name is  *)
(* the same, after the process was started again; a built-in tool neither takes  *)
(* the place of another one nor loses its own.                               *)
RunsWhatWasAsked ==
  \A c \in Executed : toolCall[c].approved /\ toolCall[c].tool # toolCall[c].asked =>
    /\ toolsetFaults > 0
    /\ {toolCall[c].tool, toolCall[c].asked} \subseteq McpTools
    /\ toolCall[c].tool.name = toolCall[c].asked.name

(* The page lists the tools of the agent that was built last.                  *)
InventoryIsLatest ==
  inventory.of # Absent /\ agent[inventory.of] # Absent =>
    /\ inventory.tools = {t.name : t \in agent[inventory.of].tools}
    /\ inventory.mcp = {t.name : t \in {t \in agent[inventory.of].tools : t.server # <<>>}}

(* Every agent has what it must have and nothing runs that nobody allowed.      *)
ToolsetInv ==
  /\ BuiltInsKept /\ SpecialistIsBound /\ NothingUnapproved
  /\ RunsWhatWasAsked /\ InventoryIsLatest
=============================================================================
