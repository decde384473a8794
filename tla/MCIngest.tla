------------------------------ MODULE MCIngest ------------------------------
(***************************************************************************)
(* Ingest for TLC.  Two boards besides the receiver's; agent "core" has a  *)
(* key, one "core" signs with a stale key and one forgot to sign; "edge"   *)
(* has no key.  Address p2 has a rule, behind core's own; p1 has none.     *)
(***************************************************************************)
EXTENDS Ingest

CONSTANTS core, edge, k1, k2, p1, p2

MCIds   == {core, edge}
MCKeys  == {k1, k2}
MCPeers == {p1, p2}

AgentRules  == [i \in MCIds |-> IF i = core THEN 2 ELSE NoBoard]
PeerRules   == [p \in MCPeers |-> IF p = p2 THEN 1 ELSE NoBoard]
NoAgentRules == [i \in MCIds |-> NoBoard]
KeyRules    == [i \in MCIds |-> IF i = core THEN k1 ELSE NoKey]
NoKeyRules  == [i \in MCIds |-> NoKey]

Agent(p, i, k, s) == [peer |-> p, id |-> i, key |-> k, skew |-> s]

MixedAgents == {Agent(p2, core, k1, 0), Agent(p1, core, k2, 0),
                Agent(p1, core, NoKey, 0), Agent(p1, edge, NoKey, 0),
                Agent(p2, NoId, NoKey, 0), Agent(p1, core, k1, 1)}
(* Two ids whose address gives board 1, and an anonymous source. *)
SharedBoardAgents == {Agent(p2, core, NoKey, 0), Agent(p2, edge, NoKey, 0),
                      Agent(p1, NoId, NoKey, 0)}

MixedBodies == {<<"fly">>, <<"fly", "ctrl">>}
FlyBodies   == {<<"fly">>}

Setup(boards, keys, auth, strict, agents, bodies, most, taken, time) ==
  [agentBoard |-> boards, brokerKey |-> keys, requireAuth |-> auth,
   strict |-> strict, agents |-> agents, bodies |-> bodies, maxSent |-> most,
   maxReceived |-> taken, maxTime |-> time]

(* A key and --strict; --require-auth; neither rules nor keys. *)
MCSetups ==
  {Setup(AgentRules, KeyRules, FALSE, TRUE, MixedAgents, MixedBodies, 2, 2, 2),
   Setup(AgentRules, KeyRules, TRUE, FALSE, MixedAgents, MixedBodies, 2, 2, 1),
   Setup(NoAgentRules, NoKeyRules, FALSE, FALSE, SharedBoardAgents, MixedBodies, 3, 4, 0)}
LostSetups ==
  {Setup(NoAgentRules, NoKeyRules, FALSE, FALSE, SharedBoardAgents, FlyBodies, 2, 3, 0)}
=============================================================================
