------------------------------- MODULE Harness -------------------------------
(***************************************************************************)
(* The policy the agents act under (app/harness, app/agents/registry.py):   *)
(* which agent owns which node of the graphs, which actions exist at which  *)
(* risk, and the decision taken before any of them runs.  Constant-level.   *)
(***************************************************************************)
EXTENDS Naturals

READ == 0
DRAFT == 1
EXTERNAL == 2
COMMITMENT == 3

\* Who owns which nodes, and the level the registry says the agent stays under.
AGENTS == {
    [name |-> "orchestrator", owns |-> {"understand", "clarify"}, maxRisk |-> READ],
    [name |-> "acquisition", owns |-> {"collect", "score", "qualify"}, maxRisk |-> EXTERNAL],
    [name |-> "sourcing", owns |-> {"schedules", "rates", "rfq", "supplier_quotes"},
     maxRisk |-> EXTERNAL],
    [name |-> "quoting", owns |-> {"optimize", "hitl_review", "quote_send", "booking"},
     maxRisk |-> COMMITMENT],
    [name |-> "tracking", owns |-> {"vessel_tracking"}, maxRisk |-> READ]}

AgentForNode(node) ==
    LET owner == CHOOSE spec \in AGENTS : node \in spec.owns IN owner.name

Action(name, agent, risk, requiresApproval, roles) ==
    [name |-> name, agent |-> agent, risk |-> risk, requiresApproval |-> requiresApproval,
     roles |-> roles]

POLICY == {
    Action("prospect.collect", "acquisition", READ, FALSE, {}),
    Action("prospect.outreach.draft", "acquisition", DRAFT, FALSE, {}),
    Action("prospect.outreach.send", "acquisition", EXTERNAL, TRUE, {"reviewer"}),
    Action("supplier.rfq.send", "sourcing", EXTERNAL, FALSE, {}),
    Action("supplier.quote.record", "sourcing", DRAFT, FALSE, {}),
    Action("quote.price", "quoting", DRAFT, FALSE, {}),
    Action("quote.send", "quoting", EXTERNAL, TRUE, {}),
    Action("booking.create", "quoting", COMMITMENT, FALSE, {}),
    Action("vessel.position.refresh", "tracking", READ, FALSE, {})}

\* No agent is entitled to an action above its level, and every node the policy
\* is asked for has one owner.
ASSUME PolicyWithinLevels ==
    /\ \A action \in POLICY : \E spec \in AGENTS :
           spec.name = action.agent /\ action.risk <= spec.maxRisk
    /\ \A s, t \in AGENTS : s # t => s.owns \cap t.owns = {}

\* A commitment needs approval whatever its declaration says.
ApprovalRequired(spec) == spec.requiresApproval \/ spec.risk >= COMMITMENT

Entitled(spec, agent) ==
    spec.agent = agent \/ (agent = "orchestrator" /\ spec.risk <= READ)

Decide(action, agent, roles, approved) ==
    LET spec == CHOOSE s \in POLICY : s.name = action
    IN CASE \A s \in POLICY : s.name # action           -> "deny"
         [] ~Entitled(spec, agent)                       -> "deny"
         [] ~(spec.roles \subseteq roles)                -> "deny"
         [] ApprovalRequired(spec) /\ ~approved          -> "needs_approval"
         [] OTHER                                        -> "allow"

\* harness.check on behalf of the agent that owns the node.
Allowed(action, node, approved) ==
    Decide(action, AgentForNode(node), {}, approved) = "allow"

=============================================================================
