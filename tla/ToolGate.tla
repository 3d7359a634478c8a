------------------------------- MODULE ToolGate -------------------------------
(***************************************************************************)
(* The gate every tool call of the Python side passes: run_pre_tool_use    *)
(* asks AuthProxyClient, which asks auth-proxy when AUTH_PROXY_URL is set  *)
(* and the orchestrator's own PolicyEngine when it is not.  The two hold   *)
(* policies of their own: config/policy.yaml here, the table compiled into *)
(* auth-proxy there.  A glob pattern is modelled by the tools, or the      *)
(* paths, that it matches.                                                 *)
(***************************************************************************)
EXTENDS Integers

CONSTANTS
  LocalPolicy,   \* role_tool_policy: role |-> [allow, deny], sets of tools
  RemotePolicy,  \* the same of auth-proxy's NewDevEngine
  Repositories,  \* document_repositories: repo |-> [allowed, denied], sets of
                 \* paths
  Escaping       \* the paths that are absolute or leave the repository

\* policy.Engine.Decide, and the first half of decide_tool_call: an unknown
\* role is blocked, deny wins, and what is not allowed is blocked.
Decide(policy, role, tool) ==
  /\ role \in DOMAIN policy
  /\ tool \notin policy[role].deny
  /\ tool \in policy[role].allow

\* is_path_allowed.
PathAllowed(repo, path) ==
  /\ path \notin Escaping
  /\ path \notin Repositories[repo].denied
  /\ path \in Repositories[repo].allowed

DocumentTools == {"document.write_markdown",
                  "document.commit_and_push_markdown_repo"}

\* What Python takes for false in a configuration: the empty string, or null.
Nothing == ""

\* "if repo and path": the arguments name a place at all.
NamesPlace(target) == target.repo # Nothing /\ target.path # Nothing

\* Mutant: a repository that the policy does not know is not looked after.
DecideKnownOnly(role, tool, target) ==
  /\ Decide(LocalPolicy, role, tool)
  /\ tool \in DocumentTools /\ target.repo \in DOMAIN Repositories =>
       PathAllowed(target.repo, target.path)

\* PolicyEngine.decide_tool_call; target is the repo and path of a document
\* tool's arguments.  Arguments that name no place are not checked for one.
DecideToolCall(role, tool, target) ==
  /\ Decide(LocalPolicy, role, tool)
  /\ tool \in DocumentTools /\ NamesPlace(target) =>
       /\ target.repo \in DOMAIN Repositories
       /\ PathAllowed(target.repo, target.path)

\* Mutant: a request to auth-proxy that fails leaves the decision to the local policy.
AuthorizeFallsBack(remote, reachable, role, tool, target) ==
  {DecideToolCall(role, tool, target)}
    \cup (IF remote /\ reachable THEN {Decide(RemotePolicy, role, tool)} ELSE {})

\* AuthProxyClient.authorize under run_pre_tool_use: the decisions it may come
\* to.  A request to auth-proxy that fails, for whatever reason, blocks.
Authorize(remote, reachable, role, tool, target) ==
  IF remote
    THEN {FALSE} \cup (IF reachable THEN {Decide(RemotePolicy, role, tool)} ELSE {})
    ELSE {DecideToolCall(role, tool, target)}

=============================================================================
