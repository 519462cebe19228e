---------------------------- MODULE MCMcpSessions ----------------------------
(***************************************************************************)
(* Instances of McpSessions for TLC: a host alone; a session on stdio; two *)
(* hooks at once; a host beside a hook.                                    *)
(***************************************************************************)
EXTENDS McpSessions, TLC

CONSTANTS c1, c2

Plan(p, q, M, k) == [peer |-> c1 :> p @@ c2 :> q, methods |-> M, most |-> k]

Various == {
    Plan("host", "none", {"initialize", "initialized", "ping"}, 2),
    Plan("host", "none", {"initialize", "create_session", "retain"}, 3),
    Plan("stdio", "none", {"initialize", "initialized", "create_session", "retain"}, 4),
    Plan("start", "none", {}, 2),
    Plan("stop", "capture", {}, 2)}

Hooks == {
    Plan("start", "none", {}, 2),
    Plan("stop", "none", {}, 2),
    Plan("capture", "capture", {}, 1),
    Plan("host", "none", {"initialize", "create_session"}, 3)}
==============================================================================
