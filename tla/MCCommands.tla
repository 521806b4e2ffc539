----------------------------- MODULE MCCommands -----------------------------
(* Small instances of CommandDispatch, AgentConfig and Workspace for TLC. *)
EXTENDS Workspace, TLC

MCClaim == [c \in Conns |-> IF c = "c1" THEN "r1" ELSE "any"]

Def(kind, mcp) == Entry(Default, TRUE, kind, mcp)
MCInstalled == <<Def("acp", 1), Entry("b1", TRUE, "mock", 0)>>

\* The operator changes the default agent's kind or MCP servers, disables or
\* removes the other agent, or leaves a file that does not load.
MCEdits ==
  {<<Def("mock", 1), Entry("b1", FALSE, "mock", 0)>>, <<Def("acp", 2)>>,
   <<Entry(Default, FALSE, "acp", 1)>>}

Prof(there, parses, kinds, class, tool) ==
  [there |-> there, parses |-> parses, kinds |-> kinds, class |-> class, tool |-> tool]
MCProfiles ==
  {Prof(TRUE, TRUE, {"acp"}, "a", TRUE), Prof(TRUE, TRUE, {"mock"}, "b", FALSE),
   Prof(TRUE, FALSE, {}, "a", FALSE), NoProf}
Good == {Prof(TRUE, TRUE, {"acp"}, "a", TRUE)}
Both == {p \in MCProfiles : p.parses}

Row(root, caps, mcp, class, stamp) ==
  [exists |-> TRUE, agent |-> Default, root |-> root, caps |-> caps, kind |-> "acp",
   mcp |-> mcp, class |-> class, stamp |-> stamp]
AllRows ==
  {Row(root, caps, mcp, class, stamp) :
     root \in {"r1", "r2"}, caps \in BOOLEAN, mcp \in {1, 2}, class \in {"none", "a", "b"},
     stamp \in BOOLEAN}
GoodRow == Row("r1", TRUE, 1, "a", TRUE)

Policy(default, fallback, drift) == [default |-> default, fallback |-> fallback, drift |-> drift]
MCPolicies ==
  {Policy(d, f, m) : d \in Modes, f \in {"replay_only", "fail"}, m \in {"warn", "fail"}}
DefaultPolicy == Policy("native_or_replay", "replay_only", "warn")

Live(kind) == [st |-> "live", kind |-> kind, allowed |-> {kind}]

Case(peer, left, ops, n, policies, profiles, metas) ==
  [who |-> [c \in Conns |-> IF c = "c1" THEN "A" ELSE peer], left |-> left, ops |-> ops,
   edits |-> n, policies |-> policies, profiles |-> profiles, metas |-> metas,
   sessions |-> {NoSess}, files |-> {NoFile}]

\* In the workspace cases a session was created before, and the file holds the
\* edit's anchor never, once or twice.
InWorkspace(left, ops, n, kinds, texts) ==
  [Case("anon", left, ops, n, {DefaultPolicy}, Good, {NoMeta})
     EXCEPT !.sessions = {Live(k) : k \in kinds}, !.files = texts]

\* One resume against every row and policy; connections that compete for a
\* session; the profile and the registry changing under a command; the
\* configuration commands among themselves; approvals of one edit; and the
\* commands that become prompts.
MCCases ==
  {Case("A", 1, {"resume"}, 0, MCPolicies, Good, AllRows \cup {NoMeta}),
   Case("B", 3, {"create", "resume", "close"}, 1, {DefaultPolicy}, Good, {GoodRow, NoMeta}),
   Case("anon", 3, {"create", "browse", "mode", "list"}, 1, {DefaultPolicy}, MCProfiles,
        {NoMeta}),
   Case("anon", 2, {"create", "resume", "reload"}, 1, {DefaultPolicy}, Both,
        {GoodRow, NoMeta}),
   Case("B", 3, {"add", "reload"}, 0, {DefaultPolicy}, Good, {NoMeta}),
   Case("B", 2, {"add", "reload", "sync", "config", "validate"}, 2, {DefaultPolicy}, Good,
        {NoMeta}),
   InWorkspace(3, {"approve"}, 0, {"acp"}, {NoFile, File(0, 0), File(1, 0), File(2, 0)}),
   InWorkspace(1, ProtoOps \cup ToolOps \cup {"other"}, 1, {"acp", "mock"}, {File(1, 0)}),
   InWorkspace(3, {"message", "refine"}, 0, {"acp", "mock"}, {File(1, 0)})}
=============================================================================
