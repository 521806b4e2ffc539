----------------------------- MODULE MCAcpAgent -----------------------------
(* Small instances of AcpAgent and ToolActivity for TLC. *)
EXTENDS ToolActivity

MCLoad(calls, reqs, forms, frames, tapped) ==
  [calls |-> calls, reqs |-> reqs, forms |-> forms, frames |-> frames, tap |-> tapped]

\* Both requests of the bridge with one of the agent, the agent's requests alone
\* (some ignored, some with an endless wait), notifications alone, and
\* notifications beside the tap.
MCLoads ==
  {MCLoad(Calls, 1, {"plain"}, 0, FALSE),
   MCLoad({}, 2, {"plain", "odd"}, 0, FALSE),
   MCLoad({}, MaxReqs, {"plain", "long"}, 0, FALSE),
   MCLoad({}, 0, {}, 4, FALSE),
   MCLoad({}, 0, {}, 2, TRUE)}

ToolFrame(t, status, what) ==
  [tool |-> t, disc |-> IF status = "pending" THEN "tool_call" ELSE "tool_call_update",
   status |-> status, what |-> what]

\* Three tasks, of which two end, one of them also without its type or with a
\* status left out, another tool call, and other notifications.
MCFrames ==
  {ToolFrame(t, st, "task") : t \in {"a", "b"}, st \in {"pending", "completed"}}
  \cup {ToolFrame("a", "none", "task"), ToolFrame("a", "completed", "other"),
        ToolFrame("c", "pending", "task"), ToolFrame("x", "failed", "execute")}
  \cup {[tool |-> "none", disc |-> d, status |-> "none", what |-> "other"]
          : d \in {"message", "thought"}}
=============================================================================
