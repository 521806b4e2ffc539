------------------------------ MODULE Workspace ------------------------------
(****************************************************************************)
(* The commands of the code workspace (translator/mod.rs): an operator's    *)
(* approval, rejection or refinement of a mutation an agent asked for,      *)
(* project browsing, and the commands that become a prompt to the session's *)
(* agent (SessionHandle::send_client_command).                              *)
(*                                                                          *)
(* The bridge keeps no record of a mutation: an approval carries the change *)
(* itself, and applies it as often as it is sent.  What applying costs is   *)
(* therefore decided by the file alone.  One file of the project is         *)
(* modelled, by how often it holds the anchor (old_text) and the            *)
(* replacement (new_text) of one edit whose replacement lacks the anchor.   *)
(****************************************************************************)
EXTENDS CommandDispatch

VARIABLES
  file,   \* the target of the mutation
  mixed,  \* history: two changes of the file ran into each other
  turns   \* prompts a session's agent is working on

workspace == <<file, mixed, turns>>
wvars == <<vars, workspace>>

File(anchor, new) == [there |-> TRUE, anchor |-> anchor, new |-> new]
NoFile == [there |-> FALSE, anchor |-> 0, new |-> 0]

\* Nobody has made the edit before.
ASSUME FileAssumption ==
  \A k \in Cases : k.files \subseteq [there : BOOLEAN, anchor : Nat, new : {0}]

WInit ==
  /\ Init
  /\ file \in case.files
  /\ mixed = FALSE
  /\ turns = [s \in Sids |-> 0]

Say(c, ans) == Reply(c, ans) /\ UNCHANGED workspace

-----------------------------------------------------------------------------
(* bridge.mutation.approve.                                                 *)

Filling == \E c \in Conns : At(c, "approve", "fill")

Approve(c) ==
  /\ At(c, "approve", "run")
  /\ IF cmd[c].id = "no_id" THEN Say(c, "id_required")
     ELSE IF ~Found(c) THEN Say(c, "not_found")
     ELSE Proceed(c, "apply") /\ UNCHANGED workspace

\* Mutant: the first of several anchors is replaced.
AnchorRefusal_first(f) ==
  IF ~f.there THEN "fs_failed" ELSE IF f.anchor = 0 THEN "anchor_not_found" ELSE "none"

AnchorRefusal(f) ==
  IF ~f.there THEN "fs_failed"
  ELSE IF f.anchor = 0 THEN "anchor_not_found"
  ELSE IF f.anchor > 1 THEN "anchor_not_unique"
  ELSE "none"

\* mutation_apply_to_project up to its write: the payload, and for an edit the
\* file as it is now.  A write's content holds the anchor once.
ApplyRefusal(c) ==
  CASE cmd[c].id = "bad_path" -> "path_invalid"
    [] cmd[c].id = "no_text" -> "text_required"
    [] cmd[c].id = "unknown" -> "kind_unsupported"
    [] cmd[c].id = "edit" -> AnchorRefusal(file)
    [] cmd[c].id = "delete" /\ ~file.there -> "fs_failed"
    [] OTHER -> "none"

ApplyRead(c) ==
  /\ At(c, "approve", "apply")
  /\ cmd[c].id # "delete"
  /\ IF ApplyRefusal(c) # "none" THEN Answer(c, ApplyRefusal(c))
     ELSE cmd' = [cmd EXCEPT ![c].pc = "write",
                    ![c].text = IF cmd[c].id = "write" THEN <<File(1, 0)>>
                                ELSE <<File(file.anchor - 1, file.new + 1)>>]
  /\ UNCHANGED <<config, fixed, files, registry, workspace>>

ApplyDelete(c) ==
  /\ At(c, "approve", "apply") /\ cmd[c].id = "delete"
  /\ IF ApplyRefusal(c) # "none" THEN Say(c, ApplyRefusal(c))
     ELSE /\ file' = NoFile /\ mixed' = (mixed \/ Filling)
          /\ Reply(c, "applied") /\ UNCHANGED turns

\* std::fs::write empties the file, then fills it.
ApplyTruncate(c) ==
  /\ At(c, "approve", "write")
  /\ file' = File(0, 0) /\ mixed' = (mixed \/ Filling)
  /\ Proceed(c, "fill") /\ UNCHANGED turns

\* Of two writes at once the longer leaves its tail; one whose file was deleted
\* in between leaves nothing.
ApplyFill(c) ==
  LET text == cmd[c].text[1]
      tails == {File(text.anchor + a, text.new + n) : a \in 0..file.anchor, n \in 0..file.new} IN
  /\ At(c, "approve", "fill")
  /\ file' \in {text} \cup (IF mixed THEN tails \cup {file} ELSE {})
  /\ Reply(c, "applied") /\ UNCHANGED <<mixed, turns>>

\* The file cannot be opened, or not be written in full.
ApplyFails(c) ==
  /\ cmd[c].op = "approve" /\ cmd[c].pc \in {"write", "fill"}
  /\ Say(c, "fs_failed")

-----------------------------------------------------------------------------
(* Commands that become a prompt.                                           *)

\* send_client_command with message.submit: an ACP agent gets a task that waits
\* for the turn, and the ack does not wait for it; a line engine's stdin takes
\* it or is closed.
Submit(c) ==
  LET s == cmd[c].s IN
  \/ /\ sess[s].kind = "acp"
     /\ turns' = [turns EXCEPT ![s] = @ + 1]
     /\ Reply(c, "ok") /\ UNCHANGED <<file, mixed>>
  \/ sess[s].kind # "acp" /\ Say(c, "ok")
  \/ sess[s].kind # "acp" /\ Say(c, "dispatch_failed")

\* A command whose payload must be well formed before it is sent.
Prompt(c, op) ==
  /\ At(c, op, "run")
  /\ IF ~Found(c) THEN Say(c, "not_found")
     ELSE IF cmd[c].id = "bad" THEN Say(c, "invalid_payload")
     ELSE Submit(c)

CodingContext(c) == Prompt(c, "context")
ReviewAction(c) == Prompt(c, "review")
Validation(c) == Prompt(c, "validation")
TaskLifecycle(c) == Prompt(c, "task")

\* workspace.preview.*: only send_context reaches the agent.
Preview(c) ==
  \/ cmd[c].id = "send" /\ Prompt(c, "preview")
  \/ /\ At(c, "preview", "run") /\ cmd[c].id # "send"
     /\ Say(c, IF Found(c) THEN "ok" ELSE "not_found")

\* The fields are checked before the session is looked up.
Refine(c) ==
  /\ At(c, "refine", "run")
  /\ IF cmd[c].id = "bad" THEN Say(c, "invalid_payload")
     ELSE IF ~Found(c) THEN Say(c, "not_found")
     ELSE Submit(c)

\* message.*: an ACP session knows no retry.
Message(c) ==
  /\ At(c, "message", "run")
  /\ IF ~Found(c) THEN Say(c, "not_found")
     ELSE IF cmd[c].id = "submit" \/ sess[cmd[c].s].kind # "acp" THEN Submit(c)
     ELSE \E ans \in {"ok", "dispatch_failed"} :
            /\ cmd[c].id = "retry" => ans = "dispatch_failed"
            /\ Say(c, ans)

\* transcript.completed or transcript.error, which the session's ring takes even
\* when the session is closed by now.
TurnEnds(s) ==
  /\ turns[s] > 0
  /\ turns' = [turns EXCEPT ![s] = @ - 1]
  /\ UNCHANGED <<vars, file, mixed>>

-----------------------------------------------------------------------------
(* Commands that only answer.                                               *)

\* No session is asked for.
Reject(c) ==
  /\ At(c, "reject", "run")
  /\ Say(c, IF cmd[c].id = "bad" THEN "id_required" ELSE "rejected")

\* project.tree.request and project.file.request.
Browse(c) ==
  /\ At(c, "browse", "run")
  /\ IF ~Found(c) THEN Say(c, "not_found")
     ELSE IF cmd[c].id = "bad" THEN Say(c, "path_invalid")
     ELSE Say(c, IF file.there THEN "loaded" ELSE "file_missing")

Branch(c) ==
  /\ At(c, "branch", "run")
  /\ Say(c, IF Found(c) THEN "ok" ELSE "not_found")

-----------------------------------------------------------------------------
WNext ==
  \/ Next /\ UNCHANGED workspace
  \/ \E c \in Conns :
       \/ Approve(c) \/ ApplyRead(c) \/ ApplyDelete(c)
       \/ ApplyTruncate(c) \/ ApplyFill(c) \/ ApplyFails(c)
       \/ CodingContext(c) \/ ReviewAction(c) \/ Validation(c) \/ TaskLifecycle(c)
       \/ Preview(c) \/ Refine(c) \/ Message(c) \/ Reject(c) \/ Browse(c) \/ Branch(c)
  \/ \E s \in Sids : TurnEnds(s)

WSpec == WInit /\ [][WNext]_wvars

-----------------------------------------------------------------------------
(* Properties.                                                              *)

\* However often one edit is approved, from however many connections and after
\* whatever else happened to the file, its replacement is there at most once
\* (mutation_apply_to_project), unless two changes were inside the file at once.
EditOnce == ~mixed => file.new <= 1
=============================================================================
