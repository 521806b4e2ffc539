---------------------------- MODULE AgentConfig ----------------------------
(****************************************************************************)
(* The bridge's two kinds of configuration and the commands that read and   *)
(* change them while it runs: agents.toml with the agent registry loaded    *)
(* from it (agent_runtime/config.rs, registry.rs, registry_sync.rs), and    *)
(* the config/ tree with its snapshot (config/loader.rs).                   *)
(*                                                                          *)
(* Connections run in parallel, one command at a time each.  No command     *)
(* holds a lock on agents.toml: registry.add reads it, reads it again,      *)
(* and writes the whole file back, which std::fs::write does by truncating  *)
(* it first.  An operator may edit the file at any time.                    *)
(*                                                                          *)
(* A text of agents.toml is the sequence of its [agents.*] tables.          *)
(****************************************************************************)
EXTENDS Naturals, Sequences, FiniteSets

CONSTANTS
  Conns,     \* client connections
  Installed, \* the text of agents.toml when the bridge starts
  Added,     \* agent ids a client may add
  Edits,     \* texts an operator may save
  Trees      \* resume policies of the config/ tree, "bad" for one that does not load

VARIABLES
  cmd,       \* the command each connection's loop is in
  toml,      \* agents.toml on disk
  served,    \* SessionRegistry.agents: the tables of the loaded file
  tree,      \* the config/ tree on disk
  snap,      \* AppState.config_snapshot
  catalog,   \* the remote registry: the ids it lists, or "junk"
  rcache,    \* registry.cache.toml
  spoiled,   \* history: two writes of the file met ("overlap"), one failed half
             \* way ("half"), or the operator saved what does not load ("operator")
  edits      \* bound: operator edits, cache expiries and crashes left

config == <<toml, served, tree, snap, catalog, rcache, spoiled, edits>>

Entry(id, on, kind, mcp) == [id |-> id, on |-> on, kind |-> kind, mcp |-> mcp]
Junk == Entry("junk", FALSE, "none", 0)  \* what makes a text unreadable
Default == "def"                         \* default_agent

Ids(text) == {text[k].id : k \in DOMAIN text}

\* AgentsConfig::from_toml_str: at least one table, no id twice, and the
\* default agent there and enabled.
Loads(text) ==
  /\ \A k \in DOMAIN text : text[k] # Junk
  /\ \A j, k \in DOMAIN text : text[j].id = text[k].id => j = k
  /\ \E k \in DOMAIN text : text[k].id = Default /\ text[k].on

\* The bridge starts only with a file that loads (main.rs).
ASSUME ConfigAssumption == Loads(Installed)

Tables(text) == {text[k] : k \in DOMAIN text}
Registered(id) == \E a \in served : a.id = id
Agent(id) == CHOOSE a \in served : a.id = id

\* A command's own state; NoMeta stands for the row of no session.
NoMeta == [exists |-> FALSE, agent |-> "none", root |-> "none", caps |-> FALSE,
           kind |-> "none", mcp |-> 0, class |-> "none", stamp |-> FALSE]
NoCmd == [op |-> "none", pc |-> "idle", s |-> "none", mode |-> "none", vac |-> FALSE,
          id |-> "none", text |-> << >>, saw |-> NoMeta, allowed |-> {}, put |-> FALSE,
          ans |-> "none"]

ConfigInit ==
  /\ toml = Installed /\ served = Tables(toml)
  /\ tree \in Trees \ {"bad"} /\ snap = [ok |-> TRUE, policy |-> tree]
  /\ catalog = Added /\ rcache = [body |-> {}, fresh |-> FALSE]
  /\ spoiled = {}

At(c, op, pc) == cmd[c].op = op /\ cmd[c].pc = pc
Writing == \E c \in Conns : At(c, "add", "fill")
Go(c, pc) == cmd' = [cmd EXCEPT ![c].pc = pc]
Answer(c, ans) == cmd' = [cmd EXCEPT ![c].pc = "done", ![c].ans = ans]
Spoils(cause, happens) == spoiled' = spoiled \cup (IF happens THEN {cause} ELSE {})

-----------------------------------------------------------------------------
(* registry.add.                                                            *)

\* parse_registry_add_payload.
ValidAdd(c) == cmd[c].id \in Added

\* The snapshot taken to look for the id.
AddRead(c) ==
  /\ At(c, "add", "start")
  /\ IF ~ValidAdd(c) THEN Answer(c, "invalid_payload")
     ELSE IF ~Loads(toml) THEN Answer(c, "config_read_failed")
     ELSE IF cmd[c].id \in Ids(toml) THEN Answer(c, "present")
     ELSE Go(c, "append")
  /\ UNCHANGED config

\* The registry served is the embedded default, which has no file.
AddNoFile(c) ==
  /\ At(c, "add", "start")
  /\ Answer(c, "no_local_config")
  /\ UNCHANGED config

\* Mutant: the merged text is written without a look at it.
Mergeable_always(text) == TRUE

Mergeable(text) == Loads(text)

\* append_agent_to_config reads the file once more and validates the merge.
AddAppend(c) ==
  LET text == Append(toml, Entry(cmd[c].id, TRUE, "acp", 0)) IN
  /\ At(c, "add", "append")
  /\ IF Mergeable(text)
     THEN cmd' = [cmd EXCEPT ![c].pc = "write", ![c].text = text]
     ELSE Answer(c, "append_failed")
  /\ UNCHANGED config

\* The file is gone, or cannot be read or opened.
AddFails(c) ==
  /\ At(c, "add", "append") \/ At(c, "add", "write")
  /\ Answer(c, "append_failed")
  /\ UNCHANGED config

\* fs::write, first half: the file is empty.
AddTruncate(c) ==
  /\ At(c, "add", "write")
  /\ toml' = << >>
  /\ Spoils("overlap", Writing)
  /\ Go(c, "fill")
  /\ UNCHANGED <<served, tree, snap, catalog, rcache, edits>>

\* Second half.  What another write left past the end of this one stays.
AddFill(c) ==
  /\ At(c, "add", "fill")
  /\ toml' \in {cmd[c].text} \cup (IF toml = << >> THEN {} ELSE {Append(cmd[c].text, Junk)})
  /\ Answer(c, "added")
  /\ UNCHANGED <<served, tree, snap, catalog, rcache, spoiled, edits>>

\* What a write leaves that fails half way, as on a full disk: some of the tables,
\* the last of them perhaps cut off.
Fragments(text) ==
  LET whole == {SubSeq(text, 1, n) : n \in 0..(Len(text) - 1)}
  IN  whole \cup {Append(part, Junk) : part \in whole}

AddFillFails(c) ==
  /\ At(c, "add", "fill")
  /\ toml' \in Fragments(cmd[c].text) /\ Spoils("half", TRUE)
  /\ Answer(c, "append_failed")
  /\ UNCHANGED <<served, tree, snap, catalog, rcache, edits>>

-----------------------------------------------------------------------------
(* registry.reload and registry.sync.                                       *)

\* AgentRuntimeRegistry::load: a text that does not load leaves the registry.
ReloadRead(c) ==
  /\ At(c, "reload", "start")
  /\ IF Loads(toml)
     THEN cmd' = [cmd EXCEPT ![c].pc = "swap", ![c].text = toml]
     ELSE Answer(c, "reload_failed")
  /\ UNCHANGED config

ReloadSwap(c) ==
  /\ At(c, "reload", "swap")
  /\ served' = Tables(cmd[c].text)
  /\ Answer(c, "reloaded")
  /\ UNCHANGED <<toml, tree, snap, catalog, rcache, spoiled, edits>>

\* load_source_with_cache; what was fetched goes into the cache before
\* parse_remote_catalog has seen it.
Fetched == IF rcache.fresh THEN rcache.body ELSE catalog

\* Its answer, local agents first, is not part of the state.
Sync(c) ==
  /\ At(c, "sync", "start")
  /\ rcache' = [body |-> Fetched, fresh |-> TRUE]
  /\ Answer(c, IF "junk" \in Fetched THEN "fetch_failed" ELSE "synced")
  /\ UNCHANGED <<toml, served, tree, snap, catalog, spoiled, edits>>

\* No [registry] table, a URL outside trusted_url_prefixes, or no answer.
SyncFails(c) ==
  /\ At(c, "sync", "start")
  /\ Answer(c, "fetch_failed")
  /\ UNCHANGED config

-----------------------------------------------------------------------------
(* config.reload and config.validate.  A reload never replaces the resume   *)
(* policy the bridge enforces, which it read when it started.               *)

ConfigLoad(c) ==
  /\ At(c, "config", "start")
  /\ cmd' = [cmd EXCEPT ![c].pc = "swap", ![c].mode = tree]
  /\ UNCHANGED config

ConfigSwap(c) ==
  /\ At(c, "config", "swap")
  /\ IF cmd[c].mode = "bad"
     THEN snap' = [snap EXCEPT !.ok = FALSE] /\ Answer(c, "config_failed")
     ELSE snap' = [ok |-> TRUE, policy |-> cmd[c].mode] /\ Answer(c, "config_reloaded")
  /\ UNCHANGED <<toml, served, tree, catalog, rcache, spoiled, edits>>

ConfigValidate(c) ==
  /\ At(c, "validate", "start")
  /\ Answer(c, IF snap.ok THEN "validated" ELSE "config_invalid")
  /\ UNCHANGED config

-----------------------------------------------------------------------------
(* The operator, the clock and the remote registry.                         *)

OperatorEdits ==
  /\ edits > 0 /\ edits' = edits - 1
  /\ \/ /\ toml' \in Edits
        /\ Spoils("operator", ~Loads(toml') \/ Writing)
        /\ UNCHANGED <<tree, catalog, rcache>>
     \/ tree' \in Trees /\ UNCHANGED <<toml, catalog, rcache, spoiled>>
     \/ catalog' \in {Added, {"junk"}} /\ UNCHANGED <<toml, tree, rcache, spoiled>>
     \/ rcache' = [rcache EXCEPT !.fresh = FALSE] /\ UNCHANGED <<toml, tree, catalog, spoiled>>
  /\ UNCHANGED <<cmd, served, snap>>

ConfigCommand(c) ==
  \/ AddRead(c) \/ AddNoFile(c) \/ AddAppend(c) \/ AddFails(c)
  \/ AddTruncate(c) \/ AddFill(c) \/ AddFillFails(c)
  \/ ReloadRead(c) \/ ReloadSwap(c) \/ Sync(c) \/ SyncFails(c)
  \/ ConfigLoad(c) \/ ConfigSwap(c) \/ ConfigValidate(c)

-----------------------------------------------------------------------------
(* Properties.                                                              *)

\* However many clients add agents at once, and the same one too, agents.toml
\* still loads when nobody is writing it (append_agent_to_config), unless two
\* of them were inside fs::write together, a write failed after it had truncated
\* the file, or the operator broke it.
AgentsFileLoads == ~Writing /\ spoiled = {} => Loads(toml)
=============================================================================
