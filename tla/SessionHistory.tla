--------------------------- MODULE SessionHistory ---------------------------
(***************************************************************************)
(* What those who read the durable history of a session back get from it   *)
(* (session/persistence/mod.rs, the SessionPersistence trait): a log that  *)
(* grows at its end, whose settled entries stay where they are until the   *)
(* session is forgotten or its log breaks.  A broken log reads as an error *)
(* until the session is forgotten.  Only the last entry can be unsettled:  *)
(* it was never acknowledged, and the next write may take it away.         *)
(***************************************************************************)
EXTENDS Naturals, Sequences

CONSTANTS
    Sessions,
    Entries         \* what a log may hold

VARIABLES
    log,            \* the entries of each session, oldest first
    settled,        \* is the last of them there to stay?
    broken          \* the sessions whose log cannot be read

Init ==
    /\ log = [s \in Sessions |-> << >>]
    /\ settled = [s \in Sessions |-> TRUE]
    /\ broken = {}

\* An entry is added behind a settled log; it may itself be unsettled.
Extend(s, e) ==
    /\ settled[s] /\ s \notin broken
    /\ log' = [log EXCEPT ![s] = Append(@, e)]
    /\ settled' \in {settled, [settled EXCEPT ![s] = FALSE]}
    /\ UNCHANGED broken

\* The unsettled last entry is lost.
Lose(s) ==
    /\ ~settled[s] /\ log[s] # << >>
    /\ log' = [log EXCEPT ![s] = SubSeq(@, 1, Len(@) - 1)]
    /\ settled' = [settled EXCEPT ![s] = TRUE]
    /\ UNCHANGED broken

\* A write stops where it makes the whole log unreadable.
Break(s) ==
    /\ log' = [log EXCEPT ![s] = << >>]
    /\ settled' = [settled EXCEPT ![s] = TRUE]
    /\ broken' = broken \cup {s}

\* The session is forgotten with all its entries.
Forget(s) ==
    /\ log' = [log EXCEPT ![s] = << >>]
    /\ settled' = [settled EXCEPT ![s] = TRUE]
    /\ broken' = broken \ {s}

Next == \E s \in Sessions : Lose(s) \/ Break(s) \/ Forget(s) \/ \E e \in Entries : Extend(s, e)

Spec == Init /\ [][Next]_<<log, settled, broken>>
=============================================================================
