-------------------------- MODULE MCAssessmentRuns --------------------------
(* Small instances of AssessmentRuns for TLC. *)
EXTENDS AssessmentRuns

Ref(last) == [kind |-> "file", inside |-> TRUE, first |-> 1, last |-> last, lines |-> 2]
Cand(id, sev, conf, evidence) ==
    [id |-> id, cat |-> "ops", sev |-> sev, titled |-> TRUE, conf |-> conf, evidence |-> evidence]

\* One candidate without a severity, which counts as none; a finding twice and one whose evidence is past the file's end;
\* a critical one below the floor in a bare list; an envelope of another version;
\* one with a severity nobody knows; text.
MCOutputs ==
    {[json |-> TRUE, schema |-> "v1", cands |-> <<Cand("d", "unstated", 5, {Ref(1)})>>],
     [json |-> TRUE, schema |-> "v1",
      cands |-> <<Cand("a", "medium", 5, {Ref(2)}), Cand("a", "medium", 5, {Ref(2)}),
                  Cand("b", "high", 9, {Ref(3)})>>],
     [json |-> TRUE, schema |-> "absent",
      cands |-> <<Cand("c", "critical", 6, {Ref(1)}), Cand("b", "high", 9, {Ref(2)})>>],
     [json |-> TRUE, schema |-> "v2", cands |-> <<Cand("a", "low", 5, {Ref(1)})>>],
     [json |-> TRUE, schema |-> "v1", cands |-> <<Cand("a", "showstopper", 5, {Ref(1)})>>],
     [json |-> FALSE, schema |-> "absent", cands |-> << >>]}

MCLineEvents ==
    {[type |-> "finding", cat |-> "ux", sev |-> "high"],
     [type |-> "finding", cat |-> "ux", sev |-> "critical"],
     [type |-> "completed", cat |-> "", sev |-> ""],
     [type |-> "failed", cat |-> "", sev |-> ""]}
=============================================================================
