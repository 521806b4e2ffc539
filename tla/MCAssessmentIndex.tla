------------------------- MODULE MCAssessmentIndex --------------------------
EXTENDS AssessmentIndex

MCKinds == [r \in Tasks |-> IF r \in Sweeps THEN {"started", "completed"}
                            ELSE {"started", "progress", "finding", "completed"}]
=============================================================================
