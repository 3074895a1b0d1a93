---------------------------- MODULE MCWriteSession ----------------------------
(* Instances of WriteSession: two demands, and clicks on either.               *)
EXTENDS WriteSession

\* Each hazard alone, and those that interact.
AllWeathers == {{}} \cup {{h} : h \in Hazards} \cup {{"crash", "slow", "misreport", "error"},
                {"error", "line", "nomail", "drift", "rollback", "dberror"}}
Shared == {{"shared"}}
===============================================================================
