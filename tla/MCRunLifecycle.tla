---------------------------- MODULE MCRunLifecycle ----------------------------
(* Instances of RunLifecycle: each scene lets a few things go wrong together,   *)
(* with as many calls and schedules as the question needs.                      *)
EXTENDS RunLifecycle, TLC

CONSTANTS r1, r2, r3

Plan(a, b) == (1 :> a) @@ (2 :> b)
Scene(risk, plan, calls, given, ends) ==
    [risk |-> risk, kind |-> plan, calls |-> calls, given |-> given, ends |-> ends]
Two == {r1, r2}
All == {r1, r2, r3}

\* Failures are counted, crashes, requests during runs, deletion, overlapping requests,
\* errors of the end of a run, and what keeps a job from running.
Days == {Scene({}, Plan("daily", "daily"), All, 1, {"success", "failed"}),
         Scene({"crash"}, Plan("once", "once"), Two, 2, {"success"}),
         Scene({"overlap"}, Plan("daily", "once"), Two, 2, {"success", "failed"}),
         Scene({"overlap", "delete"}, Plan("daily", "daily"), Two, 1, {"success"}),
         Scene({"tabs"}, Plan("once", "once"), Two, 1, {"success"}),
         Scene({"dberror", "owner"}, Plan("once", "once"), Two, 1, Verdicts),
         Scene({"switch", "busy", "agent", "jobstore"}, Plan("daily", "daily"), Two, 1, {"success"}),
         Scene({"crash", "torn"}, Plan("daily", "daily"), {r1}, 1, {"success"})}

\* Runs and the process are cut in every way.
Ends == {Scene({"crash", "dberror", "overlap", "delete"}, 1 :> "daily", Two, 1, {"success"})}

===============================================================================
