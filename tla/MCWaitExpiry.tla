----------------------------- MODULE MCWaitExpiry -----------------------------
(* Instances of WaitExpiry: links of one to three quarters, schedules with a   *)
(* run near, far, none, or two.                                                *)
EXTENDS WaitExpiry

SomeSchedules == {{}, {3}, {1, 4}}
AllWeathers == {{}} \cup {{h} : h \in Hazards} \cup {{"dberror", "toggle", "nosmtp"}}
StepDeleted == {{"step"}}
===============================================================================
