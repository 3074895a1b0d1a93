---------------------------- MODULE MCWaitResume ----------------------------
(* Small instances of WaitResume: one wait step, three in a chain, two in      *)
(* parallel.                                                                   *)
EXTENDS WaitResume, TLC

CONSTANTS s1, s2, s3

Single   == s1 :> 0
Chain    == (s1 :> 0) @@ (s2 :> 1) @@ (s3 :> 2)
Parallel == (s1 :> 0) @@ (s2 :> 0)
\* max_retries of the steps.
Once       == [s \in WaitSteps |-> 1]
FirstTwice == [s \in WaitSteps |-> IF s = s1 THEN 2 ELSE 1]

\* State constraint of wait_calm: an execution alone asks up to four times; when there are
\* two, each asks once.
Used(e)   == Cardinality({t \in Tokens : token[t].ex = e})
FewAsked  == worker[2].pc # "idle" => Used(1) <= 1 /\ Used(2) <= 1
=============================================================================
