---------------------------- MODULE MCReportJobs ----------------------------
(* Instances of ReportJobs for TLC. *)
EXTENDS ReportJobs, TLC

CONSTANTS c1, c2, c3, c4, k1, i1, i2

\* An export and its retry, the same key for something else, a call without key.
Key == c1 :> k1 @@ c2 :> k1 @@ c3 :> k1 @@ c4 :> NoKey
Intent == c1 :> i1 @@ c2 :> i1 @@ c3 :> i2 @@ c4 :> i1
=============================================================================
