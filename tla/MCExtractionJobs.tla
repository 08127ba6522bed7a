-------------------------- MODULE MCExtractionJobs --------------------------
(* ExtractionJobs with two replicas of one extractor.  Jobs have keys of   *)
(* their own, so the unique index never matters here.                      *)
EXTENDS ExtractionJobs

NoKeys == [o \in Operation |-> NoKey]
=============================================================================
