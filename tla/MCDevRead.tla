----------------------------- MODULE MCDevRead -----------------------------
(***************************************************************************)
(* The two platform modules and dev_read.  A class_create that fails is    *)
(* left to the run that shows what comes of it.                            *)
(***************************************************************************)
EXTENDS DevRead

AnyFailure == FailurePoints \ {"class"}

(* Among them numbers that read refuses, and -1, which is also what it      *)
(* returns then.                                                            *)
SomeRequests == {-2, -1, 3}
=============================================================================
