---------------------------- MODULE MCDAVWriter -----------------------------
(* Small instances of DAVWriter.                                           *)
EXTENDS DAVWriter

MCETags == 1 .. MaxRevisions

(* A server that may rewrite what it is sent.                              *)
Normalising == [b \in Bodies |-> Bodies]
=============================================================================
