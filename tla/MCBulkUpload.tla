---------------------------- MODULE MCBulkUpload ----------------------------
(***************************************************************************)
(* BulkUpload on small files.                                              *)
(***************************************************************************)
EXTENDS BulkUpload

\* Files of three rows with two numbers, and of one row.
TwoNumbers == <<"A", "A", "B">>
OneRow == <<"A">>
=============================================================================
