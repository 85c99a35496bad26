--------------------------- MODULE MCFileParsing ---------------------------
(***************************************************************************)
(* The instance of FileParsing that TLC checks: all files of up to five    *)
(* rows, of which one is parsed sequentially, two or three in one pool,    *)
(* and more in chunks of two.                                              *)
(***************************************************************************)
EXTENDS FileParsing
=============================================================================
