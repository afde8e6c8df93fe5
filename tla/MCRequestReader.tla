--------------------------- MODULE MCRequestReader ----------------------------
(***************************************************************************)
(* A few requests and jobs, lines whole or cut.  In the passing run no job *)
(* comes in while a line is cut, in the other it may.                      *)
(***************************************************************************)
EXTENDS RequestReaderClaims
=============================================================================
