--------------------------- MODULE MCDepthReport ---------------------------
(***************************************************************************)
(* The depth report of a book of three orders, with sizes of which two at  *)
(* one price exceed the range of a total.                                  *)
(***************************************************************************)
EXTENDS DepthReport
=============================================================================
