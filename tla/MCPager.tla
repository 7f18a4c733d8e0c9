------------------------------ MODULE MCPager -------------------------------
(* The pager on a file of a few pages.                                     *)
EXTENDS Pager
=============================================================================
