--------------------------- MODULE MCBrowserLedger ---------------------------
(***************************************************************************)
(* An instance of BrowserLedger for TLC: two transactions, two mining      *)
(* clicks and one other handler at a time, two blocks.                     *)
(***************************************************************************)
EXTENDS BrowserLedger, TLC

=============================================================================
