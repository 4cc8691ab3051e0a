---------------------------- MODULE MCRunControl ----------------------------
(***************************************************************************)
(* RunControl on the keys that mean something, with a full redraw every    *)
(* second pass of fast mode and a user who pauses at two tokens.           *)
(***************************************************************************)
EXTENDS RunControl

MCOtherKeys == {}
MCFullEvery == 2
MCMaxTokens == 2

=============================================================================
