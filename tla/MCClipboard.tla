---------------------------- MODULE MCClipboard ----------------------------
(***************************************************************************)
(* The code blocks of a small page.                                        *)
(***************************************************************************)
EXTENDS Clipboard

CONSTANTS line, block
=============================================================================
