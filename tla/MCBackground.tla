---------------------------- MODULE MCBackground ----------------------------
EXTENDS Background
CONSTANTS jpeg, png, gif, page
Sizes == (jpeg :> 2) @@ (png :> 1)
=============================================================================
