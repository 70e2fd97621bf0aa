--------------------------- MODULE MCHtmlContent ---------------------------
(* Small instances of HtmlContent. *)
EXTENDS HtmlContent
=============================================================================
