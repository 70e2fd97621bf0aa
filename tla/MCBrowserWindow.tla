-------------------------- MODULE MCBrowserWindow --------------------------
(* A small instance of BrowserWindow. *)
EXTENDS BrowserWindow
=============================================================================
