------------------------------ MODULE MCFetch ------------------------------
(* Small instances of Fetch. *)
EXTENDS Fetch

CONSTANTS f1, f2, f3, f4

(* Two transfers to one host and two data: URLs, which have none. *)
Hosts == f1 :> "h1" @@ f2 :> "h1" @@ f3 :> "none" @@ f4 :> "none"
Schemes == f1 :> "http" @@ f2 :> "http" @@ f3 :> "data" @@ f4 :> "data"
DataThenHttp == <<"data", "http">>
=============================================================================
