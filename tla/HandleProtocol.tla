--------------------------- MODULE HandleProtocol ---------------------------
(***************************************************************************)
(* What a client of the high-level cache is promised for each handle        *)
(* (content/hlcache.h, content/content.h): after the retrieval LOADING,     *)
(* READY and DONE in this order, each once, or ERROR at any time before     *)
(* DONE, or DOWNLOAD instead of them all, and nothing after the release.    *)
(***************************************************************************)
CONSTANT Handle
VARIABLE told   \* the last message of each handle

Init == told = [h \in Handle |-> "free"]

Tell(h, from, msg) == told[h] \in from /\ told' = [told EXCEPT ![h] = msg]

Retrieve(h) == Tell(h, {"free"}, "waiting")
LOADING(h)  == Tell(h, {"waiting"}, "LOADING")
READY(h)    == Tell(h, {"LOADING"}, "READY")
DONE(h)     == Tell(h, {"READY"}, "DONE")
ERROR(h)    == Tell(h, {"waiting", "LOADING", "READY"}, "ERROR")
DOWNLOAD(h) == Tell(h, {"waiting"}, "DOWNLOAD")

(* Several handles go at once when the page they belong to is destroyed.   *)
Release(H) ==
  /\ H # {}
  /\ told' = [h \in Handle |-> IF h \in H THEN "free" ELSE told[h]]

Next ==
  \/ \E h \in Handle : \/ Retrieve(h) \/ LOADING(h) \/ READY(h) \/ DONE(h)
                       \/ ERROR(h) \/ DOWNLOAD(h)
  \/ \E H \in SUBSET Handle : Release(H)

Spec == Init /\ [][Next]_told
=============================================================================
