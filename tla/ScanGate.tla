------------------------------ MODULE ScanGate ------------------------------
(***************************************************************************)
(* What the document module promises ("THE GATE"): a document comes in as  *)
(* pending and belongs to one organization; a scan makes it clean, which   *)
(* it then stays; nothing but a clean document is served, and only to its  *)
(* organization.  Documents implements this.                               *)
(***************************************************************************)
CONSTANTS Docs, Orgs, NoDoc

VARIABLES
    doc,    \* doc[d]: the document, or NoDoc
    served  \* the pairs <<o, d>>: a link to d that o holds

vars == <<doc, served>>

Init == doc = [d \in Docs |-> NoDoc] /\ served = {}

Accept(d, o) ==
    /\ doc[d] = NoDoc
    /\ doc' = [doc EXCEPT ![d] = [org |-> o, scan |-> "pending"]]
    /\ UNCHANGED served

Clear(d) ==
    /\ doc[d] # NoDoc
    /\ doc' = [doc EXCEPT ![d].scan = "clean"]
    /\ UNCHANGED served

Serve(d) ==
    /\ doc[d] # NoDoc /\ doc[d].scan = "clean"
    /\ served' = served \cup {<<doc[d].org, d>>}
    /\ UNCHANGED doc

Expire(link) ==
    /\ served' = served \ {link}
    /\ UNCHANGED doc

Next ==
    \/ \E d \in Docs : Clear(d) \/ Serve(d) \/ \E o \in Orgs : Accept(d, o)
    \/ \E link \in served : Expire(link)

Spec == Init /\ [][Next]_vars
=============================================================================
