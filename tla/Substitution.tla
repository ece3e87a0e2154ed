---------------------------- MODULE Substitution ----------------------------
(* What the upstream caches of an instance promise, together, to one fetch *)
(* of a narinfo or a NAR: an object is only ever answered while some       *)
(* upstream offers it; a fetch that nothing disturbs finds it wherever it  *)
(* is; and every fetch is answered.                                        *)
CONSTANT Upstreams

VARIABLES
    offers,     \* the upstreams that offer the wanted object
    fine,       \* nothing has gone wrong since the fetch began
    answer      \* "none", "asked", then "found", "absent" or "error"

vars == <<offers, fine, answer>>

Init == offers \in SUBSET Upstreams /\ ~fine /\ answer = "none"

Ask == /\ answer = "none"
       /\ answer' \in {"asked", "absent"}
       /\ fine' \in BOOLEAN
       /\ (answer' = "absent" /\ fine') => offers = {}
       /\ UNCHANGED offers

Found == /\ answer = "asked" /\ offers # {}
         /\ answer' = "found"
         /\ UNCHANGED <<offers, fine>>

(* Only a fetch that was disturbed may miss what is there.                 *)
Miss == /\ answer = "asked" /\ (fine => offers = {})
        /\ answer' \in {"absent", "error"}
        /\ UNCHANGED <<offers, fine>>

Trouble == /\ offers' \in SUBSET Upstreams /\ fine' = FALSE
           /\ UNCHANGED answer

Next == Ask \/ Found \/ Miss \/ Trouble

Safety == Init /\ [][Next]_vars

Spec == Safety /\ WF_vars(Found \/ Miss)
=============================================================================
