----------------------------- MODULE MCUpstream -----------------------------
(* Instances of Upstream for TLC.                                          *)
EXTENDS Upstream, TLC

CONSTANTS u1, u2, h1, h2

Hold(a, b) == u1 :> a @@ u2 :> b
Both(v, w) == h1 :> v @@ h2 :> w

Gone == Hold(Both("none", "good"), Both("none", "none"))
Refused == Hold(Both("none", "good"), Both("none", "bad"))
There == Hold(Both("none", "none"), Both("good", "none"))

Get2(kind, pin) == [kind |-> kind, hash |-> h2, pin |-> pin]
Of(c, w, f, t) ==
    [has |-> c, want |-> w, fetch |-> f, collect |-> FALSE, trouble |-> t,
     links |-> {<<h1, "stuck">>}]
Collecting(s, other) ==
    [s EXCEPT !.collect = TRUE,
              !.links = @ \cup (IF other THEN {<<h1, "other">>} ELSE {})]
Unlinked(s) == [s EXCEPT !.collect = TRUE, !.links = {<<h1, "other">>}]

(* A fetch alone: of a narinfo one upstream has, or one upstream has in a  *)
(* form that is refused; of a NAR from any, or from the narinfo's own      *)
(* upstream. A collection of a narinfo one upstream still has, and of one  *)
(* that is gone, beside a fetch that links another to the same row; and of *)
(* a row that nothing links to, beside a fetch that does.                  *)
MCScenes ==
    {Of(Gone, Get2("narinfo", None), TRUE, 1),
     Of(Refused, Get2("narinfo", None), TRUE, 1),
     Of(Gone, Get2("nar", None), TRUE, 1),
     Of(Gone, Get2("nar", u1), TRUE, 1),
     Collecting(Of(There, Get2("narinfo", None), FALSE, 2), FALSE),
     Collecting(Of(Gone, Get2("narinfo", None), TRUE, 0), FALSE),
     Collecting(Of(Gone, Get2("narinfo", None), TRUE, 0), TRUE),
     Unlinked(Of(Gone, Get2("narinfo", None), TRUE, 0))}

MCOrder == <<u1, u2>>
=============================================================================
