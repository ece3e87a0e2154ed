----------------------------- MODULE MCMigrate -----------------------------
(* Instances of Migrate for TLC.                                           *)
EXTENDS Migrate

CONSTANTS p1, p2

Of(d, s, o, ps, c) == [dialect |-> d, start |-> s, old |-> o, plain |-> {3}, pods |-> ps,
                       crashes |-> c]

(* One pod that dies up to three times, from every database an upgrade may *)
(* find: nothing, dbmate's records complete or in part, goose's.           *)
Crashing == {Of(d, "dbmate", o, {p1}, 3) : d \in {"standard", "mysql"}, o \in {{1}, {1, 2}}}
            \cup {Of(d, "goose", {1, 2}, {p1}, 3) : d \in {"standard", "mysql"}}
            \cup {Of(d, "empty", {}, {p1}, c) : d \in {"standard", "mysql"}, c \in {0, 3}}

(* Two pods that start together, as init containers do.                    *)
Adopting == {Of("mysql", "dbmate", {1, 2}, {p1, p2}, 0)}
Together == {Of("standard", "empty", {}, {p1, p2}, 0),
             Of("standard", "dbmate", {1}, {p1, p2}, 2),
             Of("standard", "goose", {1}, {p1, p2}, 2)}

MCRollouts == Crashing \cup Together \cup Adopting
=============================================================================
