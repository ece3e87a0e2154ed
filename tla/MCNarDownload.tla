---------------------------- MODULE MCNarDownload ----------------------------
(* Instances of NarDownload for TLC.                                       *)
EXTENDS NarDownload, TLC

Of(cd, lz, d, ni, r) == [cdc |-> cd, lazy |-> lz, down |-> d, narinfo |-> ni, req |-> r]

(* The whole file, the eager simple path and the eager pipe path, and a    *)
(* request that does not match the temp file.                              *)
MCWhole == {Of(FALSE, FALSE, "xz", TRUE, "xz")}
MCConfigs == MCWhole \cup {Of(TRUE, FALSE, "none", TRUE, "none"),
                           Of(TRUE, FALSE, "xz", TRUE, "none"),
                           Of(TRUE, FALSE, "xz", TRUE, "xz")}

Symmetry == Permutations(Clients)
=============================================================================
