--------------------------- MODULE MCProfileStore ---------------------------
(***************************************************************************)
(* ProfileStore for TLC.  Profiles, contents and windows are               *)
(* interchangeable, and nothing that is checked here is about liveness.    *)
(***************************************************************************)
EXTENDS ProfileStore, TLC

Interchangeable ==
  Permutations(Ids) \cup Permutations(Contents) \cup Permutations(Windows)

=============================================================================
