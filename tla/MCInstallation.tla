--------------------------- MODULE MCInstallation ---------------------------
(* An instance of Installation for TLC.  Keys, processes and capabilities  *)
(* are interchangeable. *)
EXTENDS Installation, TLC

Symmetry == Permutations(Processes) \cup Permutations(Keys) \cup Permutations(Capabilities)
=============================================================================
