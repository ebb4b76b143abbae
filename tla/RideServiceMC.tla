--------------------------- MODULE RideServiceMC ---------------------------
(***************************************************************************)
(* RideService on a small instance.                                        *)
(***************************************************************************)
EXTENDS RideService, TLC

\* Ids carry no order in the specification; safety runs may permute them.
Interchangeable ==
  Permutations(Rider) \cup Permutations(Driver) \cup Permutations(Request)
    \cup Permutations(Session)

=============================================================================
