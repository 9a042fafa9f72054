------------------------------ MODULE MCSpotStore ------------------------------
(* Small instances of SpotStore. *)
EXTENDS SpotStore, TLC

CONSTANTS call1, call2

\* Two call signs with their hashes, or one alone.
OwnHash  == call1 :> 7 @@ call2 :> 8
OneHash == call1 :> 7

ThreadSymmetry == Permutations(Decoders) \cup Permutations(Uploaders)

===============================================================================
