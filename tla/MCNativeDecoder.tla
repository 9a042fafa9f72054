--------------------------- MODULE MCNativeDecoder ---------------------------
(* Tracks of the TLC runs of NativeDecoder.                                *)
EXTENDS NativeDecoder

\* Without drift, and drifting from and to the same frequency.
SteadyAndDrifting == {[i \in 0..1 |-> 5], [i \in 0..1 |-> 4 + i]}

=============================================================================
