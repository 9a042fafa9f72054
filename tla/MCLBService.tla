---------------------------- MODULE MCLBService ----------------------------
(* Small instances of LBService: the settings of each run. *)
EXTENDS LBService, TLC

Device(c, s, t) == [compound |-> c, six |-> s, txable |-> t, torch |-> TRUE]

\* A plain call sign that sends six-letter locators, one that sends four-letter
\* ones, a call sign with a prefix, and a listener without a call sign.
SixLetter  == {Device(FALSE, TRUE, TRUE)}
FourLetter == {Device(FALSE, FALSE, TRUE)}
Prefixed   == {Device(TRUE, TRUE, TRUE)}
Listener   == {Device(FALSE, TRUE, FALSE)}
\* The squares are told apart only by equality.
SquareSymmetry == Permutations(Squares)

AllSetups  == SixLetter \cup FourLetter \cup Prefixed \cup Listener
=============================================================================
