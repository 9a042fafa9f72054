---------------------------- MODULE MCWsprDriver ----------------------------
(* Signals of the TLC runs of WsprDriver.                                  *)
EXTENDS WsprDriver

\* R3ABC, UA9ZAZ, K1A and NP4/K1ABC; the locator LO05 and LO05io.
R3ABC  == <<27, 3, 10, 11, 12>>
UA9ZAZ == <<30, 10, 9, 35, 10, 35>>
K1A    == <<20, 1, 10>>
NP4    == <<23, 25, 4, 37, 20, 1, 10, 11, 12>>
LO05   == <<21, 24, 0, 5>>
LO05io == <<21, 24, 0, 5, 18, 24>>

CallHash(call) == 1000 + Len(call)

SignalAt(f, call, grid) == [freq |-> f, word |-> Pack(call, grid, 37)]

\* Two call signs on nearly one frequency, one of them again elsewhere, a
\* locator with its hash, a call sign that is refused, a prefix not printed.
Everything == {SignalAt(0, R3ABC, LO05), SignalAt(40, R3ABC, LO05),
               SignalAt(2, UA9ZAZ, LO05), SignalAt(1, UA9ZAZ, LO05io),
               SignalAt(20, K1A, LO05), SignalAt(60, NP4, <<>>)}
FewHz == {-1, 1}

=============================================================================
