------------------------------ MODULE MCSpotLog ------------------------------
(* Receptions and selections of the TLC run of SpotLog.                    *)
EXTENDS SpotLog

Message(b, offset, kind) == [band |-> b, freq |-> Above(b, offset), kind |-> kind]

\* Both frequencies of 80 m, the new one at its lower end and in its middle.
Heard80m == {Message(5, 139, "contact"), Message(b80mNew, 139, "contact"),
             Message(b80mNew, 150, "split"), Message(b2m, 160, "other")}

AnyOrLastHour == {Any, [band |-> b80mNew, period |-> 1]}

=============================================================================
