------------------------------- MODULE MCFano -------------------------------
(* A short code for the TLC runs of Fano.                                  *)
EXTENDS Fano

ThreeLags == {0, 1, 2}
TwoLags   == {0, 2}

\* A received symbol is hard or erased; the metrics of the decoder are ten
\* times a log likelihood ratio less a bias.
HardOrErased == {0, 1, 2}
Metrics == [b \in 0..1 |-> [r \in HardOrErased |->
              IF r = 2 THEN -4 ELSE IF r = b THEN 5 ELSE -25]]

\* Two symbols are inverted, or one and another one is erased, or less.
TwoChanges(s) ==
  {[k \in DOMAIN s |-> IF k = a THEN 1 - s[k] ELSE s[k]] : a \in DOMAIN s \cup {0}}
  \cup {[k \in DOMAIN s |-> IF k \in {a, b} THEN 1 - s[k] ELSE s[k]] :
          a \in DOMAIN s, b \in DOMAIN s}
  \cup {[k \in DOMAIN s |-> IF k = b THEN 2 ELSE IF k = a THEN 1 - s[k] ELSE s[k]] :
          a \in DOMAIN s \cup {0}, b \in DOMAIN s}

=============================================================================
