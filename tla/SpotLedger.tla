------------------------------ MODULE SpotLedger ------------------------------
(***************************************************************************)
(* What the log and the upload promise, whatever threads there are.  A     *)
(* reception enters the log at most once, no report names it before its    *)
(* row was tried, it is shown as uploaded only when the database of        *)
(* wsprnet.org has a report that names it, and neither the row nor the     *)
(* mark goes but with the whole log.  A report carries the reception it    *)
(* names or another one that is not in the log.  Reports are repeatable: a *)
(* lost answer or a crash of the application leaves the spot to be         *)
(* reported again, also when its row is gone.  The promise ends with the   *)
(* first wipe that meets a thread at work or is cut short.                 *)
(***************************************************************************)
CONSTANT Spots   \* receptions that can enter the log

VARIABLES
  pending,     \* receptions whose row was not tried yet
  logged,      \* spots the log shows
  delivered,   \* reports the database has: the spot named, the one carried
  confirmed,   \* spots the log shows as uploaded
  torn         \* a wipe met a thread at work or was cut short
ledger == <<pending, logged, delivered, confirmed, torn>>

Init ==
  /\ pending = Spots /\ logged = {} /\ delivered = {} /\ confirmed = {}
  /\ torn = FALSE

Log(s) ==
  /\ s \in pending
  /\ pending' = pending \ {s} /\ logged' = logged \cup {s}
  /\ UNCHANGED <<delivered, confirmed, torn>>

\* No row is written: not a message for the log, a failed insert, a crash.
Lose(S) ==
  /\ S \subseteq pending /\ pending' = pending \ S
  /\ UNCHANGED <<logged, delivered, confirmed, torn>>

\* A report may reach the database of a spot whose row could not be written
\* or was wiped.
Reportable(r) == {r.of, r.spot} \subseteq Spots \ pending
Deliver(r) ==
  /\ Reportable(r) /\ (r.spot = r.of \/ r.spot \notin logged)
  /\ delivered' = delivered \cup {r}
  /\ UNCHANGED <<pending, logged, confirmed, torn>>

Confirm(s) ==
  /\ s \in logged /\ \E r \in delivered : r.of = s
  /\ confirmed' = confirmed \cup {s}
  /\ UNCHANGED <<pending, logged, delivered, torn>>

Wipe ==
  /\ logged' = {} /\ confirmed' = {}
  /\ UNCHANGED <<pending, delivered, torn>>

\* A torn wipe leaves of the promise that nothing is logged or reported
\* before its time and that no report is taken back.
Torn ==
  /\ torn' /\ pending' \subseteq pending
  /\ logged' \subseteq Spots \ pending'
  /\ delivered \subseteq delivered'
  /\ \A r \in delivered' \ delivered : Reportable(r)

Next ==
  \/ \E s \in Spots : Log(s) \/ Confirm(s)
  \/ \E r \in [of : Spots, spot : Spots] : Deliver(r)
  \/ \E S \in SUBSET Spots : Lose(S)
  \/ Wipe \/ Torn

Spec == Init /\ [][Next]_ledger
===============================================================================
