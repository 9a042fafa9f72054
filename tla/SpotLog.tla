------------------------------- MODULE SpotLog -------------------------------
(***************************************************************************)
(* What a user is shown of the stored spots: the log with its filters      *)
(* (LogaFragment), the list of raw messages (MessageDetailsActivity) and   *)
(* the export (DBToXMLConverter), while decoder threads insert rows and    *)
(* broadcast that they did (LBService.decodersRun).  Decoders, the thread  *)
(* of the filter and the main thread run side by side; broadcasts, results *)
(* of the filter and the export share the main thread.  Wipes, uploads and *)
(* late locators are modelled in SpotStore.                                *)
(***************************************************************************)
EXTENDS SpotBands, Sequences

CONSTANTS
  Decoders,      \* threads; each is one run of decodersRun
  Heard,         \* what they decode: band of the recording, frequency, kind
  Selections,    \* what the two boxes can be set to: band and period, 0 for any
  Times, Day,    \* hours at which something happens; those of a day
  MaxMessages,   \* bound: messages of a thread
  MaxSelects,    \* bound: selections
  MaxFaults      \* bound: inserts and exports that fail

ASSUME HeardAssumption ==
  \A h \in Heard : /\ h.band \in Bands /\ h.freq \in Received(h.band)
                   /\ h.kind \in {"contact", "split", "other"}
ASSUME SelectionsAssumption ==
  \A s \in Selections : s.band \in {0} \cup Bands /\ s.period \in Nat
ASSUME BoundsAssumption ==
  Times \subseteq Nat /\ 0 \in Times /\ Day \in Nat \ {0} /\ MaxMessages \in Nat
    /\ MaxSelects \in Nat /\ MaxFaults \in Nat
    /\ [band |-> 0, period |-> 0] \in Selections

VARIABLES
  messages, contacts,  \* the tables, row id as index
  pc, cur, stamp,      \* decoders: next statement, message, time of recording
  done,                \* decoders: messages behind them
  posted,              \* a broadcast waits in the queue of the main thread
  want, selects,       \* what the boxes are set to, how often they were set
  request,             \* what the thread of the filter is to query, if anything
  results,             \* its cursors on their way to the main thread
  shown,               \* the cursor of the log: its query, rows, time
  raced,               \* history: it missed a broadcast before it was installed
  details,             \* messages in the raw list
  export,              \* main thread: the export in progress
  file,                \* exports.xml; the contacts in it of no message in it
  now, faults

decoding == <<pc, cur, stamp, done>>
view     == <<posted, want, selects, request, results, shown, raced, details>>
tables   == <<messages, contacts>>
vars     == <<tables, decoding, view, export, file, now, faults>>

NoRow   == 0    \* for the -1 of a failed insert
Any     == [band |-> 0, period |-> 0]
Nothing == [phase |-> 0, contacts |-> 0, messages |-> 0]
Absent  == [state |-> "absent", orphans |-> {}]

-----------------------------------------------------------------------------
(* The queries.                                                            *)

Joined == {c \in 1..Len(contacts) : contacts[c] # NoRow}
MessageOf(c) == messages[contacts[c]]

\* date('now', '-n seconds') is a day; every time of that day compares greater.
Since(period, at) == IF at < period THEN 0 ELSE Day * ((at - period) \div Day)

Matches(m, s, at) ==
  /\ s.band # 0 => NearDial(m.freq, s.band)
  /\ s.period # 0 => m.date >= Since(s.period, at)

\* No row is deleted here.
NewId(table) == Len(table) + 1

Query(s) ==
  [select |-> s, rows |-> {c \in Joined : Matches(MessageOf(c), s, now)},
   at |-> now, missed |-> FALSE]

\* A view that is laid out: the first selection, which is any, was applied.
Init ==
  /\ messages = <<>> /\ contacts = <<>> /\ now = 0 /\ faults = 0
  /\ pc = [d \in Decoders |-> "idle"] /\ stamp = [d \in Decoders |-> 0]
  /\ cur = [d \in Decoders |-> NoRow] /\ done = [d \in Decoders |-> 0]
  /\ posted = FALSE /\ want = Any /\ selects = 0 /\ request = {} /\ results = <<>>
  /\ shown = Query(Any) /\ raced = FALSE /\ details = {}
  /\ export = Nothing /\ file = Absent

Fails(ok) ==
  /\ ok \/ faults < MaxFaults
  /\ faults' = IF ok THEN faults ELSE faults + 1

-----------------------------------------------------------------------------
(* Decoder threads.                                                        *)

Start(d) ==
  /\ pc[d] = "idle" /\ pc' = [pc EXCEPT ![d] = "next"]
  /\ stamp' = [stamp EXCEPT ![d] = now]
  /\ UNCHANGED <<tables, cur, done, view, export, file, now, faults>>

End(d) ==
  /\ pc[d] = "next" /\ pc' = [pc EXCEPT ![d] = "done"]
  /\ UNCHANGED <<tables, cur, stamp, done, view, export, file, now, faults>>

\* With the preference use_network the sender comes before the broadcast.
Report == {"send", "broadcast"}

\* Seeded fault: what makes no contact is not broadcast.
AfterMessageSilent(kind) == IF kind = "contact" THEN {"contact"} ELSE {"next"}

\* A message of type 1 whose split gives four fields goes on with the next one;
\* one that makes no contact is broadcast like the others.
AfterMessage(kind) ==
  CASE kind = "contact" -> {"contact"}
    [] kind = "split"   -> {"next"}
    [] kind = "other"   -> Report

InsertMessage(d) ==
  /\ pc[d] = "next" /\ done[d] < MaxMessages
  /\ done' = [done EXCEPT ![d] = @ + 1]
  /\ \E h \in Heard, ok \in BOOLEAN :
       /\ Fails(ok)
       /\ messages' = IF ~ok THEN messages
                      ELSE Append(messages, [freq |-> h.freq, date |-> stamp[d],
                                             band |-> h.band, kind |-> h.kind])
       /\ cur' = [cur EXCEPT ![d] = IF ok THEN NewId(messages) ELSE NoRow]
       /\ \E to \in AfterMessage(h.kind) : pc' = [pc EXCEPT ![d] = to]
  /\ UNCHANGED <<contacts, stamp, view, export, file, now>>

InsertContact(d) ==
  /\ pc[d] = "contact" /\ \E to \in Report : pc' = [pc EXCEPT ![d] = to]
  /\ \E ok \in BOOLEAN :
       /\ Fails(ok)
       /\ contacts' = IF ok THEN Append(contacts, cur[d]) ELSE contacts
  /\ UNCHANGED <<messages, cur, stamp, done, view, export, file, now>>

\* The sender is done, or its requests have failed; none has a timeout.
Send(d) ==
  /\ pc[d] = "send" /\ pc' = [pc EXCEPT ![d] = "broadcast"]
  /\ UNCHANGED <<tables, cur, stamp, done, view, export, file, now, faults>>

\* Seeded fault: the intent is built and not sent.
BroadcastNot(d) ==
  /\ pc[d] = "broadcast" /\ pc' = [pc EXCEPT ![d] = "next"]
  /\ posted' = posted /\ cur' = [cur EXCEPT ![d] = NoRow]
  /\ UNCHANGED <<tables, stamp, done, want, selects, request, results, shown,
                 raced, details, export, file, now, faults>>

Broadcast(d) ==
  /\ pc[d] = "broadcast" /\ pc' = [pc EXCEPT ![d] = "next"]
  /\ posted' = TRUE /\ cur' = [cur EXCEPT ![d] = NoRow]
  /\ UNCHANGED <<tables, stamp, done, want, selects, request, results, shown,
                 raced, details, export, file, now, faults>>

-----------------------------------------------------------------------------
(* Log and raw list.                                                       *)

MainFree == export.phase = 0

\* Seeded fault: the cursor the fragment was created with is queried again.
ReceiveFirst ==
  /\ MainFree /\ posted /\ posted' = FALSE
  /\ IF shown.select = Any THEN shown' = Query(Any) ELSE UNCHANGED shown
  /\ raced' = FALSE /\ details' = 1..Len(messages)
  /\ results' = [r \in DOMAIN results |-> [results[r] EXCEPT !.missed = TRUE]]
  /\ UNCHANGED <<tables, decoding, want, selects, request, export, file, now, faults>>

\* Both receivers query again: the cursors on their way are not yet theirs.
Receive ==
  /\ MainFree /\ posted /\ posted' = FALSE
  /\ shown' = Query(shown.select) /\ raced' = FALSE
  /\ details' = 1..Len(messages)
  /\ results' = [r \in DOMAIN results |-> [results[r] EXCEPT !.missed = TRUE]]
  /\ UNCHANGED <<tables, decoding, want, selects, request, export, file, now, faults>>

OpenDetails ==
  /\ MainFree /\ details # 1..Len(messages) /\ details' = 1..Len(messages)
  /\ UNCHANGED <<tables, decoding, posted, want, selects, request, results, shown, raced,
                 export, file, now, faults>>

\* A new selection replaces a request that was not begun.
Select ==
  /\ MainFree /\ selects < MaxSelects /\ selects' = selects + 1
  /\ \E s \in Selections \ {want} : want' = s /\ request' = {s}
  /\ UNCHANGED <<tables, decoding, posted, results, shown, raced, details,
                 export, file, now, faults>>

RunQuery ==
  /\ \E s \in request : results' = Append(results, Query(s))
  /\ request' = {}
  /\ UNCHANGED <<tables, decoding, posted, want, selects, shown, raced, details, export,
                 file, now, faults>>

ChangeCursor ==
  /\ MainFree /\ results # <<>> /\ results' = Tail(results)
  /\ shown' = Head(results) /\ raced' = Head(results).missed
  /\ UNCHANGED <<tables, decoding, posted, want, selects, request, details, export, file,
                 now, faults>>

-----------------------------------------------------------------------------
(* Export, from the menu to the file.                                      *)

ReadTable(name) ==
  export' = [phase    |-> export.phase + 1,
             contacts |-> IF name = "contacts" THEN Len(contacts) ELSE export.contacts,
             messages |-> IF name = "messages" THEN Len(messages) ELSE export.messages]

\* Seeded fault: the messages are read first.
ReadsSwapped == <<"messages", "contacts">>

\* writeContacts, then writeRawPackets: two queries.
Reads == <<"contacts", "messages">>

\* A file that is there is left alone.
Begin ==
  /\ MainFree /\ file.state = "absent" /\ ReadTable(Reads[1])
  /\ UNCHANGED <<tables, decoding, view, file, now, faults>>

\* The file is created when both tables are in memory.
ReadOn ==
  /\ export.phase = 1 /\ ReadTable(Reads[2])
  /\ file' = [state |-> "partial", orphans |-> {}]
  /\ UNCHANGED <<tables, decoding, view, now, faults>>

\* The document is written in place: what an error leaves behind stays.  All
\* contacts are in it, the ones whose message row was not read or never inserted
\* as well.
WriteFile ==
  /\ export.phase = 2 /\ export' = Nothing
  /\ \E ok \in BOOLEAN :
       /\ Fails(ok)
       /\ file' = IF ~ok THEN file
                  ELSE [state |-> "whole",
                        orphans |-> {c \in 1..export.contacts :
                                       \/ contacts[c] = NoRow
                                       \/ contacts[c] > export.messages}]
  /\ UNCHANGED <<tables, decoding, view, now>>

Tick ==
  /\ \E t \in Times : t > now /\ now' = t
  /\ UNCHANGED <<tables, decoding, view, export, file, faults>>

RunsOn(d)  == \/ Start(d) \/ End(d)
              \/ InsertMessage(d) \/ InsertContact(d) \/ Broadcast(d)
Decoder(d) == RunsOn(d) \/ Send(d)
Main == Receive \/ ChangeCursor \/ ReadOn \/ WriteFile
Next == \/ \E d \in Decoders : Decoder(d)
        \/ Main \/ RunQuery \/ Select \/ OpenDetails \/ Begin \/ Tick

\* Threads run on once they are started, but a request may stay without an
\* answer for ever; the main thread and that of the filter run on, too; nobody
\* has to touch the screen.
Spec ==
  /\ Init /\ [][Next]_vars
  /\ \A d \in Decoders : WF_vars(RunsOn(d))
  /\ WF_vars(Main) /\ WF_vars(RunQuery)

-----------------------------------------------------------------------------
(* Properties.                                                             *)

\* Every variable keeps its type, and every contact names a message row or none.
TypeOK ==
  /\ \A m \in DOMAIN messages : messages[m].date \in 0..now
  /\ \A c \in DOMAIN contacts : contacts[c] \in 0..Len(messages)
  /\ \A d \in Decoders : /\ pc[d] \in {"idle", "next", "contact", "done"} \cup Report
                         /\ cur[d] \in 0..Len(messages) /\ stamp[d] \in 0..now
                         /\ done[d] \in 0..MaxMessages
  /\ want \in Selections /\ request \subseteq {want}
  /\ Len(results) <= selects /\ selects <= MaxSelects
  /\ shown.rows \subseteq Joined /\ details \subseteq 1..Len(messages)
  /\ export.phase \in 0..2 /\ file.state \in {"absent", "partial", "whole"}
  /\ posted \in BOOLEAN /\ raced \in BOOLEAN /\ faults \in 0..MaxFaults

AtRest ==
  /\ \A d \in Decoders : pc[d] \in {"idle", "done"}
  /\ ~posted /\ request = {} /\ results = <<>>

\* Heard on this band, so many hours before.
HeardOn(m, s) == s.band # 0 => m.band = s.band
Recent(m, q, hours) ==
  q.select.period # 0 => m.date + q.select.period + hours >= q.at

\* When nothing is under way, the log shows every contact of the selected band
\* and period, unless its cursor was installed after a broadcast it has missed.
AskedForIsShown ==
  (AtRest /\ ~raced) =>
    /\ shown.select = want
    /\ \A c \in Joined : HeardOn(MessageOf(c), want) /\ Recent(MessageOf(c), shown, 0)
                          => c \in shown.rows

\* The log shows nothing that was heard on another band, and nothing that was
\* more than a day older than the selected period when it was queried.
ShownWasAskedFor ==
  \A c \in shown.rows : /\ HeardOn(MessageOf(c), shown.select)
                         /\ Recent(MessageOf(c), shown, Day)

\* When nothing is under way, the raw list shows every message but those of
\* type 1 that were stored without a broadcast.
RawListComplete ==
  AtRest => \A m \in 1..Len(messages) : m \in details \/ messages[m].kind = "split"

\* The upload finds the band a message was heard on again, but for the new 80 m
\* frequency, where that succeeds only at the lower end, and 2 m.
BandFoundAgain ==
  \A m \in DOMAIN messages :
    LET b == messages[m].band
    IN  Freq2Band(messages[m].freq) \in {{b}} \cup (IF b \in {b80mNew, b2m} THEN {{}} ELSE {})

\* A file that was written to its end holds the message of each contact in it,
\* whatever decoders inserted between the two queries, unless the contact has
\* none: one whose message could not be inserted is exported all the same.
ExportJoined ==
  file.state = "whole" => \A c \in file.orphans : contacts[c] = NoRow

\* A contact that was stored comes into view when its thread has the reports
\* behind it, unless the boxes hide it or a broadcast was missed.  (A request
\* without an answer keeps it out of sight.)
Sending(k) == \E d \in Decoders : pc[d] = "send" /\ cur[d] = contacts[k]
ComesIntoView ==
  \A k \in 1..MaxMessages :
    (k \in Joined /\ ~Sending(k)) ~>
      \/ k \in shown.rows \/ raced
      \/ k \in Joined /\ ~Matches(MessageOf(k), want, now)

=============================================================================
