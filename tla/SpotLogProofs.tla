---------------------------- MODULE SpotLogProofs ----------------------------
(***************************************************************************)
(* What the log, the raw list, the export and the search for the band of a *)
(* message owe to the code, for any number of decoders, messages,          *)
(* selections and faults.                                                  *)
(***************************************************************************)
EXTENDS SpotLog, TLAPS

-----------------------------------------------------------------------------
(* Bands.                                                                  *)

LEMMA Enumerated ==
  ASSUME NEW b \in Bands
  PROVE  \/ b = 1 \/ b = 2 \/ b = 3 \/ b = 4 \/ b = 5 \/ b = 6 \/ b = 7 \/ b = 8
         \/ b = 9 \/ b = 10 \/ b = 11 \/ b = 12 \/ b = 13 \/ b = 14 \/ b = 15
         \/ b = 16 \/ b = 17 \/ b = 18 \/ b = 19 \/ b = 20
BY DEF Bands

\* No two dial frequencies are within 10 kHz of each other.
LEMMA DialsApart ==
  ASSUME NEW b \in Bands, NEW c \in Bands
  PROVE  /\ Dial[b][1] \in Nat /\ Dial[b][2] \in Nat
         /\ b # c => \/ Dial[b][1] # Dial[c][1]
                     \/ Dial[b][2] > Dial[c][2] + 1000
                     \/ Dial[c][2] > Dial[b][2] + 1000
BY Enumerated, SMTT(60) DEF Dial

\* A message that was heard on a band is near its dial frequency and near no other.
THEOREM HeardNearOwnDial ==
  ASSUME NEW b \in Bands, NEW f \in Received(b), NEW c \in Bands
  PROVE  NearDial(f, c) <=> c = b
<1>1. PICK o \in Offsets : f = Above(b, o)
  BY DEF Received
<1>2. /\ Dial[b][1] \in Nat /\ Dial[b][2] \in Nat /\ Dial[c][1] \in Nat /\ Dial[c][2] \in Nat
      /\ b # c => \/ Dial[b][1] # Dial[c][1]
                  \/ Dial[b][2] > Dial[c][2] + 1000
                  \/ Dial[c][2] > Dial[b][2] + 1000
  BY DialsApart
<1>3. f.mhz = Dial[b][1] /\ f.frac = Dial[b][2] + o /\ o \in 138..161
  BY <1>1 DEF Above, Offsets
<1> QED BY <1>2, <1>3 DEF NearDial

\* The digits a message is printed with begin like those of its own band, if they
\* begin like those of any, and they do but for two bands.
LEMMA OwnDigits ==
  ASSUME NEW b \in Bands, NEW o \in Offsets
  PROVE  b \notin {b80mNew, b2m} => StartsWith(Above(b, o), b)
BY Enumerated, SMTT(60) DEF StartsWith, Above, Dial, Prefix, Offsets, b80mNew, b2m

LEMMA NoForeignDigits ==
  ASSUME NEW b \in Bands, NEW o \in Offsets, NEW c \in Bands, StartsWith(Above(b, o), c)
  PROVE  c = b
BY Enumerated, SMTT(100) DEF StartsWith, Above, Dial, Prefix, Offsets

-----------------------------------------------------------------------------
(* Types.                                                                  *)

Frequencies == UNION {Received(b) : b \in Bands}
Kinds == {"contact", "split", "other"}
Pcs   == {"idle", "next", "contact", "send", "broadcast", "done"}
Stored ==
  {m \in [freq : Frequencies, date : Nat, band : Bands, kind : Kinds] :
     m.freq \in Received(m.band)}
Cursor == [select : Selections, rows : SUBSET Nat, at : Nat, missed : BOOLEAN]

TablesTyped ==
  /\ now \in Nat /\ messages \in Seq(Stored) /\ contacts \in Seq(Nat)
  /\ \A m \in 1..Len(messages) : messages[m].date <= now
  /\ \A c \in 1..Len(contacts) : contacts[c] <= Len(messages)

DecodersTyped ==
  /\ pc \in [Decoders -> Pcs] /\ cur \in [Decoders -> Nat]
  /\ stamp \in [Decoders -> Nat] /\ done \in [Decoders -> 0..MaxMessages]
  /\ \A d \in Decoders : cur[d] <= Len(messages) /\ stamp[d] <= now
  /\ faults \in 0..MaxFaults

ViewTyped ==
  /\ posted \in BOOLEAN /\ raced \in BOOLEAN
  /\ want \in Selections /\ selects \in 0..MaxSelects /\ request \subseteq {want}
  /\ results \in Seq(Cursor) /\ shown \in Cursor
  /\ Len(results) + (IF request = {} THEN 0 ELSE 1) <= selects
  /\ details \subseteq 1..Len(messages)

\* What the two reads of an export found, and how far the file is.
ExportInv ==
  /\ export \in [phase : 0..2, contacts : Nat, messages : Nat]
  /\ file \in [state : {"absent", "partial", "whole"}, orphans : SUBSET Nat]
  /\ export.phase # 0 => file.state # "whole" /\ export.contacts <= Len(contacts)
  /\ export.phase = 2 => /\ export.messages <= Len(messages)
                         /\ \A c \in 1..export.contacts : contacts[c] <= export.messages
  /\ file.state = "whole" =>
       \A c \in file.orphans : c \in 1..Len(contacts) /\ contacts[c] = NoRow

Typed == TablesTyped /\ DecodersTyped /\ ViewTyped /\ ExportInv

\* Rows are only added.
Grown ==
  /\ Len(messages) <= Len(messages') /\ Len(contacts) <= Len(contacts')
  /\ \A m \in 1..Len(messages) : messages'[m] = messages[m]
  /\ \A c \in 1..Len(contacts) : contacts'[c] = contacts[c]

LEMMA AppendFacts ==
  ASSUME NEW S, NEW s \in Seq(S), NEW e \in S
  PROVE  /\ Append(s, e) \in Seq(S) /\ Len(Append(s, e)) = Len(s) + 1
         /\ Append(s, e)[Len(s) + 1] = e
         /\ \A i \in 1..Len(s) : Append(s, e)[i] = s[i]
OBVIOUS

LEMMA TablesKept == ASSUME TablesTyped, UNCHANGED <<tables, now>> PROVE TablesTyped' /\ Grown
BY DEF TablesTyped, Grown, tables

\* The one step that adds a message.
LEMMA MessageAdded ==
  ASSUME TablesTyped, DecodersTyped, NEW d \in Decoders, InsertMessage(d)
  PROVE  TablesTyped' /\ DecodersTyped' /\ Grown
<1>1. PICK h \in Heard, ok \in BOOLEAN :
        /\ Fails(ok)
        /\ messages' = IF ~ok THEN messages
                       ELSE Append(messages, [freq |-> h.freq, date |-> stamp[d],
                                              band |-> h.band, kind |-> h.kind])
        /\ cur' = [cur EXCEPT ![d] = IF ok THEN NewId(messages) ELSE NoRow]
        /\ \E to \in AfterMessage(h.kind) : pc' = [pc EXCEPT ![d] = to]
  BY DEF InsertMessage
<1> DEFINE m == [freq |-> h.freq, date |-> stamp[d], band |-> h.band, kind |-> h.kind]
<1>2. h.band \in Bands /\ h.freq \in Received(h.band) /\ h.kind \in Kinds
  BY HeardAssumption DEF Kinds
<1>3. m \in Stored /\ m.date <= now
  <2>1. h.freq \in Frequencies
    BY <1>2 DEF Frequencies
  <2>2. stamp[d] \in Nat /\ stamp[d] <= now
    BY DEF DecodersTyped
  <2> QED BY <1>2, <2>1, <2>2 DEF Stored
<1>4. AfterMessage(h.kind) \subseteq Pcs
  BY <1>2 DEF Kinds, Pcs, AfterMessage, Report
<1>5. faults' \in 0..MaxFaults
  BY <1>1, BoundsAssumption DEF Fails, DecodersTyped
<1>6. done' \in [Decoders -> 0..MaxMessages]
  BY BoundsAssumption DEF InsertMessage, DecodersTyped
<1>7. UNCHANGED <<contacts, stamp, now>>
  BY DEF InsertMessage
<1>8. pc' \in [Decoders -> Pcs]
  BY <1>1, <1>4 DEF DecodersTyped
<1> HIDE DEF m
<1>9. CASE ok
  <2>1. messages' = Append(messages, m)
    BY <1>1, <1>9 DEF m
  <2>2. /\ messages' \in Seq(Stored) /\ Len(messages') = Len(messages) + 1
        /\ messages'[Len(messages) + 1] = m
        /\ \A i \in 1..Len(messages) : messages'[i] = messages[i]
    BY <1>3, <2>1, AppendFacts DEF TablesTyped
  <2>3. TablesTyped' /\ Grown
    BY <1>3, <1>7, <2>2 DEF TablesTyped, Grown
  <2>4. cur' \in [Decoders -> Nat] /\ \A x \in Decoders : cur'[x] <= Len(messages')
    <3>1. cur' = [cur EXCEPT ![d] = NewId(messages)]
      BY <1>1, <1>9
    <3> QED BY <2>2, <3>1 DEF DecodersTyped, TablesTyped, NewId
  <2> QED BY <1>5, <1>6, <1>7, <1>8, <2>3, <2>4 DEF DecodersTyped
<1>10. CASE ~ok
  <2>1. UNCHANGED <<tables, now>>
    BY <1>1, <1>7, <1>10 DEF tables
  <2>2. cur' \in [Decoders -> Nat] /\ \A x \in Decoders : cur'[x] <= Len(messages')
    BY <1>1, <1>10, <2>1 DEF DecodersTyped, TablesTyped, NoRow, tables
  <2> QED BY <1>5, <1>6, <1>7, <1>8, <2>1, <2>2, TablesKept DEF DecodersTyped
<1> QED BY <1>9, <1>10

LEMMA ContactAdded ==
  ASSUME TablesTyped, DecodersTyped, NEW d \in Decoders, InsertContact(d)
  PROVE  TablesTyped' /\ DecodersTyped' /\ Grown
<1>1. PICK ok \in BOOLEAN :
        /\ Fails(ok)
        /\ contacts' = IF ok THEN Append(contacts, cur[d]) ELSE contacts
  BY DEF InsertContact
<1>2. cur[d] \in Nat /\ cur[d] <= Len(messages)
  BY DEF DecodersTyped
<1>3. UNCHANGED <<messages, cur, stamp, done, now>> /\ pc' \in [Decoders -> Pcs]
  BY DEF InsertContact, DecodersTyped, Pcs, Report
<1>4. faults' \in 0..MaxFaults
  BY <1>1, BoundsAssumption DEF Fails, DecodersTyped
<1>5. TablesTyped' /\ Grown
  <2>1. CASE ok
    <3>1. /\ contacts' \in Seq(Nat) /\ Len(contacts') = Len(contacts) + 1
          /\ contacts'[Len(contacts) + 1] = cur[d]
          /\ \A i \in 1..Len(contacts) : contacts'[i] = contacts[i]
      BY <1>1, <1>2, <2>1, AppendFacts DEF TablesTyped
    <3>2. Len(contacts) \in Nat /\ Len(messages) \in Nat /\ Len(messages') = Len(messages)
      BY <1>3 DEF TablesTyped
    <3>3. Grown
      BY <1>3, <3>1, <3>2 DEF Grown
    <3>4. \A c \in 1..Len(contacts') : contacts'[c] <= Len(messages')
      <4> TAKE c \in 1..Len(contacts')
      <4>1. CASE c = Len(contacts) + 1
        BY <1>2, <3>1, <3>2, <4>1
      <4>2. CASE c \in 1..Len(contacts)
        BY <3>1, <3>2, <4>2 DEF TablesTyped
      <4> QED BY <3>1, <3>2, <4>1, <4>2
    <3> QED BY <1>3, <3>1, <3>3, <3>4 DEF TablesTyped
  <2>2. CASE ~ok
    BY <1>1, <1>3, <2>2, TablesKept DEF tables
  <2> QED BY <2>1, <2>2
<1> QED BY <1>3, <1>4, <1>5 DEF DecodersTyped

\* Threads, tables and the clock.
LEMMA TablesInvariant ==
  ASSUME TablesTyped, DecodersTyped, [Next]_vars
  PROVE  TablesTyped' /\ DecodersTyped' /\ Grown
<1>1. ASSUME NEW d \in Decoders, Start(d) \/ End(d) \/ Send(d) \/ Broadcast(d)
      PROVE  TablesTyped' /\ DecodersTyped' /\ Grown
  <2>1. UNCHANGED <<tables, now>>
    BY <1>1 DEF Start, End, Send, Broadcast
  <2>2. pc' \in [Decoders -> Pcs] /\ UNCHANGED <<done, faults>>
    BY <1>1 DEF Start, End, Send, Broadcast, DecodersTyped, Pcs
  <2>3. /\ cur' \in [Decoders -> Nat]
        /\ \A x \in Decoders : cur'[x] <= Len(messages)
    <3>1. cur' = cur \/ cur' = [cur EXCEPT ![d] = 0]
      BY <1>1 DEF Start, End, Send, Broadcast, NoRow
    <3>2. cur \in [Decoders -> Nat] /\ Len(messages) \in Nat
          /\ \A x \in Decoders : cur[x] <= Len(messages)
      BY DEF DecodersTyped, TablesTyped
    <3> QED BY <3>1, <3>2
  <2>4. /\ stamp' \in [Decoders -> Nat]
        /\ \A x \in Decoders : stamp'[x] <= now
    <3>1. stamp' = stamp \/ stamp' = [stamp EXCEPT ![d] = now]
      BY <1>1 DEF Start, End, Send, Broadcast
    <3>2. stamp \in [Decoders -> Nat] /\ now \in Nat
          /\ \A x \in Decoders : stamp[x] <= now
      BY DEF DecodersTyped, TablesTyped
    <3> QED BY <3>1, <3>2
  <2>5. DecodersTyped'
    BY <2>1, <2>2, <2>3, <2>4 DEF DecodersTyped, tables
  <2> QED BY <2>1, <2>5, TablesKept
<1>2. ASSUME Tick PROVE TablesTyped' /\ DecodersTyped' /\ Grown
  <2>1. now' \in Nat /\ now' > now /\ UNCHANGED <<tables, decoding, faults>>
    BY <1>2, BoundsAssumption DEF Tick
  <2>2. TablesTyped'
    <3>1. \A m \in 1..Len(messages) : messages[m].date <= now'
      <4> TAKE m \in 1..Len(messages)
      <4>1. messages[m].date \in Nat /\ messages[m].date <= now /\ now \in Nat
        BY DEF TablesTyped, Stored
      <4> QED BY <2>1, <4>1
    <3> QED BY <2>1, <3>1 DEF TablesTyped, tables
  <2>3. DecodersTyped'
    <3>1. \A x \in Decoders : stamp[x] <= now'
      <4> TAKE x \in Decoders
      <4>1. stamp[x] \in Nat /\ stamp[x] <= now /\ now \in Nat
        BY DEF TablesTyped, DecodersTyped
      <4> QED BY <2>1, <4>1
    <3> QED BY <2>1, <3>1 DEF DecodersTyped, tables, decoding
  <2>4. Grown
    BY <2>1 DEF Grown, tables, TablesTyped
  <2> QED BY <2>2, <2>3, <2>4
<1>3. ASSUME \/ Receive \/ ChangeCursor \/ ReadOn \/ RunQuery \/ Select
             \/ OpenDetails \/ Begin \/ UNCHANGED vars
      PROVE  TablesTyped' /\ DecodersTyped' /\ Grown
  <2>1. UNCHANGED <<tables, now, decoding, faults>>
    BY <1>3 DEF Receive, ChangeCursor, ReadOn, RunQuery, Select, OpenDetails, Begin, vars
  <2> QED BY <2>1, TablesKept DEF DecodersTyped, tables, decoding
<1>4. ASSUME WriteFile PROVE TablesTyped' /\ DecodersTyped' /\ Grown
  <2>1. UNCHANGED <<tables, now, decoding>>
    BY <1>4 DEF WriteFile
  <2>2. faults' \in 0..MaxFaults
    BY <1>4, BoundsAssumption DEF WriteFile, Fails, DecodersTyped
  <2> QED BY <2>1, <2>2, TablesKept DEF DecodersTyped, tables, decoding
<1> QED BY <1>1, <1>2, <1>3, <1>4, MessageAdded, ContactAdded DEF Next, Decoder, RunsOn, Main

LEMMA QueryTyped ==
  ASSUME NEW s \in Selections, TablesTyped
  PROVE  /\ Query(s) \in Cursor /\ Query(s).select = s /\ Query(s).at = now
         /\ Query(s).rows = {c \in Joined : Matches(MessageOf(c), s, now)}
         /\ Query(s).missed = FALSE
BY DEF Query, Cursor, Joined, TablesTyped

\* Queues of cursors.
LEMMA QueueFacts ==
  ASSUME NEW q \in Seq(Cursor)
  PROVE  LET marked == [r \in DOMAIN q |-> [q[r] EXCEPT !.missed = TRUE]]
         IN  /\ marked \in Seq(Cursor) /\ Len(marked) = Len(q) /\ Len(q) \in Nat
             /\ \A r \in 1..Len(q) : /\ marked[r].select = q[r].select
                                     /\ marked[r].rows = q[r].rows
                                     /\ marked[r].at = q[r].at /\ marked[r].missed
             /\ q # <<>> => /\ Head(q) \in Cursor /\ Head(q) = q[1]
                            /\ Tail(q) \in Seq(Cursor) /\ Len(Tail(q)) = Len(q) - 1
                            /\ \A r \in 1..Len(Tail(q)) : Tail(q)[r] = q[r + 1]
<1> DEFINE marked == [r \in DOMAIN q |-> [q[r] EXCEPT !.missed = TRUE]]
<1>1. DOMAIN q = 1..Len(q) /\ Len(q) \in Nat /\ \A r \in 1..Len(q) : q[r] \in Cursor
  OBVIOUS
<1>2. \A c \in Cursor : LET n == [c EXCEPT !.missed = TRUE]
                        IN  /\ n \in Cursor /\ n.select = c.select
                            /\ n.rows = c.rows /\ n.at = c.at /\ n.missed
  BY DEF Cursor
<1>3. marked \in [1..Len(q) -> Cursor]
  BY <1>1, <1>2
<1>4. marked \in Seq(Cursor) /\ Len(marked) = Len(q)
  <2> HIDE DEF marked
  <2> QED BY <1>1, <1>3
<1>5. \A r \in 1..Len(q) : /\ marked[r].select = q[r].select
                           /\ marked[r].rows = q[r].rows
                           /\ marked[r].at = q[r].at /\ marked[r].missed
  BY <1>1, <1>2
<1>6. q # <<>> => /\ Head(q) \in Cursor /\ Head(q) = q[1]
                  /\ Tail(q) \in Seq(Cursor) /\ Len(Tail(q)) = Len(q) - 1
                  /\ \A r \in 1..Len(Tail(q)) : Tail(q)[r] = q[r + 1]
  OBVIOUS
<1> QED BY <1>1, <1>4, <1>5, <1>6

\* What the user sees.
LEMMA ViewInvariant ==
  ASSUME TablesTyped, DecodersTyped, ViewTyped, [Next]_vars
  PROVE  ViewTyped'
<1>1. /\ TablesTyped' /\ Len(messages) \in Nat /\ Len(messages') \in Nat
      /\ Len(messages) <= Len(messages') /\ details \subseteq 1..Len(messages')
  <2>1. TablesTyped' /\ Grown
    BY TablesInvariant
  <2>2. Len(messages) \in Nat /\ Len(messages') \in Nat /\ Len(messages) <= Len(messages')
    BY <2>1 DEF Grown, TablesTyped
  <2>3. details \subseteq 1..Len(messages)
    BY DEF ViewTyped
  <2> QED BY <2>1, <2>2, <2>3
<1>2. want \in Selections /\ selects \in Nat /\ MaxSelects \in Nat /\ results \in Seq(Cursor)
  BY BoundsAssumption DEF ViewTyped
<1>3. ASSUME NEW d \in Decoders, Decoder(d) PROVE ViewTyped'
  <2>1. posted' \in BOOLEAN
        /\ UNCHANGED <<want, selects, request, results, shown, raced, details>>
    BY <1>3 DEF Decoder, RunsOn, Start, End, InsertMessage, InsertContact, Send, Broadcast, view, ViewTyped
  <2> QED BY <1>1, <2>1 DEF ViewTyped
<1>4. ASSUME Receive PROVE ViewTyped'
  <2>1. shown' \in Cursor
    <3>1. shown.select \in Selections /\ shown' = Query(shown.select)
      BY <1>4 DEF Receive, ViewTyped, Cursor
    <3> QED BY <3>1, QueryTyped
  <2>2. results' \in Seq(Cursor) /\ Len(results') = Len(results)
    BY <1>2, <1>4, QueueFacts DEF Receive
  <2>3. /\ posted' = FALSE /\ raced' = FALSE /\ UNCHANGED <<want, selects, request>>
        /\ details' = 1..Len(messages) /\ messages' = messages
    BY <1>4 DEF Receive, tables
  <2> QED BY <2>1, <2>2, <2>3 DEF ViewTyped
<1>5. ASSUME OpenDetails PROVE ViewTyped'
  BY <1>5 DEF OpenDetails, ViewTyped, tables
<1>6. ASSUME Select PROVE ViewTyped'
  <2>1. PICK s \in Selections \ {want} : want' = s /\ request' = {s}
    BY <1>6 DEF Select
  <2>2. Len(results) + 1 <= selects'
    BY <1>2, <1>6 DEF Select, ViewTyped
  <2>3. selects' \in 0..MaxSelects
    BY <1>2, <1>6 DEF Select
  <2> QED BY <1>1, <1>6, <2>1, <2>2, <2>3 DEF Select, ViewTyped
<1>7. ASSUME RunQuery PROVE ViewTyped'
  <2>1. PICK s \in request : results' = Append(results, Query(s))
    BY <1>7 DEF RunQuery
  <2>2. s \in Selections /\ Query(s) \in Cursor
    BY QueryTyped DEF ViewTyped
  <2>3. results' \in Seq(Cursor) /\ Len(results') = Len(results) + 1
    BY <1>2, <2>1, <2>2, AppendFacts
  <2> QED BY <1>1, <1>7, <2>3 DEF RunQuery, ViewTyped
<1>8. ASSUME ChangeCursor PROVE ViewTyped'
  <2>1. /\ Head(results) \in Cursor /\ Tail(results) \in Seq(Cursor)
        /\ Len(Tail(results)) = Len(results) - 1 /\ Len(results) \in Nat
    BY <1>2, <1>8, QueueFacts DEF ChangeCursor
  <2>2. Head(results).missed \in BOOLEAN
    BY <2>1 DEF Cursor
  <2>3. raced' \in BOOLEAN
    BY <1>8, <2>2 DEF ChangeCursor
  <2>4. /\ results' = Tail(results) /\ shown' = Head(results)
        /\ UNCHANGED <<posted, want, selects, request, details>>
    BY <1>8 DEF ChangeCursor
  <2>5. Len(results') + (IF request = {} THEN 0 ELSE 1) <= selects
    BY <1>2, <2>1, <2>4 DEF ViewTyped
  <2> QED BY <1>1, <2>1, <2>3, <2>4, <2>5 DEF ViewTyped
<1>9. ASSUME ReadOn \/ WriteFile \/ Begin \/ Tick \/ UNCHANGED vars PROVE ViewTyped'
  <2>1. UNCHANGED view
    BY <1>9 DEF ReadOn, WriteFile, Begin, Tick, vars
  <2> QED BY <1>1, <2>1 DEF ViewTyped, view
<1> QED BY <1>3, <1>4, <1>5, <1>6, <1>7, <1>8, <1>9 DEF Next, Main

\* The export.
LEMMA ExportInvariant ==
  ASSUME TablesTyped, DecodersTyped, ExportInv, [Next]_vars
  PROVE  ExportInv' /\ (file.state = "whole" => UNCHANGED file)
<1>1. TablesTyped' /\ Grown
  BY TablesInvariant
<1>2. /\ Len(messages) \in Nat /\ Len(contacts) \in Nat
      /\ Len(messages') \in Nat /\ Len(contacts') \in Nat
  BY <1>1 DEF TablesTyped
<1>3. ASSUME UNCHANGED <<export, file>> PROVE ExportInv' /\ (file.state = "whole" => UNCHANGED file)
  BY <1>1, <1>2, <1>3 DEF ExportInv, Grown
<1>4. ASSUME Begin PROVE ExportInv' /\ (file.state = "whole" => UNCHANGED file)
  <2>1. /\ export.phase = 0 /\ file.state = "absent" /\ UNCHANGED <<file, contacts>>
    BY <1>4 DEF Begin, MainFree, tables
  <2>2. export' = [phase |-> 1, contacts |-> Len(contacts), messages |-> export.messages]
    BY <1>4, <2>1 DEF Begin, ReadTable, Reads
  <2>3. /\ export' \in [phase : 0..2, contacts : Nat, messages : Nat]
        /\ export'.phase = 1 /\ export'.contacts = Len(contacts)
    BY <1>2, <2>1, <2>2 DEF ExportInv
  <2> QED BY <1>2, <2>1, <2>3 DEF ExportInv
<1>5. ASSUME ReadOn PROVE ExportInv' /\ (file.state = "whole" => UNCHANGED file)
  <2>1. /\ export.phase = 1 /\ UNCHANGED <<messages, contacts>>
        /\ file' = [state |-> "partial", orphans |-> {}] /\ file.state # "whole"
    BY <1>5 DEF ReadOn, tables, ExportInv
  <2>2. \A c \in 1..export.contacts : contacts[c] <= Len(messages)
    BY <1>2, <2>1 DEF ExportInv, TablesTyped
  <2>3. export' = [phase |-> 2, contacts |-> export.contacts, messages |-> Len(messages)]
    BY <1>5, <2>1 DEF ReadOn, ReadTable, Reads
  <2>4. /\ export' \in [phase : 0..2, contacts : Nat, messages : Nat]
        /\ export'.phase = 2 /\ export'.messages = Len(messages)
        /\ export'.contacts = export.contacts
    BY <1>2, <2>1, <2>3 DEF ExportInv
  <2>5. file' \in [state : {"absent", "partial", "whole"}, orphans : SUBSET Nat]
        /\ file'.state = "partial"
    BY <2>1
  <2> QED BY <1>2, <2>1, <2>2, <2>4, <2>5 DEF ExportInv
<1>6. ASSUME WriteFile PROVE ExportInv' /\ (file.state = "whole" => UNCHANGED file)
  <2>1. export.phase = 2 /\ export' = Nothing /\ file.state # "whole"
    BY <1>6 DEF WriteFile, ExportInv
  <2> DEFINE Orphans == {c \in 1..export.contacts : \/ contacts[c] = NoRow
                                                   \/ contacts[c] > export.messages}
  <2>2. export.messages \in Nat /\ export.contacts \in Nat /\ export.contacts <= Len(contacts)
    BY <2>1 DEF ExportInv
  <2>3. \A c \in Orphans : c \in 1..Len(contacts) /\ contacts[c] = NoRow
    <3>1. \A c \in 1..export.contacts : contacts[c] \in Nat /\ contacts[c] <= export.messages
      BY <1>2, <2>1 DEF ExportInv, TablesTyped
    <3> QED BY <1>2, <2>2, <3>1
  <2>4. Orphans \in SUBSET Nat
    BY <2>2
  <2>5. file' = file \/ file' = [state |-> "whole", orphans |-> Orphans]
    BY <1>6 DEF WriteFile
  <2>6. contacts' = contacts
    BY <1>6 DEF WriteFile, tables
  <2>7. export' \in [phase : 0..2, contacts : Nat, messages : Nat] /\ export'.phase = 0
    BY <2>1 DEF Nothing
  <2> HIDE DEF Orphans
  <2>8. CASE file' = file
    BY <2>1, <2>7, <2>8 DEF ExportInv
  <2>9. CASE file' = [state |-> "whole", orphans |-> Orphans]
    <3>1. /\ file' \in [state : {"absent", "partial", "whole"}, orphans : SUBSET Nat]
          /\ file'.orphans = Orphans
      BY <2>4, <2>9
    <3> QED BY <2>1, <2>3, <2>6, <2>7, <3>1 DEF ExportInv
  <2> QED BY <2>5, <2>8, <2>9
<1>7. ASSUME NEW d \in Decoders, Decoder(d) PROVE UNCHANGED <<export, file>>
  BY <1>7 DEF Decoder, RunsOn, Start, End, InsertMessage, InsertContact, Send, Broadcast
<1>8. ASSUME \/ Receive \/ ChangeCursor \/ RunQuery \/ Select \/ OpenDetails \/ Tick
             \/ UNCHANGED vars
      PROVE  UNCHANGED <<export, file>>
  BY <1>8 DEF Receive, ChangeCursor, RunQuery, Select, OpenDetails, Tick, vars
<1> QED BY <1>3, <1>4, <1>5, <1>6, <1>7, <1>8 DEF Next, Main

-----------------------------------------------------------------------------
(* What a query finds.                                                     *)

LEMMA SinceBounds ==
  ASSUME NEW period \in Nat, NEW at \in Nat
  PROVE  /\ Since(period, at) \in Nat
         /\ \A date \in Nat : /\ date >= Since(period, at) => date + period + Day >= at
                              /\ date + period >= at => date >= Since(period, at)
<1>1. CASE at < period
  BY <1>1, BoundsAssumption DEF Since
<1>2. CASE ~(at < period)
  <2> DEFINE x == at - period  k == x \div Day
  <2>1. x \in Nat /\ Day \in Nat \ {0}
    BY <1>2, BoundsAssumption
  <2>2. k \in Nat /\ Day * k \in Nat /\ Day * k <= x /\ x < Day * k + Day
    <3> HIDE DEF x
    <3>1. k \in Nat /\ Day * k <= x /\ x < Day * k + Day
      BY <2>1
    <3>2. Day * k \in Nat
      <4> HIDE DEF k
      <4> QED BY <2>1, <3>1
    <3> QED BY <3>1, <3>2
  <2>3. PICK y \in Nat : y = Day * k
    BY <2>2
  <2>4. Since(period, at) = y
    BY <1>2, <2>3 DEF Since
  <2>5. y <= at - period /\ at - period < y + Day
    BY <2>2, <2>3
  <2> HIDE DEF x, k
  <2> QED BY <2>1, <2>4, <2>5
<1> QED BY <1>1, <1>2

\* A query finds what was heard on the selected band, the date rounded to the day.
LEMMA MatchesBounds ==
  ASSUME NEW m \in Stored, NEW q \in Cursor
  PROVE  /\ Matches(m, q.select, q.at) => HeardOn(m, q.select) /\ Recent(m, q, Day)
         /\ HeardOn(m, q.select) /\ Recent(m, q, 0) => Matches(m, q.select, q.at)
<1> DEFINE s == q.select
<1>1. s.band \in {0} \cup Bands /\ s.period \in Nat /\ q.at \in Nat /\ Day \in Nat
  BY SelectionsAssumption, BoundsAssumption DEF Cursor
<1>2. m.band \in Bands /\ m.freq \in Received(m.band) /\ m.date \in Nat
  BY DEF Stored
<1>3. s.band # 0 => (NearDial(m.freq, s.band) <=> m.band = s.band)
  BY <1>1, <1>2, HeardNearOwnDial
<1>4. /\ m.date >= Since(s.period, q.at) => m.date + s.period + Day >= q.at
      /\ m.date + s.period >= q.at => m.date >= Since(s.period, q.at)
  BY <1>1, <1>2, SinceBounds
<1>5. Recent(m, q, 0) => (s.period # 0 => m.date + s.period >= q.at)
  BY <1>1, <1>2 DEF Recent
<1> QED BY <1>3, <1>4, <1>5 DEF Matches, HeardOn, Recent

\* What a thread has stored and not yet announced.
Pending(c) == posted \/ \E d \in Decoders : pc[d] \in Report /\ cur[d] = contacts[c]

\* A cursor shows nothing it should not; it lacks nothing that was announced.
True(q) ==
  \A c \in q.rows : /\ c \in Joined /\ HeardOn(MessageOf(c), q.select)
                    /\ Recent(MessageOf(c), q, Day)
Complete(q) ==
  \A c \in Joined : (HeardOn(MessageOf(c), q.select) /\ Recent(MessageOf(c), q, 0))
                      => c \in q.rows \/ Pending(c)

LEMMA JoinedTyped ==
  ASSUME TablesTyped, NEW c \in Joined
  PROVE  c \in 1..Len(contacts) /\ contacts[c] \in 1..Len(messages) /\ MessageOf(c) \in Stored
BY DEF TablesTyped, Joined, NoRow, MessageOf

LEMMA QueryRight ==
  ASSUME TablesTyped, NEW s \in Selections
  PROVE  /\ True(Query(s))
         /\ \A c \in Joined :
              (HeardOn(MessageOf(c), s) /\ Recent(MessageOf(c), Query(s), 0)) => c \in Query(s).rows
<1>1. /\ Query(s) \in Cursor /\ Query(s).select = s /\ Query(s).at = now
      /\ Query(s).rows = {c \in Joined : Matches(MessageOf(c), s, now)}
  BY QueryTyped
<1>2. \A c \in Joined : /\ Matches(MessageOf(c), s, now)
                            => HeardOn(MessageOf(c), s) /\ Recent(MessageOf(c), Query(s), Day)
                        /\ HeardOn(MessageOf(c), s) /\ Recent(MessageOf(c), Query(s), 0)
                            => Matches(MessageOf(c), s, now)
  BY <1>1, JoinedTyped, MatchesBounds
<1> QED BY <1>1, <1>2 DEF True

-----------------------------------------------------------------------------
(* Cursors stay right.                                                     *)

CursorInv ==
  /\ True(shown) /\ \A r \in 1..Len(results) : True(results[r])
  /\ raced \/ Complete(shown)
  /\ \A r \in 1..Len(results) : results[r].missed \/ Complete(results[r])

LEMMA JoinedKept ==
  ASSUME TablesTyped, TablesTyped', Grown, NEW c \in Joined
  PROVE  c \in Joined' /\ messages'[contacts'[c]] = messages[contacts[c]]
<1>1. c \in 1..Len(contacts) /\ contacts[c] \in 1..Len(messages)
  BY JoinedTyped
<1>2. contacts'[c] = contacts[c] /\ messages'[contacts[c]] = messages[contacts[c]]
  BY <1>1 DEF Grown
<1>3. c \in 1..Len(contacts')
  BY <1>1 DEF Grown, TablesTyped
<1> QED BY <1>1, <1>2, <1>3 DEF Joined, NoRow

\* A thread that adds a contact has it pending until it broadcasts.
LEMMA DecoderPending ==
  ASSUME TablesTyped, DecodersTyped, TablesTyped', Grown,
         NEW d \in Decoders, Decoder(d), NEW c \in Joined'
  PROVE  Pending(c)' \/ (c \in Joined /\ ~Pending(c))
<1>1. CASE InsertContact(d)
  <2>1. /\ pc'[d] \in Report /\ cur' = cur /\ posted' = posted /\ pc[d] = "contact"
        /\ \A e \in Decoders \ {d} : pc'[e] = pc[e]
        /\ contacts' = contacts \/ contacts' = Append(contacts, cur[d])
        /\ pc[d] \notin Report
    BY <1>1 DEF InsertContact, DecodersTyped, view, Report
  <2>2. CASE contacts' = contacts
    BY <2>1, <2>2 DEF Pending, Joined
  <2>3. CASE contacts' = Append(contacts, cur[d])
    <3>1. /\ Len(contacts') = Len(contacts) + 1 /\ contacts'[Len(contacts) + 1] = cur[d]
          /\ \A i \in 1..Len(contacts) : contacts'[i] = contacts[i]
          /\ Len(contacts) \in Nat
      BY <2>3, AppendFacts DEF TablesTyped, DecodersTyped
    <3>2. CASE c = Len(contacts) + 1
      BY <2>1, <3>1, <3>2 DEF Pending
    <3>3. CASE c \in 1..Len(contacts)
      BY <2>1, <3>1, <3>3 DEF Pending, Joined
    <3> QED BY <3>1, <3>2, <3>3 DEF Joined
  <2> QED BY <2>1, <2>2, <2>3
<1>2. CASE Broadcast(d)
  BY <1>2 DEF Broadcast, Pending
<1>3. CASE Start(d) \/ End(d) \/ InsertMessage(d)
  <2>1. /\ contacts' = contacts /\ posted' = posted /\ pc[d] \notin Report
        /\ \A e \in Decoders \ {d} : pc'[e] = pc[e] /\ cur'[e] = cur[e]
    <3>1. CASE Start(d) \/ End(d)
      BY <3>1 DEF Start, End, DecodersTyped, tables, view, Report
    <3>2. CASE InsertMessage(d)
      BY <3>2 DEF InsertMessage, DecodersTyped, view, Report
    <3> QED BY <1>3, <3>1, <3>2
  <2> QED BY <2>1 DEF Pending, Joined
<1>4. CASE Send(d)
  <2>1. /\ contacts' = contacts /\ posted' = posted /\ cur' = cur
        /\ pc'[d] \in Report /\ \A e \in Decoders \ {d} : pc'[e] = pc[e]
    BY <1>4 DEF Send, DecodersTyped, tables, view, Report
  <2> QED BY <2>1 DEF Pending, Joined
<1> QED BY <1>1, <1>2, <1>3, <1>4 DEF Decoder, RunsOn

LEMMA CursorInvariant ==
  ASSUME Typed, Typed', CursorInv, [Next]_vars
  PROVE  CursorInv'
<1>1. TablesTyped /\ DecodersTyped /\ TablesTyped' /\ Grown
  BY TablesInvariant DEF Typed
<1>2. results \in Seq(Cursor) /\ shown \in Cursor
  BY DEF Typed, ViewTyped
<1>3. \A c \in Joined : c \in Joined' /\ messages'[contacts'[c]] = messages[contacts[c]]
  BY <1>1, JoinedKept
<1>4. ASSUME NEW d \in Decoders, Decoder(d) PROVE CursorInv'
  <2>1. UNCHANGED <<shown, results, raced>>
    BY <1>4 DEF Decoder, RunsOn, Start, End, InsertMessage, InsertContact, Send, Broadcast, view
  <2>2. \A c \in Joined' : Pending(c)' \/ (c \in Joined /\ ~Pending(c))
    BY <1>1, <1>4, DecoderPending
  <2>3. True(shown)' /\ \A r \in 1..Len(results) : True(results[r])'
    BY <1>3, <2>1 DEF CursorInv, True, MessageOf, HeardOn, Recent
  <2>4. (raced \/ Complete(shown))'
    BY <1>3, <2>1, <2>2 DEF CursorInv, Complete, MessageOf, HeardOn, Recent
  <2>5. \A r \in 1..Len(results) : (results[r].missed \/ Complete(results[r]))'
    BY <1>3, <2>1, <2>2 DEF CursorInv, Complete, MessageOf, HeardOn, Recent
  <2> QED BY <2>1, <2>3, <2>4, <2>5 DEF CursorInv
<1>5. ASSUME \/ ReadOn \/ WriteFile \/ Begin \/ Tick \/ UNCHANGED vars
             \/ Select \/ OpenDetails
      PROVE  CursorInv'
  <2>1. UNCHANGED <<tables, shown, results, raced, posted, pc, cur>>
    BY <1>5 DEF ReadOn, WriteFile, Begin, Tick, vars, Select, OpenDetails, view, decoding
  <2> QED BY <2>1 DEF CursorInv, True, Complete, Pending, Joined, MessageOf, HeardOn, Recent, tables
<1>6. ASSUME Receive PROVE CursorInv'
  <2>1. shown.select \in Selections /\ shown' = Query(shown.select)
    BY <1>2, <1>6 DEF Receive, Cursor
  <2>2. UNCHANGED <<messages, contacts, now, pc, cur>>
    BY <1>6 DEF Receive, tables, decoding
  <2>3. True(shown)' /\ Complete(shown)'
    <3>1. PICK q \in Cursor : q = Query(shown.select)
      BY <1>1, <2>1, QueryTyped
    <3>2. /\ True(q) /\ shown' = q /\ q.select = shown.select
          /\ \A c \in Joined : (HeardOn(MessageOf(c), q.select) /\ Recent(MessageOf(c), q, 0))
                                  => c \in q.rows
      BY <1>1, <2>1, <3>1, QueryRight, QueryTyped
    <3> QED BY <2>2, <3>2 DEF True, Complete, Joined, MessageOf, HeardOn, Recent
  <2>4. /\ results' = [r \in DOMAIN results |-> [results[r] EXCEPT !.missed = TRUE]]
        /\ raced' = FALSE
    BY <1>6 DEF Receive
  <2>5. /\ Len(results') = Len(results)
        /\ \A r \in 1..Len(results) : /\ results'[r].select = results[r].select
                                      /\ results'[r].rows = results[r].rows
                                      /\ results'[r].at = results[r].at
    BY <1>2, <2>4, QueueFacts
  <2>6. \A r \in 1..Len(results) : results'[r].missed
    BY <1>2, <2>4, QueueFacts
  <2>7. \A r \in 1..Len(results) : True(results[r])'
    BY <2>2, <2>5 DEF CursorInv, True, Joined, MessageOf, HeardOn, Recent
  <2> QED BY <2>3, <2>5, <2>6, <2>7 DEF CursorInv
<1>7. ASSUME RunQuery PROVE CursorInv'
  <2>1. PICK s \in request : results' = Append(results, Query(s))
    BY <1>7 DEF RunQuery
  <2>2. s \in Selections
    BY DEF Typed, ViewTyped
  <2>3. PICK q \in Cursor : q = Query(s)
    BY <1>1, <2>2, QueryTyped
  <2>4. True(q) /\ Complete(q)
    BY <1>1, <2>2, <2>3, QueryRight, QueryTyped DEF Complete
  <2>5. UNCHANGED <<messages, contacts, pc, cur, posted, shown, raced>>
    BY <1>7 DEF RunQuery, tables, decoding
  <2>6. /\ Len(results') = Len(results) + 1 /\ Len(results) \in Nat
        /\ results'[Len(results) + 1] = q
        /\ \A r \in 1..Len(results) : results'[r] = results[r]
    BY <1>2, <2>1, <2>3, AppendFacts
  <2>7. True(q)' /\ Complete(q)' /\ True(shown)' /\ (raced \/ Complete(shown))'
    BY <2>4, <2>5 DEF CursorInv, True, Complete, Pending, Joined, MessageOf, HeardOn, Recent
  <2>8. \A r \in 1..Len(results) : True(results[r])' /\ (results[r].missed \/ Complete(results[r]))'
    BY <2>5, <2>6 DEF CursorInv, True, Complete, Pending, Joined, MessageOf, HeardOn, Recent
  <2>9. \A r \in 1..Len(results') : True(results[r])' /\ (results[r].missed \/ Complete(results[r]))'
    <3> TAKE r \in 1..Len(results')
    <3>1. CASE r \in 1..Len(results)
      BY <2>8, <3>1
    <3>2. CASE r = Len(results) + 1
      BY <2>6, <2>7, <3>2 DEF True, Complete
    <3> QED BY <2>6, <3>1, <3>2
  <2> QED BY <2>7, <2>9 DEF CursorInv
<1>8. ASSUME ChangeCursor PROVE CursorInv'
  <2>1. UNCHANGED <<messages, contacts, pc, cur, posted>>
    BY <1>8 DEF ChangeCursor, tables, decoding
  <2>2. /\ results # <<>> /\ results' = Tail(results) /\ shown' = Head(results)
        /\ raced' = Head(results).missed
    BY <1>8 DEF ChangeCursor
  <2>3. /\ Head(results) = results[1] /\ Len(Tail(results)) = Len(results) - 1
        /\ Len(results) \in Nat \ {0}
        /\ \A r \in 1..Len(Tail(results)) : Tail(results)[r] = results[r + 1]
    BY <1>2, <2>2, QueueFacts
  <2>4. /\ shown' = results[1] /\ raced' = results[1].missed /\ 1 \in 1..Len(results)
        /\ Len(results') = Len(results) - 1
        /\ \A r \in 1..Len(results') : results'[r] = results[r + 1] /\ r + 1 \in 1..Len(results)
    BY <2>2, <2>3
  <2>5. True(shown)' /\ (raced \/ Complete(shown))'
    BY <2>1, <2>4 DEF CursorInv, True, Complete, Pending, Joined, MessageOf, HeardOn, Recent
  <2>6. \A r \in 1..Len(results') : True(results[r])' /\ (results[r].missed \/ Complete(results[r]))'
    BY <2>1, <2>4 DEF CursorInv, True, Complete, Pending, Joined, MessageOf, HeardOn, Recent
  <2> QED BY <2>5, <2>6 DEF CursorInv
<1> QED BY <1>4, <1>5, <1>6, <1>7, <1>8 DEF Next, Main

-----------------------------------------------------------------------------
(* The last selection is the one that arrives; the raw list lacks nothing  *)
(* that was announced.                                                     *)

AskedInv ==
  request = {} => IF Len(results) = 0 THEN shown.select = want
                                      ELSE results[Len(results)].select = want

LEMMA AskedInvariant ==
  ASSUME Typed, AskedInv, [Next]_vars
  PROVE  AskedInv'
<1>1. /\ TablesTyped /\ results \in Seq(Cursor) /\ Len(results) \in Nat
      /\ shown \in Cursor /\ request \subseteq {want} /\ want \in Selections
  BY DEF Typed, ViewTyped
<1>2. ASSUME \/ \E d \in Decoders : Decoder(d)
             \/ ReadOn \/ WriteFile \/ Begin \/ Tick \/ UNCHANGED vars \/ OpenDetails
      PROVE  AskedInv'
  <2>1. UNCHANGED <<request, results, shown, want>>
    BY <1>2 DEF Decoder, RunsOn, Start, End, InsertMessage, InsertContact, Send, Broadcast, ReadOn,
                WriteFile, Begin, Tick, vars, OpenDetails, view
  <2> QED BY <2>1 DEF AskedInv
<1>3. ASSUME Receive PROVE AskedInv'
  <2>1. shown' = Query(shown.select) /\ UNCHANGED <<request, want>>
        /\ results' = [r \in DOMAIN results |-> [results[r] EXCEPT !.missed = TRUE]]
    BY <1>3 DEF Receive
  <2>2. shown'.select = shown.select
    BY <1>1, <2>1, QueryTyped DEF Cursor
  <2>3. Len(results') = Len(results)
        /\ \A r \in 1..Len(results) : results'[r].select = results[r].select
    BY <1>1, <2>1, QueueFacts
  <2> QED BY <1>1, <2>1, <2>2, <2>3 DEF AskedInv
<1>4. ASSUME Select PROVE AskedInv'
  BY <1>4 DEF Select, AskedInv
<1>5. ASSUME RunQuery PROVE AskedInv'
  <2>1. results' = Append(results, Query(want)) /\ want' = want
    BY <1>1, <1>5 DEF RunQuery
  <2>2. PICK q \in Cursor : q = Query(want) /\ q.select = want
    BY <1>1, QueryTyped
  <2>3. Len(results') = Len(results) + 1 /\ results'[Len(results) + 1] = q
    BY <1>1, <2>1, <2>2, AppendFacts
  <2> QED BY <1>1, <2>1, <2>2, <2>3 DEF AskedInv
<1>6. ASSUME ChangeCursor PROVE AskedInv'
  <2>1. /\ results # <<>> /\ results' = Tail(results) /\ shown' = Head(results)
        /\ UNCHANGED <<request, want>>
    BY <1>6 DEF ChangeCursor
  <2>2. /\ Len(results) >= 1 /\ shown' = results[1] /\ Len(results') = Len(results) - 1
        /\ \A r \in 1..Len(results') : results'[r] = results[r + 1]
    BY <1>1, <2>1, QueueFacts
  <2>3. Len(results') # 0 => results'[Len(results')] = results[Len(results)]
    <3>1. Len(results') # 0 => Len(results') \in 1..Len(results')
      BY <1>1, <2>2
    <3> QED BY <1>1, <2>2, <3>1
  <2> QED BY <1>1, <2>1, <2>2, <2>3 DEF AskedInv
<1> QED BY <1>2, <1>3, <1>4, <1>5, <1>6 DEF Next, Main

Announced(m) ==
  posted \/ \E d \in Decoders : pc[d] \in {"contact"} \cup Report /\ cur[d] = m

RawInv ==
  \A m \in 1..Len(messages) : m \in details \/ messages[m].kind = "split" \/ Announced(m)

LEMMA DecoderAnnounces ==
  ASSUME TablesTyped, DecodersTyped, NEW d \in Decoders, Decoder(d),
         NEW m \in 1..Len(messages')
  PROVE  \/ Announced(m)' \/ messages'[m].kind = "split"
         \/ m \in 1..Len(messages) /\ messages'[m] = messages[m] /\ ~Announced(m)
<1>1. CASE InsertContact(d)
  <2>1. /\ pc'[d] \in Report /\ cur' = cur /\ posted' = posted
        /\ \A e \in Decoders \ {d} : pc'[e] = pc[e]
        /\ messages' = messages
    BY <1>1 DEF InsertContact, DecodersTyped, view
  <2> QED BY <2>1 DEF Announced
<1>2. CASE Broadcast(d)
  BY <1>2 DEF Broadcast, Announced
<1>3. CASE Start(d) \/ End(d)
  <2>1. /\ messages' = messages /\ posted' = posted /\ cur' = cur
        /\ pc[d] \notin {"contact"} \cup Report
        /\ \A e \in Decoders \ {d} : pc'[e] = pc[e]
    BY <1>3 DEF Start, End, DecodersTyped, tables, view, Report
  <2> QED BY <2>1 DEF Announced
<1>4. CASE InsertMessage(d)
  <2>1. PICK h \in Heard, ok \in BOOLEAN :
          /\ messages' = IF ~ok THEN messages
                         ELSE Append(messages, [freq |-> h.freq, date |-> stamp[d],
                                                band |-> h.band, kind |-> h.kind])
          /\ cur' = [cur EXCEPT ![d] = IF ok THEN NewId(messages) ELSE NoRow]
          /\ \E to \in AfterMessage(h.kind) : pc' = [pc EXCEPT ![d] = to]
    BY <1>4 DEF InsertMessage
  <2> DEFINE new == [freq |-> h.freq, date |-> stamp[d], band |-> h.band, kind |-> h.kind]
  <2>2. /\ pc[d] = "next" /\ posted' = posted
        /\ pc'[d] \in AfterMessage(h.kind) /\ h.kind \in Kinds /\ new.kind = h.kind
        /\ \A e \in Decoders \ {d} : pc'[e] = pc[e] /\ cur'[e] = cur[e]
    BY <1>4, <2>1, HeardAssumption DEF InsertMessage, DecodersTyped, Kinds, view
  <2>3. Announced(m) => Announced(m)'
    BY <2>2 DEF Announced, Report
  <2> HIDE DEF new
  <2>4. CASE ok
    <3>1. messages' = Append(messages, new) /\ messages \in Seq(Stored)
      BY <2>1, <2>4 DEF new, TablesTyped
    <3>2. new \in Stored
      <4>1. h.band \in Bands /\ h.freq \in Received(h.band) /\ stamp[d] \in Nat
        BY HeardAssumption DEF DecodersTyped
      <4> QED BY <2>2, <4>1 DEF new, Stored, Frequencies
    <3>3. /\ Len(messages') = Len(messages) + 1 /\ messages'[Len(messages) + 1] = new
          /\ \A i \in 1..Len(messages) : messages'[i] = messages[i]
          /\ Len(messages) \in Nat
      BY <3>1, <3>2, AppendFacts
    <3>4. cur'[d] = Len(messages) + 1
      BY <2>1, <2>4 DEF NewId, DecodersTyped
    <3>5. CASE m = Len(messages) + 1
      BY <2>2, <3>3, <3>4, <3>5 DEF Announced, AfterMessage, Kinds, Report
    <3>6. CASE m \in 1..Len(messages)
      BY <2>3, <3>3, <3>6
    <3> QED BY <3>3, <3>5, <3>6
  <2>5. CASE ~ok
    BY <2>1, <2>3, <2>5
  <2> QED BY <2>4, <2>5
<1>5. CASE Send(d)
  <2>1. /\ messages' = messages /\ posted' = posted /\ cur' = cur
        /\ pc'[d] \in Report /\ \A e \in Decoders \ {d} : pc'[e] = pc[e]
    BY <1>5 DEF Send, DecodersTyped, tables, view, Report
  <2> QED BY <2>1 DEF Announced
<1> QED BY <1>1, <1>2, <1>3, <1>4, <1>5 DEF Decoder, RunsOn

LEMMA RawInvariant ==
  ASSUME Typed, RawInv, [Next]_vars
  PROVE  RawInv'
<1>1. ASSUME NEW d \in Decoders, Decoder(d) PROVE RawInv'
  <2>1. details' = details
    BY <1>1 DEF Decoder, RunsOn, Start, End, InsertMessage, InsertContact, Send, Broadcast, view
  <2>2. \A m \in 1..Len(messages') :
          \/ Announced(m)' \/ messages'[m].kind = "split"
          \/ m \in 1..Len(messages) /\ messages'[m] = messages[m] /\ ~Announced(m)
    BY <1>1, DecoderAnnounces DEF Typed
  <2> QED BY <2>1, <2>2 DEF RawInv
<1>2. ASSUME Receive \/ OpenDetails PROVE RawInv'
  <2>1. messages' = messages /\ details' = 1..Len(messages)
    BY <1>2 DEF Receive, OpenDetails, tables
  <2> QED BY <2>1 DEF RawInv
<1>3. ASSUME \/ ReadOn \/ WriteFile \/ Begin \/ Tick \/ UNCHANGED vars
             \/ Select \/ RunQuery \/ ChangeCursor
      PROVE  RawInv'
  <2>1. UNCHANGED <<messages, details, posted, pc, cur>>
    BY <1>3 DEF ReadOn, WriteFile, Begin, Tick, vars, Select, RunQuery, ChangeCursor,
                tables, view, decoding
  <2> QED BY <2>1 DEF RawInv, Announced
<1> QED BY <1>1, <1>2, <1>3 DEF Next, Main

-----------------------------------------------------------------------------
(* The inductive invariant and what follows from it.                       *)

IInv == Typed /\ CursorInv /\ AskedInv /\ RawInv

LEMMA InitIInv == Init => IInv
<1> SUFFICES ASSUME Init PROVE IInv
  OBVIOUS
<1>1. messages = <<>> /\ contacts = <<>> /\ now = 0 /\ results = <<>> /\ request = {}
  BY DEF Init
<1>2. TablesTyped
  BY <1>1 DEF TablesTyped
<1>3. DecodersTyped
  BY <1>1, BoundsAssumption DEF Init, DecodersTyped, Pcs, NoRow
<1>4. Any \in Selections
  BY BoundsAssumption DEF Any
<1>5. PICK q \in Cursor : q = Query(Any) /\ q.select = Any /\ q.rows = {}
  <2>1. Joined = {}
    BY <1>1 DEF Joined
  <2>2. Query(Any) \in Cursor /\ Query(Any).select = Any
    BY <1>2, <1>4, QueryTyped
  <2>3. Query(Any).rows = {c \in Joined : Matches(MessageOf(c), Any, now)}
    BY <1>2, <1>4, QueryTyped
  <2> QED BY <2>1, <2>2, <2>3
<1>6. shown = q /\ want = Any /\ selects = 0 /\ details = {}
  BY <1>5 DEF Init
<1>7. ViewTyped
  <2>1. posted \in BOOLEAN /\ raced \in BOOLEAN
    BY DEF Init
  <2>2. results \in Seq(Cursor) /\ Len(results) = 0
    BY <1>1
  <2> QED BY <1>1, <1>4, <1>6, <2>1, <2>2, BoundsAssumption DEF ViewTyped
<1>8. ExportInv
  BY DEF Init, ExportInv, Nothing, Absent
<1>9. CursorInv /\ AskedInv /\ RawInv
  <2>1. Joined = {} /\ Len(results) = 0 /\ Len(messages) = 0
    BY <1>1 DEF Joined
  <2> QED BY <1>5, <1>6, <2>1 DEF CursorInv, AskedInv, RawInv, True, Complete
<1> QED BY <1>2, <1>3, <1>7, <1>8, <1>9 DEF IInv, Typed

LEMMA StepIInv == IInv /\ [Next]_vars => IInv'
<1> SUFFICES ASSUME IInv, [Next]_vars PROVE IInv'
  OBVIOUS
<1>1. Typed'
  BY TablesInvariant, ViewInvariant, ExportInvariant DEF IInv, Typed
<1> QED BY <1>1, CursorInvariant, AskedInvariant, RawInvariant DEF IInv

LEMMA IInvAlways == Spec => []IInv
BY InitIInv, StepIInv, PTL DEF Spec

LEMMA IInvImplies ==
  ASSUME IInv
  PROVE  /\ TypeOK /\ AskedForIsShown /\ ShownWasAskedFor
         /\ RawListComplete /\ BandFoundAgain /\ ExportJoined
<1>1. TablesTyped /\ DecodersTyped /\ ViewTyped /\ ExportInv
  BY DEF IInv, Typed
<1>2. /\ DOMAIN messages = 1..Len(messages) /\ DOMAIN contacts = 1..Len(contacts)
      /\ \A m \in 1..Len(messages) : messages[m] \in Stored
      /\ \A c \in 1..Len(contacts) : contacts[c] \in Nat
      /\ Len(messages) \in Nat /\ now \in Nat /\ Len(results) \in Nat
  BY <1>1 DEF TablesTyped, ViewTyped
<1>3. shown.rows \subseteq Joined
  BY DEF IInv, CursorInv, True
<1>4. TypeOK
  <2>1. \A m \in DOMAIN messages : messages[m].date \in 0..now
    BY <1>1, <1>2 DEF TablesTyped, Stored
  <2>2. \A c \in DOMAIN contacts : contacts[c] \in 0..Len(messages)
    BY <1>1, <1>2 DEF TablesTyped
  <2>3. \A d \in Decoders : /\ pc[d] \in {"idle", "next", "contact", "done"} \cup Report
                            /\ cur[d] \in 0..Len(messages) /\ stamp[d] \in 0..now
                            /\ done[d] \in 0..MaxMessages
    BY <1>1, <1>2 DEF DecodersTyped, Pcs, Report
  <2>4. Len(results) <= selects /\ selects <= MaxSelects
    BY <1>1, <1>2, BoundsAssumption DEF ViewTyped
  <2>5. /\ want \in Selections /\ request \subseteq {want} /\ details \subseteq 1..Len(messages)
        /\ posted \in BOOLEAN /\ raced \in BOOLEAN
    BY <1>1 DEF ViewTyped
  <2>6. /\ export.phase \in 0..2 /\ file.state \in {"absent", "partial", "whole"}
        /\ faults \in 0..MaxFaults
    BY <1>1 DEF ExportInv, DecodersTyped
  <2> QED BY <1>3, <2>1, <2>2, <2>3, <2>4, <2>5, <2>6 DEF TypeOK
<1>5. AskedForIsShown
  <2> SUFFICES ASSUME AtRest, ~raced
               PROVE  /\ shown.select = want
                      /\ \A c \in Joined :
                           HeardOn(MessageOf(c), want) /\ Recent(MessageOf(c), shown, 0)
                             => c \in shown.rows
    BY DEF AskedForIsShown
  <2>1. shown.select = want
    BY DEF AtRest, IInv, AskedInv
  <2>2. Complete(shown) /\ \A c \in Joined : ~Pending(c)
    BY DEF AtRest, IInv, CursorInv, Pending, Report
  <2> QED BY <2>1, <2>2 DEF Complete
<1>6. ShownWasAskedFor
  BY DEF ShownWasAskedFor, IInv, CursorInv, True
<1>7. RawListComplete
  BY DEF RawListComplete, IInv, RawInv, AtRest, Announced, Report
<1>8. BandFoundAgain
  <2> SUFFICES ASSUME NEW m \in 1..Len(messages), NEW b, b = messages[m].band
               PROVE  Freq2Band(messages[m].freq)
                        \in {{b}} \cup (IF b \in {b80mNew, b2m} THEN {{}} ELSE {})
    BY <1>2 DEF BandFoundAgain
  <2>1. b \in Bands /\ messages[m].freq \in Received(b)
    BY <1>2 DEF Stored
  <2>2. PICK o \in Offsets : messages[m].freq = Above(b, o)
    BY <2>1 DEF Received
  <2>3. \A c \in Bands : StartsWith(Above(b, o), c) => c = b
    BY <2>1, NoForeignDigits
  <2>4. b \notin {b80mNew, b2m} => StartsWith(Above(b, o), b)
    BY <2>1, OwnDigits
  <2> QED BY <2>1, <2>2, <2>3, <2>4 DEF Freq2Band
<1>9. ExportJoined
  BY <1>1 DEF ExportJoined, ExportInv
<1> QED BY <1>4, <1>5, <1>6, <1>7, <1>8, <1>9

\* Rows, threads, cursors and the export keep their types; a contact names a row
\* of the messages or none.
THEOREM TypeCorrect == Spec => []TypeOK
BY IInvAlways, IInvImplies, PTL

\* What was asked for is shown: with nothing under way the cursor that is
\* installed is that of the last selection and lacks no contact, unless it
\* missed a broadcast on its way.
THEOREM AskedForShown == Spec => []AskedForIsShown
BY IInvAlways, IInvImplies, PTL

\* Only what was asked for is shown: the search by frequency finds no other
\* band, the search by date is off by less than a day.
THEOREM OnlyAskedForShown == Spec => []ShownWasAskedFor
BY IInvAlways, IInvImplies, PTL

\* With nothing under way the raw list shows all but the messages whose branch
\* of decodersRun goes on without a broadcast.
THEOREM RawListLacksNone == Spec => []RawListComplete
BY IInvAlways, IInvImplies, PTL

\* freq2band gives back the band of the reception, for all but two bands.
THEOREM BandFound == Spec => []BandFoundAgain
BY IInvAlways, IInvImplies, PTL

\* Each contact in a whole export has its message there, although the tables
\* were read one after the other, unless its message could not be inserted.
THEOREM ExportIsJoined == Spec => []ExportJoined
BY IInvAlways, IInvImplies, PTL

\* A whole export is left alone by every later one.
THEOREM ExportStays == Spec => [][file.state = "whole" => UNCHANGED file]_vars
<1>1. IInv /\ [Next]_vars => [file.state = "whole" => UNCHANGED file]_vars
  BY ExportInvariant, TablesInvariant DEF IInv, Typed
<1> QED BY <1>1, IInvAlways, PTL DEF Spec

=============================================================================
