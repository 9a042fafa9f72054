---------------------------- MODULE SpotStoreProofs ----------------------------
(***************************************************************************)
(* Proofs about SpotStore: the types, and that unless a wipe is torn, the  *)
(* log joins what belongs together and marks only what a report names, for *)
(* any number of threads, messages, failures, wipes and process deaths.    *)
(***************************************************************************)
EXTENDS SpotStore, SequenceTheorems, TLAPS

-----------------------------------------------------------------------------
(* The data.                                                               *)

\* The records the program builds have their types.
LEMMA RecordTypes ==
  /\ NoEntry \in Entry /\ NoMessage \in Current /\ NoMessage.call \in Calls
  /\ \A i \in RowId, o, s \in Nat : [id |-> i, of |-> o, spot |-> s] \in Entry
  /\ \A e \in Entry : ReportOf(e) \in Report /\ ReportOf(e).of = e.of
  /\ \A i, s \in Nat, b \in Bands :
       [id |-> i, spot |-> s, band |-> b] \in Row
  /\ \A n, s \in Nat, b \in Bands :
       [session |-> n, band |-> b, spot |-> s] \in Message
  /\ \A k \in Kinds, c \in Calls, n \in Nat, b \in Bands :
       [kind |-> k, call |-> c, session |-> n, band |-> b] \in Spot
  /\ \A k \in Kinds, c \in Calls, s \in Nat, m \in RowId :
       [kind |-> k, call |-> c, spot |-> s, message |-> m] \in Current
  /\ \A m \in RowId, c \in Calls, l \in Levels, s \in Nat, b \in BOOLEAN :
       [message |-> m, call |-> c, level |-> l, spot |-> s, uploaded |-> b]
         \in Contact
<1>1. \E c \in Calls : TRUE
  BY HashAssumption
<1>2. (CHOOSE c \in Calls : TRUE) \in Calls
  BY <1>1
<1> QED
  BY <1>2 DEF NoEntry, NoMessage, Entry, Report, ReportOf, Row, Message, Spot, Current, Contact,
              RowId, NoRow, Kinds

\* What is read from a record has its type.
LEMMA FieldTypes ==
  /\ \A c \in Contact : /\ c.message \in RowId /\ c.call \in Calls
                        /\ c.spot \in Nat /\ c.uploaded \in BOOLEAN
  /\ \A m \in Message : m.session \in Nat /\ m.band \in Bands /\ m.spot \in Nat
  /\ \A e \in Entry : e.id \in RowId /\ e.of \in Nat /\ e.spot \in Nat
  /\ \A r \in Row : r.id \in Nat /\ r.spot \in Nat /\ r.band \in Bands
  /\ \A c \in Current : /\ c.kind \in Kinds /\ c.call \in Calls
                        /\ c.spot \in Nat /\ c.message \in RowId
BY DEF Contact, Message, Entry, Row, Current

\* What the two updates make of a contact is a contact of the same message.
LEMMA UpdateTypes ==
  \A c \in Contact :
    /\ [c EXCEPT !.level = 6] \in Contact
    /\ [c EXCEPT !.uploaded = TRUE] \in Contact
    /\ [c EXCEPT !.level = 6].message = c.message
    /\ [c EXCEPT !.level = 6].spot = c.spot
    /\ [c EXCEPT !.level = 6].uploaded = c.uploaded
    /\ [c EXCEPT !.uploaded = TRUE].message = c.message
    /\ [c EXCEPT !.uploaded = TRUE].spot = c.spot
BY DEF Contact, Levels

\* Rows of a table are of the table's type, their ids positive numbers.
LEMMA RowTypes ==
  ASSUME NEW S, NEW s \in Seq(S)
  PROVE  /\ Len(s) \in Nat
         /\ \A i \in Rows(s) : s[i] \in S /\ i \in Nat
         /\ Len(s) + 1 \in Nat
BY ElementOfSeq, LenProperties DEF Rows

\* Marking touches the row of the entry at most.
LEMMA MarkTables ==
  ASSUME NEW t, Mark(t), contacts \in Seq(Contact)
  PROVE  /\ contacts' \in Seq(Contact) /\ Rows(contacts') = Rows(contacts)
         /\ \A i \in Rows(contacts) :
              /\ contacts'[i].message = contacts[i].message
              /\ contacts'[i].spot = contacts[i].spot
              /\ contacts'[i].uploaded => i = sent[t].id \/ contacts[i].uploaded
<1> DEFINE k == sent[t].id
<1> HIDE DEF k
<1>1. PICK ok \in BOOLEAN :
        contacts' = IF ok /\ k \in Rows(contacts)
                    THEN [contacts EXCEPT ![k].uploaded = TRUE] ELSE contacts
  BY DEF Mark, k
<1>2. CASE ok /\ k \in Rows(contacts)
  <2> DEFINE e == [contacts[k] EXCEPT !.uploaded = TRUE]
  <2>1. contacts' = [contacts EXCEPT ![k] = e]
    BY <1>1, <1>2 DEF e
  <2>2. contacts[k] \in Contact
    BY <1>2, RowTypes
  <2>3. /\ e \in Contact /\ e.message = contacts[k].message
        /\ e.spot = contacts[k].spot
    BY <2>2, UpdateTypes
  <2> HIDE DEF e
  <2>4. /\ contacts' \in Seq(Contact) /\ Rows(contacts') = Rows(contacts)
        /\ contacts'[k] = e
        /\ \A i \in Rows(contacts) \ {k} : contacts'[i] = contacts[i]
    BY <1>2, <2>1, <2>3, ExceptSeq DEF Rows
  <2> QED
    BY <2>3, <2>4 DEF k
<1>3. CASE ~(ok /\ k \in Rows(contacts))
  BY <1>1, <1>3
<1> QED
  BY <1>2, <1>3 DEF k

\* A new locator leaves all else of its row, and the other rows.
LEMMA GridTables ==
  ASSUME NEW d, UpdateGrid(d), contacts \in Seq(Contact)
  PROVE  /\ contacts' \in Seq(Contact) /\ Rows(contacts') = Rows(contacts)
         /\ \A i \in Rows(contacts) :
              /\ contacts'[i].message = contacts[i].message
              /\ contacts'[i].spot = contacts[i].spot
              /\ contacts'[i].uploaded = contacts[i].uploaded
<1>1. PICK k \in fix[d] :
        contacts' = IF k \in Rows(contacts)
                    THEN [contacts EXCEPT ![k].level = 6] ELSE contacts
  BY DEF UpdateGrid
<1>2. CASE k \in Rows(contacts)
  <2> DEFINE e == [contacts[k] EXCEPT !.level = 6]
  <2>1. contacts' = [contacts EXCEPT ![k] = e]
    BY <1>1, <1>2 DEF e
  <2>2. contacts[k] \in Contact
    BY <1>2, RowTypes
  <2>3. /\ e \in Contact /\ e.message = contacts[k].message
        /\ e.spot = contacts[k].spot /\ e.uploaded = contacts[k].uploaded
    BY <2>2, UpdateTypes
  <2> HIDE DEF e
  <2>4. /\ contacts' \in Seq(Contact) /\ Rows(contacts') = Rows(contacts)
        /\ contacts'[k] = e
        /\ \A i \in Rows(contacts) \ {k} : contacts'[i] = contacts[i]
    BY <1>2, <2>1, <2>3, ExceptSeq DEF Rows
  <2> QED
    BY <2>3, <2>4
<1>3. CASE k \notin Rows(contacts)
  BY <1>1, <1>3
<1> QED
  BY <1>2, <1>3

-----------------------------------------------------------------------------
(* Types.                                                                  *)

\* The application starts with every variable in its type.
LEMMA TypeInit == Init => TypeOK
<1> SUFFICES ASSUME Init PROVE TypeOK
  OBVIOUS
<1> USE RecordTypes DEF Init
<1>1. TablesType
  BY EmptySeq DEF TablesType
<1>2. SenderType
  BY DEF SenderType, Pcs
<1>3. DecoderType
  <2>1. \E b \in Bands : TRUE
    BY BandsAssumption
  <2>2. (CHOOSE b \in Bands : TRUE) \in Bands
    BY <2>1
  <2> QED
    BY <2>2 DEF DecoderType
<1>4. UploaderType
  BY DEF UploaderType
<1> QED
  BY <1>1, <1>2, <1>3, <1>4 DEF TypeOK

\* The tables keep their types.
LEMMA TablesStep == TypeOK /\ [Next]_vars => TablesType'
<1> SUFFICES ASSUME TypeOK, [Next]_vars PROVE TablesType'
  OBVIOUS
<1> USE RecordTypes, FieldTypes
    DEF TypeOK, TablesType, SenderType, DecoderType, UploaderType, Threads
<1>1. CASE UNCHANGED <<messages, contacts, heard, reports>>
  BY <1>1
<1>2. ASSUME NEW d \in Decoders, StoreMessage(d) PROVE TablesType'
  <2>1. PICK k \in Kinds \ {"bad"}, c \in Calls, ok \in BOOLEAN :
          /\ heard' = Append(heard, [kind |-> k, call |-> c,
                                     session |-> sess[d], band |-> dial[d]])
          /\ messages' = IF ~ok THEN messages ELSE Append(messages,
               [session |-> sess[d], band |-> dial[d], spot |-> Len(heard) + 1])
    BY <1>2 DEF StoreMessage
  <2>2. heard' \in Seq(Spot)
    BY <2>1, AppendProperties
  <2>3. messages' \in Seq(Message)
    BY <2>1, AppendProperties, RowTypes
  <2> QED
    BY <1>2, <2>2, <2>3 DEF StoreMessage
<1>3. ASSUME NEW d \in Decoders, StoreBadMessage(d) PROVE TablesType'
  <2>1. "bad" \in Kinds
    BY DEF Kinds
  <2>2. heard' \in Seq(Spot)
    BY <1>3, <2>1, AppendProperties DEF StoreBadMessage
  <2>3. PICK ok \in BOOLEAN :
          messages' = IF ~ok THEN messages ELSE Append(messages,
            [session |-> sess[d], band |-> dial[d], spot |-> Len(heard) + 1])
    BY <1>3 DEF StoreBadMessage
  <2>4. messages' \in Seq(Message)
    BY <2>3, AppendProperties, RowTypes
  <2> QED
    BY <1>3, <2>2, <2>4 DEF StoreBadMessage
<1>4. ASSUME NEW d \in Decoders, StoreContact(d) PROVE TablesType'
  <2>1. [message |-> cur[d].message, call |-> cur[d].call,
         level |-> IF cur[d].kind = "type1" THEN 4 ELSE 0,
         spot |-> cur[d].spot, uploaded |-> FALSE] \in Contact
    BY DEF Levels
  <2>2. contacts' \in Seq(Contact)
    <3>1. CASE contacts' = contacts
      BY <3>1
    <3>2. CASE contacts' # contacts
      <4>1. contacts' = Append(contacts,
              [message |-> cur[d].message, call |-> cur[d].call,
               level |-> IF cur[d].kind = "type1" THEN 4 ELSE 0,
               spot |-> cur[d].spot, uploaded |-> FALSE])
        BY <1>4, <3>2 DEF StoreContact
      <4> QED
        BY <2>1, <4>1, AppendProperties
    <3> QED
      BY <3>1, <3>2
  <2> QED
    BY <1>4, <2>2 DEF StoreContact
<1>5. ASSUME NEW d \in Decoders, UpdateGrid(d) PROVE TablesType'
  BY <1>5, GridTables DEF UpdateGrid
<1>6. ASSUME NEW t \in Threads, Post(t) PROVE TablesType'
  <2>1. PICK e \in queue[t] :
          reports' = reports \/ reports' = reports \cup {ReportOf(e)}
    BY <1>6 DEF Post
  <2>2. e \in Entry
    BY <2>1
  <2>3. reports' \subseteq Report
    BY <2>1, <2>2
  <2> QED
    BY <1>6, <2>3 DEF Post, tables
<1>7. ASSUME NEW t \in Threads, Mark(t) PROVE TablesType'
  BY <1>7, MarkTables DEF Mark
<1>8. CASE WipeMessages
  BY <1>8, EmptySeq DEF WipeMessages
<1>9. CASE WipeContacts
  BY <1>9, EmptySeq DEF WipeContacts
<1> HIDE DEF TypeOK, TablesType, SenderType, DecoderType, UploaderType, Threads
<1> QED
  <2>1. UNCHANGED vars => TablesType'
    BY <1>1 DEF vars, tables
  <2>2. ASSUME NEW d \in Decoders, Decoder(d) PROVE TablesType'
    BY <1>1, <1>2, <1>3, <1>4, <1>5, <2>2
       DEF Decoder, StartDecoder, QueryHash, UpdatesDone, EndDecoder, tables
  <2>3. ASSUME NEW u \in Uploaders, Uploader(u) PROVE TablesType'
    BY <1>1, <2>3 DEF Uploader, Select, SelectNoCallsign, TakeRow, NextRow,
                      EndUpload, UploadFails, tables
  <2>4. ASSUME NEW t \in Threads, Send(t) PROVE TablesType'
    BY <1>1, <1>6, <1>7, <2>4 DEF Send, SendDone, tables
  <2>5. CASE StartService \/ Main \/ Crash
    BY <1>1, <1>8, <1>9, <2>5
       DEF Main, StartService, AbortClick, UploadClick, Crash, tables
  <2> QED
    BY <2>1, <2>2, <2>3, <2>4, <2>5 DEF Next

\* The program counters go to places there are.
LEMMA PcStep == TypeOK /\ [Next]_vars => pc' \in [Threads -> Pcs]
<1> SUFFICES ASSUME TypeOK, [Next]_vars PROVE pc' \in [Threads -> Pcs]
  OBVIOUS
<1>1. pc \in [Threads -> Pcs]
  BY DEF TypeOK, SenderType
<1>2. UNCHANGED vars => pc' \in [Threads -> Pcs]
  BY <1>1 DEF vars
<1>3. ASSUME NEW d \in Decoders, Decoder(d) PROVE pc' \in [Threads -> Pcs]
  <2>1. \/ pc' = pc
        \/ \E to \in Pcs : pc' = [pc EXCEPT ![d] = to]
    BY <1>3 DEF Decoder, StartDecoder, StoreMessage, StoreBadMessage,
       StoreContact, QueryHash, UpdateGrid, UpdatesDone, EndDecoder,
       UseNetwork, Goto, Pcs
  <2> QED
    BY <1>1, <2>1
<1>4. ASSUME NEW u \in Uploaders, Uploader(u) \/ UploadClick(u)
      PROVE  pc' \in [Threads -> Pcs]
  <2>1. \/ pc' = pc
        \/ \E to \in Pcs : pc' = [pc EXCEPT ![u] = to]
    BY <1>4 DEF Uploader, Select, SelectNoCallsign, TakeRow, NextRow,
       EndUpload, UploadFails, UploadClick, Goto, Pcs
  <2> QED
    BY <1>1, <2>1
<1>5. ASSUME NEW t \in Threads, Send(t) PROVE pc' \in [Threads -> Pcs]
  <2>1. \/ pc' = pc
        \/ \E to \in Pcs : pc' = [pc EXCEPT ![t] = to]
    BY <1>5 DEF Send, Post, Mark, SendDone, Goto, Pcs
  <2> QED
    BY <1>1, <2>1
<1>6. CASE Crash
  BY <1>1, <1>6 DEF Crash, Pcs
<1>7. CASE StartService \/ WipeMessages \/ WipeContacts \/ AbortClick
  BY <1>1, <1>7 DEF StartService, WipeMessages, WipeContacts, AbortClick
<1> QED
  BY <1>2, <1>3, <1>4, <1>5, <1>6, <1>7 DEF Next, Main

\* The senders hold entries.
LEMMA SenderStep == TypeOK /\ [Next]_vars => SenderType'
<1> SUFFICES ASSUME TypeOK, [Next]_vars PROVE SenderType'
  OBVIOUS
<1>1. pc' \in [Threads -> Pcs]
  BY PcStep
<1>2. CASE UNCHANGED <<queue, sent>>
  BY <1>1, <1>2 DEF TypeOK, SenderType
<1>3. ASSUME NEW t \in Threads, NEW Q \in SUBSET Entry,
             \/ queue' = [queue EXCEPT ![t] = @ \cup Q]
             \/ queue' = [queue EXCEPT ![t] = {}],
             sent' = sent
      PROVE  SenderType'
  BY <1>1, <1>3 DEF TypeOK, SenderType
<1>4. ASSUME NEW d \in Decoders, StoreContact(d) PROVE SenderType'
  <2>1. PICK ok \in BOOLEAN :
          queue' = [queue EXCEPT ![d] = @ \cup
            {[id |-> IF ok THEN Len(contacts) + 1 ELSE NoRow,
              of |-> cur[d].spot, spot |-> cur[d].spot]}]
    BY <1>4 DEF StoreContact
  <2>2. (IF ok THEN Len(contacts) + 1 ELSE NoRow) \in RowId
    BY RowTypes DEF TypeOK, TablesType, RowId, NoRow
  <2>3. cur[d].spot \in Nat
    BY FieldTypes DEF TypeOK, DecoderType
  <2>4. {[id |-> IF ok THEN Len(contacts) + 1 ELSE NoRow,
          of |-> cur[d].spot, spot |-> cur[d].spot]} \in SUBSET Entry
    BY <2>2, <2>3, RecordTypes
  <2> QED
    BY <1>3, <1>4, <2>1, <2>4 DEF StoreContact, Threads
<1>5. ASSUME NEW d \in Decoders, QueryHash(d) PROVE SenderType'
  <2>1. ASSUME NEW c \in Matches(d)
        PROVE  [id |-> c, of |-> contacts[c].spot, spot |-> cur[d].spot]
                 \in Entry
    <3>1. c \in RowId /\ contacts[c].spot \in Nat /\ cur[d].spot \in Nat
      BY RowTypes, FieldTypes
         DEF Matches, Joined, TypeOK, TablesType, DecoderType, RowId
    <3> QED
      BY <3>1, RecordTypes
  <2>2. {[id |-> c, of |-> contacts[c].spot, spot |-> cur[d].spot]
           : c \in Matches(d)} \in SUBSET Entry
    BY <2>1
  <2> QED
    BY <1>3, <1>5, <2>2 DEF QueryHash, Threads
<1>6. ASSUME NEW d \in Decoders, EndDecoder(d) PROVE SenderType'
  BY <1>3, <1>6 DEF EndDecoder, Threads
<1>7. ASSUME NEW t \in Threads, Post(t) PROVE SenderType'
  BY <1>1, <1>7 DEF Post, TypeOK, SenderType
<1>8. ASSUME NEW t \in Threads, Mark(t) PROVE SenderType'
  BY <1>1, <1>8, RecordTypes DEF Mark, TypeOK, SenderType
<1>9. ASSUME NEW u \in Uploaders, TakeRow(u) PROVE SenderType'
  <2>1. PICK r \in rows[u] :
          queue' = [queue EXCEPT ![u] =
              @ \cup {[id |-> r.id, of |-> r.spot, spot |-> r.spot]}]
    BY <1>9 DEF TakeRow
  <2>2. r.id \in RowId /\ r.spot \in Nat
    BY FieldTypes DEF TypeOK, UploaderType, RowId
  <2>3. {[id |-> r.id, of |-> r.spot, spot |-> r.spot]} \in SUBSET Entry
    BY <2>2, RecordTypes
  <2> QED
    BY <1>3, <1>9, <2>1, <2>3 DEF TakeRow, Threads
<1>10. ASSUME NEW u \in Uploaders, EndUpload(u) \/ UploadFails(u)
       PROVE  SenderType'
  BY <1>3, <1>10 DEF EndUpload, UploadFails, Threads
<1>11. CASE Crash
  BY <1>1, <1>11, RecordTypes DEF Crash, SenderType
<1> QED
  <2>1. UNCHANGED vars => SenderType'
    BY <1>2 DEF vars
  <2>2. ASSUME NEW d \in Decoders, Decoder(d) PROVE SenderType'
    BY <1>2, <1>4, <1>5, <1>6, <2>2 DEF Decoder, StartDecoder, StoreMessage,
       StoreBadMessage, UpdateGrid, UpdatesDone
  <2>3. ASSUME NEW u \in Uploaders, Uploader(u) PROVE SenderType'
    BY <1>2, <1>9, <1>10, <2>3
       DEF Uploader, Select, SelectNoCallsign, NextRow
  <2>4. ASSUME NEW t \in Threads, Send(t) PROVE SenderType'
    BY <1>2, <1>7, <1>8, <2>4 DEF Send, SendDone
  <2>5. CASE StartService \/ Main \/ Crash
    BY <1>2, <1>11, <2>5 DEF Main, StartService, WipeMessages, WipeContacts,
                             AbortClick, UploadClick
  <2> QED
    BY <2>1, <2>2, <2>3, <2>4, <2>5 DEF Next

\* The decoders keep their types.
LEMMA DecoderStep == TypeOK /\ [Next]_vars => DecoderType'
<1> SUFFICES ASSUME TypeOK, [Next]_vars PROVE DecoderType'
  OBVIOUS
<1> USE DEF TypeOK, DecoderType
<1>1. CASE UNCHANGED decoding
  BY <1>1 DEF decoding
<1>2. ASSUME NEW d \in Decoders, StartDecoder(d) PROVE DecoderType'
  BY <1>2 DEF StartDecoder
<1>3. ASSUME NEW d \in Decoders, StoreMessage(d) PROVE DecoderType'
  <2>1. PICK k \in Kinds, c \in Calls, ok \in BOOLEAN :
          cur' = [cur EXCEPT ![d] =
            [kind |-> k, call |-> c, spot |-> Len(heard) + 1,
             message |-> IF ok THEN Len(messages) + 1 ELSE NoRow]]
    BY <1>3 DEF StoreMessage
  <2>2. Len(heard) + 1 \in Nat
    BY RowTypes DEF TablesType
  <2>3. (IF ok THEN Len(messages) + 1 ELSE NoRow) \in RowId
    BY RowTypes DEF TablesType, RowId
  <2>4. [kind |-> k, call |-> c, spot |-> Len(heard) + 1,
         message |-> IF ok THEN Len(messages) + 1 ELSE NoRow] \in Current
    BY <2>2, <2>3, RecordTypes
  <2>5. cur' \in [Decoders -> Current]
    BY <2>1, <2>4
  <2> QED
    BY <1>3, <2>5 DEF StoreMessage
<1>4. ASSUME NEW d \in Decoders, QueryHash(d) PROVE DecoderType'
  <2>1. Matches(d) \subseteq Nat
    BY RowTypes DEF Matches, Joined, TablesType
  <2> QED
    BY <1>4, <2>1 DEF QueryHash
<1>5. ASSUME NEW d \in Decoders, UpdateGrid(d) PROVE DecoderType'
  BY <1>5 DEF UpdateGrid
<1>6. CASE Crash
  BY <1>6, RecordTypes DEF Crash
<1> HIDE DEF TypeOK, DecoderType
<1> QED
  <2>1. UNCHANGED vars => DecoderType'
    BY <1>1 DEF vars
  <2>2. ASSUME NEW d \in Decoders, Decoder(d) PROVE DecoderType'
    BY <1>1, <1>2, <1>3, <1>4, <1>5, <2>2
       DEF Decoder, StoreBadMessage, StoreContact, UpdatesDone, EndDecoder
  <2>3. ASSUME NEW u \in Uploaders, Uploader(u) PROVE DecoderType'
    BY <1>1, <2>3 DEF Uploader, Select, SelectNoCallsign, TakeRow, NextRow,
                      EndUpload, UploadFails
  <2>4. ASSUME NEW t \in Threads, Send(t) PROVE DecoderType'
    BY <1>1, <2>4 DEF Send, Post, Mark, SendDone
  <2>5. CASE StartService \/ Main \/ Crash
    BY <1>1, <1>6, <2>5 DEF Main, StartService, WipeMessages, WipeContacts,
                            AbortClick, UploadClick
  <2> QED
    BY <2>1, <2>2, <2>3, <2>4, <2>5 DEF Next

\* The uploads keep their types.
LEMMA UploaderStep == TypeOK /\ [Next]_vars => UploaderType'
<1> SUFFICES ASSUME TypeOK, [Next]_vars PROVE UploaderType'
  OBVIOUS
<1> USE DEF TypeOK, UploaderType
<1>1. CASE UNCHANGED <<upl, failed>>
  BY <1>1 DEF upl
<1>2. ASSUME NEW u \in Uploaders, Select(u) PROVE UploaderType'
  <2> DEFINE found == {c \in Joined : ~contacts[c].uploaded}
  <2>1. ASSUME NEW c \in found
        PROVE  [id |-> c, spot |-> contacts[c].spot,
                band |-> messages[contacts[c].message].band] \in Row
    <3>1. /\ c \in Nat /\ contacts[c].spot \in Nat
          /\ messages[contacts[c].message].band \in Bands
      BY RowTypes, FieldTypes DEF Joined, TablesType
    <3> QED
      BY <3>1, RecordTypes
  <2> HIDE DEF found
  <2>2. rows' = [rows EXCEPT ![u] =
          {[id |-> c, spot |-> contacts[c].spot,
            band |-> messages[contacts[c].message].band] : c \in found}]
    BY <1>2 DEF Select, found
  <2>3. rows' \in [Uploaders -> SUBSET Row]
    BY <2>1, <2>2
  <2> QED
    BY <1>2, <2>3 DEF Select, StopSelf
<1>3. ASSUME NEW u \in Uploaders,
             SelectNoCallsign(u) \/ EndUpload(u) \/ UploadFails(u)
               \/ UploadClick(u)
      PROVE  UploaderType'
  BY <1>3 DEF SelectNoCallsign, EndUpload, UploadFails, UploadClick, StopSelf
<1>4. ASSUME NEW u \in Uploaders, TakeRow(u) PROVE UploaderType'
  BY <1>4 DEF TakeRow
<1>5. CASE AbortClick
  BY <1>5 DEF AbortClick
<1>6. ASSUME NEW t \in Threads, Post(t) \/ Mark(t) PROVE UploaderType'
  <2>1. failed' = failed \/ failed' = [failed EXCEPT ![t] = TRUE]
    BY <1>6 DEF Post, Mark, Skip
  <2>2. failed' \in [Uploaders -> BOOLEAN]
    BY <2>1
  <2> QED
    BY <1>6, <2>2 DEF Post, Mark, upl
<1>7. CASE Crash
  BY <1>7 DEF Crash
<1> HIDE DEF TypeOK, UploaderType
<1> QED
  <2>1. UNCHANGED vars => UploaderType'
    BY <1>1 DEF vars
  <2>2. ASSUME NEW d \in Decoders, Decoder(d) PROVE UploaderType'
    BY <1>1, <2>2 DEF Decoder, StartDecoder, StoreMessage, StoreBadMessage,
       StoreContact, QueryHash, UpdateGrid, UpdatesDone, EndDecoder
  <2>3. ASSUME NEW u \in Uploaders, Uploader(u) PROVE UploaderType'
    BY <1>1, <1>2, <1>3, <1>4, <2>3 DEF Uploader, NextRow
  <2>4. ASSUME NEW t \in Threads, Send(t) PROVE UploaderType'
    BY <1>1, <1>6, <2>4 DEF Send, SendDone
  <2>5. CASE StartService \/ Main \/ Crash
    BY <1>1, <1>3, <1>5, <1>7, <2>5 DEF Main, StartService, WipeMessages,
                                        WipeContacts
  <2> QED
    BY <2>1, <2>2, <2>3, <2>4, <2>5 DEF Next

\* The session, the main thread and the bounds keep their types.
LEMMA MainStep ==
  TypeOK /\ [Next]_vars =>
    /\ session' \in Nat /\ main' \in {"idle", "wipe"} /\ torn' \in BOOLEAN
    /\ wipes' \in Nat /\ faults' \in Nat
<1> SUFFICES ASSUME TypeOK, [Next]_vars
             PROVE  /\ session' \in Nat /\ main' \in {"idle", "wipe"}
                    /\ torn' \in BOOLEAN /\ wipes' \in Nat /\ faults' \in Nat
  OBVIOUS
<1> USE DEF TypeOK
<1>1. CASE UNCHANGED <<session, main, torn, wipes, faults>>
  BY <1>1
<1>2. CASE StartService
  <2>1. session' \in Nat
    BY <1>2, RowTypes, FieldTypes DEF StartService, TablesType
  <2> QED
    BY <1>2, <2>1 DEF StartService, env
<1>3. ASSUME NEW d \in Decoders, Decoder(d)
      PROVE  UNCHANGED <<session, main, wipes>> /\ torn' \in BOOLEAN
             /\ faults' \in Nat
  <2>1. CASE StartDecoder(d)
    <3>1. torn' \in BOOLEAN
      BY <2>1 DEF StartDecoder
    <3> QED
      BY <2>1, <3>1 DEF StartDecoder
  <2>2. CASE StoreMessage(d) \/ StoreBadMessage(d) \/ StoreContact(d)
    <3>1. \E ok \in BOOLEAN : Statement(ok)
      BY <2>2 DEF StoreMessage, StoreBadMessage, StoreContact
    <3>2. faults' \in Nat
      BY <3>1 DEF Statement
    <3> QED
      BY <2>2, <3>2 DEF StoreMessage, StoreBadMessage, StoreContact
  <2>3. CASE QueryHash(d) \/ UpdateGrid(d) \/ UpdatesDone(d) \/ EndDecoder(d)
    BY <2>3 DEF QueryHash, UpdateGrid, UpdatesDone, EndDecoder, env
  <2> QED
    BY <1>3, <2>1, <2>2, <2>3 DEF Decoder
<1>4. ASSUME NEW t \in Threads, Send(t)
      PROVE  UNCHANGED <<session, main, torn, wipes>> /\ faults' \in Nat
  BY <1>4 DEF Send, Post, Mark, SendDone, Statement, env
<1>5. ASSUME NEW u \in Uploaders, Uploader(u)
      PROVE  UNCHANGED <<session, main, torn, wipes>> /\ faults' \in Nat
  BY <1>5 DEF Uploader, Select, SelectNoCallsign, TakeRow, NextRow, EndUpload,
              UploadFails, Statement, env
<1>6. CASE Main
  <2>1. CASE WipeMessages
    <3>1. torn' \in BOOLEAN
      BY <2>1 DEF WipeMessages
    <3> QED
      BY <2>1, <3>1 DEF WipeMessages
  <2> QED
    BY <1>6, <2>1 DEF Main, WipeContacts, AbortClick, UploadClick, env
<1>7. CASE Crash
  BY <1>7 DEF Crash
<1> QED
  BY <1>1, <1>2, <1>3, <1>4, <1>5, <1>6, <1>7 DEF Next, vars, env

\* TypeOK holds of the specification: whatever threads, failures, wipes and
\* deaths of the process there are, tables, senders and threads keep their
\* types.
THEOREM StoreTypes == Spec => []TypeOK
<1>1. TypeOK /\ [Next]_vars => TypeOK'
  BY TablesStep, SenderStep, DecoderStep, UploaderStep, MainStep DEF TypeOK
<1> QED
  BY <1>1, TypeInit, PTL DEF Spec

-----------------------------------------------------------------------------
(* The inductive invariant.  A property of the tables alone is not         *)
(* inductive: the threads carry ids of rows from one step to a later one,  *)
(* and a table may be emptied and filled again in between.  What saves     *)
(* them is that, unless a wipe is torn, no thread carries any id while the *)
(* tables are being emptied.                                               *)

\* An id a thread carries for a spot is that of its contact, or of none.
Ref(id, spot) ==
  id = NoRow \/ (id \in Rows(contacts) /\ contacts[id].spot = spot)
MessageRef(id, spot) ==
  id = NoRow \/ (id \in Rows(messages) /\ messages[id].spot = spot)

\* A report under the call sign of the spot has arrived.
Named(spot) == \E r \in reports : r.of = spot

\* A thread not at work carries nothing.
QuietSenders ==
  \A t \in Threads : ~Busy(t) \/ pc[t] = "select" => queue[t] = {}

Wiping ==
  main = "wipe" => messages = <<>> /\ \A t \in Threads : ~Busy(t)
QueueRefs == \A t \in Threads : \A e \in queue[t] : Ref(e.id, e.of)
SentRefs ==
  \A t \in Threads : pc[t] = "mark" =>
    Ref(sent[t].id, sent[t].of) /\ Named(sent[t].of)
RowRefs ==
  \A u \in Uploaders : Busy(u) /\ pc[u] # "select" =>
    \A r \in rows[u] : Ref(r.id, r.spot)
CurrentRefs ==
  \A d \in Decoders : pc[d] = "contact" =>
    MessageRef(cur[d].message, cur[d].spot)
LogRefs ==
  main = "idle" =>
    \A c \in Rows(contacts) : MessageRef(contacts[c].message, contacts[c].spot)

MarksNamed ==
  \A c \in Rows(contacts) : contacts[c].uploaded => Named(contacts[c].spot)

Links ==
  /\ Wiping /\ QueueRefs /\ SentRefs /\ RowRefs /\ CurrentRefs /\ LogRefs
  /\ MarksNamed
IInv == TypeOK /\ QuietSenders /\ (~torn => Links)

\* The invariant holds at the start.
LEMMA LinksInit == Init => IInv
<1> SUFFICES ASSUME Init PROVE IInv
  OBVIOUS
<1>1. TypeOK
  BY TypeInit
<1>2. \A t \in Threads : queue[t] = {} /\ pc[t] = "idle"
  BY DEF Init
<1>3. Rows(contacts) = {}
  BY DEF Init, Rows
<1>4. \A d \in Decoders : pc[d] = "idle"
  BY <1>2 DEF Threads
<1>5. \A u \in Uploaders : ~Busy(u)
  BY <1>2 DEF Threads, Busy
<1>6. main = "idle"
  BY DEF Init
<1> QED
  BY <1>1, <1>2, <1>3, <1>4, <1>5, <1>6
     DEF IInv, QuietSenders, Links, Wiping, QueueRefs, SentRefs, RowRefs,
         CurrentRefs, LogRefs, MarksNamed

\* A thread leaves its sender empty when it stops.
LEMMA QuietStep == TypeOK /\ QuietSenders /\ [Next]_vars => QuietSenders'
<1> SUFFICES ASSUME TypeOK, QuietSenders, [Next]_vars PROVE QuietSenders'
  OBVIOUS
<1>1. pc \in [Threads -> Pcs] /\ queue \in [Threads -> SUBSET Entry]
  BY DEF TypeOK, SenderType
<1> USE <1>1 DEF QuietSenders, Busy
<1>2. CASE UNCHANGED <<pc, queue>>
  BY <1>2
<1>3. ASSUME NEW t \in Threads, NEW to \in {"idle", "select", "done", "dead"},
             Goto(t, to), queue[t] = {}, queue' = queue
      PROVE  QuietSenders'
  BY <1>3 DEF Goto
<1>4. ASSUME NEW t \in Threads,
             NEW to \in Pcs \ {"idle", "select", "done", "dead"}, Goto(t, to),
             \A s \in Threads \ {t} : queue'[s] = queue[s]
      PROVE  QuietSenders'
  BY <1>4 DEF Goto
<1>5. ASSUME NEW t \in Threads, Goto(t, "done"),
             queue' = [queue EXCEPT ![t] = {}]
      PROVE  QuietSenders'
  BY <1>5 DEF Goto
<1>6. ASSUME NEW d \in Decoders, Decoder(d) PROVE QuietSenders'
  <2>1. d \in Threads
    BY DEF Threads
  <2>2. CASE StartDecoder(d)
    BY <1>4, <2>1, <2>2 DEF StartDecoder, Pcs
  <2>3. CASE StoreMessage(d)
    <3>1. \E to \in {"query", "contact"} : Goto(d, to)
      BY <2>3 DEF StoreMessage
    <3> QED
      BY <1>4, <2>1, <2>3, <3>1 DEF StoreMessage, Pcs
  <2>4. CASE StoreBadMessage(d) \/ UpdatesDone(d)
    <3>1. \E to \in {"post", "message"} : Goto(d, to)
      BY <2>4 DEF StoreBadMessage, UpdatesDone, UseNetwork
    <3> QED
      BY <1>4, <2>1, <2>4, <3>1 DEF StoreBadMessage, UpdatesDone, Pcs
  <2>5. CASE StoreContact(d)
    <3>1. \E to \in {"post", "message"} : Goto(d, to)
      BY <2>5 DEF StoreContact, UseNetwork
    <3>2. \A s \in Threads \ {d} : queue'[s] = queue[s]
      BY <2>5 DEF StoreContact
    <3> QED
      BY <1>4, <2>1, <3>1, <3>2 DEF Pcs
  <2>6. CASE QueryHash(d)
    <3>1. \A s \in Threads \ {d} : queue'[s] = queue[s]
      BY <2>6 DEF QueryHash
    <3> QED
      BY <1>4, <2>1, <2>6, <3>1 DEF QueryHash, Pcs
  <2>7. CASE UpdateGrid(d)
    BY <1>2, <2>7 DEF UpdateGrid
  <2>8. CASE EndDecoder(d)
    BY <1>5, <2>1, <2>8 DEF EndDecoder
  <2> QED
    BY <1>6, <2>2, <2>3, <2>4, <2>5, <2>6, <2>7, <2>8 DEF Decoder
<1>7. ASSUME NEW u \in Uploaders, Uploader(u) \/ UploadClick(u)
      PROVE  QuietSenders'
  <2>1. u \in Threads
    BY DEF Threads
  <2>2. CASE Select(u) \/ SelectNoCallsign(u) \/ UploadClick(u)
    <3>1. queue[u] = {} /\ queue' = queue
      BY <2>1, <2>2 DEF Select, SelectNoCallsign, UploadClick
    <3>2. \E to \in {"select", "done", "row"} : Goto(u, to)
      BY <2>2 DEF Select, SelectNoCallsign, UploadClick
    <3> QED
      BY <1>3, <1>4, <2>1, <3>1, <3>2 DEF Pcs
  <2>3. CASE TakeRow(u)
    <3>1. \A s \in Threads \ {u} : queue'[s] = queue[s]
      BY <2>3 DEF TakeRow
    <3>2. \E to \in {"post", "next"} : Goto(u, to)
      BY <2>3 DEF TakeRow
    <3> QED
      BY <1>4, <2>1, <3>1, <3>2 DEF Pcs
  <2>4. CASE NextRow(u)
    BY <1>4, <2>1, <2>4 DEF NextRow, Pcs
  <2>5. CASE EndUpload(u) \/ UploadFails(u)
    BY <1>5, <2>1, <2>5 DEF EndUpload, UploadFails
  <2> QED
    BY <1>7, <2>2, <2>3, <2>4, <2>5 DEF Uploader
<1>8. ASSUME NEW t \in Threads, Send(t) PROVE QuietSenders'
  <2>1. CASE Post(t)
    <3>1. \A s \in Threads \ {t} : queue'[s] = queue[s] /\ pc'[s] = pc[s]
      BY <2>1 DEF Post, Goto
    <3>2. pc'[t] \in {"post", "mark"}
      BY <2>1 DEF Post, Goto
    <3> QED
      BY <3>1, <3>2
  <2>2. CASE Mark(t)
    BY <1>4, <2>2 DEF Mark, Pcs
  <2>3. CASE SendDone(t)
    <3>1. \E to \in {"message", "next"} : Goto(t, to)
      BY <2>3 DEF SendDone
    <3> QED
      BY <1>4, <2>3, <3>1 DEF SendDone, Pcs
  <2> QED
    BY <1>8, <2>1, <2>2, <2>3 DEF Send
<1>9. CASE Crash
  BY <1>9 DEF Crash
<1> QED
  BY <1>2, <1>6, <1>7, <1>8, <1>9 DEF Next, Main, StartService, WipeMessages,
     WipeContacts, AbortClick, vars

\* All steps but the two deletes.
Ordinary ==
  \/ \E t \in Threads : Send(t)
  \/ \E d \in Decoders : Decoder(d)
  \/ \E u \in Uploaders : Uploader(u) \/ UploadClick(u)
  \/ StartService \/ AbortClick \/ Crash
LEMMA NextCases == Next <=> Ordinary \/ WipeMessages \/ WipeContacts
BY DEF Next, Main, Ordinary

\* They keep the rows there are, and a row keeps its message and its spot.
KeepsRows ==
  /\ Rows(messages) \subseteq Rows(messages')
  /\ \A m \in Rows(messages) : messages'[m].spot = messages[m].spot
  /\ Rows(contacts) \subseteq Rows(contacts')
  /\ \A c \in Rows(contacts) : /\ contacts'[c].spot = contacts[c].spot
                              /\ contacts'[c].message = contacts[c].message
  /\ reports \subseteq reports'
LEMMA RowsKept == TypeOK /\ Ordinary => KeepsRows
<1> SUFFICES ASSUME TypeOK, Ordinary PROVE KeepsRows
  OBVIOUS
<1>1. messages \in Seq(Message) /\ contacts \in Seq(Contact)
  BY DEF TypeOK, TablesType
<1>2. messages' \in Seq(Message) /\ contacts' \in Seq(Contact)
  BY TablesStep, NextCases DEF TypeOK, TablesType
<1>3. CASE UNCHANGED tables /\ reports \subseteq reports'
  BY <1>3 DEF tables, KeepsRows
<1>4. ASSUME NEW d \in Decoders, StoreMessage(d) \/ StoreBadMessage(d)
      PROVE  KeepsRows
  <2>1. UNCHANGED <<contacts, reports>>
    BY <1>4 DEF StoreMessage, StoreBadMessage
  <2>2. messages' = messages \/ \E e : messages' = Append(messages, e)
    BY <1>4 DEF StoreMessage, StoreBadMessage
  <2>3. /\ Rows(messages) \subseteq Rows(messages')
        /\ \A m \in Rows(messages) : messages'[m] = messages[m]
    BY <1>1, <2>2 DEF Rows
  <2> QED
    BY <2>1, <2>3 DEF KeepsRows
<1>5. ASSUME NEW d \in Decoders, StoreContact(d) PROVE KeepsRows
  <2>1. UNCHANGED <<messages, reports>>
    BY <1>5 DEF StoreContact
  <2>2. contacts' = contacts \/ \E e : contacts' = Append(contacts, e)
    BY <1>5 DEF StoreContact
  <2>3. /\ Rows(contacts) \subseteq Rows(contacts')
        /\ \A c \in Rows(contacts) : contacts'[c] = contacts[c]
    BY <1>1, <2>2 DEF Rows
  <2> QED
    BY <2>1, <2>3 DEF KeepsRows
<1>6. ASSUME NEW d \in Decoders, UpdateGrid(d) PROVE KeepsRows
  <2>1. UNCHANGED <<messages, reports>>
    BY <1>6 DEF UpdateGrid
  <2> QED
    BY <1>1, <1>6, <2>1, GridTables DEF KeepsRows
<1>7. ASSUME NEW t \in Threads, Mark(t) PROVE KeepsRows
  <2>1. UNCHANGED <<messages, reports>>
    BY <1>7 DEF Mark
  <2> QED
    BY <1>1, <1>7, <2>1, MarkTables DEF KeepsRows
<1>8. ASSUME NEW t \in Threads, Post(t) PROVE KeepsRows
  <2>1. reports \subseteq reports'
    BY <1>8 DEF Post
  <2> QED
    BY <1>3, <1>8, <2>1 DEF Post
<1> QED
  <2>1. ASSUME NEW d \in Decoders, Decoder(d) PROVE KeepsRows
    BY <1>3, <1>4, <1>5, <1>6, <2>1
       DEF Decoder, StartDecoder, QueryHash, UpdatesDone, EndDecoder
  <2>2. ASSUME NEW u \in Uploaders, Uploader(u) \/ UploadClick(u)
        PROVE  KeepsRows
    BY <1>3, <2>2 DEF Uploader, Select, SelectNoCallsign, TakeRow, NextRow,
                      EndUpload, UploadFails, UploadClick
  <2>3. ASSUME NEW t \in Threads, Send(t) PROVE KeepsRows
    BY <1>3, <1>7, <1>8, <2>3 DEF Send, SendDone
  <2>4. CASE StartService \/ AbortClick \/ Crash
    BY <1>3, <2>4 DEF StartService, AbortClick, Crash
  <2> QED
    BY <2>1, <2>2, <2>3, <2>4 DEF Ordinary

\* What is carried stays true of the rows.
LEMMA RefsKept ==
  ASSUME KeepsRows, NEW id, NEW spot
  PROVE  /\ Ref(id, spot) => Ref(id, spot)'
         /\ MessageRef(id, spot) => MessageRef(id, spot)'
BY DEF KeepsRows, Ref, MessageRef

\* While the tables are emptied no thread carries anything, or the wipe is torn.
LEMMA WipeLinks ==
  IInv /\ (WipeMessages \/ WipeContacts) /\ ~torn' => Links'
<1> SUFFICES ASSUME IInv, WipeMessages \/ WipeContacts, ~torn' PROVE Links'
  OBVIOUS
<1>1. ~torn /\ \A t \in Threads : ~Busy(t)
  <2>1. CASE WipeMessages
    <3>1. torn' = (torn \/ \E t \in Threads : Busy(t))
      BY <2>1 DEF WipeMessages
    <3> QED
      BY <3>1, Zenon
  <2>2. CASE WipeContacts
    BY <2>2 DEF WipeContacts, IInv, Links, Wiping
  <2> QED
    BY <2>1, <2>2
<1>2. \A t \in Threads : queue[t] = {}
  BY <1>1 DEF IInv, QuietSenders
<1>3. UNCHANGED <<pc, queue, sent, rows, cur, reports>>
  BY DEF WipeMessages, WipeContacts, decoding, upl
<1>4. \A t \in Threads : ~Busy(t)'
  BY <1>1, <1>3 DEF Busy
<1>5. QueueRefs' /\ SentRefs' /\ RowRefs' /\ CurrentRefs'
  BY <1>2, <1>3, <1>4
     DEF QueueRefs, SentRefs, RowRefs, CurrentRefs, Busy, Threads
<1>6. CASE WipeMessages
  <2>1. Wiping' /\ LogRefs'
    BY <1>4, <1>6 DEF WipeMessages, Wiping, LogRefs
  <2>2. MarksNamed'
    BY <1>1, <1>6 DEF WipeMessages, IInv, Links, MarksNamed, Named
  <2> QED
    BY <1>5, <2>1, <2>2 DEF Links
<1>7. CASE WipeContacts
  <2>1. Rows(contacts') = {} /\ main' = "idle"
    BY <1>7 DEF WipeContacts, Rows
  <2> QED
    BY <1>5, <2>1 DEF Links, Wiping, LogRefs, MarksNamed
<1> QED
  BY <1>6, <1>7

\* No thread starts to work between the two deletes, or the wipe is torn.
LEMMA WipingStep == IInv /\ Ordinary /\ ~torn /\ ~torn' => Wiping'
<1> SUFFICES ASSUME IInv, Ordinary, ~torn, ~torn', main' = "wipe"
             PROVE  UNCHANGED <<main, messages, pc>>
  BY DEF Wiping, IInv, Links, Busy
<1>1. main = "wipe" => \A t \in Threads : ~Busy(t)
  BY DEF IInv, Links, Wiping
<1>2. ASSUME NEW d \in Decoders, Decoder(d)
      PROVE  UNCHANGED <<main, messages, pc>>
  <2>1. main' = main /\ d \in Threads
    BY <1>2 DEF Decoder, StartDecoder, StoreMessage, StoreBadMessage,
       StoreContact, QueryHash, UpdateGrid, UpdatesDone, EndDecoder, env,
       Threads
  <2>2. ~StartDecoder(d)
    BY <2>1 DEF StartDecoder
  <2>3. Busy(d)
    BY <1>2, <2>2 DEF Decoder, StoreMessage, StoreBadMessage, StoreContact,
       QueryHash, UpdateGrid, UpdatesDone, EndDecoder, Busy
  <2> QED
    BY <1>1, <2>1, <2>3
<1>3. ASSUME NEW u \in Uploaders, Uploader(u) \/ UploadClick(u)
      PROVE  UNCHANGED <<main, messages, pc>>
  <2>1. main' = main /\ u \in Threads
    BY <1>3 DEF Uploader, Select, SelectNoCallsign, TakeRow, NextRow,
       EndUpload, UploadFails, UploadClick, env, Threads
  <2>2. ~UploadClick(u)
    BY <2>1 DEF UploadClick
  <2>3. Busy(u)
    BY <1>3, <2>2 DEF Uploader, Select, SelectNoCallsign, TakeRow, NextRow,
       EndUpload, UploadFails, Busy
  <2> QED
    BY <1>1, <2>1, <2>3
<1>4. ASSUME NEW t \in Threads, Send(t) PROVE UNCHANGED <<main, messages, pc>>
  <2>1. main' = main /\ Busy(t)
    BY <1>4 DEF Send, Post, Mark, SendDone, env, Busy
  <2> QED
    BY <1>1, <2>1
<1>5. CASE StartService \/ AbortClick \/ Crash
  BY <1>5 DEF StartService, AbortClick, Crash, tables, env
<1> QED
  BY <1>2, <1>3, <1>4, <1>5 DEF Ordinary

\* New entries of the senders have the ids of rows that are there.
LEMMA QueueStep == IInv /\ Ordinary /\ ~torn /\ ~torn' => QueueRefs'
<1> SUFFICES ASSUME IInv, Ordinary, ~torn,
                    NEW t \in Threads, NEW e \in queue'[t]
             PROVE  Ref(e.id, e.of)'
  BY DEF QueueRefs
<1>1. KeepsRows /\ queue \in [Threads -> SUBSET Entry]
  BY RowsKept DEF IInv, TypeOK, SenderType
<1>2. CASE e \in queue[t]
  <2>1. Ref(e.id, e.of)
    BY <1>2 DEF IInv, Links, QueueRefs
  <2> QED
    BY <1>1, <2>1, RefsKept
<1>3. ASSUME NEW d \in Decoders, StoreContact(d), e \notin queue[t]
      PROVE  Ref(e.id, e.of)'
  <2> DEFINE row == [message |-> cur[d].message, call |-> cur[d].call,
                     level |-> IF cur[d].kind = "type1" THEN 4 ELSE 0,
                     spot |-> cur[d].spot, uploaded |-> FALSE]
  <2>1. PICK ok \in BOOLEAN :
          /\ contacts' = IF ~ok THEN contacts ELSE Append(contacts, row)
          /\ e = [id |-> IF ok THEN Len(contacts) + 1 ELSE NoRow,
                  of |-> cur[d].spot, spot |-> cur[d].spot]
    BY <1>1, <1>3 DEF StoreContact
  <2>2. row.spot = cur[d].spot
    OBVIOUS
  <2> HIDE DEF row
  <2>3. ok => /\ Len(contacts) + 1 \in Rows(contacts')
              /\ contacts'[Len(contacts) + 1] = row
    BY <2>1 DEF IInv, TypeOK, TablesType, Rows
  <2> QED
    BY <2>1, <2>2, <2>3 DEF Ref
<1>4. ASSUME NEW d \in Decoders, QueryHash(d), e \notin queue[t]
      PROVE  Ref(e.id, e.of)'
  <2>1. PICK c \in Matches(d) :
          e = [id |-> c, of |-> contacts[c].spot, spot |-> cur[d].spot]
    BY <1>1, <1>4 DEF QueryHash
  <2>2. c \in Rows(contacts) /\ contacts' = contacts
    BY <1>4 DEF Matches, Joined, QueryHash, tables
  <2> QED
    BY <2>1, <2>2 DEF Ref
<1>5. ASSUME NEW u \in Uploaders, TakeRow(u), e \notin queue[t]
      PROVE  Ref(e.id, e.of)'
  <2>1. PICK r \in rows[u] : e = [id |-> r.id, of |-> r.spot, spot |-> r.spot]
    BY <1>1, <1>5 DEF TakeRow
  <2>2. Ref(r.id, r.spot)
    BY <1>5 DEF IInv, Links, RowRefs, TakeRow, Busy
  <2> QED
    BY <1>1, <2>1, <2>2, RefsKept
<1> QED
  <2>1. ASSUME NEW d \in Decoders, Decoder(d) PROVE Ref(e.id, e.of)'
    BY <1>1, <1>2, <1>3, <1>4, <2>1 DEF Decoder, StartDecoder, StoreMessage,
       StoreBadMessage, UpdateGrid, UpdatesDone, EndDecoder
  <2>2. ASSUME NEW u \in Uploaders, Uploader(u) \/ UploadClick(u)
        PROVE  Ref(e.id, e.of)'
    BY <1>1, <1>2, <1>5, <2>2 DEF Uploader, Select, SelectNoCallsign, NextRow,
       EndUpload, UploadFails, UploadClick
  <2>3. ASSUME NEW s \in Threads, Send(s) PROVE Ref(e.id, e.of)'
    BY <1>1, <1>2, <2>3 DEF Send, Post, Mark, SendDone
  <2>4. CASE StartService \/ AbortClick \/ Crash
    BY <1>1, <1>2, <2>4 DEF StartService, AbortClick, Crash
  <2> QED
    BY <2>1, <2>2, <2>3, <2>4 DEF Ordinary

\* An answered entry is that of its contact, and a report names its spot.
LEMMA SentStep == IInv /\ Ordinary /\ ~torn => SentRefs'
<1> SUFFICES ASSUME IInv, Ordinary, ~torn, NEW t \in Threads, pc'[t] = "mark"
             PROVE  Ref(sent[t].id, sent[t].of)' /\ Named(sent[t].of)'
  BY DEF SentRefs
<1>1. /\ KeepsRows /\ pc \in [Threads -> Pcs]
      /\ queue \in [Threads -> SUBSET Entry] /\ sent \in [Threads -> Entry]
  BY RowsKept DEF IInv, TypeOK, SenderType
<1>2. CASE pc[t] = "mark" /\ sent'[t] = sent[t]
  <2>1. Ref(sent[t].id, sent[t].of) /\ Named(sent[t].of)
    BY <1>2 DEF IInv, Links, SentRefs
  <2>2. ASSUME NEW e, e = sent[t]
        PROVE  Ref(e.id, e.of)' /\ Named(e.of)'
    BY <1>1, <2>1, <2>2, RefsKept DEF KeepsRows, Named
  <2> QED
    BY <1>2, <2>2 DEF Ref, Named
<1>3. ASSUME NEW s \in Threads, Post(s) PROVE
        Ref(sent[t].id, sent[t].of)' /\ Named(sent[t].of)'
  <2>1. CASE pc' = pc
    BY <1>1, <1>2, <1>3, <2>1 DEF Post
  <2>2. CASE pc' # pc
    <3>1. PICK e \in queue[s] :
            /\ reports' = reports \cup {ReportOf(e)}
            /\ Goto(s, "mark") /\ sent' = [sent EXCEPT ![s] = e]
      BY <1>3, <2>2 DEF Post
    <3>2. CASE s = t
      <4>1. Ref(e.id, e.of)
        BY DEF IInv, Links, QueueRefs
      <4>2. Ref(e.id, e.of)'
        BY <1>1, <3>1, <4>1, RefsKept
      <4>3. ReportOf(e) \in reports' /\ ReportOf(e).of = e.of
        BY <1>1, <3>1, RecordTypes
      <4>4. Named(e.of)'
        BY <4>3 DEF Named
      <4>5. sent'[t] = e
        BY <1>1, <3>1, <3>2
      <4> QED
        BY <4>2, <4>4, <4>5 DEF Ref, Named
    <3>3. CASE s # t
      BY <1>1, <1>2, <3>1, <3>3 DEF Goto
    <3> QED
      BY <3>2, <3>3
  <2> QED
    BY <2>1, <2>2
<1>4. ASSUME NEW s \in Threads, Mark(s) PROVE
        Ref(sent[t].id, sent[t].of)' /\ Named(sent[t].of)'
  <2>1. pc' = [pc EXCEPT ![s] = "post"] /\ sent' = [sent EXCEPT ![s] = NoEntry]
    BY <1>4 DEF Mark, Goto
  <2>2. s # t
    BY <1>1, <2>1
  <2> QED
    BY <1>1, <1>2, <2>1, <2>2
<1>5. CASE sent' = sent /\ \E s \in Threads, to \in Pcs \ {"mark"} : Goto(s, to)
  BY <1>1, <1>2, <1>5 DEF Goto
<1>6. CASE UNCHANGED <<pc, sent>>
  BY <1>2, <1>6
<1> QED
  <2>1. ASSUME NEW d \in Decoders, Decoder(d) PROVE
          \/ UNCHANGED <<pc, sent>>
          \/ sent' = sent /\ \E to \in Pcs \ {"mark"} : Goto(d, to)
    BY <2>1 DEF Decoder, StartDecoder, StoreMessage, StoreBadMessage,
       StoreContact, QueryHash, UpdateGrid, UpdatesDone, EndDecoder,
       UseNetwork, Pcs
  <2>2. ASSUME NEW u \in Uploaders, Uploader(u) \/ UploadClick(u) PROVE
          sent' = sent /\ \E to \in Pcs \ {"mark"} : Goto(u, to)
    BY <2>2 DEF Uploader, Select, SelectNoCallsign, TakeRow, NextRow,
       EndUpload, UploadFails, UploadClick, Pcs
  <2>3. ASSUME NEW s \in Threads, SendDone(s) PROVE
          sent' = sent /\ \E to \in Pcs \ {"mark"} : Goto(s, to)
    BY <2>3 DEF SendDone, Pcs
  <2>4. CASE StartService \/ AbortClick
    BY <1>6, <2>4 DEF StartService, AbortClick
  <2>5. ~Crash
    BY DEF Crash
  <2> QED
    BY <1>3, <1>4, <1>5, <1>6, <2>1, <2>2, <2>3, <2>4, <2>5
       DEF Ordinary, Send, Threads

\* The rows of a cursor are rows there are while the upload runs.
LEMMA RowStep == IInv /\ Ordinary /\ ~torn => RowRefs'
<1> SUFFICES ASSUME IInv, Ordinary, ~torn, NEW u \in Uploaders,
                    Busy(u)', pc'[u] # "select", NEW r \in rows'[u]
             PROVE  Ref(r.id, r.spot)'
  BY DEF RowRefs
<1>1. /\ KeepsRows /\ pc \in [Threads -> Pcs] /\ u \in Threads \ Decoders
      /\ rows \in [Uploaders -> SUBSET Row]
  BY RowsKept, ThreadsAssumption
     DEF IInv, TypeOK, SenderType, UploaderType, Threads
<1>2. CASE Busy(u) /\ pc[u] # "select" /\ r \in rows[u]
  <2>1. Ref(r.id, r.spot)
    BY <1>2 DEF IInv, Links, RowRefs
  <2> QED
    BY <1>1, <2>1, RefsKept
<1>3. CASE Select(u)
  <2>1. PICK c \in Joined : r = [id |-> c, spot |-> contacts[c].spot,
                       band |-> messages[contacts[c].message].band]
    BY <1>1, <1>3 DEF Select
  <2>2. c \in Rows(contacts) /\ contacts' = contacts
    BY <1>3 DEF Joined, Select, tables
  <2> QED
    BY <2>1, <2>2 DEF Ref
<1>4. CASE pc'[u] = pc[u] /\ rows'[u] = rows[u]
  BY <1>2, <1>4 DEF Busy
<1> QED
  <2>1. ASSUME NEW d \in Decoders, Decoder(d)
        PROVE  pc'[u] = pc[u] /\ rows' = rows
    BY <1>1, <2>1 DEF Decoder, StartDecoder, StoreMessage, StoreBadMessage,
       StoreContact, QueryHash, UpdateGrid, UpdatesDone, EndDecoder,
       UseNetwork, Goto, upl
  <2>2. ASSUME NEW v \in Uploaders \ {u}, Uploader(v) \/ UploadClick(v)
        PROVE  pc'[u] = pc[u] /\ rows'[u] = rows[u]
    BY <1>1, <2>2 DEF Uploader, Select, SelectNoCallsign, TakeRow, NextRow,
       EndUpload, UploadFails, UploadClick, Goto, upl
  <2>3. CASE Uploader(u) \/ UploadClick(u)
    BY <1>1, <1>2, <1>3, <2>3 DEF Uploader, SelectNoCallsign, TakeRow, NextRow,
       EndUpload, UploadFails, UploadClick, Goto, Busy, upl
  <2>4. ASSUME NEW t \in Threads, Send(t)
        PROVE  rows' = rows /\ (pc'[u] = pc[u] \/ pc[u] \in {"post", "mark"})
    BY <1>1, <2>4 DEF Send, Post, Mark, SendDone, Goto, upl
  <2>5. CASE StartService \/ AbortClick
    BY <1>4, <2>5 DEF StartService, AbortClick, upl
  <2>6. ~Crash
    BY <1>1 DEF Crash, Busy
  <2> QED
    BY <1>1, <1>2, <1>4, <2>1, <2>2, <2>3, <2>4, <2>5, <2>6
       DEF Ordinary, Busy

\* The message a contact is stored for is there.
LEMMA CurrentStep == IInv /\ Ordinary /\ ~torn => CurrentRefs'
<1> SUFFICES ASSUME IInv, Ordinary, ~torn, NEW d \in Decoders,
                    pc'[d] = "contact"
             PROVE  MessageRef(cur[d].message, cur[d].spot)'
  BY DEF CurrentRefs
<1>1. /\ KeepsRows /\ pc \in [Threads -> Pcs] /\ d \in Threads \ Uploaders
      /\ cur \in [Decoders -> Current] /\ messages \in Seq(Message)
      /\ messages' \in Seq(Message)
  BY RowsKept, TablesStep, NextCases, ThreadsAssumption
     DEF IInv, TypeOK, SenderType, DecoderType, TablesType, Threads
<1>2. CASE pc[d] = "contact" /\ cur'[d] = cur[d]
  <2>1. MessageRef(cur[d].message, cur[d].spot)
    BY <1>2 DEF IInv, Links, CurrentRefs
  <2>2. ASSUME NEW m, m = cur[d] PROVE MessageRef(m.message, m.spot)'
    BY <1>1, <2>1, <2>2, RefsKept
  <2> QED
    BY <1>2, <2>2 DEF MessageRef
<1>3. CASE StoreMessage(d)
  <2>1. PICK k \in Kinds, c \in Calls, ok \in BOOLEAN :
          /\ messages' = IF ~ok THEN messages ELSE Append(messages,
               [session |-> sess[d], band |-> dial[d], spot |-> Len(heard) + 1])
          /\ cur' = [cur EXCEPT ![d] =
               [kind |-> k, call |-> c, spot |-> Len(heard) + 1,
                message |-> IF ok THEN Len(messages) + 1 ELSE NoRow]]
    BY <1>3 DEF StoreMessage
  <2>2. /\ cur'[d].message = IF ok THEN Len(messages) + 1 ELSE NoRow
        /\ cur'[d].spot = Len(heard) + 1
    BY <1>1, <2>1
  <2>3. ok => /\ Len(messages) + 1 \in Rows(messages')
              /\ messages'[Len(messages) + 1].spot = Len(heard) + 1
    BY <1>1, <2>1 DEF Rows
  <2> QED
    BY <2>2, <2>3 DEF MessageRef
<1> QED
  <2>1. ASSUME NEW e \in Decoders \ {d}, Decoder(e)
        PROVE  pc'[d] = pc[d] /\ cur'[d] = cur[d]
    BY <1>1, <2>1 DEF Decoder, StartDecoder, StoreMessage, StoreBadMessage,
       StoreContact, QueryHash, UpdateGrid, UpdatesDone, EndDecoder,
       UseNetwork, Goto, decoding
  <2>2. CASE Decoder(d)
    BY <1>1, <1>2, <1>3, <2>2 DEF Decoder, StartDecoder, StoreBadMessage,
       StoreContact, QueryHash, UpdateGrid, UpdatesDone, EndDecoder,
       UseNetwork, Goto, decoding
  <2>3. ASSUME NEW u \in Uploaders, Uploader(u) \/ UploadClick(u)
        PROVE  pc'[d] = pc[d] /\ cur'[d] = cur[d]
    BY <1>1, <2>3 DEF Uploader, Select, SelectNoCallsign, TakeRow, NextRow,
       EndUpload, UploadFails, UploadClick, Goto, decoding
  <2>4. ASSUME NEW t \in Threads, Send(t)
        PROVE  pc'[d] = pc[d] /\ cur'[d] = cur[d]
    BY <1>1, <2>4 DEF Send, Post, Mark, SendDone, Goto, decoding
  <2>5. CASE StartService \/ AbortClick
    BY <1>2, <2>5 DEF StartService, AbortClick, decoding
  <2>6. ~Crash
    BY <1>1 DEF Crash
  <2> QED
    BY <1>2, <2>1, <2>2, <2>3, <2>4, <2>5, <2>6 DEF Ordinary

\* A new contact is one of the message that is there, and is not marked.
LEMMA NewContact ==
  ASSUME IInv, Ordinary, NEW c \in Rows(contacts'), c \notin Rows(contacts)
  PROVE  \E d \in Decoders :
           /\ pc[d] = "contact" /\ contacts'[c].spot = cur[d].spot
           /\ contacts'[c].message = cur[d].message /\ ~contacts'[c].uploaded
           /\ UNCHANGED <<messages, reports>>
<1>1. contacts \in Seq(Contact)
  BY DEF IInv, TypeOK, TablesType
<1>2. ASSUME NEW d \in Decoders, UpdateGrid(d) PROVE FALSE
  BY <1>1, <1>2, GridTables
<1>3. ASSUME NEW t \in Threads, Mark(t) PROVE FALSE
  BY <1>1, <1>3, MarkTables
<1>4. contacts' # contacts
  OBVIOUS
<1>5. PICK d \in Decoders : StoreContact(d)
  <2>1. ASSUME NEW d \in Decoders, Decoder(d) PROVE StoreContact(d)
    BY <1>2, <1>4, <2>1 DEF Decoder, StartDecoder, StoreMessage,
       StoreBadMessage, QueryHash, UpdatesDone, EndDecoder, tables
  <2>2. ASSUME NEW u \in Uploaders, Uploader(u) \/ UploadClick(u) PROVE FALSE
    BY <1>4, <2>2 DEF Uploader, Select, SelectNoCallsign, TakeRow, NextRow,
       EndUpload, UploadFails, UploadClick, tables
  <2>3. ASSUME NEW t \in Threads, Send(t) PROVE FALSE
    BY <1>3, <1>4, <2>3 DEF Send, Post, SendDone, tables
  <2>4. ~StartService /\ ~AbortClick /\ ~Crash
    BY <1>4 DEF StartService, AbortClick, Crash, tables
  <2> QED
    BY <2>1, <2>2, <2>3, <2>4 DEF Ordinary
<1> DEFINE row == [message |-> cur[d].message, call |-> cur[d].call,
                   level |-> IF cur[d].kind = "type1" THEN 4 ELSE 0,
                   spot |-> cur[d].spot, uploaded |-> FALSE]
<1>6. contacts' = Append(contacts, row)
  BY <1>4, <1>5 DEF StoreContact
<1>7. /\ row.spot = cur[d].spot /\ row.message = cur[d].message
      /\ row.uploaded = FALSE
  OBVIOUS
<1> HIDE DEF row
<1>8. contacts'[c] = row
  BY <1>1, <1>6 DEF Rows
<1> QED
  BY <1>5, <1>7, <1>8 DEF StoreContact

\* Outside of a wipe every contact is one of the message its spot came in.
LEMMA LogStep == IInv /\ Ordinary /\ ~torn /\ ~torn' => LogRefs'
<1> SUFFICES ASSUME IInv, Ordinary, ~torn, ~torn', main' = "idle",
                    NEW c \in Rows(contacts')
             PROVE  MessageRef(contacts[c].message, contacts[c].spot)'
  BY DEF LogRefs
<1>1. KeepsRows
  BY RowsKept DEF IInv
<1>2. main = "idle"
  <2>1. main' = main \/ Crash
    BY DEF Ordinary, Send, Post, Mark, SendDone, Decoder, StartDecoder,
       StoreMessage, StoreBadMessage, StoreContact, QueryHash, UpdateGrid,
       UpdatesDone, EndDecoder, Uploader, Select, SelectNoCallsign, TakeRow,
       NextRow, EndUpload, UploadFails, UploadClick, StartService, AbortClick,
       env
  <2>2. CASE Crash
    <3>1. torn' = (torn \/ main = "wipe")
      BY <2>2 DEF Crash
    <3>2. main # "wipe"
      BY <3>1, Zenon
    <3> QED
      BY <3>2 DEF IInv, TypeOK
  <2> QED
    BY <2>1, <2>2
<1>3. CASE c \in Rows(contacts)
  <2>1. MessageRef(contacts[c].message, contacts[c].spot)
    BY <1>2, <1>3 DEF IInv, Links, LogRefs
  <2> QED
    BY <1>1, <1>3, <2>1 DEF KeepsRows, MessageRef
<1>4. CASE c \notin Rows(contacts)
  <2>1. PICK d \in Decoders :
          /\ pc[d] = "contact" /\ contacts'[c].spot = cur[d].spot
          /\ contacts'[c].message = cur[d].message /\ messages' = messages
    BY <1>4, NewContact
  <2>2. MessageRef(cur[d].message, cur[d].spot)
    BY <2>1 DEF IInv, Links, CurrentRefs
  <2> QED
    BY <2>1, <2>2 DEF MessageRef
<1> QED
  BY <1>3, <1>4

\* Only a row whose spot a report names is marked.
LEMMA ReportedStep == IInv /\ Ordinary /\ ~torn => MarksNamed'
<1> SUFFICES ASSUME IInv, Ordinary, ~torn,
                    NEW c \in Rows(contacts'), contacts'[c].uploaded
             PROVE  Named(contacts[c].spot)'
  BY DEF MarksNamed
<1>1. KeepsRows /\ contacts \in Seq(Contact)
  BY RowsKept DEF IInv, TypeOK, TablesType
<1>2. c \in Rows(contacts)
  BY NewContact
<1>3. CASE contacts[c].uploaded
  <2>1. Named(contacts[c].spot)
    BY <1>2, <1>3 DEF IInv, Links, MarksNamed
  <2> QED
    BY <1>1, <1>2, <2>1 DEF KeepsRows, Named
<1>4. ASSUME NEW t \in Threads, Mark(t) PROVE Named(contacts[c].spot)'
  <2>1. contacts[c].uploaded \/ c = sent[t].id
    BY <1>1, <1>2, <1>4, MarkTables
  <2>2. CASE c = sent[t].id
    <3>1. Ref(sent[t].id, sent[t].of) /\ Named(sent[t].of)
      BY <1>4 DEF IInv, Links, SentRefs, Mark
    <3>2. c # NoRow
      BY <1>1, <1>2 DEF Rows, NoRow
    <3>3. contacts[c].spot = sent[t].of
      BY <2>2, <3>1, <3>2 DEF Ref
    <3> QED
      BY <1>1, <1>2, <3>1, <3>3 DEF KeepsRows, Named
  <2> QED
    BY <1>3, <2>1, <2>2
<1>5. ASSUME NEW d \in Decoders, UpdateGrid(d)
      PROVE  contacts'[c].uploaded = contacts[c].uploaded
  BY <1>1, <1>2, <1>5, GridTables
<1>6. ASSUME NEW d \in Decoders, StoreContact(d)
      PROVE  contacts'[c] = contacts[c]
  <2>1. contacts' = contacts \/ \E e : contacts' = Append(contacts, e)
    BY <1>6 DEF StoreContact
  <2> QED
    BY <1>1, <1>2, <2>1 DEF Rows
<1> QED
  <2>1. ASSUME NEW d \in Decoders, Decoder(d)
        PROVE  contacts'[c].uploaded = contacts[c].uploaded
    BY <1>5, <1>6, <2>1 DEF Decoder, StartDecoder, StoreMessage,
       StoreBadMessage, QueryHash, UpdatesDone, EndDecoder, tables
  <2>2. ASSUME NEW u \in Uploaders, Uploader(u) \/ UploadClick(u)
        PROVE  contacts' = contacts
    BY <2>2 DEF Uploader, Select, SelectNoCallsign, TakeRow, NextRow,
       EndUpload, UploadFails, UploadClick, tables
  <2>3. ASSUME NEW t \in Threads, Post(t) \/ SendDone(t)
        PROVE  contacts' = contacts
    BY <2>3 DEF Post, SendDone, tables
  <2>4. CASE StartService \/ AbortClick \/ Crash
    BY <1>3, <2>4 DEF StartService, AbortClick, Crash, tables
  <2> QED
    BY <1>3, <1>4, <2>1, <2>2, <2>3, <2>4 DEF Ordinary, Send

-----------------------------------------------------------------------------
(* The theorems.                                                           *)

\* A torn wipe stays torn.
LEMMA TornStep == TypeOK /\ [Next]_vars /\ ~torn' => ~torn
<1> SUFFICES ASSUME [Next]_vars, ~torn' PROVE ~torn
  OBVIOUS
<1>1. \/ torn' = torn \/ \E d \in Decoders : StartDecoder(d)
      \/ WipeMessages \/ Crash
  BY DEF Next, Main, Send, Post, Mark, SendDone, Decoder, StoreMessage,
     StoreBadMessage, StoreContact, QueryHash, UpdateGrid, UpdatesDone,
     EndDecoder, Uploader, Select, SelectNoCallsign, TakeRow, NextRow,
     EndUpload, UploadFails, UploadClick, StartService, AbortClick,
     WipeContacts, env, vars
<1>2. ASSUME NEW d \in Decoders, StartDecoder(d) PROVE ~torn
  <2>1. torn' = (torn \/ main = "wipe")
    BY <1>2 DEF StartDecoder
  <2> QED
    BY <2>1, Zenon
<1>3. CASE WipeMessages
  <2>1. torn' = (torn \/ \E t \in Threads : Busy(t))
    BY <1>3 DEF WipeMessages
  <2> QED
    BY <2>1, Zenon
<1>4. CASE Crash
  <2>1. torn' = (torn \/ main = "wipe")
    BY <1>4 DEF Crash
  <2> QED
    BY <2>1, Zenon
<1> QED
  BY <1>1, <1>2, <1>3, <1>4

LEMMA LinksStep == IInv /\ [Next]_vars => IInv'
<1> SUFFICES ASSUME IInv, [Next]_vars PROVE IInv'
  OBVIOUS
<1>1. TypeOK'
  BY TablesStep, SenderStep, DecoderStep, UploaderStep, MainStep
     DEF IInv, TypeOK
<1>2. QuietSenders'
  BY QuietStep DEF IInv
<1>3. ASSUME ~torn' PROVE Links'
  <2>1. ~torn
    BY <1>3, TornStep DEF IInv
  <2>2. CASE Ordinary
    BY <1>3, <2>1, <2>2, WipingStep, QueueStep, SentStep, RowStep, CurrentStep,
       LogStep, ReportedStep DEF Links
  <2>3. CASE WipeMessages \/ WipeContacts
    BY <1>3, <2>3, WipeLinks
  <2>4. CASE UNCHANGED vars
    <3>1. Links
      BY <2>1 DEF IInv
    <3> QED
      BY <2>4, <3>1 DEF vars, tables, decoding, upl, env, Links, Wiping,
         QueueRefs, SentRefs, RowRefs, CurrentRefs, LogRefs,
         MarksNamed, Named, Ref, MessageRef, Busy, Rows
  <2> QED
    BY <2>2, <2>3, <2>4, NextCases
<1> QED
  BY <1>1, <1>2, <1>3 DEF IInv

LEMMA Invariance == Spec => []IInv
BY LinksInit, LinksStep, PTL DEF Spec

\* The join by row ids finds the message of the very contact.
LEMMA JoinsTruly == IInv => LogTrueUnlessTorn
<1> SUFFICES ASSUME IInv, ~torn, NEW c \in Joined
             PROVE  messages[contacts[c].message].spot = contacts[c].spot
  BY DEF LogTrueUnlessTorn, LogTrue
<1>1. /\ c \in Rows(contacts) /\ contacts[c].message \in Rows(messages)
      /\ messages \in Seq(Message)
  BY DEF Joined, IInv, TypeOK, TablesType
<1>2. main = "idle"
  BY <1>1 DEF IInv, Links, Wiping, TypeOK, Rows
<1>3. contacts[c].message # NoRow
  BY <1>1 DEF Rows, NoRow
<1> QED
  BY <1>1, <1>2, <1>3 DEF IInv, Links, LogRefs, MessageRef

\* Unless a wipe is torn, each log entry joins the message it came in, for any
\* number of decoders and uploads and whatever inserts fail.
THEOREM LogJoinsTruly == Spec => []LogTrueUnlessTorn
BY JoinsTruly, Invariance, PTL
===============================================================================
