--------------------------- MODULE SpotSessionProofs ---------------------------
(***************************************************************************)
(* That a late locator reaches only contacts of its own session and hash   *)
(* (GridFromOwnSession of SpotStore), that an upload that runs to its end  *)
(* leaves no row of a known band unmarked (UploadComplete), that only what *)
(* was reported is marked (ReportedUnlessTorn), and that tables and        *)
(* reports refine SpotLedger, wipes included (LedgerKept): for any number  *)
(* of threads, sessions and faults.  All rest on the links of              *)
(* SpotStoreProofs; a decoder finds the session of a contact by way of the *)
(* message row.                                                            *)
(***************************************************************************)
EXTENDS SpotStoreProofs

\* What was heard in a spot a row or a thread speaks of.
MessagesHeard ==
  \A m \in Rows(messages) :
    /\ messages[m].spot \in Rows(heard)
    /\ heard[messages[m].spot].session = messages[m].session
ContactsHeard ==
  \A c \in Rows(contacts) : /\ contacts[c].spot \in Rows(heard)
                            /\ heard[contacts[c].spot].kind \in {"type1", "type2"}
                            /\ heard[contacts[c].spot].call = contacts[c].call
CurrentHeard ==
  \A d \in Decoders : pc[d] \in {"contact", "query", "update"} =>
    /\ cur[d].spot \in Rows(heard) /\ heard[cur[d].spot].session = sess[d]
    /\ heard[cur[d].spot].call = cur[d].call
    /\ IF pc[d] = "contact" THEN heard[cur[d].spot].kind \in {"type1", "type2"}
       ELSE heard[cur[d].spot].kind = "type3"

\* The contacts a decoder is about to update.
FixOwn ==
  \A d \in Decoders : pc[d] = "update" =>
    \A c \in fix[d] : /\ c \in Rows(contacts)
                      /\ heard[contacts[c].spot].session = sess[d]
                      /\ Hash[contacts[c].call] = Hash[cur[d].call]

\* A contact has the locator of its own session and hash, if it has a late one.
Own(c) ==
  contacts[c].level = 6 =>
    \E h \in Rows(heard) :
      /\ heard[h].kind = "type3"
      /\ heard[h].session = heard[contacts[c].spot].session
      /\ Hash[heard[h].call] = Hash[contacts[c].call]

SInv ==
  /\ MessagesHeard /\ ContactsHeard /\ CurrentHeard
  /\ ~torn => FixOwn /\ \A c \in Rows(contacts) : Own(c)

-----------------------------------------------------------------------------
(* What the steps do.                                                      *)

\* Receptions are numbered for good.
KeepsHeard ==
  /\ Rows(heard) \subseteq Rows(heard')
  /\ \A s \in Rows(heard) : heard'[s] = heard[s]

Stores(d) ==
  \E spot \in Spot, ok \in BOOLEAN :
    /\ spot.session = sess[d]
    /\ heard' = Append(heard, spot)
    /\ messages' = IF ~ok THEN messages ELSE
         Append(messages, [session |-> sess[d], band |-> dial[d], spot |-> Len(heard) + 1])

LEMMA StoreStores ==
  ASSUME TypeOK, NEW d \in Decoders, StoreMessage(d) \/ StoreBadMessage(d)
  PROVE  Stores(d)
<1>1. sess[d] \in Nat /\ dial[d] \in Bands
  BY DEF TypeOK, DecoderType
<1>2. CASE StoreMessage(d)
  <2>1. PICK k \in Kinds, c \in Calls, ok \in BOOLEAN :
          /\ heard' = Append(heard, [kind |-> k, call |-> c,
                                     session |-> sess[d], band |-> dial[d]])
          /\ messages' = IF ~ok THEN messages ELSE Append(messages,
               [session |-> sess[d], band |-> dial[d], spot |-> Len(heard) + 1])
    BY <1>2 DEF StoreMessage
  <2> DEFINE s == [kind |-> k, call |-> c, session |-> sess[d], band |-> dial[d]]
  <2>2. s \in Spot /\ s.session = sess[d]
    BY <1>1, <2>1, RecordTypes
  <2> HIDE DEF s
  <2> QED BY <2>1, <2>2 DEF Stores, s
<1>3. CASE StoreBadMessage(d)
  <2>1. PICK ok \in BOOLEAN :
          messages' = IF ~ok THEN messages ELSE Append(messages,
            [session |-> sess[d], band |-> dial[d], spot |-> Len(heard) + 1])
    BY <1>3 DEF StoreBadMessage
  <2> DEFINE s == [kind |-> "bad", call |-> NoMessage.call,
                   session |-> sess[d], band |-> dial[d]]
  <2>2. s \in Spot /\ s.session = sess[d]
    BY <1>1, RecordTypes DEF Kinds
  <2>3. heard' = Append(heard, s)
    BY <1>3 DEF StoreBadMessage
  <2> HIDE DEF s
  <2> QED BY <2>1, <2>2, <2>3 DEF Stores
<1> QED BY <1>2, <1>3

LEMMA HeardCases ==
  ASSUME TypeOK, [Next]_vars
  PROVE  \/ \E d \in Decoders : Stores(d)
         \/ heard' = heard /\ messages' \in {messages, <<>>}
<1>1. ASSUME NEW d \in Decoders, Decoder(d)
      PROVE  Stores(d) \/ (heard' = heard /\ messages' = messages)
  BY <1>1, StoreStores DEF Decoder, StartDecoder, StoreContact, QueryHash, UpdateGrid,
     UpdatesDone, EndDecoder, tables
<1>2. ASSUME NEW u \in Uploaders, Uploader(u) \/ UploadClick(u)
      PROVE  heard' = heard /\ messages' = messages
  BY <1>2 DEF Uploader, Select, SelectNoCallsign, TakeRow, NextRow,
     EndUpload, UploadFails, UploadClick, tables
<1>3. ASSUME NEW t \in Threads, Send(t) PROVE heard' = heard /\ messages' = messages
  BY <1>3 DEF Send, Post, Mark, SendDone, tables
<1>4. CASE StartService \/ AbortClick \/ WipeContacts \/ Crash
  BY <1>4 DEF StartService, AbortClick, WipeContacts, Crash, tables
<1>5. CASE WipeMessages
  BY <1>5 DEF WipeMessages
<1>6. CASE UNCHANGED vars
  BY <1>6 DEF vars, tables
<1> QED BY <1>1, <1>2, <1>3, <1>4, <1>5, <1>6 DEF Next, Main

LEMMA HeardKept ==
  ASSUME TypeOK, [Next]_vars
  PROVE  KeepsHeard
<1>1. heard \in Seq(Spot)
  BY DEF TypeOK, TablesType
<1>2. ASSUME NEW d \in Decoders, Stores(d) PROVE KeepsHeard
  <2>1. PICK s \in Spot : heard' = Append(heard, s)
    BY <1>2 DEF Stores
  <2>2. /\ Rows(Append(heard, s)) = Rows(heard) \cup {Len(heard) + 1}
        /\ \A i \in Rows(heard) : Append(heard, s)[i] = heard[i]
    BY <1>1, <2>1 DEF Rows
  <2> QED BY <2>1, <2>2 DEF KeepsHeard
<1> QED BY <1>2, HeardCases DEF KeepsHeard

LEMMA MessagesHeardStep ==
  ASSUME TypeOK, MessagesHeard, [Next]_vars
  PROVE  MessagesHeard'
<1>1. heard \in Seq(Spot) /\ messages \in Seq(Message)
  BY DEF TypeOK, TablesType
<1>2. ASSUME NEW d \in Decoders, Stores(d) PROVE MessagesHeard'
  <2>1. sess[d] \in Nat /\ dial[d] \in Bands /\ Len(heard) + 1 \in Nat
    BY <1>1, RowTypes DEF TypeOK, DecoderType
  <2> DEFINE row == [session |-> sess[d], band |-> dial[d], spot |-> Len(heard) + 1]
  <2>2. row \in Message /\ row.session = sess[d] /\ row.spot = Len(heard) + 1
    BY <2>1, RecordTypes
  <2> HIDE DEF row
  <2>3. PICK s \in Spot, ok \in BOOLEAN :
          /\ s.session = sess[d] /\ heard' = Append(heard, s)
          /\ messages' = IF ~ok THEN messages ELSE Append(messages, row)
    BY <1>2 DEF Stores, row
  <2>4. /\ Rows(heard') = Rows(heard) \cup {Len(heard) + 1}
        /\ \A i \in Rows(heard) : heard'[i] = heard[i]
        /\ heard'[Len(heard) + 1] = s
    <3>1. /\ Rows(Append(heard, s)) = Rows(heard) \cup {Len(heard) + 1}
          /\ \A i \in Rows(heard) : Append(heard, s)[i] = heard[i]
          /\ Append(heard, s)[Len(heard) + 1] = s
      BY <1>1, <2>3 DEF Rows
    <3> QED BY <2>3, <3>1
  <2>5. CASE ~ok
    BY <2>3, <2>4, <2>5 DEF MessagesHeard
  <2>6. CASE ok
    <3>1. /\ Rows(Append(messages, row)) = Rows(messages) \cup {Len(messages) + 1}
          /\ \A i \in Rows(messages) : Append(messages, row)[i] = messages[i]
          /\ Append(messages, row)[Len(messages) + 1] = row
      BY <1>1, <2>2 DEF Rows
    <3>2. messages' = Append(messages, row)
      BY <2>3, <2>6
    <3> SUFFICES ASSUME NEW m \in Rows(messages')
                 PROVE  /\ messages'[m].spot \in Rows(heard')
                        /\ heard'[messages'[m].spot].session = messages'[m].session
      BY DEF MessagesHeard
    <3>3. CASE m \in Rows(messages)
      <4>1. messages'[m] = messages[m]
        BY <3>1, <3>2, <3>3
      <4>2. /\ messages[m].spot \in Rows(heard)
            /\ heard[messages[m].spot].session = messages[m].session
        BY <3>3 DEF MessagesHeard
      <4> QED BY <2>4, <4>1, <4>2
    <3>4. CASE m = Len(messages) + 1
      BY <2>2, <2>3, <2>4, <3>1, <3>2, <3>4
    <3> QED BY <3>1, <3>2, <3>3, <3>4
  <2> QED BY <2>5, <2>6
<1>3. CASE heard' = heard /\ messages' \in {messages, <<>>}
  BY <1>3 DEF MessagesHeard, Rows
<1> QED BY <1>2, <1>3, HeardCases

\* What a step makes of a contact: it stays but for its mark, it gets its late
\* locator from a decoder that was about to, or it is a new one.
Same(c) ==
  /\ c \in Rows(contacts)
  /\ contacts'[c].spot = contacts[c].spot /\ contacts'[c].call = contacts[c].call
Located(c) == \E d \in Decoders : pc[d] = "update" /\ c \in fix[d]
Added(c) ==
  /\ c \notin Rows(contacts)
  /\ \E d \in Decoders : /\ pc[d] = "contact" /\ contacts'[c].spot = cur[d].spot
                         /\ contacts'[c].call = cur[d].call
                         /\ contacts'[c].level # 6
RowsChange ==
  \A c \in Rows(contacts') :
    \/ Same(c) /\ (contacts'[c].level = contacts[c].level \/ Located(c))
    \/ Added(c)

LEMMA SetRow ==
  ASSUME contacts \in Seq(Contact), NEW k \in Rows(contacts), NEW e,
         contacts' = [contacts EXCEPT ![k] = e],
         e.spot = contacts[k].spot, e.call = contacts[k].call
  PROVE  /\ Rows(contacts') = Rows(contacts) /\ \A c \in Rows(contacts) : Same(c)
         /\ \A c \in Rows(contacts) \ {k} : contacts'[c].level = contacts[c].level
         /\ contacts'[k].level = e.level
<1>1. /\ DOMAIN contacts = Rows(contacts) /\ contacts'[k] = e
      /\ \A c \in Rows(contacts) \ {k} : contacts'[c] = contacts[c]
  BY DEF Rows
<1>2. Rows(contacts') = Rows(contacts)
  BY DEF Rows
<1> QED BY <1>1, <1>2 DEF Same

LEMMA ContactFields ==
  ASSUME NEW c \in Contact
  PROVE  /\ [c EXCEPT !.level = 6].spot = c.spot /\ [c EXCEPT !.level = 6].call = c.call
         /\ [c EXCEPT !.uploaded = TRUE].spot = c.spot
         /\ [c EXCEPT !.uploaded = TRUE].call = c.call
         /\ [c EXCEPT !.uploaded = TRUE].level = c.level
BY DEF Contact

LEMMA RowsChanged ==
  ASSUME TypeOK, [Next]_vars
  PROVE  RowsChange
<1>1. contacts \in Seq(Contact) /\ \A c \in Rows(contacts) : contacts[c] \in Contact
  BY RowTypes DEF TypeOK, TablesType
<1>2. CASE contacts' = contacts \/ contacts' = <<>>
  BY <1>2 DEF RowsChange, Same, Rows
<1>3. ASSUME NEW t \in Threads, Mark(t) PROVE RowsChange
  <2> DEFINE k == sent[t].id
  <2>1. PICK ok \in BOOLEAN :
          contacts' = IF ok /\ k \in Rows(contacts)
                      THEN [contacts EXCEPT ![k].uploaded = TRUE] ELSE contacts
    BY <1>3 DEF Mark
  <2> HIDE DEF k
  <2>2. CASE ok /\ k \in Rows(contacts)
    <3> DEFINE e == [contacts[k] EXCEPT !.uploaded = TRUE]
    <3>1. /\ e.spot = contacts[k].spot /\ e.call = contacts[k].call
          /\ e.level = contacts[k].level
      BY <1>1, <2>2, ContactFields
    <3>2. contacts' = [contacts EXCEPT ![k] = e]
      BY <2>1, <2>2
    <3> HIDE DEF e
    <3>3. /\ Rows(contacts') = Rows(contacts) /\ \A c \in Rows(contacts) : Same(c)
          /\ \A c \in Rows(contacts) \ {k} : contacts'[c].level = contacts[c].level
          /\ contacts'[k].level = e.level
      BY <1>1, <2>2, <3>1, <3>2, SetRow
    <3>4. \A c \in Rows(contacts') : Same(c) /\ contacts'[c].level = contacts[c].level
      BY <3>1, <3>3
    <3> QED BY <3>4 DEF RowsChange
  <2> QED BY <1>2, <2>1, <2>2
<1>4. ASSUME NEW d \in Decoders, UpdateGrid(d) PROVE RowsChange
  <2>1. PICK k \in fix[d] :
          contacts' = IF k \in Rows(contacts)
                      THEN [contacts EXCEPT ![k].level = 6] ELSE contacts
    BY <1>4 DEF UpdateGrid
  <2>2. CASE k \in Rows(contacts)
    <3> DEFINE e == [contacts[k] EXCEPT !.level = 6]
    <3>1. e.spot = contacts[k].spot /\ e.call = contacts[k].call
      BY <1>1, <2>2, ContactFields
    <3>2. contacts' = [contacts EXCEPT ![k] = e]
      BY <2>1, <2>2
    <3>3. Located(k)
      BY <1>4, <2>1 DEF UpdateGrid, Located
    <3> HIDE DEF e
    <3> QED BY <1>1, <2>2, <3>1, <3>2, <3>3, SetRow DEF RowsChange
  <2> QED BY <1>2, <2>1, <2>2
<1>5. ASSUME NEW d \in Decoders, StoreContact(d) PROVE RowsChange
  <2> DEFINE row == [message |-> cur[d].message, call |-> cur[d].call,
                     level |-> IF cur[d].kind = "type1" THEN 4 ELSE 0,
                     spot |-> cur[d].spot, uploaded |-> FALSE]
  <2>1. contacts' = contacts \/ contacts' = Append(contacts, row)
    BY <1>5 DEF StoreContact
  <2>2. /\ row.spot = cur[d].spot /\ row.call = cur[d].call /\ row.level # 6
        /\ pc[d] = "contact"
    BY <1>5 DEF StoreContact
  <2> HIDE DEF row
  <2>3. CASE contacts' = Append(contacts, row)
    <3>1. /\ Rows(contacts') = Rows(contacts) \cup {Len(contacts) + 1}
          /\ \A c \in Rows(contacts) : contacts'[c] = contacts[c]
          /\ contacts'[Len(contacts) + 1] = row
          /\ Len(contacts) + 1 \notin Rows(contacts)
      BY <1>1, <2>3 DEF Rows
    <3>2. Added(Len(contacts) + 1)
      BY <2>2, <3>1 DEF Added
    <3> QED BY <3>1, <3>2 DEF RowsChange, Same
  <2> QED BY <1>2, <2>1, <2>3
<1>6. ASSUME NEW d \in Decoders, Decoder(d) PROVE RowsChange
  BY <1>2, <1>4, <1>5, <1>6 DEF Decoder, StartDecoder, StoreMessage, StoreBadMessage,
     QueryHash, UpdatesDone, EndDecoder, tables
<1>7. ASSUME NEW u \in Uploaders, Uploader(u) \/ UploadClick(u) PROVE RowsChange
  BY <1>2, <1>7 DEF Uploader, Select, SelectNoCallsign, TakeRow, NextRow,
     EndUpload, UploadFails, UploadClick, tables
<1>8. ASSUME NEW t \in Threads, Send(t) PROVE RowsChange
  BY <1>2, <1>3, <1>8 DEF Send, Post, SendDone, tables
<1>9. CASE StartService \/ AbortClick \/ WipeMessages \/ WipeContacts \/ Crash
          \/ UNCHANGED vars
  BY <1>2, <1>9 DEF StartService, AbortClick, WipeMessages, WipeContacts, Crash,
     tables, vars
<1> QED BY <1>6, <1>7, <1>8, <1>9 DEF Next, Main

\* What a step makes of a decoder between storing and updating.
Storing(d) == pc[d] \in {"contact", "query", "update"}
LEMMA DecoderFrame ==
  ASSUME TypeOK, [Next]_vars, NEW d \in Decoders, Storing(d)'
  PROVE  \/ StoreMessage(d) \/ QueryHash(d) \/ UpdateGrid(d)
         \/ /\ pc'[d] = pc[d] /\ cur'[d] = cur[d]
            /\ sess'[d] = sess[d] /\ fix'[d] = fix[d]
<1> DEFINE Frame == /\ pc'[d] = pc[d] /\ cur'[d] = cur[d]
                    /\ sess'[d] = sess[d] /\ fix'[d] = fix[d]
<1>1. /\ pc \in [Threads -> Pcs] /\ d \in Threads \ Uploaders
      /\ cur \in [Decoders -> Current] /\ sess \in [Decoders -> Nat]
      /\ fix \in [Decoders -> SUBSET Nat]
  BY ThreadsAssumption DEF TypeOK, SenderType, DecoderType, Threads
<1>2. ASSUME NEW e \in Decoders \ {d}, Decoder(e) PROVE Frame
  BY <1>1, <1>2 DEF Decoder, StartDecoder, StoreMessage, StoreBadMessage,
     StoreContact, QueryHash, UpdateGrid, UpdatesDone, EndDecoder,
     UseNetwork, Goto, decoding
<1>3. CASE StartDecoder(d) \/ StoreBadMessage(d) \/ StoreContact(d)
           \/ UpdatesDone(d) \/ EndDecoder(d)
  BY <1>1, <1>3 DEF StartDecoder, StoreBadMessage, StoreContact, UpdatesDone,
     EndDecoder, UseNetwork, Goto, Storing
<1>4. ASSUME NEW u \in Uploaders, Uploader(u) \/ UploadClick(u) PROVE Frame
  BY <1>1, <1>4 DEF Uploader, Select, SelectNoCallsign, TakeRow, NextRow,
     EndUpload, UploadFails, UploadClick, Goto, decoding
<1>5. ASSUME NEW t \in Threads, Send(t) PROVE Frame
  BY <1>1, <1>5 DEF Send, Post, Mark, SendDone, Goto, decoding, Storing
<1>6. CASE StartService \/ AbortClick \/ WipeMessages \/ WipeContacts \/ UNCHANGED vars
  BY <1>6 DEF StartService, AbortClick, WipeMessages, WipeContacts, vars, decoding
<1>7. ~Crash
  BY <1>1 DEF Crash, Storing
<1> QED BY <1>2, <1>3, <1>4, <1>5, <1>6, <1>7 DEF Next, Main, Decoder

-----------------------------------------------------------------------------
(* The invariant.                                                          *)

LEMMA CurrentHeardStep ==
  ASSUME TypeOK, CurrentHeard, [Next]_vars
  PROVE  CurrentHeard'
<1> SUFFICES ASSUME NEW d \in Decoders, Storing(d)'
             PROVE  /\ cur'[d].spot \in Rows(heard')
                    /\ heard'[cur'[d].spot].session = sess'[d]
                    /\ heard'[cur'[d].spot].call = cur'[d].call
                    /\ IF pc'[d] = "contact"
                       THEN heard'[cur'[d].spot].kind \in {"type1", "type2"}
                       ELSE heard'[cur'[d].spot].kind = "type3"
  BY DEF CurrentHeard, Storing
<1>1. KeepsHeard
  BY HeardKept
<1>2. /\ pc \in [Threads -> Pcs] /\ d \in Threads /\ heard \in Seq(Spot)
      /\ cur \in [Decoders -> Current] /\ sess \in [Decoders -> Nat]
  BY DEF TypeOK, SenderType, DecoderType, TablesType, Threads
<1>3. CASE pc'[d] = pc[d] /\ cur'[d] = cur[d] /\ sess'[d] = sess[d]
  BY <1>1, <1>3 DEF CurrentHeard, KeepsHeard, Storing
<1>4. CASE QueryHash(d)
  <2>1. /\ pc[d] = "query" /\ pc'[d] = "update" /\ cur' = cur /\ sess' = sess
    BY <1>2, <1>4 DEF QueryHash, Goto
  <2> QED BY <1>1, <2>1 DEF CurrentHeard, KeepsHeard
<1>5. CASE UpdateGrid(d)
  BY <1>3, <1>5 DEF UpdateGrid
<1>6. CASE StoreMessage(d)
  <2>1. PICK k \in Kinds \ {"bad"}, c \in Calls, ok \in BOOLEAN :
          /\ heard' = Append(heard, [kind |-> k, call |-> c,
                                     session |-> sess[d], band |-> dial[d]])
          /\ cur' = [cur EXCEPT ![d] =
               [kind |-> k, call |-> c, spot |-> Len(heard) + 1,
                message |-> IF ok THEN Len(messages) + 1 ELSE NoRow]]
          /\ pc' = [pc EXCEPT ![d] = IF k = "type3" THEN "query" ELSE "contact"]
    BY <1>6 DEF StoreMessage, Goto
  <2> DEFINE s == [kind |-> k, call |-> c, session |-> sess[d], band |-> dial[d]]
  <2>2. s.kind = k /\ s.call = c /\ s.session = sess[d]
    OBVIOUS
  <2>3. heard' = Append(heard, s)
    BY <2>1
  <2> HIDE DEF s
  <2>4. Len(heard) + 1 \in Rows(heard') /\ heard'[Len(heard) + 1] = s
    BY <1>2, <2>3 DEF Rows
  <2>5. /\ cur'[d].spot = Len(heard) + 1 /\ cur'[d].call = c
        /\ pc'[d] = IF k = "type3" THEN "query" ELSE "contact"
    BY <1>2, <2>1
  <2>6. sess' = sess
    BY <1>6 DEF StoreMessage
  <2>7. k \in {"type1", "type2", "type3"}
    BY DEF Kinds
  <2> QED BY <2>2, <2>4, <2>5, <2>6, <2>7
<1> QED BY <1>3, <1>4, <1>5, <1>6, DecoderFrame

LEMMA ContactsHeardStep ==
  ASSUME TypeOK, CurrentHeard, ContactsHeard, [Next]_vars
  PROVE  ContactsHeard'
<1> SUFFICES ASSUME NEW c \in Rows(contacts')
             PROVE  /\ contacts'[c].spot \in Rows(heard')
                    /\ heard'[contacts'[c].spot].kind \in {"type1", "type2"}
                    /\ heard'[contacts'[c].spot].call = contacts'[c].call
  BY DEF ContactsHeard
<1>1. KeepsHeard /\ (Same(c) \/ Added(c))
  BY HeardKept, RowsChanged DEF RowsChange
<1> QED BY <1>1 DEF KeepsHeard, Same, Added, ContactsHeard, CurrentHeard

\* A decoder that updates is at work: no wipe is under way, so rows stay.
LEMMA UpdatingKeepsRows ==
  ASSUME IInv, [Next]_vars, ~torn, ~torn', NEW d \in Decoders, pc[d] = "update"
  PROVE  Rows(contacts) \subseteq Rows(contacts')
<1>1. d \in Threads /\ Busy(d) /\ main # "wipe"
  BY DEF IInv, Links, Wiping, Busy, Threads
<1>2. ~WipeContacts
  BY <1>1 DEF WipeContacts
<1>3. ~WipeMessages
  <2>1. WipeMessages => torn' = (torn \/ \E t \in Threads : Busy(t))
    BY DEF WipeMessages
  <2> QED BY <1>1, <2>1, Zenon
<1>4. CASE Ordinary
  BY <1>4, RowsKept DEF IInv, KeepsRows, Rows
<1>5. CASE UNCHANGED vars
  BY <1>5 DEF vars, tables, Rows
<1> QED BY <1>2, <1>3, <1>4, <1>5, NextCases

LEMMA FixOwnStep ==
  ASSUME IInv, SInv, [Next]_vars, ~torn, ~torn'
  PROVE  FixOwn'
<1> SUFFICES ASSUME NEW d \in Decoders, pc'[d] = "update", NEW c \in fix'[d]
             PROVE  /\ c \in Rows(contacts')
                    /\ heard'[contacts'[c].spot].session = sess'[d]
                    /\ Hash[contacts'[c].call] = Hash[cur'[d].call]
  BY DEF FixOwn
<1>1. TypeOK /\ KeepsHeard /\ RowsChange /\ FixOwn /\ ContactsHeard /\ MessagesHeard
  BY HeardKept, RowsChanged DEF IInv, SInv
<1>2. fix \in [Decoders -> SUBSET Nat] /\ pc \in [Threads -> Pcs] /\ d \in Threads
  BY <1>1 DEF TypeOK, DecoderType, SenderType, Threads
<1>3. ASSUME pc[d] = "update", cur'[d] = cur[d], sess'[d] = sess[d], c \in fix[d]
      PROVE  /\ c \in Rows(contacts')
             /\ heard'[contacts'[c].spot].session = sess'[d]
             /\ Hash[contacts'[c].call] = Hash[cur'[d].call]
  <2>1. /\ c \in Rows(contacts) /\ heard[contacts[c].spot].session = sess[d]
        /\ Hash[contacts[c].call] = Hash[cur[d].call]
        /\ contacts[c].spot \in Rows(heard)
    BY <1>1, <1>3 DEF FixOwn, ContactsHeard
  <2>2. c \in Rows(contacts')
    BY <1>3, <2>1, UpdatingKeepsRows
  <2>3. Same(c)
    BY <1>1, <2>1, <2>2 DEF RowsChange, Added
  <2> QED BY <1>1, <1>3, <2>1, <2>2, <2>3 DEF Same, KeepsHeard
<1>4. CASE QueryHash(d)
  <2>1. /\ contacts' = contacts /\ heard' = heard /\ cur' = cur /\ sess' = sess
        /\ c \in Matches(d)
    BY <1>2, <1>4 DEF QueryHash, tables
  <2>2. /\ c \in Joined /\ messages[contacts[c].message].session = sess[d]
        /\ Hash[contacts[c].call] = Hash[cur[d].call]
    BY <2>1 DEF Matches
  <2>3. /\ c \in Rows(contacts) /\ contacts[c].message \in Rows(messages)
        /\ messages[contacts[c].message].spot = contacts[c].spot
    BY <2>2, JoinsTruly DEF Joined, LogTrue, LogTrueUnlessTorn
  <2> QED BY <1>1, <2>1, <2>2, <2>3 DEF MessagesHeard
<1>5. CASE UpdateGrid(d)
  <2>1. /\ pc[d] = "update" /\ cur' = cur /\ sess' = sess /\ c \in fix[d]
    BY <1>2, <1>5 DEF UpdateGrid
  <2> QED BY <1>3, <2>1
<1>6. ~StoreMessage(d)
  BY <1>2 DEF StoreMessage, Goto
<1> QED BY <1>1, <1>3, <1>4, <1>5, <1>6, DecoderFrame DEF Storing

\* An update by hash meets the hash and the session of the message it is for.
LEMMA OwnStep ==
  ASSUME IInv, SInv, [Next]_vars, ~torn, NEW c \in Rows(contacts')
  PROVE  Own(c)'
<1>1. /\ KeepsHeard /\ RowsChange /\ FixOwn /\ ContactsHeard /\ CurrentHeard
      /\ \A k \in Rows(contacts) : Own(k)
  BY HeardKept, RowsChanged DEF IInv, SInv
<1>2. CASE Added(c)
  BY <1>2 DEF Added, Own
<1>3. CASE Same(c) /\ contacts'[c].level = contacts[c].level
  <2>1. Own(c) /\ contacts[c].spot \in Rows(heard)
    BY <1>1, <1>3 DEF Same, ContactsHeard
  <2> QED BY <1>1, <1>3, <2>1 DEF Same, Own, KeepsHeard
<1>4. CASE Same(c) /\ Located(c)
  <2>1. PICK d \in Decoders : pc[d] = "update" /\ c \in fix[d]
    BY <1>4 DEF Located
  <2>2. /\ cur[d].spot \in Rows(heard) /\ heard[cur[d].spot].session = sess[d]
        /\ heard[cur[d].spot].call = cur[d].call /\ heard[cur[d].spot].kind = "type3"
    BY <1>1, <2>1 DEF CurrentHeard
  <2>3. /\ heard[contacts[c].spot].session = sess[d]
        /\ Hash[contacts[c].call] = Hash[cur[d].call]
        /\ contacts[c].spot \in Rows(heard)
    BY <1>1, <2>1 DEF FixOwn, ContactsHeard
  <2> QED BY <1>1, <1>4, <2>2, <2>3 DEF Own, Same, KeepsHeard
<1> QED BY <1>1, <1>2, <1>3, <1>4 DEF RowsChange

LEMMA SInvInit == Init => SInv
<1> SUFFICES ASSUME Init PROVE SInv
  OBVIOUS
<1>1. Rows(messages) = {} /\ Rows(contacts) = {}
  BY DEF Init, Rows
<1>2. \A d \in Decoders : pc[d] = "idle"
  BY DEF Init, Threads
<1> QED BY <1>1, <1>2 DEF SInv, MessagesHeard, ContactsHeard, CurrentHeard, FixOwn

LEMMA SInvStep == IInv /\ SInv /\ [Next]_vars => SInv'
<1> SUFFICES ASSUME IInv, SInv, [Next]_vars PROVE SInv'
  OBVIOUS
<1>1. TypeOK /\ MessagesHeard /\ ContactsHeard /\ CurrentHeard
  BY DEF IInv, SInv
<1>2. MessagesHeard' /\ ContactsHeard' /\ CurrentHeard'
  BY <1>1, MessagesHeardStep, ContactsHeardStep, CurrentHeardStep
<1>3. ASSUME ~torn' PROVE FixOwn' /\ \A c \in Rows(contacts') : Own(c)'
  <2>1. ~torn
    BY <1>1, <1>3, TornStep
  <2> QED BY <1>3, <2>1, FixOwnStep, OwnStep
<1> QED BY <1>2, <1>3 DEF SInv

LEMMA SessionInvariance == Spec => []SInv
<1>1. IInv /\ SInv /\ [Next]_vars => SInv'
  BY SInvStep
<1> QED BY <1>1, SInvInit, Invariance, PTL DEF Spec

\* Unless a wipe is torn, a late locator reaches no contact of another session
\* and none of another hash, however many decoders look up and update at once.
THEOREM LocatorFromOwnSession == Spec => []GridFromOwnSession
<1>1. SInv => GridFromOwnSession
  BY DEF SInv, Own, GridFromOwnSession
<1> QED BY <1>1, SessionInvariance, PTL

-----------------------------------------------------------------------------
(* The upload.                                                             *)

\* Before the first wipe no wipe is under way or torn.
NoWipe == wipes = 0 => main = "idle" /\ torn = FALSE

LEMMA NoWipeInit == Init => NoWipe
BY DEF Init, NoWipe

LEMMA NoWipeStep ==
  ASSUME TypeOK, NoWipe, [Next]_vars
  PROVE  NoWipe' /\ (wipes' = 0 => wipes = 0)
<1>1. wipes \in Nat
  BY DEF TypeOK
<1>2. CASE UNCHANGED <<main, torn, wipes>>
  BY <1>2 DEF NoWipe
<1>3. ASSUME NEW d \in Decoders, StartDecoder(d)
      PROVE  UNCHANGED <<main, wipes>> /\ (main = "idle" /\ torn = FALSE => torn' = FALSE)
  <2>1. torn' = (torn \/ main = "wipe") /\ UNCHANGED <<main, wipes>>
    BY <1>3 DEF StartDecoder
  <2>2. main = "idle" => ~(main = "wipe")
    OBVIOUS
  <2> QED BY <2>1, <2>2, Zenon
<1>4. CASE WipeMessages
  BY <1>1, <1>4 DEF WipeMessages, NoWipe
<1>5. CASE WipeContacts
  BY <1>5 DEF WipeContacts, NoWipe
<1>6. CASE Crash
  <2>1. torn' = (torn \/ main = "wipe") /\ main' = "idle" /\ wipes' = wipes
    BY <1>6 DEF Crash
  <2>2. main = "idle" => ~(main = "wipe")
    OBVIOUS
  <2>3. main = "idle" /\ torn = FALSE => torn' = FALSE
    BY <2>1, <2>2, Zenon
  <2> QED BY <2>1, <2>3 DEF NoWipe
<1>7. \/ UNCHANGED <<main, torn, wipes>> \/ \E d \in Decoders : StartDecoder(d)
      \/ WipeMessages \/ WipeContacts \/ Crash
  BY DEF Next, Main, Send, Post, Mark, SendDone, Decoder, StoreMessage,
     StoreBadMessage, StoreContact, QueryHash, UpdateGrid, UpdatesDone,
     EndDecoder, Uploader, Select, SelectNoCallsign, TakeRow, NextRow,
     EndUpload, UploadFails, UploadClick, StartService, AbortClick,
     env, vars
<1> QED BY <1>2, <1>3, <1>4, <1>5, <1>6, <1>7 DEF NoWipe

\* A step that keeps every row, and its mark.
KeepsMarks ==
  \A c \in Rows(contacts) :
    c \in Rows(contacts') /\ (contacts[c].uploaded => contacts'[c].uploaded)

LEMMA MarkedRow ==
  ASSUME contacts \in Seq(Contact), NEW k \in Rows(contacts),
         contacts' = [contacts EXCEPT ![k].uploaded = TRUE]
  PROVE  /\ Rows(contacts') = Rows(contacts) /\ contacts'[k].uploaded
         /\ contacts'[k].spot = contacts[k].spot
         /\ \A c \in Rows(contacts) \ {k} : contacts'[c] = contacts[c]
<1> DEFINE e == [contacts[k] EXCEPT !.uploaded = TRUE]
<1>1. contacts[k] \in Contact
  BY RowTypes
<1>2. e \in Contact /\ e.spot = contacts[k].spot
  BY <1>1, UpdateTypes
<1>3. e.uploaded
  BY <1>1 DEF Contact
<1>4. contacts' = [contacts EXCEPT ![k] = e]
  OBVIOUS
<1> HIDE DEF e
<1>5. /\ Rows(contacts') = Rows(contacts) /\ contacts'[k] = e
      /\ \A c \in Rows(contacts) \ {k} : contacts'[c] = contacts[c]
  BY <1>2, <1>4, ExceptSeq DEF Rows
<1> QED BY <1>2, <1>3, <1>5

\* Only the second delete of a wipe takes rows or marks away.
LEMMA MarksKept ==
  ASSUME TypeOK, [Next]_vars, ~WipeContacts
  PROVE  KeepsMarks
<1>1. contacts \in Seq(Contact)
  BY DEF TypeOK, TablesType
<1>2. CASE contacts' = contacts
  BY <1>2 DEF KeepsMarks
<1>3. ASSUME NEW t \in Threads, Mark(t) PROVE KeepsMarks
  <2> DEFINE k == sent[t].id
  <2>1. \/ contacts' = contacts
        \/ k \in Rows(contacts) /\ contacts' = [contacts EXCEPT ![k].uploaded = TRUE]
    BY <1>3 DEF Mark
  <2> HIDE DEF k
  <2> QED BY <1>1, <1>2, <2>1, MarkedRow DEF KeepsMarks
<1>4. ASSUME NEW d \in Decoders, UpdateGrid(d) PROVE KeepsMarks
  BY <1>1, <1>4, GridTables DEF KeepsMarks
<1>5. ASSUME NEW d \in Decoders, StoreContact(d) PROVE KeepsMarks
  <2>1. contacts' = contacts \/ \E e : contacts' = Append(contacts, e)
    BY <1>5 DEF StoreContact
  <2>2. \A c \in Rows(contacts) : c \in Rows(contacts') /\ contacts'[c] = contacts[c]
    BY <1>1, <2>1 DEF Rows
  <2> QED BY <2>2 DEF KeepsMarks
<1>6. ASSUME NEW d \in Decoders, Decoder(d) PROVE KeepsMarks
  BY <1>2, <1>4, <1>5, <1>6 DEF Decoder, StartDecoder, StoreMessage, StoreBadMessage,
     QueryHash, UpdatesDone, EndDecoder, tables
<1>7. ASSUME NEW u \in Uploaders, Uploader(u) \/ UploadClick(u) PROVE KeepsMarks
  BY <1>2, <1>7 DEF Uploader, Select, SelectNoCallsign, TakeRow, NextRow,
     EndUpload, UploadFails, UploadClick, tables
<1>8. ASSUME NEW t \in Threads, Send(t) PROVE KeepsMarks
  BY <1>2, <1>3, <1>8 DEF Send, Post, SendDone, tables
<1>9. CASE StartService \/ AbortClick \/ WipeMessages \/ Crash \/ UNCHANGED vars
  BY <1>2, <1>9 DEF StartService, AbortClick, WipeMessages, Crash, tables, vars
<1> QED BY <1>6, <1>7, <1>8, <1>9 DEF Next, Main

\* What an upload has taken of its rows is marked or about to be; what it has
\* ended with, without an abort or a failure, is marked.
EntryFor(r) == [id |-> r.id, of |-> r.spot, spot |-> r.spot]
OnItsWay(u, r) ==
  \/ pc[u] \in {"post", "mark"} /\ EntryFor(r) \in queue[u]
  \/ pc[u] = "mark" /\ sent[u].id = r.id
Taken(u) ==
  /\ \A r \in rows[u] : r.id \in Rows(contacts)
  /\ pc[u] \in {"idle", "select"} => rows[u] = {} /\ taken[u] = {}
  /\ taken[u] \subseteq rows[u]
  /\ ~failed[u] /\ pc[u] \in {"row", "next", "post", "mark"} =>
       \A r \in taken[u] : r.band \in KnownBands =>
         contacts[r.id].uploaded \/ OnItsWay(u, r)
  /\ pc[u] = "done" /\ ~quitter[u] /\ ~failed[u] =>
       \A r \in rows[u] : r.band \in KnownBands => contacts[r.id].uploaded
UInv == wipes = 0 => \A u \in Uploaders : Taken(u)

LEMMA UploadFrame ==
  ASSUME TypeOK, [Next]_vars, NEW u \in Uploaders
  PROVE  \/ Uploader(u) \/ Send(u) \/ UploadClick(u) \/ Crash
         \/ /\ pc'[u] = pc[u] /\ queue'[u] = queue[u] /\ sent'[u] = sent[u]
            /\ rows'[u] = rows[u] /\ taken'[u] = taken[u] /\ failed'[u] = failed[u]
            /\ quitter[u] => quitter'[u]
<1> DEFINE Frame == /\ pc'[u] = pc[u] /\ queue'[u] = queue[u] /\ sent'[u] = sent[u]
                    /\ rows'[u] = rows[u] /\ taken'[u] = taken[u] /\ failed'[u] = failed[u]
                    /\ quitter[u] => quitter'[u]
<1>1. /\ pc \in [Threads -> Pcs] /\ u \in Threads \ Decoders /\ u # "none"
      /\ queue \in [Threads -> SUBSET Entry] /\ sent \in [Threads -> Entry]
      /\ rows \in [Uploaders -> SUBSET Row] /\ taken \in [Uploaders -> SUBSET Row]
      /\ quitter \in [Uploaders -> BOOLEAN] /\ failed \in [Uploaders -> BOOLEAN]
      /\ upload \in Uploaders \cup {"none"}
  BY ThreadsAssumption DEF TypeOK, SenderType, UploaderType, Threads
<1>2. ASSUME NEW d \in Decoders, Decoder(d) PROVE Frame
  BY <1>1, <1>2 DEF Decoder, StartDecoder, StoreMessage, StoreBadMessage,
     StoreContact, QueryHash, UpdateGrid, UpdatesDone, EndDecoder,
     UseNetwork, Goto, upl
<1>3. ASSUME NEW v \in Uploaders \ {u}, Uploader(v) \/ UploadClick(v) PROVE Frame
  BY <1>1, <1>3 DEF Uploader, Select, SelectNoCallsign, TakeRow, NextRow,
     EndUpload, UploadFails, UploadClick, Goto, upl
<1>4. ASSUME NEW t \in Threads \ {u}, Post(t) PROVE Frame
  <2>1. failed' = failed \/ failed' = [failed EXCEPT ![t] = TRUE]
    BY <1>4 DEF Post, Skip
  <2>2. PICK e \in queue[t] : /\ queue' = [queue EXCEPT ![t] = @ \ {e}]
                              /\ UNCHANGED <<pc, sent>> \/ (Goto(t, "mark")
                                     /\ sent' = [sent EXCEPT ![t] = e])
    BY <1>4 DEF Post
  <2> QED BY <1>1, <1>4, <2>1, <2>2 DEF Post, Goto, upl
<1>5. ASSUME NEW t \in Threads \ {u}, Mark(t) PROVE Frame
  <2>1. failed' = failed \/ failed' = [failed EXCEPT ![t] = TRUE]
    BY <1>5 DEF Mark, Skip
  <2> QED BY <1>1, <1>5, <2>1 DEF Mark, Goto, upl
<1>6. ASSUME NEW t \in Threads \ {u}, SendDone(t) PROVE Frame
  BY <1>1, <1>6 DEF SendDone, Goto, upl
<1>7. CASE AbortClick
  <2>1. UNCHANGED <<pc, queue, sent, rows, taken, failed>>
    BY <1>7 DEF AbortClick
  <2>2. upload \in Uploaders /\ quitter' = [quitter EXCEPT ![upload] = TRUE]
    BY <1>1, <1>7 DEF AbortClick
  <2>3. quitter'[u] = TRUE \/ quitter'[u] = quitter[u]
    BY <1>1, <2>2
  <2> QED BY <2>1, <2>3
<1>8. CASE StartService \/ WipeMessages \/ WipeContacts \/ UNCHANGED vars
  BY <1>8 DEF StartService, WipeMessages, WipeContacts, vars, upl
<1> QED BY <1>2, <1>3, <1>4, <1>5, <1>6, <1>7, <1>8 DEF Next, Main, Send

LEMMA UploaderTaken ==
  ASSUME TypeOK, NEW u \in Uploaders, Taken(u), Uploader(u) \/ UploadClick(u)
  PROVE  Taken(u)'
<1>1. /\ pc \in [Threads -> Pcs] /\ u \in Threads
      /\ queue \in [Threads -> SUBSET Entry] /\ sent \in [Threads -> Entry]
      /\ rows \in [Uploaders -> SUBSET Row] /\ taken \in [Uploaders -> SUBSET Row]
      /\ failed \in [Uploaders -> BOOLEAN]
  BY DEF TypeOK, SenderType, UploaderType, Threads
<1>2. contacts' = contacts /\ quitter' = quitter
  BY DEF Uploader, Select, SelectNoCallsign, TakeRow, NextRow, EndUpload,
     UploadFails, UploadClick, upl, tables
<1>3. CASE Select(u)
  <2> DEFINE found == {c \in Joined : ~contacts[c].uploaded}
  <2>1. /\ rows'[u] = {[id |-> c, spot |-> contacts[c].spot,
                        band |-> messages[contacts[c].message].band] : c \in found}
        /\ taken' = taken /\ pc[u] = "select"
        /\ IF found = {} THEN pc'[u] = "done" ELSE pc'[u] = "row"
    BY <1>1, <1>3 DEF Select, Goto
  <2>2. found \subseteq Rows(contacts)
    BY DEF Joined
  <2> HIDE DEF found
  <2>3. \A r \in rows'[u] : r.id \in Rows(contacts)
    BY <2>1, <2>2
  <2>4. taken'[u] = {} /\ pc'[u] \notin {"idle", "select"}
    BY <2>1 DEF Taken
  <2>5. pc'[u] = "done" => rows'[u] = {}
    BY <2>1
  <2> QED BY <1>2, <2>3, <2>4, <2>5 DEF Taken
<1>4. CASE TakeRow(u)
  <2>1. PICK r \in rows[u] \ taken[u] :
          /\ taken'[u] = taken[u] \cup {r} /\ rows' = rows /\ failed' = failed
          /\ queue'[u] = queue[u] \cup {EntryFor(r)}
          /\ pc[u] = "row" /\ pc'[u] = IF r.band \in KnownBands THEN "post" ELSE "next"
    BY <1>1, <1>4 DEF TakeRow, Goto, EntryFor
  <2>2. ASSUME ~failed[u], NEW q \in taken'[u], q.band \in KnownBands
        PROVE  contacts[q.id].uploaded \/ OnItsWay(u, q)'
    <3>1. CASE q = r
      BY <2>1, <2>2, <3>1 DEF OnItsWay
    <3>2. CASE q # r
      <4>1. q \in taken[u] /\ ~OnItsWay(u, q)
        BY <2>1, <3>2 DEF OnItsWay
      <4> QED BY <2>1, <2>2, <4>1 DEF Taken
    <3> QED BY <3>1, <3>2
  <2> QED BY <1>2, <2>1, <2>2 DEF Taken
<1>5. CASE SelectNoCallsign(u) \/ UploadClick(u)
  <2>1. /\ rows' = rows /\ taken' = taken /\ pc[u] \in {"idle", "select"}
        /\ pc'[u] \in {"select", "done"}
    BY <1>1, <1>5 DEF SelectNoCallsign, UploadClick, Goto
  <2> QED BY <1>2, <2>1 DEF Taken
<1>6. CASE NextRow(u)
  <2>1. /\ rows' = rows /\ taken' = taken /\ failed' = failed /\ pc[u] = "next"
        /\ pc'[u] = "row"
    BY <1>1, <1>6 DEF NextRow, Goto, upl
  <2> QED BY <1>2, <2>1 DEF Taken, OnItsWay
<1>7. CASE EndUpload(u)
  <2>1. /\ rows' = rows /\ taken' = taken /\ failed' = failed /\ pc[u] = "next"
        /\ pc'[u] = "done" /\ (rows[u] = taken[u] \/ quitter[u])
    BY <1>1, <1>7 DEF EndUpload, Goto
  <2> QED BY <1>2, <2>1 DEF Taken, OnItsWay
<1>8. CASE UploadFails(u)
  <2>1. /\ rows' = rows /\ taken' = taken /\ failed'[u] /\ pc'[u] = "done"
    BY <1>1, <1>8 DEF UploadFails, Goto
  <2> QED BY <1>2, <2>1 DEF Taken
<1> QED BY <1>3, <1>4, <1>5, <1>6, <1>7, <1>8 DEF Uploader

LEMMA SendTaken ==
  ASSUME TypeOK, KeepsMarks, NEW u \in Uploaders, Taken(u), Send(u)
  PROVE  Taken(u)'
<1>1. /\ pc \in [Threads -> Pcs] /\ u \in Threads \ Decoders
      /\ queue \in [Threads -> SUBSET Entry] /\ sent \in [Threads -> Entry]
      /\ failed \in [Uploaders -> BOOLEAN]
  BY ThreadsAssumption DEF TypeOK, SenderType, UploaderType, Threads
<1>2. UNCHANGED <<rows, taken, quitter>> /\ pc[u] \in {"post", "mark"}
  BY DEF Send, Post, Mark, SendDone, upl
<1>3. /\ \A r \in rows[u] : r.id \in Rows(contacts) /\ r.id \in Rows(contacts')
      /\ \A r \in taken[u] : r \in rows[u]
      /\ \A r \in rows[u] : contacts[r.id].uploaded => contacts'[r.id].uploaded
  BY DEF Taken, KeepsMarks
<1>4. ASSUME pc'[u] \in {"post", "mark", "next"},
             ~failed'[u] => /\ ~failed[u]
                            /\ \A r \in taken[u] : OnItsWay(u, r) =>
                                 contacts'[r.id].uploaded \/ OnItsWay(u, r)'
      PROVE  Taken(u)'
  <2>1. ASSUME ~failed'[u], NEW r \in taken[u], r.band \in KnownBands
        PROVE  contacts'[r.id].uploaded \/ OnItsWay(u, r)'
    <3>1. contacts[r.id].uploaded \/ OnItsWay(u, r)
      BY <1>2, <1>4, <2>1 DEF Taken
    <3> QED BY <1>3, <1>4, <2>1, <3>1
  <2> QED BY <1>2, <1>3, <1>4, <2>1 DEF Taken
<1>5. CASE Post(u)
  <2>1. PICK e \in queue[u], answered \in BOOLEAN :
          /\ queue' = [queue EXCEPT ![u] = @ \ {e}] /\ pc[u] = "post"
          /\ IF answered THEN /\ pc' = [pc EXCEPT ![u] = "mark"]
                              /\ sent' = [sent EXCEPT ![u] = e] /\ failed' = failed
             ELSE failed' = [failed EXCEPT ![u] = TRUE] /\ pc' = pc
    BY <1>5 DEF Post, Skip, Goto
  <2>2. CASE answered
    <3>1. /\ pc'[u] = "mark" /\ sent'[u] = e /\ failed' = failed
          /\ queue'[u] = queue[u] \ {e}
      BY <1>1, <2>1, <2>2
    <3>2. ASSUME NEW r \in taken[u], OnItsWay(u, r) PROVE OnItsWay(u, r)'
      <4>1. EntryFor(r) \in queue[u] /\ EntryFor(r).id = r.id
        BY <2>1, <3>2 DEF OnItsWay, EntryFor
      <4> QED BY <3>1, <4>1 DEF OnItsWay
    <3> QED BY <1>4, <3>1, <3>2
  <2>3. CASE ~answered
    <3>1. failed'[u] /\ pc'[u] = "post"
      BY <1>1, <2>1, <2>3
    <3> QED BY <1>4, <3>1
  <2> QED BY <2>2, <2>3
<1>6. CASE Mark(u)
  <2>1. PICK ok \in BOOLEAN :
          /\ pc[u] = "mark" /\ pc' = [pc EXCEPT ![u] = "post"] /\ queue' = queue
          /\ contacts' = IF ok /\ sent[u].id \in Rows(contacts)
                         THEN [contacts EXCEPT ![sent[u].id].uploaded = TRUE]
                         ELSE contacts
          /\ IF ok THEN failed' = failed ELSE failed' = [failed EXCEPT ![u] = TRUE]
    BY <1>6 DEF Mark, Skip, Goto
  <2>2. pc'[u] = "post"
    BY <1>1, <2>1
  <2>3. CASE ok
    <3>1. ASSUME NEW r \in taken[u], OnItsWay(u, r)
          PROVE  contacts'[r.id].uploaded \/ OnItsWay(u, r)'
      <4>1. CASE EntryFor(r) \in queue[u]
        BY <2>1, <2>2, <4>1 DEF OnItsWay
      <4>2. CASE sent[u].id = r.id
        <5>1. r.id \in Rows(contacts) /\ contacts \in Seq(Contact)
          BY <1>3 DEF TypeOK, TablesType
        <5>2. contacts' = [contacts EXCEPT ![r.id].uploaded = TRUE]
          BY <2>1, <2>3, <4>2, <5>1
        <5> QED BY <5>1, <5>2, MarkedRow
      <4> QED BY <3>1, <4>1, <4>2 DEF OnItsWay
    <3> QED BY <1>4, <2>1, <2>2, <2>3, <3>1
  <2>4. CASE ~ok
    <3>1. failed'[u]
      BY <1>1, <2>1, <2>4
    <3> QED BY <1>4, <2>2, <3>1
  <2> QED BY <2>3, <2>4
<1>7. CASE SendDone(u)
  <2>1. pc[u] = "post" /\ queue[u] = {} /\ pc'[u] = "next" /\ failed' = failed
    BY <1>1, <1>7 DEF SendDone, Goto
  <2>2. \A r \in taken[u] : ~OnItsWay(u, r)
    BY <2>1 DEF OnItsWay
  <2> QED BY <1>4, <2>1, <2>2
<1> QED BY <1>5, <1>6, <1>7 DEF Send

LEMMA UInvStep == TypeOK /\ NoWipe /\ UInv /\ [Next]_vars => UInv'
<1> SUFFICES ASSUME TypeOK, NoWipe, UInv, [Next]_vars, wipes' = 0, NEW u \in Uploaders
             PROVE  Taken(u)'
  BY DEF UInv
<1>1. KeepsMarks
  <2>1. main = "idle"
    BY NoWipeStep DEF NoWipe
  <2> QED BY <2>1, MarksKept DEF WipeContacts
<1>2. Taken(u)
  BY NoWipeStep DEF UInv
<1>3. /\ \A r \in rows[u] : r.id \in Rows(contacts) /\ r.id \in Rows(contacts')
      /\ \A r \in taken[u] : r \in rows[u]
      /\ \A r \in rows[u] : contacts[r.id].uploaded => contacts'[r.id].uploaded
  BY <1>1, <1>2 DEF Taken, KeepsMarks
<1>4. CASE Crash
  <2>1. /\ UNCHANGED <<contacts, rows, taken, quitter, failed>>
        /\ pc'[u] = IF pc[u] \in {"idle", "done"} THEN pc[u] ELSE "dead"
    BY <1>4 DEF Crash, tables, Threads
  <2> QED BY <1>2, <2>1 DEF Taken
<1>5. CASE /\ pc'[u] = pc[u] /\ queue'[u] = queue[u] /\ sent'[u] = sent[u]
           /\ rows'[u] = rows[u] /\ taken'[u] = taken[u] /\ failed'[u] = failed[u]
           /\ quitter[u] => quitter'[u]
  <2>1. \A r : OnItsWay(u, r)' = OnItsWay(u, r)
    BY <1>5 DEF OnItsWay
  <2> QED BY <1>2, <1>3, <1>5, <2>1 DEF Taken
<1> QED BY <1>1, <1>2, <1>4, <1>5, UploadFrame, UploaderTaken, SendTaken

\* An upload that runs to its end without an abort, a wipe or a failed request
\* has marked every row of a known band, whatever other senders did meanwhile
\* and however many rows of unknown bands it skipped.
THEOREM UploadsAreComplete == Spec => []UploadComplete
<1>1. Init => UInv
  <2> SUFFICES ASSUME Init, NEW u \in Uploaders PROVE Taken(u)
    BY DEF UInv
  <2> QED BY DEF Init, Taken, Threads
<1>2. UInv => UploadComplete
  BY DEF UInv, Taken, UploadComplete
<1>3. IInv => TypeOK
  BY DEF IInv
<1> QED BY <1>1, <1>2, <1>3, NoWipeInit, NoWipeStep, UInvStep, Invariance, PTL DEF Spec

\* The same at the step where an upload ends, with wipes: only a torn one, which
\* met a thread at work, takes rows away from an upload under way.
UWiped == ~torn => \A u \in Uploaders : pc[u] \notin {"done", "dead"} => Taken(u)

LEMMA TakenStep ==
  ASSUME IInv, UWiped, [Next]_vars, ~torn', NEW u \in Uploaders,
         pc[u] # "done", pc'[u] # "dead"
  PROVE  Taken(u)'
<1>1. TypeOK /\ u \in Threads /\ pc \in [Threads -> Pcs] /\ torn \in BOOLEAN
  BY DEF IInv, TypeOK, SenderType, TablesType, Threads
<1>2. ~torn
  BY <1>1, TornStep
<1>3. ASSUME pc[u] = "dead" PROVE FALSE
  BY <1>1, <1>3, UploadFrame DEF Uploader, Select, SelectNoCallsign, TakeRow,
     NextRow, EndUpload, UploadFails, UploadClick, Send, Post, Mark, SendDone, Crash
<1>4. Taken(u)
  BY <1>2, <1>3 DEF UWiped
<1>5. CASE WipeContacts
  <2>1. UNCHANGED <<pc, rows, taken, failed, quitter>> /\ ~Busy(u)
    BY <1>1, <1>2, <1>5 DEF WipeContacts, upl, IInv, Links, Wiping
  <2>2. pc'[u] = "idle" /\ rows'[u] = {} /\ taken'[u] = {}
    BY <1>3, <1>4, <2>1 DEF Busy, Taken
  <2> QED BY <2>2 DEF Taken
<1>6. CASE ~WipeContacts
  <2>1. KeepsMarks
    BY <1>1, <1>6, MarksKept
  <2>2. /\ \A r \in rows[u] : r.id \in Rows(contacts) /\ r.id \in Rows(contacts')
        /\ \A r \in taken[u] : r \in rows[u]
        /\ \A r \in rows[u] : contacts[r.id].uploaded => contacts'[r.id].uploaded
    BY <1>4, <2>1 DEF Taken, KeepsMarks
  <2>3. CASE Crash
    <3>1. /\ UNCHANGED <<contacts, rows, taken, quitter, failed>>
          /\ pc'[u] = IF pc[u] \in {"idle", "done"} THEN pc[u] ELSE "dead"
      BY <1>1, <2>3 DEF Crash, tables
    <3> QED BY <1>4, <3>1 DEF Taken
  <2>4. CASE /\ pc'[u] = pc[u] /\ queue'[u] = queue[u] /\ sent'[u] = sent[u]
             /\ rows'[u] = rows[u] /\ taken'[u] = taken[u] /\ failed'[u] = failed[u]
             /\ quitter[u] => quitter'[u]
    <3>1. \A r : OnItsWay(u, r)' = OnItsWay(u, r)
      BY <2>4 DEF OnItsWay
    <3> QED BY <1>4, <2>2, <2>4, <3>1 DEF Taken
  <2> QED BY <1>1, <1>4, <2>1, <2>3, <2>4, UploadFrame, UploaderTaken, SendTaken
<1> QED BY <1>5, <1>6

LEMMA UWipedStep == IInv /\ UWiped /\ [Next]_vars => UWiped'
<1> SUFFICES ASSUME IInv, UWiped, [Next]_vars, ~torn', NEW u \in Uploaders,
                    pc'[u] \notin {"done", "dead"}
             PROVE  Taken(u)'
  BY DEF UWiped
<1>1. pc[u] # "done"
  <2>1. pc \in [Threads -> Pcs] /\ u \in Threads /\ TypeOK
    BY DEF IInv, TypeOK, SenderType, Threads
  <2> QED BY <2>1, UploadFrame DEF Uploader, Select, SelectNoCallsign, TakeRow,
     NextRow, EndUpload, UploadFails, UploadClick, Send, Post, Mark, SendDone, Crash
<1> QED BY <1>1, TakenStep

\* Whenever an upload comes to its end without an abort or a failed request, every
\* row of a known band it began with is in the log with its mark, and is the row
\* of the reception it was for, whatever was wiped before, unless a wipe met a
\* thread at work.
THEOREM UploadsEndComplete ==
  Spec => [][\A u \in Uploaders :
               pc[u] # "done" /\ pc'[u] = "done" /\ ~quitter'[u] /\ ~failed'[u] /\ ~torn'
                 => \A r \in rows'[u] : r.band \in KnownBands =>
                      /\ r.id \in Rows(contacts') /\ contacts'[r.id].uploaded
                      /\ contacts'[r.id].spot = r.spot]_vars
<1> DEFINE Ends(u) ==
      pc[u] # "done" /\ pc'[u] = "done" /\ ~quitter'[u] /\ ~failed'[u] /\ ~torn'
<1>1. Init => UWiped
  <2> SUFFICES ASSUME Init, NEW u \in Uploaders PROVE Taken(u)
    BY DEF UWiped
  <2> QED BY DEF Init, Taken, Threads
<1>2. ASSUME IInv, UWiped, [Next]_vars, NEW u \in Uploaders, Ends(u),
             NEW r \in rows'[u], r.band \in KnownBands
      PROVE  /\ r.id \in Rows(contacts') /\ contacts'[r.id].uploaded
             /\ contacts'[r.id].spot = r.spot
  <2>1. ~torn /\ Taken(u)'
    BY <1>2, TakenStep, TornStep DEF IInv
  <2>2. r.id \in Rows(contacts') /\ contacts'[r.id].uploaded
    BY <1>2, <2>1 DEF Taken
  <2>3. /\ TypeOK /\ u \in Threads /\ pc \in [Threads -> Pcs]
        /\ contacts \in Seq(Contact) /\ rows \in [Uploaders -> SUBSET Row]
    BY <1>2 DEF IInv, TypeOK, TablesType, SenderType, UploaderType, Threads
  <2>4. Uploader(u)
    BY <1>2, <2>3, UploadFrame DEF Send, Post, Mark, SendDone, UploadClick, Crash,
       Skip, Goto
  <2>5. contacts' = contacts
    BY <2>4 DEF Uploader, Select, SelectNoCallsign, TakeRow, NextRow, EndUpload,
       UploadFails, tables
  <2>6. CASE pc[u] = "select"
    <3>1. rows[u] = {}
      BY <1>2, <2>1, <2>6 DEF UWiped, Taken
    <3>2. CASE Select(u)
      <4> DEFINE found == {c \in Joined : ~contacts[c].uploaded}
      <4>1. /\ rows'[u] = {[id |-> c, spot |-> contacts[c].spot,
                            band |-> messages[contacts[c].message].band] : c \in found}
            /\ IF found = {} THEN pc'[u] = "done" ELSE pc'[u] = "row"
        BY <2>3, <3>2 DEF Select, Goto
      <4> HIDE DEF found
      <4>2. found = {}
        BY <1>2, <4>1
      <4> QED BY <1>2, <4>1, <4>2
    <3>3. CASE ~Select(u)
      <4>1. rows' = rows
        BY <2>4, <2>6, <3>3 DEF Uploader, SelectNoCallsign, TakeRow, NextRow,
           EndUpload, UploadFails
      <4> QED BY <1>2, <3>1, <4>1
    <3> QED BY <3>2, <3>3
  <2>7. CASE pc[u] # "select"
    <3>1. rows' = rows /\ Busy(u)
      BY <2>4, <2>7 DEF Uploader, Select, SelectNoCallsign, TakeRow, NextRow,
         EndUpload, UploadFails, Busy, upl
    <3>2. Ref(r.id, r.spot)
      BY <1>2, <2>1, <2>7, <3>1 DEF IInv, Links, RowRefs
    <3>3. NoRow \notin Rows(contacts)
      BY <2>3 DEF NoRow, Rows
    <3> QED BY <2>2, <2>5, <3>2, <3>3 DEF Ref
  <2> QED BY <2>6, <2>7
<1>3. IInv /\ UWiped /\ [Next]_vars => [\A u \in Uploaders : Ends(u) =>
        \A r \in rows'[u] : r.band \in KnownBands =>
          /\ r.id \in Rows(contacts') /\ contacts'[r.id].uploaded
          /\ contacts'[r.id].spot = r.spot]_vars
  BY <1>2
<1> QED BY <1>1, <1>3, UWipedStep, Invariance, PTL DEF Spec

-----------------------------------------------------------------------------
(* The ledger: what the tables and the reports promise.                    *)

\* A spot was tried when its contact was stored or its insert failed, or when
\* its message is none for the table; it can be named in reports when it was
\* tried and came with a call sign.  Cursors hold such spots only; an entry or a
\* report names one, and carries it or a type 3 reception.  A message whose
\* contact is about to be stored has none yet and is in one thread only.
Storers == {e \in Decoders : pc[e] = "contact"}
Tried == Rows(heard) \ {cur[d].spot : d \in Storers}
Reportable == {s \in Tried : heard[s].kind \in {"type1", "type2"}}
Bounded == wipes <= MaxWipes /\ Len(heard) <= MaxSpots
CursorsTried == \A u \in Uploaders : \A r \in rows[u] : r.spot \in Reportable
Sound(r) ==
  /\ r.of \in Reportable /\ r.spot \in Tried
  /\ r.spot = r.of \/ heard[r.spot].kind = "type3"
EntriesTried == \A t \in Threads : \A e \in queue[t] : Sound(e)
ReportsTried == \A r \in reports : Sound(r)
Fresh ==
  \A d \in Decoders : pc[d] = "contact" =>
    /\ \A c \in Rows(contacts) : contacts[c].spot # cur[d].spot
    /\ \A e \in Decoders \ {d} : pc[e] = "contact" => cur[e].spot # cur[d].spot
LInv == Bounded /\ CursorsTried /\ EntriesTried /\ ReportsTried /\ Fresh

LEMMA LInvInit == Init => LInv
<1> SUFFICES ASSUME Init PROVE LInv
  OBVIOUS
<1>1. Bounded
  BY BoundsAssumption DEF Init, Bounded
<1>2. CursorsTried /\ EntriesTried /\ ReportsTried
  BY DEF Init, CursorsTried, EntriesTried, ReportsTried
<1>3. \A d \in Decoders : pc[d] = "idle"
  BY DEF Init, Threads
<1> QED BY <1>1, <1>2, <1>3 DEF LInv, Fresh

LEMMA BoundedStep ==
  ASSUME TypeOK, Bounded, [Next]_vars
  PROVE  Bounded'
<1>1. wipes \in Nat /\ heard \in Seq(Spot) /\ MaxSpots \in Nat /\ MaxWipes \in Nat
  BY BoundsAssumption DEF TypeOK, TablesType
<1>2. wipes' <= MaxWipes
  <2>1. CASE WipeMessages
    BY <1>1, <2>1 DEF WipeMessages
  <2>2. wipes' = wipes \/ WipeMessages
    BY DEF Next, Main, Send, Post, Mark, SendDone, Decoder, StartDecoder,
       StoreMessage, StoreBadMessage, StoreContact, QueryHash, UpdateGrid,
       UpdatesDone, EndDecoder, Uploader, Select, SelectNoCallsign, TakeRow,
       NextRow, EndUpload, UploadFails, UploadClick, StartService, AbortClick,
       WipeContacts, Crash, env, vars
  <2> QED BY <2>1, <2>2 DEF Bounded
<1>3. Len(heard') <= MaxSpots
  <2>1. ASSUME NEW d \in Decoders, StoreMessage(d) \/ StoreBadMessage(d)
        PROVE  Len(heard') <= MaxSpots
    <3>1. Len(heard) < MaxSpots /\ \E s \in Spot : heard' = Append(heard, s)
      BY <2>1, StoreStores DEF Stores, StoreMessage, StoreBadMessage
    <3> QED BY <1>1, <3>1
  <2>2. heard' = heard \/ \E d \in Decoders : StoreMessage(d) \/ StoreBadMessage(d)
    BY DEF Next, Main, Send, Post, Mark, SendDone, Decoder, StartDecoder,
       StoreContact, QueryHash, UpdateGrid, UpdatesDone, EndDecoder, Uploader,
       Select, SelectNoCallsign, TakeRow, NextRow, EndUpload, UploadFails,
       UploadClick, StartService, AbortClick, WipeMessages, WipeContacts,
       Crash, vars
  <2> QED BY <2>1, <2>2 DEF Bounded
<1> QED BY <1>2, <1>3 DEF Bounded

\* What was tried stays tried, and what has a row was tried.
LEMMA TriedKept ==
  ASSUME TypeOK, [Next]_vars
  PROVE  Tried \subseteq Tried'
<1> SUFFICES ASSUME NEW s \in Tried, NEW d \in Decoders, pc'[d] = "contact"
             PROVE  s \in Rows(heard') /\ cur'[d].spot # s
  <2>1. heard \in Seq(Spot) /\ Rows(heard) \subseteq Rows(heard')
    BY HeardKept DEF TypeOK, TablesType, KeepsHeard
  <2> QED BY <2>1 DEF Tried, Storers
<1>1. /\ heard \in Seq(Spot) /\ cur \in [Decoders -> Current]
      /\ pc \in [Threads -> Pcs] /\ s \in Rows(heard)
      /\ Rows(heard) \subseteq Rows(heard')
  BY HeardKept DEF TypeOK, TablesType, DecoderType, SenderType, Tried, KeepsHeard
<1>2. CASE StoreMessage(d)
  <2>1. PICK k, c, m : cur' = [cur EXCEPT ![d] =
            [kind |-> k, call |-> c, spot |-> Len(heard) + 1, message |-> m]]
    BY <1>2 DEF StoreMessage
  <2>2. cur'[d].spot = Len(heard) + 1
    BY <1>1, <2>1
  <2>3. Len(heard) + 1 \notin Rows(heard)
    BY <1>1 DEF Rows
  <2> QED BY <1>1, <2>2, <2>3
<1>3. CASE ~StoreMessage(d)
  <2>1. ~QueryHash(d) /\ ~UpdateGrid(d)
    BY <1>1 DEF QueryHash, UpdateGrid, Goto, Threads
  <2>2. pc[d] = "contact" /\ cur'[d] = cur[d]
    BY <1>3, <2>1, DecoderFrame DEF Storing
  <2> QED BY <1>1, <2>2 DEF Tried, Storers
<1> QED BY <1>2, <1>3

LEMMA RowsTried ==
  ASSUME ContactsHeard, Fresh
  PROVE  \A c \in Rows(contacts) : contacts[c].spot \in Reportable
BY DEF ContactsHeard, Fresh, Tried, Reportable, Storers

LEMMA ReportableKept ==
  ASSUME TypeOK, [Next]_vars
  PROVE  Reportable \subseteq Reportable'
BY TriedKept, HeardKept DEF Reportable, Tried, KeepsHeard

\* Storing a contact makes its spot one that was tried, and no other.
LEMMA StoredTried ==
  ASSUME TypeOK, CurrentHeard, Fresh, NEW d \in Decoders, StoreContact(d)
  PROVE  /\ cur[d].spot \in Reportable'
         /\ heard' = heard /\ cur' = cur /\ Storers' = Storers \ {d}
<1>1. /\ heard' = heard /\ cur' = cur /\ pc \in [Threads -> Pcs]
      /\ pc[d] = "contact"
  BY DEF StoreContact, decoding, TypeOK, SenderType
<1>2. Storers' = Storers \ {d}
  BY <1>1 DEF StoreContact, UseNetwork, Goto, Storers, Threads
<1>3. cur[d].spot \in Rows(heard) /\ heard[cur[d].spot].kind \in {"type1", "type2"}
  BY <1>1 DEF CurrentHeard
<1>4. \A e \in Storers \ {d} : cur[e].spot # cur[d].spot
  BY <1>1 DEF Fresh, Storers
<1> QED BY <1>1, <1>2, <1>3, <1>4 DEF Tried, Reportable

LEMMA CursorsTriedStep ==
  ASSUME TypeOK, ContactsHeard, Fresh, CursorsTried, [Next]_vars
  PROVE  CursorsTried'
<1> SUFFICES ASSUME NEW u \in Uploaders, NEW r \in rows'[u]
             PROVE  r.spot \in Reportable'
  BY DEF CursorsTried
<1>1. rows \in [Uploaders -> SUBSET Row] /\ Reportable \subseteq Reportable'
  BY ReportableKept DEF TypeOK, UploaderType
<1>2. CASE Select(u)
  <2>1. PICK c \in Joined : r = [id |-> c, spot |-> contacts[c].spot,
                       band |-> messages[contacts[c].message].band]
    BY <1>1, <1>2 DEF Select
  <2> QED BY <1>1, <2>1, RowsTried DEF Joined
<1>3. CASE rows'[u] = rows[u]
  BY <1>1, <1>3 DEF CursorsTried
<1>4. ASSUME NEW v \in Uploaders, Select(v), v # u PROVE rows'[u] = rows[u]
  BY <1>1, <1>4 DEF Select
<1>5. rows' = rows \/ \E v \in Uploaders : Select(v)
  BY DEF Next, Main, Send, Post, Mark, SendDone, Decoder, StartDecoder,
     StoreMessage, StoreBadMessage, StoreContact, QueryHash, UpdateGrid,
     UpdatesDone, EndDecoder, Uploader, SelectNoCallsign, TakeRow, NextRow,
     EndUpload, UploadFails, UploadClick, StartService, AbortClick,
     WipeMessages, WipeContacts, Crash, upl, vars
<1> QED BY <1>2, <1>3, <1>4, <1>5

\* What a sound entry or report is, it stays.
LEMMA SoundKept ==
  ASSUME TypeOK, [Next]_vars, NEW r, Sound(r)
  PROVE  Sound(r)'
BY TriedKept, ReportableKept, HeardKept DEF Sound, Tried, KeepsHeard

\* Where the entries of the senders come from.
LEMMA NewEntries ==
  ASSUME TypeOK, [Next]_vars, NEW t \in Threads, NEW e \in queue'[t],
         e \notin queue[t]
  PROVE  \/ \E d \in Decoders :
              StoreContact(d) /\ e.of = cur[d].spot /\ e.spot = cur[d].spot
         \/ \E d \in Decoders : QueryHash(d) /\ \E c \in Matches(d) :
              e.of = contacts[c].spot /\ e.spot = cur[d].spot
         \/ \E u \in Uploaders : TakeRow(u) /\ \E r \in rows[u] :
              e.of = r.spot /\ e.spot = r.spot
<1>1. queue \in [Threads -> SUBSET Entry]
  BY DEF TypeOK, SenderType
<1>2. ASSUME NEW s \in Threads, NEW Q, queue' = [queue EXCEPT ![s] = @ \cup Q]
      PROVE  e \in Q
  BY <1>1, <1>2
<1>3. ASSUME NEW s \in Threads, NEW Q,
             queue' = [queue EXCEPT ![s] = @ \ Q] \/ queue' = [queue EXCEPT ![s] = {}]
      PROVE  FALSE
  BY <1>1, <1>3
<1>4. ASSUME NEW d \in Decoders, StoreContact(d)
      PROVE  e.of = cur[d].spot /\ e.spot = cur[d].spot
  <2>1. PICK i : queue' = [queue EXCEPT ![d] = @ \cup
                   {[id |-> i, of |-> cur[d].spot, spot |-> cur[d].spot]}]
    BY <1>4 DEF StoreContact
  <2>2. e = [id |-> i, of |-> cur[d].spot, spot |-> cur[d].spot]
    BY <1>2, <2>1 DEF Threads
  <2> QED BY <2>2
<1>5. ASSUME NEW d \in Decoders, QueryHash(d)
      PROVE  \E c \in Matches(d) : e.of = contacts[c].spot /\ e.spot = cur[d].spot
  <2> DEFINE Q == {[id |-> c, of |-> contacts[c].spot, spot |-> cur[d].spot]
                     : c \in Matches(d)}
  <2>1. queue' = [queue EXCEPT ![d] = @ \cup Q] /\ d \in Threads
    BY <1>5 DEF QueryHash, Threads
  <2>2. \A q \in Q : \E c \in Matches(d) :
          q.of = contacts[c].spot /\ q.spot = cur[d].spot
    OBVIOUS
  <2> HIDE DEF Q
  <2> QED BY <1>2, <2>1, <2>2
<1>6. ASSUME NEW u \in Uploaders, TakeRow(u)
      PROVE  \E r \in rows[u] : e.of = r.spot /\ e.spot = r.spot
  <2>1. PICK r \in rows[u] : queue' = [queue EXCEPT ![u] = @ \cup {EntryFor(r)}]
    BY <1>6 DEF TakeRow, EntryFor
  <2>2. e = EntryFor(r)
    BY <1>2, <2>1 DEF Threads
  <2> QED BY <2>2 DEF EntryFor
<1>7. ASSUME NEW d \in Decoders, Decoder(d) PROVE StoreContact(d) \/ QueryHash(d)
  <2>1. CASE EndDecoder(d)
    BY <1>3, <2>1 DEF EndDecoder, Threads
  <2> QED BY <1>7, <2>1 DEF Decoder, StartDecoder, StoreMessage, StoreBadMessage,
         UpdateGrid, UpdatesDone
<1>8. ASSUME NEW u \in Uploaders, Uploader(u) \/ UploadClick(u) PROVE TakeRow(u)
  <2>1. CASE EndUpload(u) \/ UploadFails(u)
    BY <1>3, <2>1 DEF EndUpload, UploadFails, Threads
  <2> QED BY <1>8, <2>1 DEF Uploader, Select, SelectNoCallsign, NextRow, UploadClick
<1>9. ASSUME NEW s \in Threads, Send(s) PROVE FALSE
  <2>1. CASE Post(s)
    <3>1. PICK q \in queue[s] : queue' = [queue EXCEPT ![s] = @ \ {q}]
      BY <2>1 DEF Post
    <3> QED BY <1>3, <3>1
  <2> QED BY <1>9, <2>1 DEF Send, Mark, SendDone
<1>10. ~Crash
  BY DEF Crash
<1>11. ~(StartService \/ AbortClick \/ WipeMessages \/ WipeContacts \/ UNCHANGED vars)
  BY DEF StartService, AbortClick, WipeMessages, WipeContacts, vars
<1> QED BY <1>4, <1>5, <1>6, <1>7, <1>8, <1>9, <1>10, <1>11 DEF Next, Main

LEMMA EntriesTriedStep ==
  ASSUME TypeOK, ContactsHeard, CurrentHeard, Fresh, CursorsTried, EntriesTried,
         [Next]_vars
  PROVE  EntriesTried'
<1> SUFFICES ASSUME NEW t \in Threads, NEW e \in queue'[t] PROVE Sound(e)'
  BY DEF EntriesTried
<1>1. CASE e \in queue[t]
  BY <1>1, SoundKept DEF EntriesTried
<1>2. ASSUME NEW d \in Decoders, StoreContact(d), e.of = cur[d].spot, e.spot = cur[d].spot
      PROVE  Sound(e)'
  BY <1>2, StoredTried DEF Sound, Reportable
<1>3. ASSUME NEW d \in Decoders, QueryHash(d), NEW c \in Matches(d),
             e.of = contacts[c].spot, e.spot = cur[d].spot
      PROVE  Sound(e)'
  <2>1. e.of \in Reportable
    BY <1>3, RowsTried DEF Matches, Joined
  <2>2. cur[d].spot \in Rows(heard) /\ heard[cur[d].spot].kind = "type3"
    BY <1>3 DEF QueryHash, CurrentHeard
  <2>3. \A s \in Storers : heard[cur[s].spot].kind # "type3"
    BY DEF Storers, CurrentHeard
  <2>4. cur[d].spot \in Tried
    BY <2>2, <2>3 DEF Tried
  <2>5. Sound(e)
    BY <1>3, <2>1, <2>2, <2>4 DEF Sound
  <2> QED BY <2>5, SoundKept
<1>4. ASSUME NEW u \in Uploaders, NEW r \in rows[u], e.of = r.spot, e.spot = r.spot
      PROVE  Sound(e)'
  <2>1. Sound(e)
    BY <1>4 DEF CursorsTried, Sound, Reportable
  <2> QED BY <2>1, SoundKept
<1> QED BY <1>1, <1>2, <1>3, <1>4, NewEntries

\* Reports are not taken back, and a new one is that of an entry.
LEMMA WritersOfReports ==
  ASSUME [Next]_vars
  PROVE  /\ reports \subseteq reports'
         /\ \/ reports' = reports
            \/ \E t \in Threads : Post(t) /\ \E e \in queue[t] :
                 reports' = reports \cup {ReportOf(e)}
<1>1. reports' = reports \/ \E t \in Threads : Post(t)
  BY DEF Next, Main, Send, Mark, SendDone, Decoder, StartDecoder, StoreMessage,
     StoreBadMessage, StoreContact, QueryHash, UpdateGrid, UpdatesDone,
     EndDecoder, Uploader, Select, SelectNoCallsign, TakeRow, NextRow,
     EndUpload, UploadFails, UploadClick, StartService, AbortClick,
     WipeMessages, WipeContacts, Crash, vars
<1>2. ASSUME NEW t \in Threads, Post(t)
      PROVE  \E e \in queue[t] :
               reports' = reports \/ reports' = reports \cup {ReportOf(e)}
  BY <1>2 DEF Post
<1> QED BY <1>1, <1>2

LEMMA ReportsTriedStep ==
  ASSUME TypeOK, EntriesTried, ReportsTried, [Next]_vars
  PROVE  ReportsTried'
<1> SUFFICES ASSUME NEW r \in reports' PROVE Sound(r)'
  BY DEF ReportsTried
<1>1. CASE r \in reports
  BY <1>1, SoundKept DEF ReportsTried
<1>2. ASSUME NEW t \in Threads, NEW e \in queue[t], r = ReportOf(e) PROVE Sound(r)'
  <2>1. Sound(e) /\ r.of = e.of /\ r.spot = e.spot
    BY <1>2 DEF EntriesTried, ReportOf
  <2>2. Sound(r)
    BY <2>1 DEF Sound
  <2> QED BY <2>2, SoundKept
<1> QED BY <1>1, <1>2, WritersOfReports

\* The steps that write the table of contacts.
LEMMA WritersOfContacts ==
  ASSUME [Next]_vars
  PROVE  \/ contacts' = contacts
         \/ \E d \in Decoders : StoreContact(d) \/ UpdateGrid(d)
         \/ \E t \in Threads : Mark(t)
         \/ WipeContacts
BY DEF Next, Main, Send, Post, SendDone, Decoder, StartDecoder, StoreMessage,
   StoreBadMessage, QueryHash, UpdatesDone, EndDecoder, Uploader, Select,
   SelectNoCallsign, TakeRow, NextRow, EndUpload, UploadFails, UploadClick,
   StartService, AbortClick, WipeMessages, Crash, tables, vars

\* What storing a contact does, whether its insert succeeds or not.
NewRow(d) ==
  [message |-> cur[d].message, call |-> cur[d].call,
   level |-> IF cur[d].kind = "type1" THEN 4 ELSE 0,
   spot |-> cur[d].spot, uploaded |-> FALSE]
LEMMA ContactStored ==
  ASSUME TypeOK, NEW d \in Decoders, StoreContact(d)
  PROVE  \/ contacts' = contacts
         \/ /\ Rows(contacts') = Rows(contacts) \cup {Len(contacts) + 1}
            /\ \A c \in Rows(contacts) : contacts'[c] = contacts[c]
            /\ Len(contacts) + 1 \notin Rows(contacts)
            /\ contacts'[Len(contacts) + 1].spot = cur[d].spot
            /\ contacts'[Len(contacts) + 1].uploaded = FALSE
<1>1. contacts \in Seq(Contact)
  BY DEF TypeOK, TablesType
<1>2. contacts' = contacts \/ contacts' = Append(contacts, NewRow(d))
  BY DEF StoreContact, NewRow
<1>3. NewRow(d).spot = cur[d].spot /\ NewRow(d).uploaded = FALSE
  BY DEF NewRow
<1> QED BY <1>1, <1>2, <1>3 DEF Rows

LEMMA FreshStep ==
  ASSUME TypeOK, ContactsHeard, CurrentHeard, Fresh, [Next]_vars
  PROVE  Fresh'
<1>1. /\ heard \in Seq(Spot) /\ contacts \in Seq(Contact)
      /\ cur \in [Decoders -> Current] /\ pc \in [Threads -> Pcs]
  BY DEF TypeOK, TablesType, DecoderType, SenderType
<1>2. ASSUME NEW d \in Decoders, pc'[d] = "contact", ~StoreMessage(d)
      PROVE  pc[d] = "contact" /\ cur'[d] = cur[d]
  <2>1. ~QueryHash(d) /\ ~UpdateGrid(d)
    BY <1>1, <1>2 DEF QueryHash, UpdateGrid, Goto, Threads
  <2> QED BY <1>2, <2>1, DecoderFrame DEF Storing
\* The spot of a decoder stays, is new, and those of others stay with it.
<1>3. ASSUME NEW d \in Decoders, StoreMessage(d)
      PROVE  /\ cur'[d].spot = Len(heard) + 1 /\ contacts' = contacts
             /\ \A e \in Decoders \ {d} : pc'[e] = pc[e] /\ cur'[e] = cur[e]
  <2>1. PICK k, c, m : cur' = [cur EXCEPT ![d] =
            [kind |-> k, call |-> c, spot |-> Len(heard) + 1, message |-> m]]
    BY <1>3 DEF StoreMessage
  <2>2. cur'[d].spot = Len(heard) + 1
    BY <1>1, <2>1
  <2>3. \A e \in Decoders \ {d} : cur'[e] = cur[e] /\ pc'[e] = pc[e]
    BY <1>1, <1>3, <2>1 DEF StoreMessage, Goto, Threads
  <2> QED BY <1>3, <2>2, <2>3 DEF StoreMessage
<1>4. Len(heard) + 1 \notin Rows(heard)
  BY <1>1 DEF Rows
<1>5. CASE \E d \in Decoders : StoreMessage(d)
  <2>1. PICK d \in Decoders : StoreMessage(d)
    BY <1>5
  <2>2. \A c \in Rows(contacts) : contacts[c].spot # Len(heard) + 1
    BY <1>4 DEF ContactsHeard
  <2>3. \A e \in Decoders : pc[e] = "contact" => cur[e].spot # Len(heard) + 1
    BY <1>4 DEF CurrentHeard
  <2> QED BY <1>3, <2>1, <2>2, <2>3 DEF Fresh
<1>6. CASE \A d \in Decoders : ~StoreMessage(d)
  <2> SUFFICES ASSUME NEW d \in Decoders, pc'[d] = "contact"
               PROVE  /\ \A c \in Rows(contacts') : contacts'[c].spot # cur'[d].spot
                      /\ \A e \in Decoders \ {d} :
                           pc'[e] = "contact" => cur'[e].spot # cur'[d].spot
    BY DEF Fresh
  <2>1. pc[d] = "contact" /\ cur'[d] = cur[d]
    BY <1>2, <1>6
  <2>2. \A e \in Decoders \ {d} : pc'[e] = "contact" => cur'[e].spot # cur'[d].spot
    BY <1>2, <1>6, <2>1 DEF Fresh
  <2>3. ASSUME NEW c \in Rows(contacts')
        PROVE  contacts'[c].spot # cur[d].spot
    <3>1. CASE c \in Rows(contacts) /\ contacts'[c].spot = contacts[c].spot
      BY <2>1, <3>1 DEF Fresh
    <3>2. ASSUME NEW e \in Decoders, StoreContact(e)
          PROVE  contacts'[c].spot # cur[d].spot
      <4>1. e # d /\ pc[e] = "contact"
        BY <1>1, <2>1, <3>2 DEF StoreContact, UseNetwork, Goto, Threads
      <4>2. c \in Rows(contacts) \/ contacts'[c].spot = cur[e].spot
        BY <3>2, <2>3, ContactStored
      <4>3. c \in Rows(contacts) => contacts'[c].spot = contacts[c].spot
        BY <3>2, ContactStored
      <4> QED BY <2>1, <3>1, <4>1, <4>2, <4>3 DEF Fresh
    <3>3. ASSUME NEW e \in Decoders, UpdateGrid(e)
          PROVE  c \in Rows(contacts) /\ contacts'[c].spot = contacts[c].spot
      BY <1>1, <2>3, <3>3, GridTables
    <3>4. ASSUME NEW t \in Threads, Mark(t)
          PROVE  c \in Rows(contacts) /\ contacts'[c].spot = contacts[c].spot
      BY <1>1, <2>3, <3>4, MarkTables
    <3>5. ~WipeContacts
      BY <2>3 DEF WipeContacts, Rows
    <3>6. CASE contacts' = contacts
      BY <2>3, <3>1, <3>6
    <3> QED BY <3>1, <3>2, <3>3, <3>4, <3>5, <3>6, WritersOfContacts
  <2> QED BY <2>1, <2>2, <2>3
<1> QED BY <1>5, <1>6

LEMMA LInvStep == TypeOK /\ SInv /\ LInv /\ [Next]_vars => LInv'
BY BoundedStep, CursorsTriedStep, EntriesTriedStep, ReportsTriedStep, FreshStep
   DEF LInv, SInv

LEMMA LogInvariance == Spec => []LInv
<1>1. TypeOK /\ SInv /\ LInv /\ [Next]_vars => LInv'
  BY LInvStep
<1>2. IInv => TypeOK
  BY DEF IInv
<1> QED
  BY <1>1, <1>2, LInvInit, Invariance, SessionInvariance, PTL DEF Spec

-----------------------------------------------------------------------------
(* What the reports carry.                                                 *)

\* Unless a wipe is torn, an entry or a report carries the reception it names
\* or a type 3 one that goes with it: a decoder finds its matches by the hash of
\* the row and the session of the message joined to it.
ReportsStand ==
  ~torn => /\ \A t \in Threads : \A e \in queue[t] : Stands(e.spot, e.of)
           /\ \A r \in reports : Stands(r.spot, r.of)

LEMMA StandsKept ==
  ASSUME TypeOK, [Next]_vars, NEW r, Sound(r), Stands(r.spot, r.of)
  PROVE  Stands(r.spot, r.of)'
BY HeardKept DEF Stands, Sound, Reportable, Tried, KeepsHeard

LEMMA EntriesStandStep ==
  ASSUME IInv, SInv, LInv, ReportsStand, [Next]_vars, ~torn,
         NEW t \in Threads, NEW e \in queue'[t]
  PROVE  Stands(e.spot, e.of)'
<1>1. TypeOK
  BY DEF IInv
<1>2. CASE e \in queue[t]
  BY <1>1, <1>2, StandsKept DEF ReportsStand, LInv, EntriesTried
<1>3. CASE e.of = e.spot
  BY <1>3 DEF Stands
<1>4. ASSUME NEW d \in Decoders, QueryHash(d), NEW c \in Matches(d),
             e.of = contacts[c].spot, e.spot = cur[d].spot
      PROVE  Stands(e.spot, e.of)'
  <2>1. /\ heard[e.spot].kind = "type3" /\ heard[e.spot].session = sess[d]
        /\ heard[e.spot].call = cur[d].call /\ heard' = heard
    BY <1>4 DEF QueryHash, SInv, CurrentHeard
  <2>2. /\ c \in Joined /\ messages[contacts[c].message].session = sess[d]
        /\ Hash[contacts[c].call] = Hash[cur[d].call]
    BY DEF Matches
  <2>3. /\ c \in Rows(contacts) /\ contacts[c].message \in Rows(messages)
        /\ messages[contacts[c].message].spot = e.of
    BY <1>4, <2>2, JoinsTruly DEF Joined, LogTrue, LogTrueUnlessTorn
  <2>4. heard[e.of].session = sess[d] /\ heard[e.of].call = contacts[c].call
    BY <1>4, <2>2, <2>3 DEF SInv, MessagesHeard, ContactsHeard
  <2> QED BY <2>1, <2>2, <2>4 DEF Stands
<1> QED BY <1>1, <1>2, <1>3, <1>4, NewEntries

LEMMA ReportsStandStep ==
  IInv /\ SInv /\ LInv /\ ReportsStand /\ [Next]_vars => ReportsStand'
<1> SUFFICES ASSUME IInv, SInv, LInv, ReportsStand, [Next]_vars, ~torn'
             PROVE  /\ \A t \in Threads : \A e \in queue'[t] : Stands(e.spot, e.of)'
                    /\ \A r \in reports' : Stands(r.spot, r.of)'
  BY DEF ReportsStand
<1>1. TypeOK /\ ~torn
  BY TornStep DEF IInv
<1>2. \A t \in Threads : \A e \in queue'[t] : Stands(e.spot, e.of)'
  BY <1>1, EntriesStandStep
<1>3. ASSUME NEW r \in reports' PROVE Stands(r.spot, r.of)'
  <2>1. CASE r \in reports
    BY <1>1, <2>1, StandsKept DEF ReportsStand, LInv, ReportsTried
  <2>2. ASSUME NEW t \in Threads, NEW e \in queue[t], r = ReportOf(e)
        PROVE  Stands(r.spot, r.of)'
    <3>1. /\ Sound(e) /\ Stands(e.spot, e.of) /\ r.of = e.of /\ r.spot = e.spot
      BY <1>1, <2>2 DEF LInv, EntriesTried, ReportsStand, ReportOf
    <3>2. Stands(e.spot, e.of)'
      BY <1>1, <3>1, StandsKept
    <3> QED BY <3>1, <3>2
  <2> QED BY <2>1, <2>2, WritersOfReports
<1> QED BY <1>2, <1>3

\* Unless a wipe is torn, a marked contact has a report that names it and carries
\* its own reception or a type 3 one of its session and hash, for any number of
\* senders at once and whatever posts, statements or processes fail.
THEOREM MarksAreReported == Spec => []ReportedUnlessTorn
<1>1. Init => ReportsStand
  BY DEF Init, ReportsStand
<1>2. IInv /\ ReportsStand => ReportedUnlessTorn
  BY DEF IInv, Links, MarksNamed, Named, ReportsStand, ReportedUnlessTorn,
     UploadedIsReported
<1> QED
  BY <1>1, <1>2, ReportsStandStep, Invariance, SessionInvariance, LogInvariance,
     PTL DEF Spec

-----------------------------------------------------------------------------
(* The refinement.                                                         *)

\* What is pending is what was not tried.
Untried ==
  /\ Pending = 1..MaxSpots \ Tried /\ Rows(heard) \subseteq 1..MaxSpots
  /\ Logged \subseteq Tried
LEMMA PendingUntried ==
  ASSUME TypeOK, ContactsHeard, CurrentHeard, Fresh, Bounded
  PROVE  Untried
<1>1. Rows(heard) \subseteq 1..MaxSpots
  BY BoundsAssumption DEF Bounded, Rows, TypeOK, TablesType
<1>2. \A d \in Storers : cur[d].spot \in Rows(heard)
  BY DEF CurrentHeard, Storers
<1>3. Pending = (1..MaxSpots \ Rows(heard)) \cup {cur[d].spot : d \in Storers}
  BY DEF Pending, Storers
<1>4. Logged \subseteq Tried
  BY RowsTried DEF Logged, Reportable
<1> QED BY <1>1, <1>2, <1>3, <1>4 DEF Tried, Untried

\* A step that moves no decoder to or from the store of a contact and decodes
\* no message leaves what is pending.
LEMMA SamePending ==
  ASSUME heard' = heard, cur' = cur,
         \A d \in Decoders : (pc[d] = "contact") = (pc'[d] = "contact")
  PROVE  Pending' = Pending
BY DEF Pending, Rows

\* Each step is a step of the ledger or none.
LEMMA LedgerInit == Init => Ledger!Init
<1> SUFFICES ASSUME Init PROVE Ledger!Init
  OBVIOUS
<1>1. Rows(contacts) = {} /\ Rows(heard) = {} /\ reports = {} /\ torn = FALSE
  BY DEF Init, Rows
<1>2. \A d \in Decoders : pc[d] = "idle"
  BY DEF Init, Threads
<1>3. Pending = 1..MaxSpots
  BY <1>1, <1>2 DEF Pending
<1>4. Logged = {} /\ Confirmed = {}
  BY <1>1 DEF Logged, Marked, Confirmed
<1> QED BY <1>1, <1>3, <1>4 DEF Ledger!Init

\* The second delete of a wipe empties the log.
LEMMA LedgerWipe ==
  ASSUME WipeContacts
  PROVE  Ledger!Wipe
<1>1. Rows(contacts') = {} /\ reports' = reports /\ torn' = torn
  BY DEF WipeContacts, Rows
<1>2. Logged' = {} /\ Confirmed' = {}
  BY <1>1 DEF Logged, Marked, Confirmed
<1>3. Pending' = Pending
  BY SamePending DEF WipeContacts, decoding
<1> QED BY <1>1, <1>2, <1>3 DEF Ledger!Wipe

\* A sound report is one the ledger takes: what it carries is not in the log
\* unless it is what it names.
LEMMA SoundReport ==
  ASSUME TypeOK, SInv, LInv, Untried, NEW r, Sound(r)
  PROVE  Ledger!Reportable(r) /\ (r.spot = r.of \/ r.spot \notin Logged)
<1>1. {r.of, r.spot} \subseteq 1..MaxSpots \ Pending
  BY DEF Sound, Reportable, Tried, Untried
<1>2. \A c \in Rows(contacts) : heard[contacts[c].spot].kind # "type3"
  BY DEF SInv, ContactsHeard
<1> QED BY <1>1, <1>2 DEF Sound, Logged, Ledger!Reportable

LEMMA LedgerStep ==
  ASSUME IInv, SInv, LInv, Untried, Untried', [Next]_vars
  PROVE  [Ledger!Next]_(Ledger!ledger)
<1>1. /\ TypeOK /\ contacts \in Seq(Contact) /\ pc \in [Threads -> Pcs]
      /\ torn \in BOOLEAN
  BY DEF IInv, TypeOK, TablesType, SenderType
<1>2. Pending = 1..MaxSpots \ Tried /\ Rows(heard) \subseteq 1..MaxSpots
  BY DEF Untried
<1>3. TypeOK'
  BY <1>1, TablesStep, SenderStep, DecoderStep, UploaderStep, MainStep DEF TypeOK
<1>4. Pending' \subseteq Pending
  <2>1. Pending' = 1..MaxSpots \ Tried'
    BY DEF Untried
  <2> QED BY <1>1, <1>2, <2>1, TriedKept
<1>5. reports \subseteq reports'
  BY WritersOfReports
<1>6. CASE torn'
  <2>1. Logged' \subseteq 1..MaxSpots \ Pending'
    BY DEF Untried, Tried
  <2>2. \A r \in reports' \ reports : Ledger!Reportable(r)
    <3>1. ASSUME NEW t \in Threads, NEW e \in queue[t] PROVE Sound(ReportOf(e))
      BY DEF LInv, EntriesTried, Sound, ReportOf
    <3> QED BY <1>1, <3>1, WritersOfReports, SoundReport
  <2> QED BY <1>4, <1>5, <1>6, <2>1, <2>2 DEF Ledger!Next, Ledger!Torn
<1> SUFFICES ASSUME ~torn' PROVE [Ledger!Next]_(Ledger!ledger)
  BY <1>6
<1>7. ~torn /\ torn' = torn
  BY <1>1, <1>3, TornStep DEF TypeOK
\* Nothing happens but that messages cannot enter the log any more.
<1>8. CASE reports' = reports /\ Logged' = Logged /\ Confirmed' = Confirmed
  <2> DEFINE S == Pending \ Pending'
  <2>1. S \subseteq Pending /\ Pending' = Pending \ S /\ S \in SUBSET (1..MaxSpots)
    BY <1>2, <1>4
  <2>2. Ledger!Lose(S)
    BY <1>7, <1>8, <2>1 DEF Ledger!Lose
  <2> QED BY <2>1, <2>2 DEF Ledger!Next
<1>9. CASE contacts' = contacts /\ reports' = reports
  BY <1>8, <1>9 DEF Logged, Marked, Confirmed
<1>10. ASSUME NEW t \in Threads, Post(t), NEW e \in queue[t],
              reports' = reports \cup {ReportOf(e)}
       PROVE  [Ledger!Next]_(Ledger!ledger)
  <2> DEFINE r == ReportOf(e)
  <2>1. contacts' = contacts /\ heard' = heard /\ cur' = cur
    BY <1>10 DEF Post, tables, decoding
  <2>2. Sound(r)
    BY DEF LInv, EntriesTried, Sound, ReportOf
  <2> HIDE DEF r
  <2>3. Ledger!Reportable(r) /\ (r.spot = r.of \/ r.spot \notin Logged)
    BY <1>1, <2>2, SoundReport
  <2>4. Pending' = Pending
    BY <1>1, <1>10, <2>1, SamePending DEF Post, Goto, Threads
  <2>5. Logged' = Logged /\ Confirmed' = Confirmed
    BY <2>1 DEF Logged, Marked, Confirmed
  <2>6. Ledger!Deliver(r)
    BY <1>7, <1>10, <2>3, <2>4, <2>5 DEF Ledger!Deliver, r
  <2>7. r \in [of : 1..MaxSpots, spot : 1..MaxSpots]
    BY <2>3 DEF Ledger!Reportable, r, ReportOf
  <2> QED BY <2>6, <2>7 DEF Ledger!Next
<1>11. ASSUME NEW d \in Decoders, StoreContact(d)
       PROVE  [Ledger!Next]_(Ledger!ledger)
  <2>1. reports' = reports /\ pc[d] = "contact"
    BY <1>11 DEF StoreContact
  <2>2. CASE contacts' # contacts
    <3> DEFINE new == Len(contacts) + 1
    <3>1. /\ Rows(contacts') = Rows(contacts) \cup {new}
          /\ \A c \in Rows(contacts) : contacts'[c] = contacts[c]
          /\ contacts'[new].spot = cur[d].spot /\ ~contacts'[new].uploaded
      BY <1>1, <1>11, <2>2, ContactStored
    <3> HIDE DEF new
    <3>2. Logged' = Logged \cup {cur[d].spot}
      BY <3>1 DEF Logged
    <3>3. Marked' = Marked /\ Marked \subseteq Rows(contacts)
      BY <3>1 DEF Marked
    <3>4. Confirmed' = Confirmed
      BY <3>1, <3>3 DEF Confirmed
    <3>5. cur[d].spot \in Pending /\ Pending' = Pending \ {cur[d].spot}
      <4>1. /\ cur[d].spot \in Tried' /\ heard' = heard /\ cur' = cur
            /\ Storers' = Storers \ {d}
        BY <1>1, <1>11, StoredTried DEF SInv, LInv, Reportable
      <4>2. d \in Storers /\ cur[d].spot \in Rows(heard)
        BY <2>1 DEF Storers, SInv, CurrentHeard
      <4>3. Rows(heard') = Rows(heard)
        BY <4>1
      <4>4. Tried' = Tried \cup {cur[d].spot}
        BY <4>1, <4>2, <4>3 DEF Tried, Reportable
      <4>5. Pending' = 1..MaxSpots \ Tried'
        BY DEF Untried
      <4>6. cur[d].spot \notin Tried
        BY <4>2 DEF Tried
      <4> QED BY <1>2, <4>2, <4>4, <4>5, <4>6
    <3>6. Ledger!Log(cur[d].spot) /\ cur[d].spot \in 1..MaxSpots
      BY <1>2, <1>7, <2>1, <3>2, <3>4, <3>5 DEF Ledger!Log
    <3> QED BY <3>6 DEF Ledger!Next
  <2> QED BY <1>9, <2>1, <2>2
<1>12. ASSUME NEW d \in Decoders, UpdateGrid(d)
       PROVE  [Ledger!Next]_(Ledger!ledger)
  <2>1. /\ Rows(contacts') = Rows(contacts) /\ reports' = reports
        /\ \A c \in Rows(contacts) : /\ contacts'[c].spot = contacts[c].spot
                                    /\ contacts'[c].uploaded = contacts[c].uploaded
    BY <1>1, <1>12, GridTables DEF UpdateGrid
  <2>2. Logged' = Logged /\ Marked' = Marked /\ Marked \subseteq Rows(contacts)
    BY <2>1 DEF Logged, Marked
  <2>3. Confirmed' = Confirmed
    BY <2>1, <2>2 DEF Confirmed
  <2> QED BY <1>8, <2>1, <2>2, <2>3
<1>13. ASSUME NEW t \in Threads, Mark(t) PROVE [Ledger!Next]_(Ledger!ledger)
  <2> DEFINE k == sent[t].id
  <2>1. /\ reports' = reports
        /\ \/ contacts' = contacts
           \/ k \in Rows(contacts) /\ contacts' = [contacts EXCEPT ![k].uploaded = TRUE]
    BY <1>13 DEF Mark
  <2> HIDE DEF k
  <2>2. CASE k \in Rows(contacts) /\ contacts' = [contacts EXCEPT ![k].uploaded = TRUE]
    <3>1. /\ Rows(contacts') = Rows(contacts) /\ contacts'[k].uploaded
          /\ contacts'[k].spot = contacts[k].spot
          /\ \A c \in Rows(contacts) \ {k} : contacts'[c] = contacts[c]
      BY <1>1, <2>2, MarkedRow
    <3>2. Named(contacts[k].spot) /\ contacts[k].spot \in Logged
      <4>1. Ordinary
        BY <1>13 DEF Ordinary, Send
      <4>2. MarksNamed'
        BY <1>7, <4>1, ReportedStep
      <4>3. \E r \in reports' : r.of = contacts'[k].spot
        BY <2>2, <3>1, <4>2 DEF MarksNamed, Named
      <4>4. contacts[k].spot \in Logged
        BY <2>2 DEF Logged
      <4> QED BY <2>1, <3>1, <4>3, <4>4 DEF Named
    <3>3. Logged' = Logged /\ Marked' = Marked \cup {k} /\ Marked \subseteq Rows(contacts)
      BY <2>2, <3>1 DEF Logged, Marked
    <3>4. Confirmed' = Confirmed \cup {contacts[k].spot}
      BY <3>1, <3>3 DEF Confirmed
    <3>5. contacts[k].spot \in 1..MaxSpots
      BY <1>2, <2>2 DEF SInv, ContactsHeard
    <3>6. Pending' = Pending
      BY <1>1, <1>13, SamePending DEF Mark, Goto, decoding, Threads
    <3>7. Ledger!Confirm(contacts[k].spot)
      BY <1>7, <2>1, <3>2, <3>3, <3>4, <3>6 DEF Ledger!Confirm, Named
    <3> QED BY <3>5, <3>7 DEF Ledger!Next
  <2> QED BY <1>9, <2>1, <2>2
<1>14. CASE WipeContacts
  BY <1>14, LedgerWipe DEF Ledger!Next
<1> QED BY <1>9, <1>10, <1>11, <1>12, <1>13, <1>14, WritersOfReports,
           WritersOfContacts

\* For any number of decoders, uploads, wipes, failures and process deaths the
\* tables and reports refine the ledger: a spot enters the log once, is named in
\* a report only behind its contact, is marked only when it is in the log and
\* named in a report, and neither leaves the log nor loses its mark but in a
\* wipe; a report carries what it names or what is not in the log; a torn wipe
\* ends that.
THEOREM LedgerIsKept == Spec => LedgerKept
<1>1. IInv /\ SInv /\ LInv => Untried
  BY PendingUntried DEF IInv, SInv, LInv
<1>2. IInv /\ SInv /\ LInv /\ Untried /\ Untried' /\ [Next]_vars
        => [Ledger!Next]_(Ledger!ledger)
  BY LedgerStep
<1> QED
  BY <1>1, <1>2, LedgerInit, Invariance, SessionInvariance, LogInvariance, PTL
     DEF Spec, LedgerKept, Ledger!Spec

-----------------------------------------------------------------------------
(* What holds also when a wipe is torn.                                    *)

\* Every report the database has names a reception that was decoded with a call
\* sign and whose contact was tried before, and carries that one or a decoded
\* type 3 one, whatever threads, failures, deaths and wipes there are, torn or
\* not.
THEOREM NothingIsInvented ==
  Spec => [](\A r \in reports :
               /\ {r.of, r.spot} \subseteq Rows(heard)
               /\ heard[r.of].kind \in {"type1", "type2"}
               /\ r.spot = r.of \/ heard[r.spot].kind = "type3"
               /\ \A d \in Decoders : pc[d] = "contact" =>
                    cur[d].spot \notin {r.of, r.spot})
<1>1. LInv => \A r \in reports :
               /\ {r.of, r.spot} \subseteq Rows(heard)
               /\ heard[r.of].kind \in {"type1", "type2"}
               /\ r.spot = r.of \/ heard[r.spot].kind = "type3"
               /\ \A d \in Decoders : pc[d] = "contact" =>
                    cur[d].spot \notin {r.of, r.spot}
  BY DEF LInv, ReportsTried, Sound, Reportable, Tried, Storers
<1> QED BY <1>1, LogInvariance, PTL

\* No reception has two rows in the log, whatever is wiped and however the wipe
\* meets the threads: ids are used again, spots are not.
THEOREM EachSpotOnce ==
  Spec => [](\A c, k \in Rows(contacts) : contacts[c].spot = contacts[k].spot => c = k)
<1> DEFINE I == \A c, k \in Rows(contacts) : contacts[c].spot = contacts[k].spot => c = k
<1>1. Init => I
  BY DEF Init, Rows
<1>2. IInv /\ LInv /\ I /\ [Next]_vars => I'
  <2> SUFFICES ASSUME IInv, LInv, I, [Next]_vars PROVE I'
    OBVIOUS
  <2>1. TypeOK /\ contacts \in Seq(Contact)
    BY DEF IInv, TypeOK, TablesType
  <2>2. CASE /\ Rows(contacts') = Rows(contacts)
             /\ \A c \in Rows(contacts) : contacts'[c].spot = contacts[c].spot
    BY <2>2
  <2>3. ASSUME NEW d \in Decoders, StoreContact(d) PROVE I'
    <3> DEFINE new == Len(contacts) + 1
    <3>1. CASE contacts' # contacts
      <4>1. /\ Rows(contacts') = Rows(contacts) \cup {new}
            /\ \A c \in Rows(contacts) : contacts'[c] = contacts[c]
            /\ contacts'[new].spot = cur[d].spot
        BY <2>1, <2>3, <3>1, ContactStored
      <4>2. \A c \in Rows(contacts) : contacts[c].spot # cur[d].spot
        BY <2>3 DEF StoreContact, LInv, Fresh
      <4> HIDE DEF new
      <4> QED BY <4>1, <4>2
    <3> QED BY <2>2, <3>1
  <2>4. ASSUME NEW d \in Decoders, UpdateGrid(d) PROVE I'
    BY <2>1, <2>2, <2>4, GridTables
  <2>5. ASSUME NEW t \in Threads, Mark(t) PROVE I'
    BY <2>1, <2>2, <2>5, MarkTables
  <2>6. CASE WipeContacts
    BY <2>6 DEF WipeContacts, Rows
  <2> QED BY <2>2, <2>3, <2>4, <2>5, <2>6, WritersOfContacts
<1> QED BY <1>1, <1>2, Invariance, LogInvariance, PTL DEF Spec
===============================================================================
