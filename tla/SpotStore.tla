------------------------------- MODULE SpotStore -------------------------------
(***************************************************************************)
(* The spots after their reception: the decoder threads that store decoded *)
(* messages and report them (LBService.decodersRun), the upload service    *)
(* that reports what is still unmarked (LBSpotUploadService), the sender   *)
(* both use (WSPRNetSender), the two-table database they share (DBHelper)  *)
(* and the wipe of that database (DBToXMLConverter.wipeOut).               *)
(*                                                                         *)
(* The two-minute recordings overlap with slow networks, so several        *)
(* decoder threads live at once; an aborted upload that is still in a call *)
(* lives beside the next one.  Every statement on the database commits by  *)
(* itself and is one step; every report is one step.                       *)
(***************************************************************************)
EXTENDS Integers, Sequences

CONSTANTS
  Decoders, Uploaders,   \* threads; each is one run of its function
  Calls,                 \* call signs
  Hash,                  \* nhash of each call sign
  Bands, KnownBands,     \* dial frequencies; those freq2band recognises
  MaxSpots,              \* bound: decoded messages in a behaviour
  MaxWipes, MaxFaults    \* bounds: wipes; failed statements and process deaths

ASSUME ThreadsAssumption ==
  Decoders \cap Uploaders = {} /\ "none" \notin Uploaders
ASSUME HashAssumption == Calls # {} /\ Hash \in [Calls -> Nat]
ASSUME BandsAssumption == Bands # {} /\ KnownBands \subseteq Bands
ASSUME BoundsAssumption ==
  MaxSpots \in Nat /\ MaxWipes \in Nat /\ MaxFaults \in Nat

VARIABLES
  messages, contacts,  \* the tables, row id as index
  heard,               \* history: the decoded messages, "spots", in order
  reports,             \* what the database of wsprnet.org was told
  session,             \* sessionID of the current LBService, 0 without one
  pc,                  \* program counters of all threads
  queue,               \* WSPRNetSender.msgs of each thread
  sent,                \* the entry whose post has just been answered
  sess, dial, cur,     \* decoders: session, dial frequency, current message
  fix,                 \* decoders: contacts to be given a six-letter locator
  rows, taken,         \* uploaders: the rows of the cursor, those it is past
  quitter, failed,     \* uploaders: told to stop; history: a spot was skipped
  upload,              \* the running upload service
  main,                \* the main thread: idle or between the two deletes
  torn,                \* history: a wipe met a thread at work or was cut short
  wipes, faults

tables   == <<messages, contacts>>
decoding == <<sess, dial, cur, fix>>
upl      == <<rows, taken, quitter, upload>>
env      == <<main, torn, wipes, faults>>
vars     == <<tables, heard, reports, session, pc, queue, sent, decoding, upl,
              failed, env>>

Threads == Decoders \cup Uploaders

-----------------------------------------------------------------------------
(* Data.  Only whole tables are deleted and row ids are not AUTOINCREMENT, *)
(* so the next id is always one more than the number of rows: a table is a *)
(* sequence, and an id is used again after a wipe.                         *)

\* What the parser makes of a decoded text; "bad" fits none of the patterns.
Kinds == {"type1", "type2", "type3", "bad"}
\* Characters of the stored locator.
Levels == {0, 4, 6}
\* insert() returns -1 when the statement fails; the callers do not look.
NoRow == -1
RowId == Nat \cup {NoRow}

Spot    == [kind : Kinds, call : Calls, session : Nat, band : Bands]
Message == [session : Nat, band : Bands, spot : Nat]
Contact == [message : RowId, call : Calls, level : Levels, spot : Nat,
            uploaded : BOOLEAN]
\* A report: the reception whose call sign it names, and the reception whose
\* frequency, strength, date and locator it carries.
Report  == [of : Nat, spot : Nat]
\* An entry of the sender: the contact to mark and the report.
Entry   == [id : RowId, of : Nat, spot : Nat]
Row     == [id : Nat, spot : Nat, band : Bands]
Current == [kind : Kinds, call : Calls, spot : Nat, message : RowId]

Rows(table) == 1..Len(table)
\* The contacts the log and the upload see: those with a message row.
Joined == {c \in Rows(contacts) : contacts[c].message \in Rows(messages)}

Pcs == {"idle", "message", "contact", "query", "update", "post",
        "mark", "select", "row", "next", "done", "dead"}

-----------------------------------------------------------------------------
NoEntry == [id |-> NoRow, of |-> 0, spot |-> 0]
NoMessage == [kind |-> "bad", call |-> CHOOSE c \in Calls : TRUE,
              spot |-> 0, message |-> NoRow]

Init ==
  /\ messages = <<>> /\ contacts = <<>> /\ heard = <<>> /\ reports = {}
  /\ session = 0
  /\ pc = [t \in Threads |-> "idle"] /\ queue = [t \in Threads |-> {}]
  /\ sent = [t \in Threads |-> NoEntry]
  /\ sess = [d \in Decoders |-> 0]
  /\ dial = [d \in Decoders |-> CHOOSE b \in Bands : TRUE]
  /\ cur = [d \in Decoders |-> NoMessage] /\ fix = [d \in Decoders |-> {}]
  /\ rows = [u \in Uploaders |-> {}] /\ taken = [u \in Uploaders |-> {}]
  /\ quitter = [u \in Uploaders |-> FALSE]
  /\ failed = [u \in Uploaders |-> FALSE]
  /\ upload = "none" /\ main = "idle"
  /\ torn = FALSE /\ wipes = 0 /\ faults = 0

Goto(t, to) == pc' = [pc EXCEPT ![t] = to]

\* A statement on the database succeeds or not.
Statement(ok) ==
  /\ ok \/ faults < MaxFaults
  /\ faults' = IF ok THEN faults ELSE faults + 1

-----------------------------------------------------------------------------
(* LBService: sessions, decoder threads.                                   *)

\* LBService.run numbers its session after the last one in the table, or
\* after 1 when the table is empty.
StartService ==
  /\ \E last \in IF messages = <<>> THEN {1}
                 ELSE {messages[m].session : m \in Rows(messages)} :
       /\ \A m \in Rows(messages) : messages[m].session <= last
       /\ session' = last + 1
  /\ UNCHANGED <<tables, heard, reports, pc, queue, sent, decoding, upl,
                 failed, env>>

\* A recording is over: its thread starts with the dial frequency of now.
StartDecoder(d) ==
  /\ pc[d] = "idle" /\ session # 0
  /\ Goto(d, "message")
  /\ sess' = [sess EXCEPT ![d] = session]
  /\ \E b \in Bands : dial' = [dial EXCEPT ![d] = b]
  /\ torn' = (torn \/ main = "wipe")
  /\ UNCHANGED <<tables, heard, reports, session, queue, sent, cur, fix, upl,
                 failed, main, wipes, faults>>

\* Behind each message the preference use_network is read; the settings do not
\* wait for decoders, so it may have been switched.  While it is off, entries
\* stay in the sender.
UseNetwork(d) ==
  \E use_network \in BOOLEAN :
    Goto(d, IF use_network THEN "post" ELSE "message")

\* The next decoded message is stored.
StoreMessage(d) ==
  /\ pc[d] = "message" /\ Len(heard) < MaxSpots
  /\ \E k \in Kinds \ {"bad"}, c \in Calls, ok \in BOOLEAN :
       LET spot == Len(heard) + 1
       IN /\ Statement(ok)
          /\ heard' = Append(heard, [kind |-> k, call |-> c,
                                     session |-> sess[d], band |-> dial[d]])
          /\ messages' = IF ~ok THEN messages ELSE Append(messages,
               [session |-> sess[d], band |-> dial[d], spot |-> spot])
          /\ cur' = [cur EXCEPT ![d] =
               [kind |-> k, call |-> c, spot |-> spot,
                message |-> IF ok THEN Len(messages) + 1 ELSE NoRow]]
          /\ Goto(d, IF k = "type3" THEN "query" ELSE "contact")
  /\ UNCHANGED <<contacts, reports, session, queue, sent, sess, dial, fix, upl,
                 failed, main, torn, wipes>>

\* A message none of the patterns fits is stored and no more; one that fits
\* but does not split as expected skips the sender too.
StoreBadMessage(d) ==
  /\ pc[d] = "message" /\ Len(heard) < MaxSpots /\ UseNetwork(d)
  /\ heard' = Append(heard, [kind |-> "bad", call |-> NoMessage.call,
                             session |-> sess[d], band |-> dial[d]])
  /\ \E ok \in BOOLEAN :
       /\ Statement(ok)
       /\ messages' = IF ~ok THEN messages ELSE Append(messages,
            [session |-> sess[d], band |-> dial[d], spot |-> Len(heard) + 1])
  /\ UNCHANGED <<contacts, reports, session, queue, sent, decoding, upl,
                 failed, main, torn, wipes>>

\* Seeded fault: the contact refers to the last row of the message table.
StoreContactLastRow(d) ==
  /\ pc[d] = "contact" /\ UseNetwork(d)
  /\ contacts' = Append(contacts,
       [message |-> Len(messages), call |-> cur[d].call, level |-> 4,
        spot |-> cur[d].spot, uploaded |-> FALSE])
  /\ queue' = [queue EXCEPT ![d] = @ \cup
       {[id |-> Len(contacts) + 1, of |-> cur[d].spot, spot |-> cur[d].spot]}]
  /\ UNCHANGED <<messages, heard, reports, session, sent, decoding, upl,
                 failed, env>>

\* Types 1 and 2: a contact, and an entry for the sender in any case.
StoreContact(d) ==
  /\ pc[d] = "contact" /\ UseNetwork(d)
  /\ \E ok \in BOOLEAN :
       /\ Statement(ok)
       /\ contacts' = IF ~ok THEN contacts ELSE Append(contacts,
            [message |-> cur[d].message, call |-> cur[d].call,
             level |-> IF cur[d].kind = "type1" THEN 4 ELSE 0,
             spot |-> cur[d].spot, uploaded |-> FALSE])
       /\ queue' = [queue EXCEPT ![d] = @ \cup
            {[id |-> IF ok THEN Len(contacts) + 1 ELSE NoRow,
              of |-> cur[d].spot, spot |-> cur[d].spot]}]
  /\ UNCHANGED <<messages, heard, reports, session, sent, decoding, upl,
                 failed, main, torn, wipes>>

\* Seeded fault: the hash is looked up in the whole log.
MatchesAnySession(d) ==
  {c \in Joined : Hash[contacts[c].call] = Hash[cur[d].call]}

\* Contacts of the session whose call sign has the hash of the message.
Matches(d) ==
  {c \in Joined : /\ messages[contacts[c].message].session = sess[d]
                  /\ Hash[contacts[c].call] = Hash[cur[d].call]}

\* Type 3: for every match the type 3 reception is reported, under the call
\* sign and the row id of the match, and the match is given the six-letter
\* locator unless it has one.
QueryHash(d) ==
  /\ pc[d] = "query" /\ Goto(d, "update")
  /\ queue' = [queue EXCEPT ![d] = @ \cup
       {[id |-> c, of |-> contacts[c].spot, spot |-> cur[d].spot]
          : c \in Matches(d)}]
  /\ fix' = [fix EXCEPT ![d] = {c \in Matches(d) : contacts[c].level < 6}]
  /\ UNCHANGED <<tables, heard, reports, session, sent, sess, dial, cur, upl,
                 failed, env>>

\* Seeded fault: the locator is appended to the one stored.
UpdateGridAppend(d) ==
  /\ pc[d] = "update"
  /\ \E c \in fix[d] :
       /\ fix' = [fix EXCEPT ![d] = @ \ {c}]
       /\ contacts' = IF c \in Rows(contacts)
                      THEN [contacts EXCEPT ![c].level = @ + 6] ELSE contacts
  /\ UNCHANGED <<messages, heard, reports, session, pc, queue, sent, sess,
                 dial, cur, upl, failed, env>>

\* Seeded fault: the row is written anew, without its mark.
UpdateGridUnmarked(d) ==
  /\ pc[d] = "update"
  /\ \E c \in fix[d] :
       /\ fix' = [fix EXCEPT ![d] = @ \ {c}]
       /\ contacts' = IF c \in Rows(contacts)
            THEN [contacts EXCEPT ![c].level = 6, ![c].uploaded = FALSE]
            ELSE contacts
  /\ UNCHANGED <<messages, heard, reports, session, pc, queue, sent, sess,
                 dial, cur, upl, failed, env>>

\* One update per match; an exception here would end the process.
UpdateGrid(d) ==
  /\ pc[d] = "update"
  /\ \E c \in fix[d] :
       /\ fix' = [fix EXCEPT ![d] = @ \ {c}]
       /\ contacts' = IF c \in Rows(contacts)
                      THEN [contacts EXCEPT ![c].level = 6] ELSE contacts
  /\ UNCHANGED <<messages, heard, reports, session, pc, queue, sent, sess,
                 dial, cur, upl, failed, env>>

UpdatesDone(d) ==
  /\ pc[d] = "update" /\ fix[d] = {} /\ UseNetwork(d)
  /\ UNCHANGED <<tables, heard, reports, session, queue, sent, decoding, upl,
                 failed, env>>

\* All messages of the recording are done: the thread and its sender go.
EndDecoder(d) ==
  /\ pc[d] = "message" /\ Goto(d, "done")
  /\ queue' = [queue EXCEPT ![d] = {}]
  /\ UNCHANGED <<tables, heard, reports, session, sent, decoding, upl, failed,
                 env>>

-----------------------------------------------------------------------------
(* WSPRNetSender.send, run by both kinds of threads.  The order in which   *)
(* one send takes its entries tells no property apart.                     *)

ReportOf(e) == [of |-> e.of, spot |-> e.spot]

Skip(t) == failed' = IF t \in Uploaders THEN [failed EXCEPT ![t] = TRUE]
                                        ELSE failed

\* Seeded fault: the row is marked whether the request went out or not.
PostUnchecked(t) ==
  /\ pc[t] = "post"
  /\ \E e \in queue[t], reached \in BOOLEAN :
       /\ reports' = IF reached THEN reports \cup {ReportOf(e)} ELSE reports
       /\ queue' = [queue EXCEPT ![t] = @ \ {e}]
       /\ Goto(t, "mark") /\ sent' = [sent EXCEPT ![t] = e]
  /\ UNCHANGED <<tables, heard, session, decoding, upl, failed, env>>

\* The request reaches the database or not, and its answer returns or not; an
\* exception skips the entry.
Post(t) ==
  /\ pc[t] = "post"
  /\ \E e \in queue[t], reached \in BOOLEAN, answered \in BOOLEAN :
       /\ answered => reached
       /\ reports' = IF reached THEN reports \cup {ReportOf(e)} ELSE reports
       /\ queue' = [queue EXCEPT ![t] = @ \ {e}]
       /\ IF answered
            THEN /\ Goto(t, "mark") /\ sent' = [sent EXCEPT ![t] = e]
                 /\ UNCHANGED failed
            ELSE Skip(t) /\ UNCHANGED <<pc, sent>>
  /\ UNCHANGED <<tables, heard, session, decoding, upl, env>>

\* The update of the row; its exception skips the entry too.
Mark(t) ==
  /\ pc[t] = "mark" /\ Goto(t, "post")
  /\ sent' = [sent EXCEPT ![t] = NoEntry]
  /\ \E ok \in BOOLEAN :
       /\ Statement(ok)
       /\ contacts' = IF ok /\ sent[t].id \in Rows(contacts)
                      THEN [contacts EXCEPT ![sent[t].id].uploaded = TRUE]
                      ELSE contacts
       /\ IF ok THEN UNCHANGED failed ELSE Skip(t)
  /\ UNCHANGED <<messages, heard, reports, session, queue, decoding, upl, main,
                 torn, wipes>>

SendDone(t) ==
  /\ pc[t] = "post" /\ queue[t] = {}
  /\ Goto(t, IF t \in Decoders THEN "message" ELSE "next")
  /\ UNCHANGED <<tables, heard, reports, session, queue, sent, decoding, upl,
                 failed, env>>

-----------------------------------------------------------------------------
(* LBSpotUploadService.                                                    *)

StopSelf(u) == upload' = IF upload = u THEN "none" ELSE upload

\* The cursor: joined contacts not marked.
Select(u) ==
  /\ pc[u] = "select"
  /\ LET found == {c \in Joined : ~contacts[c].uploaded}
     IN /\ rows' = [rows EXCEPT ![u] =
             {[id |-> c, spot |-> contacts[c].spot,
               band |-> messages[contacts[c].message].band] : c \in found}]
        /\ IF found = {} THEN Goto(u, "done") /\ StopSelf(u)
                         ELSE Goto(u, "row") /\ UNCHANGED upload
  /\ UNCHANGED <<tables, heard, reports, session, queue, sent, decoding,
                 taken, quitter, failed, env>>

\* The preference callsign is not set.
SelectNoCallsign(u) ==
  /\ pc[u] = "select" /\ Goto(u, "done") /\ StopSelf(u)
  /\ UNCHANGED <<tables, heard, reports, session, queue, sent, decoding, rows,
                 taken, quitter, failed, env>>

\* Seeded fault: an unknown band leaves the loop.
TakeRowGiveUp(u) ==
  /\ pc[u] = "row"
  /\ \E r \in rows[u] \ taken[u] :
       /\ taken' = [taken EXCEPT ![u] =
            IF r.band \in KnownBands THEN @ \cup {r} ELSE rows[u]]
       /\ queue' = [queue EXCEPT ![u] =
            @ \cup {[id |-> r.id, of |-> r.spot, spot |-> r.spot]}]
       /\ Goto(u, IF r.band \in KnownBands THEN "post" ELSE "next")
  /\ UNCHANGED <<tables, heard, reports, session, sent, decoding, rows,
                 quitter, upload, failed, env>>

\* The entry is appended before the band is looked up; an unknown band goes on
\* to the next row and leaves the entry in the sender.
TakeRow(u) ==
  /\ pc[u] = "row"
  /\ \E r \in rows[u] \ taken[u] :
       /\ taken' = [taken EXCEPT ![u] = @ \cup {r}]
       /\ queue' = [queue EXCEPT ![u] =
            @ \cup {[id |-> r.id, of |-> r.spot, spot |-> r.spot]}]
       /\ Goto(u, IF r.band \in KnownBands THEN "post" ELSE "next")
  /\ UNCHANGED <<tables, heard, reports, session, sent, decoding, rows,
                 quitter, upload, failed, env>>

\* The loop condition of the cursor.
NextRow(u) ==
  /\ pc[u] = "next" /\ rows[u] # taken[u] /\ ~quitter[u] /\ Goto(u, "row")
  /\ UNCHANGED <<tables, heard, reports, session, queue, sent, decoding, upl,
                 failed, env>>

\* What is left in the sender goes with the thread.
EndUpload(u) ==
  /\ pc[u] = "next" /\ (rows[u] = taken[u] \/ quitter[u])
  /\ Goto(u, "done") /\ StopSelf(u)
  /\ queue' = [queue EXCEPT ![u] = {}]
  /\ UNCHANGED <<tables, heard, reports, session, sent, decoding, rows, taken,
                 quitter, failed, env>>

\* An exception of the cursor or of the statement that send compiles ends the
\* upload, rows left or not.
UploadFails(u) ==
  /\ pc[u] \in {"select", "row", "next"} /\ Statement(FALSE)
  /\ Goto(u, "done") /\ StopSelf(u)
  /\ queue' = [queue EXCEPT ![u] = {}]
  /\ failed' = [failed EXCEPT ![u] = TRUE]
  /\ UNCHANGED <<tables, heard, reports, session, sent, decoding, rows, taken,
                 quitter, main, torn, wipes>>

-----------------------------------------------------------------------------
(* The main thread and the process.                                        *)

UploadClick(u) ==
  /\ main = "idle" /\ upload = "none" /\ pc[u] = "idle"
  /\ upload' = u /\ Goto(u, "select")
  /\ UNCHANGED <<tables, heard, reports, session, queue, sent, decoding, rows,
                 taken, quitter, failed, env>>

\* stopService and the onDestroy it leads to: the thread is only told.
AbortClick ==
  /\ main = "idle" /\ upload # "none"
  /\ quitter' = [quitter EXCEPT ![upload] = TRUE] /\ upload' = "none"
  /\ UNCHANGED <<tables, heard, reports, session, pc, queue, sent, decoding,
                 rows, taken, failed, env>>

Busy(t) == pc[t] \notin {"idle", "done", "dead"}

WipeMessages ==
  /\ main = "idle" /\ wipes < MaxWipes
  /\ messages' = <<>> /\ main' = "wipe" /\ wipes' = wipes + 1
  /\ torn' = (torn \/ \E t \in Threads : Busy(t))
  /\ UNCHANGED <<contacts, heard, reports, session, pc, queue, sent, decoding,
                 upl, failed, faults>>

WipeContacts ==
  /\ main = "wipe" /\ contacts' = <<>> /\ main' = "idle"
  /\ UNCHANGED <<messages, heard, reports, session, pc, queue, sent, decoding,
                 upl, failed, torn, wipes, faults>>

\* The process dies: the tables stay, no running thread does.
Crash ==
  /\ faults < MaxFaults /\ faults' = faults + 1
  /\ pc' = [t \in Threads |->
              IF pc[t] \in {"idle", "done"} THEN pc[t] ELSE "dead"]
  /\ queue' = [t \in Threads |-> {}] /\ sent' = [t \in Threads |-> NoEntry]
  /\ cur' = [d \in Decoders |-> NoMessage] /\ fix' = [d \in Decoders |-> {}]
  /\ session' = 0 /\ upload' = "none"
  /\ main' = "idle" /\ torn' = (torn \/ main = "wipe")
  /\ UNCHANGED <<tables, heard, reports, sess, dial, rows, taken, quitter,
                 failed, wipes>>

Send(t) == Post(t) \/ Mark(t) \/ SendDone(t)
Decoder(d) ==
  \/ StartDecoder(d) \/ StoreMessage(d) \/ StoreBadMessage(d)
  \/ StoreContact(d) \/ QueryHash(d) \/ UpdateGrid(d) \/ UpdatesDone(d)
  \/ EndDecoder(d)
Uploader(u) ==
  \/ Select(u) \/ SelectNoCallsign(u) \/ TakeRow(u) \/ NextRow(u)
  \/ EndUpload(u) \/ UploadFails(u)
Main ==
  \/ WipeMessages \/ WipeContacts \/ AbortClick
  \/ \E u \in Uploaders : UploadClick(u)

Next ==
  \/ \E t \in Threads : Send(t)
  \/ \E d \in Decoders : Decoder(d)
  \/ \E u \in Uploaders : Uploader(u)
  \/ StartService \/ Main \/ Crash

Spec == Init /\ [][Next]_vars

\* The threads get their turns.  A request may stay without an answer or an
\* error for ever, as no timeout is set on it.
FairSpec ==
  /\ Spec
  /\ \A u \in Uploaders : WF_vars(Uploader(u) \/ Mark(u) \/ SendDone(u))

-----------------------------------------------------------------------------
(* Properties.                                                             *)

TablesType ==
  /\ messages \in Seq(Message) /\ contacts \in Seq(Contact)
  /\ heard \in Seq(Spot) /\ reports \subseteq Report
SenderType ==
  /\ pc \in [Threads -> Pcs] /\ queue \in [Threads -> SUBSET Entry]
  /\ sent \in [Threads -> Entry]
DecoderType ==
  /\ sess \in [Decoders -> Nat] /\ dial \in [Decoders -> Bands]
  /\ cur \in [Decoders -> Current] /\ fix \in [Decoders -> SUBSET Nat]
UploaderType ==
  /\ rows \in [Uploaders -> SUBSET Row]
  /\ taken \in [Uploaders -> SUBSET Row]
  /\ quitter \in [Uploaders -> BOOLEAN] /\ failed \in [Uploaders -> BOOLEAN]
  /\ upload \in Uploaders \cup {"none"}

\* Tables, senders and threads keep their types: whatever fails, rows hold ids
\* of rows or the -1 of a failed insert.
TypeOK ==
  /\ TablesType /\ session \in Nat /\ SenderType /\ DecoderType /\ UploaderType
  /\ main \in {"idle", "wipe"} /\ torn \in BOOLEAN
  /\ wipes \in Nat /\ faults \in Nat

LogTrue ==
  \A c \in Joined : messages[contacts[c].message].spot = contacts[c].spot

\* A reception, or a type 3 one of the same session with the same hash, which
\* is the most its receiver can know of whose locator it brings.
Stands(t, s) ==
  \/ t = s
  \/ /\ heard[t].kind = "type3" /\ heard[t].session = heard[s].session
     /\ Hash[heard[t].call] = Hash[heard[s].call]
UploadedIsReported ==
  \A c \in Rows(contacts) : contacts[c].uploaded =>
    \E r \in reports : r.of = contacts[c].spot /\ Stands(r.spot, r.of)

\* Unless a wipe is torn, each log entry joins the message it came in, however
\* decoders interleave and whatever inserts fail.
LogTrueUnlessTorn == ~torn => LogTrue

\* Unless a wipe is torn, no failure, crash or overlap of senders marks a
\* contact the database was not told of: a report under its call sign arrived,
\* of its own reception or of a type 3 message that goes with it.  (The code
\* makes no difference: a contact whose own report failed is marked, and never
\* sent again, when the report of a type 3 message is answered.)
ReportedUnlessTorn == ~torn => UploadedIsReported

\* Unless a wipe is torn, a six-letter locator comes from a type 3 message with
\* the hash of the contact, in the session of the contact.
GridFromOwnSession ==
  ~torn =>
    \A c \in Rows(contacts) : contacts[c].level = 6 =>
      \E h \in Rows(heard) :
        /\ heard[h].kind = "type3"
        /\ heard[h].session = heard[contacts[c].spot].session
        /\ Hash[heard[h].call] = Hash[contacts[c].call]

\* An upload that runs to its end, with no abort, no wipe and no failed
\* request, has marked every row of its cursor that has a known band: rows of
\* unknown bands and other senders do not make it lose one.
UploadComplete ==
  \A u \in Uploaders :
    (pc[u] = "done" /\ ~quitter[u] /\ ~failed[u] /\ wipes = 0)
      => \A r \in rows[u] : r.band \in KnownBands => contacts[r.id].uploaded

\* The decoded messages to come and those whose contact is about to be stored.
Pending ==
  (1..MaxSpots \ Rows(heard)) \cup
    {cur[d].spot : d \in {e \in Decoders : pc[e] = "contact"}}
Logged == {contacts[c].spot : c \in Rows(contacts)}
Marked == {c \in Rows(contacts) : contacts[c].uploaded}
Confirmed == {contacts[c].spot : c \in Marked}

\* Tables and reports keep the promise of the ledger, wipes included: a spot is
\* logged once, reported only behind its contact, and marked only when a report
\* names it, until a wipe is torn.
Ledger == INSTANCE SpotLedger WITH
  Spots <- 1..MaxSpots, pending <- Pending, logged <- Logged,
  delivered <- reports, confirmed <- Confirmed
LedgerKept == Ledger!Spec

-----------------------------------------------------------------------------
(* What the documentation says and the code does not do.                   *)

\* A spot "not belonging to any known band" is not sent with a band: the
\* sender of an upload that sends holds spots of known bands only.
RejectedNotPosted ==
  \A u \in Uploaders : pc[u] = "post" =>
    \A e \in queue[u] : heard[e.of].band \in KnownBands

===============================================================================
