------------------------------ MODULE LBService ------------------------------
(***************************************************************************)
(* The RX/TX service of the application: the worker thread LBService.run,  *)
(* the main thread that delivers preference notifications, menu clicks and *)
(* location fixes and that executes onDestroy, and the state the two       *)
(* share.  One behaviour is the life of one service object, from the start *)
(* of its thread (onStartCommand) to the end of thread and onDestroy.      *)
(*                                                                         *)
(* Every step is one access to shared state: two accesses are in the same  *)
(* step only when no other thread can tell them apart.                     *)
(***************************************************************************)
EXTENDS Integers

CONSTANTS
  Squares,      \* 4-character locator squares the device may be in
  Subsquares,   \* last two characters of a 6-character locator
  Setups,       \* settings that cannot change while the service lives
  MaxOps,       \* bound: user clicks and location fixes in a behaviour
  RxReads       \* AudioRecord.read calls that fill the 114 s of a recording

\* The settings activity stops the service before it shows them, so these are
\* fixed: the call sign (plain, or with a prefix or suffix), use_6letter, a
\* call sign that is accepted for transmission, ptt_ctl other than "none".
Setup == [compound : BOOLEAN, six : BOOLEAN, txable : BOOLEAN, torch : BOOLEAN]

ASSUME SetupsAssumption == Setups \subseteq Setup
ASSUME LocatorsAssumption == Squares # {} /\ Subsquares # {}
ASSUME BoundsAssumption == MaxOps \in Nat /\ RxReads \in Nat \ {0}

VARIABLES
  setup,              \* the fixed settings of this behaviour
  \* SharedPreferences, shared by all threads
  use_tx, switch_mode_next, tx_next_counter, gridsq,
  \* history: transmissions asked for with TX Next and not on the air yet, and
  \* whether a write of tx_next_counter hid one it had not read
  owed, overwritten,
  \* fields of the service object, and the device
  quitter, settings_version, audio, ar, wake, torch,
  \* locals of run() and its program counter
  pc, setsVersion, txNextCounter, doTx, use_txsound2, next_is_txsound2,
  txsound, txsound2, total,
  \* the main thread
  main,       \* its program counter
  posted,     \* preference notifications posted to it by the worker
  stopping,   \* stopService or stopSelf was called
  listening,  \* the service is a registered preference listener
  menuRead,   \* the value the TX Next menu item read
  toast,      \* the last mode promised to the user by the switch menu item
  ops         \* user clicks and location fixes so far

history == <<owed, overwritten>>
prefs  == <<use_tx, switch_mode_next, tx_next_counter, gridsq, history>>
device == <<audio, ar, wake, torch>>
sounds == <<use_txsound2, next_is_txsound2, txsound, txsound2>>
local  == <<setsVersion, txNextCounter, doTx, total>>
ui     == <<main, stopping, listening, menuRead, toast, ops>>
vars   == <<setup, prefs, device, sounds, local, ui,
            quitter, settings_version, posted, pc>>

-----------------------------------------------------------------------------
(* Data: locators, encoded sounds, the platform's audio objects.           *)

Locators == Squares \X Subsquares

\* A buffer made by WSPREncodeToPCM: its WSPR message type and the locator
\* characters it carries.  Silence is the empty array.
Silence   == [type |-> "none", loc |-> <<>>]
Type1(l)  == [type |-> "type1", loc |-> <<l[1]>>]
Type2     == [type |-> "type2", loc |-> <<>>]
Type3(l)  == [type |-> "type3", loc |-> l]
Sound     == {Silence, Type2} \cup {Type1(l) : l \in Locators}
                              \cup {Type3(l) : l \in Locators}

\* An AudioTrack reference with what was written to it, and an AudioRecord one.
\* The platform may hand out either object uninitialised, and a recorder may
\* die while it is read.
TrackState == {"null", "uninit", "open", "playing", "released"}
Track    == [state : TrackState, sound : Sound]
NoTrack  == [state |-> "null", sound |-> Silence]
Recorder == {"null", "uninit", "open", "dead", "released"}

\* The worker has returned or its uncaught exception has killed the process.
WorkerPcs ==
  {"start", "loop", "version", "load", "flip", "encode", "clock", "sleep",
   "permit", "arStart", "arInit", "second", "decide", "counter",
   "torchOn", "newTrack", "write", "play", "airing", "guard", "playState",
   "stopTrack", "release", "torchOff", "txDone", "rxStart", "rxLoop",
   "rxRead", "rxBlocked", "rxClean", "rxRelease", "exit", "wakeRelease",
   "ended", "crashed"}
DestroyPcs == {"unregister", "audioRelease", "audioNull", "arRelease",
               "arNull", "torchReset", "wakeReset", "destroyed"}
MainPcs    == {"idle", "notify", "incr", "swNotify", "swReset", "swNotify2",
               "swToast"} \cup DestroyPcs

-----------------------------------------------------------------------------
Init ==
  /\ setup \in Setups
  /\ use_tx \in BOOLEAN /\ switch_mode_next \in BOOLEAN
  /\ tx_next_counter = 0                 \* reset by the toggle button
  /\ gridsq \in Locators
  /\ owed = 0 /\ overwritten = FALSE
  /\ quitter = FALSE /\ settings_version = 0
  /\ audio = NoTrack /\ ar = "null" /\ wake = FALSE /\ torch = FALSE
  /\ pc = "start" /\ setsVersion = -1 /\ txNextCounter = 0 /\ doTx = FALSE
  /\ use_txsound2 = FALSE /\ next_is_txsound2 = FALSE
  /\ txsound = Silence /\ txsound2 = Silence /\ total = 0
  /\ main = "idle" /\ posted = 0 /\ stopping = FALSE /\ listening = TRUE
  /\ menuRead = 0 /\ toast = "none" /\ ops = 0

Running == pc \notin {"ended", "crashed"}
Alive   == pc # "crashed"          \* the process and its main thread

-----------------------------------------------------------------------------
(* The worker: the head of the loop and the reload of the settings.        *)

Step(from, to) == pc = from /\ pc' = to

\* Lines 277-296: the wake lock is taken whatever onDestroy has done already.
Acquire ==
  /\ Step("start", "loop") /\ wake' = TRUE
  /\ UNCHANGED <<setup, prefs, audio, ar, torch, sounds, local, ui, quitter,
                 settings_version, posted>>

\* Lines 297-298: the loop condition, then the counter of this cycle.
LoopHead ==
  /\ pc = "loop"
  /\ \/ quitter /\ pc' = "exit" /\ UNCHANGED txNextCounter
     \/ ~quitter /\ pc' = "version" /\ txNextCounter' = tx_next_counter
  /\ UNCHANGED <<setup, prefs, device, sounds, setsVersion, doTx, total, ui,
                 quitter, settings_version, posted>>

\* Lines 299-300: the version is stored before any preference is read.
CheckVersion ==
  /\ pc = "version"
  /\ pc' = IF setsVersion = settings_version THEN "clock" ELSE "load"
  /\ setsVersion' = settings_version
  /\ UNCHANGED <<setup, prefs, device, sounds, txNextCounter, doTx, total, ui,
                 quitter, settings_version, posted>>

\* Lines 301-304.
LoadMode ==
  /\ pc = "load"
  /\ pc' = IF switch_mode_next THEN "flip" ELSE "encode"
  /\ doTx' = use_tx
  /\ UNCHANGED <<setup, prefs, device, sounds, setsVersion, txNextCounter,
                 total, ui, quitter, settings_version, posted>>

\* A commit by the worker posts one notification per changed key to the
\* listeners registered at that moment.
Post(n) == posted' = IF listening THEN posted + n ELSE posted

\* Lines 305-310: both keys in one commit.
FlipMode ==
  /\ Step("flip", "encode")
  /\ use_tx' = ~doTx /\ switch_mode_next' = FALSE /\ doTx' = ~doTx
  /\ Post(2)
  /\ UNCHANGED <<setup, tx_next_counter, gridsq, history, device, sounds,
                 setsVersion, txNextCounter, total, ui, quitter,
                 settings_version>>

\* Seeded fault: the version is stored again after the preferences were read.
EncodeStampLate ==
  /\ Step("encode", "clock") /\ setsVersion' = settings_version
  /\ use_txsound2' = (setup.compound \/ setup.six)
  /\ next_is_txsound2' = FALSE
  /\ txsound' = IF doTx /\ setup.txable
                  THEN IF setup.compound THEN Type2 ELSE Type1(gridsq)
                  ELSE Silence
  /\ txsound2' = IF doTx /\ setup.txable /\ use_txsound2'
                   THEN Type3(gridsq) ELSE Silence
  /\ UNCHANGED <<setup, prefs, device, txNextCounter, doTx, total, ui, quitter,
                 settings_version, posted>>

\* Seeded fault: a reload keeps a second half that was due.
EncodeKeepHalf ==
  /\ Step("encode", "clock")
  /\ use_txsound2' = (setup.compound \/ setup.six)
  /\ txsound' = IF doTx /\ setup.txable
                  THEN IF setup.compound THEN Type2 ELSE Type1(gridsq)
                  ELSE Silence
  /\ txsound2' = IF doTx /\ setup.txable /\ use_txsound2'
                   THEN Type3(gridsq) ELSE Silence
  /\ UNCHANGED <<setup, prefs, device, next_is_txsound2, local, ui, quitter,
                 settings_version, posted>>

\* Lines 322-371: the halves of a two-part transmission come from one read of
\* the locator; when nothing will be sent only the buffers are cleared.
Encode ==
  /\ Step("encode", "clock")
  /\ IF doTx /\ setup.txable
       THEN /\ use_txsound2' = (setup.compound \/ setup.six)
            /\ next_is_txsound2' = FALSE
            /\ txsound' = IF setup.compound THEN Type2 ELSE Type1(gridsq)
            /\ txsound2' = IF setup.compound \/ setup.six
                             THEN Type3(gridsq) ELSE Silence
       ELSE /\ txsound' = Silence /\ txsound2' = Silence
            /\ UNCHANGED <<use_txsound2, next_is_txsound2>>
  /\ UNCHANGED <<setup, prefs, device, local, ui, quitter, settings_version,
                 posted>>

-----------------------------------------------------------------------------
(* The worker: waiting for the two-minute slot, opening the recorder.      *)

\* Lines 409-412 and 423: the first second of an even minute.
SlotStart ==
  /\ Step("clock", "permit")
  /\ UNCHANGED <<setup, prefs, device, sounds, local, ui, quitter,
                 settings_version, posted>>

\* Lines 413-416: any other time.
SlotMissed ==
  /\ Step("clock", "sleep")
  /\ UNCHANGED <<setup, prefs, device, sounds, local, ui, quitter,
                 settings_version, posted>>

\* Lines 417-422.
WakeUp ==
  /\ pc = "sleep"
  /\ pc' = IF quitter THEN "ended" ELSE "loop"
  /\ UNCHANGED <<setup, prefs, device, sounds, local, ui, quitter,
                 settings_version, posted>>

\* Lines 428-432: the recording permission was withdrawn.
Denied ==
  /\ Step("permit", "ended") /\ stopping' = TRUE
  /\ UNCHANGED <<setup, prefs, device, sounds, local, main, listening,
                 menuRead, toast, ops, quitter, settings_version, posted>>

\* Line 433, and the buffer counters of 443-445.  The constructor of the
\* platform reports no error: the recorder may come out uninitialised.
OpenRecorder ==
  /\ Step("permit", "arStart") /\ ar' \in {"open", "uninit"} /\ total' = 0
  /\ UNCHANGED <<setup, prefs, audio, wake, torch, sounds, setsVersion,
                 txNextCounter, doTx, ui, quitter, settings_version, posted>>

\* A call on an AudioRecord or AudioTrack that throws unless the object is
\* there, initialised and not released; nothing catches the exception.
Unguarded(usable, from, to) ==
  /\ pc = from
  /\ pc' = IF usable THEN to ELSE "crashed"

\* Line 434.
StartRecorder ==
  /\ Unguarded(ar = "open", "arStart", "arInit")
  /\ UNCHANGED <<setup, prefs, device, sounds, local, ui, quitter,
                 settings_version, posted>>

\* Lines 435-441.  Line 434 has let only an initialised recorder through, so
\* what the poll finds not initialised is one that onDestroy has released,
\* and then quitter, set before, ends the poll at its first test.
RecorderReady ==
  /\ Unguarded(ar # "null", "arInit", "second")
  /\ UNCHANGED <<setup, prefs, device, sounds, local, ui, quitter,
                 settings_version, posted>>

\* Lines 451-458: spin until second 1.
SecondOne ==
  /\ Step("second", "decide")
  /\ UNCHANGED <<setup, prefs, device, sounds, local, ui, quitter,
                 settings_version, posted>>

\* Seeded fault: a draw or a pending half transmits in the reception mode too.
DecideAnyMode ==
  /\ pc = "decide"
  /\ \E lucky \in BOOLEAN :
       pc' = IF quitter THEN "ended"
             ELSE IF setup.txable
                     /\ (lucky \/ next_is_txsound2 \/ txNextCounter > 0)
             THEN "counter" ELSE "rxStart"
  /\ UNCHANGED <<setup, prefs, device, sounds, local, ui, quitter,
                 settings_version, posted>>

\* Lines 460-466 and 578: lucky is the draw against tx_probability.
Decide ==
  /\ pc = "decide"
  /\ \E lucky \in BOOLEAN :
       pc' = IF quitter THEN "ended"
             ELSE IF setup.txable /\ doTx
                     /\ (lucky \/ next_is_txsound2 \/ txNextCounter > 0)
             THEN "counter" ELSE "rxStart"
  /\ UNCHANGED <<setup, prefs, device, sounds, local, ui, quitter,
                 settings_version, posted>>

-----------------------------------------------------------------------------
(* The worker: one transmission.                                           *)

\* A write of tx_next_counter by one that read the value seen hides a write
\* made since.
Overwrite(seen) ==
  overwritten' = (overwritten \/ tx_next_counter # seen)

\* Seeded fault: the counter is decremented without looking at it.
ConsumeUnchecked ==
  /\ Step("counter", "torchOn") /\ tx_next_counter' = txNextCounter - 1
  /\ Post(1)
  /\ UNCHANGED <<setup, use_tx, switch_mode_next, gridsq, history, device,
                 sounds, local, ui, quitter, settings_version>>

\* Seeded fault: one transmission clears the counter.
ConsumeAll ==
  /\ Step("counter", "torchOn")
  /\ IF txNextCounter > 0
       THEN /\ tx_next_counter' = 0 /\ Overwrite(txNextCounter)
            /\ Post(IF tx_next_counter' # tx_next_counter THEN 1 ELSE 0)
       ELSE UNCHANGED <<tx_next_counter, overwritten, posted>>
  /\ UNCHANGED <<setup, use_tx, switch_mode_next, gridsq, owed, device, sounds,
                 local, ui, quitter, settings_version>>

\* Lines 466-469: the value written comes from the read at the loop head.
ConsumeTxNext ==
  /\ Step("counter", "torchOn")
  /\ IF txNextCounter > 0
       THEN /\ tx_next_counter' = txNextCounter - 1
            /\ Overwrite(txNextCounter)
            /\ Post(IF tx_next_counter' # tx_next_counter THEN 1 ELSE 0)
       ELSE UNCHANGED <<tx_next_counter, overwritten, posted>>
  /\ UNCHANGED <<setup, use_tx, switch_mode_next, gridsq, owed, device, sounds,
                 local, ui, quitter, settings_version>>

\* Lines 471-479.
TorchOn ==
  /\ Step("torchOn", "newTrack") /\ torch' = setup.torch
  /\ UNCHANGED <<setup, prefs, audio, ar, wake, sounds, local, ui, quitter,
                 settings_version, posted>>

Half == IF next_is_txsound2 THEN txsound2 ELSE txsound

\* Lines 481-511: the constructor rejects a buffer of length zero, and may
\* return a track that is not initialised.
NewTrack ==
  /\ Unguarded(Half # Silence, "newTrack", "write")
  /\ IF Half # Silence
       THEN \E s \in {"open", "uninit"} :
              audio' = [state |-> s, sound |-> Silence]
       ELSE UNCHANGED audio
  /\ UNCHANGED <<setup, prefs, ar, wake, torch, sounds, local, ui, quitter,
                 settings_version, posted>>

\* Lines 515-524: a write to a released or uninitialised track is an error
\* code, not an exception, so the flags move on.
WriteTrack ==
  /\ Unguarded(audio.state # "null", "write", "play")
  /\ IF audio.state = "null"
       THEN UNCHANGED <<audio, next_is_txsound2>>
       ELSE /\ audio' = IF audio.state = "open"
                          THEN [audio EXCEPT !.sound = Half] ELSE audio
            /\ next_is_txsound2' = (~next_is_txsound2 /\ use_txsound2)
  /\ UNCHANGED <<setup, prefs, ar, wake, torch, use_txsound2, txsound,
                 txsound2, local, ui, quitter, settings_version, posted>>

\* Line 526: on the air, with a transmission of TX Next when the cycle began
\* with a counter above zero.
Play ==
  /\ Unguarded(audio.state = "open", "play", "airing")
  /\ IF audio.state = "open"
       THEN /\ audio' = [audio EXCEPT !.state = "playing"]
            /\ owed' = IF txNextCounter > 0 /\ owed > 0 THEN owed - 1
                       ELSE owed
       ELSE UNCHANGED <<audio, owed>>
  /\ UNCHANGED <<setup, use_tx, switch_mode_next, tx_next_counter, gridsq,
                 overwritten, ar, wake, torch, sounds, local, ui, quitter,
                 settings_version, posted>>

\* A check of quitter after a sleep: 528-531, 536-538, 570-574.
ReturnIfQuit(from, to) ==
  /\ pc = from
  /\ pc' = IF quitter THEN "ended" ELSE to
  /\ UNCHANGED <<setup, prefs, device, sounds, local, ui, quitter,
                 settings_version, posted>>

\* Lines 527-533.
AirEnds   == ReturnIfQuit("airing", "guard")
\* Lines 535-538.
GuardNull == ReturnIfQuit("guard", "playState")

\* Lines 540-541.
PlayState ==
  /\ Unguarded(audio.state # "null", "playState",
               IF audio.state = "playing" THEN "stopTrack" ELSE "release")
  /\ UNCHANGED <<setup, prefs, device, sounds, local, ui, quitter,
                 settings_version, posted>>

\* Lines 542-550: half a second more, then stop; exceptions are swallowed.
StopTrack ==
  /\ pc = "stopTrack"
  /\ pc' = IF quitter THEN "ended" ELSE "release"
  /\ audio' = IF ~quitter /\ audio.state = "playing"
                THEN [audio EXCEPT !.state = "open"] ELSE audio
  /\ UNCHANGED <<setup, prefs, ar, wake, torch, sounds, local, ui, quitter,
                 settings_version, posted>>

\* Line 552.
ReleaseTrack ==
  /\ Unguarded(audio.state # "null", "release", "torchOff")
  /\ audio' = IF audio.state = "null" THEN audio
              ELSE [audio EXCEPT !.state = "released"]
  /\ UNCHANGED <<setup, prefs, ar, wake, torch, sounds, local, ui, quitter,
                 settings_version, posted>>

\* Seeded fault: the torch stays lit when a second half is due.
TorchKept ==
  /\ Step("torchOff", "txDone")
  /\ torch' = (torch /\ next_is_txsound2)
  /\ UNCHANGED <<setup, prefs, audio, ar, wake, sounds, local, ui, quitter,
                 settings_version, posted>>

\* Lines 554-568.
TorchOff ==
  /\ Step("torchOff", "txDone") /\ torch' = FALSE
  /\ UNCHANGED <<setup, prefs, audio, ar, wake, sounds, local, ui, quitter,
                 settings_version, posted>>

\* Lines 570-576.
TxDone == ReturnIfQuit("txDone", "loop")

-----------------------------------------------------------------------------
(* The worker: one recording.                                              *)

\* Lines 582-587.
RxStart ==
  /\ Unguarded(ar = "open", "rxStart", "rxLoop")
  /\ UNCHANGED <<setup, prefs, device, sounds, local, ui, quitter,
                 settings_version, posted>>

\* Lines 588 and 624-627: run is total < RxReads.
RxLoop ==
  /\ pc = "rxLoop"
  /\ pc' = IF quitter THEN "ended"
           ELSE IF total < RxReads THEN "rxRead" ELSE "rxClean"
  /\ stopping' = (stopping \/ quitter)
  /\ UNCHANGED <<setup, prefs, device, sounds, local, main, listening,
                 menuRead, toast, ops, quitter, settings_version, posted>>

\* Line 589: the field is read, then the call blocks on that object.
RxRead ==
  /\ Unguarded(ar # "null", "rxRead", "rxBlocked")
  /\ UNCHANGED <<setup, prefs, device, sounds, local, ui, quitter,
                 settings_version, posted>>

\* Lines 589-621 with data.
RxData ==
  /\ Step("rxBlocked", "rxLoop") /\ ar = "open" /\ total' = total + 1
  /\ UNCHANGED <<setup, prefs, device, sounds, setsVersion, txNextCounter,
                 doTx, ui, quitter, settings_version, posted>>

\* Lines 589-621 when the recorder fails: the platform returns a negative code,
\* which baos.write rejects with an exception.
RxFails ==
  /\ Step("rxBlocked", "crashed") /\ ar = "open" /\ ar' = "dead"
  /\ UNCHANGED <<setup, prefs, audio, wake, torch, sounds, local, ui, quitter,
                 settings_version, posted>>

\* Lines 589-621 when onDestroy releases the recorder under the call: it
\* returns nothing, or a negative code that baos.write rejects.
RxAborted ==
  /\ pc = "rxBlocked" /\ ar # "open" /\ pc' \in {"rxLoop", "crashed"}
  /\ UNCHANGED <<setup, prefs, device, sounds, local, ui, quitter,
                 settings_version, posted>>

\* Lines 630-636: the catch does not cover a null reference.
RxClean ==
  /\ Unguarded(ar # "null", "rxClean", "rxRelease")
  /\ UNCHANGED <<setup, prefs, device, sounds, local, ui, quitter,
                 settings_version, posted>>

\* Lines 637-650; the decoder thread it starts is another component.
RxRelease ==
  /\ Unguarded(ar # "null", "rxRelease", "loop")
  /\ ar' = IF ar = "null" THEN ar ELSE "released"
  /\ UNCHANGED <<setup, prefs, audio, wake, torch, sounds, local, ui, quitter,
                 settings_version, posted>>

-----------------------------------------------------------------------------
(* The worker: the end of run().                                           *)

\* Seeded fault: the lock is left to onDestroy.
ExitHolding ==
  /\ Step("exit", "ended") /\ stopping' = TRUE
  /\ UNCHANGED <<setup, prefs, device, sounds, local, main, listening,
                 menuRead, toast, ops, quitter, settings_version, posted>>

\* Line 654, and 657 when the lock is not held.
ExitLoop ==
  /\ pc = "exit"
  /\ pc' = IF wake THEN "wakeRelease" ELSE "ended"
  /\ stopping' = (stopping \/ ~wake)
  /\ UNCHANGED <<setup, prefs, device, sounds, local, main, listening,
                 menuRead, toast, ops, quitter, settings_version, posted>>

\* Lines 655-657: releasing a lock that is not held throws.
ExitRelease ==
  /\ Unguarded(wake, "wakeRelease", "ended")
  /\ wake' = FALSE /\ stopping' = (stopping \/ wake)
  /\ UNCHANGED <<setup, prefs, audio, ar, torch, sounds, local, main,
                 listening, menuRead, toast, ops, quitter, settings_version,
                 posted>>

Reload   == LoopHead \/ CheckVersion \/ LoadMode \/ FlipMode \/ Encode
AwaitSlot == \/ SlotStart \/ SlotMissed \/ WakeUp \/ Denied \/ OpenRecorder
             \/ StartRecorder \/ RecorderReady \/ SecondOne \/ Decide
Transmit == \/ ConsumeTxNext \/ TorchOn \/ NewTrack \/ WriteTrack \/ Play
            \/ AirEnds \/ GuardNull \/ PlayState \/ StopTrack \/ ReleaseTrack
            \/ TorchOff \/ TxDone
Receive  == \/ RxStart \/ RxLoop \/ RxRead \/ RxData \/ RxFails \/ RxAborted
            \/ RxClean \/ RxRelease
Worker   == Acquire \/ Reload \/ AwaitSlot \/ Transmit \/ Receive
            \/ ExitLoop \/ ExitRelease

-----------------------------------------------------------------------------
(* The main thread: user clicks, location fixes, notifications.            *)

\* Where a handler returns to: the main thread outlives the service.
Home     == IF quitter THEN "destroyed" ELSE "idle"
MainFree == main \in {"idle", "destroyed"} /\ pc # "crashed"
Click    == MainFree /\ ops < MaxOps /\ ops' = ops + 1

\* A commit on the main thread calls the listeners before it returns.
AfterCommit(listener, next) == IF listening THEN listener ELSE next

\* LBService.onSharedPreferenceChanged, called from a commit of a handler.
Notified(from, next) ==
  /\ main = from /\ main' = next /\ pc # "crashed"
  /\ settings_version' = settings_version + 1
  /\ UNCHANGED <<setup, prefs, device, sounds, local, stopping, listening,
                 menuRead, toast, ops, quitter, posted, pc>>

\* LBService.onSharedPreferenceChanged, from a notification the worker posted.
Deliver ==
  /\ MainFree /\ posted > 0 /\ posted' = posted - 1
  /\ settings_version' = settings_version + 1
  /\ UNCHANGED <<setup, prefs, device, sounds, local, ui, quitter, pc>>

\* Menu item "TX Next": read, then write one more.
TxNextClick ==
  /\ Click /\ main' = "incr" /\ menuRead' = tx_next_counter
  /\ UNCHANGED <<setup, prefs, device, sounds, local, stopping, listening,
                 toast, quitter, settings_version, posted, pc>>

TxNextCommit ==
  /\ main = "incr" /\ main' = AfterCommit("notify", Home) /\ pc # "crashed"
  /\ tx_next_counter' = menuRead + 1
  /\ owed' = owed + 1 /\ Overwrite(menuRead)
  /\ UNCHANGED <<setup, use_tx, switch_mode_next, gridsq, device, sounds,
                 local, stopping, listening, menuRead, toast, ops, quitter,
                 settings_version, posted, pc>>

\* Menu item "Switch RX/TX on next cycle": raise the flag, cancel the counted
\* transmissions, then tell the user which mode comes, from a fresh read.
SwitchClick ==
  /\ Click /\ switch_mode_next' = TRUE
  /\ main' = IF switch_mode_next THEN "swReset"
             ELSE AfterCommit("swNotify", "swReset")
  /\ UNCHANGED <<setup, use_tx, tx_next_counter, gridsq, history, device,
                 sounds, local, stopping, listening, menuRead, toast, quitter,
                 settings_version, posted, pc>>

SwitchReset ==
  /\ main = "swReset" /\ pc # "crashed"
  /\ tx_next_counter' = 0 /\ owed' = 0 /\ overwritten' = FALSE
  /\ main' = IF tx_next_counter > 0 THEN AfterCommit("swNotify2", "swToast")
             ELSE "swToast"
  /\ UNCHANGED <<setup, use_tx, switch_mode_next, gridsq, device, sounds,
                 local, stopping, listening, menuRead, toast, ops, quitter,
                 settings_version, posted, pc>>

SwitchToast ==
  /\ main = "swToast" /\ main' = Home /\ pc # "crashed"
  /\ toast' = IF use_tx THEN "rx" ELSE "tx"
  /\ UNCHANGED <<setup, prefs, device, sounds, local, stopping, listening,
                 menuRead, ops, quitter, settings_version, posted, pc>>

\* onLocationChanged and saveLocation: only a different locator is written.
\* The updates are never removed, so they go on after onDestroy.
LocationChanged ==
  /\ Click
  /\ \E l \in Locators \ {gridsq} : gridsq' = l
  /\ main' = AfterCommit("notify", Home)
  /\ UNCHANGED <<setup, use_tx, switch_mode_next, tx_next_counter, history,
                 device, sounds, local, stopping, listening, menuRead, toast,
                 quitter, settings_version, posted, pc>>

\* The band menu writes a preference the worker does not load.
BandClick ==
  /\ Click /\ main' = AfterCommit("notify", Home)
  /\ UNCHANGED <<setup, prefs, device, sounds, local, stopping, listening,
                 menuRead, toast, quitter, settings_version, posted, pc>>

\* The toggle button, or opening the settings: stopService.
StopClick ==
  /\ Click /\ ~stopping /\ stopping' = TRUE
  /\ UNCHANGED <<setup, prefs, device, sounds, local, main, listening,
                 menuRead, toast, quitter, settings_version, posted, pc>>

Handler ==
  \/ Notified("notify", Home) \/ Notified("swNotify", "swReset")
  \/ Notified("swNotify2", "swToast")
  \/ TxNextCommit \/ SwitchReset \/ SwitchToast
User == TxNextClick \/ SwitchClick \/ BandClick \/ LocationChanged
        \/ StopClick

-----------------------------------------------------------------------------
(* The main thread: LBService.onDestroy, one step per shared access.       *)

DestroyStep(from, to) == main = from /\ main' = to /\ pc # "crashed"
KeepDestroy == UNCHANGED <<setup, prefs, sounds, local, stopping, menuRead,
                           toast, ops, settings_version, posted, pc>>

\* Seeded fault: onDestroy does not tell the worker.
SetQuitterNot ==
  /\ stopping /\ DestroyStep("idle", "unregister")
  /\ UNCHANGED <<device, listening, quitter>> /\ KeepDestroy

\* Lines 163-168.
SetQuitter ==
  /\ stopping /\ DestroyStep("idle", "unregister") /\ quitter' = TRUE
  /\ UNCHANGED <<device, listening>> /\ KeepDestroy

\* Lines 170-175.
Unregister ==
  /\ DestroyStep("unregister", "audioRelease") /\ listening' = FALSE
  /\ UNCHANGED <<device, quitter>> /\ KeepDestroy

\* Lines 177-182.
DestroyAudio ==
  /\ main = "audioRelease" /\ pc # "crashed"
  /\ main' = IF audio.state = "null" THEN "arRelease" ELSE "audioNull"
  /\ audio' = IF audio.state = "null" THEN audio
              ELSE [audio EXCEPT !.state = "released"]
  /\ UNCHANGED <<ar, wake, torch, quitter, listening>> /\ KeepDestroy

\* Line 183.
ForgetAudio ==
  /\ DestroyStep("audioNull", "arRelease") /\ audio' = NoTrack
  /\ UNCHANGED <<ar, wake, torch, quitter, listening>> /\ KeepDestroy

\* Lines 190-195.
DestroyRecorder ==
  /\ main = "arRelease" /\ pc # "crashed"
  /\ main' = IF ar = "null" THEN "torchReset" ELSE "arNull"
  /\ ar' = IF ar = "null" THEN ar ELSE "released"
  /\ UNCHANGED <<audio, wake, torch, quitter, listening>> /\ KeepDestroy

\* Line 196.
ForgetRecorder ==
  /\ DestroyStep("arNull", "torchReset") /\ ar' = "null"
  /\ UNCHANGED <<audio, wake, torch, quitter, listening>> /\ KeepDestroy

\* Lines 202-215.
ResetTorch ==
  /\ DestroyStep("torchReset", "wakeReset") /\ torch' = FALSE
  /\ UNCHANGED <<audio, ar, wake, quitter, listening>> /\ KeepDestroy

\* Lines 217-222: the exception of an unheld lock is caught here.
ResetWake ==
  /\ DestroyStep("wakeReset", "destroyed") /\ wake' = FALSE
  /\ UNCHANGED <<audio, ar, torch, quitter, listening>> /\ KeepDestroy

Destroy == \/ SetQuitter \/ Unregister \/ DestroyAudio \/ ForgetAudio
           \/ DestroyRecorder \/ ForgetRecorder \/ ResetTorch \/ ResetWake

Next == Worker \/ Handler \/ Deliver \/ User \/ Destroy

Spec == Init /\ [][Next]_vars

\* Every blocking call of the worker returns and the looper of the main thread
\* runs what is due; users need do nothing.
FairSpec == Spec /\ WF_vars(Worker) /\ WF_vars(Handler \/ Deliver \/ Destroy)

\* Besides, slots keep coming to a worker that keeps looking at the clock.
LiveSpec == FairSpec /\ SF_vars(SlotStart)

-----------------------------------------------------------------------------
(* Properties.                                                             *)

PrefsType ==
  /\ use_tx \in BOOLEAN /\ switch_mode_next \in BOOLEAN
  /\ tx_next_counter \in Nat /\ gridsq \in Locators
  /\ owed \in Nat /\ overwritten \in BOOLEAN
DeviceType ==
  /\ audio \in Track /\ ar \in Recorder /\ wake \in BOOLEAN
  /\ torch \in BOOLEAN
BuffersType ==
  /\ use_txsound2 \in BOOLEAN /\ next_is_txsound2 \in BOOLEAN
  /\ txsound \in Sound /\ txsound2 \in Sound
LocalType ==
  /\ setsVersion \in Nat \cup {-1} /\ txNextCounter \in Nat
  /\ doTx \in BOOLEAN /\ total \in 0..RxReads
MainType ==
  /\ main \in MainPcs /\ stopping \in BOOLEAN /\ listening \in BOOLEAN
  /\ menuRead \in Nat /\ toast \in {"none", "rx", "tx"} /\ ops \in 0..MaxOps

\* Every variable keeps its type: the preference counter, the recording and
\* the queue of notifications of the service never leave their range.
TypeOK ==
  /\ setup \in Setups
  /\ PrefsType /\ DeviceType /\ BuffersType /\ LocalType /\ MainType
  /\ quitter \in BOOLEAN /\ settings_version \in Nat /\ posted \in Nat
  /\ pc \in WorkerPcs

LoadPcs == {"load", "flip", "encode"}
TxPcs == {"newTrack", "write", "play", "airing", "guard", "playState",
          "stopTrack", "release", "torchOff"}
\* A change of the preferences is on its way to settings_version.
ChangePending == posted > 0 \/ main \in {"notify", "swNotify", "swNotify2"}

\* No change of the settings is lost: a worker that holds the current version
\* with no notification under way works with the current mode, has no switch
\* request left to serve, and its buffers carry the current locator.
SettingsInSync ==
  (setsVersion = settings_version /\ ~ChangePending /\ listening
     /\ pc \notin LoadPcs)
    => /\ doTx = use_tx /\ ~switch_mode_next
       /\ doTx /\ setup.txable =>
            /\ txsound = IF setup.compound THEN Type2 ELSE Type1(gridsq)
            /\ use_txsound2 => txsound2 = Type3(gridsq)

\* When the second half of a two-part message is due, what was last put on the
\* air is its first half, and both were encoded from the same locator: no
\* reload, mode switch or locator change lets a second half follow anything
\* else.  (Not after a write to an uninitialised track, which play is about to
\* punish with the death of the process.)
SecondHalfFollowsFirst ==
  (next_is_txsound2 /\ doTx /\ setup.txable /\ ~quitter
     /\ audio.state # "uninit" /\ pc \notin LoadPcs \cup {"write"})
    => /\ audio.sound = txsound
       /\ txsound2.type = "type3"
       /\ IF setup.compound THEN txsound = Type2
          ELSE txsound = Type1(txsound2.loc)

\* The platform did not give or did not keep an audio object the worker uses.
PlatformFailed == ar \in {"uninit", "dead"} \/ audio.state = "uninit"

\* As long as the service is not being stopped the worker dies of an exception
\* only when the platform fails it: whatever reloads, mode switches and clicks
\* do, no buffer is empty and no audio object missing, released or left over
\* from another cycle where run() uses it unguarded.
CrashOnlyByPlatform == pc = "crashed" => quitter \/ PlatformFailed

\* As long as the service is not being stopped, the torch that keys the radio
\* is lit inside the transmission branch only (a torch goes out with the
\* process that lit it).
TorchOffBetweenCycles == (torch /\ ~quitter /\ Alive) => pc \in TxPcs

\* However stop and start interleave, a service that is destroyed and whose
\* worker has returned holds no wake lock.
WakeReleased == (main = "destroyed" /\ pc = "ended") => ~wake

\* A service that is asked to stop ends its worker, whatever that waits for.
StopTerminates == stopping ~> ~Running

\* A request to switch the mode is served, unless the service is stopped or
\* dies.
SwitchTakesEffect ==
  switch_mode_next ~> (~switch_mode_next \/ stopping \/ ~Alive)

\* Every transmission asked for with TX Next goes on the air, at whatever
\* probability: while the mode is TX the number still owed comes down to zero,
\* unless a mode switch cancels them, the service is stopped or dies, or one of
\* the two writers of the counter has hidden a write of the other (the worker
\* reads it at 298 and writes at 467, the menu item reads and writes).
TxNextServed ==
  (owed > 0 /\ doTx /\ setup.txable)
    ~> (owed = 0 \/ overwritten \/ ~doTx \/ main = "swReset" \/ stopping
          \/ ~Alive)

-----------------------------------------------------------------------------
(* What the documentation says and the code does not do.                   *)

\* The README has the torch lit during transmission cycles: when service and
\* worker are over it is dark.
TorchDarkWhenOver == (main = "destroyed" /\ pc = "ended") => ~torch

\* After "Playback done, p2 required", part two is given up only by sending it
\* or, since it would carry an old locator, when the locator has changed.
PartTwoSent ==
  [][(next_is_txsound2 /\ ~next_is_txsound2' /\ txsound2 = Type3(gridsq))
       => pc = "write"]_vars

=============================================================================
