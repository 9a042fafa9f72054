-------------------------- MODULE LBServiceProofs --------------------------
(***************************************************************************)
(* Proofs about LBService: the types, and the safety properties that hold  *)
(* for every set of settings and locators, any number of user actions and  *)
(* any length of a recording.                                              *)
(***************************************************************************)
EXTENDS LBService, TLAPS

-----------------------------------------------------------------------------
(* Types.                                                                  *)

\* The encoder returns sounds.
LEMMA SoundTypes ==
  /\ Silence \in Sound /\ Type2 \in Sound
  /\ \A l \in Locators : Type1(l) \in Sound /\ Type3(l) \in Sound
BY DEF Sound, Silence, Type2

\* What run() and onDestroy do to the track leaves it a track.
LEMMA TrackTypes ==
  /\ NoTrack \in Track
  /\ \A st \in TrackState : [state |-> st, sound |-> Silence] \in Track
  /\ \A a \in Track : \A s \in Sound : [a EXCEPT !.sound = s] \in Track
  /\ \A a \in Track : \A st \in TrackState :
       [a EXCEPT !.state = st] \in Track
BY SoundTypes DEF Track, TrackState, NoTrack

\* A recording that waits for data has room for it.
ReadBound == pc \in {"rxRead", "rxBlocked"} => total < RxReads
TypeInv   == TypeOK /\ ReadBound

\* A service starts with every variable in its type.
LEMMA TypeInit == Init => TypeInv
<1> SUFFICES ASSUME Init PROVE TypeInv
  OBVIOUS
<1> USE SoundTypes, TrackTypes, BoundsAssumption
    DEF Init
<1>1. setup \in Setups /\ PrefsType
  BY DEF PrefsType
<1>2. DeviceType
  BY DEF DeviceType, Recorder
<1>3. BuffersType
  BY DEF BuffersType
<1>4. LocalType
  <2>1. doTx \in BOOLEAN
    OBVIOUS
  <2>2. setsVersion \in Nat \cup {-1} /\ txNextCounter \in Nat
        /\ total \in 0..RxReads
    OBVIOUS
  <2> QED
    BY <2>1, <2>2 DEF LocalType
<1>5. MainType
  <2>1. stopping \in BOOLEAN /\ listening \in BOOLEAN
    OBVIOUS
  <2>2. main \in MainPcs /\ menuRead \in Nat
        /\ toast \in {"none", "rx", "tx"} /\ ops \in 0..MaxOps
    BY DEF MainPcs
  <2> QED
    BY <2>1, <2>2 DEF MainType
<1>6. quitter \in BOOLEAN /\ settings_version \in Nat /\ posted \in Nat
      /\ pc \in WorkerPcs
  BY DEF WorkerPcs
<1> HIDE DEF Init
<1>7. ReadBound
  BY DEF Init, ReadBound
<1> QED
  BY <1>1, <1>2, <1>3, <1>4, <1>5, <1>6, <1>7 DEF TypeInv, TypeOK

\* The head of the loop and the reload of the settings keep the types.
LEMMA TypeReload == TypeInv /\ Reload => TypeOK'
<1> SUFFICES ASSUME TypeInv, Reload PROVE TypeOK'
  OBVIOUS
<1> USE SoundTypes, TrackTypes, SetupsAssumption, BoundsAssumption
    DEF TypeInv, ReadBound, TypeOK, PrefsType, DeviceType, BuffersType,
        LocalType, MainType, Recorder, WorkerPcs, MainPcs, DestroyPcs,
        Step, Unguarded, prefs, history, device, sounds, local, ui, Click,
        MainFree, Home, AfterCommit, DestroyStep, KeepDestroy, Post,
        ReturnIfQuit, TrackState, history, Overwrite
<1>1. CASE LoopHead
  BY <1>1 DEF LoopHead
<1>2. CASE CheckVersion
  BY <1>2 DEF CheckVersion
<1>3. CASE LoadMode
  BY <1>3 DEF LoadMode
<1>4. CASE FlipMode
  <2>1. use_tx' \in BOOLEAN /\ switch_mode_next' \in BOOLEAN
        /\ doTx' \in BOOLEAN
    BY <1>4 DEF FlipMode
  <2> QED
    BY <1>4, <2>1 DEF FlipMode
<1>5. CASE Encode
  <2>1. use_txsound2' \in BOOLEAN /\ next_is_txsound2' \in BOOLEAN
    BY <1>5 DEF Encode
  <2>2. txsound' \in Sound /\ txsound2' \in Sound
    BY <1>5 DEF Encode
  <2> QED
    BY <1>5, <2>1, <2>2 DEF Encode
<1> QED
  BY <1>1, <1>2, <1>3, <1>4, <1>5 DEF Reload

\* The wait for the slot and the opening of the recorder keep them.
LEMMA TypeAwaitSlot == TypeInv /\ AwaitSlot => TypeOK'
<1> SUFFICES ASSUME TypeInv, AwaitSlot PROVE TypeOK'
  OBVIOUS
<1> USE SoundTypes, TrackTypes, SetupsAssumption, BoundsAssumption
    DEF TypeInv, ReadBound, TypeOK, PrefsType, DeviceType, BuffersType,
        LocalType, MainType, Recorder, WorkerPcs, MainPcs, DestroyPcs,
        Step, Unguarded, prefs, history, device, sounds, local, ui, Click,
        MainFree, Home, AfterCommit, DestroyStep, KeepDestroy, Post,
        ReturnIfQuit, TrackState, history, Overwrite
<1>1. CASE SlotStart
  BY <1>1 DEF SlotStart
<1>2. CASE SlotMissed
  BY <1>2 DEF SlotMissed
<1>3. CASE WakeUp
  BY <1>3 DEF WakeUp
<1>4. CASE Denied
  BY <1>4 DEF Denied
<1>5. CASE OpenRecorder
  BY <1>5 DEF OpenRecorder
<1>6. CASE StartRecorder
  BY <1>6 DEF StartRecorder
<1>7. CASE RecorderReady
  BY <1>7 DEF RecorderReady
<1>8. CASE SecondOne
  BY <1>8 DEF SecondOne
<1>9. CASE Decide
  BY <1>9 DEF Decide
<1> QED
  BY <1>1, <1>2, <1>3, <1>4, <1>5, <1>6, <1>7, <1>8, <1>9 DEF AwaitSlot

\* A transmission keeps them.
LEMMA TypeTransmit == TypeInv /\ Transmit => TypeOK'
<1> SUFFICES ASSUME TypeInv, Transmit PROVE TypeOK'
  OBVIOUS
<1> USE SoundTypes, TrackTypes, SetupsAssumption, BoundsAssumption
    DEF TypeInv, ReadBound, TypeOK, PrefsType, DeviceType, BuffersType,
        LocalType, MainType, Recorder, WorkerPcs, MainPcs, DestroyPcs,
        Step, Unguarded, prefs, history, device, sounds, local, ui, Click,
        MainFree, Home, AfterCommit, DestroyStep, KeepDestroy, Post,
        ReturnIfQuit, TrackState, history, Overwrite
<1>1. CASE ConsumeTxNext
  <2>1. overwritten' \in BOOLEAN
    BY <1>1 DEF ConsumeTxNext
  <2>2. tx_next_counter' \in Nat /\ posted' \in Nat
    BY <1>1 DEF ConsumeTxNext
  <2> QED
    BY <1>1, <2>1, <2>2 DEF ConsumeTxNext
<1>2. CASE TorchOn
  <2>1. torch' \in BOOLEAN
    BY <1>2 DEF TorchOn, Setup
  <2> QED
    BY <1>2, <2>1 DEF TorchOn
<1>3. CASE NewTrack
  BY <1>3 DEF NewTrack
<1>4. CASE WriteTrack
  <2>1. audio' \in Track
    BY <1>4 DEF WriteTrack, Half
  <2>2. next_is_txsound2' \in BOOLEAN
    BY <1>4 DEF WriteTrack, Half
  <2> QED
    BY <1>4, <2>1, <2>2 DEF WriteTrack
<1>5. CASE Play
  <2>1. audio' \in Track
    BY <1>5 DEF Play
  <2> QED
    BY <1>5, <2>1 DEF Play
<1>6. CASE AirEnds
  BY <1>6 DEF AirEnds
<1>7. CASE GuardNull
  BY <1>7 DEF GuardNull
<1>8. CASE PlayState
  BY <1>8 DEF PlayState
<1>9. CASE StopTrack
  <2>1. audio' \in Track
    BY <1>9 DEF StopTrack
  <2> QED
    BY <1>9, <2>1 DEF StopTrack
<1>10. CASE ReleaseTrack
  <2>1. audio' \in Track
    BY <1>10 DEF ReleaseTrack
  <2> QED
    BY <1>10, <2>1 DEF ReleaseTrack
<1>11. CASE TorchOff
  <2>1. torch' \in BOOLEAN
    BY <1>11 DEF TorchOff
  <2> QED
    BY <1>11, <2>1 DEF TorchOff
<1>12. CASE TxDone
  BY <1>12 DEF TxDone
<1> QED
  BY <1>1, <1>2, <1>3, <1>4, <1>5, <1>6, <1>7, <1>8, <1>9, <1>10, <1>11, <1>12
    DEF Transmit

\* A recording keeps them: it never reads past its end.
LEMMA TypeReceive == TypeInv /\ Receive => TypeOK'
<1> SUFFICES ASSUME TypeInv, Receive PROVE TypeOK'
  OBVIOUS
<1> USE SoundTypes, TrackTypes, SetupsAssumption, BoundsAssumption
    DEF TypeInv, ReadBound, TypeOK, PrefsType, DeviceType, BuffersType,
        LocalType, MainType, Recorder, WorkerPcs, MainPcs, DestroyPcs,
        Step, Unguarded, prefs, history, device, sounds, local, ui, Click,
        MainFree, Home, AfterCommit, DestroyStep, KeepDestroy, Post,
        ReturnIfQuit, TrackState, history, Overwrite
<1>1. CASE RxStart
  BY <1>1 DEF RxStart
<1>2. CASE RxLoop
  BY <1>2 DEF RxLoop
<1>3. CASE RxRead
  BY <1>3 DEF RxRead
<1>4. CASE RxData
  <2>1. total' \in 0..RxReads
    BY <1>4 DEF RxData
  <2> QED
    BY <1>4, <2>1 DEF RxData
<1>5. CASE RxFails
  BY <1>5 DEF RxFails
<1>6. CASE RxAborted
  BY <1>6 DEF RxAborted
<1>7. CASE RxClean
  BY <1>7 DEF RxClean
<1>8. CASE RxRelease
  BY <1>8 DEF RxRelease
<1> QED
  BY <1>1, <1>2, <1>3, <1>4, <1>5, <1>6, <1>7, <1>8 DEF Receive

\* The rest of a handler of the main thread keeps them.
LEMMA TypeHandler == TypeInv /\ Handler => TypeOK'
<1> SUFFICES ASSUME TypeInv, Handler PROVE TypeOK'
  OBVIOUS
<1> USE SoundTypes, TrackTypes, SetupsAssumption, BoundsAssumption
    DEF TypeInv, ReadBound, TypeOK, PrefsType, DeviceType, BuffersType,
        LocalType, MainType, Recorder, WorkerPcs, MainPcs, DestroyPcs,
        Step, Unguarded, prefs, history, device, sounds, local, ui, Click,
        MainFree, Home, AfterCommit, DestroyStep, KeepDestroy, Post,
        ReturnIfQuit, TrackState, history, Overwrite
<1>1. CASE Notified("notify", Home)
  BY <1>1 DEF Notified
<1>2. CASE Notified("swNotify", "swReset")
  BY <1>2 DEF Notified
<1>3. CASE Notified("swNotify2", "swToast")
  BY <1>3 DEF Notified
<1>4. CASE TxNextCommit
  BY <1>4 DEF TxNextCommit
<1>5. CASE SwitchReset
  <2>1. owed' \in Nat /\ overwritten' \in BOOLEAN /\ tx_next_counter' \in Nat
    BY <1>5 DEF SwitchReset
  <2> QED
    BY <1>5, <2>1 DEF SwitchReset
<1>6. CASE SwitchToast
  BY <1>6 DEF SwitchToast
<1> QED
  BY <1>1, <1>2, <1>3, <1>4, <1>5, <1>6 DEF Handler

\* Clicks and location fixes keep them.
LEMMA TypeUser == TypeInv /\ User => TypeOK'
<1> SUFFICES ASSUME TypeInv, User PROVE TypeOK'
  OBVIOUS
<1> USE SoundTypes, TrackTypes, SetupsAssumption, BoundsAssumption
    DEF TypeInv, ReadBound, TypeOK, PrefsType, DeviceType, BuffersType,
        LocalType, MainType, Recorder, WorkerPcs, MainPcs, DestroyPcs,
        Step, Unguarded, prefs, history, device, sounds, local, ui, Click,
        MainFree, Home, AfterCommit, DestroyStep, KeepDestroy, Post,
        ReturnIfQuit, TrackState, history, Overwrite
<1>1. CASE TxNextClick
  BY <1>1 DEF TxNextClick
<1>2. CASE SwitchClick
  BY <1>2 DEF SwitchClick
<1>3. CASE BandClick
  BY <1>3 DEF BandClick
<1>4. CASE LocationChanged
  BY <1>4 DEF LocationChanged
<1>5. CASE StopClick
  BY <1>5 DEF StopClick
<1> QED
  BY <1>1, <1>2, <1>3, <1>4, <1>5 DEF User

\* onDestroy keeps them.
LEMMA TypeDestroy == TypeInv /\ Destroy => TypeOK'
<1> SUFFICES ASSUME TypeInv, Destroy PROVE TypeOK'
  OBVIOUS
<1> USE SoundTypes, TrackTypes, SetupsAssumption, BoundsAssumption
    DEF TypeInv, ReadBound, TypeOK, PrefsType, DeviceType, BuffersType,
        LocalType, MainType, Recorder, WorkerPcs, MainPcs, DestroyPcs,
        Step, Unguarded, prefs, history, device, sounds, local, ui, Click,
        MainFree, Home, AfterCommit, DestroyStep, KeepDestroy, Post,
        ReturnIfQuit, TrackState, history, Overwrite
<1>1. CASE SetQuitter
  BY <1>1 DEF SetQuitter
<1>2. CASE Unregister
  <2>1. listening' \in BOOLEAN
    BY <1>2 DEF Unregister
  <2> QED
    BY <1>2, <2>1 DEF Unregister
<1>3. CASE DestroyAudio
  <2>1. audio' \in Track
    BY <1>3 DEF DestroyAudio
  <2> QED
    BY <1>3, <2>1 DEF DestroyAudio
<1>4. CASE ForgetAudio
  BY <1>4 DEF ForgetAudio
<1>5. CASE DestroyRecorder
  BY <1>5 DEF DestroyRecorder
<1>6. CASE ForgetRecorder
  BY <1>6 DEF ForgetRecorder
<1>7. CASE ResetTorch
  <2>1. torch' \in BOOLEAN
    BY <1>7 DEF ResetTorch
  <2> QED
    BY <1>7, <2>1 DEF ResetTorch
<1>8. CASE ResetWake
  <2>1. wake' \in BOOLEAN
    BY <1>8 DEF ResetWake
  <2> QED
    BY <1>8, <2>1 DEF ResetWake
<1> QED
  BY <1>1, <1>2, <1>3, <1>4, <1>5, <1>6, <1>7, <1>8 DEF Destroy

\* Only line 588 lets a read begin, and only before the end is reached.
LEMMA ReadBoundStep == TypeInv /\ [Next]_vars => ReadBound'
<1> SUFFICES ASSUME TypeInv, [Next]_vars PROVE ReadBound'
  OBVIOUS
<1> USE DEF TypeInv, ReadBound, Step, Unguarded, ReturnIfQuit, local
<1>1. CASE Acquire \/ Reload \/ ExitLoop \/ ExitRelease
  BY <1>1 DEF Acquire, Reload, LoopHead, CheckVersion, LoadMode, FlipMode,
     Encode, ExitLoop, ExitRelease
<1>2. CASE AwaitSlot
  BY <1>2 DEF AwaitSlot, SlotStart, SlotMissed, WakeUp, Denied, OpenRecorder,
     StartRecorder, RecorderReady, SecondOne, Decide
<1>3. CASE Transmit
  BY <1>3 DEF Transmit, ConsumeTxNext, TorchOn, NewTrack, WriteTrack, Play,
     AirEnds, GuardNull, PlayState, StopTrack, ReleaseTrack, TorchOff, TxDone
<1>4. CASE Receive
  BY <1>4 DEF Receive, RxStart, RxLoop, RxRead, RxData, RxFails, RxAborted,
     RxClean, RxRelease
<1>5. CASE Handler \/ Deliver \/ User
  BY <1>5 DEF Handler, Notified, TxNextCommit, SwitchReset, SwitchToast,
     Deliver, User, TxNextClick, SwitchClick, BandClick, LocationChanged,
     StopClick
<1>6. CASE Destroy
  BY <1>6 DEF Destroy, SetQuitter, Unregister, DestroyAudio, ForgetAudio,
     DestroyRecorder, ForgetRecorder, ResetTorch, ResetWake, KeepDestroy
<1>7. CASE UNCHANGED vars
  BY <1>7 DEF vars
<1> QED
  BY <1>1, <1>2, <1>3, <1>4, <1>5, <1>6, <1>7 DEF Next, Worker

\* The types and the bound of the recording are inductive.
LEMMA TypeStep == TypeInv /\ [Next]_vars => TypeInv'
<1> SUFFICES ASSUME TypeInv, [Next]_vars PROVE TypeOK'
  BY ReadBoundStep DEF TypeInv
<1> USE DEF TypeInv, TypeOK, PrefsType, DeviceType, BuffersType, LocalType,
        MainType, prefs, history, device, sounds, local, ui
<1>1. CASE Acquire
  <2>1. wake' \in BOOLEAN
    BY <1>1 DEF Acquire
  <2> QED
    BY <1>1, <2>1 DEF Acquire, Step, WorkerPcs
<1>2. CASE ExitLoop
  <2>1. stopping' \in BOOLEAN
    BY <1>2 DEF ExitLoop
  <2> QED
    BY <1>2, <2>1 DEF ExitLoop, WorkerPcs
<1>3. CASE ExitRelease
  <2>1. stopping' \in BOOLEAN /\ wake' \in BOOLEAN
    BY <1>3 DEF ExitRelease
  <2> QED
    BY <1>3, <2>1 DEF ExitRelease, Unguarded, WorkerPcs
<1>4. CASE Deliver
  BY <1>4 DEF Deliver
<1>5. CASE UNCHANGED vars
  BY <1>5 DEF vars
<1> QED
  BY <1>1, <1>2, <1>3, <1>4, <1>5, TypeReload, TypeAwaitSlot, TypeTransmit,
     TypeReceive, TypeHandler, TypeUser, TypeDestroy DEF Next, Worker

\* Every variable of the service keeps its type in every behaviour.
THEOREM TypeCorrect == Spec => []TypeOK
<1>1. Spec => []TypeInv
  BY TypeInit, TypeStep, PTL DEF Spec
<1>2. TypeInv => TypeOK
  BY DEF TypeInv
<1> QED
  BY <1>1, <1>2, PTL

-----------------------------------------------------------------------------
(* The inductive invariant.                                                *)

\* The main thread is in onDestroy, or past it, only once quitter is set, and
\* the worker leaves its loop through the condition only then.
Lifecycle ==
  /\ main \in DestroyPcs => quitter
  /\ pc \in {"exit", "wakeRelease"} => quitter

\* onDestroy is over (handlers of the process may still run).
Over == quitter /\ main \notin DestroyPcs \ {"destroyed"}

\* A lock held after onDestroy was taken after it, by a worker that has not
\* looked at quitter or is about to give the lock back.
LockInv == (Over /\ wake) => pc \in {"loop", "exit", "wakeRelease"}

\* Until the service is stopped, every audio object is there where run() uses
\* it, and open unless the platform failed it, and the transmission branch has
\* something to send.
RecorderPcs == {"arInit", "second", "decide", "rxStart", "rxLoop", "rxRead",
                "rxBlocked", "rxClean", "rxRelease"}
AudioInv ==
  ~quitter =>
    /\ pc = "crashed" => PlatformFailed
    /\ pc = "arStart" => ar \in {"open", "uninit"}
    /\ pc \in RecorderPcs => ar = "open"
    /\ pc \in {"counter", "torchOn", "newTrack"} => doTx /\ setup.txable
    /\ pc \in {"write", "play"} => audio.state \in {"open", "uninit"}
    /\ pc \in {"airing", "guard", "playState", "stopTrack", "release"}
         => audio.state \notin {"null", "uninit"}

\* When the mode is TX and no reload is under way, the first half is there, a
\* second half was encoded with it, and none is due unless there is one.
BufferInv ==
  (doTx /\ setup.txable /\ pc \notin LoadPcs) =>
    /\ txsound # Silence
    /\ next_is_txsound2 => use_txsound2
    /\ use_txsound2 =>
         /\ txsound2.type = "type3"
         /\ IF setup.compound THEN txsound = Type2
            ELSE txsound = Type1(txsound2.loc)

\* The half put on the air last is the first one while the second is due.
HalfInv ==
  (next_is_txsound2 /\ doTx /\ setup.txable /\ ~quitter
     /\ audio.state # "uninit" /\ pc \notin LoadPcs \cup {"write"})
    => audio.sound = txsound

\* What a worker in the middle of a reload has seen so far is current, unless
\* the version it stored is already out of date.
UpToDate == setsVersion = settings_version /\ ~ChangePending /\ listening
SyncInv ==
  /\ setsVersion <= settings_version
  /\ pc = "flip" => doTx = use_tx
  /\ UpToDate /\ pc = "encode" => doTx = use_tx /\ ~switch_mode_next

IInv == /\ TypeInv /\ Lifecycle /\ LockInv /\ AudioInv /\ BufferInv /\ HalfInv
        /\ SyncInv /\ SettingsInSync /\ TorchOffBetweenCycles

\* onDestroy sets quitter before it touches anything.
LEMMA LifecycleStep == IInv /\ [Next]_vars => Lifecycle'
<1> SUFFICES ASSUME IInv, [Next]_vars PROVE Lifecycle'
  OBVIOUS
<1> USE DEF IInv, Lifecycle, DestroyPcs, Click, MainFree, Home, AfterCommit,
        Step, Unguarded, ReturnIfQuit, prefs, history, device, sounds, local,
        ui
<1>1. CASE Acquire \/ ExitLoop \/ ExitRelease
  BY <1>1 DEF Acquire, ExitLoop, ExitRelease
<1>2. CASE Reload
  BY <1>2 DEF Reload, LoopHead, CheckVersion, LoadMode, FlipMode, Encode
<1>3. CASE AwaitSlot
  BY <1>3 DEF AwaitSlot, SlotStart, SlotMissed, WakeUp, Denied, OpenRecorder,
     StartRecorder, RecorderReady, SecondOne, Decide
<1>4. CASE Transmit
  BY <1>4 DEF Transmit, ConsumeTxNext, TorchOn, NewTrack, WriteTrack, Play,
     AirEnds, GuardNull, PlayState, StopTrack, ReleaseTrack, TorchOff, TxDone
<1>5. CASE Receive
  BY <1>5 DEF Receive, RxStart, RxLoop, RxRead, RxData, RxFails, RxAborted,
     RxClean, RxRelease
<1>6. CASE Handler \/ Deliver \/ User
  BY <1>6 DEF Handler, Notified, TxNextCommit, SwitchReset, SwitchToast,
     Deliver, User, TxNextClick, SwitchClick, BandClick, LocationChanged,
     StopClick
<1>7. CASE Destroy
  BY <1>7 DEF Destroy, KeepDestroy, DestroyStep, SetQuitter, Unregister,
     DestroyAudio, ForgetAudio, DestroyRecorder, ForgetRecorder, ResetTorch,
     ResetWake
<1>8. CASE UNCHANGED vars
  BY <1>8 DEF vars
<1> QED
  BY <1>1, <1>2, <1>3, <1>4, <1>5, <1>6, <1>7, <1>8 DEF Next, Worker

\* A late acquire is given back by the exit path, an early one by onDestroy.
LEMMA LockStep == IInv /\ [Next]_vars => LockInv'
<1> SUFFICES ASSUME IInv, [Next]_vars PROVE LockInv'
  OBVIOUS
<1> USE DEF IInv, Lifecycle, LockInv, Over, DestroyPcs, Click, MainFree, Home,
        AfterCommit, Step, Unguarded, ReturnIfQuit, prefs, history, device,
        sounds, local, ui
<1>1. CASE Acquire \/ ExitLoop \/ ExitRelease
  BY <1>1 DEF Acquire, ExitLoop, ExitRelease
<1>2. CASE Reload
  BY <1>2 DEF Reload, LoopHead, CheckVersion, LoadMode, FlipMode, Encode
<1>3. CASE AwaitSlot
  BY <1>3 DEF AwaitSlot, SlotStart, SlotMissed, WakeUp, Denied, OpenRecorder,
     StartRecorder, RecorderReady, SecondOne, Decide
<1>4. CASE Transmit
  BY <1>4 DEF Transmit, ConsumeTxNext, TorchOn, NewTrack, WriteTrack, Play,
     AirEnds, GuardNull, PlayState, StopTrack, ReleaseTrack, TorchOff, TxDone
<1>5. CASE Receive
  BY <1>5 DEF Receive, RxStart, RxLoop, RxRead, RxData, RxFails, RxAborted,
     RxClean, RxRelease
<1>6. CASE Handler \/ Deliver \/ User
  BY <1>6 DEF Handler, Notified, TxNextCommit, SwitchReset, SwitchToast,
     Deliver, User, TxNextClick, SwitchClick, BandClick, LocationChanged,
     StopClick
<1>7. CASE Destroy
  BY <1>7 DEF Destroy, KeepDestroy, DestroyStep, SetQuitter, Unregister,
     DestroyAudio, ForgetAudio, DestroyRecorder, ForgetRecorder, ResetTorch,
     ResetWake
<1>8. CASE UNCHANGED vars
  BY <1>8 DEF vars
<1> QED
  BY <1>1, <1>2, <1>3, <1>4, <1>5, <1>6, <1>7, <1>8 DEF Next, Worker

\* The worker reaches each audio call with the object it needs.
LEMMA AudioStep == IInv /\ [Next]_vars => AudioInv'
<1> SUFFICES ASSUME IInv, [Next]_vars PROVE AudioInv'
  OBVIOUS
<1> USE DEF IInv, Lifecycle, AudioInv, PlatformFailed, RecorderPcs,
        DestroyPcs, Step, Unguarded, ReturnIfQuit, prefs, history, device,
        sounds, local, ui
<1>1. CASE Acquire \/ ExitLoop \/ ExitRelease
  BY <1>1 DEF Acquire, ExitLoop, ExitRelease
<1>2. CASE Reload
  BY <1>2 DEF Reload, LoopHead, CheckVersion, LoadMode, FlipMode, Encode
<1>3. CASE AwaitSlot
  BY <1>3 DEF AwaitSlot, SlotStart, SlotMissed, WakeUp, Denied, OpenRecorder,
     StartRecorder, RecorderReady, SecondOne, Decide
<1>4. CASE Transmit
  <2>1. CASE ConsumeTxNext
    BY <2>1 DEF ConsumeTxNext
  <2>2. CASE TorchOn
    BY <2>2 DEF TorchOn
  <2>3. CASE NewTrack
    <3>1. ~quitter => Half # Silence
      BY <2>3 DEF NewTrack, BufferInv, LoadPcs, Half, Silence
    <3> QED
      BY <2>3, <3>1 DEF NewTrack
  <2>4. CASE WriteTrack
    <3>1. ~quitter => audio'.state = audio.state
      BY <2>4 DEF WriteTrack, TypeInv, TypeOK, DeviceType, Track
    <3> QED
      BY <2>4, <3>1 DEF WriteTrack
  <2>5. CASE Play
    <3>1. audio.state = "open" => audio'.state = "playing"
      BY <2>5 DEF Play, TypeInv, TypeOK, DeviceType, Track
    <3>2. audio.state # "open" => audio' = audio
      BY <2>5 DEF Play
    <3> QED
      BY <2>5, <3>1, <3>2 DEF Play
  <2>6. CASE AirEnds
    BY <2>6 DEF AirEnds
  <2>7. CASE GuardNull
    BY <2>7 DEF GuardNull
  <2>8. CASE PlayState
    BY <2>8 DEF PlayState
  <2>9. CASE StopTrack
    <3>1. ~quitter => audio'.state \notin {"null", "uninit"}
      BY <2>9 DEF StopTrack, TypeInv, TypeOK, DeviceType, Track
    <3> QED
      BY <2>9, <3>1 DEF StopTrack
  <2>10. CASE ReleaseTrack
    BY <2>10 DEF ReleaseTrack
  <2>11. CASE TorchOff
    BY <2>11 DEF TorchOff
  <2>12. CASE TxDone
    BY <2>12 DEF TxDone
  <2> QED
    BY <1>4, <2>1, <2>2, <2>3, <2>4, <2>5, <2>6, <2>7, <2>8, <2>9, <2>10,
       <2>11, <2>12 DEF Transmit
<1>5. CASE Receive
  BY <1>5 DEF Receive, RxStart, RxLoop, RxRead, RxData, RxFails, RxAborted,
     RxClean, RxRelease
<1>6. CASE Handler \/ Deliver \/ User
  BY <1>6 DEF Handler, Notified, TxNextCommit, SwitchReset, SwitchToast,
     Deliver, User, TxNextClick, SwitchClick, BandClick, LocationChanged,
     StopClick
<1>7. CASE Destroy
  BY <1>7 DEF Destroy, KeepDestroy, DestroyStep, SetQuitter, Unregister,
     DestroyAudio, ForgetAudio, DestroyRecorder, ForgetRecorder, ResetTorch,
     ResetWake
<1>8. CASE UNCHANGED vars
  BY <1>8 DEF vars
<1> QED
  BY <1>1, <1>2, <1>3, <1>4, <1>5, <1>6, <1>7, <1>8 DEF Next, Worker

\* Only Encode changes the buffers, both halves together.
LEMMA BufferStep == IInv /\ [Next]_vars => BufferInv'
<1> SUFFICES ASSUME IInv, [Next]_vars PROVE BufferInv'
  OBVIOUS
<1> USE DEF IInv, BufferInv, LoadPcs, Step, Unguarded, ReturnIfQuit, prefs,
        history, device, sounds, local, ui
<1>1. CASE Acquire \/ ExitLoop \/ ExitRelease
  BY <1>1 DEF Acquire, ExitLoop, ExitRelease
<1>2. CASE Reload
  <2>1. CASE LoopHead
    BY <2>1 DEF LoopHead
  <2>2. CASE CheckVersion
    BY <2>2 DEF CheckVersion
  <2>3. CASE LoadMode
    BY <2>3 DEF LoadMode
  <2>4. CASE FlipMode
    BY <2>4 DEF FlipMode
  <2>5. CASE Encode
    <3>1. CASE doTx /\ setup.txable
      <4>1. /\ txsound' = IF setup.compound THEN Type2 ELSE Type1(gridsq)
            /\ ~next_is_txsound2'
            /\ use_txsound2' => txsound2' = Type3(gridsq)
            /\ setup' = setup
        BY <2>5, <3>1 DEF Encode
      <4> QED
        BY <4>1 DEF Type1, Type2, Type3, Silence
    <3>2. CASE ~(doTx /\ setup.txable)
      BY <2>5, <3>2 DEF Encode
    <3> QED
      BY <3>1, <3>2
  <2> QED
    BY <1>2, <2>1, <2>2, <2>3, <2>4, <2>5 DEF Reload
<1>3. CASE AwaitSlot
  BY <1>3 DEF AwaitSlot, SlotStart, SlotMissed, WakeUp, Denied, OpenRecorder,
     StartRecorder, RecorderReady, SecondOne, Decide
<1>4. CASE Transmit
  BY <1>4 DEF Transmit, ConsumeTxNext, TorchOn, NewTrack, WriteTrack, Play,
     AirEnds, GuardNull, PlayState, StopTrack, ReleaseTrack, TorchOff, TxDone
<1>5. CASE Receive
  BY <1>5 DEF Receive, RxStart, RxLoop, RxRead, RxData, RxFails, RxAborted,
     RxClean, RxRelease
<1>6. CASE Handler \/ Deliver \/ User
  BY <1>6 DEF Handler, Notified, TxNextCommit, SwitchReset, SwitchToast,
     Deliver, User, TxNextClick, SwitchClick, BandClick, LocationChanged,
     StopClick
<1>7. CASE Destroy
  BY <1>7 DEF Destroy, KeepDestroy, DestroyStep, SetQuitter, Unregister,
     DestroyAudio, ForgetAudio, DestroyRecorder, ForgetRecorder, ResetTorch,
     ResetWake
<1>8. CASE UNCHANGED vars
  BY <1>8 DEF vars
<1> QED
  BY <1>1, <1>2, <1>3, <1>4, <1>5, <1>6, <1>7, <1>8 DEF Next, Worker

\* A second half becomes due by sending the first one only.
LEMMA HalfStep == IInv /\ [Next]_vars => HalfInv'
<1> SUFFICES ASSUME IInv, [Next]_vars PROVE HalfInv'
  OBVIOUS
<1> USE DEF IInv, HalfInv, LoadPcs, Step, Unguarded, ReturnIfQuit, prefs,
        history, device, sounds, local, ui
<1>1. CASE Acquire \/ ExitLoop \/ ExitRelease
  BY <1>1 DEF Acquire, ExitLoop, ExitRelease
<1>2. CASE Reload
  BY <1>2 DEF Reload, LoopHead, CheckVersion, LoadMode, FlipMode, Encode
<1>3. CASE AwaitSlot
  BY <1>3 DEF AwaitSlot, SlotStart, SlotMissed, WakeUp, Denied, OpenRecorder,
     StartRecorder, RecorderReady, SecondOne, Decide
<1>4. CASE Transmit
  <2>1. CASE ConsumeTxNext
    BY <2>1 DEF ConsumeTxNext
  <2>2. CASE TorchOn
    BY <2>2 DEF TorchOn
  <2>3. CASE NewTrack
    BY <2>3 DEF NewTrack
  <2>4. CASE WriteTrack
    <3>1. ~quitter /\ audio'.state # "uninit" => audio'.sound = Half
      <4>1. ~quitter => audio.state \in {"open", "uninit"}
        BY <2>4 DEF WriteTrack, AudioInv
      <4>2. audio.state = "open" => audio'.sound = Half
        BY <2>4 DEF WriteTrack, TypeInv, TypeOK, DeviceType, Track
      <4>3. audio.state = "uninit" => audio' = audio /\ quitter' = quitter
        BY <2>4 DEF WriteTrack
      <4> QED
        BY <4>1, <4>2, <4>3
    <3>2. ~quitter /\ next_is_txsound2' => Half = txsound
      BY <2>4 DEF WriteTrack, AudioInv, Half
    <3> QED
      BY <2>4, <3>1, <3>2 DEF WriteTrack
  <2>5. CASE Play
    <3>1. audio'.sound = audio.sound
      BY <2>5 DEF Play, TypeInv, TypeOK, DeviceType, Track
    <3> QED
      BY <2>5, <3>1 DEF Play
  <2>6. CASE AirEnds
    BY <2>6 DEF AirEnds
  <2>7. CASE GuardNull
    BY <2>7 DEF GuardNull
  <2>8. CASE PlayState
    BY <2>8 DEF PlayState
  <2>9. CASE StopTrack
    <3>1. audio'.sound = audio.sound
      BY <2>9 DEF StopTrack, TypeInv, TypeOK, DeviceType, Track
    <3> QED
      BY <2>9, <3>1 DEF StopTrack
  <2>10. CASE ReleaseTrack
    <3>1. audio'.sound = audio.sound
      BY <2>10 DEF ReleaseTrack, TypeInv, TypeOK, DeviceType, Track
    <3>2. ~quitter => audio.state # "uninit"
      BY <2>10 DEF ReleaseTrack, AudioInv
    <3> QED
      BY <2>10, <3>1, <3>2 DEF ReleaseTrack
  <2>11. CASE TorchOff
    BY <2>11 DEF TorchOff
  <2>12. CASE TxDone
    BY <2>12 DEF TxDone
  <2> QED
    BY <1>4, <2>1, <2>2, <2>3, <2>4, <2>5, <2>6, <2>7, <2>8, <2>9, <2>10,
       <2>11, <2>12 DEF Transmit
<1>5. CASE Receive
  BY <1>5 DEF Receive, RxStart, RxLoop, RxRead, RxData, RxFails, RxAborted,
     RxClean, RxRelease
<1>6. CASE Handler \/ Deliver \/ User
  BY <1>6 DEF Handler, Notified, TxNextCommit, SwitchReset, SwitchToast,
     Deliver, User, TxNextClick, SwitchClick, BandClick, LocationChanged,
     StopClick
<1>7. CASE Destroy
  BY <1>7 DEF Destroy, KeepDestroy, DestroyStep, Lifecycle, DestroyPcs,
     SetQuitter, Unregister, DestroyAudio, ForgetAudio, DestroyRecorder,
     ForgetRecorder, ResetTorch, ResetWake
<1>8. CASE UNCHANGED vars
  BY <1>8 DEF vars
<1> QED
  BY <1>1, <1>2, <1>3, <1>4, <1>5, <1>6, <1>7, <1>8 DEF Next, Worker

\* The stored version never runs ahead, and dates the reload in progress.
LEMMA SyncStep == IInv /\ [Next]_vars => SyncInv'
<1> SUFFICES ASSUME IInv, [Next]_vars PROVE SyncInv'
  OBVIOUS
<1> USE DEF IInv, SyncInv, TypeInv, TypeOK, LocalType, UpToDate, ChangePending,
        LoadPcs, Post, AfterCommit, Click, MainFree, Home, Lifecycle,
        DestroyPcs, Step, Unguarded, ReturnIfQuit, prefs, history, device,
        sounds, local, ui
<1>1. CASE Acquire \/ ExitLoop \/ ExitRelease
  BY <1>1 DEF Acquire, ExitLoop, ExitRelease
<1>2. CASE Reload
  BY <1>2 DEF Reload, LoopHead, CheckVersion, LoadMode, FlipMode, Encode
<1>3. CASE AwaitSlot
  BY <1>3 DEF AwaitSlot, SlotStart, SlotMissed, WakeUp, Denied, OpenRecorder,
     StartRecorder, RecorderReady, SecondOne, Decide
<1>4. CASE Transmit
  BY <1>4 DEF Transmit, ConsumeTxNext, TorchOn, NewTrack, WriteTrack, Play,
     AirEnds, GuardNull, PlayState, StopTrack, ReleaseTrack, TorchOff, TxDone
<1>5. CASE Receive
  BY <1>5 DEF Receive, RxStart, RxLoop, RxRead, RxData, RxFails, RxAborted,
     RxClean, RxRelease
<1>6. CASE Handler \/ Deliver \/ User
  BY <1>6 DEF Handler, Notified, TxNextCommit, SwitchReset, SwitchToast,
     Deliver, User, TxNextClick, SwitchClick, BandClick, LocationChanged,
     StopClick
<1>7. CASE Destroy
  BY <1>7 DEF Destroy, KeepDestroy, DestroyStep, SetQuitter, Unregister,
     DestroyAudio, ForgetAudio, DestroyRecorder, ForgetRecorder, ResetTorch,
     ResetWake
<1>8. CASE UNCHANGED vars
  BY <1>8 DEF vars
<1> QED
  BY <1>1, <1>2, <1>3, <1>4, <1>5, <1>6, <1>7, <1>8 DEF Next, Worker

\* A write of a loaded preference puts a notification on its way.
LEMMA SettingsStep == IInv /\ [Next]_vars => SettingsInSync'
<1> SUFFICES ASSUME IInv, [Next]_vars PROVE SettingsInSync'
  OBVIOUS
<1> USE DEF IInv, SyncInv, SettingsInSync, TypeInv, TypeOK, LocalType,
        UpToDate, ChangePending, LoadPcs, Post, AfterCommit, Click, MainFree,
        Home, Lifecycle, DestroyPcs, Step, Unguarded, ReturnIfQuit, prefs,
        history, device, sounds, local, ui
<1>1. CASE Acquire \/ ExitLoop \/ ExitRelease
  BY <1>1 DEF Acquire, ExitLoop, ExitRelease
<1>2. CASE Reload
  BY <1>2 DEF Reload, LoopHead, CheckVersion, LoadMode, FlipMode, Encode
<1>3. CASE AwaitSlot
  BY <1>3 DEF AwaitSlot, SlotStart, SlotMissed, WakeUp, Denied, OpenRecorder,
     StartRecorder, RecorderReady, SecondOne, Decide
<1>4. CASE Transmit
  <2>1. CASE ConsumeTxNext
    BY <2>1 DEF ConsumeTxNext
  <2>2. CASE TorchOn
    BY <2>2 DEF TorchOn
  <2>3. CASE NewTrack
    BY <2>3 DEF NewTrack
  <2>4. CASE WriteTrack
    BY <2>4 DEF WriteTrack
  <2>5. CASE Play
    BY <2>5 DEF Play
  <2>6. CASE AirEnds
    BY <2>6 DEF AirEnds
  <2>7. CASE GuardNull
    BY <2>7 DEF GuardNull
  <2>8. CASE PlayState
    BY <2>8 DEF PlayState
  <2>9. CASE StopTrack
    BY <2>9 DEF StopTrack
  <2>10. CASE ReleaseTrack
    BY <2>10 DEF ReleaseTrack
  <2>11. CASE TorchOff
    BY <2>11 DEF TorchOff
  <2>12. CASE TxDone
    BY <2>12 DEF TxDone
  <2> QED
    BY <1>4, <2>1, <2>2, <2>3, <2>4, <2>5, <2>6, <2>7, <2>8, <2>9, <2>10,
       <2>11, <2>12 DEF Transmit
<1>5. CASE Receive
  BY <1>5 DEF Receive, RxStart, RxLoop, RxRead, RxData, RxFails, RxAborted,
     RxClean, RxRelease
<1>6. CASE Handler \/ Deliver \/ User
  <2>1. CASE Notified("notify", Home)
    BY <2>1 DEF Notified
  <2>2. CASE Notified("swNotify", "swReset")
    BY <2>2 DEF Notified
  <2>3. CASE Notified("swNotify2", "swToast")
    BY <2>3 DEF Notified
  <2>4. CASE TxNextCommit
    BY <2>4 DEF TxNextCommit
  <2>5. CASE SwitchReset
    BY <2>5 DEF SwitchReset
  <2>6. CASE SwitchToast
    BY <2>6 DEF SwitchToast
  <2>7. CASE Deliver
    BY <2>7 DEF Deliver
  <2>8. CASE TxNextClick
    BY <2>8 DEF TxNextClick
  <2>9. CASE SwitchClick
    BY <2>9 DEF SwitchClick
  <2>10. CASE BandClick
    BY <2>10 DEF BandClick
  <2>11. CASE LocationChanged
    BY <2>11 DEF LocationChanged
  <2>12. CASE StopClick
    BY <2>12 DEF StopClick
  <2> QED
    BY <1>6, <2>1, <2>2, <2>3, <2>4, <2>5, <2>6, <2>7, <2>8, <2>9, <2>10,
       <2>11, <2>12 DEF Handler, User
<1>7. CASE Destroy
  BY <1>7 DEF Destroy, KeepDestroy, DestroyStep, SetQuitter, Unregister,
     DestroyAudio, ForgetAudio, DestroyRecorder, ForgetRecorder, ResetTorch,
     ResetWake
<1>8. CASE UNCHANGED vars
  BY <1>8 DEF vars
<1> QED
  BY <1>1, <1>2, <1>3, <1>4, <1>5, <1>6, <1>7, <1>8 DEF Next, Worker

\* Until quitter is set the transmission branch is left through TorchOff.
LEMMA TorchStep == IInv /\ [Next]_vars => TorchOffBetweenCycles'
<1> SUFFICES ASSUME IInv, [Next]_vars PROVE TorchOffBetweenCycles'
  OBVIOUS
<1> USE DEF IInv, AudioInv, TorchOffBetweenCycles, TxPcs, Alive, Step,
        Unguarded,
        ReturnIfQuit, prefs, history, device, sounds, local, ui
<1>1. CASE Acquire \/ ExitLoop \/ ExitRelease
  BY <1>1 DEF Acquire, ExitLoop, ExitRelease
<1>2. CASE Reload
  BY <1>2 DEF Reload, LoopHead, CheckVersion, LoadMode, FlipMode, Encode
<1>3. CASE AwaitSlot
  BY <1>3 DEF AwaitSlot, SlotStart, SlotMissed, WakeUp, Denied, OpenRecorder,
     StartRecorder, RecorderReady, SecondOne, Decide
<1>4. CASE Transmit
  <2> AudioInv'
    BY AudioStep
  <2>1. CASE ConsumeTxNext
    BY <2>1 DEF ConsumeTxNext
  <2>2. CASE TorchOn
    BY <2>2 DEF TorchOn
  <2>3. CASE NewTrack
    BY <2>3 DEF NewTrack
  <2>4. CASE WriteTrack
    BY <2>4 DEF WriteTrack
  <2>5. CASE Play
    BY <2>5 DEF Play
  <2>6. CASE AirEnds
    BY <2>6 DEF AirEnds
  <2>7. CASE GuardNull
    BY <2>7 DEF GuardNull
  <2>8. CASE PlayState
    BY <2>8 DEF PlayState
  <2>9. CASE StopTrack
    BY <2>9 DEF StopTrack
  <2>10. CASE ReleaseTrack
    BY <2>10 DEF ReleaseTrack
  <2>11. CASE TorchOff
    BY <2>11 DEF TorchOff
  <2>12. CASE TxDone
    BY <2>12 DEF TxDone
  <2> QED
    BY <1>4, <2>1, <2>2, <2>3, <2>4, <2>5, <2>6, <2>7, <2>8, <2>9, <2>10,
       <2>11, <2>12 DEF Transmit
<1>5. CASE Receive
  BY <1>5 DEF Receive, RxStart, RxLoop, RxRead, RxData, RxFails, RxAborted,
     RxClean, RxRelease
<1>6. CASE Handler \/ Deliver \/ User
  BY <1>6 DEF Handler, Notified, TxNextCommit, SwitchReset, SwitchToast,
     Deliver, User, TxNextClick, SwitchClick, BandClick, LocationChanged,
     StopClick
<1>7. CASE Destroy
  BY <1>7 DEF Destroy, KeepDestroy, DestroyStep, SetQuitter, Unregister,
     DestroyAudio, ForgetAudio, DestroyRecorder, ForgetRecorder, ResetTorch,
     ResetWake
<1>8. CASE UNCHANGED vars
  BY <1>8 DEF vars
<1> QED
  BY <1>1, <1>2, <1>3, <1>4, <1>5, <1>6, <1>7, <1>8 DEF Next, Worker

\* The inductive invariant holds when the service starts.
LEMMA IInvInit == Init => IInv
<1> SUFFICES ASSUME Init PROVE IInv
  OBVIOUS
<1>1. TypeInv
  BY TypeInit
<1>2. Lifecycle /\ LockInv /\ AudioInv
  BY DEF Init, Lifecycle, LockInv, Over, AudioInv, DestroyPcs, RecorderPcs
<1>3. BufferInv /\ HalfInv /\ SyncInv
  BY DEF Init, BufferInv, HalfInv, SyncInv
<1>4. SettingsInSync /\ TorchOffBetweenCycles
  BY DEF Init, SettingsInSync, TorchOffBetweenCycles
<1> QED
  BY <1>1, <1>2, <1>3, <1>4 DEF IInv

\* Every step keeps the inductive invariant.
LEMMA IInvStep == IInv /\ [Next]_vars => IInv'
<1> SUFFICES ASSUME IInv, [Next]_vars PROVE IInv'
  OBVIOUS
<1>1. TypeInv'
  BY TypeStep DEF IInv
<1> QED
  BY <1>1, LifecycleStep, LockStep, AudioStep, BufferStep, HalfStep, SyncStep,
     SettingsStep, TorchStep DEF IInv

\* The inductive invariant holds in every behaviour.
LEMMA Inductive == Spec => []IInv
BY IInvInit, IInvStep, PTL DEF Spec

-----------------------------------------------------------------------------
(* The safety properties, for every value of the constants.                *)

\* However the worker's reload, the clicks and the notifications interleave,
\* no change of the settings is lost (settings_version, lines 299-300).
THEOREM NoLostSettings == Spec => []SettingsInSync
<1>1. IInv => SettingsInSync
  BY DEF IInv
<1> QED
  BY <1>1, Inductive, PTL

\* A second half goes on the air only after the first half it was encoded with
\* (next_is_txsound2, lines 327-361 and 515-524).
THEOREM HalvesInOrder == Spec => []SecondHalfFollowsFirst
<1>1. IInv => SecondHalfFollowsFirst
  BY DEF IInv, BufferInv, HalfInv, SecondHalfFollowsFirst, LoadPcs
<1> QED
  BY <1>1, Inductive, PTL

\* Until the service is stopped only an audio object the platform did not give
\* or did not keep ends the worker with an exception (lines 434, 526, 619):
\* every other call finds the object and the buffer it needs.
THEOREM NoEarlyCrash == Spec => []CrashOnlyByPlatform
<1>1. IInv => CrashOnlyByPlatform
  BY DEF IInv, AudioInv, CrashOnlyByPlatform
<1> QED
  BY <1>1, Inductive, PTL

\* While the service is in use the radio is keyed in transmissions only.
THEOREM NoStrayTorch == Spec => []TorchOffBetweenCycles
<1>1. IInv => TorchOffBetweenCycles
  BY DEF IInv
<1> QED
  BY <1>1, Inductive, PTL

\* The wake lock does not outlive service and worker, whichever of the two
\* releases it (lines 217-222 and 654-655).
THEOREM NoLeakedLock == Spec => []WakeReleased
<1>1. IInv => WakeReleased
  <2> SUFFICES ASSUME IInv, main = "destroyed", pc = "ended" PROVE ~wake
    BY DEF WakeReleased
  <2>1. Over
    BY DEF IInv, Lifecycle, Over, DestroyPcs
  <2> QED
    BY <2>1 DEF IInv, LockInv
<1> QED
  BY <1>1, Inductive, PTL
=============================================================================
