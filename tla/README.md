# LoudBang in TLA+

LoudBang is an Android transceiver for WSPR, the protocol in which radio
amateurs send their call sign, locator and power in slots of two minutes and
report what they hear to wsprnet.org.  This directory holds specifications of
its own logic, the TLC configurations that check them on small instances, and
proofs of their main invariants for every instance.

All paths below are relative to the root of the repository; `J/` stands for
`src/app/src/main/java/aq/metallists/loudbang/`, `N/` for
`src/app/src/main/jni/`.

## 1. The system

| part | code | state | operations |
|---|---|---|---|
| RX/TX service | `J/LBService.java` | one worker thread with its loop variables; `quitter`, `settings_version`, the audio objects, wake lock, torch; the preferences | a cycle per slot: reload settings, wait for the slot, transmit or record; `onDestroy`; preference listener; location updates |
| menu and buttons | `J/LBMainWindow.java`, `J/ui/main/PlaceholderFragment.java` | none besides the preferences | TX Next, switch mode, band, start and stop, upload, abort, wipe, export |
| decoder threads | `J/LBService.java` `decodersRun` | the messages of one recording, a sender | store message and contact, look up the hash of a type 3 message, send |
| report sender | `J/cutil/WSPRNetSender.java` | a list of entries | post each entry, mark its row as uploaded |
| upload service | `J/LBSpotUploadService.java` | a cursor, `quitter`, a sender | report every row that is not marked |
| database | `J/cutil/DBHelper.java` | tables `messages` and `contacts` | insert, update, wipe, number the sessions |
| log, raw list | `J/LogaFragment.java`, `J/MessageDetailsActivity.java` | a cursor and what it was queried for, the two boxes, a thread that filters | query, change the cursor, query again after a broadcast |
| export | `J/cutil/DBToXMLConverter.java` | a file | read both tables, write the document |
| decoder driver | `N/wsprd/wsprd.c` `jani_do_process` | candidates, table of decodes; shared by all calls: three FFT plans, the frequency of the last tone tables | passes over a recording: synchronise, decode, subtract, keep |
| sequential decoder | `N/wsprd/fano.c` | nodes of a tree, threshold | search for the message with a good metric |
| codec | `N/lbenc2/`, `N/wsprd/wsprd_utils.c`, `wsprsim_utils.c`, `nhash.c` | none | pack and unpack messages |
| locators | `N/libloud.cpp`, `N/locator_position_interface.cpp` | none | position to locator and back |
| band tables | `J/LBMainWindow.java`, `J/LBSpotUploadService.java`, `J/LogaFragment.java` | none | dial frequency of a band, band of a received frequency, range shown in the log |

How they interact.  The service and the user interface share the preferences;
a commit calls the listeners of the process, synchronously on the main thread,
by a posted call for a commit of another thread.  `onDestroy` runs on the main
thread while the worker is anywhere in its loop, and both touch the audio
objects, the wake lock and the torch without a lock.  Each recording starts a
decoder thread that outlives its cycle, writes the database and posts to the
network; the upload service does both at the same time from its own thread; the
wipe runs on the main thread.  The database makes single statements atomic and
nothing else.  After each row a decoder broadcasts, and the main thread queries
the log and the raw list again; between the two the export may read both tables.
The native part of the decoder keeps state outside its functions, which two
decoder threads share when one slot takes longer than the next one needs to come.

What is hard.  The two threads of the service race at every line that uses a
shared object.  Settings are read one by one while they change.  A transmission
may have two parts in two slots and whatever happens between them must not
separate them wrongly.  Rows are written in two tables by two statements, row
ids are kept over minutes of network time, and are used again after a wipe.
A message is packed by one program, unpacked by another and packed again by the
decoder to subtract it, each with its own idea of prefixes, powers and hashes.
The sequential decoder goes back and forth over nodes it has overwritten.
Requests get lost before or after they take effect, and never time out.  The
process may die anywhere.  A cursor that a thread prepared may be installed after
the broadcast that outdated it.  FFT plans are global variables that every call
makes, uses and destroys.  The same bands are spelt out in three tables, and a
frequency is compared as text.

What makes the parts correct: no change of the settings is lost; a second half
follows its own first half; an exception ends a service nobody stopped only when
the platform fails it; every transmission asked for goes on the air;
torch and wake lock do not outlive it; a log entry shows the message it came
in; what is marked as uploaded was named in a report; an upload reports every row
it can; a type 3 message touches only contacts of its session and hash; the text of
a message is the one that was sent, and what is subtracted is what was received;
no decoded message is lost or kept twice; the sequential decoder never passes
over a message above its threshold and returns the path it stands on; a position
lies in the square its locator names; the log shows the contacts the boxes ask
for and no others, once its threads are at rest; a file holds the message of each
contact in it; decodes that do not meet use their own plans and tables and free
them.

## 2. Modules

| module | what it is |
|---|---|
| `LBService` | worker, main thread and what they share; safety and liveness of one service object |
| `MCLBService` | settings of its instances |
| `LBServiceProofs` | proofs of its safety invariants |
| `SpotLedger` | abstract specification: a spot is logged once, named in reports only when its contact was tried, confirmed only when such a report arrived, and only a wipe takes it back |
| `SpotStore` | decoder threads, upload threads, sender, tables, wipe; implements `SpotLedger` |
| `MCSpotStore` | call signs and hashes of its instances |
| `SpotStoreProofs` | proofs of its links: row ids and contacts |
| `SpotSessionProofs` | marks and reports, late locators, complete uploads and the refinement of `SpotLedger`; extends `SpotStoreProofs` |
| `WsprCodec` | operators: packing, unpacking and packing again of the three message types |
| `Locator` | operators: position to locator, and back to the point distances are computed from |
| `WsprLink` | messages of stations on their way to the log of a receiver; extends `WsprCodec` and `Locator` |
| `MCWsprLink` | call signs, locators and hashes of its instances |
| `WsprLinkProofs` | proofs of its properties: what comes back from positions, packing and the way to the log |
| `WsprDriver` | the two passes of the decoder over one recording; extends `WsprCodec` |
| `MCWsprDriver` | signals of its instances |
| `WsprDriverProofs` | proofs of its safety invariants |
| `NativeDecoder` | recordings and decoder threads in the memory that all native calls share |
| `MCNativeDecoder` | frequencies of the candidates of its instance |
| `NativeDecoderProofs` | proofs of its safety invariants |
| `SpotBands` | operators: the tables of bands |
| `SpotLog` | decoder threads, log, raw list and export over the two tables; extends `SpotBands` |
| `MCSpotLog` | receptions and selections of its instance |
| `SpotLogProofs` | proofs of its safety invariants and of the bands and their frequencies |
| `Fano` | the sequential decoder |
| `MCFano` | a short code and its noise |
| `FanoProofs` | proofs about the search and its result |

Some places of the code have several models, at the depth each question needs.
`WsprLink!Store`, `SpotStore` and `SpotLog` all model `decodersRun`: the first
with the texts and one session, without threads; the second with threads,
failures, sessions and the network, and texts reduced to their kind; the third
with what a view sees of it, the rows and the broadcasts.  `NativeDecoder` models
what a call of `jani_do_process` shares with other calls, `WsprDriver` what it
does with the messages of one recording, where whether a peak decodes is a
choice, and `Fano` what the decoder does with one peak.

### LBService

One behaviour is one life of a service object, from the start of its thread to
the end of the thread and of `onDestroy`.  The preferences are the variables
`use_tx`, `switch_mode_next`, `tx_next_counter` and `gridsq`; settings that can
only be changed while the service is stopped are the constant record `setup`.
Fields and locals keep their names.  `pc` is the place of the worker, `main`
that of the main thread; the comment of each action names its lines.

* Granularity: two accesses to shared state are one step only when the other
  thread cannot tell them apart.  The fields are not volatile; the model takes
  them as sequentially consistent.
* A commit on the main thread runs the listener before it returns (`main` goes
  to `notify`); a commit of the worker adds to `posted`, and `Deliver` takes one
  from it.  Only keys whose value changes notify.
* A buffer is its WSPR message type and the part of the locator it carries; the
  samples are left out.  An empty buffer is `Silence`, which the constructor of
  the track rejects.
* An audio object is its platform state.  The platform may hand out a recorder or
  a track that is not initialised (`OpenRecorder`, `NewTrack`), and a recorder may
  fail while it is read (`RxFails`).  A call the platform rejects is an
  exception; where nothing catches it, `pc` becomes `crashed`, and with it the
  whole process.  So the poll of a recorder (lines 435 to 441) meets only one that is
  initialised, or one that `onDestroy` released, which the test of `quitter` beside
  it lets pass.
* Two history variables follow TX Next: `owed` counts the transmissions that were
  asked for and are not on the air, `overwritten` says that one of the two writers
  of the counter wrote over a value it had not read.
* Time: whether a slot is met (`SlotStart`, `SlotMissed`) and whether the draw
  against the probability succeeds are choices.
* Left out: the second service object that may start while the worker of the
  first still ends; the notification; the number of open recorders; the
  one-time correction of a malformed band preference by `getBand`, whose only
  effect here is a notification, as that of `BandClick`.

### SpotStore

Every statement and every post is one step of its thread; `pc` holds the place
of each.  The tables are sequences: rows are only appended and whole tables
deleted, and SQLite numbers the rows of `INTEGER PRIMARY KEY` after the largest
id, so an id is an index and is used again after a wipe.  A decoded message is
its kind (types 1 to 3 by the three patterns, or `bad`), call sign, session and
dial frequency.  History variables say what happened: `heard` numbers the
receptions ("spots"), `reports` is what reached wsprnet.org, `torn` that a wipe
met a thread at work or was cut short, `failed` that an upload skipped a spot.

* `Post` has three outcomes: not sent, sent without an answer, answered.  Only
  the last reaches `Mark`.
* A failed insert gives the id -1, which the callers use like any other.
* A report names one reception, whose call sign it has, and carries one, whose
  frequency, strength and time it has.  They differ where a type 3 message is
  reported under the row id of a contact it matches (`QueryHash`): then `of` is the
  reception of the contact and `spot` the type 3 reception.
* `Crash` ends all threads and keeps the tables; a service may start again and
  upload what is left.
* `use_network`, `callsign` and the numbering of sessions are read at the time
  of their use.
* Left out: the order in which one sender posts its entries, the second entry
  for a contact that matches twice, band and locator at the time of a post, a
  stored date that does not parse, the upgrades of the schema.

### WsprCodec and WsprLink

Characters are the numbers all three programs give them, a message on the air is
its word of 28 and its word of 22 bits.  `Pack` is the encoder of the
application, `Unpack` that of the decoder (`NoText` where it forbids to print),
`Repack` the packing before a signal is subtracted, with its three outcomes: the
same kind of message, a message nobody sent (the `#` and hash of type 3 are taken
for a call sign), nothing.  In `WsprLink` each slot carries one message of one
of the `Stations` from `Send` over `Decode` and `Subtract` to `Store`.

* `ValidCall` is the pattern that lets a call sign transmit, `Expressible` what the
  encoder has numbers for.  The pattern lets more pass: a digit behind the digit
  of the call sign, a suffix from 00 to 09.  What is `Carried` by a message of such
  a station is another call sign or none, and the properties except it.
* A station is a call sign, a position and a power.  Its locator is what
  `SaveLocation` made of the position, so a slot goes all the way from a fix to
  the point from which the receiver computes a distance.
* The history variables `from` and `aired` are for the properties.
* The hash is a constant function; the runs let two call signs share one and
  give others special values.
* Left out: the convolutional code and interleaving (between them `Fano`), the
  letter case of locators, the time of a message, other sessions.

### WsprDriver

One behaviour is one call of `jani_do_process`.  A recording holds a set of
signals; a pass chooses up to two peaks of each signal that is left (`Spectrum`)
and tries them in any order, which covers the order by strength.  A peak does
not decode (`NotDecoded`), decodes to a text that is not printed (`NotPrinted`)
or cannot be packed again (`LoopLeft`, the `break`), or is subtracted, compared
and kept (`Decoded`), with an error of the estimated frequency.

* A signal is removed from `left` only if the very same words are subtracted.
* Candidates that were never tried because the loop was left are `skipped`.
* Left out: decodes of words that were not sent, the sizes of the tables (`OnePlacePerSignal`
  bounds their use by the number of signals, not by 50); what calls share is in
  `NativeDecoder`.

### NativeDecoder

The worker fills a recording by reads of any length (`Read`), the last of which
is cut; `Enter` starts a decoder thread for it, in the order of the slots.  Calls
of the planner and of `fftwf_destroy_plan` have a beginning and an end
(`CallFFTW`, `Planned`, `Destroyed`), so that two threads can be inside; `Execute`
runs the plan a global variable holds.  A demodulation goes symbol by symbol along
a `track`, the frequencies of a drifting candidate; it computes new tone tables if
it is at the first symbol or the frequency differs from the static `fplast`
(`Fill`, `Filled`) and else keeps the local ones (`Keep`).

* What goes wrong is undefined behaviour in C, so it is noted in `faults`, and
  the process may then die (`Crash`) or go on.
* `met` says that two threads ever were in native code at a time: nothing in the
  program prevents it, and everything the properties promise is under the
  condition that it did not happen.
* A plan is the number of the thread that made it.
* Left out: the samples, which demodulation finds which candidate, the buffers
  behind a plan (allocated and freed by the same calls that make and destroy it).

### Locator, SpotBands and SpotLog

`Locator` counts angles in whole degrees and cells of 10^-8 degrees, so that the
doubles of the code and the integers of the model agree within a cell.  The native
function names its arguments in the other order than the Java declaration:
`PoleRefused` is the test for the poles as the longitude meets it.

`SpotBands` has the three tables in the units the comparisons need, whole megahertz
and steps of 10 Hz; a comparison of the beginning of a printed number is a
comparison of quotients.

In `SpotLog` a cursor is a record of the query it came from, its rows and its
time.  `Select` is a touch of a box, `RunQuery` the thread of the filter,
`ChangeCursor` the result on the main thread, `Receive` both receivers of a
broadcast; the export is `Begin`, `ReadOn` and `WriteFile` on the main thread, and
`MainFree` keeps everything else of that thread waiting meanwhile.

* A second selection replaces a request the thread has not begun, as `Filter` does.
* `raced` says that the cursor that is shown was queried before a broadcast and
  installed after it.
* A message is a band, a frequency, a time and how its text is treated: `contact`
  makes a row of the other table, `split` leaves the loop body early and without
  a broadcast, `other` is only broadcast.
* Between the insert and the broadcast a decoder may send its reports (`Report`,
  `Send`), and a request may stay without an answer for ever.
* A contact whose message could not be inserted has no message row: no query joins
  it, and the export writes it all the same.
* Left out: views that are destroyed and created again, wipes (a wipe tells no
  view), late locators, the rows of a cursor that are read as one scrolls.

### Fano

One behaviour is one call of `fano`, from the reception of a message to the
return.  `gamma`, `encstate`, `tm` and `i` are the fields of the nodes, kept also
above the current one, where they are stale.  The code is a constant: the two
polynomials as sets of lags, metric table, threshold step, length of message and
tail.  The loop backwards is one step for each node (`BackUp`) up to the
decision (`BackUp` with a branch left, or `Relax`); the loop that tightens the
threshold is the quotient its comment names.  What the second entry of `tm`
holds in the tail is `Junk`, a value that is no integer.  The allocation of the
nodes is taken to succeed: where it fails, `fano` returns 0, which its caller takes for
a decoded message, with the bytes of the one before.

## 3. Runs

| run | configuration | properties | what it shows |
|---|---|---|---|
| `service_safety` | `LBServiceSafety.cfg` | `TypeOK`, `SettingsInSync`, `SecondHalfFollowsFirst`, `CrashOnlyByPlatform`, `TorchOffBetweenCycles`, `WakeReleased` | Worker, menu, location fixes and onDestroy in every order, with recorders and tracks that do not come up or fail: no change of the settings is lost, halves go out in order, exceptions, torch and wake lock are confined. |
| `service_live` | `LBServiceLive.cfg` | `StopTerminates`, `SwitchTakesEffect`, `TxNextServed` | A stopped worker ends from every blocking place of its loop, a switch asked for from the menu takes effect in a later cycle, and every transmission asked for goes on the air unless its request was overwritten. |
| `service_torch` | `LBServiceTorch.cfg` (violated) | `TorchDarkWhenOver` | Worker and onDestroy can end with the torch lit. |
| `service_part_two` | `LBServicePartTwo.cfg` (violated) | `PartTwoSent` | A notification of any preference makes the worker forget a second half that is due. |
| `store_wipe` | `SpotStoreWipe.cfg` | `TypeOK`, `LogTrueUnlessTorn`, `ReportedUnlessTorn`, `GridFromOwnSession` | Two decoders, a wipe and a failed statement or the death of the process: rows join the message they came in, a mark has a report behind it although row ids are used again, locators come from the own session. |
| `store_send` | `SpotStoreSend.cfg` | `UploadComplete`, `LedgerKept` | An upload beside two decoders, rows of a known and an unknown band, one failed statement or death of the process, requests and answers that are lost: every row of a known band the upload began with is marked at its end, and tables and reports implement the ledger, whichever of the senders posts and marks a row. |
| `store_reject` | `SpotStoreReject.cfg` (violated) | `RejectedNotPosted` | A spot that was rejected for its band is posted with the next one. |
| `wspr_link` | `WsprLinkTwo.cfg` | `DecodedAsSent`, `SubtractedAsSent`, `ContactsTrue`, `DroppedByTableOnly`, `GridCompleted`, `ContactsLocated`, `LoggedFromTenUp` | Two slots of stations with plain call signs, prefixes and suffixes, of which some share a hash and some have no number: what is printed, subtracted and logged is what was sent, wherever the encoder could express it. |
| `wspr_driver` | `WsprDriverPasses.cfg` | `HeardAndSubtractedKept`, `OnePlacePerSignal`, `TriedUnlessRefused` | Recordings of signals of all types, two of them on neighbouring frequencies, each with up to two peaks in either pass: nothing decoded is lost, or kept twice. |
| `fano` | `FanoShort.cfg` | `TypeOK`, `HypothesisConsistent`, `AboveThreshold`, `NeverBelowAnyMessage`, `SuccessIsMessage`, `OneErrorInTime` | All messages of a short code with no, one or two changed symbols: every search is followed from node to node to its result. |
| `native_decoder` | `NativeDecoder.cfg` | `RecordingFits`, `PlansOwnUnlessMet`, `TablesOwnUnlessMet` | Two recordings and their decoder threads in native code, one after the other or at a time: what they share goes wrong only if they meet. |
| `spot_log` | `SpotLog.cfg` | `AskedForIsShown`, `ShownWasAskedFor`, `RawListComplete`, `BandFoundAgain`, `ExportJoined`, `ComesIntoView` | Two decoder threads, of which each may stop in a request for ever, the filter and the export at a time: what the log, the raw list and the file show of the tables. |

Bounds.  `MaxOps` counts the clicks and location fixes of a behaviour: two are
enough for a request to race the serving of an earlier one.  `RxReads` is 1 or
2, so a recording can be interrupted before, between and after its reads.  Two
squares and one pair of subsquares make locators differ in the part both halves
carry and in the part only one does.  In `SpotStore` the runs have two decoders,
with a wipe or with an upload: the smallest groups in which both users of the
sender race each other (two uploads at once are covered by the proofs only; that
the process dies with an upload under way and another goes on is, too);
two spots let one row
follow, or replace, another; one wipe makes ids repeat; one fault puts a
failure or a death of the process at every statement.  The configurations say
`CHECK_DEADLOCK FALSE` because services end: a stopped service or a store whose
threads have all run, a decoder
that has returned, a link whose slots are over and a log whose decoders are out of
messages have no step left.

In `WsprLink` two slots are a first and a second half, of one station or two; the
call signs cover the digit in second and third place, prefixes of one and
three characters below and above 2^15, suffixes of a letter, a digit and two
digits, and four that are not `Expressible`.  `WsprDriver`
has six signals of all kinds with at most three peaks in a pass, enough for
two call signs on nearly one frequency, one call sign on two, and a refused text
between them.  `Fano` has four bits and a tail of two with three lags: every
message with every single and double change of its twelve symbols, one of which
may be an erasure; the limit of cycles is low enough for a timeout to happen.

`NativeDecoder` has two calls, the fewest that can meet; recordings of two
samples are filled by reads of one to six bytes, so the last read may be cut by any
amount; messages of two symbols and two tracks, one steady and one drifting from
the frequency before to that of the other, make every outcome of the comparison
with `fplast` happen, also across calls.  In `SpotLog` two decoders insert a
message each, at two times on two days, from the two frequencies of 80 m, one of
them at both ends of a prefix, and 2 m; one selection meets the broadcasts of
both, and one fault is a failed insert or a failed export.  At the second time the
messages of the first are too old for the selection; that a message may be shown
that is older by less than a day is in the theorem `OnlyAskedForShown` only.  The positions of the
stations of `WsprLink` include two corners of the world, the strip in which
the fifth and sixth character become a 25th letter, and a longitude the test for
the poles refuses.

Fairness.  `FairSpec` of `LBService` lets the worker and the looper of the main
thread go on: every blocking call returns, at the latest when `onDestroy`
releases its object.  `LiveSpec`, under which the liveness
properties of the service are checked, adds strong fairness of one event of the
platform: a worker that looks at the clock again and again meets a slot.  Users need
do nothing.  `Spec` of `SpotLog` has weak fairness of the decoder threads, but for
their requests (`RunsOn` is without `Send`), of the thread of the filter, and of
the main thread with what is in its queue; touching a box, opening a view, starting
an export and the passing of time need not happen.
`FairSpec` of `SpotStore` lets the upload threads go on except in a request,
for which the code sets no timeout.

## 4. Disagreements

The runs that expect a violation each check one sentence of the documentation,
of the strings shown to the user or of a comment, which the code does not keep.
The other entries name a run that passes: its property states what the code does
keep, with what it does not keep as an explicit exception or condition.

* `TorchDarkWhenOver` (`service_torch`, `LBService.java:530`): src/README:9 says "Torch (camera flashlight) can be enabled during transmission cycles to allow usage of small solar cell or photodiode to trigger your radio's TR circuit." The worker may light the torch after onDestroy has put it out and then return early at one of the quitter checks, which skip the code that puts it out: the torch, and the transmitter it keys, stay on after the service.
* `PartTwoSent` (`service_part_two`, `LBService.java:330`): strings.xml:35 tells the user "Playback done, p2 required." and strings.xml:81 "Provides finer position, requires 2 transmission cycles." Every preference write, the worker's own write of tx_next_counter included, raises settings_version, and the reload resets next_is_txsound2: the second cycle is dropped although the locator is the same.
* `RejectedNotPosted` (`store_reject`, `LBSpotUploadService.java:133`): strings.xml:206 says "FRQ. does not belongs to any known band." and the exception at LBSpotUploadService.java:216 "Frequency does not belong to any known band." The entry was appended before the check, stays in the sender, and is posted with the next row, under the band and the locator of that row.
* `CrashOnlyByPlatform` (`service_safety`, `LBService.java:434`): strings.xml:273 says "Cannot initialize AudioRecord-ing of your device." and line 435 waits for that. startRecording at line 434 throws on such a recorder, uncaught, before the message is reached, and so does the write of a negative count at line 619 when the recorder fails while it is read: the process ends. A track that does not come up ends it at line 526. CrashOnlyByPlatform has these as its exception.
* `TxNextServed` (`service_live`, `LBService.java:467`): strings.xml:219 calls the menu item "TX Next" and strings.xml:220 shows "TX Next count:", one more for each click. The worker reads the count at the head of its loop (LBService.java:298) and minutes later writes that value less one (467); a click between the two is overwritten and its transmission never happens, and one that read the count before the write and stores it after adds one too many. TxNextServed has such writes as its exception (overwritten).
* `ReportedUnlessTorn` (`store_wipe`, `LBService.java:809`): strings.xml:199 shows a row as "Uploaded" and strings.xml:201 offers "Upload pending spots" for the others. Under the row id of each contact a type 3 message matches, the code reports the type 3 reception, with its own frequency, strength and time: when that report is answered the row is marked, and where the report of the contact itself had failed the upload never sends it. ReportedUnlessTorn allows for a type 3 reception of the same session and hash in the place of the own one.
* `LoggedFromTenUp` (`wspr_link`, `LBService.java:723`): strings.xml:192 says "Log tab on the other hand contains all messages which callsigns are known" and changelogs/45.txt:1 "Fixed crashes while decoding messages with dBm < 10." The decoder prints the power to two places (wsprd_utils.c:260), so below 10 dBm two blanks precede it: pattern 1 allows them but the split gives four fields, pattern 2 does not allow them, and the message with its known call sign is not logged.
* `TriedUnlessRefused` (`wspr_driver`, `wsprd.c:1403`): src/app/src/main/jni/wsprd/README:59 says the decoder works "by trying to decode virtually every peak in the averaged spectrum." Where a decoded text cannot be packed again, a call sign of three characters for instance, the loop over all candidates is left and the weaker ones are not tried in that pass; the message itself is lost too.
* `ContactsLocated` (`wspr_link`, `libloud.cpp:135`): libloud.cpp:137 says "Latitude is >= +-90 deg. Grid sq. doesn't work on poles." and src/README:8 that the locator can follow the GPS position. The Java declaration (CJarInterface.java:17) and its caller pass latitude and longitude, the native function names them the other way round: beyond 90 degrees of longitude, where no pole is, a fix is refused and the last locator goes on the air. ContactsLocated has the refused half of the globe as its exception.
* `BandFoundAgain` (`spot_log`, `LBSpotUploadService.java:206`): LBSpotUploadService.java:216 says "Frequency does not belong to any known band." of the new 80 m frequency from 3.5700 MHz on and of 2 m from 144.490 MHz to 144.4906 MHz, which are received on the dial frequencies 3.5686 and 144.489 the menu sets: the prefixes are of dial frequencies, the text is of the received one. BandFoundAgain has both bands as its exception.
* `PlansOwnUnlessMet` (`native_decoder`, `wsprd.c:780`): src/app/src/main/cppfft/fftw-3.3.8/doc/html/Thread-safety.html:90 says "the only thread-safe routine in FFTW is fftw_execute" and that all others, the planner for instance, "should only be called from one thread at a time." Each recording has its own thread (LBService.java:650) and nothing makes it wait for the one before, so two may be in the planner, and the plans are globals besides. PlansOwnUnlessMet has two decodes that met as its exception.
* `ShownWasAskedFor` (`spot_log`, `LogaFragment.java:191`): strings.xml:173 offers "Last Hour". SQLite's date() drops the time of the day, so the log shows everything since the midnight before that hour. ShownWasAskedFor allows for that day.
* `DecodedAsSent` (`wspr_link`, `LBService.java:290`): strings.xml:136-140 offers call signs "XX0XXX" and "XX0XXX/00", where "X - a letter from A to Z, a number or absence of symbol", and the pattern lets them transmit. The encoder has numbers for letters behind the digit (wenc.c:121-123) and for suffixes "/10 to /99" (wenc.c:89) only: R3A5 is received as R2, RA3BA5 as RA3A, and R3ABC/05 as R3ABC/V. DecodedAsSent, SubtractedAsSent, DroppedByTableOnly and the two invariants of the log have such call signs as their exception.
* `ComesIntoView` (`spot_log`, `LBService.java:841`): strings.xml:192 says "Log tab on the other hand contains all messages which callsigns are known". The broadcast that makes the log query again stands behind the reports to wsprnet.org (line 857), which set no timeout (WSPRNetSender.java:100-107): a request without an answer keeps the row, and all the messages of the recording behind it, out of sight. ComesIntoView speaks of threads that have their reports behind them.
* `AskedForIsShown` (`spot_log`, `LogaFragment.java:163`): strings.xml:192 says "Log tab on the other hand contains all messages which callsigns are known". After a selection the cursor is queried on another thread and installed later; a broadcast between the two makes the log query the cursor it is about to give up, and what was stored in between stays out of sight until the next broadcast. AskedForIsShown and ComesIntoView have that cursor as their exception (raced).
* `RawListComplete` (`spot_log`, `LBService.java:729`): strings.xml:188 says "In this window you can see all the messages that was received since last database removal or app instalation." A message of type 1 whose split gives four fields is stored and leaves the loop body before the broadcast: an open list lacks it until another message is announced. RawListComplete has such messages as its exception (split).

## 5. Proofs

| theorem | property | |
|---|---|---|
| `LBServiceProofs!TypeCorrect` | `TypeOK` | Counter, buffers, audio objects and program counters keep their types for all settings, locators and bounds. |
| `LBServiceProofs!NoLostSettings` | `SettingsInSync` | No change of a preference is lost between the threads. |
| `LBServiceProofs!HalvesInOrder` | `SecondHalfFollowsFirst` | A second half follows its own first half. |
| `LBServiceProofs!NoEarlyCrash` | `CrashOnlyByPlatform` | No exception ends the worker before it is stopped, unless the platform gave it a recorder or a track that is not initialised or failed while recording. |
| `LBServiceProofs!NoStrayTorch` | `TorchOffBetweenCycles` | The torch is lit inside the transmission branch only, until the stop. |
| `LBServiceProofs!NoLeakedLock` | `WakeReleased` | No wake lock survives worker and onDestroy. |
| `SpotStoreProofs!StoreTypes` | `TypeOK` | Tables, senders and threads keep their types whatever fails. |
| `SpotStoreProofs!LogJoinsTruly` | `LogTrueUnlessTorn` | Every log entry joins the message it came in unless a wipe is torn, for any number of threads, spots, wipes and faults. |
| `FanoProofs!TypeCorrect` | `TypeOK` | No branch metric is used before it was computed and the cycles stay within their limit, for every code, metric table and length of message and tail. |
| `FanoProofs!StaysAboveThreshold` | `AboveThreshold` | The node the decoder stands on is never below the threshold, a multiple of delta. |
| `WsprLinkProofs!LocatorsAreNear` |  | The point computed from a locator of four or six characters is no further from the position it was made from than the square is wide, on either axis, for every position. |
| `WsprLinkProofs!DecodedIsSent` | `DecodedAsSent` | Every text that is printed is the message that was sent, for all call signs with and without prefix or suffix, locators, legal powers and hashes, whenever the encoder can express the call sign. |
| `WsprLinkProofs!OnlyTableDrops` | `DroppedByTableOnly` | Of those messages only the ones whose second word, read as a locator, is none are dropped. |
| `WsprLinkProofs!SubtractedIsReceived` | `SubtractedAsSent` | Packing the text again gives the words that were received, but for the prefix with the number 2^15. |
| `WsprLinkProofs!SubtractionIsKnown` |  | Which words are subtracted for every message of a carried station: those that were received, the word one off for the prefix with the number 2^15, or those of a call sign made of # and the digits of the hash. |
| `WsprLinkProofs!FateOfMessages` |  | Exactly which messages of such a station the decoder drops, and exactly which it cannot pack again. |
| `WsprLinkProofs!LogIsTrue` | `ContactsTrue` | Every contact in the log was on the air, with a locator that was sent under its own hash, for any stations, hash function and number of slots. |
| `WsprLinkProofs!LogIsLocated` | `ContactsLocated` | The point of a contact is no further from a station that was heard than its square is wide, unless the fix of that station was refused. |
| `WsprLinkProofs!SecondHalfCompletes` | `GridCompleted` | A second half that is stored leaves no row of its call sign without a locator of six characters. |
| `WsprLinkProofs!TenUpIsLogged` | `LoggedFromTenUp` | A text with a call sign makes a row exactly from 10 dBm up, whatever call sign it is. |
| `SpotLogProofs!HeardNearOwnDial` |  | What was heard on a band is within the window of that band in the log and of no other. |
| `SpotLogProofs!TypeCorrect` |  | Rows, threads, cursors and the export keep their types for any number of decoders, messages, selections and faults. |
| `SpotLogProofs!AskedForShown` | `AskedForIsShown` | With nothing under way the log shows all that was selected last, unless its cursor missed a broadcast. |
| `SpotLogProofs!OnlyAskedForShown` | `ShownWasAskedFor` | The log never shows a contact of another band or more than a day too old. |
| `SpotLogProofs!RawListLacksNone` | `RawListComplete` | With nothing under way the raw list lacks no message that reached its broadcast. |
| `SpotLogProofs!BandFound` | `BandFoundAgain` | The upload finds the band of every reception again, but for two bands. |
| `SpotLogProofs!ExportIsJoined` | `ExportJoined` | Every contact of a whole export has its message, whatever was inserted between the queries, unless the insert of the message had failed. |
| `SpotLogProofs!ExportStays` |  | A whole export is never touched again. |
| `NativeDecoderProofs!TypeCorrect` |  | Recordings, threads, plans and static variables keep their types for any number of calls. |
| `NativeDecoderProofs!RecordingAlwaysFits` | `RecordingFits` | Every recording fits the array it is copied to and fills what is read of it, for any sizes of reads. |
| `NativeDecoderProofs!PlansAreOwn` | `PlansOwnUnlessMet` | While decodes do not meet, each uses its own plans only. |
| `NativeDecoderProofs!TablesAreOwn` | `TablesOwnUnlessMet` | While decodes do not meet, a kept tone table is that of the frequency of the symbol. |
| `WsprDriverProofs!TypeCorrect` |  | Candidates are those of signals in the recording and the passes are counted, for any signals, errors and peaks. |
| `WsprDriverProofs!NothingIsLost` | `HeardAndSubtractedKept` | No message that was decoded or subtracted is lost to dupes, passes or the sort, whatever the codec returns. |
| `WsprDriverProofs!OnePlaceEach` | `OnePlacePerSignal` | The table of messages never has more entries than signals were heard. |
| `WsprDriverProofs!AllAreTried` | `TriedUnlessRefused` | Only a text that cannot be packed again leaves candidates untried. |
| `SpotSessionProofs!MarksAreReported` | `ReportedUnlessTorn` | The report under the call sign of every marked contact arrived, of its own reception or of one of type 3 from its session with its hash, unless a wipe is torn, for any number of threads, spots, wipes and faults. |
| `SpotSessionProofs!UploadsAreComplete` | `UploadComplete` | An upload that ends without an abort, a wipe or a failed request has marked every row of a known band it began with, for any decoders, uploads, rows, faults and interleavings. |
| `SpotSessionProofs!UploadsEndComplete` |  | The same for any number of wipes, at the step where the upload ends: every row of a known band it began with is in the log with its mark, unless a wipe met a thread at work. |
| `SpotSessionProofs!LedgerIsKept` | `LedgerKept` | Through any number of wipes the tables, the senders and the network implement the ledger: a spot is logged once, reports name it only when its contact was tried, it is confirmed only when a report that names it arrived, and stays so but for a wipe. |
| `SpotSessionProofs!NothingIsInvented` |  | Every report names a reception of type 1 or 2 whose contact was tried before, and carries that reception or one of type 3, whatever is wiped, torn or not. |
| `SpotSessionProofs!EachSpotOnce` |  | No reception has two rows in the log, whatever is wiped, torn or not. |
| `SpotSessionProofs!LocatorFromOwnSession` | `GridFromOwnSession` | A locator that is filled in late was heard in the session of its contact, from the same call sign hash, for any threads, call signs and interleavings. |
| `FanoProofs!HypothesisStays` | `HypothesisConsistent` | The nodes of the path hold one message, its metric and zeros in its tail, for every code with odd polynomials, metric table and threshold step. |
| `FanoProofs!ThresholdNeverBelow` | `NeverBelowAnyMessage` | However the metrics of a reception are, the threshold is never relaxed further than to the step under the lowest point of the best message. |
| `FanoProofs!SuccessReturnsMessage` | `SuccessIsMessage` | A successful search returns the bytes and the metric of one message, whatever was received. |

`LBServiceProofs`.  None of the invariants is inductive.  `IInv` adds: which
program counters go with which states of the service (`Lifecycle`), who holds
the wake lock (`LockInv`), that before the stop the audio objects are where the worker uses them, and a crash
is one of the platform's making (`AudioInv`), that a mode which transmits has its buffers
(`BufferInv`), what both halves were encoded from (`HalfInv`), and that a change
made since the version was stored is either in `settings_version` or on its way
(`SyncInv`).  Each conjunct has a lemma with one case for each group of actions.

`SpotStoreProofs`.  While no wipe is torn, every row id that a thread holds
(`QueueRefs`, `SentRefs`, `RowRefs`, `CurrentRefs`) is -1 or refers to the row
of the spot it is kept with, every contact refers to its own message
(`LogRefs`), a mark has a report that names its spot (`MarksNamed`), and a wipe
between its two deletes finds no thread at work (`Wiping`).  `RowsKept` and `RefsKept` say that ordinary steps keep the rows
that are there, so references survive; `WipeLinks` that a wipe at rest leaves
none.

`SpotSessionProofs`.  Late locators need more than the links.  Every spot is
numbered for good (`KeepsHeard`), and `SInv` adds that a row of `messages` has
the session of its spot and a row of `contacts` has a spot (`MessagesHeard`,
`ContactsHeard`), that a thread between its insert and its update still works on
the spot of its session and its call sign (`CurrentHeard`), and, while no wipe is
torn, that the contacts a thread is about to fill in are of its session and hash
(`FixOwn`) and those filled in have a source (`Own`).

`MarksAreReported` combines the two: that a report names the spot of the marked row is
the invariant of `SpotStoreProofs`, and that what it carries is that spot or a type 3
reception of its session with its hash (`Sound`) holds of every entry a sender ever
held (`EntriesTried`) and of every report (`ReportsTried`).

`FanoProofs`.  `Typed` adds to `TypeOK` what makes it inductive: each node up to
the current one has bits, its first metric and, below the tail, its second one,
and a node in the tail tries its first branch only; a search that has to back up
still has cycles.  `AboveThreshold` is inductive beside it: forward steps raise
the threshold by multiples of delta up to the new metric at most, backward steps
go to nodes at or above it.

`Hypothesis` is the third part: each node is the one before with one bit
more (`Chosen`), its first metric is that of the branch it holds, and, in the
message proper, its second one that of the other branch, which is what makes a
turned branch right.  This rests on both polynomials being odd, as fano.c says:
a last bit of one has the opposite symbols (`ParityFlips`, `EncodeOther`).

The fourth part, `Exhausted`, is about what the search has given up.  The metrics of
the path are those of every message through its nodes (`MetricsTrue`).  A node on
its second branch was left on its better first one, and the messages that leave the
path there fell under a threshold which neither the present one nor the path from
there on is below (`Searched`); a node was reached at a threshold that is not
above it and not below any message (`Visited`); and while the search backs up all
messages through the current node have a point under the threshold (`Stuck`).
`Relax` happens where backing up further would go below the threshold or out of the
tree, and there `Stuck` and `Visited` of the nodes below give the step.  So the
threshold stays within a step of the lowest point of every message
(`ThresholdNeverBelow`).  `SuccessReturnsMessage` reads the bits of the path back
from its last node: each node holds those of the ones before it, which is shown for a
least node that would not (`LeastNumber`, from a theorem on well-founded sets that
needs no operator as a parameter).

`SpotSessionProofs`, uploads.  A row an upload has taken from its cursor, of a known
band, is marked or on its way: in the queue of the sender, or the one it is about to
mark (`Taken`, `OnItsWay`), as long as nothing was wiped (`NoWipe`) and nothing
failed.  At the end the queue is empty and all rows are taken
(`UploadsAreComplete`).  That property looks at the state after the end, when a wipe may
take the rows; `UploadsEndComplete` says the same of the step that ends the upload and
holds for any number of wipes: a wipe that is not torn meets no upload under way
(`UWiped`), so what an upload holds on to stays.

`LedgerIsKept` is step simulation.  `pending` of the ledger are the receptions to come
and those in a decoder between message and contact (`Pending`), `logged` and
`confirmed` are read off the rows of `contacts`.  Storing a contact is `Log`, a message
without one, a failed insert and a crash are `Lose`, a post that arrives is `Deliver`,
a mark `Confirm`, the second delete `Wipe`; all other steps stutter.  `LInv` has what
the steps need: cursors, senders, reports and rows hold spots that were tried (`CursorsTried`,
`EntriesTried`, `ReportsTried`, `RowsTried`), and a spot about to be logged is in no row and with no
other decoder (`Fresh`).  `Untried` ties the two views together: what is pending is
what was not tried.  That a mark meets a row whose spot a report names, although ids
are used again after a wipe, is the invariant of `SpotStoreProofs`.  A torn wipe may put
a mark on the row of another spot, so from there on the ledger promises less
(`Torn`); what it still promises is `NothingIsInvented` and `EachSpotOnce`, which need
`LInv` only.

`WsprLinkProofs`.  For one axis the quotients of an angle by field, square and
subsquare put it together again up to a remainder that is less than the width of a
subsquare, though the code's step is short of a 24th of a degree: a 25th
subsquare, where the division gives one, still lies within the width.
`LocatorsAreNear` combines the axes for four and six characters.

Then the codec.  A call sign of six places, a prefix, a locator are numbers in a
mixed radix, and each lemma says that the decoder's divisions give the digits back:
`SixBack` and `CallsComeBack` with the blanks in front and behind, `PrefixBack`,
`SuffixBack`, `GridBack`.  `SecondWord` takes apart the word of 22 bits with
type, power and the bit a prefix from 2^15 on leaves there.  `Type1Reads`,
`Type2Reads` and `Type3Reads` put them together: what is unpacked is the message
(`DecodedIsSent`), and what is packed from it again are the received words
(`SubtractedIsReceived`).  The first attempt failed for call signs that the
pattern accepts and the encoder cannot express, which is the entry on
`DecodedAsSent` above.  `LinkInv` ties air, text and residue to the message that was
sent last and keeps the hash of each row beside its call sign; `RowsTrue` says that
every row has a sender and its locator one with the same hash, which survives a
second half of another station with that hash (`LogIsTrue`, `LogIsLocated`).
`SecondHalfCompletes` and `TenUpIsLogged` hold for all messages, expressible or not.

`SubtractionIsKnown` and `FateOfMessages` say what becomes of the messages those
properties except.  `RepackType1`, `RepackType2` and `RepackType3` compute the second
packing of each text.  A type 3 text is its hash between brackets, which `Repack` takes
for a call sign of `#` and digits (`HashText`): with three digits and more it packs
to a message of nobody (`Foreign`), with fewer it cannot be packed, and neither can a
plain call sign of three characters (`NotRepacked`).  The prefix with the number
2^15 is packed to a word that differs by one.  A hash from 32400 on, and a prefix number
from there to 32767, is a text the decoder forbids to print (`Unheard`).
For the messages of all stations the pattern lets through and the encoder has numbers
for, these are the only losses: the theorem states them as equivalences, so a message
is lost at a place if and only if it is of that kind.

`SpotLogProofs`.  `IInv` is `Typed`, where no row leaves a table (`Grown`), and
`CursorInv`, which holds for the cursor that is shown and for each on its way:
its rows are of its selection (`True`), and a contact it lacks is `Pending`, that
is a broadcast waits or its decoder has its reports or the broadcast before it, unless a broadcast was
missed (`Complete`).  `AskedInv` says that the last element of the pipeline from
the request over the results to the cursor is what the boxes are set to, `RawInv`
is the same argument for the raw list, and `ExportInv` keeps the contacts that were
read within the messages that were read after them, or without a message.  That a window of 6 kHz
belongs to one band only is arithmetic over the table of dial frequencies
(`HeardNearOwnDial`).

`NativeDecoderProofs`.  `RecordInv` bounds a recording in progress by the limit.
`ThreadInv` ties the place of a thread to its pass, its loop and `inFFTW`.  While
decodes have not met at most one thread is inside (`Alone`), and `PlanInv` says
which of the three plans are its own at each place.  `TableInv` is the reason why
`fplast` may outlive the tables: behind the first symbol the local tables of the
only thread inside are those of `fplast`.

`WsprDriverProofs`.  `RecordInv` bounds the record of what the recording holds
and what was done with it.  `KeptInv` says that each signal that was heard or
subtracted still has its message; through the sort this needs the sort to be a
permutation, which holds because the place of an entry is the number of entries
before it and these ranks are different and leave none out (`RankBounds`,
`RankInjective`, `SortIsPermutation`).  `PlaceInv` gives every entry a signal it
was decoded from: two entries with the same signal would have been dupes, so
there are no more entries than signals.  The codec stays unexpanded, the
theorems hold whatever texts it returns.

The theorems hold for every value of the constants that the named assumptions
of the modules admit: any sets of threads, call signs, hash function, bands and
bounds.  Liveness (`StopTerminates`, `SwitchTakesEffect`, `TxNextServed`,
`ComesIntoView`) is only model-checked; the prover does not treat fairness.  So is
`OneErrorInTime` of `Fano`: that a limit of cycles is enough depends on the code
and the metric table of the instance.  Every other property that a passing run
checks and that holds for all instances is a theorem.  The type invariants of
`SpotLog`, `NativeDecoder` and `WsprDriver` are theorems and not checked by a run
besides.

## 6. Plan

1. Done: `LBService`, `SpotStore`, `Fano`, `NativeDecoder`, `SpotLog`,
   `WsprDriver` and `WsprLink` with proofs, `Locator`, `SpotBands` and `WsprCodec`
   with proofs of what they compute.
2. Theorems left: `WsprDriver` over the texts of `Unpack`, with `NotRepacked` of
   `WsprLink` for what `Repack` refuses; what a torn wipe can confuse at most.
3. Modules left: two service objects that overlap; `LBService` composed with the
   start of decoder threads, which would say when decodes meet; wipes and late
   locators in `SpotLog`.

Known and not stated as properties, because each is one missing call or one
statement: a contact is exported without its message where the insert of that had
failed (`J/cutil/DBToXMLConverter.java:159`); the recorder of a transmitting cycle (`J/LBService.java:433`), the
location updates (`J/LBService.java:122`), the copy of a recording
(`N/libloud.cpp:87`) and the cursors of the filter (`J/LogaFragment.java:247`) are
never given back; the band of a spot is read when its decode starts
(`J/LBService.java:699`); a wipe and an upload send no broadcast
(`J/cutil/DBToXMLConverter.java:53`); a session that heard nothing shares its
number with the next (`J/LBService.java:278`).

Not modelled at all: sound synthesis and signal processing (floating point on
samples), the vendored FFT library, the distance and bearing computed from two
points, the settings screen and the layout of the views, the crash reports, and
the stack and ordered statistics decoders, which the driver never calls.  Of the
files of the repository the FFT library is nearly all; what is modelled is the
application's own code, without its signal processing.
