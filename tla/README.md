# Livox SDK in TLA+

This directory models the Livox lidar SDK of this repository
(`src/livox-sdk2-official/sdk_core`) in TLA+, checks the models with TLC on small instances
and proves with TLAPS every invariant and every action property of the passing runs, for all
values of the constants. Paths below are relative to `sdk_core` unless they say otherwise.

## 1. Inventory

The SDK talks UDP with any number of lidars. It broadcasts a detection request every
second; the answers create the data about a lidar; the lidar is configured with
commands; afterwards it streams point clouds, IMU data, log files and state
information. The application calls the C API from its own threads and gets callbacks
on the SDK's IO threads.

| component | state | operations | what is hard | what must hold |
|---|---|---|---|---|
| Sequence numbers `comm/generate_seq.cpp` | one static atomic counter | `GetSeq`, from any thread | the load and the compare-exchange are two steps, wrap at 65535 | one number per call, distinct in a lap, never 0 |
| Pending commands `command_handler/general_command_handler.cpp`, `hap_`, `mid360_command_handler.cpp` | `commands_`: sequence number to command and deadline | `SendCommand`, `AddCommand`, `Handler` (acknowledgement), `CommandsHandle` (timeout) | the sender, the reading IO thread and every IO thread's timer race; UDP loses, delays and repeats | one outcome for each registration, none invented, none lost; every command is concluded |
| Firmware upgrade `upgrade/livox_lidar_upgrader.cpp`, `upgrade_manager.cpp` | state, block offset and retry counter, without a lock | events, five response handlers, destructor that polls the state | callbacks on IO threads against the upgrade thread and the destructor; retries against late outcomes | no block is skipped, success is only reported when confirmed, it ends |
| Log writer `logger_handler/logger_handler.cpp` | queue, current file of every log type | `StoreLogBag`, `CreateFile`, `WriteFile`, `StopFile`, `Destory` | writer thread against IO threads and shutdown; reordered bags; names that collide | data in order and in the right file, nothing lost by renaming, shutdown ends |
| Log manager `logger_handler/logger_manager.cpp` | lidars, log handlers, rotation thread | `Handler`, `CycleDelete`, `StopAllLogger`, `Destory` | maps without a lock used by IO threads and by shutdown | a handler exists when it is used; rotation stops; a second session works |
| Discovery and configuration `device_manager.cpp`, `general_command_handler.cpp`, the command handlers | `devices_`, `device_dev_type_`, `view_devices_`, configuration maps | `HandleDetectionData`, `QueryFwTypeCallback`, `AddViewLidar`, `UpdateLidarCfg`, `LivoxLidarInfoChange` | a chain of commands and callbacks per lidar, repeated by the next detection, with retries that share a counter | the user is told of a lidar once; a lidar in loader mode is not configured |
| IO loop `base/io_loop.cpp`, `io_thread.cpp`, `thread_base.cpp`, `multiple_io/` | posted tasks, descriptors, wake-up pipe | `PostTask`, `Loop`, `AddDelegate`, `RemoveDelegate`, `Join` | wake-up against poll; callbacks that change what is iterated | every posted task runs; a thread stops |
| Life cycle `livox_lidar_sdk.cpp`, `device_manager.cpp` | `is_initialized`, threads, sockets, singletons | `LivoxLidarSdkInit`, `LivoxLidarSdkUninit`, sockets opened for a lidar that answers | partial failure of Init; order of shutdown; callbacks that open sockets while it runs; a second session | a session leaves nothing that breaks the next one |
| Data dispatch `data_handler/data_handler.cpp` | observers, callbacks | `Handle`, `AddPointCloudObserver`, `RemovePointCloudObserver` | observers called with the lock held; identifiers that wrap | an observer that was removed is not called |
| Debug point cloud `debug_point_cloud_handler/` | buffer, writer thread, handlers | `StoreData`, `WriteData`, `Enable` | a thread that is started again while it runs; a switch that stores a flag and then visits the handlers | one writer per lidar |
| Command requests, wire protocol, configuration | none | build and parse | lengths and bounds | a parsed packet is the one that was built |
| JNI bridge `src/jni/LivoxJNI.cpp` | global reference to the Java callback | `setPointCloudCallback`, native callback | IO threads against Java threads | the reference is live when it is used |

Not the program's own logic, and left out: the samples, spdlog, rapidjson, FastCRC, the
wrappers of sockets, pipes and pollers, and the SDK's own text log.

How they interact. `SendCommand` takes a number from the generator, finds the command
handler of the device type, which sends the datagram, and adds the command to the
table. An IO thread that reads a command socket passes the datagram to
`GeneralCommandHandler::Handler`; the timer of each of the IO threads calls
`CommandsHandle`. Either of them takes the entry out of the table under
`commands_mutex_` and calls the callback after unlocking. Discovery, upgrade and log
control are state machines on top of these callbacks, and share their guarantees.
`DeviceManager` opens the sockets that the configuration asks for, gives each to the loop
of an IO thread, and sorts what they receive by the port of the lidar that sent it
(`OnData`): to discovery, the command table, the data handler, the debug point clouds or
the log manager.

## 2. Modules

| module | models | builds on |
|---|---|---|
| `SeqNumbers` | the arithmetic of `GetSeq`: `NextSeq`, a bounded wrap-around | |
| `GenerateSeq` | every concurrent call of `GetSeq`: `Load`, `Swap`, `SwapFails` | `SeqNumbers` |
| `CommandTable` | the pending-command table, and at its end the refinement mapping to `CommandLedger` | `SeqNumbers` |
| `CommandLedger` | abstract specification: what the command layer promises (registrations, outcomes owed, outcomes paid) | |
| `Upgrader` | one firmware upgrade | outcomes of commands, as `OneOutcome` and `EveryCommandConcludes` give them |
| `Discovery` | how lidars become known, configured and announced | the same |
| `LogWriter` | the log files of one lidar | |
| `LogCollection` | the log manager and the log directory, over crashes | a handler as `LogWriter` shows it |
| `SdkSession` | Init, Uninit, IO loops, sockets and the detection thread | |
| `DataPath` | observers of point clouds; debug point clouds | identifiers as `SeqNumbers` gives them |
| `LidarKeys` | requests, reports and packets as lists of parameters (operators only) | |
| `LidarCfg` | configuration files, sockets, ports and `OnData` (operators only) | `LidarKeys` |
| `LidarLink` | a host and lidars that use both | `LidarCfg` |
| `MCCommandTable`, `MCSdkSession`, `MCLidarLink` | instances for TLC | |
| `CommandTable_proofs` | theorems about `CommandTable` and `GenerateSeq` | both |
| `DataPath_proofs`, `Upgrader_proofs`, `LogWriter_proofs`, `LogCollection_proofs`, `SdkSession_proofs`, `Discovery_proofs` | theorems about the module of that name | that module |
| `LidarLink_proofs` | theorems about `LidarLink`, and lemmas on the operators of `LidarKeys` and `LidarCfg` | `LidarLink` |

A definition that is named after another one and precedes it (`WokenNot` before `Woken`)
is a deliberate fault in its place: every property of a passing run has one, and TLC finds
the property violated with it.

### CommandTable

A member of `Commands` is one `Command` object. It takes one of three routes (`style`):
`hap`, where `HapCommandHandler::SendCommand` adds the command before `sendto` and
`GeneralCommandHandler::SendCommand` adds it again afterwards; `mid360`, where only the
latter does; and `cfg`, for `SetViewLidar` and `SetCustomLidar`, which add the command
and send it. `pc` is the place of the sending thread in that code, one action per step:
`Issue`, `LookupFails`, `LookupSucceeds`, `AddBeforeSend`, `SendSucceeds`, `SendFails`,
`AddAfterSend`. `commands` is `commands_` with the time that is left to each deadline.
`ReceiveAck` and `CommandsHandle` are the two critical sections that take entries out,
`RunCallback` is one callback called outside the lock (`running` holds those still to
call). `wire` and `acks` are the network: a datagram that is never taken from them is
lost, the order is free, `Duplicates` lets an acknowledgement stay. `GetSeq` is one step
here, which `OneNumberAtATime` of `GenerateSeq` justifies.

### Upgrader

`fsm`, `offset` and `tries` are the members, none of which is locked, so every call a
thread makes is a step: reading the state (`FsmEventHandler`), writing it
(`EnterState`), sending the request (`Send`, `SendFails`, `SendsNothing`), calling the
user's observer on the way back (`Report`), and the response handlers (`Answered`,
`Unanswered`). `Target` and `Sources` are the transition table. `owed` and `unsent` are
the outcomes the command layer still has to deliver, per request and, for blocks, per
offset. `SeesEnd` and `Destroy` are the destructor. `flaws` records what the environment
did: `extra` (a command with more than one outcome), `mute` (a request without any),
`early` (the destructor looked before the upgrade had begun). Most properties hold for
commands with one outcome, which `OneOutcome` proves of the Mid360 route and which a HAP
command does not keep; `SuccessIsConfirmed` holds for any, but for the early look.

### Discovery

`DetectionLidars` is `Detection`; the answers it brings are `Detected`, whose parts follow
`OnData` (`Ignore`, `Adopt` of a configuration of the type) and
`HandleDetectionData` (`NewDevice`, `KnownDevice`, then `Forward` to the device manager,
which is another critical section). The outcomes of the three commands of the chain are
`FwOutcome`, `InfoOutcome` and `CfgOutcome`. The members of a `DeviceInfo` are sets of
lidars (`known` is `is_get_loader_mode`, `loader` is `is_loader_mode`, and so on). What is
done to them in steps without a lock is done in steps here: the two stores of `UpdateFwType`
(`Learn`, `UpdateFwType`), the load and the store of `LivoxLidarInfoChange` around the user's
callback (`Announce`, `Tell`), and the static counter of failures, which is tested (`FwOutcome`),
read again by `count += 1` (`Fail`) and written (`Retry`), each with the other threads in
between. Increments are therefore lost, and two threads that passed the test take the counter
past its limit; as an `int8_t` it wraps (`Incremented`). `failures` is the number the counter
should have. The sockets that the view mode opens in `AddViewLidar` are in `SdkSession`. In view
mode without a framework configuration the pointer `sdk_framework_cfg_ptr_` is null, and
`alive` becomes false where it is used.

### LogWriter and LogCollection

`StoreLogBag` is the IO thread; any bag may come at any time since bags are UDP
datagrams. `TakeQueue`, `Write`, `Sleep` and `Exit` are the writer thread, `Stop` and
`Join` are `Destory`. A file is a sequence of the chunks written to it; `hidden` and
`visible` are the directory, names included, since a name has a resolution of one second
and two files may share it. The bag that the code skips without removing it from the
local queue leaves the writer without a step to take.

`LogCollection` has the directory over several lives of the process: `Crash` and
`Restart` may come at any step and keep `disk` only. `InitDisabled`, `InitFails` and
`InitEnabled` are `Init`; `DestoryStop` to `DestoryDisable` are the statements of
`Destory` in their order, and a bag (`Push`, `Store`, `Signal`) may come between them since
the IO threads still run. `Check`, `Wake`, `Round` and `EndRound` are `CycleDelete`: the
wait gives up the mutex, a round holds it, and the names listed at its start are removed
one at a time (`Remove`). A null handler, and a joinable thread that is overwritten, end
the process, which the next start then has to cope with.

### SdkSession

`InitBegin`, `CreateIOThread`, `CreateSocket`, `StartDetection` and `ResetStop` are
`LivoxLidarSdkInit`, in the order of the calls, each of which may fail (`InitFails`).
`Uninit`, `RemoveSocket`, `CloseSockets`, `StopDetection`, `JoinDetection` and `Clear` are
`LivoxLidarSdkUninit`. A delegate is added and removed by a task: `Post` pushes it and
`WakeUp` writes the pipe, two steps of the caller. `Poll`, `TakeTasks` and one `RunTask` for
each task are one turn of a loop. `Destory` visits the sockets of sets, so `RemoveSocket`
takes any of those that are `left`. `Detect` is the test of `is_stop_detection_`.

`Answer` begins the callback of a lidar's answer, on the IO thread of detection, which polls
nothing until it has ended. The callback opens the channels that the answer asks for: the
point and IMU sockets of `CreateViewDataChannel` in view mode, the channels of the
configurations when `OnData` adopts a lidar by its type. `OpenChannel` creates the socket and
enters it, `HandOver` pushes the task, `CallWakes` writes the pipe, `AnswerEnds` returns; any
step of Init or Uninit may come between. A socket of the view mode (`view`) is in `socket_vec_`
but not in the lists that `Destory` removes from the loops (`Listed`). Containers that both
threads change, and lists that are gone when the callback comes back to them, may end the
process: `alive` becomes either value. `stray` has the sockets that the callback had not
handed over when Uninit began, or opened later.

### DataPath

The lock of `DataHandler` is held from `Points` to `HandleEnds`, over all calls of
observers (`CallObserver`), one of which may call back into the SDK (`Reenter`) and then
waits for itself. `NextId` is the identifier that wraps.

For debug point clouds the data thread looks at `enable_` (`DebugPoints`), finds the handler of
the lidar or makes one (`FindHandler`, `MakeHandler`), starts it as `enable_` says by then
(`StartHandler`), and stores the datagram (`StoreData`). The switch stores `enable_`
(`SwitchDebug`) and then visits one handler after the other (`EnableHandler`, `DisableHandler`,
`JoinWriter`, `SwitchEnds`). Nothing keeps the two apart: a handler that is made during the
loop is visited by it, or not, or the process ends, since the map is changed while it is
walked through. `WriteData` is one turn of a writer thread. `past` records what the user and
the lidars did: `crossed` says that a switch and a datagram of the data thread overlapped.

### LidarKeys, LidarCfg and LidarLink

`LidarKeys` has one operator for each group of requests (`FovRequests`, `HostIpInfo`, ...),
as the list of keys, lengths and values that the code writes into the buffer; what
`Pack` and `CheckPreamble` make of a packet that is damaged in its header or its data;
and the report: which parameters `ParseStateInfo` stores and which `ToJson` passes on.
`LidarCfg` is the way from a configuration file to sockets and requests: both forms of a
section (`SectionIsRight`, `Custom`, `Typed`), `ParamsCheck` (`Checked`), the requests of the
command handlers (`CfgRequest`), the channels (`CreateChannels`) with the address and
group of every socket, and `OnData`. `LidarLink` puts them between users and lidars: `Load` a file,
`Adopt` a lidar that the file does not name, `Configure`, `Call` any setter, `Query`, `Push`.

The loops of the code that only collect (the ports that a configuration wants, the channels
of a host, the map of sockets) are sets and functions on them, where the first of two that
want one socket gets it (`Opened`, `Over`). `FileType` is every file that
`ParseCfgFile` can be given: texts of any numbers, any ports, both forms of a section, members
that are missing or of a wrong type. `Factory` are the values that a lidar keeps at first,
and `Pushed` the state information it may send: any sequence of keys with what goes
wrong with it (nothing, a damaged header, damaged data, a last parameter without a value).

## 3. Runs

| run | shows | bounds |
|---|---|---|
| `generate_seq` | one number per call, none repeated in a lap, all interleavings | 5 calls, wrap at 3: the counter wraps with calls in flight on both sides |
| `races` | who concludes a command: one outcome per registration, the ledger is kept, an early answer to a configuration command is never followed by a timeout | 2 commands of any style, 2 IO threads that both read and run timers, duplicates |
| `reuse` | the reuse of a pending number; every command is concluded | 3 commands on 2 numbers, so a number is always reused; 1 IO thread |
| `upgrade` | exclusive use of the members, no skipped block, no outcome after destruction, the end is final and is reached | 3 blocks, limits 3 and 4, 2 IO threads |
| `upgrade_outcomes` | success is confirmed, with extra outcomes and failing sends | 1 block, limits 2, 2 outstanding outcomes, nesting 2 |
| `logs` | data in order, in the right file, kept by renaming; the writer takes what is queued and ends | 3 bags of 2 files, 2 seconds |
| `discovery` | who is sent a configuration, who is announced, how often, and that everyone is | a HAP named in the file and a Mid360 configured by its type, 2 threads, 1 failed query tolerated, a counter up to 3, 1 command of a kind outstanding when a lidar is detected, 1 second outcome |
| `collection` | hidden files belong to a handler, the oldest log goes first, the rotation wakes and bounds the cache | 1 lidar, 3 files of size up to 2, cache 2, 2 sessions, crashes at any step |
| `session` | loops and sockets agree, posted tasks are woken for, what a session leaves behind, Init and Uninit return, with a lidar's answer that opens sockets at any time | 2 calls of Init, 2 IO threads, 2 lidars that share a channel, 1 socket opened by an answer, of an own channel in view mode, of the shared one or a broadcast socket otherwise |
| `data` | who is called, what a debug file holds, when the process ends, calls return | 2 lidars, one of them announced, identifiers up to 2, 3 datagrams, 4 calls, files of 2 datagrams |
| `wire` | sockets, requests and `OnData` agree; no setter is refused; the user reads what the lidar holds | a HAP and a Mid360, 8 files, every setter once with 2 numbers or 3 addresses, damaged and empty reports |
| `debug_switch` | counterexample: switching on debug point clouds for a second lidar ends the process | as `data`, both lidars announced |

Why the bounds are enough. The behaviour of a table entry depends on its own number only, so
two commands on two numbers, or three on two, show each pair of roles: the same number,
different numbers, displaced and displacing. Two IO threads show every race of two critical
sections; a third would take what is left. A timeout of two ticks separates "in time" from
"late". Three blocks give a first, a middle and a last one; the retry limits only need to be
reached and missed, so 3 and 4 stand for 10 and 30. Three bags make a file, end it or replace
it, and collide with its name. Two lidars of different types are all that the shared counter
and the command handlers can tell apart; a limit of one failure is reached by each alone and
by both together. The margin between the limit and the largest value of the counter matters:
with a limit of 1 two threads take the counter to 3, which `MaxCount` allows, as 127 allows
what the threads of the SDK can add to 10; with `MaxCount` = 2 it wraps, the queries start
over, and TLC shows `EveryLidarIsTold` violated. The wrap-around is in the model all the same,
and the theorems hold with it. Three files with a cache of two exceed it with one, two or none
of them open, in one directory or in two; two sessions show what the first leaves to the
second, and the third begins like the second. One socket that an answer opens (`MaxGrown`)
meets each step of Init and Uninit; a second one would be another such socket, of which the
theorems speak for any number. Two identifiers wrap within the four calls. The eight files are
the forms of `samples/*/config`, lidars named and not, a group, ports that differ from those
of the type, shared ports, groups and ports that cross (`Crossed`), a slave, and two that are
refused. Deadlock is not checked: the components come to rest when all that the bounds allow
has happened.

### Divergences

`debug_switch` is listed as a finding: `debug_point_cloud_handler.cpp:115` assigns a new
thread to a joinable one when a handler that is on is switched on, while
`include/livox_lidar_api.h:429-431` describes a switch of one lidar.

The models meet other places where the code does less than its documentation says or a reader
would expect. Properties of the passing runs are stated so that they hold beside them, and
name what they except; no property denies or catches them:

- `general_command_handler.cpp:692` adds a HAP command a second time, so it may succeed
  and then time out. The Mid360 order is the opposite: the command is added only after it
  was sent, so an answer that is fast is dropped. `OneOutcome` and `AnswerBeatsTimeout`
  therefore speak of the routes that keep them.
- `general_command_handler.cpp:693` returns Success whatever the handler of the device
  type returned, also after `sendto` failed (`include/livox_lidar_api.h:136`).
- `livox_lidar_upgrader.cpp:69` takes the initial state for the end, and
  `UpgradeManager::UpgradeLivoxLidars` fills a vector with copies of a local upgrader,
  whose own destructor may report success before the upgrade begins
  (`upgrade_manager.cpp:58-69`); the model begins with the copy.
- `logger_handler.cpp:189` continues without `pop`: a bag with a smaller index keeps the
  writer busy for ever and `Destory` from returning (`Stuck` in `StopEnds`).
- `general_command_handler.cpp:725` enters a command under a number that may still be
  pending: the callback of the earlier one is never called, and its late acknowledgement
  completes the new one. `NotForgotten` and `EveryCommandConcludes` except both (`Displaced`).
- `livox_lidar_upgrader.cpp:252` and the table at line 35: with a second outcome of a HAP
  command a block is skipped, or an upgrade that ended begins again (`Reliable` in
  `NoBlockSkipped` and `EndIsFinal`).
- `logger_handler.cpp:113` gives two files of one second and index one name: renaming the one
  removes the other (`NoDataLost`).
- `general_command_handler.cpp:391`: the failures of one lidar, or of an earlier session, use
  up the retries of another, which is then taken for one in application mode and configured
  even if it is in loader mode (`guessed` in `LoaderIsLeftAlone`; `GuessIsEarned` is what holds).
  Increments of several threads are lost or pass the limit.
- `general_command_handler.cpp:470`: a detection between the two stores of `UpdateFwType`
  configures a lidar in loader mode (`torn` in `LoaderIsLeftAlone`).
- `device_manager.cpp:174`: a second session may look for no lidar (`FirstSessionDetects`
  says what is left).
- `livox_lidar_sdk.cpp:95`: an Init that fails leaves its sockets: those of detection stay
  open when the next Init replaces them, and channels that are found in `channel_info_` are not
  given to the loops of the next session (`CleanedUp` excepts the session after it).
- `device_manager.cpp:811-844`: the sockets of `CreateViewDataChannel` (lines 717 and 731) are
  in `socket_vec_` only. `Destory` closes them and posts no removal, so the loop of the data
  thread keeps a closed descriptor in its table until Init replaces the thread (`epoll` itself
  forgets it; `poll` and `select` go on with it, and with what else is opened under its
  number). The same happens to a socket that a lidar's answer opens or hands over while
  `Destory` runs (`Forgotten` in `LoopsOK`).
- `device_manager.cpp:554-565` and `698-735`: nothing keeps these callbacks and `Uninit` apart.
  Sockets opened behind its back stay open until the next session ends, and their entry in
  `channel_info_`, if it survives, makes the next session believe that it reads the port
  (`stray` in `CleanedUp`). What they use may be cleared or destroyed meanwhile.
- `debug_point_cloud_manager.cpp:45-47`: the data thread may make and start a handler
  (lines 36-38) between the store of `enable_` and the loop, which starts it again and ends the
  process at the first switch-on; and a datagram that passed the look at `enable_` before a
  switch-off finds a null handler (`crossed` in `FaultIsKnown`). A second switch-on does so
  without any race (`again`), and data of a lidar that was not announced (`unknown`).
- `logger_manager.cpp:223` uses a null handler for a lidar that was not announced, and
  `is_destroy_` of line 341 is never reset.
- A slave SDK, which by the README of the SDK (line 301) only receives, still sends the
  commands of the API, through the detection socket (`SenderOf`).
- The ports of a HAP in the file (README of the SDK, line 230) are used to sort its data,
  and the fixed ones to configure it; two configurations that share a port of the host
  open one socket, in the group of the first; debug data are sent to the host while their
  socket hears the group. `IsLost` of `LidarLink` names the files for which data are lost:
  an address that is none or a group (`HasBadAddress`), ports of the file that mix up the
  kinds (`PortsAreMixedUp`), and a socket that another configuration wants in another group
  (`HasNoSocket`, `IsContended`). `DataReachesItsHandler` holds for all others.
- `build_request.cpp:389` accepts 256 in an address and keeps 0; the install attitude is
  printed without its sign.

### Fairness

`CommandTable`: time passes; the poll of every IO loop returns at least every 50 ms and
runs its timer (`base/multiple_io/multiple_io_base.cpp:30`), so `CommandsHandle` and the
callbacks go on; a thread inside `SendCommand` goes on. Nothing is assumed about the
lidar or the network. `Upgrader`: threads go on, an outcome that is owed is delivered
(this is `EveryCommandConcludes`), the destructor polls, and a lidar that goes on
answering is not busy for ever, a strong fairness. Without it the code asks again
without a limit, since a success resets the counter. `LogWriter`: the writer and the
thread in `Destory` go on; nothing is assumed about bags or the clock. `Discovery`:
threads go on and owed outcomes are delivered; a lidar that is detected, configured or
asked for its addresses again and again answers at last (strong); nothing is assumed
about the answers to the query of the firmware type, which may fail for ever.
`LogCollection`: only the rotation thread, whose wait ends after ten minutes
(`logger_manager.cpp:260`). `SdkSession`: loops and the detection thread go on, and the thread
that is inside of the callback of an answer goes on with it (weak, one condition for a thread
and what it calls); so does a call of Init or Uninit that has begun, whose steps need locks and
a free thread, so strong. No lidar has to answer. Nobody has to call
anything. `DataPath`: the data thread and the writers go on, and the user's call gets
`mutex_` at last, which a fair lock grants (strong).

## 4. Proofs

Every theorem is about the specification of its module without fairness, for all
constants that satisfy the named assumptions. Every inductive invariant was checked by
TLC on the instances of section 3 before it was proved. A proof has one lemma or step for
each action, and those that several actions share.

| module | theorems |
|---|---|
| `CommandTable_proofs`, the generator | `GetSeqTypeCorrect`, `OneNumberAtATimeCorrect`, `DistinctInALapCorrect` |
| `CommandTable_proofs`, the table | `TypeCorrect`, `NumberCorrect`, `PathCorrect`, `OneOutcomeCorrect`, `SentCorrect`, `AnswerBeatsTimeoutCorrect`, `SuccessIsAnsweredCorrect`, `NotForgottenCorrect`, `LedgerIsKept` |
| `Upgrader_proofs` | `Typing`, `Success`, `OneUser`, `NoBlockIsSkipped`, `NoDanglingHandler`, `EndedForGood` |
| `LogWriter_proofs` | `FilesCorrect`, `NoDataLostCorrect` |
| `LogCollection_proofs` | `DiskCorrect`, `NoLostWakeupCorrect`, `OldestFirstCorrect` |
| `SdkSession_proofs` | `ShapeCorrect`, `Typing`, `WakesCorrect`, `DetectsCorrect`, `NothingLeftCorrect`, `QueueCorrect`, `LoopsCorrect`, `CleanedUpCorrect` |
| `Discovery_proofs` | `ShapeCorrect`, `Typing`, `JustifiedCorrect`, `GuessCorrect`, `LidarsCorrect`, `ToldCorrect` |
| `DataPath_proofs` | `ThreadsCorrect`, `RemovedIsSilentCorrect`, `ReplacedAfterLapCorrect`, `FaultIsKnownCorrect`, `FileIsPrefixCorrect` |
| `LidarLink_proofs` | `NeverRefusedCorrect`, `ReportIsTruthfulCorrect`, `LinkInvariant`, `DataReachesItsHandlerCorrect` |

### The generator and the command table

`OneNumberAtATimeCorrect`: each step of `GetSeq` either leaves the counter alone or is one
atomic `NextSeq`. `DistinctInALapCorrect` follows from an invariant that ties each returned
number to its place in the lap.

None of the invariants of the command table is inductive as it stands.

- `OneOutcome` is strengthened to `PlaceInv`: a command that is added once is in one place
  only, not yet added, in the table, with one IO thread, or concluded. It needs
  `NumberCorrect`, since a command that stood under two numbers could be taken twice, and
  `PathCorrect`, since it must not be added again. The lemma `TakenKeepsPlace` covers both
  critical sections: what goes from the table to an idle thread goes to it alone.
- `AnswerBeatsTimeout` is strengthened to `TimelyInv`: a configuration command that was
  answered in time is not in the table and with no thread for a timeout. This is where the
  order "add, then send" matters: `SentCorrect` says that such a command is not added again.
- `SuccessIsAnswered` is extended to the callbacks a thread is about to call
  (`SuccessInv`), and `NotForgotten` to the time between the addition and the return of
  the sender (`KeptInv`); `TakenIsKept` is its lemma about the critical sections.

`LedgerIsKept` is the refinement: `Owed` counts for a command its entry in the table and the
IO threads that hold it (`Holders`), `Registrations` what was added. The initial states
have an empty ledger, and every step is shown to be one step of `CommandLedger` or a
stutter: an addition registers, or registers and displaces the command whose number it
reuses; a critical section moves an entry from the table to a thread and leaves `Owed` as
it is; `RunCallback` concludes. The counting needs that finitely many IO threads hold
commands, which is why `IoThreads` is assumed to be finite.

### The upgrade

`Success` holds whatever the outcomes of the commands are. Its invariant says that before the
lidar reported a progress of 100 nothing is under way that leads to `Complete` or back to
`Idle`, no state, no call, no request and no unsent request (`LateIsConfirmed`), and that the
upgrade thread runs alone until it has sent its first request (`UpgradeThread`).

The others hold while no command has a second outcome (`Reliable`). Then there is at most one
call or one outcome to come, and `ReliableInv` says what it tells: the state in which a call
is made (`CallMatches`) or an outcome will be delivered (`OutcomeMatches`), with the offset of
its block. So a late outcome cannot meet another state, which is what `NoBlockSkipped` and
`EndIsFinal` need, and when the end is seen nothing is left that could call a handler
(`EndIsSeen`, for `NoOutcomeOutlives`).

### The logs

`FilesOK` is inductive with `FilesInv`: no data in a hidden file are behind the number that
the handler keeps for it, so appending keeps the order. `NoDataLost` then follows
step by step, by the lemmas on files that are opened, appended to and renamed.

`DiskOK` (its part `NoOrphan`) and `NoLostWakeup` need only `StoppedFirst` beside themselves: once
`Destory` has cleared the flag of the rotation, nothing sets it again before it has ended.
`OldestFirst` needs that a set of times has a least element, `LeastNat`.

### The session

`Shape` is the type invariant with what the places of the calls say about the loops.
`WakeInv` extends `PostedWakes` to the loop that runs its tasks; `DetectInv` and `OpenInv`
give `FirstSessionDetects` and `NothingLeftOpen`. `LoopsOK` needs the order of the tasks,
`QueueInv`: everything about a channel stays with one thread (`Homed`), Init only adds
(`OnlyAdds`), a task that removes has none that adds behind it but those a callback hands over
late (`Ordered`, `MayFollow`), and what Uninit has visited is not polled, or will be removed
(`Posted`). Therefore a socket that `CloseSockets` closes is polled only in front of its removal,
unless it is `Forgotten`: `Destory` never visits a socket of the view mode, and one in `stray` may
be added behind its removal. `CallShape` says where a callback can be: none has begun while Init
opens sockets, since Init joins the thread of detection first, and a socket it still holds when
Uninit is under way is in `stray`. `WholeInv` says of each step of Init which channels have been
opened by now and are read or about to be (`IsRead`), and of an SDK at rest whose last Init did
not fail that everything is cleared, but for the entries of such sockets (`Vacant`, `Settled`); a
loop that only has sockets to add (`OnlyAdds`) never loses one.

### Discovery

`Justified` has four parts: what a thread is about to do to a lidar is allowed by what the
lidar answered (`Fits`), what the SDK takes for its mode it has reported (`ModeInv`), a query
for addresses or a configuration that is outstanding, or was sent, is for a lidar that was
cleared (`SentInv`), and what was told was ready (`ToldInv`). Answers are read by one
thread (`AckThread`); the other thread that announces, that of detection, announces only
lidars in loader mode, or in view mode. Two threads therefore meet at
`LivoxLidarInfoChange` only for a lidar that reported both modes, which is the exception in
`ToldOnce`. `GuessIsEarned` is strengthened to `CountInv`: while no more queries have failed than
are tolerated, neither the counter nor what a thread has read of it is above the failures, and
no thread is about to guess. Lost increments and the wrap-around only lower the counter. The
type invariant has no other bound of the counter than its width.

### The data path

`RemovedIsSilent` is inductive with `ThreadsOK`: the lock forbids the two
actions that would disturb it. `ReplacedAfterLap` follows from `LapInv`: the observer of an
identifier is at least as many calls old as the generator has gone on since (`Distance`),
which is a whole lap when the identifier comes round. `FaultIsKnown` is strengthened to
`FaultInv`: as long as no cause has occurred, a handler is made and started only while the user
thread is not switching (`Recording`), and the loop of a switch finds the handlers it needs
(`Ending`). `FileIsPrefix` is strengthened to `WriterInv`: what was stored is what is in the file
followed by what is queued; two lemmas about sequences carry it over `StoreData` and
`WriteData`.

### Lidars and configurations

`NeverRefused` is inductive as it stands. What it needs are lemmas on the operators: every
request that a setter or `CfgRequest` builds has the sizes of the fields it writes (`ApiFits`,
`CfgFits`), whatever the number, the address or the configuration.

`ReportIsTruthful` is about one message at a time. `AllWhole` and `LastCut` say where the
pairs of a message end: `IsWhole` holds of a packet whose values have the sizes of their
parameters, and fails when the last value is missing, wherever the keys come from.
`ParsedIsHeld` says that parsing keeps the values of the keys with a field, repeated keys
included, and `AnswerIsHeld` the same of the answer to a query. Both lists of fields,
those that are parsed and those that are written as JSON, must hold all of them (`Fields`).

`DataReachesItsHandler` is not inductive: where a lidar sends its data depends on its
configuration alone, and who hears them on sockets that were opened for others before. `LinkInv`
ties the four maps together. `CfgInv`: the checked configurations have the types of
the file. `CustomInv`: the configuration that `OnData` goes by is one of those the sockets
were opened for. `ChannelInv`: the channels that exist are those that some configuration
asks for, each in the group that one of them wanted, and the one for detection.
`BroadcastInv`: the broadcast sockets are there. `AdoptedOpens` is the step that matters: a
lidar adopted later finds the sockets of its type open or opens them, and takes none from
the others. `LinkImplies` then follows a datagram of each kind to its socket (`IsHeard`)
and to its one handler (`HandledAlone`); the exceptions of `IsLost` are the hypotheses that
this needs.

Where the pairs of a message end is a recursive function, and so is the concatenation of
requests. The library's theorems on recursion and induction take an operator as a parameter
and cannot be used; the lemmas `Recursion` and `UpTo` state both for functions and sets, and
rest on the least element of a set of numbers (`LeastNat`).

### Assumptions

They are those named in the modules, and no others: at least two sequence numbers; IO
threads that read sockets are IO threads, and finitely many; a positive timeout; values for
"no command" and "no thread" that are neither; known lidars among the lidars, each of one
type; at least one identifier; retry limits that are positive, and one of firmware queries below
the largest value of their counter; the thread of the
application is not an IO thread; a session creates its threads and channels in sequence,
those of detection belong to the thread `detection`, and an answer asks for a sequence of
channels; lidars have an address and a type,
files are of `FileType`, a lidar keeps sequences of numbers, and pushes parameters that exist
(`LidarLinkAssumption`). Bounds are any natural numbers.

### Only model-checked

- Liveness, which is out of reach of the prover: `EveryCommandConcludes`, `UpgradeEnds`,
  `EveryBagIsTaken`, `StopEnds`, `CacheIsBounded`, `EveryLidarIsTold` and both `CallsReturn`.
- The counterexample of `debug_switch`, and that the exceptions of `IsLost` are few enough: the
  files of `wire` include some that it does not name.

No invariant and no action property is left to TLC alone.

## 5. Plan

Done: `SeqNumbers`, `GenerateSeq`, `CommandTable`, `CommandLedger`, `Upgrader`,
`LogWriter`, `Discovery`, `LogCollection`, `SdkSession`, `DataPath`, `LidarKeys`,
`LidarCfg`, `LidarLink`, and the theorems of section 4.

Left to prove: nothing that a run checks, but for liveness. What could be stated
beyond the runs is that a lidar's data reach its handler in all later sessions, which needs
`LidarLink` together with `SdkSession`.

Left to model: commands that are pending when a session ends, which composes `CommandTable`
with `SdkSession` (`general_command_handler.cpp:113` clears two local variables).

## 6. Not modelled, and why

- Byte layouts, check sums as numbers and the text of messages: data that no property tells
  apart. This includes reads of what was not set: the tail of a `DirectLidarStateInfo` that
  no parameter filled, a serial number of 16 characters without its end, and
  `ParseGPRMC`, which asks for 9 fields and reads the tenth (`command_impl.cpp:70`).
- `poll`, `select` and `kqueue`, the table of descriptors inside a poller, and socket
  options: pure I/O, modelled by what the loop sees.
- `firmware.cpp`: one file, read on one thread; `Upgrader` has its length in blocks.
- JSON itself, a configuration file that cannot be opened (`parse_cfg_file.cpp:46` goes on
  with a null `FILE`), the value "local" of `host_ip`,
  and texts that are there but empty.
- The device type PA, whose branches differ in ports, in having no IMU and in a fault port.
- `StartLogger`, `StopLogger`, reset, reboot and RMC time synchronisation: one command of
  fixed content each, which `CommandTable` covers.
- What the sockets of the view mode hear: the ports are those the lidar itself reports.
- A container that two threads change (`socket_vec_`, `channel_info_`, `handlers_`, the list of
  configurations): the model goes on, or the process ends; broken contents that survive are left
  out. The maps of log handlers and the other maps of `GeneralCommandHandler` likewise.
- The JNI bridge `src/jni` and its Java side: one unprotected pointer.
- Weak memory effects of unlocked members are only represented as interleavings of reads
  and writes.
