--------------------------- MODULE LogCollection ---------------------------
(***************************************************************************)
(* LoggerManager: which lidars have a log handler, the thread that deletes *)
(* the oldest logs (CycleDelete), and the start and end of a session, with *)
(* the process dying at any moment.                                        *)
(*                                                                         *)
(* A file that is being written is hidden (its name begins with a dot): it *)
(* counts in the size of its directory and is never deleted. The queue and *)
(* the writer thread of a handler are those of LogWriter; here a bag is    *)
(* written when it is stored, and no two files have the same name.         *)
(***************************************************************************)
EXTENDS Naturals, FiniteSets, FiniteSetsExt

CONSTANTS
  Lidars,       \* the lidars that push logs
  MaxCache,     \* what a directory may hold, in units of size
  MaxFiles,     \* bound: files that are created
  MaxSize,      \* bound: size of a file
  MaxSessions   \* bound: calls of Init

ASSUME LogCollectionAssumption ==
  /\ MaxCache \in Nat
  /\ MaxFiles \in Nat
  /\ MaxSize \in Nat \ {0}
  /\ MaxSessions \in Nat

Types == {0, 1}   \* type_0 is for real-time logs, type_1 for exceptions

VARIABLES
  up,           \* the process runs
  enable,       \* log_enable_
  cycle,        \* log_cycle_delete_enable_
  cond,         \* cond_, under mutex_
  destroyed,    \* is_destroy_
  devices,      \* devices_info_
  handlers,     \* handlers_
  app,          \* what the caller of Init and Destory does
  bag,          \* what the IO thread that reads the log socket does
  rotator,      \* the thread of CycleDelete; it holds mutex_ in a round
  disk,         \* the log files
  created,      \* files created so far, the clock of their names
  sessions      \* calls of Init so far

flags == <<enable, cycle, cond, destroyed>>
maps == <<devices, handlers>>
vars == <<up, flags, maps, app, bag, rotator, disk, created, sessions>>

File == [time : Nat, lidar : Lidars, type : Types, size : Nat, hidden : BOOLEAN]

NoBag == [at |-> "idle"]
NoThread == [at |-> "none"]
At(place) == [at |-> place]

Blank ==
  /\ enable = FALSE /\ cycle = FALSE /\ cond = FALSE /\ destroyed = FALSE
  /\ devices = {} /\ handlers = {}
  /\ app = "idle" /\ bag = NoBag /\ rotator = NoThread

Init == up = TRUE /\ Blank /\ disk = {} /\ created = 0 /\ sessions = 0

\* The process ends, whatever the threads are doing: a crash, a null handler, a joinable
\* thread that is overwritten. The files stay.
Dies ==
  /\ up' = FALSE
  /\ enable' = FALSE /\ cycle' = FALSE /\ cond' = FALSE /\ destroyed' = FALSE
  /\ devices' = {} /\ handlers' = {}
  /\ app' = "idle" /\ bag' = NoBag /\ rotator' = NoThread

Crash == up /\ Dies /\ UNCHANGED <<disk, created, sessions>>

Restart == ~up /\ up' = TRUE /\ UNCHANGED <<flags, maps, app, bag, rotator, disk, created, sessions>>

-----------------------------------------------------------------------------
(***************************************************************************)
(* The files.                                                              *)
(***************************************************************************)
InDir(type) == {f \in disk : f.type = type}
GetDirTotalSize(type) == MapThenSumSet(LAMBDA f : f.size, InDir(type))

GetFileNames(type) == {f \in InDir(type) : ~f.hidden}

\* Mutant of ChangeHiddenFiles: the names are left as they are.
ChangeHiddenFilesNot == disk

ChangeHiddenFiles == {[f EXCEPT !.hidden = FALSE] : f \in disk}

Open(h, type) == {f \in InDir(type) : f.lidar = h /\ f.hidden}
Shown(S) == {[f EXCEPT !.hidden = FALSE] : f \in S}

\* A create bag: the file of the type that is still open is closed and gets its final name.
CreateFile(h, type) ==
  /\ created' = created + 1
  /\ disk' = (disk \ Open(h, type)) \cup Shown(Open(h, type))
               \cup {[time |-> created, lidar |-> h, type |-> type, size |-> 1, hidden |-> TRUE]}

WriteFile(h, type) ==
  /\ disk' = (disk \ Open(h, type))
               \cup {[f EXCEPT !.size = IF @ < MaxSize THEN @ + 1 ELSE @] : f \in Open(h, type)}
  /\ UNCHANGED created

StopFile(h, type) ==
  /\ disk' = (disk \ Open(h, type)) \cup Shown(Open(h, type))
  /\ UNCHANGED created

-----------------------------------------------------------------------------
(***************************************************************************)
(* A session.                                                              *)
(***************************************************************************)
Begin == up /\ app = "idle" /\ sessions < MaxSessions /\ sessions' = sessions + 1

\* No configuration, logging disabled, or a cache of no size or beyond 1000 TB.
InitDisabled ==
  /\ Begin
  /\ enable' = FALSE
  /\ UNCHANGED <<up, cycle, cond, destroyed, maps, app, bag, rotator, disk, created>>

\* The directory cannot be made: Init fails, with logging enabled.
InitFails ==
  /\ Begin
  /\ enable' = TRUE
  /\ UNCHANGED <<up, cycle, cond, destroyed, maps, app, bag, rotator, disk, created>>

\* Files that an earlier process left hidden get their names first. A thread that is still
\* there, joinable, is overwritten.
InitEnabled ==
  /\ Begin
  /\ disk' = ChangeHiddenFiles
  /\ IF rotator = NoThread
       THEN /\ enable' = TRUE /\ cycle' = TRUE
            /\ rotator' = At("check")
            /\ UNCHANGED <<up, cond, destroyed, maps, app, bag>>
       ELSE Dies
  /\ UNCHANGED created

AddDevice(h) ==
  /\ up
  /\ devices' = devices \cup {h}
  /\ UNCHANGED <<up, flags, handlers, app, bag, rotator, disk, created, sessions>>

MutexFree == rotator.at # "round"

\* Mutant of DestoryOrder: the rotation is told to stop after it is woken.
DestoryOrderSwapped == <<"signal", "stop", "join", "handlers", "rename", "disable">>

DestoryOrder == <<"stop", "signal", "join", "handlers", "rename", "disable">>

After(step) ==
  IF step = "disable" THEN "idle"
  ELSE DestoryOrder[1 + CHOOSE i \in DOMAIN DestoryOrder : DestoryOrder[i] = step]

\* Destory; a second call returns at once.
DestoryBegin ==
  /\ up /\ app = "idle" /\ sessions > 0 /\ ~destroyed
  /\ app' = DestoryOrder[1]
  /\ UNCHANGED <<up, flags, maps, bag, rotator, disk, created, sessions>>

Does(step) == app = step /\ app' = After(step)

DestoryStop ==
  /\ Does("stop")
  /\ cycle' = FALSE
  /\ UNCHANGED <<up, enable, cond, destroyed, maps, bag, rotator, disk, created, sessions>>

DestorySignal ==
  /\ Does("signal")
  /\ MutexFree
  /\ cond' = TRUE
  /\ UNCHANGED <<up, enable, cycle, destroyed, maps, bag, rotator, disk, created, sessions>>

DestoryJoin ==
  /\ Does("join")
  /\ rotator.at \in {"none", "done"}
  /\ rotator' = NoThread
  /\ UNCHANGED <<up, flags, maps, bag, disk, created, sessions>>

\* Every handler ends its writer and closes its files, under their hidden names.
DestoryHandlers ==
  /\ Does("handlers")
  /\ handlers' = {}
  /\ UNCHANGED <<up, flags, devices, bag, rotator, disk, created, sessions>>

\* The lidars are told to stop; then the files get their names.
DestoryRename ==
  /\ Does("rename")
  /\ disk' = IF enable THEN ChangeHiddenFiles ELSE disk
  /\ UNCHANGED <<up, flags, maps, bag, rotator, created, sessions>>

DestoryDisable ==
  /\ Does("disable")
  /\ enable' = FALSE
  /\ destroyed' = TRUE
  /\ UNCHANGED <<up, cycle, cond, maps, bag, rotator, disk, created, sessions>>

Destory ==
  \/ DestoryBegin \/ DestoryStop \/ DestorySignal \/ DestoryJoin
  \/ DestoryHandlers \/ DestoryRename \/ DestoryDisable

-----------------------------------------------------------------------------
(***************************************************************************)
(* Log bags. The IO threads go on while Destory runs.                      *)
(***************************************************************************)
Bags == [at : {"create", "transfer", "stop"}, lidar : Lidars, type : Types]

\* Handler, OnLoggerCreate, OnLoggerTransfer, OnLoggerStopped, as far as the handler that is
\* looked up. A create bag of a lidar that was never detected finds a null handler.
Push(b) ==
  /\ up /\ enable
  /\ bag = NoBag
  /\ b.at = "create" => created < MaxFiles
  /\ \/ /\ b.lidar \in handlers \/ (b.at = "create" /\ b.lidar \in devices)
        /\ handlers' = handlers \cup {b.lidar}
        /\ bag' = b
        /\ UNCHANGED <<up, flags, devices, app, rotator>>
     \/ /\ b.lidar \notin handlers \cup devices
        /\ b.at = "create"
        /\ Dies
  /\ UNCHANGED <<disk, created, sessions>>

\* StoreLogBag, by a reference into handlers_: Destory may have cleared it.
Store ==
  /\ bag.at \in {"create", "transfer", "stop"}
  /\ IF bag.lidar \in handlers
       THEN /\ \/ bag.at = "create" /\ CreateFile(bag.lidar, bag.type)
               \/ bag.at = "transfer" /\ WriteFile(bag.lidar, bag.type)
               \/ bag.at = "stop" /\ StopFile(bag.lidar, bag.type)
            /\ bag' = IF bag.at = "stop" THEN At("signal") ELSE NoBag
            /\ UNCHANGED <<up, flags, maps, app, rotator>>
       ELSE Dies /\ UNCHANGED <<disk, created>>
  /\ UNCHANGED sessions

\* A finished log wakes the rotation.
Signal ==
  /\ bag.at = "signal"
  /\ MutexFree
  /\ cond' = TRUE
  /\ bag' = NoBag
  /\ UNCHANGED <<up, enable, cycle, destroyed, maps, app, rotator, disk, created, sessions>>

-----------------------------------------------------------------------------
(***************************************************************************)
(* CycleDelete                                                             *)
(***************************************************************************)
Rotates(next) ==
  /\ rotator' = next
  /\ UNCHANGED <<up, enable, cycle, destroyed, maps, app, bag, created, sessions>>

Check ==
  /\ rotator.at = "check"
  /\ Rotates(At(IF cycle THEN "wait" ELSE "done"))
  /\ UNCHANGED <<cond, disk>>

\* Mutant of Round: the names are those of the first directory.
RoundCopied(type) == [at |-> "round", type |-> type, listed |-> GetFileNames(0)]

Round(type) == [at |-> "round", type |-> type, listed |-> GetFileNames(type)]

\* wait_for returns because of cond_, or after ten minutes.
Wake ==
  /\ rotator.at = "wait"
  /\ Rotates(Round(0))
  /\ UNCHANGED <<cond, disk>>

TooLarge(type) == GetDirTotalSize(type) > MaxCache

\* Mutant of Oldest: the latest file goes.
OldestLast(S) == CHOOSE f \in S : \A g \in S : g.time <= f.time

Oldest(S) == CHOOSE f \in S : \A g \in S : f.time <= g.time

Remove ==
  /\ rotator.at = "round"
  /\ TooLarge(rotator.type)
  /\ rotator.listed # {}
  /\ LET f == Oldest(rotator.listed) IN
       /\ disk' = disk \ {f}
       /\ Rotates([rotator EXCEPT !.listed = @ \ {f}])
  /\ UNCHANGED cond

EndRound ==
  /\ rotator.at = "round"
  /\ ~TooLarge(rotator.type) \/ rotator.listed = {}
  /\ IF rotator.type = 0
       THEN Rotates(Round(1)) /\ UNCHANGED cond
       ELSE Rotates(At("check")) /\ cond' = FALSE
  /\ UNCHANGED disk

CycleDelete == Check \/ Wake \/ Remove \/ EndRound

Next ==
  \/ Crash \/ Restart
  \/ InitDisabled \/ InitFails \/ InitEnabled
  \/ \E h \in Lidars : AddDevice(h)
  \/ Destory
  \/ \E b \in Bags : Push(b)
  \/ Store \/ Signal
  \/ CycleDelete

Spec == Init /\ [][Next]_vars

\* The rotation thread goes on; its wait ends after ten minutes at the latest.
FairSpec == Spec /\ WF_vars(CycleDelete)

-----------------------------------------------------------------------------
(***************************************************************************)
(* Properties.                                                             *)
(***************************************************************************)
\* The rotation deletes only files that have their final name: nothing that is written.
TypeOK ==
  /\ {up, enable, cycle, cond, destroyed} \subseteq BOOLEAN
  /\ devices \subseteq Lidars /\ handlers \subseteq Lidars
  /\ app \in {"idle", "stop", "signal", "join", "handlers", "rename", "disable"}
  /\ bag \in Bags \cup {NoBag, At("signal")}
  /\ \/ rotator \in {NoThread, At("check"), At("wait"), At("done")}
     \/ /\ rotator.at = "round" /\ rotator.type \in Types
        /\ \A f \in rotator.listed : f \in File /\ ~f.hidden
  /\ \A f \in disk : f \in File
  /\ created \in 0 .. MaxFiles
  /\ sessions \in 0 .. MaxSessions

\* While logs are collected every hidden file is being written by a handler: those that a
\* crash or an earlier session left behind have their names, and can be deleted.
NoOrphan ==
  (up /\ cycle /\ app = "idle") => \A f \in disk : f.hidden => f.lidar \in handlers

\* What the rotation and the handlers make of the directory.
DiskOK == TypeOK /\ NoOrphan

\* When a log is deleted, none of its type that was there before the round and is older stays.
OldestFirst ==
  [][\A f \in disk : (\A g \in disk' : g.time # f.time) =>
       \A g \in disk' : g.type = f.type /\ g.time < f.time => g \notin rotator.listed]_vars

\* When Destory waits for the rotation thread, that thread never begins a wait that only its
\* timer would end.
NoLostWakeup == (app = "join" /\ rotator.at = "wait") => cond

\* A directory that exceeds the cache is cut back, unless only open files are left in it or
\* the rotation ends.
CacheIsBounded ==
  \A type \in Types :
    TooLarge(type) ~> (~TooLarge(type) \/ GetFileNames(type) = {} \/ ~cycle)

=============================================================================
