------------------------------ MODULE DataPath ------------------------------
(***************************************************************************)
(* What the data IO thread does with the datagrams of the lidars: points   *)
(* go to the observers of DataHandler, debug point clouds to the handler   *)
(* of the lidar, whose writer thread puts them in a file. A user thread    *)
(* adds and removes observers and switches the debug point clouds.         *)
(*                                                                         *)
(* A datagram is a number; files and queues are sequences of them. The     *)
(* identifiers of observers come from the generator that SeqNumbers        *)
(* describes, one step as proved in CommandTable_proofs.                   *)
(***************************************************************************)
EXTENDS Naturals, Sequences, FiniteSets, SequencesExt

CONSTANTS
  Lidars,       \* lidars that send
  Known,        \* those that were announced (devices_info_)
  MaxId,        \* identifiers of observers (65535)
  FileLimit,    \* datagrams that fill a debug file (4 GB)
  Reentrant,    \* whether an observer may add or remove one when it is called
  MaxData,      \* bound: datagrams
  MaxCalls      \* bound: calls of the user

ASSUME DataPathAssumption ==
  /\ Known \subseteq Lidars
  /\ MaxId \in Nat \ {0}
  /\ FileLimit \in Nat
  /\ Reentrant \in BOOLEAN
  /\ MaxData \in Nat /\ MaxCalls \in Nat

Ids == 1 .. MaxId

VARIABLES
  lastId,       \* the static identifier of GenerateObserverId
  observers,    \* observers_: identifier to the number of the call that added it, 0: none
  user,         \* what the user thread is inside of
  io,           \* what the data thread does; it holds mutex_ while it calls observers
  enable,       \* enable_ of DebugPointCloudManager
  handlers,     \* its handlers_
  writer,       \* the handlers and their threads
  alive,        \* the process has not been ended by its own fault
  received,     \* datagrams so far
  calls,        \* calls of the user so far
  past          \* what the user and the lidars did (history)

observing == <<lastId, observers>>
debugging == <<enable, handlers, writer>>
vars == <<observing, user, io, debugging, alive, received, calls, past>>

NoWriter == [at |-> "none"]
NewWriter == [at |-> "idle", enable |-> FALSE, data |-> <<>>, file |-> <<>>, stored |-> <<>>]
At(place) == [at |-> place]
Idle == At("idle")

Init ==
  /\ lastId = 1
  /\ observers = [i \in Ids |-> 0]
  /\ user = Idle /\ io = Idle
  /\ enable = FALSE
  /\ handlers = [h \in Lidars |-> "absent"]
  /\ writer = [h \in Lidars |-> NoWriter]
  /\ alive = TRUE
  /\ received = 0 /\ calls = 0
  /\ past = {}

-----------------------------------------------------------------------------
(***************************************************************************)
(* Observers.                                                              *)
(***************************************************************************)
Call == alive /\ user = Idle /\ calls < MaxCalls /\ calls' = calls + 1

\* Mutant of NextId: identifiers wrap one too early.
NextIdShort(i) == IF i >= MaxId - 1 THEN 1 ELSE i + 1

NextId(i) == IF i = MaxId THEN 1 ELSE i + 1

\* Mutant of LockFree: the observers are called without the lock.
LockFreeAlways == TRUE

LockFree == io.at \notin {"observer", "stuck"}

AddObserver ==
  /\ Call
  /\ lastId' = NextId(lastId)
  /\ user' = [at |-> "insert", id |-> NextId(lastId)]
  /\ UNCHANGED <<observers, io, debugging, alive, received, past>>

Insert ==
  /\ alive
  /\ user.at = "insert"
  /\ LockFree
  /\ observers' = [observers EXCEPT ![user.id] = calls]
  /\ user' = Idle
  /\ UNCHANGED <<lastId, io, debugging, alive, received, calls, past>>

RemoveObserver(i) ==
  /\ Call
  /\ user' = [at |-> "erase", id |-> i]
  /\ UNCHANGED <<observing, io, debugging, alive, received, past>>

Erase ==
  /\ alive
  /\ user.at = "erase"
  /\ LockFree
  /\ observers' = [observers EXCEPT ![user.id] = 0]
  /\ user' = Idle
  /\ UNCHANGED <<lastId, io, debugging, alive, received, calls, past>>

Registered == {i \in Ids : observers[i] # 0}

\* Handle, after the user's callback: the lock is taken.
Points ==
  /\ alive /\ io = Idle
  /\ received < MaxData
  /\ received' = received + 1
  /\ io' = [at |-> "observer", todo |-> Registered, calling |-> 0, who |-> 0]
  /\ UNCHANGED <<observing, user, debugging, alive, calls, past>>

CallObserver(i) ==
  /\ alive /\ io.at = "observer"
  /\ i \in io.todo
  /\ \A j \in io.todo : i <= j
  /\ io' = [io EXCEPT !.todo = @ \ {i}, !.calling = i, !.who = observers[i]]
  /\ UNCHANGED <<observing, user, debugging, alive, received, calls, past>>

HandleEnds ==
  /\ alive /\ io.at = "observer"
  /\ io.todo = {}
  /\ io' = Idle
  /\ UNCHANGED <<observing, user, debugging, alive, received, calls, past>>

\* An observer that adds or removes one waits for the lock its own thread holds.
Reenter ==
  /\ alive /\ Reentrant
  /\ io.at = "observer" /\ io.calling # 0
  /\ io' = At("stuck")
  /\ UNCHANGED <<observing, user, debugging, alive, received, calls, past>>

-----------------------------------------------------------------------------
(***************************************************************************)
(* Debug point clouds.                                                     *)
(***************************************************************************)
\* The data thread is between the look at enable_ and the end of
\* DebugPointCloudManager::Handler; the user thread is inside of Enable.
Storing == io.at \in {"debug", "start", "store"}
Switching == user.at \in {"switch", "join"}

\* Handler: enable_ is looked at.
DebugPoints(h) ==
  /\ alive /\ io = Idle
  /\ received < MaxData
  /\ received' = received + 1
  /\ IF enable
       THEN /\ io' = [at |-> "debug", lidar |-> h]
            /\ past' = past \cup (IF h \in Known THEN {} ELSE {"unknown"})
                            \cup (IF Switching THEN {"crossed"} ELSE {})
       ELSE UNCHANGED <<io, past>>
  /\ UNCHANGED <<observing, user, debugging, alive, calls>>

\* Mutant of DeviceInfo: AddDevice was not called.
DeviceInfoNone == {}

DeviceInfo == Known

\* The handler is found ...
FindHandler ==
  /\ alive /\ io.at = "debug"
  /\ handlers[io.lidar] # "absent" \/ io.lidar \notin DeviceInfo
  /\ io' = [io EXCEPT !.at = "store"]
  /\ UNCHANGED <<observing, user, debugging, alive, received, calls, past>>

\* ... or made. The loop of Enable may be at work on the map, which nothing guards: it may
\* see the new entry or not, or break down.
MakeHandler ==
  /\ alive /\ io.at = "debug"
  /\ LET h == io.lidar IN
       /\ handlers[h] = "absent" /\ h \in DeviceInfo
       /\ handlers' = [handlers EXCEPT ![h] = "there"]
       /\ writer' = [writer EXCEPT ![h] = NewWriter]
       /\ IF Switching
            THEN /\ \/ user' = [user EXCEPT !.todo = @ \cup {h}]
                    \/ user' = user
                 /\ alive' \in BOOLEAN
            ELSE UNCHANGED <<user, alive>>
  /\ io' = [io EXCEPT !.at = "start"]
  /\ UNCHANGED <<observing, enable, received, calls, past>>

\* DebugPointCloudHandler::Enable starts a thread. One that is there, at work or not, is not
\* joined before its object is replaced, which ends the process.
CanEnable(w) == w.at = "idle"
Enabled(w) == [w EXCEPT !.at = "wait", !.enable = TRUE]

\* Mutant of SwitchedOff: the writer is not told.
SwitchedOffNot(w) == w

SwitchedOff(w) == [w EXCEPT !.enable = FALSE]

\* A new handler is switched as enable_ says by now. A handler that was switched off is null.
StartHandler ==
  /\ alive /\ io.at = "start"
  /\ LET h == io.lidar IN
       /\ alive' = (handlers[h] = "there" /\ (enable => CanEnable(writer[h])))
       /\ writer' = IF ~alive' THEN writer
                    ELSE [writer EXCEPT ![h] = IF enable THEN Enabled(@) ELSE SwitchedOff(@)]
  /\ io' = [io EXCEPT !.at = "store"]
  /\ UNCHANGED <<observing, user, enable, handlers, received, calls, past>>

Stored(w, d) == [w EXCEPT !.data = Append(@, d), !.stored = Append(@, d)]

\* The entry of a lidar that is not known is made here, and null.
StoreData ==
  /\ alive /\ io.at = "store"
  /\ LET h == io.lidar IN
       IF handlers[h] = "there"
         THEN writer' = [writer EXCEPT ![h] = Stored(@, received)] /\ UNCHANGED alive
         ELSE alive' = FALSE /\ UNCHANGED writer
  /\ io' = Idle
  /\ UNCHANGED <<observing, user, enable, handlers, received, calls, past>>

\* SetLivoxLidarDebugPointCloud for one lidar is a switch of them all: enable_ is stored ...
SwitchDebug(on) ==
  /\ Call
  /\ enable' = on
  /\ LET use == IF on THEN "enabled" ELSE "disabled" IN
       past' = past \cup {IF use \in past THEN "again" ELSE use}
                    \cup (IF Storing THEN {"crossed"} ELSE {})
  /\ user' = [at |-> "switch", on |-> on, todo |-> {h \in Lidars : handlers[h] # "absent"}]
  /\ UNCHANGED <<observing, io, handlers, writer, alive, received>>

\* ... and the handlers are switched, in a loop. When one is switched off its entry becomes
\* null before it ends.
EnableHandler(h) ==
  /\ alive /\ user.at = "switch" /\ user.on
  /\ h \in user.todo
  /\ alive' = (handlers[h] = "there" /\ CanEnable(writer[h]))
  /\ writer' = IF alive' THEN [writer EXCEPT ![h] = Enabled(@)] ELSE writer
  /\ user' = [user EXCEPT !.todo = @ \ {h}]
  /\ UNCHANGED <<observing, io, enable, handlers, received, calls, past>>

DisableHandler(h) ==
  /\ alive /\ user.at = "switch" /\ ~user.on
  /\ h \in user.todo
  /\ IF handlers[h] = "there"
       THEN /\ handlers' = [handlers EXCEPT ![h] = "null"]
            /\ writer' = [writer EXCEPT ![h] = SwitchedOff(@)]
            /\ user' = [at |-> "join", lidar |-> h, todo |-> user.todo \ {h}]
            /\ UNCHANGED alive
       ELSE alive' = FALSE /\ UNCHANGED <<user, handlers, writer>>
  /\ UNCHANGED <<observing, io, enable, received, calls, past>>

\* ~DebugPointCloudHandler: its thread is waited for, and what is still queued is lost.
JoinWriter ==
  /\ alive /\ user.at = "join"
  /\ writer[user.lidar].at \in {"idle", "ended"}
  /\ writer' = [writer EXCEPT ![user.lidar].at = "gone"]
  /\ user' = [at |-> "switch", on |-> FALSE, todo |-> user.todo]
  /\ UNCHANGED <<observing, io, enable, handlers, alive, received, calls, past>>

SwitchEnds ==
  /\ alive /\ user.at = "switch"
  /\ user.todo = {}
  /\ user' = Idle
  /\ UNCHANGED <<observing, io, debugging, alive, received, calls, past>>

\* Mutant of Rest: what was written stays in the queue.
RestAll(w) == w.data

Rest(w) == <<>>

\* WriteData: the wait ends with data, or after a second at the latest. The file may not
\* open.
WriteData(h) ==
  /\ alive /\ writer[h].at = "wait"
  /\ LET w == writer[h] IN
       \/ /\ ~w.enable \/ Len(w.file) >= FileLimit
          /\ writer' = [writer EXCEPT ![h].at = "ended"]
       \/ /\ w.enable /\ w.file = <<>>
          /\ writer' = [writer EXCEPT ![h].at = "ended"]
       \/ /\ w.enable /\ Len(w.file) < FileLimit
          /\ w.data # <<>>
          /\ writer' = [writer EXCEPT ![h].file = @ \o w.data, ![h].data = Rest(w)]
  /\ UNCHANGED <<observing, user, io, enable, handlers, alive, received, calls, past>>

DataStep ==
  \/ HandleEnds \/ \E i \in Ids : CallObserver(i)
  \/ FindHandler \/ MakeHandler \/ StartHandler \/ StoreData
UserStep ==
  \/ Insert \/ Erase
  \/ JoinWriter \/ SwitchEnds \/ \E h \in Lidars : EnableHandler(h) \/ DisableHandler(h)

Next ==
  \/ AddObserver
  \/ \E i \in Ids : RemoveObserver(i)
  \/ \E on \in BOOLEAN : SwitchDebug(on)
  \/ UserStep
  \/ Points \/ DataStep \/ Reenter
  \/ \E h \in Lidars : DebugPoints(h) \/ WriteData(h)

Spec == Init /\ [][Next]_vars

\* The threads go on; the writer's wait ends after a second.
FairSpec ==
  /\ Spec
  /\ WF_vars(DataStep)
  /\ SF_vars(UserStep)
  /\ \A h \in Lidars : WF_vars(WriteData(h))

-----------------------------------------------------------------------------
(***************************************************************************)
(* Properties.                                                             *)
(***************************************************************************)
\* Once RemovePointCloudObserver has returned the observer is not inside a call and will not
\* be called: only what is registered is called, also if its identifier was used again.
RemovedIsSilent ==
  io.at = "observer" =>
    /\ io.calling # 0 => observers[io.calling] = io.who
    /\ io.todo \subseteq Registered

\* An observer is replaced by another one only when all identifiers have been used since.
\* Every call of the user that is one of AddObserver uses one.
ReplacedAfterLap ==
  [][\A i \in Ids : (observers[i] # 0 /\ observers'[i] \notin {0, observers[i]}) =>
       observers'[i] - observers[i] >= MaxId]_vars

\* The file of a lidar has its datagrams in order, each of them once, as far as it goes.
FileIsPrefix ==
  \A h \in Lidars : writer[h].at # "none" =>
    /\ IsPrefix(writer[h].file, writer[h].stored)

\* The process goes on through one switch-on and one switch-off, whatever was recorded in
\* between, unless debug points of an unknown lidar are recorded or a switch crosses a datagram
\* on the data thread.
FaultIsKnown == alive \/ past \cap {"unknown", "again", "crossed"} # {}

\* A call of the user returns, unless an observer called back.
CallsReturn == user # Idle ~> (user = Idle \/ io.at = "stuck" \/ ~alive)

\* Debug point clouds are switched on for one lidar after the other.
SwitchedOnForEach == past \cap {"unknown", "disabled", "crossed"} = {} => alive

=============================================================================
