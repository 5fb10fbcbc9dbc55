----------------------------- MODULE SdkSession -----------------------------
(***************************************************************************)
(* LivoxLidarSdkInit and LivoxLidarSdkUninit, one after the other and as   *)
(* often as the user likes, with the IO threads, their loops, the sockets  *)
(* that the loops read, and the detection thread.                          *)
(*                                                                         *)
(* A socket is handed to a loop by a task: the caller pushes the task and  *)
(* then writes to the wake-up pipe; the loop drains the pipe, takes all    *)
(* tasks and runs them. Uninit hands over the removal of every socket and  *)
(* does not wait for it, and it does not stop the IO threads: Init does,   *)
(* when it replaces them. Init may fail at every resource it creates, and  *)
(* then leaves what it has created so far.                                 *)
(*                                                                         *)
(* While lidars are looked for, their answers open sockets as well, in a   *)
(* callback on the IO thread of detection: of a lidar seen in view mode,   *)
(* and of one that a configuration by device type adopts. Nothing keeps    *)
(* such a callback and Uninit apart.                                       *)
(***************************************************************************)
EXTENDS Naturals, Sequences, Functions

CONSTANTS
  ThreadOrder,  \* the IO threads, in the order of their creation
  Wanted,       \* what the configuration asks for, in order: channels, by host and port
  ThreadOf,     \* the IO thread of a channel
  Unkeyed,      \* channels that are created for every lidar (broadcasts of Mid360)
  Asked,        \* what a lidar's answer may ask for, in order, with and without view mode
  MaxSessions,  \* bound: calls of Init
  MaxGrown      \* bound: sockets that answers open

DetectionKeys == <<"broadcast", "host">>
Threads == Range(ThreadOrder)
Keys == Range(DetectionKeys) \cup Range(Wanted)
          \cup UNION {Range(keys) : keys \in Asked[TRUE] \cup Asked[FALSE]}

ASSUME SdkSessionAssumption ==
  /\ ThreadOrder \in Seq(Threads)
  /\ Wanted \in Seq(Keys)
  /\ "none" \notin Threads
  /\ Len(ThreadOrder) > 0 /\ ThreadOrder[1] = "detection"
  /\ ThreadOf \in [Keys -> Threads]
  /\ \A k \in Range(DetectionKeys) : ThreadOf[k] = "detection"
  /\ \A mode \in BOOLEAN : Asked[mode] \subseteq Seq(Keys)
  /\ MaxSessions \in Nat /\ MaxGrown \in Nat

VARIABLES
  app,          \* what the thread that calls Init and Uninit does
  view,         \* is_view_ of DeviceManager
  port,         \* comm_port_ of GeneralCommandHandler
  portView,     \* is_view_ of GeneralCommandHandler
  loop,         \* the IO threads and their loops
  open,         \* open sockets
  vec,          \* socket_vec_, vec_broadcast_socket_
  detection,    \* detection_socket_, detection_broadcast_socket_
  channel,      \* channel_info_
  stop,         \* is_stop_detection_
  detector,     \* detection_thread_
  alive,        \* no null pointer was used
  sessions,     \* calls of Init so far
  failed,       \* those of them that failed (history)
  call,         \* the callback that opens sockets for a lidar
  grown,        \* sockets it has opened so far
  stray         \* sockets that it had not handed over when Uninit began (history)

manager == <<view, vec, detection, channel>>
answers == <<call, grown, stray>>
vars == <<app, port, portView, loop, open, manager, stop, detector, alive, sessions, failed,
          answers>>

\* view: it was opened for a lidar in view mode, and is in socket_vec_ only.
Socket ==
  [key : Keys, session : 1 .. MaxSessions, view : BOOLEAN,
   nr : 1 .. Len(DetectionKeys) + Len(Wanted) + MaxGrown]
NoSocket == [key |-> "none"]

NoLoop == [at |-> "none"]
NewLoop == [at |-> "poll", pending |-> <<>>, batch |-> <<>>, fds |-> {}, pipe |-> FALSE]
Runs(t) == loop[t].at \in {"poll", "swap", "run"}

App(place, n) == [at |-> place, n |-> n, wake |-> "none", left |-> {}]
Idle == App("idle", 0)
Up == App("up", 0)

NoCall == [busy |-> FALSE, view |-> FALSE, keys |-> <<>>, socket |-> NoSocket, wake |-> "none"]

\* Mutant of StopsAtFirst: the constructor sets the flag.
StopsAtFirstSet == TRUE

StopsAtFirst == FALSE

Init ==
  /\ app = Idle
  /\ view = FALSE /\ port = FALSE /\ portView = FALSE
  /\ loop = [t \in Threads |-> NoLoop]
  /\ open = {} /\ vec = {} /\ detection = {}
  /\ channel = [k \in Keys |-> NoSocket]
  /\ stop = StopsAtFirst
  /\ detector = "none"
  /\ alive = TRUE
  /\ sessions = 0
  /\ failed = {}
  /\ call = NoCall /\ grown = 0 /\ stray = {}

-----------------------------------------------------------------------------
(***************************************************************************)
(* PostTask, in two steps.                                                 *)
(***************************************************************************)
Pushed(t, task) == [loop EXCEPT ![t].pending = Append(@, task)]

\* Mutant of Woken: the pipe is not written.
WokenNot(t) == loop

Woken(t) == [loop EXCEPT ![t].pipe = TRUE]

Task(op, s) == [op |-> op, socket |-> s]

\* The next step of the caller comes after the wake-up.
Post(op, s, next) ==
  /\ loop' = Pushed(ThreadOf[s.key], Task(op, s))
  /\ app' = [next EXCEPT !.wake = ThreadOf[s.key]]

Ready(place) == alive /\ app.at = place /\ app.wake = "none"

WakeUp ==
  /\ alive
  /\ app.wake # "none"
  /\ loop' = Woken(app.wake)
  /\ app' = [app EXCEPT !.wake = "none"]
  /\ UNCHANGED <<port, portView, open, manager, stop, detector, alive, sessions, failed>>

-----------------------------------------------------------------------------
(***************************************************************************)
(* LivoxLidarSdkInit                                                       *)
(***************************************************************************)
\* The configuration was read and checked. A handler that is already initialised keeps its
\* mode when there is a configuration file.
InitBegin(isView) ==
  /\ Ready("idle")
  /\ sessions < MaxSessions
  /\ sessions' = sessions + 1
  /\ view' = isView
  /\ port' = TRUE
  /\ portView' = IF isView THEN TRUE ELSE IF port THEN portView ELSE FALSE
  /\ app' = App("threads", 1)
  /\ UNCHANGED <<loop, open, vec, detection, channel, stop, detector, alive, failed, answers>>

InitFails ==
  /\ app' = Idle
  /\ failed' = failed \cup {sessions}

\* The thread that is replaced ends its turn of the loop, and the callback it is in, and is
\* joined; what was left for it is dropped. One whose loop could not be created has no thread
\* to join.
CreateIOThread ==
  /\ Ready("threads")
  /\ LET t == ThreadOrder[app.n] IN
       /\ loop[t].at \in {"none", "poll", "broken"}
       /\ t = "detection" => ~call.busy
       /\ alive' = (loop[t].at # "broken")
       /\ \/ /\ loop' = [loop EXCEPT ![t] = NewLoop]
             /\ app' = IF app.n = Len(ThreadOrder) THEN App("sockets", 1)
                       ELSE App("threads", app.n + 1)
             /\ UNCHANGED failed
          \/ loop' = [loop EXCEPT ![t] = [at |-> "broken"]] /\ InitFails
  /\ UNCHANGED <<port, portView, open, manager, stop, detector, sessions>>

\* Init opens the sockets of detection only when there is no configuration file.
Plan == IF view THEN DetectionKeys ELSE DetectionKeys \o Wanted

AfterSocket == IF app.n = Len(Plan) THEN App("detect", 0) ELSE App("sockets", app.n + 1)

\* The first two sockets are those of detection.
Detecting == app.n <= Len(DetectionKeys)

CreateSocket(k) ==
  LET s == [key |-> k, session |-> sessions, view |-> FALSE, nr |-> app.n] IN
    /\ open' = open \cup {s}
    /\ channel' = IF k \in Unkeyed \cup {"broadcast"} THEN channel
                  ELSE [channel EXCEPT ![k] = s]
    /\ IF Detecting
         THEN detection' = {d \in detection : d.key # k} \cup {s} /\ UNCHANGED vec
         ELSE vec' = vec \cup {s} /\ UNCHANGED detection
    /\ Post("add", s, AfterSocket)
    /\ UNCHANGED failed

\* CreateDetectionChannel, CreateDataChannel, CreateCommandChannel: a channel that is in
\* channel_info_, for another lidar or from an Init that failed, is there already.
NeedsSocket(k) == Detecting \/ k \in Unkeyed \/ channel[k] = NoSocket

CreateChannel ==
  /\ Ready("sockets")
  /\ LET k == Plan[app.n] IN
       \/ NeedsSocket(k) /\ CreateSocket(k)
       \/ /\ NeedsSocket(k)
          /\ InitFails
          /\ UNCHANGED <<open, channel, detection, vec, loop>>
       \/ /\ ~NeedsSocket(k)
          /\ app' = AfterSocket
          /\ UNCHANGED <<open, channel, detection, vec, loop, failed>>
  /\ UNCHANGED <<port, portView, view, stop, detector, alive, sessions>>

StartDetection ==
  /\ Ready("detect")
  /\ detector' = "runs"
  /\ app' = App("reset", 0)
  /\ UNCHANGED <<port, portView, loop, open, manager, stop, alive, sessions, failed>>

ResetStop ==
  /\ Ready("reset")
  /\ stop' = FALSE
  /\ app' = Up
  /\ UNCHANGED <<port, portView, loop, open, manager, detector, alive, sessions, failed>>

-----------------------------------------------------------------------------
(***************************************************************************)
(* LivoxLidarSdkUninit                                                     *)
(***************************************************************************)
\* command_channel_, vec_broadcast_socket_ and data_channel_: all of socket_vec_ but what was
\* opened for a lidar in view mode.
Listed == {s \in vec : ~s.view}

\* Mutant of ToRemove: the sockets of detection are not removed from their loop.
ToRemoveListed == Listed

ToRemove == detection \cup Listed

Pending == {call.socket} \ {NoSocket}

Uninit ==
  /\ Ready("up")
  /\ app' = [App("remove", 0) EXCEPT !.left = ToRemove]
  /\ stray' = stray \cup Pending
  /\ UNCHANGED <<port, portView, loop, open, manager, stop, detector, alive, sessions, failed,
                 call, grown>>

\* RemoveDelegate for every socket: the two of detection first, the others in any order.
RemoveSocket ==
  /\ Ready("remove")
  /\ \E s \in app.left :
       /\ s \in detection \/ app.left \cap detection = {}
       /\ s.key = "host" \/ \A r \in app.left : r.key # "host"
       /\ Post("remove", s, [app EXCEPT !.left = @ \ {s}])
  /\ UNCHANGED <<port, portView, open, manager, stop, detector, alive, sessions, failed>>

\* Mutant of Closed: a socket stays open.
ClosedNot == open

Closed == open \ vec

CloseSockets ==
  /\ Ready("remove")
  /\ app.left = {}
  /\ open' = Closed
  /\ vec' = {}
  /\ app' = App("stop", 0)
  /\ UNCHANGED <<port, portView, loop, view, detection, channel, stop, detector, alive,
                 sessions, failed>>

\* Mutant of Stopped: the detection thread is not told to stop.
StoppedNot == stop

Stopped == TRUE

StopDetection ==
  /\ Ready("stop")
  /\ stop' = Stopped
  /\ app' = App("join", 0)
  /\ UNCHANGED <<port, portView, loop, open, manager, detector, alive, sessions, failed>>

JoinDetection ==
  /\ Ready("join")
  /\ detector = "ended"
  /\ detector' = "none"
  /\ open' = open \ detection
  /\ detection' = {}
  /\ app' = App("clear", 0)
  /\ UNCHANGED <<port, portView, loop, view, vec, channel, stop, alive, sessions, failed>>

Cleared == [k \in Keys |-> NoSocket]

\* The maps of DeviceManager, then GeneralCommandHandler.
Clear ==
  /\ Ready("clear")
  /\ channel' = Cleared
  /\ view' = FALSE
  /\ port' = FALSE
  /\ portView' = FALSE
  /\ app' = Idle
  /\ UNCHANGED <<loop, open, vec, detection, stop, detector, alive, sessions, failed>>

AppStep ==
  /\ \/ WakeUp \/ CreateIOThread \/ CreateChannel \/ StartDetection \/ ResetStop
     \/ RemoveSocket \/ CloseSockets \/ StopDetection
     \/ JoinDetection \/ Clear
  /\ UNCHANGED answers

-----------------------------------------------------------------------------
(***************************************************************************)
(* A lidar's answer, on the IO thread of detection.                        *)
(***************************************************************************)
\* The answer to a search, or to the query that follows it in view mode, is read from a socket
\* of detection.
Answer ==
  /\ alive
  /\ detector # "none"
  /\ loop["detection"].at = "poll"
  /\ loop["detection"].fds \cap detection \cap open # {}
  /\ ~call.busy
  /\ grown < MaxGrown
  /\ \E keys \in Asked[view] :
       call' = [NoCall EXCEPT !.busy = TRUE, !.view = view, !.keys = keys]
  /\ UNCHANGED <<app, port, portView, loop, open, manager, stop, detector, alive, sessions,
                 failed, grown, stray>>

Calls == alive /\ call.busy /\ call.socket = NoSocket /\ call.wake = "none"

\* The lists of DeviceManager are cleared. One that is gone through for an adopted lidar is
\* gone; a lidar in view mode is only looked at again in the end.
Outlived == app.at \in {"idle", "threads"}

OpenSocket(k) ==
  LET s == [key |-> k, session |-> sessions, view |-> call.view,
            nr |-> Len(DetectionKeys) + Len(Wanted) + grown + 1] IN
    /\ grown < MaxGrown
    /\ grown' = grown + 1
    /\ open' = open \cup {s}
    /\ vec' = vec \cup {s}
    /\ channel' = IF k \in Unkeyed THEN channel ELSE [channel EXCEPT ![k] = s]
    /\ call' = [call EXCEPT !.keys = Tail(@), !.socket = s]
    /\ stray' = IF app.at \in {"reset", "up"} THEN stray ELSE stray \cup {s}

\* CreateViewDataChannel, or the channels of every lidar once more in OnData. Whoever changes
\* the lists at the same time may end the process. A failure ends the callback.
OpenChannel ==
  /\ Calls
  /\ call.keys # <<>>
  /\ ~(Outlived /\ ~call.view)
  /\ LET k == Head(call.keys)
         needed == k \in Unkeyed \/ channel[k] = NoSocket IN
       \/ /\ needed
          /\ OpenSocket(k)
          /\ alive' \in IF app.at \in {"remove", "clear"} THEN BOOLEAN ELSE {TRUE}
       \/ /\ call' = [call EXCEPT !.keys = IF needed THEN <<>> ELSE Tail(@)]
          /\ UNCHANGED <<grown, open, vec, channel, stray, alive>>
  /\ UNCHANGED <<app, port, portView, loop, view, detection, stop, detector, sessions, failed>>

\* AddDelegate pushes the task, and then wakes the loop.
HandOver ==
  /\ alive
  /\ call.socket # NoSocket
  /\ loop' = Pushed(ThreadOf[call.socket.key], Task("add", call.socket))
  /\ call' = [call EXCEPT !.socket = NoSocket, !.wake = ThreadOf[call.socket.key]]
  /\ UNCHANGED <<app, port, portView, open, manager, stop, detector, alive, sessions, failed,
                 grown, stray>>

CallWakes ==
  /\ alive
  /\ call.wake # "none"
  /\ loop' = Woken(call.wake)
  /\ call' = [call EXCEPT !.wake = "none"]
  /\ UNCHANGED <<app, port, portView, open, manager, stop, detector, alive, sessions, failed,
                 grown, stray>>

\* What the callback uses in the end may have been freed meanwhile.
AnswerEnds ==
  /\ Calls
  /\ call.keys = <<>> \/ (Outlived /\ ~call.view)
  /\ call' = NoCall
  /\ alive' \in IF Outlived THEN BOOLEAN ELSE {TRUE}
  /\ UNCHANGED <<app, port, portView, loop, open, manager, stop, detector, sessions, failed,
                 grown, stray>>

CallStep == OpenChannel \/ HandOver \/ CallWakes \/ AnswerEnds

-----------------------------------------------------------------------------
(***************************************************************************)
(* The threads.                                                            *)
(***************************************************************************)
Others == <<app, port, portView, open, manager, stop, alive, sessions, failed, answers>>

\* DetectionLidars
Detect ==
  /\ alive
  /\ detector = "runs"
  /\ stop
  /\ detector' = "ended"
  /\ UNCHANGED <<Others, loop>>

\* Poll returns: the pipe is drained, data has been read and timers are called.
Poll(t) ==
  /\ alive
  /\ loop[t].at = "poll"
  /\ t = "detection" => ~call.busy
  /\ loop' = [loop EXCEPT ![t].at = "swap", ![t].pipe = FALSE]
  /\ UNCHANGED <<Others, detector>>

TakeTasks(t) ==
  /\ alive
  /\ loop[t].at = "swap"
  /\ loop' = [loop EXCEPT ![t].at = IF loop[t].pending = <<>> THEN "poll" ELSE "run",
                         ![t].batch = loop[t].pending,
                         ![t].pending = <<>>]
  /\ UNCHANGED <<Others, detector>>

\* AddDelegateAsync, RemoveDelegateAsync. A socket that is closed cannot be added.
Ran(task, fds) ==
  IF task.op = "remove" THEN fds \ {task.socket}
  ELSE IF task.socket \in open THEN fds \cup {task.socket} ELSE fds

\* One task after the other; the turn ends with the last of them.
RunTask(t) ==
  /\ alive
  /\ loop[t].at = "run"
  /\ loop' = [loop EXCEPT ![t].at = IF Len(loop[t].batch) = 1 THEN "poll" ELSE "run",
                         ![t].batch = Tail(@),
                         ![t].fds = Ran(Head(loop[t].batch), @)]
  /\ UNCHANGED <<Others, detector>>

LoopStep(t) == Poll(t) \/ TakeTasks(t) \/ RunTask(t)

Next ==
  \/ \E isView \in BOOLEAN : InitBegin(isView)
  \/ Uninit
  \/ AppStep
  \/ Answer
  \/ CallStep
  \/ Detect
  \/ \E t \in Threads : LoopStep(t)

Spec == Init /\ [][Next]_vars

\* A call goes on once it has begun, and the threads run; none is kept waiting for ever by
\* the others. Nobody has to call Uninit.
FairSpec ==
  /\ Spec
  /\ SF_vars(AppStep)
  /\ WF_vars(Detect)
  /\ \A t \in Threads : WF_vars(LoopStep(t) \/ (t = "detection" /\ CallStep))

-----------------------------------------------------------------------------
(***************************************************************************)
(* Properties.                                                             *)
(***************************************************************************)
Waiting(t) == Range(loop[t].pending) \cup Range(loop[t].batch)

TypeOK ==
  /\ app.at \in {"idle", "up", "threads", "sockets", "detect", "reset", "remove", "stop",
                 "join", "clear"}
  /\ app.wake \in Threads \cup {"none"}
  /\ app.left \subseteq ToRemove
  /\ {view, port, portView, stop, alive} \subseteq BOOLEAN
  /\ \A t \in Threads : Runs(t) =>
       /\ loop[t].fds \subseteq Socket
       /\ \A task \in Waiting(t) : task.op \in {"add", "remove"} /\ task.socket \in Socket
  /\ open \subseteq Socket
  /\ vec \cup detection \subseteq Socket
  /\ channel \in [Keys -> Socket \cup {NoSocket}]
  /\ detector \in {"none", "runs", "ended"}
  /\ sessions \in 0 .. MaxSessions /\ failed \subseteq 1 .. sessions
  /\ call \in [busy : BOOLEAN, view : BOOLEAN, keys : Seq(Keys),
               socket : Socket \cup {NoSocket}, wake : Threads \cup {"none"}]
  /\ grown \in 0 .. MaxGrown /\ stray \subseteq Socket

\* A loop that waits in Poll with tasks to run finds its pipe written, or is about to.
PostedWakes ==
  \A t \in Threads :
    (loop[t].at = "poll" /\ loop[t].pending # <<>>) =>
       loop[t].pipe \/ app.wake = t \/ call.wake = t

\* Destory closes these without removing them from their loop: the sockets of a lidar in view
\* mode, and one that was opened or handed over while it ran.
Forgotten(s) == s.view \/ s \in stray

\* A loop polls a socket that is closed only until a removal that waits for it has run, unless
\* the socket is forgotten: the next one with that number belongs to somebody else.
ClosedIsRemoved ==
  \A t \in Threads : Runs(t) =>
    \A s \in loop[t].fds \ open : Forgotten(s) \/ Task("remove", s) \in Waiting(t)

\* What the loops are given to do, and what they poll.
LoopsOK == TypeOK /\ ClosedIsRemoved

\* When Init has succeeded, and the call before it did not fail, every channel that Init or a
\* lidar has asked for is read by its thread or about to be, and DeviceManager and the command
\* handler agree on the mode. A channel that was left behind while the session before ended is
\* taken for one of this session, and nobody reads it.
SessionIsWhole ==
  (app = Up /\ sessions - 1 \notin failed) =>
    /\ portView = view
    /\ \A k \in Range(Plan) \ (Unkeyed \cup {"broadcast"}) : channel[k] # NoSocket
    /\ \A k \in Keys : channel[k] \notin stray \cup {NoSocket, call.socket} =>
         \/ channel[k] \in loop[ThreadOf[k]].fds
         \/ Task("add", channel[k]) \in Waiting(ThreadOf[k])

\* Lidars are looked for in the first session; in a later one the thread may have read the
\* order to stop of the one before.
FirstSessionDetects == (app = Up /\ detector = "ended") => sessions > 1

\* Uninit leaves no socket open but those of detection of an Init that had failed, and those
\* that a callback has opened behind its back: they are closed with the next session.
NothingLeftOpen ==
  (app = Idle /\ port = FALSE) =>
    \A s \in open :
      \/ s.key \in Range(DetectionKeys) /\ s.session \in failed
      \/ s \in stray \cap vec

\* What a session leaves behind does not reach into the next one.
CleanedUp == SessionIsWhole /\ NothingLeftOpen

\* Init and Uninit return, whatever the threads are doing.
CallsReturn == alive /\ app.at \notin {"idle", "up"} ~> app.at \in {"idle", "up"} \/ ~alive

=============================================================================
