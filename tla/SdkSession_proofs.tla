------------------------- MODULE SdkSession_proofs --------------------------
(***************************************************************************)
(* Proofs about SdkSession, for every number of IO threads, every list of  *)
(* channels a configuration or a lidar can ask for, however the channels   *)
(* are spread over the threads, and any number of sessions and of answers. *)
(***************************************************************************)
EXTENDS SdkSession, SequenceTheorems, TLAPS

Places == {"idle", "up", "threads", "sockets", "detect", "reset", "remove", "stop", "join",
           "clear"}

Tasks == [op : {"add", "remove"}, socket : Socket]

Running ==
  [at : {"poll", "swap", "run"}, pending : Seq(Tasks), batch : Seq(Tasks),
   fds : SUBSET Socket, pipe : BOOLEAN]

Broken == [at |-> "broken"]

Call ==
  [busy : BOOLEAN, view : BOOLEAN, keys : Seq(Keys), socket : Socket \cup {NoSocket},
   wake : Threads \cup {"none"}]

\* Every loop exists from here on.
Equipped == app.at \in Places \ {"idle", "threads"}

\* A successful Init up to the next Uninit.
Building == app.at \in {"sockets", "detect", "reset", "up"}

(***************************************************************************)
(* The type invariant with the shapes of the records, and with what the    *)
(* indices of the loops in Init and Uninit range over.                     *)
(***************************************************************************)
AppShape ==
  /\ app \in [at : Places, n : Nat, wake : Threads \cup {"none"}, left : SUBSET Socket]
  /\ app.at = "threads" => app.n \in 1 .. Len(ThreadOrder)
  /\ app.at = "sockets" => app.n \in 1 .. Len(Plan)
  /\ app.left \subseteq ToRemove
  /\ app.at # "remove" => app.left = {}
  /\ app.at # "idle" => sessions > 0

LoopShape ==
  /\ loop \in [Threads -> Running \cup {NoLoop, Broken}]
  /\ \A t \in Threads : loop[t].at = "run" => loop[t].batch # <<>>
  /\ Equipped => \A t \in Threads : loop[t] \in Running
  /\ app.at = "threads" => \A i \in 1 .. app.n - 1 : loop[ThreadOrder[i]] \in Running

DataShape ==
  /\ view \in BOOLEAN /\ port \in BOOLEAN /\ portView \in BOOLEAN /\ stop \in BOOLEAN
  /\ alive \in BOOLEAN
  /\ open \subseteq Socket /\ vec \subseteq Socket /\ detection \subseteq Socket
  /\ channel \in [Keys -> Socket \cup {NoSocket}]
  /\ detector \in {"none", "runs", "ended"}
  /\ sessions \in 0 .. MaxSessions
  /\ failed \subseteq 1 .. sessions

\* A callback has begun while lidars were looked for; its thread is not replaced before it
\* ends, and that thread is the first to be replaced.
CallShape ==
  /\ call \in Call /\ grown \in 0 .. MaxGrown /\ stray \subseteq Socket
  /\ ~call.busy => call.socket = NoSocket /\ call.wake = "none"
  /\ call.socket = NoSocket \/ call.wake = "none"
  /\ call.busy =>
       /\ sessions > 0
       /\ \A t \in Threads : loop[t] \in Running
       /\ app.at \notin {"sockets", "detect"}
       /\ app.at = "threads" => app.n = 1
  /\ call.socket # NoSocket /\ app.at \notin {"reset", "up"} => call.socket \in stray
  /\ detector # "none" => app.at \in {"reset", "up", "remove", "stop", "join"}

Shape == AppShape /\ LoopShape /\ DataShape /\ CallShape

(***************************************************************************)
(* Wake-ups.                                                               *)
(***************************************************************************)
\* After the pipe was drained and before the tasks are taken, no wake-up is needed.
WakeInv ==
  \A t \in Threads :
    (loop[t].at \in {"poll", "run"} /\ loop[t].pending # <<>>) =>
       loop[t].pipe \/ app.wake = t \/ call.wake = t

(***************************************************************************)
(* Detection.                                                              *)
(***************************************************************************)
DetectInv ==
  (sessions <= 1 /\ (stop \/ detector = "ended")) =>
     sessions = 1 /\ app.at \in {"join", "clear", "idle"}

(***************************************************************************)
(* Open sockets.                                                           *)
(***************************************************************************)
OpenInv ==
  /\ \A s \in open \ (vec \cup detection) :
       s.key \in Range(DetectionKeys) /\ s.session \in failed
  /\ \A d \in detection :
       /\ d.key \in Range(DetectionKeys)
       /\ \/ d.session \in failed
          \/ /\ d.session = sessions /\ app.at \notin {"idle", "threads"}
             /\ app.at = "sockets" =>
                  d.nr < app.n /\ d.nr \in {1, 2} /\ d.key = DetectionKeys[d.nr]
  /\ app.at \in {"stop", "join", "clear"} => vec \subseteq stray
  /\ app.at = "clear" => detection = {}
  /\ ~port => vec \subseteq stray /\ detection = {} /\ app.at = "idle"

(***************************************************************************)
(* The tasks of a loop.                                                    *)
(***************************************************************************)
Homed ==
  \A t \in Threads : loop[t] \in Running =>
    /\ \A s \in loop[t].fds : ThreadOf[s.key] = t
    /\ \A task \in Waiting(t) : ThreadOf[task.socket.key] = t

AddsOnly(t) == \A task \in Waiting(t) : task.op = "add"

OnlyAdds ==
  /\ Building => \A t \in Threads : AddsOnly(t)
  /\ app.at = "threads" => \A i \in 1 .. app.n - 1 : AddsOnly(ThreadOrder[i])

\* Behind a task that removes a socket, none adds one but those that are handed over late.
MayFollow(task, late) == task.op = "remove" \/ task.socket \in late

InOrder(b, p, late) ==
  /\ \A i, j \in DOMAIN b : i < j /\ b[i].op = "remove" => MayFollow(b[j], late)
  /\ \A i, j \in DOMAIN p : i < j /\ p[i].op = "remove" => MayFollow(p[j], late)
  /\ \A i \in DOMAIN b, j \in DOMAIN p : b[i].op = "remove" => MayFollow(p[j], late)

Ordered ==
  \A t \in Threads : loop[t] \in Running => InOrder(loop[t].batch, loop[t].pending, stray)

\* A loop that does not run tasks has taken none.
Emptied == \A t \in Threads : loop[t] \in Running /\ loop[t].at # "run" => loop[t].batch = <<>>

Touches(t, s) == s \in loop[t].fds \/ Task("add", s) \in Waiting(t)

\* What Uninit has posted removes what the loop polls or is going to.
Posted ==
  app.at \in {"remove", "stop", "join"} =>
    \A s \in ToRemove \ (app.left \cup stray) :
      Touches(ThreadOf[s.key], s) => Task("remove", s) \in Waiting(ThreadOf[s.key])

QueueInv == Homed /\ OnlyAdds /\ Ordered /\ Emptied /\ Posted /\ ClosedIsRemoved

(***************************************************************************)
(* The channels of a session.                                              *)
(***************************************************************************)
Fresh == sessions - 1 \notin failed

Unnamed == Unkeyed \cup {"broadcast"}

\* The socket of a channel is read by its thread, or about to be.
IsRead(k) ==
  /\ channel[k] \in open
  /\ channel[k].key = k
  /\ Touches(ThreadOf[k], channel[k]) \/ call.socket = channel[k]

\* A channel that was not opened in this session.
Vacant(k) == channel[k] \in stray \cup {NoSocket}

Settled(k) == Vacant(k) \/ IsRead(k)

WholeInv ==
  /\ app.at = "idle" /\ sessions \notin failed =>
       (\A k \in Keys : Vacant(k)) /\ ~port /\ ~portView /\ ~view
  /\ app.at = "threads" /\ Fresh => (\A k \in Keys : Vacant(k)) /\ portView = view
  /\ Building /\ Fresh =>
       /\ portView = view
       /\ \A k \in Keys : Settled(k)
       /\ \A i \in DOMAIN Plan : (app.at = "sockets" => i < app.n) =>
            Plan[i] \in Unnamed \/ channel[Plan[i]] # NoSocket

-----------------------------------------------------------------------------
(***************************************************************************)
(* Operators.                                                              *)
(***************************************************************************)
\* The two channels of detection come first in every plan.
LEMMA PlanType ==
  ASSUME view \in BOOLEAN
  PROVE  /\ Plan \in Seq(Keys)
         /\ Len(Plan) \in Nat /\ Len(Plan) >= 2
         /\ Len(Plan) <= Len(DetectionKeys) + Len(Wanted)
         /\ DOMAIN Plan = 1 .. Len(Plan)
         /\ Plan[1] = "broadcast" /\ Plan[2] = "host"
<1>1. /\ DetectionKeys \in Seq(Keys) /\ Len(DetectionKeys) = 2
      /\ DetectionKeys[1] = "broadcast" /\ DetectionKeys[2] = "host"
  <2>1. /\ DOMAIN DetectionKeys = 1 .. 2 /\ Len(DetectionKeys) = 2
        /\ DetectionKeys[1] = "broadcast" /\ DetectionKeys[2] = "host"
    BY DEF DetectionKeys
  <2>3. "broadcast" \in Range(DetectionKeys) /\ "host" \in Range(DetectionKeys)
    BY <2>1 DEF Range
  <2>2. "broadcast" \in Keys /\ "host" \in Keys
    BY <2>3 DEF Keys
  <2> QED
    BY <2>1, <2>2 DEF DetectionKeys
<1>2. Wanted \in Seq(Keys)
  BY SdkSessionAssumption
<1>0. Len(Wanted) \in Nat
  BY <1>2, LenProperties
<1>3. CASE view
  <2>1. Plan = DetectionKeys
    BY <1>3, Zenon DEF Plan
  <2>2. Plan \in Seq(Keys) /\ Plan[1] = "broadcast" /\ Plan[2] = "host" /\ Len(Plan) = 2
    BY <1>1, <2>1
  <2>3. DOMAIN Plan = 1 .. Len(Plan)
    BY <2>2, LenProperties
  <2> QED
    BY <1>0, <1>1, <2>2, <2>3
<1>4. CASE ~view
  <2>1. Plan = DetectionKeys \o Wanted
    BY <1>4, Zenon DEF Plan
  <2>2. /\ Plan \in Seq(Keys)
        /\ Len(Plan) = 2 + Len(Wanted)
        /\ \A i \in 1 .. 2 : Plan[i] = DetectionKeys[i]
    <3>1. /\ DetectionKeys \o Wanted \in Seq(Keys)
          /\ Len(DetectionKeys \o Wanted) = Len(DetectionKeys) + Len(Wanted)
          /\ \A i \in 1 .. Len(DetectionKeys) + Len(Wanted) :
               (DetectionKeys \o Wanted)[i] =
                 IF i <= Len(DetectionKeys) THEN DetectionKeys[i]
                 ELSE Wanted[i - Len(DetectionKeys)]
      BY <1>1, <1>2, ConcatProperties, Zenon
    <3>2. \A i \in 1 .. 2 : i \in 1 .. 2 + Len(Wanted) /\ i <= 2
      BY <1>0
    <3> QED
      BY <1>1, <2>1, <3>1, <3>2
  <2>3. DOMAIN Plan = 1 .. Len(Plan)
    BY <2>2, LenProperties
  <2>4. 1 \in 1 .. 2 /\ 2 \in 1 .. 2
    OBVIOUS
  <2> QED
    BY <1>0, <1>1, <2>2, <2>3, <2>4
<1> QED
  BY <1>3, <1>4

\* Pushing a task changes the pending tasks of one loop.
LEMMA PushedFacts ==
  ASSUME loop \in [Threads -> Running \cup {NoLoop, Broken}],
         NEW t \in Threads, loop[t] \in Running, NEW task \in Tasks,
         loop' = Pushed(t, task)
  PROVE  /\ loop' \in [Threads -> Running \cup {NoLoop, Broken}]
         /\ loop'[t] \in Running
         /\ loop'[t].pending = Append(loop[t].pending, task)
         /\ loop'[t].at = loop[t].at /\ loop'[t].batch = loop[t].batch
         /\ loop'[t].fds = loop[t].fds /\ loop'[t].pipe = loop[t].pipe
         /\ \A u \in Threads \ {t} : loop'[u] = loop[u]
<1>1. PICK r \in Running : r = loop[t]
  OBVIOUS
<1>2. loop' = [loop EXCEPT ![t] = [r EXCEPT !.pending = Append(@, task)]]
  BY <1>1 DEF Pushed
<1>3. Append(r.pending, task) \in Seq(Tasks)
  BY DEF Running
<1>4. /\ [r EXCEPT !.pending = Append(@, task)] \in Running
      /\ [r EXCEPT !.pending = Append(@, task)].pending = Append(r.pending, task)
      /\ [r EXCEPT !.pending = Append(@, task)].at = r.at
      /\ [r EXCEPT !.pending = Append(@, task)].batch = r.batch
      /\ [r EXCEPT !.pending = Append(@, task)].fds = r.fds
      /\ [r EXCEPT !.pending = Append(@, task)].pipe = r.pipe
  BY <1>3 DEF Running
<1> HIDE DEF Running
<1> QED
  BY <1>1, <1>2, <1>4

\* A task that is pushed waits, behind those that wait already.
LEMMA PushedWaits ==
  ASSUME NEW t, NEW task, loop[t].pending \in Seq(Tasks),
         loop'[t].pending = Append(loop[t].pending, task), task \in Tasks,
         loop'[t].batch = loop[t].batch
  PROVE  Waiting(t)' = Waiting(t) \cup {task}
<1>1. Range(Append(loop[t].pending, task)) = Range(loop[t].pending) \cup {task}
  BY SMTT(20) DEF Range
<1> QED
  BY <1>1 DEF Waiting

LEMMA NewLoopRuns == NewLoop \in Running /\ NewLoop.at = "poll" /\ NewLoop.pending = <<>>
                     /\ NewLoop.batch = <<>> /\ NewLoop.fds = {}
BY DEF NewLoop, Running

LEMMA NotRunning ==
  /\ NoLoop \notin Running /\ Broken \notin Running
  /\ NoLoop.at = "none" /\ Broken.at = "broken"
  /\ \A r \in Running : r.at \in {"poll", "swap", "run"}
BY DEF NoLoop, Broken, Running

\* A thread runs when its loop has the shape of one that runs.
LEMMA RunsIsRunning ==
  ASSUME LoopShape, NEW t \in Threads
  PROVE  Runs(t) <=> loop[t] \in Running
BY NotRunning DEF LoopShape, Runs

\* There is a thread, and the threads in their order are threads.
LEMMA OrderFacts ==
  /\ Len(ThreadOrder) \in Nat /\ Len(ThreadOrder) >= 1
  /\ \A i \in 1 .. Len(ThreadOrder) : ThreadOrder[i] \in Threads
  /\ \A t \in Threads : \E i \in 1 .. Len(ThreadOrder) : ThreadOrder[i] = t
  /\ ThreadOrder[1] = "detection" /\ "detection" \in Threads
<1>1. Len(ThreadOrder) \in Nat /\ DOMAIN ThreadOrder = 1 .. Len(ThreadOrder)
  BY SdkSessionAssumption, LenProperties
<1>2. \A t \in Threads : \E i \in 1 .. Len(ThreadOrder) : ThreadOrder[i] = t
  BY <1>1 DEF Threads, Range
<1>3. Len(ThreadOrder) >= 1
  BY <1>1, SdkSessionAssumption
<1>4. \A i \in 1 .. Len(ThreadOrder) : ThreadOrder[i] \in Threads
  BY <1>1 DEF Threads, Range
<1> QED
  BY <1>1, <1>2, <1>3, <1>4, SdkSessionAssumption

\* The plan depends on nothing but the mode.
LEMMA PlanStays ==
  ASSUME view' = view
  PROVE  Plan' = Plan
BY DEF Plan

-----------------------------------------------------------------------------
(***************************************************************************)
(* Types.                                                                  *)
(***************************************************************************)
\* What a step of the caller of Init and Uninit, with no task to post, does to the shapes.
LEMMA AppMoves ==
  ASSUME Shape, NEW place \in Places \ {"threads", "sockets", "remove"}, NEW n \in Nat,
         app' = App(place, n),
         place # "idle" => Equipped,
         UNCHANGED <<loop, sessions>>
  PROVE  AppShape' /\ LoopShape'
<1>1. app' = [at |-> place, n |-> n, wake |-> "none", left |-> {}]
  BY DEF App
<1>2. app'.at = place /\ app'.left = {}
  BY <1>1
<1>3. place # "idle" => sessions > 0
  BY DEF Equipped, Shape, AppShape
<1>4. AppShape'
  BY <1>1, <1>2, <1>3 DEF AppShape, Places
<1>5. LoopShape'
  BY <1>2 DEF Shape, LoopShape, Equipped
<1> QED
  BY <1>4, <1>5

\* A loop whose record is replaced by one that runs keeps the shapes.
LEMMA LoopMoves ==
  ASSUME Shape, NEW t \in Threads, NEW r \in Running,
         r.at = "run" => r.batch # <<>>,
         loop' = [loop EXCEPT ![t] = r],
         UNCHANGED <<app, view, detection, vec, sessions>>
  PROVE  AppShape' /\ LoopShape'
<1>1. loop' \in [Threads -> Running \cup {NoLoop, Broken}] /\ loop'[t] = r
      /\ \A u \in Threads \ {t} : loop'[u] = loop[u]
  BY DEF Shape, LoopShape
<1>2. AppShape'
  BY PlanStays DEF Shape, AppShape, ToRemove, Listed
<1>3. Equipped' = Equipped
  BY DEF Equipped
<1>4. LoopShape'
  <2>1. \A u \in Threads : loop'[u].at = "run" => loop'[u].batch # <<>>
    BY <1>1 DEF Shape, LoopShape
  <2>2. \A u \in Threads : loop[u] \in Running => loop'[u] \in Running
    BY <1>1
  <2>3. app.at = "threads" => \A i \in 1 .. app.n - 1 : ThreadOrder[i] \in Threads
    BY OrderFacts DEF Shape, AppShape
  <2> QED
    BY <1>1, <1>3, <2>1, <2>2, <2>3 DEF Shape, LoopShape
<1> QED
  BY <1>2, <1>4

\* The shapes after a task was posted.
LEMMA PostMoves ==
  ASSUME Shape, Equipped, NEW op \in {"add", "remove"}, NEW s \in Socket, NEW next,
         next \in [at : Places \ {"idle", "threads"}, n : Nat, wake : {"none"},
                   left : SUBSET Socket],
         Post(op, s, next), sessions' = sessions,
         next.at = "sockets" => next.n \in 1 .. Len(Plan),
         next.left \subseteq ToRemove',
         next.at # "remove" => next.left = {},
         view' = view
  PROVE  /\ AppShape' /\ LoopShape' /\ Equipped'
         /\ loop' = Pushed(ThreadOf[s.key], Task(op, s))
         /\ ThreadOf[s.key] \in Threads /\ loop[ThreadOf[s.key]] \in Running
         /\ Task(op, s) \in Tasks
         /\ app'.at = next.at /\ app'.n = next.n /\ app'.left = next.left
         /\ app'.wake = ThreadOf[s.key]
<1> DEFINE t == ThreadOf[s.key]
<1>1. t \in Threads /\ Task(op, s) \in Tasks
  BY SdkSessionAssumption DEF Socket, Task, Tasks
<1>2. loop[t] \in Running
  BY <1>1 DEF Shape, LoopShape
<1>3. loop' = Pushed(t, Task(op, s)) /\ app' = [next EXCEPT !.wake = t]
  BY DEF Post
<1>4. /\ loop' \in [Threads -> Running \cup {NoLoop, Broken}]
      /\ loop'[t] \in Running /\ loop'[t].at = loop[t].at /\ loop'[t].batch = loop[t].batch
      /\ \A u \in Threads \ {t} : loop'[u] = loop[u]
  BY <1>1, <1>2, <1>3, PushedFacts DEF Shape, LoopShape
<1>5. /\ app'.at = next.at /\ app'.n = next.n /\ app'.left = next.left /\ app'.wake = t
      /\ app' \in [at : Places, n : Nat, wake : Threads \cup {"none"}, left : SUBSET Socket]
  BY <1>1, <1>3
<1> HIDE DEF t
<1>6. app'.at \in Places \ {"idle", "threads"}
  BY <1>5
<1>7. sessions > 0
  BY DEF Equipped, Shape, AppShape
<1>8. AppShape'
  BY <1>5, <1>6, <1>7, PlanStays DEF AppShape
<1>9. LoopShape'
  BY <1>4, <1>6 DEF Shape, LoopShape, Equipped
<1> QED
  BY <1>1, <1>2, <1>3, <1>5, <1>6, <1>8, <1>9 DEF t, Equipped

\* What CreateSocket leaves behind.
LEMMA CreateFacts ==
  ASSUME Shape, Ready("sockets"), NEW k, k = Plan[app.n], CreateSocket(k),
         UNCHANGED <<view, sessions>>
  PROVE  \E s \in Socket :
           /\ s = [key |-> k, session |-> sessions,
                   view |-> FALSE, nr |-> app.n]
           /\ Post("add", s, AfterSocket)
           /\ open' = open \cup {s}
           /\ channel' = IF k \in Unkeyed \cup {"broadcast"} THEN channel
                         ELSE [channel EXCEPT ![k] = s]
           /\ IF Detecting
                THEN detection' = {d \in detection : d.key # k} \cup {s} /\ vec' = vec
                ELSE vec' = vec \cup {s} /\ detection' = detection
           /\ failed' = failed
           /\ AfterSocket \in [at : Places \ {"idle", "threads"}, n : Nat, wake : {"none"},
                               left : SUBSET Socket]
           /\ AfterSocket.left = {} /\ AfterSocket.at \in {"sockets", "detect"}
           /\ AfterSocket.at = "sockets" => AfterSocket.n \in 1 .. Len(Plan)
           /\ AfterSocket.at = "sockets" => AfterSocket.n = app.n + 1
           /\ AfterSocket.at = "detect" => app.n = Len(Plan)
<1>1. app.n \in 1 .. Len(Plan) /\ app.at = "sockets" /\ sessions > 0
  BY DEF Shape, AppShape, Ready
<1>2. /\ Plan \in Seq(Keys) /\ Len(Plan) \in Nat
      /\ Len(Plan) <= Len(DetectionKeys) + Len(Wanted)
  BY PlanType DEF Shape, DataShape
<1>3. k \in Keys
  BY <1>1, <1>2
<1>4. /\ sessions \in 1 .. MaxSessions
      /\ app.n \in 1 .. Len(DetectionKeys) + Len(Wanted) + MaxGrown
  <2>1. Len(DetectionKeys) \in Nat /\ Len(Wanted) \in Nat
    BY SdkSessionAssumption, LenProperties DEF DetectionKeys
  <2> QED
    BY <1>1, <1>2, <2>1, SdkSessionAssumption DEF Shape, DataShape
<1>5. PICK s \in Socket :
        s = [key |-> k, session |-> sessions, view |-> FALSE, nr |-> app.n]
  BY <1>3, <1>4 DEF Socket
<1>6. CASE app.n = Len(Plan)
  <2>1. AfterSocket = [at |-> "detect", n |-> 0, wake |-> "none", left |-> {}]
    BY <1>6 DEF AfterSocket, App
  <2> QED
    BY <1>5, <1>6, <2>1 DEF CreateSocket, Places
<1>7. CASE app.n # Len(Plan)
  <2>1. AfterSocket = [at |-> "sockets", n |-> app.n + 1, wake |-> "none", left |-> {}]
    BY <1>7 DEF AfterSocket, App
  <2>2. app.n + 1 \in 1 .. Len(Plan) /\ app.n + 1 \in Nat
    BY <1>1, <1>2, <1>7
  <2> QED
    BY <1>5, <2>1, <2>2 DEF CreateSocket, Places
<1> QED
  BY <1>6, <1>7

\* The same for RemoveSocket.
LEMMA RemoveFacts ==
  ASSUME Shape, RemoveSocket
  PROVE  \E s \in app.left : \E next :
           /\ s \in Socket /\ s \in ToRemove
           /\ Post("remove", s, next)
           /\ next \in [at : Places \ {"idle", "threads"}, n : Nat, wake : {"none"},
                        left : SUBSET Socket]
           /\ next.at = "remove" /\ next.left = app.left \ {s}
<1>1. PICK s \in app.left : Post("remove", s, [app EXCEPT !.left = @ \ {s}])
  BY DEF RemoveSocket
<1>2. app.at = "remove" /\ app.wake = "none"
  BY DEF RemoveSocket, Ready
<1>3. /\ [app EXCEPT !.left = @ \ {s}] \in [at : Places \ {"idle", "threads"}, n : Nat,
                                            wake : {"none"}, left : SUBSET Socket]
      /\ [app EXCEPT !.left = @ \ {s}].at = "remove"
      /\ [app EXCEPT !.left = @ \ {s}].left = app.left \ {s}
  BY <1>2 DEF Shape, AppShape, Places
<1>4. s \in Socket /\ s \in ToRemove
  BY DEF Shape, AppShape
<1> QED
  BY <1>1, <1>3, <1>4

\* What a thread does to its own loop.
LoopGoes(t, r) ==
  /\ loop' = [loop EXCEPT ![t] = r]
  /\ UNCHANGED <<Others, detector>>

LEMMA PollFacts ==
  ASSUME Shape, NEW t \in Threads, Poll(t)
  PROVE  \E r \in Running :
           /\ LoopGoes(t, r)
           /\ loop[t] \in Running /\ loop[t].at = "poll" /\ r.at = "swap"
           /\ r.pending = loop[t].pending /\ r.batch = loop[t].batch /\ r.fds = loop[t].fds
<1>1. loop[t] \in Running
  BY NotRunning DEF Poll, Shape, LoopShape
<1>2. PICK q \in Running : q = loop[t]
  BY <1>1
<1>3. LoopGoes(t, [q EXCEPT !.at = "swap", !.pipe = FALSE])
  BY <1>2 DEF Poll, LoopGoes, Shape, LoopShape
<1>4. /\ [q EXCEPT !.at = "swap", !.pipe = FALSE] \in Running
      /\ [q EXCEPT !.at = "swap", !.pipe = FALSE].at = "swap"
      /\ [q EXCEPT !.at = "swap", !.pipe = FALSE].pending = q.pending
      /\ [q EXCEPT !.at = "swap", !.pipe = FALSE].batch = q.batch
      /\ [q EXCEPT !.at = "swap", !.pipe = FALSE].fds = q.fds
  BY DEF Running
<1>5. loop[t].at = "poll"
  BY DEF Poll
<1> QED
  BY <1>2, <1>3, <1>4, <1>5

LEMMA TakeFacts ==
  ASSUME Shape, NEW t \in Threads, TakeTasks(t)
  PROVE  \E r \in Running :
           /\ LoopGoes(t, r)
           /\ loop[t] \in Running /\ loop[t].at = "swap" /\ r.at \in {"poll", "run"}
           /\ r.at = "run" <=> r.batch # <<>>
           /\ r.pending = <<>> /\ r.batch = loop[t].pending /\ r.fds = loop[t].fds
<1>1. loop[t] \in Running
  BY NotRunning DEF TakeTasks, Shape, LoopShape
<1>2. PICK q \in Running : q = loop[t]
  BY <1>1
<1> DEFINE next == IF q.pending = <<>> THEN "poll" ELSE "run"
           r == [q EXCEPT !.at = next, !.batch = q.pending, !.pending = <<>>]
<1>3. LoopGoes(t, r)
  BY <1>2 DEF TakeTasks, LoopGoes, Shape, LoopShape
<1>4. <<>> \in Seq(Tasks) /\ next \in {"poll", "run"} /\ (next = "run" <=> q.pending # <<>>)
  OBVIOUS
<1> HIDE DEF next
<1>5. /\ r \in Running /\ r.at = next /\ r.pending = <<>> /\ r.batch = q.pending
      /\ r.fds = q.fds
  BY <1>4 DEF Running
<1>6. loop[t].at = "swap"
  BY DEF TakeTasks
<1> QED
  BY <1>2, <1>3, <1>4, <1>5, <1>6

LEMMA RunFacts ==
  ASSUME Shape, NEW t \in Threads, RunTask(t)
  PROVE  \E r \in Running :
           /\ LoopGoes(t, r)
           /\ loop[t] \in Running /\ loop[t].at = "run" /\ r.at \in {"poll", "run"}
           /\ r.at = "run" => r.batch # <<>>
           /\ loop[t].batch \in Seq(Tasks) /\ loop[t].batch # <<>>
           /\ r.pending = loop[t].pending /\ r.batch = Tail(loop[t].batch)
           /\ r.pipe = loop[t].pipe
           /\ r.fds = Ran(Head(loop[t].batch), loop[t].fds)
           /\ r.at # "run" => r.batch = <<>>
<1>1. loop[t] \in Running
  BY NotRunning DEF RunTask, Shape, LoopShape
<1>2. PICK q \in Running : q = loop[t]
  BY <1>1
<1> DEFINE next == IF Len(q.batch) = 1 THEN "poll" ELSE "run"
           fds == Ran(Head(q.batch), q.fds)
           r == [q EXCEPT !.at = next, !.batch = Tail(q.batch), !.fds = fds]
<1>3. LoopGoes(t, r)
  BY <1>2 DEF RunTask, LoopGoes, Shape, LoopShape
<1>4. q.batch \in Seq(Tasks) /\ q.batch # <<>> /\ q.fds \in SUBSET Socket /\ q.at = "run"
  BY <1>2 DEF RunTask, Shape, LoopShape, Running
<1>5. /\ Head(q.batch) \in Tasks /\ Tail(q.batch) \in Seq(Tasks)
      /\ Len(Tail(q.batch)) = Len(q.batch) - 1
  BY <1>4, HeadTailProperties
<1>6. fds \in SUBSET Socket
  BY <1>4, <1>5 DEF Ran, Tasks
<1>7. next \in {"poll", "run"} /\ (next = "run" => Tail(q.batch) # <<>>)
  <2>1. Len(q.batch) \in Nat /\ Len(q.batch) # 0
    BY <1>4, LenProperties, EmptySeq
  <2>2. Len(<<>>) = 0
    OBVIOUS
  <2>3. ASSUME Tail(q.batch) = <<>>
        PROVE  Len(q.batch) = 1
    <3>1. Len(Tail(q.batch)) = 0
      BY <2>2, <2>3, Zenon
    <3> QED
      BY <1>5, <2>1, <3>1
  <2> QED
    BY <2>3
<1>9. next # "run" => Tail(q.batch) = <<>>
  <2> SUFFICES ASSUME Len(q.batch) = 1
               PROVE  Tail(q.batch) = <<>>
    OBVIOUS
  <2>1. Len(Tail(q.batch)) = 0
    BY <1>5
  <2> QED
    BY <1>5, <2>1, EmptySeq
<1> HIDE DEF next, fds
<1>8. /\ r \in Running /\ r.at = next /\ r.pending = q.pending /\ r.batch = Tail(q.batch)
      /\ r.fds = fds /\ r.pipe = q.pipe
  BY <1>5, <1>6, <1>7 DEF Running
<1> QED
  BY <1>2, <1>3, <1>4, <1>7, <1>8, <1>9 DEF fds

\* Writing to the pipe of a loop changes nothing else of it.
LEMMA WokenFacts ==
  ASSUME Shape, NEW t \in Threads, loop' = Woken(t)
  PROVE  /\ loop' \in [Threads -> Running \cup {NoLoop, Broken}]
         /\ \A u \in Threads \ {t} : loop'[u] = loop[u]
         /\ loop[t] \notin Running => loop'[t] \notin Running
         /\ loop[t] \in Running =>
              /\ loop'[t] \in Running
              /\ loop'[t].at = loop[t].at
              /\ loop'[t].pending = loop[t].pending
              /\ loop'[t].batch = loop[t].batch
              /\ loop'[t].fds = loop[t].fds
              /\ loop'[t].pipe = TRUE
<1>2. loop' = [loop EXCEPT ![t] = [loop[t] EXCEPT !.pipe = TRUE]]
  BY DEF Woken
<1>3. loop[t] \in Running \cup {NoLoop, Broken}
  BY DEF Shape, LoopShape
<1>4. \A r \in Running : /\ [r EXCEPT !.pipe = TRUE] \in Running
                         /\ [r EXCEPT !.pipe = TRUE].at = r.at
                         /\ [r EXCEPT !.pipe = TRUE].pending = r.pending
                         /\ [r EXCEPT !.pipe = TRUE].batch = r.batch
                         /\ [r EXCEPT !.pipe = TRUE].fds = r.fds
                         /\ [r EXCEPT !.pipe = TRUE].pipe = TRUE
  BY DEF Running
<1>5. /\ [NoLoop EXCEPT !.pipe = TRUE] = NoLoop
      /\ [Broken EXCEPT !.pipe = TRUE] = Broken
  BY DEF NoLoop, Broken
<1>6. loop' = [loop EXCEPT ![t] = loop'[t]] /\ loop'[t] = [loop[t] EXCEPT !.pipe = TRUE]
  BY <1>2 DEF Shape, LoopShape
<1>7. loop'[t] \in Running \cup {NoLoop, Broken}
  BY <1>3, <1>4, <1>5, <1>6
<1>8. /\ loop' \in [Threads -> Running \cup {NoLoop, Broken}]
      /\ \A u \in Threads \ {t} : loop'[u] = loop[u]
  BY <1>6, <1>7 DEF Shape, LoopShape
<1>9. loop[t] \notin Running => loop'[t] \notin Running
  BY <1>3, <1>5, <1>6
<1>10. loop[t] \in Running =>
         /\ loop'[t] \in Running
         /\ loop'[t].at = loop[t].at /\ loop'[t].pending = loop[t].pending
         /\ loop'[t].batch = loop[t].batch /\ loop'[t].fds = loop[t].fds
         /\ loop'[t].pipe = TRUE
  BY <1>4, <1>6
<1> QED
  BY <1>8, <1>9, <1>10

LEMMA WakeFacts ==
  ASSUME Shape, WakeUp
  PROVE  /\ app.at # "idle" => sessions > 0
         /\ app' = [app EXCEPT !.wake = "none"]
         /\ app'.at = app.at /\ app'.n = app.n /\ app'.left = app.left /\ app'.wake = "none"
         /\ app.wake \in Threads /\ loop' = Woken(app.wake)
BY DEF WakeUp, Shape, AppShape

\* The steps of the callback: what it opens, ...
LEMMA OpenFacts ==
  ASSUME Shape, OpenChannel
  PROVE  /\ call.busy /\ call.socket = NoSocket /\ call.wake = "none"
         /\ UNCHANGED <<app, port, portView, loop, view, detection, stop, detector, sessions,
                        failed>>
         /\ call' \in Call /\ call'.busy /\ call'.wake = "none" /\ alive' \in BOOLEAN
         /\ \/ \E s \in Socket :
                 /\ call'.socket = s
                 /\ open' = open \cup {s} /\ vec' = vec \cup {s}
                 /\ \/ channel' = channel
                    \/ channel[s.key] = NoSocket /\ channel' = [channel EXCEPT ![s.key] = s]
                 /\ stray' = IF app.at \in {"reset", "up"} THEN stray ELSE stray \cup {s}
                 /\ grown' \in 0 .. MaxGrown
            \/ call'.socket = NoSocket /\ UNCHANGED <<grown, open, vec, channel, stray>>
<1>1. /\ call.busy /\ call.socket = NoSocket /\ call.wake = "none" /\ alive
      /\ call.keys # <<>> /\ call \in Call
      /\ UNCHANGED <<app, port, portView, loop, view, detection, stop, detector, sessions,
                     failed>>
  BY DEF OpenChannel, Calls, Shape, CallShape
<1>2. PICK c \in Call : c = call
  BY <1>1
<1>3. c.keys \in Seq(Keys) /\ Head(c.keys) \in Keys /\ Tail(c.keys) \in Seq(Keys)
  BY <1>1, <1>2, HeadTailProperties DEF Call
<1> DEFINE k == Head(call.keys)
           needed == k \in Unkeyed \/ channel[k] = NoSocket
<1>4. CASE /\ needed
           /\ OpenSocket(k)
           /\ alive' \in IF app.at \in {"remove", "clear"} THEN BOOLEAN ELSE {TRUE}
  <2> DEFINE s == [key |-> k, session |-> sessions, view |-> call.view,
                   nr |-> Len(DetectionKeys) + Len(Wanted) + grown + 1]
  <2>1. sessions \in 1 .. MaxSessions
    BY <1>1, SdkSessionAssumption DEF Shape, CallShape, DataShape
  <2>2. /\ grown + 1 \in 0 .. MaxGrown
        /\ Len(DetectionKeys) + Len(Wanted) + grown + 1
              \in 1 .. Len(DetectionKeys) + Len(Wanted) + MaxGrown
    <3>1. Len(DetectionKeys) \in Nat /\ Len(Wanted) \in Nat
      BY SdkSessionAssumption, LenProperties DEF DetectionKeys
    <3>2. grown \in 0 .. MaxGrown /\ grown < MaxGrown /\ MaxGrown \in Nat
      BY <1>4, SdkSessionAssumption DEF OpenSocket, Shape, CallShape
    <3> QED
      BY <3>1, <3>2
  <2>3. s \in Socket /\ s.key = k
    BY <1>2, <1>3, <2>1, <2>2 DEF Socket, Call
  <2>4. call' = [c EXCEPT !.keys = Tail(@), !.socket = s] /\ grown' = grown + 1
    BY <1>2, <1>4 DEF OpenSocket
  <2>5. /\ open' = open \cup {s} /\ vec' = vec \cup {s}
        /\ channel' = IF k \in Unkeyed THEN channel ELSE [channel EXCEPT ![k] = s]
        /\ stray' = IF app.at \in {"reset", "up"} THEN stray ELSE stray \cup {s}
    BY <1>4 DEF OpenSocket
  <2> HIDE DEF s
  <2>6. call' \in Call /\ call'.busy /\ call'.wake = "none" /\ call'.socket = s
    BY <1>1, <1>2, <1>3, <2>3, <2>4 DEF Call
  <2>7. channel' = channel \/ (channel[s.key] = NoSocket /\ channel' = [channel EXCEPT ![s.key] = s])
    BY <1>4, <2>3, <2>5
  <2> QED
    BY <1>1, <1>4, <2>2, <2>3, <2>4, <2>5, <2>6, <2>7
<1>5. CASE /\ call' = [call EXCEPT !.keys = IF needed THEN <<>> ELSE Tail(@)]
           /\ UNCHANGED <<grown, open, vec, channel, stray, alive>>
  <2>1. /\ \/ call' = [c EXCEPT !.keys = <<>>]
           \/ call' = [c EXCEPT !.keys = Tail(@)]
        /\ <<>> \in Seq(Keys)
    <3>1. CASE needed
      BY <1>2, <1>5, <3>1
    <3>2. CASE ~needed
      BY <1>2, <1>5, <3>2
    <3> QED
      BY <3>1, <3>2
  <2>2. call' \in Call /\ call'.busy /\ call'.wake = "none" /\ call'.socket = NoSocket
    <3>1. CASE call' = [c EXCEPT !.keys = <<>>]
      BY <1>1, <1>2, <2>1, <3>1 DEF Call
    <3>2. CASE call' = [c EXCEPT !.keys = Tail(@)]
      BY <1>1, <1>2, <1>3, <3>2 DEF Call
    <3> QED
      BY <2>1, <3>1, <3>2
  <2> QED
    BY <1>1, <1>5, <2>2
<1> QED
  BY <1>4, <1>5 DEF OpenChannel

\* ... hands over, ...
LEMMA HandFacts ==
  ASSUME Shape, HandOver
  PROVE  \E t \in Threads, s \in Socket :
           /\ s = call.socket /\ t = ThreadOf[s.key] /\ call.busy
           /\ loop[t] \in Running /\ Task("add", s) \in Tasks
           /\ loop' = Pushed(t, Task("add", s))
           /\ call' \in Call /\ call'.busy /\ call'.socket = NoSocket /\ call'.wake = t
           /\ call.wake = "none" /\ alive
           /\ UNCHANGED <<app, port, portView, open, manager, stop, detector, alive, sessions,
                          failed, grown, stray>>
<1>1. /\ call \in Call /\ call.socket # NoSocket /\ call.busy /\ call.wake = "none" /\ alive
      /\ \A t \in Threads : loop[t] \in Running
  BY DEF HandOver, Shape, CallShape
<1>2. PICK s \in Socket : s = call.socket
  BY <1>1 DEF Call
<1>3. PICK t \in Threads : t = ThreadOf[s.key]
  BY SdkSessionAssumption DEF Socket
<1>4. Task("add", s) \in Tasks
  BY DEF Task, Tasks
<1>5. call' = [call EXCEPT !.socket = NoSocket, !.wake = t]
  BY <1>2, <1>3 DEF HandOver
<1>6. call' \in Call /\ call'.busy /\ call'.socket = NoSocket /\ call'.wake = t
  BY <1>1, <1>3, <1>5 DEF Call
<1> QED
  BY <1>1, <1>2, <1>3, <1>4, <1>6 DEF HandOver

\* ... wakes, ...
LEMMA CallWakesFacts ==
  ASSUME Shape, CallWakes
  PROVE  /\ call.wake \in Threads /\ call.busy /\ call.socket = NoSocket
         /\ loop' = Woken(call.wake)
         /\ call' \in Call /\ call'.busy /\ call'.socket = NoSocket /\ call'.wake = "none"
         /\ UNCHANGED <<app, port, portView, open, manager, stop, detector, alive, sessions,
                        failed, grown, stray>>
<1>1. call \in Call /\ call.wake # "none" /\ call.busy /\ call.socket = NoSocket
  BY DEF CallWakes, Shape, CallShape
<1>2. call' = [call EXCEPT !.wake = "none"]
  BY DEF CallWakes
<1>3. call' \in Call /\ call'.busy /\ call'.socket = NoSocket /\ call'.wake = "none"
  BY <1>1, <1>2 DEF Call
<1>4. call.wake \in Threads
  BY <1>1 DEF Call
<1> QED
  BY <1>1, <1>3, <1>4 DEF CallWakes

\* ... begins and ends.
LEMMA AnswerFacts ==
  ASSUME Shape, Answer \/ AnswerEnds
  PROVE  /\ UNCHANGED <<app, port, portView, loop, open, manager, stop, detector, sessions,
                        failed, grown, stray>>
         /\ call' \in Call /\ call'.socket = NoSocket /\ call'.wake = "none"
         /\ call.socket = NoSocket /\ call.wake = "none" /\ alive' \in BOOLEAN
         /\ call'.busy => detector # "none"
<1>1. CASE Answer
  <2>1. PICK keys \in Asked[view] :
          call' = [NoCall EXCEPT !.busy = TRUE, !.view = view, !.keys = keys]
    BY <1>1 DEF Answer
  <2>2. keys \in Seq(Keys) /\ view \in BOOLEAN
    BY SdkSessionAssumption DEF Shape, DataShape
  <2>3. call' \in Call /\ call'.socket = NoSocket /\ call'.wake = "none"
    BY <2>1, <2>2 DEF NoCall, Call
  <2> QED
    BY <1>1, <2>3 DEF Answer, Shape, CallShape, DataShape
<1>2. CASE AnswerEnds
  <2>1. call' = NoCall /\ NoCall \in Call /\ ~NoCall.busy
        /\ NoCall.socket = NoSocket /\ NoCall.wake = "none"
    BY <1>2, EmptySeq DEF AnswerEnds, NoCall, Call
  <2> QED
    BY <1>2, <2>1 DEF AnswerEnds, Calls
<1> QED
  BY <1>1, <1>2

\* What a step that is not of the callback has to keep for it.
LEMMA CallStays ==
  ASSUME Shape, UNCHANGED answers, sessions' \in Nat, sessions' >= sessions,
         call.busy =>
           /\ \A t \in Threads : loop'[t] \in Running
           /\ app'.at \notin {"sockets", "detect"}
           /\ app'.at = "threads" => app'.n = 1,
         call.busy /\ app'.at \notin {"reset", "up"} => app.at \notin {"reset", "up"},
         detector' # "none" => app'.at \in {"reset", "up", "remove", "stop", "join"}
  PROVE  CallShape'
<1>1. UNCHANGED <<call, grown, stray>>
  BY DEF answers
<1>2. call.busy => sessions > 0 /\ sessions \in Nat
  BY SdkSessionAssumption DEF Shape, CallShape, DataShape
<1>3. call.socket # NoSocket => call.busy
  BY DEF Shape, CallShape
<1> QED
  BY <1>1, <1>2, <1>3 DEF Shape, CallShape

\* What CreateIOThread does, by its two outcomes.
LEMMA ThreadFacts ==
  ASSUME Shape, CreateIOThread
  PROVE  \E t \in Threads :
           /\ t = ThreadOrder[app.n] /\ app.n \in 1 .. Len(ThreadOrder)
           /\ app.at = "threads" /\ app.wake = "none" /\ alive' \in BOOLEAN /\ ~call.busy
           /\ UNCHANGED <<port, portView, open, view, vec, detection, channel, stop, detector,
                          sessions>>
           /\ \/ /\ loop' = [loop EXCEPT ![t] = NewLoop]
                 /\ app' = IF app.n = Len(ThreadOrder) THEN App("sockets", 1)
                           ELSE App("threads", app.n + 1)
                 /\ failed' = failed
              \/ loop' = [loop EXCEPT ![t] = Broken] /\ InitFails
<1>1. app.n \in 1 .. Len(ThreadOrder) /\ app.at = "threads" /\ app.wake = "none"
  BY DEF CreateIOThread, Ready, Shape, AppShape
<1>2. ThreadOrder[app.n] \in Threads
  BY <1>1, OrderFacts
<1>3. ~call.busy
  <2>1. call.busy => app.n = 1
    BY <1>1 DEF Shape, CallShape
  <2>2. ThreadOrder[app.n] = "detection" => ~call.busy
    BY DEF CreateIOThread
  <2> QED
    BY <2>1, <2>2, OrderFacts
<1> QED
  BY <1>1, <1>2, <1>3 DEF CreateIOThread, Broken, manager

\* What can happen: every kind of step, with what it leaves alone.
LEMMA ShapeInductive ==
  ASSUME Shape, [Next]_vars
  PROVE  Shape'
<1> USE DEF Shape
<1>0. sessions \in Nat /\ (detector # "none" =>
         app.at \in {"reset", "up", "remove", "stop", "join"})
  BY SdkSessionAssumption DEF DataShape, CallShape
<1>1. ASSUME NEW isView \in BOOLEAN, InitBegin(isView)
      PROVE  Shape'
  <2>1. app' = [at |-> "threads", n |-> 1, wake |-> "none", left |-> {}]
    BY <1>1 DEF InitBegin, App
  <2>2. sessions' = sessions + 1 /\ sessions' \in 0 .. MaxSessions /\ sessions' > 0
    BY <1>1, SdkSessionAssumption DEF InitBegin, DataShape
  <2>3. AppShape'
    BY <2>1, <2>2, OrderFacts DEF AppShape, Places
  <2>4. LoopShape'
    BY <1>1, <2>1 DEF InitBegin, LoopShape, Equipped
  <2>5. failed' \subseteq 1 .. sessions'
    BY <1>1, <2>2 DEF InitBegin, DataShape
  <2>6. DataShape'
    BY <1>1, <2>2, <2>5 DEF InitBegin, DataShape
  <2>7. CallShape'
    <3>1. app.at = "idle" /\ detector' = "none" /\ UNCHANGED <<loop, answers>>
      BY <1>0, <1>1 DEF InitBegin, Ready
    <3>2. call.busy => \A t \in Threads : loop'[t] \in Running
      BY <3>1 DEF CallShape
    <3> QED
      BY <1>0, <2>1, <2>2, <3>1, <3>2, CallStays
  <2> QED
    BY <2>3, <2>4, <2>6, <2>7
<1>2. ASSUME WakeUp, UNCHANGED answers
      PROVE  Shape'
  <2>0. /\ app.at # "idle" => sessions > 0
        /\ app' = [app EXCEPT !.wake = "none"]
        /\ app'.at = app.at /\ app'.n = app.n /\ app'.left = app.left /\ app'.wake = "none"
        /\ app.wake \in Threads
        /\ loop' \in [Threads -> Running \cup {NoLoop, Broken}]
        /\ \A u \in Threads \ {app.wake} : loop'[u] = loop[u]
        /\ loop[app.wake] \notin Running => loop'[app.wake] \notin Running
        /\ loop[app.wake] \in Running =>
              /\ loop'[app.wake] \in Running
              /\ loop'[app.wake].at = loop[app.wake].at
              /\ loop'[app.wake].batch = loop[app.wake].batch
    BY <1>2, WakeFacts, WokenFacts
  <2>1. AppShape'
    BY <1>2, <2>0, PlanStays DEF WakeUp, AppShape, manager, ToRemove, Listed
  <2>2. Equipped' = Equipped
    BY <2>0 DEF Equipped
  <2>3. \A u \in Threads : loop'[u].at = "run" => loop'[u].batch # <<>>
    <3> SUFFICES ASSUME NEW u \in Threads, loop'[u].at = "run"
                 PROVE  loop'[u].batch # <<>>
      OBVIOUS
    <3>1. loop'[u] \in Running
      BY <2>0, NotRunning
    <3>2. CASE u = app.wake
      <4>1. loop[u] \in Running /\ loop[u].at = "run" /\ loop'[u].batch = loop[u].batch
        BY <2>0, <3>1, <3>2
      <4> QED
        BY <4>1 DEF LoopShape
    <3>3. CASE u # app.wake
      BY <2>0, <3>3 DEF LoopShape
    <3> QED
      BY <3>2, <3>3
  <2>4. \A u \in Threads : loop[u] \in Running => loop'[u] \in Running
    BY <2>0
  <2>5. app.at = "threads" => \A i \in 1 .. app.n - 1 : ThreadOrder[i] \in Threads
    BY OrderFacts DEF AppShape
  <2>6. LoopShape'
    <3>1. /\ app'.at = app.at /\ app'.n = app.n
          /\ loop' \in [Threads -> Running \cup {NoLoop, Broken}]
      BY <2>0
    <3>2. Equipped' => \A t \in Threads : loop'[t] \in Running
      BY <2>2, <2>4 DEF LoopShape
    <3>3. app'.at = "threads" => \A i \in 1 .. app'.n - 1 : loop'[ThreadOrder[i]] \in Running
      BY <2>4, <2>5, <3>1 DEF LoopShape
    <3> QED
      BY <2>3, <3>1, <3>2, <3>3 DEF LoopShape
  <2>7. DataShape'
    BY <1>2 DEF WakeUp, DataShape, manager
  <2>8. CallShape'
    <3>1. call.busy => \A t \in Threads : loop'[t] \in Running
      BY <2>4 DEF CallShape
    <3>2. UNCHANGED <<sessions, detector>>
      BY <1>2 DEF WakeUp
    <3> QED
      BY <1>0, <1>2, <2>0, <3>1, <3>2, CallStays DEF CallShape
  <2> QED
    BY <2>1, <2>6, <2>7, <2>8
<1>3. ASSUME CreateIOThread, UNCHANGED answers
      PROVE  Shape'
  <2>1. PICK t \in Threads :
           /\ t = ThreadOrder[app.n] /\ app.n \in 1 .. Len(ThreadOrder)
           /\ app.at = "threads" /\ app.wake = "none" /\ alive' \in BOOLEAN /\ ~call.busy
           /\ UNCHANGED <<port, portView, open, view, vec, detection, channel, stop, detector,
                          sessions>>
           /\ \/ /\ loop' = [loop EXCEPT ![t] = NewLoop]
                 /\ app' = IF app.n = Len(ThreadOrder) THEN App("sockets", 1)
                           ELSE App("threads", app.n + 1)
                 /\ failed' = failed
              \/ loop' = [loop EXCEPT ![t] = Broken] /\ InitFails
    BY <1>3, ThreadFacts
  <2>2. sessions > 0 /\ sessions \in 0 .. MaxSessions
    BY <2>1 DEF AppShape, DataShape
  <2>5. CallShape'
    BY <1>0, <1>3, <2>1, CallStays
  <2>3. CASE /\ loop' = [loop EXCEPT ![t] = NewLoop]
             /\ app' = IF app.n = Len(ThreadOrder) THEN App("sockets", 1)
                       ELSE App("threads", app.n + 1)
             /\ failed' = failed
    <3>1. /\ loop' \in [Threads -> Running \cup {NoLoop, Broken}]
          /\ loop'[t] \in Running /\ loop'[t].at = "poll"
          /\ \A u \in Threads \ {t} : loop'[u] = loop[u]
      BY <2>3, NewLoopRuns DEF LoopShape
    <3>2. \A i \in 1 .. app.n : loop'[ThreadOrder[i]] \in Running
      BY <2>1, <3>1, OrderFacts, SMTT(20) DEF LoopShape
    <3>3. \A u \in Threads : loop'[u].at = "run" => loop'[u].batch # <<>>
      BY <3>1 DEF LoopShape
    <3>4. DataShape'
      BY <2>1, <2>3 DEF DataShape
    <3>5. Plan' = Plan /\ Len(Plan) >= 2 /\ Len(Plan) \in Nat
      BY <2>1, PlanStays, PlanType DEF DataShape
    <3>6. CASE app.n = Len(ThreadOrder)
      <4>1. app' = [at |-> "sockets", n |-> 1, wake |-> "none", left |-> {}]
        BY <2>3, <3>6 DEF App
      <4>2. AppShape'
        BY <2>1, <2>2, <3>5, <4>1 DEF AppShape, Places
      <4>3. \A u \in Threads : loop'[u] \in Running
        BY <3>2, <3>6, OrderFacts
      <4>4. LoopShape'
        BY <3>1, <3>3, <4>1, <4>3 DEF LoopShape
      <4> QED
        BY <2>5, <3>4, <4>2, <4>4
    <3>7. CASE app.n # Len(ThreadOrder)
      <4>1. app' = [at |-> "threads", n |-> app.n + 1, wake |-> "none", left |-> {}]
        BY <2>3, <3>7 DEF App
      <4>2. app.n + 1 \in 1 .. Len(ThreadOrder) /\ app.n + 1 \in Nat
        BY <2>1, <3>7, OrderFacts
      <4>3. AppShape'
        BY <2>1, <2>2, <4>1, <4>2 DEF AppShape, Places
      <4>4. \A i \in 1 .. app'.n - 1 : i \in 1 .. app.n
        BY <2>1, <4>1
      <4>5. LoopShape'
        BY <3>1, <3>2, <3>3, <4>1, <4>4 DEF LoopShape, Equipped
      <4> QED
        BY <2>5, <3>4, <4>3, <4>5
    <3> QED
      BY <3>6, <3>7
  <2>4. CASE loop' = [loop EXCEPT ![t] = Broken] /\ InitFails
    <3>1. app' = [at |-> "idle", n |-> 0, wake |-> "none", left |-> {}]
      BY <2>4 DEF InitFails, Idle, App
    <3>2. AppShape'
      BY <3>1 DEF AppShape, Places
    <3>3. /\ loop' \in [Threads -> Running \cup {NoLoop, Broken}]
          /\ loop'[t] = Broken /\ \A u \in Threads \ {t} : loop'[u] = loop[u]
      BY <2>4 DEF LoopShape
    <3>4. LoopShape'
      BY <3>1, <3>3, NotRunning DEF LoopShape, Equipped
    <3>5. DataShape'
      BY <2>1, <2>2, <2>4 DEF DataShape, InitFails
    <3> QED
      BY <2>5, <3>2, <3>4, <3>5
  <2> QED
    BY <2>1, <2>3, <2>4
<1>4. ASSUME CreateChannel, UNCHANGED answers
      PROVE  Shape'
  <2>1. /\ Ready("sockets") /\ app.at = "sockets" /\ Equipped
        /\ sessions \in 1 .. MaxSessions
        /\ UNCHANGED <<port, portView, view, stop, detector, alive, sessions>>
    BY <1>4 DEF CreateChannel, Ready, Equipped, Places, AppShape, DataShape
  <2>5. CallShape'
    BY <1>0, <1>4, <2>1, CallStays DEF CallShape
  <2>2. CASE CreateSocket(Plan[app.n])
    <3>1. PICK s \in Socket :
           /\ s = [key |-> Plan[app.n], session |-> sessions,
                   view |-> FALSE, nr |-> app.n]
           /\ Post("add", s, AfterSocket)
           /\ open' = open \cup {s}
           /\ channel' = IF Plan[app.n] \in Unkeyed \cup {"broadcast"} THEN channel
                         ELSE [channel EXCEPT ![Plan[app.n]] = s]
           /\ IF Detecting
                THEN detection' = {d \in detection : d.key # Plan[app.n]} \cup {s} /\ vec' = vec
                ELSE vec' = vec \cup {s} /\ detection' = detection
           /\ failed' = failed
           /\ AfterSocket \in [at : Places \ {"idle", "threads"}, n : Nat, wake : {"none"},
                               left : SUBSET Socket]
           /\ AfterSocket.left = {} /\ AfterSocket.at \in {"sockets", "detect"}
           /\ AfterSocket.at = "sockets" => AfterSocket.n \in 1 .. Len(Plan)
      BY <2>1, <2>2, CreateFacts
    <3>2. AppShape' /\ LoopShape'
      BY <2>1, <3>1, PostMoves
    <3>3. vec' \subseteq Socket /\ detection' \subseteq Socket /\ open' \subseteq Socket
      BY <3>1 DEF DataShape
    <3>4. channel' \in [Keys -> Socket \cup {NoSocket}]
      BY <3>1 DEF DataShape
    <3>5. DataShape'
      BY <2>1, <3>1, <3>3, <3>4 DEF DataShape
    <3> QED
      BY <2>5, <3>2, <3>5
  <2>3. CASE InitFails /\ UNCHANGED <<open, channel, detection, vec, loop>>
    <3>1. app' = App("idle", 0)
      BY <2>3 DEF InitFails, Idle
    <3>2. AppShape' /\ LoopShape'
      BY <2>1, <2>3, <3>1, AppMoves DEF Places
    <3>3. DataShape'
      BY <2>1, <2>3 DEF InitFails, DataShape
    <3> QED
      BY <2>5, <3>2, <3>3
  <2>4. CASE /\ app' = AfterSocket
             /\ UNCHANGED <<open, channel, detection, vec, loop, failed>>
    <3>1. app.n \in 1 .. Len(Plan) /\ Len(Plan) \in Nat /\ Plan' = Plan
      BY <2>1, PlanType, PlanStays DEF AppShape, DataShape
    <3>2. CASE app.n = Len(Plan)
      <4>1. app' = App("detect", 0)
        BY <2>4, <3>2 DEF AfterSocket
      <4> QED
        BY <2>1, <2>4, <2>5, <4>1, AppMoves DEF Places, DataShape
    <3>3. CASE app.n # Len(Plan)
      <4>1. app' = [at |-> "sockets", n |-> app.n + 1, wake |-> "none", left |-> {}]
        BY <2>4, <3>3 DEF AfterSocket, App
      <4>2. app.n + 1 \in 1 .. Len(Plan) /\ app.n + 1 \in Nat
        BY <3>1, <3>3
      <4>3. AppShape'
        BY <2>1, <3>1, <4>1, <4>2 DEF AppShape, Places
      <4>4. LoopShape'
        BY <2>1, <2>4, <4>1 DEF LoopShape, Equipped
      <4> QED
        BY <2>1, <2>4, <2>5, <4>3, <4>4 DEF DataShape
    <3> QED
      BY <3>2, <3>3
  <2> QED
    BY <1>4, <2>2, <2>3, <2>4 DEF CreateChannel
<1>5. ASSUME RemoveSocket, UNCHANGED answers
      PROVE  Shape'
  <2>1. PICK s \in app.left : \E next :
           /\ s \in Socket /\ s \in ToRemove
           /\ Post("remove", s, next)
           /\ next \in [at : Places \ {"idle", "threads"}, n : Nat, wake : {"none"},
                        left : SUBSET Socket]
           /\ next.at = "remove" /\ next.left = app.left \ {s}
    BY <1>5, RemoveFacts
  <2>2. /\ Equipped /\ ToRemove' = ToRemove /\ app.left \subseteq ToRemove
        /\ UNCHANGED <<view, sessions, detector>> /\ app.at = "remove"
    BY <1>5 DEF RemoveSocket, Ready, Equipped, Places, ToRemove, Listed, AppShape, manager
  <2>3. AppShape' /\ LoopShape' /\ Equipped' /\ app'.at = "remove"
    BY <2>1, <2>2, PostMoves
  <2>4. DataShape'
    BY <1>5 DEF RemoveSocket, DataShape, manager
  <2>5. CallShape'
    <3>1. \A t \in Threads : loop'[t] \in Running
      BY <2>3 DEF LoopShape
    <3> QED
      BY <1>0, <1>5, <2>2, <2>3, <3>1, CallStays
  <2> QED
    BY <2>3, <2>4, <2>5
<1>6. ASSUME Uninit
      PROVE  Shape'
  <2>1. app' = [at |-> "remove", n |-> 0, wake |-> "none", left |-> ToRemove]
    BY <1>6 DEF Uninit, App
  <2>2. app.at = "up" /\ Equipped /\ sessions > 0
    BY <1>6 DEF Uninit, Ready, Equipped, Places, AppShape
  <2>3. ToRemove' = ToRemove /\ ToRemove \subseteq Socket
    BY <1>6 DEF Uninit, ToRemove, Listed, DataShape, manager
  <2>4. AppShape'
    BY <1>6, <2>1, <2>2, <2>3 DEF Uninit, AppShape, Places
  <2>5. LoopShape'
    BY <1>6, <2>1, <2>2 DEF Uninit, LoopShape, Equipped
  <2>6. DataShape'
    BY <1>6 DEF Uninit, DataShape, manager
  <2>7. CallShape'
    <3>1. /\ UNCHANGED <<call, grown, loop, detector, sessions>> /\ call \in Call
          /\ stray' = stray \cup ({call.socket} \ {NoSocket})
      BY <1>6 DEF Uninit, Pending, CallShape
    <3>2. call.socket \in Socket \cup {NoSocket}
      BY <3>1 DEF Call
    <3>3. \A t \in Threads : loop'[t] \in Running
      BY <2>2, <3>1 DEF LoopShape
    <3> QED
      BY <1>0, <2>1, <2>2, <3>1, <3>2, <3>3 DEF CallShape
  <2> QED
    BY <2>4, <2>5, <2>6, <2>7
<1>7. ASSUME \/ StartDetection \/ ResetStop \/ CloseSockets \/ StopDetection
             \/ JoinDetection \/ Clear,
             UNCHANGED answers
      PROVE  Shape'
  <2>1. Equipped
    BY <1>7 DEF StartDetection, ResetStop, CloseSockets, StopDetection, JoinDetection, Clear,
                Ready, Equipped, Places
  <2>2. \E place \in Places \ {"threads", "sockets", "remove"} : app' = App(place, 0)
    BY <1>7 DEF StartDetection, ResetStop, CloseSockets, StopDetection, JoinDetection, Clear,
                Idle, Up, Places
  <2>3. UNCHANGED <<loop, sessions>>
    BY <1>7 DEF StartDetection, ResetStop, CloseSockets, StopDetection, JoinDetection, Clear,
                manager
  <2>4. AppShape' /\ LoopShape'
    BY <2>1, <2>2, <2>3, AppMoves
  <2>5. DataShape'
    <3>1. CASE StartDetection \/ ResetStop
      BY <3>1 DEF StartDetection, ResetStop, DataShape, manager
    <3>2. CASE CloseSockets
      BY <3>2 DEF CloseSockets, Closed, DataShape
    <3>3. CASE StopDetection
      BY <3>3 DEF StopDetection, Stopped, DataShape, manager
    <3>4. CASE JoinDetection
      BY <3>4 DEF JoinDetection, DataShape
    <3>5. CASE Clear
      BY <3>5 DEF Clear, Cleared, DataShape
    <3> QED
      BY <1>7, <3>1, <3>2, <3>3, <3>4, <3>5
  <2>6. CallShape'
    <3>1. \A t \in Threads : loop'[t] \in Running
      BY <2>1, <2>3 DEF LoopShape
    <3>2. CASE StartDetection \/ ResetStop
      <4>1. /\ app.at \in {"detect", "reset"} /\ app'.at \in {"reset", "up"}
            /\ app'.at = "reset" => app.at = "detect"
        BY <3>2 DEF StartDetection, ResetStop, Ready, App, Up
      <4>2. app.at = "detect" => ~call.busy
        BY DEF CallShape
      <4> QED
        BY <1>0, <1>7, <2>3, <3>1, <4>1, <4>2, CallStays
    <3>3. CASE CloseSockets \/ StopDetection \/ JoinDetection \/ Clear
      <4>1. /\ app.at \in {"remove", "stop", "join", "clear"}
            /\ app'.at \in {"stop", "join", "clear", "idle"}
            /\ app'.at \in {"clear", "idle"} => detector' = "none"
        BY <1>0, <3>3 DEF CloseSockets, StopDetection, JoinDetection, Clear, Ready, App, Idle
      <4> QED
        BY <1>0, <1>7, <2>3, <3>1, <4>1, CallStays
    <3> QED
      BY <1>7, <3>2, <3>3
  <2> QED
    BY <2>4, <2>5, <2>6
<1>8. ASSUME Detect \/ UNCHANGED vars
      PROVE  Shape'
  <2>1. /\ UNCHANGED <<app, loop, port, portView, open, view, vec, detection, channel, stop,
                       alive, sessions, failed>>
        /\ detector' \in {"none", "runs", "ended"}
    BY <1>8 DEF Detect, Others, vars, manager, DataShape
  <2>2. AppShape'
    BY <2>1, PlanStays DEF AppShape, ToRemove, Listed
  <2>3. LoopShape'
    BY <2>1 DEF LoopShape, Equipped
  <2>4. DataShape'
    BY <2>1 DEF DataShape
  <2>5. CallShape'
    <3>1. UNCHANGED answers /\ (detector' # "none" => detector # "none")
      BY <1>8 DEF Detect, Others, vars
    <3>2. call.busy => (\A t \in Threads : loop'[t] \in Running)
                       /\ app'.at \notin {"sockets", "detect"}
                       /\ (app'.at = "threads" => app'.n = 1)
      BY <2>1 DEF CallShape
    <3> QED
      BY <1>0, <2>1, <3>1, <3>2, CallStays
  <2> QED
    BY <2>2, <2>3, <2>4, <2>5
<1>9. ASSUME NEW t \in Threads, LoopStep(t)
      PROVE  Shape'
  <2>1. PICK r \in Running : LoopGoes(t, r) /\ (r.at = "run" => r.batch # <<>>)
    BY <1>9, PollFacts, TakeFacts, RunFacts DEF LoopStep
  <2>2. AppShape' /\ LoopShape'
    BY <2>1, LoopMoves DEF LoopGoes, Others, manager
  <2>3. DataShape'
    BY <2>1 DEF LoopGoes, Others, manager, DataShape
  <2>4. CallShape'
    <3>1. UNCHANGED <<app, detector, sessions, answers>>
      BY <2>1 DEF LoopGoes, Others
    <3>2. call.busy => (\A u \in Threads : loop'[u] \in Running)
                       /\ app.at \notin {"sockets", "detect"}
                       /\ (app.at = "threads" => app.n = 1)
      BY <2>1 DEF CallShape, LoopGoes, LoopShape
    <3> QED
      BY <1>0, <3>1, <3>2, CallStays
  <2> QED
    BY <2>2, <2>3, <2>4
<1>10. ASSUME OpenChannel
       PROVE  Shape'
  <2>1. /\ call.busy /\ call.socket = NoSocket /\ call.wake = "none"
        /\ UNCHANGED <<app, port, portView, loop, view, detection, stop, detector, sessions,
                       failed>>
        /\ call' \in Call /\ call'.busy /\ call'.wake = "none" /\ alive' \in BOOLEAN
        /\ \/ \E s \in Socket :
                /\ call'.socket = s
                /\ open' = open \cup {s} /\ vec' = vec \cup {s}
                /\ \/ channel' = channel
                   \/ channel[s.key] = NoSocket /\ channel' = [channel EXCEPT ![s.key] = s]
                /\ stray' = IF app.at \in {"reset", "up"} THEN stray ELSE stray \cup {s}
                /\ grown' \in 0 .. MaxGrown
           \/ call'.socket = NoSocket /\ UNCHANGED <<grown, open, vec, channel, stray>>
    BY <1>10, OpenFacts
  <2>2. /\ open' \subseteq Socket /\ vec' \subseteq Socket /\ vec \subseteq vec'
        /\ channel' \in [Keys -> Socket \cup {NoSocket}]
        /\ stray' \subseteq Socket /\ grown' \in 0 .. MaxGrown
        /\ call'.socket # NoSocket /\ app.at \notin {"reset", "up"} => call'.socket \in stray'
    BY <2>1 DEF DataShape, CallShape
  <2>3. AppShape'
    <3>1. ToRemove \subseteq ToRemove'
      BY <2>1, <2>2 DEF ToRemove, Listed
    <3> QED
      BY <2>1, <3>1, PlanStays DEF AppShape
  <2>4. LoopShape' /\ DataShape'
    BY <2>1, <2>2 DEF LoopShape, Equipped, DataShape
  <2>5. CallShape'
    BY <2>1, <2>2 DEF CallShape
  <2> QED
    BY <2>3, <2>4, <2>5
<1>11. ASSUME HandOver \/ CallWakes
       PROVE  Shape'
  <2>1. /\ call.busy /\ call' \in Call /\ call'.socket = NoSocket /\ call'.busy
        /\ UNCHANGED <<app, port, portView, open, manager, stop, detector, alive, sessions,
                       failed, grown, stray>>
    BY <1>11, HandFacts, CallWakesFacts
  <2>2. /\ loop' \in [Threads -> Running \cup {NoLoop, Broken}]
        /\ \A u \in Threads : /\ loop'[u] \in Running /\ loop[u] \in Running
                              /\ loop'[u].at = loop[u].at /\ loop'[u].batch = loop[u].batch
    <3>1. \A u \in Threads : loop[u] \in Running
      BY <2>1 DEF CallShape
    <3>2. CASE HandOver
      BY <3>1, <3>2, HandFacts, PushedFacts DEF LoopShape
    <3>3. CASE CallWakes
      <4>1. PICK t \in Threads : loop' = Woken(t)
        BY <3>3, CallWakesFacts
      <4> QED
        BY <3>1, <4>1, WokenFacts
    <3> QED
      BY <1>11, <3>2, <3>3
  <2>3. AppShape'
    BY <2>1, PlanStays DEF AppShape, ToRemove, Listed, manager
  <2>4. LoopShape'
    <3>1. app.at = "threads" => \A i \in 1 .. app.n - 1 : ThreadOrder[i] \in Threads
      BY OrderFacts DEF AppShape
    <3> QED
      BY <2>1, <2>2, <3>1 DEF LoopShape, Equipped
  <2>5. DataShape'
    BY <2>1 DEF DataShape, manager
  <2>6. CallShape'
    BY <2>1, <2>2 DEF CallShape
  <2> QED
    BY <2>3, <2>4, <2>5, <2>6
<1>12. ASSUME Answer \/ AnswerEnds
       PROVE  Shape'
  <2>1. /\ UNCHANGED <<app, port, portView, loop, open, manager, stop, detector, sessions,
                       failed, grown, stray>>
        /\ call' \in Call /\ call'.socket = NoSocket /\ call'.wake = "none"
        /\ alive' \in BOOLEAN
        /\ call'.busy => detector # "none"
    BY <1>12, AnswerFacts
  <2>2. AppShape'
    BY <2>1, PlanStays DEF AppShape, ToRemove, Listed, manager
  <2>3. LoopShape' /\ DataShape'
    BY <2>1 DEF LoopShape, DataShape, Equipped, manager
  <2>4. CallShape'
    <3>1. detector # "none" => /\ \A t \in Threads : loop[t] \in Running
                               /\ sessions > 0
                               /\ app.at \notin {"sockets", "detect", "threads"}
      BY <1>0 DEF LoopShape, Equipped, Places, AppShape
    <3> QED
      BY <2>1, <3>1 DEF CallShape
  <2> QED
    BY <2>2, <2>3, <2>4
<1> QED
  BY <1>1, <1>2, <1>3, <1>4, <1>5, <1>6, <1>7, <1>8, <1>9, <1>10, <1>11, <1>12
     DEF Next, AppStep, CallStep

\* Each place of Init, Uninit and the callback of an answer says which loops exist, which
\* sockets are open and whether the detection thread runs.
THEOREM ShapeCorrect == Spec => []Shape
<1>1. Init => Shape
  <2> SUFFICES ASSUME Init
               PROVE  Shape
    OBVIOUS
  <2>1. AppShape
    BY DEF Init, AppShape, Idle, App, Places
  <2>2. LoopShape
    BY NotRunning DEF Init, LoopShape, Idle, App, Equipped
  <2>3. DataShape
    <3>1. 0 \in 0 .. MaxSessions /\ {} \subseteq 1 .. 0
      BY SdkSessionAssumption
    <3> QED
      BY <3>1 DEF Init, DataShape, StopsAtFirst
  <2>4. CallShape
    <3>1. 0 \in 0 .. MaxGrown /\ <<>> \in Seq(Keys)
      BY SdkSessionAssumption
    <3> QED
      BY <3>1 DEF Init, CallShape, NoCall, Call
  <2> QED
    BY <2>1, <2>2, <2>3, <2>4 DEF Shape
<1> QED
  BY <1>1, ShapeInductive, PTL DEF Spec

\* The state of the calls, the loops, the sockets and the sessions is well formed.
THEOREM Typing == Spec => []TypeOK
<1>1. Shape => TypeOK
  <2> SUFFICES ASSUME Shape
               PROVE  TypeOK
    OBVIOUS
  <2> USE DEF Shape
  <2>1. \A t \in Threads : Runs(t) =>
          /\ loop[t].fds \subseteq Socket
          /\ \A task \in Waiting(t) : task.op \in {"add", "remove"} /\ task.socket \in Socket
    <3> SUFFICES ASSUME NEW t \in Threads, Runs(t)
                 PROVE  /\ loop[t].fds \subseteq Socket
                        /\ Waiting(t) \subseteq Tasks
      BY DEF Tasks
    <3>1. loop[t] \in Running
      BY RunsIsRunning
    <3>2. /\ loop[t].fds \subseteq Socket
          /\ loop[t].pending \in Seq(Tasks) /\ loop[t].batch \in Seq(Tasks)
      BY <3>1 DEF Running
    <3> QED
      BY <3>2 DEF Waiting, Range
  <2> QED
    BY <2>1 DEF TypeOK, AppShape, DataShape, CallShape, Call, Places
<1> QED
  BY <1>1, ShapeCorrect, PTL

-----------------------------------------------------------------------------
(***************************************************************************)
(* Wake-ups.                                                               *)
(***************************************************************************)
\* A task that was posted is found: a loop that waits in Poll with tasks to run has its pipe
\* written, or the caller of Init and Uninit or a lidar's callback is about to write it, however
\* posting and draining interleave.
THEOREM WakesCorrect == Spec => []PostedWakes
<1>1. Init => WakeInv
  BY NotRunning DEF Init, WakeInv
<1>2. Shape /\ WakeInv /\ [Next]_vars => WakeInv'
  <2> SUFFICES ASSUME Shape, WakeInv, [Next]_vars
               PROVE  WakeInv'
    OBVIOUS
  <2>1. ASSUME NEW op \in {"add", "remove"}, NEW s \in Socket, NEW next, Post(op, s, next),
               next \in [at : Places, n : Nat, wake : {"none"}, left : SUBSET Socket],
               Equipped, app.wake = "none", UNCHANGED answers
        PROVE  WakeInv'
    <3> DEFINE t == ThreadOf[s.key]
    <3>1. t \in Threads /\ Task(op, s) \in Tasks
      BY SdkSessionAssumption DEF Socket, Task, Tasks
    <3>2. /\ \A u \in Threads \ {t} : loop'[u] = loop[u]
          /\ app'.wake = t
      BY <2>1, <3>1, PushedFacts DEF Post, Shape, LoopShape
    <3> HIDE DEF t
    <3> QED
      BY <2>1, <3>2, SdkSessionAssumption DEF WakeInv, answers
  <2>2. ASSUME NEW isView \in BOOLEAN, InitBegin(isView)
        PROVE  WakeInv'
    BY <2>2, SdkSessionAssumption DEF InitBegin, Ready, WakeInv, answers
  <2>3. ASSUME NEW t \in Threads, loop' = Woken(t),
               \/ app.wake = t /\ call'.wake = call.wake
               \/ call.wake = t /\ app'.wake = app.wake
        PROVE  WakeInv'
    <3> SUFFICES ASSUME NEW u \in Threads,
                        loop'[u].at \in {"poll", "run"}, loop'[u].pending # <<>>
                 PROVE  loop'[u].pipe \/ app'.wake = u \/ call'.wake = u
      BY DEF WakeInv
    <3>1. loop'[u] \in Running
      BY <2>3, WokenFacts, NotRunning
    <3>2. CASE u = t
      BY <2>3, <3>1, <3>2, WokenFacts
    <3>3. CASE u # t
      <4>1. loop'[u] = loop[u]
        BY <2>3, <3>3, WokenFacts
      <4>2. loop[u].pipe \/ app.wake = u \/ call.wake = u
        BY <4>1 DEF WakeInv
      <4> QED
        BY <2>3, <3>3, <4>1, <4>2
    <3> QED
      BY <3>2, <3>3
  <2>10. ASSUME WakeUp, UNCHANGED answers
         PROVE  WakeInv'
    BY <2>3, <2>10, WakeFacts DEF answers
  <2>11. ASSUME HandOver
         PROVE  WakeInv'
    <3>1. PICK t \in Threads, s \in Socket :
             /\ loop[t] \in Running /\ Task("add", s) \in Tasks
             /\ loop' = Pushed(t, Task("add", s))
             /\ call'.wake = t /\ call.wake = "none" /\ app' = app
      BY <2>11, HandFacts
    <3>2. \A u \in Threads \ {t} : loop'[u] = loop[u]
      BY <3>1, PushedFacts DEF Shape, LoopShape
    <3> QED
      BY <3>1, <3>2, SdkSessionAssumption DEF WakeInv
  <2>12. ASSUME CallWakes
         PROVE  WakeInv'
    BY <2>3, <2>12, CallWakesFacts
  <2>13. ASSUME OpenChannel \/ Answer \/ AnswerEnds
         PROVE  WakeInv'
    <3>1. app' = app /\ loop' = loop /\ call.wake = "none"
      BY <2>13, OpenFacts, AnswerFacts
    <3> QED
      BY <3>1, SdkSessionAssumption DEF WakeInv
  <2>4. ASSUME CreateIOThread, UNCHANGED answers
        PROVE  WakeInv'
    <3>1. PICK t \in Threads :
             /\ app.wake = "none"
             /\ loop' = [loop EXCEPT ![t] = NewLoop] \/ loop' = [loop EXCEPT ![t] = Broken]
      BY <2>4, ThreadFacts
    <3>2. /\ loop'[t] = NewLoop \/ loop'[t] = Broken
          /\ \A u \in Threads \ {t} : loop'[u] = loop[u]
      BY <3>1 DEF Shape, LoopShape
    <3> QED
      BY <2>4, <3>1, <3>2, NewLoopRuns, NotRunning, SdkSessionAssumption DEF WakeInv, answers
  <2>5. ASSUME CreateChannel, UNCHANGED answers
        PROVE  WakeInv'
    <3>1. Ready("sockets") /\ Equipped /\ app.wake = "none" /\ UNCHANGED <<view, sessions>>
      BY <2>5 DEF CreateChannel, Ready, Equipped, Places
    <3>2. CASE CreateSocket(Plan[app.n])
      <4>1. \E s \in Socket :
              /\ Post("add", s, AfterSocket)
              /\ AfterSocket \in [at : Places \ {"idle", "threads"}, n : Nat, wake : {"none"},
                                  left : SUBSET Socket]
        BY <3>1, <3>2, CreateFacts
      <4> QED
        BY <2>1, <2>5, <3>1, <4>1
    <3>3. CASE loop' = loop
      BY <2>5, <3>1, <3>3, SdkSessionAssumption DEF WakeInv, answers
    <3> QED
      BY <2>5, <3>2, <3>3 DEF CreateChannel
  <2>6. ASSUME RemoveSocket, UNCHANGED answers
        PROVE  WakeInv'
    <3>1. Equipped /\ app.wake = "none"
      BY <2>6 DEF RemoveSocket, Ready, Equipped, Places
    <3> QED
      BY <2>1, <2>6, <3>1, RemoveFacts
  <2>7. ASSUME \/ Uninit \/ StartDetection \/ ResetStop \/ CloseSockets \/ StopDetection
               \/ JoinDetection \/ Clear,
               call' = call
        PROVE  WakeInv'
    <3>1. app.wake = "none" /\ loop' = loop
      BY <2>7 DEF Uninit, StartDetection, ResetStop, CloseSockets, StopDetection,
                  JoinDetection, Clear, Ready
    <3> QED
      BY <2>7, <3>1, SdkSessionAssumption DEF WakeInv
  <2>8. ASSUME Detect \/ UNCHANGED vars
        PROVE  WakeInv'
    BY <2>8 DEF Detect, Others, vars, answers, WakeInv
  <2>9. ASSUME NEW t \in Threads, LoopStep(t)
        PROVE  WakeInv'
    <3>1. PICK r \in Running :
             /\ LoopGoes(t, r)
             /\ \/ r.at = "swap"
                \/ r.pending = <<>>
                \/ /\ loop[t].at = "run"
                   /\ r.pending = loop[t].pending /\ r.pipe = loop[t].pipe
      BY <2>9, PollFacts, TakeFacts, RunFacts DEF LoopStep
    <3>2. loop'[t] = r /\ (\A u \in Threads \ {t} : loop'[u] = loop[u]) /\ app' = app
         /\ call' = call
      BY <3>1 DEF LoopGoes, Others, answers, Shape, LoopShape
    <3> QED
      BY <3>1, <3>2 DEF WakeInv
  <2> QED
    <3>1. UNCHANGED answers => call' = call
      BY DEF answers
    <3>2. Uninit => call' = call
      BY DEF Uninit
    <3> QED
      BY <2>2, <2>4, <2>5, <2>6, <2>7, <2>8, <2>9, <2>10, <2>11, <2>12, <2>13, <3>1, <3>2
         DEF Next, AppStep, CallStep
<1>3. WakeInv => PostedWakes
  BY DEF WakeInv, PostedWakes
<1> QED
  BY <1>1, <1>2, <1>3, ShapeCorrect, PTL DEF Spec

-----------------------------------------------------------------------------
(***************************************************************************)
(* Detection.                                                              *)
(***************************************************************************)
\* The detection thread of the first session never reads an order to stop that is not
\* meant for it: lidars are looked for as long as that session is up.
THEOREM DetectsCorrect == Spec => []FirstSessionDetects
<1>1. Init => DetectInv
  BY DEF Init, DetectInv, StopsAtFirst
<1>2. Shape /\ DetectInv /\ [Next]_vars => DetectInv'
  <2> SUFFICES ASSUME Shape, DetectInv, [Next]_vars
               PROVE  DetectInv'
    OBVIOUS
  <2>1. sessions \in Nat /\ (app.at # "idle" => sessions > 0)
    BY SdkSessionAssumption DEF Shape, DataShape, AppShape
  <2>2. ASSUME NEW isView \in BOOLEAN, InitBegin(isView)
        PROVE  DetectInv'
    BY <2>1, <2>2 DEF InitBegin, Ready, DetectInv
  <2>3. ASSUME UNCHANGED <<stop, detector, sessions>>,
               app.at \in {"join", "clear", "idle"} => app'.at \in {"join", "clear", "idle"}
        PROVE  DetectInv'
    BY <2>3 DEF DetectInv
  <2>4. ASSUME WakeUp
        PROVE  DetectInv'
    BY <2>3, <2>4, WakeFacts DEF WakeUp
  <2>5. ASSUME \/ CreateIOThread \/ CreateChannel \/ Uninit \/ RemoveSocket
               \/ CloseSockets \/ Clear
        PROVE  DetectInv'
    <3>1. UNCHANGED <<stop, detector, sessions>>
      BY <2>5 DEF CreateIOThread, CreateChannel, Uninit, RemoveSocket, CloseSockets, Clear
    <3>2. app.at \notin {"join", "clear", "idle"} \/ app'.at = "idle"
      BY <2>5 DEF CreateIOThread, CreateChannel, Uninit, RemoveSocket, CloseSockets, Clear,
                  Ready, Idle, App
    <3> QED
      BY <2>3, <3>1, <3>2
  <2>6. ASSUME StartDetection \/ ResetStop
        PROVE  DetectInv'
    BY <2>6 DEF StartDetection, ResetStop, Ready, DetectInv
  <2>7. ASSUME StopDetection
        PROVE  DetectInv'
    BY <2>1, <2>7 DEF StopDetection, Ready, App, DetectInv
  <2>8. ASSUME JoinDetection
        PROVE  DetectInv'
    BY <2>8 DEF JoinDetection, Ready, App, DetectInv
  <2>9. ASSUME Detect
        PROVE  DetectInv'
    BY <2>9 DEF Detect, Others, DetectInv
  <2>10. ASSUME NEW t \in Threads, LoopStep(t)
         PROVE  DetectInv'
    BY <2>10 DEF LoopStep, Poll, TakeTasks, RunTask, Others, DetectInv
  <2>11. ASSUME UNCHANGED vars
         PROVE  DetectInv'
    BY <2>11 DEF vars, DetectInv
  <2>12. ASSUME Answer \/ CallStep
         PROVE  DetectInv'
    BY <2>12 DEF Answer, CallStep, OpenChannel, HandOver, CallWakes, AnswerEnds, DetectInv
  <2> QED
    BY <2>2, <2>4, <2>5, <2>6, <2>7, <2>8, <2>9, <2>10, <2>11, <2>12 DEF Next, AppStep
<1>3. Shape /\ DetectInv => FirstSessionDetects
  BY SdkSessionAssumption DEF Shape, DataShape, DetectInv, FirstSessionDetects, Up, App
<1> QED
  BY <1>1, <1>2, <1>3, ShapeCorrect, PTL DEF Spec

-----------------------------------------------------------------------------
(***************************************************************************)
(* Open sockets.                                                           *)
(***************************************************************************)
\* Uninit leaves no socket open but those of detection that a failed Init had replaced, and
\* those that a lidar's callback opened while Uninit ran, which socket_vec_ still holds.
THEOREM NothingLeftCorrect == Spec => []NothingLeftOpen
<1>1. Init => OpenInv
  BY DEF Init, OpenInv, Idle, App
<1>2. Shape /\ OpenInv /\ [Next]_vars => OpenInv'
  <2> SUFFICES ASSUME Shape, OpenInv, [Next]_vars
               PROVE  OpenInv'
    OBVIOUS
  <2>1. sessions \in Nat /\ failed \subseteq 1 .. sessions
    BY SdkSessionAssumption DEF Shape, DataShape
  <2>2. ASSUME NEW isView \in BOOLEAN, InitBegin(isView)
        PROVE  OpenInv'
    <3>1. /\ app.at = "idle" /\ app'.at = "threads" /\ port'
          /\ UNCHANGED <<open, vec, detection, failed>>
      BY <2>2 DEF InitBegin, Ready, App
    <3>2. \A d \in detection : d.key \in Range(DetectionKeys) /\ d.session \in failed
      BY <3>1 DEF OpenInv
    <3> QED
      BY <3>1, <3>2 DEF OpenInv
  <2>3. ASSUME UNCHANGED <<open, vec, detection, sessions, port, failed, stray>>,
               app'.at = app.at, app'.n = app.n
        PROVE  OpenInv'
    BY <2>3 DEF OpenInv
  <2>4. ASSUME WakeUp, UNCHANGED answers
        PROVE  OpenInv'
    BY <2>3, <2>4, WakeFacts DEF WakeUp, manager, answers
  <2>5. ASSUME InitFails, UNCHANGED <<open, vec, detection, sessions, port>>,
               app.at \in {"threads", "sockets"}
        PROVE  OpenInv'
    <3>1. app'.at = "idle" /\ failed' = failed \cup {sessions}
      BY <2>5 DEF InitFails, Idle, App
    <3> QED
      BY <2>5, <3>1 DEF OpenInv
  <2>6. ASSUME CreateIOThread, UNCHANGED answers
        PROVE  OpenInv'
    <3>1. /\ app.at = "threads" /\ app.n \in 1 .. Len(ThreadOrder)
          /\ UNCHANGED <<open, vec, detection, sessions, port>>
      BY <2>6, ThreadFacts
    <3>2. CASE InitFails
      BY <2>5, <3>1, <3>2
    <3>3. CASE ~InitFails
      <4>1. failed' = failed /\ app'.at \in {"sockets", "threads"}
        BY <2>6, <3>3, ThreadFacts DEF App
      <4> QED
        BY <3>1, <4>1 DEF OpenInv
    <3> QED
      BY <3>2, <3>3
  <2>7. ASSUME CreateChannel, UNCHANGED answers
        PROVE  OpenInv'
    <3>1. /\ Ready("sockets") /\ app.at = "sockets" /\ Equipped /\ UNCHANGED <<view, sessions, port>>
          /\ app.n \in 1 .. Len(Plan) /\ Len(Plan) \in Nat
      BY <2>7, PlanType DEF CreateChannel, Ready, Equipped, Places, Shape, AppShape, DataShape
    <3>2. CASE CreateSocket(Plan[app.n])
      <4>1. PICK s \in Socket :
              /\ s = [key |-> Plan[app.n], session |-> sessions,
                      view |-> FALSE, nr |-> app.n]
              /\ Post("add", s, AfterSocket)
              /\ open' = open \cup {s}
              /\ IF Detecting
                   THEN detection' = {d \in detection : d.key # Plan[app.n]} \cup {s} /\ vec' = vec
                   ELSE vec' = vec \cup {s} /\ detection' = detection
              /\ failed' = failed
              /\ AfterSocket \in [at : Places \ {"idle", "threads"}, n : Nat, wake : {"none"},
                                  left : SUBSET Socket]
              /\ AfterSocket.left = {} /\ AfterSocket.at \in {"sockets", "detect"}
              /\ AfterSocket.at = "sockets" => AfterSocket.n = app.n + 1
        BY <3>1, <3>2, CreateFacts
      <4>2. app'.at = AfterSocket.at /\ app'.n = AfterSocket.n
        BY <4>1 DEF Post
      <4>3. s.session = sessions /\ s.key = Plan[app.n] /\ s.nr = app.n
        BY <4>1
      <4>4. port
        BY <3>1 DEF OpenInv
      <4>5. CASE Detecting
        <5>1. app.n \in {1, 2} /\ Plan[app.n] = DetectionKeys[app.n]
          BY <3>1, <4>5, PlanType DEF Detecting, DetectionKeys, Shape, DataShape
        <5>2. DetectionKeys[app.n] \in Range(DetectionKeys)
          BY <5>1 DEF DetectionKeys, Range
        <5>3. \A d \in detection : d.key = Plan[app.n] => d.session \in failed
          <6> SUFFICES ASSUME NEW d \in detection, d.key = Plan[app.n], d.session \notin failed
                       PROVE  FALSE
            OBVIOUS
          <6>1. d.nr < app.n /\ d.nr \in {1, 2} /\ d.key = DetectionKeys[d.nr]
            BY <3>1 DEF OpenInv
          <6> QED
            BY <5>1, <6>1 DEF DetectionKeys
        <5>4. /\ detection' = {d \in detection : d.key # Plan[app.n]} \cup {s}
              /\ vec' = vec /\ open' = open \cup {s} /\ failed' = failed
          BY <4>1, <4>5
        <5>5. \A r \in open' \ (vec' \cup detection') :
                r.key \in Range(DetectionKeys) /\ r.session \in failed
          BY <5>3, <5>4 DEF OpenInv
        <5>6. \A d \in detection' :
                /\ d.key \in Range(DetectionKeys)
                /\ \/ d.session \in failed
                   \/ /\ d.session = sessions
                      /\ d.nr < app.n + 1 /\ d.nr \in {1, 2} /\ d.key = DetectionKeys[d.nr]
          <6>1. \A d \in detection :
                /\ d.key \in Range(DetectionKeys)
                /\ \/ d.session \in failed
                   \/ /\ d.session = sessions
                      /\ d.nr < app.n /\ d.nr \in {1, 2} /\ d.key = DetectionKeys[d.nr]
            BY <3>1 DEF OpenInv
          <6>2. \A d \in detection : d.nr \in {1, 2} /\ d.nr < app.n => d.nr < app.n + 1
            BY <3>1
          <6>3. s.nr < app.n + 1
            BY <3>1, <4>3
          <6> QED
            BY <4>3, <5>1, <5>2, <5>4, <6>1, <6>2, <6>3
        <5> QED
          BY <3>1, <4>1, <4>2, <4>4, <5>4, <5>5, <5>6 DEF OpenInv
      <4>6. CASE ~Detecting
        <5>1. vec' = vec \cup {s} /\ detection' = detection /\ failed' = failed
          BY <4>1, <4>6
        <5>2. \A d \in detection : d.nr \in {1, 2} /\ d.nr < app.n => d.nr < app.n + 1
          BY <3>1
        <5> QED
          BY <3>1, <4>1, <4>2, <4>4, <5>1, <5>2 DEF OpenInv
      <4> QED
        BY <4>5, <4>6
    <3>3. CASE InitFails /\ UNCHANGED <<open, channel, detection, vec, loop>>
      BY <2>5, <3>1, <3>3
    <3>4. CASE /\ app' = AfterSocket
               /\ UNCHANGED <<open, channel, detection, vec, loop, failed>>
      <4>1. app'.at \in {"sockets", "detect"} /\ (app'.at = "sockets" => app'.n = app.n + 1)
        BY <3>4 DEF AfterSocket, App
      <4>2. \A d \in detection : d.nr \in {1, 2} /\ d.nr < app.n => d.nr < app.n + 1
        BY <3>1
      <4> QED
        BY <3>1, <3>4, <4>1, <4>2 DEF OpenInv
    <3> QED
      BY <2>7, <3>2, <3>3, <3>4 DEF CreateChannel
  <2>8. ASSUME RemoveSocket, UNCHANGED answers
        PROVE  OpenInv'
    <3>1. app'.at = "remove" /\ app.at = "remove"
      BY <2>8, RemoveFacts DEF Post, RemoveSocket, Ready
    <3> QED
      BY <2>8, <3>1 DEF RemoveSocket, manager, OpenInv
  <2>9. ASSUME StartDetection \/ ResetStop \/ Uninit, stray \subseteq stray'
        PROVE  OpenInv'
    <3>1. /\ app.at \in {"detect", "reset", "up"} /\ app'.at \in {"reset", "up", "remove"}
          /\ UNCHANGED <<open, vec, detection, sessions, port, failed>>
      BY <2>9 DEF StartDetection, ResetStop, Uninit, Ready, Up, App, manager
    <3> QED
      BY <2>9, <3>1 DEF OpenInv
  <2>10. ASSUME CloseSockets, UNCHANGED answers
         PROVE  OpenInv'
    <3>1. /\ app.at = "remove" /\ app'.at = "stop" /\ open' = open \ vec /\ vec' = {}
          /\ UNCHANGED <<detection, sessions, port, failed>>
      BY <2>10 DEF CloseSockets, Closed, Ready, App
    <3> QED
      BY <3>1 DEF OpenInv
  <2>11. ASSUME StopDetection, UNCHANGED answers
         PROVE  OpenInv'
    <3>1. /\ app.at = "stop" /\ app'.at = "join"
          /\ UNCHANGED <<open, vec, detection, sessions, port, failed, stray>>
      BY <2>11 DEF StopDetection, Ready, App, manager, answers
    <3> QED
      BY <3>1 DEF OpenInv
  <2>12. ASSUME JoinDetection, UNCHANGED answers
         PROVE  OpenInv'
    <3>1. /\ app.at = "join" /\ app'.at = "clear" /\ open' = open \ detection /\ detection' = {}
          /\ UNCHANGED <<vec, sessions, port, failed, stray>>
      BY <2>12 DEF JoinDetection, Ready, App, answers
    <3> QED
      BY <3>1 DEF OpenInv
  <2>13. ASSUME Clear, UNCHANGED answers
         PROVE  OpenInv'
    <3>1. /\ app.at = "clear" /\ app'.at = "idle"
          /\ UNCHANGED <<open, vec, detection, sessions, failed, stray>>
      BY <2>13 DEF Clear, Ready, Idle, App, answers
    <3> QED
      BY <3>1 DEF OpenInv
  <2>14. ASSUME Detect \/ UNCHANGED vars
         PROVE  OpenInv'
    BY <2>3, <2>14 DEF Detect, Others, vars, manager, answers
  <2>15. ASSUME NEW t \in Threads, LoopStep(t)
         PROVE  OpenInv'
    BY <2>3, <2>15 DEF LoopStep, Poll, TakeTasks, RunTask, Others, manager, answers
  <2>16. ASSUME HandOver \/ CallWakes \/ Answer \/ AnswerEnds
         PROVE  OpenInv'
    BY <2>3, <2>16, HandFacts, CallWakesFacts, AnswerFacts DEF manager
  <2>17. ASSUME OpenChannel
         PROVE  OpenInv'
    <3>1. /\ UNCHANGED <<app, port, detection, sessions, failed>>
          /\ \/ \E s \in Socket :
                  /\ open' = open \cup {s} /\ vec' = vec \cup {s}
                  /\ stray' = IF app.at \in {"reset", "up"} THEN stray ELSE stray \cup {s}
             \/ UNCHANGED <<open, vec, stray>>
      BY <2>17, OpenFacts
    <3>2. open' \ (vec' \cup detection') \subseteq open \ (vec \cup detection)
      BY <3>1
    <3>3. /\ vec \subseteq stray => vec' \subseteq stray' \/ app.at \in {"reset", "up"}
          /\ ~port => app.at = "idle"
      BY <3>1 DEF OpenInv
    <3> QED
      BY <3>1, <3>2, <3>3 DEF OpenInv
  <2> QED
    <3>1. UNCHANGED answers \/ Uninit => stray \subseteq stray'
      BY DEF answers, Uninit
    <3> QED
      BY <2>2, <2>4, <2>6, <2>7, <2>8, <2>9, <2>10, <2>11, <2>12, <2>13, <2>14, <2>15,
         <2>16, <2>17, <3>1 DEF Next, AppStep, CallStep
<1>3. Shape /\ OpenInv => NothingLeftOpen
  <2> SUFFICES ASSUME Shape, OpenInv, port = FALSE, NEW s \in open
               PROVE  \/ s.key \in Range(DetectionKeys) /\ s.session \in failed
                      \/ s \in stray \cap vec
    BY DEF NothingLeftOpen
  <2> QED
    BY DEF OpenInv
<1> QED
  BY <1>1, <1>2, <1>3, ShapeCorrect, PTL DEF Spec

-----------------------------------------------------------------------------
(***************************************************************************)
(* The tasks of a loop.                                                    *)
(***************************************************************************)
\* The first task and the others.
LEMMA HeadAndTail ==
  ASSUME NEW b \in Seq(Tasks), b # <<>>
  PROVE  /\ Head(b) \in Tasks /\ Tail(b) \in Seq(Tasks)
         /\ Len(b) \in Nat /\ Len(b) >= 1 /\ DOMAIN b = 1 .. Len(b) /\ Head(b) = b[1]
         /\ DOMAIN Tail(b) = 1 .. Len(b) - 1
         /\ \A i \in DOMAIN Tail(b) : Tail(b)[i] = b[i + 1] /\ i + 1 \in DOMAIN b
         /\ Range(b) = {Head(b)} \cup Range(Tail(b))
<1>1. /\ Head(b) \in Tasks /\ Tail(b) \in Seq(Tasks) /\ Len(Tail(b)) = Len(b) - 1
      /\ \A i \in 1 .. Len(Tail(b)) : Tail(b)[i] = b[i + 1]
  BY HeadTailProperties
<1>2. Len(b) \in Nat /\ Len(b) >= 1 /\ DOMAIN b = 1 .. Len(b)
  BY LenProperties, EmptySeq
<1>3. DOMAIN Tail(b) = 1 .. Len(b) - 1
  BY <1>1, LenProperties
<1>4. Head(b) = b[1]
  OBVIOUS
<1>5. \A i \in DOMAIN Tail(b) : Tail(b)[i] = b[i + 1] /\ i + 1 \in DOMAIN b
  BY <1>1, <1>2, <1>3
<1>6. \A i \in DOMAIN b : i = 1 \/ (i - 1 \in DOMAIN Tail(b) /\ Tail(b)[i - 1] = b[i])
  BY <1>1, <1>2, <1>3
<1>7. Range(b) = {Head(b)} \cup Range(Tail(b))
  <2>1. 1 \in DOMAIN b
    BY <1>2
  <2> HIDE DEF Tasks
  <2>2. ASSUME NEW x \in Range(b)
        PROVE  x = Head(b) \/ x \in Range(Tail(b))
    <3>1. PICK i \in DOMAIN b : x = b[i]
      BY <2>2, Zenon DEF Range
    <3> QED
      BY <1>4, <1>6, <3>1, Zenon DEF Range
  <2>3. ASSUME NEW x \in Range(Tail(b))
        PROVE  x \in Range(b)
    <3>1. PICK i \in DOMAIN Tail(b) : x = Tail(b)[i]
      BY <2>3, Zenon DEF Range
    <3> QED
      BY <1>5, <3>1, Zenon DEF Range
  <2>4. Head(b) \in Range(b)
    BY <1>4, <2>1, Zenon DEF Range
  <2> QED
    BY <2>2, <2>3, <2>4, Zenon
<1> QED
  BY <1>1, <1>2, <1>3, <1>4, <1>5, <1>7

\* Order is kept when the first task is run, ...
LEMMA OrderOfTail ==
  ASSUME NEW b \in Seq(Tasks), b # <<>>, NEW p, NEW late, InOrder(b, p, late)
  PROVE  /\ InOrder(Tail(b), p, late)
         /\ Head(b).op = "remove" =>
              \A task \in Range(Tail(b)) \cup Range(p) : MayFollow(task, late)
<1>1. /\ Len(b) \in Nat /\ Len(b) >= 1 /\ DOMAIN b = 1 .. Len(b) /\ Head(b) = b[1]
      /\ DOMAIN Tail(b) = 1 .. Len(b) - 1
      /\ \A i \in DOMAIN Tail(b) : Tail(b)[i] = b[i + 1] /\ i + 1 \in DOMAIN b
  BY HeadAndTail
<1>2. \A i, j \in DOMAIN Tail(b) : i < j => i + 1 < j + 1
  BY <1>1
<1>3. \A j \in DOMAIN Tail(b) : 1 < j + 1 /\ 1 \in DOMAIN b
  BY <1>1
<1>4. InOrder(Tail(b), p, late)
  BY <1>1, <1>2 DEF InOrder
<1>5. ASSUME Head(b).op = "remove", NEW task \in Range(Tail(b)) \cup Range(p)
      PROVE  MayFollow(task, late)
  <2>1. CASE task \in Range(Tail(b))
    <3>1. PICK j \in DOMAIN Tail(b) : task = Tail(b)[j]
      BY <2>1 DEF Range
    <3> QED
      BY <1>1, <1>3, <1>5, <3>1 DEF InOrder
  <2>2. CASE task \in Range(p)
    <3>1. PICK j \in DOMAIN p : task = p[j]
      BY <2>2 DEF Range
    <3>2. 1 \in DOMAIN b
      BY <1>1
    <3> QED
      BY <1>1, <1>5, <3>1, <3>2 DEF InOrder
  <2> QED
    BY <1>5, <2>1, <2>2
<1> QED
  BY <1>4, <1>5

\* ... when a task is pushed, if it may follow or none of those before it removes a socket, ...
LEMMA OrderOfAppend ==
  ASSUME NEW b \in Seq(Tasks), NEW p \in Seq(Tasks), NEW task \in Tasks, NEW late,
         InOrder(b, p, late),
         MayFollow(task, late) \/ \A other \in Range(b) \cup Range(p) : other.op = "add"
  PROVE  InOrder(b, Append(p, task), late)
<1> DEFINE q == Append(p, task)
<1>1. Len(p) \in Nat /\ DOMAIN p = 1 .. Len(p)
  BY LenProperties
<1>2. /\ DOMAIN q = 1 .. Len(p) + 1
      /\ \A i \in 1 .. Len(p) : q[i] = p[i]
      /\ q[Len(p) + 1] = task
  BY <1>1, AppendProperties, LenProperties
<1>3. ~MayFollow(task, late) => (\A i \in DOMAIN b : b[i].op # "remove")
                                 /\ (\A i \in DOMAIN p : p[i].op # "remove")
  BY DEF Range
<1> HIDE DEF q
<1>4. \A i, j \in DOMAIN q : i < j => i \in DOMAIN p /\ (j \in DOMAIN p \/ j = Len(p) + 1)
  BY <1>1, <1>2
<1>5. \A j \in DOMAIN q : j \in DOMAIN p \/ j = Len(p) + 1
  BY <1>1, <1>2
<1>6. \A i, j \in DOMAIN q : i < j /\ q[i].op = "remove" => MayFollow(q[j], late)
  BY <1>1, <1>2, <1>3, <1>4 DEF InOrder
<1>7. \A i \in DOMAIN b, j \in DOMAIN q : b[i].op = "remove" => MayFollow(q[j], late)
  BY <1>1, <1>2, <1>3, <1>5 DEF InOrder
<1> QED
  BY <1>6, <1>7 DEF InOrder, q

\* ... and when more are late.
LEMMA OrderOfLate ==
  ASSUME NEW b, NEW p, NEW late, NEW later, late \subseteq later, InOrder(b, p, late)
  PROVE  InOrder(b, p, later)
BY DEF InOrder, MayFollow

\* What the steps of a thread have in common: tasks are taken from those that wait; a socket
\* is polled that was, or that a task has added while it was open; a removal that has been
\* run has removed its socket, and no task is left that adds it, unless it comes late.
LEMMA ThreadSteps ==
  ASSUME Shape, QueueInv, NEW t \in Threads, LoopStep(t)
  PROVE  \E r \in Running :
           /\ LoopGoes(t, r) /\ loop[t] \in Running
           /\ InOrder(r.batch, r.pending, stray)
           /\ r.at # "run" => r.batch = <<>>
           /\ Waiting(t)' \subseteq Waiting(t)
           /\ \A s \in r.fds \ loop[t].fds : s \in open /\ Task("add", s) \in Waiting(t)
           /\ \A s : Task("add", s) \in Waiting(t) =>
                Task("add", s) \in Waiting(t)' \/ s \in r.fds \/ s \notin open
           /\ \A s : Task("remove", s) \in Waiting(t) \ Waiting(t)' =>
                s \notin r.fds /\ (Task("add", s) \notin Waiting(t)' \/ s \in stray)
           /\ \A s \in loop[t].fds \ r.fds : Task("remove", s) \in Waiting(t)
<1>1. ASSUME NEW r \in Running, LoopGoes(t, r)
      PROVE  Waiting(t)' = Range(r.pending) \cup Range(r.batch)
  BY <1>1 DEF LoopGoes, Waiting, Shape, LoopShape
<1>2. loop[t] \in Running => InOrder(loop[t].batch, loop[t].pending, stray)
  BY DEF QueueInv, Ordered
<1>3. loop[t] \in Running /\ loop[t].at # "run" => loop[t].batch = <<>>
  BY DEF QueueInv, Emptied
<1>4. CASE Poll(t)
  <2>1. PICK r \in Running :
          /\ LoopGoes(t, r)
          /\ loop[t] \in Running /\ loop[t].at = "poll" /\ r.at = "swap"
          /\ r.pending = loop[t].pending /\ r.batch = loop[t].batch /\ r.fds = loop[t].fds
    BY <1>4, PollFacts
  <2>2. Waiting(t)' = Waiting(t)
    BY <1>1, <2>1 DEF Waiting
  <2> QED
    BY <1>2, <1>3, <2>1, <2>2
<1>5. CASE TakeTasks(t)
  <2>1. PICK r \in Running :
          /\ LoopGoes(t, r)
          /\ loop[t] \in Running /\ loop[t].at = "swap" /\ r.at \in {"poll", "run"}
          /\ r.at = "run" <=> r.batch # <<>>
          /\ r.pending = <<>> /\ r.batch = loop[t].pending /\ r.fds = loop[t].fds
    BY <1>5, TakeFacts
  <2>2. loop[t].batch = <<>> /\ Range(<<>>) = {}
    BY <1>3, <2>1 DEF Range
  <2>3. Waiting(t)' = Waiting(t)
    BY <1>1, <2>1, <2>2 DEF Waiting
  <2>4. InOrder(r.batch, r.pending, stray)
    BY <1>2, <2>1 DEF InOrder
  <2> QED
    BY <2>1, <2>3, <2>4
<1>6. CASE RunTask(t)
  <2>1. PICK r \in Running :
          /\ LoopGoes(t, r)
          /\ loop[t] \in Running /\ loop[t].at = "run" /\ r.at \in {"poll", "run"}
          /\ loop[t].batch \in Seq(Tasks) /\ loop[t].batch # <<>>
          /\ r.pending = loop[t].pending /\ r.batch = Tail(loop[t].batch)
          /\ r.fds = Ran(Head(loop[t].batch), loop[t].fds)
          /\ r.at # "run" => r.batch = <<>>
    BY <1>6, RunFacts
  <2> DEFINE h == Head(loop[t].batch)
  <2>2. h \in Tasks /\ Range(loop[t].batch) = {h} \cup Range(r.batch)
    BY <2>1, HeadAndTail
  <2>3. /\ InOrder(r.batch, r.pending, stray)
        /\ h.op = "remove" =>
              \A task \in Range(r.batch) \cup Range(r.pending) : MayFollow(task, stray)
    BY <1>2, <2>1, OrderOfTail
  <2>4. Waiting(t) = {h} \cup Waiting(t)' /\ Waiting(t)' = Range(r.pending) \cup Range(r.batch)
    BY <1>1, <2>1, <2>2 DEF Waiting
  <2>5. r.fds = IF h.op = "remove" THEN loop[t].fds \ {h.socket}
                ELSE IF h.socket \in open THEN loop[t].fds \cup {h.socket} ELSE loop[t].fds
    BY <2>1 DEF Ran
  <2>6. h = Task(h.op, h.socket) /\ h.op \in {"add", "remove"}
    BY <2>2 DEF Tasks, Task
  <2>7. \A s, o : Task(o, s).op = o /\ Task(o, s).socket = s
    BY DEF Task
  <2> HIDE DEF h
  <2>8. \A s \in r.fds \ loop[t].fds : s \in open /\ Task("add", s) \in Waiting(t)
    BY <2>4, <2>5, <2>6
  <2>9. \A s : Task("add", s) \in Waiting(t) =>
           Task("add", s) \in Waiting(t)' \/ s \in r.fds \/ s \notin open
    BY <2>4, <2>5, <2>7
  <2>10. \A s : Task("remove", s) \in Waiting(t) \ Waiting(t)' =>
            s \notin r.fds /\ (Task("add", s) \notin Waiting(t)' \/ s \in stray)
    BY <2>3, <2>4, <2>5, <2>7 DEF MayFollow
  <2>11. \A s \in loop[t].fds \ r.fds : Task("remove", s) \in Waiting(t)
    BY <2>4, <2>5, <2>6
  <2> QED
    BY <2>1, <2>3, <2>4, <2>8, <2>9, <2>10, <2>11
<1> QED
  BY <1>4, <1>5, <1>6 DEF LoopStep

\* A loop that is left alone, or only woken.
Stands(t) ==
  /\ loop'[t] \in Running <=> loop[t] \in Running
  /\ loop[t] \in Running =>
       /\ loop'[t].at = loop[t].at /\ loop'[t].fds = loop[t].fds
       /\ loop'[t].pending = loop[t].pending /\ loop'[t].batch = loop[t].batch

LEMMA WaitingStays ==
  ASSUME NEW t, loop'[t].pending = loop[t].pending, loop'[t].batch = loop[t].batch
  PROVE  Waiting(t)' = Waiting(t)
BY DEF Waiting

\* The threads that Init has given a loop run.
LEMMA GivenRun ==
  ASSUME Shape
  PROVE  /\ Building => \A t \in Threads : loop[t] \in Running
         /\ app.at \in {"remove", "stop", "join"} => \A t \in Threads : loop[t] \in Running
         /\ app.at = "threads" => \A i \in 1 .. app.n - 1 :
              ThreadOrder[i] \in Threads /\ loop[ThreadOrder[i]] \in Running
<1>1. Building \/ app.at \in {"remove", "stop", "join"} => Equipped
  BY DEF Building, Equipped, Places
<1>2. app.at = "threads" => \A i \in 1 .. app.n - 1 : ThreadOrder[i] \in Threads
  BY OrderFacts DEF Shape, AppShape
<1> QED
  BY <1>1, <1>2 DEF Shape, LoopShape

\* A step that leaves the loops alone may close only sockets whose removal was posted, and
\* those that are forgotten.
LEMMA QueueStands ==
  ASSUME Shape, Shape', QueueInv, \A t \in Threads : Stands(t),
         stray \subseteq stray',
         Building' => Building,
         app'.at = "threads" => app'.n = 1 \/ (app.at = "threads" /\ app'.n = app.n),
         app'.at \in {"remove", "stop", "join"} =>
           \/ app'.left = ToRemove'
           \/ /\ app.at \in {"remove", "stop", "join"}
              /\ ToRemove' \ (app'.left \cup stray') \subseteq ToRemove \ (app.left \cup stray),
         \/ open \subseteq open'
         \/ /\ app.at \in {"remove", "stop", "join"}
            /\ \A s \in open \ open' : s.view \/ s \in ToRemove \ app.left
  PROVE  QueueInv'
<1>1. \A t \in Threads : loop'[t] \in Running =>
        /\ loop[t] \in Running /\ Waiting(t)' = Waiting(t)
        /\ loop'[t].at = loop[t].at /\ loop'[t].fds = loop[t].fds
        /\ loop'[t].pending = loop[t].pending /\ loop'[t].batch = loop[t].batch
  BY WaitingStays DEF Stands
<1>2. Homed' /\ Emptied'
  BY <1>1 DEF QueueInv, Homed, Emptied
<1>6. Ordered'
  BY <1>1, OrderOfLate DEF QueueInv, Ordered
<1>3. OnlyAdds'
  <2>1. CASE Building'
    <3>1. \A t \in Threads : loop'[t] \in Running
      BY <2>1 DEF Building, Equipped, Places, Shape, LoopShape
    <3>2. app'.at # "threads"
      BY <2>1 DEF Building
    <3> QED
      BY <1>1, <3>1, <3>2 DEF QueueInv, OnlyAdds, AddsOnly
  <2>2. CASE app'.at = "threads" /\ app.at = "threads" /\ app'.n = app.n
    <3>1. \A i \in 1 .. app.n - 1 : /\ ThreadOrder[i] \in Threads
                                    /\ loop[ThreadOrder[i]] \in Running
      BY <2>2, GivenRun
    <3>2. \A i \in 1 .. app.n - 1 : Waiting(ThreadOrder[i])' = Waiting(ThreadOrder[i])
      BY <1>1, <3>1 DEF Stands
    <3> QED
      BY <2>2, <3>2 DEF QueueInv, OnlyAdds, AddsOnly, Building
  <2>3. CASE app'.at = "threads" /\ app'.n = 1
    BY <2>3 DEF OnlyAdds, Building
  <2>4. CASE ~Building' /\ app'.at # "threads"
    BY <2>4 DEF OnlyAdds
  <2> QED
    BY <2>1, <2>2, <2>3, <2>4
<1>4. Posted'
  <2> SUFFICES ASSUME app'.at \in {"remove", "stop", "join"},
                      app.at \in {"remove", "stop", "join"},
                      NEW s \in ToRemove \ (app.left \cup stray), s \in ToRemove'
               PROVE  Touches(ThreadOf[s.key], s)' => Task("remove", s) \in Waiting(ThreadOf[s.key])'
    BY DEF Posted
  <2>1. PICK t \in Threads : t = ThreadOf[s.key]
    BY SdkSessionAssumption DEF Shape, DataShape, ToRemove, Listed, Socket
  <2>2. loop[t] \in Running /\ loop'[t] \in Running
    BY GivenRun DEF Stands
  <2>3. Touches(t, s) => Task("remove", s) \in Waiting(t)
    BY <2>1 DEF QueueInv, Posted
  <2>4. Touches(t, s)' = Touches(t, s)
    BY <1>1, <2>2 DEF Touches
  <2> QED
    BY <1>1, <2>1, <2>2, <2>3, <2>4
<1>5. ClosedIsRemoved'
  <2> SUFFICES ASSUME NEW t \in Threads, loop'[t] \in Running,
                      NEW s \in loop'[t].fds \ open'
               PROVE  Forgotten(s)' \/ Task("remove", s) \in Waiting(t)'
    <3>1. \A t \in Threads : Runs(t)' => loop'[t] \in Running
      BY NotRunning DEF Shape, LoopShape, Runs
    <3> QED
      BY <3>1 DEF ClosedIsRemoved
  <2>1. loop[t] \in Running /\ s \in loop[t].fds /\ Waiting(t)' = Waiting(t) /\ Runs(t)
    BY <1>1, RunsIsRunning DEF Shape
  <2>2. CASE s \notin open
    BY <2>1, <2>2 DEF QueueInv, ClosedIsRemoved, Forgotten
  <2>3. CASE s \in open
    <3> SUFFICES ASSUME ~s.view, s \notin stray
                 PROVE  Task("remove", s) \in Waiting(t)
      BY <2>1 DEF Forgotten
    <3>1. /\ app.at \in {"remove", "stop", "join"}
          /\ s \in ToRemove \ (app.left \cup stray)
      BY <2>3
    <3>2. ThreadOf[s.key] = t
      BY <2>1 DEF QueueInv, Homed
    <3> QED
      BY <2>1, <3>1, <3>2 DEF QueueInv, Posted, Touches
  <2> QED
    BY <2>2, <2>3
<1> QED
  BY <1>2, <1>3, <1>4, <1>5, <1>6 DEF QueueInv

\* A thread keeps all of it, whatever the caller is about to do.
LEMMA QueueRuns ==
  ASSUME Shape, Shape', QueueInv, NEW t \in Threads, LoopStep(t)
  PROVE  QueueInv'
<1>1. PICK r \in Running :
           /\ LoopGoes(t, r) /\ loop[t] \in Running
           /\ InOrder(r.batch, r.pending, stray)
           /\ r.at # "run" => r.batch = <<>>
           /\ Waiting(t)' \subseteq Waiting(t)
           /\ \A s \in r.fds \ loop[t].fds : s \in open /\ Task("add", s) \in Waiting(t)
           /\ \A s : Task("remove", s) \in Waiting(t) \ Waiting(t)' =>
                s \notin r.fds /\ (Task("add", s) \notin Waiting(t)' \/ s \in stray)
  BY ThreadSteps
<1>2. /\ UNCHANGED <<app, open, vec, detection, stray>>
      /\ loop'[t] = r /\ \A u \in Threads \ {t} : loop'[u] = loop[u]
  BY <1>1 DEF LoopGoes, Others, manager, answers, Shape, LoopShape
<1>3. \A u \in Threads : loop'[u] \in Running => loop[u] \in Running
  BY <1>1, <1>2
<1>4. \A u \in Threads \ {t} : Waiting(u)' = Waiting(u)
  BY <1>2, WaitingStays
<1>5. \A u \in Threads : Waiting(u)' \subseteq Waiting(u)
  BY <1>1, <1>4
<1>6. Homed'
  <2>1. \A s \in r.fds : ThreadOf[s.key] = t
    <3>1. \A s : Task("add", s).socket = s
      BY DEF Task
    <3> QED
      BY <1>1, <3>1 DEF QueueInv, Homed
  <2> QED
    BY <1>2, <1>3, <1>5, <2>1 DEF QueueInv, Homed
<1>7. OnlyAdds'
  <2>1. app.at = "threads" => \A i \in 1 .. app.n - 1 : ThreadOrder[i] \in Threads
    BY GivenRun
  <2> QED
    BY <1>2, <1>5, <2>1 DEF QueueInv, OnlyAdds, AddsOnly, Building
<1>8. Ordered' /\ Emptied'
  BY <1>1, <1>2 DEF QueueInv, Ordered, Emptied
<1>9. Posted'
  <2> SUFFICES ASSUME app.at \in {"remove", "stop", "join"},
                      NEW s \in ToRemove \ (app.left \cup stray),
                      Touches(ThreadOf[s.key], s)'
               PROVE  Task("remove", s) \in Waiting(ThreadOf[s.key])'
    BY <1>2 DEF Posted, ToRemove, Listed
  <2>1. PICK u \in Threads : u = ThreadOf[s.key]
    BY SdkSessionAssumption DEF Shape, DataShape, ToRemove, Listed, Socket
  <2>2. Touches(u, s)' /\ (Touches(u, s) => Task("remove", s) \in Waiting(u))
    BY <2>1 DEF QueueInv, Posted
  <2>3. CASE u = t
    <3>1. s \in r.fds \/ Task("add", s) \in Waiting(t)'
      BY <1>2, <2>2, <2>3 DEF Touches
    <3>2. Touches(t, s)
      BY <1>1, <3>1 DEF Touches
    <3> QED
      BY <1>1, <2>1, <2>2, <2>3, <3>1, <3>2
  <2>4. CASE u # t
    BY <1>2, <1>4, <2>1, <2>2, <2>4 DEF Touches
  <2> QED
    BY <2>3, <2>4
<1>10. ClosedIsRemoved'
  <2> SUFFICES ASSUME NEW u \in Threads, Runs(u)', NEW s \in loop'[u].fds \ open
               PROVE  Forgotten(s) \/ Task("remove", s) \in Waiting(u)'
    BY <1>2 DEF ClosedIsRemoved, Forgotten
  <2>1. CASE u = t
    <3>1. s \in loop[t].fds /\ s \in r.fds /\ Runs(t)
      BY <1>1, <1>2, <2>1, RunsIsRunning DEF Shape
    <3>2. Forgotten(s) \/ Task("remove", s) \in Waiting(t)
      BY <3>1 DEF QueueInv, ClosedIsRemoved
    <3> QED
      BY <1>1, <2>1, <3>1, <3>2
  <2>2. CASE u # t
    <3>1. loop'[u] = loop[u] /\ Waiting(u)' = Waiting(u)
      BY <1>2, <1>4, <2>2
    <3>2. Runs(u)
      BY <3>1 DEF Runs
    <3> QED
      BY <3>1, <3>2 DEF QueueInv, ClosedIsRemoved
  <2> QED
    BY <2>1, <2>2
<1> QED
  BY <1>6, <1>7, <1>8, <1>9, <1>10 DEF QueueInv

\* A task that is posted: an addition while nothing is removed, a removal, or an addition that
\* comes late.
LEMMA QueuePosts ==
  ASSUME Shape, Shape', QueueInv, NEW op \in {"add", "remove"}, NEW s \in Socket,
         NEW t \in Threads, t = ThreadOf[s.key], loop[t] \in Running,
         loop' = Pushed(t, Task(op, s)), Task(op, s) \in Tasks,
         open \subseteq open', stray' = stray,
         \/ /\ op = "add" /\ Building /\ app'.at \notin {"threads", "remove", "stop", "join"}
         \/ /\ op = "remove" /\ app.at = "remove" /\ app'.at = "remove"
            /\ ToRemove' = ToRemove /\ app'.left = app.left \ {s}
         \/ op = "add" /\ s \in stray /\ app' = app /\ ToRemove' = ToRemove
  PROVE  QueueInv'
<1>1. /\ loop'[t] \in Running
      /\ loop'[t].pending = Append(loop[t].pending, Task(op, s))
      /\ loop'[t].at = loop[t].at /\ loop'[t].batch = loop[t].batch
      /\ loop'[t].fds = loop[t].fds
      /\ \A u \in Threads \ {t} : loop'[u] = loop[u]
  BY PushedFacts DEF Shape, LoopShape
<1>2. loop[t].pending \in Seq(Tasks) /\ loop[t].batch \in Seq(Tasks)
  BY DEF Running
<1>3. Waiting(t)' = Waiting(t) \cup {Task(op, s)}
  BY <1>1, <1>2, PushedWaits
<1>4. \A u \in Threads \ {t} : Waiting(u)' = Waiting(u)
  BY <1>1, WaitingStays
<1>5. \A u \in Threads : (loop'[u] \in Running <=> loop[u] \in Running)
                         /\ loop'[u].fds = loop[u].fds /\ Waiting(u) \subseteq Waiting(u)'
  BY <1>1, <1>3, <1>4
<1>6. \A o, r : Task(o, r).op = o /\ Task(o, r).socket = r
  BY DEF Task
<1>7. Homed'
  <2> SUFFICES ASSUME NEW u \in Threads, loop'[u] \in Running
               PROVE  /\ \A r \in loop'[u].fds : ThreadOf[r.key] = u
                      /\ \A task \in Waiting(u)' : ThreadOf[task.socket.key] = u
    BY DEF Homed
  <2>1. /\ \A r \in loop[u].fds : ThreadOf[r.key] = u
        /\ \A task \in Waiting(u) : ThreadOf[task.socket.key] = u
    BY <1>5 DEF QueueInv, Homed
  <2>2. \A task \in Waiting(u)' : task \in Waiting(u) \/ (u = t /\ task = Task(op, s))
    BY <1>3, <1>4
  <2> QED
    BY <1>5, <1>6, <2>1, <2>2
<1>8. Ordered' /\ Emptied'
  <2>1. InOrder(loop[t].batch, loop[t].pending, stray)
    BY DEF QueueInv, Ordered
  <2>2. \/ MayFollow(Task(op, s), stray)
        \/ \A other \in Range(loop[t].batch) \cup Range(loop[t].pending) : other.op = "add"
    BY <1>6 DEF QueueInv, OnlyAdds, AddsOnly, Waiting, MayFollow
  <2>3. InOrder(loop'[t].batch, loop'[t].pending, stray')
    <3>1. InOrder(loop[t].batch, Append(loop[t].pending, Task(op, s)), stray)
      BY <1>2, <1>6, <2>1, <2>2, OrderOfAppend
    <3> QED
      BY <1>1, <3>1
  <2> QED
    BY <1>1, <2>3, ZenonT(30) DEF QueueInv, Ordered, Emptied
<1>9. OnlyAdds'
  <2>1. CASE op = "remove"
    BY <2>1 DEF OnlyAdds, Building
  <2>2. CASE op = "add"
    <3>1. \A u \in Threads : AddsOnly(u) => AddsOnly(u)'
      BY <1>3, <1>4, <1>6, <2>2 DEF AddsOnly
    <3>2. \/ Building /\ app'.at # "threads"
          \/ app' = app
      BY <2>2
    <3>3. app.at = "threads" => \A i \in 1 .. app.n - 1 : ThreadOrder[i] \in Threads
      BY GivenRun
    <3> QED
      BY <3>1, <3>2, <3>3 DEF QueueInv, OnlyAdds, Building
  <2> QED
    BY <2>1, <2>2
<1>10. Posted'
  <2> SUFFICES ASSUME app.at \in {"remove", "stop", "join"},
                      app'.left = IF op = "remove" THEN app.left \ {s} ELSE app.left,
                      op = "add" => s \in stray,
                      ToRemove' = ToRemove,
                      NEW r \in ToRemove \ (app'.left \cup stray),
                      Touches(ThreadOf[r.key], r)'
               PROVE  Task("remove", r) \in Waiting(ThreadOf[r.key])'
    BY DEF Posted, Building
  <2>1. PICK u \in Threads : u = ThreadOf[r.key]
    BY SdkSessionAssumption DEF Shape, DataShape, ToRemove, Listed, Socket
  <2>2. CASE r = s
    BY <1>3, <2>1, <2>2
  <2>3. CASE r # s
    <3>1. r \in ToRemove \ (app.left \cup stray)
      BY <2>3
    <3>2. Touches(u, r) => Task("remove", r) \in Waiting(u)
      BY <2>1, <3>1 DEF QueueInv, Posted
    <3>3. Touches(u, r)'
      BY <2>1
    <3>4. Touches(u, r)
      BY <1>3, <1>4, <1>5, <1>6, <3>3 DEF Touches
    <3> QED
      BY <1>5, <2>1, <3>2, <3>4
  <2> QED
    BY <2>2, <2>3
<1>11. ClosedIsRemoved'
  <2> SUFFICES ASSUME NEW u \in Threads, Runs(u)', NEW r \in loop'[u].fds \ open'
               PROVE  Forgotten(r) \/ Task("remove", r) \in Waiting(u)'
    BY DEF ClosedIsRemoved, Forgotten
  <2>1. Runs(u)
    BY <1>1 DEF Runs
  <2> QED
    BY <1>5, <2>1 DEF QueueInv, ClosedIsRemoved
<1> QED
  BY <1>7, <1>8, <1>9, <1>10, <1>11 DEF QueueInv

\* What stands for no socket is none.
LEMMA NamedSocket == NoSocket \notin Socket
<1>1. \A s \in Socket : DOMAIN s = {"key", "session", "view", "nr"}
  BY DEF Socket
<1>2. DOMAIN NoSocket = {"key"}
  BY DEF NoSocket
<1>3. "session" \notin {"key"}
  OBVIOUS
<1> QED
  BY <1>1, <1>2, <1>3

LEMMA QueueInductive ==
  ASSUME Shape, QueueInv, [Next]_vars
  PROVE  QueueInv'
<1>1. Shape'
  BY ShapeInductive
<1>2. ASSUME loop' = loop
      PROVE  \A t \in Threads : Stands(t)
  BY <1>2 DEF Stands
<1>3. ASSUME UNCHANGED <<open, vec, detection, stray>>, \A t \in Threads : Stands(t),
             app'.at = app.at, app'.n = app.n, app'.left = app.left
      PROVE  QueueInv'
  <2>1. ToRemove' = ToRemove /\ Building' = Building
    BY <1>3 DEF ToRemove, Listed, Building
  <2> QED
    BY <1>1, <1>3, <2>1, QueueStands
<1>4. ASSUME UNCHANGED <<loop, open>>, app'.at \notin {"threads", "remove", "stop", "join"},
             Building' => Building, stray' = stray
      PROVE  QueueInv'
    BY <1>1, <1>2, <1>4, QueueStands
<1>5. ASSUME NEW isView \in BOOLEAN, InitBegin(isView)
      PROVE  QueueInv'
  <2>1. app'.at = "threads" /\ app'.n = 1 /\ UNCHANGED <<loop, open, stray>>
    BY <1>5 DEF InitBegin, App, answers
  <2>2. ~Building'
    BY <2>1 DEF Building
  <2> QED
    BY <1>1, <1>2, <2>1, <2>2, QueueStands
<1>6. ASSUME \/ WakeUp /\ UNCHANGED answers
             \/ CallWakes
      PROVE  QueueInv'
  <2>1. PICK t \in Threads :
          /\ loop' = Woken(t)
          /\ UNCHANGED <<open, vec, detection, stray>>
          /\ app'.at = app.at /\ app'.n = app.n /\ app'.left = app.left
    <3>1. CASE WakeUp /\ UNCHANGED answers
      BY <3>1, WakeFacts DEF WakeUp, manager, answers
    <3>2. CASE CallWakes
      BY <3>2, CallWakesFacts DEF manager
    <3> QED
      BY <1>6, <3>1, <3>2
  <2>2. \A u \in Threads : Stands(u)
    <3> SUFFICES ASSUME NEW u \in Threads
                 PROVE  Stands(u)
      OBVIOUS
    <3>1. CASE u = t
      BY <2>1, <3>1, WokenFacts DEF Stands
    <3>2. CASE u # t
      BY <2>1, <3>2, WokenFacts DEF Stands
    <3> QED
      BY <3>1, <3>2
  <2> QED
    BY <1>3, <2>1, <2>2
<1>7. ASSUME CreateIOThread, UNCHANGED answers
      PROVE  QueueInv'
  <2>1. PICK t \in Threads :
           /\ t = ThreadOrder[app.n] /\ app.n \in 1 .. Len(ThreadOrder)
           /\ app.at = "threads"
           /\ UNCHANGED <<open, vec, detection>>
           /\ \/ /\ loop' = [loop EXCEPT ![t] = NewLoop]
                 /\ app' = IF app.n = Len(ThreadOrder) THEN App("sockets", 1)
                           ELSE App("threads", app.n + 1)
              \/ loop' = [loop EXCEPT ![t] = Broken] /\ InitFails
    BY <1>7, ThreadFacts
  <2>2. /\ loop'[t] = NewLoop \/ loop'[t] = Broken
        /\ \A u \in Threads \ {t} : loop'[u] = loop[u]
    BY <2>1 DEF Shape, LoopShape
  <2>3. /\ loop'[t] \in Running => /\ loop'[t].at = "poll" /\ loop'[t].fds = {}
                                   /\ loop'[t].pending = <<>> /\ loop'[t].batch = <<>>
        /\ loop'[t].at = "poll" \/ loop'[t].at = "broken"
        /\ Runs(t)' => loop'[t] \in Running
    BY <2>2, NewLoopRuns, NotRunning DEF Runs
  <2>4. loop'[t] \in Running => Waiting(t)' = {}
    BY <2>3 DEF Waiting, Range
  <2>5. \A u \in Threads \ {t} : Waiting(u)' = Waiting(u)
    BY <2>2, WaitingStays
  <2>6. app'.at \in {"sockets", "threads", "idle"}
    BY <2>1 DEF InitFails, Idle, App
  <2>7. Homed' /\ Emptied'
    BY <2>2, <2>3, <2>4, <2>5 DEF QueueInv, Homed, Emptied
  <2>8. Ordered'
    <3>1. loop'[t] \in Running => InOrder(loop'[t].batch, loop'[t].pending, stray')
      BY <2>3 DEF InOrder
    <3>2. stray' = stray
      BY <1>7 DEF answers
    <3> QED
      BY <2>2, <3>1, <3>2 DEF QueueInv, Ordered
  <2>9. OnlyAdds'
    <3>1. CASE loop' = [loop EXCEPT ![t] = NewLoop]
               /\ app' = IF app.n = Len(ThreadOrder) THEN App("sockets", 1)
                         ELSE App("threads", app.n + 1)
      <4>1. \A i \in 1 .. app.n : AddsOnly(ThreadOrder[i])'
        <5> SUFFICES ASSUME NEW i \in 1 .. app.n
                     PROVE  AddsOnly(ThreadOrder[i])'
          OBVIOUS
        <5>1. PICK u \in Threads : u = ThreadOrder[i]
          BY <2>1, OrderFacts
        <5>2. CASE u = t
          <6>1. loop'[t] \in Running
            BY <3>1, NewLoopRuns DEF Shape, LoopShape
          <6>2. AddsOnly(u)'
            BY <2>4, <5>2, <6>1 DEF AddsOnly
          <6> QED
            BY <5>1, <6>2
        <5>3. CASE u # t
          <6>1. i \in 1 .. app.n - 1
            BY <2>1, <5>1, <5>3
          <6>2. AddsOnly(u)
            BY <2>1, <5>1, <6>1 DEF QueueInv, OnlyAdds
          <6>3. AddsOnly(u)'
            BY <2>5, <5>3, <6>2 DEF AddsOnly
          <6> QED
            BY <5>1, <6>3
        <5> QED
          BY <5>2, <5>3
      <4>2. CASE app.n = Len(ThreadOrder)
        <5>1. app'.at = "sockets"
          BY <3>1, <4>2 DEF App
        <5>2. \A u \in Threads : \E i \in 1 .. app.n : ThreadOrder[i] = u
          BY <4>2, OrderFacts
        <5>3. \A u \in Threads : AddsOnly(u)'
          BY <4>1, <5>2
        <5> QED
          BY <5>1, <5>3 DEF OnlyAdds
      <4>3. CASE app.n # Len(ThreadOrder)
        <5>1. app'.at = "threads" /\ app'.n = app.n + 1
          BY <3>1, <4>3 DEF App
        <5>2. \A i \in 1 .. app'.n - 1 : i \in 1 .. app.n
          BY <2>1, <5>1
        <5>3. ~Building'
          BY <5>1 DEF Building
        <5> QED
          BY <4>1, <5>2, <5>3 DEF OnlyAdds
      <4> QED
        BY <4>2, <4>3
    <3>2. CASE InitFails
      BY <3>2 DEF InitFails, Idle, App, OnlyAdds, Building
    <3> QED
      BY <2>1, <3>1, <3>2
  <2>10. Posted'
    BY <2>6 DEF Posted
  <2>11. ClosedIsRemoved'
    <3> SUFFICES ASSUME NEW u \in Threads, Runs(u)', NEW s \in loop'[u].fds \ open
                 PROVE  Forgotten(s) \/ Task("remove", s) \in Waiting(u)'
      BY <1>7, <2>1 DEF ClosedIsRemoved, Forgotten, answers
    <3>1. u # t
      BY <2>3
    <3>2. Runs(u) /\ s \in loop[u].fds
      BY <2>2, <3>1 DEF Runs
    <3> QED
      BY <2>5, <3>1, <3>2 DEF QueueInv, ClosedIsRemoved
  <2> QED
    BY <2>7, <2>8, <2>9, <2>10, <2>11 DEF QueueInv
<1>8. ASSUME CreateChannel, UNCHANGED answers
      PROVE  QueueInv'
  <2>1. Ready("sockets") /\ app.at = "sockets" /\ Equipped /\ Building
        /\ UNCHANGED <<view, sessions, stray>>
    BY <1>8 DEF CreateChannel, Ready, Equipped, Places, Building, answers
  <2>2. CASE CreateSocket(Plan[app.n])
    <3>1. PICK s \in Socket :
              /\ Post("add", s, AfterSocket)
              /\ open' = open \cup {s}
              /\ AfterSocket \in [at : Places \ {"idle", "threads"}, n : Nat, wake : {"none"},
                                  left : SUBSET Socket]
              /\ AfterSocket.left = {} /\ AfterSocket.at \in {"sockets", "detect"}
              /\ AfterSocket.at = "sockets" => AfterSocket.n \in 1 .. Len(Plan)
      BY <2>1, <2>2, CreateFacts
    <3>2. /\ loop' = Pushed(ThreadOf[s.key], Task("add", s))
          /\ ThreadOf[s.key] \in Threads /\ loop[ThreadOf[s.key]] \in Running
          /\ Task("add", s) \in Tasks
          /\ app'.at = AfterSocket.at
      BY <2>1, <3>1, PostMoves
    <3>3. app'.at \notin {"threads", "remove", "stop", "join"} /\ open \subseteq open'
      BY <3>1, <3>2
    <3> QED
      BY <1>1, <2>1, <3>2, <3>3, QueuePosts
  <2>3. CASE InitFails /\ UNCHANGED <<open, loop>>
    BY <1>4, <2>1, <2>3 DEF InitFails, Idle, App
  <2>4. CASE app' = AfterSocket /\ UNCHANGED <<open, loop>>
    <3>1. app'.at \in {"sockets", "detect"}
      BY <2>4 DEF AfterSocket, App
    <3> QED
      BY <1>4, <2>1, <2>4, <3>1
  <2> QED
    BY <1>8, <2>2, <2>3, <2>4 DEF CreateChannel
<1>9. ASSUME RemoveSocket, UNCHANGED answers
      PROVE  QueueInv'
  <2>1. PICK s \in app.left : \E next :
           /\ s \in Socket /\ s \in ToRemove
           /\ Post("remove", s, next)
           /\ next \in [at : Places \ {"idle", "threads"}, n : Nat, wake : {"none"},
                        left : SUBSET Socket]
           /\ next.at = "remove" /\ next.left = app.left \ {s}
    BY <1>9, RemoveFacts
  <2>2. /\ Equipped /\ app.at = "remove" /\ ToRemove' = ToRemove /\ app.left \subseteq ToRemove
        /\ UNCHANGED <<open, view, sessions, stray>>
    BY <1>9 DEF RemoveSocket, Ready, Equipped, Places, ToRemove, Listed, Shape, AppShape,
                manager, answers
  <2>3. /\ loop' = Pushed(ThreadOf[s.key], Task("remove", s))
        /\ ThreadOf[s.key] \in Threads /\ loop[ThreadOf[s.key]] \in Running
        /\ Task("remove", s) \in Tasks
        /\ app'.at = "remove" /\ app'.left = app.left \ {s}
    BY <2>1, <2>2, PostMoves
  <2> QED
    BY <1>1, <2>1, <2>2, <2>3, QueuePosts
<1>10. ASSUME StartDetection \/ ResetStop \/ Clear, UNCHANGED answers
       PROVE  QueueInv'
  <2>1. /\ app'.at \in {"reset", "up", "idle"} /\ UNCHANGED <<loop, open, stray>>
        /\ app.at \in {"detect", "reset"} \/ app'.at = "idle"
    BY <1>10 DEF StartDetection, ResetStop, Clear, Ready, Up, Idle, App, answers
  <2>2. Building' => Building
    BY <2>1 DEF Building
  <2> QED
    BY <1>4, <2>1, <2>2
<1>11. ASSUME Uninit
       PROVE  QueueInv'
  <2>1. /\ app' = [at |-> "remove", n |-> 0, wake |-> "none", left |-> ToRemove]
        /\ ToRemove' = ToRemove /\ UNCHANGED <<loop, open>> /\ stray \subseteq stray'
    BY <1>11 DEF Uninit, App, ToRemove, Listed, manager
  <2>2. app'.at = "remove" /\ app'.left = ToRemove' /\ ~Building'
    BY <2>1 DEF Building
  <2> QED
    BY <1>1, <1>2, <2>1, <2>2, QueueStands
<1>12. ASSUME CloseSockets, UNCHANGED answers
       PROVE  QueueInv'
  <2>1. /\ app.at = "remove" /\ app.left = {} /\ app'.at = "stop" /\ app'.left = {}
        /\ open' = open \ vec /\ vec' = {} /\ UNCHANGED <<loop, detection, stray>>
    BY <1>12 DEF CloseSockets, Closed, Ready, App, answers
  <2>2. /\ ToRemove' \subseteq ToRemove /\ ~Building'
        /\ \A s \in vec : s.view \/ s \in ToRemove
    BY <2>1 DEF ToRemove, Listed, Building
  <2> QED
    BY <1>1, <1>2, <2>1, <2>2, QueueStands
<1>13. ASSUME StopDetection, UNCHANGED answers
       PROVE  QueueInv'
  <2>1. /\ app.at = "stop" /\ app.left = {} /\ app'.at = "join" /\ app'.left = {}
        /\ UNCHANGED <<loop, open, vec, detection, stray>>
    BY <1>13 DEF StopDetection, Ready, App, manager, answers, Shape, AppShape
  <2>2. ToRemove' = ToRemove /\ ~Building'
    BY <2>1 DEF ToRemove, Listed, Building
  <2> QED
    BY <1>1, <1>2, <2>1, <2>2, QueueStands
<1>14. ASSUME JoinDetection, UNCHANGED answers
       PROVE  QueueInv'
  <2>1. /\ app.at = "join" /\ app.left = {} /\ app'.at = "clear"
        /\ open' = open \ detection /\ UNCHANGED <<loop, stray>>
    BY <1>14 DEF JoinDetection, Ready, App, answers, Shape, AppShape
  <2>2. detection \subseteq ToRemove /\ ~Building'
    BY <2>1 DEF ToRemove, Building
  <2> QED
    BY <1>1, <1>2, <2>1, <2>2, QueueStands
<1>15. ASSUME Detect \/ UNCHANGED vars
       PROVE  QueueInv'
  <2>1. UNCHANGED <<app, loop, open, vec, detection, stray>>
    BY <1>15 DEF Detect, Others, vars, manager, answers
  <2> QED
    BY <1>2, <1>3, <2>1
<1>16. ASSUME NEW t \in Threads, LoopStep(t)
       PROVE  QueueInv'
  BY <1>1, <1>16, QueueRuns
<1>17. ASSUME Answer \/ AnswerEnds
       PROVE  QueueInv'
  <2>1. UNCHANGED <<app, loop, open, vec, detection, stray>>
    BY <1>17, AnswerFacts DEF manager
  <2> QED
    BY <1>2, <1>3, <2>1
<1>18. ASSUME OpenChannel
       PROVE  QueueInv'
  <2>1. /\ UNCHANGED <<app, loop, detection>>
        /\ \/ \E s \in Socket :
                /\ open' = open \cup {s} /\ vec' = vec \cup {s}
                /\ stray' = IF app.at \in {"reset", "up"} THEN stray ELSE stray \cup {s}
           \/ UNCHANGED <<open, vec, stray>>
    BY <1>18, OpenFacts
  <2>2. stray \subseteq stray' /\ open \subseteq open' /\ Building' = Building
    BY <2>1 DEF Building
  <2>3. app.at \in {"remove", "stop", "join"} =>
           ToRemove' \ (app'.left \cup stray') \subseteq ToRemove \ (app.left \cup stray)
    BY <2>1 DEF ToRemove, Listed
  <2> QED
    BY <1>1, <1>2, <2>1, <2>2, <2>3, QueueStands
<1>19. ASSUME HandOver
       PROVE  QueueInv'
  <2>1. PICK t \in Threads, s \in Socket :
           /\ s = call.socket /\ t = ThreadOf[s.key]
           /\ loop[t] \in Running /\ Task("add", s) \in Tasks
           /\ loop' = Pushed(t, Task("add", s))
           /\ UNCHANGED <<app, open, manager, stray>>
    BY <1>19, HandFacts
  <2>2. s # NoSocket /\ ToRemove' = ToRemove
    BY <2>1, NamedSocket DEF ToRemove, Listed, manager
  <2>3. CASE app.at \in {"reset", "up"}
    BY <1>1, <2>1, <2>3, QueuePosts DEF Building
  <2>4. CASE app.at \notin {"reset", "up"}
    <3>1. s \in stray
      BY <2>1, <2>2, <2>4 DEF Shape, CallShape
    <3> QED
      BY <1>1, <2>1, <2>2, <3>1, QueuePosts
  <2> QED
    BY <2>3, <2>4
<1> QED
  BY <1>5, <1>6, <1>7, <1>8, <1>9, <1>10, <1>11, <1>12, <1>13, <1>14, <1>15, <1>16, <1>17,
     <1>18, <1>19 DEF Next, AppStep, CallStep

\* A task is on the loop of its socket, nothing is removed while Init or a session is under way,
\* no addition follows a removal unless it comes late, and every socket that Uninit has posted
\* the removal of is not read any more or about to be removed.
THEOREM QueueCorrect == Spec => []QueueInv
<1>1. Init => QueueInv
  <2> SUFFICES ASSUME Init
               PROVE  QueueInv
    OBVIOUS
  <2>1. /\ \A t \in Threads : loop[t] \notin Running /\ ~Runs(t)
        /\ app.at = "idle"
    BY NotRunning DEF Init, Runs, Idle, App
  <2> QED
    BY <2>1 DEF QueueInv, Homed, OnlyAdds, Ordered, Emptied, Posted, ClosedIsRemoved, Building
<1> QED
  BY <1>1, QueueInductive, ShapeCorrect, PTL DEF Spec

\* The loops are given well-formed tasks, and a socket that was closed is polled only until a
\* removal that waits has run, however the tasks of the sessions pile up, unless it was opened
\* for a lidar in view mode or not handed over when Uninit began: of those Destory posts no
\* removal, and a loop may poll them closed.
THEOREM LoopsCorrect == Spec => []LoopsOK
<1>1. QueueInv /\ TypeOK => LoopsOK
  BY DEF QueueInv, LoopsOK
<1> QED
  BY <1>1, QueueCorrect, Typing, PTL

-----------------------------------------------------------------------------
(***************************************************************************)
(* The channels of a session.                                              *)
(***************************************************************************)
\* A channel is read on as long as the loops, the sockets and the channel stay.
LEMMA ReadStays ==
  ASSUME NEW k \in Keys, Settled(k), channel'[k] = channel[k], open \subseteq open',
         loop[ThreadOf[k]].fds \subseteq loop'[ThreadOf[k]].fds,
         Waiting(ThreadOf[k]) \subseteq Waiting(ThreadOf[k])',
         call'.socket = call.socket, stray \subseteq stray'
  PROVE  Settled(k)'
<1>1. CASE Vacant(k)
  BY <1>1 DEF Settled, Vacant
<1>2. CASE IsRead(k)
  <2>1. \/ channel'[k] \in loop'[ThreadOf[k]].fds
        \/ Task("add", channel'[k]) \in Waiting(ThreadOf[k])'
        \/ call'.socket = channel'[k]
    BY <1>2 DEF IsRead, Touches
  <2> QED
    BY <1>2, <2>1 DEF Settled, IsRead, Touches
<1> QED
  BY <1>1, <1>2 DEF Settled

\* The same for what a session that is built has reached: a step that only adds to it.
LEMMA WholeStays ==
  ASSUME Shape, WholeInv, Building, Building',
         UNCHANGED <<view, portView, sessions, failed>>,
         \A k \in Keys : channel[k] # NoSocket => channel'[k] # NoSocket,
         \A k \in Keys : Settled(k) => Settled(k)',
         \A i \in DOMAIN Plan : (app'.at = "sockets" => i < app'.n) =>
           \/ app.at = "sockets" => i < app.n
           \/ Plan[i] \in Unnamed \/ channel'[Plan[i]] # NoSocket
  PROVE  WholeInv'
<1>1. app'.at \notin {"idle", "threads"}
  BY DEF Building
<1>2. Plan' = Plan /\ \A i \in DOMAIN Plan : Plan[i] \in Keys
  BY PlanType, PlanStays DEF Shape, DataShape
<1>3. Fresh' = Fresh
  BY DEF Fresh
<1> SUFFICES ASSUME Fresh
             PROVE  /\ portView' = view'
                    /\ \A k \in Keys : Settled(k)'
                    /\ \A i \in DOMAIN Plan : (app'.at = "sockets" => i < app'.n) =>
                         Plan[i] \in Unnamed \/ channel'[Plan[i]] # NoSocket
  BY <1>1, <1>2, <1>3 DEF WholeInv, Unnamed
<1>4. /\ portView = view
      /\ \A k \in Keys : Settled(k)
      /\ \A i \in DOMAIN Plan : (app.at = "sockets" => i < app.n) =>
           Plan[i] \in Unnamed \/ channel[Plan[i]] # NoSocket
  BY DEF WholeInv
<1>5. \A k \in Keys : Settled(k)'
  BY <1>4
<1>6. \A i \in DOMAIN Plan : (app'.at = "sockets" => i < app'.n) =>
        Plan[i] \in Unnamed \/ channel'[Plan[i]] # NoSocket
  BY <1>2, <1>4
<1> QED
  BY <1>4, <1>5, <1>6

LEMMA WholeInductive ==
  ASSUME Shape, QueueInv, WholeInv, [Next]_vars
  PROVE  WholeInv'
<1>1. sessions \in Nat
  BY SdkSessionAssumption DEF Shape, DataShape
<1>2. ASSUME UNCHANGED <<view, port, portView, sessions, failed>>,
             app'.at = app.at, app'.n = app.n,
             \A k \in Keys : channel[k] # NoSocket => channel'[k] # NoSocket,
             Building => \A k \in Keys : Settled(k) => Settled(k)',
             ~Building => \A k \in Keys : Vacant(k) => Vacant(k)'
      PROVE  WholeInv'
  <2>1. CASE Building
    <3>1. Building'
      BY <1>2, <2>1 DEF Building
    <3> QED
      BY <1>2, <2>1, <3>1, WholeStays
  <2>2. CASE ~Building
    <3>1. Fresh' = Fresh
      BY <1>2 DEF Fresh
    <3> QED
      BY <1>2, <2>2, <3>1 DEF WholeInv, Building
  <2> QED
    BY <2>1, <2>2
<1>3. ASSUME UNCHANGED <<loop, open, channel, stray>>, call'.socket = call.socket
      PROVE  \A k \in Keys : Settled(k) => Settled(k)'
    BY <1>3, ReadStays DEF Waiting
<1>14. ASSUME UNCHANGED <<channel, stray>>, NEW k \in Keys, Vacant(k)
       PROVE  Vacant(k)'
    BY <1>14 DEF Vacant
<1>15. UNCHANGED answers => UNCHANGED <<call, grown, stray>>
  BY DEF answers
<1>4. ASSUME InitFails, sessions' = sessions
      PROVE  WholeInv'
  <2>1. app'.at = "idle" /\ sessions' \in failed'
    BY <1>4 DEF InitFails, Idle, App
  <2> QED
    BY <2>1 DEF WholeInv, Building
<1>5. ASSUME NEW isView \in BOOLEAN, InitBegin(isView)
      PROVE  WholeInv'
  <2>1. /\ app.at = "idle" /\ app'.at = "threads" /\ sessions' - 1 = sessions
        /\ UNCHANGED <<failed, channel, stray>> /\ view' = isView
        /\ portView' = IF isView THEN TRUE ELSE IF port THEN portView ELSE FALSE
    BY <1>1, <1>5 DEF InitBegin, Ready, App, answers
  <2>2. ~Building' /\ (Fresh' <=> sessions \notin failed)
    BY <2>1 DEF Building, Fresh
  <2>3. sessions \notin failed => portView' = view'
    BY <2>1 DEF WholeInv
  <2> QED
    BY <1>14, <2>1, <2>2, <2>3 DEF WholeInv
<1>6. ASSUME \/ WakeUp /\ UNCHANGED answers
             \/ CallWakes
      PROVE  WholeInv'
  <2>1. PICK t \in Threads :
          /\ loop' = Woken(t)
          /\ UNCHANGED <<open, channel, view, port, portView, sessions, failed, stray>>
          /\ app'.at = app.at /\ app'.n = app.n /\ call'.socket = call.socket
    <3>1. CASE WakeUp /\ UNCHANGED answers
      BY <1>15, <3>1, WakeFacts DEF WakeUp, manager
    <3>2. CASE CallWakes
      BY <3>2, CallWakesFacts DEF manager
    <3> QED
      BY <1>6, <3>1, <3>2
  <2>2. ASSUME NEW k \in Keys, Building, Settled(k)
        PROVE  Settled(k)'
    <3>1. PICK u \in Threads : u = ThreadOf[k]
      BY SdkSessionAssumption
    <3>2. loop[u] \in Running
      BY <2>2, GivenRun
    <3>3. /\ loop'[u].fds = loop[u].fds
          /\ loop'[u].pending = loop[u].pending
          /\ loop'[u].batch = loop[u].batch
      <4>1. CASE u = t
        BY <2>1, <3>2, <4>1, WokenFacts
      <4>2. CASE u # t
        BY <2>1, <4>2, WokenFacts
      <4> QED
        BY <4>1, <4>2
    <3>4. Waiting(u)' = Waiting(u)
      BY <3>3, WaitingStays
    <3> QED
      BY <2>1, <2>2, <3>1, <3>3, <3>4, ReadStays
  <2> QED
    BY <1>2, <1>14, <2>1, <2>2
<1>7. ASSUME CreateIOThread, UNCHANGED answers
      PROVE  WholeInv'
  <2>1. /\ app.at = "threads"
        /\ UNCHANGED <<port, portView, view, channel, sessions, stray>>
        /\ \/ /\ app' = IF app.n = Len(ThreadOrder) THEN App("sockets", 1)
                        ELSE App("threads", app.n + 1)
              /\ failed' = failed
           \/ InitFails
    BY <1>7, <1>15, ThreadFacts
  <2>2. CASE InitFails
    BY <1>4, <2>1, <2>2
  <2>3. CASE ~InitFails
    <3>1. /\ app'.at = "threads" \/ (app'.at = "sockets" /\ app'.n = 1)
          /\ failed' = failed
      BY <2>1, <2>3 DEF App
    <3>2. (Fresh' <=> Fresh) /\ Plan' = Plan
      BY <2>1, <3>1, PlanStays DEF Fresh
    <3>3. Fresh => (\A k \in Keys : Vacant(k)') /\ portView = view
      BY <1>14, <2>1 DEF WholeInv
    <3>4. \A i \in DOMAIN Plan : ~(i < 1)
      BY PlanType DEF Shape, DataShape
    <3>5. CASE app'.at = "threads"
      BY <2>1, <3>2, <3>3, <3>5 DEF WholeInv, Building
    <3>6. CASE app'.at = "sockets" /\ app'.n = 1
      <4>1. Fresh => \A k \in Keys : Settled(k)'
        BY <3>3 DEF Settled
      <4> QED
        BY <2>1, <3>2, <3>3, <3>4, <3>6, <4>1 DEF WholeInv, Building
    <3> QED
      BY <3>1, <3>5, <3>6
  <2> QED
    BY <2>2, <2>3
<1>8. ASSUME CreateChannel, UNCHANGED answers
      PROVE  WholeInv'
  <2>1. Ready("sockets") /\ app.at = "sockets" /\ Equipped /\ Building
        /\ UNCHANGED <<view, portView, sessions, call, stray>>
    BY <1>8, <1>15 DEF CreateChannel, Ready, Equipped, Places, Building
  <2>2. /\ app.n \in 1 .. Len(Plan) /\ Len(Plan) \in Nat /\ DOMAIN Plan = 1 .. Len(Plan)
        /\ Plan[app.n] \in Keys
    BY <2>1, PlanType DEF Shape, AppShape, DataShape
  <2>3. PICK k \in Keys : k = Plan[app.n]
    BY <2>2
  <2>4. ASSUME app'.at \in {"sockets", "detect"},
               app'.at = "sockets" => app'.n = app.n + 1
        PROVE  /\ Building'
               /\ \A i \in DOMAIN Plan : (app'.at = "sockets" => i < app'.n) =>
                    (app.at = "sockets" => i < app.n) \/ Plan[i] = k
                    \/ (app'.at = "detect" /\ app.n # Len(Plan))
    <3>1. \A i \in DOMAIN Plan : i < app.n + 1 => i < app.n \/ i = app.n
      BY <2>2
    <3>2. app.n = Len(Plan) => \A i \in DOMAIN Plan : i < app.n \/ i = app.n
      BY <2>2
    <3>3. Building'
      BY <2>4 DEF Building
    <3> QED
      BY <2>3, <2>4, <3>1, <3>2, <3>3
  <2>5. CASE CreateSocket(k)
    <3>1. PICK s \in Socket :
              /\ s = [key |-> k, session |-> sessions,
                      view |-> FALSE, nr |-> app.n]
              /\ Post("add", s, AfterSocket)
              /\ open' = open \cup {s}
              /\ channel' = IF k \in Unkeyed \cup {"broadcast"} THEN channel
                            ELSE [channel EXCEPT ![k] = s]
              /\ failed' = failed
              /\ AfterSocket \in [at : Places \ {"idle", "threads"}, n : Nat, wake : {"none"},
                                  left : SUBSET Socket]
              /\ AfterSocket.left = {} /\ AfterSocket.at \in {"sockets", "detect"}
              /\ AfterSocket.at = "sockets" => AfterSocket.n \in 1 .. Len(Plan)
              /\ AfterSocket.at = "sockets" => AfterSocket.n = app.n + 1
              /\ AfterSocket.at = "detect" => app.n = Len(Plan)
      BY <2>1, <2>3, <2>5, CreateFacts
    <3>2. /\ loop' = Pushed(ThreadOf[s.key], Task("add", s))
          /\ ThreadOf[s.key] \in Threads /\ loop[ThreadOf[s.key]] \in Running
          /\ Task("add", s) \in Tasks
          /\ app'.at = AfterSocket.at /\ app'.n = AfterSocket.n
      BY <2>1, <3>1, PostMoves
    <3>3. PICK t \in Threads : t = ThreadOf[s.key]
      BY <3>2
    <3>4. /\ loop'[t].pending = Append(loop[t].pending, Task("add", s))
          /\ loop'[t].batch = loop[t].batch /\ loop'[t].fds = loop[t].fds
          /\ \A u \in Threads \ {t} : loop'[u] = loop[u]
      BY <3>2, <3>3, PushedFacts DEF Shape, LoopShape
    <3>5. Waiting(t)' = Waiting(t) \cup {Task("add", s)}
      <4>1. loop[t].pending \in Seq(Tasks)
        BY <3>2, <3>3 DEF Running
      <4> QED
        BY <3>2, <3>4, <4>1, PushedWaits
    <3>6. \A u \in Threads : /\ loop[u].fds \subseteq loop'[u].fds
                             /\ Waiting(u) \subseteq Waiting(u)'
      BY <3>4, <3>5, WaitingStays
    <3>7. s.key = k /\ s # NoSocket /\ s \in open'
      BY <3>1, NamedSocket
    <3>8. /\ \A j \in Keys \ {k} : channel'[j] = channel[j]
          /\ channel'[k] = IF k \in Unnamed THEN channel[k] ELSE s
      BY <3>1 DEF Unnamed, Shape, DataShape
    <3>9. ASSUME NEW j \in Keys, channel'[j] = channel[j], Settled(j)
          PROVE  Settled(j)'
      <4>1. ThreadOf[j] \in Threads
        BY SdkSessionAssumption
      <4> QED
        BY <2>1, <3>1, <3>6, <3>9, <4>1, ReadStays
    <3>10. k \notin Unnamed => Settled(k)'
      <4>1. Task("add", s) \in Waiting(ThreadOf[k])'
        BY <3>3, <3>5, <3>7
      <4> QED
        BY <3>7, <3>8, <4>1 DEF Settled, IsRead, Touches
    <3>11. \A j \in Keys : channel[j] # NoSocket => channel'[j] # NoSocket
      BY <3>7, <3>8
    <3>12. \A j \in Keys : Settled(j) => Settled(j)'
      BY <3>8, <3>9, <3>10
    <3>14. k \in Unnamed \/ channel'[k] # NoSocket
      BY <3>7, <3>8
    <3>15. /\ Building'
           /\ \A i \in DOMAIN Plan : (app'.at = "sockets" => i < app'.n) =>
                \/ app.at = "sockets" => i < app.n
                \/ Plan[i] \in Unnamed \/ channel'[Plan[i]] # NoSocket
      BY <2>4, <3>1, <3>2, <3>14
    <3> QED
      BY <2>1, <3>1, <3>11, <3>12, <3>15, WholeStays
  <2>6. CASE InitFails
    BY <1>4, <2>1, <2>6
  <2>7. CASE /\ ~NeedsSocket(k) /\ app' = AfterSocket
             /\ UNCHANGED <<open, channel, loop, failed>>
    <3>1. channel[k] # NoSocket
      BY <2>7 DEF NeedsSocket
    <3>2. /\ app'.at \in {"sockets", "detect"}
          /\ app'.at = "sockets" => app'.n = app.n + 1
          /\ app'.at = "detect" => app.n = Len(Plan)
      BY <2>7 DEF AfterSocket, App
    <3>3. /\ Building'
          /\ \A i \in DOMAIN Plan : (app'.at = "sockets" => i < app'.n) =>
               \/ app.at = "sockets" => i < app.n
               \/ Plan[i] \in Unnamed \/ channel'[Plan[i]] # NoSocket
      BY <2>4, <2>7, <3>1, <3>2
    <3>4. \A j \in Keys : Settled(j) => Settled(j)'
      BY <1>3, <2>1, <2>7
    <3> QED
      BY <2>1, <2>7, <3>3, <3>4, WholeStays
  <2> QED
    BY <1>8, <2>3, <2>5, <2>6, <2>7 DEF CreateChannel
<1>9. ASSUME StartDetection \/ ResetStop, UNCHANGED answers
      PROVE  WholeInv'
  <2>1. /\ app.at \in {"detect", "reset"} /\ app'.at \in {"reset", "up"}
        /\ UNCHANGED <<view, portView, channel, sessions, failed, loop, open, call, stray>>
    BY <1>9, <1>15 DEF StartDetection, ResetStop, Ready, Up, App, manager
  <2>2. Building /\ Building' /\ app.at # "sockets"
    BY <2>1 DEF Building
  <2>3. \A k \in Keys : Settled(k) => Settled(k)'
    BY <1>3, <2>1
  <2> QED
    BY <2>1, <2>2, <2>3, WholeStays
<1>10. ASSUME Uninit \/ RemoveSocket \/ CloseSockets \/ StopDetection \/ JoinDetection
       PROVE  WholeInv'
  <2>1. app'.at \in {"remove", "stop", "join", "clear"}
    <3>1. CASE RemoveSocket
      BY <3>1, RemoveFacts DEF Post
    <3>2. CASE Uninit \/ CloseSockets \/ StopDetection \/ JoinDetection
      BY <3>2 DEF Uninit, CloseSockets, StopDetection, JoinDetection, App
    <3> QED
      BY <1>10, <3>1, <3>2
  <2> QED
    BY <2>1 DEF WholeInv, Building
<1>11. ASSUME Clear, UNCHANGED answers
       PROVE  WholeInv'
  <2>1. app'.at = "idle" /\ channel' = Cleared /\ ~view' /\ ~port' /\ ~portView'
    BY <1>11 DEF Clear, Idle, App
  <2>2. \A k \in Keys : Vacant(k)'
    BY <2>1 DEF Cleared, Vacant
  <2> QED
    BY <2>1, <2>2 DEF WholeInv, Building
<1>12. ASSUME Detect \/ UNCHANGED vars
       PROVE  WholeInv'
  <2>1. UNCHANGED <<app, loop, open, channel, view, port, portView, sessions, failed, call,
                    stray>>
    BY <1>12 DEF Detect, Others, vars, manager, answers
  <2> QED
    BY <1>2, <1>3, <1>14, <2>1
<1>13. ASSUME NEW t \in Threads, LoopStep(t)
       PROVE  WholeInv'
  <2>1. PICK r \in Running :
           /\ LoopGoes(t, r) /\ loop[t] \in Running
           /\ Waiting(t)' \subseteq Waiting(t)
           /\ \A s : Task("add", s) \in Waiting(t) =>
                Task("add", s) \in Waiting(t)' \/ s \in r.fds \/ s \notin open
           /\ \A s \in loop[t].fds \ r.fds : Task("remove", s) \in Waiting(t)
    BY <1>13, ThreadSteps
  <2>2. /\ UNCHANGED <<app, open, channel, view, port, portView, sessions, failed, call, stray>>
        /\ loop'[t] = r /\ \A u \in Threads \ {t} : loop'[u] = loop[u]
    BY <2>1 DEF LoopGoes, Others, manager, answers, Shape, LoopShape
  <2>3. ASSUME Building, NEW k \in Keys, Settled(k)
        PROVE  Settled(k)'
    <3>1. PICK u \in Threads : u = ThreadOf[k]
      BY SdkSessionAssumption
    <3>2. CASE u = t /\ IsRead(k) /\ call.socket # channel[k]
      <4>1. channel[k] \in open /\ Touches(t, channel[k])
        BY <2>3, <3>1, <3>2 DEF IsRead
      <4>2. Task("remove", channel[k]) \notin Waiting(t)
        <5>1. Task("remove", channel[k]).op = "remove"
          BY DEF Task
        <5> QED
          BY <2>3, <5>1 DEF QueueInv, OnlyAdds, AddsOnly
      <4>3. channel[k] \in r.fds \/ Task("add", channel[k]) \in Waiting(t)'
        BY <2>1, <4>1, <4>2 DEF Touches
      <4>4. Touches(ThreadOf[k], channel[k])'
        BY <2>2, <3>1, <3>2, <4>3 DEF Touches
      <4> QED
        BY <2>2, <3>2, <4>4 DEF Settled, IsRead
    <3>4. CASE Vacant(k) \/ (IsRead(k) /\ call.socket = channel[k])
      BY <2>2, <3>4 DEF Settled, Vacant, IsRead
    <3>3. CASE u # t
      <4>1. loop'[u] = loop[u] /\ Waiting(u)' = Waiting(u)
        BY <2>2, <3>3, WaitingStays
      <4> QED
        BY <2>2, <2>3, <3>1, <4>1, ReadStays
    <3> QED
      BY <2>3, <3>2, <3>3, <3>4 DEF Settled
  <2> QED
    BY <1>2, <1>14, <2>2, <2>3
<1>16. ASSUME Answer \/ AnswerEnds
       PROVE  WholeInv'
  <2>1. /\ UNCHANGED <<app, loop, open, channel, view, port, portView, sessions, failed, stray>>
        /\ call'.socket = call.socket
    BY <1>16, AnswerFacts DEF manager
  <2> QED
    BY <1>2, <1>3, <1>14, <2>1
<1>17. ASSUME OpenChannel
       PROVE  WholeInv'
  <2>1. /\ call.socket = NoSocket
        /\ UNCHANGED <<app, port, portView, loop, view, sessions, failed>>
        /\ \/ \E s \in Socket :
                /\ call'.socket = s /\ open' = open \cup {s}
                /\ \/ channel' = channel
                   \/ channel[s.key] = NoSocket /\ channel' = [channel EXCEPT ![s.key] = s]
                /\ stray' = IF app.at \in {"reset", "up"} THEN stray ELSE stray \cup {s}
           \/ call'.socket = NoSocket /\ UNCHANGED <<open, channel, stray>>
    BY <1>17, OpenFacts
  <2>2. CASE call'.socket = NoSocket /\ UNCHANGED <<open, channel, stray>>
    BY <1>2, <1>3, <1>14, <2>1, <2>2
  <2>3. ASSUME NEW s \in Socket, call'.socket = s, open' = open \cup {s},
               \/ channel' = channel
               \/ channel[s.key] = NoSocket /\ channel' = [channel EXCEPT ![s.key] = s],
               stray' = IF app.at \in {"reset", "up"} THEN stray ELSE stray \cup {s}
        PROVE  WholeInv'
    <3>1. /\ s # NoSocket /\ s.key \in Keys /\ stray \subseteq stray' /\ open \subseteq open'
          /\ open \subseteq Socket
      BY <2>3, NamedSocket DEF Socket, Shape, DataShape
    <3>2. \A k \in Keys : channel'[k] = channel[k] \/ (k = s.key /\ channel'[k] = s)
      BY <2>3 DEF Shape, DataShape
    <3>3. ASSUME NEW k \in Keys, Settled(k), Building
          PROVE  Settled(k)'
      <4>1. CASE k = s.key /\ channel'[k] = s
        BY <2>3, <4>1 DEF Settled, IsRead
      <4>2. CASE channel'[k] = channel[k] /\ Vacant(k)
        BY <3>1, <4>2 DEF Settled, Vacant
      <4>3. CASE channel'[k] = channel[k] /\ IsRead(k)
        <5>1. Touches(ThreadOf[k], channel[k])
          BY <2>1, <3>1, <4>3, NamedSocket DEF IsRead
        <5>2. Touches(ThreadOf[k], channel[k])'
          BY <2>1, <4>3, <5>1 DEF Touches, Waiting
        <5> QED
          BY <3>1, <4>3, <5>2 DEF Settled, IsRead
      <4> QED
        BY <3>2, <3>3, <4>1, <4>2, <4>3 DEF Settled
    <3>4. ASSUME NEW k \in Keys, Vacant(k), ~Building
          PROVE  Vacant(k)'
      <4>1. s \in stray'
        BY <2>3, <3>4 DEF Building
      <4> QED
        BY <3>1, <3>2, <3>4, <4>1 DEF Vacant
    <3>5. \A k \in Keys : channel[k] # NoSocket => channel'[k] # NoSocket
      BY <3>1, <3>2
    <3> QED
      BY <1>2, <2>1, <3>3, <3>4, <3>5
  <2> QED
    BY <2>1, <2>2, <2>3
<1>18. ASSUME HandOver
       PROVE  WholeInv'
  <2>1. PICK t \in Threads, s \in Socket :
           /\ s = call.socket /\ t = ThreadOf[s.key]
           /\ loop[t] \in Running /\ Task("add", s) \in Tasks
           /\ loop' = Pushed(t, Task("add", s)) /\ call'.socket = NoSocket
           /\ UNCHANGED <<app, port, portView, open, manager, sessions, failed, stray>>
    BY <1>18, HandFacts
  <2>2. /\ loop'[t].pending = Append(loop[t].pending, Task("add", s))
        /\ loop'[t].batch = loop[t].batch /\ loop'[t].fds = loop[t].fds
        /\ \A u \in Threads \ {t} : loop'[u] = loop[u]
        /\ loop[t].pending \in Seq(Tasks)
    <3>1. loop[t].pending \in Seq(Tasks)
      BY <2>1 DEF Running
    <3> QED
      BY <2>1, <3>1, PushedFacts DEF Shape, LoopShape
  <2>3. Waiting(t)' = Waiting(t) \cup {Task("add", s)}
    BY <2>1, <2>2, PushedWaits
  <2>4. \A u \in Threads : /\ loop[u].fds \subseteq loop'[u].fds
                           /\ Waiting(u) \subseteq Waiting(u)'
    BY <2>2, <2>3, WaitingStays
  <2>5. ASSUME NEW k \in Keys, Settled(k)
        PROVE  Settled(k)'
    <3>1. ThreadOf[k] \in Threads /\ channel' = channel
      BY <2>1, SdkSessionAssumption DEF manager
    <3>2. CASE Vacant(k)
      BY <2>1, <3>1, <3>2 DEF Settled, Vacant
    <3>3. CASE IsRead(k)
      <4>1. \/ channel[k] \in loop'[ThreadOf[k]].fds
            \/ Task("add", channel[k]) \in Waiting(ThreadOf[k])'
        BY <2>1, <2>3, <2>4, <3>1, <3>3 DEF IsRead, Touches
      <4> QED
        BY <2>1, <3>1, <3>3, <4>1 DEF Settled, IsRead, Touches
    <3> QED
      BY <2>5, <3>2, <3>3 DEF Settled
  <2> QED
    BY <1>2, <1>14, <2>1, <2>5 DEF manager
<1> QED
  BY <1>5, <1>6, <1>7, <1>8, <1>9, <1>10, <1>11, <1>12, <1>13, <1>16, <1>17, <1>18
     DEF Next, AppStep, CallStep

\* What a session leaves behind, in the loops, in the maps of the device manager or in the mode
\* of the command handler, does not reach into the next one, but for the channels that a lidar's
\* callback opened while Uninit ran: every other channel of a session is read by its thread,
\* and Uninit leaves no other socket open.
THEOREM CleanedUpCorrect == Spec => []CleanedUp
<1>1. Init => WholeInv
  BY DEF Init, WholeInv, Vacant, Idle, App, Building
<1>2. Shape /\ WholeInv => SessionIsWhole
  <2> SUFFICES ASSUME Shape, WholeInv, app = Up, sessions - 1 \notin failed
               PROVE  /\ portView = view
                      /\ \A k \in Range(Plan) \ Unnamed : channel[k] # NoSocket
                      /\ \A k \in Keys : channel[k] \notin stray \cup {NoSocket, call.socket} =>
                           \/ channel[k] \in loop[ThreadOf[k]].fds
                           \/ Task("add", channel[k]) \in Waiting(ThreadOf[k])
    BY DEF SessionIsWhole, Unnamed
  <2>1. app.at = "up" /\ Building /\ Fresh
    BY DEF Up, App, Building, Fresh
  <2>2. /\ portView = view
        /\ \A k \in Keys : Settled(k)
        /\ \A i \in DOMAIN Plan : Plan[i] \in Unnamed \/ channel[Plan[i]] # NoSocket
    BY <2>1 DEF WholeInv
  <2>3. ASSUME NEW k \in Range(Plan) \ Unnamed
        PROVE  channel[k] # NoSocket
    <3>1. PICK i \in DOMAIN Plan : Plan[i] = k
      BY <2>3 DEF Range
    <3> QED
      BY <2>2, <2>3, <3>1
  <2>4. ASSUME NEW k \in Keys, channel[k] \notin stray \cup {NoSocket, call.socket}
        PROVE  Touches(ThreadOf[k], channel[k])
    BY <2>2, <2>4 DEF Settled, Vacant, IsRead
  <2> QED
    BY <2>2, <2>3, <2>4 DEF Touches
<1> QED
  BY <1>1, <1>2, WholeInductive, ShapeCorrect, QueueCorrect, NothingLeftCorrect,
     PTL DEF Spec, CleanedUp

=============================================================================
