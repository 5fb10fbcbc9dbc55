--------------------------- MODULE Upgrader_proofs ---------------------------
(***************************************************************************)
(* What holds of the firmware upgrade for any number of blocks, threads    *)
(* and tries. SuccessIsConfirmed holds whatever the outcomes of the        *)
(* commands; the others for commands with one outcome each, for which the  *)
(* one call or outcome that exists tells the state of the upgrade.         *)
(***************************************************************************)
EXTENDS Upgrader, TLAPS

(***************************************************************************)
(* The inductive invariants.                                               *)
(***************************************************************************)

\* The upgrade thread has not changed the state yet.
NotBegun == doing["upgrade"].do \in {"event", "enter"} /\ reports["upgrade"] = 0

\* The upgrade thread runs inside its first call of FsmEventHandler, and nobody else runs
\* before it has sent the first request.
UpgradeThread ==
  /\ NotBegun =>
       /\ fsm = "Idle"
       /\ doing["upgrade"].what = "RequestUpgrade"
       /\ \A t \in IoThreads : doing[t] = Nothing
       /\ NoneOutstanding
  /\ doing["upgrade"] # Nothing => NotBegun \/ reports["upgrade"] > 0

\* The requests and events that only a lidar with a progress of 100 gets to.
Late == {"Complete", "Reinit"}

\* Before the lidar has reported a progress of 100 nothing is under way that leads to
\* Complete or back to Idle.
LateIsConfirmed ==
  ~NotBegun /\ ~confirmed =>
    /\ fsm \notin {"Idle", "Complete"}
    /\ \A t \in Threads : doing[t] # Nothing => doing[t].what \notin Late
    /\ \A q \in Requests : owed[q] > 0 => q[1] \notin Late
    /\ unsent["Complete"] = 0

SuccessInv == TypeOK /\ UpgradeThread /\ LateIsConfirmed /\ SuccessIsConfirmed

\* The state in which thread t makes its call.
CallMatches(t) ==
  /\ doing[t].do = "enter" => doing[t].what # "Err" /\ fsm \in Sources[doing[t].what]
  /\ doing[t].do = "event" /\ doing[t].what # "Err" => fsm \in Sources[doing[t].what]
  /\ doing[t] = [do |-> "event", what |-> "Err"] => fsm \notin {"Idle", "Err"}
  /\ doing[t].do \in {"send", "Success", "Timeout", "SendFailed"} =>
       fsm = Target[doing[t].what]
  /\ t \in IoThreads /\ doing[t].do \in {"event", "enter"} => fsm # "Idle"

\* The state in which the outcome of request q is to come, and the block it is about.
OutcomeMatches(q) ==
  owed[q] > 0 => fsm = Target[q[1]] /\ (q[1] = "XferFirmware" => q[2] = offset)

\* The call of the upgrade thread is its first one.
UpgradeThreadMatches ==
  /\ doing["upgrade"].do \in {"event", "enter", "nothing", "send"}
  /\ doing["upgrade"].do \in {"event", "enter"} => NotBegun

\* The offset against the call that is made with it.
BlocksMatch(t) ==
  /\ doing[t] = [do |-> "Success", what |-> "XferFirmware"] => offset \in accepted
  /\ doing[t].do \in {"event", "enter"} /\ doing[t].what = "CompleteXferFirmware" =>
       offset = Blocks

\* After the destructor has seen the end.
EndIsSeen ==
  /\ destroyed => main # "waiting"
  /\ main # "waiting" /\ "early" \notin flaws =>
       fsm \in {"Idle", "Err"} /\ ~NotBegun

ReliableInv ==
  /\ OneAtATime
  /\ NoBlockSkipped
  /\ Reliable =>
       /\ UpgradeThreadMatches
       /\ \A t \in Threads : CallMatches(t) /\ BlocksMatch(t)
       /\ \A q \in Requests : OutcomeMatches(q)
       /\ EndIsSeen

-----------------------------------------------------------------------------
(***************************************************************************)
(* The table, the calls and the requests.                                  *)
(***************************************************************************)

\* The targets of upgrade_event_table.
LEMMA TargetFacts ==
  /\ \A e \in Event : Target[e] \in State
  /\ \A e \in Event : Target[e] = "Idle" => e = "Reinit"
  /\ \A e \in Event : Target[e] = "Complete" => e = "Complete"
  /\ \A e \in Event : Target[e] = "Err" => e = "Err"
  /\ Target["Err"] = "Err"
BY DEF Target, Event, Request, State

\* A call made of its parts is a call.
LEMMA CallFacts ==
  /\ \A e \in Event, d \in {"event", "enter"} : [do |-> d, what |-> e] \in Call
  /\ \A r \in Request, d \in {"nothing", "send", "Success", "Timeout", "SendFailed"} :
       [do |-> d, what |-> r] \in Call
  /\ Nothing \in Call
BY DEF Call, Nothing, Request

\* A request is one of the table, and those for a block are below the length.
LEMMA RequestFacts ==
  \A q \in Requests :
    /\ q = <<q[1], q[2]>>
    /\ q[1] \in Request
    /\ q[2] \in 0 .. Blocks
    /\ q[1] = "XferFirmware" => q[2] < Blocks
BY DEF Requests

\* An answer raises an event of the table.
LEMMA FollowsEvent ==
  ASSUME NEW r \in Request, NEW answer \in {"ok", "busy", "error"}, NEW at
  PROVE  Follows(r, answer, at) \in Event
BY DEF Follows, AfterBlock, AfterProgress, Event, Request

\* The values of the variables stay in their sets in every step.
LEMMA TypeStep == TypeOK /\ [Next]_vars => TypeOK'
<1> SUFFICES ASSUME TypeOK, [Next]_vars PROVE TypeOK'
  OBVIOUS
<1> USE UpgraderAssumption
<1>t. /\ fsm \in State
      /\ offset \in 0 .. Blocks
      /\ tries \in Nat /\ (tries < GeneralTryLimit \/ tries < ProgressTryLimit)
      /\ doing \in [Threads -> Call]
      /\ reports \in [Threads -> Nat]
      /\ owed \in [Requests -> Nat]
      /\ unsent \in [Request -> Nat]
      /\ main \in {"waiting", "success", "error"}
      /\ destroyed \in BOOLEAN
      /\ accepted \subseteq 0 .. Blocks
      /\ confirmed \in BOOLEAN
      /\ flaws \subseteq {"extra", "mute", "early"}
  BY DEF TypeOK
<1>1. ASSUME NEW t \in Threads, FsmEventHandler(t) PROVE TypeOK'
  <2>1. PICK e \in Event : FsmEventHandler(t)!(e)
    BY <1>1 DEF FsmEventHandler
  <2>2. fsm' \in State
    BY <2>1, <1>t, TargetFacts
  <2>3. doing' \in [Threads -> Call]
    BY <2>1, <1>t, CallFacts DEF Goes
  <2>4. reports' \in [Threads -> Nat]
    BY <2>1, <1>t
  <2> QED
    BY <1>t, <2>1, <2>2, <2>3, <2>4 DEF TypeOK
<1>2. ASSUME NEW t \in Threads, EnterState(t) PROVE TypeOK'
  <2>1. PICK e \in Event : EnterState(t)!(e)
    BY <1>2 DEF EnterState
  <2>2. fsm' \in State
    BY <2>1, TargetFacts
  <2>3. doing' \in [Threads -> Call]
    BY <2>1, <1>t, CallFacts DEF Goes
  <2>4. reports' \in [Threads -> Nat]
    BY <2>1, <1>t
  <2> QED
    BY <1>t, <2>1, <2>2, <2>3, <2>4 DEF TypeOK
<1>3. ASSUME NEW t \in Threads, Send(t) PROVE TypeOK'
  <2>1. PICK r \in Request, n \in 1 .. Registrations : Send(t)!(r, n)
    BY <1>3 DEF Send
  <2>2. offset' \in 0 .. Blocks
    BY <2>1, <1>t DEF Rewind
  <2>3. doing' \in [Threads -> Call]
    BY <2>1, <1>t, CallFacts DEF Goes
  <2>4. owed' \in [Requests -> Nat]
    BY <2>1, <1>t
  <2>5. flaws' \subseteq {"extra", "mute", "early"}
    BY <2>1, <1>t
  <2> QED
    BY <1>t, <2>1, <2>2, <2>3, <2>4, <2>5 DEF TypeOK
<1>4. ASSUME NEW t \in Threads, SendFails(t) PROVE TypeOK'
  <2>1. PICK r \in Request, n \in 1 .. Registrations : SendFails(t)!(r, n)
    BY <1>4 DEF SendFails
  <2>2. offset' \in 0 .. Blocks
    BY <2>1, <1>t DEF Rewind
  <2>3. doing' \in [Threads -> Call]
    BY <2>1, <1>t, CallFacts DEF Goes
  <2>4. unsent' \in [Request -> Nat]
    BY <2>1, <1>t
  <2>5. flaws' \subseteq {"extra", "mute", "early"}
    BY <2>1, <1>t
  <2> QED
    BY <1>t, <2>1, <2>2, <2>3, <2>4, <2>5 DEF TypeOK
<1>5. ASSUME NEW t \in Threads, SendsNothing(t) PROVE TypeOK'
  <2>1. PICK r \in Request : SendsNothing(t)!(r)
    BY <1>5 DEF SendsNothing
  <2>2. offset' \in 0 .. Blocks
    BY <2>1, <1>t DEF Rewind
  <2>3. doing' \in [Threads -> Call]
    BY <2>1, <1>t, CallFacts DEF Goes
  <2> QED
    BY <1>t, <2>1, <2>2, <2>3 DEF TypeOK
<1>6. ASSUME NEW t \in Threads, Report(t) PROVE TypeOK'
  <2>1. reports' \in [Threads -> Nat]
    BY <1>6, <1>t DEF Report
  <2> QED
    BY <1>t, <1>6, <2>1 DEF TypeOK, Report
<1>7. ASSUME NEW t \in Threads, NEW answer \in {"ok", "busy", "error"}, Answered(t, answer)
      PROVE  TypeOK'
  <2>1. PICK r \in Request : Answered(t, answer)!(r)
    BY <1>7 DEF Answered
  <2>2. offset' \in 0 .. Blocks
    BY <2>1, <1>t
  <2>3. doing' \in [Threads -> Call]
    BY <2>1, <1>t, CallFacts, FollowsEvent DEF Goes, Raises
  <2>4. confirmed' \in BOOLEAN
    BY <2>1, <1>t
  <2> QED
    BY <1>t, <2>1, <2>2, <2>3, <2>4 DEF TypeOK
<1>8. ASSUME NEW t \in Threads, Unanswered(t) PROVE TypeOK'
  <2>1. PICK r \in Request : Unanswered(t)!(r)
    BY <1>8 DEF Unanswered
  <2>2. tries' \in Nat /\ (tries' < GeneralTryLimit \/ tries' < ProgressTryLimit)
    BY <2>1, <1>t DEF TryLimit
  <2>3. PICK e \in Event : Raises(t, e)
    BY <2>1 DEF Event, Request
  <2>4. doing' \in [Threads -> Call]
    BY <2>3, <1>t, CallFacts DEF Goes, Raises
  <2> QED
    BY <1>t, <2>1, <2>2, <2>4 DEF TypeOK
<1>9. ASSUME NEW t \in IoThreads, Deliver(t) PROVE TypeOK'
  <2>1. PICK q \in Requests, st \in {"Success", "Timeout"} : Deliver(t)!(q, st)
    BY <1>9 DEF Deliver
  <2>2. owed' \in [Requests -> Nat]
    BY <2>1, <1>t DEF Less
  <2>3. doing' \in [Threads -> Call]
    BY <2>1, <1>t, CallFacts, RequestFacts DEF Goes
  <2>4. accepted' \subseteq 0 .. Blocks
    BY <2>1, <1>t, RequestFacts
  <2> QED
    BY <1>t, <2>1, <2>2, <2>3, <2>4 DEF TypeOK
<1>10. ASSUME NEW t \in IoThreads, DeliverTimeout(t) PROVE TypeOK'
  <2>1. PICK r \in Request : DeliverTimeout(t)!(r)
    BY <1>10 DEF DeliverTimeout
  <2>2. unsent' \in [Request -> Nat]
    BY <2>1, <1>t DEF Less
  <2>3. doing' \in [Threads -> Call]
    BY <2>1, <1>t, CallFacts DEF Goes
  <2> QED
    BY <1>t, <2>1, <2>2, <2>3 DEF TypeOK
<1>11. CASE SeesEnd
  BY <1>t, <1>11 DEF TypeOK, SeesEnd
<1>12. CASE Destroy
  BY <1>t, <1>12 DEF TypeOK, Destroy
<1>13. CASE UNCHANGED vars
  BY <1>t, <1>13 DEF TypeOK, vars
<1> QED
  BY <1>1, <1>2, <1>3, <1>4, <1>5, <1>6, <1>7, <1>8, <1>9, <1>10, <1>11, <1>12, <1>13
  DEF Next, Runs, Concludes

\* The call of one thread changes in a step, the others stay.
LEMMA GoesFacts ==
  ASSUME doing \in [Threads -> Call], NEW t \in Threads, NEW c, Goes(t, c)
  PROVE  doing'[t] = c /\ \A u \in Threads : u # t => doing'[u] = doing[u]
BY DEF Goes

-----------------------------------------------------------------------------
(***************************************************************************)
(* Success is confirmed.                                                   *)
(***************************************************************************)

\* Before the upgrade thread has begun no other thread is inside the upgrader.
LEMMA OnlyUpgradeThread ==
  ASSUME UpgradeThread, NotBegun, NEW t \in Threads, doing[t] # Nothing
  PROVE  t = "upgrade" /\ doing[t].what = "RequestUpgrade" /\ fsm = "Idle"
BY DEF UpgradeThread, Threads

\* A thread that is past its first event runs only after the upgrade thread has begun.
LEMMA BegunByCall ==
  ASSUME UpgradeThread, NEW t \in Threads,
         doing[t].do \in {"send", "Success", "Timeout", "SendFailed"}
  PROVE  ~NotBegun /\ doing[t] # Nothing
BY OnlyUpgradeThread DEF NotBegun, Nothing

\* The event after an answer leads to Complete or Idle only after a progress of 100.
LEMMA FollowsLate ==
  ASSUME NEW r \in Request \ Late, NEW answer \in {"ok", "busy", "error"}, NEW at,
         answer = "busy" => r \in MayBeBusy,
         ~(r = "GetUpgradeProgress" /\ answer = "ok")
  PROVE  Follows(r, answer, at) \notin Late
BY DEF Follows, AfterBlock, AfterProgress, Request, Late, MayBeBusy

\* A request that has failed is repeated or given up.
LEMMA UnansweredRaises ==
  ASSUME NEW t, NEW r \in Request, Unanswered(t)!(r)
  PROVE  \E e : Raises(t, e) /\ (e = r \/ e = "Err" \/ (e = "Reinit" /\ r = "Complete"))
<1>1. CASE tries + 1 < TryLimit(r)
  BY <1>1
<1>2. CASE ~(tries + 1 < TryLimit(r)) /\ r = "Complete"
  <2>1. Raises(t, "Reinit")
    BY <1>2
  <2> QED
    BY <2>1, <1>2
<1>3. CASE ~(tries + 1 < TryLimit(r)) /\ r # "Complete"
  <2>1. Raises(t, "Err")
    BY <1>3
  <2> QED
    BY <2>1
<1> QED
  BY <1>1, <1>2, <1>3

\* Thread t makes another call: what the step leaves to show.
LEMMA NextCall ==
  ASSUME TypeOK, UpgradeThread, LateIsConfirmed, ~NotBegun, NEW t \in Threads, NEW c,
         Goes(t, c), UNCHANGED <<fsm, reports, owed, unsent>>,
         doing[t] # Nothing \/ t \in IoThreads,
         confirmed => confirmed',
         ~confirmed' => c = Nothing \/ c.what \notin Late
  PROVE  UpgradeThread' /\ LateIsConfirmed'
<1> USE UpgraderAssumption
<1>1. /\ doing \in [Threads -> Call] /\ reports \in [Threads -> Nat]
      /\ "upgrade" \in Threads
  BY DEF TypeOK, Threads
<1>2. doing'[t] = c /\ \A u \in Threads : u # t => doing'[u] = doing[u]
  BY <1>1, GoesFacts
<1>3. doing'["upgrade"] # Nothing => reports["upgrade"] > 0
  BY <1>1, <1>2 DEF UpgradeThread
<1>4. ~NotBegun'
  BY <1>1, <1>3 DEF NotBegun, Nothing
<1>5. UpgradeThread'
  BY <1>3, <1>4 DEF UpgradeThread
<1>6. LateIsConfirmed'
  BY <1>2 DEF LateIsConfirmed
<1> QED
  BY <1>5, <1>6

LEMMA SuccessStep == SuccessInv /\ [Next]_vars => SuccessInv'
<1> SUFFICES ASSUME SuccessInv, [Next]_vars PROVE SuccessInv'
  OBVIOUS
<1> USE UpgraderAssumption
<1>t. TypeOK /\ TypeOK'
  BY TypeStep DEF SuccessInv
<1>u. /\ doing \in [Threads -> Call] /\ reports \in [Threads -> Nat]
      /\ owed \in [Requests -> Nat] /\ unsent \in [Request -> Nat]
      /\ confirmed \in BOOLEAN
      /\ reports' \in [Threads -> Nat]
      /\ "upgrade" \in Threads
  BY <1>t DEF TypeOK, Threads
<1>v. UpgradeThread /\ LateIsConfirmed /\ SuccessIsConfirmed
  BY DEF SuccessInv
<1>1. ASSUME NEW t \in Threads, FsmEventHandler(t) PROVE SuccessInv'
  <2>1. PICK e \in Event : FsmEventHandler(t)!(e)
    BY <1>1 DEF FsmEventHandler
  <2>2. doing[t] # Nothing /\ doing[t].do = "event" /\ doing[t].what = e
    BY <2>1 DEF Nothing
  <2>3. \A u \in Threads : u # t => doing'[u] = doing[u] /\ reports'[u] = reports[u]
    BY <2>1, <1>u, GoesFacts
  <2>4. \/ /\ e # "Err" /\ fsm \in Sources[e] /\ fsm' = fsm
           /\ doing'[t] = [do |-> "enter", what |-> e] /\ reports' = reports
        \/ /\ e = "Err" \/ fsm \notin Sources[e]
           /\ e = "Err" => fsm' = "Err"
           /\ e # "Err" => fsm' = fsm
           /\ doing'[t] = Nothing /\ reports'[t] = reports[t] + 1
    BY <2>1, <1>u, GoesFacts, TargetFacts
  <2>5. CASE NotBegun
    <3>1. t = "upgrade" /\ e = "RequestUpgrade" /\ fsm = "Idle"
      BY <2>5, <2>2, <1>v, OnlyUpgradeThread
    <3>2. /\ fsm' = fsm /\ reports' = reports
          /\ doing'[t].do = "enter" /\ doing'[t].what = "RequestUpgrade"
      BY <2>4, <3>1 DEF Sources
    <3>3. NotBegun'
      BY <2>5, <3>1, <3>2 DEF NotBegun
    <3>4. UpgradeThread'
      BY <2>5, <3>1, <3>2, <3>3, <2>1, <2>3, <1>v DEF UpgradeThread, NoneOutstanding, Threads
    <3> QED
      BY <1>t, <3>3, <3>4, <2>1, <1>v DEF SuccessInv, LateIsConfirmed, SuccessIsConfirmed
  <2>6. CASE ~NotBegun
    <3>1. ~NotBegun'
      BY <2>6, <2>2, <2>3, <2>4, <1>u, <1>v DEF NotBegun, UpgradeThread
    <3>2. UpgradeThread'
      BY <2>6, <3>1, <2>2, <2>3, <2>4, <1>u, <1>v DEF UpgradeThread
    <3>3. LateIsConfirmed'
      BY <2>6, <2>1, <2>2, <2>3, <2>4, <1>u, <1>v DEF LateIsConfirmed
    <3> QED
      BY <1>t, <3>2, <3>3, <2>1, <1>v DEF SuccessInv, SuccessIsConfirmed
  <2> QED
    BY <2>5, <2>6
<1>2. ASSUME NEW t \in Threads, EnterState(t) PROVE SuccessInv'
  <2>1. PICK e \in Event : EnterState(t)!(e)
    BY <1>2 DEF EnterState
  <2>2. doing[t] # Nothing /\ doing[t].do = "enter" /\ doing[t].what = e
    BY <2>1 DEF Nothing
  <2>3. \A u \in Threads : u # t => doing'[u] = doing[u] /\ reports'[u] = reports[u]
    BY <2>1, <1>u, GoesFacts
  <2>4. /\ doing'[t] = Nothing \/ (doing'[t].do = "send" /\ doing'[t].what = e)
        /\ reports'[t] = reports[t] + 1
    BY <2>1, <1>u, GoesFacts
  <2>5. NotBegun => e = "RequestUpgrade" /\ t = "upgrade"
    BY <2>2, <1>v, OnlyUpgradeThread
  <2>6. ~NotBegun'
    BY <2>2, <2>3, <2>4, <1>u, <1>v, <2>5 DEF NotBegun, Nothing
  <2>7. UpgradeThread'
    <3>1. CASE t = "upgrade"
      BY <3>1, <2>4, <2>6, <1>u DEF UpgradeThread
    <3>2. CASE t # "upgrade"
      BY <3>2, <2>2, <2>3, <2>6, <1>u, <1>v, OnlyUpgradeThread DEF UpgradeThread
    <3> QED
      BY <3>1, <3>2
  <2>8. LateIsConfirmed'
    <3> SUFFICES ASSUME ~confirmed
                 PROVE  LateIsConfirmed'
      BY <2>1 DEF LateIsConfirmed
    <3>1. e \notin Late
      BY <2>2, <2>5, <1>v DEF LateIsConfirmed, Late
    <3>2. fsm' \notin {"Idle", "Complete"}
      BY <2>1, <3>1, TargetFacts DEF Late
    <3>3. \A u \in Threads : doing'[u] # Nothing => doing'[u].what \notin Late
      <4>1. ASSUME NEW u \in Threads, u # t, doing[u] # Nothing PROVE doing[u].what \notin Late
        BY <4>1, <1>v, <2>2, OnlyUpgradeThread DEF LateIsConfirmed
      <4> QED
        BY <4>1, <2>3, <2>4, <3>1
    <3>4. /\ \A q \in Requests : owed[q] > 0 => q[1] \notin Late
          /\ unsent["Complete"] = 0
      BY <1>u, <1>v DEF LateIsConfirmed, UpgradeThread, NoneOutstanding, Request
    <3> QED
      BY <3>2, <3>3, <3>4, <2>1 DEF LateIsConfirmed
  <2> QED
    BY <1>t, <2>7, <2>8, <2>1, <1>v DEF SuccessInv, SuccessIsConfirmed
<1>3. ASSUME NEW t \in Threads, Send(t) PROVE SuccessInv'
  <2>1. PICK r \in Request, n \in 1 .. Registrations : Send(t)!(r, n)
    BY <1>3 DEF Send
  <2>2. doing[t].do = "send" /\ doing[t].what = r /\ ~NotBegun /\ doing[t] # Nothing
    BY <2>1, <1>v, BegunByCall
  <2>3. doing'[t] = Nothing /\ \A u \in Threads : u # t => doing'[u] = doing[u]
    BY <2>1, <1>u, GoesFacts
  <2>4. ~NotBegun'
    BY <2>1, <2>2, <2>3, <1>u DEF NotBegun, Nothing
  <2>5. UpgradeThread'
    BY <2>1, <2>2, <2>3, <2>4, <1>u, <1>v DEF UpgradeThread
  <2>6. ~confirmed => r \notin Late
    BY <2>2, <1>v DEF LateIsConfirmed
  <2>7. ~confirmed => \A q \in Requests : owed'[q] > 0 => q[1] \notin Late
    <3> SUFFICES ASSUME ~confirmed, NEW q \in Requests, owed'[q] > 0 PROVE q[1] \notin Late
      OBVIOUS
    <3>1. owed[q] > 0 \/ q[1] = r
      BY <2>1, <1>u
    <3> QED
      BY <3>1, <2>2, <2>6, <1>v DEF LateIsConfirmed
  <2>8. LateIsConfirmed'
    BY <2>1, <2>2, <2>3, <2>7, <1>v DEF LateIsConfirmed
  <2> QED
    BY <1>t, <2>5, <2>8, <2>1, <1>v DEF SuccessInv, SuccessIsConfirmed
<1>4. ASSUME NEW t \in Threads, SendFails(t) PROVE SuccessInv'
  <2>1. PICK r \in Request, n \in 1 .. Registrations : SendFails(t)!(r, n)
    BY <1>4 DEF SendFails
  <2>2. doing[t].do = "send" /\ doing[t].what = r /\ ~NotBegun /\ doing[t] # Nothing
    BY <2>1, <1>v, BegunByCall
  <2>3. /\ doing'[t] = [do |-> "SendFailed", what |-> r]
        /\ \A u \in Threads : u # t => doing'[u] = doing[u]
    BY <2>1, <1>u, GoesFacts
  <2>4. ~NotBegun'
    BY <2>1, <2>2, <2>3, <1>u, <1>v DEF NotBegun, UpgradeThread
  <2>5. UpgradeThread'
    BY <2>1, <2>2, <2>3, <2>4, <1>u, <1>v DEF UpgradeThread
  <2>6. ~confirmed => r \notin Late /\ r # "Complete"
    BY <2>2, <1>v DEF LateIsConfirmed, Late
  <2>7. ~confirmed => unsent'["Complete"] = 0
    BY <2>1, <2>2, <2>6, <1>u, <1>v DEF LateIsConfirmed, Request
  <2>8. LateIsConfirmed'
    BY <2>1, <2>2, <2>3, <2>6, <2>7, <1>v DEF LateIsConfirmed
  <2> QED
    BY <1>t, <2>5, <2>8, <2>1, <1>v DEF SuccessInv, SuccessIsConfirmed
<1>5. ASSUME NEW t \in Threads, SendsNothing(t) PROVE SuccessInv'
  <2>1. PICK r \in Request : SendsNothing(t)!(r)
    BY <1>5 DEF SendsNothing
  <2>2. ~NotBegun /\ doing[t] # Nothing
    BY <2>1, <1>v, BegunByCall
  <2>3. UpgradeThread' /\ LateIsConfirmed'
    BY <2>1, <2>2, <1>t, <1>v, NextCall
  <2> QED
    BY <1>t, <2>3, <2>1, <1>v DEF SuccessInv, SuccessIsConfirmed
<1>6. ASSUME NEW t \in Threads, Report(t) PROVE SuccessInv'
  <2>1. /\ UNCHANGED <<fsm, doing, owed, unsent, main, confirmed, flaws>>
        /\ doing[t] = Nothing
        /\ \A u \in Threads : u # t => reports'[u] = reports[u]
    BY <1>6, <1>u DEF Report
  <2>2. NotBegun' <=> NotBegun
    BY <2>1, <1>u DEF NotBegun, Nothing
  <2>3. UpgradeThread'
    BY <2>1, <2>2, <1>u, <1>v DEF UpgradeThread, NoneOutstanding
  <2>4. LateIsConfirmed'
    BY <2>1, <2>2, <1>v DEF LateIsConfirmed
  <2> QED
    BY <1>t, <2>1, <2>3, <2>4, <1>v DEF SuccessInv, SuccessIsConfirmed
<1>7. ASSUME NEW t \in Threads, NEW answer \in {"ok", "busy", "error"}, Answered(t, answer)
      PROVE  SuccessInv'
  <2>1. PICK r \in Request : Answered(t, answer)!(r)
    BY <1>7 DEF Answered
  <2>2. doing[t].do = "Success" /\ doing[t].what = r /\ ~NotBegun /\ doing[t] # Nothing
    BY <2>1, <1>v, BegunByCall
  <2>3. /\ Goes(t, [do |-> "event", what |-> Follows(r, answer, offset')])
        /\ confirmed => confirmed'
        /\ ~confirmed' => ~(r = "GetUpgradeProgress" /\ answer = "ok") /\ ~confirmed
    BY <2>1 DEF Raises
  <2>4. ~confirmed => r \notin Late
    BY <2>2, <1>v DEF LateIsConfirmed
  <2>5. ~confirmed' => Follows(r, answer, offset') \notin Late
    BY <2>1, <2>3, <2>4, FollowsLate
  <2>6. UpgradeThread' /\ LateIsConfirmed'
    BY <2>1, <2>2, <2>3, <2>5, <1>t, <1>v, NextCall
  <2> QED
    BY <1>t, <2>6, <2>1, <2>3, <1>v DEF SuccessInv, SuccessIsConfirmed
<1>8. ASSUME NEW t \in Threads, Unanswered(t) PROVE SuccessInv'
  <2>1. PICK r \in Request : Unanswered(t)!(r)
    BY <1>8 DEF Unanswered
  <2>2. ~NotBegun /\ doing[t] # Nothing /\ doing[t].what = r
    BY <2>1, <1>v, BegunByCall
  <2>3. PICK e : Raises(t, e) /\ (e = r \/ e = "Err" \/ (e = "Reinit" /\ r = "Complete"))
    BY <2>1, UnansweredRaises
  <2>4. ~confirmed => e \notin Late
    BY <2>2, <2>3, <1>v DEF LateIsConfirmed, Late
  <2>5. UpgradeThread' /\ LateIsConfirmed'
    BY <2>1, <2>2, <2>3, <2>4, <1>t, <1>v, NextCall DEF Raises
  <2> QED
    BY <1>t, <2>5, <2>1, <1>v DEF SuccessInv, SuccessIsConfirmed
<1>9. ASSUME NEW t \in IoThreads, Deliver(t) PROVE SuccessInv'
  <2>1. PICK q \in Requests, st \in {"Success", "Timeout"} : Deliver(t)!(q, st)
    BY <1>9 DEF Deliver
  <2>2. ~NotBegun
    BY <2>1, <1>u, <1>v DEF UpgradeThread, NoneOutstanding
  <2>3. t \in Threads /\ t # "upgrade"
    BY DEF Threads, UpgraderAssumption
  <2>4. /\ doing'[t] = [do |-> st, what |-> q[1]]
        /\ \A u \in Threads : u # t => doing'[u] = doing[u]
    BY <2>1, <2>3, <1>u, GoesFacts
  <2>5. UpgradeThread' /\ ~NotBegun'
    BY <2>1, <2>2, <2>3, <2>4, <1>u, <1>v DEF UpgradeThread, NotBegun
  <2>6. \A p \in Requests : owed'[p] > 0 => owed[p] > 0
    BY <2>1, <1>u DEF Less
  <2>7. LateIsConfirmed'
    BY <2>1, <2>2, <2>3, <2>4, <2>6, <1>v DEF LateIsConfirmed
  <2> QED
    BY <1>t, <2>5, <2>7, <2>1, <1>v DEF SuccessInv, SuccessIsConfirmed
<1>10. ASSUME NEW t \in IoThreads, DeliverTimeout(t) PROVE SuccessInv'
  <2>1. PICK r \in Request : DeliverTimeout(t)!(r)
    BY <1>10 DEF DeliverTimeout
  <2>2. ~NotBegun
    BY <2>1, <1>u, <1>v DEF UpgradeThread, NoneOutstanding
  <2>3. t \in Threads /\ t # "upgrade"
    BY DEF Threads, UpgraderAssumption
  <2>4. /\ doing'[t] = [do |-> "Timeout", what |-> r]
        /\ \A u \in Threads : u # t => doing'[u] = doing[u]
    BY <2>1, <2>3, <1>u, GoesFacts
  <2>5. UpgradeThread' /\ ~NotBegun'
    BY <2>1, <2>2, <2>3, <2>4, <1>u, <1>v DEF UpgradeThread, NotBegun
  <2>6. ~confirmed => r \notin Late
    <3>1. ~confirmed => r # "Complete"
      BY <2>1, <2>2, <1>v DEF LateIsConfirmed
    <3> QED
      BY <3>1 DEF Late, Request
  <2>7. ~confirmed => unsent'["Complete"] = 0
    BY <2>1, <2>2, <1>u, <1>v DEF LateIsConfirmed, Less, Request
  <2>8. LateIsConfirmed'
    BY <2>1, <2>2, <2>4, <2>6, <2>7, <1>v DEF LateIsConfirmed
  <2> QED
    BY <1>t, <2>5, <2>8, <2>1, <1>v DEF SuccessInv, SuccessIsConfirmed
<1>11. CASE SeesEnd
  <2>1. /\ UNCHANGED <<fsm, doing, reports, owed, unsent, confirmed>>
        /\ main' = "success" => fsm = "Idle"
        /\ "early" \notin flaws' => ~NotBegun
    BY <1>11 DEF SeesEnd, NotBegun, Finished
  <2>2. UpgradeThread' /\ LateIsConfirmed'
    BY <2>1, <1>v DEF UpgradeThread, LateIsConfirmed, NotBegun, NoneOutstanding
  <2>3. SuccessIsConfirmed'
    BY <2>1, <1>v DEF LateIsConfirmed, SuccessIsConfirmed
  <2> QED
    BY <1>t, <2>2, <2>3 DEF SuccessInv
<1>12. CASE Destroy \/ UNCHANGED vars
  <2>1. UNCHANGED <<fsm, doing, reports, owed, unsent, main, confirmed, flaws>>
    BY <1>12 DEF Destroy, vars
  <2> QED
    BY <1>t, <2>1, <1>v DEF SuccessInv, UpgradeThread, LateIsConfirmed, NotBegun,
       NoneOutstanding, SuccessIsConfirmed
<1> QED
  BY <1>1, <1>2, <1>3, <1>4, <1>5, <1>6, <1>7, <1>8, <1>9, <1>10, <1>11, <1>12
  DEF Next, Runs, Concludes

\* The values of the variables before the upgrade.
LEMMA InitType == Init => TypeOK
<1> SUFFICES ASSUME Init PROVE TypeOK
  OBVIOUS
<1>1. [do |-> "event", what |-> "RequestUpgrade"] \in Call
  BY CallFacts DEF Event, Request
<1>2. doing \in [Threads -> Call]
  BY <1>1, CallFacts DEF Init
<1>3. tries \in Nat /\ (tries < GeneralTryLimit \/ tries < ProgressTryLimit)
  BY UpgraderAssumption DEF Init
<1>4. /\ owed \in [Requests -> Nat]
      /\ unsent \in [Request -> Nat]
      /\ reports \in [Threads -> Nat]
  BY DEF Init
<1>5. offset \in 0 .. Blocks /\ accepted \subseteq 0 .. Blocks
  BY UpgraderAssumption DEF Init
<1>6. /\ fsm \in State
      /\ main \in {"waiting", "success", "error"}
      /\ destroyed \in BOOLEAN /\ confirmed \in BOOLEAN
      /\ flaws \subseteq {"extra", "mute", "early"}
  BY DEF Init, State
<1> QED
  BY <1>2, <1>3, <1>4, <1>5, <1>6 DEF TypeOK

\* Type correctness: the members of the upgrader have the values the code expects.
THEOREM Typing == Spec => []TypeOK
BY InitType, TypeStep, PTL DEF Spec

\* The invariant behind SuccessIsConfirmed.
LEMMA SuccessInductive == Spec => []SuccessInv
<1>1. Init => SuccessInv
  <2> SUFFICES ASSUME Init PROVE SuccessInv
    OBVIOUS
  <2>1. TypeOK
    BY InitType
  <2>2. /\ doing["upgrade"] = [do |-> "event", what |-> "RequestUpgrade"]
        /\ \A t \in IoThreads : doing[t] = Nothing
        /\ reports["upgrade"] = 0
    BY UpgraderAssumption DEF Init, Threads
  <2>3. NotBegun
    BY <2>2 DEF NotBegun
  <2>4. UpgradeThread
    BY <2>2, <2>3 DEF Init, UpgradeThread, NoneOutstanding
  <2> QED
    BY <2>1, <2>3, <2>4 DEF Init, SuccessInv, LateIsConfirmed, SuccessIsConfirmed
<1> QED
  BY <1>1, SuccessStep, PTL DEF Spec

\* Whatever the outcomes of the commands, "upgrade successfully" is printed only for a
\* lidar that has reported a progress of 100, unless the destructor looked too early.
THEOREM Success == Spec => []SuccessIsConfirmed
<1>1. SuccessInv => SuccessIsConfirmed
  BY DEF SuccessInv
<1> QED
  BY <1>1, SuccessInductive, PTL

-----------------------------------------------------------------------------
(***************************************************************************)
(* Commands with one outcome.                                              *)
(***************************************************************************)

\* The rows of upgrade_event_table.
LEMMA SourcesFacts ==
  /\ \A e \in Event \ {"Err"} : "Err" \notin Sources[e]
  /\ \A e \in Event \ {"Err"} : "Idle" \in Sources[e] => e = "RequestUpgrade"
  /\ \A r \in Request : Target[r] \in Sources[r] /\ Target[r] \notin {"Idle", "Err"}
  /\ Target["Complete"] \in Sources["Reinit"]
BY DEF Target, Sources, Event, Request

\* The event after an answer fits the state of the request.
LEMMA FollowsState ==
  ASSUME NEW r \in Request, NEW answer \in {"ok", "busy", "error"}, NEW at \in Nat,
         NEW e, e = Follows(r, answer, at), e # "Err"
  PROVE  /\ Target[r] \in Sources[e]
         /\ e = "CompleteXferFirmware" => r = "XferFirmware" /\ Blocks <= at
BY UpgraderAssumption
DEF Follows, AfterBlock, AfterProgress, Target, Sources, Request

\* A thread that makes a call is the only one, and no outcome is to come.
LEMMA Alone ==
  ASSUME OneAtATime, Reliable, NEW t \in Threads, doing[t] # Nothing
  PROVE  /\ \A u \in Threads : u # t => doing[u] = Nothing
         /\ NoneOutstanding
BY DEF OneAtATime, Active

\* An upgrade that has ended is left alone.
LEMMA EndIsQuiet ==
  ASSUME TypeOK, ReliableInv, Reliable, fsm \in {"Idle", "Err"}, ~NotBegun
  PROVE  /\ \A t \in Threads : doing[t].do = "nothing"
         /\ NoneOutstanding
<1>1. doing \in [Threads -> Call] /\ owed \in [Requests -> Nat]
  BY DEF TypeOK
<1>2. ASSUME NEW t \in Threads PROVE doing[t].do = "nothing"
  <2>1. CallMatches(t) /\ UpgradeThreadMatches
    BY DEF ReliableInv
  <2>2. doing[t] \in Call
    BY <1>1
  <2>3. doing[t].do \in {"event", "enter"} => t # "upgrade"
    BY <2>1 DEF UpgradeThreadMatches
  <2>4. CASE doing[t].do \in {"event", "enter"}
    <3>1. t \in IoThreads /\ fsm = "Err"
      BY <2>1, <2>3, <2>4 DEF CallMatches, Threads
    <3>2. doing[t].what \in Event /\ doing[t] = [do |-> doing[t].do, what |-> doing[t].what]
      BY <2>2, <2>4 DEF Call, Event
    <3>3. CASE doing[t].what = "Err"
      BY <3>1, <3>2, <3>3, <2>1, <2>4 DEF CallMatches
    <3>4. CASE doing[t].what # "Err"
      BY <3>1, <3>2, <3>4, <2>1, <2>4, SourcesFacts DEF CallMatches
    <3> QED
      BY <3>3, <3>4
  <2>5. CASE doing[t].do \in {"send", "Success", "Timeout", "SendFailed"}
    <3>1. doing[t].what \in Request
      BY <2>2, <2>5 DEF Call
    <3> QED
      BY <3>1, <2>1, <2>5, SourcesFacts DEF CallMatches
  <2> QED
    BY <2>2, <2>4, <2>5 DEF Call
<1>3. \A q \in Requests : owed[q] = 0
  BY <1>1, RequestFacts, SourcesFacts DEF ReliableInv, OutcomeMatches
<1> QED
  BY <1>2, <1>3 DEF ReliableInv, OneAtATime, NoneOutstanding

\* Thread t makes another call, or none: what the step leaves to show.
LEMMA ReliableByCall ==
  ASSUME TypeOK, TypeOK', ReliableInv, Reliable, NEW t \in Threads,
         doing[t] # Nothing, doing[t].do # "nothing", NEW c, Goes(t, c),
         UNCHANGED <<owed, unsent, main, destroyed>>,
         "early" \in flaws => "early" \in flaws',
         CallMatches(t)', BlocksMatch(t)', UpgradeThreadMatches', NoBlockSkipped'
  PROVE  ReliableInv'
<1>1. doing \in [Threads -> Call]
  BY DEF TypeOK
<1>2. NoneOutstanding /\ \A u \in Threads : u # t => doing[u] = Nothing
  BY Alone DEF ReliableInv
<1>3. doing'[t] = c /\ \A u \in Threads : u # t => doing'[u] = Nothing
  BY <1>1, <1>2, GoesFacts
<1>4. NoneOutstanding'
  BY <1>2 DEF NoneOutstanding
<1>5. OneAtATime'
  BY <1>3, <1>4 DEF OneAtATime, NoneOutstanding, Active
<1>6. \A u \in Threads : CallMatches(u)' /\ BlocksMatch(u)'
  <2> SUFFICES ASSUME NEW u \in Threads, u # t PROVE CallMatches(u)' /\ BlocksMatch(u)'
    OBVIOUS
  <2>1. doing'[u] = Nothing
    BY <1>3
  <2> QED
    BY <2>1 DEF CallMatches, BlocksMatch, Nothing
<1>7. \A q \in Requests : OutcomeMatches(q)'
  BY <1>4 DEF OutcomeMatches, NoneOutstanding
<1>8. EndIsSeen'
  BY EndIsQuiet DEF EndIsSeen, ReliableInv
<1> QED
  BY <1>5, <1>6, <1>7, <1>8 DEF ReliableInv

LEMMA ReliableStep == TypeOK /\ TypeOK' /\ ReliableInv /\ [Next]_vars => ReliableInv'
<1> SUFFICES ASSUME TypeOK, TypeOK', ReliableInv, [Next]_vars PROVE ReliableInv'
  OBVIOUS
<1> USE UpgraderAssumption
<1>a. CASE ~Reliable'
  BY <1>a DEF ReliableInv, OneAtATime, NoBlockSkipped
<1>b. CASE Reliable'
  <2>t. /\ doing \in [Threads -> Call] /\ reports \in [Threads -> Nat]
        /\ owed \in [Requests -> Nat] /\ unsent \in [Request -> Nat]
        /\ offset \in 0 .. Blocks /\ accepted \subseteq 0 .. Blocks
        /\ "upgrade" \in Threads
    BY DEF TypeOK, Threads
  <2>1. ASSUME NEW t \in Threads, FsmEventHandler(t) PROVE ReliableInv'
    <3>1. PICK e \in Event : FsmEventHandler(t)!(e)
      BY <2>1 DEF FsmEventHandler
    <3>2. /\ Reliable /\ UpgradeThreadMatches /\ CallMatches(t) /\ BlocksMatch(t)
          /\ NoBlockSkipped /\ OneAtATime
      BY <1>b, <3>1 DEF Reliable, ReliableInv
    <3>3. /\ doing[t] # Nothing /\ doing[t].do = "event" /\ doing[t].what = e
          /\ \A u \in Threads : u # t => doing[u] = Nothing
      BY <3>1, <3>2, Alone DEF Nothing
    <3>4. CASE e = "Err"
      <4>1. Goes(t, Nothing) /\ fsm' = "Err"
        BY <3>1, <3>4, TargetFacts
      <4>2. doing'[t] = Nothing /\ \A u \in Threads : doing'[u] = Nothing
        BY <4>1, <3>3, <2>t, GoesFacts
      <4>3. CallMatches(t)' /\ BlocksMatch(t)' /\ UpgradeThreadMatches'
        BY <4>2, <2>t DEF CallMatches, BlocksMatch, UpgradeThreadMatches, Nothing
      <4>4. NoBlockSkipped'
        BY <4>1, <3>1, <3>2 DEF NoBlockSkipped, Reliable
      <4> QED
        BY <4>1, <4>3, <4>4, <3>1, <3>2, <3>3, ReliableByCall
    <3>5. CASE e # "Err"
      <4>1. fsm \in Sources[e]
        BY <3>2, <3>3, <3>5 DEF CallMatches
      <4>2. fsm' = fsm /\ reports' = reports /\ Goes(t, [do |-> "enter", what |-> e])
        BY <4>1, <3>1, <3>5
      <4>3. /\ doing'[t] = [do |-> "enter", what |-> e]
            /\ \A u \in Threads : u # t => doing'[u] = Nothing
        BY <4>2, <3>3, <2>t, GoesFacts
      <4>4. CallMatches(t)'
        BY <4>1, <4>2, <4>3, <3>2, <3>3, <3>5 DEF CallMatches
      <4>5. BlocksMatch(t)'
        BY <4>3, <3>1, <3>2, <3>3 DEF BlocksMatch
      <4>6. UpgradeThreadMatches'
        BY <4>2, <4>3, <3>2, <3>3, <2>t DEF UpgradeThreadMatches, NotBegun, Nothing
      <4>7. NoBlockSkipped'
        BY <4>2, <3>1, <3>2 DEF NoBlockSkipped, Reliable
      <4> QED
        BY <4>2, <4>4, <4>5, <4>6, <4>7, <3>1, <3>2, <3>3, ReliableByCall
    <3> QED
      BY <3>4, <3>5
  <2>2. ASSUME NEW t \in Threads, EnterState(t) PROVE ReliableInv'
    <3>1. PICK e \in Event : EnterState(t)!(e)
      BY <2>2 DEF EnterState
    <3>2. /\ Reliable /\ UpgradeThreadMatches /\ CallMatches(t) /\ BlocksMatch(t)
          /\ NoBlockSkipped /\ OneAtATime
      BY <1>b, <3>1 DEF Reliable, ReliableInv
    <3>3. /\ doing[t] # Nothing /\ doing[t].do = "enter" /\ doing[t].what = e
          /\ \A u \in Threads : u # t => doing[u] = Nothing
      BY <3>1, <3>2, Alone DEF Nothing
    <3>4. e # "Err" /\ fsm \in Sources[e]
      BY <3>2, <3>3 DEF CallMatches
    <3>5. PICK c \in {[do |-> "send", what |-> e], Nothing} : Goes(t, c)
      BY <3>1
    <3>6. doing'[t] = c /\ \A u \in Threads : u # t => doing'[u] = Nothing
      BY <3>5, <3>3, <2>t, GoesFacts
    <3>7. CallMatches(t)' /\ BlocksMatch(t)'
      BY <3>1, <3>5, <3>6 DEF CallMatches, BlocksMatch, Nothing
    <3>8. UpgradeThreadMatches'
      BY <3>5, <3>6, <2>t DEF UpgradeThreadMatches, Nothing
    <3>9. fsm' \in {"CompleteXfer", "Progress", "Complete"} => offset = Blocks
      BY <3>1, <3>2, <3>3, <3>4
      DEF Target, Sources, Event, Request, BlocksMatch, NoBlockSkipped
    <3>10. NoBlockSkipped'
      BY <3>1, <3>2, <3>9 DEF NoBlockSkipped
    <3> QED
      BY <3>1, <3>2, <3>3, <3>5, <3>7, <3>8, <3>10, ReliableByCall
  <2>3. ASSUME NEW t \in Threads, Send(t) PROVE ReliableInv'
    <3>1. PICK r \in Request, n \in 1 .. Registrations : Send(t)!(r, n)
      BY <2>3 DEF Send
    <3>2. /\ Reliable /\ UpgradeThreadMatches /\ CallMatches(t)
          /\ NoBlockSkipped /\ OneAtATime /\ n = 1
      BY <1>b, <3>1 DEF Reliable, ReliableInv
    <3>3. /\ doing[t] # Nothing /\ doing[t].do = "send" /\ doing[t].what = r
          /\ \A u \in Threads : u # t => doing[u] = Nothing
          /\ NoneOutstanding
      BY <3>1, <3>2, Alone DEF Nothing
    <3>4. fsm' = Target[r]
      BY <3>1, <3>2, <3>3 DEF CallMatches
    <3>5. \A u \in Threads : doing'[u] = Nothing
      BY <3>1, <3>3, <2>t, GoesFacts
    <3> DEFINE q == <<r, IF r = "XferFirmware" THEN offset ELSE 0>>
    <3>6. /\ q \in Requests /\ q[1] = r
          /\ r = "XferFirmware" => q[2] = offset'
          /\ owed'[q] = 1 /\ \A p \in Requests : p # q => owed'[p] = 0
      BY <3>1, <3>2, <3>3, <2>t DEF NoneOutstanding, Rewind
    <3> HIDE DEF q
    <3>7. OneAtATime'
      BY <3>1, <3>3, <3>5, <3>6 DEF OneAtATime, Active, NoneOutstanding
    <3>8. \A p \in Requests : OutcomeMatches(p)'
      BY <3>4, <3>6 DEF OutcomeMatches
    <3>9. \A u \in Threads : CallMatches(u)' /\ BlocksMatch(u)'
      BY <3>5 DEF CallMatches, BlocksMatch, Nothing
    <3>10. UpgradeThreadMatches'
      BY <3>5, <2>t DEF UpgradeThreadMatches, Nothing
    <3>11. NoBlockSkipped'
      BY <3>1, <3>2, <3>4, <2>t DEF NoBlockSkipped, Rewind, Target
    <3>12. EndIsSeen'
      BY <3>1, <3>2, <3>3, EndIsQuiet DEF EndIsSeen, ReliableInv
    <3> QED
      BY <3>7, <3>8, <3>9, <3>10, <3>11, <3>12 DEF ReliableInv
  <2>4. ASSUME NEW t \in Threads, SendFails(t) PROVE ReliableInv'
    BY <1>b, <2>4 DEF SendFails, Reliable
  <2>5. ASSUME NEW t \in Threads, SendsNothing(t) PROVE ReliableInv'
    <3>1. PICK r \in Request : SendsNothing(t)!(r)
      BY <2>5 DEF SendsNothing
    <3>2. /\ Reliable /\ UpgradeThreadMatches /\ CallMatches(t)
          /\ NoBlockSkipped /\ OneAtATime
      BY <1>b, <3>1 DEF Reliable, ReliableInv
    <3>3. /\ doing[t] # Nothing /\ doing[t].do = "send" /\ doing[t].what = r
          /\ \A u \in Threads : u # t => doing[u] = Nothing
      BY <3>1, <3>2, Alone DEF Nothing
    <3>4. \A u \in Threads : doing'[u] = Nothing
      BY <3>1, <3>3, <2>t, GoesFacts
    <3>5. CallMatches(t)' /\ BlocksMatch(t)' /\ UpgradeThreadMatches'
      BY <3>4, <2>t DEF CallMatches, BlocksMatch, UpgradeThreadMatches, Nothing
    <3>6. fsm = Target[r]
      BY <3>2, <3>3 DEF CallMatches
    <3>7. NoBlockSkipped'
      BY <3>1, <3>2, <3>6, <2>t DEF NoBlockSkipped, Rewind, Target
    <3> QED
      BY <3>1, <3>2, <3>3, <3>5, <3>7, ReliableByCall
  <2>6. ASSUME NEW t \in Threads, Report(t) PROVE ReliableInv'
    <3>1. /\ UNCHANGED <<fsm, offset, doing, owed, unsent, main, destroyed, accepted, flaws>>
          /\ doing[t] = Nothing
          /\ \A u \in Threads : u # t => reports'[u] = reports[u]
      BY <2>6, <2>t DEF Report
    <3>2. NotBegun' <=> NotBegun
      BY <3>1, <2>t DEF NotBegun, Nothing
    <3> QED
      BY <3>1, <3>2 DEF ReliableInv, OneAtATime, NoBlockSkipped, NoneOutstanding, Active,
         Reliable, UpgradeThreadMatches, CallMatches, BlocksMatch, OutcomeMatches, EndIsSeen
  <2>7. ASSUME NEW t \in Threads, NEW answer \in {"ok", "busy", "error"}, Answered(t, answer)
        PROVE  ReliableInv'
    <3>1. PICK r \in Request : Answered(t, answer)!(r)
      BY <2>7 DEF Answered
    <3>2. /\ Reliable /\ UpgradeThreadMatches /\ CallMatches(t) /\ BlocksMatch(t)
          /\ NoBlockSkipped /\ OneAtATime
      BY <1>b, <3>1 DEF Reliable, ReliableInv
    <3>3. /\ doing[t] # Nothing /\ doing[t].do = "Success" /\ doing[t].what = r
          /\ \A u \in Threads : u # t => doing[u] = Nothing
      BY <3>1, <3>2, Alone DEF Nothing
    <3>4. t # "upgrade" /\ fsm = Target[r]
      BY <3>2, <3>3 DEF UpgradeThreadMatches, CallMatches
    <3>5. offset' \in Nat /\ offset' <= Blocks
      BY DEF TypeOK
    <3>6. PICK e : e = Follows(r, answer, offset') /\ Raises(t, e)
      BY <3>1
    <3>7. e # "Err" => fsm \in Sources[e] /\ (e = "CompleteXferFirmware" => offset' = Blocks)
      BY <3>4, <3>5, <3>6, FollowsState
    <3>8. /\ doing'[t] = [do |-> "event", what |-> e]
          /\ \A u \in Threads : u # t => doing'[u] = Nothing
      BY <3>3, <3>6, <2>t, GoesFacts DEF Raises
    <3>9. CallMatches(t)'
      BY <3>1, <3>4, <3>7, <3>8, SourcesFacts DEF CallMatches
    <3>10. BlocksMatch(t)' /\ UpgradeThreadMatches'
      BY <3>4, <3>7, <3>8, <2>t DEF BlocksMatch, UpgradeThreadMatches, Nothing
    <3>11. NoBlockSkipped'
      <4>1. CASE offset' = offset
        BY <4>1, <3>1, <3>2 DEF NoBlockSkipped, Reliable
      <4>2. CASE offset' # offset
        <5>1. r = "XferFirmware" /\ offset' = offset + 1
          BY <4>2, <3>1
        <5>2. offset \in accepted /\ fsm' = "Xfer"
          BY <5>1, <3>1, <3>2, <3>4 DEF BlocksMatch, Target
        <5> QED
          BY <5>1, <5>2, <3>1, <3>2, <2>t DEF NoBlockSkipped, Reliable
      <4> QED
        BY <4>1, <4>2
    <3> QED
      BY <3>1, <3>2, <3>3, <3>6, <3>9, <3>10, <3>11, ReliableByCall DEF Raises
  <2>8. ASSUME NEW t \in Threads, Unanswered(t) PROVE ReliableInv'
    <3>1. PICK r \in Request : Unanswered(t)!(r)
      BY <2>8 DEF Unanswered
    <3>2. /\ Reliable /\ UpgradeThreadMatches /\ CallMatches(t)
          /\ NoBlockSkipped /\ OneAtATime
      BY <1>b, <3>1 DEF Reliable, ReliableInv
    <3>3. /\ doing[t] # Nothing /\ doing[t].do \in {"Timeout", "SendFailed"}
          /\ doing[t].what = r
          /\ \A u \in Threads : u # t => doing[u] = Nothing
      BY <3>1, <3>2, Alone DEF Nothing
    <3>4. t # "upgrade" /\ fsm = Target[r]
      BY <3>2, <3>3 DEF UpgradeThreadMatches, CallMatches
    <3>5. PICK e : Raises(t, e) /\ (e = r \/ e = "Err" \/ (e = "Reinit" /\ r = "Complete"))
      BY <3>1, UnansweredRaises
    <3>6. fsm \notin {"Idle", "Err"} /\ (e # "Err" => fsm \in Sources[e])
      BY <3>4, <3>5, SourcesFacts
    <3>7. e = "CompleteXferFirmware" => offset = Blocks
      BY <3>2, <3>4, <3>5 DEF NoBlockSkipped, Target
    <3>8. /\ doing'[t] = [do |-> "event", what |-> e]
          /\ \A u \in Threads : u # t => doing'[u] = Nothing
      BY <3>3, <3>5, <2>t, GoesFacts DEF Raises
    <3>9. CallMatches(t)'
      BY <3>1, <3>6, <3>8 DEF CallMatches
    <3>10. BlocksMatch(t)' /\ UpgradeThreadMatches'
      BY <3>1, <3>4, <3>7, <3>8, <2>t DEF BlocksMatch, UpgradeThreadMatches, Nothing
    <3>11. NoBlockSkipped'
      BY <3>1, <3>2 DEF NoBlockSkipped, Reliable
    <3> QED
      BY <3>1, <3>2, <3>3, <3>5, <3>9, <3>10, <3>11, ReliableByCall DEF Raises
  <2>9. ASSUME NEW t \in IoThreads, Deliver(t) PROVE ReliableInv'
    <3>1. PICK q \in Requests, st \in {"Success", "Timeout"} : Deliver(t)!(q, st)
      BY <2>9 DEF Deliver
    <3>2. /\ Reliable /\ OutcomeMatches(q) /\ NoBlockSkipped /\ OneAtATime
      BY <1>b, <3>1 DEF Reliable, ReliableInv
    <3>3. t \in Threads /\ t # "upgrade"
      BY DEF Threads
    <3>4. \A u \in Threads : doing[u] = Nothing
      BY <3>1, <3>2 DEF OneAtATime, Active, NoneOutstanding
    <3>5. /\ doing'[t] = [do |-> st, what |-> q[1]]
          /\ \A u \in Threads : u # t => doing'[u] = Nothing
      BY <3>1, <3>3, <3>4, <2>t, GoesFacts
    <3>6. fsm' = Target[q[1]] /\ (q[1] = "XferFirmware" => q[2] = offset')
      BY <3>1, <3>2 DEF OutcomeMatches
    <3>7. owed'[q] = 0 /\ \A p \in Requests : p # q => owed'[p] = 0
      BY <3>1, <3>2, <2>t DEF OneAtATime, Less
    <3>8. NoneOutstanding'
      BY <3>1, <3>2, <3>7 DEF NoneOutstanding, OneAtATime
    <3>9. OneAtATime'
      BY <3>5, <3>8 DEF OneAtATime, Active, NoneOutstanding
    <3>10. \A u \in Threads : CallMatches(u)'
      BY <3>3, <3>5, <3>6 DEF CallMatches, Nothing
    <3>11. \A u \in Threads : BlocksMatch(u)'
      <4>1. BlocksMatch(t)'
        BY <3>1, <3>5, <3>6 DEF BlocksMatch
      <4> QED
        BY <4>1, <3>5 DEF BlocksMatch, Nothing
    <3>12. UpgradeThreadMatches'
      BY <3>3, <3>5, <2>t DEF UpgradeThreadMatches, Nothing
    <3>13. \A p \in Requests : OutcomeMatches(p)'
      BY <3>8 DEF OutcomeMatches, NoneOutstanding
    <3>14. NoBlockSkipped'
      BY <3>1, <3>2 DEF NoBlockSkipped, Reliable
    <3>15. EndIsSeen'
      <4>1. fsm \in {"Idle", "Err"} => NotBegun
        BY <3>1, <3>2, EndIsQuiet DEF NoneOutstanding
      <4> QED
        BY <4>1, <3>1, <3>2, <3>3, <3>4, <2>t DEF EndIsSeen, ReliableInv
    <3> QED
      BY <3>9, <3>10, <3>11, <3>12, <3>13, <3>14, <3>15 DEF ReliableInv
  <2>10. ASSUME NEW t \in IoThreads, DeliverTimeout(t) PROVE ReliableInv'
    BY <1>b, <2>10 DEF DeliverTimeout, Reliable, ReliableInv, OneAtATime
  <2>11. CASE SeesEnd
    <3>1. /\ UNCHANGED <<fsm, offset, doing, reports, owed, unsent, destroyed, accepted>>
          /\ main' # "waiting" /\ fsm \in {"Idle", "Err"}
          /\ "early" \notin flaws' => ~NotBegun
          /\ "extra" \in flaws => "extra" \in flaws'
      BY <2>11 DEF SeesEnd, NotBegun, Finished
    <3>2. Reliable
      BY <1>b, <3>1 DEF Reliable
    <3>3. EndIsSeen'
      BY <3>1 DEF EndIsSeen, NotBegun
    <3> QED
      BY <3>1, <3>2, <3>3 DEF ReliableInv, OneAtATime, NoBlockSkipped, NoneOutstanding,
         Active, NotBegun, UpgradeThreadMatches, CallMatches, BlocksMatch, OutcomeMatches
  <2>12. CASE Destroy \/ UNCHANGED vars
    <3>1. /\ UNCHANGED <<fsm, offset, doing, reports, owed, unsent, main, accepted, flaws>>
          /\ destroyed' => main # "waiting" \/ destroyed
      BY <2>12 DEF Destroy, vars
    <3> QED
      BY <3>1 DEF ReliableInv, OneAtATime, NoBlockSkipped, NoneOutstanding, Active, Reliable,
         NotBegun, UpgradeThreadMatches, CallMatches, BlocksMatch, OutcomeMatches, EndIsSeen
  <2> QED
    BY <2>1, <2>2, <2>3, <2>4, <2>5, <2>6, <2>7, <2>8, <2>9, <2>10, <2>11, <2>12
    DEF Next, Runs, Concludes
<1> QED
  BY <1>a, <1>b

\* The members are used by one thread at a time, no block is skipped, and an upgrade that
\* the destructor saw the end of is left alone.
LEMMA ReliableInductive == Spec => []ReliableInv
<1>1. Init => ReliableInv
  <2> SUFFICES ASSUME Init PROVE ReliableInv
    OBVIOUS
  <2> USE UpgraderAssumption
  <2>1. /\ doing["upgrade"] = [do |-> "event", what |-> "RequestUpgrade"]
        /\ \A t \in Threads : t # "upgrade" => doing[t] = Nothing
        /\ NotBegun
    BY DEF Init, Threads, NotBegun
  <2>2. NoneOutstanding
    BY DEF Init, NoneOutstanding
  <2>3. OneAtATime
    BY <2>1, <2>2 DEF OneAtATime, NoneOutstanding, Active
  <2>4. NoBlockSkipped
    BY DEF Init, NoBlockSkipped
  <2>5. UpgradeThreadMatches
    BY <2>1 DEF UpgradeThreadMatches
  <2>6. ASSUME NEW t \in Threads PROVE CallMatches(t) /\ BlocksMatch(t)
    <3>1. CASE t = "upgrade"
      BY <2>1, <3>1 DEF Init, CallMatches, BlocksMatch, Sources
    <3>2. CASE t # "upgrade"
      BY <2>1, <3>2 DEF CallMatches, BlocksMatch, Nothing
    <3> QED
      BY <3>1, <3>2
  <2>7. \A q \in Requests : OutcomeMatches(q)
    BY <2>2 DEF OutcomeMatches, NoneOutstanding
  <2>8. EndIsSeen
    BY DEF Init, EndIsSeen
  <2> QED
    BY <2>3, <2>4, <2>5, <2>6, <2>7, <2>8 DEF ReliableInv
<1> QED
  BY <1>1, ReliableStep, Typing, PTL DEF Spec

\* The members of LivoxLidarUpgrader, which no lock protects, have one user at a time when
\* every command has one outcome.
THEOREM OneUser == Spec => []UpgraderOK
<1>1. TypeOK /\ ReliableInv => UpgraderOK
  BY DEF ReliableInv, UpgraderOK
<1> QED
  BY <1>1, Typing, ReliableInductive, PTL

\* XferFirmware skips no block of the firmware, and the transfer is completed with all of
\* them acknowledged.
THEOREM NoBlockIsSkipped == Spec => []NoBlockSkipped
<1>1. ReliableInv => NoBlockSkipped
  BY DEF ReliableInv
<1> QED
  BY <1>1, ReliableInductive, PTL

\* No response handler is called with a destroyed upgrader, when the destructor has not
\* looked too early and every command has one outcome.
THEOREM NoDanglingHandler == Spec => []NoOutcomeOutlives
<1>1. TypeOK /\ ReliableInv => NoOutcomeOutlives
  BY EndIsQuiet DEF ReliableInv, EndIsSeen, NoOutcomeOutlives
<1> QED
  BY <1>1, Typing, ReliableInductive, PTL

\* An upgrade that has ended does not begin again.
THEOREM EndedForGood == Spec => EndIsFinal
<1> DEFINE Final ==
  Reliable /\ fsm \in {"Idle", "Err"} /\ fsm' # fsm =>
    doing["upgrade"] = [do |-> "enter", what |-> "RequestUpgrade"]
<1>1. TypeOK /\ ReliableInv /\ [Next]_vars => Final
  <2> SUFFICES ASSUME TypeOK, ReliableInv, [Next]_vars, Reliable,
                      fsm \in {"Idle", "Err"}, fsm' # fsm
               PROVE  doing["upgrade"] = [do |-> "enter", what |-> "RequestUpgrade"]
    OBVIOUS
  <2>1. PICK t \in Threads : FsmEventHandler(t) \/ EnterState(t)
    BY DEF Next, Runs, Concludes, vars, Send, SendFails, SendsNothing, Report, Answered,
       Unanswered, Deliver, DeliverTimeout, SeesEnd, Destroy
  <2>2. CallMatches(t) /\ UpgradeThreadMatches
    BY DEF ReliableInv
  <2>3. ~FsmEventHandler(t)
    BY <2>2 DEF FsmEventHandler, CallMatches
  <2>4. PICK e \in Event : EnterState(t)!(e)
    BY <2>1, <2>3 DEF EnterState
  <2>5. e # "Err" /\ fsm \in Sources[e] /\ (t \in IoThreads => fsm # "Idle")
    BY <2>2, <2>4 DEF CallMatches
  <2>6. fsm = "Idle" /\ e = "RequestUpgrade"
    BY <2>5, SourcesFacts
  <2> QED
    BY <2>4, <2>5, <2>6 DEF Threads
<1> QED
  BY <1>1, Typing, ReliableInductive, PTL DEF Spec, EndIsFinal

=============================================================================
