------------------------------ MODULE Upgrader ------------------------------
(***************************************************************************)
(* The firmware upgrade of one lidar: LivoxLidarUpgrader, the thread that  *)
(* starts it, the IO threads that call its response handlers, and its      *)
(* destructor, in which UpgradeManager::UpgradeLivoxLidars waits for the   *)
(* end of the upgrade.                                                     *)
(*                                                                         *)
(* Of the command layer this module keeps what CommandLedger promises: a   *)
(* command that was sent gets at most as many outcomes as it had           *)
(* registrations, one for a Mid360 and up to two for a HAP. Offsets count  *)
(* blocks of read_length_ bytes. None of the members is protected by a     *)
(* lock, so every call of a thread is an action of its own, and the        *)
(* reading and the writing of fsm_state_ are two. A response handler up to *)
(* its call of FsmEventHandler is one: only with more than one outcome of  *)
(* a command do two of them run at a time, and no property of that case    *)
(* depends on read_offset_ or try_count_.                                  *)
(***************************************************************************)
EXTENDS Naturals, Functions

CONSTANTS
  IoThreads,          \* threads that call response handlers
  Blocks,             \* firmware_length, in blocks
  GeneralTryLimit,    \* kGeneralTryCountLimit
  ProgressTryLimit,   \* kGetProcessTryCountLimit
  Registrations,      \* outcomes one command may get: 1 for Mid360, 2 for HAP
  SendMayFail,        \* whether sendto may fail
  MaxOwed,            \* bound: outcomes outstanding at a time
  MaxNesting          \* bound: response handlers a thread is inside of

ASSUME UpgraderAssumption ==
  /\ Blocks \in Nat
  /\ GeneralTryLimit \in Nat \ {0}
  /\ ProgressTryLimit \in Nat \ {0}
  /\ Registrations \in {1, 2}
  /\ SendMayFail \in BOOLEAN
  /\ MaxOwed \in Nat
  /\ MaxNesting \in Nat
  /\ "upgrade" \notin IoThreads

VARIABLES
  fsm,        \* fsm_state_
  offset,     \* read_offset_; all values from Blocks on behave alike
  tries,      \* try_count_
  doing,      \* the call every thread is about to make
  reports,    \* observer_ calls every thread makes on its way back
  owed,       \* outcomes of the requests that were sent
  unsent,     \* outcomes of the requests that never left: their timeouts
  main,       \* what the destructor saw in fsm_state_
  destroyed,  \* the upgrader is gone
  accepted,   \* history: blocks the lidar acknowledged
  confirmed,  \* history: the lidar reported a progress of 100
  flaws       \* history: what the command layer and the scheduler did

vars == <<fsm, offset, tries, doing, reports, owed, unsent, main, destroyed,
          accepted, confirmed, flaws>>

(***************************************************************************)
(* The states, the events and upgrade_event_table. The event that sends a  *)
(* request has the name of the request.                                    *)
(***************************************************************************)
State == {"Idle", "Request", "Xfer", "CompleteXfer", "Progress", "Complete", "Err"}

Request == {"RequestUpgrade", "XferFirmware", "CompleteXferFirmware",
            "GetUpgradeProgress", "Complete"}
Event == Request \cup {"Reinit", "Err"}

Target == [RequestUpgrade |-> "Request", XferFirmware |-> "Xfer",
           CompleteXferFirmware |-> "CompleteXfer", GetUpgradeProgress |-> "Progress",
           Complete |-> "Complete", Reinit |-> "Idle", Err |-> "Err"]

Sources == [RequestUpgrade |-> {"Idle", "Request"}, XferFirmware |-> {"Request", "Xfer"},
            CompleteXferFirmware |-> {"Xfer", "CompleteXfer"},
            GetUpgradeProgress |-> {"CompleteXfer", "Progress"},
            Complete |-> {"Progress", "Complete"}, Reinit |-> {"Complete"}]

Threads == IoThreads \cup {"upgrade"}

\* The calls: FsmEventHandler until it has read the state, and until it has changed it,
\* the handler of the event, and a response handler with its status.
Call == [do : {"event", "enter"}, what : Event] \cup
        [do : {"nothing", "send", "Success", "Timeout", "SendFailed"}, what : Request]
Nothing == [do |-> "nothing", what |-> "RequestUpgrade"]

\* The requests for the blocks differ in their offset.
Requests == {q \in Request \X (0 .. Blocks) :
               IF q[1] = "XferFirmware" THEN q[2] < Blocks ELSE q[2] = 0}

Init ==
  /\ fsm = "Idle"
  /\ offset = 0
  /\ tries = 0
  /\ doing = [t \in Threads |-> IF t = "upgrade"
                THEN [do |-> "event", what |-> "RequestUpgrade"] ELSE Nothing]
  /\ reports = [t \in Threads |-> 0]
  /\ owed = [q \in Requests |-> 0]
  /\ unsent = [r \in Request |-> 0]
  /\ main = "waiting"
  /\ destroyed = FALSE
  /\ accepted = {}
  /\ confirmed = FALSE
  /\ flaws = {}

\* Thread t goes on with call c.
Goes(t, c) == doing' = [doing EXCEPT ![t] = c]
Raises(t, e) == Goes(t, [do |-> "event", what |-> e])

-----------------------------------------------------------------------------
(***************************************************************************)
(* FsmEventHandler and the handlers of the table, each of which sends one  *)
(* request with CommandImpl.                                               *)
(***************************************************************************)

\* An event that the table does not have for the state is reported and has no effect.
FsmEventHandler(t) == \E e \in Event :
  /\ doing[t] = [do |-> "event", what |-> e]
  /\ fsm' = IF e = "Err" THEN Target[e] ELSE fsm
  /\ IF e # "Err" /\ fsm \in Sources[e]
       THEN Goes(t, [do |-> "enter", what |-> e]) /\ UNCHANGED reports
       ELSE Goes(t, Nothing) /\ reports' = [reports EXCEPT ![t] = @ + 1]
  /\ UNCHANGED <<offset, tries, owed, unsent, main, destroyed, accepted, confirmed, flaws>>

\* The next state of the table, and its handler if there is one.
EnterState(t) == \E e \in Event :
  /\ doing[t] = [do |-> "enter", what |-> e]
  /\ fsm' = Target[e]
  /\ Goes(t, IF e \in Request THEN [do |-> "send", what |-> e] ELSE Nothing)
  /\ reports' = [reports EXCEPT ![t] = @ + 1]
  /\ UNCHANGED <<offset, tries, owed, unsent, main, destroyed, accepted, confirmed, flaws>>

\* The outcomes that are outstanding.
Outstanding == SumFunction(owed) + SumFunction(unsent)

\* StartUpgrade begins with the first block.
Rewind(r) == offset' = IF r = "RequestUpgrade" THEN 0 ELSE offset

\* The command is on its way, with one or more outcomes to come.
Send(t) == \E r \in Request, n \in 1 .. Registrations :
  LET q == <<r, IF r = "XferFirmware" THEN offset ELSE 0>> IN
  /\ doing[t] = [do |-> "send", what |-> r]
  /\ q \in Requests
  /\ Outstanding + n <= MaxOwed
  /\ Rewind(r)
  /\ owed' = [owed EXCEPT ![q] = @ + n]
  /\ flaws' = flaws \cup (IF n > 1 THEN {"extra"} ELSE {})
  /\ Goes(t, Nothing)
  /\ UNCHANGED <<fsm, tries, reports, unsent, main, destroyed, accepted, confirmed>>

\* sendto fails: the response handler is called at once, inside SendCommand. The
\* command is registered all the same, and its timeout calls the handler again.
SendFails(t) == \E r \in Request, n \in 1 .. Registrations :
  /\ SendMayFail
  /\ reports[t] <= MaxNesting
  /\ doing[t] = [do |-> "send", what |-> r]
  /\ r = "XferFirmware" => offset < Blocks
  /\ Outstanding + n <= MaxOwed
  /\ Rewind(r)
  /\ unsent' = [unsent EXCEPT ![r] = @ + n]
  /\ flaws' = flaws \cup {"extra"}
  /\ Goes(t, [do |-> "SendFailed", what |-> r])
  /\ UNCHANGED <<fsm, tries, reports, owed, main, destroyed, accepted, confirmed>>

\* The lidar has no command handler, or XferFirmware finds no block left to send: an
\* error is returned, FsmEventHandler ignores it, and no handler is ever called.
SendsNothing(t) == \E r \in Request :
  /\ doing[t] = [do |-> "send", what |-> r]
  /\ Rewind(r)
  /\ flaws' = flaws \cup {"mute"}
  /\ Goes(t, Nothing)
  /\ UNCHANGED <<fsm, tries, reports, owed, unsent, main, destroyed, accepted, confirmed>>

\* observer_, after the handler has returned.
Report(t) ==
  /\ doing[t] = Nothing
  /\ reports[t] > 0
  /\ reports' = [reports EXCEPT ![t] = @ - 1]
  /\ UNCHANGED <<fsm, offset, tries, doing, owed, unsent, main, destroyed, accepted,
                 confirmed, flaws>>

-----------------------------------------------------------------------------
(***************************************************************************)
(* The response handlers.                                                  *)
(***************************************************************************)
IsIdle(t) == doing[t] = Nothing /\ reports[t] = 0

\* Mutant of Less: the command layer keeps the entry whose outcome it delivers.
LessNot(f, q) == f

\* One outcome less.
Less(f, q) == [f EXCEPT ![q] = @ - 1]

\* An IO thread calls the response handler of a request that was sent.
Deliver(t) == \E q \in Requests, st \in {"Success", "Timeout"} :
  /\ IsIdle(t)
  /\ owed[q] > 0
  /\ owed' = Less(owed, q)
  /\ Goes(t, [do |-> st, what |-> q[1]])
  /\ accepted' = IF q[1] = "XferFirmware" /\ st = "Success"
                   THEN accepted \cup {q[2]} ELSE accepted
  /\ UNCHANGED <<fsm, offset, tries, reports, unsent, main, destroyed, confirmed, flaws>>

DeliverTimeout(t) == \E r \in Request :
  /\ IsIdle(t)
  /\ unsent[r] > 0
  /\ unsent' = Less(unsent, r)
  /\ Goes(t, [do |-> "Timeout", what |-> r])
  /\ UNCHANGED <<fsm, offset, tries, reports, owed, main, destroyed, accepted, confirmed,
                 flaws>>

\* Mutant of AfterBlock: the transfer is complete a block too early.
AfterBlockShort(at) == IF at + 1 < Blocks THEN "XferFirmware" ELSE "CompleteXferFirmware"

\* The event after a block was acknowledged, with the next block at.
AfterBlock(at) == IF at < Blocks THEN "XferFirmware" ELSE "CompleteXferFirmware"

\* Mutant of AfterProgress: any report of progress completes the upgrade.
AfterProgressSoon(answer) == "Complete"

\* The event after a report of progress: below 100 the upgrade is still busy.
AfterProgress(answer) == IF answer = "busy" THEN "GetUpgradeProgress" ELSE "Complete"

\* The event after the answer to r. A lidar that is not ready, or erases its firmware, is
\* asked again.
Follows(r, answer, at) ==
  IF answer = "error" THEN "Err" ELSE
  CASE r = "RequestUpgrade" -> IF answer = "busy" THEN r ELSE "XferFirmware"
    [] r = "XferFirmware" -> AfterBlock(at)
    [] r = "CompleteXferFirmware" -> "GetUpgradeProgress"
    [] r = "GetUpgradeProgress" -> AfterProgress(answer)
    [] r = "Complete" -> "Reinit"

MayBeBusy == {"RequestUpgrade", "GetUpgradeProgress"}

\* The status is kLivoxLidarStatusSuccess, the answer is the ret_code of the lidar.
Answered(t, answer) == \E r \in Request :
  /\ doing[t] = [do |-> "Success", what |-> r]
  /\ answer = "busy" => r \in MayBeBusy
  /\ tries' = 0
  /\ offset' = IF r = "XferFirmware" /\ answer = "ok" /\ offset < Blocks
                 THEN offset + 1 ELSE offset
  /\ confirmed' = (confirmed \/ (r = "GetUpgradeProgress" /\ answer = "ok"))
  /\ Raises(t, Follows(r, answer, offset'))
  /\ UNCHANGED <<fsm, reports, owed, unsent, main, destroyed, accepted, flaws>>

TryLimit(r) == IF r = "GetUpgradeProgress" THEN ProgressTryLimit ELSE GeneralTryLimit

\* Any other status: the request is repeated up to a limit. A lidar that does not
\* answer the request to reboot counts as upgraded.
Unanswered(t) == \E r \in Request :
  /\ doing[t].do \in {"Timeout", "SendFailed"}
  /\ doing[t].what = r
  /\ IF tries + 1 < TryLimit(r)
       THEN tries' = tries + 1 /\ Raises(t, r)
       ELSE tries' = 0 /\ Raises(t, IF r = "Complete" THEN "Reinit" ELSE "Err")
  /\ UNCHANGED <<fsm, offset, reports, owed, unsent, main, destroyed, accepted, confirmed,
                 flaws>>

-----------------------------------------------------------------------------
(***************************************************************************)
(* The destructor.                                                         *)
(***************************************************************************)

\* Mutants of Finished: the upgrade counts as finished when the reboot is requested; a
\* failed upgrade does not.
FinishedSoon == {"Idle", "Complete", "Err"}
FinishedNoError == {"Idle"}

Finished == {"Idle", "Err"}

\* fsm_state_ is read every 100 ms. Idle is also the state before the upgrade thread
\* has run.
SeesEnd ==
  /\ main = "waiting"
  /\ fsm \in Finished
  /\ main' = IF fsm = "Err" THEN "error" ELSE "success"
  /\ flaws' = IF doing["upgrade"].do \in {"event", "enter"} /\ reports["upgrade"] = 0
                THEN flaws \cup {"early"} ELSE flaws
  /\ UNCHANGED <<fsm, offset, tries, doing, reports, owed, unsent, destroyed, accepted,
                 confirmed>>

\* The upgrade thread is joined and the object destroyed.
Destroy ==
  /\ main # "waiting"
  /\ IsIdle("upgrade")
  /\ ~destroyed
  /\ destroyed' = TRUE
  /\ UNCHANGED <<fsm, offset, tries, doing, reports, owed, unsent, main, accepted,
                 confirmed, flaws>>

\* A thread that is inside the upgrader goes on. What one does after the upgrader is
\* destroyed is undefined: the model ends there.
Runs(t) ==
  /\ ~destroyed
  /\ \/ FsmEventHandler(t)
     \/ EnterState(t)
     \/ Send(t)
     \/ SendFails(t)
     \/ SendsNothing(t)
     \/ Report(t)
     \/ \E answer \in {"ok", "busy", "error"} : Answered(t, answer)
     \/ Unanswered(t)

Concludes(t) == ~destroyed /\ (Deliver(t) \/ DeliverTimeout(t))

Next ==
  \/ \E t \in Threads : Runs(t)
  \/ \E t \in IoThreads : Concludes(t)
  \/ SeesEnd
  \/ Destroy

Spec == Init /\ [][Next]_vars

(***************************************************************************)
(* Threads go on, every command that was sent is concluded (see            *)
(* EveryCommandConcludes of CommandTable), the destructor polls, and a     *)
(* lidar that goes on answering is not busy for ever.                      *)
(***************************************************************************)
Fairness ==
  /\ \A t \in Threads : WF_vars(Runs(t))
  /\ WF_vars(\E t \in IoThreads : Concludes(t))
  /\ WF_vars(SeesEnd)
  /\ WF_vars(Destroy)
  /\ SF_vars(\E t \in IoThreads, answer \in {"ok", "error"} :
               ~destroyed /\ Answered(t, answer))

FairSpec == Spec /\ Fairness

-----------------------------------------------------------------------------
(***************************************************************************)
(* Properties. Most hold for the command layer the upgrader relies on, in  *)
(* which a command has one outcome: no "extra" in flaws.                   *)
(***************************************************************************)
TypeOK ==
  /\ fsm \in State
  /\ offset \in 0 .. Blocks
  /\ tries \in Nat /\ (tries < GeneralTryLimit \/ tries < ProgressTryLimit)
  /\ doing \in [Threads -> Call]
  /\ reports \in [Threads -> Nat]
  /\ owed \in [Requests -> Nat]
  /\ unsent \in [Request -> Nat]
  /\ main \in {"waiting", "success", "error"}
  /\ destroyed \in BOOLEAN
  /\ accepted \subseteq 0 .. Blocks
  /\ confirmed \in BOOLEAN
  /\ flaws \subseteq {"extra", "mute", "early"}

Reliable == "extra" \notin flaws

\* The threads that are inside the upgrader, apart from the observer's reports.
Active == {t \in Threads : doing[t] # Nothing}

\* No outcome is to come.
NoneOutstanding ==
  /\ \A q \in Requests : owed[q] = 0
  /\ \A r \in Request : unsent[r] = 0

\* One request or one call at a time: the members need no lock as long as every command
\* has one outcome.
OneAtATime ==
  Reliable =>
    /\ \A q \in Requests : owed[q] <= 1
    /\ \A p, q \in Requests : owed[p] > 0 /\ owed[q] > 0 => p = q
    /\ \A r \in Request : unsent[r] = 0
    /\ \A t, u \in Active : t = u
    /\ Active # {} => NoneOutstanding

\* The unlocked members have values that the code expects, and one user.
UpgraderOK == TypeOK /\ OneAtATime

\* No block is skipped: all blocks before the offset have been acknowledged, and the
\* transfer is completed with all of them.
NoBlockSkipped ==
  Reliable =>
    /\ 0 .. offset - 1 \subseteq accepted
    /\ fsm \in {"CompleteXfer", "Progress", "Complete"} => offset = Blocks

\* "upgrade successfully" is only printed for a lidar that has reported a progress of 100,
\* unless the destructor looks before the upgrade has begun. This holds for any outcomes of
\* the commands.
SuccessIsConfirmed == main = "success" /\ "early" \notin flaws => confirmed

\* No outcome is outstanding when the upgrader is destroyed: no response handler is
\* called with a dangling client_data.
NoOutcomeOutlives ==
  Reliable /\ "early" \notin flaws /\ destroyed => NoneOutstanding

\* An upgrade that has ended does not begin again.
EndIsFinal ==
  [][Reliable /\ fsm \in {"Idle", "Err"} /\ fsm' # fsm =>
       doing["upgrade"] = [do |-> "enter", what |-> "RequestUpgrade"]]_vars

\* The upgrade ends, whatever the lidar answers or does not answer, unless a request was
\* given up without a callback.
UpgradeEnds == <>(destroyed \/ "mute" \in flaws)

=============================================================================
