----------------------------- MODULE Discovery -----------------------------
(***************************************************************************)
(* How a lidar becomes known, is configured and is announced to the user.  *)
(*                                                                         *)
(* The detection thread broadcasts a request every second. Each answer     *)
(* takes a lidar one step further: its configuration is looked up, it is   *)
(* entered in devices_, its firmware type is queried (a lidar in loader    *)
(* mode must not be configured), it is configured, and the user is told of *)
(* it. The steps are callbacks of commands, on three IO threads that share *)
(* the flags of a DeviceInfo and one counter of failed queries without a   *)
(* lock, so each access to them that matters is a step of its own.         *)
(*                                                                         *)
(* The lidars and the network are external. The command layer delivers     *)
(* every outcome it owes (EveryCommandConcludes of MCCommandTable), and    *)
(* may deliver a second one for a query (which a HAP adds twice, timeout   *)
(* after SendFailed). A configuration command has one (OneOutcome).        *)
(***************************************************************************)
EXTENDS Integers, FiniteSets

CONSTANTS
  Threads,      \* the IO threads: "detection", "command" and "data"
  HapLidars, Mid360Lidars,  \* the lidars, by dev_type
  Listed,       \* lidars that the configuration file names (lidar_ip)
  Misfiled,     \* those of them that it names under another dev_type
  TypedCfg,     \* dev_types with a configuration for all lidars of the type
  OnSegment,    \* lidars on the network segment of the host
  RetryLimit,   \* failed queries that are tolerated (10)
  MaxCount,     \* the largest value of the counter of failures, an int8_t (127)
  MaxOwed,      \* bound: outstanding commands of a kind when a lidar is detected
  MaxExtra      \* bound: second outcomes of queries

Lidars == HapLidars \cup Mid360Lidars

ASSUME DiscoveryAssumption ==
  /\ {"detection", "command"} \subseteq Threads
  /\ HapLidars \cap Mid360Lidars = {}
  /\ Misfiled \subseteq Listed
  /\ Listed \subseteq Lidars
  /\ OnSegment \subseteq Lidars
  /\ TypedCfg \subseteq {"hap", "mid360"}
  /\ RetryLimit \in Nat
  /\ MaxCount \in Nat
  /\ RetryLimit < MaxCount
  /\ MaxOwed \in Nat \ {0}
  /\ MaxExtra \in Nat

Kinds == {"fw", "info", "cfg"}
DevType(h) == IF h \in HapLidars THEN "hap" ELSE "mid360"

VARIABLES
  present,      \* the lidars that are switched on
  view,         \* is_view_: initialised with a host address and no configuration
  framework,    \* sdk_framework_cfg_ptr_: "none", or its master_sdk
  alive,        \* no null pointer was used
  answers,      \* lidars whose detection answer is under way
  custom,       \* custom_lidars_cfg_map_
  devices,      \* devices_ of GeneralCommandHandler, and in it:
  known,        \*   is_get_loader_mode
  loader,       \*   is_loader_mode
  updated,      \*   is_update_cfg
  announced,    \*   is_callback
  configured,   \* devices_ of the command handlers
  viewDevices, viewGot, viewSet,  \* view_devices_, their is_get and is_set
  count,        \* the static counter of QueryFwTypeCallback
  owed,         \* outcomes the command layer owes, by kind and lidar
  extra,        \* second outcomes so far
  failures,     \* failed queries counted so far, up to one more than are tolerated (history)
  thread,       \* what each IO thread does
  told,         \* how often the user was told of a lidar (history)
  reported,     \* what a lidar was answered to be or taken for (history)
  refused,      \* HAP lidars that refused a configuration (history)
  sent          \* lidars that were sent a configuration (history)

flags == <<known, loader, updated, announced>>
views == <<viewDevices, viewGot, viewSet>>
history == <<told, reported, refused, sent>>
session == <<present, view, framework, alive>>
vars == <<session, answers, custom, devices, flags, configured, views, count, failures,
          owed, extra, thread, history>>

Idle == [at |-> "idle"]
At(place, h) == [at |-> place, lidar |-> h]

Init ==
  /\ present \in SUBSET Lidars
  /\ view \in BOOLEAN
  /\ framework \in IF view THEN {"none", "master", "slave"} ELSE {"master", "slave"}
  /\ alive = TRUE
  /\ answers = {}
  /\ custom = IF view THEN {} ELSE Listed
  /\ devices = {} /\ known = {} /\ loader = {} /\ updated = {} /\ announced = {}
  /\ configured = {} /\ viewDevices = {} /\ viewGot = {} /\ viewSet = {}
  /\ count = 0 /\ failures = 0
  /\ owed = [k \in Kinds |-> [h \in Lidars |-> 0]]
  /\ extra = 0
  /\ thread = [t \in Threads |-> Idle]
  /\ told = [h \in Lidars |-> 0]
  /\ reported = [h \in Lidars |-> {}]
  /\ refused = {} /\ sent = {}

-----------------------------------------------------------------------------
(***************************************************************************)
(* Commands.                                                               *)
(***************************************************************************)
Master == framework = "master"
Owe(k, h) == owed' = [owed EXCEPT ![k][h] = @ + 1]
Goes(t, what) == thread' = [thread EXCEPT ![t] = what]

\* Answers come back on the socket that sent the command: the host's command socket, or
\* the detection socket when the lidar has no configuration.
AckThread == IF view THEN "detection" ELSE "command"

\* GetFirmwareType, QueryFwType
GetFirmwareType(h) == IF Master THEN Owe("fw", h) ELSE UNCHANGED owed

\* Some thread is about to store that h is in loader mode, having stored that the mode
\* is known.
Torn(h) == \E t \in Threads :
  thread[t].at = "learn" /\ thread[t].lidar = h /\ thread[t].loader

\* The handler of the type sends a configuration, once.
SendCfg(h) ==
  IF Master /\ h \notin configured
    THEN /\ Owe("cfg", h)
         /\ sent' = sent \cup {h}
         /\ reported' = [reported EXCEPT ![h] = IF Torn(h) THEN @ \cup {"torn"} ELSE @]
    ELSE UNCHANGED <<owed, sent, reported>>

-----------------------------------------------------------------------------
(***************************************************************************)
(* Detection, on the detection thread.                                     *)
(***************************************************************************)
\* DetectionLidars: a broadcast; a lidar that does not answer answers the next one.
Detection ==
  /\ alive
  /\ answers' = present
  /\ UNCHANGED <<session, custom, devices, flags, configured, views, count, failures, owed,
                 extra, thread, history>>

\* The first datagram of a lidar that the configuration does not name only creates its
\* entry and its sockets.
Adopt(h) ==
  /\ ~view
  /\ h \notin custom
  /\ custom' = IF DevType(h) \in TypedCfg THEN custom \cup {h} ELSE custom
  /\ UNCHANGED <<alive, devices, flags, configured, views, owed, thread, history>>

\* VerifyNetSegment
Ignore(h) ==
  /\ view
  /\ h \notin OnSegment
  /\ UNCHANGED <<alive, custom, devices, flags, configured, views, owed, thread, history>>

Handled(h) == IF view THEN h \in OnSegment ELSE h \in custom

\* Without a configuration file the framework settings are those of an earlier session,
\* or a null pointer.
NewDevice(h) ==
  /\ Handled(h)
  /\ h \notin devices
  /\ devices' = devices \cup {h}
  /\ alive' = (framework # "none")
  /\ GetFirmwareType(h)
  /\ UNCHANGED <<custom, flags, configured, views, thread, history>>

\* Mutant of MayConfigure: loader mode is not looked at.
MayConfigureLoader(h) == ~view /\ h \notin updated /\ h \in known

MayConfigure(h) == ~view /\ h \notin updated /\ h \in known /\ h \notin loader

\* The command handler of its type has a configuration of h.
HasCfg(h) == h \in custom \ Misfiled

KnownDevice(h) ==
  /\ Handled(h)
  /\ h \in devices
  /\ IF MayConfigure(h) /\ HasCfg(h) THEN SendCfg(h)
     ELSE UNCHANGED <<owed, sent, reported>>
  /\ Goes("detection", At("forward", h))
  /\ UNCHANGED <<alive, custom, devices, flags, configured, views, told, refused>>

Detected(h) ==
  /\ alive
  /\ h \in answers
  /\ thread["detection"] = Idle
  /\ owed["cfg"][h] < MaxOwed
  /\ owed["info"][h] < MaxOwed
  /\ answers' = answers \ {h}
  /\ Adopt(h) \/ Ignore(h) \/ NewDevice(h) \/ KnownDevice(h)
  /\ UNCHANGED <<present, view, framework, count, failures, extra>>

\* DeviceManager::HandleDetectionData. With a configuration file only a lidar in loader
\* mode is announced here.
ForwardConfigured(h) ==
  /\ ~view
  /\ Goes("detection", IF h \in known \cap loader THEN At("announce", h) ELSE Idle)
  /\ UNCHANGED <<viewDevices, owed, sent, reported>>

\* Without one, a lidar that is not in loader mode is asked for its addresses first and
\* configured then.
ForwardView(h) ==
  /\ view
  /\ viewDevices' = viewDevices \cup {h}
  /\ LET ready == h \in known \ loader IN
       \/ ready /\ h \notin viewGot /\ Owe("info", h) /\ UNCHANGED <<sent, reported>>
       \/ ready /\ h \in viewGot \ viewSet /\ SendCfg(h)
       \/ (~ready \/ h \in viewGot \cap viewSet) /\ UNCHANGED <<owed, sent, reported>>
  /\ Goes("detection", IF h \in known \cap loader THEN At("announce", h) ELSE Idle)

Forward(t) ==
  /\ alive
  /\ thread[t].at = "forward"
  /\ LET h == thread[t].lidar IN ForwardConfigured(h) \/ ForwardView(h)
  /\ UNCHANGED <<session, answers, custom, devices, flags, configured, viewGot, viewSet,
                 count, failures, extra, told, refused>>

-----------------------------------------------------------------------------
(***************************************************************************)
(* The firmware type.                                                      *)
(***************************************************************************)
\* Thread t takes an outcome that is owed. Answers are read by one thread; the timer of
\* any thread may report a failure.
Takes(t, k, h, answered) ==
  /\ alive
  /\ thread[t] = Idle
  /\ owed[k][h] > 0
  /\ answered => t = AckThread

\* One more outcome of the same query will follow. Bound: only where there is one lidar.
Settle(k, h, again) ==
  IF again /\ k = "fw" /\ extra < MaxExtra /\ present = {h}
    THEN extra' = extra + 1 /\ UNCHANGED owed
    ELSE owed' = [owed EXCEPT ![k][h] = @ - 1] /\ UNCHANGED extra

\* The test of QueryFwTypeCallback. After too many failures, of any lidar, this lidar is
\* taken not to be in loader mode, whatever this outcome says.
Verdict(result) == IF count > RetryLimit THEN "guessed" ELSE result

FwOutcome(t, h, result, again) ==
  /\ Takes(t, "fw", h, result # "fail")
  /\ Settle("fw", h, again)
  /\ Goes(t, [at |-> "tested", lidar |-> h, verdict |-> Verdict(result)])
  /\ UNCHANGED <<session, answers, custom, devices, flags, configured, views, count, failures,
                 history>>

\* count += 1 reads the counter again, which other threads may have written since the test ...
Fail(t) ==
  /\ alive
  /\ thread[t].at = "tested"
  /\ thread[t].verdict = "fail"
  /\ Goes(t, [at |-> "add", lidar |-> thread[t].lidar, count |-> count])
  /\ UNCHANGED <<session, answers, custom, devices, flags, configured, views, count, failures,
                 owed, extra, history>>

\* The counter is an int8_t.
Incremented(c) == IF c < MaxCount THEN c + 1 ELSE -(MaxCount + 1)

\* Mutant of Retried: the failed query is not repeated.
RetriedNot(h) == UNCHANGED owed

Retried(h) == Owe("fw", h)

\* ... and writes it, and the query is repeated.
Retry(t) ==
  /\ alive
  /\ thread[t].at = "add"
  /\ count' = Incremented(thread[t].count)
  /\ failures' = IF failures <= RetryLimit THEN failures + 1 ELSE failures
  /\ Retried(thread[t].lidar)
  /\ Goes(t, Idle)
  /\ UNCHANGED <<session, answers, custom, devices, flags, configured, views, extra, history>>

\* UpdateFwType, the first of its two stores. An answer that counts resets the counter before.
Learn(t) ==
  /\ alive
  /\ thread[t].at = "tested"
  /\ thread[t].verdict # "fail"
  /\ LET h == thread[t].lidar
         guess == thread[t].verdict = "guessed" IN
       /\ known' = known \cup {h}
       /\ reported' = [reported EXCEPT ![h] = @ \cup {thread[t].verdict}]
       /\ count' = IF guess THEN count ELSE 0
       /\ Goes(t, [at |-> "learn", lidar |-> h, loader |-> thread[t].verdict = "loader",
                   guess |-> guess])
  /\ UNCHANGED <<session, answers, custom, devices, loader, updated, announced, configured,
                 views, failures, owed, extra, told, refused, sent>>

\* The second store. A guess resets the counter after.
UpdateFwType(t) ==
  /\ alive
  /\ thread[t].at = "learn"
  /\ loader' = IF thread[t].loader THEN loader \cup {thread[t].lidar}
               ELSE loader \ {thread[t].lidar}
  /\ count' = IF thread[t].guess THEN 0 ELSE count
  /\ Goes(t, Idle)
  /\ UNCHANGED <<session, answers, custom, devices, known, updated, announced, configured,
                 views, failures, owed, extra, history>>

-----------------------------------------------------------------------------
(***************************************************************************)
(* Configuration and announcement.                                         *)
(***************************************************************************)
\* GetLivoxLidarInternalInfoCallback, AddViewLidar. The sockets that it opens
\* (CreateViewDataChannel) are in SdkSession, as OpenChannel.
InfoOutcome(t, h, result) ==
  /\ Takes(t, "info", h, result # "fail")
  /\ viewDevices' = viewDevices
  /\ IF result = "ok" /\ h \in viewDevices \ viewGot
       THEN /\ viewGot' = viewGot \cup {h}
            /\ IF h \notin configured /\ Master
                 THEN /\ owed' = [owed EXCEPT !["info"][h] = @ - 1, !["cfg"][h] = @ + 1]
                      /\ sent' = sent \cup {h}
                 ELSE owed' = [owed EXCEPT !["info"][h] = @ - 1] /\ UNCHANGED sent
       ELSE owed' = [owed EXCEPT !["info"][h] = @ - 1] /\ UNCHANGED <<viewGot, sent>>
  /\ UNCHANGED <<session, answers, custom, devices, flags, configured, viewSet, count,
                 failures, extra, thread, told, reported, refused>>

\* Mutant of AnnouncedAfter: the status of the command is not looked at.
AnnouncedAfterAny(h, result) == TRUE

\* A HAP lidar is announced even if it refused its configuration.
AnnouncedAfter(h, result) == result = "ok" \/ (result = "refused" /\ h \in HapLidars)

\* UpdateLidarCallback of the handler of the type
CfgOutcome(t, h, result) ==
  /\ Takes(t, "cfg", h, result # "fail")
  /\ Settle("cfg", h, FALSE)
  /\ configured' = IF result = "ok" THEN configured \cup {h} ELSE configured
  /\ refused' = IF result = "refused" THEN refused \cup {h} ELSE refused
  /\ Goes(t, IF AnnouncedAfter(h, result) THEN At("announce", h) ELSE Idle)
  /\ UNCHANGED <<session, answers, custom, devices, flags, views, count, failures,
                 told, reported, sent>>

\* LivoxLidarInfoChange: the flags are read.
Announce(t) ==
  /\ alive
  /\ thread[t].at = "announce"
  /\ LET h == thread[t].lidar IN
       /\ updated' = updated \cup {h}
       /\ Goes(t, [at |-> "tell", lidar |-> h, first |-> h \notin announced,
                   loader |-> h \in loader])
  /\ UNCHANGED <<session, answers, custom, devices, known, loader, announced, configured,
                 views, count, failures, owed, extra, history>>

Announced(h) == announced \cup {h}

\* ... and then written, and the user's callback is called.
Tell(t) ==
  /\ alive
  /\ thread[t].at = "tell"
  /\ LET h == thread[t].lidar IN
       /\ announced' = Announced(h)
       /\ viewSet' = IF view /\ ~thread[t].loader /\ h \in viewDevices THEN viewSet \cup {h}
                     ELSE viewSet
       /\ told' = IF thread[t].first /\ told[h] < 2 THEN [told EXCEPT ![h] = @ + 1] ELSE told
  /\ Goes(t, Idle)
  /\ UNCHANGED <<session, answers, custom, devices, known, loader, updated, configured,
                 viewDevices, viewGot, count, failures, owed, extra, reported, refused, sent>>

Next ==
  \/ Detection
  \/ \E h \in Lidars : Detected(h)
  \/ \E t \in Threads, h \in Lidars :
       \/ \E result \in {"app", "loader", "fail"}, again \in BOOLEAN :
            FwOutcome(t, h, result, again)
       \/ \E result \in {"ok", "fail"} : InfoOutcome(t, h, result)
       \/ \E result \in {"ok", "refused", "fail"} : CfgOutcome(t, h, result)
  \/ \E t \in Threads :
       \/ Fail(t) \/ Retry(t) \/ Learn(t) \/ UpdateFwType(t)
       \/ Forward(t) \/ Announce(t) \/ Tell(t)

Spec == Init /\ [][Next]_vars

\* Threads go on, outcomes that are owed are delivered, and requests are broadcast. A
\* lidar that is asked again and again answers at last; nothing is assumed about what it
\* answers to queries of its firmware type.
FairSpec ==
  /\ Spec
  /\ WF_vars(Detection)
  /\ \A t \in Threads : WF_vars(\/ Fail(t) \/ Retry(t) \/ Learn(t) \/ UpdateFwType(t)
                               \/ Forward(t) \/ Announce(t) \/ Tell(t))
  /\ \A h \in Lidars :
       /\ SF_vars(Detected(h))
       /\ WF_vars(\E t \in Threads, result \in {"app", "loader", "fail"}, again \in BOOLEAN :
                    FwOutcome(t, h, result, again))
       /\ SF_vars(InfoOutcome(AckThread, h, "ok"))
       /\ SF_vars(CfgOutcome(AckThread, h, "ok"))

-----------------------------------------------------------------------------
(***************************************************************************)
(* Properties.                                                             *)
(***************************************************************************)
Int8 == -(MaxCount + 1) .. MaxCount

Doing ==
  {Idle} \cup [at : {"forward", "announce"}, lidar : Lidars]
         \cup [at : {"tested"}, lidar : Lidars, verdict : {"app", "loader", "guessed", "fail"}]
         \cup [at : {"add"}, lidar : Lidars, count : Int8]
         \cup [at : {"learn"}, lidar : Lidars, loader : BOOLEAN, guess : BOOLEAN]
         \cup [at : {"tell"}, lidar : Lidars, first : BOOLEAN, loader : BOOLEAN]

TypeOK ==
  /\ present \subseteq Lidars
  /\ view \in BOOLEAN
  /\ framework \in {"none", "master", "slave"}
  /\ alive \in BOOLEAN
  /\ {answers, custom, devices, known, loader, updated, announced, configured,
      viewDevices, viewGot, viewSet, refused, sent} \subseteq SUBSET Lidars
  /\ count \in Int8
  /\ failures \in 0 .. RetryLimit + 1
  /\ owed \in [Kinds -> [Lidars -> Nat]]
  /\ extra \in 0 .. MaxExtra
  /\ thread \in [Threads -> Doing]
  /\ told \in [Lidars -> 0 .. 2]
  /\ reported \in [Lidars -> SUBSET {"app", "loader", "guessed", "torn"}]

\* A configuration is sent only to a lidar that has answered that it is not in loader
\* mode, unless the retries of the query were used up or a detection came between the two
\* stores of UpdateFwType.
LoaderIsLeftAlone == \A h \in sent : reported[h] \cap {"app", "guessed", "torn"} # {}

\* No lidar is taken for one in application mode before more queries than are tolerated have
\* failed and were counted, whatever threads do to the counter. (They were of all lidars, and
\* of the whole process: the counter is static.)
GuessIsEarned == \A h \in Lidars : "guessed" \in reported[h] => failures > RetryLimit

\* The user is told once of a lidar whose reports agree: only one that changed its mode, or
\* was mistaken, can be announced by two threads at a time.
ToldOnce == \A h \in Lidars :
  told[h] > 1 => "loader" \in reported[h] /\ Cardinality(reported[h]) > 1

\* The user is told of a lidar only when it is configured, refused the configuration or is
\* in loader mode, in which it takes none.
ToldMeansReady == \A h \in Lidars :
  told[h] > 0 => (h \in configured \cup refused \/ "loader" \in reported[h])

\* What is sent to a lidar is sent to one that can take it, or is taken for one with reason.
LidarsOK == TypeOK /\ LoaderIsLeftAlone /\ GuessIsEarned

\* LivoxLidarInfoChange calls the user when it shall, and once.
ToldOnceWhenReady == ToldOnce /\ ToldMeansReady

Served(h) == IF view THEN h \in OnSegment
             ELSE h \in Listed \ Misfiled \/ (h \notin Listed /\ DevType(h) \in TypedCfg)

\* The user is told of every lidar that is served, if this is the master SDK, however
\* often the query of the firmware type fails.
EveryLidarIsTold ==
  <>(framework = "master" => \A h \in present : Served(h) => told[h] > 0)

=============================================================================
