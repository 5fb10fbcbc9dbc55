-------------------------- MODULE Discovery_proofs --------------------------
(***************************************************************************)
(* Proofs about Discovery, for every set of lidars and of IO threads,      *)
(* every configuration, and any number of lost, failed and repeated        *)
(* queries.                                                                *)
(***************************************************************************)
EXTENDS Discovery, FiniteSetTheorems, TLAPS

Marks == {"app", "loader", "guessed", "torn"}

(***************************************************************************)
(* The type invariant, by groups of variables.                             *)
(***************************************************************************)
SessionShape ==
  /\ present \subseteq Lidars
  /\ view \in BOOLEAN
  /\ framework \in {"none", "master", "slave"}
  /\ alive \in BOOLEAN

LidarShape ==
  /\ answers \subseteq Lidars /\ custom \subseteq Lidars /\ devices \subseteq Lidars
  /\ known \subseteq Lidars /\ loader \subseteq Lidars
  /\ updated \subseteq Lidars /\ announced \subseteq Lidars /\ configured \subseteq Lidars
  /\ viewDevices \subseteq Lidars /\ viewGot \subseteq Lidars /\ viewSet \subseteq Lidars

CommandShape ==
  /\ count \in Int8
  /\ failures \in 0 .. RetryLimit + 1
  /\ owed \in [Kinds -> [Lidars -> Nat]]
  /\ extra \in 0 .. MaxExtra

ThreadShape == thread \in [Threads -> Doing]

HistoryShape ==
  /\ told \in [Lidars -> 0 .. 2]
  /\ reported \in [Lidars -> SUBSET Marks]
  /\ refused \subseteq Lidars /\ sent \subseteq Lidars

Shape == SessionShape /\ LidarShape /\ CommandShape /\ ThreadShape /\ HistoryShape

(***************************************************************************)
(* Why a lidar is configured, and announced.                               *)
(***************************************************************************)
\* Something speaks for it that h is not in loader mode.
Cleared(h) == reported[h] \cap {"app", "guessed", "torn"} # {}

SaidLoader(h) == "loader" \in reported[h]

Ready(h) == h \in configured \cup refused \/ SaidLoader(h)

Mixed(h) == Cleared(h) /\ SaidLoader(h)

\* What a thread is about to do is justified. Answers are read by one thread; the other one
\* that announces lidars is that of detection, and announces only lidars in loader mode.
Fits(t, r) ==
  /\ r.at = "forward" => t = "detection"
  /\ r.at = "tested" /\ r.verdict = "loader" => t = AckThread
  /\ r.at = "learn" /\ r.loader => t = AckThread /\ SaidLoader(r.lidar)
  /\ r.at = "learn" /\ ~r.loader => Cleared(r.lidar)
  /\ r.at \in {"announce", "tell"} =>
       /\ t \in {"detection", AckThread}
       /\ t = "detection" /\ ~view => SaidLoader(r.lidar)
       /\ t # "detection" => r.lidar \in sent
       /\ Ready(r.lidar)
  /\ r.at = "tell" /\ r.first /\ told[r.lidar] > 0 => Mixed(r.lidar)

ThreadsFit == \A t \in Threads : Fits(t, thread[t])

\* A lidar whose mode is known and not that of the loader is cleared, or some thread is
\* between the two stores of UpdateFwType.
ModeInv ==
  /\ \A h \in loader : SaidLoader(h)
  /\ \A h \in known \ loader : Cleared(h) \/ Torn(h)

SentInv ==
  /\ \A h \in Lidars : owed["info"][h] > 0 => Cleared(h)
  /\ \A h \in Lidars : owed["cfg"][h] > 0 => h \in sent
  /\ \A h \in sent : Cleared(h)

ToldInv ==
  /\ \A h \in Lidars : told[h] > 0 => h \in announced /\ Ready(h)
  /\ \A h \in Lidars : told[h] > 1 => Mixed(h)

Justified == ThreadsFit /\ ModeInv /\ SentInv /\ ToldInv

-----------------------------------------------------------------------------
(***************************************************************************)
(* Operators.                                                              *)
(***************************************************************************)
LEMMA DoingFacts ==
  /\ Idle \in Doing /\ Idle.at = "idle"
  /\ \A h \in Lidars : /\ At("forward", h) \in Doing /\ At("announce", h) \in Doing
  /\ \A place, h : At(place, h).at = place /\ At(place, h).lidar = h
  /\ \A h \in Lidars, isLoader, guess \in BOOLEAN :
       [at |-> "learn", lidar |-> h, loader |-> isLoader, guess |-> guess] \in Doing
  /\ \A h \in Lidars, c \in Int8 : [at |-> "add", lidar |-> h, count |-> c] \in Doing
  /\ \A h \in Lidars, v \in {"app", "loader", "guessed", "fail"} :
       [at |-> "tested", lidar |-> h, verdict |-> v] \in Doing
  /\ \A h \in Lidars, first, isLoader \in BOOLEAN :
       [at |-> "tell", lidar |-> h, first |-> first, loader |-> isLoader] \in Doing
  /\ \A r \in Doing :
       /\ r.at # "idle" => r.lidar \in Lidars
       /\ r.at = "learn" => r.loader \in BOOLEAN /\ r.guess \in BOOLEAN
       /\ r.at = "tell" => r.first \in BOOLEAN /\ r.loader \in BOOLEAN
       /\ r.at = "add" => r.count \in Int8
       /\ r.at = "tested" => r.verdict \in {"app", "loader", "guessed", "fail"}
<1>1. Idle \in Doing /\ Idle.at = "idle"
  BY DEF Idle, Doing
<1>2. \A h \in Lidars : At("forward", h) \in Doing /\ At("announce", h) \in Doing
  BY DEF At, Doing
<1>3. \A place, h : At(place, h).at = place /\ At(place, h).lidar = h
  BY DEF At
<1>4. \A h \in Lidars, isLoader, guess \in BOOLEAN :
        [at |-> "learn", lidar |-> h, loader |-> isLoader, guess |-> guess] \in Doing
  BY DEF Doing
<1>5. /\ \A h \in Lidars, c \in Int8 : [at |-> "add", lidar |-> h, count |-> c] \in Doing
      /\ \A h \in Lidars, v \in {"app", "loader", "guessed", "fail"} :
           [at |-> "tested", lidar |-> h, verdict |-> v] \in Doing
  BY DEF Doing
<1>6. \A h \in Lidars, first, isLoader \in BOOLEAN :
        [at |-> "tell", lidar |-> h, first |-> first, loader |-> isLoader] \in Doing
  BY DEF Doing
<1>7. \A r \in Doing :
       /\ r.at # "idle" => r.lidar \in Lidars
       /\ r.at = "learn" => r.loader \in BOOLEAN /\ r.guess \in BOOLEAN
       /\ r.at = "tell" => r.first \in BOOLEAN /\ r.loader \in BOOLEAN
       /\ r.at = "add" => r.count \in Int8
       /\ r.at = "tested" => r.verdict \in {"app", "loader", "guessed", "fail"}
  BY DEF Doing, Idle
<1> QED
  BY <1>1, <1>2, <1>3, <1>4, <1>5, <1>6, <1>7

\* A thread that goes on to something else.
LEMMA GoesFacts ==
  ASSUME thread \in [Threads -> Doing], NEW t \in Threads, NEW r \in Doing, Goes(t, r)
  PROVE  /\ thread' \in [Threads -> Doing]
         /\ thread'[t] = r /\ \A u \in Threads \ {t} : thread'[u] = thread[u]
BY DEF Goes

\* At most one outcome is owed that was not owed before: of kind k, from h.
Owes(k, h) ==
  /\ owed' \in [Kinds -> [Lidars -> Nat]]
  /\ \A kk \in Kinds, hh \in Lidars : owed'[kk][hh] > 0 => owed[kk][hh] > 0 \/ <<kk, hh>> = <<k, h>>

OwesNone ==
  /\ owed' \in [Kinds -> [Lidars -> Nat]]
  /\ \A kk \in Kinds, hh \in Lidars : owed'[kk][hh] > 0 => owed[kk][hh] > 0

LEMMA OweFacts ==
  ASSUME CommandShape, NEW k \in Kinds, NEW h \in Lidars, Owe(k, h)
  PROVE  Owes(k, h)
<1>1. owed[k] \in [Lidars -> Nat]
  BY DEF CommandShape
<1>0. owed[k][h] + 1 \in Nat
  BY <1>1
<1>2. PICK f \in [Lidars -> Nat] : f = [owed[k] EXCEPT ![h] = @ + 1]
  BY <1>0, <1>1
<1>3. owed' = [owed EXCEPT ![k] = f]
  BY <1>2 DEF Owe
<1>4. /\ owed'[k] = f /\ owed' \in [Kinds -> [Lidars -> Nat]]
      /\ \A kk \in Kinds \ {k} : owed'[kk] = owed[kk]
  BY <1>3 DEF CommandShape
<1>5. \A hh \in Lidars : hh # h => f[hh] = owed[k][hh]
  BY <1>1, <1>2
<1> QED
  BY <1>4, <1>5 DEF Owes

LEMMA SettleFacts ==
  ASSUME CommandShape, NEW k \in Kinds, NEW h \in Lidars, NEW again, Settle(k, h, again),
         owed[k][h] > 0
  PROVE  OwesNone /\ extra' \in 0 .. MaxExtra
<1>1. CASE owed' = owed
  BY <1>1, DiscoveryAssumption DEF Settle, CommandShape, OwesNone
<1>2. CASE owed' = [owed EXCEPT ![k][h] = @ - 1] /\ extra' = extra
  <2>1. owed[k] \in [Lidars -> Nat]
    BY DEF CommandShape
  <2>2. owed[k][h] - 1 \in Nat
    BY <2>1
  <2>3. PICK f \in [Lidars -> Nat] : f = [owed[k] EXCEPT ![h] = @ - 1]
    BY <2>1, <2>2
  <2>4. owed' = [owed EXCEPT ![k] = f]
    BY <1>2, <2>3
  <2>5. /\ owed'[k] = f /\ owed' \in [Kinds -> [Lidars -> Nat]]
        /\ \A kk \in Kinds \ {k} : owed'[kk] = owed[kk]
    BY <2>4 DEF CommandShape
  <2>6. \A hh \in Lidars : f[hh] > 0 => owed[k][hh] > 0
    BY <2>1, <2>2, <2>3
  <2> QED
    BY <1>2, <2>5, <2>6 DEF CommandShape, OwesNone
<1>3. CASE extra < MaxExtra /\ extra' = extra + 1 /\ owed' = owed
  BY <1>3, DiscoveryAssumption DEF CommandShape, OwesNone
<1> QED
  BY <1>1, <1>2, <1>3 DEF Settle

\* What is sent is owed an outcome; a lidar of which a thread is about to store that it is in
\* loader mode is marked.
LEMMA SendFacts ==
  ASSUME Shape, NEW h \in Lidars, SendCfg(h)
  PROVE  /\ Owes("cfg", h)
         /\ sent \subseteq sent' /\ sent' \subseteq sent \cup {h}
         /\ reported' \in [Lidars -> SUBSET Marks]
         /\ \A g \in Lidars : reported[g] \subseteq reported'[g]
         /\ h \in sent' => (h \in sent \/ (Torn(h) => "torn" \in reported'[h]))
         /\ Owe("cfg", h) => h \in sent'
         /\ \A g \in Lidars : owed'["cfg"][g] > 0 => owed["cfg"][g] > 0 \/ g \in sent'
         /\ \A g \in Lidars : owed'["info"][g] > 0 => owed["info"][g] > 0
<1>1. CASE /\ Owe("cfg", h) /\ sent' = sent \cup {h}
           /\ reported' = [reported EXCEPT ![h] = IF Torn(h) THEN @ \cup {"torn"} ELSE @]
  <2>1. Owes("cfg", h)
    BY <1>1, OweFacts DEF Shape, Kinds
  <2>2. "torn" \in Marks
    BY DEF Marks
  <2> HIDE DEF Marks
  <2>3. /\ reported' \in [Lidars -> SUBSET Marks]
        /\ \A g \in Lidars : reported[g] \subseteq reported'[g]
        /\ Torn(h) => "torn" \in reported'[h]
    <3>1. CASE Torn(h)
      <4>1. reported' = [reported EXCEPT ![h] = @ \cup {"torn"}]
        BY <1>1, <3>1
      <4> QED
        BY <2>2, <3>1, <4>1 DEF Shape, HistoryShape
    <3>2. CASE ~Torn(h)
      <4>1. reported' = [reported EXCEPT ![h] = @]
        BY <1>1, <3>2
      <4>2. reported' = reported
        BY <4>1 DEF Shape, HistoryShape
      <4> QED
        BY <3>2, <4>2 DEF Shape, HistoryShape
    <3> QED
      BY <3>1, <3>2
  <2> QED
    BY <1>1, <2>1, <2>3 DEF Owes, Kinds
<1>2. CASE UNCHANGED <<owed, sent, reported>> /\ ~(Master /\ h \notin configured)
  <2>1. Owes("cfg", h)
    BY <1>2 DEF Owes, Shape, CommandShape
  <2>2. ~Owe("cfg", h)
    <3>1. "cfg" \in Kinds /\ owed["cfg"][h] \in Nat
      BY DEF Kinds, Shape, CommandShape
    <3>2. ASSUME Owe("cfg", h)
          PROVE  owed'["cfg"][h] = owed["cfg"][h] + 1
      BY <3>1, <3>2 DEF Owe, Shape, CommandShape
    <3> QED
      BY <1>2, <3>1, <3>2
  <2> QED
    BY <1>2, <2>1, <2>2 DEF Shape, HistoryShape
<1> QED
  BY <1>1, <1>2 DEF SendCfg

\* An outcome of the query for addresses, after which a configuration may be sent.
LEMMA InfoOwed ==
  ASSUME CommandShape, NEW h \in Lidars, owed["info"][h] > 0
  PROVE  /\ owed' = [owed EXCEPT !["info"][h] = @ - 1] => OwesNone
         /\ owed' = [owed EXCEPT !["info"][h] = @ - 1, !["cfg"][h] = @ + 1] => Owes("cfg", h)
<1>1. /\ "info" \in Kinds /\ "cfg" \in Kinds
      /\ owed["info"] \in [Lidars -> Nat] /\ owed["cfg"] \in [Lidars -> Nat]
  BY DEF CommandShape, Kinds
<1>2. owed["info"][h] - 1 \in Nat /\ owed["cfg"][h] + 1 \in Nat
  BY <1>1
<1>3. PICK f \in [Lidars -> Nat] : f = [owed["info"] EXCEPT ![h] = @ - 1]
  BY <1>1, <1>2
<1>4. PICK g \in [Lidars -> Nat] : g = [owed["cfg"] EXCEPT ![h] = @ + 1]
  BY <1>1, <1>2
<1>5. \A hh \in Lidars : (f[hh] > 0 => owed["info"][hh] > 0) /\ (hh # h => g[hh] = owed["cfg"][hh])
  BY <1>1, <1>2, <1>3, <1>4
<1>6. ASSUME owed' = [owed EXCEPT !["info"][h] = @ - 1]
      PROVE  OwesNone
  <2>1. owed' = [owed EXCEPT !["info"] = f]
    BY <1>3, <1>6
  <2>2. /\ owed'["info"] = f /\ owed' \in [Kinds -> [Lidars -> Nat]]
        /\ \A kk \in Kinds \ {"info"} : owed'[kk] = owed[kk]
    BY <1>1, <2>1 DEF CommandShape
  <2> QED
    BY <1>5, <2>2 DEF OwesNone
<1>7. ASSUME owed' = [owed EXCEPT !["info"][h] = @ - 1, !["cfg"][h] = @ + 1]
      PROVE  Owes("cfg", h)
  <2>1. owed' = [[owed EXCEPT !["info"] = f] EXCEPT !["cfg"] = g]
    BY <1>1, <1>3, <1>4, <1>7 DEF CommandShape
  <2>2. /\ owed'["info"] = f /\ owed'["cfg"] = g /\ owed' \in [Kinds -> [Lidars -> Nat]]
        /\ \A kk \in Kinds \ {"info", "cfg"} : owed'[kk] = owed[kk]
    BY <1>1, <2>1 DEF CommandShape
  <2> QED
    BY <1>5, <2>2 DEF Owes
<1> QED
  BY <1>6, <1>7

\* Marks that are two are counted as two.
LEMMA MixedCounts ==
  ASSUME NEW h, reported[h] \in SUBSET Marks, Mixed(h)
  PROVE  Cardinality(reported[h]) > 1
<1>1. PICK m \in {"app", "guessed", "torn"} : m \in reported[h]
  BY DEF Mixed, Cleared
<1>2. "loader" \in reported[h] /\ m # "loader"
  BY DEF Mixed, SaidLoader
<1>3. IsFiniteSet(Marks)
  <2>1. IsFiniteSet({"app"} \cup {"loader"})
    BY FS_Singleton, FS_AddElement
  <2>2. IsFiniteSet({"app"} \cup {"loader"} \cup {"guessed"})
    BY <2>1, FS_AddElement
  <2>3. IsFiniteSet({"app"} \cup {"loader"} \cup {"guessed"} \cup {"torn"})
    BY <2>2, FS_AddElement
  <2>4. Marks = {"app"} \cup {"loader"} \cup {"guessed"} \cup {"torn"}
    BY DEF Marks
  <2> QED
    BY <2>3, <2>4
<1>4. /\ IsFiniteSet({"loader", m}) /\ Cardinality({"loader", m}) = 2
  <2>1. IsFiniteSet({"loader"}) /\ Cardinality({"loader"}) = 1
    BY FS_Singleton
  <2>2. {"loader", m} = {"loader"} \cup {m} /\ m \notin {"loader"}
    BY <1>2
  <2> QED
    BY <2>1, <2>2, FS_AddElement
<1>5. IsFiniteSet(reported[h])
  BY <1>3, FS_Subset
<1>6. {"loader", m} \subseteq reported[h]
  BY <1>1, <1>2
<1>7. Cardinality({"loader", m}) <= Cardinality(reported[h])
  BY <1>5, <1>6, FS_Subset
<1>8. Cardinality(reported[h]) \in Nat
  BY <1>5, FS_CardinalityType
<1> QED
  BY <1>4, <1>7, <1>8

-----------------------------------------------------------------------------
(***************************************************************************)
(* Types.                                                                  *)
(***************************************************************************)
LEMMA ShapeInductive ==
  ASSUME Shape, [Next]_vars
  PROVE  Shape'
<1> USE DEF Shape
<1>1. ASSUME Detection
      PROVE  Shape'
  BY <1>1 DEF Detection, session, flags, views, history, SessionShape, LidarShape,
              CommandShape, ThreadShape, HistoryShape
<1>2. ASSUME NEW h \in Lidars, Detected(h)
      PROVE  Shape'
  <2>1. /\ answers' = answers \ {h} /\ "detection" \in Threads
        /\ UNCHANGED <<present, view, framework, count, failures, extra>>
    BY <1>2, DiscoveryAssumption DEF Detected
  <2>2. CASE Adopt(h) \/ Ignore(h)
    <3>1. /\ UNCHANGED <<alive, devices, flags, configured, views, owed, thread, history>>
          /\ custom' \subseteq Lidars
      BY <2>2 DEF Adopt, Ignore, LidarShape
    <3> QED
      BY <2>1, <3>1 DEF flags, views, history, SessionShape, LidarShape, CommandShape,
                        ThreadShape, HistoryShape
  <2>3. CASE NewDevice(h)
    <3>1. /\ UNCHANGED <<custom, flags, configured, views, thread, history>>
          /\ devices' \subseteq Lidars /\ alive' \in BOOLEAN
      BY <2>3 DEF NewDevice, LidarShape
    <3>2. owed' \in [Kinds -> [Lidars -> Nat]]
      <4>1. "fw" \in Kinds
        BY DEF Kinds
      <4> QED
        BY <2>3, <4>1, OweFacts DEF NewDevice, GetFirmwareType, Owes, CommandShape
    <3> QED
      BY <2>1, <3>1, <3>2 DEF flags, views, history, SessionShape, LidarShape, CommandShape,
                              ThreadShape, HistoryShape
  <2>4. CASE KnownDevice(h)
    <3>1. /\ UNCHANGED <<alive, custom, devices, flags, configured, views, told, refused>>
          /\ SendCfg(h) \/ UNCHANGED <<owed, sent, reported>>
          /\ Goes("detection", At("forward", h))
      BY <2>4 DEF KnownDevice
    <3>2. thread' \in [Threads -> Doing]
      BY <2>1, <3>1, DoingFacts, GoesFacts DEF ThreadShape
    <3>3. /\ owed' \in [Kinds -> [Lidars -> Nat]] /\ sent' \subseteq Lidars
          /\ reported' \in [Lidars -> SUBSET Marks]
      BY <3>1, SendFacts DEF Owes, CommandShape, HistoryShape
    <3> QED
      BY <2>1, <3>1, <3>2, <3>3 DEF flags, views, SessionShape, LidarShape, CommandShape,
                                    ThreadShape, HistoryShape
  <2> QED
    BY <1>2, <2>2, <2>3, <2>4 DEF Detected
<1>3. ASSUME NEW t \in Threads, NEW h \in Lidars, NEW result \in {"app", "loader", "fail"},
             NEW again \in BOOLEAN, FwOutcome(t, h, result, again)
      PROVE  Shape'
  <2>1. /\ UNCHANGED <<session, answers, custom, devices, flags, configured, views, count,
                       failures, history>>
        /\ Settle("fw", h, again) /\ owed["fw"][h] > 0
        /\ Goes(t, [at |-> "tested", lidar |-> h, verdict |-> Verdict(result)])
    BY <1>3 DEF FwOutcome, Takes
  <2>2. owed' \in [Kinds -> [Lidars -> Nat]] /\ extra' \in 0 .. MaxExtra
    BY <2>1, SettleFacts DEF OwesNone, Kinds
  <2>3. thread' \in [Threads -> Doing]
    <3>1. Verdict(result) \in {"app", "loader", "guessed", "fail"}
      BY DEF Verdict
    <3> QED
      BY <2>1, <3>1, DoingFacts, GoesFacts DEF ThreadShape
  <2> QED
    BY <2>1, <2>2, <2>3 DEF session, flags, views, history, SessionShape, LidarShape,
                            CommandShape, ThreadShape, HistoryShape
<1>4. ASSUME NEW t \in Threads, NEW h \in Lidars, NEW result, InfoOutcome(t, h, result)
      PROVE  Shape'
  <2>1. /\ UNCHANGED <<session, answers, custom, devices, flags, configured, viewSet, count,
                       failures, extra, thread, told, reported, refused, viewDevices>>
        /\ owed["info"][h] > 0
        /\ viewGot' \subseteq Lidars /\ sent' \subseteq Lidars
    BY <1>4 DEF InfoOutcome, Takes, LidarShape, HistoryShape
  <2>2. owed' \in [Kinds -> [Lidars -> Nat]]
    BY <1>4, <2>1, InfoOwed DEF InfoOutcome, Owes, OwesNone
  <2> QED
    BY <2>1, <2>2 DEF session, flags, SessionShape, LidarShape, CommandShape, ThreadShape,
                      HistoryShape
<1>5. ASSUME NEW t \in Threads, NEW h \in Lidars, NEW result, CfgOutcome(t, h, result)
      PROVE  Shape'
  <2>1. /\ UNCHANGED <<session, answers, custom, devices, flags, views, count, failures,
                       told, reported, sent>>
        /\ owed["cfg"][h] > 0 /\ Settle("cfg", h, FALSE)
        /\ configured' \subseteq Lidars /\ refused' \subseteq Lidars
        /\ Goes(t, At("announce", h)) \/ Goes(t, Idle)
    BY <1>5 DEF CfgOutcome, Takes, LidarShape, HistoryShape
  <2>2. owed' \in [Kinds -> [Lidars -> Nat]] /\ extra' \in 0 .. MaxExtra
    BY <2>1, SettleFacts DEF OwesNone, Kinds
  <2>3. thread' \in [Threads -> Doing]
    BY <2>1, DoingFacts, GoesFacts DEF ThreadShape
  <2> QED
    BY <2>1, <2>2, <2>3 DEF session, flags, views, SessionShape, LidarShape, CommandShape,
                            ThreadShape, HistoryShape
<1>6. ASSUME NEW t \in Threads, Forward(t)
      PROVE  Shape'
  <2>1. PICK h \in Lidars : h = thread[t].lidar
    BY <1>6, DoingFacts DEF Forward, ThreadShape
  <2>2. /\ UNCHANGED <<session, answers, custom, devices, flags, configured, viewGot, viewSet,
                       count, failures, extra, told, refused>>
        /\ ForwardConfigured(h) \/ ForwardView(h)
    BY <1>6, <2>1 DEF Forward
  <2>3. /\ viewDevices' \subseteq Lidars
        /\ \/ SendCfg(h)
           \/ UNCHANGED <<owed, sent, reported>>
           \/ Owe("info", h) /\ UNCHANGED <<sent, reported>>
        /\ Goes("detection", At("announce", h)) \/ Goes("detection", Idle)
    <3>1. CASE ForwardConfigured(h)
      BY <3>1 DEF ForwardConfigured, LidarShape
    <3>2. CASE ForwardView(h)
      BY <3>2 DEF ForwardView, LidarShape
    <3> QED
      BY <2>2, <3>1, <3>2
  <2>4. /\ owed' \in [Kinds -> [Lidars -> Nat]] /\ sent' \subseteq Lidars
        /\ reported' \in [Lidars -> SUBSET Marks]
    BY <2>3, SendFacts, OweFacts DEF Owes, CommandShape, HistoryShape, Kinds
  <2>5. thread' \in [Threads -> Doing]
    BY <2>3, DoingFacts, GoesFacts, DiscoveryAssumption DEF ThreadShape
  <2> QED
    BY <2>2, <2>3, <2>4, <2>5 DEF session, flags, SessionShape, LidarShape, CommandShape,
                                  ThreadShape, HistoryShape
<1>7. ASSUME NEW t \in Threads, Retry(t)
      PROVE  Shape'
  <2>1. PICK h \in Lidars, c \in Int8 : h = thread[t].lidar /\ c = thread[t].count
    BY <1>7, DoingFacts DEF Retry, ThreadShape
  <2>2. /\ UNCHANGED <<session, answers, custom, devices, flags, configured, views, extra,
                       history>>
        /\ count' = Incremented(c) /\ Owe("fw", h) /\ Goes(t, Idle)
        /\ failures' = IF failures <= RetryLimit THEN failures + 1 ELSE failures
    BY <1>7, <2>1 DEF Retry, Retried
  <2>3. owed' \in [Kinds -> [Lidars -> Nat]]
    BY <2>2, OweFacts DEF Owes, Kinds
  <2>4. count' \in Int8 /\ failures' \in 0 .. RetryLimit + 1
    BY <2>2, DiscoveryAssumption DEF Incremented, Int8, CommandShape
  <2>5. thread' \in [Threads -> Doing]
    BY <2>2, DoingFacts, GoesFacts DEF ThreadShape
  <2> QED
    BY <2>2, <2>3, <2>4, <2>5 DEF session, flags, views, history, SessionShape, LidarShape,
                                  CommandShape, ThreadShape, HistoryShape
<1>12. ASSUME NEW t \in Threads, Fail(t)
       PROVE  Shape'
  <2>1. PICK h \in Lidars : h = thread[t].lidar
    BY <1>12, DoingFacts DEF Fail, ThreadShape
  <2>2. /\ UNCHANGED <<session, answers, custom, devices, flags, configured, views, count,
                       failures, owed, extra, history>>
        /\ Goes(t, [at |-> "add", lidar |-> h, count |-> count])
    BY <1>12, <2>1 DEF Fail
  <2>3. thread' \in [Threads -> Doing]
    BY <2>2, DoingFacts, GoesFacts DEF ThreadShape, CommandShape
  <2> QED
    BY <2>2, <2>3 DEF session, flags, views, history, SessionShape, LidarShape, CommandShape,
                      ThreadShape, HistoryShape
<1>13. ASSUME NEW t \in Threads, Learn(t)
       PROVE  Shape'
  <2>1. PICK h \in Lidars, v \in {"app", "loader", "guessed"} :
          h = thread[t].lidar /\ v = thread[t].verdict
    BY <1>13, DoingFacts DEF Learn, ThreadShape
  <2>2. PICK isLoader \in BOOLEAN, guess \in BOOLEAN :
          isLoader = (v = "loader") /\ guess = (v = "guessed")
    OBVIOUS
  <2>3. /\ UNCHANGED <<session, answers, custom, devices, loader, updated, announced,
                       configured, views, failures, owed, extra, told, refused, sent>>
        /\ known' = known \cup {h} /\ reported' = [reported EXCEPT ![h] = @ \cup {v}]
        /\ count' = 0 \/ count' = count
        /\ Goes(t, [at |-> "learn", lidar |-> h, loader |-> isLoader, guess |-> guess])
    BY <1>13, <2>1, <2>2, Zenon DEF Learn
  <2>4. thread' \in [Threads -> Doing]
    BY <2>3, DoingFacts, GoesFacts DEF ThreadShape
  <2>5. known' \subseteq Lidars /\ count' \in Int8
    BY <2>3, DiscoveryAssumption DEF LidarShape, CommandShape, Int8
  <2>6. reported' \in [Lidars -> SUBSET Marks]
    <3>1. v \in Marks
      BY DEF Marks
    <3> HIDE DEF Marks
    <3> QED
      BY <2>3, <3>1 DEF HistoryShape
  <2> QED
    BY <2>3, <2>4, <2>5, <2>6 DEF session, views, SessionShape, LidarShape, CommandShape,
                                  ThreadShape, HistoryShape
<1>8. ASSUME NEW t \in Threads, UpdateFwType(t)
      PROVE  Shape'
  <2>1. PICK h \in Lidars : h = thread[t].lidar
    BY <1>8, DoingFacts DEF UpdateFwType, ThreadShape
  <2>2. /\ UNCHANGED <<session, answers, custom, devices, known, updated, announced,
                       configured, views, failures, owed, extra, history>>
        /\ loader' \subseteq Lidars /\ count' \in Int8 /\ Goes(t, Idle)
    <3>1. loader' = loader \cup {h} \/ loader' = loader \ {h}
      BY <1>8, <2>1, Zenon DEF UpdateFwType
    <3>2. count' = 0 \/ count' = count
      BY <1>8, Zenon DEF UpdateFwType
    <3>3. /\ UNCHANGED <<session, answers, custom, devices, known, updated, announced,
                         configured, views, failures, owed, extra, history>>
          /\ Goes(t, Idle)
      BY <1>8, Zenon DEF UpdateFwType
    <3> QED
      BY <3>1, <3>2, <3>3, DiscoveryAssumption DEF LidarShape, CommandShape, Int8
  <2>3. thread' \in [Threads -> Doing]
    BY <2>2, DoingFacts, GoesFacts DEF ThreadShape
  <2> QED
    BY <2>2, <2>3 DEF session, views, history, SessionShape, LidarShape, CommandShape,
                      ThreadShape, HistoryShape
<1>9. ASSUME NEW t \in Threads, Announce(t)
      PROVE  Shape'
  <2>1. PICK h \in Lidars : h = thread[t].lidar
    BY <1>9, DoingFacts DEF Announce, ThreadShape
  <2>2. PICK first \in BOOLEAN, isLoader \in BOOLEAN :
          first = (h \notin announced) /\ isLoader = (h \in loader)
    <3>1. (h \notin announced) \in BOOLEAN /\ (h \in loader) \in BOOLEAN
      OBVIOUS
    <3> QED
      BY <3>1, Zenon
  <2>3. /\ UNCHANGED <<session, answers, custom, devices, known, loader, announced,
                       configured, views, count, failures, owed, extra, history>>
        /\ updated' = updated \cup {h}
        /\ Goes(t, [at |-> "tell", lidar |-> h, first |-> first, loader |-> isLoader])
    BY <1>9, <2>1, <2>2 DEF Announce
  <2>4. thread' \in [Threads -> Doing]
    BY <2>3, DoingFacts, GoesFacts DEF ThreadShape
  <2> QED
    BY <2>3, <2>4 DEF session, views, history, SessionShape, LidarShape, CommandShape,
                      ThreadShape, HistoryShape
<1>10. ASSUME NEW t \in Threads, Tell(t)
       PROVE  Shape'
  <2>1. PICK h \in Lidars : h = thread[t].lidar
    BY <1>10, DoingFacts DEF Tell, ThreadShape
  <2>2. /\ UNCHANGED <<session, answers, custom, devices, known, loader, updated, configured,
                       viewDevices, viewGot, count, failures, owed, extra, reported, refused,
                       sent>>
        /\ announced' \subseteq Lidars /\ viewSet' \subseteq Lidars /\ Goes(t, Idle)
    BY <1>10, <2>1 DEF Tell, Announced, LidarShape
  <2>3. told' \in [Lidars -> 0 .. 2]
    <3>1. told' = told \/ (told[h] < 2 /\ told' = [told EXCEPT ![h] = @ + 1])
      BY <1>10, <2>1 DEF Tell
    <3>2. told[h] < 2 => told[h] + 1 \in 0 .. 2
      BY DEF HistoryShape
    <3> QED
      BY <3>1, <3>2 DEF HistoryShape
  <2>4. thread' \in [Threads -> Doing]
    BY <2>2, DoingFacts, GoesFacts DEF ThreadShape
  <2> QED
    BY <2>2, <2>3, <2>4 DEF session, SessionShape, LidarShape, CommandShape, ThreadShape,
                            HistoryShape
<1>11. ASSUME UNCHANGED vars
       PROVE  Shape'
  BY <1>11 DEF vars, session, flags, views, history, SessionShape, LidarShape, CommandShape,
               ThreadShape, HistoryShape
<1> QED
  BY <1>1, <1>2, <1>3, <1>4, <1>5, <1>6, <1>7, <1>8, <1>9, <1>10, <1>11, <1>12, <1>13 DEF Next

\* The session, the lidars, the outstanding commands, the threads and the history have their
\* types, part by part.
THEOREM ShapeCorrect == Spec => []Shape
<1>1. Init => Shape
  <2> SUFFICES ASSUME Init
               PROVE  Shape
    OBVIOUS
  <2>1. SessionShape
    BY DEF Init, SessionShape
  <2>2. LidarShape
    BY DiscoveryAssumption DEF Init, LidarShape
  <2>3. CommandShape
    BY DiscoveryAssumption DEF Init, CommandShape, Int8
  <2>4. ThreadShape
    BY DoingFacts DEF Init, ThreadShape
  <2>5. HistoryShape
    BY DEF Init, HistoryShape
  <2> QED
    BY <2>1, <2>2, <2>3, <2>4, <2>5 DEF Shape
<1> QED
  BY <1>1, ShapeInductive, PTL DEF Spec

\* The state of the lidars is well formed, whatever the IO threads do to the flags and the
\* counter that they share without a lock.
THEOREM Typing == Spec => []TypeOK
<1>1. Shape => TypeOK
  BY DEF Shape, SessionShape, LidarShape, CommandShape, ThreadShape, HistoryShape, TypeOK, Marks
<1> QED
  BY <1>1, ShapeCorrect, PTL

-----------------------------------------------------------------------------
(***************************************************************************)
(* Why lidars are configured and announced.                                *)
(***************************************************************************)
\* What is known of the lidars is never taken back.
Grows ==
  /\ view' = view
  /\ \A h \in Lidars : reported[h] \subseteq reported'[h]
  /\ sent \subseteq sent' /\ configured \subseteq configured' /\ refused \subseteq refused'

LEMMA MarksStay ==
  ASSUME Grows, NEW h \in Lidars
  PROVE  /\ Cleared(h) => Cleared(h)'
         /\ SaidLoader(h) => SaidLoader(h)'
         /\ Ready(h) => Ready(h)'
         /\ Mixed(h) => Mixed(h)'
BY DEF Grows, Cleared, SaidLoader, Ready, Mixed

\* The reader of answers is that of detection exactly when there is no configuration.
LEMMA AckFacts ==
  ASSUME view \in BOOLEAN
  PROVE  /\ AckThread \in Threads
         /\ view => AckThread = "detection"
         /\ ~view => AckThread # "detection"
BY DiscoveryAssumption DEF AckThread

LEMMA FitsStays ==
  ASSUME Grows, NEW t, NEW r \in Doing, Fits(t, r),
         r.at = "tell" => told'[r.lidar] = told[r.lidar] \/ Mixed(r.lidar)
  PROVE  Fits(t, r)'
<1>1. CASE r.at = "idle"
  BY <1>1 DEF Fits
<1>2. CASE r.at # "idle"
  <2>1. PICK h \in Lidars : h = r.lidar
    BY <1>2, DoingFacts
  <2>2. /\ Cleared(h) => Cleared(h)'
        /\ SaidLoader(h) => SaidLoader(h)'
        /\ Ready(h) => Ready(h)'
        /\ Mixed(h) => Mixed(h)'
    BY MarksStay
  <2>3. view' = view /\ AckThread' = AckThread /\ sent \subseteq sent'
    BY DEF Grows, AckThread
  <2>4. /\ r.at = "forward" => t = "detection"
        /\ r.at = "tested" /\ r.verdict = "loader" => t = AckThread'
        /\ r.at = "learn" /\ r.loader => t = AckThread' /\ SaidLoader(h)'
        /\ r.at = "learn" /\ ~r.loader => Cleared(h)'
        /\ r.at \in {"announce", "tell"} =>
             /\ t \in {"detection", AckThread'}
             /\ t = "detection" /\ ~view' => SaidLoader(h)'
             /\ t # "detection" => h \in sent'
             /\ Ready(h)'
    BY <2>1, <2>2, <2>3 DEF Fits
  <2>5. r.at = "tell" /\ r.first /\ told'[h] > 0 => Mixed(h)'
    BY <2>1, <2>2 DEF Fits
  <2> QED
    BY <2>1, <2>4, <2>5 DEF Fits
<1> QED
  BY <1>1, <1>2

\* A thread goes on to something justified, and the others stay where they are.
LEMMA ThreadsStay ==
  ASSUME Shape, ThreadsFit, Grows, NEW t \in Threads, told' = told,
         \A u \in Threads \ {t} : thread'[u] = thread[u],
         Fits(t, thread[t])' \/ thread'[t] = thread[t]
  PROVE  ThreadsFit'
<1> SUFFICES ASSUME NEW u \in Threads
             PROVE  Fits(u, thread[u])'
  BY DEF ThreadsFit
<1>1. CASE thread'[u] = thread[u]
  <2>1. PICK r \in Doing : r = thread[u]
    BY DEF Shape, ThreadShape
  <2>2. Fits(u, r)
    BY <2>1 DEF ThreadsFit
  <2>3. Fits(u, r)'
    BY <2>2, FitsStays
  <2> QED
    BY <1>1, <2>1, <2>3 DEF Fits
<1>2. CASE thread'[u] # thread[u]
  BY <1>2
<1> QED
  BY <1>1, <1>2

LEMMA TornStays ==
  ASSUME NEW t \in Threads, \A u \in Threads \ {t} : thread'[u] = thread[u],
         thread[t].at # "learn" \/ thread'[t] = thread[t], NEW h, Torn(h)
  PROVE  Torn(h)'
<1>1. PICK u \in Threads : thread[u].at = "learn" /\ thread[u].lidar = h /\ thread[u].loader
  BY DEF Torn
<1>2. thread'[u] = thread[u]
  BY <1>1
<1> QED
  BY <1>1, <1>2 DEF Torn

LEMMA ModeStays ==
  ASSUME Shape, ModeInv, Grows, NEW t \in Threads, UNCHANGED <<known, loader>>,
         \A u \in Threads \ {t} : thread'[u] = thread[u],
         thread[t].at # "learn" \/ thread'[t] = thread[t]
  PROVE  ModeInv'
<1>1. \A h \in Lidars : Torn(h) => Torn(h)'
  BY TornStays
<1>2. known \subseteq Lidars /\ loader \subseteq Lidars
  BY DEF Shape, LidarShape
<1> QED
  BY <1>1, <1>2, MarksStay DEF ModeInv

LEMMA ToldStays ==
  ASSUME Shape, ToldInv, Grows, told' = told, announced \subseteq announced'
  PROVE  ToldInv'
BY MarksStay DEF ToldInv

LEMMA SentStays ==
  ASSUME Shape, SentInv, Grows, sent' = sent,
         \A h \in Lidars : /\ owed'["info"][h] > 0 => owed["info"][h] > 0 \/ Cleared(h)
                           /\ owed'["cfg"][h] > 0 => owed["cfg"][h] > 0
  PROVE  SentInv'
<1>1. sent \subseteq Lidars
  BY DEF Shape, HistoryShape
<1> QED
  BY <1>1, MarksStay DEF SentInv

\* A configuration is sent to a lidar that is cleared, or is marked as torn.
LEMMA SendStays ==
  ASSUME Shape, ModeInv, SentInv, NEW h \in known \ loader, SendCfg(h),
         UNCHANGED <<view, configured, refused>>
  PROVE  SentInv' /\ Grows
<1>1. h \in Lidars
  BY DEF Shape, LidarShape
<1>2. /\ sent \subseteq sent' /\ sent' \subseteq sent \cup {h}
      /\ \A g \in Lidars : reported[g] \subseteq reported'[g]
      /\ h \in sent' => (h \in sent \/ (Torn(h) => "torn" \in reported'[h]))
      /\ \A g \in Lidars : owed'["cfg"][g] > 0 => owed["cfg"][g] > 0 \/ g \in sent'
      /\ \A g \in Lidars : owed'["info"][g] > 0 => owed["info"][g] > 0
  BY <1>1, SendFacts
<1>3. Grows
  BY <1>2 DEF Grows
<1>4. sent \subseteq Lidars
  BY DEF Shape, HistoryShape
<1>5. h \in sent' => Cleared(h)'
  <2>1. Cleared(h) \/ Torn(h)
    BY DEF ModeInv
  <2>2. "torn" \in reported'[h] => Cleared(h)'
    BY DEF Cleared
  <2>3. h \in sent => Cleared(h)
    BY DEF SentInv
  <2> QED
    BY <1>1, <1>2, <1>3, <2>1, <2>2, <2>3, MarksStay
<1>6. SentInv'
  <2>1. \A g \in sent' : Cleared(g)'
    BY <1>2, <1>3, <1>4, <1>5, MarksStay DEF SentInv
  <2>2. \A g \in Lidars : owed'["info"][g] > 0 => Cleared(g)'
    BY <1>2, <1>3, MarksStay DEF SentInv
  <2>3. \A g \in Lidars : owed'["cfg"][g] > 0 => g \in sent'
    BY <1>2 DEF SentInv
  <2> QED
    BY <2>1, <2>2, <2>3 DEF SentInv
<1> QED
  BY <1>3, <1>6

LEMMA JustifiedInductive ==
  ASSUME Shape, Justified, [Next]_vars
  PROVE  Justified'
<1>0. Shape'
  BY ShapeInductive
<1> USE DEF Justified
<1>a. thread \in [Threads -> Doing] /\ view \in BOOLEAN
  BY DEF Shape, ThreadShape, SessionShape
<1>b. ASSUME UNCHANGED <<view, configured, reported, refused, sent>>
      PROVE  Grows
  BY <1>b DEF Grows
<1>1. ASSUME UNCHANGED <<view, thread, known, loader, announced, configured, told, reported,
                         refused, sent>>,
             \A h \in Lidars : /\ owed'["info"][h] > 0 => owed["info"][h] > 0
                               /\ owed'["cfg"][h] > 0 => owed["cfg"][h] > 0
      PROVE  Justified'
  <2>1. Grows
    BY <1>1, <1>b
  <2>2. PICK t \in Threads : TRUE
    BY DiscoveryAssumption
  <2>3. ThreadsFit' /\ ModeInv'
    BY <1>1, <2>1, <2>2, ThreadsStay, ModeStays
  <2>4. SentInv' /\ ToldInv'
    BY <1>1, <2>1, SentStays, ToldStays
  <2> QED
    BY <2>3, <2>4
<1>2. ASSUME Detection \/ UNCHANGED vars
      PROVE  Justified'
  <2>1. UNCHANGED <<view, thread, known, loader, announced, configured, told, reported,
                    refused, sent, owed>>
    BY <1>2 DEF Detection, vars, session, flags, history
  <2> QED
    BY <1>1, <2>1
<1>3. ASSUME NEW h \in Lidars, Detected(h)
      PROVE  Justified'
  <2>1. view' = view /\ thread["detection"] = Idle /\ "detection" \in Threads
    BY <1>3, DiscoveryAssumption DEF Detected
  <2>2. CASE Adopt(h) \/ Ignore(h)
    <3>1. UNCHANGED <<thread, known, loader, announced, configured, told, reported,
                      refused, sent, owed>>
      BY <2>2 DEF Adopt, Ignore, flags, history
    <3> QED
      BY <1>1, <2>1, <3>1
  <2>3. CASE NewDevice(h)
    <3>1. /\ UNCHANGED <<thread, known, loader, announced, configured, told, reported,
                         refused, sent>>
          /\ Owe("fw", h) \/ owed' = owed
      BY <2>3 DEF NewDevice, GetFirmwareType, flags, history
    <3>2. \A g \in Lidars : /\ owed'["info"][g] > 0 => owed["info"][g] > 0
                            /\ owed'["cfg"][g] > 0 => owed["cfg"][g] > 0
      <4>1. CASE owed' = owed
        BY <4>1
      <4>2. CASE Owe("fw", h)
        <5>1. Owes("fw", h)
          BY <4>2, OweFacts DEF Kinds, Shape
        <5> QED
          BY <5>1 DEF Owes, Kinds
      <4> QED
        BY <3>1, <4>1, <4>2
    <3> QED
      BY <1>1, <2>1, <3>1, <3>2
  <2>4. CASE KnownDevice(h)
    <3>1. /\ UNCHANGED <<known, loader, announced, configured, told, refused>>
          /\ (h \in known \ loader /\ SendCfg(h)) \/ UNCHANGED <<owed, sent, reported>>
          /\ Goes("detection", At("forward", h))
      BY <2>4 DEF KnownDevice, MayConfigure, flags
    <3>2. SentInv' /\ Grows
      <4>1. CASE h \in known \ loader /\ SendCfg(h)
        BY <2>1, <3>1, <4>1, SendStays
      <4>2. CASE UNCHANGED <<owed, sent, reported>>
        BY <1>b, <2>1, <3>1, <4>2, SentStays
      <4> QED
        BY <3>1, <4>1, <4>2
    <3>3. /\ thread'["detection"] = At("forward", h)
          /\ \A u \in Threads \ {"detection"} : thread'[u] = thread[u]
      BY <1>a, <2>1, <3>1, DoingFacts, GoesFacts
    <3>4. Fits("detection", thread["detection"])'
      BY <3>3, DoingFacts DEF Fits
    <3>5. thread["detection"].at # "learn"
      BY <2>1, DoingFacts
    <3>6. ThreadsFit' /\ ModeInv' /\ ToldInv'
      BY <2>1, <3>1, <3>2, <3>3, <3>4, <3>5, ThreadsStay, ModeStays, ToldStays
    <3> QED
      BY <3>2, <3>6
  <2> QED
    BY <1>3, <2>2, <2>3, <2>4 DEF Detected
<1>4. ASSUME NEW t \in Threads, NEW h \in Lidars, NEW result \in {"app", "loader", "fail"},
             NEW again \in BOOLEAN, FwOutcome(t, h, result, again)
      PROVE  Justified'
  <2>1. /\ UNCHANGED <<view, known, loader, announced, configured, told, reported, refused, sent>>
        /\ Settle("fw", h, again) /\ owed["fw"][h] > 0 /\ thread[t] = Idle
        /\ result # "fail" => t = AckThread
        /\ Goes(t, [at |-> "tested", lidar |-> h, verdict |-> Verdict(result)])
    BY <1>4 DEF FwOutcome, Takes, session, flags, history
  <2>2. \A g \in Lidars : /\ owed'["info"][g] > 0 => owed["info"][g] > 0
                          /\ owed'["cfg"][g] > 0 => owed["cfg"][g] > 0
    <3>1. OwesNone
      BY <2>1, SettleFacts DEF Kinds, Shape
    <3> QED
      BY <3>1 DEF OwesNone, Kinds
  <2>3. PICK r \in Doing : r.at = "tested" /\ r.verdict = Verdict(result) /\ Goes(t, r)
    <3>1. Verdict(result) \in {"app", "loader", "guessed", "fail"}
      BY DEF Verdict
    <3> QED
      BY <2>1, <3>1, DoingFacts
  <2>4. thread'[t] = r /\ \A u \in Threads \ {t} : thread'[u] = thread[u]
    BY <1>a, <2>3, GoesFacts
  <2>5. Fits(t, thread[t])'
    <3>1. r.verdict = "loader" => t = AckThread
      BY <2>1, <2>3 DEF Verdict
    <3>2. AckThread' = AckThread
      BY <2>1 DEF AckThread
    <3> QED
      BY <2>3, <2>4, <3>1, <3>2 DEF Fits
  <2>6. Grows /\ thread[t].at # "learn"
    BY <1>b, <2>1, DoingFacts
  <2> QED
    BY <2>1, <2>2, <2>4, <2>5, <2>6, ThreadsStay, ModeStays, ToldStays, SentStays
<1>5. ASSUME NEW t \in Threads, NEW h \in Lidars, NEW result, InfoOutcome(t, h, result)
      PROVE  Justified'
  <2>1. /\ UNCHANGED <<view, known, loader, announced, configured, thread, told, reported,
                       refused>>
        /\ owed["info"][h] > 0
        /\ \/ owed' = [owed EXCEPT !["info"][h] = @ - 1] /\ sent' = sent
           \/ /\ owed' = [owed EXCEPT !["info"][h] = @ - 1, !["cfg"][h] = @ + 1]
              /\ sent' = sent \cup {h}
    BY <1>5 DEF InfoOutcome, Takes, session, flags
  <2>2. Grows
    BY <2>1 DEF Grows
  <2>3. Cleared(h)
    BY <2>1 DEF SentInv
  <2>4. \A g \in Lidars :
          /\ owed'["info"][g] > 0 => owed["info"][g] > 0
          /\ owed'["cfg"][g] > 0 => owed["cfg"][g] > 0 \/ g \in sent'
    <3>1. OwesNone \/ (Owes("cfg", h) /\ h \in sent')
      BY <2>1, InfoOwed DEF Shape
    <3> QED
      BY <3>1 DEF OwesNone, Owes, Kinds
  <2>5. SentInv'
    <3>1. sent \subseteq Lidars /\ sent' \subseteq sent \cup {h} /\ sent \subseteq sent'
      BY <2>1 DEF Shape, HistoryShape
    <3>2. \A g \in sent' : Cleared(g)'
      BY <2>2, <2>3, <3>1, MarksStay DEF SentInv
    <3> QED
      BY <2>2, <2>4, <3>1, <3>2, MarksStay DEF SentInv
  <2> QED
    BY <2>1, <2>2, <2>5, ThreadsStay, ModeStays, ToldStays
<1>6. ASSUME NEW t \in Threads, NEW h \in Lidars, NEW result, CfgOutcome(t, h, result)
      PROVE  Justified'
  <2>1. /\ UNCHANGED <<view, known, loader, announced, told, reported, sent>>
        /\ owed["cfg"][h] > 0 /\ Settle("cfg", h, FALSE) /\ thread[t] = Idle
        /\ result # "fail" => t = AckThread
        /\ configured' = IF result = "ok" THEN configured \cup {h} ELSE configured
        /\ refused' = IF result = "refused" THEN refused \cup {h} ELSE refused
        /\ Goes(t, IF AnnouncedAfter(h, result) THEN At("announce", h) ELSE Idle)
    BY <1>6 DEF CfgOutcome, Takes, session, flags
  <2>2. Grows
    BY <2>1 DEF Grows
  <2>3. OwesNone
    BY <2>1, SettleFacts DEF Kinds, Shape
  <2>4. SentInv'
    BY <2>1, <2>2, <2>3, SentStays DEF OwesNone, Kinds
  <2>5. PICK r \in Doing :
          /\ Goes(t, r)
          /\ r = Idle \/ (AnnouncedAfter(h, result) /\ r.at = "announce" /\ r.lidar = h)
    BY <2>1, DoingFacts
  <2>6. thread'[t] = r /\ \A u \in Threads \ {t} : thread'[u] = thread[u]
    BY <1>a, <2>5, GoesFacts
  <2>7. Fits(t, r)'
    <3>1. CASE r = Idle
      BY <3>1, DoingFacts DEF Fits
    <3>2. CASE AnnouncedAfter(h, result) /\ r.at = "announce" /\ r.lidar = h
      <4>1. result = "ok" \/ result = "refused"
        BY <3>2 DEF AnnouncedAfter
      <4>2. t = AckThread /\ h \in configured' \cup refused'
        BY <2>1, <4>1
      <4>3. h \in sent' /\ AckThread' = AckThread
        BY <2>1 DEF SentInv, AckThread
      <4>4. t = "detection" => view'
        BY <1>a, <2>1, <4>2, AckFacts
      <4> QED
        BY <3>2, <4>2, <4>3, <4>4 DEF Fits, Ready
    <3> QED
      BY <2>5, <3>1, <3>2
  <2>8. Fits(t, thread[t])' /\ thread[t].at # "learn"
    BY <2>1, <2>6, <2>7, DoingFacts DEF Fits
  <2> QED
    BY <2>1, <2>2, <2>4, <2>6, <2>8, ThreadsStay, ModeStays, ToldStays
<1>7. ASSUME NEW t \in Threads, Forward(t)
      PROVE  Justified'
  <2>1. PICK h \in Lidars : h = thread[t].lidar
    BY <1>7, DoingFacts DEF Forward, Shape, ThreadShape
  <2>2. /\ UNCHANGED <<view, known, loader, announced, configured, told, refused>>
        /\ ForwardConfigured(h) \/ ForwardView(h)
        /\ thread[t].at = "forward"
    BY <1>7, <2>1 DEF Forward, session, flags
  <2>3. t = "detection"
    BY <2>2 DEF ThreadsFit, Fits
  <2>4. /\ \/ h \in known \ loader /\ SendCfg(h)
           \/ UNCHANGED <<owed, sent, reported>>
           \/ view /\ h \in known \ loader /\ Owe("info", h) /\ UNCHANGED <<sent, reported>>
        /\ Goes(t, IF h \in known \cap loader THEN At("announce", h) ELSE Idle)
    <3>1. CASE ForwardConfigured(h)
      BY <2>3, <3>1 DEF ForwardConfigured
    <3>2. CASE ForwardView(h)
      BY <2>3, <3>2 DEF ForwardView
    <3> QED
      BY <2>2, <3>1, <3>2
  <2>5. SentInv' /\ Grows
    <3>1. CASE h \in known \ loader /\ SendCfg(h)
      BY <2>2, <3>1, SendStays
    <3>2. CASE UNCHANGED <<owed, sent, reported>>
      BY <1>b, <2>2, <3>2, SentStays
    <3>3. CASE view /\ h \in known \ loader /\ Owe("info", h) /\ UNCHANGED <<sent, reported>>
      <4>1. Owes("info", h)
        BY <3>3, OweFacts DEF Kinds, Shape
      <4>2. ~Torn(h)
        <5> SUFFICES ASSUME NEW u \in Threads, thread[u].at = "learn", thread[u].loader
                     PROVE  FALSE
          BY DEF Torn
        <5>1. u = AckThread
          BY DEF ThreadsFit, Fits
        <5> QED
          BY <1>a, <2>2, <2>3, <3>3, <5>1, AckFacts
      <4>3. Cleared(h)
        BY <3>3, <4>2 DEF ModeInv
      <4> QED
        BY <1>b, <2>2, <3>3, <4>1, <4>3, SentStays DEF Owes, Kinds
    <3> QED
      BY <2>4, <3>1, <3>2, <3>3
  <2>6. PICK r \in Doing :
          /\ Goes(t, r)
          /\ r = Idle \/ (h \in loader /\ r.at = "announce" /\ r.lidar = h)
    BY <2>4, DoingFacts
  <2>7. thread'[t] = r /\ \A u \in Threads \ {t} : thread'[u] = thread[u]
    BY <1>a, <2>6, GoesFacts
  <2>8. Fits(t, r)'
    <3>1. CASE r = Idle
      BY <3>1, DoingFacts DEF Fits
    <3>2. CASE h \in loader /\ r.at = "announce" /\ r.lidar = h
      <4>1. SaidLoader(h)'
        BY <2>5, <3>2, MarksStay DEF ModeInv
      <4> QED
        BY <2>3, <3>2, <4>1 DEF Fits, Ready
    <3> QED
      BY <2>6, <3>1, <3>2
  <2>9. Fits(t, thread[t])' /\ thread[t].at # "learn"
    BY <2>2, <2>7, <2>8 DEF Fits
  <2> QED
    BY <2>2, <2>5, <2>7, <2>9, ThreadsStay, ModeStays, ToldStays
<1>8. ASSUME NEW t \in Threads, Retry(t)
      PROVE  Justified'
  <2>1. PICK h \in Lidars : h = thread[t].lidar
    BY <1>8, DoingFacts DEF Retry, Shape, ThreadShape
  <2>2. /\ UNCHANGED <<view, known, loader, announced, configured, told, reported, refused, sent>>
        /\ Owe("fw", h) /\ Goes(t, Idle) /\ thread[t].at = "add"
    BY <1>8, <2>1 DEF Retry, Retried, session, flags, history
  <2>3. thread'[t] = Idle /\ \A u \in Threads \ {t} : thread'[u] = thread[u]
    BY <1>a, <2>2, DoingFacts, GoesFacts
  <2>4. Fits(t, thread[t])' /\ thread[t].at # "learn" /\ Grows
    BY <1>b, <2>2, <2>3, DoingFacts DEF Fits
  <2>5. Owes("fw", h)
    BY <2>2, OweFacts DEF Kinds, Shape
  <2>6. SentInv'
    BY <2>2, <2>4, <2>5, SentStays DEF Owes, Kinds
  <2> QED
    BY <2>2, <2>3, <2>4, <2>6, ThreadsStay, ModeStays, ToldStays
<1>12. ASSUME NEW t \in Threads, Fail(t)
       PROVE  Justified'
  <2>1. PICK h \in Lidars : h = thread[t].lidar
    BY <1>12, DoingFacts DEF Fail, Shape, ThreadShape
  <2>2. /\ UNCHANGED <<view, known, loader, announced, configured, told, reported, refused, sent,
                       owed>>
        /\ Goes(t, [at |-> "add", lidar |-> h, count |-> count]) /\ thread[t].at = "tested"
    BY <1>12, <2>1 DEF Fail, session, flags, history
  <2>3. PICK r \in Doing : r.at = "add" /\ Goes(t, r)
    BY <2>2, DoingFacts DEF Shape, CommandShape
  <2>4. thread'[t] = r /\ \A u \in Threads \ {t} : thread'[u] = thread[u]
    BY <1>a, <2>3, GoesFacts
  <2>5. Fits(t, thread[t])' /\ thread[t].at # "learn" /\ Grows
    BY <1>b, <2>2, <2>3, <2>4 DEF Fits
  <2> QED
    BY <2>2, <2>4, <2>5, ThreadsStay, ModeStays, ToldStays, SentStays
<1>13. ASSUME NEW t \in Threads, Learn(t)
       PROVE  Justified'
  <2>1. PICK h \in Lidars, v \in {"app", "loader", "guessed"} :
          h = thread[t].lidar /\ v = thread[t].verdict
    BY <1>13, DoingFacts DEF Learn, Shape, ThreadShape
  <2>2. PICK isLoader \in BOOLEAN, guess \in BOOLEAN :
          isLoader = (v = "loader") /\ guess = (v = "guessed")
    OBVIOUS
  <2>3. /\ UNCHANGED <<view, loader, announced, configured, told, refused, sent, owed>>
        /\ known' = known \cup {h} /\ reported' = [reported EXCEPT ![h] = @ \cup {v}]
        /\ Goes(t, [at |-> "learn", lidar |-> h, loader |-> isLoader, guess |-> guess])
        /\ thread[t].at = "tested"
    BY <1>13, <2>1, <2>2, Zenon DEF Learn, session
  <2>4. PICK r \in Doing : r.at = "learn" /\ r.lidar = h /\ r.loader = isLoader /\ Goes(t, r)
    BY <2>3, DoingFacts
  <2>5. thread'[t] = r /\ \A u \in Threads \ {t} : thread'[u] = thread[u]
    BY <1>a, <2>4, GoesFacts
  <2>6. /\ \A g \in Lidars : reported[g] \subseteq reported'[g]
        /\ v \in reported'[h]
    BY <2>3 DEF Shape, HistoryShape
  <2>7. Grows
    BY <2>3, <2>6 DEF Grows
  <2>8. /\ isLoader => SaidLoader(h)' /\ t = AckThread
        /\ ~isLoader => Cleared(h)'
    <3>1. isLoader => t = AckThread
      BY <2>1, <2>2, <2>3 DEF ThreadsFit, Fits
    <3>2. (isLoader => SaidLoader(h)') /\ (~isLoader => Cleared(h)')
      BY <2>2, <2>6 DEF SaidLoader, Cleared
    <3> QED
      BY <3>1, <3>2
  <2>9. Fits(t, thread[t])'
    <3>1. AckThread' = AckThread
      BY <2>3 DEF AckThread
    <3> QED
      BY <2>4, <2>5, <2>8, <3>1 DEF Fits
  <2>10. ThreadsFit' /\ ToldInv' /\ SentInv'
    BY <2>3, <2>5, <2>7, <2>9, ThreadsStay, ToldStays, SentStays
  <2>11. ModeInv'
    <3>1. \A g \in Lidars : Torn(g) => Torn(g)'
      BY <2>3, <2>5, TornStays
    <3>2. isLoader => Torn(h)'
      BY <2>4, <2>5 DEF Torn
    <3>3. known \subseteq Lidars /\ loader \subseteq Lidars
      BY DEF Shape, LidarShape
    <3> QED
      BY <2>3, <2>7, <2>8, <3>1, <3>2, <3>3, MarksStay DEF ModeInv
  <2> QED
    BY <2>10, <2>11
<1>9. ASSUME NEW t \in Threads, UpdateFwType(t)
      PROVE  Justified'
  <2>1. PICK h \in Lidars : h = thread[t].lidar
    BY <1>9, DoingFacts DEF UpdateFwType, Shape, ThreadShape
  <2>2. /\ UNCHANGED <<view, known, announced, configured, told, reported, refused, sent, owed>>
        /\ Goes(t, Idle) /\ thread[t].at = "learn"
        /\ loader' = IF thread[t].loader THEN loader \cup {h} ELSE loader \ {h}
    BY <1>9, <2>1 DEF UpdateFwType, session, history
  <2>3. thread'[t] = Idle /\ \A u \in Threads \ {t} : thread'[u] = thread[u]
    BY <1>a, <2>2, DoingFacts, GoesFacts
  <2>4. Fits(t, thread[t])' /\ Grows
    BY <1>b, <2>2, <2>3, DoingFacts DEF Fits
  <2>5. /\ thread[t].loader => SaidLoader(h)
        /\ ~thread[t].loader => Cleared(h)
    BY <2>1, <2>2 DEF ThreadsFit, Fits
  <2>6. ModeInv'
    <3>1. \A g \in Lidars \ {h} : Torn(g) => Torn(g)'
      BY <2>1, <2>3 DEF Torn
    <3>2. known \subseteq Lidars /\ loader \subseteq Lidars
      BY DEF Shape, LidarShape
    <3>3. CASE thread[t].loader
      <4>1. loader' = loader \cup {h}
        BY <2>2, <3>3
      <4> QED
        BY <2>2, <2>4, <2>5, <3>1, <3>2, <3>3, <4>1, MarksStay DEF ModeInv
    <3>4. CASE ~thread[t].loader
      <4>1. loader' = loader \ {h}
        BY <2>2, <3>4
      <4> QED
        BY <2>2, <2>4, <2>5, <3>1, <3>2, <3>4, <4>1, MarksStay DEF ModeInv
    <3> QED
      BY <3>3, <3>4
  <2> QED
    BY <2>2, <2>3, <2>4, <2>6, ThreadsStay, ToldStays, SentStays
<1>10. ASSUME NEW t \in Threads, Announce(t)
       PROVE  Justified'
  <2>1. PICK h \in Lidars : h = thread[t].lidar
    BY <1>10, DoingFacts DEF Announce, Shape, ThreadShape
  <2>2. PICK r \in Doing :
          /\ Goes(t, r) /\ r.at = "tell" /\ r.lidar = h
          /\ r.first = (h \notin announced)
    <3>1. PICK first \in BOOLEAN, isLoader \in BOOLEAN :
            first = (h \notin announced) /\ isLoader = (h \in loader)
      <4>1. (h \notin announced) \in BOOLEAN /\ (h \in loader) \in BOOLEAN
        OBVIOUS
      <4> QED
        BY <4>1, Zenon
    <3>2. Goes(t, [at |-> "tell", lidar |-> h, first |-> first, loader |-> isLoader])
      BY <1>10, <2>1, <3>1 DEF Announce
    <3> QED
      BY <3>1, <3>2, DoingFacts
  <2>3. /\ UNCHANGED <<view, known, loader, announced, configured, told, reported, refused,
                       sent, owed>>
        /\ thread[t].at = "announce"
    BY <1>10 DEF Announce, session, history
  <2>4. thread'[t] = r /\ \A u \in Threads \ {t} : thread'[u] = thread[u]
    BY <1>a, <2>2, GoesFacts
  <2>5. Grows
    BY <1>b, <2>3
  <2>6. Fits(t, r)
    <3>1. Fits(t, thread[t])
      BY DEF ThreadsFit
    <3>2. told[h] > 0 => ~r.first
      BY <2>2 DEF ToldInv
    <3> QED
      BY <2>1, <2>2, <2>3, <3>1, <3>2 DEF Fits
  <2>7. Fits(t, r)'
    BY <2>3, <2>5, <2>6, FitsStays
  <2>8. Fits(t, thread[t])'
    BY <2>4, <2>7 DEF Fits
  <2> QED
    BY <2>3, <2>4, <2>5, <2>8, ThreadsStay, ModeStays, ToldStays, SentStays
<1>11. ASSUME NEW t \in Threads, Tell(t)
       PROVE  Justified'
  <2>1. PICK h \in Lidars : h = thread[t].lidar
    BY <1>11, DoingFacts DEF Tell, Shape, ThreadShape
  <2>2. /\ UNCHANGED <<view, known, loader, configured, reported, refused, sent, owed>>
        /\ thread[t].at = "tell" /\ Goes(t, Idle)
        /\ announced' = announced \cup {h}
        /\ told' = IF thread[t].first /\ told[h] < 2 THEN [told EXCEPT ![h] = @ + 1] ELSE told
    BY <1>11, <2>1 DEF Tell, Announced, session
  <2>3. thread'[t] = Idle /\ \A u \in Threads \ {t} : thread'[u] = thread[u]
    BY <1>a, <2>2, DoingFacts, GoesFacts
  <2>4. Grows
    BY <1>b, <2>2
  <2>5. /\ \A g \in Lidars \ {h} : told'[g] = told[g]
        /\ told'[h] > 1 => told[h] > 1 \/ (thread[t].first /\ told[h] > 0)
    BY <2>2 DEF Shape, HistoryShape
  <2>6. /\ Ready(h) /\ t \in {"detection", AckThread}
        /\ t = "detection" /\ ~view => SaidLoader(h)
        /\ t # "detection" => Cleared(h)
        /\ thread[t].first /\ told[h] > 0 => Mixed(h)
    BY <2>1, <2>2 DEF ThreadsFit, Fits, SentInv
  <2>7. ToldInv'
    <3>1. Ready(h)'
      BY <2>4, <2>6, MarksStay
    <3>2. told'[h] > 1 => Mixed(h)'
      BY <2>4, <2>5, <2>6, MarksStay DEF ToldInv
    <3> QED
      BY <2>2, <2>4, <2>5, <3>1, <3>2, MarksStay DEF ToldInv
  <2>8. ThreadsFit'
    <3> SUFFICES ASSUME NEW u \in Threads
                 PROVE  Fits(u, thread[u])'
      BY DEF ThreadsFit
    <3>1. CASE u = t
      BY <2>3, <3>1, DoingFacts DEF Fits
    <3>2. CASE u # t
      <4>1. PICK r \in Doing : r = thread[u]
        BY <1>a
      <4>2. Fits(u, r)
        BY <4>1 DEF ThreadsFit
      <4>3. r.at = "tell" /\ r.lidar = h => Mixed(h)
        <5> SUFFICES ASSUME r.at = "tell", r.lidar = h
                     PROVE  Mixed(h)
          OBVIOUS
        <5>1. /\ u \in {"detection", AckThread}
              /\ u = "detection" /\ ~view => SaidLoader(h)
              /\ u # "detection" => Cleared(h)
          BY <4>2 DEF Fits, SentInv
        <5>2. ~view
          BY <1>a, <2>6, <3>2, <5>1, AckFacts
        <5> QED
          BY <2>6, <3>2, <5>1, <5>2 DEF Mixed
      <4>4. r.at = "tell" => r.lidar \in Lidars
        BY DoingFacts
      <4>5. Fits(u, r)'
        BY <2>4, <2>5, <4>2, <4>3, <4>4, FitsStays
      <4> QED
        BY <2>3, <3>2, <4>1, <4>5 DEF Fits
    <3> QED
      BY <3>1, <3>2
  <2> QED
    BY <2>2, <2>3, <2>4, <2>7, <2>8, ModeStays, SentStays
<1> QED
  BY <1>2, <1>3, <1>4, <1>5, <1>6, <1>7, <1>8, <1>9, <1>10, <1>11, <1>12, <1>13 DEF Next

\* What a thread is about to do to a lidar is justified by what that lidar was answered to be.
THEOREM JustifiedCorrect == Spec => []Justified
<1>1. Init => Justified
  <2> SUFFICES ASSUME Init
               PROVE  Justified
    OBVIOUS
  <2>1. ThreadsFit
    BY DoingFacts DEF Init, ThreadsFit, Fits
  <2>2. ModeInv
    BY DEF Init, ModeInv
  <2>3. SentInv
    BY DEF Init, SentInv, Kinds
  <2>4. ToldInv
    BY DEF Init, ToldInv
  <2> QED
    BY <2>1, <2>2, <2>3, <2>4 DEF Justified
<1> QED
  BY <1>1, JustifiedInductive, ShapeCorrect, PTL DEF Spec

-----------------------------------------------------------------------------
(***************************************************************************)
(* The counter of failed queries. A thread may store a value that others   *)
(* have passed, or set it back; never one above the failures that were     *)
(* counted.                                                                *)
(***************************************************************************)
Guesses(r) == (r.at = "tested" /\ r.verdict = "guessed") \/ (r.at = "learn" /\ r.guess)

CountInv ==
  /\ failures <= RetryLimit =>
       /\ count <= failures
       /\ \A t \in Threads : /\ thread[t].at = "add" => thread[t].count <= failures
                             /\ ~Guesses(thread[t])
  /\ GuessIsEarned

NoNewGuess == \A h \in Lidars : "guessed" \in reported'[h] => "guessed" \in reported[h]

LEMMA CountStays ==
  ASSUME Shape, Shape', CountInv, failures <= failures', NoNewGuess,
         failures' <= RetryLimit => count' <= failures',
         NEW t \in Threads, \A u \in Threads \ {t} : thread'[u] = thread[u],
         failures' <= RetryLimit =>
           \/ thread'[t] = thread[t]
           \/ (~Guesses(thread[t])' /\ (thread'[t].at = "add" => thread'[t].count <= failures'))
  PROVE  CountInv'
<1>1. failures \in Nat /\ failures' \in Nat /\ RetryLimit \in Nat
  BY DiscoveryAssumption DEF Shape, CommandShape
<1>2. GuessIsEarned'
  BY <1>1 DEF CountInv, GuessIsEarned, NoNewGuess
<1>3. ASSUME failures' <= RetryLimit, NEW u \in Threads
      PROVE  /\ thread'[u].at = "add" => thread'[u].count <= failures'
             /\ ~Guesses(thread'[u])
  <2>1. failures <= RetryLimit
    BY <1>1, <1>3
  <2>2. CASE thread'[u] = thread[u]
    <3>1. PICK r \in Doing : r = thread[u]
      BY DEF Shape, ThreadShape
    <3>2. (r.at = "add" => r.count <= failures) /\ ~Guesses(r)
      BY <2>1, <3>1 DEF CountInv
    <3>3. r.at = "add" => r.count \in Int
      BY DoingFacts, DiscoveryAssumption DEF Int8
    <3> QED
      BY <1>1, <2>2, <3>1, <3>2, <3>3
  <2>3. CASE thread'[u] # thread[u]
    BY <1>3, <2>3
  <2> QED
    BY <2>2, <2>3
<1> QED
  BY <1>2, <1>3 DEF CountInv

LEMMA CountInductive ==
  ASSUME Shape, CountInv, [Next]_vars
  PROVE  CountInv'
<1>0. Shape'
  BY ShapeInductive
<1>a. thread \in [Threads -> Doing] /\ failures \in Nat /\ count \in Int /\ RetryLimit \in Nat
  BY DiscoveryAssumption DEF Shape, ThreadShape, CommandShape, Int8
<1>b. PICK t0 \in Threads : TRUE
  BY DiscoveryAssumption
<1>c. failures <= RetryLimit => count <= failures
  BY DEF CountInv
\* A step that leaves the counter alone, and of which the thread does not go on to it.
<1>d. ASSUME NEW t \in Threads, NEW r \in Doing, Goes(t, r), r.at # "add", ~Guesses(r),
             failures' = failures, NoNewGuess, count' = count \/ count' = 0
      PROVE  CountInv'
  <2>1. thread'[t] = r /\ \A u \in Threads \ {t} : thread'[u] = thread[u]
    BY <1>a, <1>d, GoesFacts
  <2>2. failures' <= RetryLimit => count' <= failures'
    BY <1>a, <1>c, <1>d
  <2> QED
    BY <1>0, <1>a, <1>d, <2>1, <2>2, CountStays DEF Guesses
<1>e. ASSUME UNCHANGED <<thread, failures, count>>, NoNewGuess
      PROVE  CountInv'
  BY <1>e DEF CountInv, GuessIsEarned, NoNewGuess
<1>f. ASSUME reported' = reported
      PROVE  NoNewGuess
  BY <1>f DEF NoNewGuess
<1>g. ASSUME NEW h \in Lidars, SendCfg(h)
      PROVE  NoNewGuess
  BY <1>g DEF NoNewGuess, SendCfg, Shape, HistoryShape
<1>1. ASSUME Detection \/ UNCHANGED vars \/ \E t \in Threads, h \in Lidars, result \in {"ok", "fail"} :
                                              InfoOutcome(t, h, result)
      PROVE  CountInv'
  BY <1>1, <1>e, <1>f DEF Detection, InfoOutcome, vars, history
<1>2. ASSUME NEW h \in Lidars, Detected(h)
      PROVE  CountInv'
  <2>1. UNCHANGED <<count, failures>> /\ "detection" \in Threads
    BY <1>2, DiscoveryAssumption DEF Detected
  <2>2. CASE Adopt(h) \/ Ignore(h) \/ NewDevice(h)
    BY <2>1, <2>2, <1>e, <1>f DEF Adopt, Ignore, NewDevice, history
  <2>3. CASE KnownDevice(h)
    <3>1. NoNewGuess /\ Goes("detection", At("forward", h))
      BY <2>3, <1>f, <1>g DEF KnownDevice
    <3> QED
      BY <2>1, <3>1, <1>d, DoingFacts DEF Guesses
  <2> QED
    BY <1>2, <2>2, <2>3 DEF Detected
<1>3. ASSUME NEW t \in Threads, NEW h \in Lidars, NEW result \in {"app", "loader", "fail"},
             NEW again \in BOOLEAN, FwOutcome(t, h, result, again)
      PROVE  CountInv'
  <2>1. /\ UNCHANGED <<count, failures, reported>>
        /\ Goes(t, [at |-> "tested", lidar |-> h, verdict |-> Verdict(result)])
    BY <1>3 DEF FwOutcome, history
  <2>2. PICK r \in Doing : r.at = "tested" /\ r.verdict = Verdict(result) /\ Goes(t, r)
    <3>1. Verdict(result) \in {"app", "loader", "guessed", "fail"}
      BY DEF Verdict
    <3> QED
      BY <2>1, <3>1, DoingFacts
  <2>3. thread'[t] = r /\ \A u \in Threads \ {t} : thread'[u] = thread[u]
    BY <1>a, <2>2, GoesFacts
  <2>4. failures <= RetryLimit => ~Guesses(r)
    BY <1>a, <1>c, <2>2 DEF Verdict, Guesses
  <2> QED
    BY <1>0, <1>a, <1>c, <1>f, <2>1, <2>2, <2>3, <2>4, CountStays DEF Guesses
<1>4. ASSUME NEW t \in Threads, Fail(t)
      PROVE  CountInv'
  <2>1. PICK h \in Lidars : h = thread[t].lidar
    BY <1>4, <1>a, DoingFacts DEF Fail
  <2>2. /\ UNCHANGED <<count, failures, reported>>
        /\ Goes(t, [at |-> "add", lidar |-> h, count |-> count])
    BY <1>4, <2>1 DEF Fail, history
  <2>3. PICK r \in Doing : r.at = "add" /\ r.count = count /\ Goes(t, r)
    BY <2>2, DoingFacts DEF Shape, CommandShape
  <2>4. thread'[t] = r /\ \A u \in Threads \ {t} : thread'[u] = thread[u]
    BY <1>a, <2>3, GoesFacts
  <2> QED
    BY <1>0, <1>a, <1>c, <1>f, <2>2, <2>3, <2>4, CountStays DEF Guesses
<1>5. ASSUME NEW t \in Threads, Retry(t)
      PROVE  CountInv'
  <2>1. PICK c \in Int8 : c = thread[t].count
    BY <1>5, <1>a, DoingFacts DEF Retry
  <2>2. /\ count' = Incremented(c) /\ reported' = reported /\ Goes(t, Idle)
        /\ failures' = IF failures <= RetryLimit THEN failures + 1 ELSE failures
        /\ thread[t].at = "add"
    BY <1>5, <2>1 DEF Retry, history
  <2>3. thread'[t] = Idle /\ \A u \in Threads \ {t} : thread'[u] = thread[u]
    BY <1>a, <2>2, DoingFacts, GoesFacts
  <2>4. failures <= RetryLimit => c <= failures
    BY <2>1, <2>2 DEF CountInv
  <2>5. failures' <= RetryLimit => count' <= failures'
    BY <1>a, <2>1, <2>2, <2>4, DiscoveryAssumption DEF Incremented, Int8
  <2>6. failures <= failures'
    BY <1>a, <2>2
  <2>7. ~Guesses(thread[t])' /\ thread'[t].at # "add"
    BY <2>3, DoingFacts DEF Guesses
  <2> QED
    BY <1>0, <1>f, <2>2, <2>3, <2>5, <2>6, <2>7, CountStays
<1>6. ASSUME NEW t \in Threads, Learn(t)
      PROVE  CountInv'
  <2>1. PICK h \in Lidars, v \in {"app", "loader", "guessed"} :
          h = thread[t].lidar /\ v = thread[t].verdict
    BY <1>6, <1>a, DoingFacts DEF Learn
  <2>2. PICK isLoader \in BOOLEAN, guess \in BOOLEAN :
          isLoader = (v = "loader") /\ guess = (v = "guessed")
    OBVIOUS
  <2>3. /\ failures' = failures /\ thread[t].at = "tested"
        /\ reported' = [reported EXCEPT ![h] = @ \cup {v}]
        /\ count' = 0 \/ count' = count
        /\ Goes(t, [at |-> "learn", lidar |-> h, loader |-> isLoader, guess |-> guess])
    BY <1>6, <2>1, <2>2, Zenon DEF Learn
  <2>4. PICK r \in Doing : r.at = "learn" /\ r.guess = guess /\ Goes(t, r)
    BY <2>3, DoingFacts
  <2>5. thread'[t] = r /\ \A u \in Threads \ {t} : thread'[u] = thread[u]
    BY <1>a, <2>4, GoesFacts
  <2>6. v = "guessed" => failures > RetryLimit
    <3>1. v = "guessed" => Guesses(thread[t])
      BY <2>1, <2>3 DEF Guesses
    <3>2. Guesses(thread[t]) => ~(failures <= RetryLimit)
      BY DEF CountInv
    <3> QED
      BY <1>a, <3>1, <3>2
  <2>7. \A g \in Lidars : "guessed" \in reported'[g] => "guessed" \in reported[g] \/ v = "guessed"
    BY <2>3 DEF Shape, HistoryShape
  <2>8. CASE v = "guessed"
    <3>1. failures' > RetryLimit
      BY <2>3, <2>6, <2>8
    <3>2. ~(failures' <= RetryLimit)
      BY <1>a, <2>3, <3>1
    <3> QED
      BY <3>1, <3>2 DEF CountInv, GuessIsEarned
  <2>9. CASE v # "guessed"
    <3>1. NoNewGuess
      BY <2>7, <2>9 DEF NoNewGuess
    <3>2. ~Guesses(r) /\ r.at # "add"
      BY <2>2, <2>4, <2>9 DEF Guesses
    <3> QED
      BY <1>d, <2>3, <2>4, <3>1, <3>2
  <2> QED
    BY <2>8, <2>9
<1>7. ASSUME NEW t \in Threads, NEW h \in Lidars, NEW result, CfgOutcome(t, h, result)
      PROVE  CountInv'
  <2>1. /\ UNCHANGED <<count, failures, reported>>
        /\ Goes(t, At("announce", h)) \/ Goes(t, Idle)
    BY <1>7 DEF CfgOutcome
  <2> QED
    BY <1>d, <1>f, <2>1, DoingFacts DEF Guesses
<1>8. ASSUME NEW t \in Threads, Forward(t)
      PROVE  CountInv'
  <2>1. PICK h \in Lidars : h = thread[t].lidar
    BY <1>8, <1>a, DoingFacts DEF Forward
  <2>2. /\ UNCHANGED <<count, failures>>
        /\ ForwardConfigured(h) \/ ForwardView(h)
    BY <1>8, <2>1 DEF Forward
  <2>3. /\ SendCfg(h) \/ reported' = reported
        /\ Goes("detection", At("announce", h)) \/ Goes("detection", Idle)
    BY <2>2 DEF ForwardConfigured, ForwardView
  <2> QED
    BY <1>d, <1>f, <1>g, <2>2, <2>3, DoingFacts, DiscoveryAssumption DEF Guesses
<1>9. ASSUME NEW t \in Threads, UpdateFwType(t) \/ Tell(t)
      PROVE  CountInv'
  <2>1. /\ failures' = failures /\ reported' = reported /\ Goes(t, Idle)
        /\ count' = count \/ count' = 0
    BY <1>9, Zenon DEF UpdateFwType, Tell, history
  <2> QED
    BY <1>d, <1>f, <2>1, DoingFacts DEF Guesses
<1>10. ASSUME NEW t \in Threads, Announce(t)
       PROVE  CountInv'
  <2>1. PICK h \in Lidars : h = thread[t].lidar
    BY <1>10, <1>a, DoingFacts DEF Announce
  <2>2. PICK first \in BOOLEAN, isLoader \in BOOLEAN :
          first = (h \notin announced) /\ isLoader = (h \in loader)
    <3>1. (h \notin announced) \in BOOLEAN /\ (h \in loader) \in BOOLEAN
      OBVIOUS
    <3> QED
      BY <3>1, Zenon
  <2>3. /\ UNCHANGED <<count, failures, reported>>
        /\ Goes(t, [at |-> "tell", lidar |-> h, first |-> first, loader |-> isLoader])
    BY <1>10, <2>1, <2>2 DEF Announce, history
  <2>4. PICK r \in Doing : r.at = "tell" /\ Goes(t, r)
    BY <2>3, DoingFacts
  <2> QED
    BY <1>d, <1>f, <2>3, <2>4 DEF Guesses
<1> QED
  BY <1>1, <1>2, <1>3, <1>4, <1>5, <1>6, <1>7, <1>8, <1>9, <1>10 DEF Next

\* Only a lidar that cannot be asked is guessed: as many queries failed as are tolerated, and
\* one more. Increments of the counter may be lost, and the counter may run past its limit or
\* wrap around; a guess before its time there is not.
THEOREM GuessCorrect == Spec => []GuessIsEarned
<1>1. Init => CountInv
  BY DiscoveryAssumption, DoingFacts DEF Init, CountInv, GuessIsEarned, Guesses
<1>2. CountInv => GuessIsEarned
  BY DEF CountInv
<1> QED
  BY <1>1, <1>2, CountInductive, ShapeCorrect, PTL DEF Spec

\* A lidar in loader mode is left alone: what is configured has answered that it is not, or
\* was taken for one that is not after more failures than are tolerated, or a detection came
\* between the two stores of UpdateFwType.
THEOREM LidarsCorrect == Spec => []LidarsOK
<1>1. Justified => LoaderIsLeftAlone
  BY DEF Justified, SentInv, Cleared, LoaderIsLeftAlone
<1> QED
  BY <1>1, JustifiedCorrect, Typing, GuessCorrect, PTL DEF LidarsOK

\* The user is told of a lidar when it shall be used and once, although two threads read and
\* write the flag without a lock: they meet only at a lidar that was reported in both modes.
THEOREM ToldCorrect == Spec => []ToldOnceWhenReady
<1>1. Shape /\ Justified => ToldOnceWhenReady
  <2> SUFFICES ASSUME Shape, Justified
               PROVE  ToldOnceWhenReady
    OBVIOUS
  <2>1. ToldOnce
    <3> SUFFICES ASSUME NEW h \in Lidars, told[h] > 1
                 PROVE  "loader" \in reported[h] /\ Cardinality(reported[h]) > 1
      BY DEF ToldOnce
    <3>1. Mixed(h)
      BY DEF Justified, ToldInv
    <3>2. reported[h] \in SUBSET Marks
      BY DEF Shape, HistoryShape
    <3> QED
      BY <3>1, <3>2, MixedCounts DEF Mixed, SaidLoader
  <2>2. ToldMeansReady
    BY DEF Justified, ToldInv, Ready, SaidLoader, ToldMeansReady
  <2> QED
    BY <2>1, <2>2 DEF ToldOnceWhenReady
<1> QED
  BY <1>1, JustifiedCorrect, ShapeCorrect, PTL

=============================================================================
