--------------------------- MODULE DataPath_proofs ---------------------------
(***************************************************************************)
(* Proofs about DataPath: who is called, and what ends the process.        *)
(***************************************************************************)
EXTENDS DataPath, SequenceTheorems, TLAPS

(***************************************************************************)
(* The state of the two threads.                                           *)
(***************************************************************************)
IoState ==
  [at : {"idle", "stuck"}]
    \cup [at : {"observer"}, todo : SUBSET Ids, calling : Ids \cup {0}, who : Nat]
    \cup [at : {"debug", "start", "store"}, lidar : Lidars]

UserState ==
  [at : {"idle"}]
    \cup [at : {"insert", "erase"}, id : Ids]
    \cup [at : {"switch"}, on : BOOLEAN, todo : SUBSET Lidars]
    \cup [at : {"join"}, lidar : Lidars, todo : SUBSET Lidars]

ThreadsOK ==
  /\ lastId \in Ids
  /\ observers \in [Ids -> Nat]
  /\ io \in IoState
  /\ user \in UserState
  /\ calls \in Nat

\* Identifiers stay in their range, and each thread is in a place of its code.
THEOREM ThreadsCorrect == Spec => []ThreadsOK
<1> USE DataPathAssumption
<1>1. Init => ThreadsOK
  BY DEF Init, ThreadsOK, Ids, Idle, At, IoState, UserState
<1>2. ThreadsOK /\ [Next]_vars => ThreadsOK'
  <2> SUFFICES ASSUME ThreadsOK, [Next]_vars
               PROVE  ThreadsOK'
    OBVIOUS
  <2> USE DEF ThreadsOK, At, Idle
  <2>1. CASE AddObserver
    BY <2>1 DEF AddObserver, Call, debugging, NextId, Ids, UserState
  <2>2. ASSUME NEW i \in Ids, RemoveObserver(i)
        PROVE  ThreadsOK'
    BY <2>2 DEF RemoveObserver, Call, observing, debugging, UserState
  <2>3. CASE Insert
    BY <2>3 DEF Insert, debugging, UserState
  <2>4. CASE Erase
    BY <2>4 DEF Erase, debugging, UserState
  <2>5. ASSUME NEW on \in BOOLEAN, SwitchDebug(on)
        PROVE  ThreadsOK'
    BY <2>5 DEF SwitchDebug, Call, observing, UserState
  <2>6. ASSUME NEW h \in Lidars, EnableHandler(h) \/ DisableHandler(h)
        PROVE  ThreadsOK'
    <3>1. UNCHANGED <<observing, io, calls>> /\ user.at = "switch"
      BY <2>6 DEF EnableHandler, DisableHandler
    <3>2. PICK on \in BOOLEAN, todo \in SUBSET Lidars :
            user = [at |-> "switch", on |-> on, todo |-> todo]
      BY <3>1 DEF UserState
    <3>3. \/ user' = user
          \/ user' = [at |-> "switch", on |-> on, todo |-> todo \ {h}]
          \/ user' = [at |-> "join", lidar |-> h, todo |-> todo \ {h}]
      BY <2>6, <3>2 DEF EnableHandler, DisableHandler
    <3>4. user' \in UserState
      BY <3>2, <3>3 DEF UserState
    <3> QED
      BY <3>1, <3>4 DEF observing
  <2>7. CASE FindHandler \/ MakeHandler \/ StartHandler
    <3>1. /\ UNCHANGED <<observing, calls>> /\ io.at \in {"debug", "start"}
          /\ io' = [io EXCEPT !.at = "store"] \/ io' = [io EXCEPT !.at = "start"]
      BY <2>7 DEF FindHandler, MakeHandler, StartHandler
    <3>2. io' \in IoState
      BY <3>1 DEF IoState
    <3>3. \/ user' = user
          \/ user.at \in {"switch", "join"} /\ \E h \in Lidars : user' = [user EXCEPT !.todo = @ \cup {h}]
      <4>1. CASE FindHandler \/ StartHandler
        BY <4>1 DEF FindHandler, StartHandler
      <4>2. CASE MakeHandler
        BY <4>2 DEF MakeHandler, Switching, IoState
      <4> QED
        BY <2>7, <4>1, <4>2
    <3>4. user' \in UserState
      BY <3>3 DEF UserState
    <3> QED
      BY <3>1, <3>2, <3>4 DEF observing
  <2>8. CASE JoinWriter
    BY <2>8 DEF JoinWriter, observing, UserState
  <2>9. CASE SwitchEnds
    BY <2>9 DEF SwitchEnds, observing, UserState
  <2>10. CASE Points
    BY <2>10 DEF Points, observing, debugging, IoState, Registered
  <2>11. ASSUME NEW i \in Ids, CallObserver(i)
         PROVE  ThreadsOK'
    BY <2>11 DEF CallObserver, observing, debugging, IoState
  <2>12. CASE HandleEnds
    BY <2>12 DEF HandleEnds, observing, debugging, IoState
  <2>13. CASE Reenter
    BY <2>13 DEF Reenter, observing, debugging, IoState
  <2>14. ASSUME NEW h \in Lidars, DebugPoints(h)
         PROVE  ThreadsOK'
    BY <2>14 DEF DebugPoints, observing, debugging, IoState
  <2>15. CASE StoreData
    BY <2>15 DEF StoreData, observing, IoState
  <2>16. ASSUME NEW h \in Lidars, WriteData(h)
         PROVE  ThreadsOK'
    BY <2>16 DEF WriteData, observing
  <2>17. CASE UNCHANGED vars
    BY <2>17 DEF vars, observing
  <2> QED
    BY <2>1, <2>2, <2>3, <2>4, <2>5, <2>6, <2>7, <2>8, <2>9, <2>10, <2>11, <2>12, <2>13,
       <2>14, <2>15, <2>16, <2>17 DEF Next, DataStep, UserStep
<1> QED
  BY <1>1, <1>2, PTL DEF Spec

(***************************************************************************)
(* The lock keeps the observers as they are while one of them is called.   *)
(***************************************************************************)
\* An observer that was removed is not called, for any number of observers and identifiers.
THEOREM RemovedIsSilentCorrect == Spec => []RemovedIsSilent
<1> USE DataPathAssumption
<1>1. Init => RemovedIsSilent
  BY DEF Init, RemovedIsSilent, Idle, At
<1>2. ThreadsOK /\ RemovedIsSilent /\ [Next]_vars => RemovedIsSilent'
  <2> SUFFICES ASSUME ThreadsOK, RemovedIsSilent, [Next]_vars
               PROVE  RemovedIsSilent'
    OBVIOUS
  <2> USE DEF RemovedIsSilent, Registered, At, Idle
  <2>1. CASE UNCHANGED <<observers, io>>
    BY <2>1
  <2>2. CASE Insert \/ Erase
    BY <2>2 DEF Insert, Erase, LockFree
  <2>3. CASE Points
    BY <2>3 DEF Points, observing
  <2>4. ASSUME NEW i \in Ids, CallObserver(i)
        PROVE  RemovedIsSilent'
    <3>1. /\ io.todo \subseteq Registered
          /\ observers' = observers
          /\ io' = [io EXCEPT !.todo = @ \ {i}, !.calling = i, !.who = observers[i]]
      BY <2>4 DEF CallObserver, observing
    <3>2. io \in [at : {"observer"}, todo : SUBSET Ids, calling : Ids \cup {0}, who : Nat]
      BY <2>4 DEF CallObserver, ThreadsOK, IoState
    <3>3. io'.todo \subseteq io.todo /\ io'.calling = i /\ io'.who = observers[i]
      BY <3>1, <3>2
    <3> QED
      BY <3>1, <3>3
  <2>5. CASE HandleEnds \/ Reenter \/ StoreData
    BY <2>5 DEF HandleEnds, Reenter, StoreData
  <2>10. CASE FindHandler \/ MakeHandler \/ StartHandler
    <3>1. io'.at # "observer"
      BY <2>10 DEF FindHandler, MakeHandler, StartHandler, ThreadsOK, IoState
    <3> QED
      BY <3>1
  <2>6. ASSUME NEW h \in Lidars, DebugPoints(h)
        PROVE  RemovedIsSilent'
    BY <2>6 DEF DebugPoints, observing
  <2>7. CASE AddObserver \/ (\E on \in BOOLEAN : SwitchDebug(on)) \/ \E i \in Ids : RemoveObserver(i)
    BY <2>1, <2>7 DEF AddObserver, SwitchDebug, RemoveObserver, observing
  <2>8. CASE JoinWriter \/ SwitchEnds \/ \E h \in Lidars : \/ EnableHandler(h) \/ DisableHandler(h)
                                                          \/ WriteData(h)
    BY <2>1, <2>8 DEF JoinWriter, SwitchEnds, EnableHandler, DisableHandler, WriteData, observing
  <2>9. CASE UNCHANGED vars
    BY <2>1, <2>9 DEF vars, observing
  <2> QED
    BY <2>2, <2>3, <2>4, <2>5, <2>6, <2>7, <2>8, <2>9, <2>10 DEF Next, DataStep, UserStep
<1> QED
  BY <1>1, <1>2, ThreadsCorrect, PTL DEF Spec

(***************************************************************************)
(* Identifiers. Distance counts the calls of AddObserver from the one that *)
(* took identifier i to the last one; the observer of i is as old at least. *)
(***************************************************************************)
Distance(i) == IF i <= lastId THEN lastId - i ELSE lastId - i + MaxId

LapInv ==
  /\ \A i \in Ids : observers[i] # 0 => calls - observers[i] >= Distance(i)
  /\ user.at = "insert" =>
       /\ user.id = lastId
       /\ observers[user.id] # 0 => calls - observers[user.id] >= MaxId

\* An observer loses its identifier to another one only a lap later, for any MaxId.
THEOREM ReplacedAfterLapCorrect == Spec => ReplacedAfterLap
<1> USE DataPathAssumption
<1>1. Init => LapInv
  BY DEF Init, LapInv, Idle, At
<1>2. ThreadsOK /\ LapInv /\ [Next]_vars => LapInv'
  <2> SUFFICES ASSUME ThreadsOK, LapInv, [Next]_vars
               PROVE  LapInv'
    OBVIOUS
  <2> USE DEF ThreadsOK, LapInv, At, Idle, Ids
  <2>1. CASE UNCHANGED <<observing, calls>> /\ user'.at # "insert"
    BY <2>1 DEF observing, Distance
  <2>2. CASE UNCHANGED <<observing, user, calls>>
    BY <2>2 DEF observing, Distance
  <2>3. CASE AddObserver
    <3>1. /\ lastId' = NextId(lastId) /\ observers' = observers /\ calls' = calls + 1
          /\ user' = [at |-> "insert", id |-> NextId(lastId)]
      BY <2>3 DEF AddObserver, Call
    <3>2. ASSUME NEW i \in Ids
          PROVE  i = NextId(lastId) \/ Distance(i)' = Distance(i) + 1
      BY <3>1, <3>2 DEF Distance, NextId
    <3>3. ASSUME NEW i \in Ids, i = NextId(lastId)
          PROVE  Distance(i) = MaxId - 1 /\ Distance(i)' = 0
      BY <3>1, <3>3 DEF Distance, NextId
    <3>4. \A i \in Ids : observers[i] \in Nat /\ Distance(i) \in Nat
      BY DEF Distance
    <3>5. NextId(lastId) \in Ids
      BY DEF NextId
    <3> HIDE DEF Ids
    <3>6. ASSUME NEW i \in Ids, observers'[i] # 0
          PROVE  calls' - observers'[i] >= Distance(i)'
      BY <3>1, <3>2, <3>3, <3>4, <3>6
    <3>7. observers'[NextId(lastId)] # 0 => calls' - observers'[NextId(lastId)] >= MaxId
      BY <3>1, <3>3, <3>4, <3>5
    <3> QED
      BY <3>1, <3>6, <3>7
  <2>4. CASE Insert
    <3>1. /\ observers' = [observers EXCEPT ![lastId] = calls]
          /\ user' = Idle /\ UNCHANGED <<lastId, calls>>
      BY <2>4 DEF Insert
    <3> QED
      BY <3>1 DEF Distance
  <2>5. CASE Erase
    <3>1. user.id \in Ids
      BY <2>5 DEF Erase, UserState
    <3>2. /\ observers' = [observers EXCEPT ![user.id] = 0]
          /\ user' = Idle /\ UNCHANGED <<lastId, calls>>
      BY <2>5 DEF Erase
    <3> QED
      BY <3>1, <3>2 DEF Distance
  <2>6. CASE (\E on \in BOOLEAN : SwitchDebug(on)) \/ \E i \in Ids : RemoveObserver(i)
    <3>1. UNCHANGED observing /\ calls' = calls + 1
      BY <2>6 DEF SwitchDebug, RemoveObserver, Call
    <3>2. \/ \E on, todo : user' = [at |-> "switch", on |-> on, todo |-> todo]
          \/ \E i : user' = [at |-> "erase", id |-> i]
      BY <2>6 DEF SwitchDebug, RemoveObserver, Call
    <3>3. user'.at # "insert"
      BY <3>2
    <3>4. \A i \in Ids : observers[i] \in Nat /\ Distance(i) \in Nat /\ Distance(i)' = Distance(i)
      BY <3>1 DEF observing, Distance
    <3> HIDE DEF Ids
    <3> QED
      BY <3>1, <3>3, <3>4 DEF observing
  <2>7. CASE \/ JoinWriter \/ SwitchEnds \/ \E h \in Lidars : EnableHandler(h) \/ DisableHandler(h)
    <3>1. UNCHANGED <<observing, calls>> /\ user'.at # "insert"
      <4>1. CASE JoinWriter \/ SwitchEnds
        BY <4>1 DEF JoinWriter, SwitchEnds
      <4>2. ASSUME NEW h \in Lidars, EnableHandler(h) \/ DisableHandler(h)
            PROVE  UNCHANGED <<observing, calls>> /\ user'.at # "insert"
        BY <4>2 DEF EnableHandler, DisableHandler, UserState
      <4> QED
        BY <2>7, <4>1, <4>2
    <3> QED
      BY <2>1, <3>1
  <2>8. CASE Points \/ HandleEnds \/ Reenter \/ StoreData \/ \E i \in Ids : CallObserver(i)
    BY <2>2, <2>8 DEF Points, HandleEnds, Reenter, StoreData, CallObserver
  <2>11. CASE FindHandler \/ StartHandler
    BY <2>2, <2>11 DEF FindHandler, StartHandler
  <2>12. CASE MakeHandler
    <3>1. UNCHANGED <<observing, calls>>
      BY <2>12 DEF MakeHandler
    <3>2. user' = user \/ user'.at # "insert"
      BY <2>12 DEF MakeHandler, Switching, UserState
    <3> QED
      BY <2>1, <2>2, <3>1, <3>2
  <2>9. CASE \E h \in Lidars : DebugPoints(h) \/ WriteData(h)
    BY <2>2, <2>9 DEF DebugPoints, WriteData
  <2>10. CASE UNCHANGED vars
    BY <2>2, <2>10 DEF vars
  <2> QED
    BY <2>3, <2>4, <2>5, <2>6, <2>7, <2>8, <2>9, <2>10, <2>11, <2>12 DEF Next, DataStep, UserStep
<1>3. ThreadsOK /\ LapInv /\ [Next]_vars =>
        [\A i \in Ids : (observers[i] # 0 /\ observers'[i] \notin {0, observers[i]}) =>
            observers'[i] - observers[i] >= MaxId]_vars
  <2> SUFFICES ASSUME ThreadsOK, LapInv, Next,
                      NEW i \in Ids, observers[i] # 0, observers'[i] \notin {0, observers[i]}
               PROVE  observers'[i] - observers[i] >= MaxId
    OBVIOUS
  <2>1. CASE Insert
    BY <2>1 DEF Insert, ThreadsOK, LapInv
  <2>2. CASE Erase
    <3>1. observers' = [observers EXCEPT ![user.id] = 0]
      BY <2>2 DEF Erase
    <3> QED
      BY <3>1 DEF ThreadsOK
  <2>3. CASE observers' = observers
    BY <2>3
  <2> QED
    BY <2>1, <2>2, <2>3
    DEF Next, DataStep, UserStep, AddObserver, RemoveObserver, SwitchDebug, EnableHandler,
        DisableHandler, JoinWriter, SwitchEnds, Points, CallObserver, HandleEnds, Reenter,
        DebugPoints, FindHandler, MakeHandler, StartHandler, StoreData, WriteData, observing
<1> QED
  BY <1>1, <1>2, <1>3, ThreadsCorrect, PTL DEF Spec, ReplacedAfterLap

(***************************************************************************)
(* Debug files. What was stored is what is in the file and what is queued. *)
(***************************************************************************)
Handler ==
  [at : {"idle", "wait", "ended", "gone"}, enable : BOOLEAN,
   data : Seq(Nat), file : Seq(Nat), stored : Seq(Nat)]

Whole(w) == w \in Handler /\ w.stored = w.file \o w.data

WriterInv ==
  /\ received \in Nat
  /\ handlers \in [Lidars -> {"absent", "there", "null"}]
  /\ writer \in [Lidars -> {NoWriter} \cup Handler]
  /\ \A h \in Lidars : writer[h].at # "none" => Whole(writer[h])
  /\ \A h \in Lidars : handlers[h] = "there" => writer[h].at # "none"

\* An element that is appended to both stays behind what was concatenated.
LEMMA AppendToConcat ==
  ASSUME NEW f \in Seq(Nat), NEW q \in Seq(Nat), NEW d \in Nat
  PROVE  /\ Append(q, d) \in Seq(Nat)
         /\ Append(f \o q, d) = f \o Append(q, d)
<1> DEFINE l == Append(f \o q, d)
           r == f \o Append(q, d)
<1>1. Len(f) \in Nat /\ Len(q) \in Nat
  BY LenProperties
<1>2. /\ f \o q \in Seq(Nat) /\ Len(f \o q) = Len(f) + Len(q)
      /\ Append(q, d) \in Seq(Nat) /\ Len(Append(q, d)) = Len(q) + 1
  BY ConcatProperties, AppendProperties
<1>3. l \in Seq(Nat) /\ r \in Seq(Nat) /\ Len(l) = Len(r)
  BY <1>1, <1>2, ConcatProperties, AppendProperties
<1>4. ASSUME NEW i \in 1 .. Len(l)
      PROVE  l[i] = r[i]
  <2>1. Len(l) = Len(f) + Len(q) + 1
    BY <1>1, <1>2, AppendProperties
  <2>2. r[i] = IF i <= Len(f) THEN f[i] ELSE Append(q, d)[i - Len(f)]
    <3>1. ASSUME NEW a \in Seq(Nat), NEW j \in 1 .. Len(f) + Len(a)
          PROVE  (f \o a)[j] = IF j <= Len(f) THEN f[j] ELSE a[j - Len(f)]
      BY <1>1, ConcatProperties
    <3>2. i \in 1 .. Len(f) + Len(Append(q, d))
      BY <1>1, <1>2, <2>1
    <3> QED
      BY <1>2, <3>1, <3>2
  <2>3. CASE i <= Len(f)
    BY <1>1, <1>2, <2>1, <2>2, <2>3, ConcatProperties
  <2>4. CASE i > Len(f) /\ i <= Len(f) + Len(q)
    BY <1>1, <1>2, <2>1, <2>2, <2>4, ConcatProperties
  <2>5. CASE i = Len(f) + Len(q) + 1
    BY <1>1, <1>2, <2>1, <2>2, <2>5
  <2> QED
    BY <1>1, <2>1, <2>3, <2>4, <2>5
<1> HIDE DEF l, r
<1>5. l = r
  BY <1>3, <1>4, SeqEqual
<1> QED
  BY <1>2, <1>5 DEF l, r

\* The first of two sequences is a prefix of both together.
LEMMA PrefixOfConcat ==
  ASSUME NEW f \in Seq(Nat), NEW q \in Seq(Nat)
  PROVE  IsPrefix(f, f \o q)
<1>1. Len(f) \in Nat /\ Len(q) \in Nat /\ Len(f \o q) = Len(f) + Len(q)
  BY ConcatProperties, LenProperties
<1>2. SubSeq(f \o q, 1, Len(f)) = SubSeq(f, 1, Len(f))
  <2>1. CASE Len(f) = 0
    BY <2>1, SubSeqEmpty
  <2>2. CASE Len(f) # 0
    <3>1. 1 \in 1 .. Len(f) /\ Len(f) \in 1 .. Len(f)
      BY <1>1, <2>2
    <3> QED
      BY <3>1, SubSeqOfConcat1, Zenon
  <2> QED
    BY <2>1, <2>2
<1> QED
  BY <1>1, <1>2 DEF IsPrefix

\* A datagram that is stored goes behind what is there (StoreData).
LEMMA StoredIsWhole ==
  ASSUME NEW w, Whole(w), NEW d \in Nat
  PROVE  Whole(Stored(w, d))
<1>1. /\ w \in Handler
      /\ w.file \in Seq(Nat) /\ w.data \in Seq(Nat) /\ w.stored \in Seq(Nat)
      /\ w.stored = w.file \o w.data
  BY DEF Whole, Handler
<1>2. Append(w.data, d) \in Seq(Nat) /\ Append(w.stored, d) \in Seq(Nat)
  BY <1>1
<1>3. Append(w.stored, d) = w.file \o Append(w.data, d)
  <2>1. Append(w.file \o w.data, d) = w.file \o Append(w.data, d)
    BY <1>1, AppendToConcat
  <2> QED
    BY <1>1, <2>1, Zenon
<1>4. ASSUME NEW q \in Seq(Nat), NEW s \in Seq(Nat), s = w.file \o q
      PROVE  Whole([w EXCEPT !.data = q, !.stored = s])
  BY <1>1, <1>4 DEF Whole, Handler
<1> QED
  BY <1>2, <1>3, <1>4, Zenon DEF Stored

\* The beginning of what was stored is in the file.
LEMMA WholeIsPrefix ==
  ASSUME NEW w, Whole(w)
  PROVE  IsPrefix(w.file, w.stored)
<1>1. w.file \in Seq(Nat) /\ w.data \in Seq(Nat) /\ w.stored = w.file \o w.data
  BY DEF Whole, Handler
<1> QED
  BY <1>1, PrefixOfConcat

\* A step of one handler.
LEMMA WriterStep ==
  ASSUME WriterInv, NEW h \in Lidars, NEW w, Whole(w), writer' = [writer EXCEPT ![h] = w],
         handlers' = handlers \/ \E state \in {"there", "null"} :
                                    handlers' = [handlers EXCEPT ![h] = state],
         received' = received
  PROVE  WriterInv'
<1>1. w \in Handler /\ w.at # "none"
  BY DEF Whole, Handler
<1>2. handlers' \in [Lidars -> {"absent", "there", "null"}]
  BY DEF WriterInv
<1>3. \A g \in Lidars : handlers'[g] = "there" => g = h \/ handlers[g] = "there"
  BY DEF WriterInv
<1>4. /\ writer' \in [Lidars -> {NoWriter} \cup Handler]
      /\ writer'[h] = w /\ \A g \in Lidars \ {h} : writer'[g] = writer[g]
  BY <1>1 DEF WriterInv
<1> QED
  BY <1>1, <1>2, <1>3, <1>4 DEF WriterInv

\* A handler is switched on or off, and its thread ends or is waited for.
LEMMA SwitchedIsWhole ==
  ASSUME NEW w, Whole(w)
  PROVE  /\ Whole(Enabled(w)) /\ Enabled(w).at = "wait"
         /\ Whole(SwitchedOff(w)) /\ SwitchedOff(w).at = w.at
         /\ Whole([w EXCEPT !.at = "ended"])
         /\ Whole([w EXCEPT !.at = "gone"])
<1> USE DEF Whole, Handler
<1>1. Whole(Enabled(w)) /\ Enabled(w).at = "wait"
  BY DEF Enabled
<1>2. Whole(SwitchedOff(w)) /\ SwitchedOff(w).at = w.at
  BY DEF SwitchedOff
<1>3. Whole([w EXCEPT !.at = "ended"])
  OBVIOUS
<1>4. Whole([w EXCEPT !.at = "gone"])
  OBVIOUS
<1> QED
  BY <1>1, <1>2, <1>3, <1>4

\* What was stored of a lidar is in its file or queued.
THEOREM WriterInvCorrect == Spec => []WriterInv
<1> USE DataPathAssumption
<1>1. Init => WriterInv
  BY DEF Init, WriterInv, NoWriter
<1>2. ThreadsOK /\ WriterInv /\ [Next]_vars => WriterInv'
  <2> SUFFICES ASSUME ThreadsOK, WriterInv, [Next]_vars
               PROVE  WriterInv'
    OBVIOUS
  <2>a. \A h \in Lidars : handlers[h] = "there" \/ writer[h].at # "none" => Whole(writer[h])
    BY DEF WriterInv
  <2>1. CASE UNCHANGED <<handlers, writer>> /\ received' \in {received, received + 1}
    BY <2>1 DEF WriterInv
  <2>2. CASE AddObserver \/ Insert \/ Erase \/ \E i \in Ids : RemoveObserver(i)
    BY <2>1, <2>2 DEF AddObserver, Insert, Erase, RemoveObserver, Call, debugging
  <2>3. CASE (\E on \in BOOLEAN : SwitchDebug(on)) \/ SwitchEnds \/ FindHandler \/ UNCHANGED vars
    BY <2>1, <2>3 DEF SwitchDebug, SwitchEnds, FindHandler, Call, debugging, vars
  <2>4. CASE Points \/ HandleEnds \/ Reenter \/ \E i \in Ids : CallObserver(i)
    BY <2>1, <2>4 DEF Points, HandleEnds, Reenter, CallObserver, debugging
  <2>5. ASSUME NEW h \in Lidars, DebugPoints(h)
        PROVE  WriterInv'
    BY <2>1, <2>5 DEF DebugPoints, debugging
  <2>6. CASE MakeHandler
    <3> DEFINE h == io.lidar
    <3>1. /\ h \in Lidars /\ received' = received
          /\ handlers' = [handlers EXCEPT ![h] = "there"]
          /\ writer' = [writer EXCEPT ![h] = NewWriter]
      BY <2>6 DEF MakeHandler, ThreadsOK, IoState
    <3>2. Whole(NewWriter)
      BY ConcatEmptySeq, EmptySeq DEF Whole, NewWriter, Handler
    <3> HIDE DEF h
    <3> QED
      BY <3>1, <3>2, WriterStep
  <2>7. CASE StartHandler
    <3> DEFINE h == io.lidar
    <3>1. h \in Lidars /\ UNCHANGED <<handlers, received>>
      BY <2>7 DEF StartHandler, ThreadsOK, IoState
    <3>2. \/ writer' = writer
          \/ handlers[h] = "there" /\ writer' = [writer EXCEPT ![h] = Enabled(@)]
          \/ handlers[h] = "there" /\ writer' = [writer EXCEPT ![h] = SwitchedOff(@)]
      BY <2>7 DEF StartHandler
    <3> HIDE DEF h
    <3>3. \/ writer' = writer
          \/ \E w : Whole(w) /\ writer' = [writer EXCEPT ![h] = w]
      BY <2>a, <3>1, <3>2, SwitchedIsWhole
    <3> QED
      BY <2>1, <3>1, <3>3, WriterStep
  <2>8. CASE StoreData
    <3> DEFINE h == io.lidar
    <3>1. h \in Lidars /\ UNCHANGED <<handlers, received>> /\ received \in Nat
      BY <2>8 DEF StoreData, ThreadsOK, IoState, WriterInv
    <3>2. \/ writer' = writer
          \/ handlers[h] = "there" /\ writer' = [writer EXCEPT ![h] = Stored(@, received)]
      BY <2>8 DEF StoreData
    <3> HIDE DEF h
    <3>3. \/ writer' = writer
          \/ \E w : Whole(w) /\ writer' = [writer EXCEPT ![h] = w]
      BY <2>a, <3>1, <3>2, StoredIsWhole
    <3> QED
      BY <2>1, <3>1, <3>3, WriterStep
  <2>9. ASSUME NEW h \in Lidars, EnableHandler(h) \/ DisableHandler(h)
        PROVE  WriterInv'
    <3>1. \/ UNCHANGED <<handlers, writer>>
          \/ /\ handlers[h] = "there" /\ handlers' = handlers
             /\ writer' = [writer EXCEPT ![h] = Enabled(@)]
          \/ /\ handlers[h] = "there" /\ handlers' = [handlers EXCEPT ![h] = "null"]
             /\ writer' = [writer EXCEPT ![h] = SwitchedOff(@)]
      BY <2>9 DEF EnableHandler, DisableHandler
    <3>2. received' = received
      BY <2>9 DEF EnableHandler, DisableHandler
    <3>3. \/ UNCHANGED <<handlers, writer>>
          \/ /\ handlers' = handlers \/ handlers' = [handlers EXCEPT ![h] = "null"]
             /\ \E w : Whole(w) /\ writer' = [writer EXCEPT ![h] = w]
      BY <2>a, <3>1, SwitchedIsWhole
    <3> QED
      BY <2>1, <3>2, <3>3, WriterStep
  <2>10. CASE JoinWriter
    <3> DEFINE h == user.lidar
    <3>1. /\ h \in Lidars /\ UNCHANGED <<handlers, received>>
          /\ writer[h].at # "none"
          /\ writer' = [writer EXCEPT ![h].at = "gone"]
      BY <2>10 DEF JoinWriter, ThreadsOK, UserState
    <3> HIDE DEF h
    <3>2. writer' = [writer EXCEPT ![h] = [writer[h] EXCEPT !.at = "gone"]]
      BY <3>1
    <3>3. Whole([writer[h] EXCEPT !.at = "gone"])
      BY <2>a, <3>1, SwitchedIsWhole
    <3> QED
      BY <3>1, <3>2, <3>3, WriterStep
  <2>11. ASSUME NEW h \in Lidars, WriteData(h)
         PROVE  WriterInv'
    <3>1. writer[h].at = "wait" /\ Whole(writer[h]) /\ UNCHANGED <<handlers, received>>
      BY <2>11, <2>a DEF WriteData
    <3>2. \/ writer' = [writer EXCEPT ![h] = [writer[h] EXCEPT !.at = "ended"]]
          \/ writer' = [writer EXCEPT ![h] = [writer[h] EXCEPT !.file = writer[h].file \o writer[h].data,
                                                               !.data = <<>>]]
      BY <2>11 DEF WriteData, Rest
    <3>3. Whole([writer[h] EXCEPT !.at = "ended"])
      BY <3>1, SwitchedIsWhole
    <3>4. Whole([writer[h] EXCEPT !.file = writer[h].file \o writer[h].data, !.data = <<>>])
      <4>1. /\ writer[h] \in Handler
            /\ writer[h].stored \in Seq(Nat)
            /\ writer[h].stored = writer[h].file \o writer[h].data
        BY <3>1 DEF Whole, Handler
      <4>2. <<>> \in Seq(Nat) /\ writer[h].stored \o <<>> = writer[h].stored
        BY <4>1, ConcatEmptySeq
      <4>3. ASSUME NEW f \in Seq(Nat), NEW q \in Seq(Nat), writer[h].stored = f \o q
            PROVE  Whole([writer[h] EXCEPT !.file = f, !.data = q])
        BY <4>1, <4>3 DEF Whole, Handler
      <4> QED
        BY <4>1, <4>2, <4>3
    <3>5. \E w : Whole(w) /\ writer' = [writer EXCEPT ![h] = w]
      BY <3>2, <3>3, <3>4
    <3> QED
      BY <3>1, <3>5, WriterStep
  <2> QED
    BY <2>2, <2>3, <2>4, <2>5, <2>6, <2>7, <2>8, <2>9, <2>10, <2>11
    DEF Next, DataStep, UserStep
<1> QED
  BY <1>1, <1>2, ThreadsCorrect, PTL DEF Spec

\* Debug files hold the datagrams in order and without gaps, for any number of lidars.
THEOREM FileIsPrefixCorrect == Spec => []FileIsPrefix
<1>1. WriterInv => FileIsPrefix
  BY WholeIsPrefix DEF WriterInv, FileIsPrefix
<1> QED
  BY <1>1, WriterInvCorrect, PTL

(***************************************************************************)
(* What ends the process. As long as no datagram of an unknown lidar, no   *)
(* second use of the switch and no switch during a datagram came, the      *)
(* handlers are those that the first switch-on let be made, and are        *)
(* removed by the first switch-off when no datagram is on its way to them. *)
(***************************************************************************)
NoCause == past \cap {"unknown", "again", "crossed"} = {}

\* Nothing has been made before the switch is on, and nothing is recorded once it is off.
Recording ==
  /\ enable => "enabled" \in past
  /\ "enabled" \notin past => ~Storing /\ \A h \in Lidars : handlers[h] = "absent"
  /\ Storing => enable /\ ~Switching /\ io.lidar \in Known
  /\ io.at = "start" => handlers[io.lidar] = "there" /\ writer[io.lidar].at = "idle"
  /\ io.at = "store" => handlers[io.lidar] = "there"

\* A switch finds what its loop needs.
Ending ==
  /\ user.at = "switch" /\ user.on => user.todo = {}
  /\ (user.at = "switch" /\ ~user.on) \/ user.at = "join" =>
       /\ "disabled" \in past /\ ~enable
       /\ \A h \in user.todo : handlers[h] = "there"
  /\ \A h \in Lidars : handlers[h] = "null" => {"enabled", "disabled"} \subseteq past /\ ~enable

FaultInv ==
  /\ alive \in BOOLEAN /\ enable \in BOOLEAN
  /\ NoCause => alive /\ Recording /\ Ending

\* A step that leaves the handlers and the switch alone.
LEMMA FaultStays ==
  ASSUME FaultInv, ThreadsOK, past' = past, UNCHANGED <<enable, handlers, alive>>,
         user' = user \/ user'.at \notin {"switch", "join"},
         \/ io' = io /\ \A h \in Lidars : writer[h].at = "idle" => writer'[h].at = "idle"
         \/ io'.at \notin {"debug", "start", "store"}
  PROVE  FaultInv'
<1>1. NoCause' = NoCause
  BY DEF NoCause
<1>2. alive' \in BOOLEAN /\ enable' \in BOOLEAN
  BY DEF FaultInv
<1>3. ASSUME NoCause
      PROVE  alive' /\ Recording' /\ Ending'
  <2>1. alive /\ Recording /\ Ending
    BY <1>3 DEF FaultInv
  <2>2. io.at \in {"start", "store", "debug"} => io.lidar \in Lidars
    BY DEF ThreadsOK, IoState
  <2>3. Storing' => Storing /\ io' = io
    BY DEF Storing
  <2>4. Switching' => Switching
    BY DEF Switching
  <2>5. Recording'
    BY <2>1, <2>2, <2>3, <2>4 DEF Recording, Storing
  <2>6. Ending'
    BY <2>1 DEF Ending
  <2> QED
    BY <2>1, <2>5, <2>6
<1> QED
  BY <1>1, <1>2, <1>3 DEF FaultInv

\* Without a cause the process goes on, and the loops of Enable find the handlers they need.
THEOREM FaultInvCorrect == Spec => []FaultInv
<1> USE DataPathAssumption
<1>1. ASSUME Init
      PROVE  FaultInv
  <2>1. /\ user.at = "idle" /\ io.at = "idle" /\ enable = FALSE /\ alive = TRUE
        /\ \A h \in Lidars : handlers[h] = "absent"
    BY <1>1 DEF Init, Idle, At
  <2>2. Recording
    BY <2>1 DEF Recording, Storing
  <2>3. Ending
    BY <2>1 DEF Ending
  <2> QED
    BY <2>1, <2>2, <2>3 DEF FaultInv
<1>2. ThreadsOK /\ WriterInv /\ FaultInv /\ [Next]_vars => FaultInv'
  <2> SUFFICES ASSUME ThreadsOK, WriterInv, FaultInv, [Next]_vars
               PROVE  FaultInv'
    OBVIOUS
  <2>a. ASSUME NoCause
        PROVE  alive /\ Recording /\ Ending
    BY <2>a DEF FaultInv
  <2>b. /\ alive \in BOOLEAN /\ enable \in BOOLEAN
        /\ handlers \in [Lidars -> {"absent", "there", "null"}]
        /\ io.at \in {"debug", "start", "store"} => io.lidar \in Lidars
    BY DEF FaultInv, WriterInv, ThreadsOK, IoState
  <2>1. CASE AddObserver \/ Insert \/ Erase \/ UNCHANGED vars \/ \E i \in Ids : RemoveObserver(i)
    <3>1. /\ UNCHANGED <<past, enable, handlers, alive, writer, io>>
          /\ user' = user \/ user'.at \notin {"switch", "join"}
      BY <2>1 DEF AddObserver, Insert, Erase, RemoveObserver, debugging, vars, Idle, At
    <3> QED
      BY <3>1, FaultStays
  <2>2. CASE Points \/ HandleEnds \/ Reenter \/ \E i \in Ids : CallObserver(i)
    <3>1. UNCHANGED <<past, enable, handlers, alive, user>>
      BY <2>2 DEF Points, HandleEnds, Reenter, CallObserver, debugging
    <3>2. io'.at \notin {"debug", "start", "store"}
      <4>1. CASE Points \/ HandleEnds \/ Reenter
        BY <4>1 DEF Points, HandleEnds, Reenter, Idle, At
      <4>2. ASSUME NEW i \in Ids, CallObserver(i)
            PROVE  io'.at \notin {"debug", "start", "store"}
        BY <4>2 DEF CallObserver, ThreadsOK, IoState
      <4> QED
        BY <2>2, <4>1, <4>2
    <3> QED
      BY <3>1, <3>2, FaultStays
  <2>3. ASSUME NEW h \in Lidars, WriteData(h)
        PROVE  FaultInv'
    <3>1. UNCHANGED <<past, enable, handlers, alive, user, io>> /\ writer[h].at = "wait"
      BY <2>3 DEF WriteData
    <3>2. \A g \in Lidars \ {h} : writer'[g] = writer[g]
      BY <2>3 DEF WriteData, WriterInv
    <3> QED
      BY <3>1, <3>2, FaultStays
  <2>4. ASSUME NEW h \in Lidars, DebugPoints(h)
        PROVE  FaultInv'
    <3>1. CASE ~enable
      BY <2>4, <3>1, FaultStays DEF DebugPoints, debugging
    <3>2. CASE enable
      <4>1. /\ io' = [at |-> "debug", lidar |-> h]
            /\ past' = past \cup (IF h \in Known THEN {} ELSE {"unknown"})
                            \cup (IF Switching THEN {"crossed"} ELSE {})
            /\ UNCHANGED <<user, enable, handlers, writer, alive>>
        BY <2>4, <3>2 DEF DebugPoints, debugging
      <4>2. NoCause' => NoCause /\ h \in Known /\ ~Switching
        BY <4>1 DEF NoCause
      <4>3. Storing' /\ io'.lidar = h /\ io'.at = "debug" /\ Switching' = Switching
        BY <4>1 DEF Storing, Switching
      <4>4. NoCause' => Recording'
        BY <2>a, <3>2, <4>1, <4>2, <4>3 DEF Recording
      <4>5. NoCause' => Ending'
        BY <2>a, <4>1, <4>2 DEF Ending
      <4> QED
        BY <2>a, <2>b, <4>1, <4>2, <4>4, <4>5 DEF FaultInv
    <3> QED
      BY <2>b, <3>1, <3>2
  <2>5. CASE FindHandler
    <3>1. /\ io.at = "debug" /\ io' = [io EXCEPT !.at = "store"]
          /\ handlers[io.lidar] # "absent" \/ io.lidar \notin Known
          /\ UNCHANGED <<user, past, enable, handlers, writer, alive>>
      BY <2>5 DEF FindHandler, DeviceInfo, debugging
    <3>2. io'.at = "store" /\ io'.lidar = io.lidar
      BY <3>1 DEF ThreadsOK, IoState
    <3>3. Storing /\ Storing' /\ Switching' = Switching /\ NoCause' = NoCause
      BY <3>1, <3>2 DEF Storing, Switching, NoCause
    <3>4. ASSUME NoCause
          PROVE  Recording' /\ Ending'
      <4>1. enable /\ io.lidar \in Known /\ ~Switching
        BY <2>a, <3>3, <3>4 DEF Recording
      <4>2. handlers[io.lidar] = "there"
        BY <2>a, <2>b, <3>1, <3>4, <4>1 DEF Ending
      <4>3. Recording'
        BY <2>a, <3>1, <3>2, <3>3, <3>4, <4>1, <4>2 DEF Recording
      <4> QED
        BY <2>a, <3>1, <3>4, <4>3 DEF Ending
    <3> QED
      BY <2>a, <2>b, <3>1, <3>3, <3>4 DEF FaultInv
  <2>6. CASE MakeHandler
    <3> DEFINE h == io.lidar
    <3>1. /\ h \in Lidars /\ io.at = "debug" /\ io' = [io EXCEPT !.at = "start"]
          /\ handlers' = [handlers EXCEPT ![h] = "there"]
          /\ writer' = [writer EXCEPT ![h] = NewWriter]
          /\ UNCHANGED <<past, enable>> /\ alive' \in BOOLEAN
          /\ ~Switching => user' = user /\ alive' = alive
      BY <2>6, <2>b DEF MakeHandler
    <3>2. io'.at = "start" /\ io'.lidar = h /\ Storing /\ Storing' /\ NoCause' = NoCause
      BY <3>1 DEF ThreadsOK, IoState, Storing, NoCause
    <3>3. /\ handlers'[h] = "there" /\ writer'[h].at = "idle"
          /\ \A g \in Lidars \ {h} : handlers'[g] = handlers[g]
      BY <2>b, <3>1 DEF WriterInv, NewWriter
    <3> HIDE DEF h
    <3>4. ASSUME NoCause
          PROVE  alive' /\ Recording' /\ Ending'
      <4>1. enable /\ h \in Known /\ ~Switching /\ "enabled" \in past
        BY <2>a, <3>2, <3>4 DEF Recording, h
      <4>2. user' = user /\ alive' /\ ~Switching'
        <5>1. user' = user /\ alive' = alive
          BY <3>1, <4>1
        <5>2. alive
          BY <2>a, <3>4
        <5> QED
          BY <4>1, <5>1, <5>2 DEF Switching
      <4>3. Recording'
        BY <3>1, <3>2, <3>3, <4>1, <4>2 DEF Recording
      <4>4. \A g \in Lidars : handlers'[g] # "null"
        BY <2>a, <3>3, <3>4, <4>1 DEF Ending
      <4> QED
        BY <4>2, <4>3, <4>4 DEF Ending, Switching
    <3> QED
      BY <2>b, <3>1, <3>2, <3>4 DEF FaultInv
  <2>7. CASE StartHandler
    <3> DEFINE h == io.lidar
    <3>1. /\ h \in Lidars /\ io.at = "start" /\ io' = [io EXCEPT !.at = "store"]
          /\ UNCHANGED <<past, enable, handlers, user>>
          /\ alive' = (handlers[h] = "there" /\ (enable => writer[h].at = "idle"))
      BY <2>7, <2>b DEF StartHandler, CanEnable
    <3>2. io'.at = "store" /\ io'.lidar = h /\ Storing /\ Storing' /\ NoCause' = NoCause
      BY <3>1 DEF ThreadsOK, IoState, Storing, NoCause
    <3> HIDE DEF h
    <3>3. ASSUME NoCause
          PROVE  alive' /\ Recording' /\ Ending'
      <4>1. /\ enable /\ h \in Known /\ ~Switching /\ "enabled" \in past
            /\ handlers[h] = "there" /\ writer[h].at = "idle"
        BY <2>a, <3>1, <3>2, <3>3 DEF Recording, h
      <4>2. alive' /\ ~Switching'
        BY <3>1, <4>1 DEF Switching
      <4>3. Recording'
        BY <3>1, <3>2, <4>1, <4>2 DEF Recording
      <4> QED
        BY <2>a, <3>1, <3>3, <4>2, <4>3 DEF Ending
    <3> QED
      BY <2>b, <3>1, <3>2, <3>3 DEF FaultInv
  <2>8. CASE StoreData
    <3>1. /\ io.at = "store" /\ io' = Idle
          /\ UNCHANGED <<past, enable, handlers, user>>
          /\ alive' = alive \/ alive' = FALSE
          /\ handlers[io.lidar] = "there" => alive' = alive
      BY <2>8 DEF StoreData
    <3>2. ASSUME NoCause
          PROVE  alive' = alive
      BY <2>a, <3>1, <3>2 DEF Recording
    <3>3. CASE alive' = alive
      BY <3>1, <3>3, FaultStays DEF Idle, At
    <3>4. CASE ~NoCause
      <4>1. NoCause' = NoCause
        BY <3>1 DEF NoCause
      <4> QED
        BY <2>b, <3>1, <3>4, <4>1 DEF FaultInv
    <3> QED
      BY <3>2, <3>3, <3>4
  <2>9. ASSUME NEW on \in BOOLEAN, SwitchDebug(on)
        PROVE  FaultInv'
    <3>1. /\ enable' = on /\ UNCHANGED <<io, handlers, writer, alive>>
          /\ past' = past \cup {IF (IF on THEN "enabled" ELSE "disabled") \in past THEN "again"
                                ELSE IF on THEN "enabled" ELSE "disabled"}
                          \cup (IF Storing THEN {"crossed"} ELSE {})
          /\ user' = [at |-> "switch", on |-> on,
                      todo |-> {h \in Lidars : handlers[h] # "absent"}]
      BY <2>9 DEF SwitchDebug
    <3>2. NoCause' => NoCause /\ ~Storing /\ (IF on THEN "enabled" ELSE "disabled") \notin past
      BY <3>1 DEF NoCause
    <3>3. Storing' = Storing
      BY <3>1 DEF Storing
    <3>4. user'.at = "switch" /\ user'.on = on /\ user'.todo = {h \in Lidars : handlers[h] # "absent"}
      BY <3>1
    <3>5. ASSUME NoCause', on
          PROVE  Recording' /\ Ending'
      <4>1. /\ enable' = TRUE /\ "enabled" \in past' /\ ~Storing'
            /\ \A h \in Lidars : handlers'[h] = "absent"
        BY <2>a, <3>1, <3>2, <3>3, <3>5 DEF Recording
      <4>2. io'.at \notin {"start", "store"}
        BY <4>1 DEF Storing
      <4>3. user'.todo = {} /\ user'.on
        BY <3>1, <3>4, <3>5, <4>1
      <4>4. Recording'
        BY <4>1, <4>2 DEF Recording
      <4>5. Ending'
        BY <3>4, <4>1, <4>3 DEF Ending
      <4> QED
        BY <4>4, <4>5
    <3>6. ASSUME NoCause', ~on
          PROVE  Recording' /\ Ending'
      <4>1. /\ enable' = FALSE /\ "disabled" \in past' /\ past \subseteq past' /\ ~Storing'
            /\ "enabled" \in past' => "enabled" \in past
        BY <3>1, <3>2, <3>3, <3>6
      <4>2. io'.at \notin {"start", "store"}
        BY <4>1 DEF Storing
      <4>3. \A h \in Lidars : handlers'[h] # "null"
        BY <2>a, <3>1, <3>2, <3>6 DEF Ending
      <4>4. \A h \in user'.todo : handlers'[h] = "there"
        BY <2>b, <3>1, <3>4, <4>3
      <4>5. Recording'
        BY <2>a, <3>1, <3>2, <3>6, <4>1, <4>2 DEF Recording
      <4>6. Ending'
        BY <3>4, <3>6, <4>1, <4>3, <4>4 DEF Ending
      <4> QED
        BY <4>5, <4>6
    <3> QED
      BY <2>a, <2>b, <3>1, <3>2, <3>5, <3>6 DEF FaultInv
  <2>10. ASSUME NEW h \in Lidars, EnableHandler(h)
         PROVE  FaultInv'
    <3>1. /\ user.at = "switch" /\ user.on /\ h \in user.todo
          /\ UNCHANGED <<past, enable>> /\ alive' \in BOOLEAN
      BY <2>10 DEF EnableHandler
    <3>2. ~NoCause
      BY <2>a, <3>1 DEF Ending
    <3> QED
      BY <2>b, <3>1, <3>2 DEF FaultInv, NoCause
  <2>11. ASSUME NEW h \in Lidars, DisableHandler(h)
         PROVE  FaultInv'
    <3>1. /\ user.at = "switch" /\ ~user.on /\ h \in user.todo
          /\ UNCHANGED <<past, enable, io>>
          /\ \/ /\ handlers[h] = "there"
                /\ handlers' = [handlers EXCEPT ![h] = "null"] /\ alive' = alive
                /\ user' = [at |-> "join", lidar |-> h, todo |-> user.todo \ {h}]
             \/ handlers[h] # "there" /\ alive' = FALSE
      BY <2>11 DEF DisableHandler
    <3>2. NoCause' = NoCause
      BY <3>1 DEF NoCause
    <3>3. ASSUME NoCause
          PROVE  alive' /\ Recording' /\ Ending'
      <4>1. /\ handlers[h] = "there" /\ "disabled" \in past /\ ~enable
            /\ \A g \in user.todo : handlers[g] = "there"
        BY <2>a, <3>1, <3>3 DEF Ending
      <4>2. "enabled" \in past
        BY <2>a, <3>3, <4>1 DEF Recording
      <4>3. ~Storing /\ ~Storing'
        BY <2>a, <3>1, <3>3, <4>1 DEF Recording, Storing
      <4>4. /\ handlers' = [handlers EXCEPT ![h] = "null"] /\ alive'
            /\ user'.at = "join" /\ user'.todo = user.todo \ {h}
        BY <2>a, <3>1, <3>3, <4>1
      <4>5. io'.at \notin {"start", "store"}
        BY <4>3 DEF Storing
      <4>6. Recording'
        BY <3>1, <4>1, <4>2, <4>3, <4>5 DEF Recording
      <4>7. user.todo \subseteq Lidars
        BY <3>1 DEF ThreadsOK, UserState
      <4>8. \A g \in user'.todo : handlers'[g] = "there"
        BY <2>b, <4>1, <4>4, <4>7
      <4>9. Ending'
        BY <3>1, <4>1, <4>2, <4>4, <4>8 DEF Ending
      <4> QED
        BY <4>4, <4>6, <4>9
    <3> QED
      BY <2>b, <3>1, <3>2, <3>3 DEF FaultInv
  <2>12. CASE JoinWriter
    <3>1. /\ user.at = "join" /\ writer' = [writer EXCEPT ![user.lidar].at = "gone"]
          /\ user' = [at |-> "switch", on |-> FALSE, todo |-> user.todo]
          /\ UNCHANGED <<past, enable, io, handlers, alive>>
      BY <2>12 DEF JoinWriter
    <3>2. NoCause' = NoCause /\ Storing' = Storing /\ Switching /\ Switching'
      BY <3>1 DEF NoCause, Storing, Switching
    <3>3. ASSUME NoCause
          PROVE  Recording' /\ Ending'
      <4>1. ~Storing
        BY <2>a, <3>2, <3>3 DEF Recording
      <4>2. io'.at \notin {"start", "store"}
        BY <3>1, <4>1 DEF Storing
      <4>3. Recording'
        BY <2>a, <3>1, <3>2, <3>3, <4>1, <4>2 DEF Recording
      <4> QED
        BY <2>a, <3>1, <3>3, <4>3 DEF Ending
    <3> QED
      BY <2>a, <2>b, <3>1, <3>2, <3>3 DEF FaultInv
  <2>13. CASE SwitchEnds
    <3>1. UNCHANGED <<past, enable, handlers, alive, writer, io>> /\ user'.at = "idle"
      BY <2>13 DEF SwitchEnds, debugging, Idle, At
    <3> QED
      BY <3>1, FaultStays
  <2> QED
    BY <2>1, <2>2, <2>3, <2>4, <2>5, <2>6, <2>7, <2>8, <2>9, <2>10, <2>11, <2>12, <2>13
    DEF Next, DataStep, UserStep
<1> QED
  BY <1>1, <1>2, ThreadsCorrect, WriterInvCorrect, PTL DEF Spec

\* The debug point clouds end the process only in the ways FaultIsKnown names: one switch-on
\* and one switch-off are safe, for any number of announced lidars, when no datagram is between
\* the look at enable_ and its handler meanwhile.
THEOREM FaultIsKnownCorrect == Spec => []FaultIsKnown
<1>1. FaultInv => FaultIsKnown
  BY DEF FaultInv, NoCause, FaultIsKnown
<1> QED
  BY <1>1, FaultInvCorrect, PTL

=============================================================================
