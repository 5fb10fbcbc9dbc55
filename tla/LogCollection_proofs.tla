------------------------ MODULE LogCollection_proofs ------------------------
(***************************************************************************)
(* What Destory and the rotation keep, for any number of lidars, files and *)
(* sessions, and with the process dying at any moment: the order in which  *)
(* Destory stops the rotation and wakes it, the names of the log files,    *)
(* and which file the rotation deletes.                                    *)
(***************************************************************************)
EXTENDS LogCollection, WellFoundedInduction, TLAPS

(***************************************************************************)
(* The inductive invariant.                                                *)
(***************************************************************************)
Stopping == {"signal", "join", "handlers", "rename", "disable"}

\* A rotation that was told to stop is not started again before Destory has ended.
StoppedFirst ==
  /\ app \in Stopping => ~cycle
  /\ ~up => ~cycle
  /\ bag.at = "create" => created < MaxFiles

Inv == TypeOK /\ NoOrphan /\ NoLostWakeup /\ StoppedFirst

-----------------------------------------------------------------------------
(***************************************************************************)
(* Helpers.                                                                *)
(***************************************************************************)

\* A set of natural numbers has a least element.
LEMMA LeastNat ==
  ASSUME NEW T, T \subseteq Nat, T # {}
  PROVE  \E x \in T : \A y \in T : x <= y
<1>1. \A x, y \in Nat : y < x => <<y, x>> \in OpToRel(<, Nat)
  BY DEF OpToRel
<1>2. \E R : IsWellFoundedOn(R, Nat) /\ \A x, y \in Nat : y < x => <<y, x>> \in R
  BY <1>1, NatLessThanWellFounded, Zenon
<1>3. PICK R : IsWellFoundedOn(R, Nat) /\ \A x, y \in Nat : y < x => <<y, x>> \in R
  BY <1>2
<1>4. PICK x \in T : \A y \in T : ~(<<y, x>> \in R)
  BY <1>3, WFMin
<1>5. \A y \in T : ~(y < x)
  BY <1>3, <1>4, Zenon
<1> QED
  BY <1>5

\* The file that the rotation deletes is one of those it listed, and none is older.
LEMMA OldestIsOldest ==
  ASSUME NEW S, \A f \in S : f.time \in Nat, S # {}
  PROVE  Oldest(S) \in S /\ \A g \in S : Oldest(S).time <= g.time
<1> DEFINE T == {f.time : f \in S}
<1>1. T \subseteq Nat /\ T # {}
  OBVIOUS
<1>2. PICK x \in T : \A y \in T : x <= y
  BY <1>1, LeastNat
<1>3. \E f \in S : \A g \in S : f.time <= g.time
  BY <1>2
<1> QED
  BY <1>3, Zenon DEF Oldest

\* The steps of Destory follow each other.
LEMMA DestorySteps ==
  /\ DestoryOrder[1] = "stop"
  /\ After("stop") = "signal" /\ After("signal") = "join" /\ After("join") = "handlers"
  /\ After("handlers") = "rename" /\ After("rename") = "disable" /\ After("disable") = "idle"
<1>1. DOMAIN DestoryOrder = 1 .. 6
  BY DEF DestoryOrder
<1>2. /\ DestoryOrder[1] = "stop" /\ DestoryOrder[2] = "signal" /\ DestoryOrder[3] = "join"
      /\ DestoryOrder[4] = "handlers" /\ DestoryOrder[5] = "rename"
      /\ DestoryOrder[6] = "disable"
  BY DEF DestoryOrder
<1>3. ASSUME NEW i \in 1 .. 6, NEW j \in 1 .. 6, DestoryOrder[i] = DestoryOrder[j]
      PROVE  i = j
  <2>1. i \in {1, 2, 3, 4, 5, 6} /\ j \in {1, 2, 3, 4, 5, 6}
    OBVIOUS
  <2> QED
    BY <1>2, <1>3, <2>1
<1>4. ASSUME NEW i \in 1 .. 5
      PROVE  After(DestoryOrder[i]) = DestoryOrder[1 + i]
  <2> DEFINE j == CHOOSE k \in DOMAIN DestoryOrder : DestoryOrder[k] = DestoryOrder[i]
  <2>1. j \in 1 .. 6 /\ DestoryOrder[j] = DestoryOrder[i]
    <3>1. \E k \in DOMAIN DestoryOrder : DestoryOrder[k] = DestoryOrder[i]
      BY <1>1
    <3> QED
      BY <1>1, <3>1
  <2>2. j = i
    <3> HIDE DEF j
    <3> QED
      BY <1>3, <2>1
  <2>3. DestoryOrder[i] # "disable"
    <3>1. i \in {1, 2, 3, 4, 5}
      OBVIOUS
    <3> QED
      BY <1>2, <3>1
  <2>4. After(DestoryOrder[i]) = DestoryOrder[1 + j]
    BY <2>3 DEF After
  <2> HIDE DEF j
  <2> QED
    BY <2>2, <2>4
<1>5. /\ After(DestoryOrder[1]) = DestoryOrder[2] /\ After(DestoryOrder[2]) = DestoryOrder[3]
      /\ After(DestoryOrder[3]) = DestoryOrder[4] /\ After(DestoryOrder[4]) = DestoryOrder[5]
      /\ After(DestoryOrder[5]) = DestoryOrder[6]
  BY <1>4
<1>6. After("disable") = "idle"
  BY DEF After
<1> HIDE DEF DestoryOrder
<1>7. After("stop") = "signal" /\ After("signal") = "join"
  BY <1>2, <1>5
<1>8. After("join") = "handlers" /\ After("handlers") = "rename" /\ After("rename") = "disable"
  BY <1>2, <1>5
<1> QED
  BY <1>2, <1>6, <1>7, <1>8

\* A file that is renamed, and one that is written to.
Named(f) == [f EXCEPT !.hidden = FALSE]
Longer(f) == [f EXCEPT !.size = IF @ < MaxSize THEN @ + 1 ELSE @]

LEMMA FileFacts ==
  ASSUME NEW f \in File
  PROVE  /\ f.time \in Nat /\ f.lidar \in Lidars /\ f.hidden \in BOOLEAN
         /\ Named(f) \in File /\ Named(f).time = f.time /\ ~Named(f).hidden
         /\ Longer(f) \in File /\ Longer(f).time = f.time /\ Longer(f).lidar = f.lidar
<1>1. f.time \in Nat /\ f.lidar \in Lidars /\ f.hidden \in BOOLEAN /\ f.size \in Nat
  BY DEF File
<1>2. Named(f) \in File /\ Named(f).time = f.time /\ ~Named(f).hidden
  BY DEF File, Named
<1>3. ASSUME NEW n \in Nat
      PROVE  LET w == [f EXCEPT !.size = n]
             IN  w \in File /\ w.time = f.time /\ w.lidar = f.lidar
  BY DEF File
<1>4. Longer(f) \in File /\ Longer(f).time = f.time /\ Longer(f).lidar = f.lidar
  <2>1. (IF f.size < MaxSize THEN f.size + 1 ELSE f.size) \in Nat
    BY <1>1, LogCollectionAssumption
  <2> QED
    BY <1>3, <2>1 DEF Longer
<1> QED
  BY <1>1, <1>2, <1>4


-----------------------------------------------------------------------------
(***************************************************************************)
(* Steps that several actions have in common.                              *)
(***************************************************************************)

\* The values of the variables that every step has to keep in their sets.
FlagsOK == {up, enable, cycle, cond, destroyed} \subseteq BOOLEAN
MapsOK == devices \subseteq Lidars /\ handlers \subseteq Lidars
AppOK == app \in {"idle", "stop", "signal", "join", "handlers", "rename", "disable"}
BagOK == bag \in Bags \cup {NoBag, At("signal")}
RotatorOK ==
  \/ rotator \in {NoThread, At("check"), At("wait"), At("done")}
  \/ /\ rotator.at = "round" /\ rotator.type \in Types
     /\ \A f \in rotator.listed : f \in File /\ ~f.hidden
DiskTyped == \A f \in disk : f \in File
CountsOK == created \in 0 .. MaxFiles /\ sessions \in 0 .. MaxSessions

LEMMA TypeParts ==
  TypeOK <=> FlagsOK /\ MapsOK /\ AppOK /\ BagOK /\ RotatorOK /\ DiskTyped /\ CountsOK
BY DEF TypeOK, FlagsOK, MapsOK, AppOK, BagOK, RotatorOK, DiskTyped, CountsOK

\* Nothing of the process is left when it dies.
LEMMA DiesKeeps ==
  ASSUME Dies, DiskTyped', CountsOK'
  PROVE  Inv'
<1>1. FlagsOK' /\ MapsOK' /\ AppOK'
  BY DEF Dies, FlagsOK, MapsOK, AppOK
<1>2. BagOK' /\ RotatorOK'
  BY DEF Dies, BagOK, RotatorOK
<1>3. TypeOK'
  BY <1>1, <1>2
  DEF TypeOK, FlagsOK, MapsOK, AppOK, BagOK, RotatorOK, DiskTyped, CountsOK
<1>4. NoOrphan' /\ NoLostWakeup' /\ StoppedFirst'
  BY DEF Dies, NoOrphan, NoLostWakeup, StoppedFirst, NoBag, Stopping
<1> QED
  BY <1>3, <1>4 DEF Inv

\* The files get their names (ChangeHiddenFiles).
LEMMA RenamedFiles ==
  ASSUME DiskTyped
  PROVE  /\ \A f \in ChangeHiddenFiles : f \in File /\ ~f.hidden
         /\ \A f \in disk : \E g \in ChangeHiddenFiles : g.time = f.time
<1>1. ChangeHiddenFiles = {Named(f) : f \in disk}
  BY DEF ChangeHiddenFiles, Named
<1> QED
  BY <1>1, FileFacts DEF DiskTyped

\* What a handler does to the directory: the files of the other lidars and their hidden
\* files stay, and none is lost.
LEMMA StoredFiles ==
  ASSUME DiskTyped, CountsOK, NEW h \in Lidars, NEW type \in Types,
         created < MaxFiles \/ ~CreateFile(h, type),
         CreateFile(h, type) \/ WriteFile(h, type) \/ StopFile(h, type)
  PROVE  /\ DiskTyped' /\ created' \in 0 .. MaxFiles
         /\ \A f \in disk' : f.hidden =>
              f.lidar = h \/ \E g \in disk : g.hidden /\ g.lidar = f.lidar
         /\ \A f \in disk : \E g \in disk' : g.time = f.time
<1> USE LogCollectionAssumption
<1>1. \A f \in Open(h, type) : f \in disk /\ f \in File /\ f.lidar = h
  BY DEF Open, InDir, DiskTyped
<1>s. Shown(Open(h, type)) = {Named(f) : f \in Open(h, type)}
  BY DEF Shown, Named
<1>2. \A f \in Shown(Open(h, type)) : f \in File /\ ~f.hidden
  BY <1>1, <1>s, FileFacts
<1>3. \A f \in Open(h, type) : \E g \in Shown(Open(h, type)) : g.time = f.time
  BY <1>1, <1>s, FileFacts
<1>4. CASE CreateFile(h, type)
  <2> DEFINE new == [time |-> created, lidar |-> h, type |-> type, size |-> 1, hidden |-> TRUE]
  <2>1. new \in File /\ new.lidar = h
    BY DEF File, CountsOK, Types
  <2>2. disk' = (disk \ Open(h, type)) \cup Shown(Open(h, type)) \cup {new}
    BY <1>4 DEF CreateFile
  <2>3. created' \in 0 .. MaxFiles
    BY <1>4 DEF CreateFile, CountsOK
  <2> HIDE DEF new
  <2> QED
    BY <1>2, <1>3, <2>1, <2>2, <2>3 DEF DiskTyped
<1>5. CASE WriteFile(h, type)
  <2> DEFINE wrote == {Longer(f) : f \in Open(h, type)}
  <2>1. \A f \in wrote : f \in File /\ f.lidar = h
    BY <1>1, FileFacts
  <2>2. \A f \in Open(h, type) : \E g \in wrote : g.time = f.time
    BY <1>1, FileFacts
  <2>3. disk' = (disk \ Open(h, type)) \cup wrote /\ created' = created
    BY <1>5 DEF WriteFile, Longer
  <2> HIDE DEF wrote
  <2> QED
    BY <2>1, <2>2, <2>3 DEF DiskTyped, CountsOK
<1>6. CASE StopFile(h, type)
  <2>1. disk' = (disk \ Open(h, type)) \cup Shown(Open(h, type)) /\ created' = created
    BY <1>6 DEF StopFile
  <2> QED
    BY <1>2, <1>3, <2>1 DEF DiskTyped, CountsOK
<1> QED
  BY <1>4, <1>5, <1>6

-----------------------------------------------------------------------------
(***************************************************************************)
(* The steps.                                                              *)
(***************************************************************************)
PartsOK == FlagsOK /\ MapsOK /\ AppOK /\ BagOK /\ RotatorOK /\ DiskTyped /\ CountsOK

LEMMA Step == Inv /\ [Next]_vars => Inv'
<1> SUFFICES ASSUME Inv, [Next]_vars PROVE Inv'
  OBVIOUS
<1>p. FlagsOK /\ MapsOK /\ AppOK /\ BagOK /\ RotatorOK /\ DiskTyped /\ CountsOK
  BY TypeParts DEF Inv
<1>i. NoOrphan /\ NoLostWakeup /\ StoppedFirst
  BY DEF Inv
<1>t. ASSUME PartsOK', NoOrphan', NoLostWakeup', StoppedFirst'
      PROVE  Inv'
  BY <1>t DEF Inv, PartsOK, TypeOK, FlagsOK, MapsOK, AppOK, BagOK, RotatorOK, DiskTyped,
     CountsOK
<1> USE DEF PartsOK
<1>1. CASE Crash
  BY <1>1, <1>p, DiesKeeps DEF Crash, DiskTyped, CountsOK
<1>2. CASE Restart
  <2>1. /\ UNCHANGED <<enable, cycle, cond, destroyed, devices, handlers, app, bag, rotator,
                        disk, created, sessions>>
        /\ ~up /\ up' = TRUE
    BY <1>2 DEF Restart, flags, maps
  <2>2. PartsOK'
    BY <2>1, <1>p DEF FlagsOK, MapsOK, AppOK, BagOK, RotatorOK, DiskTyped, CountsOK
  <2>3. NoOrphan' /\ NoLostWakeup' /\ StoppedFirst'
    BY <2>1, <1>i DEF NoOrphan, NoLostWakeup, StoppedFirst
  <2> QED
    BY <2>2, <2>3, <1>t
<1>3. CASE InitDisabled \/ InitFails
  <2>1. /\ UNCHANGED <<up, cycle, cond, destroyed, devices, handlers, app, bag, rotator,
                        disk, created>>
        /\ enable' \in BOOLEAN /\ sessions < MaxSessions /\ sessions' = sessions + 1
    BY <1>3 DEF InitDisabled, InitFails, Begin, maps
  <2>2. PartsOK'
    BY <2>1, <1>p, LogCollectionAssumption
    DEF FlagsOK, MapsOK, AppOK, BagOK, RotatorOK, DiskTyped, CountsOK
  <2>3. NoOrphan' /\ NoLostWakeup' /\ StoppedFirst'
    BY <2>1, <1>i DEF NoOrphan, NoLostWakeup, StoppedFirst
  <2> QED
    BY <2>2, <2>3, <1>t
<1>4. CASE InitEnabled
  <2>1. /\ up /\ app = "idle" /\ disk' = ChangeHiddenFiles
        /\ sessions < MaxSessions /\ sessions' = sessions + 1 /\ created' = created
    BY <1>4 DEF InitEnabled, Begin
  <2>2. DiskTyped' /\ CountsOK' /\ \A f \in disk' : ~f.hidden
    BY <2>1, <1>p, RenamedFiles, LogCollectionAssumption DEF DiskTyped, CountsOK
  <2>3. CASE rotator # NoThread
    BY <1>4, <2>2, <2>3, DiesKeeps DEF InitEnabled
  <2>4. CASE rotator = NoThread
    <3>1. /\ UNCHANGED <<up, cond, destroyed, devices, handlers, app, bag>>
          /\ enable' = TRUE /\ cycle' = TRUE /\ rotator' = At("check")
      BY <1>4, <2>4 DEF InitEnabled, maps
    <3>2. PartsOK'
      BY <3>1, <2>2, <1>p DEF FlagsOK, MapsOK, AppOK, BagOK, RotatorOK
    <3>3. NoOrphan' /\ NoLostWakeup' /\ StoppedFirst'
      BY <3>1, <2>1, <2>2, <1>i DEF NoOrphan, NoLostWakeup, StoppedFirst, At, Stopping
    <3> QED
      BY <3>2, <3>3, <1>t
  <2> QED
    BY <2>3, <2>4
<1>5. ASSUME NEW h \in Lidars, AddDevice(h) PROVE Inv'
  <2>1. /\ UNCHANGED <<up, enable, cycle, cond, destroyed, handlers, app, bag, rotator, disk,
                        created, sessions>>
        /\ devices' = devices \cup {h}
    BY <1>5 DEF AddDevice, flags
  <2>2. PartsOK'
    BY <2>1, <1>p DEF FlagsOK, MapsOK, AppOK, BagOK, RotatorOK, DiskTyped, CountsOK
  <2>3. NoOrphan' /\ NoLostWakeup' /\ StoppedFirst'
    BY <2>1, <1>i DEF NoOrphan, NoLostWakeup, StoppedFirst
  <2> QED
    BY <2>2, <2>3, <1>t
<1>6. CASE Destory
  <2>1. CASE DestoryBegin
    <3>1. /\ UNCHANGED <<up, enable, cycle, cond, destroyed, devices, handlers, bag, rotator,
                          disk, created, sessions>>
          /\ app' = "stop"
      BY <2>1, DestorySteps DEF DestoryBegin, flags, maps
    <3>2. PartsOK'
      BY <3>1, <1>p DEF FlagsOK, MapsOK, AppOK, BagOK, RotatorOK, DiskTyped, CountsOK
    <3>3. NoOrphan' /\ NoLostWakeup' /\ StoppedFirst'
      BY <3>1, <1>i DEF NoOrphan, NoLostWakeup, StoppedFirst, Stopping
    <3> QED
      BY <3>2, <3>3, <1>t
  <2>2. CASE DestoryStop
    <3>1. /\ UNCHANGED <<up, enable, cond, destroyed, devices, handlers, bag, rotator, disk,
                          created, sessions>>
          /\ app' = "signal" /\ cycle' = FALSE
      BY <2>2, DestorySteps DEF DestoryStop, Does, maps
    <3>2. PartsOK'
      BY <3>1, <1>p DEF FlagsOK, MapsOK, AppOK, BagOK, RotatorOK, DiskTyped, CountsOK
    <3>3. NoOrphan' /\ NoLostWakeup' /\ StoppedFirst'
      BY <3>1, <1>i DEF NoOrphan, NoLostWakeup, StoppedFirst
    <3> QED
      BY <3>2, <3>3, <1>t
  <2>3. CASE DestorySignal
    <3>1. /\ UNCHANGED <<up, enable, cycle, destroyed, devices, handlers, bag, rotator, disk,
                          created, sessions>>
          /\ app = "signal" /\ app' = "join" /\ cond' = TRUE
      BY <2>3, DestorySteps DEF DestorySignal, Does, maps
    <3>2. PartsOK'
      BY <3>1, <1>p DEF FlagsOK, MapsOK, AppOK, BagOK, RotatorOK, DiskTyped, CountsOK
    <3>3. NoOrphan' /\ NoLostWakeup' /\ StoppedFirst'
      BY <3>1, <1>i DEF NoOrphan, NoLostWakeup, StoppedFirst, Stopping
    <3> QED
      BY <3>2, <3>3, <1>t
  <2>4. CASE DestoryJoin
    <3>1. /\ UNCHANGED <<up, enable, cycle, cond, destroyed, devices, handlers, bag, disk,
                          created, sessions>>
          /\ app = "join" /\ app' = "handlers" /\ rotator' = NoThread
      BY <2>4, DestorySteps DEF DestoryJoin, Does, flags, maps
    <3>2. PartsOK'
      BY <3>1, <1>p DEF FlagsOK, MapsOK, AppOK, BagOK, RotatorOK, DiskTyped, CountsOK
    <3>3. NoOrphan' /\ NoLostWakeup' /\ StoppedFirst'
      BY <3>1, <1>i DEF NoOrphan, NoLostWakeup, StoppedFirst, Stopping
    <3> QED
      BY <3>2, <3>3, <1>t
  <2>5. CASE DestoryHandlers
    <3>1. /\ UNCHANGED <<up, enable, cycle, cond, destroyed, devices, bag, rotator, disk,
                          created, sessions>>
          /\ app = "handlers" /\ app' = "rename" /\ handlers' = {}
      BY <2>5, DestorySteps DEF DestoryHandlers, Does, flags
    <3>2. PartsOK'
      BY <3>1, <1>p DEF FlagsOK, MapsOK, AppOK, BagOK, RotatorOK, DiskTyped, CountsOK
    <3>3. NoOrphan' /\ NoLostWakeup' /\ StoppedFirst'
      BY <3>1, <1>i DEF NoOrphan, NoLostWakeup, StoppedFirst, Stopping
    <3> QED
      BY <3>2, <3>3, <1>t
  <2>6. CASE DestoryRename
    <3>1. /\ UNCHANGED <<up, enable, cycle, cond, destroyed, devices, handlers, bag, rotator,
                          created, sessions>>
          /\ app = "rename" /\ app' = "disable" /\ disk' \in {ChangeHiddenFiles, disk}
      BY <2>6, DestorySteps DEF DestoryRename, Does, flags, maps
    <3>2. DiskTyped'
      BY <3>1, <1>p, RenamedFiles DEF DiskTyped
    <3>3. PartsOK'
      BY <3>1, <3>2, <1>p DEF FlagsOK, MapsOK, AppOK, BagOK, RotatorOK, CountsOK
    <3>4. NoOrphan' /\ NoLostWakeup' /\ StoppedFirst'
      BY <3>1, <1>i DEF NoOrphan, NoLostWakeup, StoppedFirst, Stopping
    <3> QED
      BY <3>3, <3>4, <1>t
  <2>7. CASE DestoryDisable
    <3>1. /\ UNCHANGED <<up, cycle, cond, devices, handlers, bag, rotator, disk, created,
                          sessions>>
          /\ app = "disable" /\ app' = "idle" /\ enable' = FALSE /\ destroyed' = TRUE
      BY <2>7, DestorySteps DEF DestoryDisable, Does, maps
    <3>2. PartsOK'
      BY <3>1, <1>p DEF FlagsOK, MapsOK, AppOK, BagOK, RotatorOK, DiskTyped, CountsOK
    <3>3. NoOrphan' /\ NoLostWakeup' /\ StoppedFirst'
      BY <3>1, <1>i DEF NoOrphan, NoLostWakeup, StoppedFirst, Stopping
    <3> QED
      BY <3>2, <3>3, <1>t
  <2> QED
    BY <1>6, <2>1, <2>2, <2>3, <2>4, <2>5, <2>6, <2>7 DEF Destory
<1>7. ASSUME NEW b \in Bags, Push(b) PROVE Inv'
  <2>1. CASE Dies
    BY <1>7, <2>1, <1>p, DiesKeeps DEF Push, DiskTyped, CountsOK
  <2>2. CASE ~Dies
    <3>1. /\ UNCHANGED <<up, enable, cycle, cond, destroyed, devices, app, rotator, disk,
                          created, sessions>>
          /\ handlers' = handlers \cup {b.lidar} /\ bag' = b
          /\ b.at = "create" => created < MaxFiles
      BY <1>7, <2>2 DEF Push, flags
    <3>2. PartsOK'
      BY <3>1, <1>p
      DEF FlagsOK, MapsOK, AppOK, BagOK, RotatorOK, DiskTyped, CountsOK, Bags
    <3>3. NoOrphan' /\ NoLostWakeup' /\ StoppedFirst'
      BY <3>1, <1>i DEF NoOrphan, NoLostWakeup, StoppedFirst
    <3> QED
      BY <3>2, <3>3, <1>t
  <2> QED
    BY <2>1, <2>2
<1>8. CASE Store
  <2>1. bag \in Bags
    BY <1>8, <1>p DEF Store, BagOK, NoBag, At
  <2>2. bag.lidar \in Lidars /\ bag.type \in Types
    BY <2>1 DEF Bags
  <2>3. CASE bag.lidar \notin handlers
    BY <1>8, <2>3, <1>p, DiesKeeps DEF Store, DiskTyped, CountsOK
  <2>4. CASE bag.lidar \in handlers
    <3>1. /\ UNCHANGED <<up, enable, cycle, cond, destroyed, devices, handlers, app, rotator,
                          sessions>>
          /\ bag' \in {At("signal"), NoBag}
          /\ \/ bag.at = "create" /\ CreateFile(bag.lidar, bag.type)
             \/ WriteFile(bag.lidar, bag.type)
             \/ StopFile(bag.lidar, bag.type)
      BY <1>8, <2>4 DEF Store, flags, maps
    <3>2. created < MaxFiles \/ ~CreateFile(bag.lidar, bag.type)
      BY <3>1, <1>p, <1>i, LogCollectionAssumption
      DEF StoppedFirst, CreateFile, WriteFile, StopFile, CountsOK
    <3>3. /\ DiskTyped' /\ created' \in 0 .. MaxFiles
          /\ \A f \in disk' : f.hidden =>
               f.lidar = bag.lidar \/ \E g \in disk : g.hidden /\ g.lidar = f.lidar
      BY <3>1, <3>2, <2>2, <1>p, StoredFiles
    <3>4. PartsOK'
      BY <3>1, <3>3, <1>p DEF FlagsOK, MapsOK, AppOK, BagOK, RotatorOK, CountsOK
    <3>5. NoOrphan'
      BY <3>1, <3>3, <2>4, <1>i DEF NoOrphan
    <3>6. NoLostWakeup' /\ StoppedFirst'
      BY <3>1, <1>i DEF NoLostWakeup, StoppedFirst, At, NoBag
    <3> QED
      BY <3>4, <3>5, <3>6, <1>t
  <2> QED
    BY <2>3, <2>4
<1>9. CASE Signal
  <2>1. /\ UNCHANGED <<up, enable, cycle, destroyed, devices, handlers, app, rotator, disk,
                        created, sessions>>
        /\ cond' = TRUE /\ bag' = NoBag
    BY <1>9 DEF Signal, maps
  <2>2. PartsOK'
    BY <2>1, <1>p DEF FlagsOK, MapsOK, AppOK, BagOK, RotatorOK, DiskTyped, CountsOK
  <2>3. NoOrphan' /\ NoLostWakeup' /\ StoppedFirst'
    BY <2>1, <1>i DEF NoOrphan, NoLostWakeup, StoppedFirst, NoBag
  <2> QED
    BY <2>2, <2>3, <1>t
<1>10. CASE CycleDelete
  <2>1. /\ UNCHANGED <<up, enable, cycle, destroyed, devices, handlers, app, bag, created,
                        sessions>>
        /\ disk' \subseteq disk
    BY <1>10 DEF CycleDelete, Check, Wake, Remove, EndRound, Rotates, maps
  <2>2. FlagsOK' /\ RotatorOK' /\ NoLostWakeup'
    <3>1. CASE Check
      <4>1. cond' = cond /\ rotator' = At(IF cycle THEN "wait" ELSE "done")
        BY <3>1 DEF Check, Rotates
      <4> QED
        BY <4>1, <2>1, <1>p, <1>i
        DEF FlagsOK, RotatorOK, NoLostWakeup, StoppedFirst, Stopping, At
    <3>2. ASSUME NEW type \in Types, rotator' = Round(type), cond' = cond
          PROVE  FlagsOK' /\ RotatorOK' /\ NoLostWakeup'
      <4>1. \A f \in GetFileNames(type) : f \in File /\ ~f.hidden
        BY <1>p DEF GetFileNames, InDir, DiskTyped
      <4> QED
        BY <3>2, <4>1, <2>1, <1>p DEF FlagsOK, RotatorOK, NoLostWakeup, Round
    <3>3. CASE Wake
      BY <3>2, <3>3 DEF Wake, Rotates, Types
    <3>4. CASE Remove
      <4>1. /\ rotator.at = "round" /\ cond' = cond
            /\ \E f : rotator' = [rotator EXCEPT !.listed = @ \ {f}]
        BY <3>4 DEF Remove, Rotates
      <4>2. /\ rotator.type \in Types
            /\ \A f \in rotator.listed : f \in File /\ ~f.hidden
        BY <4>1, <1>p DEF RotatorOK, NoThread, At
      <4>3. /\ rotator'.at = rotator.at /\ rotator'.type = rotator.type
            /\ rotator'.listed \subseteq rotator.listed
        BY <4>1
      <4> QED
        BY <4>1, <4>2, <4>3, <2>1, <1>p DEF FlagsOK, RotatorOK, NoLostWakeup
    <3>5. CASE EndRound
      <4>1. \/ rotator' = Round(1) /\ cond' = cond
            \/ rotator' = At("check") /\ cond' = FALSE
        BY <3>5 DEF EndRound, Rotates
      <4>2. CASE rotator' = Round(1) /\ cond' = cond
        BY <4>2, <3>2 DEF Types
      <4>3. CASE rotator' = At("check") /\ cond' = FALSE
        BY <4>3, <2>1, <1>p DEF FlagsOK, RotatorOK, NoLostWakeup, At
      <4> QED
        BY <4>1, <4>2, <4>3
    <3> QED
      BY <1>10, <3>1, <3>3, <3>4, <3>5 DEF CycleDelete
  <2>3. PartsOK'
    BY <2>1, <2>2, <1>p DEF MapsOK, AppOK, BagOK, DiskTyped, CountsOK
  <2>4. NoOrphan' /\ StoppedFirst'
    BY <2>1, <1>i DEF NoOrphan, StoppedFirst
  <2> QED
    BY <2>2, <2>3, <2>4, <1>t
<1>11. CASE UNCHANGED vars
  <2>1. UNCHANGED <<up, enable, cycle, cond, destroyed, devices, handlers, app, bag, rotator,
                    disk, created, sessions>>
    BY <1>11 DEF vars, flags, maps
  <2> QED
    BY <2>1 DEF Inv, TypeOK, NoOrphan, NoLostWakeup, StoppedFirst
<1> QED
  BY <1>1, <1>2, <1>3, <1>4, <1>5, <1>6, <1>7, <1>8, <1>9, <1>10, <1>11 DEF Next

LEMMA Start == Init => Inv
<1> SUFFICES ASSUME Init PROVE Inv
  OBVIOUS
<1>1. FlagsOK /\ MapsOK /\ AppOK /\ DiskTyped
  BY DEF Init, Blank, FlagsOK, MapsOK, AppOK, DiskTyped
<1>2. BagOK /\ RotatorOK
  BY DEF Init, Blank, BagOK, RotatorOK
<1>3. CountsOK
  BY LogCollectionAssumption DEF Init, CountsOK
<1>4. NoOrphan /\ NoLostWakeup /\ StoppedFirst
  BY DEF Init, Blank, NoOrphan, NoLostWakeup, StoppedFirst, Stopping, NoBag
<1> QED
  BY <1>1, <1>2, <1>3, <1>4, TypeParts DEF Inv

LEMMA Inductive == Spec => []Inv
BY Start, Step, PTL DEF Spec

\* While logs are collected a hidden file is one that a handler writes: what a crash or an
\* earlier session left behind has its name.
THEOREM DiskCorrect == Spec => []DiskOK
<1>1. Inv => DiskOK
  BY DEF Inv, DiskOK
<1> QED
  BY <1>1, Inductive, PTL

\* Destory never waits for a rotation that only its timer of ten minutes would wake.
THEOREM NoLostWakeupCorrect == Spec => []NoLostWakeup
<1>1. Inv => NoLostWakeup
  BY DEF Inv
<1> QED
  BY <1>1, Inductive, PTL

\* CycleDelete removes the oldest of the files it listed, and nothing else removes one.
THEOREM OldestFirstCorrect == Spec => OldestFirst
<1>1. Inv /\ [Next]_vars =>
        \A f \in disk : (\A g \in disk' : g.time # f.time) =>
          \A g \in disk' : g.type = f.type /\ g.time < f.time => g \notin rotator.listed
  <2> SUFFICES ASSUME Inv, [Next]_vars,
                      NEW f \in disk, \A g \in disk' : g.time # f.time,
                      NEW g \in disk', g.time < f.time, g \in rotator.listed
               PROVE  FALSE
    OBVIOUS
  <2>1. DiskTyped /\ BagOK /\ RotatorOK /\ CountsOK /\ StoppedFirst
    BY TypeParts DEF Inv
  <2>2. disk' # disk
    OBVIOUS
  <2>3. disk' # ChangeHiddenFiles
    BY <2>1, RenamedFiles
  <2>4. ~Store
    <3> SUFFICES ASSUME Store PROVE FALSE
      OBVIOUS
    <3>1. bag \in Bags /\ bag.lidar \in Lidars /\ bag.type \in Types
      BY <2>1 DEF Store, BagOK, NoBag, At, Bags
    <3>2. \/ bag.at = "create" /\ CreateFile(bag.lidar, bag.type)
          \/ WriteFile(bag.lidar, bag.type)
          \/ StopFile(bag.lidar, bag.type)
      BY <2>2 DEF Store
    <3>3. created < MaxFiles \/ ~CreateFile(bag.lidar, bag.type)
      BY <3>2, <2>1, LogCollectionAssumption
      DEF StoppedFirst, CreateFile, WriteFile, StopFile, CountsOK
    <3> QED
      BY <3>1, <3>2, <3>3, <2>1, StoredFiles
  <2>5. Remove
    BY <2>2, <2>3, <2>4
    DEF Next, vars, Crash, Restart, InitDisabled, InitFails, InitEnabled, AddDevice, Destory,
        DestoryBegin, DestoryStop, DestorySignal, DestoryJoin, DestoryHandlers, DestoryRename,
        DestoryDisable, Push, Signal, CycleDelete, Check, Wake, EndRound
  <2>6. \A h \in rotator.listed : h.time \in Nat
    <3>1. rotator.at = "round"
      BY <2>5 DEF Remove
    <3> QED
      BY <3>1, <2>1, FileFacts DEF RotatorOK, NoThread, At
  <2>7. disk' = disk \ {Oldest(rotator.listed)} /\ rotator.listed # {}
    BY <2>5 DEF Remove
  <2>8. f = Oldest(rotator.listed)
    BY <2>7
  <2>9. f.time <= g.time /\ f.time \in Nat /\ g.time \in Nat
    BY <2>6, <2>7, <2>8, OldestIsOldest
  <2> QED
    BY <2>9
<1> QED
  BY <1>1, Inductive, PTL DEF Spec, OldestFirst

=============================================================================
