----------------------------- MODULE LogWriter -----------------------------
(***************************************************************************)
(* LoggerHandler: the log files of one lidar. IO threads queue the log     *)
(* bags the lidar pushes, a writer thread takes the whole queue under its  *)
(* lock and writes it bag by bag, and Destory stops and joins the writer.  *)
(*                                                                         *)
(* The lidar and the network are external: bags may be lost, duplicated    *)
(* and reordered, so a bag of any kind may come at any time. A file is     *)
(* hidden while it is written and renamed when it is closed. Its name has  *)
(* the second of its creation and the index of the file, so two files can  *)
(* have the same name. Of a bag's data the content of a file keeps the     *)
(* indices.                                                                *)
(***************************************************************************)
EXTENDS Naturals, Sequences, SequencesExt

CONSTANTS
  LogTypes,     \* log_type
  MaxIndex,     \* bound: file_index
  MaxTrans,     \* bound: trans_index
  MaxTime,      \* bound: seconds of the clock
  MaxBags       \* bound: bags the lidar sends

ASSUME LogWriterAssumption ==
  /\ MaxIndex \in Nat
  /\ MaxTrans \in Nat
  /\ MaxTime \in Nat
  /\ MaxBags \in Nat

VARIABLES
  queue,      \* queue_
  batch,      \* the writer's local queue
  writer,     \* where the writer thread is
  stop,       \* is_stop_write_
  joined,     \* Destory has joined the writer
  current,    \* current_files_, by log type
  hidden,     \* content of the files whose names begin with a dot
  visible,    \* content of the other files
  time,       \* GetCurFormatTime
  bags        \* number of bags that were stored

vars == <<queue, batch, writer, stop, joined, current, hidden, visible, time, bags>>

Index == 0 .. MaxIndex
Trans == 0 .. MaxTrans
Bag == [type : LogTypes, flag : {"create", "data", "end"}, index : Index, trans : Trans]
Name == [type : LogTypes, time : 0 .. MaxTime, index : Index]
Chunk == [index : Index, trans : Trans]
NoFile == <<>>

Init ==
  /\ queue = <<>>
  /\ batch = <<>>
  /\ writer = "sleeping"
  /\ stop = FALSE
  /\ joined = FALSE
  /\ current = [ty \in LogTypes |->
                  [open |-> FALSE, index |-> 0, trans |-> 0,
                   name |-> [type |-> ty, time |-> 0, index |-> 0]]]
  /\ hidden = [n \in Name |-> NoFile]
  /\ visible = [n \in Name |-> NoFile]
  /\ time = 0
  /\ bags = 0

-----------------------------------------------------------------------------
\* An IO thread stores a bag.
StoreLogBag(b) ==
  /\ bags < MaxBags
  /\ bags' = bags + 1
  /\ queue' = Append(queue, b)
  /\ UNCHANGED <<batch, writer, stop, joined, current, hidden, visible, time>>

Tick ==
  /\ time < MaxTime
  /\ time' = time + 1
  /\ UNCHANGED <<queue, batch, writer, stop, joined, current, hidden, visible, bags>>

\* Mutant of TakeQueue: the queue is copied.
TakeQueueCopy ==
  /\ writer = "sleeping"
  /\ ~stop
  /\ writer' = "writing"
  /\ batch' = queue
  /\ UNCHANGED <<queue, stop, joined, current, hidden, visible, time, bags>>

\* The loop of the writer thread: it takes the queue, or ends. What is in the queue when
\* it ends is not written.
TakeQueue ==
  /\ writer = "sleeping"
  /\ ~stop
  /\ writer' = "writing"
  /\ batch' = queue
  /\ queue' = <<>>
  /\ UNCHANGED <<stop, joined, current, hidden, visible, time, bags>>

Sleep ==
  /\ writer = "writing"
  /\ batch = <<>>
  /\ writer' = "sleeping"
  /\ UNCHANGED <<queue, batch, stop, joined, current, hidden, visible, time, bags>>

\* Mutant of Exit: the writer ends only when nothing is left to write.
ExitDrained ==
  /\ writer = "sleeping"
  /\ stop
  /\ queue = <<>>
  /\ writer' = "exited"
  /\ UNCHANGED <<queue, batch, stop, joined, current, hidden, visible, time, bags>>

Exit ==
  /\ writer = "sleeping"
  /\ stop
  /\ writer' = "exited"
  /\ UNCHANGED <<queue, batch, stop, joined, current, hidden, visible, time, bags>>

-----------------------------------------------------------------------------
(***************************************************************************)
(* The files.                                                              *)
(***************************************************************************)
ChunkOf(b) == [index |-> b.index, trans |-> b.trans]

\* ChangeCurrentFileName: the file loses its dot; a file of that name is removed first.
Renamed(n) == [visible EXCEPT ![n] = hidden[n]]

Without(n) == [hidden EXCEPT ![n] = NoFile]

\* Mutant of Close: the file is closed and removed.
CloseRemoving(ty) ==
  /\ hidden' = IF current[ty].open THEN Without(current[ty].name) ELSE hidden
  /\ UNCHANGED visible

\* The file of type ty is closed and renamed, if there is one.
Close(ty) ==
  IF current[ty].open
    THEN hidden' = Without(current[ty].name) /\ visible' = Renamed(current[ty].name)
    ELSE UNCHANGED <<hidden, visible>>

\* The name of the file a bag creates.
NameOf(b) == [type |-> b.type, time |-> time, index |-> b.index]

\* The hidden files after the open file of the type was renamed and the bag was written
\* to a new one, opened for appending.
Created(b) ==
  LET rest == IF current[b.type].open THEN Without(current[b.type].name) ELSE hidden
  IN  [rest EXCEPT ![NameOf(b)] = Append(@, ChunkOf(b))]

\* The directory of the type cannot be made: there can be no file of the type yet.
NoDirectory(b) ==
  /\ \A n \in Name : n.type = b.type => hidden[n] = NoFile /\ visible[n] = NoFile
  /\ UNCHANGED <<current, hidden, visible>>

\* An open file of the type is closed first. fopen may fail.
CreateFile(b) == \E opens \in BOOLEAN :
  /\ visible' = IF current[b.type].open THEN Renamed(current[b.type].name) ELSE visible
  /\ hidden' = IF opens THEN Created(b)
               ELSE IF current[b.type].open THEN Without(current[b.type].name) ELSE hidden
  /\ current' = [current EXCEPT ![b.type] =
                   [open |-> opens, index |-> b.index, trans |-> b.trans,
                    name |-> NameOf(b)]]

\* A bag of another file than the current one is ignored.
WriteFile(b) ==
  IF current[b.type].index # b.index
    THEN UNCHANGED <<current, hidden, visible>>
    ELSE /\ current' = [current EXCEPT ![b.type].trans = b.trans]
         /\ hidden' = IF current[b.type].open
                        THEN [hidden EXCEPT ![current[b.type].name] = Append(@, ChunkOf(b))]
                        ELSE hidden
         /\ UNCHANGED visible

\* The index of the bag is not compared.
StopFile(b) ==
  /\ Close(b.type)
  /\ current' = [current EXCEPT ![b.type].open = FALSE, ![b.type].trans = b.trans]

\* Mutant of IsStale: every bag is written.
IsStaleNever(b) == FALSE

\* A bag that is behind the last one of its type, and creates no file.
IsStale(b) == b.flag # "create" /\ b.trans < current[b.type].trans

\* The writer handles the first bag of its batch. It skips a stale bag without removing
\* it from the batch: it comes back to it for ever, and takes no step.
Write ==
  /\ writer = "writing"
  /\ batch # <<>>
  /\ LET b == Head(batch) IN
       /\ ~IsStale(b)
       /\ \/ b.flag = "create" /\ (NoDirectory(b) \/ CreateFile(b))
          \/ b.flag = "data" /\ WriteFile(b)
          \/ b.flag = "end" /\ StopFile(b)
  /\ batch' = Tail(batch)
  /\ UNCHANGED <<queue, writer, stop, joined, time, bags>>

-----------------------------------------------------------------------------
\* Destory, first the flag and then, when the writer has ended, the files: they are
\* closed and stay hidden.
Stop ==
  /\ ~stop
  /\ stop' = TRUE
  /\ UNCHANGED <<queue, batch, writer, joined, current, hidden, visible, time, bags>>

Join ==
  /\ writer = "exited"
  /\ ~joined
  /\ joined' = TRUE
  /\ current' = [ty \in LogTypes |-> [current[ty] EXCEPT !.open = FALSE]]
  /\ UNCHANGED <<queue, batch, writer, stop, hidden, visible, time, bags>>

Next ==
  \/ \E b \in Bag : StoreLogBag(b)
  \/ Tick
  \/ TakeQueue
  \/ Sleep
  \/ Exit
  \/ Write
  \/ Stop
  \/ Join

Spec == Init /\ [][Next]_vars

\* The writer thread goes on, and the thread in Destory joins it.
FairSpec == Spec /\ WF_vars(TakeQueue) /\ WF_vars(Sleep) /\ WF_vars(Exit)
                 /\ WF_vars(Write) /\ WF_vars(Join)

-----------------------------------------------------------------------------
(***************************************************************************)
(* Properties.                                                             *)
(***************************************************************************)
CurrentFile(ty) ==
  [open : BOOLEAN, index : Index, trans : Trans,
   name : [type : {ty}, time : 0 .. MaxTime, index : Index]]

TypeOK ==
  /\ queue \in Seq(Bag)
  /\ batch \in Seq(Bag)
  /\ writer \in {"sleeping", "writing", "exited"}
  /\ stop \in BOOLEAN
  /\ joined \in BOOLEAN
  /\ \A ty \in LogTypes : current[ty] \in CurrentFile(ty)
  /\ hidden \in [Name -> Seq(Chunk)]
  /\ visible \in [Name -> Seq(Chunk)]
  /\ time \in 0 .. MaxTime
  /\ bags \in 0 .. MaxBags

\* The hidden files are the open ones: a file that is not written any more is visible.
HiddenIsOpen ==
  ~joined =>
    \A n \in Name :
      hidden[n] # NoFile <=> \E ty \in LogTypes : current[ty].open /\ current[ty].name = n

Contents == {hidden[n] : n \in Name} \cup {visible[n] : n \in Name}

\* A file has the data of one index only, the one in its name.
OneIndexPerFile ==
  \A n \in Name : \A content \in {hidden[n], visible[n]} :
    \A i \in DOMAIN content : content[i].index = n.index

\* The data of a file is in the order in which the lidar sent it, however the network
\* reordered it.
InOrder ==
  \A content \in Contents :
    \A i, j \in DOMAIN content : i <= j => content[i].trans <= content[j].trans

\* The files that Write, CreateFile and StopFile leave behind, at any time.
FilesOK == TypeOK /\ HiddenIsOpen /\ OneIndexPerFile /\ InOrder

\* What was written to a file stays in it, through the renaming, unless a file of the same
\* name exists when it is created.
NoDataLost ==
  [][\A n \in Name :
       \/ hidden[n] # NoFile /\ visible[n] # NoFile
       \/ IsPrefix(hidden[n], hidden'[n]) /\ IsPrefix(visible[n], visible'[n])
       \/ hidden[n] = visible'[n] /\ visible[n] = NoFile]_vars

\* The writer is held by a stale bag.
Stuck == writer = "writing" /\ batch # <<>> /\ IsStale(Head(batch))

\* Every bag is taken out of the queue, until the logger is destroyed.
EveryBagIsTaken == queue # <<>> ~> (queue = <<>> \/ stop \/ Stuck)

\* Destory comes to its end.
StopEnds == stop ~> (joined \/ Stuck)

=============================================================================
