------------------------ MODULE CommandTable_proofs -------------------------
(***************************************************************************)
(* Proofs about CommandTable, for every set of commands and IO threads,    *)
(* every MaxSeq and TimeOut, and a network that loses, delays, reorders    *)
(* and duplicates acknowledgements; and about GenerateSeq, which gives the *)
(* commands their numbers, for every set of its calls.                     *)
(***************************************************************************)
EXTENDS CommandTable, GenerateSeq, FiniteSetTheorems, TLAPS

\* AddCommand leaves a table of entries, whatever entry it overwrites.
LEMMA AddCommandType ==
  ASSUME NEW c \in Commands, commands \in [SeqNumber -> Entry], AddCommand(c)
  PROVE  commands' \in [SeqNumber -> Entry]
<1>1. [cmd |-> c, left |-> TimeOut] \in Entry
  BY CommandTableAssumption DEF Entry
<1> QED
  BY <1>1 DEF AddCommand

\* The type invariant of the table, the senders and the IO threads.
THEOREM TypeCorrect == Spec => []TypeOK
<1> USE MaxSeqAssumption, CommandTableAssumption DEF SeqNumber, AllStyles
<1>1. Init => TypeOK
  BY DEF Init, TypeOK, Step, Status, Entry, Empty, Idle
<1>2. TypeOK /\ [Next]_vars => TypeOK'
  <2> SUFFICES ASSUME TypeOK, [Next]_vars
               PROVE  TypeOK'
    OBVIOUS
  <2> USE DEF TypeOK
  <2>1. ASSUME NEW c \in Commands, NEW s \in Styles, Issue(c, s)
        PROVE  TypeOK'
    <3>1. seq' \in SeqNumber
      BY <2>1 DEF Issue, NextSeq
    <3> QED
      BY <2>1, <3>1 DEF Issue, Step
  <2>2. ASSUME NEW c \in Commands, Sender(c)
        PROVE  TypeOK'
    <3>1. CASE LookupFails(c)
      BY <3>1 DEF LookupFails, Step
    <3>2. CASE LookupSucceeds(c)
      BY <3>2 DEF LookupSucceeds, Step
    <3>3. CASE AddBeforeSend(c)
      <4>1. commands' \in [SeqNumber -> Entry]
        BY <3>3, AddCommandType DEF AddBeforeSend
      <4> QED
        BY <3>3, <4>1 DEF AddBeforeSend, Step
    <3>4. CASE SendSucceeds(c)
      BY <3>4 DEF SendSucceeds, AfterSend, Step
    <3>5. CASE SendFails(c)
      <4>1. calls' \in [Commands -> [Status -> Nat]]
        BY <3>5 DEF SendFails, Callback, Status
      <4> QED
        BY <3>5, <4>1 DEF SendFails, AfterSend, Step
    <3>6. CASE AddAfterSend(c)
      <4>1. commands' \in [SeqNumber -> Entry]
        BY <3>6, AddCommandType DEF AddAfterSend
      <4> QED
        BY <3>6, <4>1 DEF AddAfterSend, Step
    <3> QED
      BY <2>2, <3>1, <3>2, <3>3, <3>4, <3>5, <3>6 DEF Sender
  <2>3. ASSUME NEW c \in Commands, LidarAnswers(c)
        PROVE  TypeOK'
    BY <2>3 DEF LidarAnswers
  <2>4. ASSUME NEW t \in AckThreads, NEW c \in Commands, ReceiveAck(t, c)
        PROVE  TypeOK'
    <3>1. commands' \in [SeqNumber -> Entry]
      BY <2>4 DEF ReceiveAck, Taken, Entry, Empty
    <3>2. {commands[s].cmd : s \in Answers(c)} \in SUBSET Commands
      BY DEF Answers, Entry
    <3>3. running' \in [IoThreads -> [status : {"Success", "Timeout"}, cmds : SUBSET Commands]]
      BY <2>4, <3>2 DEF ReceiveAck
    <3> QED
      BY <2>4, <3>1, <3>3 DEF ReceiveAck
  <2>5. ASSUME NEW t \in IoThreads, CommandsHandle(t)
        PROVE  TypeOK'
    <3>1. commands' \in [SeqNumber -> Entry]
      BY <2>5 DEF CommandsHandle, Taken, Entry, Empty
    <3>2. {commands[s].cmd : s \in Overdue} \in SUBSET Commands
      BY DEF Overdue, Entry
    <3>3. running' \in [IoThreads -> [status : {"Success", "Timeout"}, cmds : SUBSET Commands]]
      BY <2>5, <3>2 DEF CommandsHandle
    <3> QED
      BY <2>5, <3>1, <3>3 DEF CommandsHandle
  <2>6. ASSUME NEW t \in IoThreads, RunCallback(t)
        PROVE  TypeOK'
    <3>1. PICK c \in running[t].cmds :
            /\ Callback(c, running[t].status)
            /\ running' = [running EXCEPT ![t] =
                             [status |-> running[t].status, cmds |-> running[t].cmds \ {c}]]
      BY <2>6 DEF RunCallback
    <3>2. calls' \in [Commands -> [Status -> Nat]]
      BY <3>1 DEF Callback, Status
    <3>3. running' \in [IoThreads -> [status : {"Success", "Timeout"}, cmds : SUBSET Commands]]
      BY <3>1
    <3> QED
      BY <2>6, <3>2, <3>3 DEF RunCallback
  <2>7. ASSUME Tick
        PROVE  TypeOK'
    <3>1. commands' \in [SeqNumber -> Entry]
      BY <2>7 DEF Tick, Entry
    <3> QED
      BY <2>7, <3>1 DEF Tick
  <2>8. CASE UNCHANGED vars
    BY <2>8 DEF vars
  <2> QED
    BY <2>1, <2>2, <2>3, <2>4, <2>5, <2>6, <2>7, <2>8 DEF Next
<1> QED
  BY <1>1, <1>2, PTL DEF Spec

-----------------------------------------------------------------------------
(***************************************************************************)
(* An entry is in the table under its command's number only.               *)
(***************************************************************************)
NumberInv ==
  /\ \A c \in Commands : IF pc[c] = "idle" THEN num[c] = 0 ELSE num[c] \in SeqNumber
  /\ \A s \in SeqNumber : commands[s].cmd # NoCommand =>
       num[commands[s].cmd] = s /\ pc[commands[s].cmd] # "idle"

\* Every entry of the table is filed under the number its command was sent with.
THEOREM NumberCorrect == Spec => []NumberInv
<1> USE MaxSeqAssumption, CommandTableAssumption DEF SeqNumber
<1>1. Init => NumberInv
  BY DEF Init, NumberInv, Empty
<1>2. TypeOK /\ NumberInv /\ [Next]_vars => NumberInv'
  <2> SUFFICES ASSUME TypeOK, NumberInv, [Next]_vars
               PROVE  NumberInv'
    OBVIOUS
  <2> USE DEF TypeOK, NumberInv
  <2>1. ASSUME NEW c \in Commands, NEW s \in Styles, Issue(c, s)
        PROVE  NumberInv'
    <3>1. seq' \in SeqNumber
      BY <2>1 DEF Issue, NextSeq
    <3> QED
      BY <2>1, <3>1 DEF Issue, Entry
  <2>2. ASSUME NEW c \in Commands, Sender(c)
        PROVE  NumberInv'
    <3>1. CASE LookupFails(c)
      BY <3>1 DEF LookupFails, Entry
    <3>2. CASE LookupSucceeds(c)
      BY <3>2 DEF LookupSucceeds, Entry
    <3>3. CASE AddBeforeSend(c)
      BY <3>3 DEF AddBeforeSend, AddCommand, Entry
    <3>4. CASE SendSucceeds(c)
      BY <3>4 DEF SendSucceeds, AfterSend, Entry
    <3>5. CASE SendFails(c)
      BY <3>5 DEF SendFails, AfterSend, Entry
    <3>6. CASE AddAfterSend(c)
      BY <3>6 DEF AddAfterSend, AddCommand, Entry
    <3> QED
      BY <2>2, <3>1, <3>2, <3>3, <3>4, <3>5, <3>6 DEF Sender
  <2>3. ASSUME NEW c \in Commands, LidarAnswers(c)
        PROVE  NumberInv'
    BY <2>3 DEF LidarAnswers
  <2>4. ASSUME NEW t \in AckThreads, NEW c \in Commands, ReceiveAck(t, c)
        PROVE  NumberInv'
    BY <2>4 DEF ReceiveAck, Taken, Empty
  <2>5. ASSUME NEW t \in IoThreads, CommandsHandle(t)
        PROVE  NumberInv'
    BY <2>5 DEF CommandsHandle, Taken, Empty
  <2>6. ASSUME NEW t \in IoThreads, RunCallback(t)
        PROVE  NumberInv'
    BY <2>6 DEF RunCallback
  <2>7. ASSUME Tick
        PROVE  NumberInv'
    BY <2>7 DEF Tick
  <2>8. CASE UNCHANGED vars
    BY <2>8 DEF vars
  <2> QED
    BY <2>1, <2>2, <2>3, <2>4, <2>5, <2>6, <2>7, <2>8 DEF Next
<1> QED
  BY <1>1, <1>2, TypeCorrect, PTL DEF Spec

-----------------------------------------------------------------------------
(***************************************************************************)
(* The steps a command takes, by its style.                                *)
(***************************************************************************)
PathInv ==
  \A c \in Commands :
    /\ pc[c] = "idle" => style[c] = "cfg"
    /\ style[c] = "cfg" => pc[c] \in {"idle", "add", "send", "done"}
    /\ style[c] = "mid360" => pc[c] \in {"lookup", "send", "keep", "done"}
    /\ ret[c] # "none" => pc[c] = "done"
    /\ pc[c] = "done" /\ ret[c] = "none" => style[c] = "cfg"
    /\ ret[c] # "none" => style[c] # "cfg"

\* The sender of a command follows the route of its style.
THEOREM PathCorrect == Spec => []PathInv
<1> USE CommandTableAssumption DEF AllStyles
<1>1. Init => PathInv
  BY DEF Init, PathInv
<1>2. TypeOK /\ PathInv /\ [Next]_vars => PathInv'
  <2> SUFFICES ASSUME TypeOK, PathInv, [Next]_vars
               PROVE  PathInv'
    OBVIOUS
  <2> USE DEF TypeOK, PathInv
  <2>1. ASSUME NEW c \in Commands, NEW s \in Styles, Issue(c, s)
        PROVE  PathInv'
    BY <2>1 DEF Issue
  <2>2. ASSUME NEW c \in Commands, Sender(c)
        PROVE  PathInv'
    BY <2>2 DEF Sender, LookupFails, LookupSucceeds, AddBeforeSend, SendSucceeds, SendFails,
                AddAfterSend, AfterSend
  <2>3. ASSUME UNCHANGED <<pc, style, ret>>
        PROVE  PathInv'
    BY <2>3
  <2> QED
    BY <2>1, <2>2, <2>3 DEF Next, LidarAnswers, ReceiveAck, CommandsHandle, RunCallback, Tick, vars
<1> QED
  BY <1>1, <1>2, TypeCorrect, PTL DEF Spec

-----------------------------------------------------------------------------
(***************************************************************************)
(* One outcome. A command that is added once is in one place: not yet      *)
(* added, in the table, with one IO thread, or concluded. IO threads race  *)
(* for the entries, but each takes what it calls back out of the table.    *)
(***************************************************************************)
Registered(c) ==
  \/ style[c] = "cfg" /\ pc[c] \in {"send", "done"}
  \/ style[c] = "mid360" /\ ret[c] = "Success"

Held(c) == \E t \in IoThreads : c \in running[t].cmds

OnePlace(c) ==
  /\ ~Registered(c) => ~Waiting(c) /\ ~Held(c) /\ Outcomes(c) = 0
  /\ Waiting(c) => ~Held(c) /\ Outcomes(c) = 0
  /\ Held(c) => Outcomes(c) = 0
  /\ \A t, u \in IoThreads : c \in running[t].cmds /\ c \in running[u].cmds => t = u
  /\ Outcomes(c) <= 1

PlaceInv == \A c \in Commands : style[c] # "hap" => OnePlace(c)

\* Entries that go from the table to an idle thread go to it alone.
LEMMA TakenKeepsPlace ==
  ASSUME TypeOK, NumberInv, PlaceInv,
         NEW t \in IoThreads, IsIdle(t),
         NEW S \in SUBSET {s \in SeqNumber : commands[s].cmd # NoCommand},
         NEW st \in {"Success", "Timeout"},
         commands' = Taken(S),
         running' = [running EXCEPT ![t] =
                       [status |-> st, cmds |-> {commands[s].cmd : s \in S}]],
         UNCHANGED <<style, pc, ret, calls>>
  PROVE  PlaceInv'
<1> SUFFICES ASSUME NEW c \in Commands, style[c] # "hap"
             PROVE  OnePlace(c)'
  BY DEF PlaceInv
<1> USE DEF TypeOK
<1>1. OnePlace(c)
  BY DEF PlaceInv
<1>2. Registered(c)' = Registered(c) /\ Outcomes(c)' = Outcomes(c)
  BY DEF Registered, Outcomes
<1>3. /\ running'[t].cmds = {commands[s].cmd : s \in S}
      /\ \A u \in IoThreads \ {t} : running'[u] = running[u]
      /\ running[t].cmds = {}
  BY DEF IsIdle
<1>4. Waiting(c)' => Waiting(c)
  BY CommandTableAssumption DEF Waiting, Taken, Empty
<1>5. c \in running'[t].cmds => Waiting(c) /\ ~Waiting(c)'
  <2> SUFFICES ASSUME c \in running'[t].cmds
               PROVE  Waiting(c) /\ ~Waiting(c)'
    OBVIOUS
  <2>1. PICK s \in S : commands[s].cmd = c
    BY <1>3
  <2>2. \A r \in SeqNumber : commands[r].cmd = c => r = s
    BY <2>1, CommandTableAssumption DEF NumberInv
  <2> QED
    BY <2>1, <2>2, CommandTableAssumption DEF Waiting, Taken, Empty
<1>6. CASE c \in running'[t].cmds
  BY <1>1, <1>2, <1>3, <1>5, <1>6 DEF OnePlace, Held
<1>7. CASE c \notin running'[t].cmds
  BY <1>1, <1>2, <1>3, <1>4, <1>7 DEF OnePlace, Held
<1> QED
  BY <1>6, <1>7

\* Adding a command that is not registered yet puts it in the table only.
LEMMA AddKeepsPlace ==
  ASSUME TypeOK, NumberInv, PlaceInv,
         NEW c \in Commands, AddCommand(c), num[c] \in SeqNumber,
         ~Registered(c), style[c] # "hap" => Registered(c)',
         \A d \in Commands \ {c} : pc'[d] = pc[d] /\ ret'[d] = ret[d],
         UNCHANGED <<style, running, calls>>
  PROVE  PlaceInv'
<1> SUFFICES ASSUME NEW d \in Commands, style[d] # "hap"
             PROVE  OnePlace(d)'
  BY DEF PlaceInv
<1> USE DEF TypeOK
<1>1. OnePlace(d)
  BY DEF PlaceInv
<1>2. Held(d)' = Held(d) /\ Outcomes(d)' = Outcomes(d)
  BY DEF Held, Outcomes
<1>3. CASE d = c
  BY <1>1, <1>2, <1>3 DEF OnePlace, Held
<1>4. CASE d # c
  <2>1. Waiting(d)' => Waiting(d)
    BY <1>4, CommandTableAssumption DEF Waiting, AddCommand
  <2>2. Registered(d)' = Registered(d)
    BY <1>4 DEF Registered
  <2> QED
    BY <1>1, <1>2, <2>1, <2>2 DEF OnePlace
<1> QED
  BY <1>3, <1>4

\* A command that is added to the table once has at most one outcome, whichever IO
\* threads, timeouts and acknowledgements race for its entry.
THEOREM OneOutcomeCorrect == Spec => []OneOutcome
<1>1. Init => PlaceInv
  BY CommandTableAssumption
     DEF Init, PlaceInv, OnePlace, Registered, Waiting, Held, Outcomes, Empty, Idle, Status
<1>2. TypeOK /\ NumberInv /\ PathInv /\ PlaceInv /\ [Next]_vars => PlaceInv'
  <2> SUFFICES ASSUME TypeOK, NumberInv, PathInv, PlaceInv, [Next]_vars
               PROVE  PlaceInv'
    OBVIOUS
  <2> USE DEF TypeOK
  <2>1. ASSUME NEW c \in Commands, NEW s \in Styles, Issue(c, s)
        PROVE  PlaceInv'
    <3> SUFFICES ASSUME NEW d \in Commands, style'[d] # "hap"
                 PROVE  OnePlace(d)'
      BY DEF PlaceInv
    <3>1. /\ Waiting(d)' = Waiting(d)
          /\ Held(d)' = Held(d)
          /\ Outcomes(d)' = Outcomes(d)
          /\ running' = running
      BY <2>1 DEF Issue, Waiting, Held, Outcomes
    <3>2. OnePlace(d)
      BY <2>1 DEF Issue, PathInv, PlaceInv
    <3>3. CASE d = c
      BY <2>1, <3>1, <3>2, <3>3 DEF Issue, OnePlace, Registered, PathInv
    <3>4. CASE d # c
      <4>1. Registered(d)' = Registered(d)
        BY <2>1, <3>4 DEF Issue, Registered
      <4> QED
        BY <3>1, <3>2, <4>1 DEF OnePlace
    <3> QED
      BY <3>3, <3>4
  <2>2. ASSUME NEW c \in Commands, LookupFails(c) \/ LookupSucceeds(c) \/ SendSucceeds(c)
        PROVE  PlaceInv'
    <3> SUFFICES ASSUME NEW d \in Commands, style[d] # "hap"
                 PROVE  OnePlace(d)'
      BY <2>2 DEF PlaceInv, LookupFails, LookupSucceeds, SendSucceeds
    <3>1. /\ Waiting(d)' = Waiting(d)
          /\ Held(d)' = Held(d)
          /\ Outcomes(d)' = Outcomes(d)
          /\ running' = running
      BY <2>2 DEF LookupFails, LookupSucceeds, SendSucceeds, Waiting, Held, Outcomes
    <3>2. Registered(d)' = Registered(d)
      BY <2>2 DEF LookupFails, LookupSucceeds, SendSucceeds, AfterSend, Registered, PathInv
    <3> QED
      BY <3>1, <3>2 DEF OnePlace, PlaceInv
  <2>3. ASSUME NEW c \in Commands, SendFails(c)
        PROVE  PlaceInv'
    <3> SUFFICES ASSUME NEW d \in Commands, style[d] # "hap"
                 PROVE  OnePlace(d)'
      BY <2>3 DEF PlaceInv, SendFails
    <3>1. Waiting(d)' = Waiting(d) /\ Held(d)' = Held(d) /\ running' = running
      BY <2>3 DEF SendFails, Waiting, Held
    <3>2. Outcomes(d)' = Outcomes(d)
      BY <2>3 DEF SendFails, Callback, Outcomes, Status
    <3>3. Registered(d)' = Registered(d)
      BY <2>3 DEF SendFails, AfterSend, Registered, PathInv
    <3> QED
      BY <3>1, <3>2, <3>3 DEF OnePlace, PlaceInv
  <2>4. ASSUME NEW c \in Commands, AddBeforeSend(c)
        PROVE  PlaceInv'
    <3>1. ~Registered(c) /\ num[c] \in SeqNumber
      BY <2>4 DEF AddBeforeSend, Registered, NumberInv, PathInv
    <3>2. style[c] # "hap" => Registered(c)'
      BY <2>4, CommandTableAssumption DEF AddBeforeSend, Registered, PathInv, AllStyles
    <3> QED
      BY <2>4, <3>1, <3>2, AddKeepsPlace DEF AddBeforeSend
  <2>5. ASSUME NEW c \in Commands, AddAfterSend(c)
        PROVE  PlaceInv'
    <3>1. ~Registered(c) /\ num[c] \in SeqNumber
      BY <2>5 DEF AddAfterSend, Registered, NumberInv, PathInv
    <3>2. style[c] # "hap" => Registered(c)'
      BY <2>5, CommandTableAssumption DEF AddAfterSend, Registered, PathInv, AllStyles
    <3> QED
      BY <2>5, <3>1, <3>2, AddKeepsPlace DEF AddAfterSend
  <2>6. ASSUME NEW t \in AckThreads, NEW c \in Commands, ReceiveAck(t, c)
        PROVE  PlaceInv'
    <3>1. Answers(c) \in SUBSET {s \in SeqNumber : commands[s].cmd # NoCommand}
      BY DEF Answers
    <3> QED
      BY <2>6, <3>1, TakenKeepsPlace, CommandTableAssumption DEF ReceiveAck
  <2>7. ASSUME NEW t \in IoThreads, CommandsHandle(t)
        PROVE  PlaceInv'
    <3>1. Overdue \in SUBSET {s \in SeqNumber : commands[s].cmd # NoCommand}
      BY DEF Overdue
    <3> QED
      BY <2>7, <3>1, TakenKeepsPlace DEF CommandsHandle
  <2>8. ASSUME NEW t \in IoThreads, RunCallback(t)
        PROVE  PlaceInv'
    <3>1. PICK c \in running[t].cmds :
            /\ Callback(c, running[t].status)
            /\ running' = [running EXCEPT ![t] =
                             [status |-> running[t].status, cmds |-> running[t].cmds \ {c}]]
            /\ UNCHANGED <<style, pc, ret, commands>>
      BY <2>8 DEF RunCallback
    <3> SUFFICES ASSUME NEW d \in Commands, style[d] # "hap"
                 PROVE  OnePlace(d)'
      BY <3>1 DEF PlaceInv
    <3>2. OnePlace(d)
      BY DEF PlaceInv
    <3>3. Waiting(d)' = Waiting(d) /\ Registered(d)' = Registered(d)
      BY <3>1 DEF Waiting, Registered
    <3>4. /\ running'[t].cmds = running[t].cmds \ {c}
          /\ \A u \in IoThreads \ {t} : running'[u] = running[u]
          /\ running[t].status \in {"Success", "Timeout"}
      BY <3>1
    <3>5. CASE d = c
      <4>1. Outcomes(d)' = Outcomes(d) + 1
        BY <3>1, <3>4, <3>5 DEF Callback, Outcomes, Status
      <4>2. Held(d) /\ ~Held(d)'
        BY <3>1, <3>2, <3>4, <3>5 DEF Held, OnePlace
      <4> QED
        BY <3>2, <3>3, <3>4, <4>1, <4>2 DEF OnePlace, Held
    <3>6. CASE d # c
      <4>1. Outcomes(d)' = Outcomes(d)
        BY <3>1, <3>4, <3>6 DEF Callback, Outcomes, Status
      <4>2. \A u \in IoThreads : d \in running'[u].cmds <=> d \in running[u].cmds
        BY <3>4, <3>6
      <4> QED
        BY <3>2, <3>3, <4>1, <4>2 DEF OnePlace, Held
    <3> QED
      BY <3>5, <3>6
  <2>9. ASSUME Tick
        PROVE  PlaceInv'
    <3>1. \A d \in Commands : Waiting(d)' = Waiting(d)
      BY <2>9 DEF Tick, Waiting
    <3> QED
      BY <2>9, <3>1 DEF Tick, PlaceInv, OnePlace, Registered, Held, Outcomes
  <2>10. ASSUME UNCHANGED <<style, pc, ret, commands, running, calls>>
         PROVE  PlaceInv'
    BY <2>10 DEF PlaceInv, OnePlace, Registered, Waiting, Held, Outcomes
  <2> QED
    BY <2>1, <2>2, <2>3, <2>4, <2>5, <2>6, <2>7, <2>8, <2>9, <2>10
       DEF Next, Sender, LidarAnswers, vars
<1>3. PlaceInv => OneOutcome
  BY DEF PlaceInv, OnePlace, OneOutcome
<1> QED
  BY <1>1, <1>2, <1>3, TypeCorrect, NumberCorrect, PathCorrect, PTL DEF Spec

-----------------------------------------------------------------------------
(***************************************************************************)
(* A request is on its way, acknowledged or heard of only after its sender *)
(* has left sendto, and a command that was not issued has no success.      *)
(***************************************************************************)
SentInv ==
  \A c \in Commands :
    /\ c \in wire \cup acks \/ heard[c] # "never" => pc[c] \in {"keep", "done"}
    /\ pc[c] = "idle" => calls[c]["Success"] = 0 /\ ~Running(c, "Success")

\* Only what was sent is answered, and only what was issued succeeds.
THEOREM SentCorrect == Spec => []SentInv
<1> USE CommandTableAssumption
<1>1. Init => SentInv
  BY DEF Init, SentInv, Running, Idle, Status
<1>2. TypeOK /\ NumberInv /\ PathInv /\ SentInv /\ [Next]_vars => SentInv'
  <2> SUFFICES ASSUME TypeOK, NumberInv, PathInv, SentInv, [Next]_vars
               PROVE  SentInv'
    OBVIOUS
  <2> USE DEF TypeOK, SentInv
  <2>1. ASSUME NEW c \in Commands, NEW s \in Styles, Issue(c, s)
        PROVE  SentInv'
    BY <2>1 DEF Issue, Running
  <2>2. ASSUME NEW c \in Commands, Sender(c)
        PROVE  SentInv'
    <3>1. CASE LookupFails(c)
      BY <3>1 DEF LookupFails, Running
    <3>2. CASE LookupSucceeds(c)
      BY <3>2 DEF LookupSucceeds, Running
    <3>3. CASE AddBeforeSend(c)
      BY <3>3 DEF AddBeforeSend, Running
    <3>4. CASE SendSucceeds(c)
      BY <3>4 DEF SendSucceeds, AfterSend, Running
    <3>5. CASE SendFails(c)
      BY <3>5 DEF SendFails, AfterSend, Callback, Status, Running
    <3>6. CASE AddAfterSend(c)
      BY <3>6 DEF AddAfterSend, Running
    <3> QED
      BY <2>2, <3>1, <3>2, <3>3, <3>4, <3>5, <3>6 DEF Sender
  <2>3. ASSUME NEW c \in Commands, LidarAnswers(c)
        PROVE  SentInv'
    BY <2>3 DEF LidarAnswers, Running
  <2>4. ASSUME NEW t \in AckThreads, NEW c \in Commands, ReceiveAck(t, c)
        PROVE  SentInv'
    <3>1. \A d \in Commands : pc[d] = "idle" => ~Running(d, "Success")'
      <4>1. \A s \in Answers(c) : pc[commands[s].cmd] # "idle"
        BY DEF Answers, NumberInv
      <4> QED
        BY <2>4, <4>1 DEF ReceiveAck, Running
    <3> QED
      BY <2>4, <3>1 DEF ReceiveAck
  <2>5. ASSUME NEW t \in IoThreads, CommandsHandle(t)
        PROVE  SentInv'
    BY <2>5 DEF CommandsHandle, Running
  <2>6. ASSUME NEW t \in IoThreads, RunCallback(t)
        PROVE  SentInv'
    <3>1. PICK c \in running[t].cmds :
            /\ Callback(c, running[t].status)
            /\ running' = [running EXCEPT ![t] =
                             [status |-> running[t].status, cmds |-> running[t].cmds \ {c}]]
      BY <2>6 DEF RunCallback
    <3>2. \A d \in Commands : Running(d, "Success")' => Running(d, "Success")
      BY <3>1 DEF Running
    <3>3. \A d \in Commands : pc[d] = "idle" => calls'[d]["Success"] = 0
      BY <3>1 DEF Callback, Running, Status
    <3> QED
      BY <2>6, <3>2, <3>3 DEF RunCallback
  <2>7. CASE Tick \/ UNCHANGED vars
    BY <2>7 DEF Tick, vars, Running
  <2> QED
    BY <2>1, <2>2, <2>3, <2>4, <2>5, <2>6, <2>7 DEF Next
<1> QED
  BY <1>1, <1>2, TypeCorrect, NumberCorrect, PathCorrect, PTL DEF Spec

-----------------------------------------------------------------------------
(***************************************************************************)
(* A configuration command that was answered in time has left the table,   *)
(* and no thread holds it for a timeout.                                   *)
(***************************************************************************)
TimelyInv ==
  \A c \in Commands :
    style[c] = "cfg" /\ heard[c] = "inTime" =>
      ~Waiting(c) /\ ~TimedOut(c)

\* An acknowledgement that comes before the timeout of a configuration command beats it.
THEOREM AnswerBeatsTimeoutCorrect == Spec => []AnswerBeatsTimeout
<1> USE CommandTableAssumption
<1>1. Init => TimelyInv
  BY DEF Init, TimelyInv
<1>2. TypeOK /\ NumberInv /\ PathInv /\ SentInv /\ TimelyInv /\ [Next]_vars => TimelyInv'
  <2> SUFFICES ASSUME TypeOK, NumberInv, PathInv, SentInv, TimelyInv, [Next]_vars,
                      NEW d \in Commands, style'[d] = "cfg", heard'[d] = "inTime"
               PROVE  ~Waiting(d)' /\ ~TimedOut(d)'
    BY DEF TimelyInv
  <2> USE DEF TypeOK
  <2>1. ASSUME NEW c \in Commands, NEW s \in Styles, Issue(c, s)
        PROVE  ~Waiting(d)' /\ ~TimedOut(d)'
    BY <2>1 DEF Issue, TimelyInv, SentInv, Waiting, TimedOut, Running
  <2>2. ASSUME NEW c \in Commands, Sender(c)
        PROVE  ~Waiting(d)' /\ ~TimedOut(d)'
    <3>1. style[d] = "cfg" /\ heard[d] = "inTime" /\ running' = running
      BY <2>2 DEF Sender, LookupFails, LookupSucceeds, AddBeforeSend, SendSucceeds, SendFails,
                  AddAfterSend
    <3>2. calls'[d]["Timeout"] = calls[d]["Timeout"]
      BY <2>2 DEF Sender, LookupFails, LookupSucceeds, AddBeforeSend, SendSucceeds, SendFails,
                  AddAfterSend, Callback, Status
    <3>3. pc[d] = "done"
      BY <3>1 DEF SentInv, PathInv
    <3>4. CASE AddCommand(c) /\ c # d
      <4>1. Waiting(d)' => Waiting(d)
        BY <3>4 DEF AddCommand, Waiting
      <4> QED
        BY <3>1, <3>2, <4>1 DEF TimelyInv, TimedOut, Running
    <3>5. CASE UNCHANGED commands
      BY <3>1, <3>2, <3>5 DEF TimelyInv, TimedOut, Running, Waiting
    <3> QED
      BY <2>2, <3>3, <3>4, <3>5 DEF Sender, LookupFails, LookupSucceeds, AddBeforeSend,
                                    SendSucceeds, SendFails, AddAfterSend
  <2>3. ASSUME NEW c \in Commands, LidarAnswers(c)
        PROVE  ~Waiting(d)' /\ ~TimedOut(d)'
    BY <2>3 DEF LidarAnswers, TimelyInv, Waiting, TimedOut, Running
  <2>4. ASSUME NEW t \in AckThreads, NEW c \in Commands, ReceiveAck(t, c)
        PROVE  ~Waiting(d)' /\ ~TimedOut(d)'
    <3>1. TimedOut(d)' => TimedOut(d)
      BY <2>4 DEF ReceiveAck, TimedOut, Running
    <3>2. Waiting(d)' => Waiting(d)
      BY <2>4 DEF ReceiveAck, Taken, Empty, Waiting
    <3>3. CASE heard[d] = "inTime"
      BY <2>4, <3>1, <3>2, <3>3 DEF ReceiveAck, TimelyInv
    <3>4. CASE heard[d] # "inTime"
      <4>1. d = c /\ ~TimedOut(d)
        BY <2>4, <3>4 DEF ReceiveAck
      <4>2. \A s \in SeqNumber : commands[s].cmd = d => s \in Answers(c)
        BY <4>1 DEF Answers, NumberInv
      <4>3. ~Waiting(d)'
        BY <2>4, <4>2 DEF ReceiveAck, Taken, Empty, Waiting
      <4> QED
        BY <3>1, <4>1, <4>3
    <3> QED
      BY <3>3, <3>4
  <2>5. ASSUME NEW t \in IoThreads, CommandsHandle(t)
        PROVE  ~Waiting(d)' /\ ~TimedOut(d)'
    <3>1. ~Waiting(d) /\ ~TimedOut(d)
      BY <2>5 DEF CommandsHandle, TimelyInv
    <3>2. d \notin {commands[s].cmd : s \in Overdue}
      BY <3>1 DEF Waiting, Overdue
    <3>3. ~Waiting(d)'
      BY <2>5, <3>1 DEF CommandsHandle, Taken, Empty, Waiting
    <3> QED
      BY <2>5, <3>1, <3>2, <3>3 DEF CommandsHandle, TimedOut, Running
  <2>6. ASSUME NEW t \in IoThreads, RunCallback(t)
        PROVE  ~Waiting(d)' /\ ~TimedOut(d)'
    <3>1. ~Waiting(d) /\ ~TimedOut(d)
      BY <2>6 DEF RunCallback, TimelyInv
    <3>2. PICK c \in running[t].cmds :
            /\ Callback(c, running[t].status)
            /\ running' = [running EXCEPT ![t] =
                             [status |-> running[t].status, cmds |-> running[t].cmds \ {c}]]
      BY <2>6 DEF RunCallback
    <3>3. ~Running(d, "Timeout")'
      BY <3>1, <3>2 DEF TimedOut, Running
    <3>4. calls'[d]["Timeout"] = calls[d]["Timeout"]
      BY <3>1, <3>2 DEF Callback, TimedOut, Running, Status
    <3>5. ~Waiting(d)'
      BY <2>6, <3>1 DEF RunCallback, Waiting
    <3> QED
      BY <3>1, <3>3, <3>4, <3>5 DEF TimedOut
  <2>7. CASE Tick
    <3>1. Waiting(d)' => Waiting(d)
      BY <2>7 DEF Tick, Waiting
    <3> QED
      BY <2>7, <3>1 DEF Tick, TimelyInv, TimedOut, Running
  <2>8. CASE UNCHANGED vars
    BY <2>8 DEF vars, TimelyInv, Waiting, TimedOut, Running
  <2> QED
    BY <2>1, <2>2, <2>3, <2>4, <2>5, <2>6, <2>7, <2>8 DEF Next
<1>3. TypeOK /\ TimelyInv => AnswerBeatsTimeout
  BY DEF TypeOK, TimelyInv, TimedOut, AnswerBeatsTimeout, Status
<1> QED
  BY <1>1, <1>2, <1>3, TypeCorrect, NumberCorrect, PathCorrect, SentCorrect, PTL DEF Spec

-----------------------------------------------------------------------------
(***************************************************************************)
(* A success that was reported, or is about to be, has its acknowledgement.*)
(***************************************************************************)
HeardOf(c) == \E d \in Commands : num[d] = num[c] /\ heard[d] # "never"

SuccessInv ==
  \A c \in Commands : calls[c]["Success"] > 0 \/ Running(c, "Success") => HeardOf(c)

\* Success is only reported to a command whose number was acknowledged.
THEOREM SuccessIsAnsweredCorrect == Spec => []SuccessIsAnswered
<1> USE CommandTableAssumption
<1>1. Init => SuccessInv
  BY DEF Init, SuccessInv, Running, Idle, Status
<1>2. TypeOK /\ NumberInv /\ SentInv /\ SuccessInv /\ [Next]_vars => SuccessInv'
  <2> SUFFICES ASSUME TypeOK, NumberInv, SentInv, SuccessInv, [Next]_vars,
                      NEW e \in Commands,
                      calls'[e]["Success"] > 0 \/ Running(e, "Success")'
               PROVE  HeardOf(e)'
    BY DEF SuccessInv
  <2> USE DEF TypeOK
  <2>1. ASSUME NEW c \in Commands, NEW s \in Styles, Issue(c, s)
        PROVE  HeardOf(e)'
    <3>1. HeardOf(e) /\ e # c
      BY <2>1 DEF Issue, SuccessInv, SentInv, Running
    <3>2. PICK d \in Commands : num[d] = num[e] /\ heard[d] # "never"
      BY <3>1 DEF HeardOf
    <3>3. d # c
      BY <2>1, <3>2 DEF Issue, SentInv
    <3> QED
      BY <2>1, <3>1, <3>2, <3>3 DEF Issue, HeardOf
  <2>2. ASSUME calls'[e]["Success"] = calls[e]["Success"], UNCHANGED <<running, num, heard>>
        PROVE  HeardOf(e)'
    BY <2>2 DEF SuccessInv, HeardOf, Running
  <2>3. ASSUME NEW c \in Commands, Sender(c)
        PROVE  HeardOf(e)'
    <3>1. UNCHANGED calls \/ Callback(c, "SendFailed")
      BY <2>3 DEF Sender, LookupFails, LookupSucceeds, AddBeforeSend, SendSucceeds, SendFails,
                  AddAfterSend
    <3>2. calls'[e]["Success"] = calls[e]["Success"]
      BY <3>1 DEF Callback, Status
    <3> QED
      BY <2>2, <2>3, <3>2 DEF Sender, LookupFails, LookupSucceeds, AddBeforeSend,
                              SendSucceeds, SendFails, AddAfterSend
  <2>4. ASSUME NEW t \in AckThreads, NEW c \in Commands, ReceiveAck(t, c)
        PROVE  HeardOf(e)'
    <3>1. \A d \in Commands : heard[d] # "never" => heard'[d] # "never"
      BY <2>4 DEF ReceiveAck
    <3>2. CASE calls[e]["Success"] > 0 \/ Running(e, "Success")
      BY <2>4, <3>1, <3>2 DEF ReceiveAck, SuccessInv, HeardOf
    <3>3. CASE e \in {commands[s].cmd : s \in Answers(c)}
      <4>1. num[e] = num[c]
        BY <3>3 DEF Answers, NumberInv
      <4>2. heard'[c] # "never"
        BY <2>4 DEF ReceiveAck
      <4> QED
        BY <2>4, <4>1, <4>2 DEF ReceiveAck, HeardOf
    <3> QED
      BY <2>4, <3>2, <3>3 DEF ReceiveAck, Running
  <2>5. ASSUME NEW t \in IoThreads, CommandsHandle(t)
        PROVE  HeardOf(e)'
    BY <2>5 DEF CommandsHandle, SuccessInv, HeardOf, Running
  <2>6. ASSUME NEW t \in IoThreads, RunCallback(t)
        PROVE  HeardOf(e)'
    <3>1. PICK c \in running[t].cmds :
            /\ Callback(c, running[t].status)
            /\ running' = [running EXCEPT ![t] =
                             [status |-> running[t].status, cmds |-> running[t].cmds \ {c}]]
      BY <2>6 DEF RunCallback
    <3>2. calls[e]["Success"] > 0 \/ Running(e, "Success")
      BY <3>1 DEF Callback, Running, Status
    <3> QED
      BY <2>6, <3>2 DEF RunCallback, SuccessInv, HeardOf
  <2> QED
    BY <2>1, <2>2, <2>3, <2>4, <2>5, <2>6 DEF Next, LidarAnswers, Tick, vars
<1>3. TypeOK /\ SuccessInv => SuccessIsAnswered
  BY DEF SuccessInv, HeardOf, SuccessIsAnswered
<1> QED
  BY <1>1, <1>2, <1>3, TypeCorrect, NumberCorrect, SentCorrect, PTL DEF Spec

-----------------------------------------------------------------------------
(***************************************************************************)
(* A command that was added is somewhere, from the addition on.            *)
(***************************************************************************)
Kept(c) == Outcomes(c) > 0 \/ Held(c) \/ Waiting(c) \/ Displaced(c)

Added(c) ==
  \/ style[c] = "cfg" /\ pc[c] \in {"send", "done"}
  \/ ret[c] = "Success"

KeptInv == \A c \in Commands : Added(c) => Kept(c)

\* Entries that go from the table to an idle thread are kept.
LEMMA TakenIsKept ==
  ASSUME TypeOK, NEW c \in Commands, Kept(c),
         NEW t \in IoThreads, IsIdle(t),
         NEW S \in SUBSET SeqNumber,
         NEW st \in {"Success", "Timeout"},
         commands' = Taken(S),
         running' = [running EXCEPT ![t] =
                       [status |-> st, cmds |-> {commands[s].cmd : s \in S}]],
         UNCHANGED <<num, calls>>
  PROVE  Kept(c)'
<1> USE DEF TypeOK
<1>1. CASE Outcomes(c) > 0 \/ Displaced(c)
  BY <1>1 DEF Kept, Outcomes, Displaced
<1>2. CASE Held(c)
  <2>1. PICK u \in IoThreads : c \in running[u].cmds
    BY <1>2 DEF Held
  <2>2. running'[u] = running[u]
    BY <2>1 DEF IsIdle
  <2> QED
    BY <2>1, <2>2 DEF Kept, Held
<1>3. CASE Waiting(c)
  <2>1. PICK s \in SeqNumber : commands[s].cmd = c
    BY <1>3 DEF Waiting
  <2>2. CASE s \in S
    <3>1. c \in running'[t].cmds
      BY <2>1, <2>2
    <3> QED
      BY <3>1 DEF Kept, Held
  <2>3. CASE s \notin S
    <3>1. commands'[s].cmd = c
      BY <2>1, <2>3 DEF Taken
    <3> QED
      BY <3>1 DEF Kept, Waiting
  <2> QED
    BY <2>2, <2>3
<1> QED
  BY <1>1, <1>2, <1>3 DEF Kept

\* A command that was accepted is in the table, with a thread, or concluded, unless its
\* sequence number was used again.
THEOREM NotForgottenCorrect == Spec => []NotForgotten
<1> USE MaxSeqAssumption, CommandTableAssumption DEF SeqNumber
<1>1. Init => KeptInv
  BY DEF Init, KeptInv, Added
<1>2. TypeOK /\ NumberInv /\ PathInv /\ KeptInv /\ [Next]_vars => KeptInv'
  <2> SUFFICES ASSUME TypeOK, NumberInv, PathInv, KeptInv, [Next]_vars,
                      NEW d \in Commands, Added(d)'
               PROVE  Kept(d)'
    BY DEF KeptInv
  <2> USE DEF TypeOK
  <2>1. ASSUME NEW c \in Commands, NEW s \in Styles, Issue(c, s)
        PROVE  Kept(d)'
    <3>1. Added(d) /\ d # c
      BY <2>1 DEF Issue, Added, PathInv
    <3>2. Kept(d) /\ pc[d] # "idle"
      BY <3>1 DEF KeptInv, Added, PathInv
    <3>3. Displaced(d) => Displaced(d)'
      BY <2>1, <3>1, <3>2 DEF Issue, Displaced, NumberInv
    <3> QED
      BY <2>1, <3>2, <3>3 DEF Issue, Kept, Outcomes, Held, Waiting
  <2>2. ASSUME Added(d), UNCHANGED <<commands, running, num>>, Outcomes(d)' = Outcomes(d)
        PROVE  Kept(d)'
    BY <2>2 DEF KeptInv, Kept, Held, Waiting, Displaced
  <2>3. ASSUME NEW c \in Commands, LookupFails(c) \/ LookupSucceeds(c) \/ SendSucceeds(c)
        PROVE  Kept(d)'
    <3>1. Added(d)
      BY <2>3 DEF LookupFails, LookupSucceeds, SendSucceeds, AfterSend, Added, PathInv
    <3> QED
      BY <2>2, <2>3, <3>1 DEF LookupFails, LookupSucceeds, SendSucceeds, Outcomes
  <2>4. ASSUME NEW c \in Commands, SendFails(c)
        PROVE  Kept(d)'
    <3>1. Added(d)
      BY <2>4 DEF SendFails, AfterSend, Added, PathInv
    <3>2. Outcomes(d)' = Outcomes(d)
      BY <2>4 DEF SendFails, Callback, Outcomes, Status
    <3> QED
      BY <2>2, <2>4, <3>1, <3>2 DEF SendFails
  <2>5. ASSUME NEW c \in Commands, AddBeforeSend(c) \/ AddAfterSend(c)
        PROVE  Kept(d)'
    <3>1. AddCommand(c) /\ num[c] \in SeqNumber /\ UNCHANGED <<num, running, calls, style>>
      BY <2>5 DEF AddBeforeSend, AddAfterSend, NumberInv
    <3>2. CASE d = c
      <4>1. commands'[num[c]].cmd = d
        BY <3>1, <3>2 DEF AddCommand
      <4> QED
        BY <3>1, <4>1 DEF Kept, Waiting
    <3>3. CASE d # c /\ num[d] = num[c]
      BY <3>1, <3>3 DEF Kept, Displaced
    <3>4. CASE d # c /\ num[d] # num[c]
      <4>1. Added(d)
        BY <2>5, <3>4 DEF AddBeforeSend, AddAfterSend, Added
      <4>2. Waiting(d) => Waiting(d)'
        BY <3>1, <3>4 DEF AddCommand, Waiting, NumberInv
      <4> QED
        BY <3>1, <4>1, <4>2 DEF KeptInv, Kept, Outcomes, Held, Displaced
    <3> QED
      BY <3>2, <3>3, <3>4
  <2>6. ASSUME NEW t \in AckThreads, NEW c \in Commands, ReceiveAck(t, c)
        PROVE  Kept(d)'
    <3>1. Added(d)
      BY <2>6 DEF ReceiveAck, Added
    <3> QED
      BY <2>6, <3>1, TakenIsKept DEF ReceiveAck, Answers, KeptInv
  <2>7. ASSUME NEW t \in IoThreads, CommandsHandle(t)
        PROVE  Kept(d)'
    <3>1. Added(d)
      BY <2>7 DEF CommandsHandle, Added
    <3> QED
      BY <2>7, <3>1, TakenIsKept DEF CommandsHandle, Overdue, KeptInv
  <2>8. ASSUME NEW t \in IoThreads, RunCallback(t)
        PROVE  Kept(d)'
    <3>1. PICK c \in running[t].cmds :
            /\ Callback(c, running[t].status)
            /\ running' = [running EXCEPT ![t] =
                             [status |-> running[t].status, cmds |-> running[t].cmds \ {c}]]
            /\ UNCHANGED <<style, pc, ret, num, commands>>
      BY <2>8 DEF RunCallback
    <3>2. Kept(d) /\ running[t].status \in {"Success", "Timeout"} /\ c \in Commands
      BY <3>1 DEF Added, KeptInv
    <3>3. CASE d = c
      <4>1. Outcomes(d)' = Outcomes(d) + 1 /\ Outcomes(d) \in Nat
        BY <3>1, <3>2, <3>3 DEF Callback, Outcomes, Status
      <4> QED
        BY <4>1 DEF Kept
    <3>4. CASE d # c
      <4>1. Outcomes(d)' = Outcomes(d)
        BY <3>1, <3>2, <3>4 DEF Callback, Outcomes, Status
      <4>2. Held(d) => Held(d)'
        BY <3>1, <3>4 DEF Held
      <4> QED
        BY <3>1, <3>2, <4>1, <4>2 DEF Kept, Waiting, Displaced
    <3> QED
      BY <3>3, <3>4
  <2>9. CASE Tick
    <3>1. Added(d) /\ Outcomes(d)' = Outcomes(d) /\ UNCHANGED <<running, num>>
      BY <2>9 DEF Tick, Added, Outcomes
    <3>2. Waiting(d) => Waiting(d)'
      BY <2>9 DEF Tick, Waiting
    <3> QED
      BY <3>1, <3>2 DEF KeptInv, Kept, Held, Displaced
  <2>10. ASSUME UNCHANGED <<pc, style, ret, num, commands, running, calls>>
         PROVE  Kept(d)'
    BY <2>10, <2>2 DEF Added, Outcomes
  <2> QED
    BY <2>1, <2>3, <2>4, <2>5, <2>6, <2>7, <2>8, <2>9, <2>10
       DEF Next, Sender, LidarAnswers, vars
<1>3. TypeOK /\ PathInv /\ KeptInv => NotForgotten
  <2> SUFFICES ASSUME TypeOK, PathInv, KeptInv,
                      NEW c \in Commands, pc[c] = "done", ret[c] # "SendFailed"
               PROVE  Kept(c) /\ (Held(c) => Running(c, "Success") \/ Running(c, "Timeout"))
    BY DEF NotForgotten, Kept
  <2>1. Added(c)
    BY DEF TypeOK, PathInv, Added
  <2>2. Held(c) => Running(c, "Success") \/ Running(c, "Timeout")
    BY DEF TypeOK, Held, Running
  <2> QED
    BY <2>1, <2>2 DEF KeptInv
<1> QED
  BY <1>1, <1>2, <1>3, TypeCorrect, NumberCorrect, PathCorrect, PTL DEF Spec

-----------------------------------------------------------------------------
(***************************************************************************)
(* The table implements the ledger. A registration is owed an outcome in   *)
(* the table or at an IO thread; it moves from one to the other, and only  *)
(* a callback pays it, only another entry of the number displaces it.      *)
(***************************************************************************)

\* What a command is owed is a number.
LEMMA OwedIsNat ==
  ASSUME NEW c
  PROVE  Owed(c) \in Nat
<1>1. IsFiniteSet(Holders(c))
  BY CommandTableAssumption, FS_Subset DEF Holders
<1>2. Cardinality(Holders(c)) \in Nat
  BY <1>1, FS_CardinalityType
<1> QED
  BY <1>2 DEF Owed

\* Entries that go from the table to an idle thread are owed as before.
LEMMA TakenIsOwed ==
  ASSUME TypeOK, NumberInv, NEW c \in Commands,
         NEW t \in IoThreads, IsIdle(t),
         NEW S \in SUBSET {s \in SeqNumber : commands[s].cmd # NoCommand},
         NEW st \in {"Success", "Timeout"},
         commands' = Taken(S),
         running' = [running EXCEPT ![t] =
                       [status |-> st, cmds |-> {commands[s].cmd : s \in S}]]
  PROVE  Owed(c)' = Owed(c)
<1> USE DEF TypeOK
<1>1. /\ running'[t].cmds = {commands[s].cmd : s \in S}
      /\ \A u \in IoThreads \ {t} : running'[u] = running[u]
      /\ running[t].cmds = {}
  BY DEF IsIdle
<1>2. t \notin Holders(c) /\ IsFiniteSet(Holders(c))
  BY <1>1, CommandTableAssumption, FS_Subset DEF Holders
<1>3. CASE c \in running'[t].cmds
  <2>1. PICK s \in S : commands[s].cmd = c
    BY <1>1, <1>3
  <2>2. \A r \in SeqNumber : commands[r].cmd = c => r = s
    BY <2>1, CommandTableAssumption DEF NumberInv
  <2>3. Waiting(c) /\ ~Waiting(c)'
    BY <2>1, <2>2, CommandTableAssumption DEF Waiting, Taken, Empty
  <2>4. Holders(c)' = Holders(c) \cup {t}
    BY <1>1, <1>3 DEF Holders
  <2>5. Cardinality(Holders(c)') = Cardinality(Holders(c)) + 1
    BY <1>2, <2>4, FS_AddElement
  <2>6. Cardinality(Holders(c)) \in Nat
    BY <1>2, FS_CardinalityType
  <2> QED
    BY <2>3, <2>5, <2>6 DEF Owed
<1>4. CASE c \notin running'[t].cmds
  <2>1. Waiting(c)' = Waiting(c)
    BY <1>1, <1>4, CommandTableAssumption DEF Waiting, Taken, Empty
  <2>2. Holders(c)' = Holders(c)
    BY <1>1, <1>4 DEF Holders
  <2> QED
    BY <2>1, <2>2 DEF Owed
<1> QED
  BY <1>3, <1>4

\* Adding a command that was registered less than twice registers it, in the place of the
\* command whose entry it overwrites, if any.
LEMMA AddRegisters ==
  ASSUME TypeOK, NumberInv,
         NEW c \in Commands, AddCommand(c), num[c] \in SeqNumber,
         Registrations(c) \in {0, 1}, Registrations(c)' = Registrations(c) + 1,
         \A d \in Commands \ {c} : Registrations(d)' = Registrations(d),
         UNCHANGED <<running, calls>>
  PROVE  Ledger!Next
<1> USE DEF TypeOK
<1>0. PICK old \in Commands \cup {NoCommand} : old = commands[num[c]].cmd
  BY DEF Entry
<1>1. \A d \in Commands : Outcomes(d)' = Outcomes(d) /\ Holders(d)' = Holders(d)
  BY DEF Outcomes, Holders
<1>2. \A s \in SeqNumber : commands'[s].cmd = IF s = num[c] THEN c ELSE commands[s].cmd
  BY DEF AddCommand
<1>3. \A d \in Commands \ {c, old} : Waiting(d)' = Waiting(d)
  BY <1>0, <1>2 DEF Waiting
<1>4. Waiting(c)'
  BY <1>2 DEF Waiting
<1>5. old # NoCommand /\ old # c => Waiting(old) /\ ~Waiting(old)'
  BY <1>0, <1>2, CommandTableAssumption DEF Waiting, NumberInv
<1>6. Waiting(c) <=> old = c
  BY <1>0, CommandTableAssumption DEF Waiting, NumberInv
<1>7. \A d \in Commands : Registrations(d)' = IF d = c THEN Registrations(c) + 1
                                              ELSE Registrations(d)
  OBVIOUS
<1>8. \A d : Owed(d) \in Nat
  BY OwedIsNat
<1>9. \A d \in Commands \ {c, old} : Owed(d)' = Owed(d)
  BY <1>1, <1>3 DEF Owed
<1>10. Cardinality(Holders(c)) \in Nat /\ (old # NoCommand => Cardinality(Holders(old)) \in Nat)
  <2>1. \A d : IsFiniteSet(Holders(d))
    BY CommandTableAssumption, FS_Subset DEF Holders
  <2> QED
    BY <2>1, FS_CardinalityType
<1>11. CASE old = NoCommand
  <2>1. Owed(c)' = Owed(c) + 1
    BY <1>1, <1>4, <1>6, <1>10, <1>11, CommandTableAssumption DEF Owed
  <2>2. \A d \in Commands : Owed(d)' = IF d = c THEN Owed(c) + 1 ELSE Owed(d)
    BY <1>9, <1>11, <2>1, CommandTableAssumption
  <2>3. Ledger!Register(c)
    <3>1. Registrations(c) < 2
      OBVIOUS
    <3>2. [d \in Commands |-> Registrations(d)']
            = [[d \in Commands |-> Registrations(d)] EXCEPT ![c] = Registrations(c) + 1]
      BY <1>7
    <3>3. [d \in Commands |-> Owed(d)']
            = [[d \in Commands |-> Owed(d)] EXCEPT ![c] = Owed(c) + 1]
      BY <2>2
    <3>4. [d \in Commands |-> Outcomes(d)'] = [d \in Commands |-> Outcomes(d)]
      BY <1>1
    <3> QED
      BY <3>1, <3>2, <3>3, <3>4 DEF Ledger!Register
  <2> QED
    BY <2>3 DEF Ledger!Next
<1>12. CASE old = c
  <2>1. \A d \in Commands : Owed(d)' = Owed(d)
    BY <1>1, <1>4, <1>6, <1>9, <1>12 DEF Owed
  <2>2. Owed(c) > 0
    BY <1>6, <1>10, <1>12 DEF Owed
  <2>3. Ledger!Displace(c, c)
    BY <1>1, <1>7, <1>8, <2>1, <2>2 DEF Ledger!Displace
  <2> QED
    BY <2>3 DEF Ledger!Next
<1>13. CASE old \in Commands /\ old # c
  <2>1. Owed(c)' = Owed(c) + 1
    BY <1>1, <1>4, <1>6, <1>10, <1>13 DEF Owed
  <2>2. Owed(old) > 0 /\ Owed(old)' = Owed(old) - 1
    BY <1>1, <1>5, <1>10, <1>13, CommandTableAssumption DEF Owed
  <2>3. \A d \in Commands : Owed(d)' = IF d = c THEN Owed(c) + 1
                                        ELSE IF d = old THEN Owed(old) - 1 ELSE Owed(d)
    BY <1>9, <1>13, <2>1, <2>2
  <2>4. Ledger!Displace(c, old)
    <3>1. Registrations(c) < 2
      OBVIOUS
    <3>2. [d \in Commands |-> Registrations(d)']
            = [[d \in Commands |-> Registrations(d)] EXCEPT ![c] = Registrations(c) + 1]
      BY <1>7
    <3>3. [d \in Commands |-> Owed(d)']
            = [[[d \in Commands |-> Owed(d)] EXCEPT ![c] = Owed(c) + 1]
                 EXCEPT ![old] = Owed(old) - 1]
      BY <1>13, <2>3
    <3>4. [d \in Commands |-> Outcomes(d)'] = [d \in Commands |-> Outcomes(d)]
      BY <1>1
    <3> QED
      BY <1>13, <2>2, <3>1, <3>2, <3>3, <3>4 DEF Ledger!Displace
  <2> QED
    BY <1>13, <2>4 DEF Ledger!Next
<1> QED
  BY <1>0, <1>11, <1>12, <1>13

\* A step that leaves the three accounts of every command alone stutters.
LEMMA LedgerStutters ==
  ASSUME \A d \in Commands : /\ Registrations(d)' = Registrations(d)
                             /\ Owed(d)' = Owed(d)
                             /\ Outcomes(d)' = Outcomes(d)
  PROVE  UNCHANGED Ledger!vars
BY DEF Ledger!vars

\* The table, its lock and the threads that call back pay every registration once, whatever
\* the interleaving: CommandTable implements CommandLedger.
THEOREM LedgerIsKept == Spec => KeepsLedger
<1> USE CommandTableAssumption
<1>1. Init => Ledger!Init
  <2> SUFFICES ASSUME Init, NEW c \in Commands
               PROVE  Registrations(c) = 0 /\ Owed(c) = 0 /\ Outcomes(c) = 0
    BY DEF Ledger!Init
  <2>1. ~Waiting(c) /\ Holders(c) = {}
    BY DEF Init, Waiting, Holders, Empty, Idle
  <2>2. Cardinality(Holders(c)) = 0
    BY <2>1, FS_EmptySet
  <2> QED
    BY <2>1, <2>2 DEF Init, Registrations, Owed, Outcomes, Status
<1>2. TypeOK /\ NumberInv /\ PathInv /\ [Next]_vars => [Ledger!Next]_(Ledger!vars)
  <2> SUFFICES ASSUME TypeOK, NumberInv, PathInv, [Next]_vars
               PROVE  Ledger!Next \/ UNCHANGED Ledger!vars
    OBVIOUS
  <2> USE DEF TypeOK
  <2>1. ASSUME NEW d \in Commands, UNCHANGED <<commands, running>>
        PROVE  Owed(d)' = Owed(d)
    BY <2>1 DEF Owed, Waiting, Holders
  <2>2. ASSUME NEW c \in Commands, NEW s \in Styles, Issue(c, s)
        PROVE  UNCHANGED Ledger!vars
    <3>1. \A d \in Commands : Registrations(d)' = Registrations(d)
      BY <2>2 DEF Issue, Registrations, PathInv
    <3>2. \A d \in Commands : Outcomes(d)' = Outcomes(d)
      BY <2>2 DEF Issue, Outcomes
    <3> QED
      BY <2>1, <2>2, <3>1, <3>2, LedgerStutters DEF Issue
  <2>3. ASSUME NEW c \in Commands, LookupFails(c) \/ LookupSucceeds(c) \/ SendSucceeds(c)
        PROVE  UNCHANGED Ledger!vars
    <3>1. \A d \in Commands : Registrations(d)' = Registrations(d)
      <4>1. CASE LookupFails(c)
        BY <4>1 DEF LookupFails, Registrations, PathInv
      <4>2. CASE LookupSucceeds(c)
        BY <4>2 DEF LookupSucceeds, Registrations, PathInv, AllStyles
      <4>3. CASE SendSucceeds(c)
        BY <4>3 DEF SendSucceeds, AfterSend, Registrations, PathInv
      <4> QED
        BY <2>3, <4>1, <4>2, <4>3
    <3>2. \A d \in Commands : Outcomes(d)' = Outcomes(d)
      BY <2>3 DEF LookupFails, LookupSucceeds, SendSucceeds, Outcomes
    <3> QED
      BY <2>1, <2>3, <3>1, <3>2, LedgerStutters DEF LookupFails, LookupSucceeds, SendSucceeds
  <2>4. ASSUME NEW c \in Commands, SendFails(c)
        PROVE  UNCHANGED Ledger!vars
    <3>1. \A d \in Commands : Registrations(d)' = Registrations(d)
      BY <2>4 DEF SendFails, AfterSend, Registrations, PathInv
    <3>2. \A d \in Commands : Outcomes(d)' = Outcomes(d)
      BY <2>4 DEF SendFails, Callback, Outcomes, Status
    <3> QED
      BY <2>1, <2>4, <3>1, <3>2, LedgerStutters DEF SendFails
  <2>5. ASSUME NEW c \in Commands, AddBeforeSend(c)
        PROVE  Ledger!Next
    <3>1. num[c] \in SeqNumber
      BY <2>5 DEF AddBeforeSend, NumberInv
    <3>2. Registrations(c) = 0 /\ Registrations(c)' = 1
      BY <2>5, SMTT(20) DEF AddBeforeSend, Registrations, PathInv
    <3>3. \A d \in Commands \ {c} : Registrations(d)' = Registrations(d)
      BY <2>5 DEF AddBeforeSend, Registrations
    <3> QED
      BY <2>5, <3>1, <3>2, <3>3, AddRegisters DEF AddBeforeSend
  <2>6. ASSUME NEW c \in Commands, AddAfterSend(c)
        PROVE  Ledger!Next
    <3>1. num[c] \in SeqNumber
      BY <2>6 DEF AddAfterSend, NumberInv
    <3>2. Registrations(c) \in {0, 1} /\ Registrations(c)' = Registrations(c) + 1
      BY <2>6 DEF AddAfterSend, Registrations, PathInv
    <3>3. \A d \in Commands \ {c} : Registrations(d)' = Registrations(d)
      BY <2>6 DEF AddAfterSend, Registrations
    <3> QED
      BY <2>6, <3>1, <3>2, <3>3, AddRegisters DEF AddAfterSend
  <2>7. ASSUME UNCHANGED <<pc, style, ret, calls>>, \A d \in Commands : Owed(d)' = Owed(d)
        PROVE  UNCHANGED Ledger!vars
    BY <2>7, LedgerStutters DEF Registrations, Outcomes
  <2>8. ASSUME NEW t \in AckThreads, NEW c \in Commands, ReceiveAck(t, c)
        PROVE  UNCHANGED Ledger!vars
    <3>1. Answers(c) \in SUBSET {s \in SeqNumber : commands[s].cmd # NoCommand}
      BY DEF Answers
    <3>2. \A d \in Commands : Owed(d)' = Owed(d)
      BY <2>8, <3>1, TakenIsOwed DEF ReceiveAck
    <3> QED
      BY <2>7, <2>8, <3>2 DEF ReceiveAck
  <2>9. ASSUME NEW t \in IoThreads, CommandsHandle(t)
        PROVE  UNCHANGED Ledger!vars
    <3>1. Overdue \in SUBSET {s \in SeqNumber : commands[s].cmd # NoCommand}
      BY DEF Overdue
    <3>2. \A d \in Commands : Owed(d)' = Owed(d)
      BY <2>9, <3>1, TakenIsOwed DEF CommandsHandle
    <3> QED
      BY <2>7, <2>9, <3>2 DEF CommandsHandle
  <2>10. ASSUME NEW t \in IoThreads, RunCallback(t)
         PROVE  Ledger!Next
    <3>1. PICK c \in running[t].cmds :
            /\ Callback(c, running[t].status)
            /\ running' = [running EXCEPT ![t] =
                             [status |-> running[t].status, cmds |-> running[t].cmds \ {c}]]
            /\ UNCHANGED <<style, pc, ret, commands>>
      BY <2>10 DEF RunCallback
    <3>2. /\ running'[t].cmds = running[t].cmds \ {c}
          /\ \A u \in IoThreads \ {t} : running'[u] = running[u]
          /\ running[t].status \in {"Success", "Timeout"}
          /\ c \in Commands
      BY <3>1
    <3>3. \A d \in Commands : Registrations(d)' = Registrations(d) /\ Waiting(d)' = Waiting(d)
      BY <3>1 DEF Registrations, Waiting
    <3>4. Outcomes(c)' = Outcomes(c) + 1
      BY <3>1, <3>2 DEF Callback, Outcomes, Status
    <3>5. \A d \in Commands \ {c} : Outcomes(d)' = Outcomes(d)
      BY <3>1, <3>2 DEF Callback, Outcomes, Status
    <3>6. \A d \in Commands \ {c} : Holders(d)' = Holders(d)
      BY <3>2 DEF Holders
    <3>7. t \in Holders(c) /\ Holders(c)' = Holders(c) \ {t} /\ IsFiniteSet(Holders(c))
      BY <3>1, <3>2, FS_Subset DEF Holders
    <3>8. Cardinality(Holders(c)') = Cardinality(Holders(c)) - 1
      BY <3>7, FS_RemoveElement
    <3>9. Cardinality(Holders(c)) \in Nat /\ Cardinality(Holders(c)') \in Nat
      BY <3>7, FS_CardinalityType, FS_RemoveElement
    <3>10. Owed(c) > 0 /\ Owed(c)' = Owed(c) - 1
      BY <3>2, <3>3, <3>8, <3>9 DEF Owed
    <3>11. \A d \in Commands \ {c} : Owed(d)' = Owed(d)
      BY <3>3, <3>6 DEF Owed
    <3>12. Ledger!Conclude(c)
      BY <3>2, <3>3, <3>4, <3>5, <3>10, <3>11 DEF Ledger!Conclude
    <3> QED
      BY <3>2, <3>12 DEF Ledger!Next
  <2>11. ASSUME Tick
         PROVE  UNCHANGED Ledger!vars
    <3>1. \A d \in Commands : Waiting(d)' = Waiting(d) /\ Holders(d)' = Holders(d)
      BY <2>11 DEF Tick, Waiting, Holders
    <3> QED
      BY <2>7, <2>11, <3>1 DEF Tick, Owed
  <2>12. ASSUME UNCHANGED <<style, pc, ret, commands, running, calls>>
         PROVE  UNCHANGED Ledger!vars
    BY <2>1, <2>7, <2>12
  <2> QED
    BY <2>2, <2>3, <2>4, <2>5, <2>6, <2>8, <2>9, <2>10, <2>11, <2>12
       DEF Next, Sender, LidarAnswers, vars
<1> QED
  BY <1>1, <1>2, TypeCorrect, NumberCorrect, PathCorrect, PTL DEF Spec, KeepsLedger, Ledger!Spec

-----------------------------------------------------------------------------
(***************************************************************************)
(* GenerateSeq: why Issue may take a number in one step.                   *)
(***************************************************************************)
\* The type invariant of the counter and of the calls' local variables.
THEOREM GetSeqTypeCorrect == GetSeqSpec => []GetSeqTypeOK
<1> USE MaxSeqAssumption DEF SeqNumber
<1>1. GetSeqInit => GetSeqTypeOK
  BY DEF GetSeqInit, GetSeqTypeOK, NoTicket
<1>2. GetSeqTypeOK /\ [GetSeqNext]_getSeqVars => GetSeqTypeOK'
  <2> SUFFICES ASSUME GetSeqTypeOK, [GetSeqNext]_getSeqVars
               PROVE  GetSeqTypeOK'
    OBVIOUS
  <2> USE DEF GetSeqTypeOK
  <2>1. ASSUME NEW c \in Calls, Load(c)
        PROVE  GetSeqTypeOK'
    BY <2>1 DEF Load
  <2>2. ASSUME NEW c \in Calls, Swap(c)
        PROVE  GetSeqTypeOK'
    <3>1. seq' \in SeqNumber
      BY <2>2 DEF Swap, Expected, NextSeq
    <3>2. lap' \in Nat
      BY <2>2 DEF Swap
    <3>3. ticket' \in [Calls -> Ticket \cup {NoTicket}]
      BY <2>2, <3>1, <3>2 DEF Swap, Ticket
    <3> QED
      BY <2>2, <3>1, <3>2, <3>3 DEF Swap
  <2>3. ASSUME NEW c \in Calls, SwapFails(c)
        PROVE  GetSeqTypeOK'
    BY <2>3 DEF SwapFails
  <2>4. CASE UNCHANGED getSeqVars
    BY <2>4 DEF getSeqVars
  <2> QED
    BY <2>1, <2>2, <2>3, <2>4 DEF GetSeqNext
<1> QED
  BY <1>1, <1>2, PTL DEF GetSeqSpec

\* A step that moves the counter moves it to the next number.
THEOREM OneNumberAtATimeCorrect == GetSeqSpec => OneNumberAtATime
<1>1. [GetSeqNext]_getSeqVars => [seq' = NextSeq(seq)]_seq
  BY DEF GetSeqNext, getSeqVars, Load, Swap, SwapFails, Expected
<1> QED
  BY <1>1, PTL DEF GetSeqSpec, OneNumberAtATime

-----------------------------------------------------------------------------
(***************************************************************************)
(* Tickets are ordered by lap and number, and the counter is at the latest *)
(* one: this is what makes a new ticket differ from all the others.        *)
(***************************************************************************)
NotAhead(c) ==
  \/ ticket[c].lap < lap
  \/ ticket[c].lap = lap /\ ticket[c].number <= seq

TicketInv ==
  /\ \A c \in Calls : Served(c) => ticket[c] \in Ticket /\ NotAhead(c)
  /\ DistinctInALap

\* Two calls of GetSeq return the same number only if the counter wrapped in between.
THEOREM DistinctInALapCorrect == GetSeqSpec => []DistinctInALap
<1> USE MaxSeqAssumption DEF SeqNumber
<1>1. GetSeqInit => TicketInv
  BY DEF GetSeqInit, TicketInv, DistinctInALap, Served
<1>2. GetSeqTypeOK /\ TicketInv /\ [GetSeqNext]_getSeqVars => TicketInv'
  <2> SUFFICES ASSUME GetSeqTypeOK, TicketInv, [GetSeqNext]_getSeqVars
               PROVE  TicketInv'
    OBVIOUS
  <2> USE DEF GetSeqTypeOK, TicketInv, DistinctInALap, Served, NotAhead
  <2>1. ASSUME NEW c \in Calls, Load(c)
        PROVE  TicketInv'
    BY <2>1 DEF Load
  <2>2. ASSUME NEW c \in Calls, Swap(c)
        PROVE  TicketInv'
    <3>1. /\ ticket'[c] = [lap |-> lap', number |-> seq']
          /\ \A d \in Calls \ {c} : ticket'[d] = ticket[d] /\ at'[d] = at[d]
          /\ at'[c] = "done"
      BY <2>2 DEF Swap
    <3>2. \/ lap' = lap + 1 /\ seq' = 1
          \/ lap' = lap /\ seq' = seq + 1
      BY <2>2 DEF Swap, Expected, NextSeq
    <3>3. ticket'[c] \in Ticket /\ NotAhead(c)'
      BY <3>1, <3>2, <2>2 DEF Ticket, Swap, Expected, NextSeq
    <3>4. \A d \in Calls \ {c} :
            at'[d] = "done" => /\ ticket'[d] \in Ticket
                               /\ NotAhead(d)'
                               /\ ticket'[d] # ticket'[c]
      BY <3>1, <3>2 DEF Ticket
    <3> QED
      BY <3>1, <3>3, <3>4
  <2>3. ASSUME NEW c \in Calls, SwapFails(c)
        PROVE  TicketInv'
    BY <2>3 DEF SwapFails
  <2>4. CASE UNCHANGED getSeqVars
    BY <2>4 DEF getSeqVars
  <2> QED
    BY <2>1, <2>2, <2>3, <2>4 DEF GetSeqNext
<1>3. TicketInv => DistinctInALap
  BY DEF TicketInv
<1> QED
  BY <1>1, <1>2, <1>3, GetSeqTypeCorrect, PTL DEF GetSeqSpec

=============================================================================
