---------------------------- MODULE CommandTable ----------------------------
(***************************************************************************)
(* The pending-command table of the SDK: GeneralCommandHandler::commands_, *)
(* the threads that send commands, and the IO threads that complete them   *)
(* with the lidar's acknowledgement or with a timeout.                     *)
(*                                                                         *)
(* A member of Commands is one Command object, from its construction to    *)
(* its last callback. It takes one of three routes through the code, its   *)
(* style:                                                                  *)
(*   "hap"    GeneralCommandHandler::SendCommand, HapCommandHandler        *)
(*   "mid360" GeneralCommandHandler::SendCommand, Mid360CommandHandler     *)
(*   "cfg"    SetViewLidar or SetCustomLidar of either command handler     *)
(*                                                                         *)
(* Datagrams may be lost (nothing forces a message to be answered or       *)
(* received), delayed, reordered and, when Duplicates is TRUE, duplicated. *)
(***************************************************************************)
EXTENDS SeqNumbers, FiniteSets

CONSTANTS
  Commands,     \* Command objects, model values
  Styles,       \* the routes that are exercised, a subset of AllStyles
  IoThreads,    \* threads whose timer runs CommandsHandle
  AckThreads,   \* the IO threads that also read command sockets
  TimeOut,      \* Command::time_out, in ticks of the clock
  Duplicates,   \* whether the network may duplicate an acknowledgement
  NoCommand     \* no entry under a sequence number

AllStyles == {"hap", "mid360", "cfg"}

ASSUME CommandTableAssumption ==
  /\ Styles \subseteq AllStyles
  /\ AckThreads \subseteq IoThreads
  /\ IsFiniteSet(IoThreads)
  /\ TimeOut \in Nat \ {0}
  /\ Duplicates \in BOOLEAN
  /\ NoCommand \notin Commands

VARIABLES
  pc,         \* where the thread that sends a command is
  style,      \* the route of a command
  num,        \* packet.seq_num, 0 before the command is built
  ret,        \* what GeneralCommandHandler::SendCommand returned
  commands,   \* commands_: the entry of every sequence number
  wire,       \* commands whose request datagram is on its way
  acks,       \* commands whose acknowledgement is on its way
  running,    \* callbacks an IO thread still has to call, outside the lock
  calls,      \* history: how often a command's callback got each status
  heard       \* history: when a command's acknowledgement was first received

vars == <<seq, pc, style, num, ret, commands, wire, acks, running, calls, heard>>

Status == {"Success", "Timeout", "SendFailed"}
Step == {"idle", "lookup", "add", "send", "keep", "done"}

Entry == [cmd : Commands \cup {NoCommand}, left : 0 .. TimeOut]
Empty == [cmd |-> NoCommand, left |-> 0]
Idle == [status |-> "Success", cmds |-> {}]

Init ==
  /\ seq = 1
  /\ pc = [c \in Commands |-> "idle"]
  /\ style = [c \in Commands |-> "cfg"]
  /\ num = [c \in Commands |-> 0]
  /\ ret = [c \in Commands |-> "none"]
  /\ commands = [s \in SeqNumber |-> Empty]
  /\ wire = {}
  /\ acks = {}
  /\ running = [t \in IoThreads |-> Idle]
  /\ calls = [c \in Commands |-> [st \in Status |-> 0]]
  /\ heard = [c \in Commands |-> "never"]

-----------------------------------------------------------------------------
(***************************************************************************)
(* The thread that sends a command: a thread of the application or an IO   *)
(* thread inside a callback.                                               *)
(***************************************************************************)

\* The callback of c is called with status st.
Callback(c, st) == calls' = [calls EXCEPT ![c][st] = @ + 1]

\* commands_[seq] = (command, deadline): whatever entry the number had is overwritten.
AddCommand(c) == commands' = [commands EXCEPT ![num[c]] = [cmd |-> c, left |-> TimeOut]]

\* Build the Command with the next sequence number.
Issue(c, s) ==
  /\ pc[c] = "idle"
  /\ seq' = NextSeq(seq)
  /\ num' = [num EXCEPT ![c] = seq']
  /\ style' = [style EXCEPT ![c] = s]
  /\ pc' = [pc EXCEPT ![c] = IF s = "cfg" THEN "add" ELSE "lookup"]
  /\ UNCHANGED <<ret, commands, wire, acks, running, calls, heard>>

\* No command handler for the handle: the lidar has not been detected.
LookupFails(c) ==
  /\ pc[c] = "lookup"
  /\ pc' = [pc EXCEPT ![c] = "done"]
  /\ ret' = [ret EXCEPT ![c] = "SendFailed"]
  /\ UNCHANGED <<seq, style, num, commands, wire, acks, running, calls, heard>>

\* The handler of a HAP adds the command to the table before it sends it.
LookupSucceeds(c) ==
  /\ pc[c] = "lookup"
  /\ pc' = [pc EXCEPT ![c] = IF style[c] = "hap" THEN "add" ELSE "send"]
  /\ UNCHANGED <<seq, style, num, ret, commands, wire, acks, running, calls, heard>>

\* AddCommand by the device type's command handler, before sendto.
AddBeforeSend(c) ==
  /\ pc[c] = "add"
  /\ AddCommand(c)
  /\ pc' = [pc EXCEPT ![c] = "send"]
  /\ UNCHANGED <<seq, style, num, ret, wire, acks, running, calls, heard>>

\* Mutant of AfterSend: the configuration commands are sent with the general
\* SendCommand, which adds them to the table a second time.
AfterSendKeep(c) == pc' = [pc EXCEPT ![c] = "keep"]

\* The command handler is left after sendto. SetViewLidar and SetCustomLidar end
\* there; GeneralCommandHandler::SendCommand goes on, whatever the handler returned.
AfterSend(c) == pc' = [pc EXCEPT ![c] = IF style[c] = "cfg" THEN "done" ELSE "keep"]

SendSucceeds(c) ==
  /\ pc[c] = "send"
  /\ wire' = wire \cup {c}
  /\ AfterSend(c)
  /\ UNCHANGED <<seq, style, num, ret, commands, acks, running, calls, heard>>

\* sendto returned a negative value: the callback is called at once. The entry that
\* was added before stays in the table.
SendFails(c) ==
  /\ pc[c] = "send"
  /\ Callback(c, "SendFailed")
  /\ AfterSend(c)
  /\ UNCHANGED <<seq, style, num, ret, commands, wire, acks, running, heard>>

\* GeneralCommandHandler::SendCommand adds the command after the handler sent it.
AddAfterSend(c) ==
  /\ pc[c] = "keep"
  /\ AddCommand(c)
  /\ pc' = [pc EXCEPT ![c] = "done"]
  /\ ret' = [ret EXCEPT ![c] = "Success"]
  /\ UNCHANGED <<seq, style, num, wire, acks, running, calls, heard>>

-----------------------------------------------------------------------------
(***************************************************************************)
(* The lidar and the IO threads. An IO thread takes entries out of the     *)
(* table under commands_mutex_ and calls their callbacks after unlocking.  *)
(***************************************************************************)

\* The lidar acknowledges a request it has received.
LidarAnswers(c) ==
  /\ c \in wire
  /\ wire' = wire \ {c}
  /\ acks' = acks \cup {c}
  /\ UNCHANGED <<seq, pc, style, num, ret, commands, running, calls, heard>>

IsIdle(t) == running[t].cmds = {}

\* Thread t has taken the entry of c and is about to call its callback with st.
Running(c, st) == \E t \in IoThreads : running[t].status = st /\ c \in running[t].cmds

TimedOut(c) == calls[c]["Timeout"] > 0 \/ Running(c, "Timeout")

\* Mutants of Taken: the entries that are found stay in the table; the whole table
\* is cleared.
TakenNothing(S) == commands
TakenAll(S) == [s \in SeqNumber |-> Empty]

\* The table without the entries of the sequence numbers in S.
Taken(S) == [s \in SeqNumber |-> IF s \in S THEN Empty ELSE commands[s]]

\* Mutant of Answers: any entry is completed when the number is not in the table.
AnswersAny(c) == {s \in SeqNumber : commands[s].cmd # NoCommand}

\* The entry that the acknowledgement of c completes: the one with its number.
Answers(c) == {s \in SeqNumber : s = num[c] /\ commands[s].cmd # NoCommand}

\* The acknowledgement of c arrives; one whose number is not in the table is dropped.
ReceiveAck(t, c) ==
  /\ IsIdle(t)
  /\ c \in acks
  /\ acks' \in {acks \ {c}} \cup (IF Duplicates THEN {acks} ELSE {})
  /\ commands' = Taken(Answers(c))
  /\ running' = [running EXCEPT ![t] =
                   [status |-> "Success", cmds |-> {commands[s].cmd : s \in Answers(c)}]]
  /\ heard' = IF heard[c] # "never" THEN heard
              ELSE [heard EXCEPT ![c] = IF TimedOut(c) THEN "late" ELSE "inTime"]
  /\ UNCHANGED <<seq, pc, style, num, ret, wire, calls>>

\* Mutant of Overdue: the deadline is never reached.
OverdueNever == {}

Overdue == {s \in SeqNumber : commands[s].cmd # NoCommand /\ commands[s].left = 0}

\* The timer of an IO thread: every overdue entry is taken out of the table.
CommandsHandle(t) ==
  /\ IsIdle(t)
  /\ Overdue # {}
  /\ commands' = Taken(Overdue)
  /\ running' = [running EXCEPT ![t] =
                   [status |-> "Timeout", cmds |-> {commands[s].cmd : s \in Overdue}]]
  /\ UNCHANGED <<seq, pc, style, num, ret, wire, acks, calls, heard>>

\* The thread calls the next of the callbacks it has collected.
RunCallback(t) == \E c \in running[t].cmds :
  /\ Callback(c, running[t].status)
  /\ running' = [running EXCEPT ![t] =
                   [status |-> running[t].status, cmds |-> running[t].cmds \ {c}]]
  /\ UNCHANGED <<seq, pc, style, num, ret, commands, wire, acks, heard>>

\* Time passes. The entries keep the time left to their deadlines, not a date.
Tick ==
  /\ \E s \in SeqNumber : commands[s].left > 0
  /\ commands' = [s \in SeqNumber |->
                    [cmd |-> commands[s].cmd,
                     left |-> IF commands[s].left > 0 THEN commands[s].left - 1 ELSE 0]]
  /\ UNCHANGED <<seq, pc, style, num, ret, wire, acks, running, calls, heard>>

-----------------------------------------------------------------------------
Sender(c) ==
  \/ LookupFails(c)
  \/ LookupSucceeds(c)
  \/ AddBeforeSend(c)
  \/ SendSucceeds(c)
  \/ SendFails(c)
  \/ AddAfterSend(c)

Next ==
  \/ \E c \in Commands, s \in Styles : Issue(c, s)
  \/ \E c \in Commands : Sender(c)
  \/ \E c \in Commands : LidarAnswers(c)
  \/ \E t \in AckThreads, c \in Commands : ReceiveAck(t, c)
  \/ \E t \in IoThreads : CommandsHandle(t)
  \/ \E t \in IoThreads : RunCallback(t)
  \/ Tick

Spec == Init /\ [][Next]_vars

(***************************************************************************)
(* Time passes, the loop of every IO thread runs its timer at least every  *)
(* 50 ms, callbacks return, and a thread inside SendCommand goes on. Not   *)
(* assumed: that a command is issued, that the lidar answers, that a       *)
(* datagram arrives.                                                       *)
(***************************************************************************)
Fairness ==
  /\ WF_vars(Tick)
  /\ \A t \in IoThreads : WF_vars(CommandsHandle(t)) /\ WF_vars(RunCallback(t))
  /\ \A c \in Commands : WF_vars(Sender(c))

FairSpec == Spec /\ Fairness

-----------------------------------------------------------------------------
(***************************************************************************)
(* Properties.                                                             *)
(***************************************************************************)

TypeOK ==
  /\ seq \in SeqNumber
  /\ pc \in [Commands -> Step]
  /\ style \in [Commands -> AllStyles]
  /\ num \in [Commands -> SeqNumber \cup {0}]
  /\ ret \in [Commands -> {"none", "Success", "SendFailed"}]
  /\ commands \in [SeqNumber -> Entry]
  /\ wire \subseteq Commands
  /\ acks \subseteq Commands
  /\ running \in [IoThreads -> [status : {"Success", "Timeout"}, cmds : SUBSET Commands]]
  /\ calls \in [Commands -> [Status -> Nat]]
  /\ heard \in [Commands -> {"never", "inTime", "late"}]

\* The command waits in the table.
Waiting(c) == \E s \in SeqNumber : commands[s].cmd = c

\* Callbacks that report an outcome of the exchange with the lidar.
Outcomes(c) == calls[c]["Success"] + calls[c]["Timeout"]

\* Another command was given the same sequence number: 65535 later in the code.
Displaced(c) == \E d \in Commands \ {c} : num[d] = num[c]

\* A command that is added to the table once has at most one outcome, whichever
\* threads race for its entry: never both an answer and a timeout, never two of them.
OneOutcome == \A c \in Commands : style[c] # "hap" => Outcomes(c) <= 1

\* A callback gets Success only after the acknowledgement of a command with the same
\* sequence number was received: the command's own, unless the command is displaced.
SuccessIsAnswered ==
  \A c \in Commands :
    calls[c]["Success"] > 0 =>
      \E d \in Commands : num[d] = num[c] /\ heard[d] # "never"

\* A configuration command, which is in the table before it is sent, is never reported
\* as timed out when its acknowledgement was received before the timeout.
AnswerBeatsTimeout ==
  \A c \in Commands :
    style[c] = "cfg" /\ heard[c] = "inTime" => calls[c]["Timeout"] = 0

\* A command that was accepted is not forgotten: its callback has been called, or is
\* about to be called by some thread, or its entry is in the table, unless its sequence
\* number was used again.
NotForgotten ==
  \A c \in Commands :
    pc[c] = "done" /\ ret[c] # "SendFailed" =>
      \/ Outcomes(c) > 0
      \/ Running(c, "Success") \/ Running(c, "Timeout")
      \/ Waiting(c)
      \/ Displaced(c)

\* Every command is concluded: its sender is told that there is no handler, or its
\* callback gets an outcome, unless its sequence number is used again before.
EveryCommandConcludes ==
  \A c \in Commands :
    pc[c] # "idle" ~> (Outcomes(c) > 0 \/ ret[c] = "SendFailed" \/ Displaced(c))

-----------------------------------------------------------------------------
(***************************************************************************)
(* The refinement mapping. A command is owed one outcome for its entry in  *)
(* the table and one for every thread that is about to call its callback.  *)
(***************************************************************************)
Holders(c) == {t \in IoThreads : c \in running[t].cmds}

Owed(c) == (IF Waiting(c) THEN 1 ELSE 0) + Cardinality(Holders(c))

Registrations(c) ==
  (IF style[c] # "mid360" /\ pc[c] \in {"send", "keep", "done"} /\ ret[c] # "SendFailed"
      THEN 1 ELSE 0) +
  (IF ret[c] = "Success" THEN 1 ELSE 0)

Ledger == INSTANCE CommandLedger WITH
  registered <- [c \in Commands |-> Registrations(c)],
  owed <- [c \in Commands |-> Owed(c)],
  outcomes <- [c \in Commands |-> Outcomes(c)]

\* The table, its lock and the callbacks collected by the threads keep the ledger: no
\* interleaving pays a registration twice, pays one that was not made, or loses one.
KeepsLedger == Ledger!Spec

=============================================================================
