--------------------------- MODULE CommandLedger ----------------------------
(***************************************************************************)
(* What the table of pending commands promises, without sequence numbers,  *)
(* threads, locks or datagrams: every registration of a command is paid    *)
(* with at most one outcome of its callback, or dropped when the sequence  *)
(* number goes to another command.                                         *)
(***************************************************************************)
EXTENDS Naturals

CONSTANT Commands

VARIABLES
  registered,   \* how often a command was registered
  owed,         \* registrations without an outcome
  outcomes      \* outcomes its callback was called with

vars == <<registered, owed, outcomes>>

Init ==
  /\ registered = [c \in Commands |-> 0]
  /\ owed = [c \in Commands |-> 0]
  /\ outcomes = [c \in Commands |-> 0]

\* A command is registered twice at most: by its handler and by the general handler.
Register(c) ==
  /\ registered[c] < 2
  /\ registered' = [registered EXCEPT ![c] = @ + 1]
  /\ owed' = [owed EXCEPT ![c] = @ + 1]
  /\ UNCHANGED outcomes

\* The registration of c takes the place of one of d, which may be c itself.
Displace(c, d) ==
  /\ registered[c] < 2
  /\ owed[d] > 0
  /\ registered' = [registered EXCEPT ![c] = @ + 1]
  /\ owed' = [[owed EXCEPT ![c] = @ + 1] EXCEPT ![d] = @ - 1]
  /\ UNCHANGED outcomes

Conclude(c) ==
  /\ owed[c] > 0
  /\ owed' = [owed EXCEPT ![c] = @ - 1]
  /\ outcomes' = [outcomes EXCEPT ![c] = @ + 1]
  /\ UNCHANGED registered

Next ==
  \E c \in Commands :
    \/ Register(c)
    \/ \E d \in Commands : Displace(c, d)
    \/ Conclude(c)

Spec == Init /\ [][Next]_vars

=============================================================================
