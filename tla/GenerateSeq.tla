---------------------------- MODULE GenerateSeq -----------------------------
(***************************************************************************)
(* GenerateSeq::GetSeq: every thread that builds a command, a detection    *)
(* broadcast or a logger acknowledgement takes its number from one atomic  *)
(* counter, with a compare-and-swap loop and no lock. A member of Calls is *)
(* one call of GetSeq. For the users of the numbers a call is one step:    *)
(* CommandTable moves the same counter.                                    *)
(***************************************************************************)
EXTENDS SeqNumbers

CONSTANT Calls

VARIABLES
  at,       \* where a call is: "load", "swap" or "done"
  value,    \* its local variable: the value it expects in the counter
  lap,      \* history: how often the counter went back to 1
  ticket    \* history: the lap and the number a call took

getSeqVars == <<seq, at, value, lap, ticket>>

NoTicket == [lap |-> 0, number |-> 0]
Ticket == [lap : Nat, number : SeqNumber]

\* The function's static variable starts at 1, so 2 is the first number given out.
GetSeqInit ==
  /\ seq = 1
  /\ at = [c \in Calls |-> "load"]
  /\ value = [c \in Calls |-> 0]
  /\ lap = 0
  /\ ticket = [c \in Calls |-> NoTicket]

Load(c) ==
  /\ at[c] = "load"
  /\ value' = [value EXCEPT ![c] = seq]
  /\ at' = [at EXCEPT ![c] = "swap"]
  /\ UNCHANGED <<seq, lap, ticket>>

\* Mutant of Expected: a plain store, which does not look at the counter again.
ExpectedAlways(c) == TRUE

\* The comparison of compare_exchange_weak.
Expected(c) == seq = value[c]

Swap(c) ==
  /\ at[c] = "swap"
  /\ Expected(c)
  /\ seq' = NextSeq(value[c])
  /\ lap' = IF value[c] = MaxSeq THEN lap + 1 ELSE lap
  /\ ticket' = [ticket EXCEPT ![c] = [lap |-> lap', number |-> seq']]
  /\ at' = [at EXCEPT ![c] = "done"]
  /\ UNCHANGED value

\* The exchange failed, for another thread's swap or spuriously: the expected value is
\* loaded again and the loop goes on.
SwapFails(c) ==
  /\ at[c] = "swap"
  /\ value' = [value EXCEPT ![c] = seq]
  /\ UNCHANGED <<seq, at, lap, ticket>>

GetSeqNext == \E c \in Calls : Load(c) \/ Swap(c) \/ SwapFails(c)

GetSeqSpec == GetSeqInit /\ [][GetSeqNext]_getSeqVars

-----------------------------------------------------------------------------
GetSeqTypeOK ==
  /\ seq \in SeqNumber
  /\ at \in [Calls -> {"load", "swap", "done"}]
  /\ value \in [Calls -> SeqNumber \cup {0}]
  /\ lap \in Nat
  /\ ticket \in [Calls -> Ticket \cup {NoTicket}]

Served(c) == at[c] = "done"

\* Two calls are given the same number only if the counter has wrapped in between: at
\* least one of them is a lap older.
DistinctInALap ==
  \A c, d \in Calls : c # d /\ Served(c) /\ Served(d) => ticket[c] # ticket[d]

\* Whatever the threads' loops do, the counter moves from a number to the next one: a
\* call can be taken for one atomic step.
OneNumberAtATime == [][seq' = NextSeq(seq)]_seq

=============================================================================
