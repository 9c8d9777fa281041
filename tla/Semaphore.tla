------------------------------ MODULE Semaphore ------------------------------
(***************************************************************************)
(* What the {active, queue[]} limiters of the monitor promise their        *)
(* callers: a counting semaphore with a FIFO line.  There is no counter    *)
(* here, only the set of processes that hold a slot: whoever stops holding *)
(* passes the slot to the head of the line, a process leaves the line only *)
(* by getting a slot or by withdrawing, and it queues only when every slot *)
(* is taken.                                                               *)
(***************************************************************************)
EXTENDS Naturals, Sequences, FiniteSets, SequencesExt

CONSTANTS Procs,     \* the callers
          Capacity   \* number of slots

VARIABLES holders,   \* processes that own a slot
          line       \* processes that wait, longest first

semVars == <<holders, line>>

Init ==
  /\ holders = {}
  /\ line = <<>>

\* A slot is free and nobody waits for it.
Enter(p) ==
  /\ p \notin holders
  /\ line = <<>>
  /\ Cardinality(holders) < Capacity
  /\ holders' = holders \cup {p}
  /\ UNCHANGED line

\* Every slot is taken: join the line.
Wait(p) ==
  /\ p \notin holders
  /\ \A i \in DOMAIN line : line[i] # p
  /\ Cardinality(holders) = Capacity
  /\ line' = Append(line, p)
  /\ UNCHANGED holders

\* Give up before being served; everybody else keeps their place.
Withdraw(p) ==
  /\ \E i \in DOMAIN line : line[i] = p /\ line' = RemoveAt(line, i)
  /\ UNCHANGED holders

\* Give the slot back, or hand it to the head of the line.
Leave(p) ==
  /\ p \in holders
  /\ \/ /\ line = <<>>
        /\ holders' = holders \ {p}
        /\ UNCHANGED line
     \/ /\ line # <<>>
        /\ holders' = (holders \ {p}) \cup {Head(line)}
        /\ line' = Tail(line)

Next == \E p \in Procs : Enter(p) \/ Wait(p) \/ Withdraw(p) \/ Leave(p)

Spec == Init /\ [][Next]_semVars

=============================================================================
