----------------------------- MODULE ObjectRegister ---------------------------
(***************************************************************************)
(* What the replicated object path promises its clients: one register,     *)
(* whose value is the sequence of commands that took effect.  A command    *)
(* takes effect at most once and never ceases to.  An operation that fails *)
(* may or may not have taken effect.                                       *)
(***************************************************************************)
EXTENDS Integers, Sequences

CONSTANTS
    Procs,          \* attempts of commands, and reads
    Commands,
    Reads,          \* kinds of read
    Unknown         \* the operation of a process that has not been invoked

VARIABLES
    chain,          \* the commands that took effect, in order
    op,             \* the command of an attempt, a member of Reads for a read
    status,         \* idle, open, ok or failed
    since,          \* the length of chain when an operation was invoked
    answer          \* what an operation answered: a position of chain

rvars == <<chain, op, status, since, answer>>

Init ==
    /\ chain = <<>>
    /\ op = [p \in Procs |-> Unknown]
    /\ status = [p \in Procs |-> "idle"]
    /\ since = [p \in Procs |-> 0]
    /\ answer = [p \in Procs |-> 0]

Invoke(p) ==
    /\ status[p] = "idle"
    /\ \E o \in Commands \cup Reads : op' = [op EXCEPT ![p] = o]
    /\ status' = [status EXCEPT ![p] = "open"]
    /\ since' = [since EXCEPT ![p] = Len(chain)]
    /\ UNCHANGED <<chain, answer>>

TakeEffect(p) ==
    /\ status[p] = "open"
    /\ op[p] \notin Reads
    /\ \A i \in DOMAIN chain : chain[i] # op[p]
    /\ chain' = Append(chain, op[p])
    /\ UNCHANGED <<op, status, since, answer>>

\* A write answers its own position, a read any value of its interval.
Answer(p, i) ==
    /\ status[p] = "open"
    /\ IF op[p] \in Reads THEN i >= since[p]
                                 ELSE i > 0 /\ chain[i] = op[p]
    /\ status' = [status EXCEPT ![p] = "ok"]
    /\ answer' = [answer EXCEPT ![p] = i]
    /\ UNCHANGED <<chain, op, since>>

Fail(p) ==
    /\ status[p] = "open"
    /\ status' = [status EXCEPT ![p] = "failed"]
    /\ UNCHANGED <<chain, op, since, answer>>

Next ==
    \E p \in Procs :
        \/ Invoke(p)
        \/ TakeEffect(p)
        \/ \E i \in 0..Len(chain) : Answer(p, i)
        \/ Fail(p)

Spec == Init /\ [][Next]_rvars
=============================================================================
