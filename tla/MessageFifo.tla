----------------------------- MODULE MessageFifo -----------------------------
(***************************************************************************)
(* What the output side of a session promises its callers: a queue of      *)
(* message contents per session that drops a new message according to its  *)
(* priority and the number of messages waiting, writes the others to the   *)
(* socket whole and in order, and forgets them when the session goes.      *)
(***************************************************************************)
EXTENDS Integers, Sequences

CONSTANTS
    Sessions, Messages,
    Depth,      \* size of the queue; one slot of it is never used
    Units       \* pieces in which a message leaves

VARIABLES
    fifo,       \* contents waiting, oldest first
    cursor,     \* pieces of the oldest one already written
    state       \* "none", "open" or "closing"

fifoVars == <<fifo, cursor, state>>

Init ==
    /\ fifo = [s \in Sessions |-> << >>]
    /\ cursor = [s \in Sessions |-> 0]
    /\ state = [s \in Sessions |-> "none"]

\* A message of priority p (0 is the highest, 3 the lowest) is taken while
\* p quarters of the queue, and one slot, stay free.
Takes(s, p) == Len(fifo[s]) + 1 + (p * Depth) \div 4 < Depth

\* Queue f loses k pieces at its front; a queue that is not written out may
\* end the session.
Write(s, f) ==
    \E k \in 0 .. Len(f) * Units - cursor[s] :
        /\ fifo' = [fifo EXCEPT ![s] = SubSeq(f, (cursor[s] + k) \div Units + 1, Len(f))]
        /\ cursor' = [cursor EXCEPT ![s] = (@ + k) % Units]
        /\ \/ UNCHANGED state
           \/ /\ k < Len(f) * Units - cursor[s]
              /\ state' = [state EXCEPT ![s] = "closing"]

Offer(s, m, p) ==
    /\ state[s] # "none"
    /\ Takes(s, p)
    /\ \/ /\ fifo' = [fifo EXCEPT ![s] = Append(@, m)]
          /\ UNCHANGED <<cursor, state>>
       \/ /\ state[s] = "open"
          /\ Write(s, Append(fifo[s], m))

Flush(s) ==
    /\ state[s] = "open"
    /\ Write(s, fifo[s])

Open(s) ==
    /\ state[s] = "none"
    /\ state' = [state EXCEPT ![s] = "open"]
    /\ UNCHANGED <<fifo, cursor>>

GiveUp(s) ==
    /\ state[s] = "open"
    /\ state' = [state EXCEPT ![s] = "closing"]
    /\ UNCHANGED <<fifo, cursor>>

Close(s) ==
    /\ state[s] = "closing"
    /\ fifo' = [fifo EXCEPT ![s] = << >>]
    /\ cursor' = [cursor EXCEPT ![s] = 0]
    /\ state' = [state EXCEPT ![s] = "none"]

Next ==
    \E s \in Sessions :
        \/ \E m \in Messages, p \in 0 .. 3 : Offer(s, m, p)
        \/ Flush(s)
        \/ Open(s)
        \/ GiveUp(s)
        \/ Close(s)

Spec == Init /\ [][Next]_fifoVars

=============================================================================
