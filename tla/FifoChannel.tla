---------------------------- MODULE FifoChannel ----------------------------
(***************************************************************************)
(* What a bounded single-producer single-consumer channel promises: a      *)
(* sequence to which batches are appended in one step and from which       *)
(* batches are removed in one step, first in first out.  out is the last   *)
(* batch the consumer was given.                                           *)
(***************************************************************************)
EXTENDS Integers, Sequences

CONSTANTS Msg,       \* what travels through the channel
          Capacity   \* how many messages it can hold

VARIABLES chan,      \* the messages in the channel, oldest first
          out        \* the batch returned by the last successful Get

vars == <<chan, out>>

Init ==
    /\ chan = << >>
    /\ out = << >>

\* The producer appends the batch b, if it fits.
Put(b) ==
    /\ Len(chan) + Len(b) <= Capacity
    /\ chan' = chan \o b
    /\ UNCHANGED out

\* The consumer takes the n oldest messages.
Get(n) ==
    /\ out' = SubSeq(chan, 1, n)
    /\ chan' = SubSeq(chan, n + 1, Len(chan))

Next ==
    \/ \E n \in 1..Capacity : \E b \in [1..n -> Msg] : Put(b)
    \/ \E n \in 1..Len(chan) : Get(n)

Spec == Init /\ [][Next]_vars
=============================================================================
