----------------------------- MODULE MCScheduler -----------------------------
(***************************************************************************)
(* MulticoreScheduler with two actors, in the shapes of communication that *)
(* bring out one behaviour each.                                           *)
(***************************************************************************)
EXTENDS MulticoreScheduler, TLC

CONSTANTS a1, a2

\* Two iterations of every processing loop: enough to stop in the middle of a
\* mailbox.
MCLimit == [drain |-> 2, fused |-> 2, scan |-> 2, flush |-> 2]

\* Where the actors live.
Apart == a1 :> 0 @@ a2 :> 1
Same == a1 :> 0 @@ a2 :> 0

Load(home, to1, to2, toMain, n) ==
    [home |-> home, targets |-> a1 :> to1 @@ a2 :> to2 @@ Main :> toMain, panics |-> {},
     stealable |-> {}, preempt |-> FALSE, messages |-> n]

\* Two actors on different cores that answer each other: migration.
PingPong == {Load(Apart, {a2}, {a1}, {a1}, 4)}
\* The first also sends to itself, and Main to both.
Mixed == {[Load(Apart, {a1, a2}, {a1}, {a1, a2}, 4) EXCEPT !.preempt = TRUE]}
\* An actor that sends to itself and is sent to from everywhere: full mailboxes.
SelfSend == [Load(Apart, {a1}, {a1}, {a1, a2}, 5) EXCEPT !.preempt = TRUE]
\* A producer and a consumer that start on one core: inlining, stealing, panics.
Chain == [Load(Same, {a2}, {}, {a1, a2}, 3) EXCEPT !.panics = {a2}, !.stealable = {a2}]
Faults == {SelfSend, Chain}
\* An actor that sends to itself and to another on the only core: nested flushes.
Nested == {Load(Same, {a1, a2}, {}, {a1}, 8)}

\* No message is lost or doubled and the counters that scheduler_wait compares are
\* right (MulticoreScheduler: TypeOK, Conserved, Accounting, Quiescent).
MessagesSound == TypeOK /\ Conserved /\ Accounting /\ Quiescent
=============================================================================
