----------------------------- MODULE EventPump ------------------------------
(***************************************************************************)
(* events/: a pump receives what a backend sends on a tokio broadcast      *)
(* channel and forwards it, numbered, to the subscribers of a topic, under *)
(* the supervision of spawn_supervised.  The channel keeps the last Lag    *)
(* messages; each receiver has a position of its own in what was sent.     *)
(* The modules that send on a channel extend this one.                     *)
(***************************************************************************)
EXTENDS Naturals, Sequences

CONSTANTS
    Lag,       \* capacity of the broadcast channel (256 in the code)
    MaxPanics  \* bound: panics of the pump

ASSUME PumpAssumption == Lag \in Nat \ {0} /\ MaxPanics \in Nat

VARIABLES
    ring,    \* history: everything sent on the channel
    pump,    \* up: does it run?  pos: its receiver; seq: next number; life: its starts
    feed,    \* history: the events of the topic, naming positions of ring
    skipped  \* history: positions that no pump forwarded

pumpVars == <<pump, feed, skipped>>

PumpTypeOK ==
    /\ pump \in [up : BOOLEAN, pos : 0..Len(ring), seq : Nat, life : 0..MaxPanics + 1]
    /\ feed \in Seq([life : 0..MaxPanics + 1, seq : Nat, at : 1..Len(ring)])
    /\ skipped \subseteq 1..Len(ring)

\* Nothing is sent yet, and no pump runs: the backends are assembled, and what
\* they spawn may send, before the daemon starts the first one.
PumpInit ==
    /\ ring = << >> /\ feed = << >> /\ skipped = {}
    /\ pump = [up |-> FALSE, pos |-> 0, seq |-> 0, life |-> 0]

Broadcast(x) == ring' = Append(ring, x)

Behind == Len(ring) - pump.pos

\* recv, then send on the topic: nobody need listen.
Forward ==
    /\ pump.up /\ Behind \in 1..Lag
    /\ feed' = Append(feed, [life |-> pump.life, seq |-> pump.seq, at |-> pump.pos + 1])
    /\ pump' = [pump EXCEPT !.pos = @ + 1, !.seq = @ + 1]
    /\ UNCHANGED <<ring, skipped>>

\* RecvError::Lagged: the receiver moves to the oldest message still held.
SkipLagged ==
    /\ pump.up /\ Behind > Lag
    /\ skipped' = skipped \cup (pump.pos + 1 .. Len(ring) - Lag)
    /\ pump' = [pump EXCEPT !.pos = Len(ring) - Lag]
    /\ UNCHANGED <<ring, feed>>

\* catch_unwind; the receiver is dropped with the future.
PumpPanics ==
    /\ pump.up /\ pump.life <= MaxPanics
    /\ pump' = [pump EXCEPT !.up = FALSE]
    /\ UNCHANGED <<ring, feed, skipped>>

\* A slip: the new receiver begins with what the channel still holds.
PumpReplays(first) ==
    /\ ~ pump.up
    /\ pump' = [up |-> TRUE, pos |-> IF Len(ring) > Lag THEN Len(ring) - Lag ELSE 0,
                seq |-> first, life |-> pump.life + 1]
    /\ UNCHANGED <<ring, feed, skipped>>

\* The factory builds a pump, the first one or another after a panic and its
\* backoff.  Its receiver sees only what is sent from now on; `first` is the
\* number it begins with.
PumpStarts(first) ==
    /\ ~ pump.up
    /\ skipped' = skipped \cup (pump.pos + 1 .. Len(ring))
    /\ pump' = [up |-> TRUE, pos |-> Len(ring), seq |-> first, life |-> pump.life + 1]
    /\ UNCHANGED <<ring, feed>>

\* Subscribers see messages in the order they were sent and each at most once,
\* across panics and restarts; the rest, from before the first start on, is
\* accounted for as skipped.
ForwardsInOrder ==
    /\ \A i \in 1..Len(feed) - 1 : feed[i].at < feed[i+1].at
    /\ pump.up => {feed[i].at : i \in 1..Len(feed)} \cup skipped = 1..pump.pos
=============================================================================
