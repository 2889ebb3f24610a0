----------------------------- MODULE AuditQueue -----------------------------
(***************************************************************************)
(* audit/file.rs: FileAuditSink (emit, shutdown) and the loop of           *)
(* FileAuditWriter::run.  Request threads push events into a bounded       *)
(* channel without waiting; when it is full the event is refused and, in a *)
(* second step, a shared counter goes up.  One writer thread turns the     *)
(* counter into a loss record, collects a batch and writes it, until it is *)
(* told to stop or every sink is gone.  What a written batch does to the   *)
(* files is AuditFile's subject; here a batch is written or lost.          *)
(***************************************************************************)
EXTENDS Naturals, Sequences, FiniteSets

CONSTANTS
    Producers,  \* threads that emit
    Capacity,   \* cfg.audit.queue
    BATCH,      \* events written per flush
    MaxEvents,  \* bound: events emitted in one behaviour
    MaxLost     \* bound: a write may fail while fewer records are lost; 0: no file fails

ASSUME QueueAssumption ==
    /\ Capacity \in Nat \ {0} /\ BATCH \in Nat \ {0} /\ MaxEvents \in Nat
    /\ MaxLost \in Nat

Event(e) == [kind |-> "event", n |-> e]   \* the e-th event emitted
Loss(n)  == [kind |-> "loss", n |-> n]    \* AuditLoss, dropped=n
Shutdown == [kind |-> "shutdown", n |-> 0]

VARIABLES
    queue,    \* the mpsc channel
    dropped,  \* the AtomicU64
    refused,  \* producers between a failed try_send and fetch_add
    sinks,    \* is some clone of the sink alive?
    pc,       \* where the writer is in `run`
    batch,
    stopping,
    emitted,  \* number of emit calls that have done their try_send
    written,  \* history: records handed to the files, in order
    vanished, \* history: what a failed write_batch or a disabled writer lost
    asked,    \* history: "no" shutdown() yet, "queued" or "full"
    promised  \* history: the pipeline's events, the drops counted and `emitted`, at shutdown()

vars == <<queue, dropped, refused, sinks, pc, batch, stopping,
          emitted, written, vanished, asked, promised>>
writerVars == <<pc, batch, stopping, written, vanished>>

IsEvent(m) == m.kind = "event"

\* The numbers of the events in s.
EventsIn(s) == {s[i].n : i \in {i \in DOMAIN s : IsEvent(s[i])}}

\* How many events the entries of one kind stand for: an event for itself, a
\* loss for as many as it says.
StandsFor(m)  == IF IsEvent(m) THEN {m.n} ELSE 1..m.n
Of(s, kind)   == {i \in DOMAIN s : s[i].kind = kind}
Told(s, kind) == Cardinality(UNION {{i} \X StandsFor(s[i]) : i \in Of(s, kind)})
Lost(s)       == Told(s, "loss")

Messages == [kind : {"event", "shutdown"}, n : 0..MaxEvents]
Records  == [kind : {"event", "loss"}, n : 0..MaxEvents]

TypeOK ==
    /\ queue \in Seq(Messages) /\ Len(queue) <= Capacity
    /\ dropped \in 0..MaxEvents
    /\ refused \subseteq Producers
    /\ sinks \in BOOLEAN /\ stopping \in BOOLEAN
    /\ pc \in {"start", "disabled", "top", "recv", "fill", "write",
               "drain", "final", "last", "exited"}
    /\ batch \in Seq(Records)
    /\ emitted \in 0..MaxEvents
    /\ written \in Seq(Records)
    /\ vanished \in Seq(Records)
    /\ asked \in {"no", "queued", "full"}
    /\ promised.events \in SUBSET (1..MaxEvents)
    /\ promised.drops \in 0..MaxEvents /\ promised.upto \in 0..MaxEvents

Init ==
    /\ queue = << >> /\ dropped = 0 /\ refused = {} /\ sinks = TRUE
    /\ pc = "start" /\ batch = << >> /\ stopping = FALSE
    /\ emitted = 0 /\ written = << >> /\ vanished = << >>
    /\ asked = "no" /\ promised = [events |-> {}, drops |-> 0, upto |-> 0]

-----------------------------------------------------------------------------
(* FileAuditSink.                                                          *)

\* try_send succeeds while the receiver lives and there is room.
HasRoom == pc # "exited" /\ Len(queue) < Capacity

Emit(p) ==
    /\ sinks /\ p \notin refused /\ emitted < MaxEvents
    /\ emitted' = emitted + 1
    /\ IF HasRoom
       THEN queue' = Append(queue, Event(emitted')) /\ UNCHANGED refused
       ELSE refused' = refused \cup {p} /\ UNCHANGED queue
    /\ UNCHANGED <<dropped, sinks, writerVars, asked, promised>>

\* dropped.fetch_add(1) of the thread whose event was refused.
CountDrop(p) ==
    /\ p \in refused
    /\ refused' = refused \ {p}
    /\ dropped' = dropped + 1
    /\ UNCHANGED <<queue, sinks, writerVars, emitted, asked, promised>>

\* shutdown(): a try_send whose failure is ignored.
RequestShutdown ==
    /\ sinks /\ asked = "no"
    /\ IF HasRoom
       THEN queue' = Append(queue, Shutdown) /\ asked' = "queued"
       ELSE asked' = "full" /\ UNCHANGED queue
    /\ promised' =
        [events |-> EventsIn(written \o batch \o queue),
         drops  |-> Lost(written) + Lost(batch) + dropped,
         upto   |-> emitted]
    /\ UNCHANGED <<dropped, refused, sinks, writerVars, emitted>>

\* The last clone of the sink is dropped: the channel closes once it is empty.
DropSinks ==
    /\ sinks /\ refused = {}
    /\ sinks' = FALSE
    /\ UNCHANGED <<queue, dropped, refused, writerVars, emitted, asked, promised>>

-----------------------------------------------------------------------------
(* FileAuditWriter::run.                                                   *)

\* WriterState::open; without a file the writer only empties the queue.
OpenFile ==
    /\ pc = "start"
    /\ pc' \in IF MaxLost > 0 THEN {"top", "disabled"} ELSE {"top"}
    /\ UNCHANGED <<queue, dropped, refused, sinks, batch, stopping, emitted,
                   written, vanished, asked, promised>>

\* `while rx.blocking_recv().is_some() {}`: not even a stop request ends it.
Discard ==
    /\ pc = "disabled"
    /\ queue # << >> \/ ~ sinks
    /\ IF queue # << >>
       THEN /\ vanished' = IF IsEvent(Head(queue)) THEN Append(vanished, Head(queue)) ELSE vanished
            /\ queue' = Tail(queue)
            /\ UNCHANGED pc
       ELSE pc' = "exited" /\ UNCHANGED <<queue, vanished>>
    /\ UNCHANGED <<dropped, refused, sinks, batch, stopping, emitted, written, asked, promised>>

\* A slip: the counter is read and not reset.
LoadDropped ==
    /\ pc = "top"
    /\ batch' = IF dropped > 0 THEN Append(batch, Loss(dropped)) ELSE batch
    /\ pc' = IF batch' = << >> THEN "recv" ELSE "fill"
    /\ UNCHANGED <<queue, dropped, refused, sinks, stopping, emitted, written, vanished,
                   asked, promised>>

\* swap(0) at the head of the loop; a loss becomes the batch's first record.
SwapDropped ==
    /\ pc = "top"
    /\ batch' = IF dropped > 0 THEN Append(batch, Loss(dropped)) ELSE batch
    /\ dropped' = 0
    /\ pc' = IF batch' = << >> THEN "recv" ELSE "fill"
    /\ UNCHANGED <<queue, refused, sinks, stopping, emitted, written, vanished, asked, promised>>

\* A slip: the message stays in the queue.
ReceivePeeks ==
    /\ pc = "recv"
    /\ queue # << >> \/ ~ sinks
    /\ IF queue # << >> /\ IsEvent(Head(queue))
       THEN batch' = Append(batch, Head(queue)) /\ pc' = "fill"
       ELSE pc' = "drain" /\ UNCHANGED batch
    /\ UNCHANGED <<queue, dropped, refused, sinks, stopping, emitted, written, vanished,
                   asked, promised>>

\* blocking_recv: an event, the stop request, or a closed channel.
Receive ==
    /\ pc = "recv"
    /\ queue # << >> \/ ~ sinks
    /\ IF queue # << >> /\ IsEvent(Head(queue))
       THEN batch' = Append(batch, Head(queue)) /\ pc' = "fill"
       ELSE pc' = "drain" /\ UNCHANGED batch
    /\ queue' = IF queue # << >> THEN Tail(queue) ELSE queue
    /\ UNCHANGED <<dropped, refused, sinks, stopping, emitted, written, vanished, asked, promised>>

\* One turn of `while batch.len() < BATCH`.
Fill ==
    /\ pc = "fill"
    /\ IF Len(batch) < BATCH /\ queue # << >>
       THEN /\ queue' = Tail(queue)
            /\ IF IsEvent(Head(queue))
               THEN batch' = Append(batch, Head(queue)) /\ UNCHANGED <<pc, stopping>>
               ELSE stopping' = TRUE /\ pc' = "write" /\ UNCHANGED batch
       ELSE pc' = "write" /\ UNCHANGED <<queue, batch, stopping>>
    /\ UNCHANGED <<dropped, refused, sinks, emitted, written, vanished, asked, promised>>

\* write_batch writes the first n entries; an error loses the others, for the
\* batch is cleared either way.
WriteBatch(n) ==
    /\ pc \in {"write", "last"}
    /\ n < Len(batch) => Len(vanished) < MaxLost
    /\ written' = written \o SubSeq(batch, 1, n)
    /\ vanished' = vanished \o SubSeq(batch, n + 1, Len(batch))
    /\ batch' = << >>
    /\ pc' = CASE pc = "last" -> "exited"
               [] pc = "write" /\ stopping -> "drain"
               [] OTHER -> "top"
    /\ UNCHANGED <<queue, dropped, refused, sinks, stopping, emitted, asked, promised>>

\* One turn of `while let Ok(Msg::Event(ev))` after the loop.
Drain ==
    /\ pc = "drain"
    /\ IF queue # << >> /\ IsEvent(Head(queue))
       THEN batch' = Append(batch, Head(queue)) /\ UNCHANGED pc
       ELSE pc' = "final" /\ UNCHANGED batch
    /\ queue' = IF queue # << >> THEN Tail(queue) ELSE queue
    /\ UNCHANGED <<dropped, refused, sinks, stopping, emitted, written, vanished, asked, promised>>

\* The last swap; the last write and the end of the thread are WriteBatch.
FinalLoss ==
    /\ pc = "final"
    /\ batch' = IF dropped > 0 THEN Append(batch, Loss(dropped)) ELSE batch
    /\ dropped' = 0
    /\ pc' = "last"
    /\ UNCHANGED <<queue, refused, sinks, stopping, emitted, written, vanished, asked, promised>>

Writer ==
    \/ OpenFile \/ Discard
    \/ SwapDropped \/ Receive \/ Fill \/ Drain \/ FinalLoss
    \/ \E n \in 0..Len(batch) : WriteBatch(n)

Next ==
    \/ \E p \in Producers : Emit(p) \/ CountDrop(p)
    \/ RequestShutdown \/ DropSinks
    \/ Writer

Spec == Init /\ [][Next]_vars

-----------------------------------------------------------------------------
(* Properties.                                                             *)

Pipeline == written \o batch \o queue

\* The trail tells events in the order they were emitted, each once, however
\* the queue overflows and whichever way the loop is left.
Ordered(s) ==
    \A i, j \in DOMAIN s : i < j /\ IsEvent(s[i]) /\ IsEvent(s[j]) => s[i].n < s[j].n

TrailInEmissionOrder == Ordered(Pipeline)

\* What the channel still holds is under way while the writer lives; what is in
\* it when the writer has ended is dropped with the receiver.
InHand   == written \o batch \o (IF pc = "exited" THEN << >> ELSE queue)
Stranded == IF pc = "exited" THEN queue ELSE << >>

\* Each event emitted is in hand of the writer, counted once in the counter or
\* in a loss record, or thrown away by a failed write or a writer without a
\* file; or it got into the channel behind the writer's last look (the drain
\* has ended, the receiver not yet), and then it was emitted after shutdown().
\* Such events are neither written nor counted, although the comment on
\* shutdown() says that they "just count as drops": this bounds who they are.
EveryEventAccounted ==
    /\ emitted = Told(InHand, "event") + Lost(InHand) + dropped + Cardinality(refused)
                   + Told(vanished, "event") + Lost(vanished) + Told(Stranded, "event")
    /\ \A e \in EventsIn(Stranded) : asked = "queued" /\ e > promised.upto

\* An orderly stop loses nothing: what was in the pipeline when shutdown() was
\* called is in the trail when the writer ends, and every drop counted by then
\* is reported there, unless a write has failed.
ShutdownFlushes ==
    pc = "exited" /\ vanished = << >> =>
        /\ promised.events \subseteq EventsIn(written)
        /\ promised.drops <= Lost(written)
=============================================================================
