---------------------------- MODULE PinnedStaging ----------------------------
(***************************************************************************)
(* The staging thread of pinned delivery                                   *)
(* (python/hyperloader/memory/pinned/iterator.py): it draws batches from   *)
(* the wrapped iterator, copies them into pinned buffers and hands them to *)
(* the consumer one at a time, through a queue of one item and an event.   *)
(* The wrapped iterator is external: it yields Batches values and ends, or *)
(* fails, and like ProcessIterator it then closes its loader, which closes *)
(* this wrapper from the staging thread itself.                            *)
(***************************************************************************)
EXTENDS Integers, Sequences, FiniteSets

CONSTANTS
    Batches,        \* values the wrapped iterator yields
    Failing,        \* the calls of it that raise
    ClosesLoader,   \* its failure closes the loader (ProcessIterator does)
    UseAfterClose   \* the consumer calls next after closing the loader

StagingAssumption ==
    /\ Batches \in Nat /\ Failing \subseteq 1..Batches
    /\ ClosesLoader \in BOOLEAN /\ UseAfterClose \in BOOLEAN

VARIABLES
    calls,          \* successful calls of the wrapped iterator
    valid,          \* it has not been invalidated
    queue,          \* _queue, at most one item
    acknowledged,   \* the event _acknowledged
    stopped,        \* the event _stopped
    thread,         \* _thread: "none" or "started"
    producers,      \* staging threads that have not ended
    ppc,            \* where the staging thread is
    item,           \* what it made last
    cpc,            \* where the consumer is
    got,            \* what it took from the queue
    complete,       \* _complete
    delivered,      \* _delivered_batches, as a checkpoint sees it
    received        \* results of the consumer's calls of next

wrapped == <<calls, valid>>
staging == <<ppc, item, producers>>
consumer == <<cpc, got, complete, delivered, received>>
vars == <<calls, valid, queue, acknowledged, stopped, thread, producers, ppc,
          item, cpc, got, complete, delivered, received>>

End == [kind |-> "end", number |-> 0]
Raised == [kind |-> "raised", number |-> 0]
Batch(n) == [kind |-> "batch", number |-> n]
Nothing == [kind |-> "nothing", number |-> 0]
Last(i) == i.kind \in {"end", "raised"}

Init ==
    /\ calls = 0 /\ valid = TRUE
    /\ queue = << >> /\ acknowledged = FALSE /\ stopped = FALSE
    /\ thread = "none" /\ producers = 0 /\ ppc = "none" /\ item = Nothing
    /\ cpc = "user" /\ got = Nothing /\ complete = FALSE
    /\ delivered = 0 /\ received = << >>

-----------------------------------------------------------------------------
(* The staging thread: _produce.                                           *)

Ends == ppc' = "none" /\ producers' = producers - 1

(* The tests of stopped before and after the call.                         *)
StopSeen ==
    /\ ppc \in {"loop", "made"} /\ stopped
    /\ Ends
    /\ UNCHANGED <<queue, acknowledged, stopped, thread, item>>
    /\ UNCHANGED wrapped /\ UNCHANGED consumer

NotStopped ==
    /\ ppc \in {"loop", "made"} /\ ~stopped
    /\ ppc' = IF ppc = "loop" THEN "call" ELSE "clear"
    /\ UNCHANGED <<queue, acknowledged, stopped, thread, producers, item>>
    /\ UNCHANGED wrapped /\ UNCHANGED consumer

(* close, called by the failing wrapped iterator's loader: the thread is   *)
(* the current one and is not joined.                                      *)
CloseFromWithin ==
    stopped' = TRUE /\ acknowledged' = TRUE /\ valid' = FALSE /\ thread' = "none"

(* next(self._iterator) and stage                                          *)
Stage ==
    /\ ppc = "call"
    /\ ppc' = "made"
    /\ \/ /\ valid /\ calls < Batches /\ calls + 1 \notin Failing
          /\ calls' = calls + 1
          /\ item' = Batch(calls + 1)
          /\ UNCHANGED <<valid, stopped, acknowledged, thread>>
       \/ /\ valid /\ calls = Batches
          /\ item' = End
          /\ UNCHANGED <<calls, valid, stopped, acknowledged, thread>>
       \/ /\ valid /\ calls + 1 \in Failing
          /\ item' = Raised
          /\ IF ClosesLoader
             THEN CloseFromWithin
             ELSE UNCHANGED <<valid, stopped, acknowledged, thread>>
          /\ UNCHANGED calls
       \/ /\ ~valid
          /\ item' = Raised
          /\ UNCHANGED <<calls, valid, stopped, acknowledged, thread>>
    /\ UNCHANGED <<queue, producers>> /\ UNCHANGED consumer

ClearEvent ==
    /\ ppc = "clear"
    /\ acknowledged' = FALSE
    /\ ppc' = "put"
    /\ UNCHANGED <<queue, stopped, thread, producers, item>>
    /\ UNCHANGED wrapped /\ UNCHANGED consumer

Put ==
    /\ ppc = "put" /\ Len(queue) = 0
    /\ queue' = Append(queue, item)
    /\ ppc' = "check"
    /\ UNCHANGED <<acknowledged, stopped, thread, producers, item>>
    /\ UNCHANGED wrapped /\ UNCHANGED consumer

(* After the last item the thread returns.                                 *)
NextRound == IF Last(item) THEN Ends ELSE ppc' = "loop" /\ UNCHANGED producers

(* Seeded defect: the next batch is drawn before this one was taken.       *)
CheckWithoutWaiting ==
    /\ ppc = "check"
    /\ NextRound
    /\ UNCHANGED <<queue, acknowledged, stopped, thread, item>>
    /\ UNCHANGED wrapped /\ UNCHANGED consumer

Check ==
    /\ ppc = "check"
    /\ IF stopped THEN NextRound ELSE ppc' = "wait" /\ UNCHANGED producers
    /\ UNCHANGED <<queue, acknowledged, stopped, thread, item>>
    /\ UNCHANGED wrapped /\ UNCHANGED consumer

(* The wait has no timeout: only the event ends it.                        *)
Woken ==
    /\ ppc = "wait" /\ acknowledged
    /\ NextRound
    /\ UNCHANGED <<queue, acknowledged, stopped, thread, item>>
    /\ UNCHANGED wrapped /\ UNCHANGED consumer

Producer == Stage \/ StopSeen \/ NotStopped \/ ClearEvent \/ Put \/ Check \/ Woken

-----------------------------------------------------------------------------
(* The consumer: __next__ and close.                                       *)

Return(result) == cpc' = "user" /\ received' = Append(received, result)

NextComplete ==
    /\ cpc = "user" /\ complete /\ Len(received) <= Batches + 1
    /\ Return(End)
    /\ UNCHANGED <<queue, acknowledged, stopped, thread, got, complete, delivered>>
    /\ UNCHANGED wrapped /\ UNCHANGED staging

(* bind_consumer_thread and _start                                         *)
CallNext ==
    /\ cpc = "user" /\ ~complete
    /\ stopped => UseAfterClose
    /\ cpc' = "get"
    /\ IF thread = "none"
       THEN /\ thread' = "started" /\ ppc' = "loop"
            /\ producers' = producers + 1
       ELSE UNCHANGED <<thread, ppc, producers>>
    /\ UNCHANGED <<queue, acknowledged, stopped, item, got, complete, delivered, received>>
    /\ UNCHANGED wrapped

Get ==
    /\ cpc = "get" /\ queue # << >>
    /\ got' = Head(queue) /\ queue' = Tail(queue)
    /\ cpc' = "acknowledge"
    /\ UNCHANGED <<acknowledged, stopped, thread, complete, delivered, received>>
    /\ UNCHANGED wrapped /\ UNCHANGED staging

SetEvent ==
    /\ cpc = "acknowledge"
    /\ acknowledged' = TRUE
    /\ cpc' = "finish"
    /\ UNCHANGED <<queue, stopped, thread, got, complete, delivered, received>>
    /\ UNCHANGED wrapped /\ UNCHANGED staging

(* Seeded defect: the checkpoint reads the wrapped iterator's count.       *)
DeliveredWhenStaged == calls

(* What a checkpoint reports once an item was handed over.                 *)
DeliveredCount == got.number

FinishBatch ==
    /\ cpc = "finish" /\ got.kind = "batch"
    /\ delivered' = DeliveredCount
    /\ Return(got)
    /\ UNCHANGED <<queue, acknowledged, stopped, thread, got, complete>>
    /\ UNCHANGED wrapped /\ UNCHANGED staging

(* The last item: _join_finished waits for the thread.                     *)
FinishLast ==
    /\ cpc = "finish" /\ Last(got) /\ producers = 0
    /\ complete' = TRUE
    /\ Return(got)
    /\ UNCHANGED <<queue, acknowledged, stopped, thread, got, delivered>>
    /\ UNCHANGED wrapped /\ UNCHANGED staging

(* DataLoader.close on the consumer's thread: invalidate, then join.       *)
Close ==
    /\ cpc = "user" /\ ~stopped
    /\ stopped' = TRUE
    /\ cpc' = "invalidate"
    /\ UNCHANGED <<queue, acknowledged, thread, got, complete, delivered, received>>
    /\ UNCHANGED wrapped /\ UNCHANGED staging

(* Seeded defect: only the flag is set, the waiting thread is not woken.   *)
InvalidateQuietly ==
    /\ cpc = "invalidate"
    /\ valid' = FALSE
    /\ cpc' = "join"
    /\ UNCHANGED <<calls, queue, acknowledged, stopped, thread, got, complete, delivered, received>>
    /\ UNCHANGED staging

InvalidateRest ==
    /\ cpc = "invalidate"
    /\ acknowledged' = TRUE /\ valid' = FALSE
    /\ cpc' = "join"
    /\ UNCHANGED <<calls, queue, stopped, thread, got, complete, delivered, received>>
    /\ UNCHANGED staging

Joined ==
    /\ cpc = "join" /\ producers = 0
    /\ thread' = "none"
    /\ cpc' = "user"
    /\ UNCHANGED <<queue, acknowledged, stopped, got, complete, delivered, received>>
    /\ UNCHANGED wrapped /\ UNCHANGED staging

Consumer ==
    Get \/ SetEvent \/ FinishBatch \/ FinishLast \/ InvalidateRest \/ Joined
User == NextComplete \/ CallNext \/ Close

Next == Producer \/ Consumer \/ User

(* Threads are scheduled; the user may stop calling.                       *)
Spec == Init /\ [][Next]_vars /\ WF_vars(Producer) /\ WF_vars(Consumer)

-----------------------------------------------------------------------------

(* The calls of next that returned a batch.                                *)
Returned == {i \in DOMAIN received : received[i].kind = "batch"}

(* A checkpoint counts what the consumer was given, never what the         *)
(* staging thread drew ahead of it (delivered_batches,                     *)
(* test_pinned_iterator.py).                                               *)
DeliveredOnly ==
    /\ \A i \in Returned :
          received[i].number = Cardinality({j \in Returned : j <= i})
    /\ cpc = "user" => delivered = Cardinality(Returned)

(* "Stage exactly one speculative batch": at most one batch was drawn      *)
(* that the consumer has not taken, and at most one thread draws.          *)
OneAhead ==
    /\ producers <= 1
    /\ calls <= 1 + (IF cpc \in {"acknowledge", "finish"} /\ got.kind = "batch"
                     THEN got.number ELSE delivered)

(* Every call of next and of close returns to the user; next after a       *)
(* failure or after close raises ("no longer active",                      *)
(* test_exceptions.py:132).                                                *)
CallsReturn == cpc # "user" ~> cpc = "user"

(* The end of the epoch is reported when every batch was delivered; an     *)
(* iterator that raised once and can go on is not at its end (WorkerDied,  *)
(* "Signal one surfaced death after native reclamation and restart.",      *)
(* exceptions.py:20).                                                      *)
EndsWhenDrained ==
    (\E i \in DOMAIN received : received[i].kind = "end") => delivered = Batches
==============================================================================
