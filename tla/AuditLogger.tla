----------------------------- MODULE AuditLogger -----------------------------
(***************************************************************************)
(* The asynchronous audit logger of pkg/audit: callers put events into a   *)
(* bounded channel, one goroutine batches and inserts them, and Close      *)
(* stops the goroutine and drains what is left.  An event is a number, in  *)
(* the order of the calls of Log.                                          *)
(***************************************************************************)
EXTENDS Integers, Sequences, Functions

CONSTANTS
    MaxLogged,    \* bound on calls of Log
    BufferSize, BatchSize

ASSUME AuditAssumption == MaxLogged \in Nat /\ {BufferSize, BatchSize} \subseteq Nat \ {0}

VARIABLES
    logged,    \* calls of Log so far
    ch,        \* the channel
    batch,     \* the goroutine's batch, or the events drainChannel has collected
    loop,      \* the goroutine: "select", "flush", "lastFlush", "exited"
    closer,    \* Close: "none", "wait", "drain", "insert", "done"
    stored,    \* the events InsertBatch has committed, in order
    late,      \* history: events logged after Close began
    dropped,   \* history: events Log dropped because the channel was full
    failed     \* history: events of batches InsertBatch did not commit

auditVars == <<logged, ch, batch, loop, closer, stored, late, dropped, failed>>

\* The channel stays within its buffer, and a full batch is flushed before the
\* goroutine waits for another event.
AuditTypeOK ==
    /\ logged \in Nat
    /\ ch \in Seq(Nat) /\ Len(ch) <= BufferSize
    /\ batch \in Seq(Nat) /\ (loop = "select" => Len(batch) < BatchSize)
    /\ loop \in {"select", "flush", "lastFlush", "exited"}
    /\ closer \in {"none", "wait", "drain", "insert", "done"}
    /\ stored \in Seq(Nat)
    /\ late \subseteq Nat /\ dropped \subseteq Nat /\ failed \subseteq Nat

AuditInit ==
    /\ logged = 0 /\ ch = <<>> /\ batch = <<>> /\ stored = <<>>
    /\ loop = "select" /\ closer = "none"
    /\ late = {} /\ dropped = {} /\ failed = {}

\* Non-blocking: a full channel drops the event.
Log ==
    /\ logged < MaxLogged
    /\ logged' = logged + 1
    /\ late' = IF closer = "none" THEN late ELSE late \union {logged + 1}
    /\ IF Len(ch) < BufferSize
       THEN ch' = Append(ch, logged + 1) /\ UNCHANGED dropped
       ELSE dropped' = dropped \union {logged + 1} /\ UNCHANGED ch
    /\ UNCHANGED <<batch, loop, closer, stored, failed>>

-----------------------------------------------------------------------------
(* flushLoop                                                               *)

\* case event := <-l.ch
Receive ==
    /\ loop = "select" /\ ch # <<>>
    /\ ch' = Tail(ch) /\ batch' = Append(batch, Head(ch))
    /\ loop' = IF Len(batch) + 1 >= BatchSize THEN "flush" ELSE "select"
    /\ UNCHANGED <<logged, closer, stored, late, dropped, failed>>

\* case <-ticker.C
TickerFires ==
    /\ loop = "select" /\ batch # <<>>
    /\ loop' = "flush"
    /\ UNCHANGED <<logged, ch, batch, closer, stored, late, dropped, failed>>

\* case <-l.done
Done ==
    /\ loop = "select" /\ closer = "wait"
    /\ loop' = IF batch = <<>> THEN "exited" ELSE "lastFlush"
    /\ UNCHANGED <<logged, ch, batch, closer, stored, late, dropped, failed>>

\* InsertBatch commits, or does not; flushBatch ends either way and the batch
\* is emptied.  A commit whose answer is lost looks like a failure here.
InsertBatch(events) ==
    \/ stored' = stored \o events /\ UNCHANGED failed
    \/ stored' = stored \o events /\ failed' = failed \union Range(events)
    \/ failed' = failed \union Range(events) /\ UNCHANGED stored

flushBatch ==
    /\ loop \in {"flush", "lastFlush"}
    /\ InsertBatch(batch)
    /\ batch' = <<>>
    /\ loop' = IF loop = "flush" THEN "select" ELSE "exited"
    /\ UNCHANGED <<logged, ch, closer, late, dropped>>

-----------------------------------------------------------------------------
(* Close                                                                   *)

Close ==
    /\ closer = "none"
    /\ closer' = "wait"
    /\ UNCHANGED <<logged, ch, batch, loop, stored, late, dropped, failed>>

\* l.wg.Wait(), whatever the context says.
Wait ==
    /\ closer = "wait" /\ loop = "exited"
    /\ closer' = "drain"
    /\ UNCHANGED <<logged, ch, batch, loop, stored, late, dropped, failed>>

\* Mutant: the last event of the channel is left there.
DrainButOne ==
    /\ closer = "drain"
    /\ IF Len(ch) > 1
       THEN ch' = Tail(ch) /\ batch' = Append(batch, Head(ch)) /\ UNCHANGED closer
       ELSE closer' = (IF batch = <<>> THEN "done" ELSE "insert") /\ UNCHANGED <<ch, batch>>
    /\ UNCHANGED <<logged, loop, stored, late, dropped, failed>>

\* drainChannel takes events while there are any.
Drain ==
    /\ closer = "drain"
    /\ IF ch # <<>>
       THEN ch' = Tail(ch) /\ batch' = Append(batch, Head(ch)) /\ UNCHANGED closer
       ELSE closer' = (IF batch = <<>> THEN "done" ELSE "insert") /\ UNCHANGED <<ch, batch>>
    /\ UNCHANGED <<logged, loop, stored, late, dropped, failed>>

DrainInsert ==
    /\ closer = "insert"
    /\ InsertBatch(batch)
    /\ batch' = <<>> /\ closer' = "done"
    /\ UNCHANGED <<logged, ch, loop, late, dropped>>

AuditNext ==
    \/ Log \/ Receive \/ TickerFires \/ Done \/ flushBatch
    \/ Close \/ Wait \/ Drain \/ DrainInsert

AuditSpec == AuditInit /\ [][AuditNext]_auditVars

-----------------------------------------------------------------------------
(* Properties                                                              *)

\* Close "flushes remaining events": once it has returned, every event Log took
\* before Close began is committed, unless the channel was full or the batch
\* that held the event failed, which the logger reports and does not repeat.
ClosedIsFlushed ==
    closer = "done" =>
        (1 .. logged) \ (late \union dropped \union failed) \subseteq Range(stored)

\* The trail is written in the order of the calls and without repetition, across
\* batches, lost answers of the database and the final drain.
StoredInOrder == \A i \in 1 .. Len(stored) - 1 : stored[i] < stored[i + 1]

=============================================================================
