------------------------------ MODULE LogWriter ------------------------------
(***************************************************************************)
(* bufferedWriter: the batching writer behind the debug log and the JSONL  *)
(* sidecar.  Producers, the one-shot timer's callback, explicit Flush      *)
(* calls, Dispose and the overflow drain goroutines all run concurrently;  *)
(* a drain writes its batch without the lock.  A line is its number.       *)
(***************************************************************************)
EXTENDS Integers, Sequences, FiniteSets, SequencesExt

CONSTANTS
    MaxLines,       \* lines the producers offer
    MaxBufferSize,  \* cfg.maxBufferSize; the byte limit is math.MaxInt
    MaxFlushCalls,  \* Flush calls from outside
    MaxFaults,      \* writeFn calls that fail
    MaxDrains       \* drain goroutines ever alive together

ASSUME LogWriterAssumption == MaxBufferSize \in Nat \ {0} /\ MaxDrains \in Nat \ {0}

VARIABLES
    immediate,        \* cfg.immediateMode
    next,             \* the next line to be offered; 0 before newBufferedWriter
    buffer,
    pendingOverflow,  \* Nil, or a batch waiting for the drain (empty: drain busy)
    timer,            \* "nil", "armed" or "fired" (callback started, field not cleared)
    callbacks,        \* timer callbacks that wait for the lock
    lock,             \* who holds mu across a flush: "free", "timer", "flush", "dispose"
    drains,           \* drain goroutines: "off", "lock" (about to lock) or "write"
    batch,            \* what each of them took
    direct,           \* immediate-mode lines past the closed check
    file, lost, rejected,
    closed,
    disposer,         \* "none", "flushing", "waiting", "returned"
    flushCalls, faults

lwVars == <<immediate, next, buffer, pendingOverflow, timer, callbacks, lock, drains, batch,
            direct, file, lost, rejected, closed, disposer, flushCalls, faults>>

Nil == [is |-> "nil", lines |-> <<>>]
Slice(lines) == [is |-> "slice", lines |-> lines]
DrainIds == 1..MaxDrains
Idle == {d \in DrainIds : drains[d] = "off"}
PendingLines == pendingOverflow.lines

LwInit ==
    /\ immediate = FALSE
    /\ next = 0 /\ buffer = <<>> /\ pendingOverflow = Nil
    /\ timer = "nil" /\ callbacks = 0 /\ lock = "free"
    /\ drains = [d \in DrainIds |-> "off"] /\ batch = [d \in DrainIds |-> <<>>]
    /\ direct = {} /\ file = <<>> /\ lost = {} /\ rejected = {}
    /\ closed = FALSE /\ disposer = "none" /\ flushCalls = 0 /\ faults = 0

(* The debug log is opened in immediate mode when debugging is on. *)
newBufferedWriter ==
    /\ next = 0 /\ next' = 1
    /\ immediate' \in BOOLEAN
    /\ UNCHANGED <<buffer, pendingOverflow, timer, callbacks, lock, drains, batch, direct, file,
                   lost, rejected, closed, disposer, flushCalls, faults>>

(* writeFn on a batch: appended to the file, or lost to an I/O error. *)
writeFn(lines) ==
    \/ file' = file \o lines /\ UNCHANGED <<lost, faults>>
    \/ /\ faults < MaxFaults /\ lines # <<>>
       /\ faults' = faults + 1 /\ lost' = lost \cup ToSet(lines) /\ UNCHANGED file

Offer == lock = "free" /\ next \in 1..MaxLines /\ next' = next + 1

WriteClosed ==
    /\ Offer /\ closed
    /\ rejected' = rejected \cup {next}
    /\ UNCHANGED <<immediate, buffer, pendingOverflow, timer, callbacks, lock, drains, batch,
                   direct, file, lost, closed, disposer, flushCalls, faults>>

WriteImmediate ==
    /\ Offer /\ ~closed /\ immediate
    /\ direct' = direct \cup {next}
    /\ UNCHANGED <<immediate, buffer, pendingOverflow, timer, callbacks, lock, drains, batch,
                   file, lost, rejected, closed, disposer, flushCalls, faults>>

DirectWrite ==
    \E l \in direct :
        /\ writeFn(<<l>>)
        /\ direct' = direct \ {l}
        /\ UNCHANGED <<immediate, next, buffer, pendingOverflow, timer, callbacks, lock, drains,
                       batch, rejected, closed, disposer, flushCalls>>

scheduleFlush_Never == "nil"
scheduleFlush == IF timer = "nil" THEN "armed" ELSE timer

(* Below the limit the line waits for the timer. *)
WriteBuffered ==
    /\ Offer /\ ~closed /\ ~immediate
    /\ Len(buffer) + 1 < MaxBufferSize
    /\ buffer' = Append(buffer, next)
    /\ timer' = scheduleFlush
    /\ UNCHANGED <<immediate, pendingOverflow, callbacks, lock, drains, batch, direct, file, lost,
                   rejected, closed, disposer, flushCalls, faults>>

(* The full buffer joins the batch of a drain in flight, or starts one. *)
flushDeferred(lines) ==
    IF pendingOverflow # Nil
    THEN pendingOverflow' = Slice(PendingLines \o lines) /\ UNCHANGED drains
    ELSE /\ pendingOverflow' = Slice(lines)
         /\ \E d \in Idle : drains' = [drains EXCEPT ![d] = "lock"]

WriteOverflow ==
    /\ Offer /\ ~closed /\ ~immediate
    /\ Len(buffer) + 1 >= MaxBufferSize
    /\ flushDeferred(Append(buffer, next))
    /\ buffer' = <<>> /\ timer' = "nil"
    /\ UNCHANGED <<immediate, callbacks, lock, batch, direct, file, lost, rejected, closed,
                   disposer, flushCalls, faults>>

(* time.AfterFunc runs the callback in a goroutine; Stop no longer stops it. *)
TimerFire ==
    /\ timer = "armed" /\ timer' = "fired" /\ callbacks' = callbacks + 1
    /\ UNCHANGED <<immediate, next, buffer, pendingOverflow, lock, drains, batch, direct, file,
                   lost, rejected, closed, disposer, flushCalls, faults>>

TimerCallbackClosed ==
    /\ lock = "free" /\ callbacks > 0 /\ closed
    /\ callbacks' = callbacks - 1
    /\ UNCHANGED <<immediate, next, buffer, pendingOverflow, timer, lock, drains, batch, direct,
                   file, lost, rejected, closed, disposer, flushCalls, faults>>

(* flushLocked, first half: the overflow batch, under the lock. *)
flushOverflow(who) ==
    /\ next > 0 /\ lock = "free" /\ lock' = who
    /\ writeFn(PendingLines)
    /\ pendingOverflow' = IF PendingLines = <<>> THEN pendingOverflow ELSE Nil
    /\ UNCHANGED <<immediate, next, buffer, timer, drains, batch, direct, rejected>>

TimerCallback ==
    /\ callbacks > 0 /\ ~closed
    /\ flushOverflow("timer")
    /\ callbacks' = callbacks - 1
    /\ UNCHANGED <<closed, disposer, flushCalls>>

Flush ==
    /\ flushCalls < MaxFlushCalls
    /\ flushOverflow("flush")
    /\ flushCalls' = flushCalls + 1
    /\ UNCHANGED <<callbacks, closed, disposer>>

Dispose ==
    /\ ~closed
    /\ flushOverflow("dispose")
    /\ closed' = TRUE /\ disposer' = "flushing"
    /\ UNCHANGED <<callbacks, flushCalls>>

(* flushLocked, second half: the buffer, then the timer stops and mu opens. *)
FlushBuffer ==
    /\ lock # "free" /\ lock' = "free"
    /\ writeFn(buffer)
    /\ buffer' = <<>> /\ timer' = "nil"
    /\ disposer' = IF lock = "dispose" THEN "waiting" ELSE disposer
    /\ UNCHANGED <<immediate, next, pendingOverflow, callbacks, drains, batch, direct, rejected,
                   closed, flushCalls>>

(* drainPendingOverflow: take the batch under the lock, or give up the slot. *)
DrainTake(d) ==
    /\ drains[d] = "lock" /\ lock = "free"
    /\ LET more == PendingLines # <<>> IN
       /\ pendingOverflow' = IF more THEN Slice(<<>>) ELSE Nil
       /\ drains' = [drains EXCEPT ![d] = IF more THEN "write" ELSE "off"]
       /\ batch' = [batch EXCEPT ![d] = PendingLines]
    /\ UNCHANGED <<immediate, next, buffer, timer, callbacks, lock, direct, file, lost, rejected,
                   closed, disposer, flushCalls, faults>>

DrainWrite(d) ==
    /\ drains[d] = "write"
    /\ writeFn(batch[d])
    /\ drains' = [drains EXCEPT ![d] = "lock"]
    /\ batch' = [batch EXCEPT ![d] = <<>>]
    /\ UNCHANGED <<immediate, next, buffer, pendingOverflow, timer, callbacks, lock, direct,
                   rejected, closed, disposer, flushCalls>>

overflowWG_Skipped == TRUE
overflowWG == Idle = DrainIds

DisposeReturn ==
    /\ disposer = "waiting" /\ overflowWG
    /\ disposer' = "returned"
    /\ UNCHANGED <<immediate, next, buffer, pendingOverflow, timer, callbacks, lock, drains, batch,
                   direct, file, lost, rejected, closed, flushCalls, faults>>

(* Nobody has to call Flush or Dispose, or to write more. *)
LwDone ==
    /\ lock = "free" /\ timer # "armed" /\ callbacks = 0 /\ direct = {} /\ overflowWG
    /\ UNCHANGED lwVars

LwWrite == WriteClosed \/ WriteImmediate \/ WriteBuffered \/ WriteOverflow
LwDrain == \E d \in DrainIds : DrainTake(d) \/ DrainWrite(d)

LwNext ==
    \/ newBufferedWriter \/ LwWrite \/ DirectWrite
    \/ TimerFire \/ TimerCallback \/ TimerCallbackClosed
    \/ Flush \/ Dispose \/ FlushBuffer \/ DisposeReturn
    \/ LwDrain
    \/ LwDone

(* The runtime fires an armed timer and lets a started goroutine finish. *)
LwFairness ==
    /\ WF_lwVars(TimerFire) /\ WF_lwVars(TimerCallback)
    /\ WF_lwVars(FlushBuffer) /\ WF_lwVars(DisposeReturn)
    /\ WF_lwVars(DirectWrite)
    /\ \A d \in DrainIds : WF_lwVars(DrainTake(d)) /\ WF_lwVars(DrainWrite(d))

LwSpec == LwInit /\ [][LwNext]_lwVars /\ LwFairness
-----------------------------------------------------------------------------
InBuffers(l) == l \in ToSet(buffer) \cup ToSet(PendingLines) \cup UNION {ToSet(batch[d]) : d \in DrainIds}
Times(l) ==
    LET occ(s) == Cardinality({i \in DOMAIN s : s[i] = l})
    IN  occ(buffer) + occ(PendingLines) + occ(file)
        + Cardinality({d \in DrainIds : l \in ToSet(batch[d])})
        + Cardinality({s \in {<<1, direct>>, <<2, lost>>, <<3, rejected>>} : l \in s[2]})

(* A line handed to Write is in exactly one place at any time, whoever     *)
(* flushes, drains or disposes meanwhile: nothing is lost except to an I/O *)
(* error and nothing is written twice.                                     *)
LinesConserved == \A l \in 1..next - 1 : Times(l) = 1

(* Dispose returns with every accepted line on disk (or lost to an I/O     *)
(* error); only an immediate write already past the closed check may still *)
(* be under way.                                                           *)
DisposeDrains == disposer = "returned" => \A l \in 1..next - 1 : ~InBuffers(l)

(* No interleaving of writers, timer, drains and Dispose loses or doubles  *)
(* a line, or lets Dispose return before the lines are out.                *)
WriterKeepsLines == LinesConserved /\ DisposeDrains

(* A buffered line reaches the file (or an I/O error) without anybody      *)
(* calling Flush or Dispose: the timer or an overflow drain gets it there. *)
EventuallyFlushed ==
    \A l \in 1..MaxLines : InBuffers(l) ~> ~InBuffers(l)
=============================================================================
