---------------------------- MODULE ChunkLoader ----------------------------
(***************************************************************************)
(* The asynchronous chunk loader (chunk_loader.rs): the main thread asks   *)
(* for chunks, a pool of worker threads loads or generates them, and the   *)
(* main thread collects the results.  A request carries the epoch in which *)
(* it was made; an origin shift of the world texture starts a new epoch    *)
(* and drops all work of the old one.                                      *)
(*                                                                         *)
(* Telemetry counters (queue_full_events, dropped_stale_results) and the   *)
(* SVT metadata of a result are left out: nothing in the loader reads      *)
(* them.                                                                   *)
(***************************************************************************)
EXTENDS Naturals, Sequences, FiniteSets

CONSTANTS
    Pos,          \* chunk positions
    Workers,      \* worker threads of the pool
    Payloads,     \* what a worker may produce for a position
    MaxQueueSize, \* MAX_QUEUE_SIZE: capacity of the request channel and of in_flight
    EpochMod,     \* number of values of the epoch counter (2^32 in the code)
    MaxShifts,    \* bound of the model: origin shifts in one behaviour
    MaxPipeline,  \* bound of the model: requests and results under way
    Idle,         \* state of a worker blocked in recv_timeout
    Exited        \* state of a worker that saw Disconnected

ASSUME LoaderAssumption ==
    /\ MaxQueueSize \in Nat \ {0}
    /\ EpochMod \in Nat \ {0}
    /\ MaxShifts \in Nat
    /\ MaxPipeline \in Nat
    /\ MaxShifts < EpochMod

VARIABLES
    requests, \* bounded request channel, oldest first
    work,     \* worker -> the request it is processing, Idle or Exited
    results,  \* unbounded result channel, oldest first
    inFlight, \* HashSet of positions not to be requested again
    epoch,    \* current_epoch
    open,     \* request_tx is Some
    shifts    \* observer: origin shifts so far, never wrapping

loaderVars == <<requests, work, results, inFlight, epoch, open, shifts>>

\* `shift` is an observer: the value of `shifts` when the request was made.
Request == [pos : Pos, epoch : 0 .. EpochMod - 1, shift : Nat]
Result  == [req : Request, data : Payloads]

\* The two states of a worker without a request are no requests.
ASSUME WorkerStateAssumption ==
    Idle # Exited /\ Idle \notin Request /\ Exited \notin Request

LoaderTypeOK ==
    /\ requests \in Seq(Request)
    /\ work \in [Workers -> Request \cup {Idle, Exited}]
    /\ results \in Seq(Result)
    /\ inFlight \in SUBSET Pos
    /\ epoch \in 0 .. EpochMod - 1
    /\ open \in BOOLEAN
    /\ shifts \in Nat

LoaderInit ==
    /\ requests = <<>>
    /\ work = [w \in Workers |-> Idle]
    /\ results = <<>>
    /\ inFlight = {}
    /\ epoch = 0
    /\ open = TRUE
    /\ shifts = 0

-----------------------------------------------------------------------------
(* Main thread.                                                            *)

\* Workers that hold a request.
Busy == {w \in Workers : work[w] \notin {Idle, Exited}}

\* request_chunk: refused when the position is already in flight, when
\* in_flight is full or when try_send finds the channel full or closed.
\* Cancelling and asking again duplicates requests without limit in the code;
\* MaxPipeline bounds that.
CanRequest(p) ==
    /\ p \notin inFlight
    /\ Cardinality(inFlight) < MaxQueueSize
    /\ open
    /\ Len(requests) < MaxQueueSize
    /\ Len(requests) + Cardinality(Busy) + Len(results) < MaxPipeline

RequestChunk(p) ==
    /\ CanRequest(p)
    /\ requests' = Append(requests, [pos |-> p, epoch |-> epoch, shift |-> shifts])
    /\ inFlight' = inFlight \cup {p}
    /\ UNCHANGED <<work, results, epoch, open, shifts>>

\* Mutant: the epoch of a result is not looked at.
AcceptedOfAnyEpoch == 1 .. Len(results)

\* receive_chunks: drains the result channel.  A result of another epoch is
\* dropped; any other one is delivered and its position leaves in_flight,
\* whether or not it was still there.
Accepted == {i \in 1 .. Len(results) : results[i].req.epoch = epoch}

AcceptedPos == {results[i].req.pos : i \in Accepted}

DrainResults ==
    /\ open
    /\ inFlight' = inFlight \ AcceptedPos
    /\ results' = <<>>
    /\ UNCHANGED <<requests, work, epoch, open, shifts>>

ReceiveChunks == results # <<>> /\ DrainResults

\* cancel_chunk: forgets the position; the request or result stays where it is.
CancelChunk(p) ==
    /\ open
    /\ inFlight' = inFlight \ {p}
    /\ UNCHANGED <<requests, work, results, epoch, open, shifts>>

\* Mutant: a shift forgets to clear in_flight.
ResetKeepsInFlight ==
    /\ open
    /\ shifts < MaxShifts
    /\ epoch' = (epoch + 1) % EpochMod
    /\ shifts' = shifts + 1
    /\ requests' = <<>>
    /\ results' = <<>>
    /\ UNCHANGED <<inFlight, work, open>>

\* reset_epoch_and_clear: both channels are drained; what a worker is
\* processing at that moment survives with its old epoch.
ResetEpochAndClear ==
    /\ open
    /\ shifts < MaxShifts
    /\ epoch' = (epoch + 1) % EpochMod
    /\ shifts' = shifts + 1
    /\ inFlight' = {}
    /\ requests' = <<>>
    /\ results' = <<>>
    /\ UNCHANGED <<work, open>>

\* Drop: the sender goes first, then every worker is joined.
CloseLoader ==
    /\ open
    /\ open' = FALSE
    /\ UNCHANGED <<requests, work, results, inFlight, epoch, shifts>>

-----------------------------------------------------------------------------
(* Worker threads.                                                         *)

\* recv_timeout returns Ok: also after the sender is gone, as long as the
\* channel is not empty.
TakeRequest(w) ==
    /\ work[w] = Idle
    /\ requests # <<>>
    /\ work' = [work EXCEPT ![w] = Head(requests)]
    /\ requests' = Tail(requests)
    /\ UNCHANGED <<results, inFlight, epoch, open, shifts>>

\* Mutant: nothing is sent when the chunk could not be read.
FinishSilently(w, d) ==
    /\ w \in Busy
    /\ work' = [work EXCEPT ![w] = Idle]
    /\ UNCHANGED <<requests, results, inFlight, epoch, open, shifts>>

FinishRequest(w, d) ==
    /\ w \in Busy
    /\ results' = Append(results, [req |-> work[w], data |-> d])
    /\ work' = [work EXCEPT ![w] = Idle]
    /\ UNCHANGED <<requests, inFlight, epoch, open, shifts>>

\* Mutant: a worker waits until its results are collected.
ExitAfterResults(w) ==
    /\ work[w] = Idle
    /\ ~open
    /\ requests = <<>> /\ results = <<>>
    /\ work' = [work EXCEPT ![w] = Exited]
    /\ UNCHANGED <<requests, results, inFlight, epoch, open, shifts>>

\* recv_timeout returns Disconnected: no sender left and nothing queued.
ExitWorker(w) ==
    /\ work[w] = Idle
    /\ ~open
    /\ requests = <<>>
    /\ work' = [work EXCEPT ![w] = Exited]
    /\ UNCHANGED <<requests, results, inFlight, epoch, open, shifts>>

WorkerStep(w) ==
    \/ TakeRequest(w)
    \/ \E d \in Payloads : FinishRequest(w, d)
    \/ ExitWorker(w)

LoaderNext ==
    \/ \E p \in Pos : RequestChunk(p) \/ CancelChunk(p)
    \/ ReceiveChunks
    \/ ResetEpochAndClear
    \/ CloseLoader
    \/ \E w \in Workers : WorkerStep(w)

LoaderSpec == LoaderInit /\ [][LoaderNext]_loaderVars

-----------------------------------------------------------------------------
(* Properties.                                                             *)

\* Requests and results that exist somewhere in the pipeline.
Outstanding ==
    {requests[i] : i \in 1 .. Len(requests)}
    \cup {work[w] : w \in Busy}
    \cup {results[i].req : i \in 1 .. Len(results)}

\* A position marked in flight has a request of the current epoch in the
\* pipeline, so some later receive_chunks will release it: a mark left behind
\* (by a shift that forgets in_flight, say) would make request_chunk refuse
\* the position for ever and leave a hole in the world.
InFlightIsReleased ==
    \A p \in inFlight : \E r \in Outstanding : r.pos = p /\ r.epoch = epoch

\* What receive_chunks is about to deliver was requested after the last
\* origin shift: a worker that was busy across the shift cannot put a chunk of
\* the old texture layout into the new one.
DeliveredAreFresh ==
    \A i \in Accepted : results[i].req.shift = shifts
=============================================================================
