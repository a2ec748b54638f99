------------------------ MODULE ChunkStreamingProofs ------------------------
(***************************************************************************)
(* Proofs about ChunkLoader and about ChunkStreaming, which contains it,   *)
(* for any finite set of positions (the loader alone: for any set), any    *)
(* windows, workers, queue sizes and budgets, any number of failing reads  *)
(* and writes, runs and crashes, and any number of shifts below the wrap   *)
(* of the epoch: the pipeline never works twice for one position, nor for  *)
(* a position that is loaded or out of the window; no edit disappears that *)
(* no failure explains; the disk never goes back.                          *)
(***************************************************************************)
EXTENDS ChunkStreaming, SequenceTheorems, FiniteSetTheorems, WellFoundedInduction, TLAPS

-----------------------------------------------------------------------------
(* The loader alone: its specification is the one of ChunkLoader.          *)

\* Every request in the pipeline is stamped with an epoch that is its shift
\* count, and none is stamped later than now: the epoch counter has not
\* wrapped, so equal epochs mean equal shift counts.
Stamped ==
    /\ epoch = shifts
    /\ shifts <= MaxShifts
    /\ \A r \in Outstanding : r.epoch = r.shift

\* The inductive invariant.
LoaderInv == LoaderTypeOK /\ Stamped /\ InFlightIsReleased

-----------------------------------------------------------------------------
(* What the operations do to the set of requests under way.                *)

\* Appending to a sequence adds one element to the set of its elements.
LEMMA AppendElements ==
    ASSUME NEW S, NEW s \in Seq(S), NEW e \in S
    PROVE  /\ Append(s, e) \in Seq(S)
           /\ {Append(s, e)[i] : i \in 1 .. Len(Append(s, e))}
                = {s[i] : i \in 1 .. Len(s)} \cup {e}
OBVIOUS

\* Head and Tail split the elements of a nonempty sequence.
LEMMA HeadTailElements ==
    ASSUME NEW S, NEW s \in Seq(S), s # <<>>
    PROVE  /\ Head(s) \in S
           /\ Tail(s) \in Seq(S)
           /\ {s[i] : i \in 1 .. Len(s)}
                = {Head(s)} \cup {Tail(s)[i] : i \in 1 .. Len(Tail(s))}
<1>1. Head(s) = s[1] /\ Len(Tail(s)) = Len(s) - 1 /\ Len(s) \in Nat \ {0}
  OBVIOUS
<1>2. \A i \in 1 .. Len(s) - 1 : i + 1 \in 1 .. Len(s) /\ Tail(s)[i] = s[i + 1]
  OBVIOUS
<1>3. \A i \in 1 .. Len(s) :
        i = 1 \/ (i - 1 \in 1 .. Len(s) - 1 /\ s[i] = Tail(s)[i - 1])
  BY <1>1, <1>2
<1>4. Head(s) \in S /\ Tail(s) \in Seq(S)
  OBVIOUS
<1>5. ASSUME NEW x \in {s[i] : i \in 1 .. Len(s)}
      PROVE  x \in {Head(s)} \cup {Tail(s)[i] : i \in 1 .. Len(Tail(s))}
  <2>1. PICK i \in 1 .. Len(s) : x = s[i]
    OBVIOUS
  <2>2. QED
    BY <2>1, <1>1, <1>3
<1>6. ASSUME NEW x \in {Head(s)} \cup {Tail(s)[i] : i \in 1 .. Len(Tail(s))}
      PROVE  x \in {s[i] : i \in 1 .. Len(s)}
  BY <1>1, <1>2
<1>7. QED
  BY <1>4, <1>5, <1>6

-----------------------------------------------------------------------------
(* How each operation moves requests through the pipeline.                 *)

QueuedReqs == {requests[i] : i \in 1 .. Len(requests)}
WorkedReqs == {work[w] : w \in Busy}
ResultReqs == {results[i].req : i \in 1 .. Len(results)}

\* A new request is added to those under way.
LEMMA RequestOutstanding ==
    ASSUME LoaderTypeOK, NEW p \in Pos, RequestChunk(p)
    PROVE  Outstanding' = Outstanding \cup {[pos |-> p, epoch |-> epoch, shift |-> shifts]}
<1>1. [pos |-> p, epoch |-> epoch, shift |-> shifts] \in Request
  BY DEF LoaderTypeOK, Request
<1>2. QueuedReqs' = QueuedReqs \cup {[pos |-> p, epoch |-> epoch, shift |-> shifts]}
  BY <1>1, AppendElements DEF RequestChunk, LoaderTypeOK, QueuedReqs
<1>3. WorkedReqs' = WorkedReqs /\ ResultReqs' = ResultReqs
  BY DEF RequestChunk, WorkedReqs, ResultReqs, Busy
<1>4. QED
  BY <1>2, <1>3 DEF Outstanding, QueuedReqs, WorkedReqs, ResultReqs

\* A worker takes the oldest request: nothing is lost or added.
LEMMA TakeOutstanding ==
    ASSUME LoaderTypeOK, NEW w \in Workers, TakeRequest(w)
    PROVE  Outstanding' = Outstanding
<1>1. requests \in Seq(Request) /\ requests # <<>> /\ requests' = Tail(requests)
  BY DEF TakeRequest, LoaderTypeOK
<1>2. Head(requests) \in Request
  BY <1>1, HeadTailElements
<1>3. QueuedReqs = {Head(requests)} \cup QueuedReqs'
  BY <1>1, HeadTailElements DEF QueuedReqs
<1>4. Busy' = Busy \cup {w} /\ w \notin Busy
  BY <1>2, WorkerStateAssumption DEF TakeRequest, LoaderTypeOK, Busy
<1>5. WorkedReqs' = WorkedReqs \cup {Head(requests)}
  BY <1>2, <1>4 DEF WorkedReqs, TakeRequest, LoaderTypeOK
<1>6. ResultReqs' = ResultReqs
  BY DEF TakeRequest, ResultReqs
<1>7. QED
  BY <1>3, <1>5, <1>6 DEF Outstanding, QueuedReqs, WorkedReqs, ResultReqs

\* A worker sends its result: the request moves on, nothing is lost or added.
LEMMA FinishOutstanding ==
    ASSUME LoaderTypeOK, NEW w \in Workers, NEW d \in Payloads, FinishRequest(w, d)
    PROVE  Outstanding' = Outstanding
<1> DEFINE new == [req |-> work[w], data |-> d]
<1>1. w \in Busy /\ results \in Seq(Result) /\ results' = Append(results, new)
  BY DEF FinishRequest, LoaderTypeOK
<1>2. work[w] \in Request /\ new \in Result
  BY <1>1 DEF Busy, LoaderTypeOK, Result
<1>3. ResultReqs' = ResultReqs \cup {work[w]}
  <2>1. /\ Len(results') = Len(results) + 1
        /\ Len(results) \in Nat
        /\ \A i \in 1 .. Len(results) : results'[i] = results[i]
        /\ results'[Len(results) + 1] = new
    BY <1>1, <1>2
  <2>2. QED
    BY <2>1 DEF ResultReqs
<1>4. Busy' = Busy \ {w}
  BY <1>1, WorkerStateAssumption DEF FinishRequest, LoaderTypeOK, Busy
<1>5. WorkedReqs = WorkedReqs' \cup {work[w]}
  BY <1>1, <1>4 DEF WorkedReqs, FinishRequest, LoaderTypeOK, Busy
<1>6. QueuedReqs' = QueuedReqs
  BY DEF FinishRequest, QueuedReqs
<1>7. QED
  BY <1>3, <1>5, <1>6 DEF Outstanding, QueuedReqs, WorkedReqs, ResultReqs

\* Delivering removes requests, and every one of the current epoch that it
\* removes has its position released.
LEMMA ReceiveOutstanding ==
    ASSUME LoaderTypeOK, ReceiveChunks
    PROVE  /\ Outstanding' \subseteq Outstanding
           /\ \A r \in Outstanding \ Outstanding' :
                r.epoch = epoch => r.pos \in AcceptedPos
<1>1. QueuedReqs' = QueuedReqs /\ WorkedReqs' = WorkedReqs
  BY DEF ReceiveChunks, DrainResults, QueuedReqs, WorkedReqs, Busy
<1>2. ResultReqs' = {}
  BY DEF ReceiveChunks, DrainResults, ResultReqs
<1>3. \A r \in ResultReqs : r.epoch = epoch => r.pos \in AcceptedPos
  BY DEF ResultReqs, AcceptedPos, Accepted
<1>4. QED
  BY <1>1, <1>2, <1>3 DEF Outstanding, QueuedReqs, WorkedReqs, ResultReqs

\* An origin shift leaves only what the workers hold.
LEMMA ResetOutstanding ==
    ASSUME LoaderTypeOK, ResetEpochAndClear
    PROVE  Outstanding' \subseteq Outstanding
<1>1. QueuedReqs' = {} /\ ResultReqs' = {} /\ WorkedReqs' = WorkedReqs
  BY DEF ResetEpochAndClear, QueuedReqs, ResultReqs, WorkedReqs, Busy
<1>2. QED
  BY <1>1 DEF Outstanding, QueuedReqs, WorkedReqs, ResultReqs

-----------------------------------------------------------------------------
(* Type correctness.                                                       *)

LEMMA InitType == LoaderInit => LoaderTypeOK
BY LoaderAssumption DEF LoaderInit, LoaderTypeOK

LEMMA StepType == LoaderTypeOK /\ [LoaderNext]_loaderVars => LoaderTypeOK'
<1> SUFFICES ASSUME LoaderTypeOK, [LoaderNext]_loaderVars
             PROVE  LoaderTypeOK'
  OBVIOUS
<1>1. ASSUME NEW p \in Pos, RequestChunk(p)
      PROVE  LoaderTypeOK'
  <2>1. [pos |-> p, epoch |-> epoch, shift |-> shifts] \in Request
    BY DEF LoaderTypeOK, Request
  <2>2. QED
    BY <1>1, <2>1, AppendElements DEF LoaderTypeOK, RequestChunk
<1>2. ASSUME NEW p \in Pos, CancelChunk(p)
      PROVE  LoaderTypeOK'
  BY <1>2 DEF LoaderTypeOK, CancelChunk
<1>3. CASE ReceiveChunks
  BY <1>3 DEF LoaderTypeOK, ReceiveChunks, DrainResults
<1>4. CASE ResetEpochAndClear
  <2>1. (epoch + 1) % EpochMod \in 0 .. EpochMod - 1
    BY LoaderAssumption DEF LoaderTypeOK
  <2>2. QED
    BY <1>4, <2>1 DEF LoaderTypeOK, ResetEpochAndClear
<1>5. CASE CloseLoader
  BY <1>5 DEF LoaderTypeOK, CloseLoader
<1>6. ASSUME NEW w \in Workers, TakeRequest(w)
      PROVE  LoaderTypeOK'
  <2>1. requests \in Seq(Request) /\ requests # <<>>
    BY <1>6 DEF LoaderTypeOK, TakeRequest
  <2>2. Head(requests) \in Request /\ Tail(requests) \in Seq(Request)
    BY <2>1, HeadTailElements
  <2>3. QED
    BY <1>6, <2>2 DEF LoaderTypeOK, TakeRequest
<1>7. ASSUME NEW w \in Workers, NEW d \in Payloads, FinishRequest(w, d)
      PROVE  LoaderTypeOK'
  <2>1. [req |-> work[w], data |-> d] \in Result
    BY <1>7 DEF LoaderTypeOK, FinishRequest, Busy, Result
  <2>2. QED
    BY <1>7, <2>1, AppendElements DEF LoaderTypeOK, FinishRequest
<1>8. ASSUME NEW w \in Workers, ExitWorker(w)
      PROVE  LoaderTypeOK'
  BY <1>8 DEF LoaderTypeOK, ExitWorker
<1>9. CASE UNCHANGED loaderVars
  BY <1>9 DEF LoaderTypeOK, loaderVars
<1>10. QED
  BY <1>1, <1>2, <1>3, <1>4, <1>5, <1>6, <1>7, <1>8, <1>9 DEF LoaderNext, WorkerStep

\* The state of the loader is always of its declared type.
THEOREM TypeCorrect == LoaderSpec => []LoaderTypeOK
BY InitType, StepType, PTL DEF LoaderSpec

-----------------------------------------------------------------------------
(* The inductive invariant.                                                *)

LEMMA InitInv == LoaderInit => LoaderInv
<1> SUFFICES ASSUME LoaderInit PROVE LoaderInv
  OBVIOUS
<1>1. LoaderTypeOK
  BY InitType
<1>2. Outstanding = {}
  BY DEF LoaderInit, Outstanding, Busy
<1>3. QED
  BY <1>1, <1>2, LoaderAssumption DEF LoaderInit, LoaderInv, Stamped, InFlightIsReleased

\* A step that leaves the epoch alone, adds no stale request and releases
\* every position whose request it removes.
LEMMA SameEpochStep ==
    ASSUME LoaderInv, LoaderTypeOK', epoch' = epoch, shifts' = shifts,
           \A r \in Outstanding' \ Outstanding : r.epoch = r.shift,
           \A p \in inFlight' : \E r \in Outstanding' : r.pos = p /\ r.epoch = epoch
    PROVE  LoaderInv'
BY DEF LoaderInv, Stamped, InFlightIsReleased

LEMMA StepInv == LoaderInv /\ [LoaderNext]_loaderVars => LoaderInv'
<1> SUFFICES ASSUME LoaderInv, [LoaderNext]_loaderVars
             PROVE  LoaderInv'
  OBVIOUS
<1>0. LoaderTypeOK /\ LoaderTypeOK' /\ Stamped /\ InFlightIsReleased
  BY StepType DEF LoaderInv
<1>1. ASSUME NEW p \in Pos, RequestChunk(p)
      PROVE  LoaderInv'
  <2> DEFINE new == [pos |-> p, epoch |-> epoch, shift |-> shifts]
  <2>1. Outstanding' = Outstanding \cup {new}
    BY <1>0, <1>1, RequestOutstanding
  <2>2. epoch' = epoch /\ shifts' = shifts /\ inFlight' = inFlight \cup {p}
    BY <1>1 DEF RequestChunk
  <2>3. new.epoch = new.shift /\ new.pos = p /\ new.epoch = epoch
    BY <1>0 DEF Stamped
  <2>4. \A q \in inFlight' : \E r \in Outstanding' : r.pos = q /\ r.epoch = epoch
    BY <1>0, <2>1, <2>2, <2>3 DEF InFlightIsReleased
  <2>5. QED
    BY <1>0, <2>1, <2>2, <2>3, <2>4, SameEpochStep
<1>2. ASSUME NEW p \in Pos, CancelChunk(p)
      PROVE  LoaderInv'
  <2>1. Outstanding' = Outstanding
    BY <1>2 DEF CancelChunk, Outstanding, Busy
  <2>2. QED
    BY <1>0, <1>2, <2>1, SameEpochStep DEF CancelChunk, InFlightIsReleased
<1>3. CASE ReceiveChunks
  <2>1. /\ Outstanding' \subseteq Outstanding
        /\ \A r \in Outstanding \ Outstanding' : r.epoch = epoch => r.pos \in AcceptedPos
    BY <1>0, <1>3, ReceiveOutstanding
  <2>2. inFlight' = inFlight \ AcceptedPos /\ epoch' = epoch /\ shifts' = shifts
    BY <1>3 DEF ReceiveChunks, DrainResults
  <2>3. \A q \in inFlight' : \E r \in Outstanding' : r.pos = q /\ r.epoch = epoch
    BY <1>0, <2>1, <2>2 DEF InFlightIsReleased
  <2>4. QED
    BY <1>0, <2>1, <2>2, <2>3, SameEpochStep
<1>4. CASE ResetEpochAndClear
  <2>1. Outstanding' \subseteq Outstanding
    BY <1>0, <1>4, ResetOutstanding
  <2>2. /\ epoch = shifts /\ shifts \in Nat /\ shifts < MaxShifts
        /\ epoch' = (epoch + 1) % EpochMod /\ shifts' = shifts + 1
    BY <1>0, <1>4 DEF ResetEpochAndClear, Stamped, LoaderTypeOK
  <2>3. shifts + 1 \in 0 .. EpochMod - 1 /\ EpochMod \in Nat \ {0}
    BY <2>2, LoaderAssumption
  <2>4. (shifts + 1) % EpochMod = shifts + 1
    BY <2>3
  <2>5. epoch' = shifts' /\ shifts' <= MaxShifts
    BY <2>2, <2>4, LoaderAssumption
  <2>6. inFlight' = {}
    BY <1>4 DEF ResetEpochAndClear
  <2>7. QED
    BY <1>0, <2>1, <2>5, <2>6 DEF LoaderInv, Stamped, InFlightIsReleased
<1>5. CASE CloseLoader
  <2>1. Outstanding' = Outstanding
    BY <1>5 DEF CloseLoader, Outstanding, Busy
  <2>2. QED
    BY <1>0, <1>5, <2>1, SameEpochStep DEF CloseLoader, InFlightIsReleased
<1>6. ASSUME NEW w \in Workers, TakeRequest(w)
      PROVE  LoaderInv'
  <2>1. Outstanding' = Outstanding
    BY <1>0, <1>6, TakeOutstanding
  <2>2. QED
    BY <1>0, <1>6, <2>1, SameEpochStep DEF TakeRequest, InFlightIsReleased
<1>7. ASSUME NEW w \in Workers, NEW d \in Payloads, FinishRequest(w, d)
      PROVE  LoaderInv'
  <2>1. Outstanding' = Outstanding
    BY <1>0, <1>7, FinishOutstanding
  <2>2. QED
    BY <1>0, <1>7, <2>1, SameEpochStep DEF FinishRequest, InFlightIsReleased
<1>8. ASSUME NEW w \in Workers, ExitWorker(w)
      PROVE  LoaderInv'
  <2>1. Busy' = Busy /\ \A v \in Busy : work'[v] = work[v]
    BY <1>0, <1>8 DEF ExitWorker, Busy, LoaderTypeOK
  <2>2. Outstanding' = Outstanding
    BY <1>8, <2>1 DEF ExitWorker, Outstanding
  <2>3. QED
    BY <1>0, <1>8, <2>2, SameEpochStep DEF ExitWorker, InFlightIsReleased
<1>9. CASE UNCHANGED loaderVars
  <2>1. Outstanding' = Outstanding
    BY <1>9 DEF loaderVars, Outstanding, Busy
  <2>2. QED
    BY <1>0, <1>9, <2>1, SameEpochStep DEF loaderVars, InFlightIsReleased
<1>10. QED
  BY <1>1, <1>2, <1>3, <1>4, <1>5, <1>6, <1>7, <1>8, <1>9 DEF LoaderNext, WorkerStep

LEMMA InvImpliesFresh == LoaderInv => DeliveredAreFresh
BY DEF LoaderInv, Stamped, DeliveredAreFresh, Accepted, Outstanding

\* A position that request_chunk refuses because it is in flight always has a
\* current request under way: cancel_chunk, origin shifts and shutdown never
\* leave a mark in the in-flight set that no result will ever clear.
THEOREM InFlightReleased == LoaderSpec => []InFlightIsReleased
<1>1. LoaderInv => InFlightIsReleased
  BY DEF LoaderInv
<1>2. QED
  BY InitInv, StepInv, <1>1, PTL DEF LoaderSpec

\* Whatever receive_chunks delivers was requested after the last origin
\* shift, for any number of workers that were busy across any shifts.
THEOREM DeliveryFresh == LoaderSpec => []DeliveredAreFresh
BY InitInv, StepInv, InvImpliesFresh, PTL DEF LoaderSpec

-----------------------------------------------------------------------------
(* Chunk streaming: the inductive invariant.                               *)

\* The work under way for a position, by its stage.
QueuedAt(p) == {i \in 1 .. Len(requests) : requests[i].pos = p}
HeldAt(p)   == {w \in Busy : work[w].pos = p /\ work[w].epoch = epoch}
DoneAt(p)   == {i \in Accepted : results[i].req.pos = p}
LateAt(p)   == {i \in 1 .. Len(deferred) : deferred[i].req.pos = p}

\* Requests and accepted results are of this epoch, and this epoch is of this
\* window; only a worker may hold older work.
OfThisWindow ==
    /\ \A i \in 1 .. Len(requests) : requests[i].epoch = epoch /\ requests[i].pos \in window
    /\ \A w \in Busy :
          work[w].epoch <= epoch /\ (work[w].epoch = epoch => work[w].pos \in window)
    /\ CompletedInWindow

AtMostOne(S) == \A a, b \in S : a = b

\* The work for p is in one stage at a time, once, and not while p is loaded;
\* until it is collected, p is marked in flight.
ApartAt(p) ==
    /\ AtMostOne(QueuedAt(p)) /\ AtMostOne(HeldAt(p))
    /\ AtMostOne(DoneAt(p)) /\ AtMostOne(LateAt(p))
    /\ QueuedAt(p) = {} \/ HeldAt(p) = {}
    /\ QueuedAt(p) = {} \/ DoneAt(p) = {}
    /\ QueuedAt(p) = {} \/ LateAt(p) = {}
    /\ HeldAt(p) = {} \/ DoneAt(p) = {}
    /\ HeldAt(p) = {} \/ LateAt(p) = {}
    /\ DoneAt(p) = {} \/ LateAt(p) = {}
    /\ p \in Loaded =>
          QueuedAt(p) = {} /\ HeldAt(p) = {} /\ DoneAt(p) = {} /\ LateAt(p) = {}
    /\ p \notin inFlight => QueuedAt(p) = {} /\ HeldAt(p) = {} /\ DoneAt(p) = {}

Apart == \A p \in Pos \ reasked : ApartAt(p)

PipeInv == StreamTypeOK /\ LoaderInv /\ OfThisWindow /\ Apart

-----------------------------------------------------------------------------
(* Types.                                                                  *)

\* A nonempty set of indices has a greatest one.
LEMMA MaxOfIndices ==
    ASSUME NEW n \in Nat, NEW S, S \subseteq 1 .. n, S # {}
    PROVE  Max(S) \in S /\ \A i \in S : i <= Max(S)
<1> DEFINE T == {k \in Nat : n - k \in S}
<1>1. \A i \in S : i \in 1 .. n /\ n - i \in T
  <2>1. ASSUME NEW i \in S PROVE i \in 1 .. n /\ n - i \in T
    <3>1. i \in Int /\ 1 <= i /\ i <= n
      OBVIOUS
    <3>2. n - i \in Nat /\ n - (n - i) = i
      BY <3>1
    <3>3. QED
      BY <3>1, <3>2
  <2>2. QED
    BY <2>1
<1>2. T \subseteq Nat /\ T # {}
  BY <1>1
<1>3. IsWellFoundedOn(OpToRel(<, Nat), Nat)
  BY NatLessThanWellFounded
<1>4. PICK k \in T : \A y \in T : ~(<<y, k>> \in OpToRel(<, Nat))
  BY <1>2, <1>3, WFMin
<1>5. k \in Nat /\ n - k \in S /\ \A y \in T : ~(y < k)
  BY <1>2, <1>4 DEF OpToRel
<1>6. \A i \in S : i <= n - k
  <2>1. ASSUME NEW i \in S PROVE i <= n - k
    <3>1. i \in 1 .. n /\ n - i \in T /\ ~(n - i < k)
      BY <1>1, <1>5
    <3>2. QED
      BY <3>1, <1>5
  <2>2. QED
    BY <2>1
<1>7. \E x \in S : \A y \in S : x >= y
  BY <1>1, <1>5, <1>6
<1>8. Max(S) \in S /\ \A y \in S : Max(S) >= y
  BY <1>7 DEF Max
<1>9. QED
  BY <1>1, <1>8

\* The elements of a finite set in some order are all its elements, each once.
LEMMA OrderOfSet ==
    ASSUME NEW S, IsFiniteSet(S), NEW order \in SetToSeqs(S)
    PROVE  /\ order \in Seq(S) /\ Len(order) \in Nat
           /\ order \in [1 .. Len(order) -> S]
           /\ \A s \in S : \E n \in 1 .. Len(order) : order[n] = s
           /\ \A m, n \in 1 .. Len(order) : order[m] = order[n] => m = n
<1> DEFINE D == 1 .. Cardinality(S)
<1>1. Cardinality(S) \in Nat
  BY FS_CardinalityType
<1>2. order \in [D -> S] /\ \A m, n \in D : m # n => order[m] # order[n]
  BY DEF SetToSeqs
<1>3. Len(order) = Cardinality(S) /\ order \in Seq(S)
  BY <1>1, <1>2
<1>4. order \in Injection(D, S)
  BY <1>2 DEF Injection, IsInjective
<1>5. Cardinality(D) = Cardinality(S)
  BY <1>1, FS_Interval
<1>6. order \in Surjection(D, S)
  BY <1>4, <1>5, FS_Injection
<1>7. \A s \in S : \E n \in D : order[n] = s
  BY <1>6 DEF Surjection
<1>8. QED
  BY <1>1, <1>2, <1>3, <1>7

-----------------------------------------------------------------------------
(* What a frame does with the results it collects.                         *)

KeptAt(p) == {k \in Kept : Gathered[k].req.pos = p}

\* The results gathered in a frame are the deferred ones and the new ones.
LEMMA GatheredIs ==
    ASSUME StreamTypeOK
    PROVE  /\ Gathered \in Seq(Result) /\ Len(Gathered) = Len(deferred) + Len(results)
           /\ Len(deferred) \in Nat /\ Len(results) \in Nat
           /\ \A i \in 1 .. Len(deferred) : Gathered[i] = deferred[i]
           /\ \A i \in 1 .. Len(results) : Gathered[Len(deferred) + i] = results[i]
BY DEF StreamTypeOK, LoaderTypeOK, Gathered

LEMMA KeptIs ==
    ASSUME StreamTypeOK
    PROVE  /\ Kept \subseteq 1 .. Len(Gathered) /\ IsFiniteSet(Kept)
           /\ \A k \in Kept : Gathered[k] \in Result
           /\ \A k \in Kept :
                 \/ k \in 1 .. Len(deferred) /\ Gathered[k] = deferred[k]
                 \/ k - Len(deferred) \in Accepted /\ Gathered[k] = results[k - Len(deferred)]
           /\ \A p : \A k \in KeptAt(p) :
                 k \in LateAt(p) \/ k - Len(deferred) \in DoneAt(p)
           /\ \A p : \A k \in LateAt(p) : k \in KeptAt(p)
           /\ \A p : \A i \in DoneAt(p) : i + Len(deferred) \in KeptAt(p)
<1>1. /\ Gathered \in Seq(Result) /\ Len(Gathered) = Len(deferred) + Len(results)
      /\ Len(deferred) \in Nat /\ Len(results) \in Nat
      /\ \A i \in 1 .. Len(deferred) : Gathered[i] = deferred[i]
      /\ \A i \in 1 .. Len(results) : Gathered[Len(deferred) + i] = results[i]
  BY GatheredIs
<1>2. Kept \subseteq 1 .. Len(Gathered) /\ \A k \in Kept : Gathered[k] \in Result
  BY <1>1 DEF Kept
<1>3. IsFiniteSet(Kept)
  <2>1. IsFiniteSet(1 .. Len(Gathered))
    BY <1>1, FS_Interval
  <2>2. QED
    BY <1>2, <2>1, FS_Subset
<1>4. ASSUME NEW k \in Kept
      PROVE  \/ k \in 1 .. Len(deferred) /\ Gathered[k] = deferred[k]
             \/ k - Len(deferred) \in Accepted /\ Gathered[k] = results[k - Len(deferred)]
  <2>1. k \in 1 .. Len(Gathered) /\ (k <= Len(deferred) \/ Gathered[k].req.epoch = epoch)
    BY DEF Kept
  <2>2. CASE k <= Len(deferred)
    BY <1>1, <2>1, <2>2
  <2>3. CASE ~(k <= Len(deferred))
    <3>1. k - Len(deferred) \in 1 .. Len(results) /\ Len(deferred) + (k - Len(deferred)) = k
      BY <1>1, <2>1, <2>3
    <3>2. Gathered[k] = results[k - Len(deferred)]
      BY <1>1, <3>1
    <3>3. QED
      BY <2>1, <2>3, <3>1, <3>2 DEF Accepted
  <2>4. QED
    BY <2>2, <2>3
<1>5. ASSUME NEW i \in 1 .. Len(deferred)
      PROVE  i \in Kept /\ Gathered[i] = deferred[i]
  BY <1>1 DEF Kept
<1>6. ASSUME NEW i \in Accepted
      PROVE  i + Len(deferred) \in Kept /\ Gathered[i + Len(deferred)] = results[i]
  <2>1. i \in 1 .. Len(results) /\ results[i].req.epoch = epoch
    BY DEF Accepted
  <2>2. i + Len(deferred) \in 1 .. Len(Gathered) /\ Gathered[i + Len(deferred)] = results[i]
    BY <1>1, <2>1
  <2>3. QED
    BY <2>1, <2>2 DEF Kept
<1>7. QED
  BY <1>2, <1>3, <1>4, <1>5, <1>6 DEF KeptAt, LateAt, DoneAt

\* Of a position none of whose results wait nothing changes; the only result of
\* a position is inserted or deferred.
LEMMA ReceiveEffect ==
    ASSUME StreamTypeOK, ReceiveAndInsert, StreamingAssumption
    PROVE  /\ world' \in [Pos -> Chunk \cup {NotLoaded}]
           /\ deferred' \in Seq(Result)
           /\ \A i \in 1 .. Len(deferred') : \E k \in Kept : deferred'[i] = Gathered[k]
           /\ \A p \in Pos : KeptAt(p) = {} => world'[p] = world[p] /\ LateAt(p)' = {}
           /\ \A p \in Pos : \A k \in KeptAt(p) : AtMostOne(KeptAt(p)) =>
                \/ /\ world'[p] = [edits |-> Gathered[k].data, dirty |-> FALSE]
                   /\ LateAt(p)' = {}
                \/ /\ world'[p] = world[p]
                   /\ \E i : LateAt(p)' = {i} /\ deferred'[i] = Gathered[k]
<1> DEFINE Comp(order) == [n \in 1 .. Len(order) |-> Gathered[order[n]]]
           Here(order, p) == {n \in 1 .. Len(order) :
                                n <= UploadBudget /\ Gathered[order[n]].req.pos = p}
<1>1. PICK order \in Orders :
        /\ world' = InsertAll(order)
        /\ deferred' = SubSeq(Comp(order), UploadBudget + 1, Len(order))
  BY DEF ReceiveAndInsert
<1>2. /\ Kept \subseteq 1 .. Len(Gathered) /\ IsFiniteSet(Kept)
      /\ \A k \in Kept : Gathered[k] \in Result
  BY KeptIs
<1>3. order \in SetToSeqs(Kept)
  BY DEF Orders
<1>4. /\ order \in Seq(Kept) /\ Len(order) \in Nat
      /\ order \in [1 .. Len(order) -> Kept]
      /\ \A k \in Kept : \E n \in 1 .. Len(order) : order[n] = k
      /\ \A m, n \in 1 .. Len(order) : order[m] = order[n] => m = n
  BY <1>2, <1>3, OrderOfSet
<1>5. UploadBudget \in Nat
  BY DEF StreamingAssumption
<1> DEFINE comp == Comp(order)
<1>6. /\ comp \in Seq(Result) /\ Len(comp) = Len(order)
      /\ \A n \in 1 .. Len(order) : comp[n] = Gathered[order[n]]
  <2>1. \A n \in 1 .. Len(order) : Gathered[order[n]] \in Result
    BY <1>2, <1>4
  <2>2. comp \in [1 .. Len(order) -> Result]
    BY <2>1
  <2>3. Len(order) \in Nat
    BY <1>4
  <2>4. comp \in Seq(Result) /\ Len(comp) = Len(order)
    BY <2>2, <2>3
  <2>5. QED
    BY <2>4
<1>7. deferred' = SubSeq(comp, UploadBudget + 1, Len(order))
  BY <1>1
<1> HIDE DEF comp
<1>8. /\ deferred' \in Seq(Result)
      /\ \A i \in 1 .. Len(deferred') :
            /\ i + UploadBudget \in 1 .. Len(order)
            /\ deferred'[i] = Gathered[order[i + UploadBudget]]
      /\ \A n \in 1 .. Len(order) : n > UploadBudget => n - UploadBudget \in 1 .. Len(deferred')
  <2>1. deferred' \in Seq(Result)
    BY <1>4, <1>5, <1>6, <1>7
  <2>2. Len(deferred') = IF UploadBudget < Len(order) THEN Len(order) - UploadBudget ELSE 0
    BY <1>4, <1>5, <1>6, <1>7
  <2>3. \A i \in 1 .. Len(deferred') : deferred'[i] = comp[i + UploadBudget]
    BY <1>4, <1>5, <1>6, <1>7, <2>2
  <2> DEFINE size == Len(order)  left == Len(deferred')
  <2>7. size \in Nat /\ left = IF UploadBudget < size THEN size - UploadBudget ELSE 0
    BY <1>4, <2>2
  <2> HIDE DEF size, left
  <2>4. \A i \in 1 .. left : i + UploadBudget \in 1 .. size
    BY <1>5, <2>7
  <2>5. \A n \in 1 .. size : n > UploadBudget => n - UploadBudget \in 1 .. left
    BY <1>5, <2>7
  <2>6. QED
    BY <1>6, <2>1, <2>3, <2>4, <2>5 DEF size, left
<1>9. \A p \in Pos : Here(order, p) # {} =>
         /\ Max(Here(order, p)) \in Here(order, p)
  <2>1. \A p \in Pos : Here(order, p) \subseteq 1 .. Len(order)
    OBVIOUS
  <2>2. QED
    BY <1>4, <2>1, MaxOfIndices
<1>10. \A p \in Pos : world'[p] =
          IF Here(order, p) = {} THEN world[p]
          ELSE [edits |-> Gathered[order[Max(Here(order, p))]].data, dirty |-> FALSE]
  BY <1>1 DEF InsertAll
<1>11. world' \in [Pos -> Chunk \cup {NotLoaded}]
  <2>1. ASSUME NEW p \in Pos PROVE world'[p] \in Chunk \cup {NotLoaded}
    <3>1. CASE Here(order, p) = {}
      BY <1>10, <3>1 DEF StreamTypeOK
    <3>2. CASE Here(order, p) # {}
      <4>1. PICK n \in 1 .. Len(order) : n = Max(Here(order, p))
        BY <1>9, <3>2
      <4>2. Gathered[order[n]] \in Result
        BY <1>2, <1>4
      <4>3. Gathered[order[n]].data \in SUBSET Edits
        BY <4>2 DEF Result, StreamingAssumption
      <4>4. [edits |-> Gathered[order[n]].data, dirty |-> FALSE] \in Chunk
        BY <4>3 DEF Chunk
      <4>5. world'[p] = [edits |-> Gathered[order[Max(Here(order, p))]].data, dirty |-> FALSE]
        BY <1>10, <3>2
      <4>6. QED
        BY <4>1, <4>4, <4>5
    <3>3. QED
      BY <3>1, <3>2
  <2>2. world' = [p \in Pos |-> world'[p]]
    BY <1>1 DEF InsertAll
  <2>3. QED
    BY <2>1, <2>2
<1>12. \A i \in 1 .. Len(deferred') : \E k \in Kept : deferred'[i] = Gathered[k]
  BY <1>4, <1>8
<1>13. ASSUME NEW p \in Pos, KeptAt(p) = {}
       PROVE  world'[p] = world[p] /\ LateAt(p)' = {}
  <2>1. Here(order, p) = {}
    BY <1>4, <1>13 DEF KeptAt
  <2>2. LateAt(p)' = {}
    BY <1>12, <1>13 DEF KeptAt, LateAt
  <2>3. QED
    BY <1>10, <2>1, <2>2
<1>14. ASSUME NEW p \in Pos, NEW k \in KeptAt(p), AtMostOne(KeptAt(p))
       PROVE  \/ /\ world'[p] = [edits |-> Gathered[k].data, dirty |-> FALSE]
                 /\ LateAt(p)' = {}
              \/ /\ world'[p] = world[p]
                 /\ \E i : LateAt(p)' = {i} /\ deferred'[i] = Gathered[k]
  <2>1. k \in Kept /\ Gathered[k].req.pos = p
    BY DEF KeptAt
  <2>2. PICK n \in 1 .. Len(order) : order[n] = k
    BY <1>4, <2>1
  <2>3. \A m \in 1 .. Len(order) : Gathered[order[m]].req.pos = p => m = n
    <3>1. ASSUME NEW m \in 1 .. Len(order), Gathered[order[m]].req.pos = p
          PROVE  m = n
      <4>1. order[m] \in KeptAt(p)
        BY <1>4, <3>1 DEF KeptAt
      <4>2. order[m] = k
        BY <1>14, <4>1 DEF AtMostOne
      <4>3. QED
        BY <1>4, <2>2, <4>2
    <3>2. QED
      BY <3>1
  <2>4. CASE n <= UploadBudget
    <3>1. Here(order, p) = {n}
      BY <2>1, <2>2, <2>3, <2>4
    <3>2. Max(Here(order, p)) = n
      BY <1>9, <3>1
    <3>3. LateAt(p)' = {}
      <4>1. ASSUME NEW i \in LateAt(p)' PROVE FALSE
        <5>1. i \in 1 .. Len(deferred') /\ deferred'[i].req.pos = p
          BY <4>1 DEF LateAt
        <5>2. i + UploadBudget = n
          BY <1>8, <2>3, <5>1
        <5>3. QED
          BY <1>5, <2>4, <5>1, <5>2
      <4>2. QED
        BY <4>1
    <3>4. QED
      BY <1>10, <2>2, <3>1, <3>2, <3>3
  <2>5. CASE ~(n <= UploadBudget)
    <3>1. Here(order, p) = {}
      BY <2>3, <2>5
    <3>2. n - UploadBudget \in 1 .. Len(deferred') /\ (n - UploadBudget) + UploadBudget = n
      BY <1>4, <1>5, <1>8, <2>5
    <3>3. deferred'[n - UploadBudget] = Gathered[k]
      BY <1>8, <2>2, <3>2
    <3>4. ASSUME NEW i \in LateAt(p)' PROVE i = n - UploadBudget
      <4>1. i \in 1 .. Len(deferred') /\ deferred'[i].req.pos = p
        BY <3>4 DEF LateAt
      <4>2. i + UploadBudget = n
        BY <1>8, <2>3, <4>1
      <4>3. QED
        BY <1>5, <4>1, <4>2
    <3>5. n - UploadBudget \in LateAt(p)'
      BY <2>1, <3>2, <3>3 DEF LateAt
    <3>6. LateAt(p)' = {n - UploadBudget}
      BY <3>4, <3>5
    <3>7. QED
      BY <1>10, <3>1, <3>3, <3>6
  <2>6. QED
    BY <2>4, <2>5
<1>15. QED
  BY <1>8, <1>11, <1>12, <1>13, <1>14

-----------------------------------------------------------------------------
(* How the loader's operations move the work for a position.               *)

LEMMA TakeEffect ==
    ASSUME LoaderTypeOK, NEW w \in Workers, TakeRequest(w), requests[1].epoch = epoch
    PROVE  /\ Busy' = Busy \cup {w} /\ w \notin Busy
           /\ \A v \in Busy : work'[v] = work[v]
           /\ work'[w] = requests[1] /\ 1 \in 1 .. Len(requests)
           /\ \A i \in 1 .. Len(requests') :
                 i + 1 \in 1 .. Len(requests) /\ requests'[i] = requests[i + 1]
           /\ \A p : DoneAt(p)' = DoneAt(p)
           /\ \A p : p # requests[1].pos => HeldAt(p)' = HeldAt(p)
           /\ \A p : p = requests[1].pos => HeldAt(p)' = HeldAt(p) \cup {w}
<1>1. requests \in Seq(Request) /\ requests # <<>> /\ requests' = Tail(requests)
  BY DEF TakeRequest, LoaderTypeOK
<1>2. 1 \in 1 .. Len(requests) /\ Head(requests) = requests[1] /\ requests[1] \in Request
  BY <1>1
<1>3. \A i \in 1 .. Len(requests') :
        i + 1 \in 1 .. Len(requests) /\ requests'[i] = requests[i + 1]
  BY <1>1
<1>4. /\ work \in [Workers -> Request \cup {Idle, Exited}]
      /\ work[w] = Idle /\ work' = [work EXCEPT ![w] = requests[1]]
  BY <1>2 DEF TakeRequest, LoaderTypeOK
<1>5. Busy' = Busy \cup {w} /\ w \notin Busy
  BY <1>2, <1>4, WorkerStateAssumption DEF Busy
<1>6. \A v \in Busy : work'[v] = work[v]
  BY <1>4, <1>5 DEF Busy
<1>7. work'[w] = requests[1]
  BY <1>4
<1>8. epoch' = epoch /\ results' = results
  BY DEF TakeRequest
<1>9. \A p : DoneAt(p)' = DoneAt(p)
  BY <1>8 DEF DoneAt, Accepted
<1>10. \A p : p # requests[1].pos => HeldAt(p)' = HeldAt(p)
  BY <1>5, <1>6, <1>7, <1>8 DEF HeldAt
<1>11. \A p : p = requests[1].pos => HeldAt(p)' = HeldAt(p) \cup {w}
  BY <1>5, <1>6, <1>7, <1>8 DEF HeldAt
<1>12. QED
  BY <1>2, <1>3, <1>5, <1>6, <1>7, <1>9, <1>10, <1>11

LEMMA FinishEffect ==
    ASSUME LoaderTypeOK, NEW w \in Workers, NEW d \in Payloads, FinishRequest(w, d)
    PROVE  /\ Busy' = Busy \ {w} /\ \A v \in Busy' : work'[v] = work[v]
           /\ Len(results) \in Nat /\ Len(results') = Len(results) + 1
           /\ \A i \in 1 .. Len(results) : results'[i] = results[i]
           /\ results'[Len(results) + 1] = [req |-> work[w], data |-> d]
           /\ Accepted' = Accepted \cup
                          (IF work[w].epoch = epoch THEN {Len(results) + 1} ELSE {})
           /\ \A p : QueuedAt(p)' = QueuedAt(p)
           /\ \A p : w \notin HeldAt(p) => HeldAt(p)' = HeldAt(p) /\ DoneAt(p)' = DoneAt(p)
           /\ \A p : w \in HeldAt(p) =>
                 /\ HeldAt(p)' = HeldAt(p) \ {w}
                 /\ DoneAt(p)' = DoneAt(p) \cup {Len(results) + 1}
<1> DEFINE new == [req |-> work[w], data |-> d]
<1>1. w \in Busy /\ results \in Seq(Result) /\ results' = Append(results, new)
  BY DEF FinishRequest, LoaderTypeOK
<1>2. work[w] \in Request /\ new \in Result
  BY <1>1 DEF Busy, LoaderTypeOK, Result
<1>3. /\ Len(results) \in Nat /\ Len(results') = Len(results) + 1
      /\ \A i \in 1 .. Len(results) : results'[i] = results[i]
      /\ results'[Len(results) + 1] = new
  BY <1>1, <1>2
<1>4. Busy' = Busy \ {w} /\ \A v \in Busy' : work'[v] = work[v]
  BY <1>1, WorkerStateAssumption DEF FinishRequest, LoaderTypeOK, Busy
<1>5. epoch' = epoch /\ requests' = requests
  BY DEF FinishRequest
<1>6. new.req = work[w]
  OBVIOUS
<1> HIDE DEF new
<1>7. Accepted' = Accepted \cup (IF work[w].epoch = epoch THEN {Len(results) + 1} ELSE {})
  BY <1>3, <1>5, <1>6 DEF Accepted
<1>8. \A p : QueuedAt(p)' = QueuedAt(p)
  BY <1>5 DEF QueuedAt
<1>9. \A p : HeldAt(p)' = HeldAt(p) \ {w}
  BY <1>4, <1>5 DEF HeldAt
<1>10. \A i \in Accepted : i \in 1 .. Len(results)
  BY DEF Accepted
<1>11. ASSUME NEW p, w \notin HeldAt(p) PROVE DoneAt(p)' = DoneAt(p)
  <2>1. work[w].pos # p \/ work[w].epoch # epoch
    BY <1>1, <1>11 DEF HeldAt
  <2>2. QED
    BY <2>1, <1>3, <1>6, <1>7, <1>10 DEF DoneAt
<1>12. ASSUME NEW p, w \in HeldAt(p) PROVE DoneAt(p)' = DoneAt(p) \cup {Len(results) + 1}
  <2>1. work[w].pos = p /\ work[w].epoch = epoch
    BY <1>12 DEF HeldAt
  <2>2. QED
    BY <2>1, <1>3, <1>6, <1>7, <1>10 DEF DoneAt
<1>13. QED
  BY <1>3, <1>4, <1>7, <1>8, <1>9, <1>11, <1>12 DEF new

LEMMA RequestEffect ==
    ASSUME LoaderTypeOK, NEW q \in Pos, RequestChunk(q)
    PROVE  /\ Len(requests) \in Nat /\ Len(requests') = Len(requests) + 1
           /\ \A i \in 1 .. Len(requests) : requests'[i] = requests[i]
           /\ requests'[Len(requests) + 1] = [pos |-> q, epoch |-> epoch, shift |-> shifts]
           /\ \A p : DoneAt(p)' = DoneAt(p) /\ HeldAt(p)' = HeldAt(p)
           /\ \A p : p # q => QueuedAt(p)' = QueuedAt(p)
           /\ QueuedAt(q)' = QueuedAt(q) \cup {Len(requests) + 1}
           /\ q \notin inFlight /\ inFlight' = inFlight \cup {q}
           /\ UNCHANGED <<work, results, epoch>>
<1> DEFINE new == [pos |-> q, epoch |-> epoch, shift |-> shifts]
<1>1. requests \in Seq(Request) /\ requests' = Append(requests, new) /\ new \in Request
  BY DEF RequestChunk, LoaderTypeOK, Request
<1>2. /\ Len(requests) \in Nat /\ Len(requests') = Len(requests) + 1
      /\ \A i \in 1 .. Len(requests) : requests'[i] = requests[i]
      /\ requests'[Len(requests) + 1] = new
  BY <1>1
<1>3. UNCHANGED <<work, results, epoch>>
  BY DEF RequestChunk
<1>4. \A p : DoneAt(p)' = DoneAt(p) /\ HeldAt(p)' = HeldAt(p)
  BY <1>3 DEF DoneAt, HeldAt, Busy, Accepted
<1>5. new.pos = q
  OBVIOUS
<1> HIDE DEF new
<1>6. \A p : p # q => QueuedAt(p)' = QueuedAt(p)
  BY <1>2, <1>5 DEF QueuedAt
<1>7. QueuedAt(q)' = QueuedAt(q) \cup {Len(requests) + 1}
  BY <1>2, <1>5 DEF QueuedAt
<1>8. q \notin inFlight /\ inFlight' = inFlight \cup {q}
  BY DEF RequestChunk, CanRequest
<1>9. QED
  BY <1>2, <1>3, <1>4, <1>6, <1>7, <1>8 DEF new

LEMMA DrainEffect ==
    ASSUME LoaderTypeOK, DrainResults
    PROVE  /\ \A p : QueuedAt(p)' = QueuedAt(p) /\ HeldAt(p)' = HeldAt(p) /\ DoneAt(p)' = {}
           /\ \A p : p \in AcceptedPos <=> DoneAt(p) # {}
           /\ inFlight' = inFlight \ AcceptedPos
           /\ Accepted' = {} /\ UNCHANGED <<requests, work, epoch, Busy>>
<1>1. results' = <<>> /\ UNCHANGED <<requests, work, epoch>> /\ inFlight' = inFlight \ AcceptedPos
  BY DEF DrainResults
<1>2. Busy' = Busy /\ Accepted' = {}
  BY <1>1 DEF Busy, Accepted
<1>3. QED
  BY <1>1, <1>2 DEF QueuedAt, HeldAt, DoneAt, AcceptedPos

-----------------------------------------------------------------------------
(* Types.                                                                  *)

\* A chunk that is loaded has edits and a dirty flag.
LEMMA LoadedIsChunk ==
    ASSUME StreamTypeOK, NEW p \in Pos
    PROVE  /\ p \in Loaded => world[p] \in Chunk
           /\ p \in Loaded => world[p].edits \in SUBSET Edits /\ world[p].dirty \in BOOLEAN
           /\ p \in Dirty <=> p \in Loaded /\ world[p].dirty
BY DEF StreamTypeOK, Loaded, Dirty, Chunk

\* The elements of two sequences put together.
LEMMA ConcatIs ==
    ASSUME NEW T, NEW s \in Seq(T), NEW t \in Seq(T)
    PROVE  /\ s \o t \in Seq(T) /\ Len(s) \in Nat /\ Len(t) \in Nat
           /\ Len(s \o t) = Len(s) + Len(t)
           /\ \A i \in 1 .. Len(s) : (s \o t)[i] = s[i]
           /\ \A i \in 1 .. Len(s) + Len(t) : i > Len(s) => (s \o t)[i] = t[i - Len(s)]
OBVIOUS

\* Sending a set of dirty chunks appends one command or more for each of them,
\* with its contents, and none for another position.
LEMMA SendEffect ==
    ASSUME StreamTypeOK, StreamingAssumption, NEW S \in SUBSET Dirty,
           NEW order \in SetToSeqs(S), saves' = saves \o SavesOf(order)
    PROVE  /\ saves' \in Seq(Save) /\ Len(saves) \in Nat
           /\ \A i \in 1 .. Len(saves) : i \in 1 .. Len(saves') /\ saves'[i] = saves[i]
           /\ \A i \in 1 .. Len(saves') :
                 \/ i \in 1 .. Len(saves)
                 \/ /\ i > Len(saves)
                    /\ saves'[i].pos \in S /\ saves'[i].edits = world[saves'[i].pos].edits
           /\ \A p \in S : \E i \in 1 .. Len(saves') : i > Len(saves) /\ saves'[i].pos = p
<1> DEFINE sent == SavesOf(order)
<1>1. S \subseteq Pos /\ IsFiniteSet(S)
  <2>1. S \subseteq Pos
    BY DEF Dirty, Loaded
  <2>2. QED
    BY <2>1, FS_Subset DEF StreamingAssumption
<1>2. /\ Len(order) \in Nat
      /\ \A n \in 1 .. Len(order) : order[n] \in S
      /\ \A s \in S : \E n \in 1 .. Len(order) : order[n] = s
  BY <1>1, OrderOfSet
<1>3. \A n \in 1 .. Len(order) :
         [pos |-> order[n], edits |-> world[order[n]].edits] \in Save
  <2>1. ASSUME NEW n \in 1 .. Len(order)
        PROVE  [pos |-> order[n], edits |-> world[order[n]].edits] \in Save
    <3>1. PICK p \in S : p = order[n]
      BY <1>2
    <3>2. p \in Pos /\ p \in Loaded
      BY <1>1 DEF Dirty
    <3>3. world[p].edits \in SUBSET Edits
      BY <3>2, LoadedIsChunk
    <3>4. QED
      BY <3>1, <3>2, <3>3 DEF Save
  <2>2. QED
    BY <2>1
<1>4. sent \in [1 .. Len(order) -> Save]
  BY <1>3 DEF SavesOf
<1>5. sent \in Seq(Save) /\ Len(sent) = Len(order)
  <2>1. Len(order) \in Nat
    BY <1>2
  <2> HIDE DEF sent
  <2>2. QED
    BY <2>1, <1>4
<1>6. \A n \in 1 .. Len(order) :
         sent[n].pos = order[n] /\ sent[n].edits = world[order[n]].edits
  BY DEF SavesOf
<1> HIDE DEF sent
<1>7. saves \in Seq(Save) /\ Len(saves) \in Nat /\ saves' = saves \o sent
  BY DEF StreamTypeOK, sent
<1> DEFINE old == Len(saves)
           size == Len(order)
<1>8. /\ saves' \in Seq(Save) /\ old \in Nat /\ size \in Nat /\ Len(saves') = old + size
      /\ \A i \in 1 .. old : saves'[i] = saves[i]
      /\ \A i \in 1 .. old + size : i > old => saves'[i] = sent[i - old]
  <2>1. saves \in Seq(Save) /\ sent \in Seq(Save) /\ saves' = saves \o sent
    BY <1>5, <1>7
  <2>2. old = Len(saves) /\ size = Len(sent)
    BY <1>5
  <2> HIDE DEF old, size
  <2>3. QED
    BY <2>1, <2>2, ConcatIs
<1> HIDE DEF old, size
<1>9. /\ \A i \in 1 .. old : i \in 1 .. old + size
      /\ \A i \in 1 .. old + size : i \in 1 .. old \/ (i > old /\ i - old \in 1 .. size)
      /\ \A n \in 1 .. size : n + old \in 1 .. old + size /\ n + old > old /\ (n + old) - old = n
  BY <1>8
<1>10. \A i \in 1 .. old + size : i > old =>
          saves'[i].pos \in S /\ saves'[i].edits = world[saves'[i].pos].edits
  <2>1. ASSUME NEW i \in 1 .. old + size, i > old
        PROVE  saves'[i].pos \in S /\ saves'[i].edits = world[saves'[i].pos].edits
    <3>1. i - old \in 1 .. size
      BY <1>8, <2>1
    <3>2. saves'[i] = sent[i - old]
      BY <1>8, <2>1
    <3>3. QED
      BY <1>2, <1>6, <3>1, <3>2 DEF size
  <2>2. QED
    BY <2>1
<1>11. ASSUME NEW p \in S
       PROVE  \E i \in 1 .. Len(saves') : i > old /\ saves'[i].pos = p
  <2>1. PICK n \in 1 .. size : order[n] = p
    BY <1>2 DEF size
  <2>2. saves'[n + old] = sent[n]
    BY <1>8, <1>9
  <2>3. saves'[n + old].pos = p
    BY <1>6, <2>1, <2>2 DEF size
  <2>4. QED
    BY <1>8, <1>9, <2>3
<1>12. QED
  BY <1>8, <1>9, <1>10, <1>11 DEF old

\* Marking chunks clean changes nothing else.
LEMMA FlushEffect ==
    ASSUME StreamTypeOK, NEW S \in SUBSET Dirty, world' = Flushed(S)
    PROVE  /\ world' \in [Pos -> Chunk \cup {NotLoaded}] /\ Loaded' = Loaded
           /\ Dirty' = Dirty \ S
           /\ \A p \in Loaded : world'[p].edits = world[p].edits
           /\ \A p \in Loaded : world'[p].dirty = (world[p].dirty /\ p \notin S)
<1>1. S \subseteq Pos /\ S \subseteq Loaded /\ S \subseteq Dirty
  BY DEF Dirty, Loaded
<1>2. ASSUME NEW p \in Loaded
      PROVE  /\ p \in Pos /\ world'[p] \in Chunk /\ world'[p].edits = world[p].edits
             /\ world'[p].dirty = (world[p].dirty /\ p \notin S)
  <2>1. p \in Pos /\ world[p] \in Chunk
    BY LoadedIsChunk DEF Loaded
  <2>2. CASE p \in S
    <3>1. world'[p] = [world[p] EXCEPT !.dirty = FALSE]
      BY <2>1, <2>2 DEF Flushed
    <3>2. QED
      BY <2>1, <2>2, <3>1 DEF Chunk
  <2>3. CASE p \notin S
    <3>1. world'[p] = world[p]
      BY <2>1, <2>3 DEF Flushed
    <3>2. QED
      BY <2>1, <2>3, <3>1 DEF Chunk
  <2>4. QED
    BY <2>2, <2>3
<1>3. \A p \in Pos \ Loaded : world'[p] = NotLoaded
  BY <1>1 DEF Flushed, Loaded
<1>4. world' \in [Pos -> Chunk \cup {NotLoaded}]
  <2>1. \A p \in Pos : world'[p] \in Chunk \cup {NotLoaded}
    BY <1>2, <1>3
  <2>2. QED
    BY <2>1 DEF Flushed
<1>5. Loaded' = Loaded
  BY <1>2, <1>3, AbsenceAssumption DEF Loaded
<1>6. Dirty' = Dirty \ S
  BY <1>2, <1>5, LoadedIsChunk DEF Dirty
<1>7. QED
  BY <1>2, <1>4, <1>5, <1>6

\* Unloading a chunk removes it and sends it if it is dirty.
LEMMA UnloadEffect ==
    ASSUME StreamTypeOK, NEW q \in Pos, UnloadChunk(q)
    PROVE  /\ world' \in [Pos -> Chunk \cup {NotLoaded}]
           /\ Loaded' = Loaded \ {q} /\ Dirty' = Dirty \ {q} /\ q \in Loaded
           /\ \A p \in Pos : p # q => world'[p] = world[p]
           /\ saves' \in Seq(Save) /\ Len(saves) \in Nat
           /\ \A i \in 1 .. Len(saves) : i \in 1 .. Len(saves') /\ saves'[i] = saves[i]
           /\ \A i \in 1 .. Len(saves') :
                 \/ i \in 1 .. Len(saves)
                 \/ /\ i > Len(saves) /\ q \in Dirty
                    /\ saves'[i].pos = q /\ saves'[i].edits = world[q].edits
           /\ q \in Dirty => \E i \in 1 .. Len(saves') : i > Len(saves) /\ saves'[i].pos = q
<1> DEFINE new == [pos |-> q, edits |-> world[q].edits]
<1>1. /\ q \in Loaded /\ world' = [world EXCEPT ![q] = NotLoaded]
      /\ world \in [Pos -> Chunk \cup {NotLoaded}] /\ saves \in Seq(Save)
  BY DEF UnloadChunk, StreamTypeOK
<1>2. world[q].edits \in SUBSET Edits /\ (q \in Dirty <=> world[q].dirty)
  BY <1>1, LoadedIsChunk
<1>3. new \in Save /\ new.pos = q /\ new.edits = world[q].edits
  BY <1>2 DEF Save
<1>4. /\ world' \in [Pos -> Chunk \cup {NotLoaded}]
      /\ world'[q] = NotLoaded /\ \A p \in Pos : p # q => world'[p] = world[p]
  BY <1>1
<1>5. Loaded' = Loaded \ {q}
  BY <1>4 DEF Loaded
<1>6. Dirty' = Dirty \ {q}
  BY <1>4, <1>5 DEF Dirty, Loaded
<1> HIDE DEF new
<1>7. CASE q \in Dirty
  <2>1. saves' = Append(saves, new)
    BY <1>2, <1>7 DEF UnloadChunk, new
  <2>2. /\ saves' \in Seq(Save) /\ Len(saves) \in Nat /\ Len(saves') = Len(saves) + 1
        /\ \A i \in 1 .. Len(saves) : saves'[i] = saves[i]
        /\ saves'[Len(saves) + 1] = new
    BY <1>1, <1>3, <2>1
  <2>3. /\ \A i \in 1 .. Len(saves') : i \in 1 .. Len(saves) \/ i = Len(saves) + 1
        /\ \A i \in 1 .. Len(saves) : i \in 1 .. Len(saves')
        /\ Len(saves) + 1 \in 1 .. Len(saves') /\ Len(saves) + 1 > Len(saves)
    BY <2>2
  <2>4. QED
    BY <1>1, <1>3, <1>4, <1>5, <1>6, <1>7, <2>2, <2>3
<1>8. CASE q \notin Dirty
  <2>1. saves' = saves
    BY <1>2, <1>8 DEF UnloadChunk
  <2>2. Len(saves) \in Nat
    BY <1>1
  <2>3. QED
    BY <1>1, <1>4, <1>5, <1>6, <1>8, <2>1, <2>2
<1>9. QED
  BY <1>7, <1>8

\* An edit goes into the chunk and into the record of edits, and makes the
\* chunk dirty.
LEMMA EditEffect ==
    ASSUME StreamTypeOK, NEW q \in Pos, NEW e \in Edits, PlayerEdit(q, e)
    PROVE  /\ world' \in [Pos -> Chunk \cup {NotLoaded}]
           /\ made' \in [Pos -> SUBSET Edits]
           /\ q \in Loaded /\ Loaded' = Loaded
           /\ \A p \in Pos : p # q => world'[p] = world[p] /\ made'[p] = made[p]
           /\ world'[q].dirty = TRUE
           /\ world'[q].edits = world[q].edits \cup {e}
           /\ made'[q] = made[q] \cup {e}
<1>1. /\ q \in Loaded
      /\ world' = [world EXCEPT ![q] = [edits |-> world[q].edits \cup {e}, dirty |-> TRUE]]
      /\ made' = [made EXCEPT ![q] = made[q] \cup {e}]
      /\ world \in [Pos -> Chunk \cup {NotLoaded}] /\ made \in [Pos -> SUBSET Edits]
  BY DEF PlayerEdit, StreamTypeOK
<1>2. world[q].edits \in SUBSET Edits
  BY <1>1, LoadedIsChunk
<1>3. [edits |-> world[q].edits \cup {e}, dirty |-> TRUE] \in Chunk
  BY <1>2 DEF Chunk
<1>4. /\ world' \in [Pos -> Chunk \cup {NotLoaded}]
      /\ world'[q] = [edits |-> world[q].edits \cup {e}, dirty |-> TRUE]
      /\ \A p \in Pos : p # q => world'[p] = world[p]
  BY <1>1, <1>3
<1>5. Loaded' = Loaded
  BY <1>1, <1>3, <1>4, AbsenceAssumption DEF Loaded
<1>6. /\ made' \in [Pos -> SUBSET Edits] /\ made'[q] = made[q] \cup {e}
      /\ \A p \in Pos : p # q => made'[p] = made[p]
  BY <1>1
<1>7. QED
  BY <1>1, <1>4, <1>5, <1>6

\* The storage worker takes the oldest command.
LEMMA TailEffect ==
    ASSUME NEW T, NEW s \in Seq(T), s # <<>>
    PROVE  /\ Head(s) = s[1] /\ s[1] \in T /\ Tail(s) \in Seq(T)
           /\ Len(s) \in Nat \ {0} /\ Len(Tail(s)) = Len(s) - 1
           /\ 1 \in 1 .. Len(s)
           /\ \A i \in 1 .. Len(Tail(s)) : i + 1 \in 1 .. Len(s) /\ Tail(s)[i] = s[i + 1]
           /\ \A i \in 1 .. Len(s) : i = 1 \/ (i - 1 \in 1 .. Len(Tail(s)) /\ (i - 1) + 1 = i)
<1>1. /\ Head(s) = s[1] /\ s[1] \in T /\ Tail(s) \in Seq(T)
      /\ Len(s) \in Nat \ {0} /\ Len(Tail(s)) = Len(s) - 1
      /\ \A i \in 1 .. Len(s) - 1 : Tail(s)[i] = s[i + 1]
  OBVIOUS
<1> DEFINE n == Len(s)
<1>2. n \in Nat \ {0}
  BY <1>1
<1> HIDE DEF n
<1>3. /\ 1 \in 1 .. n /\ \A i \in 1 .. n - 1 : i + 1 \in 1 .. n
      /\ \A i \in 1 .. n : i = 1 \/ (i - 1 \in 1 .. n - 1 /\ (i - 1) + 1 = i)
  BY <1>2
<1>4. QED
  BY <1>1, <1>3 DEF n

\* Every step of the system is a step of the loader, or a new loader.
LEMMA LoaderMoves ==
    ASSUME StreamTypeOK, StreamingAssumption, [Next]_vars
    PROVE  [LoaderNext]_loaderVars \/ LoaderInit'
<1>1. ASSUME NEW w \in Windows, ShiftOrigin(w) PROVE LoaderNext
  BY <1>1 DEF ShiftOrigin, LoaderNext
<1>2. CASE ReceiveAndInsert
  <2>1. CASE results # <<>>
    BY <1>2, <2>1 DEF ReceiveAndInsert, LoaderNext, ReceiveChunks
  <2>2. CASE results = <<>>
    <3>1. AcceptedPos = {}
      BY <2>2 DEF AcceptedPos, Accepted
    <3>2. UNCHANGED loaderVars
      BY <1>2, <2>2, <3>1 DEF ReceiveAndInsert, DrainResults, loaderVars
    <3>3. QED
      BY <3>2
  <2>3. QED
    BY <2>1, <2>2
<1>3. ASSUME NEW p \in Pos, RequestMissing(p) PROVE LoaderNext
  BY <1>3 DEF RequestMissing, LoaderNext
<1>4. ASSUME NEW p \in Pos, UnloadChunk(p) PROVE LoaderNext
  BY <1>4 DEF UnloadChunk, LoaderNext
<1>5. ASSUME NEW w \in Workers, LoaderStep(w) PROVE LoaderNext
  <2>1. CASE TakeRequest(w) \/ ExitWorker(w)
    BY <2>1 DEF LoaderNext, WorkerStep
  <2>2. CASE LoadFromDisk(w)
    <3>1. w \in Busy /\ FinishRequest(w, disk[work[w].pos])
      BY <2>2 DEF LoadFromDisk
    <3>2. work[w] \in Request
      BY <3>1 DEF Busy, StreamTypeOK, LoaderTypeOK
    <3>3. disk[work[w].pos] \in Payloads
      BY <3>2 DEF Request, StreamTypeOK, StreamingAssumption
    <3>4. QED
      BY <3>1, <3>3 DEF LoaderNext, WorkerStep
  <2>3. CASE LoadFails(w)
    <3>1. FinishRequest(w, {}) /\ {} \in Payloads
      BY <2>3 DEF LoadFails, StreamingAssumption
    <3>2. QED
      BY <3>1 DEF LoaderNext, WorkerStep
  <2>4. QED
    BY <1>5, <2>1, <2>2, <2>3 DEF LoaderStep
<1>6. CASE Quit
  BY <1>6 DEF Quit, LoaderNext
<1>7. CASE AutoSave \/ NextPhase \/ AbortRun \/ WriteChunk \/ WriteFails
           \/ (\E p \in Pos, e \in Edits : PlayerEdit(p, e))
  BY <1>7 DEF AutoSave, NextPhase, AbortRun, WriteChunk, WriteFails, PlayerEdit
<1>8. CASE Restart \/ EndAborted \/ Crash
  <2>1. FreshProcess
    BY <1>8 DEF Restart, EndAborted, Crash
  <2>2. QED
    BY <2>1 DEF FreshProcess, LoaderInit
<1>9. CASE UNCHANGED vars
  BY <1>9 DEF vars
<1>10. QED
  BY <1>1, <1>2, <1>3, <1>4, <1>5, <1>6, <1>7, <1>8, <1>9 DEF Next, MainStep

LEMMA FreshLoader == LoaderInit' => LoaderInv'
BY InitInv, PTL

\* The invariant of the loader, with whatever the frame loop does to it.
LEMMA LoaderKept ==
    ASSUME StreamTypeOK, StreamingAssumption, LoaderInv, [Next]_vars
    PROVE  LoaderInv' /\ LoaderTypeOK'
BY LoaderMoves, FreshLoader, StepInv DEF LoaderInv

\* The types, from those of the loader.
LEMMA StreamInitType ==
    ASSUME StreamingAssumption, LoaderAssumption, Init
    PROVE  StreamTypeOK
<1>1. LoaderTypeOK
  BY InitType DEF Init
<1>2. 1 \in 1 .. MaxRuns
  BY DEF StreamingAssumption
<1>3. QED
  BY <1>1, <1>2 DEF Init, StreamTypeOK, Phases

LEMMA StreamTypeStep ==
    ASSUME StreamTypeOK, StreamingAssumption, LoaderTypeOK', [Next]_vars
    PROVE  StreamTypeOK'
<1> DEFINE MainTypes ==
              /\ phase \in Phases /\ window \in Windows
              /\ world \in [Pos -> Chunk \cup {NotLoaded}]
              /\ deferred \in Seq(Result)
           DiskTypes ==
              /\ saves \in Seq(Save) /\ disk \in [Pos -> SUBSET Edits]
              /\ made \in [Pos -> SUBSET Edits]
           WatchTypes ==
              /\ runs \in 1 .. MaxRuns /\ failed \in SUBSET Save
              /\ misread \in SUBSET Pos /\ outrun \in SUBSET Pos /\ reasked \in SUBSET Pos
<1>0. MainTypes /\ DiskTypes /\ WatchTypes
  BY DEF StreamTypeOK
<1>1. ASSUME NEW w \in Windows, ShiftOrigin(w)
      PROVE  MainTypes' /\ DiskTypes' /\ WatchTypes'
  BY <1>0, <1>1 DEF ShiftOrigin
<1>2. ASSUME ReceiveAndInsert
      PROVE  MainTypes' /\ DiskTypes' /\ WatchTypes'
  <2>1. world' \in [Pos -> Chunk \cup {NotLoaded}] /\ deferred' \in Seq(Result)
    BY <1>2, ReceiveEffect
  <2>2. phase' \in Phases /\ window' = window
        /\ UNCHANGED <<saves, disk, made, runs, failed, misread, outrun, reasked>>
    BY <1>2 DEF ReceiveAndInsert, Phases
  <2>3. QED
    BY <1>0, <2>1, <2>2
<1>3. ASSUME NEW p \in Pos, RequestMissing(p)
      PROVE  MainTypes' /\ DiskTypes' /\ WatchTypes'
  BY <1>0, <1>3 DEF RequestMissing
<1>4. ASSUME NEW p \in Pos, UnloadChunk(p)
      PROVE  MainTypes' /\ DiskTypes' /\ WatchTypes'
  <2>1. world' \in [Pos -> Chunk \cup {NotLoaded}] /\ saves' \in Seq(Save)
    BY <1>4, UnloadEffect
  <2>2. UNCHANGED <<phase, window, deferred, disk, made, runs, failed, misread, outrun, reasked>>
    BY <1>4 DEF UnloadChunk
  <2>3. QED
    BY <1>0, <2>1, <2>2
<1>5. ASSUME NEW p \in Pos, NEW e \in Edits, PlayerEdit(p, e)
      PROVE  MainTypes' /\ DiskTypes' /\ WatchTypes'
  <2>1. world' \in [Pos -> Chunk \cup {NotLoaded}] /\ made' \in [Pos -> SUBSET Edits]
    BY <1>5, EditEffect
  <2>2. UNCHANGED <<phase, window, deferred, saves, disk, runs, failed, misread, outrun, reasked>>
    BY <1>5 DEF PlayerEdit
  <2>3. QED
    BY <1>0, <2>1, <2>2
<1>6. ASSUME AutoSave
      PROVE  MainTypes' /\ DiskTypes' /\ WatchTypes'
  <2>1. \E S \in SUBSET Dirty : \E order \in SetToSeqs(S) :
           saves' = saves \o SavesOf(order) /\ world' = Flushed(S)
    BY <1>6 DEF AutoSave
  <2>2. saves' \in Seq(Save) /\ world' \in [Pos -> Chunk \cup {NotLoaded}]
    BY <2>1, SendEffect, FlushEffect
  <2>3. UNCHANGED <<phase, window, deferred, disk, made, runs, failed, misread, outrun, reasked>>
    BY <1>6 DEF AutoSave
  <2>4. QED
    BY <1>0, <2>2, <2>3
<1>7. ASSUME NextPhase
      PROVE  MainTypes' /\ DiskTypes' /\ WatchTypes'
  BY <1>0, <1>7 DEF NextPhase, Phases
<1>8. ASSUME Quit \/ AbortRun
      PROVE  MainTypes' /\ DiskTypes' /\ WatchTypes'
  <2>1. PICK order \in SetToSeqs(Dirty) :
          saves' = saves \o SavesOf(order) /\ world' = Flushed(Dirty)
    BY <1>8 DEF Quit, AbortRun, SaveAll
  <2>2. saves' \in Seq(Save) /\ world' \in [Pos -> Chunk \cup {NotLoaded}]
    BY <2>1, SendEffect, FlushEffect
  <2>3. phase' \in Phases
        /\ UNCHANGED <<window, deferred, disk, made, runs, failed, misread, outrun, reasked>>
    BY <1>8 DEF Quit, AbortRun, Phases
  <2>4. QED
    BY <1>0, <2>2, <2>3
<1>9. ASSUME NEW w \in Workers, LoaderStep(w)
      PROVE  MainTypes' /\ DiskTypes' /\ WatchTypes'
  <2>1. CASE (TakeRequest(w) \/ ExitWorker(w)) /\ UNCHANGED streamVars
    BY <1>0, <2>1 DEF streamVars
  <2>2. CASE LoadFromDisk(w)
    <3>1. work[w].pos \in Pos
      BY <2>2 DEF LoadFromDisk, Busy, StreamTypeOK, LoaderTypeOK, Request
    <3>2. QED
      BY <1>0, <2>2, <3>1 DEF LoadFromDisk
  <2>3. CASE LoadFails(w)
    <3>1. work[w].pos \in Pos
      BY <2>3 DEF LoadFails, Busy, StreamTypeOK, LoaderTypeOK, Request
    <3>2. QED
      BY <1>0, <2>3, <3>1 DEF LoadFails
  <2>4. QED
    BY <1>9, <2>1, <2>2, <2>3 DEF LoaderStep
<1>10. ASSUME WriteChunk \/ WriteFails
       PROVE  MainTypes' /\ DiskTypes' /\ WatchTypes'
  <2>1. saves # <<>> /\ saves' = Tail(saves)
    BY <1>10 DEF WriteChunk, WriteFails
  <2>2. Head(saves) = saves[1] /\ saves[1] \in Save /\ Tail(saves) \in Seq(Save)
    BY <1>0, <2>1, TailEffect
  <2>3. disk' \in [Pos -> SUBSET Edits] /\ failed' \in SUBSET Save
    BY <1>0, <1>10, <2>2 DEF WriteChunk, WriteFails, Save
  <2>4. UNCHANGED <<phase, window, world, deferred, made, runs, misread, outrun, reasked>>
    BY <1>10 DEF WriteChunk, WriteFails
  <2>5. QED
    BY <1>0, <2>1, <2>2, <2>3, <2>4
<1>11. ASSUME Restart \/ EndAborted \/ Crash
       PROVE  MainTypes' /\ DiskTypes' /\ WatchTypes'
  <2>1. FreshProcess
    BY <1>11 DEF Restart, EndAborted, Crash
  <2>2. runs' \in 1 .. MaxRuns /\ phase' \in Phases /\ window' \in Windows
    BY <1>0, <2>1 DEF FreshProcess, StreamingAssumption, Phases
  <2>3. world' \in [Pos -> Chunk \cup {NotLoaded}] /\ deferred' \in Seq(Result)
        /\ UNCHANGED <<disk, misread, outrun, reasked>>
    BY <2>1 DEF FreshProcess
  <2>4. saves' \in Seq(Save) /\ made' \in [Pos -> SUBSET Edits]
    <3>1. (saves' = saves \/ saves' = <<>>) /\ (made' = made \/ made' = disk)
      BY <1>11 DEF Restart, EndAborted, Crash
    <3>2. <<>> \in Seq(Save)
      OBVIOUS
    <3>3. QED
      BY <1>0, <3>1, <3>2
  <2>5. failed' \in SUBSET Save
    <3>1. \A i \in 1 .. Len(saves) : saves[i] \in Save
      BY <1>0
    <3>2. QED
      BY <1>0, <1>11, <3>1 DEF Restart, EndAborted, Crash
  <2>6. QED
    BY <1>0, <2>2, <2>3, <2>4, <2>5
<1>12. ASSUME UNCHANGED vars
       PROVE  MainTypes' /\ DiskTypes' /\ WatchTypes'
  BY <1>0, <1>12 DEF vars, streamVars
<1>13. MainTypes' /\ DiskTypes' /\ WatchTypes'
  BY <1>1, <1>2, <1>3, <1>4, <1>5, <1>6, <1>7, <1>8, <1>9, <1>10, <1>11, <1>12 DEF Next, MainStep
<1>14. QED
  BY <1>13 DEF StreamTypeOK

-----------------------------------------------------------------------------
(* Everything under way is of this window.                                 *)

\* A new epoch is later than the old one.
LEMMA EpochGrows ==
    ASSUME LoaderInv, LoaderInv', ResetEpochAndClear
    PROVE  epoch \in Nat /\ epoch' = epoch + 1
BY DEF LoaderInv, Stamped, LoaderTypeOK, ResetEpochAndClear

\* What is loaded or deferred was collected, and work keeps its stamp.
LEMMA WindowStep ==
    ASSUME PipeInv, StreamingAssumption, LoaderInv', [Next]_vars
    PROVE  OfThisWindow'
<1> DEFINE QueueOK == \A i \in 1 .. Len(requests) :
                         requests[i].epoch = epoch /\ requests[i].pos \in window
           WorkOK  == \A w \in Busy :
                         /\ work[w].epoch <= epoch
                         /\ work[w].epoch = epoch => work[w].pos \in window
           DoneOK  == \A i \in Accepted : results[i].req.pos \in window
           LateOK  == \A i \in 1 .. Len(deferred) : deferred[i].req.pos \in window
<1>0. /\ StreamTypeOK /\ LoaderTypeOK /\ LoaderInv
      /\ QueueOK /\ WorkOK /\ DoneOK /\ LateOK
  BY DEF PipeInv, LoaderInv, OfThisWindow, CompletedInWindow
<1>1. ASSUME NEW w \in Windows, ShiftOrigin(w)
      PROVE  QueueOK' /\ WorkOK' /\ DoneOK' /\ LateOK'
  <2>1. requests' = <<>> /\ results' = <<>> /\ deferred' = <<>> /\ work' = work
    BY <1>1 DEF ShiftOrigin, ResetEpochAndClear
  <2>2. epoch \in Nat /\ epoch' = epoch + 1
    BY <1>0, <1>1, EpochGrows DEF ShiftOrigin
  <2>3. Busy' = Busy /\ \A v \in Busy : work[v].epoch \in Nat
    BY <1>0, <2>1 DEF Busy, LoaderTypeOK, Request
  <2>4. WorkOK'
    BY <1>0, <2>1, <2>2, <2>3
  <2>5. QED
    BY <2>1, <2>4 DEF Accepted
<1>2. ASSUME ReceiveAndInsert
      PROVE  QueueOK' /\ WorkOK' /\ DoneOK' /\ LateOK'
  <2>1. window' = window /\ DrainResults
    BY <1>2 DEF ReceiveAndInsert
  <2>2. UNCHANGED <<requests, work, epoch, Busy>> /\ Accepted' = {}
    BY <1>0, <2>1, DrainEffect
  <2>3. \A k \in Kept : Gathered[k].req.pos \in window
    BY <1>0, KeptIs
  <2>4. LateOK'
    BY <1>2, <1>0, <2>1, <2>3, ReceiveEffect
  <2>5. QED
    BY <1>0, <2>1, <2>2, <2>4
<1>3. ASSUME NEW p \in Pos, RequestMissing(p)
      PROVE  QueueOK' /\ WorkOK' /\ DoneOK' /\ LateOK'
  <2>1. p \in window /\ RequestChunk(p) /\ UNCHANGED <<window, deferred>>
    BY <1>3 DEF RequestMissing
  <2>2. /\ Len(requests) \in Nat /\ Len(requests') = Len(requests) + 1
        /\ \A i \in 1 .. Len(requests) : requests'[i] = requests[i]
        /\ requests'[Len(requests) + 1] = [pos |-> p, epoch |-> epoch, shift |-> shifts]
        /\ UNCHANGED <<work, results, epoch>>
    BY <1>0, <2>1, RequestEffect
  <2>3. QueueOK'
    <3>1. \A i \in 1 .. Len(requests') : i \in 1 .. Len(requests) \/ i = Len(requests) + 1
      BY <2>2
    <3>2. QED
      BY <1>0, <2>1, <2>2, <3>1
  <2>4. QED
    BY <1>0, <2>1, <2>2, <2>3 DEF Busy, Accepted
<1>4. ASSUME NEW w \in Workers, TakeRequest(w), UNCHANGED streamVars
      PROVE  QueueOK' /\ WorkOK' /\ DoneOK' /\ LateOK'
  <2>1. window' = window /\ deferred' = deferred /\ epoch' = epoch /\ results' = results
    BY <1>4 DEF streamVars, TakeRequest
  <2>2. requests[1].epoch = epoch /\ requests[1].pos \in window /\ epoch \in Nat
    <3>1. 1 \in 1 .. Len(requests)
      BY <1>0, <1>4, TailEffect DEF TakeRequest, LoaderTypeOK
    <3>2. QED
      BY <1>0, <3>1 DEF LoaderTypeOK
  <2>3. /\ Busy' = Busy \cup {w} /\ \A v \in Busy : work'[v] = work[v]
        /\ work'[w] = requests[1]
        /\ \A i \in 1 .. Len(requests') :
              i + 1 \in 1 .. Len(requests) /\ requests'[i] = requests[i + 1]
    BY <1>0, <1>4, <2>2, TakeEffect
  <2>4. WorkOK'
    BY <1>0, <2>1, <2>2, <2>3
  <2>5. QueueOK'
    BY <1>0, <2>1, <2>3
  <2>6. QED
    BY <1>0, <2>1, <2>4, <2>5 DEF Accepted
<1>5. ASSUME NEW w \in Workers, NEW d \in Payloads, FinishRequest(w, d),
             UNCHANGED <<window, deferred>>
      PROVE  QueueOK' /\ WorkOK' /\ DoneOK' /\ LateOK'
  <2>1. w \in Busy /\ epoch' = epoch /\ requests' = requests
    BY <1>5 DEF FinishRequest
  <2>2. /\ Busy' = Busy \ {w} /\ \A v \in Busy' : work'[v] = work[v]
        /\ \A i \in 1 .. Len(results) : results'[i] = results[i]
        /\ results'[Len(results) + 1] = [req |-> work[w], data |-> d]
        /\ Accepted' = Accepted \cup
                       (IF work[w].epoch = epoch THEN {Len(results) + 1} ELSE {})
    BY <1>0, <1>5, FinishEffect
  <2>3. \A i \in Accepted : results'[i] = results[i]
    BY <2>2 DEF Accepted
  <2>4. DoneOK'
    <3>1. CASE work[w].epoch = epoch
      BY <1>0, <1>5, <2>1, <2>2, <2>3, <3>1
    <3>2. CASE work[w].epoch # epoch
      BY <1>0, <1>5, <2>1, <2>2, <2>3, <3>2
    <3>3. QED
      BY <3>1, <3>2
  <2>5. QED
    BY <1>0, <1>5, <2>1, <2>2, <2>4
<1>6. ASSUME NEW w \in Workers, LoaderStep(w)
      PROVE  QueueOK' /\ WorkOK' /\ DoneOK' /\ LateOK'
  <2>1. CASE TakeRequest(w) /\ UNCHANGED streamVars
    BY <1>4, <2>1
  <2>2. CASE ExitWorker(w) /\ UNCHANGED streamVars
    <3>1. Busy' = Busy /\ \A v \in Busy : work'[v] = work[v]
      BY <1>0, <2>2 DEF ExitWorker, Busy, LoaderTypeOK
    <3>2. QED
      BY <1>0, <2>2, <3>1 DEF ExitWorker, streamVars, Accepted
  <2>3. CASE LoadFromDisk(w)
    <3>1. w \in Busy /\ FinishRequest(w, disk[work[w].pos]) /\ UNCHANGED <<window, deferred>>
      BY <2>3 DEF LoadFromDisk
    <3>2. work[w] \in Request
      BY <1>0, <3>1 DEF Busy, LoaderTypeOK
    <3>3. disk[work[w].pos] \in Payloads
      BY <1>0, <3>2 DEF Request, StreamTypeOK, StreamingAssumption
    <3>4. QED
      BY <1>5, <3>1, <3>3
  <2>4. CASE LoadFails(w)
    <3>1. FinishRequest(w, {}) /\ {} \in Payloads /\ UNCHANGED <<window, deferred>>
      BY <2>4 DEF LoadFails, StreamingAssumption
    <3>2. QED
      BY <1>5, <3>1
  <2>5. QED
    BY <1>6, <2>1, <2>2, <2>3, <2>4 DEF LoaderStep
<1>7. ASSUME UNCHANGED <<requests, work, results, epoch, window, deferred>>
      PROVE  QueueOK' /\ WorkOK' /\ DoneOK' /\ LateOK'
  BY <1>0, <1>7 DEF Busy, Accepted
<1>8. ASSUME \/ \E p \in Pos : UnloadChunk(p)
             \/ \E p \in Pos, e \in Edits : PlayerEdit(p, e)
             \/ AutoSave \/ NextPhase \/ Quit \/ AbortRun \/ WriteChunk \/ WriteFails
             \/ UNCHANGED vars
      PROVE  QueueOK' /\ WorkOK' /\ DoneOK' /\ LateOK'
  <2>1. UNCHANGED <<requests, work, results, epoch, window, deferred>>
    BY <1>8 DEF UnloadChunk, CancelChunk, PlayerEdit, AutoSave, NextPhase, Quit, CloseLoader,
                AbortRun, WriteChunk, WriteFails, vars, streamVars, loaderVars
  <2>2. QED
    BY <1>7, <2>1
<1>9. ASSUME Restart \/ EndAborted \/ Crash
      PROVE  QueueOK' /\ WorkOK' /\ DoneOK' /\ LateOK'
  <2>1. FreshProcess
    BY <1>9 DEF Restart, EndAborted, Crash
  <2>2. requests' = <<>> /\ results' = <<>> /\ deferred' = <<>> /\ Busy' = {}
    BY <2>1 DEF FreshProcess, Busy
  <2>3. Accepted' = {}
    BY <2>2 DEF Accepted
  <2>4. QueueOK' /\ LateOK'
    BY <2>2
  <2>5. WorkOK' /\ DoneOK'
    BY <2>2, <2>3
  <2>6. QED
    BY <2>4, <2>5
<1> HIDE DEF QueueOK, WorkOK, DoneOK, LateOK
<1>10. QueueOK' /\ WorkOK' /\ DoneOK' /\ LateOK'
  BY <1>1, <1>2, <1>3, <1>6, <1>8, <1>9 DEF Next, MainStep
<1>11. QED
  BY <1>10 DEF OfThisWindow, CompletedInWindow, QueueOK, WorkOK, DoneOK, LateOK

-----------------------------------------------------------------------------
(* No work twice.                                                          *)

\* Steps that move no work and load nothing.
LEMMA ApartSame ==
    ASSUME NEW p \in Pos, ApartAt(p),
           UNCHANGED <<requests, work, results, epoch, deferred>>,
           p \in Loaded' => p \in Loaded,
           p \in inFlight => p \in inFlight' \/ p \in Loaded
    PROVE  ApartAt(p)'
<1>1. /\ QueuedAt(p)' = QueuedAt(p) /\ HeldAt(p)' = HeldAt(p)
      /\ DoneAt(p)' = DoneAt(p) /\ LateAt(p)' = LateAt(p)
  BY DEF QueuedAt, HeldAt, DoneAt, LateAt, Busy, Accepted
<1>2. QED
  BY <1>1 DEF ApartAt

\* Of a position at most one result is gathered.
LEMMA OneKept ==
    ASSUME StreamTypeOK, NEW p \in Pos, ApartAt(p)
    PROVE  AtMostOne(KeptAt(p))
<1>1. \A k \in KeptAt(p) : k \in LateAt(p) \/ k - Len(deferred) \in DoneAt(p)
  BY KeptIs
<1>2. ASSUME NEW j \in KeptAt(p), NEW k \in KeptAt(p) PROVE j = k
  <2>1. j \in Int /\ k \in Int /\ Len(deferred) \in Int
    BY KeptIs, GatheredIs DEF KeptAt
  <2>2. CASE LateAt(p) = {}
    <3>1. j - Len(deferred) \in DoneAt(p) /\ k - Len(deferred) \in DoneAt(p)
      BY <1>1, <2>2
    <3>2. j - Len(deferred) = k - Len(deferred)
      BY <3>1 DEF ApartAt, AtMostOne
    <3>3. QED
      BY <2>1, <3>2
  <2>3. CASE DoneAt(p) = {}
    <3>1. j \in LateAt(p) /\ k \in LateAt(p)
      BY <1>1, <2>3
    <3>2. QED
      BY <3>1 DEF ApartAt, AtMostOne
  <2>4. QED
    BY <2>2, <2>3 DEF ApartAt
<1>3. QED
  BY <1>2 DEF AtMostOne

\* A frame that collects results: what was done or late is loaded or late.
LEMMA ApartReceive ==
    ASSUME PipeInv, StreamingAssumption, ReceiveAndInsert, NEW p \in Pos, ApartAt(p)
    PROVE  ApartAt(p)'
<1>1. StreamTypeOK /\ LoaderTypeOK /\ DrainResults
  BY DEF PipeInv, LoaderInv, ReceiveAndInsert
<1>2. /\ QueuedAt(p)' = QueuedAt(p) /\ HeldAt(p)' = HeldAt(p) /\ DoneAt(p)' = {}
      /\ p \in AcceptedPos <=> DoneAt(p) # {}
      /\ inFlight' = inFlight \ AcceptedPos
  BY <1>1, DrainEffect
<1>3. /\ \A k \in KeptAt(p) : k \in LateAt(p) \/ k - Len(deferred) \in DoneAt(p)
      /\ \A k \in LateAt(p) : k \in KeptAt(p)
      /\ \A i \in DoneAt(p) : i + Len(deferred) \in KeptAt(p)
  BY <1>1, KeptIs
<1>4. KeptAt(p) = {} <=> DoneAt(p) = {} /\ LateAt(p) = {}
  BY <1>3
<1>5. CASE KeptAt(p) = {}
  <2>1. world'[p] = world[p] /\ LateAt(p)' = {}
    BY <1>1, <1>5, ReceiveEffect
  <2>2. p \in Loaded' <=> p \in Loaded
    BY <2>1 DEF Loaded
  <2>3. p \notin AcceptedPos
    BY <1>2, <1>4, <1>5
  <2>4. QED
    BY <1>2, <2>1, <2>2, <2>3 DEF ApartAt, AtMostOne
<1>6. CASE KeptAt(p) # {}
  <2>1. QueuedAt(p) = {} /\ HeldAt(p) = {} /\ p \notin Loaded
    BY <1>4, <1>6 DEF ApartAt
  <2>2. AtMostOne(KeptAt(p))
    BY <1>1, OneKept
  <2>3. PICK k \in KeptAt(p) : TRUE
    BY <1>6
  <2>4. \/ LateAt(p)' = {}
        \/ world'[p] = world[p] /\ \E i : LateAt(p)' = {i}
    BY <1>1, <2>2, <2>3, ReceiveEffect
  <2>5. AtMostOne(LateAt(p)') /\ (LateAt(p)' # {} => p \notin Loaded')
    BY <2>1, <2>4 DEF AtMostOne, Loaded
  <2>6. QED
    BY <1>2, <2>1, <2>5 DEF ApartAt, AtMostOne
<1>7. QED
  BY <1>5, <1>6

\* A request is made for a position that nothing works for.
LEMMA ApartRequest ==
    ASSUME PipeInv, NEW q \in Pos, RequestMissing(q), NEW p \in Pos \ reasked', ApartAt(p)
    PROVE  ApartAt(p)'
<1>1. /\ LoaderTypeOK /\ RequestChunk(q) /\ q \notin Loaded
      /\ UNCHANGED <<world, deferred>>
      /\ reasked' = reasked \cup ({q} \cap {deferred[i].req.pos : i \in 1 .. Len(deferred)})
  BY DEF RequestMissing, PipeInv, LoaderInv
<1>2. /\ DoneAt(p)' = DoneAt(p) /\ HeldAt(p)' = HeldAt(p)
      /\ p # q => QueuedAt(p)' = QueuedAt(p)
      /\ QueuedAt(q)' = QueuedAt(q) \cup {Len(requests) + 1}
      /\ q \notin inFlight /\ inFlight' = inFlight \cup {q}
  BY <1>1, RequestEffect
<1>3. Loaded' = Loaded /\ LateAt(p)' = LateAt(p)
  BY <1>1 DEF Loaded, LateAt
<1>4. CASE p # q
  BY <1>2, <1>3, <1>4 DEF ApartAt
<1>5. CASE p = q
  <2>1. QueuedAt(q) = {} /\ HeldAt(q) = {} /\ DoneAt(q) = {}
    BY <1>2, <1>5 DEF ApartAt
  <2>2. LateAt(q) = {}
    BY <1>1, <1>5 DEF LateAt
  <2>3. AtMostOne(QueuedAt(q)')
    BY <1>2, <2>1 DEF AtMostOne
  <2>4. QED
    BY <1>1, <1>2, <1>3, <1>5, <2>1, <2>2, <2>3 DEF ApartAt, AtMostOne
<1>6. QED
  BY <1>4, <1>5

\* A worker takes the only request for a position.
LEMMA ApartTake ==
    ASSUME PipeInv, NEW w \in Workers, TakeRequest(w), UNCHANGED streamVars,
           NEW p \in Pos, ApartAt(p)
    PROVE  ApartAt(p)'
<1>1. LoaderTypeOK /\ OfThisWindow /\ UNCHANGED <<world, deferred, inFlight>>
  BY DEF PipeInv, LoaderInv, streamVars, TakeRequest
<1>2. 1 \in 1 .. Len(requests) /\ requests[1].epoch = epoch
  <2>1. 1 \in 1 .. Len(requests)
    BY <1>1, TailEffect DEF TakeRequest, LoaderTypeOK
  <2>2. QED
    BY <1>1, <2>1 DEF OfThisWindow
<1>3. /\ \A i \in 1 .. Len(requests') :
            i + 1 \in 1 .. Len(requests) /\ requests'[i] = requests[i + 1]
      /\ DoneAt(p)' = DoneAt(p)
      /\ p # requests[1].pos => HeldAt(p)' = HeldAt(p)
      /\ p = requests[1].pos => HeldAt(p)' = HeldAt(p) \cup {w}
  BY <1>1, <1>2, TakeEffect
<1>4. Loaded' = Loaded /\ LateAt(p)' = LateAt(p)
  BY <1>1 DEF Loaded, LateAt
<1>5. \A i \in QueuedAt(p)' : i \in Nat \ {0} /\ i + 1 \in QueuedAt(p)
  BY <1>3 DEF QueuedAt
<1>6. AtMostOne(QueuedAt(p)')
  <2>1. ASSUME NEW i \in QueuedAt(p)', NEW j \in QueuedAt(p)' PROVE i = j
    <3>1. i + 1 = j + 1 /\ i \in Nat /\ j \in Nat
      BY <1>5 DEF ApartAt, AtMostOne
    <3>2. QED
      BY <3>1
  <2>2. QED
    BY <2>1 DEF AtMostOne
<1>7. QueuedAt(p)' # {} => QueuedAt(p) # {}
  BY <1>5
<1>8. CASE p # requests[1].pos
  BY <1>1, <1>3, <1>4, <1>6, <1>7, <1>8 DEF ApartAt
<1>9. CASE p = requests[1].pos
  <2>1. 1 \in QueuedAt(p)
    BY <1>2, <1>9 DEF QueuedAt
  <2>2. QueuedAt(p)' = {}
    <3>1. ASSUME NEW i \in QueuedAt(p)' PROVE FALSE
      <4>1. i + 1 = 1 /\ i \in Nat \ {0}
        BY <1>5, <2>1 DEF ApartAt, AtMostOne
      <4>2. QED
        BY <4>1
    <3>2. QED
      BY <3>1
  <2>3. HeldAt(p)' = {w}
    BY <1>3, <1>9, <2>1 DEF ApartAt
  <2>4. QED
    BY <1>1, <1>3, <1>4, <2>1, <2>2, <2>3 DEF ApartAt, AtMostOne
<1>10. QED
  BY <1>8, <1>9

\* A worker sends the only result for a position.
LEMMA ApartFinish ==
    ASSUME PipeInv, NEW w \in Workers, NEW d \in Payloads, FinishRequest(w, d),
           UNCHANGED <<world, deferred>>, NEW p \in Pos, ApartAt(p)
    PROVE  ApartAt(p)'
<1>1. LoaderTypeOK /\ inFlight' = inFlight
  BY DEF PipeInv, LoaderInv, FinishRequest
<1>2. /\ QueuedAt(p)' = QueuedAt(p)
      /\ w \notin HeldAt(p) => HeldAt(p)' = HeldAt(p) /\ DoneAt(p)' = DoneAt(p)
      /\ w \in HeldAt(p) =>
            /\ HeldAt(p)' = HeldAt(p) \ {w}
            /\ DoneAt(p)' = DoneAt(p) \cup {Len(results) + 1}
  BY <1>1, FinishEffect
<1>3. Loaded' = Loaded /\ LateAt(p)' = LateAt(p)
  BY DEF Loaded, LateAt
<1>4. CASE w \notin HeldAt(p)
  BY <1>1, <1>2, <1>3, <1>4 DEF ApartAt
<1>5. CASE w \in HeldAt(p)
  <2>1. HeldAt(p)' = {}
    BY <1>2, <1>5 DEF ApartAt, AtMostOne
  <2>2. DoneAt(p)' = {Len(results) + 1}
    BY <1>2, <1>5 DEF ApartAt
  <2>3. QED
    BY <1>1, <1>2, <1>3, <1>5, <2>1, <2>2 DEF ApartAt, AtMostOne
<1>6. QED
  BY <1>4, <1>5

LEMMA ApartStep ==
    ASSUME PipeInv, StreamingAssumption, LoaderInv', [Next]_vars
    PROVE  Apart'
<1>0. StreamTypeOK /\ LoaderTypeOK /\ LoaderInv /\ \A p \in Pos \ reasked : ApartAt(p)
  BY DEF PipeInv, LoaderInv, Apart
<1> SUFFICES ASSUME NEW p \in Pos \ reasked' PROVE ApartAt(p)'
  BY DEF Apart
<1>a. reasked \subseteq reasked'
  BY DEF Next, MainStep, ShiftOrigin, ReceiveAndInsert, RequestMissing, UnloadChunk, PlayerEdit,
         AutoSave, NextPhase, Quit, AbortRun, LoaderStep, LoadFromDisk, LoadFails, WriteChunk,
         WriteFails, Restart, EndAborted, Crash, FreshProcess, vars, streamVars
<1>b. p \in Pos /\ ApartAt(p)
  BY <1>0, <1>a
<1>1. ASSUME NEW w \in Windows, ShiftOrigin(w) PROVE ApartAt(p)'
  <2>1. /\ requests' = <<>> /\ results' = <<>> /\ deferred' = <<>> /\ work' = work
        /\ world' = world
    BY <1>1 DEF ShiftOrigin, ResetEpochAndClear
  <2>2. epoch \in Nat /\ epoch' = epoch + 1
    BY <1>0, <1>1, EpochGrows DEF ShiftOrigin
  <2>3. \A w1 \in Busy : work[w1].epoch \in Nat /\ work[w1].epoch <= epoch
    BY <1>0 DEF Busy, LoaderTypeOK, Request, PipeInv, OfThisWindow
  <2>4. HeldAt(p)' = {}
    BY <2>1, <2>2, <2>3 DEF HeldAt, Busy
  <2>5. QueuedAt(p)' = {} /\ DoneAt(p)' = {} /\ LateAt(p)' = {}
    BY <2>1 DEF QueuedAt, DoneAt, LateAt, Accepted
  <2>6. QED
    BY <2>4, <2>5 DEF ApartAt, AtMostOne
<1>2. CASE ReceiveAndInsert
  BY <1>2, <1>b, ApartReceive
<1>3. ASSUME NEW q \in Pos, RequestMissing(q) PROVE ApartAt(p)'
  BY <1>3, <1>b, ApartRequest
<1>4. ASSUME NEW q \in Pos, UnloadChunk(q) PROVE ApartAt(p)'
  <2>1. /\ q \in Loaded /\ Loaded' = Loaded \ {q} /\ inFlight' = inFlight \ {q}
        /\ UNCHANGED <<requests, work, results, epoch, deferred>>
    BY <1>0, <1>4, UnloadEffect DEF UnloadChunk, CancelChunk
  <2>2. QED
    BY <1>b, <2>1, ApartSame
<1>5. ASSUME NEW q \in Pos, NEW e \in Edits, PlayerEdit(q, e) PROVE ApartAt(p)'
  <2>1. Loaded' = Loaded /\ UNCHANGED <<requests, work, results, epoch, deferred, inFlight>>
    BY <1>0, <1>5, EditEffect DEF PlayerEdit, loaderVars
  <2>2. QED
    BY <1>b, <2>1, ApartSame
<1>6. CASE AutoSave \/ Quit \/ AbortRun
  <2>1. \E S \in SUBSET Dirty : world' = Flushed(S)
    BY <1>6 DEF AutoSave, Quit, AbortRun, SaveAll
  <2>2. Loaded' = Loaded
    BY <1>0, <2>1, FlushEffect
  <2>3. UNCHANGED <<requests, work, results, epoch, deferred, inFlight>>
    BY <1>6 DEF AutoSave, Quit, AbortRun, CloseLoader, loaderVars
  <2>4. QED
    BY <1>b, <2>2, <2>3, ApartSame
<1>7. CASE NextPhase \/ WriteChunk \/ WriteFails \/ UNCHANGED vars
  <2>1. UNCHANGED <<requests, work, results, epoch, deferred, inFlight, world>>
    BY <1>7 DEF NextPhase, WriteChunk, WriteFails, vars, streamVars, loaderVars
  <2>2. Loaded' = Loaded
    BY <2>1 DEF Loaded
  <2>3. QED
    BY <1>b, <2>1, <2>2, ApartSame
<1>8. ASSUME NEW w \in Workers, LoaderStep(w) PROVE ApartAt(p)'
  <2>1. CASE TakeRequest(w) /\ UNCHANGED streamVars
    BY <1>b, <2>1, ApartTake
  <2>2. CASE ExitWorker(w) /\ UNCHANGED streamVars
    <3>1. Busy' = Busy /\ \A v \in Busy : work'[v] = work[v]
      BY <1>0, <2>2 DEF ExitWorker, Busy, LoaderTypeOK
    <3>2. UNCHANGED <<requests, results, epoch, deferred, inFlight, world>>
      BY <2>2 DEF ExitWorker, streamVars
    <3>3. /\ QueuedAt(p)' = QueuedAt(p) /\ HeldAt(p)' = HeldAt(p)
          /\ DoneAt(p)' = DoneAt(p) /\ LateAt(p)' = LateAt(p) /\ Loaded' = Loaded
      BY <3>1, <3>2 DEF QueuedAt, HeldAt, DoneAt, LateAt, Accepted, Loaded
    <3>4. QED
      BY <1>b, <3>2, <3>3 DEF ApartAt
  <2>3. CASE LoadFromDisk(w)
    <3>1. /\ w \in Busy /\ FinishRequest(w, disk[work[w].pos])
          /\ UNCHANGED <<world, deferred>>
      BY <2>3 DEF LoadFromDisk
    <3>2. work[w] \in Request
      BY <1>0, <3>1 DEF Busy, LoaderTypeOK
    <3>3. disk[work[w].pos] \in Payloads
      BY <1>0, <3>2 DEF Request, StreamTypeOK, StreamingAssumption
    <3>4. QED
      BY <1>b, <3>1, <3>3, ApartFinish
  <2>4. CASE LoadFails(w)
    <3>1. FinishRequest(w, {}) /\ {} \in Payloads /\ UNCHANGED <<world, deferred>>
      BY <2>4 DEF LoadFails, StreamingAssumption
    <3>2. QED
      BY <1>b, <3>1, ApartFinish
  <2>5. QED
    BY <1>8, <2>1, <2>2, <2>3, <2>4 DEF LoaderStep
<1>9. CASE Restart \/ EndAborted \/ Crash
  <2>1. FreshProcess
    BY <1>9 DEF Restart, EndAborted, Crash
  <2>2. requests' = <<>> /\ results' = <<>> /\ deferred' = <<>> /\ Busy' = {} /\ Loaded' = {}
    BY <2>1 DEF FreshProcess, Busy, Loaded
  <2>3. QueuedAt(p)' = {} /\ HeldAt(p)' = {} /\ DoneAt(p)' = {} /\ LateAt(p)' = {}
    BY <2>2 DEF QueuedAt, HeldAt, DoneAt, LateAt, Accepted
  <2>4. QED
    BY <2>3 DEF ApartAt, AtMostOne
<1>10. QED
  BY <1>1, <1>2, <1>3, <1>4, <1>5, <1>6, <1>7, <1>8, <1>9 DEF Next, MainStep

-----------------------------------------------------------------------------
(* The pipeline.                                                           *)

LEMMA PipeInit ==
    ASSUME StreamingAssumption, LoaderAssumption, Init
    PROVE  PipeInv
<1>1. StreamTypeOK
  BY StreamInitType
<1>2. LoaderInv
  BY InitInv DEF Init
<1>3. /\ requests = <<>> /\ results = <<>> /\ deferred = <<>> /\ Busy = {} /\ Accepted = {}
      /\ Loaded = {}
  BY DEF Init, LoaderInit, Busy, Accepted, Loaded
<1>4. OfThisWindow
  BY <1>3 DEF OfThisWindow, CompletedInWindow
<1>5. Apart
  BY <1>3 DEF Apart, ApartAt, AtMostOne, QueuedAt, HeldAt, DoneAt, LateAt
<1>6. QED
  BY <1>1, <1>2, <1>4, <1>5 DEF PipeInv

LEMMA PipeStep == PipeInv /\ [Next]_vars => PipeInv'
<1> SUFFICES ASSUME PipeInv, [Next]_vars PROVE PipeInv'
  OBVIOUS
<1>1. StreamTypeOK /\ LoaderInv /\ StreamingAssumption
  BY StreamingAssumption DEF PipeInv
<1>2. LoaderInv' /\ LoaderTypeOK'
  BY <1>1, LoaderKept
<1>3. StreamTypeOK'
  BY <1>1, <1>2, StreamTypeStep
<1>4. OfThisWindow' /\ Apart'
  BY <1>1, <1>2, WindowStep, ApartStep
<1>5. QED
  BY <1>2, <1>3, <1>4 DEF PipeInv

\* Work in at most one stage, once, is not under way twice.
LEMMA PipeSafe == PipeInv => PipelineOK /\ InFlightIsReleased /\ DeliveredAreFresh
<1> SUFFICES ASSUME PipeInv PROVE PipelineOK /\ InFlightIsReleased /\ DeliveredAreFresh
  OBVIOUS
<1>1. InFlightIsReleased /\ DeliveredAreFresh
  BY InvImpliesFresh DEF PipeInv, LoaderInv
<1>2. ASSUME NEW p \in Pos \ reasked
      PROVE  /\ \A a, b \in UnderWay(p) : a = b
             /\ p \in Loaded => UnderWay(p) = {}
  <2>1. ApartAt(p)
    BY DEF PipeInv, Apart
  <2>2. UnderWay(p) = {<<"queued", i>> : i \in QueuedAt(p)} \cup {<<"held", w>> : w \in HeldAt(p)}
                      \cup {<<"done", i>> : i \in DoneAt(p)} \cup {<<"late", i>> : i \in LateAt(p)}
    BY DEF UnderWay, QueuedAt, HeldAt, DoneAt, LateAt
  <2>3. QED
    BY <2>1, <2>2 DEF ApartAt, AtMostOne
<1>3. QED
  BY <1>1, <1>2 DEF PipelineOK, NoDuplicateWork, PipeInv, OfThisWindow

\* For any number of positions, workers and shifts, work for a position is
\* never under way twice nor while its chunk is loaded, unless it was requested
\* while deferred, and what update_chunk_loading processes is of the window.
THEOREM PipelineSound == Spec => []PipelineOK
<1>1. Init => PipeInv
  BY PipeInit, StreamingAssumption, LoaderAssumption
<1>2. QED
  BY <1>1, PipeStep, PipeSafe, PTL DEF Spec

\* The guarantees of the loader hold in the frame loop that uses it: no mark
\* in in_flight outlives its work, and no result of an old origin is delivered,
\* also across exits, lost devices and crashes.
THEOREM LoaderSound == Spec => [](InFlightIsReleased /\ DeliveredAreFresh)
<1>1. Init => PipeInv
  BY PipeInit, StreamingAssumption, LoaderAssumption
<1>2. QED
  BY <1>1, PipeStep, PipeSafe, PTL DEF Spec

-----------------------------------------------------------------------------
(* What happened to the edits.  For a position that is not doubtful, what  *)
(* is on the disk, in the queued Save commands and in the loaded chunk     *)
(* only grows from one to the next, and a load under way brings what is on *)
(* the disk.                                                               *)

SavesAt(p) == {i \in 1 .. Len(saves) : saves[i].pos = p}

\* What the loads under way for p will bring.
Loads(p) == {results[i].data : i \in DoneAt(p)} \cup {deferred[i].data : i \in LateAt(p)}

\* A load is under way only when the disk is up to date.
LoadsOK(p) == \A d \in Loads(p) : d = disk[p] /\ SavesAt(p) = {}

\* Older copies have no edit that newer ones lack.
CopiesGrow(p) ==
    /\ \A i \in SavesAt(p) : disk[p] \subseteq saves[i].edits
    /\ \A i, j \in SavesAt(p) : i < j => saves[i].edits \subseteq saves[j].edits
    /\ p \in Loaded => disk[p] \subseteq world[p].edits
    /\ p \in Loaded => \A i \in SavesAt(p) : saves[i].edits \subseteq world[p].edits

KeptAll(p)    == made[p] \subseteq Recoverable(p) \cup Lost(p)
CleanSaved(p) == p \in Loaded /\ ~world[p].dirty => world[p].edits \subseteq Settled(p) \cup Lost(p)

ContentAt(p) == LoadsOK(p) /\ CopiesGrow(p) /\ KeptAll(p) /\ CleanSaved(p)

Content == \A p \in Pos \ Doubtful : ContentAt(p)

\* save_all was the last thing the main thread did.
LeavingIsClean == phase \in {"exiting", "aborting"} => Dirty = {}

KeepInv == PipeInv /\ Content /\ LeavingIsClean

-----------------------------------------------------------------------------

\* The newest Save command of a position decides what the disk will hold.
LEMMA SettledIs ==
    StreamTypeOK => \A p \in Pos :
        /\ SavesAt(p) = {} => Settled(p) = disk[p]
        /\ SavesAt(p) # {} => \E m \in SavesAt(p) :
              (\A i \in SavesAt(p) : i <= m) /\ Settled(p) = saves[m].edits
<1> SUFFICES ASSUME StreamTypeOK, NEW p \in Pos
             PROVE  /\ SavesAt(p) = {} => Settled(p) = disk[p]
                    /\ SavesAt(p) # {} => \E m \in SavesAt(p) :
                          (\A i \in SavesAt(p) : i <= m) /\ Settled(p) = saves[m].edits
  OBVIOUS
<1>1. Settled(p) = IF SavesAt(p) = {} THEN disk[p] ELSE saves[Max(SavesAt(p))].edits
  BY DEF Settled, SavesAt
<1>2. Len(saves) \in Nat /\ SavesAt(p) \subseteq 1 .. Len(saves)
  BY DEF StreamTypeOK, SavesAt
<1>3. SavesAt(p) # {} => Max(SavesAt(p)) \in SavesAt(p) /\ \A i \in SavesAt(p) : i <= Max(SavesAt(p))
  BY <1>2, MaxOfIndices
<1>4. QED
  BY <1>1, <1>3

LEMMA SettledIsNext ==
    StreamTypeOK' => \A p \in Pos :
        /\ SavesAt(p)' = {} => Settled(p)' = disk'[p]
        /\ SavesAt(p)' # {} => \E m \in SavesAt(p)' :
              (\A i \in SavesAt(p)' : i <= m) /\ Settled(p)' = saves'[m].edits
<1>1. (StreamTypeOK => \A p \in Pos :
        /\ SavesAt(p) = {} => Settled(p) = disk[p]
        /\ SavesAt(p) # {} => \E m \in SavesAt(p) :
              (\A i \in SavesAt(p) : i <= m) /\ Settled(p) = saves[m].edits)'
  BY SettledIs, PTL
<1>2. QED
  BY <1>1

\* Failures only add to what is lost.
LEMMA LostGrows ==
    ASSUME NEW p \in Pos, p \notin Doubtful, p \notin Doubtful', failed \subseteq failed'
    PROVE  Lost(p) \subseteq Lost(p)'
BY DEF Lost

\* The edits in each copy are edits.
LEMMA LostIs ==
    ASSUME NEW p \in Pos, p \notin Doubtful
    PROVE  \A f \in failed : f.pos = p => f.edits \subseteq Lost(p)
BY DEF Lost

\* Steps that touch neither the chunk of p nor a copy of it.
LEMMA ContentSame ==
    ASSUME StreamTypeOK, StreamTypeOK', NEW p \in Pos, p \notin Doubtful, p \notin Doubtful',
           ContentAt(p), failed \subseteq failed',
           SavesAt(p)' = SavesAt(p), \A i \in SavesAt(p) : saves'[i] = saves[i],
           disk'[p] = disk[p], made'[p] = made[p], world'[p] = world[p],
           Loads(p)' \subseteq Loads(p)
    PROVE  ContentAt(p)'
<1>1. Settled(p)' = Settled(p)
  <2>1. CASE SavesAt(p) = {}
    BY <2>1, SettledIs, SettledIsNext
  <2>2. CASE SavesAt(p) # {}
    <3>1. PICK m \in SavesAt(p) :
            (\A i \in SavesAt(p) : i <= m) /\ Settled(p) = saves[m].edits
      BY <2>2, SettledIs
    <3>2. PICK n \in SavesAt(p)' :
            (\A i \in SavesAt(p)' : i <= n) /\ Settled(p)' = saves'[n].edits
      BY <2>2, SettledIsNext
    <3>3. m <= n /\ n <= m /\ m \in Int /\ n \in Int
      BY <3>1, <3>2 DEF SavesAt
    <3>4. m = n
      BY <3>3
    <3>5. QED
      BY <3>1, <3>2, <3>4
  <2>3. QED
    BY <2>1, <2>2
<1>2. Lost(p) \subseteq Lost(p)'
  BY LostGrows
<1>3. p \in Loaded' <=> p \in Loaded
  BY DEF Loaded
<1>4. Recoverable(p)' = Recoverable(p)
  BY <1>1, <1>3 DEF Recoverable
<1>5. LoadsOK(p)'
  BY DEF ContentAt, LoadsOK
<1>6. CopiesGrow(p)'
  BY <1>3 DEF ContentAt, CopiesGrow
<1>7. KeptAll(p)' /\ CleanSaved(p)'
  BY <1>1, <1>2, <1>3, <1>4 DEF ContentAt, KeptAll, CleanSaved
<1>8. QED
  BY <1>5, <1>6, <1>7 DEF ContentAt

\* The chunk of p is loaded, from a load that is up to date.
LEMMA ContentInsert ==
    ASSUME StreamTypeOK, StreamTypeOK', NEW p \in Pos, p \notin Doubtful, p \notin Doubtful',
           ContentAt(p), p \notin Loaded, failed \subseteq failed',
           UNCHANGED <<saves, disk, made>>, Loads(p)' = {},
           NEW d \in Loads(p), world'[p] = [edits |-> d, dirty |-> FALSE]
    PROVE  ContentAt(p)'
<1>1. d = disk[p] /\ SavesAt(p) = {} /\ SavesAt(p)' = {}
  BY DEF ContentAt, LoadsOK, SavesAt
<1>2. Settled(p) = disk[p] /\ Settled(p)' = disk[p]
  BY <1>1, SettledIs, SettledIsNext
<1>3. Lost(p) \subseteq Lost(p)'
  BY LostGrows
<1>4. Recoverable(p) = disk[p]
  BY <1>2 DEF Recoverable
<1>5. world'[p].edits = disk[p]
  BY <1>1
<1>6. disk[p] \subseteq Recoverable(p)'
  BY <1>2, <1>5 DEF Recoverable
<1>7. KeptAll(p)'
  BY <1>3, <1>4, <1>6 DEF ContentAt, KeptAll
<1>8. LoadsOK(p)' /\ CopiesGrow(p)' /\ CleanSaved(p)'
  BY <1>1, <1>2, <1>5 DEF LoadsOK, CopiesGrow, CleanSaved
<1>9. QED
  BY <1>7, <1>8 DEF ContentAt

\* The chunk of p is unloaded, marked clean or left alone while the Save
\* commands of some chunks are sent.
LEMMA ContentSend ==
    ASSUME StreamTypeOK, StreamTypeOK', NEW p \in Pos, p \notin Doubtful, p \notin Doubtful',
           ContentAt(p), p \in Loaded, failed \subseteq failed', UNCHANGED <<disk, made>>,
           Loads(p)' = {},
           \A i \in 1 .. Len(saves) : i \in 1 .. Len(saves') /\ saves'[i] = saves[i],
           \A i \in 1 .. Len(saves') : saves'[i].pos = p =>
              i \in 1 .. Len(saves) \/ (i > Len(saves) /\ saves'[i].edits = world[p].edits),
           p \in Loaded' => world'[p].edits = world[p].edits,
           \/ p \in Loaded' /\ world'[p].dirty
           \/ ~world[p].dirty
           \/ \E i \in 1 .. Len(saves') : i > Len(saves) /\ saves'[i].pos = p
    PROVE  ContentAt(p)'
<1> DEFINE new == {i \in SavesAt(p)' : i > Len(saves)}
<1>1. /\ Len(saves) \in Nat /\ Len(saves') \in Nat
      /\ \A i \in SavesAt(p) : i \in SavesAt(p)' /\ saves'[i] = saves[i] /\ i <= Len(saves)
      /\ \A i \in SavesAt(p)' : \/ i \in SavesAt(p)
                                \/ i \in new /\ saves'[i].edits = world[p].edits
      /\ \A i \in SavesAt(p)' : i \in Nat
  BY DEF StreamTypeOK, SavesAt
<1>2. LoadsOK(p)'
  BY DEF LoadsOK
<1>3. \A i \in SavesAt(p)' : saves'[i].edits \subseteq world[p].edits
  BY <1>1 DEF ContentAt, CopiesGrow
<1>4. CopiesGrow(p)'
  <2>1. \A i \in SavesAt(p)' : disk[p] \subseteq saves'[i].edits
    BY <1>1 DEF ContentAt, CopiesGrow
  <2>2. ASSUME NEW i \in SavesAt(p)', NEW j \in SavesAt(p)', i < j
        PROVE  saves'[i].edits \subseteq saves'[j].edits
    <3>1. CASE j \in SavesAt(p)
      <4>1. i \in SavesAt(p)
        BY <1>1, <2>2, <3>1
      <4>2. saves[i].edits \subseteq saves[j].edits
        BY <2>2, <3>1, <4>1 DEF ContentAt, CopiesGrow
      <4>3. QED
        BY <1>1, <3>1, <4>1, <4>2
    <3>2. CASE j \in new
      <4>1. saves'[j].edits = world[p].edits
        BY <1>1, <3>2
      <4>2. QED
        BY <1>3, <4>1
    <3>3. QED
      BY <1>1, <3>1, <3>2
  <2>3. p \in Loaded' => disk[p] \subseteq world'[p].edits
    BY DEF ContentAt, CopiesGrow
  <2>4. QED
    BY <1>3, <2>1, <2>2, <2>3 DEF CopiesGrow
<1>5. Lost(p) \subseteq Lost(p)'
  BY LostGrows
<1>6. new # {} => Settled(p)' = world[p].edits
  <2>1. SUFFICES ASSUME new # {} PROVE Settled(p)' = world[p].edits
    OBVIOUS
  <2>2. PICK m \in SavesAt(p)' :
          (\A i \in SavesAt(p)' : i <= m) /\ Settled(p)' = saves'[m].edits
    BY <2>1, SettledIsNext
  <2>3. m \in new
    BY <1>1, <2>1, <2>2
  <2>4. QED
    BY <1>1, <2>2, <2>3
<1>7. new = {} => Settled(p)' = Settled(p)
  <2>1. SUFFICES ASSUME new = {} PROVE Settled(p)' = Settled(p)
    OBVIOUS
  <2>2. SavesAt(p)' = SavesAt(p)
    BY <1>1, <2>1
  <2>3. CASE SavesAt(p) = {}
    BY <2>2, <2>3, SettledIs, SettledIsNext
  <2>4. CASE SavesAt(p) # {}
    <3>1. PICK m \in SavesAt(p) :
            (\A i \in SavesAt(p) : i <= m) /\ Settled(p) = saves[m].edits
      BY <2>4, SettledIs
    <3>2. PICK n \in SavesAt(p)' :
            (\A i \in SavesAt(p)' : i <= n) /\ Settled(p)' = saves'[n].edits
      BY <2>2, <2>4, SettledIsNext
    <3>3. m <= n /\ n <= m /\ m \in Nat /\ n \in Nat
      BY <1>1, <2>2, <3>1, <3>2
    <3>4. m = n
      BY <3>3
    <3>5. QED
      BY <1>1, <3>1, <3>2, <3>4
  <2>5. QED
    BY <2>3, <2>4
<1>8. new # {} <=> \E i \in 1 .. Len(saves') : i > Len(saves) /\ saves'[i].pos = p
  BY DEF SavesAt
<1>9. ~(p \in Loaded' /\ world'[p].dirty) => world[p].edits \subseteq Settled(p)' \cup Lost(p)'
  <2>1. CASE new # {}
    BY <1>6, <2>1
  <2>2. CASE new = {} /\ ~world[p].dirty
    <3>1. world[p].edits \subseteq Settled(p) \cup Lost(p)
      BY <2>2 DEF ContentAt, CleanSaved
    <3>2. QED
      BY <1>5, <1>7, <2>2, <3>1
  <2>3. QED
    BY <1>8, <2>1, <2>2
<1>10. CleanSaved(p)'
  BY <1>9 DEF CleanSaved
<1>11. KeptAll(p)'
  <2>1. made[p] \subseteq world[p].edits \cup Lost(p)
    BY DEF ContentAt, KeptAll, Recoverable
  <2>2. CASE p \in Loaded'
    BY <1>5, <2>1, <2>2 DEF KeptAll, Recoverable
  <2>3. CASE p \notin Loaded'
    BY <1>5, <1>9, <2>1, <2>3 DEF KeptAll, Recoverable
  <2>4. QED
    BY <2>2, <2>3
<1>12. QED
  BY <1>2, <1>4, <1>10, <1>11 DEF ContentAt

\* The chunk of p is edited.
LEMMA ContentEdit ==
    ASSUME StreamTypeOK, StreamTypeOK', NEW p \in Pos, p \notin Doubtful, p \notin Doubtful',
           ContentAt(p), failed \subseteq failed', UNCHANGED <<saves, disk>>,
           Loads(p)' \subseteq Loads(p), p \in Loaded, p \in Loaded', NEW e,
           world'[p].edits = world[p].edits \cup {e}, world'[p].dirty = TRUE,
           made'[p] = made[p] \cup {e}
    PROVE  ContentAt(p)'
<1>1. SavesAt(p)' = SavesAt(p)
  BY DEF SavesAt
<1>2. LoadsOK(p)' /\ CopiesGrow(p)'
  BY <1>1 DEF ContentAt, LoadsOK, CopiesGrow
<1>3. Lost(p) \subseteq Lost(p)'
  BY LostGrows
<1>4. made[p] \subseteq world[p].edits \cup Lost(p)
  BY DEF ContentAt, KeptAll, Recoverable
<1>5. KeptAll(p)'
  BY <1>3, <1>4 DEF KeptAll, Recoverable
<1>6. CleanSaved(p)'
  BY DEF CleanSaved
<1>7. QED
  BY <1>2, <1>5, <1>6 DEF ContentAt

\* A worker reads the chunk of p while no Save command for it is queued.
LEMMA ContentLoad ==
    ASSUME StreamTypeOK, StreamTypeOK', NEW p \in Pos, p \notin Doubtful, p \notin Doubtful',
           ContentAt(p), UNCHANGED <<saves, disk, made, world, failed>>,
           Loads(p)' \subseteq Loads(p) \cup {disk[p]}, SavesAt(p) = {}
    PROVE  ContentAt(p)'
<1>1. SavesAt(p)' = {}
  BY DEF SavesAt
<1>2. LoadsOK(p)'
  BY <1>1 DEF ContentAt, LoadsOK
<1>3. Settled(p)' = Settled(p) /\ Loaded' = Loaded
  BY DEF Settled, Loaded
<1>4. Lost(p) \subseteq Lost(p)'
  BY LostGrows
<1>5. KeptAll(p)' /\ CleanSaved(p)'
  BY <1>3, <1>4 DEF ContentAt, KeptAll, CleanSaved, Recoverable
<1>6. CopiesGrow(p)'
  BY <1>1, <1>3 DEF ContentAt, CopiesGrow
<1>7. QED
  BY <1>2, <1>5, <1>6 DEF ContentAt

\* The storage worker takes the oldest command: the commands of p move up.
LEMMA SavesMoveUp ==
    ASSUME StreamTypeOK, saves # <<>>, saves' = Tail(saves), NEW p
    PROVE  /\ Head(saves) = saves[1] /\ saves[1] \in Save
           /\ \A i \in SavesAt(p) : i \in Nat \ {0}
           /\ \A i \in SavesAt(p)' : i \in Nat \ {0}
           /\ \A i \in SavesAt(p)' : i + 1 \in SavesAt(p) /\ saves'[i] = saves[i + 1]
           /\ \A i \in SavesAt(p) : i # 1 => i - 1 \in SavesAt(p)'
           /\ 1 \in SavesAt(p) <=> saves[1].pos = p
<1>1. /\ saves \in Seq(Save) /\ Head(saves) = saves[1] /\ saves[1] \in Save
      /\ 1 \in 1 .. Len(saves)
      /\ \A i \in 1 .. Len(saves') : i + 1 \in 1 .. Len(saves) /\ saves'[i] = saves[i + 1]
      /\ \A i \in 1 .. Len(saves) : i = 1 \/ (i - 1 \in 1 .. Len(saves') /\ (i - 1) + 1 = i)
  BY TailEffect DEF StreamTypeOK
<1>2. QED
  BY <1>1 DEF SavesAt

LEMMA ContentTail ==
    ASSUME StreamTypeOK, StreamTypeOK', NEW p \in Pos, p \notin Doubtful, p \notin Doubtful',
           ContentAt(p), saves # <<>>, saves' = Tail(saves), failed \subseteq failed',
           UNCHANGED <<world, made>>, Loads(p)' \subseteq Loads(p),
           \/ saves[1].pos = p /\ disk'[p] = saves[1].edits
           \/ saves[1].pos = p /\ disk'[p] = disk[p] /\ saves[1] \in failed'
           \/ saves[1].pos # p /\ disk'[p] = disk[p]
    PROVE  ContentAt(p)'
<1>1. /\ \A i \in SavesAt(p) : i \in Nat \ {0}
      /\ \A i \in SavesAt(p)' : i \in Nat \ {0}
      /\ \A i \in SavesAt(p)' : i + 1 \in SavesAt(p) /\ saves'[i] = saves[i + 1]
      /\ \A i \in SavesAt(p) : i # 1 => i - 1 \in SavesAt(p)'
      /\ 1 \in SavesAt(p) <=> saves[1].pos = p
  BY SavesMoveUp
<1>2. Loaded' = Loaded
  BY DEF Loaded
<1>3. LoadsOK(p)'
  <2>1. SUFFICES ASSUME NEW d \in Loads(p)' PROVE d = disk'[p] /\ SavesAt(p)' = {}
    BY DEF LoadsOK
  <2>2. d = disk[p] /\ SavesAt(p) = {}
    BY DEF ContentAt, LoadsOK
  <2>3. QED
    BY <1>1, <2>2
<1>4. \A i \in SavesAt(p)' : disk'[p] \subseteq saves'[i].edits
  <2>1. SUFFICES ASSUME NEW i \in SavesAt(p)' PROVE disk'[p] \subseteq saves'[i].edits
    OBVIOUS
  <2>6. i \in Nat \ {0}
    BY <1>1
  <2>7. 1 < i + 1
    BY <2>6
  <2>2. i + 1 \in SavesAt(p) /\ saves'[i] = saves[i + 1] /\ 1 < i + 1
    BY <1>1, <2>7
  <2>3. disk[p] \subseteq saves[i + 1].edits
    BY <2>2 DEF ContentAt, CopiesGrow
  <2>4. saves[1].pos = p => saves[1].edits \subseteq saves[i + 1].edits
    BY <1>1, <2>2 DEF ContentAt, CopiesGrow
  <2>5. QED
    BY <2>2, <2>3, <2>4
<1>5. \A i, j \in SavesAt(p)' : i < j => saves'[i].edits \subseteq saves'[j].edits
  <2>1. SUFFICES ASSUME NEW i \in SavesAt(p)', NEW j \in SavesAt(p)', i < j
                 PROVE  saves'[i].edits \subseteq saves'[j].edits
    OBVIOUS
  <2>5. i \in Nat /\ j \in Nat
    BY <1>1
  <2>6. i + 1 < j + 1
    BY <2>1, <2>5
  <2>2. /\ i + 1 \in SavesAt(p) /\ saves'[i] = saves[i + 1]
        /\ j + 1 \in SavesAt(p) /\ saves'[j] = saves[j + 1]
        /\ i + 1 < j + 1
    BY <1>1, <2>6
  <2>3. saves[i + 1].edits \subseteq saves[j + 1].edits
    BY <2>2 DEF ContentAt, CopiesGrow
  <2>4. QED
    BY <2>2, <2>3
<1>6. CopiesGrow(p)'
  <2>1. p \in Loaded => disk'[p] \subseteq world[p].edits
    BY <1>1 DEF ContentAt, CopiesGrow
  <2>2. p \in Loaded => \A i \in SavesAt(p)' : saves'[i].edits \subseteq world[p].edits
    BY <1>1 DEF ContentAt, CopiesGrow
  <2>3. QED
    BY <1>2, <1>4, <1>5, <2>1, <2>2 DEF CopiesGrow
<1>7. Lost(p) \subseteq Lost(p)'
  BY LostGrows
<1>8. Settled(p) \subseteq Settled(p)' \cup Lost(p)'
  <2>1. CASE SavesAt(p) = {}
    <3>1. SavesAt(p)' = {} /\ saves[1].pos # p
      BY <1>1, <2>1
    <3>2. QED
      BY <2>1, <3>1, SettledIs, SettledIsNext
  <2>2. CASE SavesAt(p) # {} /\ SavesAt(p)' = {}
    <3>1. \A i \in SavesAt(p) : i = 1
      BY <1>1, <2>2
    <3>2. saves[1].pos = p /\ Settled(p) = saves[1].edits
      BY <1>1, <2>2, <3>1, SettledIs
    <3>3. Settled(p)' = disk'[p]
      BY <2>2, SettledIsNext
    <3>4. CASE disk'[p] = saves[1].edits
      BY <3>2, <3>3, <3>4
    <3>5. CASE saves[1] \in failed'
      BY <3>2, <3>5, LostIs DEF Lost
    <3>6. QED
      BY <3>2, <3>4, <3>5
  <2>3. CASE SavesAt(p)' # {}
    <3>1. PICK n \in SavesAt(p)' :
            (\A i \in SavesAt(p)' : i <= n) /\ Settled(p)' = saves'[n].edits
      BY <2>3, SettledIsNext
    <3>2. n + 1 \in SavesAt(p) /\ saves'[n] = saves[n + 1] /\ n \in Nat \ {0}
      BY <1>1
    <3>3. PICK m \in SavesAt(p) :
            (\A i \in SavesAt(p) : i <= m) /\ Settled(p) = saves[m].edits
      BY <3>2, SettledIs
    <3>4. m \in Nat /\ n + 1 <= m
      BY <1>1, <3>2, <3>3
    <3>5. m - 1 \in SavesAt(p)'
      BY <1>1, <3>2, <3>4
    <3>6. m - 1 <= n
      BY <3>1, <3>5
    <3>7. m = n + 1
      BY <3>2, <3>4, <3>6
    <3>8. QED
      BY <3>1, <3>2, <3>3, <3>7
  <2>4. QED
    BY <2>1, <2>2, <2>3
<1>9. CleanSaved(p)'
  BY <1>2, <1>7, <1>8 DEF ContentAt, CleanSaved
<1>10. KeptAll(p)'
  BY <1>2, <1>7, <1>8 DEF ContentAt, KeptAll, Recoverable
<1>11. QED
  BY <1>3, <1>6, <1>9, <1>10 DEF ContentAt

\* A fresh process finds what the last one left on the disk.
LEMMA ContentFresh ==
    ASSUME StreamTypeOK, StreamTypeOK', NEW p \in Pos, p \notin Doubtful, p \notin Doubtful',
           ContentAt(p), failed \subseteq failed', saves' = <<>>, disk' = disk,
           Loads(p)' = {}, p \notin Loaded',
           \/ made' = disk
           \/ made' = made /\ p \notin Dirty /\ \A i \in 1 .. Len(saves) : saves[i] \in failed'
    PROVE  ContentAt(p)'
<1>1. SavesAt(p)' = {}
  BY DEF SavesAt
<1>2. Settled(p)' = disk[p] /\ Recoverable(p)' = disk[p]
  BY <1>1, SettledIsNext DEF Recoverable
<1>3. LoadsOK(p)' /\ CopiesGrow(p)' /\ CleanSaved(p)'
  BY <1>1 DEF LoadsOK, CopiesGrow, CleanSaved
<1>4. CASE made' = disk
  BY <1>2, <1>3, <1>4 DEF ContentAt, KeptAll
<1>5. CASE made' = made /\ p \notin Dirty /\ \A i \in 1 .. Len(saves) : saves[i] \in failed'
  <2>1. Lost(p) \subseteq Lost(p)'
    BY LostGrows
  <2>2. Settled(p) \subseteq disk[p] \cup Lost(p)'
    <3>1. CASE SavesAt(p) = {}
      BY <3>1, SettledIs
    <3>2. CASE SavesAt(p) # {}
      <4>1. PICK m \in SavesAt(p) : Settled(p) = saves[m].edits
        BY <3>2, SettledIs
      <4>2. saves[m] \in failed' /\ saves[m].pos = p
        BY <1>5 DEF SavesAt
      <4>3. QED
        BY <4>1, <4>2 DEF Lost
    <3>3. QED
      BY <3>1, <3>2
  <2>3. Recoverable(p) \subseteq Settled(p) \cup Lost(p)
    <3>1. CASE p \in Loaded
      <4>1. ~world[p].dirty
        BY <1>5, <3>1, LoadedIsChunk
      <4>2. QED
        BY <3>1, <4>1 DEF ContentAt, CleanSaved, Recoverable
    <3>2. CASE p \notin Loaded
      BY <3>2 DEF Recoverable
    <3>3. QED
      BY <3>1, <3>2
  <2>4. KeptAll(p)'
    BY <1>2, <1>5, <2>1, <2>2, <2>3 DEF ContentAt, KeptAll
  <2>5. QED
    BY <1>3, <2>4 DEF ContentAt
<1>6. QED
  BY <1>4, <1>5

-----------------------------------------------------------------------------
(* Every step keeps the edits.                                             *)

LEMMA LoadsSame ==
    ASSUME UNCHANGED <<results, epoch, deferred>>, NEW p
    PROVE  Loads(p)' = Loads(p)
BY DEF Loads, DoneAt, LateAt, Accepted

LEMMA NoLoads ==
    ASSUME NEW p, results' = <<>>, deferred' = <<>>
    PROVE  Loads(p)' = {}
<1>1. DoneAt(p)' = {} /\ LateAt(p)' = {}
  BY DEF DoneAt, LateAt, Accepted
<1>2. QED
  BY <1>1 DEF Loads

\* What is gathered for a position is what its loads bring.
LEMMA KeptLoads ==
    ASSUME StreamTypeOK, NEW p, NEW k \in KeptAt(p)
    PROVE  Gathered[k].data \in Loads(p)
<1>1. \/ k \in 1 .. Len(deferred) /\ Gathered[k] = deferred[k]
      \/ k - Len(deferred) \in Accepted /\ Gathered[k] = results[k - Len(deferred)]
  BY KeptIs DEF KeptAt
<1>2. Gathered[k].req.pos = p
  BY DEF KeptAt
<1>3. QED
  BY <1>1, <1>2 DEF Loads, LateAt, DoneAt

LEMMA ContentReceive ==
    ASSUME PipeInv, StreamingAssumption, StreamTypeOK', ReceiveAndInsert, NEW p \in Pos,
           p \notin Doubtful, p \notin Doubtful', ContentAt(p)
    PROVE  ContentAt(p)'
<1>1. /\ StreamTypeOK /\ LoaderTypeOK /\ DrainResults
      /\ UNCHANGED <<saves, disk, made, failed>>
  BY DEF PipeInv, LoaderInv, ReceiveAndInsert
<1>2. ApartAt(p)
  BY DEF PipeInv, Apart, Doubtful
<1>3. DoneAt(p)' = {}
  BY <1>1, DrainEffect
<1>4. Loads(p)' = {deferred'[i].data : i \in LateAt(p)'}
  BY <1>3 DEF Loads
<1>5. SavesAt(p)' = SavesAt(p)
  BY <1>1 DEF SavesAt
<1>6. CASE KeptAt(p) = {}
  <2>1. world'[p] = world[p] /\ LateAt(p)' = {}
    BY <1>1, <1>6, ReceiveEffect
  <2>2. Loads(p)' \subseteq Loads(p)
    BY <1>4, <2>1
  <2>3. QED
    BY <1>1, <1>5, <2>1, <2>2, ContentSame
<1>7. CASE KeptAt(p) # {}
  <2>1. PICK k \in KeptAt(p) : TRUE
    BY <1>7
  <2>2. \/ /\ world'[p] = [edits |-> Gathered[k].data, dirty |-> FALSE]
           /\ LateAt(p)' = {}
        \/ /\ world'[p] = world[p]
           /\ \E i : LateAt(p)' = {i} /\ deferred'[i] = Gathered[k]
    BY <1>1, <1>2, OneKept, ReceiveEffect
  <2>3. Gathered[k].data \in Loads(p)
    BY <1>1, KeptLoads
  <2>4. p \notin Loaded
    BY <1>1, <1>2, <2>1, KeptIs DEF ApartAt
  <2>5. CASE world'[p] = [edits |-> Gathered[k].data, dirty |-> FALSE] /\ LateAt(p)' = {}
    <3>1. Loads(p)' = {}
      BY <1>4, <2>5
    <3>2. QED
      BY <1>1, <2>3, <2>4, <2>5, <3>1, ContentInsert
  <2>6. CASE world'[p] = world[p] /\ \E i : LateAt(p)' = {i} /\ deferred'[i] = Gathered[k]
    <3>1. Loads(p)' \subseteq Loads(p)
      BY <1>4, <2>3, <2>6
    <3>2. QED
      BY <1>1, <1>5, <2>6, <3>1, ContentSame
  <2>7. QED
    BY <2>2, <2>5, <2>6
<1>8. QED
  BY <1>6, <1>7

\* A worker finishes for a position that no queued save concerns, or that the
\* worker did not hold for this epoch.
LEMMA ContentFinish ==
    ASSUME PipeInv, StreamTypeOK', NEW w \in Workers, NEW d \in Payloads, FinishRequest(w, d),
           UNCHANGED <<saves, disk, made, world, failed, deferred>>,
           NEW p \in Pos, p \notin Doubtful, p \notin Doubtful', ContentAt(p),
           w \in HeldAt(p) => d = disk[p] /\ SavesAt(p) = {}
    PROVE  ContentAt(p)'
<1>1. StreamTypeOK /\ LoaderTypeOK
  BY DEF PipeInv, LoaderInv
<1>2. /\ Len(results) \in Nat
      /\ \A i \in 1 .. Len(results) : results'[i] = results[i]
      /\ results'[Len(results) + 1] = [req |-> work[w], data |-> d]
      /\ w \notin HeldAt(p) => DoneAt(p)' = DoneAt(p)
      /\ w \in HeldAt(p) => DoneAt(p)' = DoneAt(p) \cup {Len(results) + 1}
  BY <1>1, FinishEffect
<1>3. \A i \in DoneAt(p) : results'[i] = results[i]
  BY <1>2 DEF DoneAt, Accepted
<1>4. LateAt(p)' = LateAt(p) /\ SavesAt(p)' = SavesAt(p)
  BY DEF LateAt, SavesAt
<1>5. CASE w \notin HeldAt(p)
  <2>1. Loads(p)' \subseteq Loads(p)
    BY <1>2, <1>3, <1>4, <1>5 DEF Loads
  <2>2. QED
    BY <1>1, <1>4, <2>1, ContentSame
<1>6. CASE w \in HeldAt(p)
  <2>1. results'[Len(results) + 1].data = d
    BY <1>2
  <2>2. Loads(p)' \subseteq Loads(p) \cup {disk[p]}
    BY <1>2, <1>3, <1>4, <1>6, <2>1 DEF Loads
  <2>3. QED
    BY <1>1, <1>6, <2>2, ContentLoad
<1>7. QED
  BY <1>5, <1>6

LEMMA ContentStep ==
    ASSUME KeepInv, StreamingAssumption, PipeInv', [Next]_vars
    PROVE  Content'
<1>0. StreamTypeOK /\ StreamTypeOK' /\ LoaderTypeOK /\ PipeInv
  BY DEF KeepInv, PipeInv, LoaderInv
<1> SUFFICES ASSUME NEW p \in Pos, p \notin Doubtful' PROVE ContentAt(p)'
  BY DEF Content
<1>a. Doubtful \subseteq Doubtful' /\ failed \subseteq failed'
  BY DEF Doubtful, Next, MainStep, ShiftOrigin, ReceiveAndInsert, RequestMissing, UnloadChunk,
         PlayerEdit, AutoSave, NextPhase, Quit, AbortRun, LoaderStep, LoadFromDisk, LoadFails,
         WriteChunk, WriteFails, Restart, EndAborted, Crash, FreshProcess, vars, streamVars
<1>b. p \notin Doubtful /\ ContentAt(p) /\ ApartAt(p)
  BY <1>a DEF KeepInv, PipeInv, Content, Apart, Doubtful
<1>c. p \in Loaded => Loads(p) = {}
  BY <1>b DEF ApartAt, Loads
<1>1. ASSUME UNCHANGED <<world, saves, disk, made>>, Loads(p)' \subseteq Loads(p)
      PROVE  ContentAt(p)'
  <2>1. SavesAt(p)' = SavesAt(p)
    BY <1>1 DEF SavesAt
  <2>2. QED
    BY <1>0, <1>1, <1>a, <1>b, <2>1, ContentSame
<1>2. ASSUME NEW w \in Windows, ShiftOrigin(w) PROVE ContentAt(p)'
  <2>1. results' = <<>> /\ deferred' = <<>> /\ UNCHANGED <<world, saves, disk, made>>
    BY <1>2 DEF ShiftOrigin, ResetEpochAndClear
  <2>2. QED
    BY <1>1, <2>1, NoLoads
<1>3. CASE ReceiveAndInsert
  BY <1>0, <1>3, <1>b, ContentReceive
<1>4. ASSUME NEW q \in Pos, RequestMissing(q) PROVE ContentAt(p)'
  <2>1. UNCHANGED <<world, saves, disk, made, results, epoch, deferred>>
    BY <1>4 DEF RequestMissing, RequestChunk
  <2>2. QED
    BY <1>1, <2>1, LoadsSame
<1>5. ASSUME NEW q \in Pos, UnloadChunk(q) PROVE ContentAt(p)'
  <2>1. /\ Loaded' = Loaded \ {q} /\ q \in Loaded
        /\ p # q => world'[p] = world[p]
        /\ Len(saves) \in Nat
        /\ \A i \in 1 .. Len(saves) : i \in 1 .. Len(saves') /\ saves'[i] = saves[i]
        /\ \A i \in 1 .. Len(saves') :
              \/ i \in 1 .. Len(saves)
              \/ /\ i > Len(saves) /\ q \in Dirty
                 /\ saves'[i].pos = q /\ saves'[i].edits = world[q].edits
        /\ q \in Dirty => \E i \in 1 .. Len(saves') : i > Len(saves) /\ saves'[i].pos = q
    BY <1>0, <1>5, UnloadEffect
  <2>2. UNCHANGED <<disk, made, results, epoch, deferred>>
    BY <1>5 DEF UnloadChunk, CancelChunk
  <2>3. Loads(p)' = Loads(p)
    BY <2>2, LoadsSame
  <2>4. CASE p # q
    <3>1. SavesAt(p)' = SavesAt(p) /\ \A i \in SavesAt(p) : saves'[i] = saves[i]
      BY <2>1, <2>4 DEF SavesAt
    <3>2. QED
      BY <1>0, <1>a, <1>b, <2>1, <2>2, <2>3, <2>4, <3>1, ContentSame
  <2>5. CASE p = q
    <3>1. p \in Loaded /\ p \notin Loaded' /\ Loads(p)' = {}
      BY <1>c, <2>1, <2>3, <2>5
    <3>2. ~world[p].dirty \/ \E i \in 1 .. Len(saves') : i > Len(saves) /\ saves'[i].pos = p
      BY <1>0, <2>1, <2>5, LoadedIsChunk
    <3>3. QED
      BY <1>0, <1>a, <1>b, <2>1, <2>2, <2>5, <3>1, <3>2, ContentSend
  <2>6. QED
    BY <2>4, <2>5
<1>6. ASSUME NEW q \in Pos, NEW e \in Edits, PlayerEdit(q, e) PROVE ContentAt(p)'
  <2>1. /\ q \in Loaded /\ Loaded' = Loaded
        /\ p # q => world'[p] = world[p] /\ made'[p] = made[p]
        /\ world'[q].dirty = TRUE /\ world'[q].edits = world[q].edits \cup {e}
        /\ made'[q] = made[q] \cup {e}
    <3>1. StreamTypeOK /\ PlayerEdit(q, e)
      BY <1>0, <1>6
    <3>2. /\ q \in Loaded /\ Loaded' = Loaded
          /\ \A r \in Pos : r # q => world'[r] = world[r] /\ made'[r] = made[r]
          /\ world'[q].dirty = TRUE /\ world'[q].edits = world[q].edits \cup {e}
          /\ made'[q] = made[q] \cup {e}
      BY <3>1, EditEffect
    <3>3. QED
      BY <3>2
  <2>2. UNCHANGED <<saves, disk, results, epoch, deferred>>
    BY <1>6 DEF PlayerEdit, loaderVars
  <2>3. Loads(p)' = Loads(p) /\ SavesAt(p)' = SavesAt(p)
    BY <2>2, LoadsSame DEF SavesAt
  <2>4. CASE p # q
    BY <1>0, <1>a, <1>b, <2>1, <2>2, <2>3, <2>4, ContentSame
  <2>5. CASE p = q
    BY <1>0, <1>a, <1>b, <2>1, <2>2, <2>3, <2>5, ContentEdit
  <2>6. QED
    BY <2>4, <2>5
<1>7. ASSUME NEW S \in SUBSET Dirty, NEW order \in SetToSeqs(S),
             saves' = saves \o SavesOf(order), world' = Flushed(S),
             UNCHANGED <<disk, made, results, epoch, deferred>>
      PROVE  ContentAt(p)'
  <2>1. /\ Len(saves) \in Nat
        /\ \A i \in 1 .. Len(saves) : i \in 1 .. Len(saves') /\ saves'[i] = saves[i]
        /\ \A i \in 1 .. Len(saves') :
              \/ i \in 1 .. Len(saves)
              \/ /\ i > Len(saves)
                 /\ saves'[i].pos \in S /\ saves'[i].edits = world[saves'[i].pos].edits
        /\ \A q \in S : \E i \in 1 .. Len(saves') : i > Len(saves) /\ saves'[i].pos = q
    BY <1>0, <1>7, SendEffect
  <2>2. /\ Loaded' = Loaded
        /\ \A q \in Loaded : world'[q].edits = world[q].edits
        /\ \A q \in Loaded : world'[q].dirty = (world[q].dirty /\ q \notin S)
    BY <1>0, <1>7, FlushEffect
  <2>3. Loads(p)' = Loads(p)
    BY <1>7, LoadsSame
  <2>4. S \subseteq Loaded
    BY DEF Dirty
  <2>5. CASE p \notin Loaded
    <3>1. world'[p] = world[p]
      BY <1>7, <2>4, <2>5 DEF Flushed
    <3>2. SavesAt(p)' = SavesAt(p) /\ \A i \in SavesAt(p) : saves'[i] = saves[i]
      BY <2>1, <2>4, <2>5 DEF SavesAt
    <3>3. QED
      BY <1>0, <1>7, <1>a, <1>b, <2>3, <3>1, <3>2, ContentSame
  <2>6. CASE p \in Loaded
    <3>1. Loads(p)' = {} /\ p \in Loaded' /\ world'[p].edits = world[p].edits
      BY <1>c, <2>2, <2>3, <2>6
    <3>2. \A i \in 1 .. Len(saves') : saves'[i].pos = p =>
             i \in 1 .. Len(saves) \/ (i > Len(saves) /\ saves'[i].edits = world[p].edits)
      BY <2>1
    <3>3. CASE p \in S
      <4>1. \E i \in 1 .. Len(saves') : i > Len(saves) /\ saves'[i].pos = p
        BY <2>1, <3>3
      <4>2. QED
        BY <1>0, <1>7, <1>a, <1>b, <2>1, <2>6, <3>1, <3>2, <4>1, ContentSend
    <3>4. CASE p \notin S
      <4>1. world'[p].dirty \/ ~world[p].dirty
        BY <2>2, <2>6, <3>4
      <4>2. QED
        BY <1>0, <1>7, <1>a, <1>b, <2>1, <2>6, <3>1, <3>2, <4>1, ContentSend
    <3>5. QED
      BY <3>3, <3>4
  <2>7. QED
    BY <2>5, <2>6
<1>8. CASE AutoSave \/ Quit \/ AbortRun
  <2>1. UNCHANGED <<disk, made, results, epoch, deferred>>
    BY <1>8 DEF AutoSave, Quit, AbortRun, CloseLoader, loaderVars
  <2>2. \E S \in SUBSET Dirty : \E order \in SetToSeqs(S) :
           saves' = saves \o SavesOf(order) /\ world' = Flushed(S)
    BY <1>8 DEF AutoSave, Quit, AbortRun, SaveAll
  <2>3. QED
    BY <1>7, <2>1, <2>2
<1>9. CASE NextPhase \/ UNCHANGED vars
  <2>1. UNCHANGED <<world, saves, disk, made, results, epoch, deferred>>
    BY <1>9 DEF NextPhase, vars, streamVars, loaderVars
  <2>2. QED
    BY <1>1, <2>1, LoadsSame
<1>10. ASSUME NEW w \in Workers, LoaderStep(w) PROVE ContentAt(p)'
  <2>1. CASE (TakeRequest(w) \/ ExitWorker(w)) /\ UNCHANGED streamVars
    <3>1. UNCHANGED <<world, saves, disk, made, results, epoch, deferred>>
      BY <2>1 DEF TakeRequest, ExitWorker, streamVars
    <3>2. QED
      BY <1>1, <3>1, LoadsSame
  <2>2. CASE LoadFromDisk(w)
    <3>1. /\ w \in Busy /\ FinishRequest(w, disk[work[w].pos])
          /\ outrun' = outrun \cup ({work[w].pos} \cap {saves[i].pos : i \in 1 .. Len(saves)})
          /\ UNCHANGED <<world, saves, disk, made, failed, deferred>>
      BY <2>2 DEF LoadFromDisk
    <3>2. work[w] \in Request
      BY <1>0, <3>1 DEF Busy, LoaderTypeOK
    <3>3. disk[work[w].pos] \in Payloads
      BY <1>0, <3>2 DEF Request, StreamTypeOK, StreamingAssumption
    <3>4. w \in HeldAt(p) => disk[work[w].pos] = disk[p] /\ SavesAt(p) = {}
      <4>1. SUFFICES ASSUME w \in HeldAt(p)
                     PROVE  disk[work[w].pos] = disk[p] /\ SavesAt(p) = {}
        OBVIOUS
      <4>2. work[w].pos = p
        BY <4>1 DEF HeldAt
      <4>3. p \notin outrun'
        BY DEF Doubtful
      <4>4. QED
        BY <3>1, <4>2, <4>3 DEF SavesAt
    <3>5. QED
      BY <1>0, <1>b, <3>1, <3>3, <3>4, ContentFinish
  <2>3. CASE LoadFails(w)
    <3>1. /\ FinishRequest(w, {}) /\ {} \in Payloads
          /\ misread' = misread \cup {work[w].pos}
          /\ UNCHANGED <<world, saves, disk, made, failed, deferred>>
      BY <2>3 DEF LoadFails, StreamingAssumption
    <3>2. w \notin HeldAt(p)
      BY <3>1 DEF HeldAt, Doubtful
    <3>3. QED
      BY <1>0, <1>b, <3>1, <3>2, ContentFinish
  <2>4. QED
    BY <1>10, <2>1, <2>2, <2>3 DEF LoaderStep
<1>11. CASE WriteChunk \/ WriteFails
  <2>1. /\ saves # <<>> /\ saves' = Tail(saves)
        /\ UNCHANGED <<world, made, results, epoch, deferred>>
    BY <1>11 DEF WriteChunk, WriteFails, loaderVars
  <2>2. Head(saves) = saves[1] /\ saves[1] \in Save
    BY <1>0, <2>1, SavesMoveUp
  <2>3. \/ saves[1].pos = p /\ disk'[p] = saves[1].edits
        \/ saves[1].pos = p /\ disk'[p] = disk[p] /\ saves[1] \in failed'
        \/ saves[1].pos # p /\ disk'[p] = disk[p]
    BY <1>0, <1>11, <2>2 DEF WriteChunk, WriteFails, StreamTypeOK, Save
  <2>4. Loads(p)' = Loads(p)
    BY <2>1, LoadsSame
  <2>5. QED
    BY <1>0, <1>a, <1>b, <2>1, <2>3, <2>4, ContentTail
<1>12. CASE Restart \/ EndAborted \/ Crash
  <2>1. FreshProcess
    BY <1>12 DEF Restart, EndAborted, Crash
  <2>2. /\ results' = <<>> /\ deferred' = <<>> /\ disk' = disk /\ p \notin Loaded'
    BY <2>1 DEF FreshProcess, Loaded
  <2>3. Loads(p)' = {}
    BY <2>2, NoLoads
  <2>4. saves' = <<>>
    BY <1>12 DEF Restart, EndAborted, Crash, ExitComplete
  <2>5. \/ made' = disk
        \/ made' = made /\ p \notin Dirty /\ \A i \in 1 .. Len(saves) : saves[i] \in failed'
    <3>1. CASE Restart
      <4>1. phase = "exiting" /\ saves = <<>> /\ made' = made
        BY <3>1 DEF Restart, ExitComplete
      <4>2. QED
        BY <4>1 DEF KeepInv, LeavingIsClean
    <3>2. CASE EndAborted
      BY <3>2 DEF EndAborted, KeepInv, LeavingIsClean
    <3>3. CASE Crash
      BY <3>3 DEF Crash
    <3>4. QED
      BY <1>12, <3>1, <3>2, <3>3
  <2>6. QED
    BY <1>0, <1>a, <1>b, <2>2, <2>3, <2>4, <2>5, ContentFresh
<1>13. QED
  BY <1>2, <1>3, <1>4, <1>5, <1>6, <1>8, <1>9, <1>10, <1>11, <1>12 DEF Next, MainStep

\* After save_all the main thread loads and edits nothing any more.
LEMMA LeavingStep ==
    ASSUME KeepInv, [Next]_vars
    PROVE  LeavingIsClean'
<1>0. StreamTypeOK /\ (phase \in {"exiting", "aborting"} => Dirty = {})
  BY DEF KeepInv, PipeInv, LeavingIsClean
<1>1. CASE Quit \/ AbortRun
  <2>1. world' = Flushed(Dirty)
    BY <1>1 DEF Quit, AbortRun, SaveAll
  <2>2. Dirty' = {}
    BY <1>0, <2>1, FlushEffect
  <2>3. QED
    BY <2>2 DEF LeavingIsClean
<1>2. CASE UNCHANGED <<phase, world>>
  <2>1. Dirty' = Dirty
    BY <1>2 DEF Dirty, Loaded
  <2>2. QED
    BY <1>0, <1>2, <2>1 DEF LeavingIsClean
<1>3. CASE phase' \notin {"exiting", "aborting"}
  BY <1>3 DEF LeavingIsClean
<1>4. ASSUME NEW w \in Workers, LoaderStep(w) PROVE UNCHANGED <<phase, world>>
  BY <1>4 DEF LoaderStep, LoadFromDisk, LoadFails, streamVars
<1>5. CASE WriteChunk \/ WriteFails \/ UNCHANGED vars
  BY <1>2, <1>5 DEF WriteChunk, WriteFails, vars, streamVars
<1>6. CASE Restart \/ EndAborted \/ Crash
  BY <1>3, <1>6 DEF Restart, EndAborted, Crash, FreshProcess
<1>7. CASE \/ \E w \in Windows : ShiftOrigin(w)
           \/ ReceiveAndInsert \/ AutoSave \/ NextPhase
           \/ \E p \in Pos : RequestMissing(p) \/ UnloadChunk(p)
           \/ \E p \in Pos, e \in Edits : PlayerEdit(p, e)
  BY <1>3, <1>7 DEF ShiftOrigin, ReceiveAndInsert, AutoSave, NextPhase, RequestMissing,
                    UnloadChunk, PlayerEdit
<1>8. QED
  BY <1>1, <1>2, <1>4, <1>5, <1>6, <1>7 DEF Next, MainStep

LEMMA KeepInit ==
    ASSUME StreamingAssumption, LoaderAssumption, Init
    PROVE  KeepInv
<1>1. PipeInv /\ StreamTypeOK
  BY PipeInit DEF PipeInv
<1>2. /\ requests = <<>> /\ results = <<>> /\ deferred = <<>> /\ saves = <<>>
      /\ Accepted = {} /\ Loaded = {}
      /\ \A p \in Pos : disk[p] = {} /\ made[p] = {}
  BY DEF Init, LoaderInit, Accepted, Loaded
<1>3. ASSUME NEW p \in Pos PROVE ContentAt(p)
  <2>1. Loads(p) = {} /\ SavesAt(p) = {} /\ p \notin Loaded
    BY <1>2 DEF Loads, DoneAt, LateAt, SavesAt
  <2>2. QED
    BY <1>2, <2>1 DEF ContentAt, LoadsOK, CopiesGrow, KeptAll, CleanSaved
<1>4. Dirty = {}
  BY <1>2 DEF Dirty
<1>5. QED
  BY <1>1, <1>3, <1>4 DEF KeepInv, Content, LeavingIsClean

LEMMA KeepStep == KeepInv /\ [Next]_vars => KeepInv'
<1> SUFFICES ASSUME KeepInv, [Next]_vars PROVE KeepInv'
  OBVIOUS
<1>1. PipeInv'
  BY PipeStep DEF KeepInv
<1>2. Content' /\ LeavingIsClean'
  BY <1>1, ContentStep, LeavingStep, StreamingAssumption
<1>3. QED
  BY <1>1, <1>2 DEF KeepInv

LEMMA KeepAlways == Spec => []KeepInv
<1>1. Init => KeepInv
  BY KeepInit, StreamingAssumption, LoaderAssumption
<1>2. QED
  BY <1>1, KeepStep, PTL DEF Spec

-----------------------------------------------------------------------------
(* The theorems.                                                           *)

\* A doubtful position may lose any edit.
LEMMA DoubtfulLoses == \A p \in Doubtful : Lost(p) = Edits
BY DEF Lost, Doubtful

LEMMA KeepSafe == KeepInv => NoEditLost /\ CleanMeansSaved /\ CleanExitSavesAll
<1> SUFFICES ASSUME KeepInv PROVE NoEditLost /\ CleanMeansSaved /\ CleanExitSavesAll
  OBVIOUS
<1>0. StreamTypeOK
  BY DEF KeepInv, PipeInv
<1>1. ASSUME NEW p \in Pos
      PROVE  KeptAll(p) /\ CleanSaved(p)
  <2>1. CASE p \in Doubtful
    <3>1. Lost(p) = Edits /\ made[p] \subseteq Edits
      BY <1>0, <2>1, DoubtfulLoses DEF StreamTypeOK
    <3>2. p \in Loaded => world[p].edits \subseteq Edits
      BY <1>0, LoadedIsChunk
    <3>3. QED
      BY <3>1, <3>2 DEF KeptAll, CleanSaved
  <2>2. CASE p \notin Doubtful
    BY <2>2 DEF KeepInv, Content, ContentAt
  <2>3. QED
    BY <2>1, <2>2
<1>2. NoEditLost /\ CleanMeansSaved
  <2>1. NoEditLost
    BY <1>1 DEF NoEditLost, KeptAll
  <2>2. Loaded \subseteq Pos
    BY DEF Loaded
  <2>3. \A p \in Pos : CleanSaved(p)
    BY <1>1
  <2>4. \A p \in Loaded : ~world[p].dirty => world[p].edits \subseteq Settled(p) \cup Lost(p)
    BY <2>2, <2>3 DEF CleanSaved
  <2>5. QED
    BY <2>1, <2>4 DEF CleanMeansSaved
<1>3. ASSUME ExitComplete, NEW p \in Pos
      PROVE  made[p] \subseteq disk[p] \cup Lost(p)
  <2>1. SavesAt(p) = {} /\ Dirty = {}
    BY <1>3 DEF ExitComplete, SavesAt, KeepInv, LeavingIsClean
  <2>2. Settled(p) = disk[p]
    BY <1>0, <2>1, SettledIs
  <2>3. CASE p \in Loaded
    <3>1. ~world[p].dirty
      BY <1>0, <2>1, <2>3, LoadedIsChunk
    <3>2. QED
      BY <1>1, <2>2, <2>3, <3>1 DEF KeptAll, CleanSaved, Recoverable
  <2>4. CASE p \notin Loaded
    BY <1>1, <2>2, <2>4 DEF KeptAll, Recoverable
  <2>5. QED
    BY <2>3, <2>4
<1>4. QED
  BY <1>2, <1>3 DEF CleanExitSavesAll

\* No edit disappears between the screen and the disk, whatever unloads,
\* shifts, saves, exits, lost devices and crashes come in between: a failure
\* explains every edit that is gone.
THEOREM EditsAreKept == Spec => []NoEditLost
BY KeepAlways, KeepSafe, PTL

\* A chunk marked clean can be unloaded without a save.
THEOREM CleanIsSaved == Spec => []CleanMeansSaved
BY KeepAlways, KeepSafe, PTL

\* Leaving the program through the window saves everything, for any number of
\* dirty chunks and queued commands.
THEOREM ExitSavesAll == Spec => []CleanExitSavesAll
BY KeepAlways, KeepSafe, PTL

\* No chunk write takes back what an earlier one put on the disk: the queue of
\* the storage worker holds the copies of a chunk in the order they were made.
THEOREM DiskGrows == Spec => DiskNeverRegresses
<1>1. ASSUME KeepInv, [Next]_vars, NEW p \in Pos
      PROVE  disk[p] \subseteq disk'[p] \cup Lost(p)
  <2>0. StreamTypeOK
    BY <1>1 DEF KeepInv, PipeInv
  <2>1. CASE disk' = disk
    BY <2>1
  <2>2. CASE WriteChunk
    <3>1. saves # <<>> /\ saves' = Tail(saves)
          /\ disk' = [disk EXCEPT ![Head(saves).pos] = Head(saves).edits]
      BY <2>2 DEF WriteChunk
    <3>2. Head(saves) = saves[1] /\ saves[1] \in Save /\ (1 \in SavesAt(p) <=> saves[1].pos = p)
      BY <2>0, <3>1, SavesMoveUp
    <3>3. CASE saves[1].pos # p
      BY <2>0, <3>1, <3>2, <3>3 DEF StreamTypeOK
    <3>4. CASE saves[1].pos = p /\ p \in Doubtful
      BY <2>0, <3>4, DoubtfulLoses DEF StreamTypeOK
    <3>5. CASE saves[1].pos = p /\ p \notin Doubtful
      <4>1. disk[p] \subseteq saves[1].edits
        BY <1>1, <3>2, <3>5 DEF KeepInv, Content, ContentAt, CopiesGrow
      <4>2. disk'[p] = saves[1].edits
        BY <2>0, <3>1, <3>2, <3>5 DEF StreamTypeOK
      <4>3. QED
        BY <4>1, <4>2
    <3>6. QED
      BY <3>3, <3>4, <3>5
  <2>3. disk' = disk \/ WriteChunk
    BY <1>1 DEF Next, MainStep, ShiftOrigin, ReceiveAndInsert, RequestMissing, UnloadChunk,
         PlayerEdit, AutoSave, NextPhase, Quit, AbortRun, LoaderStep, LoadFromDisk, LoadFails,
         WriteFails, Restart, EndAborted, Crash, FreshProcess, vars, streamVars
  <2>4. QED
    BY <2>1, <2>2, <2>3
<1>2. KeepInv /\ [Next]_vars => [\A p \in Pos : disk[p] \subseteq disk'[p] \cup Lost(p)]_vars
  BY <1>1
<1>3. QED
  BY <1>2, KeepAlways, PTL DEF Spec, DiskNeverRegresses
=============================================================================
