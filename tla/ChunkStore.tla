----------------------------- MODULE ChunkStore -----------------------------
(***************************************************************************)
(* What a region file promises, without sectors and tables: a map from     *)
(* chunk positions to the chunk last saved there.  A save in progress may  *)
(* leave its own position torn; it never touches another position, and it  *)
(* is not reported as finished before its chunk can be read.               *)
(***************************************************************************)
CONSTANTS
    Pos,     \* chunk positions of the region
    Blobs,   \* serialized chunks; b.pos is the position b was saved for
    NoBlob,  \* nothing saved
    Torn     \* saved bytes that are no chunk

VARIABLES
    stored,  \* what can be read back at each position
    putting  \* the chunk being saved, or NoBlob

vars == <<stored, putting>>

Init ==
    /\ stored = [p \in Pos |-> NoBlob]
    /\ putting = NoBlob

Begin(b) ==
    /\ putting = NoBlob
    /\ putting' = b
    /\ UNCHANGED stored

Touch ==
    /\ putting # NoBlob
    /\ \E v \in {putting, Torn} : stored' = [stored EXCEPT ![putting.pos] = v]
    /\ UNCHANGED putting

Finish ==
    /\ putting # NoBlob
    /\ stored[putting.pos] = putting
    /\ putting' = NoBlob
    /\ UNCHANGED stored

\* A save that fails, and a crash, stop where they are.
Abort ==
    /\ putting' = NoBlob
    /\ UNCHANGED stored

Next == (\E b \in Blobs : Begin(b)) \/ Touch \/ Finish \/ Abort

Spec == Init /\ [][Next]_vars
=============================================================================
