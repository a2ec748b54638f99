-------------------------- MODULE RegionFileProofs --------------------------
(***************************************************************************)
(* Proofs about RegionFile, for any positions, readers, sizes and bounds.  *)
(* As long as a crash loses no written byte: the sectors of two positions  *)
(* stay apart, no reader ever returns the chunk of another position, a     *)
(* finished save stays readable, the file implements a map from positions  *)
(* to chunks, and a read that no save overlaps is fresh.  When a crash may *)
(* lose what was not synced: the first one damages no position but the one *)
(* being saved.                                                            *)
(***************************************************************************)
EXTENDS RegionFile, TLAPS

-----------------------------------------------------------------------------
(* Types.                                                                  *)

\* The write calls keep the file a file.
LEMMA PutTypes ==
    ASSUME RegionAssumption, NEW f \in File,
           job \in [step : WriteSteps, blob : Blobs, at : Sectors],
           job.blob.size <= CountLimit, cache.gen \in Nat
    PROVE  /\ PutLength(f) \in File
           /\ PutData(f) \in File
           /\ PutLocation(f) \in File
           /\ PutGeneration(f) \in File
<1>1. /\ job.at \in Nat /\ job.at \in Sectors /\ job.blob \in Blobs
      /\ job.blob.size \in Nat /\ job.blob.pos \in Pos
  <2>1. job.at \in Sectors /\ job.blob \in Blobs
    OBVIOUS
  <2>2. job.at \in Nat
    BY <2>1 DEF Sectors, RegionAssumption
  <2>3. job.blob.size \in Sizes /\ job.blob.pos \in Pos
    BY <2>1 DEF Blobs
  <2> QED
    BY <2>1, <2>2, <2>3 DEF RegionAssumption
<1>2. f.eof \in Nat /\ Larger(f.eof, job.at + 1) \in Nat
      /\ Larger(f.eof, job.at + job.blob.size) \in Nat
  BY <1>1 DEF File, Larger
<1>3. PutLength(f) \in File
  BY <1>1, <1>2 DEF PutLength, File
<1>4. PutData(f) \in File
  BY <1>1, <1>2 DEF PutData, File
<1>5. PutLocation(f) \in File
  <2>1. [at |-> job.at, count |-> job.blob.size] \in Location
    BY <1>1 DEF Location, RegionAssumption
  <2> QED
    BY <2>1, <1>1 DEF PutLocation, File
<1>6. PutGeneration(f) \in File
  BY DEF PutGeneration, File
<1> QED
  BY <1>3, <1>4, <1>5, <1>6

\* A chunk that is being written has a location it can be given, on the disk.
JobOK ==
    job.step # "idle" =>
        /\ job.blob \in Blobs /\ job.blob.size <= CountLimit
        /\ job.at + job.blob.size - 1 <= LastSector

\* A reader that looks for a chunk looks at a position of the region.
ReaderOK ==
    \A r \in Readers :
        /\ reader[r].step \in {"tables", "length", "data"} => reader[r].pos \in Pos
        /\ reader[r].step = "data" => reader[r].length \in Blobs

TypeInv == RegionTypeOK /\ JobOK /\ ReaderOK

LEMMA InitTypes == ASSUME RegionAssumption, Init PROVE TypeInv
<1>1. NoLocations \in [Pos -> Location]
  BY DEF NoLocations, Unset, Location, Sectors, RegionAssumption
<1>2. EmptyFile \in File
  BY <1>1 DEF EmptyFile, File, RegionAssumption
<1>3. Idle \in [step : WriteSteps, blob : Blobs \cup {NoBlob}, at : Sectors]
  BY DEF Idle, WriteSteps, Sectors, RegionAssumption
<1>4. Closed \in ReaderState /\ Closed.step = "closed"
  BY <1>1 DEF Closed, ReaderState, ReadSteps
<1>5. RegionTypeOK
  BY <1>1, <1>2, <1>3, <1>4 DEF Init, RegionTypeOK, RegionAssumption
<1> QED
  BY <1>4, <1>5 DEF Init, TypeInv, JobOK, ReaderOK, Idle

LEMMA WriterTypes ==
    ASSUME RegionAssumption, SentinelAssumption, TypeInv, WriterStep
    PROVE  TypeInv'
<1> USE DEF TypeInv, RegionTypeOK, JobOK
<1>1. job.step # "idle" =>
        /\ job \in [step : WriteSteps, blob : Blobs, at : Sectors]
        /\ job.blob \in Blobs /\ job.blob.pos \in Pos /\ job.blob.size \in Nat
        /\ job.blob.size <= CountLimit
  BY DEF Blobs, RegionAssumption
<1>2. \A f \in File : job.step # "idle" =>
        PutLength(f) \in File /\ PutData(f) \in File
        /\ PutLocation(f) \in File /\ PutGeneration(f) \in File
  BY <1>1, PutTypes
<1>3. ASSUME NEW p \in Pos, NEW size \in Sizes, StartWrite(p, size)
      PROVE  TypeInv'
  <2> DEFINE blob == [pos |-> p, number |-> written + 1, size |-> size]
  <2>1. size \in Nat /\ size > 0 /\ size <= CountLimit
    BY <1>3 DEF StartWrite, Packable, RegionAssumption
  <2>2. blob \in Blobs
    BY <1>3, <2>1 DEF StartWrite, Blobs, RegionAssumption
  <2>3. FirstSector(p, size) \in Nat
    BY DEF FirstSector, Larger, File, Location, Sectors, RegionAssumption
  <2>4. FirstSector(p, size) \in Sectors
    BY <2>1, <2>3, <1>3 DEF StartWrite, Sectors, RegionAssumption
  <2>5. job' \in [step : WriteSteps, blob : Blobs \cup {NoBlob}, at : Sectors]
        /\ job'.blob = blob
    BY <1>3, <2>2, <2>4 DEF StartWrite, WriteSteps
  <2>6. reader' \in [Readers -> ReaderState] /\ ReaderOK'
    <3>1. \A x \in ReaderState : [x EXCEPT !.disturbed = TRUE] \in ReaderState
      BY DEF ReaderState
    <3>2. reader' = Disturb(p)
      BY <1>3 DEF StartWrite
    <3>3. reader' \in [Readers -> ReaderState]
      BY <3>1, <3>2 DEF Disturb
    <3>4. \A r \in Readers : reader'[r].step = reader[r].step
                              /\ reader'[r].pos = reader[r].pos
                              /\ reader'[r].length = reader[r].length
      BY <3>2 DEF Disturb, ReaderState
    <3> QED
      BY <3>3, <3>4 DEF ReaderOK
  <2> QED
    BY <2>1, <2>2, <2>5, <2>6, <1>3 DEF StartWrite, RegionAssumption
<1>4. ASSUME job.step # "idle", disk' \in File, platter' \in File,
             job' \in [step : WriteSteps, blob : Blobs, at : Sectors],
             job'.blob = job.blob, job'.at = job.at, cache' \in [loc : [Pos -> Location], gen : Nat],
             UNCHANGED <<reader, written, failures, crashes, acked>>
      PROVE  TypeInv'
  BY <1>1, <1>4 DEF ReaderOK
<1>5. ASSUME NEW from, NEW to \in WriteSteps \ {"idle"}, from # "idle", Advance(from, to)
      PROVE  /\ job.step # "idle"
             /\ job' \in [step : WriteSteps, blob : Blobs, at : Sectors]
             /\ job'.blob = job.blob /\ job'.at = job.at
             /\ UNCHANGED <<reader, written, failures, crashes>>
  BY <1>1, <1>5 DEF Advance
<1>7. CASE WriteLength
  <2>1. disk' \in File /\ platter' \in File
    BY <1>2, <1>7 DEF WriteLength, Written, Advance
  <2> QED
    BY <2>1, <1>4, <1>5, <1>7 DEF WriteLength, WriteSteps
<1>8. CASE WriteData
  <2>1. disk' \in File /\ platter' \in File
    BY <1>2, <1>8 DEF WriteData, Written, Advance
  <2>2. [at |-> job.at, count |-> job.blob.size] \in Location
    BY <1>1, <1>8 DEF WriteData, Advance, Location, RegionAssumption
  <2>3. cache' \in [loc : [Pos -> Location], gen : Nat]
    BY <2>2, <1>1, <1>8 DEF WriteData
  <2> QED
    BY <2>1, <2>3, <1>4, <1>5, <1>8 DEF WriteData, WriteSteps
<1>9. CASE WriteLocation
  <2>1. disk' \in File /\ platter' \in File
    BY <1>2, <1>9 DEF WriteLocation, Written, Advance
  <2>2. cache' \in [loc : [Pos -> Location], gen : Nat]
    BY <1>9 DEF WriteLocation, RegionAssumption
  <2> QED
    BY <2>1, <2>2, <1>4, <1>5, <1>9 DEF WriteLocation, WriteSteps
<1>10. CASE WriteGeneration
  <2>1. disk' \in File /\ platter' \in File
    BY <1>2, <1>10 DEF WriteGeneration, Written, Advance
  <2> QED
    BY <2>1, <1>4, <1>5, <1>10 DEF WriteGeneration, WriteSteps
<1>11. CASE Sync \/ FailWrite
  <2>1. Idle \in [step : WriteSteps, blob : Blobs \cup {NoBlob}, at : Sectors]
        /\ Idle.step = "idle"
    BY DEF Idle, WriteSteps, Sectors, RegionAssumption
  <2>2. acked' \in [Pos -> Blobs \cup {NoBlob, Unknown}]
    BY <1>1, <1>11 DEF Sync, FailWrite, InDoubt
  <2> QED
    BY <2>1, <2>2, <1>11 DEF Sync, FailWrite, ReaderOK, RegionAssumption
<1> QED
  BY <1>3, <1>7, <1>8, <1>9, <1>10, <1>11 DEF WriterStep

LEMMA CrashTypes ==
    ASSUME RegionAssumption, TypeInv, Crash
    PROVE  TypeInv'
<1>1. NoLocations \in [Pos -> Location]
  BY DEF NoLocations, Unset, Location, Sectors, RegionAssumption
<1>2. Closed \in ReaderState /\ Closed.step = "closed"
  BY <1>1 DEF Closed, ReaderState, ReadSteps
<1>3. Idle \in [step : WriteSteps, blob : Blobs \cup {NoBlob}, at : Sectors]
      /\ Idle.step = "idle"
  BY DEF Idle, WriteSteps, Sectors, RegionAssumption
<1>4. acked' \in [Pos -> Blobs \cup {NoBlob, Unknown}]
  BY DEF Crash, InDoubt, TypeInv, RegionTypeOK, JobOK, Blobs
<1>5. cache' \in [loc : [Pos -> Location], gen : Nat]
  BY DEF Crash, TypeInv, RegionTypeOK, File
<1> QED
  BY <1>2, <1>3, <1>4, <1>5 DEF Crash, TypeInv, RegionTypeOK, JobOK, ReaderOK, RegionAssumption

LEMMA ReaderTypes ==
    ASSUME RegionAssumption, SentinelAssumption, TypeInv, NEW r \in Readers,
           \/ OpenTables(r) \/ OpenGeneration(r)
           \/ \E p \in Pos : Probe(r, p)
           \/ RereadTables(r) \/ ReadLength(r) \/ ReadData(r)
    PROVE  TypeInv'
<1> USE DEF TypeInv, RegionTypeOK, JobOK
<1>1. ASSUME NEW new \in ReaderState, ReaderStep(r, new),
             new.step \in {"tables", "length", "data"} => new.pos \in Pos,
             new.step = "data" => new.length \in Blobs
      PROVE  TypeInv'
  BY <1>1 DEF ReaderStep, ReaderOK
<1>2. reader[r] \in ReaderState /\ disk \in File
  OBVIOUS
<1>3. CASE OpenTables(r)
  <2> DEFINE new == [Closed EXCEPT !.step = "opening", !.loc = disk.loc, !.gen = disk.gen]
  <2>1. new \in ReaderState /\ new.step = "opening"
    BY <1>2 DEF Closed, ReaderState, ReadSteps, File
  <2> QED
    BY <2>1, <1>1, <1>3 DEF OpenTables
<1>4. CASE OpenGeneration(r)
  <2> DEFINE new == [reader[r] EXCEPT !.step = "done", !.gen = disk.gen,
                                      !.torn = reader[r].gen # disk.gen]
  <2>1. new \in ReaderState /\ new.step = "done"
    BY <1>2 DEF ReaderState, ReadSteps, File
  <2> QED
    BY <2>1, <1>1, <1>4 DEF OpenGeneration
<1>5. ASSUME NEW p \in Pos, Probe(r, p)
      PROVE  TypeInv'
  <2> DEFINE probed(s, d) == [reader[r] EXCEPT
           !.step = s, !.probed = disk.gen, !.pos = p, !.length = NoBlob,
           !.result = NoBlob, !.expected = acked[p], !.disturbed = d]
  <2>1. \A s \in {"length", "tables"}, d \in BOOLEAN :
          /\ probed(s, d) \in ReaderState
          /\ probed(s, d).step = s /\ probed(s, d).pos = p
    BY <1>2 DEF ReaderState, ReadSteps, File
  <2>2. PICK s \in {"length", "tables"}, d \in BOOLEAN : ReaderStep(r, probed(s, d))
    BY <1>5 DEF Probe
  <2> QED
    BY <2>1, <2>2, <1>1
<1>6. CASE RereadTables(r)
  <2> DEFINE new == [reader[r] EXCEPT !.step = "length", !.loc = disk.loc,
                                      !.gen = reader[r].probed, !.torn = FALSE]
  <2>1. new \in ReaderState /\ new.step = "length" /\ new.pos = reader[r].pos
    BY <1>2 DEF ReaderState, ReadSteps, File
  <2> QED
    BY <2>1, <1>1, <1>6 DEF RereadTables, ReaderOK
<1>7. \A v \in Blobs \cup {NoBlob, Torn} : Done(r, v) \in ReaderState /\ Done(r, v).step = "done"
  BY <1>2 DEF Done, ReaderState, ReadSteps
<1>8. CASE ReadLength(r)
  <2> DEFINE l   == reader[r].loc[reader[r].pos]
             new == [reader[r] EXCEPT !.step = "data", !.length = disk.length[l.at]]
  <2>1. reader[r].pos \in Pos /\ l \in Location
    BY <1>2, <1>8 DEF ReadLength, ReaderOK, ReaderState
  <2>2. disk.length[l.at] \in Blobs \cup {NoBlob}
    BY <2>1, <1>2 DEF File, Location
  <2>3. new \in ReaderState /\ new.step = "data" /\ new.pos = reader[r].pos
        /\ new.length = disk.length[l.at]
    BY <2>2, <1>2 DEF ReaderState, ReadSteps
  <2>4. LengthFits(disk, l) => disk.length[l.at] \in Blobs
    BY <2>2 DEF LengthFits
  <2>5. \/ ReaderStep(r, Done(r, NoBlob)) \/ ReaderStep(r, Done(r, Torn))
        \/ LengthFits(disk, l) /\ ReaderStep(r, new)
    BY <1>8 DEF ReadLength
  <2> QED
    BY <2>1, <2>3, <2>4, <2>5, <1>1, <1>7
<1>9. CASE ReadData(r)
  <2>1. reader[r].length \in Blobs
    BY <1>9 DEF ReadData, ReaderOK
  <2>2. Assembled(disk, reader[r].loc[reader[r].pos].at, reader[r].length) \in Blobs \cup {Torn}
    BY <2>1 DEF Assembled
  <2> QED
    BY <2>2, <1>1, <1>7, <1>9 DEF ReadData
<1> QED
  BY <1>3, <1>4, <1>5, <1>6, <1>8, <1>9

LEMMA StepTypes == ASSUME TypeInv, [Next]_vars PROVE TypeInv'
<1>1. CASE WriterStep
  BY <1>1, WriterTypes, RegionAssumption, SentinelAssumption
<1>2. CASE Crash
  BY <1>2, CrashTypes, RegionAssumption
<1>3. ASSUME NEW r \in Readers,
             \/ OpenTables(r) \/ OpenGeneration(r)
             \/ \E p \in Pos : Probe(r, p)
             \/ RereadTables(r) \/ ReadLength(r) \/ ReadData(r)
      PROVE  TypeInv'
  BY <1>3, ReaderTypes, RegionAssumption, SentinelAssumption
<1>4. CASE UNCHANGED vars
  BY <1>4 DEF vars, TypeInv, RegionTypeOK, JobOK, ReaderOK
<1> QED
  BY <1>1, <1>2, <1>3, <1>4 DEF Next

\* The tables of every handle and the file stay well formed: in particular the
\* first sector and the count of a location fit their fields.
THEOREM RegionTypes == Spec => []RegionTypeOK
<1>1. Init => TypeInv
  BY InitTypes, RegionAssumption
<1>2. TypeInv /\ [Next]_vars => TypeInv'
  BY StepTypes
<1>3. TypeInv => RegionTypeOK
  BY DEF TypeInv
<1> QED
  BY <1>1, <1>2, <1>3, PTL DEF Spec

-----------------------------------------------------------------------------
(* The extents of two positions stay apart.                                *)

\* The locations under which some handle may look for the chunk of p.
Claims(p) == {disk.loc[p], cache.loc[p]} \cup {reader[r].loc[p] : r \in Readers}

JobExtent == [at |-> job.at, count |-> job.blob.size]

\* ExtentsDisjoint alone is not inductive.  The tables of the readers may be
\* old, the writer's cache may be ahead of the file after a failed save, the
\* end of the file must lie behind everything that was ever handed out, and
\* the sectors being written belong to nobody else.
Landed ==
    \A p \in Pos : \A l \in Claims(p) :
        l.at # 0 => /\ l.count > 0
                    /\ l.at + l.count <= disk.eof /\ l.at + l.count - 1 <= LastSector

ClaimsApart ==
    \A p, q \in Pos : p # q =>
        \A l \in Claims(p), k \in Claims(q) : Apart(l, k)

JobApart ==
    job.step # "idle" =>
        \A q \in Pos : q # job.blob.pos => \A k \in Claims(q) : Apart(JobExtent, k)

JobCached ==
    job.step \in {"location", "generation", "sync"} =>
        job.at # 0 /\ cache.loc[job.blob.pos] = JobExtent

JobPlaced == job.step # "idle" => job.at # 0

PlatterIsDisk == PowerLoss \/ platter = disk

ExtentInv ==
    PlatterIsDisk /\ Landed /\ ClaimsApart /\ JobApart /\ JobCached /\ JobPlaced

LEMMA JobFacts ==
    ASSUME RegionAssumption, TypeInv, job.step # "idle"
    PROVE  /\ job.blob \in Blobs /\ job.blob.pos \in Pos
           /\ job.blob.size \in Nat /\ job.blob.size > 0
           /\ job.at \in Sectors /\ job.at \in Nat
           /\ job.at + job.blob.size - 1 <= LastSector
<1>1. /\ job.blob \in Blobs /\ job.at \in Sectors
      /\ job.at + job.blob.size - 1 <= LastSector
  BY DEF TypeInv, RegionTypeOK, JobOK
<1>2. job.at \in Nat
  BY <1>1 DEF Sectors, RegionAssumption
<1>3. job.blob.pos \in Pos /\ job.blob.size \in Sizes
  BY <1>1 DEF Blobs
<1>4. \A size \in Sizes : size \in Nat /\ size > 0
  BY DEF RegionAssumption
<1> QED
  BY <1>1, <1>2, <1>3, <1>4

LEMMA ClaimTypes ==
    ASSUME RegionAssumption, TypeInv, NEW p \in Pos, NEW l \in Claims(p)
    PROVE  l \in Location /\ l.at \in Nat /\ l.count \in Nat
<1>1. l \in Location
  BY DEF Claims, TypeInv, RegionTypeOK, File, ReaderState
<1> QED
  BY <1>1 DEF Location, Sectors, RegionAssumption

\* A step that hands out no new location keeps the extents apart.
LEMMA ClaimsShrink ==
    ASSUME RegionAssumption, TypeInv, TypeInv', ExtentInv,
           \A p \in Pos : Claims(p)' \subseteq Claims(p) \cup {Unset},
           disk'.eof >= disk.eof, PlatterIsDisk',
           \/ job'.step = "idle"
           \/ /\ job.step # "idle" /\ job'.at = job.at /\ job'.blob = job.blob
              /\ JobCached'
    PROVE  ExtentInv'
<1>1. disk.eof \in Nat /\ disk'.eof \in Nat
  BY DEF TypeInv, RegionTypeOK, File
<1>2. Landed'
  <2> SUFFICES ASSUME NEW p \in Pos, NEW l \in Claims(p)', l.at # 0
               PROVE  /\ l.count > 0 /\ l.at + l.count <= disk'.eof
                      /\ l.at + l.count - 1 <= LastSector
    BY DEF Landed
  <2>1. l \in Claims(p) /\ l.at \in Nat /\ l.count \in Nat
    BY ClaimTypes DEF Unset
  <2> QED
    BY <1>1, <2>1 DEF ExtentInv, Landed
<1>3. ClaimsApart'
  BY DEF ExtentInv, ClaimsApart, Apart, Unset
<1>4. JobApart' /\ JobCached' /\ JobPlaced'
  BY DEF ExtentInv, JobApart, JobCached, JobPlaced, JobExtent, Apart, Unset
<1> QED
  BY <1>2, <1>3, <1>4 DEF ExtentInv

LEMMA InitExtents == ASSUME RegionAssumption, Init PROVE ExtentInv
<1>1. \A p \in Pos : \A l \in Claims(p) : l = Unset
  BY DEF Init, Claims, EmptyFile, NoLocations, Closed
<1>2. PlatterIsDisk /\ job.step = "idle"
  BY DEF Init, Idle, PlatterIsDisk
<1> QED
  BY <1>1, <1>2
     DEF ExtentInv, Landed, ClaimsApart, JobApart, JobCached, JobPlaced, Unset, Apart

\* A chunk is put where its position already has room, or behind everything.
LEMMA StartExtents ==
    ASSUME RegionAssumption, TypeInv, TypeInv', ExtentInv,
           NEW p \in Pos, NEW size \in Sizes, StartWrite(p, size)
    PROVE  ExtentInv'
<1>1. /\ UNCHANGED <<disk, platter, cache>>
      /\ job'.step = "length" /\ job'.at = FirstSector(p, size)
      /\ job'.blob.pos = p /\ job'.blob.size = size
  BY DEF StartWrite
<1>2. \A q \in Pos : Claims(q)' = Claims(q)
  <2>1. \A r \in Readers : reader'[r].loc = reader[r].loc
    BY DEF StartWrite, Disturb, TypeInv, RegionTypeOK, ReaderState
  <2> QED
    BY <1>1, <2>1 DEF Claims
<1>3. Landed' /\ ClaimsApart' /\ PlatterIsDisk'
  BY <1>1, <1>2 DEF ExtentInv, Landed, ClaimsApart, PlatterIsDisk
<1>4. size \in Nat /\ disk.eof \in Nat /\ HeaderSectors \in Nat /\ HeaderSectors > 0
  BY DEF RegionAssumption, TypeInv, RegionTypeOK, File
<1>5. CASE cache.loc[p].at = 0 \/ size > cache.loc[p].count
  <2>1. job'.at \in Nat /\ job'.at > 0 /\ job'.at >= disk.eof
    BY <1>1, <1>4, <1>5 DEF FirstSector, Larger
  <2>2. ASSUME NEW q \in Pos, NEW k \in Claims(q) PROVE Apart(JobExtent, k)'
    <3>1. k.at \in Nat /\ k.count \in Nat /\ (k.at # 0 => k.at + k.count <= disk.eof)
      BY ClaimTypes DEF ExtentInv, Landed
    <3> QED
      BY <2>1, <3>1, <1>4 DEF Apart, JobExtent
  <2> QED
    BY <1>1, <1>2, <1>3, <2>1, <2>2 DEF ExtentInv, JobApart, JobCached, JobPlaced
<1>6. CASE cache.loc[p].at # 0 /\ size <= cache.loc[p].count
  <2> DEFINE l == cache.loc[p]
  <2>1. l \in Claims(p) /\ job'.at = l.at
    BY <1>1, <1>4, <1>6, ClaimTypes DEF FirstSector, Claims
  <2>2. l.at \in Nat /\ l.count \in Nat
    BY <2>1, ClaimTypes
  <2>3. ASSUME NEW q \in Pos, q # p, NEW k \in Claims(q) PROVE Apart(JobExtent, k)'
    <3>1. k.at \in Nat /\ k.count \in Nat
      BY ClaimTypes
    <3>2. Apart(l, k)
      BY <2>1, <2>3 DEF ExtentInv, ClaimsApart
    <3> QED
      BY <1>1, <1>4, <1>6, <2>1, <2>2, <3>1, <3>2 DEF Apart, JobExtent
  <2> QED
    BY <1>1, <1>2, <1>3, <1>6, <2>1, <2>3 DEF ExtentInv, JobApart, JobCached, JobPlaced
<1> QED
  BY <1>4, <1>5, <1>6, ClaimTypes DEF Claims

\* The data calls: the sectors written become the cached location.
LEMMA DataExtents ==
    ASSUME RegionAssumption, TypeInv, TypeInv', ExtentInv, WriteData
    PROVE  ExtentInv'
<1> DEFINE p == job.blob.pos
<1>1. /\ job.step = "data" /\ job'.at = job.at /\ job'.blob = job.blob
      /\ job'.step = "location" /\ reader' = reader
      /\ disk' = PutData(disk) /\ (PowerLoss \/ platter' = PutData(platter))
      /\ cache' = [cache EXCEPT !.loc[p] = JobExtent]
  BY DEF WriteData, Advance, Written, TypeInv, RegionTypeOK, JobExtent
<1>2. /\ p \in Pos /\ job.at \in Nat /\ job.at # 0
      /\ job.blob.size \in Nat /\ job.blob.size > 0
      /\ job.at + job.blob.size - 1 <= LastSector
  BY <1>1, JobFacts DEF ExtentInv, JobPlaced
<1>3. /\ disk.eof \in Nat /\ disk'.eof \in Nat /\ disk'.eof >= disk.eof
      /\ disk'.eof >= job.at + job.blob.size
      /\ disk'.loc = disk.loc
  <2>1. disk \in File /\ disk'.eof = Larger(disk.eof, job.at + job.blob.size)
        /\ disk'.loc = disk.loc
    BY <1>1 DEF PutData, TypeInv, RegionTypeOK, File
  <2>2. disk.eof \in Nat /\ job.at + job.blob.size \in Nat
    BY <1>2, <2>1 DEF File
  <2> QED
    BY <2>1, <2>2 DEF Larger
<1>4. /\ cache'.loc[p] = JobExtent
      /\ \A q \in Pos : q # p => cache'.loc[q] = cache.loc[q]
  BY <1>1, <1>2 DEF TypeInv, RegionTypeOK
<1>5. \A q \in Pos : Claims(q)' \subseteq Claims(q) \cup IF q = p THEN {JobExtent} ELSE {}
  BY <1>1, <1>3, <1>4 DEF Claims
<1>6. JobExtent.at = job.at /\ JobExtent.count = job.blob.size
  BY DEF JobExtent
<1>7. Landed'
  <2> SUFFICES ASSUME NEW q \in Pos, NEW l \in Claims(q)', l.at # 0
               PROVE  /\ l.count > 0 /\ l.at + l.count <= disk'.eof
                      /\ l.at + l.count - 1 <= LastSector
    BY DEF Landed
  <2>1. CASE l \in Claims(q)
    <3>1. /\ l.count > 0 /\ l.at + l.count <= disk.eof /\ l.at + l.count - 1 <= LastSector
          /\ l.at \in Nat /\ l.count \in Nat
      BY <2>1, ClaimTypes DEF ExtentInv, Landed
    <3> QED
      BY <3>1, <1>3
  <2>2. CASE l = JobExtent
    BY <2>2, <1>2, <1>3, <1>6
  <2>3. l \in Claims(q) \/ l = JobExtent
    BY <1>5
  <2> QED
    BY <2>1, <2>2, <2>3
<1>8. \A q \in Pos : q # p => \A k \in Claims(q) : Apart(JobExtent, k) /\ Apart(k, JobExtent)
  BY <1>1 DEF ExtentInv, JobApart, Apart
<1>9. ClaimsApart'
  <2> SUFFICES ASSUME NEW q \in Pos, NEW r \in Pos, q # r,
                      NEW l \in Claims(q)', NEW k \in Claims(r)'
               PROVE  Apart(l, k)
    BY DEF ClaimsApart
  <2>1. CASE l \in Claims(q) /\ k \in Claims(r)
    BY <2>1 DEF ExtentInv, ClaimsApart
  <2>2. CASE q = p /\ l = JobExtent
    <3>1. k \in Claims(r)
      BY <2>2, <1>5
    <3> QED
      BY <2>2, <3>1, <1>8
  <2>3. CASE r = p /\ k = JobExtent
    <3>1. l \in Claims(q)
      BY <2>3, <1>5
    <3> QED
      BY <2>3, <3>1, <1>8
  <2> QED
    BY <2>1, <2>2, <2>3, <1>5
<1>10. JobExtent' = JobExtent
  BY <1>1 DEF JobExtent
<1>11. JobApart' /\ JobCached' /\ JobPlaced'
  <2>1. \A q \in Pos : q # p => Claims(q)' \subseteq Claims(q)
    BY <1>5
  <2> QED
    BY <1>1, <1>2, <1>4, <2>1, <1>8, <1>10 DEF JobApart, JobCached, JobPlaced
<1>12. PlatterIsDisk'
  BY <1>1 DEF ExtentInv, PlatterIsDisk
<1> QED
  BY <1>7, <1>9, <1>11, <1>12 DEF ExtentInv

\* The other calls of write_chunk, and its end.
LEMMA WriterExtents ==
    ASSUME RegionAssumption, Crash => ~PowerLoss, TypeInv, TypeInv', ExtentInv,
           WriteLength \/ WriteLocation \/ WriteGeneration \/ Sync \/ FailWrite \/ Crash
    PROVE  ExtentInv'
<1> DEFINE p == job.blob.pos
<1>1. PowerLoss \/ platter = disk
  BY DEF ExtentInv, PlatterIsDisk
<1>2. CASE WriteLength
  <2>1. /\ job.step = "length" /\ job'.at = job.at /\ job'.blob = job.blob
        /\ job'.step = "data" /\ reader' = reader /\ cache' = cache
        /\ disk' = PutLength(disk) /\ PlatterIsDisk'
    BY <1>1, <1>2 DEF WriteLength, Advance, Written, TypeInv, RegionTypeOK, PlatterIsDisk
  <2>2. disk'.loc = disk.loc /\ disk'.eof >= disk.eof
    <3>1. /\ disk'.loc = disk.loc /\ disk'.eof = Larger(disk.eof, job.at + 1)
          /\ disk.eof \in Nat
      BY <2>1 DEF PutLength, TypeInv, RegionTypeOK, File
    <3>2. job.at + 1 \in Nat
      BY DEF TypeInv, RegionTypeOK, Sectors, RegionAssumption
    <3> QED
      BY <3>1, <3>2 DEF Larger
  <2>3. \A q \in Pos : Claims(q)' \subseteq Claims(q) \cup {Unset}
    BY <2>1, <2>2 DEF Claims
  <2> QED
    BY <2>1, <2>2, <2>3, ClaimsShrink DEF JobCached
<1>3. CASE WriteLocation
  <2>1. /\ job.step = "location" /\ job'.at = job.at /\ job'.blob = job.blob
        /\ job'.step = "generation" /\ reader' = reader /\ cache'.loc = cache.loc
        /\ disk' = PutLocation(disk) /\ PlatterIsDisk'
    BY <1>1, <1>3 DEF WriteLocation, Advance, Written, TypeInv, RegionTypeOK, PlatterIsDisk
  <2>2. /\ cache.loc[p] = JobExtent /\ JobExtent' = JobExtent /\ job.at # 0
    BY <2>1 DEF ExtentInv, JobCached, JobExtent
  <2>3. /\ disk'.eof = disk.eof /\ disk'.loc = [disk.loc EXCEPT ![p] = JobExtent]
    BY <2>1 DEF PutLocation, JobExtent, TypeInv, RegionTypeOK, File
  <2>4. \A q \in Pos : disk'.loc[q] = IF q = p THEN cache.loc[q] ELSE disk.loc[q]
    BY <2>2, <2>3 DEF TypeInv, RegionTypeOK, File
  <2>5. \A q \in Pos : Claims(q)' \subseteq Claims(q) \cup {Unset}
    BY <2>1, <2>4 DEF Claims
  <2>6. JobCached'
    BY <2>1, <2>2 DEF JobCached
  <2>7. disk'.eof >= disk.eof
    BY <2>3 DEF TypeInv, RegionTypeOK, File
  <2> QED
    BY <2>1, <2>5, <2>6, <2>7, ClaimsShrink
<1>4. CASE WriteGeneration
  <2>1. /\ job.step = "generation" /\ job'.at = job.at /\ job'.blob = job.blob
        /\ job'.step = "sync" /\ reader' = reader /\ cache' = cache
        /\ disk' = PutGeneration(disk) /\ PlatterIsDisk'
    BY <1>1, <1>4 DEF WriteGeneration, Advance, Written, TypeInv, RegionTypeOK, PlatterIsDisk
  <2>2. disk'.eof >= disk.eof /\ disk'.loc = disk.loc
    BY <2>1 DEF PutGeneration, TypeInv, RegionTypeOK, File
  <2>3. \A q \in Pos : Claims(q)' \subseteq Claims(q) \cup {Unset}
    BY <2>1, <2>2 DEF Claims
  <2>4. JobCached'
    BY <2>1 DEF ExtentInv, JobCached, JobExtent
  <2> QED
    BY <2>1, <2>2, <2>3, <2>4, ClaimsShrink
<1>5. CASE Sync \/ FailWrite
  <2>1. job'.step = "idle" /\ disk' = disk /\ PlatterIsDisk' /\ UNCHANGED <<cache, reader>>
    BY <1>1, <1>5 DEF Sync, FailWrite, Idle, PlatterIsDisk
  <2>2. \A q \in Pos : Claims(q)' \subseteq Claims(q) \cup {Unset}
    BY <2>1 DEF Claims
  <2>3. disk'.eof >= disk.eof
    BY <2>1 DEF TypeInv, RegionTypeOK, File
  <2> QED
    BY <2>1, <2>2, <2>3, ClaimsShrink
<1>6. CASE Crash
  <2>1. job'.step = "idle" /\ disk' = disk /\ PlatterIsDisk' /\ cache'.loc = disk.loc
        /\ \A r \in Readers : reader'[r].loc = NoLocations
    BY <1>1, <1>6 DEF Crash, Idle, Closed, PlatterIsDisk
  <2>2. \A q \in Pos : Claims(q)' \subseteq Claims(q) \cup {Unset}
    BY <2>1 DEF Claims, NoLocations
  <2>3. disk'.eof >= disk.eof
    BY <2>1 DEF TypeInv, RegionTypeOK, File
  <2> QED
    BY <2>1, <2>2, <2>3, ClaimsShrink
<1> QED
  BY <1>2, <1>3, <1>4, <1>5, <1>6

\* Readers only copy the tables of the file.
LEMMA ReaderExtents ==
    ASSUME RegionAssumption, TypeInv, TypeInv', ExtentInv, NEW r \in Readers,
           \/ OpenTables(r) \/ OpenGeneration(r)
           \/ \E p \in Pos : Probe(r, p)
           \/ RereadTables(r) \/ ReadLength(r) \/ ReadData(r)
    PROVE  ExtentInv'
<1>0. reader \in [Readers -> ReaderState]
  BY DEF TypeInv, RegionTypeOK
<1>a. ASSUME NEW new, ReaderStep(r, new), new.loc = reader[r].loc \/ new.loc = disk.loc
      PROVE  \A q \in Readers : reader'[q].loc = reader[q].loc \/ reader'[q].loc = disk.loc
  BY <1>0, <1>a DEF ReaderStep
<1>1. UNCHANGED <<disk, platter, cache, job>>
  BY DEF ReaderStep, OpenTables, OpenGeneration, Probe, RereadTables, ReadLength, ReadData
<1>2. \A q \in Readers : reader'[q].loc = reader[q].loc \/ reader'[q].loc = disk.loc
  <2> DEFINE old == reader[r]
  <2>0. old \in ReaderState
    BY <1>0
  <2>1. CASE OpenTables(r)
    BY <2>1, <1>a DEF OpenTables, Closed
  <2>2. CASE OpenGeneration(r)
    BY <2>2, <2>0, <1>a DEF OpenGeneration, ReaderState
  <2>3. ASSUME NEW p \in Pos, Probe(r, p)
        PROVE  \A q \in Readers : reader'[q].loc = reader[q].loc \/ reader'[q].loc = disk.loc
    BY <2>3, <2>0, <1>a DEF Probe, ReaderState
  <2>4. CASE RereadTables(r)
    BY <2>4, <2>0, <1>a DEF RereadTables, ReaderState
  <2>5. CASE ReadLength(r)
    BY <2>5, <2>0, <1>a DEF ReadLength, Done, ReaderState
  <2>6. CASE ReadData(r)
    BY <2>6, <2>0, <1>a DEF ReadData, Done, ReaderState
  <2> QED
    BY <2>1, <2>2, <2>3, <2>4, <2>5, <2>6
<1>3. \A p \in Pos : Claims(p)' \subseteq Claims(p)
  BY <1>1, <1>2 DEF Claims
<1>4. disk'.eof >= disk.eof /\ PlatterIsDisk'
  BY <1>1 DEF ExtentInv, TypeInv, RegionTypeOK, File, PlatterIsDisk
<1>5. JobCached'
  BY <1>1 DEF ExtentInv, JobCached, JobExtent
<1> QED
  BY <1>1, <1>3, <1>4, <1>5, ClaimsShrink

LEMMA StepExtents ==
    ASSUME Crash => ~PowerLoss, TypeInv, TypeInv', ExtentInv, [Next]_vars
    PROVE  ExtentInv'
<1>1. CASE WriterStep \/ Crash
  BY <1>1, StartExtents, DataExtents, WriterExtents, RegionAssumption DEF WriterStep
<1>2. ASSUME NEW r \in Readers,
             \/ OpenTables(r) \/ OpenGeneration(r)
             \/ \E p \in Pos : Probe(r, p)
             \/ RereadTables(r) \/ ReadLength(r) \/ ReadData(r)
      PROVE  ExtentInv'
  BY <1>2, ReaderExtents, RegionAssumption
<1>3. CASE UNCHANGED vars
  BY <1>3 DEF vars, ExtentInv, PlatterIsDisk, Landed, ClaimsApart, JobApart, JobCached,
              JobPlaced, Claims, JobExtent
<1> QED
  BY <1>1, <1>2, <1>3 DEF Next

\* The append allocator, reuse in place, failed saves and crashes that lose no
\* written byte never let two positions share a sector, whatever the sizes and
\* the interleaving with readers: a chunk record does not name its position, so
\* nothing else would notice.
THEOREM ExtentsApart == ASSUME ~PowerLoss PROVE Spec => []ExtentsDisjoint
<1>1. Init => TypeInv /\ ExtentInv
  BY InitTypes, InitExtents, RegionAssumption
<1>2. (TypeInv /\ ExtentInv) /\ [Next]_vars => (TypeInv /\ ExtentInv)'
  BY StepTypes, StepExtents
<1>3. ExtentInv => ExtentsDisjoint
  BY DEF ExtentInv, ClaimsApart, Claims, ExtentsDisjoint
<1> QED
  BY <1>1, <1>2, <1>3, PTL DEF Spec

-----------------------------------------------------------------------------
(* A reader returns the chunk of the position it was asked for.            *)

\* What the first sector of a claim holds was saved for its position.
LengthOwned ==
    \A p \in Pos : \A l \in Claims(p) :
        l.at # 0 /\ disk.length[l.at] # NoBlob => disk.length[l.at].pos = p

JobWritten ==
    job.step \in {"data", "location", "generation", "sync"} =>
        disk.length[job.at] = job.blob

Carried ==
    \A r \in Readers :
        reader[r].step = "data" => reader[r].length.pos = reader[r].pos

OwnInv == LengthOwned /\ JobWritten /\ Carried /\ ReadsOwnData

LEMMA InitOwn == ASSUME RegionAssumption, SentinelAssumption, Init PROVE OwnInv
<1>1. \A p \in Pos : \A l \in Claims(p) : l.at = 0
  BY DEF Init, Claims, EmptyFile, NoLocations, Closed, Unset
<1>2. job.step = "idle" /\ \A r \in Readers : reader[r] = Closed
  BY DEF Init, Idle
<1> QED
  BY <1>1, <1>2 DEF OwnInv, LengthOwned, JobWritten, Carried, ReadsOwnData, Closed, SentinelAssumption

\* The sectors being written are outside the claims of the other positions.
LEMMA JobElsewhere ==
    ASSUME RegionAssumption, TypeInv, ExtentInv, job.step # "idle",
           NEW q \in Pos, q # job.blob.pos, NEW l \in Claims(q), l.at # 0
    PROVE  /\ l.at # job.at
           /\ \A s \in l.at .. l.at + l.count - 1 :
                ~(job.at <= s /\ s < job.at + job.blob.size)
<1>1. l.at \in Nat /\ l.count \in Nat /\ l.count > 0
  BY ClaimTypes DEF ExtentInv, Landed
<1>2. job.at \in Nat /\ job.at # 0 /\ job.blob.size \in Nat /\ job.blob.size > 0
  BY JobFacts DEF ExtentInv, JobPlaced
<1>3. Apart(JobExtent, l)
  BY DEF ExtentInv, JobApart
<1> QED
  BY <1>1, <1>2, <1>3 DEF Apart, JobExtent

LEMMA WriterOwn ==
    ASSUME RegionAssumption, SentinelAssumption, Crash => ~PowerLoss,
           TypeInv, ExtentInv, OwnInv, WriterStep \/ Crash
    PROVE  OwnInv'
<1> DEFINE p == job.blob.pos
<1>0. reader \in [Readers -> ReaderState] /\ (Crash => platter = disk)
  BY DEF TypeInv, RegionTypeOK, ExtentInv, PlatterIsDisk
<1>1. ASSUME disk'.length = disk.length, UNCHANGED reader,
             \A q \in Pos : Claims(q)' \subseteq Claims(q),
             \/ job'.step = "idle"
             \/ /\ job.step \in {"data", "location", "generation", "sync"}
                /\ job'.at = job.at /\ job'.blob = job.blob
      PROVE  OwnInv'
  <2>1. LengthOwned'
    BY <1>1 DEF OwnInv, LengthOwned
  <2>2. JobWritten'
    BY <1>1 DEF OwnInv, JobWritten
  <2>3. Carried' /\ ReadsOwnData'
    BY <1>1 DEF OwnInv, Carried, ReadsOwnData
  <2> QED
    BY <2>1, <2>2, <2>3 DEF OwnInv
<1>2. ASSUME NEW q \in Pos, NEW size \in Sizes, StartWrite(q, size)
      PROVE  OwnInv'
  <2>1. \A r \in Readers : /\ reader'[r].loc = reader[r].loc
                            /\ reader'[r].step = reader[r].step
                            /\ reader'[r].pos = reader[r].pos
                            /\ reader'[r].length = reader[r].length
                            /\ reader'[r].result = reader[r].result
    BY <1>0, <1>2 DEF StartWrite, Disturb, ReaderState
  <2>2. job'.step = "length" /\ UNCHANGED <<disk, cache>>
    BY <1>2 DEF StartWrite
  <2>3. \A x \in Pos : Claims(x)' = Claims(x)
    BY <2>1, <2>2 DEF Claims
  <2> QED
    BY <2>1, <2>2, <2>3 DEF OwnInv, LengthOwned, JobWritten, Carried, ReadsOwnData
<1>3. CASE WriteLength
  <2>1. /\ job.step = "length" /\ job'.at = job.at /\ job'.blob = job.blob
        /\ UNCHANGED <<reader, cache>> /\ disk' = PutLength(disk)
        /\ job.at \in Sectors /\ job.blob \in Blobs
    BY <1>3 DEF WriteLength, Advance, Written, TypeInv, RegionTypeOK, JobOK
  <2>2. /\ disk'.loc = disk.loc
        /\ disk'.length = [disk.length EXCEPT ![job.at] = job.blob]
        /\ disk.length \in [Sectors -> Blobs \cup {NoBlob}]
    BY <2>1 DEF PutLength, TypeInv, RegionTypeOK, File
  <2>3. \A q \in Pos : Claims(q)' = Claims(q)
    BY <2>1, <2>2 DEF Claims
  <2>4. ASSUME NEW q \in Pos, NEW l \in Claims(q), l.at # 0, disk'.length[l.at] # NoBlob
        PROVE  disk'.length[l.at].pos = q
    <3>1. CASE l.at = job.at
      BY <3>1, <2>1, <2>2, <2>4, JobElsewhere DEF WriteSteps
    <3>2. CASE l.at # job.at
      <4>1. l.at \in Sectors
        BY <2>4, ClaimTypes DEF Location
      <4>2. disk'.length[l.at] = disk.length[l.at]
        BY <4>1, <3>2, <2>2
      <4> QED
        BY <4>2, <2>4 DEF OwnInv, LengthOwned
    <3> QED
      BY <3>1, <3>2
  <2>5. disk'.length[job'.at] = job'.blob
    BY <2>1, <2>2
  <2> QED
    BY <2>1, <2>3, <2>4, <2>5 DEF OwnInv, LengthOwned, JobWritten, Carried, ReadsOwnData
<1>4. CASE WriteData
  <2>1. /\ job.step = "data" /\ job'.at = job.at /\ job'.blob = job.blob
        /\ UNCHANGED reader /\ disk' = PutData(disk)
        /\ cache' = [cache EXCEPT !.loc[p] = JobExtent]
    BY <1>4 DEF WriteData, Advance, Written, JobExtent
  <2>2. disk'.loc = disk.loc /\ disk'.length = disk.length
    BY <2>1 DEF PutData, TypeInv, RegionTypeOK, File
  <2>3. \A q \in Pos : cache'.loc[q] = IF q = p THEN JobExtent ELSE cache.loc[q]
    BY <2>1 DEF TypeInv, RegionTypeOK
  <2>4. \A q \in Pos : Claims(q)' \subseteq Claims(q) \cup IF q = p THEN {JobExtent} ELSE {}
    BY <2>1, <2>2, <2>3 DEF Claims
  <2>5. disk.length[job.at] = job.blob /\ JobExtent.at = job.at
    BY <2>1 DEF OwnInv, JobWritten, JobExtent
  <2> QED
    BY <2>1, <2>2, <2>4, <2>5 DEF OwnInv, LengthOwned, JobWritten, Carried, ReadsOwnData
<1>5. CASE WriteLocation
  <2>1. /\ job.step = "location" /\ job'.at = job.at /\ job'.blob = job.blob
        /\ UNCHANGED reader /\ cache'.loc = cache.loc /\ disk' = PutLocation(disk)
    BY <1>5 DEF WriteLocation, Advance, Written, TypeInv, RegionTypeOK
  <2>2. /\ disk'.length = disk.length
        /\ \A q \in Pos : disk'.loc[q] = IF q = p THEN JobExtent ELSE disk.loc[q]
    BY <2>1 DEF PutLocation, JobExtent, TypeInv, RegionTypeOK, File
  <2>3. cache.loc[p] = JobExtent
    BY <2>1 DEF ExtentInv, JobCached
  <2>4. \A q \in Pos : Claims(q)' \subseteq Claims(q)
    BY <2>1, <2>2, <2>3 DEF Claims
  <2> QED
    BY <2>1, <2>2, <2>4, <1>1
<1>6. CASE WriteGeneration
  <2>1. /\ job.step = "generation" /\ job'.at = job.at /\ job'.blob = job.blob
        /\ UNCHANGED <<reader, cache>> /\ disk' = PutGeneration(disk)
    BY <1>6 DEF WriteGeneration, Advance, Written
  <2>2. disk'.length = disk.length /\ disk'.loc = disk.loc
    BY <2>1 DEF PutGeneration, TypeInv, RegionTypeOK, File
  <2>3. \A q \in Pos : Claims(q)' \subseteq Claims(q)
    BY <2>1, <2>2 DEF Claims
  <2> QED
    BY <2>1, <2>2, <2>3, <1>1
<1>7. CASE Sync \/ FailWrite
  <2>1. job'.step = "idle" /\ UNCHANGED <<disk, cache, reader>>
    BY <1>7 DEF Sync, FailWrite, Idle
  <2>2. \A q \in Pos : Claims(q)' \subseteq Claims(q)
    BY <2>1 DEF Claims
  <2> QED
    BY <2>1, <2>2, <1>1
<1>8. CASE Crash
  <2>1. job'.step = "idle" /\ disk' = disk /\ cache'.loc = disk.loc
        /\ \A r \in Readers : reader'[r] = Closed
    BY <1>0, <1>8 DEF Crash, Idle
  <2>2. \A q \in Pos : Claims(q)' \subseteq Claims(q) \cup {Unset}
    BY <2>1 DEF Claims, Closed, NoLocations
  <2> QED
    BY <2>1, <2>2 DEF OwnInv, LengthOwned, JobWritten, Carried, ReadsOwnData, Unset,
                      Closed, SentinelAssumption
<1> QED
  BY <1>2, <1>3, <1>4, <1>5, <1>6, <1>7, <1>8 DEF WriterStep

LEMMA ReaderOwn ==
    ASSUME RegionAssumption, SentinelAssumption, TypeInv, ExtentInv, OwnInv,
           NEW r \in Readers,
           \/ OpenTables(r) \/ OpenGeneration(r)
           \/ \E p \in Pos : Probe(r, p)
           \/ RereadTables(r) \/ ReadLength(r) \/ ReadData(r)
    PROVE  OwnInv'
<1> DEFINE old == reader[r]
<1>0. reader \in [Readers -> ReaderState] /\ old \in ReaderState
  BY DEF TypeInv, RegionTypeOK
<1>1. ASSUME NEW new, ReaderStep(r, new), new.loc = old.loc \/ new.loc = disk.loc,
             new.step = "data" => new.length.pos = new.pos,
             new.result \in Blobs => new.result.pos = new.pos
      PROVE  OwnInv'
  <2>1. UNCHANGED <<disk, cache, job>> /\ reader' = [reader EXCEPT ![r] = new]
    BY <1>1 DEF ReaderStep
  <2>2. \A q \in Readers : reader'[q] = IF q = r THEN new ELSE reader[q]
    BY <2>1, <1>0
  <2>3. \A p \in Pos : Claims(p)' \subseteq Claims(p)
    BY <1>1, <2>1, <2>2 DEF Claims
  <2>4. LengthOwned' /\ JobWritten'
    BY <2>1, <2>3 DEF OwnInv, LengthOwned, JobWritten
  <2>5. Carried' /\ ReadsOwnData'
    BY <1>1, <2>2 DEF OwnInv, Carried, ReadsOwnData
  <2> QED
    BY <2>4, <2>5 DEF OwnInv
<1>2. old.result \in Blobs => old.result.pos = old.pos
  BY DEF OwnInv, ReadsOwnData
<1>3. NoBlob \notin Blobs /\ Torn \notin Blobs
  BY DEF SentinelAssumption
<1>4. CASE OpenTables(r)
  BY <1>4, <1>1, <1>3 DEF OpenTables, Closed
<1>5. CASE OpenGeneration(r)
  BY <1>5, <1>0, <1>1, <1>2 DEF OpenGeneration, ReaderState
<1>6. ASSUME NEW p \in Pos, Probe(r, p) PROVE OwnInv'
  <2> DEFINE probed(s, d) == [reader[r] EXCEPT
           !.step = s, !.probed = disk.gen, !.pos = p, !.length = NoBlob,
           !.result = NoBlob, !.expected = acked[p], !.disturbed = d]
  <2>1. PICK s \in {"length", "tables"}, d \in BOOLEAN : ReaderStep(r, probed(s, d))
    BY <1>6 DEF Probe
  <2>2. probed(s, d).step = s /\ probed(s, d).loc = old.loc /\ probed(s, d).result = NoBlob
    BY <1>0 DEF ReaderState
  <2> QED
    BY <2>1, <2>2, <1>1, <1>3
<1>7. CASE RereadTables(r)
  BY <1>7, <1>0, <1>1, <1>2 DEF RereadTables, ReaderState
<1>8. CASE ReadLength(r)
  <2> DEFINE l == old.loc[old.pos]
  <2>1. old.pos \in Pos /\ l \in Claims(old.pos)
    BY <1>8 DEF ReadLength, TypeInv, ReaderOK, Claims
  <2>2. LengthFits(disk, l) /\ l.at # 0 => disk.length[l.at].pos = old.pos
    BY <2>1 DEF LengthFits, OwnInv, LengthOwned
  <2>3. \A v : Done(r, v).step = "done" /\ Done(r, v).result = v /\ Done(r, v).loc = old.loc
               /\ Done(r, v).pos = old.pos
    BY <1>0 DEF Done, ReaderState
  <2>4. CASE ReaderStep(r, Done(r, NoBlob)) \/ ReaderStep(r, Done(r, Torn))
    BY <2>3, <2>4, <1>1, <1>3
  <2>5. CASE /\ l.at # 0 /\ LengthFits(disk, l)
             /\ ReaderStep(r, [old EXCEPT !.step = "data", !.length = disk.length[l.at]])
    <3> DEFINE new == [old EXCEPT !.step = "data", !.length = disk.length[l.at]]
    <3>1. /\ new.loc = old.loc /\ new.length = disk.length[l.at] /\ new.pos = old.pos
          /\ new.result = old.result
      BY <1>0 DEF ReaderState
    <3> QED
      BY <3>1, <2>2, <2>5, <1>1, <1>2
  <2> QED
    BY <2>4, <2>5, <1>8 DEF ReadLength
<1>9. CASE ReadData(r)
  <2> DEFINE v == Assembled(disk, old.loc[old.pos].at, old.length)
  <2>1. v = old.length \/ v = Torn
    BY DEF Assembled
  <2>2. old.length.pos = old.pos
    BY <1>9 DEF ReadData, OwnInv, Carried
  <2>3. /\ Done(r, v).step = "done" /\ Done(r, v).result = v
        /\ Done(r, v).loc = old.loc /\ Done(r, v).pos = old.pos
    BY <1>0 DEF Done, ReaderState
  <2>4. ReaderStep(r, Done(r, v))
    BY <1>9 DEF ReadData
  <2> HIDE DEF v
  <2> QED
    BY <2>1, <2>2, <2>3, <2>4, <1>1, <1>3
<1> QED
  BY <1>4, <1>5, <1>6, <1>7, <1>8, <1>9

LEMMA StepOwn ==
    ASSUME Crash => ~PowerLoss, TypeInv, ExtentInv, OwnInv, [Next]_vars
    PROVE  OwnInv'
<1>1. CASE WriterStep \/ Crash
  BY <1>1, WriterOwn, RegionAssumption, SentinelAssumption
<1>2. ASSUME NEW r \in Readers,
             \/ OpenTables(r) \/ OpenGeneration(r)
             \/ \E p \in Pos : Probe(r, p)
             \/ RereadTables(r) \/ ReadLength(r) \/ ReadData(r)
      PROVE  OwnInv'
  BY <1>2, ReaderOwn, RegionAssumption, SentinelAssumption
<1>3. CASE UNCHANGED vars
  BY <1>3 DEF vars, OwnInv, LengthOwned, JobWritten, Carried, ReadsOwnData, Claims
<1> QED
  BY <1>1, <1>2, <1>3 DEF Next

\* Whatever the age of its tables and however its reads interleave with the
\* calls of write_chunk, a reader never returns the chunk of another position,
\* as long as no crash loses what was written.
THEOREM OwnDataRead == ASSUME ~PowerLoss PROVE Spec => []ReadsOwnData
<1> DEFINE Inv == TypeInv /\ ExtentInv /\ OwnInv
<1>1. Init => Inv
  BY InitTypes, InitExtents, InitOwn, RegionAssumption, SentinelAssumption
<1>2. Inv /\ [Next]_vars => Inv'
  BY StepTypes, StepExtents, StepOwn
<1>3. Inv => ReadsOwnData
  BY DEF OwnInv
<1> QED
  BY <1>1, <1>2, <1>3, PTL DEF Spec

-----------------------------------------------------------------------------
(* A finished save stays readable.                                         *)

JobData ==
    job.step \in {"location", "generation", "sync"} =>
        \A s \in job.at .. job.at + job.blob.size - 1 : disk.data[s] = job.blob

JobLocated ==
    job.step \in {"generation", "sync"} => disk.loc[job.blob.pos] = JobExtent

AckInv == JobData /\ JobLocated /\ AckedReadable

LEMMA InitAck == ASSUME Init PROVE AckInv
<1>1. job.step = "idle"
  BY DEF Init, Idle
<1>2. \A p \in Pos : Content(p) = NoBlob
  BY DEF Init, Content, EmptyFile, NoLocations, Unset
<1>3. AckedReadable
  BY <1>2 DEF AckedReadable, Init
<1> QED
  BY <1>1, <1>3 DEF AckInv, JobData, JobLocated

\* What can be read at q does not change while its location stays, nothing is
\* written to its sectors and the file only grows.
LEMMA ContentKept ==
    ASSUME RegionAssumption, TypeInv, TypeInv', ExtentInv, NEW q \in Pos,
           disk'.loc[q] = disk.loc[q], disk'.eof >= disk.eof,
           disk.loc[q].at # 0 =>
             /\ disk'.length[disk.loc[q].at] = disk.length[disk.loc[q].at]
             /\ \A s \in disk.loc[q].at .. disk.loc[q].at + disk.loc[q].count - 1 :
                  disk'.data[s] = disk.data[s]
    PROVE  Content(q)' = Content(q)
<1> DEFINE l == disk.loc[q]
           head == disk.length[l.at]
<1>1. l.at \in Nat /\ l.count \in Nat /\ (l.at # 0 => l.count > 0 /\ l.at + l.count <= disk.eof)
  BY ClaimTypes DEF ExtentInv, Landed, Claims
<1>2. disk.eof \in Nat /\ disk'.eof \in Nat
  BY DEF TypeInv, RegionTypeOK, File
<1>3. CASE l.at = 0
  BY <1>3 DEF Content
<1>4. CASE l.at # 0
  <2>1. LengthFits(disk', l) <=> LengthFits(disk, l)
    <3>1. l.at < disk.eof /\ l.at < disk'.eof /\ disk'.length[l.at] = head
      BY <1>1, <1>2, <1>4
    <3> HIDE DEF l
    <3> QED
      BY <3>1, <1>1, <1>2 DEF LengthFits
  <2>2. ASSUME LengthFits(disk, l)
        PROVE  Assembled(disk', l.at, head) = Assembled(disk, l.at, head)
    <3>1. head \in Blobs /\ head.size \in Nat /\ head.size <= l.count
      <4>1. l.at \in Sectors
        BY ClaimTypes DEF Claims, Location
      <4>2. head \in Blobs /\ head.size <= l.count
        BY <4>1, <2>2 DEF LengthFits, TypeInv, RegionTypeOK, File
      <4> QED
        BY <4>2 DEF Blobs, RegionAssumption
    <3>2. \A s \in l.at .. l.at + head.size - 1 :
            s < disk.eof /\ s < disk'.eof /\ disk'.data[s] = disk.data[s]
      BY <3>1, <1>1, <1>2, <1>4
    <3> QED
      BY <3>2 DEF Assembled
  <2>3. disk'.loc[q] = l /\ disk'.length[l.at] = head
    BY <1>4
  <2> QED
    BY <1>4, <2>1, <2>2, <2>3 DEF Content
<1> QED
  BY <1>3, <1>4

\* The write calls leave what can be read at the other positions alone.
LEMMA OthersKept ==
    ASSUME RegionAssumption, TypeInv, TypeInv', ExtentInv, job.step # "idle",
           NEW q \in Pos, q # job.blob.pos,
           disk'.loc[q] = disk.loc[q], disk'.eof >= disk.eof,
           \A s \in Sectors : s # job.at => disk'.length[s] = disk.length[s],
           \A s \in Sectors : ~(job.at <= s /\ s < job.at + job.blob.size)
                                => disk'.data[s] = disk.data[s]
    PROVE  Content(q)' = Content(q)
<1> DEFINE l == disk.loc[q]
<1>1. l \in Claims(q) /\ l.at \in Sectors /\ l.at \in Nat /\ l.count \in Nat
  BY ClaimTypes DEF Claims, Location
<1>2. ASSUME l.at # 0
      PROVE  /\ disk'.length[l.at] = disk.length[l.at]
             /\ \A s \in l.at .. l.at + l.count - 1 : disk'.data[s] = disk.data[s]
  <2>1. /\ l.at # job.at
        /\ \A s \in l.at .. l.at + l.count - 1 :
             ~(job.at <= s /\ s < job.at + job.blob.size)
    BY <1>1, <1>2, JobElsewhere
  <2>2. \A s \in l.at .. l.at + l.count - 1 : s \in Sectors
    BY <1>1, <1>2 DEF ExtentInv, Landed, Sectors, RegionAssumption
  <2> QED
    BY <1>1, <2>1, <2>2
<1> QED
  BY <1>2, ContentKept

\* A chunk whose length word and data are in place is read back.
LEMMA WholeChunk ==
    ASSUME RegionAssumption, SentinelAssumption, TypeInv, job.step # "idle",
           NEW f, f.eof \in Nat, job.at + job.blob.size <= f.eof,
           f.length[job.at] = job.blob,
           \A s \in job.at .. job.at + job.blob.size - 1 : f.data[s] = job.blob
    PROVE  LengthFits(f, JobExtent) /\ Assembled(f, job.at, job.blob) = job.blob
<1>1. JobExtent.at = job.at /\ JobExtent.count = job.blob.size
  BY DEF JobExtent
<1>2. LengthFits(f, JobExtent)
  BY <1>1, JobFacts DEF LengthFits, SentinelAssumption
<1>3. Assembled(f, job.at, job.blob) = job.blob
  BY JobFacts DEF Assembled
<1> QED
  BY <1>2, <1>3

LEMMA WriterAck ==
    ASSUME RegionAssumption, SentinelAssumption, Crash => ~PowerLoss,
           TypeInv, TypeInv', ExtentInv, OwnInv, AckInv, WriterStep \/ Crash
    PROVE  AckInv'
<1> DEFINE p == job.blob.pos
<1>0. (Crash => platter = disk) /\ disk \in File /\ disk.eof \in Nat
  BY DEF ExtentInv, PlatterIsDisk, TypeInv, RegionTypeOK, File
<1>1. ASSUME job.step # "idle", UNCHANGED acked, job'.step # "idle", job'.blob = job.blob,
             \A q \in Pos : q # p => Content(q)' = Content(q)
      PROVE  AckedReadable'
  BY <1>1 DEF AckInv, AckedReadable
<1>2. ASSUME NEW q \in Pos, NEW size \in Sizes, StartWrite(q, size)
      PROVE  AckInv'
  <2>1. /\ job.step = "idle" /\ job'.step = "length" /\ job'.blob.pos = q
        /\ UNCHANGED <<disk, acked>>
    BY <1>2 DEF StartWrite
  <2>2. \A x \in Pos : Content(x)' = Content(x)
    BY <2>1 DEF Content
  <2> QED
    BY <2>1, <2>2 DEF AckInv, JobData, JobLocated, AckedReadable
<1>3. CASE WriteLength
  <2>1. /\ job.step = "length" /\ job'.blob = job.blob
        /\ job'.step = "data" /\ UNCHANGED acked /\ disk' = PutLength(disk)
    BY <1>3 DEF WriteLength, Advance, Written, TypeInv, RegionTypeOK
  <2>2. /\ disk'.loc = disk.loc /\ disk'.data = disk.data
        /\ disk'.eof = Larger(disk.eof, job.at + 1)
        /\ \A s \in Sectors : s # job.at => disk'.length[s] = disk.length[s]
    BY <2>1, <1>0 DEF PutLength, File
  <2>3. disk'.eof >= disk.eof
    BY <2>1, <2>2, <1>0, JobFacts DEF Larger
  <2>4. AckedReadable'
    BY <2>1, <2>2, <2>3, <1>1, OthersKept
  <2> QED
    BY <2>1, <2>4 DEF AckInv, JobData, JobLocated
<1>4. CASE WriteData
  <2>1. /\ job.step = "data" /\ job'.blob = job.blob /\ job'.at = job.at
        /\ job'.step = "location" /\ UNCHANGED acked /\ disk' = PutData(disk)
    BY <1>4 DEF WriteData, Advance, Written, TypeInv, RegionTypeOK
  <2>2. /\ disk'.loc = disk.loc /\ disk'.length = disk.length
        /\ disk'.eof = Larger(disk.eof, job.at + job.blob.size)
        /\ \A s \in Sectors :
             disk'.data[s] = IF job.at <= s /\ s < job.at + job.blob.size
                             THEN job.blob ELSE disk.data[s]
    BY <2>1, <1>0 DEF PutData, File
  <2>3. disk'.eof >= disk.eof
    BY <2>1, <2>2, <1>0, JobFacts DEF Larger
  <2>4. AckedReadable'
    BY <2>1, <2>2, <2>3, <1>1, OthersKept
  <2>5. JobData'
    <3>1. \A s \in job.at .. job.at + job.blob.size - 1 :
            s \in Sectors /\ job.at <= s /\ s < job.at + job.blob.size
      BY <2>1, JobFacts DEF Sectors, RegionAssumption
    <3> QED
      BY <2>1, <2>2, <3>1 DEF JobData
  <2> QED
    BY <2>1, <2>4, <2>5 DEF AckInv, JobLocated
<1>5. CASE WriteLocation
  <2>1. /\ job.step = "location" /\ job'.blob = job.blob /\ job'.at = job.at
        /\ job'.step = "generation" /\ UNCHANGED acked /\ disk' = PutLocation(disk)
    BY <1>5 DEF WriteLocation, Advance, Written, TypeInv, RegionTypeOK
  <2>2. /\ disk'.length = disk.length /\ disk'.data = disk.data /\ disk'.eof = disk.eof
        /\ \A q \in Pos : disk'.loc[q] = IF q = p THEN JobExtent ELSE disk.loc[q]
    BY <2>1, <1>0 DEF PutLocation, File, JobExtent
  <2>3. AckedReadable'
    BY <2>1, <2>2, <1>0, <1>1, OthersKept
  <2>4. p \in Pos /\ JobExtent' = JobExtent
    BY <2>1, JobFacts DEF JobExtent
  <2> QED
    BY <2>1, <2>2, <2>3, <2>4 DEF AckInv, JobData, JobLocated
<1>6. CASE WriteGeneration
  <2>1. /\ job.step = "generation" /\ job'.blob = job.blob /\ job'.at = job.at
        /\ job'.step = "sync" /\ UNCHANGED acked /\ disk' = PutGeneration(disk)
    BY <1>6 DEF WriteGeneration, Advance, Written, TypeInv, RegionTypeOK
  <2>2. /\ disk'.length = disk.length /\ disk'.data = disk.data /\ disk'.eof = disk.eof
        /\ disk'.loc = disk.loc
    BY <2>1, <1>0 DEF PutGeneration, File
  <2>3. AckedReadable'
    BY <2>1, <2>2, <1>0, <1>1, OthersKept
  <2>4. JobExtent' = JobExtent
    BY <2>1 DEF JobExtent
  <2> QED
    BY <2>1, <2>2, <2>3, <2>4 DEF AckInv, JobData, JobLocated
<1>7. CASE Sync
  <2>1. /\ job.step = "sync" /\ job'.step = "idle" /\ disk' = disk
        /\ acked' = [acked EXCEPT ![p] = job.blob]
    BY <1>7 DEF Sync, Idle
  <2>2. /\ disk.loc[p] = JobExtent /\ cache.loc[p] = JobExtent /\ job.at # 0
        /\ disk.length[job.at] = job.blob
        /\ \A s \in job.at .. job.at + job.blob.size - 1 : disk.data[s] = job.blob
    BY <2>1 DEF AckInv, JobLocated, JobData, ExtentInv, JobCached, OwnInv, JobWritten
  <2>3. Content(p) = job.blob
    <3>1. JobExtent.at = job.at /\ JobExtent.count = job.blob.size
      BY DEF JobExtent
    <3>2. job.at + job.blob.size <= disk.eof
      BY <2>1, <2>2, <3>1, JobFacts DEF ExtentInv, Landed, Claims
    <3>3. LengthFits(disk, JobExtent) /\ Assembled(disk, job.at, job.blob) = job.blob
      BY <2>1, <2>2, <3>2, <1>0, WholeChunk
    <3> QED
      BY <2>2, <3>1, <3>3 DEF Content
  <2>4. \A q \in Pos : Content(q)' = Content(q)
    BY <2>1 DEF Content
  <2>5. \A q \in Pos : acked'[q] = IF q = p THEN job.blob ELSE acked[q]
    BY <2>1 DEF TypeInv, RegionTypeOK
  <2> QED
    BY <2>1, <2>3, <2>4, <2>5 DEF AckInv, JobData, JobLocated, AckedReadable
<1>8. CASE FailWrite \/ Crash
  <2>1. job'.step = "idle" /\ disk' = disk /\ acked' = InDoubt
    BY <1>0, <1>8 DEF FailWrite, Crash, Idle
  <2>2. \A q \in Pos : Content(q)' = Content(q)
    BY <2>1 DEF Content
  <2>3. \A q \in Pos : acked'[q] = Unknown \/
                        (acked'[q] = acked[q] /\ (job.step # "idle" => q # p))
    BY <2>1 DEF InDoubt, TypeInv, RegionTypeOK
  <2> QED
    BY <2>1, <2>2, <2>3 DEF AckInv, JobData, JobLocated, AckedReadable
<1> QED
  BY <1>2, <1>3, <1>4, <1>5, <1>6, <1>7, <1>8 DEF WriterStep

LEMMA StepAck ==
    ASSUME Crash => ~PowerLoss, TypeInv, TypeInv', ExtentInv, OwnInv, AckInv, [Next]_vars
    PROVE  AckInv'
<1>1. CASE WriterStep \/ Crash
  BY <1>1, WriterAck, RegionAssumption, SentinelAssumption
<1>2. CASE UNCHANGED <<disk, job, acked>>
  <2>1. \A q \in Pos : Content(q)' = Content(q)
    BY <1>2 DEF Content
  <2>2. JobData' /\ JobLocated'
    BY <1>2 DEF AckInv, JobData, JobLocated, JobExtent
  <2>3. AckedReadable'
    BY <1>2, <2>1 DEF AckInv, AckedReadable
  <2> QED
    BY <2>2, <2>3 DEF AckInv
<1>3. ASSUME NEW r \in Readers,
             \/ OpenTables(r) \/ OpenGeneration(r)
             \/ \E p \in Pos : Probe(r, p)
             \/ RereadTables(r) \/ ReadLength(r) \/ ReadData(r)
      PROVE  UNCHANGED <<disk, job, acked>>
  BY <1>3 DEF ReaderStep, OpenTables, OpenGeneration, Probe, RereadTables, ReadLength, ReadData
<1> QED
  BY <1>1, <1>2, <1>3 DEF Next, vars

\* A save that write_chunk has reported is what a fresh handle reads, through
\* later saves of other positions, failed saves and crashes, until the next
\* save of its own position begins.
THEOREM AckedStays == ASSUME ~PowerLoss PROVE Spec => []AckedReadable
<1> DEFINE Inv == TypeInv /\ ExtentInv /\ OwnInv /\ AckInv
<1>1. Init => Inv
  BY InitTypes, InitExtents, InitOwn, InitAck, RegionAssumption, SentinelAssumption
<1>2. Inv /\ [Next]_vars => Inv'
  BY StepTypes, StepExtents, StepOwn, StepAck
<1>3. Inv => AckedReadable
  BY DEF AckInv
<1> QED
  BY <1>1, <1>2, <1>3, PTL DEF Spec

-----------------------------------------------------------------------------
(* The file implements a map from positions to chunks.                     *)

IdleIsEmpty == job.step = "idle" => job.blob = NoBlob

LEMMA IdleStep ==
    ASSUME TypeInv, IdleIsEmpty, [Next]_vars PROVE IdleIsEmpty'
<1>1. CASE WriterStep
  <2>1. ASSUME NEW from, NEW to, to # "idle", Advance(from, to) PROVE job'.step # "idle"
    BY <2>1 DEF Advance, TypeInv, RegionTypeOK
  <2>2. job'.step # "idle" \/ job' = Idle
    BY <1>1, <2>1 DEF WriterStep, StartWrite, WriteLength, WriteData, WriteLocation,
                      WriteGeneration, Sync, FailWrite
  <2> QED
    BY <2>2 DEF IdleIsEmpty, Idle
<1>2. CASE Crash
  BY <1>2 DEF Crash, IdleIsEmpty, Idle
<1>3. ASSUME NEW r \in Readers,
             \/ OpenTables(r) \/ OpenGeneration(r)
             \/ \E p \in Pos : Probe(r, p)
             \/ RereadTables(r) \/ ReadLength(r) \/ ReadData(r)
      PROVE  job' = job
  BY <1>3 DEF ReaderStep, OpenTables, OpenGeneration, Probe, RereadTables, ReadLength, ReadData
<1>4. CASE job' = job
  BY <1>4 DEF IdleIsEmpty
<1> QED
  BY <1>1, <1>2, <1>3, <1>4 DEF Next, vars

\* What can be read at the position being saved becomes its chunk or a tear.
LEMMA TouchedOrTorn ==
    ASSUME RegionAssumption, SentinelAssumption,
           TypeInv, TypeInv', ExtentInv, OwnInv, AckInv,
           WriteLength \/ WriteData \/ WriteLocation \/ WriteGeneration
    PROVE  /\ job'.blob = job.blob /\ job.step # "idle"
           /\ \A q \in Pos : q # job.blob.pos => Content(q)' = Content(q)
           /\ Content(job.blob.pos)' \in {Content(job.blob.pos), job.blob, Torn}
<1>0. /\ disk \in File /\ disk.eof \in Nat
      /\ job.step # "idle" /\ job'.blob = job.blob
  BY DEF TypeInv, RegionTypeOK, File, ExtentInv,
         WriteLength, WriteData, WriteLocation, WriteGeneration, Advance
<1>1. /\ job.blob.pos \in Pos /\ job.blob \in Blobs /\ job.at \in Sectors /\ job.at \in Nat
      /\ job.blob.size \in Nat /\ job.blob.size > 0
  BY <1>0, JobFacts
<1>2. PICK p \in Pos : p = job.blob.pos
  BY <1>1
<1> SUFFICES /\ \A q \in Pos : q # p => Content(q)' = Content(q)
             /\ Content(p)' \in {Content(p), job.blob, Torn}
  BY <1>0, <1>2
<1> DEFINE l == disk.loc[p]
<1>3. /\ l \in Claims(p) /\ l.at \in Sectors /\ l.at \in Nat /\ l.count \in Nat
      /\ l.at # 0 => /\ l.count > 0
                     /\ l.at + l.count <= disk.eof /\ l.at + l.count - 1 <= LastSector
  BY ClaimTypes DEF Claims, Location, ExtentInv, Landed
<1>4. ASSUME disk'.loc = disk.loc, disk'.length[l.at] = job.blob, l.at # 0
      PROVE  Content(p)' \in {job.blob, Torn}
  <2>1. Content(p)' = IF LengthFits(disk', l) THEN Assembled(disk', l.at, job.blob) ELSE Torn
    BY <1>4 DEF Content
  <2> QED
    BY <2>1 DEF Assembled
<1>5. CASE WriteLength
  <2>1. disk' = PutLength(disk)
    BY <1>5, <1>0 DEF WriteLength, Written
  <2>2. /\ disk'.loc = disk.loc /\ disk'.data = disk.data
        /\ disk'.eof = Larger(disk.eof, job.at + 1)
        /\ \A s \in Sectors : disk'.length[s] = IF s = job.at THEN job.blob ELSE disk.length[s]
    BY <2>1, <1>0, <1>1 DEF PutLength, File
  <2>3. disk'.eof >= disk.eof
    BY <2>2, <1>0, <1>1 DEF Larger
  <2>4. \A q \in Pos : q # p => Content(q)' = Content(q)
    BY <2>2, <2>3, <1>0, <1>2, OthersKept
  <2>5. CASE l.at = job.at
    BY <2>2, <2>4, <2>5, <1>0, <1>1, <1>4 DEF ExtentInv, JobPlaced
  <2>6. CASE l.at # job.at
    BY <2>2, <2>3, <2>4, <2>6, <1>3, ContentKept
  <2> QED
    BY <2>5, <2>6
<1>6. CASE WriteData
  <2>1. job.step = "data" /\ disk' = PutData(disk)
    BY <1>6, <1>0 DEF WriteData, Advance, Written
  <2>2. /\ disk'.loc = disk.loc /\ disk'.length = disk.length
        /\ disk'.eof = Larger(disk.eof, job.at + job.blob.size)
        /\ \A s \in Sectors :
             disk'.data[s] = IF job.at <= s /\ s < job.at + job.blob.size
                             THEN job.blob ELSE disk.data[s]
    BY <2>1, <1>0 DEF PutData, File
  <2>3. disk'.eof >= disk.eof
    BY <2>2, <1>0, <1>1 DEF Larger
  <2>4. \A q \in Pos : q # p => Content(q)' = Content(q)
    BY <2>2, <2>3, <1>0, <1>2, OthersKept
  <2>5. CASE l.at = 0
    BY <2>2, <2>4, <2>5 DEF Content
  <2>6. CASE l.at # 0
    <3> DEFINE head == disk.length[l.at]
    <3>1. /\ l.at < disk.eof /\ l.at < disk'.eof /\ disk'.eof \in Nat
          /\ disk'.length[l.at] = head
      BY <2>2, <2>3, <2>6, <1>0, <1>3 DEF TypeInv, RegionTypeOK, File
    <3>2. CASE ~LengthFits(disk, l)
      <4>1. ~LengthFits(disk', l)
        BY <3>1, <3>2, <1>0, <1>3 DEF LengthFits
      <4>2. Content(p)' = Torn
        BY <4>1, <2>2, <2>6 DEF Content
      <4> QED
        BY <4>2, <2>4
    <3>3. CASE LengthFits(disk, l)
      <4>1. LengthFits(disk', l)
        BY <3>1, <3>3, <1>0, <1>3 DEF LengthFits
      <4>2. /\ Content(p) = Assembled(disk, l.at, head)
            /\ Content(p)' = Assembled(disk', l.at, head)
        BY <4>1, <3>1, <3>3, <2>2, <2>6 DEF Content
      <4>3. head \in Blobs /\ head.size <= l.count
        BY <3>3, <1>0, <1>3 DEF LengthFits, File
      <4>4. head.size \in Nat
        BY <4>3 DEF Blobs, RegionAssumption
      <4>5. \A s \in l.at .. l.at + head.size - 1 :
              /\ s < disk.eof /\ s < disk'.eof
              /\ disk'.data[s] = job.blob \/ disk'.data[s] = disk.data[s]
        <5>1. \A s \in l.at .. l.at + head.size - 1 :
                s \in Sectors /\ s < disk.eof /\ s < disk'.eof
          BY <4>3, <4>4, <3>1, <2>3, <2>6, <1>0, <1>3 DEF Sectors, RegionAssumption
        <5> QED
          BY <5>1, <2>2
      <4>6. Assembled(disk', l.at, head) \in {Assembled(disk, l.at, head), job.blob, Torn}
        BY <4>5 DEF Assembled
      <4> QED
        BY <4>2, <4>6, <2>4
    <3> QED
      BY <3>2, <3>3
  <2> QED
    BY <2>5, <2>6
<1>7. CASE WriteLocation
  <2>1. job.step = "location" /\ disk' = PutLocation(disk)
    BY <1>7, <1>0 DEF WriteLocation, Advance, Written
  <2>2. /\ disk'.length = disk.length /\ disk'.data = disk.data /\ disk'.eof = disk.eof
        /\ \A q \in Pos : disk'.loc[q] = IF q = p THEN JobExtent ELSE disk.loc[q]
    BY <2>1, <1>0, <1>2 DEF PutLocation, File, JobExtent
  <2>3. \A q \in Pos : q # p => Content(q)' = Content(q)
    BY <2>2, <1>0, <1>2, OthersKept
  <2>4. /\ JobExtent = cache.loc[p] /\ JobExtent.at = job.at /\ job.at # 0
        /\ JobExtent.count = job.blob.size
    BY <2>1, <1>2 DEF ExtentInv, JobCached, JobExtent
  <2>5. job.at + job.blob.size <= disk.eof
    BY <2>4 DEF ExtentInv, Landed, Claims
  <2>6. /\ disk.length[job.at] = job.blob
        /\ \A s \in job.at .. job.at + job.blob.size - 1 : disk.data[s] = job.blob
    BY <2>1 DEF OwnInv, JobWritten, AckInv, JobData
  <2>7. LengthFits(disk', JobExtent) /\ Assembled(disk', job.at, job.blob) = job.blob
    BY <2>2, <2>5, <2>6, <1>0, WholeChunk
  <2>8. Content(p)' = job.blob
    BY <2>2, <2>4, <2>6, <2>7 DEF Content
  <2> QED
    BY <2>3, <2>8
<1>8. CASE WriteGeneration
  <2>1. disk' = PutGeneration(disk)
    BY <1>8, <1>0 DEF WriteGeneration, Written
  <2>2. /\ disk'.loc = disk.loc /\ disk'.length = disk.length
        /\ disk'.eof = disk.eof /\ disk'.data = disk.data
    BY <2>1, <1>0 DEF PutGeneration, File
  <2> QED
    BY <2>2 DEF Content, LengthFits, Assembled
<1> QED
  BY <1>5, <1>6, <1>7, <1>8

LEMMA RefinesStep ==
    ASSUME ~PowerLoss, TypeInv, TypeInv', ExtentInv, OwnInv, AckInv, AckInv',
           IdleIsEmpty, [Next]_vars
    PROVE  [Store!Next]_(Store!vars)
<1> DEFINE stored == [q \in Pos |-> Content(q)]
<1> USE RegionAssumption, SentinelAssumption
<1>1. ASSUME UNCHANGED <<disk, job>>
      PROVE  UNCHANGED Store!vars
  BY <1>1 DEF Store!vars, Content
<1>2. ASSUME NEW p \in Pos, NEW size \in Sizes, StartWrite(p, size)
      PROVE  Store!Next
  <2>1. /\ job.step = "idle" /\ UNCHANGED disk
        /\ job'.blob = [pos |-> p, number |-> written + 1, size |-> size]
    BY <1>2 DEF StartWrite
  <2>2. job.blob = NoBlob /\ job'.blob \in Blobs
    BY <1>2, <2>1 DEF IdleIsEmpty, TypeInv, JobOK, StartWrite
  <2>3. Store!Begin(job'.blob)
    BY <2>1, <2>2 DEF Store!Begin, Content
  <2> QED
    BY <2>2, <2>3 DEF Store!Next
<1>3. CASE WriteLength \/ WriteData \/ WriteLocation \/ WriteGeneration
  <2>1. /\ job'.blob = job.blob /\ job.step # "idle"
        /\ \A q \in Pos : q # job.blob.pos => Content(q)' = Content(q)
        /\ Content(job.blob.pos)' \in {Content(job.blob.pos), job.blob, Torn}
    BY <1>3, TouchedOrTorn
  <2>2. job.blob \in Blobs /\ job.blob # NoBlob
    BY <2>1, JobFacts
  <2>3. PICK p \in Pos : p = job.blob.pos
    BY <2>1, JobFacts
  <2>4. Content(p)' \in {Content(p), job.blob, Torn} /\ \A q \in Pos : q # p => Content(q)' = Content(q)
    BY <2>1, <2>3
  <2>5. CASE Content(p)' = Content(p)
    BY <2>1, <2>4, <2>5 DEF Store!vars
  <2>6. ASSUME NEW v \in {job.blob, Torn}, Content(p)' = v
        PROVE  Store!Touch
    <3>1. stored' = [stored EXCEPT ![p] = v]
      BY <2>4, <2>6
    <3> QED
      BY <2>1, <2>2, <2>3, <3>1 DEF Store!Touch
  <2> QED
    BY <2>4, <2>5, <2>6 DEF Store!Next
<1>4. CASE Sync
  <2>1. /\ job.step = "sync" /\ job' = Idle /\ disk' = disk
        /\ acked' = [acked EXCEPT ![job.blob.pos] = job.blob]
    BY <1>4 DEF Sync
  <2>2. PICK p \in Pos : p = job.blob.pos
    BY <2>1, JobFacts
  <2>3. job.blob # Unknown /\ job.blob # NoBlob
    BY <2>1, JobFacts
  <2>4. Content(p)' = job.blob
    BY <2>1, <2>2, <2>3 DEF AckInv, AckedReadable, TypeInv, RegionTypeOK, Idle
  <2>5. \A q \in Pos : Content(q)' = Content(q)
    BY <2>1 DEF Content
  <2>6. Store!Finish
    BY <2>1, <2>2, <2>3, <2>4, <2>5 DEF Store!Finish, Idle
  <2> QED
    BY <2>6 DEF Store!Next
<1>5. CASE FailWrite \/ Crash
  <2>1. disk' = disk /\ job' = Idle
    BY <1>5 DEF FailWrite, Crash, ExtentInv, PlatterIsDisk
  <2>2. Store!Abort
    BY <2>1 DEF Store!Abort, Content, Idle
  <2> QED
    BY <2>2 DEF Store!Next
<1>6. ASSUME NEW r \in Readers,
             \/ OpenTables(r) \/ OpenGeneration(r)
             \/ \E p \in Pos : Probe(r, p)
             \/ RereadTables(r) \/ ReadLength(r) \/ ReadData(r)
      PROVE  UNCHANGED <<disk, job>>
  BY <1>6 DEF ReaderStep, OpenTables, OpenGeneration, Probe, RereadTables, ReadLength, ReadData
<1> QED
  BY <1>1, <1>2, <1>3, <1>4, <1>5, <1>6 DEF Next, WriterStep, vars

\* The calls of write_chunk, the readers, failed saves and crashes implement a
\* map from positions to chunks: a save touches what can be read at its own
\* position and nothing else, and is reported only when it can be read.
THEOREM StoreImplemented == ASSUME ~PowerLoss PROVE Spec => ImplementsStore
<1> DEFINE Inv == TypeInv /\ ExtentInv /\ OwnInv /\ AckInv /\ IdleIsEmpty
<1>1. Init => Inv
  BY InitTypes, InitExtents, InitOwn, InitAck, RegionAssumption, SentinelAssumption
     DEF Init, IdleIsEmpty, Idle
<1>2. Inv /\ [Next]_vars => Inv'
  BY StepTypes, StepExtents, StepOwn, StepAck, IdleStep
<1>3. Init => Store!Init
  <2>1. ASSUME Init PROVE \A p \in Pos : Content(p) = NoBlob
    BY <2>1 DEF Init, Content, EmptyFile, NoLocations, Unset
  <2> QED
    BY <2>1 DEF Store!Init, Init, Idle
<1>4. Inv /\ Inv' /\ [Next]_vars => [Store!Next]_(Store!vars)
  BY RefinesStep
<1> QED
  BY <1>1, <1>2, <1>3, <1>4, PTL DEF Spec, ImplementsStore, Store!Spec

-----------------------------------------------------------------------------
(* A crash that loses any part of what was not synced is local.            *)

\* What a fresh handle would read back at p in the file f.
Reads(f, p) ==
    LET l == f.loc[p]
    IN  IF l.at = 0 THEN NoBlob
        ELSE IF LengthFits(f, l) THEN Assembled(f, l.at, f.length[l.at]) ELSE Torn

\* The last save of p is known and no other is under way.
Settled(p) == acked[p] # Unknown /\ (job.step # "idle" => job.blob.pos # p)

\* The chunk of a settled position is on the platter, under the location that
\* the file gives it.
Synced == \A p \in Pos :
    Settled(p) => platter.loc[p] = disk.loc[p] /\ Reads(platter, p) = acked[p]

\* A second crash after one that lost something is left out: the location
\* table may then point behind the end of the file, where the next append puts
\* the chunk of another position.
Sound == ~PowerLoss \/ crashes = 0

CrashInv == Sound => ExtentInv /\ OwnInv /\ AckInv /\ Synced

LEMMA InitSynced == ASSUME Init PROVE Synced
  BY DEF Init, Synced, Reads, EmptyFile, NoLocations, Unset

\* A file that has grown, and keeps the location of p and the sectors of it,
\* keeps the chunk of p.
LEMMA ReadsKept ==
    ASSUME RegionAssumption, SentinelAssumption, NEW f \in File, NEW g \in File,
           NEW p \in Pos, Reads(f, p) # Torn,
           g.loc[p] = f.loc[p], g.eof >= f.eof,
           f.loc[p].at # 0 =>
             /\ g.length[f.loc[p].at] = f.length[f.loc[p].at]
             /\ \A s \in f.loc[p].at .. f.loc[p].at + f.loc[p].count - 1 :
                  g.data[s] = f.data[s]
    PROVE  Reads(g, p) = Reads(f, p)
<1> DEFINE l    == f.loc[p]
           head == f.length[l.at]
<1>1. /\ l \in Location /\ l.at \in Sectors /\ l.at \in Nat /\ l.count \in Nat
      /\ f.eof \in Nat /\ g.eof \in Nat
  BY DEF File, Location, Sectors, RegionAssumption
<1>2. CASE l.at = 0
  BY <1>2 DEF Reads
<1>3. CASE l.at # 0
  <2>1. LengthFits(f, l) /\ Reads(f, p) = Assembled(f, l.at, head)
    BY <1>3 DEF Reads
  <2>2. l.at < f.eof /\ head \in Blobs /\ head.size <= l.count
    BY <2>1, <1>1 DEF LengthFits, File
  <2>3. head.size \in Nat
    BY <2>2 DEF Blobs, RegionAssumption
  <2>4. \A s \in l.at .. l.at + head.size - 1 : s < f.eof /\ f.data[s] = head
    BY <2>1 DEF Assembled
  <2>5. /\ g.length[l.at] = head
        /\ \A s \in l.at .. l.at + head.size - 1 : s < g.eof /\ g.data[s] = head
    BY <2>2, <2>3, <2>4, <1>1, <1>3
  <2>6. LengthFits(g, l) /\ Assembled(g, l.at, head) = head
    BY <2>2, <2>3, <2>5, <1>1 DEF LengthFits, Assembled, SentinelAssumption
  <2>7. Assembled(f, l.at, head) = head
    BY <2>4 DEF Assembled
  <2> QED
    BY <2>1, <2>5, <2>6, <2>7, <1>3 DEF Reads
<1> QED
  BY <1>2, <1>3

\* A write call that reaches the platter leaves the settled positions alone.
LEMMA OthersSynced ==
    ASSUME RegionAssumption, SentinelAssumption, TypeInv, TypeInv', ExtentInv, Synced,
           job.step # "idle", NEW q \in Pos, q # job.blob.pos, acked[q] # Unknown,
           disk'.loc[q] = disk.loc[q], platter'.loc[q] = platter.loc[q],
           platter'.eof >= platter.eof,
           \A s \in Sectors : s # job.at => platter'.length[s] = platter.length[s],
           \A s \in Sectors : ~(job.at <= s /\ s < job.at + job.blob.size)
                                => platter'.data[s] = platter.data[s]
    PROVE  platter'.loc[q] = disk'.loc[q] /\ Reads(platter', q) = acked[q]
<1> DEFINE l == disk.loc[q]
<1>1. platter.loc[q] = l /\ Reads(platter, q) = acked[q]
  BY DEF Synced, Settled
<1>2. l \in Claims(q) /\ l.at \in Sectors /\ l.at \in Nat /\ l.count \in Nat
  BY ClaimTypes DEF Claims, Location
<1>3. ASSUME l.at # 0
      PROVE  /\ platter'.length[l.at] = platter.length[l.at]
             /\ \A s \in l.at .. l.at + l.count - 1 : platter'.data[s] = platter.data[s]
  <2>1. /\ l.at # job.at
        /\ \A s \in l.at .. l.at + l.count - 1 :
             ~(job.at <= s /\ s < job.at + job.blob.size)
    BY <1>2, <1>3, JobElsewhere
  <2>2. \A s \in l.at .. l.at + l.count - 1 : s \in Sectors
    BY <1>2, <1>3 DEF ExtentInv, Landed, Sectors, RegionAssumption
  <2> QED
    BY <1>2, <2>1, <2>2
<1>4. platter \in File /\ platter' \in File /\ acked[q] # Torn
  BY DEF TypeInv, RegionTypeOK, SentinelAssumption
<1>5. Reads(platter', q) = Reads(platter, q)
  BY <1>1, <1>3, <1>4, ReadsKept
<1> QED
  BY <1>1, <1>5

\* A write call keeps the settled positions, whether or not it reaches the
\* platter.
LEMMA WriteSynced ==
    ASSUME RegionAssumption, SentinelAssumption, TypeInv, TypeInv', ExtentInv, Synced,
           WriteLength \/ WriteData \/ WriteLocation \/ WriteGeneration
    PROVE  Synced'
<1> DEFINE p == job.blob.pos
<1>0. /\ job.step # "idle" /\ job'.step # "idle" /\ job'.blob = job.blob
      /\ UNCHANGED acked
  BY DEF TypeInv, RegionTypeOK, WriteLength, WriteData, WriteLocation, WriteGeneration, Advance
<1>1. /\ p \in Pos /\ job.blob.size \in Nat /\ job.at \in Sectors /\ job.at \in Nat
      /\ job.at + 1 \in Nat /\ job.at + job.blob.size \in Nat
  BY <1>0, JobFacts
<1>2. disk \in File /\ platter \in File
  BY DEF TypeInv, RegionTypeOK
<1> DEFINE Kept(f, g) ==
       /\ \A q \in Pos : q # p => g.loc[q] = f.loc[q]
       /\ g.eof >= f.eof
       /\ \A s \in Sectors : s # job.at => g.length[s] = f.length[s]
       /\ \A s \in Sectors : ~(job.at <= s /\ s < job.at + job.blob.size)
                               => g.data[s] = f.data[s]
<1>3. \A f \in File : /\ Kept(f, f)
                      /\ Kept(f, PutLength(f)) /\ Kept(f, PutData(f))
                      /\ Kept(f, PutLocation(f)) /\ Kept(f, PutGeneration(f))
  <2> SUFFICES ASSUME NEW f \in File
               PROVE  /\ Kept(f, f)
                      /\ Kept(f, PutLength(f)) /\ Kept(f, PutData(f))
                      /\ Kept(f, PutLocation(f)) /\ Kept(f, PutGeneration(f))
    OBVIOUS
  <2>1. f.eof \in Nat /\ f.eof >= f.eof
    BY DEF File
  <2>2. Kept(f, f)
    BY <2>1
  <2>3. Kept(f, PutLength(f))
    <3>1. Larger(f.eof, job.at + 1) >= f.eof
      BY <2>1, <1>1 DEF Larger
    <3> QED
      BY <3>1 DEF PutLength, File
  <2>4. Kept(f, PutData(f))
    <3>1. Larger(f.eof, job.at + job.blob.size) >= f.eof
      BY <2>1, <1>1 DEF Larger
    <3> QED
      BY <3>1 DEF PutData, File
  <2>5. Kept(f, PutLocation(f))
    BY <2>1 DEF PutLocation, File
  <2>6. Kept(f, PutGeneration(f))
    BY <2>1 DEF PutGeneration, File
  <2> QED
    BY <2>2, <2>3, <2>4, <2>5, <2>6
<1>4. Kept(disk, disk') /\ Kept(platter, platter')
  <2> HIDE DEF Kept
  <2> QED
    BY <1>2, <1>3 DEF WriteLength, WriteData, WriteLocation, WriteGeneration, Written
<1>5. ASSUME NEW q \in Pos, Settled(q)'
      PROVE  platter'.loc[q] = disk'.loc[q] /\ Reads(platter', q) = acked'[q]
  <2>1. q # p /\ acked[q] # Unknown
    BY <1>0, <1>5 DEF Settled
  <2> QED
    BY <2>1, <1>0, <1>4, OthersSynced
<1> QED
  BY <1>5 DEF Synced, Reads

\* Every step keeps the settled positions on the platter.
LEMMA StepSynced ==
    ASSUME RegionAssumption, SentinelAssumption, TypeInv, TypeInv', Crash => ~PowerLoss,
           ExtentInv, AckInv, AckInv', Synced, [Next]_vars
    PROVE  Synced'
<1>1. \A q \in Pos : Content(q) = Reads(disk, q) /\ Content(q)' = Reads(disk', q)
  BY DEF Content, Reads
<1>2. ASSUME UNCHANGED <<disk, platter>>,
             \A q \in Pos : Settled(q)' => Settled(q) /\ acked'[q] = acked[q]
      PROVE  Synced'
  BY <1>2 DEF Synced, Reads
<1>3. ASSUME NEW p \in Pos, NEW size \in Sizes, StartWrite(p, size)
      PROVE  Synced'
  BY <1>2, <1>3 DEF StartWrite, Settled
<1>4. CASE WriteLength \/ WriteData \/ WriteLocation \/ WriteGeneration
  BY <1>4, WriteSynced
<1>5. CASE Sync
  <2>1. platter' = disk /\ disk' = disk /\ job'.step = "idle"
    BY <1>5 DEF Sync, Idle
  <2>2. \A q \in Pos : acked'[q] # Unknown => Reads(disk', q) = acked'[q]
    BY <2>1, <1>1 DEF AckInv, AckedReadable
  <2> QED
    BY <2>1, <2>2 DEF Synced, Settled, Reads
<1>6. InDoubt \in [Pos -> Blobs \cup {NoBlob, Unknown}]
      /\ \A q \in Pos : InDoubt[q] # Unknown => Settled(q) /\ InDoubt[q] = acked[q]
  BY JobFacts DEF InDoubt, Settled, TypeInv, RegionTypeOK
<1>7. CASE FailWrite
  BY <1>2, <1>6, <1>7 DEF FailWrite, Settled, Idle
<1>8. CASE Crash
  <2>1. platter = disk /\ disk' = platter /\ platter' = platter /\ acked' = InDoubt
    BY <1>8 DEF Crash, ExtentInv, PlatterIsDisk
  <2> QED
    BY <2>1, <1>2, <1>6 DEF Settled
<1>9. ASSUME NEW r \in Readers,
             \/ OpenTables(r) \/ OpenGeneration(r)
             \/ \E p \in Pos : Probe(r, p)
             \/ RereadTables(r) \/ ReadLength(r) \/ ReadData(r)
      PROVE  UNCHANGED <<disk, platter, job, acked>>
  BY <1>9 DEF ReaderStep, OpenTables, OpenGeneration, Probe, RereadTables, ReadLength, ReadData
<1>10. CASE UNCHANGED <<disk, platter, job, acked>>
  BY <1>2, <1>10 DEF Settled
<1> QED
  BY <1>3, <1>4, <1>5, <1>7, <1>8, <1>9, <1>10 DEF Next, WriterStep, vars

LEMMA StepCrashInv ==
    ASSUME TypeInv, TypeInv', CrashInv, [Next]_vars PROVE CrashInv'
<1> SUFFICES ASSUME Sound' PROVE (ExtentInv /\ OwnInv /\ AckInv /\ Synced)'
  BY DEF CrashInv
<1>1. crashes \in Nat /\ crashes' \in Nat
  BY DEF TypeInv, RegionTypeOK
<1>2. crashes' = crashes \/ (Crash /\ crashes' = crashes + 1)
  BY DEF Next, WriterStep, StartWrite, WriteLength, WriteData, WriteLocation,
         WriteGeneration, Advance, Sync, FailWrite, Crash, vars, ReaderStep, OpenTables,
         OpenGeneration, Probe, RereadTables, ReadLength, ReadData
<1>3. Sound /\ (Crash => ~PowerLoss)
  BY <1>1, <1>2 DEF Sound, Crash
<1>4. ExtentInv /\ OwnInv /\ AckInv /\ Synced
  BY <1>3 DEF CrashInv
<1>5. ExtentInv' /\ OwnInv'
  BY <1>3, <1>4, StepExtents, StepOwn
<1>6. AckInv'
  BY <1>3, <1>4, StepAck
<1>7. Synced'
  BY <1>3, <1>4, <1>6, StepSynced, RegionAssumption, SentinelAssumption
<1> QED
  BY <1>5, <1>6, <1>7

\* A crash, even one that loses any part of what was not yet synced, damages no
\* position but the one that was being saved: what write_chunk reported before
\* is read back afterwards.
THEOREM CrashLocal ==
    ASSUME ~PowerLoss \/ MaxCrashes <= 1 PROVE Spec => CrashIsLocal
<1> DEFINE Inv == TypeInv /\ CrashInv
<1>1. Init => Inv
  BY InitTypes, InitExtents, InitOwn, InitAck, InitSynced, RegionAssumption,
     SentinelAssumption DEF CrashInv
<1>2. Inv /\ [Next]_vars => Inv'
  BY StepTypes, StepCrashInv
<1>3. Inv /\ [Next]_vars =>
        [crashes' # crashes =>
           \A p \in Pos : acked'[p] # Unknown => Content(p)' = acked[p]]_vars
  <2> SUFFICES ASSUME Inv, Next, crashes' # crashes, NEW p \in Pos, acked'[p] # Unknown
               PROVE  Content(p)' = acked[p]
    OBVIOUS
  <2>1. Crash
    BY DEF Next, WriterStep, StartWrite, WriteLength, WriteData, WriteLocation,
           WriteGeneration, Advance, Sync, FailWrite, ReaderStep, OpenTables,
           OpenGeneration, Probe, RereadTables, ReadLength, ReadData
  <2>2. crashes \in Nat /\ MaxCrashes \in Nat /\ crashes < MaxCrashes
    BY <2>1, RegionAssumption DEF Crash, TypeInv, RegionTypeOK
  <2>3. Sound
    BY <2>2 DEF Sound
  <2>4. Settled(p)
    BY <2>1, JobFacts, RegionAssumption DEF Crash, InDoubt, Settled, TypeInv, RegionTypeOK
  <2>5. Content(p)' = Reads(platter, p)
    BY <2>1 DEF Crash, Content, Reads
  <2> QED
    BY <2>3, <2>4, <2>5 DEF CrashInv, Synced
<1> QED
  BY <1>1, <1>2, <1>3, PTL DEF Spec, CrashIsLocal

-----------------------------------------------------------------------------
(* A read that no save of its position overlaps is fresh.                  *)

\* The generation of the file counts the saves, the writer's is ahead of it
\* while a location is in the file that no generation announces yet, and no
\* reader is ahead of the file.
Generations ==
    /\ disk.gen <= cache.gen /\ cache.gen <= written
    /\ job.step \in {"length", "data", "location"} => cache.gen < written
    /\ job.step = "generation" => disk.gen < cache.gen
    /\ \A r \in Readers :
         /\ reader[r].step # "closed" => reader[r].gen <= disk.gen
         /\ reader[r].step = "tables" => reader[r].probed <= disk.gen

\* The location of p in the file is the one its generation stands for.
Steady(p) ==
    \/ acked[p] # Unknown /\ ~(job.step = "generation" /\ job.blob.pos = p)
    \/ job.step = "sync" /\ job.blob.pos = p

\* A reader of the current generation has the current locations.
TablesCurrent ==
    \A r \in Readers : reader[r].step # "closed" /\ ~reader[r].torn /\ reader[r].gen = disk.gen =>
        \A p \in Pos : Steady(p) => reader[r].loc[p] = disk.loc[p]

Undisturbed(r) == reader[r].step \in {"tables", "length", "data"} /\ ~reader[r].disturbed

NoLookup ==
    \A r \in Readers : reader[r].step \in {"closed", "opening"} =>
        reader[r].pos = NoBlob /\ ~reader[r].torn

\* The position of a lookup that no save overlaps stays settled, and ...
LookupSettled ==
    \A r \in Readers : Undisturbed(r) =>
        /\ reader[r].expected = acked[reader[r].pos]
        /\ job.step # "idle" => job.blob.pos # reader[r].pos

\* ... the reader follows its location in the file.
LookupCurrent ==
    \A r \in Readers :
        Undisturbed(r) /\ reader[r].step # "tables"
            /\ ~reader[r].torn /\ reader[r].expected # Unknown =>
        /\ reader[r].loc[reader[r].pos] = disk.loc[reader[r].pos]
        /\ reader[r].step = "data" => reader[r].length = reader[r].expected

FreshInv ==
    /\ Generations /\ TablesCurrent
    /\ NoLookup /\ LookupSettled /\ LookupCurrent /\ FreshReads

LEMMA InitFresh == ASSUME RegionAssumption, Init PROVE FreshInv
<1>1. /\ disk.gen = 0 /\ cache.gen = 0 /\ written = 0 /\ job.step = "idle"
      /\ \A r \in Readers : reader[r] = Closed
  BY DEF Init, EmptyFile, Idle
<1>2. \A r \in Readers : reader[r].step = "closed" /\ reader[r].pos = NoBlob
                         /\ ~reader[r].torn
  BY <1>1 DEF Closed
<1>3. Generations
  BY <1>1, <1>2 DEF Generations
<1>4. TablesCurrent /\ NoLookup /\ FreshReads
  BY <1>2 DEF TablesCurrent, NoLookup, FreshReads
<1>5. LookupSettled /\ LookupCurrent
  BY <1>2 DEF LookupSettled, LookupCurrent, Undisturbed
<1> QED
  BY <1>3, <1>4, <1>5 DEF FreshInv

LEMMA SmallRemainder == ASSUME NEW m \in Nat, NEW n \in Nat, n < m PROVE n % m = n
  OBVIOUS

\* What the writer's steps do to what the readers depend on.
LEMMA WriterEffect ==
    ASSUME RegionAssumption, SentinelAssumption, MaxWrites < GenModulus,
           TypeInv, TypeInv', Generations, WriterStep
    PROVE  /\ disk'.gen \in {disk.gen, cache.gen} /\ disk'.gen <= cache'.gen
           /\ cache'.gen <= written'
           /\ job'.step \in {"length", "data", "location"} => cache'.gen < written'
           /\ job'.step = "generation" => disk'.gen < cache'.gen
           /\ disk'.gen # disk.gen => job.step = "generation" /\ disk'.gen = cache.gen
           /\ \A p \in Pos : disk'.loc[p] # disk.loc[p] =>
                job.step = "location" /\ job'.step = "generation"
                /\ job.blob.pos = p /\ job'.blob.pos = p
           /\ \A p \in Pos : acked'[p] # acked[p] =>
                /\ job.step # "idle" /\ job.blob.pos = p /\ job'.step = "idle"
                /\ acked'[p] # Unknown => job.step = "sync"
           /\ job'.step # "idle" => (job.step # "idle" /\ job'.blob = job.blob)
                                    \/ (job.step = "idle" /\ job'.step = "length")
           /\ job'.step = "sync" => job.step = "generation"
           /\ job.step = "generation" /\ disk'.gen = disk.gen => job'.step = "idle"
                /\ acked'[job.blob.pos] = Unknown
<1>0. /\ disk \in File /\ disk.gen \in Nat /\ cache.gen \in Nat /\ written \in Nat
      /\ written <= MaxWrites /\ MaxWrites \in Nat /\ GenModulus \in Nat
  BY DEF TypeInv, RegionTypeOK, File, RegionAssumption
<1>1. /\ disk.gen <= cache.gen /\ cache.gen <= written
      /\ job.step \in {"length", "data", "location"} => cache.gen < written
      /\ job.step = "generation" => disk.gen < cache.gen
  BY DEF Generations
<1>2. ASSUME NEW p \in Pos, NEW size \in Sizes, StartWrite(p, size)
      PROVE  /\ job.step = "idle" /\ job'.step = "length" /\ written' = written + 1
             /\ UNCHANGED <<disk, cache, acked>>
  BY <1>2 DEF StartWrite
<1>3. CASE WriteLength
  <2>1. /\ job.step = "length" /\ job'.step = "data" /\ job'.blob = job.blob
        /\ disk' = PutLength(disk) /\ UNCHANGED <<cache, acked, written>>
    BY <1>3 DEF WriteLength, Advance, Written, TypeInv, RegionTypeOK
  <2>2. disk'.gen = disk.gen /\ disk'.loc = disk.loc
    BY <2>1, <1>0 DEF PutLength, File
  <2> QED
    BY <2>1, <2>2, <1>0, <1>1
<1>4. CASE WriteData
  <2>1. /\ job.step = "data" /\ job'.step = "location" /\ job'.blob = job.blob
        /\ disk' = PutData(disk) /\ cache'.gen = cache.gen /\ UNCHANGED <<acked, written>>
    BY <1>4 DEF WriteData, Advance, Written, TypeInv, RegionTypeOK
  <2>2. disk'.gen = disk.gen /\ disk'.loc = disk.loc
    BY <2>1, <1>0 DEF PutData, File
  <2> QED
    BY <2>1, <2>2, <1>0, <1>1
<1>5. CASE WriteLocation
  <2>1. /\ job.step = "location" /\ job'.step = "generation" /\ job'.blob = job.blob
        /\ disk' = PutLocation(disk) /\ cache'.gen = (cache.gen + 1) % GenModulus
        /\ UNCHANGED <<acked, written>>
    BY <1>5 DEF WriteLocation, Advance, Written, TypeInv, RegionTypeOK
  <2>2. cache.gen + 1 \in Nat /\ cache.gen + 1 < GenModulus /\ cache.gen + 1 <= written
    BY <2>1, <1>0, <1>1
  <2>3. cache'.gen = cache.gen + 1
    BY <2>1, <2>2, <1>0, SmallRemainder
  <2>4. disk'.gen = disk.gen /\ \A q \in Pos : q # job.blob.pos => disk'.loc[q] = disk.loc[q]
    BY <2>1, <1>0 DEF PutLocation, File
  <2> QED
    BY <2>1, <2>2, <2>3, <2>4, <1>0, <1>1
<1>6. CASE WriteGeneration
  <2>1. /\ job.step = "generation" /\ job'.step = "sync" /\ job'.blob = job.blob
        /\ disk' = PutGeneration(disk) /\ UNCHANGED <<cache, acked, written>>
    BY <1>6 DEF WriteGeneration, Advance, Written, TypeInv, RegionTypeOK
  <2>2. disk'.gen = cache.gen /\ disk'.loc = disk.loc
    BY <2>1, <1>0 DEF PutGeneration, File
  <2> QED
    BY <2>1, <2>2, <1>0, <1>1
<1>7. CASE Sync
  <2>1. /\ job.step = "sync" /\ job'.step = "idle" /\ UNCHANGED <<disk, cache, written>>
        /\ acked' = [acked EXCEPT ![job.blob.pos] = job.blob]
    BY <1>7 DEF Sync, Idle
  <2>2. \A q \in Pos : q # job.blob.pos => acked'[q] = acked[q]
    BY <2>1 DEF TypeInv, RegionTypeOK
  <2> QED
    BY <2>1, <2>2, <1>0, <1>1
<1>8. CASE FailWrite
  <2>1. /\ job.step # "idle" /\ job'.step = "idle" /\ UNCHANGED <<disk, cache, written>>
        /\ acked' = [acked EXCEPT ![job.blob.pos] = Unknown]
    BY <1>8 DEF FailWrite, Idle, InDoubt
  <2>2. job.blob.pos \in Pos
    BY <2>1, JobFacts
  <2>3. \A q \in Pos : acked'[q] = IF q = job.blob.pos THEN Unknown ELSE acked[q]
    BY <2>1 DEF TypeInv, RegionTypeOK
  <2> QED
    BY <2>1, <2>2, <2>3, <1>0, <1>1
<1>9. \/ \E p \in Pos, size \in Sizes : StartWrite(p, size)
      \/ WriteLength \/ WriteData \/ WriteLocation \/ WriteGeneration \/ Sync
      \/ FailWrite
  BY DEF WriterStep
<1>10. CASE \E p \in Pos, size \in Sizes : StartWrite(p, size)
  <2>1. /\ job.step = "idle" /\ job'.step = "length" /\ written' = written + 1
        /\ UNCHANGED <<disk, cache, acked>>
    BY <1>2, <1>10
  <2> QED
    BY <2>1, <1>0, <1>1
<1> QED
  BY <1>3, <1>4, <1>5, <1>6, <1>7, <1>8, <1>9, <1>10

\* The writer leaves what the readers hold alone, but for the mark of a lookup
\* that its save overlaps.
LEMMA WriterReaders ==
    ASSUME TypeInv, WriterStep, NEW r \in Readers
    PROVE  /\ reader'[r].step = reader[r].step /\ reader'[r].loc = reader[r].loc
           /\ reader'[r].gen = reader[r].gen /\ reader'[r].probed = reader[r].probed
           /\ reader'[r].pos = reader[r].pos /\ reader'[r].length = reader[r].length
           /\ reader'[r].result = reader[r].result
           /\ reader'[r].expected = reader[r].expected
           /\ reader'[r].torn = reader[r].torn
           /\ ~reader'[r].disturbed => ~reader[r].disturbed
           /\ job.step = "idle" /\ job'.step # "idle" /\ job'.blob.pos = reader[r].pos =>
                reader[r].step = "done" \/ reader'[r].disturbed
<1>1. CASE UNCHANGED reader /\ (job.step # "idle" \/ job'.step = "idle")
  BY <1>1
<1>2. ASSUME NEW p \in Pos, NEW size \in Sizes, StartWrite(p, size)
      PROVE  reader' = Disturb(p) /\ job'.blob.pos = p
  BY <1>2 DEF StartWrite
<1>3. ASSUME NEW p \in Pos, reader' = Disturb(p), job'.blob.pos = p
      PROVE  /\ reader'[r] = IF reader[r].pos = p /\ reader[r].step # "done"
                             THEN [reader[r] EXCEPT !.disturbed = TRUE] ELSE reader[r]
             /\ reader[r] \in ReaderState
  BY <1>3 DEF Disturb, TypeInv, RegionTypeOK
<1>4. CASE \E p \in Pos, size \in Sizes : StartWrite(p, size)
  BY <1>2, <1>3, <1>4 DEF ReaderState
<1>5. CASE WriteLength \/ WriteData \/ WriteLocation \/ WriteGeneration \/ Sync \/ FailWrite
  <2>1. UNCHANGED reader /\ job.step # "idle"
    BY <1>5 DEF WriteLength, WriteData, WriteLocation, WriteGeneration, Sync, FailWrite, Advance
  <2> QED
    BY <2>1, <1>1
<1> QED
  BY <1>4, <1>5 DEF WriterStep

LEMMA WriterFresh ==
    ASSUME RegionAssumption, SentinelAssumption, MaxWrites < GenModulus,
           TypeInv, TypeInv', FreshInv, WriterStep
    PROVE  FreshInv'
<1> DEFINE p == job.blob.pos
<1>0. /\ disk.gen \in Nat /\ disk'.gen \in Nat /\ cache.gen \in Nat
      /\ \A r \in Readers : reader[r] \in ReaderState /\ reader[r].gen \in Nat
                            /\ reader[r].probed \in Nat
  BY DEF TypeInv, RegionTypeOK, File, ReaderState
<1>1. Generations'
  <2>1. disk'.gen >= disk.gen
    BY <1>0, WriterEffect DEF FreshInv, Generations
  <2>2. /\ disk'.gen <= cache'.gen /\ cache'.gen <= written'
        /\ job'.step \in {"length", "data", "location"} => cache'.gen < written'
        /\ job'.step = "generation" => disk'.gen < cache'.gen
    BY WriterEffect DEF FreshInv
  <2>3. ASSUME NEW r \in Readers
        PROVE  /\ reader'[r].step # "closed" => reader'[r].gen <= disk'.gen
               /\ reader'[r].step = "tables" => reader'[r].probed <= disk'.gen
    BY <2>1, <1>0, WriterReaders DEF FreshInv, Generations
  <2> QED
    BY <2>2, <2>3 DEF Generations
<1>2. TablesCurrent'
  <2> SUFFICES ASSUME NEW r \in Readers, reader'[r].step # "closed", ~reader'[r].torn,
                      reader'[r].gen = disk'.gen, NEW q \in Pos, Steady(q)'
               PROVE  reader'[r].loc[q] = disk'.loc[q]
    BY DEF TablesCurrent
  <2>1. reader[r].step # "closed" /\ ~reader[r].torn /\ reader[r].gen = disk'.gen
        /\ reader'[r].loc = reader[r].loc
    BY WriterReaders
  <2>2. disk'.gen = disk.gen
    BY <2>1, <1>0, WriterEffect DEF FreshInv, Generations
  <2>3. disk'.loc[q] = disk.loc[q]
    BY WriterEffect DEF FreshInv, Steady
  <2>4. Steady(q)
    BY <2>2, WriterEffect DEF FreshInv, Steady
  <2> QED
    BY <2>1, <2>2, <2>3, <2>4 DEF FreshInv, TablesCurrent
<1>3. NoLookup' /\ FreshReads'
  BY WriterReaders DEF FreshInv, NoLookup, FreshReads
<1>4. ASSUME NEW r \in Readers, Undisturbed(r)'
      PROVE  /\ Undisturbed(r) /\ reader[r].pos \in Pos
             /\ reader[r].expected = acked[reader[r].pos]
             /\ job.step # "idle" => p # reader[r].pos
             /\ job'.step # "idle" => job'.blob.pos # reader[r].pos
             /\ acked'[reader[r].pos] = acked[reader[r].pos]
             /\ disk'.loc[reader[r].pos] = disk.loc[reader[r].pos]
  <2>1. Undisturbed(r) /\ reader[r].pos \in Pos
    BY <1>4, WriterReaders DEF Undisturbed, TypeInv, ReaderOK
  <2>2. reader[r].expected = acked[reader[r].pos] /\ (job.step # "idle" => p # reader[r].pos)
    BY <2>1 DEF FreshInv, LookupSettled
  <2>3. job'.step # "idle" => job'.blob.pos # reader[r].pos
    BY <2>1, <2>2, <1>4, WriterReaders, WriterEffect DEF FreshInv, Undisturbed
  <2>4. /\ acked'[reader[r].pos] = acked[reader[r].pos]
        /\ disk'.loc[reader[r].pos] = disk.loc[reader[r].pos]
    BY <2>1, <2>2, WriterEffect DEF FreshInv
  <2> QED
    BY <2>1, <2>2, <2>3, <2>4
<1>5. LookupSettled'
  BY <1>4, WriterReaders DEF LookupSettled
<1>6. LookupCurrent'
  BY <1>4, WriterReaders DEF LookupCurrent, FreshInv
<1> QED
  BY <1>1, <1>2, <1>3, <1>5, <1>6 DEF FreshInv

LEMMA CrashFresh ==
    ASSUME RegionAssumption, TypeInv, FreshInv, Crash, platter = disk
    PROVE  FreshInv'
<1>1. /\ disk' = disk /\ cache'.gen = disk.gen /\ job'.step = "idle" /\ written' = written
      /\ \A r \in Readers : reader'[r] = Closed
  BY DEF Crash, Idle
<1>2. \A r \in Readers : reader'[r].step = "closed" /\ reader'[r].pos = NoBlob
                         /\ ~reader'[r].torn
  BY <1>1 DEF Closed
<1>3. Generations'
  BY <1>1, <1>2 DEF FreshInv, Generations, TypeInv, RegionTypeOK, File
<1>4. TablesCurrent' /\ NoLookup' /\ FreshReads'
  BY <1>2 DEF TablesCurrent, NoLookup, FreshReads
<1>5. LookupSettled' /\ LookupCurrent'
  BY <1>2 DEF LookupSettled, LookupCurrent, Undisturbed
<1> QED
  BY <1>3, <1>4, <1>5 DEF FreshInv

\* A reader's own step: the others are as they were.
LEMMA OwnStep ==
    ASSUME TypeInv, FreshInv, NEW r \in Readers, NEW new, ReaderStep(r, new),
           new.step # "closed" /\ new.gen <= disk.gen,
           new.step = "tables" => new.probed <= disk.gen,
           ~new.torn /\ new.gen = disk.gen =>
             \A p \in Pos : Steady(p) => new.loc[p] = disk.loc[p],
           new.step = "opening" => new.pos = NoBlob /\ ~new.torn,
           new.step \in {"tables", "length", "data"} /\ ~new.disturbed =>
             /\ new.expected = acked[new.pos]
             /\ job.step # "idle" => job.blob.pos # new.pos
             /\ new.step # "tables" /\ ~new.torn /\ new.expected # Unknown =>
                  /\ new.loc[new.pos] = disk.loc[new.pos]
                  /\ new.step = "data" => new.length = new.expected,
           new.step = "done" /\ new.pos # NoBlob /\ ~new.disturbed /\ ~new.torn =>
             new.expected \in {new.result, Unknown}
    PROVE  FreshInv'
<1>1. /\ UNCHANGED <<disk, cache, job, written, acked>>
      /\ \A q \in Readers : reader'[q] = IF q = r THEN new ELSE reader[q]
  BY DEF ReaderStep, TypeInv, RegionTypeOK
<1>2. Generations'
  BY <1>1 DEF FreshInv, Generations
<1>3. \A p \in Pos : Steady(p)' <=> Steady(p)
  BY <1>1 DEF Steady
<1>4. TablesCurrent'
  BY <1>1, <1>3 DEF FreshInv, TablesCurrent
<1>5. NoLookup'
  BY <1>1 DEF FreshInv, NoLookup
<1>6. LookupSettled' /\ LookupCurrent'
  BY <1>1 DEF FreshInv, LookupSettled, LookupCurrent, Undisturbed
<1>7. FreshReads'
  BY <1>1 DEF FreshInv, FreshReads
<1> QED
  BY <1>2, <1>4, <1>5, <1>6, <1>7 DEF FreshInv

\* A chunk that can be read back whole is what both reads of it return.
LEMMA WholeRead ==
    ASSUME TypeInv, SentinelAssumption, AckInv, NEW p \in Pos,
           acked[p] # Unknown, job.step # "idle" => job.blob.pos # p,
           NEW l, l = disk.loc[p]
    PROVE  /\ l.at = 0 => acked[p] = NoBlob
           /\ l.at # 0 => /\ LengthFits(disk, l) /\ disk.length[l.at] = acked[p]
                          /\ Assembled(disk, l.at, acked[p]) = acked[p]
<1>1. Content(p) = acked[p]
  BY DEF AckInv, AckedReadable
<1>2. acked[p] # Torn
  BY DEF TypeInv, RegionTypeOK, SentinelAssumption
<1>3. ASSUME l.at # 0
      PROVE  LengthFits(disk, l) /\ Assembled(disk, l.at, disk.length[l.at]) = acked[p]
  BY <1>1, <1>2, <1>3 DEF Content
<1>4. \A head : Assembled(disk, l.at, head) \in {head, Torn}
  BY DEF Assembled
<1>5. l.at # 0 => disk.length[l.at] = acked[p]
  BY <1>2, <1>3, <1>4
<1> QED
  BY <1>1, <1>3, <1>5 DEF Content

LEMMA ReaderFresh ==
    ASSUME RegionAssumption, SentinelAssumption, TypeInv, AckInv, FreshInv,
           NEW r \in Readers,
           \/ OpenTables(r) \/ OpenGeneration(r)
           \/ \E p \in Pos : Probe(r, p)
           \/ RereadTables(r) \/ ReadLength(r) \/ ReadData(r)
    PROVE  FreshInv'
<1> DEFINE old == reader[r]
<1>0. /\ old \in ReaderState /\ disk.gen \in Nat /\ disk.gen <= disk.gen
      /\ old.gen \in Nat /\ old.probed \in Nat
  BY DEF TypeInv, RegionTypeOK, ReaderState, File
<1>1. CASE OpenTables(r)
  <2> DEFINE new == [Closed EXCEPT !.step = "opening", !.loc = disk.loc, !.gen = disk.gen]
  <2>1. /\ new.step = "opening" /\ new.loc = disk.loc /\ new.gen = disk.gen
        /\ new.pos = NoBlob /\ ~new.torn
    BY DEF Closed
  <2>2. ReaderStep(r, new)
    BY <1>1 DEF OpenTables
  <2> HIDE DEF new
  <2> QED
    BY <2>1, <2>2, <1>0, OwnStep
<1>2. CASE OpenGeneration(r)
  <2> DEFINE new == [old EXCEPT !.step = "done", !.gen = disk.gen,
                                !.torn = old.gen # disk.gen]
  <2>1. /\ new.step = "done" /\ new.loc = old.loc /\ new.gen = disk.gen
        /\ new.pos = old.pos /\ (~new.torn => old.gen = disk.gen)
    BY <1>0 DEF ReaderState
  <2>2. ReaderStep(r, new) /\ old.step = "opening"
    BY <1>2 DEF OpenGeneration
  <2>3. old.pos = NoBlob /\ ~old.torn
    BY <2>2 DEF FreshInv, NoLookup
  <2>4. \A p \in Pos : Steady(p) /\ ~new.torn => old.loc[p] = disk.loc[p]
    BY <2>1, <2>2, <2>3 DEF FreshInv, TablesCurrent
  <2> HIDE DEF new
  <2> QED
    BY <2>1, <2>2, <2>3, <2>4, <1>0, OwnStep
<1>3. ASSUME NEW p \in Pos, Probe(r, p) PROVE FreshInv'
  <2> DEFINE busy == job.step # "idle" /\ job.blob.pos = p
             goto == IF disk.gen = old.gen THEN "length" ELSE "tables"
             new  == [old EXCEPT !.step = goto, !.probed = disk.gen, !.pos = p,
                        !.length = NoBlob, !.result = NoBlob,
                        !.expected = acked[p], !.disturbed = busy]
  <2>1. /\ new.step = goto /\ new.loc = old.loc /\ new.gen = old.gen
        /\ new.probed = disk.gen /\ new.pos = p /\ new.expected = acked[p]
        /\ new.disturbed = busy /\ new.torn = old.torn
    BY <1>0 DEF ReaderState
  <2>2. ReaderStep(r, new) /\ old.step = "done"
    BY <1>3 DEF Probe
  <2> HIDE DEF new
  <2>3. old.gen <= disk.gen
    BY <2>2 DEF FreshInv, Generations
  <2>4. \A q \in Pos : Steady(q) /\ ~old.torn /\ old.gen = disk.gen => old.loc[q] = disk.loc[q]
    BY <2>2 DEF FreshInv, TablesCurrent
  <2>5. acked[p] # Unknown /\ ~busy => Steady(p)
    BY DEF Steady
  <2>6. goto \in {"length", "tables"} /\ (goto = "length" => disk.gen = old.gen)
    OBVIOUS
  <2> HIDE DEF goto
  <2> QED
    BY <2>1, <2>2, <2>3, <2>4, <2>5, <2>6, <1>0, OwnStep
<1>4. CASE RereadTables(r)
  <2> DEFINE new == [old EXCEPT !.step = "length", !.loc = disk.loc,
                                !.gen = old.probed, !.torn = FALSE]
  <2>1. /\ new.step = "length" /\ new.loc = disk.loc /\ new.gen = old.probed
        /\ new.pos = old.pos /\ new.expected = old.expected
        /\ new.disturbed = old.disturbed
    BY <1>0 DEF ReaderState
  <2>2. ReaderStep(r, new) /\ old.step = "tables"
    BY <1>4 DEF RereadTables
  <2> HIDE DEF new
  <2>3. old.probed <= disk.gen
    BY <2>2 DEF FreshInv, Generations
  <2>4. ~old.disturbed => /\ old.expected = acked[old.pos]
                          /\ job.step # "idle" => job.blob.pos # old.pos
    BY <2>2 DEF FreshInv, LookupSettled, Undisturbed
  <2> QED
    BY <2>1, <2>2, <2>3, <2>4, <1>0, OwnStep
<1>a. \A v : /\ Done(r, v).step = "done" /\ Done(r, v).loc = old.loc
             /\ Done(r, v).gen = old.gen /\ Done(r, v).pos = old.pos
             /\ Done(r, v).expected = old.expected /\ Done(r, v).result = v
             /\ Done(r, v).disturbed = old.disturbed /\ Done(r, v).torn = old.torn
  BY <1>0 DEF Done, ReaderState
<1>b. ASSUME NEW v, ReaderStep(r, Done(r, v)), old.step \in {"length", "data"},
             ~old.disturbed /\ ~old.torn => old.expected \in {v, Unknown}
      PROVE  FreshInv'
  <2>1. old.gen <= disk.gen
    BY <1>b DEF FreshInv, Generations
  <2>2. \A q \in Pos : Steady(q) /\ ~old.torn /\ old.gen = disk.gen => old.loc[q] = disk.loc[q]
    BY <1>b DEF FreshInv, TablesCurrent
  <2> DEFINE new == Done(r, v)
  <2>3. /\ new.step = "done" /\ new.loc = old.loc
        /\ new.gen = old.gen /\ new.pos = old.pos
        /\ new.expected = old.expected /\ new.result = v
        /\ new.disturbed = old.disturbed /\ new.torn = old.torn
        /\ ReaderStep(r, new)
    BY <1>a, <1>b
  <2> HIDE DEF new
  <2> QED
    BY <2>1, <2>2, <2>3, <1>b, OwnStep
<1>c. ASSUME old.step \in {"length", "data"}, ~old.disturbed, ~old.torn,
             old.expected # Unknown, NEW l, l = old.loc[old.pos]
      PROVE  /\ l.at = 0 => old.expected = NoBlob
             /\ l.at # 0 => /\ LengthFits(disk, l) /\ disk.length[l.at] = old.expected
                            /\ Assembled(disk, l.at, old.expected) = old.expected
             /\ old.step = "data" => old.length = old.expected
  <2>1. old.pos \in Pos
    BY <1>c DEF TypeInv, ReaderOK
  <2>2. /\ old.expected = acked[old.pos] /\ (job.step # "idle" => job.blob.pos # old.pos)
        /\ l = disk.loc[old.pos] /\ (old.step = "data" => old.length = old.expected)
    BY <1>c DEF FreshInv, LookupSettled, LookupCurrent, Undisturbed
  <2>3. PICK p \in Pos : p = old.pos
    BY <2>1
  <2>4. /\ acked[p] = old.expected /\ l = disk.loc[p] /\ acked[p] # Unknown
        /\ job.step # "idle" => job.blob.pos # p
    BY <2>2, <2>3, <1>c
  <2>5. /\ l.at = 0 => acked[p] = NoBlob
        /\ l.at # 0 => /\ LengthFits(disk, l) /\ disk.length[l.at] = acked[p]
                       /\ Assembled(disk, l.at, acked[p]) = acked[p]
    BY <2>4, WholeRead
  <2> QED
    BY <2>2, <2>4, <2>5
<1>5. CASE ReadLength(r)
  <2> DEFINE l   == old.loc[old.pos]
             new == [old EXCEPT !.step = "data", !.length = disk.length[l.at]]
  <2>1. /\ old.step = "length"
        /\ ReaderStep(r, IF l.at = 0 THEN Done(r, NoBlob)
                         ELSE IF ~LengthFits(disk, l) THEN Done(r, Torn) ELSE new)
    BY <1>5 DEF ReadLength
  <2>2. ~old.disturbed /\ ~old.torn /\ old.expected # Unknown =>
          /\ l.at = 0 => old.expected = NoBlob
          /\ l.at # 0 => LengthFits(disk, l) /\ disk.length[l.at] = old.expected
    BY <2>1, <1>c
  <2>3. CASE l.at = 0
    BY <2>1, <2>2, <2>3, <1>b
  <2>4. CASE l.at # 0 /\ ~LengthFits(disk, l)
    <3>1. ReaderStep(r, Done(r, Torn))
      BY <2>1, <2>4
    <3> QED
      BY <3>1, <2>1, <2>2, <2>4, <1>b
  <2>5. CASE l.at # 0 /\ LengthFits(disk, l)
    <3>1. ReaderStep(r, new)
      BY <2>1, <2>5
    <3>2. /\ new.step = "data" /\ new.loc = old.loc /\ new.gen = old.gen
          /\ new.pos = old.pos /\ new.expected = old.expected
          /\ new.length = disk.length[l.at]
          /\ new.disturbed = old.disturbed /\ new.torn = old.torn
      BY <1>0 DEF ReaderState
    <3>3. old.gen <= disk.gen
      BY <2>1 DEF FreshInv, Generations
    <3>4. \A q \in Pos : Steady(q) /\ ~old.torn /\ old.gen = disk.gen => old.loc[q] = disk.loc[q]
      BY <2>1 DEF FreshInv, TablesCurrent
    <3>5. ~old.disturbed =>
            /\ old.expected = acked[old.pos]
            /\ job.step # "idle" => job.blob.pos # old.pos
            /\ ~old.torn /\ old.expected # Unknown => l = disk.loc[old.pos]
      BY <2>1 DEF FreshInv, LookupSettled, LookupCurrent, Undisturbed
    <3> HIDE DEF new
    <3> QED
      BY <3>1, <3>2, <3>3, <3>4, <3>5, <2>2, <2>5, OwnStep
  <2> QED
    BY <2>3, <2>4, <2>5
<1>6. CASE ReadData(r)
  <2> DEFINE l == old.loc[old.pos]
             v == Assembled(disk, l.at, old.length)
  <2>1. old.step = "data" /\ ReaderStep(r, Done(r, v)) /\ old.length \in Blobs
    BY <1>6 DEF ReadData, TypeInv, ReaderOK
  <2>2. ~old.disturbed /\ ~old.torn /\ old.expected # Unknown => v = old.expected
    <3>1. NoBlob \notin Blobs
      BY DEF SentinelAssumption
    <3> QED
      BY <2>1, <3>1, <1>c
  <2> HIDE DEF v
  <2> QED
    BY <2>1, <2>2, <1>b
<1> QED
  BY <1>1, <1>2, <1>3, <1>4, <1>5, <1>6

LEMMA StepFresh ==
    ASSUME ~PowerLoss, MaxWrites < GenModulus, TypeInv, TypeInv', ExtentInv, AckInv,
           FreshInv, [Next]_vars
    PROVE  FreshInv'
<1> USE RegionAssumption, SentinelAssumption
<1>1. CASE WriterStep
  BY <1>1, WriterFresh
<1>2. CASE Crash
  BY <1>2, CrashFresh DEF ExtentInv, PlatterIsDisk
<1>3. ASSUME NEW r \in Readers,
             \/ OpenTables(r) \/ OpenGeneration(r)
             \/ \E p \in Pos : Probe(r, p)
             \/ RereadTables(r) \/ ReadLength(r) \/ ReadData(r)
      PROVE  FreshInv'
  BY <1>3, ReaderFresh
<1>4. CASE UNCHANGED vars
  <2>1. UNCHANGED <<disk, cache, job, reader, written, acked>>
    BY <1>4 DEF vars
  <2>2. \A p \in Pos : Steady(p)' <=> Steady(p)
    BY <2>1 DEF Steady
  <2>3. Generations' /\ TablesCurrent' /\ NoLookup' /\ FreshReads'
    BY <2>1, <2>2 DEF FreshInv, Generations, TablesCurrent, NoLookup, FreshReads
  <2>4. LookupSettled' /\ LookupCurrent'
    BY <2>1 DEF FreshInv, LookupSettled, LookupCurrent, Undisturbed
  <2> QED
    BY <2>3, <2>4 DEF FreshInv
<1> QED
  BY <1>1, <1>2, <1>3, <1>4 DEF Next

\* STOR-003: however old a reader's tables are, a lookup that no save of its
\* position overlaps returns the last saved chunk, through failed saves and
\* crashes that lose no written byte, as long as the 32-bit generation has not
\* come round.
THEOREM ReadsAreFresh ==
    ASSUME ~PowerLoss, MaxWrites < GenModulus PROVE Spec => []FreshReads
<1> DEFINE Inv == TypeInv /\ ExtentInv /\ OwnInv /\ AckInv /\ FreshInv
<1>1. Init => Inv
  BY InitTypes, InitExtents, InitOwn, InitAck, InitFresh, RegionAssumption, SentinelAssumption
<1>2. Inv /\ [Next]_vars => Inv'
  BY StepTypes, StepExtents, StepOwn, StepAck, StepFresh
<1>3. Inv => FreshReads
  BY DEF FreshInv
<1> QED
  BY <1>1, <1>2, <1>3, PTL DEF Spec
=============================================================================
