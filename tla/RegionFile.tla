----------------------------- MODULE RegionFile -----------------------------
(***************************************************************************)
(* A region file (storage/region.rs) shared by one writer, the storage     *)
(* worker thread, and by the readers of the chunk loader threads, each     *)
(* with a handle and cached tables of its own (storage/worker.rs).         *)
(*                                                                         *)
(* The file is a row of sectors.  A saved chunk is a length word at the    *)
(* start of its first sector and data up to its last one; the header holds *)
(* a location per position and the write generation.  Every write call of  *)
(* write_chunk and every read call of a reader is one action.  The file    *)
(* exists and is in the current format: opening a missing or an old one is *)
(* module RegionOpen.  Timestamps are never read and left out.             *)
(***************************************************************************)
EXTENDS Integers

CONSTANTS
    Pos,              \* chunk positions of the region
    Readers,          \* reader handles
    Sizes,            \* sectors a serialized chunk may need
    CountLimit,       \* u8::MAX, the largest count a location can hold
    HeaderSectors,    \* HEADER_SECTORS
    LastSector,       \* bound: the last sector of the disk
    GenModulus,       \* the generation wraps here (2^32)
    PowerLoss,        \* whether a crash may lose what was not synced
    MaxWrites,        \* bound: saves begun
    MaxFailures,      \* bound: saves that fail with an I/O error
    MaxCrashes,       \* bound: crashes
    NoBlob,           \* no chunk saved
    Torn,             \* bytes that are no chunk: read_chunk or the
                      \* decompression returns an error
    Unknown           \* observer: a save that stopped half way

ASSUME RegionAssumption ==
    /\ Sizes \subseteq Nat \ {0}
    /\ CountLimit \in Nat /\ HeaderSectors \in Nat \ {0} /\ LastSector \in Nat
    /\ GenModulus \in Nat \ {0}
    /\ PowerLoss \in BOOLEAN
    /\ MaxWrites \in Nat /\ MaxFailures \in Nat /\ MaxCrashes \in Nat

\* The serialized chunks; the number tells the saves of a position apart.
Blobs == [pos : Pos, number : 1 .. MaxWrites, size : Sizes]

ASSUME SentinelAssumption ==
    /\ {NoBlob, Torn, Unknown} \cap Blobs = {} /\ NoBlob \notin Pos
    /\ NoBlob # Torn /\ NoBlob # Unknown

VARIABLES
    disk,     \* the file as every handle sees it
    platter,  \* the file as it is after a power loss
    cache,    \* the writer's RegionFile: locations and generation
    job,      \* write_chunk in progress: next step, chunk, first sector
    reader,   \* per reader: its RegionFile and the load_chunk in progress, with
              \* the last finished save when it began, whether one overlaps, and
              \* whether load_v2 read the header around a save
    written,  \* saves begun
    failures, \* saves failed
    crashes,  \* crashes
    acked     \* observer: the last finished save of a position

vars == <<disk, platter, cache, job, reader, written, failures, crashes, acked>>

Sectors == 0 .. LastSector
Location == [at : Sectors, count : 0 .. CountLimit]
Unset == [at |-> 0, count |-> 0]
NoLocations == [p \in Pos |-> Unset]

File == [eof : Nat, length : [Sectors -> Blobs \cup {NoBlob}],
         data : [Sectors -> Blobs \cup {NoBlob}],
         loc : [Pos -> Location], gen : Nat]

WriteSteps == {"idle", "length", "data", "location", "generation", "sync"}
ReadSteps == {"closed", "opening", "tables", "length", "data", "done"}

Idle == [step |-> "idle", blob |-> NoBlob, at |-> 0]
Closed == [step |-> "closed", loc |-> NoLocations, gen |-> 0, probed |-> 0,
           pos |-> NoBlob, length |-> NoBlob, result |-> NoBlob,
           expected |-> NoBlob, disturbed |-> FALSE, torn |-> FALSE]

ReaderState ==
    [step : ReadSteps, loc : [Pos -> Location], gen : Nat, probed : Nat,
     pos : Pos \cup {NoBlob}, length : Blobs \cup {NoBlob},
     result : Blobs \cup {NoBlob, Torn}, expected : Blobs \cup {NoBlob, Unknown},
     disturbed : BOOLEAN, torn : BOOLEAN]

RegionTypeOK ==
    /\ disk \in File /\ platter \in File
    /\ cache \in [loc : [Pos -> Location], gen : Nat]
    /\ job \in [step : WriteSteps, blob : Blobs \cup {NoBlob}, at : Sectors]
    /\ reader \in [Readers -> ReaderState]
    /\ written \in 0 .. MaxWrites
    /\ failures \in 0 .. MaxFailures /\ crashes \in 0 .. MaxCrashes
    /\ acked \in [Pos -> Blobs \cup {NoBlob, Unknown}]

\* The file init_new leaves behind.
EmptyFile == [eof |-> HeaderSectors, length |-> [s \in Sectors |-> NoBlob],
              data |-> [s \in Sectors |-> NoBlob], loc |-> NoLocations, gen |-> 0]

Init ==
    /\ disk = EmptyFile /\ platter = EmptyFile
    /\ cache = [loc |-> NoLocations, gen |-> 0]
    /\ job = Idle
    /\ reader = [r \in Readers |-> Closed]
    /\ written = 0 /\ failures = 0 /\ crashes = 0
    /\ acked = [p \in Pos |-> NoBlob]

-----------------------------------------------------------------------------
(* write_chunk, one write call after the other.                            *)

Larger(a, b) == IF a > b THEN a ELSE b

\* Mutant: a chunk that has grown stays where it is.
FirstSectorInPlace(p, size) ==
    IF cache.loc[p].at = 0 THEN Larger(disk.eof, HeaderSectors) ELSE cache.loc[p].at

\* Mutant: the end of the file is rounded down to a sector.
FirstSectorRoundedDown(p, size) ==
    IF cache.loc[p].at = 0 \/ size > cache.loc[p].count
    THEN Larger(disk.eof - 1, HeaderSectors)
    ELSE cache.loc[p].at

\* In place when the chunk still fits, else at the end of the file.
FirstSector(p, size) ==
    IF cache.loc[p].at = 0 \/ size > cache.loc[p].count
    THEN Larger(disk.eof, HeaderSectors)
    ELSE cache.loc[p].at

\* Mutant: the count is not checked.
PackableAlways(size) == TRUE

\* pack_location rejects a count that does not fit before anything is written.
Packable(size) == size <= CountLimit

\* A read of p is disturbed by a save of p that overlaps it.
Disturb(p) ==
    [r \in Readers |-> IF reader[r].pos = p /\ reader[r].step # "done"
                       THEN [reader[r] EXCEPT !.disturbed = TRUE] ELSE reader[r]]

StartWrite(p, size) ==
    /\ job.step = "idle" /\ written < MaxWrites
    /\ Packable(size)
    /\ FirstSector(p, size) + size - 1 <= LastSector
    /\ job' = [step |-> "length", at |-> FirstSector(p, size),
               blob |-> [pos |-> p, number |-> written + 1, size |-> size]]
    /\ written' = written + 1
    /\ reader' = Disturb(p)
    /\ UNCHANGED <<disk, platter, cache, failures, crashes, acked>>

\* What each write call does to the file f.
PutLength(f) == [f EXCEPT !.eof = Larger(@, job.at + 1), !.length[job.at] = job.blob]

PutData(f) ==
    [f EXCEPT !.eof = Larger(@, job.at + job.blob.size),
              !.data = [s \in Sectors |-> IF job.at <= s /\ s < job.at + job.blob.size
                                          THEN job.blob ELSE @[s]]]

\* Mutant: the location of a chunk that moved is not written again.
PutFirstLocation(f) ==
    IF f.loc[job.blob.pos].at # 0 THEN f
    ELSE [f EXCEPT !.loc[job.blob.pos] = [at |-> job.at, count |-> job.blob.size]]

PutLocation(f) == [f EXCEPT !.loc[job.blob.pos] = [at |-> job.at, count |-> job.blob.size]]

PutGeneration(f) == [f EXCEPT !.gen = cache.gen]

\* Every handle sees a write call at once; until the sync it may or may not
\* have reached the platter.
Written(Put(_)) ==
    /\ disk' = Put(disk)
    /\ \/ platter' = Put(platter)
       \/ PowerLoss /\ platter' = platter

Advance(from, to) ==
    /\ job.step = from
    /\ job' = [job EXCEPT !.step = to]
    /\ UNCHANGED <<reader, written, failures, crashes>>

WriteLength ==
    /\ Advance("length", "data")
    /\ Written(PutLength)
    /\ UNCHANGED <<cache, acked>>

\* Data and padding; then the cached location changes.
WriteData ==
    /\ Advance("data", "location")
    /\ Written(PutData)
    /\ cache' = [cache EXCEPT !.loc[job.blob.pos] = [at |-> job.at, count |-> job.blob.size]]
    /\ UNCHANGED acked

\* Mutant: the generation is not bumped.
WriteLocationOnly ==
    /\ Advance("location", "generation")
    /\ Written(PutLocation)
    /\ UNCHANGED <<cache, acked>>

\* The location entry; then the cached generation is bumped.
WriteLocation ==
    /\ Advance("location", "generation")
    /\ Written(PutLocation)
    /\ cache' = [cache EXCEPT !.gen = (@ + 1) % GenModulus]
    /\ UNCHANGED acked

WriteGeneration ==
    /\ Advance("generation", "sync")
    /\ Written(PutGeneration)
    /\ UNCHANGED <<cache, acked>>

\* Mutant: write_chunk returns without the sync.
SyncMissing ==
    /\ job.step = "sync"
    /\ job' = Idle
    /\ acked' = [acked EXCEPT ![job.blob.pos] = job.blob]
    /\ UNCHANGED <<disk, platter, cache, reader, written, failures, crashes>>

\* flush: the save is on stable storage and write_chunk returns Ok.
Sync ==
    /\ job.step = "sync"
    /\ platter' = disk
    /\ job' = Idle
    /\ acked' = [acked EXCEPT ![job.blob.pos] = job.blob]
    /\ UNCHANGED <<disk, cache, reader, written, failures, crashes>>

InDoubt == IF job.step = "idle" THEN acked ELSE [acked EXCEPT ![job.blob.pos] = Unknown]

\* A write call or the sync returns an error: write_chunk returns it, the
\* storage worker logs it and goes on.
FailWrite ==
    /\ job.step # "idle" /\ failures < MaxFailures
    /\ failures' = failures + 1
    /\ job' = Idle
    /\ acked' = InDoubt
    /\ UNCHANGED <<disk, platter, cache, reader, written, crashes>>

\* The process ends between two steps and starts again: all handles are
\* reopened with load_v2, the readers' lazily.
Crash ==
    /\ crashes < MaxCrashes
    /\ crashes' = crashes + 1
    /\ disk' = platter
    /\ platter' = platter
    /\ cache' = [loc |-> platter.loc, gen |-> platter.gen]
    /\ job' = Idle
    /\ reader' = [r \in Readers |-> Closed]
    /\ acked' = InDoubt
    /\ UNCHANGED <<written, failures>>

-----------------------------------------------------------------------------
(* A reader: RegionFile::open, refresh_if_stale, read_chunk.               *)

ReaderStep(r, new) ==
    /\ reader' = [reader EXCEPT ![r] = new]
    /\ UNCHANGED <<disk, platter, cache, job, written, failures, crashes, acked>>

\* load_v2: one read of the header, the generation behind the tables.  The
\* file system need not return 130 KiB of one moment.
OpenTables(r) ==
    /\ reader[r].step = "closed"
    /\ ReaderStep(r, [Closed EXCEPT !.step = "opening", !.loc = disk.loc, !.gen = disk.gen])

OpenGeneration(r) ==
    /\ reader[r].step = "opening"
    /\ ReaderStep(r, [reader[r] EXCEPT !.step = "done", !.gen = disk.gen, !.torn = reader[r].gen # disk.gen])

\* load_chunk begins with the probe of the generation.
Probe(r, p) ==
    /\ reader[r].step = "done"
    /\ ReaderStep(r, [reader[r] EXCEPT
           !.step = IF disk.gen = reader[r].gen THEN "length" ELSE "tables",
           !.probed = disk.gen, !.pos = p, !.length = NoBlob, !.result = NoBlob,
           !.expected = acked[p], !.disturbed = job.step # "idle" /\ job.blob.pos = p])

\* The generation moved on: the tables are read again.
RereadTables(r) ==
    /\ reader[r].step = "tables"
    /\ ReaderStep(r, [reader[r] EXCEPT !.step = "length", !.loc = disk.loc,
                                       !.gen = reader[r].probed, !.torn = FALSE])

Done(r, result) == [reader[r] EXCEPT !.step = "done", !.result = result]

\* The length word at location l of file f is one that read_chunk accepts: not
\* past the end of the file and not beyond the sectors of the location.
LengthFits(f, l) ==
    IF l.at >= f.eof \/ f.length[l.at] = NoBlob THEN FALSE
    ELSE f.length[l.at].size <= l.count

\* read_chunk: no location, no chunk; a bad length is an error.
ReadLength(r) ==
    LET l == reader[r].loc[reader[r].pos]
    IN  /\ reader[r].step = "length"
        /\ ReaderStep(r, IF l.at = 0 THEN Done(r, NoBlob)
                         ELSE IF ~LengthFits(disk, l) THEN Done(r, Torn)
                         ELSE [reader[r] EXCEPT !.step = "data", !.length = disk.length[l.at]])

\* The chunk that sectors at .. at + head.size - 1 of file f hold.
Assembled(f, at, head) ==
    IF \A s \in at .. at + head.size - 1 : s < f.eof /\ f.data[s] = head
    THEN head ELSE Torn

ReadData(r) ==
    /\ reader[r].step = "data"
    /\ ReaderStep(r, Done(r, Assembled(disk, reader[r].loc[reader[r].pos].at,
                                       reader[r].length)))

-----------------------------------------------------------------------------

WriterStep ==
    \/ \E p \in Pos, size \in Sizes : StartWrite(p, size)
    \/ WriteLength \/ WriteData \/ WriteLocation \/ WriteGeneration \/ Sync
    \/ FailWrite

Next ==
    \/ WriterStep
    \/ Crash
    \/ \E r \in Readers :
         \/ OpenTables(r) \/ OpenGeneration(r)
         \/ \E p \in Pos : Probe(r, p)
         \/ RereadTables(r) \/ ReadLength(r) \/ ReadData(r)

Spec == Init /\ [][Next]_vars

-----------------------------------------------------------------------------
(* Properties.                                                             *)

\* What a fresh handle would read back at p.
Content(p) ==
    LET l == disk.loc[p]
    IN  IF l.at = 0 THEN NoBlob
        ELSE IF LengthFits(disk, l) THEN Assembled(disk, l.at, disk.length[l.at]) ELSE Torn

\* No reader ever gets the chunk of another position, however its reads
\* interleave with write_chunk.
ReadsOwnData == \A r \in Readers : reader[r].result \in Blobs => reader[r].result.pos = reader[r].pos

\* STOR-003: a read that no save of its position overlaps returns the last
\* saved chunk, however old the reader's tables were.  It takes a header that
\* was opened in one piece: tables older than their generation are believed.
FreshReads ==
    \A r \in Readers :
        reader[r].step = "done" /\ reader[r].pos # NoBlob
            /\ ~reader[r].disturbed /\ ~reader[r].torn =>
            reader[r].expected \in {reader[r].result, Unknown}

\* The sectors of two locations.
Apart(l, k) == l.at = 0 \/ k.at = 0 \/ l.at + l.count <= k.at \/ k.at + k.count <= l.at

\* Two positions never share a sector, in the file or in the writer's cache:
\* a chunk record does not name its position, so nothing would notice.
ExtentsDisjoint ==
    \A p, q \in Pos : p # q =>
        /\ Apart(disk.loc[p], disk.loc[q])
        /\ Apart(cache.loc[p], cache.loc[q])

\* A finished save stays readable until the next save of its position begins.
AckedReadable ==
    \A p \in Pos : acked[p] # Unknown /\ (job.step # "idle" => job.blob.pos # p) =>
        Content(p) = acked[p]

\* A crash damages at most the position that was being saved, even if it
\* loses any part of what was not yet synced.
CrashIsLocal ==
    [][crashes' # crashes =>
         \A p \in Pos : acked'[p] # Unknown => Content(p)' = acked[p]]_vars

\* The file is a map from positions to chunks: seen through the location
\* table, the calls of write_chunk only ever touch the position being saved.
Store == INSTANCE ChunkStore WITH
    stored <- [p \in Pos |-> Content(p)], putting <- job.blob

ImplementsStore == Store!Spec
=============================================================================
