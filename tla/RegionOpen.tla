----------------------------- MODULE RegionOpen -----------------------------
(***************************************************************************)
(* Opening a region file (RegionFile::open of storage/region.rs): a new    *)
(* file is initialised, an old-format one is rebuilt beside it and renamed *)
(* over it.  The storage worker and every chunk loader thread open the     *)
(* file on their own, whenever they first need it, without a lock.         *)
(*                                                                         *)
(* A file is its format and the positions its location table reaches;      *)
(* paths name files and can be renamed while a handle stays open.  The     *)
(* reads and writes of an opened file are module RegionFile.               *)
(***************************************************************************)
EXTENDS Integers, FiniteSets

CONSTANTS
    Writer,       \* the storage worker
    Openers,      \* the threads that open the file, Writer and readers
    Pos,          \* chunk positions of the region
    Starts,       \* formats the file may have at first: NoFile, "v1", "v2"
    MaxFiles,     \* bound: files ever created
    MaxCrashes,   \* bound: crashes
    NoFile        \* a path without a file

ASSUME OpenAssumption ==
    /\ Starts \subseteq {NoFile, "v1", "v2"}
    /\ MaxFiles \in Nat \ {0} /\ MaxCrashes \in Nat
    /\ NoFile \notin 1 .. MaxFiles /\ NoFile \notin STRING

Readers == Openers \ {Writer}
Files == 1 .. MaxFiles

VARIABLES
    file,     \* the files: format and positions reached by the table
    path,     \* the file at r.X.Z.vxr
    tmp,      \* the file at r.X.Z.vxr.migrate.tmp
    opener,   \* per opener: next step of open, handle, tmp handle, image
    stored,   \* observer: the positions saved and never lost by the program
    missed,   \* observer: how load_chunk came to call a saved chunk not saved
    raced,    \* observer: somebody had the file open, or was opening it, while
              \* another thread initialised or migrated it
    crashes

vars == <<file, path, tmp, opener, stored, missed, raced, crashes>>

\* "sized": init_new has set the length and not yet written the header.
Formats == {"unused", "empty", "sized", "v1", "v2"}
Steps == {"closed", "classify", "init", "header", "read_old", "create_tmp",
          "write_tmp", "rename", "reopen", "open"}
\* The steps between the first look at the file and its last change.
Changing == {"init", "header", "read_old", "create_tmp", "write_tmp", "rename", "reopen"}
Closed == [step |-> "closed", on |-> NoFile, tmp |-> NoFile, image |-> {}]
Empty == [format |-> "empty", table |-> {}]

RegionOpenTypeOK ==
    /\ file \in [Files -> [format : Formats, table : SUBSET Pos]]
    /\ path \in Files \cup {NoFile} /\ tmp \in Files \cup {NoFile}
    /\ opener \in [Openers -> [step : Steps, on : Files \cup {NoFile},
                               tmp : Files \cup {NoFile}, image : SUBSET Pos]]
    /\ stored \in SUBSET Pos /\ missed \in SUBSET {"read", "open"}
    /\ raced \in BOOLEAN
    /\ crashes \in 0 .. MaxCrashes
    /\ \A o \in Openers : opener[o].step # "closed" => opener[o].on \in Files

Init ==
    /\ \E start \in Starts :
         IF start = NoFile
         THEN /\ path = NoFile /\ stored = {}
              /\ file = [f \in Files |-> [format |-> "unused", table |-> {}]]
         ELSE /\ path = 1 /\ stored \in SUBSET Pos
              /\ file = [f \in Files |-> IF f = 1 THEN [format |-> start, table |-> stored]
                                         ELSE [format |-> "unused", table |-> {}]]
    /\ tmp = NoFile
    /\ opener = [o \in Openers |-> Closed]
    /\ missed = {} /\ raced = FALSE /\ crashes = 0

-----------------------------------------------------------------------------

Overlap(new, other) ==
    /\ new.step # "closed" /\ other.step # "closed"
    /\ new.step \in Changing \/ other.step \in Changing

Go(o, new) ==
    /\ opener' = [opener EXCEPT ![o] = new]
    /\ UNCHANGED <<stored, crashes>>
    /\ raced' = (raced \/ \E q \in Openers \ {o} : Overlap(new, opener[q]))

At(o, step) == opener[o].step = step
To(o, step) == [opener[o] EXCEPT !.step = step]
Handle(o) == opener[o].on

Fresh(f) == file[f].format = "unused" /\ \A g \in 1 .. f - 1 : file[g].format # "unused"

\* OpenOptions::open with create: the worker makes a missing file.  A reader
\* looks for the file first.
Open(o) ==
    /\ At(o, "closed")
    /\ \/ /\ path # NoFile
          /\ Go(o, [Closed EXCEPT !.step = "classify", !.on = path])
          /\ UNCHANGED <<file, path>>
       \/ /\ path = NoFile /\ o = Writer
          /\ \E f \in Files :
               /\ Fresh(f)
               /\ file' = [file EXCEPT ![f] = Empty]
               /\ path' = f
               /\ Go(o, [Closed EXCEPT !.step = "classify", !.on = f])
    /\ UNCHANGED <<tmp, missed>>

\* Mutant: an old file is opened as it is.
ClassifyOldAsNew(o) ==
    /\ At(o, "classify")
    /\ Go(o, To(o, IF file[Handle(o)].format = "empty" THEN "init" ELSE "open"))
    /\ UNCHANGED <<file, path, tmp, missed>>

\* Marker, else old header length, else new.
Classify(o) ==
    /\ At(o, "classify")
    /\ Go(o, To(o, CASE file[Handle(o)].format = "v2" -> "open"
                     [] file[Handle(o)].format \in {"v1", "sized"} -> "read_old"
                     [] OTHER -> "init"))
    /\ UNCHANGED <<file, path, tmp, missed>>

\* init_new: set_len cuts off whatever the file held behind the header; a
\* marker that is already there stays until the header is written.
InitLength(o) ==
    /\ At(o, "init")
    /\ file' = [file EXCEPT ![Handle(o)] =
           [format |-> IF @.format = "v2" THEN "v2" ELSE "sized", table |-> {}]]
    /\ Go(o, To(o, "header"))
    /\ UNCHANGED <<path, tmp, missed>>

InitHeader(o) ==
    /\ At(o, "header")
    /\ file' = [file EXCEPT ![Handle(o)] = [format |-> "v2", table |-> {}]]
    /\ Go(o, To(o, "open"))
    /\ UNCHANGED <<path, tmp, missed>>

\* migrate_v1: the records the old table reaches.
ReadOld(o) ==
    /\ At(o, "read_old")
    /\ Go(o, [To(o, "create_tmp") EXCEPT !.image = file[Handle(o)].table])
    /\ UNCHANGED <<file, path, tmp, missed>>

\* Mutant: the old file itself is truncated and rebuilt.
CreateInPlace(o) ==
    /\ At(o, "create_tmp")
    /\ file' = [file EXCEPT ![Handle(o)] = Empty]
    /\ Go(o, [To(o, "write_tmp") EXCEPT !.tmp = Handle(o)])
    /\ UNCHANGED <<path, tmp, missed>>

\* create and truncate: a file left at the tmp path is used again.
CreateTmp(o) ==
    /\ At(o, "create_tmp")
    /\ \E f \in Files :
         /\ IF tmp = NoFile THEN Fresh(f) ELSE f = tmp
         /\ file' = [file EXCEPT ![f] = Empty]
         /\ tmp' = f
         /\ Go(o, [To(o, "write_tmp") EXCEPT !.tmp = f])
    /\ UNCHANGED <<path, missed>>

\* Mutant: the table of the new image is left empty.
WriteTmpWithoutTable(o) ==
    /\ At(o, "write_tmp")
    /\ file' = [file EXCEPT ![opener[o].tmp] = [format |-> "v2", table |-> {}]]
    /\ Go(o, To(o, "rename"))
    /\ UNCHANGED <<path, tmp, missed>>

\* One write of the whole image, header and records, then the sync.
WriteTmp(o) ==
    /\ At(o, "write_tmp")
    /\ file' = [file EXCEPT ![opener[o].tmp] = [format |-> "v2", table |-> opener[o].image]]
    /\ Go(o, To(o, "rename"))
    /\ UNCHANGED <<path, tmp, missed>>

\* An error of open: load_chunk of a reader answers Ok(None) for the position
\* it was opening the file for, the worker logs it; the next call opens again.
OpenError(o) ==
    /\ Go(o, Closed)
    /\ \E p \in Pos : missed' = IF o # Writer /\ p \in stored THEN missed \cup {"open"} ELSE missed

\* An I/O error of the operating system in any step of open, the first one too.
OpenFails(o) ==
    /\ ~At(o, "open") /\ (At(o, "closed") => path # NoFile)
    /\ OpenError(o)
    /\ UNCHANGED <<file, path, tmp>>

Rename(o) ==
    /\ At(o, "rename")
    /\ \/ /\ tmp # NoFile
          /\ path' = tmp /\ tmp' = NoFile
          /\ Go(o, To(o, "reopen"))
          /\ UNCHANGED missed
       \/ /\ tmp = NoFile
          /\ OpenError(o)
          /\ UNCHANGED <<path, tmp>>
    /\ UNCHANGED file

\* load_v2 of whatever is at the path now; an empty file is an error.
Reopen(o) ==
    /\ At(o, "reopen")
    /\ \/ /\ file[path].format # "empty"
          /\ Go(o, [Closed EXCEPT !.step = "open", !.on = path])
          /\ UNCHANGED missed
       \/ /\ file[path].format = "empty"
          /\ OpenError(o)
    /\ UNCHANGED <<file, path, tmp>>

\* load_chunk of a reader, for a missing file and through its handle.
Load(o, p) ==
    /\ o \in Readers
    /\ \/ At(o, "closed") /\ path = NoFile
       \/ At(o, "open")
    /\ missed' = IF p \in stored /\ (path = NoFile \/ p \notin file[Handle(o)].table)
                 THEN missed \cup {"read"} ELSE missed
    /\ UNCHANGED <<file, path, tmp, opener, stored, raced, crashes>>

\* write_chunk through the worker's handle.
Save(p) ==
    /\ At(Writer, "open")
    /\ file' = [file EXCEPT ![Handle(Writer)].table = @ \cup {p}]
    /\ stored' = stored \cup {p}
    /\ UNCHANGED <<path, tmp, opener, missed, raced, crashes>>

Crash ==
    /\ crashes < MaxCrashes
    /\ crashes' = crashes + 1
    /\ opener' = [o \in Openers |-> Closed]
    /\ UNCHANGED <<file, path, tmp, stored, missed, raced>>

Next ==
    \/ \E o \in Openers :
         \/ Open(o) \/ Classify(o) \/ InitLength(o) \/ InitHeader(o)
         \/ ReadOld(o) \/ CreateTmp(o) \/ WriteTmp(o) \/ Rename(o) \/ Reopen(o)
         \/ OpenFails(o)
         \/ \E p \in Pos : Load(o, p)
    \/ \E p \in Pos : Writer \in Openers /\ Save(p)
    \/ Crash

Spec == Init /\ [][Next]_vars

-----------------------------------------------------------------------------
(* Properties.                                                             *)

\* Whenever the process may die, or a step of open fail, the file at the path
\* reaches every chunk ever saved, unless a thread initialised or migrated it
\* while another had it open: the migration, whoever does it, replaces the
\* file in one step and can be repeated.
PathReachesSaved == ~raced => stored \subseteq (IF path = NoFile THEN {} ELSE file[path].table)

\* Whoever ends up with an open handle, however the opens of several threads
\* race, has a file of the current format: an old location table is never
\* read as a new one.
OpenIsMigrated ==
    /\ RegionOpenTypeOK
    /\ \A o \in Openers : At(o, "open") => file[Handle(o)].format # "v1"

\* On the same condition load_chunk answers Ok(None) for a saved chunk in one
\* way only: its own open of the file failed.  No crash, failed open or
\* migration of another thread makes an opened or missing file hide a chunk.
SavedIsFound == ~raced => missed \subseteq {"open"}
=============================================================================
