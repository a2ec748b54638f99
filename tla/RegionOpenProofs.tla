-------------------------- MODULE RegionOpenProofs --------------------------
(***************************************************************************)
(* Proofs about opening a region file (module RegionOpen): whichever       *)
(* threads race to open, initialise or migrate it and wherever the process *)
(* dies, an open handle never has the old format; and as long as nobody    *)
(* has the file open while another thread initialises or migrates it, no   *)
(* saved chunk is lost, and only a failed open calls one not saved.        *)
(***************************************************************************)
EXTENDS RegionOpen, TLAPS

-----------------------------------------------------------------------------
(* The inductive invariant.                                                *)

\* A path, and the handle of whoever has begun to open, name a file that was
\* created; the temporary file is never the region file.
UsedInv ==
    /\ path # NoFile => file[path].format # "unused"
    /\ tmp # NoFile => file[tmp].format # "unused" /\ tmp # path
    /\ \A o \in Openers : ~At(o, "closed") =>
          path # NoFile /\ file[Handle(o)].format # "unused"

\* No file of the old format is the temporary one or is written as such, so
\* after a rename the path does not name one either.
OldInv ==
    /\ tmp # NoFile => file[tmp].format # "v1"
    /\ \A o \in Openers :
         /\ opener[o].step \in {"write_tmp", "rename"} =>
               opener[o].tmp \in Files /\ file[opener[o].tmp].format # "v1"
         /\ At(o, "reopen") => file[path].format # "v1"
         /\ At(o, "open") => file[Handle(o)].format # "v1"

Blank == {"unused", "empty", "sized"}
Old == {"v1", "sized"}

\* What a thread in open may rely on as long as nobody changes the file under
\* it: it opened the file that is at the path, it initialises only what holds
\* nothing, and the image it writes is the file it is going to replace.
OpenerInv ==
    \A o \in Openers : ~At(o, "closed") =>
      /\ ~At(o, "reopen") => Handle(o) = path
      /\ opener[o].step \in {"init", "header"} => file[path].format \in Blank
      /\ opener[o].step \in {"read_old", "create_tmp", "write_tmp", "rename"} =>
            file[path].format \in Old
      /\ opener[o].step \in {"create_tmp", "write_tmp", "rename"} =>
            opener[o].image = file[path].table
      /\ opener[o].step \in {"write_tmp", "rename"} => opener[o].tmp = tmp
      /\ At(o, "rename") => file[tmp].table = opener[o].image /\ file[tmp].format = "v2"
      /\ opener[o].step \in {"reopen", "open"} => file[path].format = "v2"

\* Who initialises or migrates is the only one that has the file open.
AloneInv ==
    \A o \in Openers : opener[o].step \in Changing =>
      \A q \in Openers \ {o} : At(q, "closed")

\* A file without the marker or an old header reaches nothing.
BlankInv == \A f \in Files : file[f].format \in Blank => file[f].table = {}

SingleInv ==
    ~raced => BlankInv /\ OpenerInv /\ AloneInv /\ PathReachesSaved /\ SavedIsFound
-----------------------------------------------------------------------------
(* What each step does to the openers and the files, with their types.     *)

FileRec == [format : Formats, table : SUBSET Pos]
OpenerRec == [step : Steps, on : Files \cup {NoFile}, tmp : Files \cup {NoFile},
              image : SUBSET Pos]
OtherOpeners(o) == \A q \in Openers \ {o} : opener'[q] = opener[q]
OtherFiles(f) == \A g \in Files \ {f} : file'[g] = file[g]
Race(o) == raced' = (raced \/ \E q \in Openers \ {o} : Overlap(opener'[o], opener[q]))

LEMMA Constants == 1 \in Files /\ NoFile \notin Files
  BY OpenAssumption DEF Files

\* A step of open changes the state of its own thread only.
LEMMA GoEffect ==
  ASSUME RegionOpenTypeOK, NEW o \in Openers, NEW new \in OpenerRec, Go(o, new),
         new.step # "closed" => new.on \in Files
  PROVE  /\ opener' \in [Openers -> OpenerRec]
         /\ opener'[o] = new /\ OtherOpeners(o) /\ Race(o)
         /\ raced' \in BOOLEAN /\ stored' = stored /\ crashes' = crashes
         /\ \A q \in Openers : opener'[q].step # "closed" => opener'[q].on \in Files
<1>1. opener \in [Openers -> OpenerRec] /\ raced \in BOOLEAN
  BY DEF RegionOpenTypeOK, OpenerRec
<1>2. opener' = [opener EXCEPT ![o] = new]
  BY DEF Go
<1>3. opener' \in [Openers -> OpenerRec] /\ opener'[o] = new /\ OtherOpeners(o)
  BY <1>1, <1>2 DEF OtherOpeners
<1>4. Race(o) /\ stored' = stored /\ crashes' = crashes
  BY <1>3 DEF Go, Race
<1>5. raced' \in BOOLEAN
  BY <1>1, <1>4 DEF Race
<1>6. \A q \in Openers : opener'[q].step # "closed" => opener'[q].on \in Files
  BY <1>3 DEF OtherOpeners, RegionOpenTypeOK
<1> QED BY <1>3, <1>4, <1>5, <1>6

LEMMA ToFields ==
  ASSUME RegionOpenTypeOK, NEW o \in Openers, NEW s \in Steps
  PROVE  /\ To(o, s) \in OpenerRec
         /\ To(o, s).step = s /\ To(o, s).on = Handle(o)
         /\ To(o, s).tmp = opener[o].tmp /\ To(o, s).image = opener[o].image
<1>1. opener[o] \in OpenerRec
  BY DEF RegionOpenTypeOK, OpenerRec
<1> QED BY <1>1 DEF To, OpenerRec, Handle

LEMMA HandleType ==
  ASSUME RegionOpenTypeOK, NEW o \in Openers
  PROVE  /\ opener[o] \in OpenerRec
         /\ ~At(o, "closed") => Handle(o) \in Files
  BY DEF RegionOpenTypeOK, OpenerRec, At, Handle

LEMMA PathTypes ==
  ASSUME RegionOpenTypeOK
  PROVE  path \in Files \cup {NoFile} /\ tmp \in Files \cup {NoFile}
  BY DEF RegionOpenTypeOK

LEMMA FileSet ==
  ASSUME RegionOpenTypeOK, NEW f \in Files, NEW rec \in FileRec,
         file' = [file EXCEPT ![f] = rec]
  PROVE  file' \in [Files -> FileRec] /\ file'[f] = rec /\ OtherFiles(f)
  BY DEF RegionOpenTypeOK, FileRec, OtherFiles

LEMMA Put ==
  ASSUME file' \in [Files -> FileRec], opener' \in [Openers -> OpenerRec],
         path' \in Files \cup {NoFile}, tmp' \in Files \cup {NoFile},
         stored' \in SUBSET Pos, missed' \in SUBSET {"read", "open"}, raced' \in BOOLEAN,
         crashes' \in 0 .. MaxCrashes,
         \A q \in Openers : opener'[q].step # "closed" => opener'[q].on \in Files
  PROVE  RegionOpenTypeOK'
  BY DEF RegionOpenTypeOK, FileRec, OpenerRec

\* Same files, same paths: what the steps without a file operation share.
LEMMA KeepFiles ==
  ASSUME RegionOpenTypeOK, NEW o \in Openers, NEW new \in OpenerRec, Go(o, new),
         new.step # "closed" => new.on \in Files, UNCHANGED <<file, path, tmp, missed>>
  PROVE  RegionOpenTypeOK'
<1>1. /\ opener' \in [Openers -> OpenerRec] /\ raced' \in BOOLEAN /\ stored' = stored
      /\ crashes' = crashes
      /\ \A q \in Openers : opener'[q].step # "closed" => opener'[q].on \in Files
  BY GoEffect
<1>2. file' \in [Files -> FileRec]
  BY DEF RegionOpenTypeOK, FileRec
<1>3. path' \in Files \cup {NoFile} /\ tmp' \in Files \cup {NoFile} /\ missed' \in SUBSET {"read", "open"}
  BY DEF RegionOpenTypeOK
<1>4. stored' \in SUBSET Pos /\ crashes' \in 0 .. MaxCrashes
  BY <1>1 DEF RegionOpenTypeOK
<1> QED BY <1>1, <1>2, <1>3, <1>4, Put

\* Open of an existing file.
LEMMA OpenOldEffect ==
  ASSUME RegionOpenTypeOK, NEW o \in Openers, Open(o), path # NoFile
  PROVE  /\ RegionOpenTypeOK' /\ At(o, "closed") /\ OtherOpeners(o) /\ Race(o)
         /\ At(o, "classify")' /\ Handle(o)' = path
         /\ UNCHANGED <<file, path, tmp, stored, missed, crashes>>
<1> DEFINE new == [Closed EXCEPT !.step = "classify", !.on = path]
<1>1. /\ At(o, "closed") /\ Go(o, new) /\ UNCHANGED <<file, path, tmp, missed>>
      /\ path \in Files
  BY DEF Open, RegionOpenTypeOK
<1>2. new \in OpenerRec /\ new.step = "classify" /\ new.on = path
  BY <1>1 DEF Closed, OpenerRec, Steps
<1> HIDE DEF new
<1>3. RegionOpenTypeOK'
  BY <1>1, <1>2, KeepFiles
<1>4. opener'[o] = new /\ OtherOpeners(o) /\ Race(o) /\ stored' = stored /\ crashes' = crashes
  BY <1>1, <1>2, GoEffect
<1> QED BY <1>1, <1>2, <1>3, <1>4 DEF At, Handle

\* Open that makes the file.
LEMMA OpenNewEffect ==
  ASSUME RegionOpenTypeOK, NEW o \in Openers, Open(o), path = NoFile
  PROVE  /\ RegionOpenTypeOK' /\ At(o, "closed") /\ OtherOpeners(o) /\ Race(o)
         /\ At(o, "classify")' /\ Handle(o)' = path' /\ o = Writer
         /\ path' \in Files /\ file[path'].format = "unused"
         /\ file'[path'] = Empty /\ OtherFiles(path')
         /\ UNCHANGED <<tmp, stored, missed, crashes>>
<1>1. /\ At(o, "closed") /\ o = Writer /\ UNCHANGED <<tmp, missed>>
      /\ \E f \in Files :
           /\ Fresh(f)
           /\ file' = [file EXCEPT ![f] = Empty]
           /\ path' = f
           /\ Go(o, [Closed EXCEPT !.step = "classify", !.on = f])
  BY DEF Open
<1>2. PICK f \in Files :
           /\ Fresh(f)
           /\ file' = [file EXCEPT ![f] = Empty]
           /\ path' = f
           /\ Go(o, [Closed EXCEPT !.step = "classify", !.on = f])
  BY <1>1
<1> DEFINE new == [Closed EXCEPT !.step = "classify", !.on = f]
<1>3. new \in OpenerRec /\ new.step = "classify" /\ new.on = f /\ Go(o, new)
  BY <1>2 DEF Closed, OpenerRec, Steps
<1> HIDE DEF new
<1>4. /\ opener'[o] = new /\ OtherOpeners(o) /\ Race(o) /\ stored' = stored /\ crashes' = crashes
      /\ opener' \in [Openers -> OpenerRec] /\ raced' \in BOOLEAN
      /\ \A q \in Openers : opener'[q].step # "closed" => opener'[q].on \in Files
  BY <1>3, GoEffect
<1>5. Empty \in FileRec
  BY DEF Empty, FileRec, Formats
<1>6. file' \in [Files -> FileRec] /\ file'[f] = Empty /\ OtherFiles(f)
  BY <1>2, <1>5, FileSet
<1>7. /\ tmp' \in Files \cup {NoFile} /\ missed' \in SUBSET {"read", "open"}
      /\ stored' \in SUBSET Pos /\ crashes' \in 0 .. MaxCrashes
  BY <1>1, <1>4 DEF RegionOpenTypeOK
<1>8. RegionOpenTypeOK'
  BY <1>2, <1>4, <1>6, <1>7, Put
<1> QED BY <1>1, <1>2, <1>3, <1>4, <1>6, <1>8 DEF At, Handle, Fresh

\* Classify, ReadOld: only the opener moves.
LEMMA ClassifyEffect ==
  ASSUME RegionOpenTypeOK, NEW o \in Openers, Classify(o)
  PROVE  /\ RegionOpenTypeOK' /\ At(o, "classify") /\ OtherOpeners(o) /\ Race(o)
         /\ Handle(o) \in Files /\ Handle(o)' = Handle(o)
         /\ \/ At(o, "open")' /\ file[Handle(o)].format = "v2"
            \/ At(o, "read_old")' /\ file[Handle(o)].format \in Old
            \/ At(o, "init")' /\ file[Handle(o)].format \in {"unused", "empty"}
         /\ UNCHANGED <<file, path, tmp, stored, missed, crashes>>
<1> DEFINE s == CASE file[Handle(o)].format = "v2" -> "open"
                  [] file[Handle(o)].format \in {"v1", "sized"} -> "read_old"
                  [] OTHER -> "init"
<1>1. At(o, "classify") /\ Go(o, To(o, s)) /\ UNCHANGED <<file, path, tmp, missed>>
  BY DEF Classify
<1>2. Handle(o) \in Files /\ file[Handle(o)].format \in Formats
  BY <1>1 DEF RegionOpenTypeOK, At, Handle
<1>3. /\ s \in Steps
      /\ \/ s = "open" /\ file[Handle(o)].format = "v2"
         \/ s = "read_old" /\ file[Handle(o)].format \in Old
         \/ s = "init" /\ file[Handle(o)].format \in {"unused", "empty"}
  BY <1>2 DEF Steps, Formats, Old
<1> HIDE DEF s
<1>4. To(o, s) \in OpenerRec /\ To(o, s).step = s /\ To(o, s).on = Handle(o)
  BY <1>3, ToFields
<1>5. RegionOpenTypeOK'
  BY <1>1, <1>2, <1>4, KeepFiles
<1>6. opener'[o] = To(o, s) /\ OtherOpeners(o) /\ Race(o) /\ stored' = stored /\ crashes' = crashes
  BY <1>1, <1>2, <1>4, GoEffect
<1> QED BY <1>1, <1>2, <1>3, <1>4, <1>5, <1>6 DEF At, Handle

LEMMA ReadOldEffect ==
  ASSUME RegionOpenTypeOK, NEW o \in Openers, ReadOld(o)
  PROVE  /\ RegionOpenTypeOK' /\ At(o, "read_old") /\ OtherOpeners(o) /\ Race(o)
         /\ Handle(o) \in Files /\ Handle(o)' = Handle(o) /\ At(o, "create_tmp")'
         /\ opener'[o].image = file[Handle(o)].table
         /\ UNCHANGED <<file, path, tmp, stored, missed, crashes>>
<1> DEFINE new == [To(o, "create_tmp") EXCEPT !.image = file[Handle(o)].table]
<1>1. At(o, "read_old") /\ Go(o, new) /\ UNCHANGED <<file, path, tmp, missed>>
  BY DEF ReadOld
<1>2. Handle(o) \in Files /\ file[Handle(o)].table \in SUBSET Pos
  BY <1>1 DEF RegionOpenTypeOK, At, Handle
<1>3. "create_tmp" \in Steps
  BY DEF Steps
<1>4. To(o, "create_tmp") \in OpenerRec /\ To(o, "create_tmp").step = "create_tmp"
      /\ To(o, "create_tmp").on = Handle(o)
  BY <1>3, ToFields
<1>5. /\ new \in OpenerRec /\ new.step = "create_tmp" /\ new.on = Handle(o)
      /\ new.image = file[Handle(o)].table
  BY <1>2, <1>4 DEF OpenerRec
<1> HIDE DEF new
<1>6. RegionOpenTypeOK'
  BY <1>1, <1>2, <1>5, KeepFiles
<1>7. opener'[o] = new /\ OtherOpeners(o) /\ Race(o) /\ stored' = stored /\ crashes' = crashes
  BY <1>1, <1>2, <1>5, GoEffect
<1> QED BY <1>1, <1>2, <1>5, <1>6, <1>7 DEF At, Handle

\* A step that moves its thread and writes one file.
LEMMA WriteTypes ==
  ASSUME RegionOpenTypeOK, NEW o \in Openers, NEW new \in OpenerRec, Go(o, new),
         new.step # "closed" => new.on \in Files,
         NEW f \in Files, NEW rec \in FileRec, file' = [file EXCEPT ![f] = rec],
         path' = path, tmp' \in Files \cup {NoFile}, missed' = missed
  PROVE  /\ RegionOpenTypeOK' /\ file'[f] = rec /\ OtherFiles(f)
         /\ opener'[o] = new /\ OtherOpeners(o) /\ Race(o)
         /\ stored' = stored /\ crashes' = crashes
<1>1. /\ opener'[o] = new /\ OtherOpeners(o) /\ Race(o) /\ stored' = stored /\ crashes' = crashes
      /\ opener' \in [Openers -> OpenerRec] /\ raced' \in BOOLEAN
      /\ \A q \in Openers : opener'[q].step # "closed" => opener'[q].on \in Files
  BY GoEffect
<1>2. file' \in [Files -> FileRec] /\ file'[f] = rec /\ OtherFiles(f)
  BY FileSet
<1>3. /\ path' \in Files \cup {NoFile} /\ missed' \in SUBSET {"read", "open"}
      /\ stored' \in SUBSET Pos /\ crashes' \in 0 .. MaxCrashes
  BY <1>1 DEF RegionOpenTypeOK
<1> QED BY <1>1, <1>2, <1>3, Put

LEMMA InitLengthEffect ==
  ASSUME RegionOpenTypeOK, NEW o \in Openers, InitLength(o)
  PROVE  /\ RegionOpenTypeOK' /\ At(o, "init") /\ OtherOpeners(o) /\ Race(o)
         /\ Handle(o) \in Files /\ Handle(o)' = Handle(o) /\ At(o, "header")'
         /\ file'[Handle(o)].format = (IF file[Handle(o)].format = "v2" THEN "v2" ELSE "sized")
         /\ file'[Handle(o)].table = {} /\ OtherFiles(Handle(o))
         /\ UNCHANGED <<path, tmp, stored, missed, crashes>>
<1> DEFINE rec == [format |-> IF file[Handle(o)].format = "v2" THEN "v2" ELSE "sized",
                   table |-> {}]
           new == To(o, "header")
<1>1. /\ At(o, "init") /\ Go(o, new) /\ UNCHANGED <<path, tmp, missed>>
      /\ Handle(o) \in Files
  BY DEF InitLength, RegionOpenTypeOK, At, Handle
<1>2. file' = [file EXCEPT ![Handle(o)] = rec]
  BY <1>1 DEF InitLength
<1>3. rec \in FileRec
  BY DEF FileRec, Formats
<1>4. new \in OpenerRec /\ new.step = "header" /\ new.on = Handle(o)
  BY ToFields DEF Steps
<1>5. tmp' \in Files \cup {NoFile}
  BY <1>1 DEF RegionOpenTypeOK
<1> HIDE DEF new, rec
<1>6. /\ RegionOpenTypeOK' /\ file'[Handle(o)] = rec /\ OtherFiles(Handle(o))
      /\ opener'[o] = new /\ OtherOpeners(o) /\ Race(o) /\ stored' = stored /\ crashes' = crashes
  BY <1>1, <1>2, <1>3, <1>4, <1>5, WriteTypes
<1> QED BY <1>1, <1>4, <1>6 DEF At, Handle, rec

LEMMA InitHeaderEffect ==
  ASSUME RegionOpenTypeOK, NEW o \in Openers, InitHeader(o)
  PROVE  /\ RegionOpenTypeOK' /\ At(o, "header") /\ OtherOpeners(o) /\ Race(o)
         /\ Handle(o) \in Files /\ Handle(o)' = Handle(o) /\ At(o, "open")'
         /\ file'[Handle(o)].format = "v2" /\ file'[Handle(o)].table = {}
         /\ OtherFiles(Handle(o))
         /\ UNCHANGED <<path, tmp, stored, missed, crashes>>
<1> DEFINE rec == [format |-> "v2", table |-> {}]
           new == To(o, "open")
<1>1. /\ At(o, "header") /\ Go(o, new) /\ UNCHANGED <<path, tmp, missed>>
      /\ Handle(o) \in Files
      /\ file' = [file EXCEPT ![Handle(o)] = rec]
  BY DEF InitHeader, RegionOpenTypeOK, At, Handle
<1>2. rec \in FileRec
  BY DEF FileRec, Formats
<1>3. new \in OpenerRec /\ new.step = "open" /\ new.on = Handle(o)
  BY ToFields DEF Steps
<1>4. tmp' \in Files \cup {NoFile}
  BY <1>1 DEF RegionOpenTypeOK
<1> HIDE DEF new, rec
<1>5. /\ RegionOpenTypeOK' /\ file'[Handle(o)] = rec /\ OtherFiles(Handle(o))
      /\ opener'[o] = new /\ OtherOpeners(o) /\ Race(o) /\ stored' = stored /\ crashes' = crashes
  BY <1>1, <1>2, <1>3, <1>4, WriteTypes
<1> QED BY <1>1, <1>3, <1>5 DEF At, Handle, rec

\* The temporary file is the one left there, or one never used.
LEMMA CreateTmpEffect ==
  ASSUME RegionOpenTypeOK, NEW o \in Openers, CreateTmp(o)
  PROVE  /\ RegionOpenTypeOK' /\ At(o, "create_tmp") /\ OtherOpeners(o) /\ Race(o)
         /\ Handle(o) \in Files /\ Handle(o)' = Handle(o) /\ At(o, "write_tmp")'
         /\ tmp' \in Files /\ opener'[o].tmp = tmp'
         /\ opener'[o].image = opener[o].image
         /\ tmp = NoFile => file[tmp'].format = "unused"
         /\ tmp # NoFile => tmp' = tmp
         /\ file'[tmp'] = Empty /\ OtherFiles(tmp')
         /\ UNCHANGED <<path, stored, missed, crashes>>
<1>1. PICK f \in Files :
        /\ IF tmp = NoFile THEN Fresh(f) ELSE f = tmp
        /\ file' = [file EXCEPT ![f] = Empty]
        /\ tmp' = f
        /\ Go(o, [To(o, "write_tmp") EXCEPT !.tmp = f])
  BY DEF CreateTmp
<1>2. At(o, "create_tmp") /\ UNCHANGED <<path, missed>> /\ Handle(o) \in Files
  BY DEF CreateTmp, RegionOpenTypeOK, At, Handle
<1> DEFINE new == [To(o, "write_tmp") EXCEPT !.tmp = f]
<1>3. /\ To(o, "write_tmp") \in OpenerRec /\ To(o, "write_tmp").step = "write_tmp"
      /\ To(o, "write_tmp").on = Handle(o) /\ To(o, "write_tmp").image = opener[o].image
  BY ToFields DEF Steps
<1>4. /\ new \in OpenerRec /\ new.step = "write_tmp" /\ new.on = Handle(o)
      /\ new.image = opener[o].image /\ new.tmp = f /\ Go(o, new)
  BY <1>1, <1>3 DEF OpenerRec
<1>5. Empty \in FileRec
  BY DEF Empty, FileRec, Formats
<1> HIDE DEF new
<1>6. /\ RegionOpenTypeOK' /\ file'[f] = Empty /\ OtherFiles(f)
      /\ opener'[o] = new /\ OtherOpeners(o) /\ Race(o) /\ stored' = stored /\ crashes' = crashes
  BY <1>1, <1>2, <1>4, <1>5, WriteTypes
<1> QED BY <1>1, <1>2, <1>4, <1>6 DEF At, Handle, Fresh

\* The handle of the temporary file may name one that is the region file by now.
LEMMA WriteTmpEffect ==
  ASSUME RegionOpenTypeOK, NEW o \in Openers, WriteTmp(o), opener[o].tmp \in Files
  PROVE  /\ RegionOpenTypeOK' /\ At(o, "write_tmp") /\ OtherOpeners(o) /\ Race(o)
         /\ Handle(o) \in Files /\ Handle(o)' = Handle(o) /\ At(o, "rename")'
         /\ opener'[o].tmp = opener[o].tmp /\ opener'[o].image = opener[o].image
         /\ file'[opener[o].tmp].format = "v2"
         /\ file'[opener[o].tmp].table = opener[o].image
         /\ OtherFiles(opener[o].tmp)
         /\ UNCHANGED <<path, tmp, stored, missed, crashes>>
<1> DEFINE rec == [format |-> "v2", table |-> opener[o].image]
           new == To(o, "rename")
           f == opener[o].tmp
<1>1. /\ At(o, "write_tmp") /\ Go(o, new) /\ UNCHANGED <<path, tmp, missed>>
      /\ Handle(o) \in Files
      /\ file' = [file EXCEPT ![f] = rec]
  BY DEF WriteTmp, RegionOpenTypeOK, At, Handle
<1>2. rec \in FileRec
  BY DEF FileRec, Formats, RegionOpenTypeOK
<1>3. /\ new \in OpenerRec /\ new.step = "rename" /\ new.on = Handle(o)
      /\ new.tmp = f /\ new.image = opener[o].image
  BY ToFields DEF Steps
<1>4. tmp' \in Files \cup {NoFile} /\ f \in Files
  BY <1>1 DEF RegionOpenTypeOK
<1> HIDE DEF new, f, rec
<1>5. /\ RegionOpenTypeOK' /\ file'[f] = rec /\ OtherFiles(f)
      /\ opener'[o] = new /\ OtherOpeners(o) /\ Race(o) /\ stored' = stored /\ crashes' = crashes
  BY <1>1, <1>2, <1>3, <1>4, WriteTypes
<1> QED BY <1>1, <1>3, <1>5 DEF At, Handle, f, rec

\* An open that fails; what it counts as missed is a reader's.
LEMMA OpenErrorEffect ==
  ASSUME RegionOpenTypeOK, NEW o \in Openers, OpenError(o), UNCHANGED <<file, path, tmp>>
  PROVE  /\ RegionOpenTypeOK' /\ OtherOpeners(o) /\ Race(o) /\ At(o, "closed")'
         /\ missed' \ {"open"} \subseteq missed
         /\ UNCHANGED <<stored, crashes>>
<1>1. Closed \in OpenerRec /\ Closed.step = "closed"
  BY DEF Closed, OpenerRec, Steps
<1>2. /\ opener'[o] = Closed /\ OtherOpeners(o) /\ Race(o) /\ stored' = stored /\ crashes' = crashes
      /\ opener' \in [Openers -> OpenerRec] /\ raced' \in BOOLEAN
      /\ \A q \in Openers : opener'[q].step # "closed" => opener'[q].on \in Files
  BY <1>1, GoEffect DEF OpenError
<1>3. missed' \in SUBSET {"read", "open"} /\ missed' \ {"open"} \subseteq missed
  BY DEF OpenError, RegionOpenTypeOK
<1>4. /\ file' \in [Files -> FileRec]
      /\ path' \in Files \cup {NoFile} /\ tmp' \in Files \cup {NoFile}
      /\ stored' \in SUBSET Pos /\ crashes' \in 0 .. MaxCrashes
  BY <1>2 DEF RegionOpenTypeOK, FileRec
<1> QED BY <1>1, <1>2, <1>3, <1>4, Put DEF At

LEMMA OpenFailsEffect ==
  ASSUME RegionOpenTypeOK, NEW o \in Openers, OpenFails(o)
  PROVE  /\ RegionOpenTypeOK' /\ OtherOpeners(o) /\ Race(o) /\ At(o, "closed")'
         /\ missed' \ {"open"} \subseteq missed
         /\ UNCHANGED <<file, path, tmp, stored, crashes>>
  BY OpenErrorEffect DEF OpenFails

LEMMA RenameEffect ==
  ASSUME RegionOpenTypeOK, NEW o \in Openers, Rename(o)
  PROVE  /\ RegionOpenTypeOK' /\ At(o, "rename") /\ OtherOpeners(o) /\ Race(o)
         /\ \/ /\ tmp # NoFile /\ path' = tmp /\ tmp' = NoFile
               /\ At(o, "reopen")' /\ Handle(o)' = Handle(o)
               /\ missed' = missed
            \/ /\ tmp = NoFile /\ UNCHANGED <<path, tmp>>
               /\ At(o, "closed")' /\ missed' \ {"open"} \subseteq missed
         /\ UNCHANGED <<file, stored, crashes>>
<1>1. At(o, "rename") /\ file' = file
  BY DEF Rename
<1>2. CASE tmp = NoFile
  <2>1. OpenError(o) /\ UNCHANGED <<path, tmp>>
    BY <1>2 DEF Rename
  <2> QED BY <1>1, <1>2, <2>1, OpenErrorEffect
<1>3. CASE tmp # NoFile
  <2> DEFINE new == To(o, "reopen")
  <2>1. path' = tmp /\ tmp' = NoFile /\ Go(o, new) /\ missed' = missed
    BY <1>3 DEF Rename
  <2>2. new \in OpenerRec /\ new.step = "reopen" /\ new.on = Handle(o) /\ Handle(o) \in Files
    BY <1>1, ToFields, HandleType DEF Steps, At
  <2> HIDE DEF new
  <2>3. /\ opener'[o] = new /\ OtherOpeners(o) /\ Race(o) /\ stored' = stored /\ crashes' = crashes
        /\ opener' \in [Openers -> OpenerRec] /\ raced' \in BOOLEAN
        /\ \A q \in Openers : opener'[q].step # "closed" => opener'[q].on \in Files
    BY <2>1, <2>2, GoEffect
  <2>4. /\ file' \in [Files -> FileRec] /\ missed' \in SUBSET {"read", "open"}
        /\ path' \in Files \cup {NoFile} /\ tmp' \in Files \cup {NoFile}
        /\ stored' \in SUBSET Pos /\ crashes' \in 0 .. MaxCrashes
    BY <1>1, <2>1, <2>3 DEF RegionOpenTypeOK, FileRec
  <2>5. RegionOpenTypeOK'
    BY <2>3, <2>4, Put
  <2> QED BY <1>1, <1>3, <2>1, <2>2, <2>3, <2>5 DEF At, Handle
<1> QED BY <1>2, <1>3

\* Reopen reads whatever is at the path; there is something.
LEMMA ReopenEffect ==
  ASSUME RegionOpenTypeOK, NEW o \in Openers, Reopen(o), path \in Files
  PROVE  /\ RegionOpenTypeOK' /\ At(o, "reopen") /\ OtherOpeners(o) /\ Race(o)
         /\ \/ /\ At(o, "open")' /\ Handle(o)' = path /\ missed' = missed
               /\ file[path].format # "empty"
            \/ /\ At(o, "closed")' /\ missed' \ {"open"} \subseteq missed
         /\ UNCHANGED <<file, path, tmp, stored, crashes>>
<1>1. At(o, "reopen") /\ UNCHANGED <<file, path, tmp>>
  BY DEF Reopen
<1>2. CASE file[path].format = "empty"
  <2>1. OpenError(o)
    BY <1>2 DEF Reopen
  <2> QED BY <1>1, <2>1, OpenErrorEffect
<1>3. CASE file[path].format # "empty"
  <2> DEFINE new == [Closed EXCEPT !.step = "open", !.on = path]
  <2>1. Go(o, new) /\ missed' = missed
    BY <1>3 DEF Reopen
  <2>2. new \in OpenerRec /\ new.step = "open" /\ new.on = path
    BY DEF Closed, OpenerRec, Steps
  <2> HIDE DEF new
  <2>3. RegionOpenTypeOK'
    BY <1>1, <2>1, <2>2, KeepFiles
  <2>4. opener'[o] = new /\ OtherOpeners(o) /\ Race(o) /\ stored' = stored /\ crashes' = crashes
    BY <2>1, <2>2, GoEffect
  <2> QED BY <1>1, <1>3, <2>1, <2>2, <2>3, <2>4 DEF At, Handle
<1> QED BY <1>2, <1>3

LEMMA LoadEffect ==
  ASSUME RegionOpenTypeOK, NEW o \in Openers, NEW p \in Pos, Load(o, p)
  PROVE  /\ RegionOpenTypeOK' /\ o \in Readers
         /\ \/ At(o, "closed") /\ path = NoFile
            \/ At(o, "open")
         /\ \/ missed' = missed
            \/ p \in stored /\ (path = NoFile \/ p \notin file[Handle(o)].table)
         /\ UNCHANGED <<file, path, tmp, opener, stored, raced, crashes>>
<1>1. missed' \in SUBSET {"read", "open"} /\ UNCHANGED <<file, path, tmp, opener, stored, raced, crashes>>
  BY DEF Load, RegionOpenTypeOK
<1> QED BY <1>1 DEF Load, RegionOpenTypeOK

LEMMA SaveEffect ==
  ASSUME RegionOpenTypeOK, Writer \in Openers, NEW p \in Pos, Save(p)
  PROVE  /\ RegionOpenTypeOK' /\ At(Writer, "open") /\ Handle(Writer) \in Files
         /\ file'[Handle(Writer)].format = file[Handle(Writer)].format
         /\ file'[Handle(Writer)].table = file[Handle(Writer)].table \cup {p}
         /\ OtherFiles(Handle(Writer))
         /\ stored' = stored \cup {p}
         /\ UNCHANGED <<path, tmp, opener, missed, raced, crashes>>
<1> DEFINE f == Handle(Writer)
           rec == [file[f] EXCEPT !.table = @ \cup {p}]
<1>1. /\ At(Writer, "open") /\ f \in Files /\ stored' = stored \cup {p}
      /\ UNCHANGED <<path, tmp, opener, missed, raced, crashes>>
  BY DEF Save, RegionOpenTypeOK, At, Handle
<1>2. file[f] \in FileRec
  BY <1>1 DEF RegionOpenTypeOK, FileRec
<1>3. /\ rec \in FileRec /\ rec.format = file[f].format /\ rec.table = file[f].table \cup {p}
      /\ file' = [file EXCEPT ![f] = rec]
  BY <1>2 DEF FileRec, Save
<1> HIDE DEF f, rec
<1>4. file' \in [Files -> FileRec] /\ file'[f] = rec /\ OtherFiles(f)
  BY <1>1, <1>3, FileSet
<1>5. RegionOpenTypeOK'
  BY <1>1, <1>4 DEF RegionOpenTypeOK, FileRec
<1> QED BY <1>1, <1>3, <1>4, <1>5 DEF f

LEMMA CrashEffect ==
  ASSUME RegionOpenTypeOK, Crash
  PROVE  /\ RegionOpenTypeOK'
         /\ \A o \in Openers : At(o, "closed")'
         /\ UNCHANGED <<file, path, tmp, stored, missed, raced>>
<1>1. /\ opener' = [o \in Openers |-> Closed]
      /\ crashes < MaxCrashes /\ crashes' = crashes + 1
      /\ UNCHANGED <<file, path, tmp, stored, missed, raced>>
  BY DEF Crash
<1>2. Closed \in OpenerRec /\ Closed.step = "closed"
  BY DEF Closed, OpenerRec, Steps
<1>3. /\ opener' \in [Openers -> OpenerRec]
      /\ \A o \in Openers : opener'[o].step = "closed"
  BY <1>1, <1>2
<1>4. crashes' \in 0 .. MaxCrashes
  BY <1>1, OpenAssumption DEF RegionOpenTypeOK
<1>5. RegionOpenTypeOK'
  BY <1>1, <1>3, <1>4 DEF RegionOpenTypeOK, OpenerRec
<1> QED BY <1>1, <1>3, <1>5 DEF At

-----------------------------------------------------------------------------
(* The steps.                                                              *)

\* Every step keeps the types.
LEMMA TypeStep ==
    RegionOpenTypeOK /\ UsedInv /\ OldInv /\ [Next]_vars => RegionOpenTypeOK'
<1> SUFFICES ASSUME RegionOpenTypeOK, UsedInv, OldInv, [Next]_vars PROVE RegionOpenTypeOK'
  OBVIOUS
<1>1. ASSUME NEW o \in Openers, Open(o), path # NoFile PROVE RegionOpenTypeOK'
  BY <1>1, OpenOldEffect
<1>2. ASSUME NEW o \in Openers, Open(o), path = NoFile PROVE RegionOpenTypeOK'
  BY <1>2, OpenNewEffect
<1>3. ASSUME NEW o \in Openers, Classify(o) PROVE RegionOpenTypeOK'
  BY <1>3, ClassifyEffect
<1>4. ASSUME NEW o \in Openers, InitLength(o) PROVE RegionOpenTypeOK'
  BY <1>4, InitLengthEffect
<1>5. ASSUME NEW o \in Openers, InitHeader(o) PROVE RegionOpenTypeOK'
  BY <1>5, InitHeaderEffect
<1>6. ASSUME NEW o \in Openers, ReadOld(o) PROVE RegionOpenTypeOK'
  BY <1>6, ReadOldEffect
<1>7. ASSUME NEW o \in Openers, CreateTmp(o) PROVE RegionOpenTypeOK'
  BY <1>7, CreateTmpEffect
<1>8. ASSUME NEW o \in Openers, WriteTmp(o) PROVE RegionOpenTypeOK'
  BY <1>8, WriteTmpEffect DEF OldInv, WriteTmp, At
<1>9. ASSUME NEW o \in Openers, Rename(o) PROVE RegionOpenTypeOK'
  BY <1>9, RenameEffect
<1>10. ASSUME NEW o \in Openers, Reopen(o) PROVE RegionOpenTypeOK'
  BY <1>10, ReopenEffect DEF UsedInv, Reopen, At, RegionOpenTypeOK
<1>11. ASSUME NEW o \in Openers, NEW p \in Pos, Load(o, p) PROVE RegionOpenTypeOK'
  BY <1>11, LoadEffect
<1>12. ASSUME NEW p \in Pos, Writer \in Openers, Save(p) PROVE RegionOpenTypeOK'
  BY <1>12, SaveEffect
<1>13. ASSUME Crash PROVE RegionOpenTypeOK'
  BY <1>13, CrashEffect
<1>14. CASE UNCHANGED vars
  BY <1>14 DEF vars, RegionOpenTypeOK
<1>15. ASSUME NEW o \in Openers, OpenFails(o) PROVE RegionOpenTypeOK'
  BY <1>15, OpenFailsEffect
<1> QED BY <1>1, <1>2, <1>3, <1>4, <1>5, <1>6, <1>7, <1>8, <1>9, <1>10, <1>11, <1>12,
    <1>13, <1>14, <1>15 DEF Next

\* No file goes back to unused, so a new file is not one that is in use.
LEMMA UsedStep ==
    RegionOpenTypeOK /\ UsedInv /\ OldInv /\ [Next]_vars => UsedInv'
<1> SUFFICES ASSUME RegionOpenTypeOK, UsedInv, OldInv, [Next]_vars PROVE UsedInv'
  OBVIOUS
<1> USE Constants, HandleType, PathTypes
<1>1. ASSUME NEW o \in Openers, Open(o), path # NoFile PROVE UsedInv'
  BY <1>1, OpenOldEffect DEF UsedInv, OtherOpeners, OtherFiles, At, Handle, Empty
<1>2. ASSUME NEW o \in Openers, Open(o), path = NoFile PROVE UsedInv'
  BY <1>2, OpenNewEffect DEF UsedInv, OtherOpeners, OtherFiles, At, Handle, Empty
<1>3. ASSUME NEW o \in Openers, Classify(o) PROVE UsedInv'
  BY <1>3, ClassifyEffect DEF UsedInv, OtherOpeners, OtherFiles, At, Handle, Empty
<1>4. ASSUME NEW o \in Openers, InitLength(o) PROVE UsedInv'
  BY <1>4, InitLengthEffect DEF UsedInv, OtherOpeners, OtherFiles, At, Handle, Empty
<1>5. ASSUME NEW o \in Openers, InitHeader(o) PROVE UsedInv'
  BY <1>5, InitHeaderEffect DEF UsedInv, OtherOpeners, OtherFiles, At, Handle, Empty
<1>6. ASSUME NEW o \in Openers, ReadOld(o) PROVE UsedInv'
  BY <1>6, ReadOldEffect DEF UsedInv, OtherOpeners, OtherFiles, At, Handle, Empty
<1>7. ASSUME NEW o \in Openers, CreateTmp(o) PROVE UsedInv'
  BY <1>7, CreateTmpEffect DEF UsedInv, OtherOpeners, OtherFiles, At, Handle, Empty
<1>8. ASSUME NEW o \in Openers, WriteTmp(o) PROVE UsedInv'
  <2>1. opener[o].tmp \in Files
    BY <1>8 DEF OldInv, WriteTmp, At
  <2> QED BY <1>8, <2>1, WriteTmpEffect DEF UsedInv, OtherOpeners, OtherFiles, At, Handle, Empty
<1>9. ASSUME NEW o \in Openers, Rename(o) PROVE UsedInv'
  BY <1>9, RenameEffect DEF UsedInv, OtherOpeners, OtherFiles, At, Handle, Empty
<1>10. ASSUME NEW o \in Openers, Reopen(o) PROVE UsedInv'
  BY <1>10, ReopenEffect DEF Reopen, RegionOpenTypeOK, UsedInv, OtherOpeners, OtherFiles,
       At, Handle, Empty
<1>11. ASSUME NEW o \in Openers, NEW p \in Pos, Load(o, p) PROVE UsedInv'
  BY <1>11, LoadEffect DEF UsedInv, OtherOpeners, OtherFiles, At, Handle, Empty
<1>12. ASSUME NEW p \in Pos, Writer \in Openers, Save(p) PROVE UsedInv'
  BY <1>12, SaveEffect DEF UsedInv, OtherOpeners, OtherFiles, At, Handle, Empty
<1>13. ASSUME Crash PROVE UsedInv'
  BY <1>13, CrashEffect DEF UsedInv, OtherOpeners, OtherFiles, At, Handle, Empty
<1>14. CASE UNCHANGED vars
  BY <1>14 DEF vars, UsedInv, OtherOpeners, OtherFiles, At, Handle, Empty
<1>15. ASSUME NEW o \in Openers, OpenFails(o) PROVE UsedInv'
  BY <1>15, OpenFailsEffect DEF UsedInv, OtherOpeners, OtherFiles, At, Handle, Empty
<1> QED BY <1>1, <1>2, <1>3, <1>4, <1>5, <1>6, <1>7, <1>8, <1>9, <1>10, <1>11, <1>12,
    <1>13, <1>14, <1>15 DEF Next

\* No step makes a file of the old format or opens one as it is.
LEMMA OldStep ==
    RegionOpenTypeOK /\ UsedInv /\ OldInv /\ [Next]_vars => OldInv'
<1> SUFFICES ASSUME RegionOpenTypeOK, UsedInv, OldInv, [Next]_vars PROVE OldInv'
  OBVIOUS
<1> USE Constants, HandleType, PathTypes
<1>1. ASSUME NEW o \in Openers, Open(o), path # NoFile PROVE OldInv'
  BY <1>1, OpenOldEffect DEF UsedInv, OldInv, OtherOpeners, OtherFiles, At, Handle, Empty
<1>2. ASSUME NEW o \in Openers, Open(o), path = NoFile PROVE OldInv'
  BY <1>2, OpenNewEffect DEF UsedInv, OldInv, OtherOpeners, OtherFiles, At, Handle, Empty
<1>3. ASSUME NEW o \in Openers, Classify(o) PROVE OldInv'
  BY <1>3, ClassifyEffect DEF UsedInv, OldInv, OtherOpeners, OtherFiles, At, Handle, Empty
<1>4. ASSUME NEW o \in Openers, InitLength(o) PROVE OldInv'
  BY <1>4, InitLengthEffect DEF UsedInv, OldInv, OtherOpeners, OtherFiles, At, Handle, Empty
<1>5. ASSUME NEW o \in Openers, InitHeader(o) PROVE OldInv'
  BY <1>5, InitHeaderEffect DEF UsedInv, OldInv, OtherOpeners, OtherFiles, At, Handle, Empty
<1>6. ASSUME NEW o \in Openers, ReadOld(o) PROVE OldInv'
  BY <1>6, ReadOldEffect DEF UsedInv, OldInv, OtherOpeners, OtherFiles, At, Handle, Empty
<1>7. ASSUME NEW o \in Openers, CreateTmp(o) PROVE OldInv'
  BY <1>7, CreateTmpEffect DEF UsedInv, OldInv, OtherOpeners, OtherFiles, At, Handle, Empty
<1>8. ASSUME NEW o \in Openers, WriteTmp(o) PROVE OldInv'
  <2>1. opener[o].tmp \in Files
    BY <1>8 DEF OldInv, WriteTmp, At
  <2> QED BY <1>8, <2>1, WriteTmpEffect DEF UsedInv, OldInv, OtherOpeners, OtherFiles, At,
      Handle, Empty
<1>9. ASSUME NEW o \in Openers, Rename(o) PROVE OldInv'
  BY <1>9, RenameEffect DEF UsedInv, OldInv, OtherOpeners, OtherFiles, At, Handle, Empty
<1>10. ASSUME NEW o \in Openers, Reopen(o) PROVE OldInv'
  BY <1>10, ReopenEffect DEF Reopen, RegionOpenTypeOK, UsedInv, OldInv, OtherOpeners,
       OtherFiles, At, Handle, Empty
<1>11. ASSUME NEW o \in Openers, NEW p \in Pos, Load(o, p) PROVE OldInv'
  BY <1>11, LoadEffect DEF UsedInv, OldInv, OtherOpeners, OtherFiles, At, Handle, Empty
<1>12. ASSUME NEW p \in Pos, Writer \in Openers, Save(p) PROVE OldInv'
  BY <1>12, SaveEffect DEF UsedInv, OldInv, OtherOpeners, OtherFiles, At, Handle, Empty
<1>13. ASSUME Crash PROVE OldInv'
  BY <1>13, CrashEffect DEF UsedInv, OldInv, OtherOpeners, OtherFiles, At, Handle, Empty
<1>14. CASE UNCHANGED vars
  BY <1>14 DEF vars, UsedInv, OldInv, OtherOpeners, OtherFiles, At, Handle, Empty
<1>15. ASSUME NEW o \in Openers, OpenFails(o) PROVE OldInv'
  BY <1>15, OpenFailsEffect DEF UsedInv, OldInv, OtherOpeners, OtherFiles, At, Handle, Empty
<1> QED BY <1>1, <1>2, <1>3, <1>4, <1>5, <1>6, <1>7, <1>8, <1>9, <1>10, <1>11, <1>12,
    <1>13, <1>14, <1>15 DEF Next

\* A race is not forgotten.
LEMMA RaceStays ==
    RegionOpenTypeOK /\ UsedInv /\ OldInv /\ [Next]_vars => (raced => raced')
<1> SUFFICES ASSUME RegionOpenTypeOK, UsedInv, OldInv, [Next]_vars PROVE (raced => raced')
  OBVIOUS
<1>1. ASSUME NEW o \in Openers, Open(o), path # NoFile PROVE (raced => raced')
  BY <1>1, OpenOldEffect DEF Race
<1>2. ASSUME NEW o \in Openers, Open(o), path = NoFile PROVE (raced => raced')
  BY <1>2, OpenNewEffect DEF Race
<1>3. ASSUME NEW o \in Openers, Classify(o) PROVE (raced => raced')
  BY <1>3, ClassifyEffect DEF Race
<1>4. ASSUME NEW o \in Openers, InitLength(o) PROVE (raced => raced')
  BY <1>4, InitLengthEffect DEF Race
<1>5. ASSUME NEW o \in Openers, InitHeader(o) PROVE (raced => raced')
  BY <1>5, InitHeaderEffect DEF Race
<1>6. ASSUME NEW o \in Openers, ReadOld(o) PROVE (raced => raced')
  BY <1>6, ReadOldEffect DEF Race
<1>7. ASSUME NEW o \in Openers, CreateTmp(o) PROVE (raced => raced')
  BY <1>7, CreateTmpEffect DEF Race
<1>8. ASSUME NEW o \in Openers, WriteTmp(o) PROVE (raced => raced')
  <2>1. opener[o].tmp \in Files
    BY <1>8 DEF OldInv, WriteTmp, At
  <2> QED BY <1>8, <2>1, WriteTmpEffect DEF Race
<1>9. ASSUME NEW o \in Openers, Rename(o) PROVE (raced => raced')
  BY <1>9, RenameEffect DEF Race
<1>10. ASSUME NEW o \in Openers, Reopen(o) PROVE (raced => raced')
  BY <1>10, ReopenEffect, PathTypes DEF UsedInv, Reopen, At, Race
<1>11. ASSUME NEW o \in Openers, NEW p \in Pos, Load(o, p) PROVE (raced => raced')
  BY <1>11, LoadEffect DEF Race
<1>12. ASSUME NEW p \in Pos, Writer \in Openers, Save(p) PROVE (raced => raced')
  BY <1>12, SaveEffect DEF Race
<1>13. ASSUME Crash PROVE (raced => raced')
  BY <1>13, CrashEffect DEF Race
<1>14. CASE UNCHANGED vars
  BY <1>14 DEF vars, Race
<1>15. ASSUME NEW o \in Openers, OpenFails(o) PROVE (raced => raced')
  BY <1>15, OpenFailsEffect DEF Race
<1> QED BY <1>1, <1>2, <1>3, <1>4, <1>5, <1>6, <1>7, <1>8, <1>9, <1>10, <1>11, <1>12,
    <1>13, <1>14, <1>15 DEF Next

\* Nobody writes into a file it has not initialised: one without marker or header stays empty.
LEMMA BlankStep ==
    RegionOpenTypeOK /\ UsedInv /\ OldInv /\ BlankInv /\ OpenerInv /\ AloneInv /\ ~raced /\ ~raced'
    /\ [Next]_vars => BlankInv'
<1> SUFFICES ASSUME RegionOpenTypeOK, UsedInv, OldInv, BlankInv, OpenerInv, AloneInv,
    ~raced, ~raced', [Next]_vars PROVE BlankInv'
  OBVIOUS
<1> USE Constants, HandleType, PathTypes
<1>1. ASSUME NEW o \in Openers, Open(o), path # NoFile PROVE BlankInv'
  BY <1>1, OpenOldEffect DEF UsedInv, OtherOpeners, OtherFiles, At, Handle, Empty, Race,
       Overlap, Changing,
       OpenerInv, AloneInv, BlankInv, Blank
<1>2. ASSUME NEW o \in Openers, Open(o), path = NoFile PROVE BlankInv'
  BY <1>2, OpenNewEffect DEF UsedInv, OtherOpeners, OtherFiles, At, Handle, Empty, Race,
       Overlap, Changing,
       OpenerInv, AloneInv, BlankInv, Blank
<1>3. ASSUME NEW o \in Openers, Classify(o) PROVE BlankInv'
  BY <1>3, ClassifyEffect DEF UsedInv, OtherOpeners, OtherFiles, At, Handle, Empty, Race,
       Overlap, Changing,
       OpenerInv, AloneInv, BlankInv, Blank
<1>4. ASSUME NEW o \in Openers, InitLength(o) PROVE BlankInv'
  BY <1>4, InitLengthEffect DEF UsedInv, OtherOpeners, OtherFiles, At, Handle, Empty,
       Race, Overlap, Changing,  OpenerInv, AloneInv, BlankInv, Blank
<1>5. ASSUME NEW o \in Openers, InitHeader(o) PROVE BlankInv'
  BY <1>5, InitHeaderEffect DEF UsedInv, OtherOpeners, OtherFiles, At, Handle, Empty,
       Race, Overlap, Changing,  OpenerInv, AloneInv, BlankInv, Blank
<1>6. ASSUME NEW o \in Openers, ReadOld(o) PROVE BlankInv'
  BY <1>6, ReadOldEffect DEF UsedInv, OtherOpeners, OtherFiles, At, Handle, Empty, Race,
       Overlap, Changing,
       OpenerInv, AloneInv, BlankInv, Blank
<1>7. ASSUME NEW o \in Openers, CreateTmp(o) PROVE BlankInv'
  BY <1>7, CreateTmpEffect DEF UsedInv, OtherOpeners, OtherFiles, At, Handle, Empty, Race,
       Overlap, Changing,
       OpenerInv, AloneInv, BlankInv, Blank
<1>8. ASSUME NEW o \in Openers, WriteTmp(o) PROVE BlankInv'
  <2>1. opener[o].tmp \in Files
    BY <1>8 DEF OldInv, WriteTmp, At
  <2> QED BY <1>8, <2>1, WriteTmpEffect DEF UsedInv, OtherOpeners, OtherFiles, At, Handle,
      Empty, Race, Overlap, Changing,  OpenerInv, AloneInv, BlankInv, Blank
<1>9. ASSUME NEW o \in Openers, Rename(o) PROVE BlankInv'
  BY <1>9, RenameEffect DEF UsedInv, OtherOpeners, OtherFiles, At, Handle, Empty, Race,
       Overlap, Changing,
       OpenerInv, AloneInv, BlankInv, Blank
<1>10. ASSUME NEW o \in Openers, Reopen(o) PROVE BlankInv'
  <2>1. path \in Files
    BY <1>10 DEF Reopen, At, UsedInv
  <2> QED BY <1>10, <2>1, ReopenEffect DEF UsedInv, OtherOpeners, OtherFiles, At, Handle,
      Empty, Race, Overlap, Changing,  OpenerInv, AloneInv, BlankInv, Blank
<1>11. ASSUME NEW o \in Openers, NEW p \in Pos, Load(o, p) PROVE BlankInv'
  BY <1>11, LoadEffect DEF UsedInv, OtherOpeners, OtherFiles, At, Handle, Empty, Race,
       Overlap, Changing,
       OpenerInv, AloneInv, BlankInv, Blank
<1>12. ASSUME NEW p \in Pos, Writer \in Openers, Save(p) PROVE BlankInv'
  BY <1>12, SaveEffect DEF UsedInv, OtherOpeners, OtherFiles, At, Handle, Empty, Race,
       Overlap, Changing,
       OpenerInv, AloneInv, BlankInv, Blank
<1>13. ASSUME Crash PROVE BlankInv'
  BY <1>13, CrashEffect DEF UsedInv, OtherOpeners, OtherFiles, At, Handle, Empty, Race,
       Overlap, Changing,
       OpenerInv, AloneInv, BlankInv, Blank
<1>14. CASE UNCHANGED vars
  BY <1>14 DEF vars, UsedInv, OtherOpeners, OtherFiles, At, Handle, Empty, Race, Overlap,
       Changing,
       OpenerInv, AloneInv, BlankInv, Blank
<1>15. ASSUME NEW o \in Openers, OpenFails(o) PROVE BlankInv'
  BY <1>15, OpenFailsEffect DEF UsedInv, OtherOpeners, OtherFiles, At, Handle, Empty, Race,
       Overlap, Changing,
       OpenerInv, AloneInv, BlankInv, Blank
<1> QED BY <1>1, <1>2, <1>3, <1>4, <1>5, <1>6, <1>7, <1>8, <1>9, <1>10, <1>11, <1>12,
    <1>13, <1>14, <1>15 DEF Next

\* Nobody else changes the file a thread is opening.
LEMMA OpenerStep ==
    RegionOpenTypeOK /\ UsedInv /\ OldInv /\ BlankInv /\ OpenerInv /\ AloneInv /\ ~raced /\ ~raced'
    /\ [Next]_vars => OpenerInv'
<1> SUFFICES ASSUME RegionOpenTypeOK, UsedInv, OldInv, BlankInv, OpenerInv, AloneInv,
    ~raced, ~raced', [Next]_vars PROVE OpenerInv'
  OBVIOUS
<1> USE Constants, HandleType, PathTypes
<1>1. ASSUME NEW o \in Openers, Open(o), path # NoFile PROVE OpenerInv'
  BY <1>1, OpenOldEffect DEF UsedInv, OtherOpeners, OtherFiles, At, Handle, Empty, Race,
       Overlap, Changing,
       OpenerInv, AloneInv, BlankInv, Blank, Old
<1>2. ASSUME NEW o \in Openers, Open(o), path = NoFile PROVE OpenerInv'
  BY <1>2, OpenNewEffect DEF UsedInv, OtherOpeners, OtherFiles, At, Handle, Empty, Race,
       Overlap, Changing,
       OpenerInv, AloneInv, BlankInv, Blank, Old
<1>3. ASSUME NEW o \in Openers, Classify(o) PROVE OpenerInv'
  BY <1>3, ClassifyEffect DEF UsedInv, OtherOpeners, OtherFiles, At, Handle, Empty, Race,
       Overlap, Changing,
       OpenerInv, AloneInv, BlankInv, Blank, Old
<1>4. ASSUME NEW o \in Openers, InitLength(o) PROVE OpenerInv'
  BY <1>4, InitLengthEffect DEF UsedInv, OtherOpeners, OtherFiles, At, Handle, Empty,
       Race, Overlap, Changing,  OpenerInv, AloneInv, BlankInv, Blank, Old
<1>5. ASSUME NEW o \in Openers, InitHeader(o) PROVE OpenerInv'
  BY <1>5, InitHeaderEffect DEF UsedInv, OtherOpeners, OtherFiles, At, Handle, Empty,
       Race, Overlap, Changing,  OpenerInv, AloneInv, BlankInv, Blank, Old
<1>6. ASSUME NEW o \in Openers, ReadOld(o) PROVE OpenerInv'
  BY <1>6, ReadOldEffect DEF UsedInv, OtherOpeners, OtherFiles, At, Handle, Empty, Race,
       Overlap, Changing,
       OpenerInv, AloneInv, BlankInv, Blank, Old
<1>7. ASSUME NEW o \in Openers, CreateTmp(o) PROVE OpenerInv'
  BY <1>7, CreateTmpEffect DEF UsedInv, OtherOpeners, OtherFiles, At, Handle, Empty, Race,
       Overlap, Changing,
       OpenerInv, AloneInv, BlankInv, Blank, Old
<1>8. ASSUME NEW o \in Openers, WriteTmp(o) PROVE OpenerInv'
  <2>1. opener[o].tmp \in Files
    BY <1>8 DEF OldInv, WriteTmp, At
  <2> QED BY <1>8, <2>1, WriteTmpEffect DEF UsedInv, OtherOpeners, OtherFiles, At, Handle,
      Empty, Race, Overlap, Changing,  OpenerInv, AloneInv, BlankInv, Blank, Old
<1>9. ASSUME NEW o \in Openers, Rename(o) PROVE OpenerInv'
  BY <1>9, RenameEffect DEF UsedInv, OtherOpeners, OtherFiles, At, Handle, Empty, Race,
       Overlap, Changing,
       OpenerInv, AloneInv, BlankInv, Blank, Old
<1>10. ASSUME NEW o \in Openers, Reopen(o) PROVE OpenerInv'
  <2>1. path \in Files
    BY <1>10 DEF Reopen, At, UsedInv
  <2> QED BY <1>10, <2>1, ReopenEffect DEF UsedInv, OtherOpeners, OtherFiles, At, Handle,
      Empty, Race, Overlap, Changing,  OpenerInv, AloneInv, BlankInv, Blank, Old
<1>11. ASSUME NEW o \in Openers, NEW p \in Pos, Load(o, p) PROVE OpenerInv'
  BY <1>11, LoadEffect DEF UsedInv, OtherOpeners, OtherFiles, At, Handle, Empty, Race,
       Overlap, Changing,
       OpenerInv, AloneInv, BlankInv, Blank, Old
<1>12. ASSUME NEW p \in Pos, Writer \in Openers, Save(p) PROVE OpenerInv'
  BY <1>12, SaveEffect DEF UsedInv, OtherOpeners, OtherFiles, At, Handle, Empty, Race,
       Overlap, Changing,
       OpenerInv, AloneInv, BlankInv, Blank, Old
<1>13. ASSUME Crash PROVE OpenerInv'
  BY <1>13, CrashEffect DEF UsedInv, OtherOpeners, OtherFiles, At, Handle, Empty, Race,
       Overlap, Changing,
       OpenerInv, AloneInv, BlankInv, Blank, Old
<1>14. CASE UNCHANGED vars
  BY <1>14 DEF vars, UsedInv, OtherOpeners, OtherFiles, At, Handle, Empty, Race, Overlap,
       Changing,
       OpenerInv, AloneInv, BlankInv, Blank, Old
<1>15. ASSUME NEW o \in Openers, OpenFails(o) PROVE OpenerInv'
  BY <1>15, OpenFailsEffect DEF UsedInv, OtherOpeners, OtherFiles, At, Handle, Empty, Race,
       Overlap, Changing,
       OpenerInv, AloneInv, BlankInv, Blank, Old
<1> QED BY <1>1, <1>2, <1>3, <1>4, <1>5, <1>6, <1>7, <1>8, <1>9, <1>10, <1>11, <1>12,
    <1>13, <1>14, <1>15 DEF Next

\* A thread that begins to initialise or migrate, or to open while another
\* one does, is a race unless the others have the file closed.
LEMMA AloneMove ==
  ASSUME NEW o \in Openers, AloneInv, OtherOpeners(o), Race(o), ~raced'
  PROVE  AloneInv'
<1> SUFFICES ASSUME NEW q \in Openers, opener'[q].step \in Changing,
                    NEW r \in Openers \ {q}
             PROVE  opener'[r].step = "closed"
  BY DEF AloneInv, At
<1>1. \A x \in Openers \ {o} : ~Overlap(opener'[o], opener[x]) /\ opener'[x] = opener[x]
  BY DEF Race, OtherOpeners
<1>2. "closed" \notin Changing
  BY DEF Changing
<1>3. CASE q = o
  BY <1>1, <1>2, <1>3 DEF Overlap
<1>4. CASE q # o /\ r = o
  BY <1>1, <1>2, <1>4 DEF Overlap
<1>5. CASE q # o /\ r # o
  BY <1>1, <1>5 DEF AloneInv, At
<1> QED BY <1>3, <1>4, <1>5

\* Who changes the file stays alone with it.
LEMMA AloneStep ==
    RegionOpenTypeOK /\ UsedInv /\ OldInv /\ BlankInv /\ OpenerInv /\ AloneInv /\ ~raced /\ ~raced'
    /\ [Next]_vars => AloneInv'
<1> SUFFICES ASSUME RegionOpenTypeOK, UsedInv, OldInv, AloneInv, ~raced', [Next]_vars
             PROVE AloneInv'
  OBVIOUS
<1>1. ASSUME NEW o \in Openers, Open(o), path # NoFile PROVE AloneInv'
  BY <1>1, OpenOldEffect, AloneMove
<1>2. ASSUME NEW o \in Openers, Open(o), path = NoFile PROVE AloneInv'
  BY <1>2, OpenNewEffect, AloneMove
<1>3. ASSUME NEW o \in Openers, Classify(o) PROVE AloneInv'
  BY <1>3, ClassifyEffect, AloneMove
<1>4. ASSUME NEW o \in Openers, InitLength(o) PROVE AloneInv'
  BY <1>4, InitLengthEffect, AloneMove
<1>5. ASSUME NEW o \in Openers, InitHeader(o) PROVE AloneInv'
  BY <1>5, InitHeaderEffect, AloneMove
<1>6. ASSUME NEW o \in Openers, ReadOld(o) PROVE AloneInv'
  BY <1>6, ReadOldEffect, AloneMove
<1>7. ASSUME NEW o \in Openers, CreateTmp(o) PROVE AloneInv'
  BY <1>7, CreateTmpEffect, AloneMove
<1>8. ASSUME NEW o \in Openers, WriteTmp(o) PROVE AloneInv'
  <2>1. opener[o].tmp \in Files
    BY <1>8 DEF OldInv, WriteTmp, At
  <2> QED BY <1>8, <2>1, WriteTmpEffect, AloneMove
<1>9. ASSUME NEW o \in Openers, Rename(o) PROVE AloneInv'
  BY <1>9, RenameEffect, AloneMove
<1>10. ASSUME NEW o \in Openers, Reopen(o) PROVE AloneInv'
  <2>1. path \in Files
    BY <1>10, PathTypes DEF Reopen, At, UsedInv
  <2> QED BY <1>10, <2>1, ReopenEffect, AloneMove
<1>11. ASSUME NEW o \in Openers, NEW p \in Pos, Load(o, p) PROVE AloneInv'
  BY <1>11, LoadEffect DEF AloneInv, At
<1>12. ASSUME NEW p \in Pos, Writer \in Openers, Save(p) PROVE AloneInv'
  BY <1>12, SaveEffect DEF AloneInv, At
<1>13. ASSUME Crash PROVE AloneInv'
  BY <1>13, CrashEffect DEF AloneInv, At, Changing
<1>14. CASE UNCHANGED vars
  BY <1>14 DEF vars, AloneInv, At
<1>15. ASSUME NEW o \in Openers, OpenFails(o) PROVE AloneInv'
  BY <1>15, OpenFailsEffect, AloneMove
<1> QED BY <1>1, <1>2, <1>3, <1>4, <1>5, <1>6, <1>7, <1>8, <1>9, <1>10, <1>11, <1>12,
    <1>13, <1>14, <1>15 DEF Next

\* The file at the path goes on reaching what was saved.
LEMMA SavedStep ==
    RegionOpenTypeOK /\ UsedInv /\ OldInv /\ BlankInv /\ OpenerInv /\ AloneInv /\ ~raced /\ ~raced'
    /\ PathReachesSaved /\ [Next]_vars => PathReachesSaved'
<1> SUFFICES ASSUME RegionOpenTypeOK, UsedInv, OldInv, BlankInv, OpenerInv, AloneInv,
    ~raced, ~raced', PathReachesSaved, [Next]_vars PROVE PathReachesSaved'
  OBVIOUS
<1> USE Constants, HandleType, PathTypes
<1>1. ASSUME NEW o \in Openers, Open(o), path # NoFile PROVE PathReachesSaved'
  BY <1>1, OpenOldEffect DEF UsedInv, OtherOpeners, OtherFiles, At, Handle, Empty, Race,
       Overlap, Changing,
       OpenerInv, AloneInv, BlankInv, PathReachesSaved, Blank, Old
<1>2. ASSUME NEW o \in Openers, Open(o), path = NoFile PROVE PathReachesSaved'
  BY <1>2, OpenNewEffect DEF UsedInv, OtherOpeners, OtherFiles, At, Handle, Empty, Race,
       Overlap, Changing,
       OpenerInv, AloneInv, BlankInv, PathReachesSaved, Blank, Old
<1>3. ASSUME NEW o \in Openers, Classify(o) PROVE PathReachesSaved'
  BY <1>3, ClassifyEffect DEF UsedInv, OtherOpeners, OtherFiles, At, Handle, Empty, Race,
       Overlap, Changing,
       OpenerInv, AloneInv, BlankInv, PathReachesSaved, Blank, Old
<1>4. ASSUME NEW o \in Openers, InitLength(o) PROVE PathReachesSaved'
  BY <1>4, InitLengthEffect DEF UsedInv, OtherOpeners, OtherFiles, At, Handle, Empty,
       Race, Overlap, Changing,  OpenerInv, AloneInv, BlankInv, PathReachesSaved, Blank, Old
<1>5. ASSUME NEW o \in Openers, InitHeader(o) PROVE PathReachesSaved'
  BY <1>5, InitHeaderEffect DEF UsedInv, OtherOpeners, OtherFiles, At, Handle, Empty,
       Race, Overlap, Changing,  OpenerInv, AloneInv, BlankInv, PathReachesSaved, Blank, Old
<1>6. ASSUME NEW o \in Openers, ReadOld(o) PROVE PathReachesSaved'
  BY <1>6, ReadOldEffect DEF UsedInv, OtherOpeners, OtherFiles, At, Handle, Empty, Race,
       Overlap, Changing,
       OpenerInv, AloneInv, BlankInv, PathReachesSaved, Blank, Old
<1>7. ASSUME NEW o \in Openers, CreateTmp(o) PROVE PathReachesSaved'
  BY <1>7, CreateTmpEffect DEF UsedInv, OtherOpeners, OtherFiles, At, Handle, Empty, Race,
       Overlap, Changing,
       OpenerInv, AloneInv, BlankInv, PathReachesSaved, Blank, Old
<1>8. ASSUME NEW o \in Openers, WriteTmp(o) PROVE PathReachesSaved'
  <2>1. opener[o].tmp \in Files
    BY <1>8 DEF OldInv, WriteTmp, At
  <2> QED BY <1>8, <2>1, WriteTmpEffect DEF UsedInv, OtherOpeners, OtherFiles, At, Handle,
      Empty, Race, Overlap, Changing,  OpenerInv, AloneInv, BlankInv, PathReachesSaved, Blank, Old
<1>9. ASSUME NEW o \in Openers, Rename(o) PROVE PathReachesSaved'
  BY <1>9, RenameEffect DEF UsedInv, OtherOpeners, OtherFiles, At, Handle, Empty, Race,
       Overlap, Changing,
       OpenerInv, AloneInv, BlankInv, PathReachesSaved, Blank, Old
<1>10. ASSUME NEW o \in Openers, Reopen(o) PROVE PathReachesSaved'
  <2>1. path \in Files
    BY <1>10 DEF Reopen, At, UsedInv
  <2> QED BY <1>10, <2>1, ReopenEffect DEF UsedInv, OtherOpeners, OtherFiles, At, Handle,
      Empty, Race, Overlap, Changing,  OpenerInv, AloneInv, BlankInv, PathReachesSaved, Blank, Old
<1>11. ASSUME NEW o \in Openers, NEW p \in Pos, Load(o, p) PROVE PathReachesSaved'
  BY <1>11, LoadEffect DEF UsedInv, OtherOpeners, OtherFiles, At, Handle, Empty, Race,
       Overlap, Changing,
       OpenerInv, AloneInv, BlankInv, PathReachesSaved, Blank, Old
<1>12. ASSUME NEW p \in Pos, Writer \in Openers, Save(p) PROVE PathReachesSaved'
  BY <1>12, SaveEffect DEF UsedInv, OtherOpeners, OtherFiles, At, Handle, Empty, Race,
       Overlap, Changing,
       OpenerInv, AloneInv, BlankInv, PathReachesSaved, Blank, Old
<1>13. ASSUME Crash PROVE PathReachesSaved'
  BY <1>13, CrashEffect DEF UsedInv, OtherOpeners, OtherFiles, At, Handle, Empty, Race,
       Overlap, Changing,
       OpenerInv, AloneInv, BlankInv, PathReachesSaved, Blank, Old
<1>14. CASE UNCHANGED vars
  BY <1>14 DEF vars, UsedInv, OtherOpeners, OtherFiles, At, Handle, Empty, Race, Overlap,
       Changing,
       OpenerInv, AloneInv, BlankInv, PathReachesSaved, Blank, Old
<1>15. ASSUME NEW o \in Openers, OpenFails(o) PROVE PathReachesSaved'
  BY <1>15, OpenFailsEffect DEF UsedInv, OtherOpeners, OtherFiles, At, Handle, Empty, Race,
       Overlap, Changing,
       OpenerInv, AloneInv, BlankInv, PathReachesSaved, Blank, Old
<1> QED BY <1>1, <1>2, <1>3, <1>4, <1>5, <1>6, <1>7, <1>8, <1>9, <1>10, <1>11, <1>12,
    <1>13, <1>14, <1>15 DEF Next

\* A reader finds what was saved.
LEMMA FoundStep ==
    RegionOpenTypeOK /\ UsedInv /\ OldInv /\ BlankInv /\ OpenerInv /\ AloneInv /\ ~raced /\ ~raced'
    /\ PathReachesSaved /\ SavedIsFound /\ [Next]_vars => SavedIsFound'
<1> SUFFICES ASSUME RegionOpenTypeOK, UsedInv, OldInv, BlankInv, OpenerInv, AloneInv,
    ~raced, ~raced', PathReachesSaved, SavedIsFound, [Next]_vars PROVE SavedIsFound'
  OBVIOUS
<1> USE Constants, HandleType, PathTypes
<1>1. ASSUME NEW o \in Openers, Open(o), path # NoFile PROVE SavedIsFound'
  BY <1>1, OpenOldEffect DEF UsedInv, OtherOpeners, OtherFiles, At, Handle, Empty, Race,
       Overlap, Changing,
       OpenerInv, AloneInv, PathReachesSaved, SavedIsFound
<1>2. ASSUME NEW o \in Openers, Open(o), path = NoFile PROVE SavedIsFound'
  BY <1>2, OpenNewEffect DEF UsedInv, OtherOpeners, OtherFiles, At, Handle, Empty, Race,
       Overlap, Changing,
       OpenerInv, AloneInv, PathReachesSaved, SavedIsFound
<1>3. ASSUME NEW o \in Openers, Classify(o) PROVE SavedIsFound'
  BY <1>3, ClassifyEffect DEF UsedInv, OtherOpeners, OtherFiles, At, Handle, Empty, Race,
       Overlap, Changing,
       OpenerInv, AloneInv, PathReachesSaved, SavedIsFound
<1>4. ASSUME NEW o \in Openers, InitLength(o) PROVE SavedIsFound'
  BY <1>4, InitLengthEffect DEF UsedInv, OtherOpeners, OtherFiles, At, Handle, Empty,
       Race, Overlap, Changing,  OpenerInv, AloneInv, PathReachesSaved, SavedIsFound
<1>5. ASSUME NEW o \in Openers, InitHeader(o) PROVE SavedIsFound'
  BY <1>5, InitHeaderEffect DEF UsedInv, OtherOpeners, OtherFiles, At, Handle, Empty,
       Race, Overlap, Changing,  OpenerInv, AloneInv, PathReachesSaved, SavedIsFound
<1>6. ASSUME NEW o \in Openers, ReadOld(o) PROVE SavedIsFound'
  BY <1>6, ReadOldEffect DEF UsedInv, OtherOpeners, OtherFiles, At, Handle, Empty, Race,
       Overlap, Changing,
       OpenerInv, AloneInv, PathReachesSaved, SavedIsFound
<1>7. ASSUME NEW o \in Openers, CreateTmp(o) PROVE SavedIsFound'
  BY <1>7, CreateTmpEffect DEF UsedInv, OtherOpeners, OtherFiles, At, Handle, Empty, Race,
       Overlap, Changing,
       OpenerInv, AloneInv, PathReachesSaved, SavedIsFound
<1>8. ASSUME NEW o \in Openers, WriteTmp(o) PROVE SavedIsFound'
  <2>1. opener[o].tmp \in Files
    BY <1>8 DEF OldInv, WriteTmp, At
  <2> QED BY <1>8, <2>1, WriteTmpEffect DEF UsedInv, OtherOpeners, OtherFiles, At, Handle,
      Empty, Race, Overlap, Changing,  OpenerInv, AloneInv, PathReachesSaved, SavedIsFound
<1>9. ASSUME NEW o \in Openers, Rename(o) PROVE SavedIsFound'
  BY <1>9, RenameEffect DEF UsedInv, OtherOpeners, OtherFiles, At, Handle, Empty, Race,
       Overlap, Changing,
       OpenerInv, AloneInv, PathReachesSaved, SavedIsFound
<1>10. ASSUME NEW o \in Openers, Reopen(o) PROVE SavedIsFound'
  <2>1. path \in Files
    BY <1>10 DEF Reopen, At, UsedInv
  <2> QED BY <1>10, <2>1, ReopenEffect DEF UsedInv, OtherOpeners, OtherFiles, At, Handle,
      Empty, Race, Overlap, Changing,  OpenerInv, AloneInv, PathReachesSaved, SavedIsFound
<1>11. ASSUME NEW o \in Openers, NEW p \in Pos, Load(o, p) PROVE SavedIsFound'
  BY <1>11, LoadEffect DEF UsedInv, OtherOpeners, OtherFiles, At, Handle, Empty, Race,
       Overlap, Changing,
       OpenerInv, AloneInv, PathReachesSaved, SavedIsFound
<1>12. ASSUME NEW p \in Pos, Writer \in Openers, Save(p) PROVE SavedIsFound'
  BY <1>12, SaveEffect DEF UsedInv, OtherOpeners, OtherFiles, At, Handle, Empty, Race,
       Overlap, Changing,
       OpenerInv, AloneInv, PathReachesSaved, SavedIsFound
<1>13. ASSUME Crash PROVE SavedIsFound'
  BY <1>13, CrashEffect DEF UsedInv, OtherOpeners, OtherFiles, At, Handle, Empty, Race,
       Overlap, Changing,
       OpenerInv, AloneInv, PathReachesSaved, SavedIsFound
<1>14. CASE UNCHANGED vars
  BY <1>14 DEF vars, UsedInv, OtherOpeners, OtherFiles, At, Handle, Empty, Race, Overlap,
       Changing,
       OpenerInv, AloneInv, PathReachesSaved, SavedIsFound
<1>15. ASSUME NEW o \in Openers, OpenFails(o) PROVE SavedIsFound'
  BY <1>15, OpenFailsEffect DEF UsedInv, OtherOpeners, OtherFiles, At, Handle, Empty, Race,
       Overlap, Changing,
       OpenerInv, AloneInv, PathReachesSaved, SavedIsFound
<1> QED BY <1>1, <1>2, <1>3, <1>4, <1>5, <1>6, <1>7, <1>8, <1>9, <1>10, <1>11, <1>12,
    <1>13, <1>14, <1>15 DEF Next

-----------------------------------------------------------------------------
(* The theorems.                                                           *)

IInv == RegionOpenTypeOK /\ UsedInv /\ OldInv /\ SingleInv

LEMMA InitIInv == Init => IInv
<1> SUFFICES ASSUME Init PROVE IInv
  OBVIOUS
<1> USE Constants
<1>1. /\ tmp = NoFile /\ missed = {} /\ raced = FALSE /\ crashes = 0
      /\ stored \in SUBSET Pos /\ opener = [o \in Openers |-> Closed]
      /\ path \in Files \cup {NoFile} /\ file \in [Files -> FileRec]
      /\ \A f \in Files : file[f].format \in Blank => file[f].table = {}
      /\ path = NoFile => stored = {}
      /\ path # NoFile => file[path].format # "unused" /\ file[path].table = stored
  <2>1. PICK start \in Starts :
          IF start = NoFile
          THEN /\ path = NoFile /\ stored = {}
               /\ file = [f \in Files |-> [format |-> "unused", table |-> {}]]
          ELSE /\ path = 1 /\ stored \in SUBSET Pos
               /\ file = [f \in Files |-> IF f = 1 THEN [format |-> start, table |-> stored]
                                          ELSE [format |-> "unused", table |-> {}]]
    BY DEF Init
  <2>2. tmp = NoFile /\ missed = {} /\ raced = FALSE /\ crashes = 0
        /\ opener = [o \in Openers |-> Closed]
    BY DEF Init
  <2>3. CASE start = NoFile
    BY <2>1, <2>2, <2>3 DEF FileRec, Formats
  <2>4. CASE start # NoFile
    <3>1. start \in {"v1", "v2"}
      BY <2>4, OpenAssumption
    <3> QED BY <2>1, <2>2, <2>4, <3>1 DEF FileRec, Formats, Blank
  <2> QED BY <2>3, <2>4
<1>2. Closed \in OpenerRec /\ Closed.step = "closed"
  BY DEF Closed, OpenerRec, Steps
<1>3. opener \in [Openers -> OpenerRec] /\ \A o \in Openers : At(o, "closed")
  BY <1>1, <1>2 DEF At
<1>4. crashes \in 0 .. MaxCrashes
  BY <1>1, OpenAssumption
<1>5. RegionOpenTypeOK
  BY <1>1, <1>3, <1>4 DEF RegionOpenTypeOK, FileRec, OpenerRec, At
<1>6. UsedInv /\ OldInv
  BY <1>1, <1>3 DEF UsedInv, OldInv, At
<1>7. BlankInv
  BY <1>1 DEF BlankInv
<1>8. OpenerInv /\ AloneInv
  BY <1>3 DEF OpenerInv, AloneInv
<1>9. PathReachesSaved /\ SavedIsFound
  BY <1>1 DEF PathReachesSaved, SavedIsFound
<1> QED BY <1>5, <1>6, <1>7, <1>8, <1>9 DEF IInv, SingleInv

LEMMA NextIInv == IInv /\ [Next]_vars => IInv'
<1> SUFFICES ASSUME RegionOpenTypeOK, UsedInv, OldInv, SingleInv, [Next]_vars PROVE IInv'
  BY DEF IInv
<1>1. RegionOpenTypeOK' /\ UsedInv' /\ OldInv'
  BY TypeStep, UsedStep, OldStep
<1>2. ASSUME ~raced' PROVE (BlankInv /\ OpenerInv /\ AloneInv /\ PathReachesSaved /\ SavedIsFound)'
  <2>1. ~raced
    BY <1>2, RaceStays
  <2>2. BlankInv /\ OpenerInv /\ AloneInv /\ PathReachesSaved /\ SavedIsFound
    BY <2>1 DEF SingleInv
  <2> QED BY <1>2, <2>1, <2>2, BlankStep, OpenerStep, AloneStep, SavedStep, FoundStep
<1> QED BY <1>1, <1>2 DEF IInv, SingleInv

LEMMA Invariance == Spec => []IInv
  BY InitIInv, NextIInv, PTL DEF Spec

\* Two threads may migrate or initialise the same file, overtake each other
\* and die at any step: an open handle still never has the old format.
THEOREM OpenMigrated == Spec => []OpenIsMigrated
<1>1. IInv => OpenIsMigrated
  BY DEF IInv, OldInv, OpenIsMigrated
<1> QED BY <1>1, Invariance, PTL

\* The rename puts the whole image in place in one step, so whenever the
\* process dies or an open fails the file at the path reaches every saved
\* chunk, as long as nobody has it open while another thread migrates it.
THEOREM SavedReached == Spec => []PathReachesSaved
<1>1. IInv => PathReachesSaved
  BY DEF IInv, SingleInv, PathReachesSaved
<1> QED BY <1>1, Invariance, PTL

\* On the same condition load_chunk answers Ok(None) for a saved chunk only
\* when its own open of the file failed.
THEOREM SavedFound == Spec => []SavedIsFound
<1>1. IInv => SavedIsFound
  BY DEF IInv, SingleInv, SavedIsFound
<1> QED BY <1>1, Invariance, PTL
=============================================================================
