------------------------- MODULE PipelineCacheProofs -------------------------
(***************************************************************************)
(* Theorems about PipelineCache for any processes, caches, threads and     *)
(* shaders: nothing a cache compiled is left unsaved, and, where a process *)
(* has one cache, the file is never half a snapshot and never an older one *)
(* over a newer.                                                           *)
(***************************************************************************)
EXTENDS PipelineCache, FiniteSetTheorems, TLAPS

Writing(t) == writer[t].pc \in {"create", "write", "rename"}
Mem(t) == mem[CacheOf[t]]

Writers == [pc : {"idle", "save", "create", "write", "rename"},
            data : SUBSET Shaders, fd : Inodes \cup {NoFile}]

(* A thread that saves has its cache open. *)
Running == \A t \in Threads : writer[t].pc # "idle" => status[CacheOf[t]] # "closed"
Base == TypeOK /\ Running

-----------------------------------------------------------------------------
(* What was compiled is saved, or somebody is still about to save it.      *)

ToSave(c) == \E u \in ThreadsOf(c) : writer[u].pc = "save"

SnapshotOrSave == \A t \in Threads : Writing(t) => writer[t].data = Mem(t) \/ ToSave(CacheOf[t])

SavedOrBusy ==
  \A c \in Caches :
    status[c] = "saved" => saved[c] = mem[c] \/ \E t \in ThreadsOf(c) : writer[t].pc # "idle"

SInv == SnapshotOrSave /\ SavedOrBusy

-----------------------------------------------------------------------------
(* The file, where a process has one cache. *)

OneCacheEach == \A c, d \in Caches : ProcessOf[c] = ProcessOf[d] => c = d

(* The mutex of a cache. *)
OneWriter == \A t, u \in Threads : Writing(t) /\ Writing(u) /\ CacheOf[t] = CacheOf[u] => t = u

(* An inode has one name at most, and only the temporary file is open.     *)
OneName ==
  \A p \in Processes :
    temp[p] # NoFile => temp[p] # file /\ \A q \in Processes : temp[q] = temp[p] => q = p
OpenIsTemp ==
  \A t \in Threads :
    /\ writer[t].pc = "write" => writer[t].fd = Temp(t) /\ Temp(t) # NoFile /\ content[Temp(t)].data = {}
    /\ writer[t].pc # "write" => writer[t].fd = NoFile

(* What is about to be renamed is the snapshot, whole, and of this cache.  *)
RenameIsWhole ==
  \A t \in Threads :
    writer[t].pc = "rename" =>
      Temp(t) # NoFile /\ content[Temp(t)] = [data |-> writer[t].data, whole |-> TRUE, by |-> CacheOf[t]]

(* A cache only grows, and so do its snapshots.                            *)
SnapshotOfMem == \A t \in Threads : Writing(t) => writer[t].data \subseteq Mem(t)
FileIsOlder ==
  file # NoFile /\ content[file].by # "nobody" =>
    LET c == content[file].by IN
    /\ status[c] # "closed"
    /\ content[file].data \subseteq mem[c]
    /\ \A t \in ThreadsOf(c) : Writing(t) => content[file].data \subseteq writer[t].data

FInv ==
  /\ OneWriter /\ OneName /\ OpenIsTemp /\ RenameIsWhole /\ SnapshotOfMem /\ FileIsOlder
  /\ NeverHalfAFile

-----------------------------------------------------------------------------
LEMMA InvStarts ==
  ASSUME Init
  PROVE  Base /\ SInv /\ FInv
<1>1. TypeOK
  BY PipelineCacheAssumption DEF Init, TypeOK, Empty, Contents, Resting, NoFile, Inodes
<1>2. Running /\ SnapshotOrSave /\ SavedOrBusy
  BY DEF Init, Running, SnapshotOrSave, SavedOrBusy, Writing, Resting
<1>3. OneWriter /\ OneName /\ OpenIsTemp /\ RenameIsWhole /\ SnapshotOfMem /\ FileIsOlder /\ NeverHalfAFile
  BY DEF Init, OneWriter, OneName, OpenIsTemp, RenameIsWhole, SnapshotOfMem, FileIsOlder, NeverHalfAFile,
         Writing, Resting
<1> QED
  BY <1>1, <1>2, <1>3 DEF Base, SInv, FInv

(* A closed cache has no data and no thread that saves, and what it is     *)
(* seeded with is on disk.                                                 *)
LEMMA OpenKeeps ==
  ASSUME Base, NEW c \in Caches, Open(c)
  PROVE  Base' /\ (SInv => SInv') /\ (FInv => FInv')
<1> USE DEF disk
<1>1. PICK data \in {{}} \cup (IF file # NoFile /\ content[file].whole THEN {content[file].data} ELSE {}) :
        mem' = [mem EXCEPT ![c] = data]
  BY DEF Open
<1>2. /\ status[c] = "closed" /\ status' = [status EXCEPT ![c] = "open"]
      /\ saved' = [saved EXCEPT ![c] = IF file = NoFile THEN {} ELSE content[file].data]
      /\ UNCHANGED <<file, temp, content, writer, crashes>>
  BY DEF Open
<1>3. file # NoFile => content[file].data \in SUBSET Shaders
  BY DEF Base, TypeOK, Contents
<1>4. /\ status'[c] = "open"
      /\ \A d \in Caches : d # c => mem'[d] = mem[d] /\ saved'[d] = saved[d] /\ status'[d] = status[d]
  BY <1>1, <1>2 DEF Base, TypeOK
<1>5. \A t \in ThreadsOf(c) : writer[t].pc = "idle"
  BY <1>2 DEF Base, Running, ThreadsOf
<1>6. \A t \in Threads : CacheOf[t] \in Caches
  BY PipelineCacheAssumption
<1>7. Base'
  <2>1. TypeOK'
    BY <1>1, <1>2, <1>3, <1>4 DEF Base, TypeOK
  <2>2. Running'
    BY <1>2, <1>4, <1>6 DEF Base, Running
  <2> QED
    BY <2>1, <2>2 DEF Base
<1>8. ASSUME SInv PROVE SInv'
  <2>1. SnapshotOrSave'
    BY <1>2, <1>4, <1>5, <1>6, <1>8 DEF SInv, SnapshotOrSave, ToSave, ThreadsOf, Writing, Mem
  <2>2. SavedOrBusy'
    BY <1>2, <1>4, <1>8 DEF SInv, SavedOrBusy, ThreadsOf
  <2> QED
    BY <2>1, <2>2 DEF SInv
<1>9. ASSUME FInv PROVE FInv'
  <2>1. OneWriter' /\ OneName' /\ OpenIsTemp' /\ RenameIsWhole' /\ NeverHalfAFile'
    BY <1>2, <1>9 DEF FInv, OneWriter, OneName, OpenIsTemp, RenameIsWhole, NeverHalfAFile, Writing, Temp
  <2>2. SnapshotOfMem'
    BY <1>2, <1>4, <1>5, <1>6, <1>9 DEF FInv, SnapshotOfMem, ThreadsOf, Writing, Mem
  <2>3. FileIsOlder'
    <3>1. file # NoFile /\ content[file].by # "nobody" => content[file].by \in Caches \ {c}
      BY <1>2, <1>9 DEF FInv, FileIsOlder, Base, TypeOK, Contents
    <3> QED
      BY <1>2, <1>4, <1>9, <3>1 DEF FInv, FileIsOlder, ThreadsOf, Writing
  <2> QED
    BY <2>1, <2>2, <2>3 DEF FInv
<1> QED
  BY <1>7, <1>8, <1>9

LEMMA CompileKeeps ==
  ASSUME Base, NEW t \in Threads, NEW s \in Shaders, Compile(t, s)
  PROVE  Base' /\ (SInv => SInv') /\ (FInv => FInv')
<1> DEFINE c == CacheOf[t]
<1> USE DEF disk
<1>1. /\ writer[t].pc = "idle" /\ status[c] # "closed" /\ mem' = [mem EXCEPT ![c] = mem[c] \cup {s}]
      /\ writer' = [writer EXCEPT ![t].pc = "save"]
      /\ UNCHANGED <<file, temp, content, saved, status, crashes>>
  BY DEF Compile
<1>2. c \in Caches /\ \A u \in Threads : CacheOf[u] \in Caches
  BY PipelineCacheAssumption
<1>3. /\ writer' \in [Threads -> Writers] /\ writer'[t].pc = "save"
      /\ writer'[t].data = writer[t].data /\ writer'[t].fd = writer[t].fd
      /\ \A u \in Threads : u # t => writer'[u] = writer[u]
  BY <1>1 DEF Base, TypeOK, Writers
<1>4. mem'[c] = mem[c] \cup {s} /\ \A d \in Caches : d # c => mem'[d] = mem[d]
  BY <1>1, <1>2 DEF Base, TypeOK
<1>5. Base'
  <2>1. TypeOK'
    BY <1>1, <1>2, <1>3, <1>4 DEF Base, TypeOK, Writers
  <2>2. Running'
    BY <1>1, <1>3 DEF Base, Running
  <2> QED
    BY <2>1, <2>2 DEF Base
<1>6. ASSUME SInv PROVE SInv'
  <2>1. ToSave(c)' /\ \A d \in Caches : ToSave(d) => ToSave(d)'
    BY <1>1, <1>3 DEF ToSave, ThreadsOf
  <2>2. SnapshotOrSave'
    BY <1>1, <1>2, <1>3, <1>4, <1>6, <2>1 DEF SInv, SnapshotOrSave, Writing, Mem
  <2>3. SavedOrBusy'
    BY <1>1, <1>3, <1>4, <1>6 DEF SInv, SavedOrBusy, ThreadsOf
  <2> QED
    BY <2>2, <2>3 DEF SInv
<1>7. ASSUME FInv PROVE FInv'
  <2>1. OneWriter' /\ OneName' /\ OpenIsTemp' /\ RenameIsWhole' /\ NeverHalfAFile'
    <3>1. OneWriter' /\ OneName' /\ NeverHalfAFile'
      BY <1>1, <1>3, <1>7 DEF FInv, OneWriter, OneName, NeverHalfAFile, Writing
    <3>2. OpenIsTemp' /\ RenameIsWhole'
      BY <1>1, <1>3, <1>7 DEF FInv, OpenIsTemp, RenameIsWhole, Temp
    <3> QED
      BY <3>1, <3>2
  <2>2. SnapshotOfMem'
    BY <1>2, <1>3, <1>4, <1>7 DEF FInv, SnapshotOfMem, Writing, Mem
  <2>3. FileIsOlder'
    BY <1>1, <1>2, <1>3, <1>4, <1>7 DEF FInv, FileIsOlder, ThreadsOf, Writing, Base, TypeOK, Contents
  <2> QED
    BY <2>1, <2>2, <2>3 DEF FInv
<1> QED
  BY <1>5, <1>6, <1>7

(* The mutex is free: no snapshot is underway that this one could be newer *)
(* or older than.                                                          *)
LEMMA SaveKeeps ==
  ASSUME Base, NEW t \in Threads, Save(t)
  PROVE  Base' /\ (SInv => SInv') /\ (FInv => FInv')
<1> DEFINE c == CacheOf[t]
<1> USE DEF disk
<1>1. /\ writer[t].pc = "save" /\ \A u \in ThreadsOf(c) : ~Writing(u)
      /\ UNCHANGED <<file, temp, content, mem, saved, crashes>>
  BY DEF Save, Saving, Writing
<1>2. c \in Caches /\ (\A u \in Threads : CacheOf[u] \in Caches) /\ status[c] # "closed"
  BY <1>1, PipelineCacheAssumption DEF Base, Running
<1>3. \/ /\ mem[c] = saved[c] /\ writer' = [writer EXCEPT ![t] = Resting]
         /\ status' = [status EXCEPT ![c] = "saved"]
      \/ /\ writer' = [writer EXCEPT ![t].pc = "create", ![t].data = mem[c]]
         /\ UNCHANGED status
  BY DEF Save, Unchanged
<1>4. CASE mem[c] = saved[c] /\ writer' = [writer EXCEPT ![t] = Resting] /\ status' = [status EXCEPT ![c] = "saved"]
  <2>1. /\ writer' \in [Threads -> Writers] /\ writer'[t].pc = "idle" /\ writer'[t].fd = NoFile
        /\ \A u \in Threads : u # t => writer'[u] = writer[u]
    BY <1>4 DEF Base, TypeOK, Writers, Resting
  <2>2. status'[c] = "saved" /\ \A d \in Caches : d # c => status'[d] = status[d]
    BY <1>2, <1>4 DEF Base, TypeOK
  <2>3. Base'
    <3>1. TypeOK'
      BY <1>1, <1>2, <1>4, <2>1, <2>2 DEF Base, TypeOK, Writers
    <3>2. Running'
      BY <1>2, <2>1, <2>2 DEF Base, Running
    <3> QED
      BY <3>1, <3>2 DEF Base
  <2>4. ASSUME SInv PROVE SInv'
    <3>1. \A d \in Caches : d # c /\ ToSave(d) => ToSave(d)'
      BY <1>4, <2>1 DEF ToSave, ThreadsOf
    <3>2. SnapshotOrSave'
      BY <1>1, <1>2, <2>1, <2>4, <3>1 DEF SInv, SnapshotOrSave, Writing, Mem, ThreadsOf
    <3>3. SavedOrBusy'
      BY <1>1, <1>4, <2>1, <2>2, <2>4 DEF SInv, SavedOrBusy, ThreadsOf
    <3> QED
      BY <3>2, <3>3 DEF SInv
  <2>5. ASSUME FInv PROVE FInv'
    <3>1. OneWriter' /\ OneName' /\ OpenIsTemp' /\ RenameIsWhole' /\ NeverHalfAFile' /\ SnapshotOfMem'
      BY <1>1, <2>1, <2>5 DEF FInv, OneWriter, OneName, OpenIsTemp, RenameIsWhole, NeverHalfAFile,
                              SnapshotOfMem, Writing, Temp, Mem
    <3>2. FileIsOlder'
      BY <1>1, <1>2, <2>1, <2>2, <2>5 DEF FInv, FileIsOlder, ThreadsOf, Writing, Base, TypeOK, Contents
    <3> QED
      BY <3>1, <3>2 DEF FInv
  <2> QED
    BY <2>3, <2>4, <2>5
<1>5. CASE writer' = [writer EXCEPT ![t].pc = "create", ![t].data = mem[c]] /\ UNCHANGED status
  <2>1. writer[t] \in Writers /\ writer \in [Threads -> Writers] /\ mem[c] \in SUBSET Shaders
    BY <1>2 DEF Base, TypeOK, Writers
  <2>2. /\ writer'[t].pc = "create" /\ writer'[t].data = mem[c] /\ writer'[t].fd = writer[t].fd
        /\ writer'[t] \in Writers
        /\ \A u \in Threads : u # t => writer'[u] = writer[u]
    BY <1>5, <2>1 DEF Writers
  <2>3. writer' \in [Threads -> Writers]
    <3>1. writer' = [writer EXCEPT ![t] = writer'[t]]
      BY <1>5, <2>1
    <3> QED
      BY <2>1, <2>2, <3>1
  <2>4. Base'
    <3>1. TypeOK'
      BY <1>1, <1>5, <2>3 DEF Base, TypeOK, Writers
    <3>2. Running'
      BY <1>1, <1>5, <2>2 DEF Base, Running
    <3> QED
      BY <3>1, <3>2 DEF Base
  <2>5. ASSUME SInv PROVE SInv'
    <3>1. \A d \in Caches : d # c /\ ToSave(d) => ToSave(d)'
      BY <1>5, <2>2 DEF ToSave, ThreadsOf
    <3>2. SnapshotOrSave'
      BY <1>1, <1>2, <2>2, <2>5, <3>1 DEF SInv, SnapshotOrSave, Writing, Mem, ThreadsOf
    <3>3. SavedOrBusy'
      <4>1. \A u \in Threads : writer[u].pc # "idle" => writer'[u].pc # "idle"
        BY <2>2
      <4> QED
        BY <1>1, <1>5, <2>5, <4>1 DEF SInv, SavedOrBusy, ThreadsOf
    <3> QED
      BY <3>2, <3>3 DEF SInv
  <2>6. ASSUME FInv PROVE FInv'
    <3>1. OneWriter' /\ SnapshotOfMem'
      BY <1>1, <2>2, <2>6 DEF FInv, OneWriter, SnapshotOfMem, Writing, Mem, ThreadsOf
    <3>2. OneName' /\ OpenIsTemp' /\ RenameIsWhole' /\ NeverHalfAFile'
      BY <1>1, <2>2, <2>6 DEF FInv, OneName, OpenIsTemp, RenameIsWhole, NeverHalfAFile, Temp
    <3>3. FileIsOlder'
      BY <1>1, <1>5, <2>2, <2>6 DEF FInv, FileIsOlder, ThreadsOf, Writing
    <3> QED
      BY <3>1, <3>2, <3>3 DEF FInv
  <2> QED
    BY <2>4, <2>5, <2>6
<1> QED
  BY <1>3, <1>4, <1>5

(* Two that write at once write in two processes. *)
LEMMA WritersApart ==
  ASSUME OneCacheEach, OneWriter, NEW t \in Threads, NEW u \in Threads, u # t, Writing(t), Writing(u)
  PROVE  CacheOf[u] # CacheOf[t] /\ ProcessOf[CacheOf[u]] # ProcessOf[CacheOf[t]]
BY PipelineCacheAssumption DEF OneCacheEach, OneWriter

(* The temporary file is truncated, or made where there was none: the      *)
(* cache file is another.                                                  *)
LEMMA CreateTempKeeps ==
  ASSUME Base, NEW t \in Threads, CreateTemp(t)
  PROVE  Base' /\ (SInv => SInv') /\ (OneCacheEach /\ FInv => FInv')
<1> DEFINE c == CacheOf[t]
           p == ProcessOf[CacheOf[t]]
<1> USE DEF caches
<1>1. PICK i \in IF Temp(t) = NoFile THEN Inodes \ Named ELSE {Temp(t)} :
        /\ content' = [content EXCEPT ![i] = Empty]
        /\ temp' = [temp EXCEPT ![p] = i]
        /\ writer' = [writer EXCEPT ![t].pc = "write", ![t].fd = i]
  BY DEF CreateTemp
<1>2. writer[t].pc = "create" /\ UNCHANGED <<file, mem, saved, status, crashes>>
  BY DEF CreateTemp
<1>3. /\ c \in Caches /\ p \in Processes
      /\ \A u \in Threads : CacheOf[u] \in Caches /\ ProcessOf[CacheOf[u]] \in Processes
  BY PipelineCacheAssumption
<1>4. writer[t] \in Writers /\ writer \in [Threads -> Writers] /\ i \in Inodes /\ i # NoFile
  BY <1>1, <1>3, PipelineCacheAssumption DEF Base, TypeOK, Writers, Temp, NoFile, Inodes
<1>5. /\ writer'[t].pc = "write" /\ writer'[t].data = writer[t].data /\ writer'[t].fd = i
      /\ writer'[t] \in Writers
      /\ \A u \in Threads : u # t => writer'[u] = writer[u]
  BY <1>1, <1>4 DEF Writers
<1>6. writer' \in [Threads -> Writers]
  <2>1. writer' = [writer EXCEPT ![t] = writer'[t]]
    BY <1>1, <1>4
  <2> QED
    BY <1>4, <1>5, <2>1
<1>7. Base'
  <2>1. Empty \in Contents
    BY DEF Empty, Contents
  <2>2. TypeOK'
    BY <1>1, <1>2, <1>3, <1>4, <1>6, <2>1 DEF Base, TypeOK, Writers
  <2>3. Running'
    BY <1>2, <1>5 DEF Base, Running
  <2> QED
    BY <2>2, <2>3 DEF Base
<1>8. ASSUME SInv PROVE SInv'
  <2>1. \A d : ToSave(d) => ToSave(d)'
    BY <1>2, <1>5 DEF ToSave, ThreadsOf
  <2>2. SnapshotOrSave'
    BY <1>2, <1>5, <1>8, <2>1 DEF SInv, SnapshotOrSave, Writing, Mem
  <2>3. SavedOrBusy'
    <3>1. \A u \in Threads : writer[u].pc # "idle" => writer'[u].pc # "idle"
      BY <1>5
    <3> QED
      BY <1>2, <1>8, <3>1 DEF SInv, SavedOrBusy, ThreadsOf
  <2> QED
    BY <2>2, <2>3 DEF SInv
<1>9. ASSUME OneCacheEach, FInv PROVE FInv'
  <2>1. i # file /\ \A q \in Processes : q # p => temp[q] # i
    <3>1. CASE Temp(t) = NoFile
      BY <1>1, <3>1 DEF Named
    <3>2. CASE Temp(t) # NoFile
      BY <1>1, <1>3, <1>9, <3>2 DEF FInv, OneName, Temp
    <3> QED
      BY <3>1, <3>2
  <2>2. /\ content'[i] = Empty /\ \A j \in Inodes : j # i => content'[j] = content[j]
        /\ temp'[p] = i /\ \A q \in Processes : q # p => temp'[q] = temp[q]
    BY <1>1, <1>3, <1>4 DEF Base, TypeOK
  <2>3. \A u \in Threads : u # t /\ Writing(u) => ProcessOf[CacheOf[u]] # p
    BY <1>2, <1>9, WritersApart DEF FInv, Writing
  <2>4. OneName'
    BY <1>2, <1>3, <1>9, <2>1, <2>2 DEF FInv, OneName
  <2>5. OneWriter' /\ SnapshotOfMem'
    BY <1>2, <1>5, <1>9 DEF FInv, OneWriter, SnapshotOfMem, Writing, Mem
  <2>6. \A u \in Threads : u # t /\ Writing(u) /\ Temp(u) # NoFile =>
          Temp(u)' = Temp(u) /\ content'[Temp(u)] = content[Temp(u)]
    BY <1>3, <2>1, <2>2, <2>3 DEF Temp, Base, TypeOK
  <2>7. OpenIsTemp'
    BY <1>4, <1>5, <1>9, <2>2, <2>6 DEF FInv, OpenIsTemp, Writing, Temp, Empty
  <2>8. RenameIsWhole'
    BY <1>5, <1>9, <2>6 DEF FInv, RenameIsWhole, Writing
  <2>9. file # NoFile => content'[file] = content[file]
    BY <2>1, <2>2 DEF Base, TypeOK
  <2>10. FileIsOlder' /\ NeverHalfAFile'
    BY <1>2, <1>5, <1>9, <2>9 DEF FInv, FileIsOlder, NeverHalfAFile, ThreadsOf, Writing
  <2> QED
    BY <2>4, <2>5, <2>7, <2>8, <2>10 DEF FInv
<1> QED
  BY <1>7, <1>8, <1>9

(* The file was empty when it was opened, so what is written is all there  *)
(* is in it.                                                               *)
LEMMA WriteTempKeeps ==
  ASSUME Base, NEW t \in Threads, WriteTemp(t)
  PROVE  Base' /\ (SInv => SInv') /\ (OneCacheEach /\ FInv => FInv')
<1> DEFINE c == CacheOf[t]
           i == writer[t].fd
           new == [data |-> writer[t].data, by |-> CacheOf[t],
                   whole |-> Cardinality(content[writer[t].fd].data) <= Cardinality(writer[t].data)]
<1> USE DEF caches
<1>1. /\ writer[t].pc = "write" /\ content' = [content EXCEPT ![i] = new]
      /\ writer' = [writer EXCEPT ![t].pc = "rename", ![t].fd = NoFile]
      /\ UNCHANGED <<file, temp, mem, saved, status, crashes>>
  BY DEF WriteTemp
<1>2. \A u \in Threads : CacheOf[u] \in Caches /\ ProcessOf[CacheOf[u]] \in Processes
  BY PipelineCacheAssumption
<1>3. writer[t] \in Writers /\ writer \in [Threads -> Writers]
  BY DEF Base, TypeOK, Writers
<1>4. /\ writer'[t].pc = "rename" /\ writer'[t].data = writer[t].data /\ writer'[t].fd = NoFile
      /\ writer'[t] \in Writers
      /\ \A u \in Threads : u # t => writer'[u] = writer[u]
  BY <1>1, <1>3 DEF Writers
<1>5. writer' \in [Threads -> Writers]
  <2>1. writer' = [writer EXCEPT ![t] = writer'[t]]
    BY <1>1, <1>3
  <2> QED
    BY <1>3, <1>4, <2>1
<1>6. Base'
  <2>1. new \in Contents
    <3>1. new.whole \in BOOLEAN
      OBVIOUS
    <3>2. new.data \in SUBSET Shaders /\ new.by \in Caches \cup {"nobody"}
      BY <1>2, <1>3 DEF Writers
    <3> QED
      BY <3>1, <3>2 DEF Contents
  <2>2. TypeOK'
    BY <1>1, <1>5, <2>1 DEF Base, TypeOK, Writers
  <2>3. Running'
    BY <1>1, <1>4 DEF Base, Running
  <2> QED
    BY <2>2, <2>3 DEF Base
<1>7. ASSUME SInv PROVE SInv'
  <2>1. \A d : ToSave(d) => ToSave(d)'
    BY <1>1, <1>4 DEF ToSave, ThreadsOf
  <2>2. SnapshotOrSave'
    BY <1>1, <1>4, <1>7, <2>1 DEF SInv, SnapshotOrSave, Writing, Mem
  <2>3. SavedOrBusy'
    <3>1. \A u \in Threads : writer[u].pc # "idle" => writer'[u].pc # "idle"
      BY <1>4
    <3> QED
      BY <1>1, <1>7, <3>1 DEF SInv, SavedOrBusy, ThreadsOf
  <2> QED
    BY <2>2, <2>3 DEF SInv
<1>8. ASSUME OneCacheEach, FInv PROVE FInv'
  <2>1. i = Temp(t) /\ i # NoFile /\ content[i].data = {}
    BY <1>1, <1>8 DEF FInv, OpenIsTemp
  <2>2. i \in Inodes /\ i # file
    BY <1>2, <1>8, <2>1 DEF FInv, OneName, Temp, Base, TypeOK
  <2>3. new = [data |-> writer[t].data, whole |-> TRUE, by |-> CacheOf[t]]
    <3>1. writer[t].data \subseteq Shaders
      BY <1>3 DEF Writers
    <3>2. Cardinality(writer[t].data) \in Nat
      BY <3>1, PipelineCacheAssumption, FS_Subset, FS_CardinalityType
    <3>3. Cardinality(content[i].data) = 0
      BY <2>1, FS_EmptySet
    <3>4. (Cardinality(content[i].data) <= Cardinality(writer[t].data)) = TRUE
      BY <3>2, <3>3
    <3> QED
      BY <3>4
  <2>4. content'[i] = new /\ \A j \in Inodes : j # i => content'[j] = content[j]
    BY <1>1, <2>2 DEF Base, TypeOK
  <2>5. \A u \in Threads : u # t /\ Writing(u) => ProcessOf[CacheOf[u]] # ProcessOf[c]
    BY <1>1, <1>8, WritersApart DEF FInv, Writing
  <2>6. \A u \in Threads : u # t /\ Writing(u) /\ Temp(u) # NoFile => content'[Temp(u)] = content[Temp(u)]
    <3> SUFFICES ASSUME NEW u \in Threads, u # t, Writing(u), Temp(u) # NoFile
                 PROVE  content'[Temp(u)] = content[Temp(u)]
      OBVIOUS
    <3>1. Temp(u) # Temp(t)
      BY <1>2, <1>8, <2>5 DEF FInv, OneName, Temp
    <3>2. Temp(u) \in Inodes
      BY <1>2 DEF Base, TypeOK, Temp
    <3> QED
      BY <2>1, <2>4, <3>1, <3>2
  <2>7. OneName' /\ OneWriter' /\ SnapshotOfMem'
    <3>1. OneName'
      BY <1>1, <1>8 DEF FInv, OneName
    <3>2. \A u \in Threads : (Writing(u)' => Writing(u)) /\ writer'[u].data = writer[u].data
      <4>1. Writing(t)
        BY <1>1 DEF Writing
      <4>2. \A u \in Threads : u # t => writer'[u].pc = writer[u].pc /\ writer'[u].data = writer[u].data
        BY <1>4
      <4> QED
        BY <1>4, <4>1, <4>2 DEF Writing
    <3>3. OneWriter'
      BY <1>8, <3>2 DEF FInv, OneWriter
    <3>4. SnapshotOfMem'
      BY <1>1, <1>8, <3>2 DEF FInv, SnapshotOfMem, Mem
    <3> QED
      BY <3>1, <3>3, <3>4
  <2>8. OpenIsTemp'
    <3> SUFFICES ASSUME NEW u \in Threads
                 PROVE  /\ writer'[u].pc = "write" =>
                             writer'[u].fd = Temp(u) /\ Temp(u) # NoFile /\ content'[Temp(u)].data = {}
                        /\ writer'[u].pc # "write" => writer'[u].fd = NoFile
      BY <1>1 DEF OpenIsTemp, Temp
    <3>1. CASE u = t
      BY <1>4, <3>1
    <3>2. CASE u # t
      BY <1>4, <1>8, <2>6, <3>2 DEF FInv, OpenIsTemp, Writing
    <3> QED
      BY <3>1, <3>2
  <2>9. RenameIsWhole'
    <3> SUFFICES ASSUME NEW u \in Threads, writer'[u].pc = "rename"
                 PROVE  Temp(u) # NoFile /\ content'[Temp(u)] = [data |-> writer'[u].data, whole |-> TRUE, by |-> CacheOf[u]]
      BY <1>1 DEF RenameIsWhole, Temp
    <3>1. CASE u = t
      BY <1>4, <2>1, <2>3, <2>4, <3>1
    <3>2. CASE u # t
      BY <1>4, <1>8, <2>6, <3>2 DEF FInv, RenameIsWhole, Writing
    <3> QED
      BY <3>1, <3>2
  <2>10. file # NoFile => content'[file] = content[file]
    BY <2>2, <2>4 DEF Base, TypeOK
  <2>11. FileIsOlder' /\ NeverHalfAFile'
    BY <1>1, <1>4, <1>8, <2>10, ZenonT(60) DEF FInv, FileIsOlder, NeverHalfAFile, ThreadsOf, Writing
  <2> QED
    BY <2>7, <2>8, <2>9, <2>11 DEF FInv
<1> QED
  BY <1>6, <1>7, <1>8

(* What is renamed is whole, holds all that the file's own cache had saved *)
(* before, and has a name of its own, so that it is not freed with the old *)
(* file.                                                                   *)
LEMMA RenameTempKeeps ==
  ASSUME Base, NEW t \in Threads, RenameTemp(t)
  PROVE  Base' /\ (SInv => SInv') /\ (OneCacheEach /\ FInv => FInv')
<1> DEFINE c == CacheOf[t]
           p == ProcessOf[CacheOf[t]]
<1>1. /\ writer[t].pc = "rename" /\ Temp(t) # NoFile /\ file' = Temp(t)
      /\ temp' = [temp EXCEPT ![p] = NoFile] /\ saved' = [saved EXCEPT ![c] = writer[t].data]
      /\ status' = [status EXCEPT ![c] = "saved"] /\ writer' = [writer EXCEPT ![t] = Resting]
      /\ content' = [i \in Inodes |-> IF Freed(i) THEN Empty ELSE content[i]]
      /\ UNCHANGED <<mem, crashes>>
  BY DEF RenameTemp
<1>2. /\ c \in Caches /\ p \in Processes
      /\ \A u \in Threads : CacheOf[u] \in Caches /\ ProcessOf[CacheOf[u]] \in Processes
  BY PipelineCacheAssumption
<1>3. /\ writer \in [Threads -> Writers] /\ writer[t] \in Writers /\ Resting \in Writers
      /\ Temp(t) \in Inodes /\ Empty \in Contents
  BY <1>1, <1>2 DEF Base, TypeOK, Writers, Resting, Temp, Empty, Contents
<1>4. /\ writer' \in [Threads -> Writers] /\ writer'[t] = Resting
      /\ \A u \in Threads : u # t => writer'[u] = writer[u]
  BY <1>1, <1>3
<1>5. /\ temp'[p] = NoFile /\ \A q \in Processes : q # p => temp'[q] = temp[q]
      /\ saved'[c] = writer[t].data /\ \A d \in Caches : d # c => saved'[d] = saved[d]
      /\ status'[c] = "saved" /\ \A d \in Caches : d # c => status'[d] = status[d]
      /\ \A i \in Inodes : ~Freed(i) => content'[i] = content[i]
  BY <1>1, <1>2 DEF Base, TypeOK
<1>6. status[c] # "closed"
  BY <1>1 DEF Base, Running
<1>7. Base'
  <2>1. content' \in [Inodes -> Contents]
    BY <1>1, <1>3 DEF Base, TypeOK
  <2>2. saved' \in [Caches -> SUBSET Shaders]
    BY <1>1, <1>3 DEF Base, TypeOK, Writers
  <2>3. TypeOK'
    BY <1>1, <1>2, <1>3, <1>4, <1>5, <2>1, <2>2 DEF Base, TypeOK, Writers
  <2>4. Running'
    BY <1>2, <1>4, <1>5 DEF Base, Running, Resting
  <2> QED
    BY <2>3, <2>4 DEF Base
<1>8. ASSUME SInv PROVE SInv'
  <2>1. \A d : ToSave(d) => ToSave(d)'
    BY <1>1, <1>4 DEF ToSave, ThreadsOf
  <2>2. SnapshotOrSave'
    BY <1>1, <1>4, <1>8, <2>1 DEF SInv, SnapshotOrSave, Writing, Mem, Resting
  <2>3. SavedOrBusy'
    <3> SUFFICES ASSUME NEW d \in Caches, status'[d] = "saved"
                 PROVE  saved'[d] = mem[d] \/ \E u \in ThreadsOf(d) : writer'[u].pc # "idle"
      BY <1>1 DEF SavedOrBusy, ThreadsOf
    <3>1. CASE d = c
      <4>1. writer[t].data = mem[c] \/ ToSave(c)
        BY <1>1, <1>8 DEF SInv, SnapshotOrSave, Writing, Mem
      <4> QED
        BY <1>5, <2>1, <3>1, <4>1 DEF ToSave, ThreadsOf
    <3>2. CASE d # c
      BY <1>4, <1>5, <1>8, <3>2 DEF SInv, SavedOrBusy, ThreadsOf
    <3> QED
      BY <3>1, <3>2
  <2> QED
    BY <2>2, <2>3 DEF SInv
<1>9. ASSUME OneCacheEach, FInv PROVE FInv'
  <2>1. /\ Temp(t) # file
        /\ content[Temp(t)] = [data |-> writer[t].data, whole |-> TRUE, by |-> CacheOf[t]]
    BY <1>1, <1>2, <1>9 DEF FInv, OneName, RenameIsWhole, Temp
  <2>2. content'[Temp(t)] = content[Temp(t)]
    BY <1>3, <1>5, <2>1 DEF Freed
  <2>3. \A q \in Processes : temp'[q] # NoFile => q # p /\ temp'[q] = temp[q] /\ temp[q] # Temp(t) /\ temp[q] # file
    BY <1>1, <1>2, <1>5, <1>9 DEF FInv, OneName, Temp
  <2>4. OneName'
    BY <1>1, <1>9, <2>3 DEF FInv, OneName
  <2>5. \A u \in Threads : u # t /\ Writing(u) => CacheOf[u] # c /\ ProcessOf[CacheOf[u]] # p
    BY <1>1, <1>9, WritersApart DEF FInv, Writing
  <2>6. \A u \in Threads : u # t /\ Writing(u) /\ Temp(u) # NoFile =>
          Temp(u)' = Temp(u) /\ content'[Temp(u)] = content[Temp(u)]
    <3> SUFFICES ASSUME NEW u \in Threads, u # t, Writing(u), Temp(u) # NoFile
                 PROVE  Temp(u)' = Temp(u) /\ content'[Temp(u)] = content[Temp(u)]
      OBVIOUS
    <3>1. Temp(u)' = Temp(u)
      BY <1>2, <1>5, <2>5 DEF Temp
    <3>2. Temp(u) # file /\ Temp(u) \in Inodes
      BY <1>2, <1>9 DEF FInv, OneName, Base, TypeOK, Temp
    <3> QED
      BY <1>5, <3>1, <3>2 DEF Freed
  <2>7. OneWriter' /\ SnapshotOfMem'
    BY <1>1, <1>4, <1>9 DEF FInv, OneWriter, SnapshotOfMem, Writing, Mem, Resting
  <2>8. OpenIsTemp'
    <3> SUFFICES ASSUME NEW u \in Threads
                 PROVE  /\ writer'[u].pc = "write" =>
                             writer'[u].fd = Temp(u)' /\ Temp(u)' # NoFile /\ content'[Temp(u)'].data = {}
                        /\ writer'[u].pc # "write" => writer'[u].fd = NoFile
      BY DEF OpenIsTemp, Temp
    <3>1. CASE u = t
      BY <1>4, <3>1 DEF Resting
    <3>2. CASE u # t
      BY <1>4, <1>9, <2>6, <3>2 DEF FInv, OpenIsTemp, Writing
    <3> QED
      BY <3>1, <3>2
  <2>9. RenameIsWhole'
    <3> SUFFICES ASSUME NEW u \in Threads, writer'[u].pc = "rename"
                 PROVE  /\ Temp(u)' # NoFile
                        /\ content'[Temp(u)'] = [data |-> writer'[u].data, whole |-> TRUE, by |-> CacheOf[u]]
      BY DEF RenameIsWhole, Temp
    <3>1. u # t /\ writer'[u] = writer[u]
      BY <1>4 DEF Resting
    <3> QED
      BY <1>9, <2>6, <3>1 DEF FInv, RenameIsWhole, Writing
  <2>10. NeverHalfAFile'
    BY <1>1, <2>1, <2>2 DEF NeverHalfAFile
  <2>11. FileIsOlder'
    <3>1. /\ file' = Temp(t) /\ content'[file'].by = c /\ content'[file'].data = writer[t].data
      BY <1>1, <2>1, <2>2
    <3>2. writer[t].data \subseteq mem'[c]
      BY <1>1, <1>9 DEF FInv, SnapshotOfMem, Writing, Mem
    <3>3. \A u \in ThreadsOf(c) : ~Writing(u)'
      BY <1>4, <2>5 DEF Writing, ThreadsOf, Resting
    <3> QED
      BY <1>5, <3>1, <3>2, <3>3 DEF FileIsOlder, ThreadsOf
  <2> QED
    BY <2>4, <2>7, <2>8, <2>9, <2>10, <2>11 DEF FInv
<1> QED
  BY <1>7, <1>8, <1>9

(* A save that fails, or has nothing to write, leaves the disk as it was.  *)
LEMMA SaveFailsKeeps ==
  ASSUME Base, NEW t \in Threads, SaveFails(t) \/ SavesNothing(t)
  PROVE  Base' /\ (SInv => SInv') /\ (FInv => FInv')
<1> DEFINE c == CacheOf[t]
<1> USE DEF disk
<1>1. /\ writer[t].pc # "idle"
      /\ Writing(t) \/ ~Saving(c)
      /\ writer' = [writer EXCEPT ![t] = Resting] /\ status' = [status EXCEPT ![c] = "failed"]
      /\ UNCHANGED <<file, temp, content, mem, saved, crashes>>
  BY DEF SaveFails, SavesNothing, Writing
<1>2. \A u \in Threads : CacheOf[u] \in Caches
  BY PipelineCacheAssumption
<1>3. /\ writer' \in [Threads -> Writers] /\ writer'[t] = Resting
      /\ \A u \in Threads : u # t => writer'[u] = writer[u]
  BY <1>1 DEF Base, TypeOK, Writers, Resting
<1>4. /\ status[c] # "closed" /\ status'[c] = "failed"
      /\ \A d \in Caches : d # c => status'[d] = status[d]
  BY <1>1, <1>2 DEF Base, Running, TypeOK
<1>5. Base'
  <2>1. TypeOK'
    BY <1>1, <1>2, <1>3, <1>4 DEF Base, TypeOK, Writers
  <2>2. Running'
    BY <1>2, <1>3, <1>4 DEF Base, Running, Resting
  <2> QED
    BY <2>1, <2>2 DEF Base
<1>6. ASSUME SInv PROVE SInv'
  <2>1. \A u \in Threads : Writing(u)' => u # t /\ Writing(u) /\ writer'[u] = writer[u]
    BY <1>3 DEF Writing, Resting
  <2>2. ASSUME NEW u \in Threads, Writing(u)', ToSave(CacheOf[u])
        PROVE  ToSave(CacheOf[u])'
    <3>1. Writing(t) \/ CacheOf[u] # c
      BY <1>1, <2>1, <2>2 DEF Saving, Writing, ThreadsOf
    <3> QED
      BY <1>3, <2>2, <3>1 DEF ToSave, ThreadsOf, Writing
  <2>3. SnapshotOrSave'
    BY <1>1, <1>6, <2>1, <2>2 DEF SInv, SnapshotOrSave, Mem
  <2>4. SavedOrBusy'
    BY <1>1, <1>3, <1>4, <1>6 DEF SInv, SavedOrBusy, ThreadsOf
  <2> QED
    BY <2>3, <2>4 DEF SInv
<1>7. ASSUME FInv PROVE FInv'
  <2>1. OneName' /\ NeverHalfAFile'
    BY <1>1, <1>7 DEF FInv, OneName, NeverHalfAFile
  <2>2. OneWriter' /\ SnapshotOfMem'
    BY <1>1, <1>3, <1>7 DEF FInv, OneWriter, SnapshotOfMem, Writing, Mem, Resting
  <2>3. OpenIsTemp' /\ RenameIsWhole'
    BY <1>1, <1>3, <1>7 DEF FInv, OpenIsTemp, RenameIsWhole, Temp, Resting
  <2>4. FileIsOlder'
    BY <1>1, <1>2, <1>3, <1>4, <1>7 DEF FInv, FileIsOlder, ThreadsOf, Writing, Resting, Base, TypeOK, Contents
  <2> QED
    BY <2>1, <2>2, <2>3, <2>4 DEF FInv
<1> QED
  BY <1>5, <1>6, <1>7

(* A process that dies takes nothing from the file: what it wrote is       *)
(* nobody's from then on.                                                  *)
LEMMA CrashKeeps ==
  ASSUME Base, NEW p \in Processes, Crash(p)
  PROVE  Base' /\ (SInv => SInv') /\ (FInv => FInv')
<1> DEFINE Dead(c) == ProcessOf[c] = p
           Lost(i) == content[i].by \in Caches /\ Dead(content[i].by)
<1>1. /\ crashes < MaxCrashes /\ crashes' = crashes + 1 /\ UNCHANGED <<file, temp>>
      /\ status' = [c \in Caches |-> IF Dead(c) THEN "closed" ELSE status[c]]
      /\ writer' = [t \in Threads |-> IF Dead(CacheOf[t]) THEN Resting ELSE writer[t]]
      /\ mem' = [c \in Caches |-> IF Dead(c) THEN {} ELSE mem[c]]
      /\ saved' = [c \in Caches |-> IF Dead(c) THEN {} ELSE saved[c]]
      /\ content' = [i \in Inodes |-> IF Lost(i) THEN [content[i] EXCEPT !.by = "nobody"] ELSE content[i]]
  BY DEF Crash
<1>2. \A u \in Threads : CacheOf[u] \in Caches /\ ProcessOf[CacheOf[u]] \in Processes
  BY PipelineCacheAssumption
<1>3. \A i \in Inodes :
        /\ content'[i] \in Contents /\ content'[i].data = content[i].data /\ content'[i].whole = content[i].whole
        /\ Lost(i) => content'[i].by = "nobody"
        /\ ~Lost(i) => content'[i] = content[i]
  <2> SUFFICES ASSUME NEW i \in Inodes
               PROVE  /\ content'[i] \in Contents
                      /\ content'[i].data = content[i].data /\ content'[i].whole = content[i].whole
                      /\ Lost(i) => content'[i].by = "nobody"
                      /\ ~Lost(i) => content'[i] = content[i]
    OBVIOUS
  <2>1. content[i] \in Contents
    BY DEF Base, TypeOK
  <2>2. CASE Lost(i)
    <3>1. content'[i] = [content[i] EXCEPT !.by = "nobody"]
      BY <1>1, <2>2
    <3> QED
      BY <2>1, <2>2, <3>1 DEF Contents
  <2>3. CASE ~Lost(i)
    BY <1>1, <2>1, <2>3
  <2> QED
    BY <2>2, <2>3
<1>4. \A c \in Caches :
        /\ Dead(c) => status'[c] = "closed" /\ mem'[c] = {} /\ saved'[c] = {}
        /\ ~Dead(c) => status'[c] = status[c] /\ mem'[c] = mem[c] /\ saved'[c] = saved[c]
  BY <1>1
<1>5. \A t \in Threads :
        /\ Dead(CacheOf[t]) => writer'[t] = Resting
        /\ ~Dead(CacheOf[t]) => writer'[t] = writer[t]
  BY <1>1
<1>6. Base'
  <2>1. Resting \in Writers
    BY DEF Resting, Writers
  <2>2. content' \in [Inodes -> Contents]
    BY <1>1, <1>3
  <2>3. writer' \in [Threads -> Writers]
    BY <1>1, <2>1 DEF Base, TypeOK, Writers
  <2>4. /\ mem' \in [Caches -> SUBSET Shaders] /\ saved' \in [Caches -> SUBSET Shaders]
        /\ status' \in [Caches -> {"closed", "open", "saved", "failed"}]
    BY <1>1 DEF Base, TypeOK
  <2>5. crashes' \in 0..MaxCrashes
    BY <1>1, PipelineCacheAssumption DEF Base, TypeOK
  <2>6. TypeOK'
    BY <1>1, <1>4, <2>2, <2>3, <2>4, <2>5 DEF Base, TypeOK, Writers
  <2>7. Running'
    BY <1>2, <1>4, <1>5 DEF Base, Running, Resting
  <2> QED
    BY <2>6, <2>7 DEF Base
<1>7. ASSUME SInv PROVE SInv'
  <2>1. \A d : ~Dead(d) /\ ToSave(d) => ToSave(d)'
    BY <1>5 DEF ToSave, ThreadsOf
  <2>2. SnapshotOrSave'
    BY <1>2, <1>4, <1>5, <1>7, <2>1 DEF SInv, SnapshotOrSave, Writing, Mem, Resting
  <2>3. SavedOrBusy'
    BY <1>4, <1>5, <1>7 DEF SInv, SavedOrBusy, ThreadsOf
  <2> QED
    BY <2>2, <2>3 DEF SInv
<1>8. ASSUME FInv PROVE FInv'
  <2>1. OneName'
    BY <1>1, <1>8 DEF FInv, OneName
  <2>2. file \in Inodes \cup {NoFile} /\ \A t \in Threads : Temp(t) \in Inodes \cup {NoFile} /\ Temp(t)' = Temp(t)
    BY <1>1, <1>2 DEF Base, TypeOK, Temp
  <2>3. NeverHalfAFile'
    BY <1>1, <1>3, <1>8, <2>2 DEF FInv, NeverHalfAFile
  <2>4. OneWriter' /\ SnapshotOfMem'
    BY <1>2, <1>4, <1>5, <1>8 DEF FInv, OneWriter, SnapshotOfMem, Writing, Mem, Resting
  <2>5. OpenIsTemp'
    <3> SUFFICES ASSUME NEW t \in Threads
                 PROVE  /\ writer'[t].pc = "write" =>
                             writer'[t].fd = Temp(t) /\ Temp(t) # NoFile /\ content'[Temp(t)].data = {}
                        /\ writer'[t].pc # "write" => writer'[t].fd = NoFile
      BY <1>1 DEF OpenIsTemp, Temp
    <3> QED
      BY <1>3, <1>5, <1>8, <2>2 DEF FInv, OpenIsTemp, Resting
  <2>6. RenameIsWhole'
    <3> SUFFICES ASSUME NEW t \in Threads, writer'[t].pc = "rename"
                 PROVE  /\ Temp(t) # NoFile
                        /\ content'[Temp(t)] = [data |-> writer'[t].data, whole |-> TRUE, by |-> CacheOf[t]]
      BY <1>1 DEF RenameIsWhole, Temp
    <3>1. ~Dead(CacheOf[t]) /\ writer'[t] = writer[t]
      BY <1>5 DEF Resting
    <3>2. Temp(t) # NoFile /\ content[Temp(t)] = [data |-> writer[t].data, whole |-> TRUE, by |-> CacheOf[t]]
      BY <1>8, <3>1 DEF FInv, RenameIsWhole
    <3>3. ~Lost(Temp(t))
      BY <3>1, <3>2
    <3> QED
      BY <1>3, <2>2, <3>1, <3>2, <3>3
  <2>7. FileIsOlder'
    <3> SUFFICES ASSUME file # NoFile, content'[file].by # "nobody"
                 PROVE  FileIsOlder'
      BY <1>1 DEF FileIsOlder
    <3> DEFINE c == content[file].by
    <3>1. content'[file] = content[file] /\ ~Lost(file)
      BY <1>3, <2>2
    <3>2. c \in Caches /\ ~Dead(c)
      BY <2>2, <3>1 DEF Base, TypeOK, Contents
    <3>3. /\ status[c] # "closed" /\ content[file].data \subseteq mem[c]
          /\ \A t \in ThreadsOf(c) : Writing(t) => content[file].data \subseteq writer[t].data
      BY <1>8, <3>1 DEF FInv, FileIsOlder
    <3>4. \A t \in ThreadsOf(c) : writer'[t] = writer[t]
      BY <1>5, <3>2 DEF ThreadsOf
    <3>5. content'[file].by = c /\ content'[file].data = content[file].data /\ file' = file
      BY <1>1, <3>1
    <3>6. status'[c] # "closed" /\ content[file].data \subseteq mem'[c]
      BY <1>4, <3>2, <3>3
    <3>7. \A t \in ThreadsOf(c) : Writing(t)' => content[file].data \subseteq writer'[t].data
      BY <3>3, <3>4 DEF Writing
    <3> QED
      BY <3>5, <3>6, <3>7 DEF FileIsOlder, ThreadsOf
  <2> QED
    BY <2>1, <2>3, <2>4, <2>5, <2>6, <2>7 DEF FInv
<1> QED
  BY <1>6, <1>7, <1>8

LEMMA StutterKeeps ==
  ASSUME Base, UNCHANGED vars
  PROVE  Base' /\ (SInv => SInv') /\ (FInv => FInv')
<1> USE DEF vars
<1>1. Base'
  BY DEF Base, TypeOK, Running
<1>2. SInv => SInv'
  BY DEF SInv, SnapshotOrSave, SavedOrBusy, ToSave, ThreadsOf, Writing, Mem
<1>3. FInv => FInv'
  BY DEF FInv, OneWriter, OneName, OpenIsTemp, RenameIsWhole, SnapshotOfMem, FileIsOlder, NeverHalfAFile,
         ThreadsOf, Writing, Mem, Temp
<1> QED
  BY <1>1, <1>2, <1>3

LEMMA InvKeeps ==
  ASSUME Base, [Next]_vars
  PROVE  Base' /\ (SInv => SInv') /\ (OneCacheEach /\ FInv => FInv')
<1>1. ASSUME NEW c \in Caches, Open(c)
      PROVE  Base' /\ (SInv => SInv') /\ (FInv => FInv')
  BY <1>1, OpenKeeps
<1>2. ASSUME NEW t \in Threads, NEW s \in Shaders, Compile(t, s)
      PROVE  Base' /\ (SInv => SInv') /\ (FInv => FInv')
  BY <1>2, CompileKeeps
<1>3. ASSUME NEW t \in Threads, Save(t)
      PROVE  Base' /\ (SInv => SInv') /\ (FInv => FInv')
  BY <1>3, SaveKeeps
<1>4. ASSUME NEW t \in Threads, CreateTemp(t)
      PROVE  Base' /\ (SInv => SInv') /\ (OneCacheEach /\ FInv => FInv')
  BY <1>4, CreateTempKeeps
<1>5. ASSUME NEW t \in Threads, WriteTemp(t)
      PROVE  Base' /\ (SInv => SInv') /\ (OneCacheEach /\ FInv => FInv')
  BY <1>5, WriteTempKeeps
<1>6. ASSUME NEW t \in Threads, RenameTemp(t)
      PROVE  Base' /\ (SInv => SInv') /\ (OneCacheEach /\ FInv => FInv')
  BY <1>6, RenameTempKeeps
<1>7. ASSUME NEW t \in Threads, SaveFails(t) \/ SavesNothing(t)
      PROVE  Base' /\ (SInv => SInv') /\ (FInv => FInv')
  BY <1>7, SaveFailsKeeps
<1>8. ASSUME NEW p \in Processes, Crash(p)
      PROVE  Base' /\ (SInv => SInv') /\ (FInv => FInv')
  BY <1>8, CrashKeeps
<1>9. CASE UNCHANGED vars
  BY <1>9, StutterKeeps
<1> QED
  BY <1>1, <1>2, <1>3, <1>4, <1>5, <1>6, <1>7, <1>8, <1>9 DEF Next

-----------------------------------------------------------------------------
(* Whatever processes share the file, and whatever they lose of each       *)
(* other's: once a cache's threads are done and its last save did not      *)
(* fail, all it compiled is what it last wrote.  Includes the types.       *)
THEOREM NothingIsLeftUnsaved == Spec => []NothingLeftUnsaved
<1>1. Init => Base /\ SInv
  BY InvStarts
<1>2. Base /\ SInv /\ [Next]_vars => (Base /\ SInv)'
  BY InvKeeps
<1>3. Base /\ SInv => NothingLeftUnsaved
  BY DEF Base, SInv, SavedOrBusy, NothingLeftUnsaved
<1> QED
  BY <1>1, <1>2, <1>3, PTL DEF Spec

(* The inductive invariant of the file. *)
THEOREM FileInvariant ==
  ASSUME OneCacheEach
  PROVE  Spec => [](Base /\ FInv)
<1>1. Init => Base /\ FInv
  BY InvStarts
<1>2. Base /\ FInv /\ [Next]_vars => (Base /\ FInv)'
  BY OneCacheEach, InvKeeps
<1> QED
  BY <1>1, <1>2, PTL DEF Spec

(* Where a process has one cache, the file is one whole snapshot, however  *)
(* many processes write it and wherever they crash or fail.                *)
THEOREM TheFileIsNeverHalf ==
  ASSUME OneCacheEach
  PROVE  Spec => []NeverHalfAFile
<1>1. Base /\ FInv => NeverHalfAFile
  BY DEF FInv
<1> QED
  BY OneCacheEach, <1>1, FileInvariant, PTL

(* Where a process has one cache, what a cache put in the file is replaced *)
(* by that cache only with at least as much.                               *)
THEOREM OlderSnapshotsLose ==
  ASSUME OneCacheEach
  PROVE  Spec => NewerSnapshotsWin
<1> DEFINE Grows ==
      file # NoFile /\ file' # file /\ content[file].by # "nobody" /\ content'[file'].by = content[file].by
        => content[file].data \subseteq content'[file'].data
<1>1. ASSUME Base, FInv, NEW t \in Threads, RenameTemp(t), file # NoFile, content[file].by # "nobody",
             content'[file'].by = content[file].by
      PROVE  content[file].data \subseteq content'[file'].data
  <2>1. /\ writer[t].pc = "rename" /\ file' = Temp(t) /\ Temp(t) # NoFile
        /\ content' = [i \in Inodes |-> IF Freed(i) THEN Empty ELSE content[i]]
    BY <1>1 DEF RenameTemp
  <2>2. ProcessOf[CacheOf[t]] \in Processes
    BY PipelineCacheAssumption
  <2>3. /\ Temp(t) \in Inodes /\ Temp(t) # file
        /\ content[Temp(t)].data = writer[t].data /\ content[Temp(t)].by = CacheOf[t]
    <3>1. Temp(t) \in Inodes /\ Temp(t) # file
      BY <1>1, <2>1, <2>2 DEF Base, TypeOK, FInv, OneName, Temp
    <3>2. content[Temp(t)] = [data |-> writer[t].data, whole |-> TRUE, by |-> CacheOf[t]]
      BY <1>1, <2>1 DEF FInv, RenameIsWhole
    <3> QED
      BY <3>1, <3>2
  <2>4. content'[file'] = content[Temp(t)]
    BY <2>1, <2>3 DEF Freed
  <2>5. content[file].by = CacheOf[t] /\ t \in ThreadsOf(CacheOf[t]) /\ Writing(t)
    BY <1>1, <2>1, <2>3, <2>4 DEF ThreadsOf, Writing
  <2> QED
    BY <1>1, <2>3, <2>4, <2>5 DEF FInv, FileIsOlder
<1>2. Base /\ FInv /\ [Next]_vars => [Grows]_vars
  <2> SUFFICES ASSUME Base, FInv, Next, file' # file
               PROVE  Grows
    BY DEF vars
  <2>1. \E t \in Threads : RenameTemp(t)
    BY DEF Next, Open, Compile, Save, SavesNothing, CreateTemp, WriteTemp, SaveFails, Crash, disk
  <2> QED
    BY <1>1, <2>1
<1> QED
  BY OneCacheEach, <1>2, FileInvariant, PTL DEF Spec, NewerSnapshotsWin
=============================================================================
