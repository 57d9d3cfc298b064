---------------------------- MODULE PipelineCache ----------------------------
(***************************************************************************)
(* The pipeline cache on disk: DiskPipelineCache, pipeline_cache,          *)
(* create_compute_pipeline and write_atomically of src/pipeline_cache.rs.  *)
(*                                                                         *)
(* A cache belongs to one device of one process; all of them that run on   *)
(* the same adapter persist to the same file.  save snapshots the cache,   *)
(* writes a temporary file named after the process, and renames it over    *)
(* the file.  Threads of one cache are serialised by its saved mutex;      *)
(* nothing serialises two caches.  A process may crash at any step and be  *)
(* started again.                                                          *)
(*                                                                         *)
(* The data of a cache is the set of shaders compiled into it.  A file     *)
(* name stands for an inode, and an open file is written to whatever its   *)
(* name has become.                                                        *)
(***************************************************************************)
EXTENDS Naturals, FiniteSets

CONSTANTS
  Processes, Caches, Threads,
  ProcessOf,   \* the process of each cache
  CacheOf,     \* the cache each thread creates pipelines with
  Shaders,
  MaxInode,    \* bound: enough for every name and open file
  MaxCrashes   \* bound

ASSUME PipelineCacheAssumption ==
  /\ ProcessOf \in [Caches -> Processes]
  /\ CacheOf \in [Threads -> Caches]
  /\ IsFiniteSet(Shaders)
  /\ MaxInode \in Nat /\ MaxCrashes \in Nat

VARIABLES
  file,      \* the inode of the cache file, or NoFile
  temp,      \* the inode of each process's temporary file, or NoFile
  content,   \* what is in each inode
  mem,       \* each live cache's data
  saved,     \* DiskPipelineCache.saved: the data last read or written
  status,    \* history: how the last save of the cache ended
  writer,    \* each thread's save in progress
  crashes

disk == <<file, temp, content>>
caches == <<mem, saved, status>>
vars == <<file, temp, content, mem, saved, status, writer, crashes>>

Inodes == 1..MaxInode
NoFile == 0

(* by is the cache whose save wrote the data, "nobody" once its process is *)
(* gone.                                                                   *)
Empty == [data |-> {}, whole |-> FALSE, by |-> "nobody"]
Contents == [data : SUBSET Shaders, whole : BOOLEAN, by : Caches \cup {"nobody"}]

Resting == [pc |-> "idle", data |-> {}, fd |-> NoFile]

ThreadsOf(c) == {t \in Threads : CacheOf[t] = c}
Temp(t) == temp[ProcessOf[CacheOf[t]]]
Saving(c) == \E t \in ThreadsOf(c) : writer[t].pc \in {"create", "write", "rename"}

Named == {file} \cup {temp[p] : p \in Processes} \cup {writer[t].fd : t \in Threads}

Init ==
  /\ file = NoFile
  /\ temp = [p \in Processes |-> NoFile]
  /\ content = [i \in Inodes |-> Empty]
  /\ mem = [c \in Caches |-> {}]
  /\ saved = [c \in Caches |-> {}]
  /\ status = [c \in Caches |-> "closed"]
  /\ writer = [t \in Threads |-> Resting]
  /\ crashes = 0

-----------------------------------------------------------------------------
(* pipeline_cache opens a device's cache once, under the registry's lock:  *)
(* the file seeds it, unless there is none or the driver rejects it.       *)
Open(c) ==
  /\ status[c] = "closed"
  /\ LET seed == IF file = NoFile THEN {} ELSE content[file].data
     IN /\ \E data \in {{}} \cup (IF file # NoFile /\ content[file].whole THEN {seed} ELSE {}) :
             mem' = [mem EXCEPT ![c] = data]
        /\ saved' = [saved EXCEPT ![c] = seed]
  /\ status' = [status EXCEPT ![c] = "open"]
  /\ UNCHANGED <<disk, writer, crashes>>

(* create_compute_pipeline compiles into the cache, or finds the shader in *)
(* it, and saves.                                                          *)
Compile(t, s) ==
  /\ writer[t].pc = "idle"
  /\ status[CacheOf[t]] # "closed"
  /\ mem' = [mem EXCEPT ![CacheOf[t]] = @ \cup {s}]
  /\ writer' = [writer EXCEPT ![t].pc = "save"]
  /\ UNCHANGED <<disk, saved, status, crashes>>

(* Faulty variant: only the size is compared. *)
UnchangedInSize(c, data) == Cardinality(data) = Cardinality(saved[c])

Unchanged(c, data) == data = saved[c]

(* Faulty variant: the snapshot is taken before the mutex. *)
SaveUnserialised(t) ==
  /\ writer[t].pc = "save"
  /\ LET c == CacheOf[t]
     IN \/ /\ Unchanged(c, mem[c])
           /\ writer' = [writer EXCEPT ![t] = Resting]
           /\ status' = [status EXCEPT ![c] = "saved"]
        \/ /\ ~Unchanged(c, mem[c])
           /\ writer' = [writer EXCEPT ![t].pc = "create", ![t].data = mem[c]]
           /\ UNCHANGED status
  /\ UNCHANGED <<disk, mem, saved, crashes>>

(* save takes the mutex and the snapshot; unchanged data is not written.   *)
Save(t) ==
  /\ writer[t].pc = "save"
  /\ LET c == CacheOf[t]
     IN /\ ~Saving(c)
        /\ \/ /\ Unchanged(c, mem[c])
              /\ writer' = [writer EXCEPT ![t] = Resting]
              /\ status' = [status EXCEPT ![c] = "saved"]
           \/ /\ ~Unchanged(c, mem[c])
              /\ writer' = [writer EXCEPT ![t].pc = "create", ![t].data = mem[c]]
              /\ UNCHANGED status
  /\ UNCHANGED <<disk, mem, saved, crashes>>

(* The backend gives no data: nothing is written.                          *)
SavesNothing(t) ==
  /\ writer[t].pc = "save"
  /\ ~Saving(CacheOf[t])
  /\ writer' = [writer EXCEPT ![t] = Resting]
  /\ status' = [status EXCEPT ![CacheOf[t]] = "failed"]
  /\ UNCHANGED <<disk, mem, saved, crashes>>

(* Faulty variant: the file itself is opened and truncated. *)
CreateInPlace(t) ==
  /\ writer[t].pc = "create"
  /\ \E i \in IF file = NoFile THEN Inodes \ Named ELSE {file} :
       /\ content' = [content EXCEPT ![i] = Empty]
       /\ writer' = [writer EXCEPT ![t].pc = "write", ![t].fd = i]
       /\ file' = i
       /\ temp' = [temp EXCEPT ![ProcessOf[CacheOf[t]]] = i]
  /\ UNCHANGED <<caches, crashes>>

(* std::fs::write creates the temporary file, or truncates the one that is *)
(* there,                                                                  *)
CreateTemp(t) ==
  /\ writer[t].pc = "create"
  /\ \E i \in IF Temp(t) = NoFile THEN Inodes \ Named ELSE {Temp(t)} :
       /\ \A j \in Inodes \ Named : Temp(t) = NoFile => i <= j
       /\ content' = [content EXCEPT ![i] = Empty]
       /\ temp' = [temp EXCEPT ![ProcessOf[CacheOf[t]]] = i]
       /\ writer' = [writer EXCEPT ![t].pc = "write", ![t].fd = i]
  /\ UNCHANGED <<file, caches, crashes>>

(* and writes over what the file contains by now: a longer content keeps   *)
(* its end.                                                                *)
WriteTemp(t) ==
  /\ writer[t].pc = "write"
  /\ LET data == writer[t].data
         old == content[writer[t].fd].data
     IN content' = [content EXCEPT ![writer[t].fd] =
          [data |-> data, whole |-> Cardinality(old) <= Cardinality(data), by |-> CacheOf[t]]]
  /\ writer' = [writer EXCEPT ![t].pc = "rename", ![t].fd = NoFile]
  /\ UNCHANGED <<file, temp, caches, crashes>>

(* An inode with no name and no writer is gone with its content. *)
Freed(i) == i = file /\ \A t \in Threads : writer[t].fd # i

RenameTemp(t) ==
  /\ writer[t].pc = "rename"
  /\ Temp(t) # NoFile
  /\ file' = Temp(t)
  /\ temp' = [temp EXCEPT ![ProcessOf[CacheOf[t]]] = NoFile]
  /\ saved' = [saved EXCEPT ![CacheOf[t]] = writer[t].data]
  /\ status' = [status EXCEPT ![CacheOf[t]] = "saved"]
  /\ writer' = [writer EXCEPT ![t] = Resting]
  /\ content' = [i \in Inodes |-> IF Freed(i) THEN Empty ELSE content[i]]
  /\ UNCHANGED <<mem, crashes>>

(* The disk is full, or the name is gone: logged, and saved stays as it    *)
(* was, so that the next save writes again.                                *)
SaveFails(t) ==
  /\ writer[t].pc \in {"create", "write", "rename"}
  /\ writer' = [writer EXCEPT ![t] = Resting]
  /\ status' = [status EXCEPT ![CacheOf[t]] = "failed"]
  /\ UNCHANGED <<disk, mem, saved, crashes>>

(* The process dies with whatever it was writing; another one is started   *)
(* and opens its caches from the file.                                     *)
Crash(p) ==
  /\ crashes < MaxCrashes
  /\ crashes' = crashes + 1
  /\ status' = [c \in Caches |-> IF ProcessOf[c] = p THEN "closed" ELSE status[c]]
  /\ writer' = [t \in Threads |-> IF ProcessOf[CacheOf[t]] = p THEN Resting ELSE writer[t]]
  /\ content' = [i \in Inodes |->
       IF content[i].by \in Caches /\ ProcessOf[content[i].by] = p
         THEN [content[i] EXCEPT !.by = "nobody"] ELSE content[i]]
  /\ mem' = [c \in Caches |-> IF ProcessOf[c] = p THEN {} ELSE mem[c]]
  /\ saved' = [c \in Caches |-> IF ProcessOf[c] = p THEN {} ELSE saved[c]]
  /\ UNCHANGED <<file, temp>>

Next ==
  \/ \E c \in Caches : Open(c)
  \/ \E t \in Threads :
       \/ \E s \in Shaders : Compile(t, s)
       \/ Save(t) \/ SavesNothing(t) \/ CreateTemp(t) \/ WriteTemp(t) \/ RenameTemp(t) \/ SaveFails(t)
  \/ \E p \in Processes : Crash(p)

Spec == Init /\ [][Next]_vars

-----------------------------------------------------------------------------
TypeOK ==
  /\ file \in Inodes \cup {NoFile}
  /\ temp \in [Processes -> Inodes \cup {NoFile}]
  /\ content \in [Inodes -> Contents]
  /\ mem \in [Caches -> SUBSET Shaders]
  /\ saved \in [Caches -> SUBSET Shaders]
  /\ status \in [Caches -> {"closed", "open", "saved", "failed"}]
  /\ writer \in [Threads -> [pc : {"idle", "save", "create", "write", "rename"},
                             data : SUBSET Shaders, fd : Inodes \cup {NoFile}]]
  /\ crashes \in 0..MaxCrashes
  /\ \A c \in Caches : status[c] = "closed" => mem[c] = {} /\ saved[c] = {}

(* "A concurrent reader never sees half a file": whatever crashes or fails *)
(* while it is saved, the cache file is one snapshot of one cache.         *)
NeverHalfAFile == file # NoFile => content[file].whole

(* "An older concurrent snapshot cannot overwrite a newer one": what a     *)
(* cache has saved is replaced by that cache only with more.               *)
NewerSnapshotsWin ==
  [][file # NoFile /\ file' # file /\ content[file].by # "nobody"
       /\ content'[file'].by = content[file].by
       => content[file].data \subseteq content'[file'].data]_vars

(* Once its threads are done and the last save did not fail, nothing of a  *)
(* cache is left unwritten: "size alone misses replacements after an       *)
(* incompatible seed is rejected".  Checked with the types.                *)
NothingLeftUnsaved ==
  /\ TypeOK
  /\ \A c \in Caches :
       status[c] = "saved" /\ (\A t \in ThreadsOf(c) : writer[t].pc = "idle") => saved[c] = mem[c]
=============================================================================
