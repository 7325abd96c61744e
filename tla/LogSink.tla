------------------------------ MODULE LogSink ------------------------------
(***************************************************************************)
(* The log file that several processes may share (internal/logging/        *)
(* writer.go): the registered sink with its reference count, its one       *)
(* descriptor, rotation into backups, compression and pruning, over a      *)
(* directory in which every call may fail and gonner may die between any   *)
(* two of them.                                                            *)
(*                                                                         *)
(* A file is the sequence of the chunks written to it, all of one size.    *)
(* Backups carry the number of the rotation that named them, which stands  *)
(* for the timestamp in the name.  Only gonner changes the directory, and  *)
(* what was written survives its death (of the process, not the machine).  *)
(***************************************************************************)
EXTENDS Naturals, Sequences, FiniteSets

CONSTANTS
    Writers,        \* the processes that log to the path
    Limit,          \* MaxSizeMB, in chunks
    MaxBackups,
    Faults,         \* the calls that may fail
    MaxWrites,      \* bound on the calls of write
    MaxCrashes      \* bound on the deaths of gonner

Calls == {"open", "link", "unlink", "compress", "write"}

ASSUME LogSinkConstants ==
    /\ Limit \in Nat \ {0}
    /\ MaxBackups \in Nat \ {0}
    /\ Faults \subseteq Calls
    /\ MaxWrites \in Nat
    /\ MaxCrashes \in Nat

VARIABLES
    compress,   \* RotateOptions.Compress, fixed in Init
    dir,        \* the file of each name, 0 for none
    data,       \* the chunks of each file
    open,       \* the writers with a sink that are not closed
    refs,       \* fileSink.refs; the sink is registered while it is positive
    file,       \* fileSink.file, 0 when it is closed
    written,    \* fileSink.written
    pc,         \* where the holder of fileSink.mu is
    who,        \* the writers in write (one at most)
    writes,     \* calls of write so far; numbers chunks and rotations
    pruned,     \* history: the chunks of the backups that were pruned
    accepted,   \* history: the chunks that were written without an error
    faulted,    \* history: has a call failed?
    crashes

sink == <<open, refs, file, written, pc, who>>
history == <<pruned, accepted, faulted, crashes>>
vars == <<compress, dir, data, sink, writes, history>>

Log == <<0, "log">>
Raw(k) == <<k, "raw">>
Gz(k) == <<k, "gz">>
Temp(k) == <<k, "tmp">>
Names == {Log} \cup ((1..MaxWrites) \X {"raw", "gz", "tmp"})

Steps == {"idle", "link", "unlink", "undo", "create", "restore", "zip", "copy",
          "publish", "dropTemp", "dropRaw", "zipFailed", "prune", "write"}

TypeOK ==
    /\ compress \in BOOLEAN
    /\ data \in Seq(Seq(1..MaxWrites))
    /\ dir \in [Names -> 0..Len(data)]
    /\ open \subseteq Writers
    /\ refs = Cardinality(open)
    /\ file \in 0..Len(data)
    /\ written \in 0..MaxWrites
    /\ pc \in Steps
    /\ who \subseteq open
    /\ Cardinality(who) = IF pc = "idle" THEN 0 ELSE 1
    /\ writes \in 0..MaxWrites
    /\ accepted \subseteq 1..writes
    /\ pruned \subseteq accepted
    /\ faulted \in BOOLEAN
    /\ crashes \in 0..MaxCrashes

\* No log yet.
Init ==
    /\ compress \in BOOLEAN
    /\ dir = [f \in Names |-> 0]
    /\ data = <<>>
    /\ open = {}
    /\ refs = 0
    /\ file = 0
    /\ written = 0
    /\ pc = "idle"
    /\ who = {}
    /\ writes = 0
    /\ pruned = {}
    /\ accepted = {}
    /\ faulted = FALSE
    /\ crashes = 0

-----------------------------------------------------------------------------
(* The directory (internal/safefile/directory.go) *)

Exists(f) == dir[f] # 0
Links(i) == {f \in Names : dir[f] = i}

\* An existing file is opened only when it has a single link.
Trusted(f) == Exists(f) /\ Cardinality(Links(dir[f])) = 1

Bind(f, i) == dir' = [dir EXCEPT ![f] = i]
Remove(f) == Bind(f, 0)

\* A new file under a name that is free.
Create(f, chunks) ==
    /\ data' = Append(data, chunks)
    /\ Bind(f, Len(data) + 1)

Works == UNCHANGED faulted
Fails(call) == call \in Faults /\ faulted' = TRUE

-----------------------------------------------------------------------------
(* NewWriterWithOptions and Close *)

OpenAgain(w) ==
    /\ refs > 0
    /\ refs' = refs + 1
    /\ open' = open \cup {w}
    /\ UNCHANGED <<dir, data, file, written, pc, who, faulted>>

SizeForgotten(i) == 0
\* The counter starts from the size of the file that is there.
SizeOf(i) == Len(data'[i])

OpenFirst(w) ==
    /\ refs = 0
    /\ \/ Exists(Log) /\ Trusted(Log) /\ UNCHANGED <<dir, data>>
       \/ ~Exists(Log) /\ Create(Log, <<>>)
    /\ refs' = 1
    /\ open' = open \cup {w}
    /\ file' = dir'[Log]
    /\ written' = SizeOf(dir'[Log])
    /\ Works
    /\ UNCHANGED <<pc, who>>

\* O_CREATE may have made the file when a later check of it fails.
OpenFails ==
    /\ refs = 0
    /\ \/ Exists(Log) /\ ~Trusted(Log) /\ Works /\ UNCHANGED <<dir, data>>
       \/ Fails("open") /\ UNCHANGED <<dir, data>>
       \/ Fails("open") /\ ~Exists(Log) /\ Create(Log, <<>>)
    /\ UNCHANGED sink

NewWriter(w) ==
    /\ w \notin open
    /\ OpenAgain(w) \/ OpenFirst(w) \/ OpenFails
    /\ UNCHANGED <<compress, writes, pruned, accepted, crashes>>

LastRef == TRUE
NoRefs == refs' = 0

Close(w) ==
    /\ w \in open \ who
    /\ open' = open \ {w}
    /\ refs' = refs - 1
    /\ IF NoRefs
       THEN file' = 0 /\ written' = 0
       ELSE UNCHANGED <<file, written>>
    /\ UNCHANGED <<compress, dir, data, pc, who, writes, history>>

-----------------------------------------------------------------------------
(* fileSink.write and rotateFile.  The backup of this rotation has the     *)
(* number of the write.                                                    *)

Goto(p) == pc' = p

BeginWrite(w) ==
    /\ pc = "idle"
    /\ w \in open
    /\ writes < MaxWrites
    /\ writes' = writes + 1
    /\ who' = {w}
    /\ Goto(IF written > 0 /\ written + 1 > Limit THEN "link" ELSE "write")
    /\ UNCHANGED <<compress, dir, data, open, refs, file, written, history>>

\* One call on the directory, and where it leads.
At(p) ==
    /\ pc = p
    /\ UNCHANGED <<compress, open, refs, who, writes, accepted, crashes>>

LinkBackup ==
    /\ At("link")
    /\ \/ Exists(Log) /\ Bind(Raw(writes), dir[Log]) /\ Works /\ Goto("unlink")
       \/ ~Exists(Log) /\ UNCHANGED dir /\ Works /\ Goto("write")
       \/ Fails("link") /\ UNCHANGED dir /\ Goto("write")
    /\ UNCHANGED <<data, file, written, pruned>>

UnlinkLog ==
    /\ At("unlink")
    /\ \/ Remove(Log) /\ Works /\ Goto("create")
       \/ Fails("unlink") /\ UNCHANGED dir /\ Goto("undo")
    /\ UNCHANGED <<data, file, written, pruned>>

\* The reserved name is given back; an error of that is ignored.
UndoBackup ==
    /\ At("undo")
    /\ \/ Remove(Raw(writes)) /\ Works
       \/ Fails("unlink") /\ UNCHANGED dir
    /\ Goto("write")
    /\ UNCHANGED <<data, file, written, pruned>>

\* The old descriptor is replaced when the new file is open.
CreateLog ==
    /\ At("create")
    /\ Create(Log, <<>>)
    /\ file' = Len(data')
    /\ written' = 0
    /\ Works
    /\ Goto(IF compress THEN "zip" ELSE "prune")
    /\ UNCHANGED pruned

CreateFails ==
    /\ At("create")
    /\ Fails("open")
    /\ Create(Log, <<>>) \/ UNCHANGED <<dir, data>>
    /\ Goto("restore")
    /\ UNCHANGED <<file, written, pruned>>

UndoAnyway == "undo"
KeepBackup == "write"

\* The backup is the log again, or keeps the only name of the open file.
Restore ==
    /\ At("restore")
    /\ \/ ~Exists(Log) /\ Bind(Log, dir[Raw(writes)]) /\ Works /\ Goto("undo")
       \/ Exists(Log) /\ UNCHANGED dir /\ Works /\ Goto(KeepBackup)
       \/ Fails("link") /\ UNCHANGED dir /\ Goto(KeepBackup)
    /\ UNCHANGED <<data, file, written, pruned>>

-----------------------------------------------------------------------------
(* compress.  On an error rotateFile returns, and nothing is pruned.        *)

Zip ==
    /\ At("zip")
    /\ \/ Trusted(Raw(writes)) /\ Create(Temp(writes), <<>>) /\ Works /\ Goto("copy")
       \/ ~Trusted(Raw(writes)) /\ UNCHANGED <<dir, data>> /\ Works /\ Goto("write")
       \/ /\ Fails("compress")
          /\ Create(Temp(writes), <<>>) \/ UNCHANGED <<dir, data>>
          /\ Goto("write")
    /\ UNCHANGED <<file, written, pruned>>

Copy ==
    /\ At("copy")
    /\ \/ /\ data' = [data EXCEPT ![dir[Temp(writes)]] = data[dir[Raw(writes)]]]
          /\ Works
          /\ Goto("publish")
       \/ Fails("compress") /\ UNCHANGED data /\ Goto("zipFailed")
    /\ UNCHANGED <<dir, file, written, pruned>>

Publish ==
    /\ At("publish")
    /\ \/ Bind(Gz(writes), dir[Temp(writes)]) /\ Works /\ Goto("dropTemp")
       \/ Fails("link") /\ UNCHANGED dir /\ Goto("zipFailed")
    /\ UNCHANGED <<data, file, written, pruned>>

DropTemp ==
    /\ At("dropTemp")
    /\ \/ Remove(Temp(writes)) /\ Works /\ Goto("dropRaw")
       \/ Fails("unlink") /\ UNCHANGED dir /\ Goto("zipFailed")
    /\ UNCHANGED <<data, file, written, pruned>>

DropRaw ==
    /\ At("dropRaw")
    /\ \/ Remove(Raw(writes)) /\ Works /\ Goto("prune")
       \/ Fails("unlink") /\ UNCHANGED dir /\ Goto("write")
    /\ UNCHANGED <<data, file, written, pruned>>

\* The deferred removal of the temporary file; its error is ignored.
ZipFailed ==
    /\ At("zipFailed")
    /\ \/ Remove(Temp(writes)) /\ Works
       \/ Fails("unlink") /\ UNCHANGED dir
    /\ Goto("write")
    /\ UNCHANGED <<data, file, written, pruned>>

-----------------------------------------------------------------------------
(* pruneBackups, and the write itself *)

Chunks(f) == {data[dir[f]][n] : n \in DOMAIN data[dir[f]]}

\* Names of the reserved format whose file can be opened.
Backups == {f \in Names : f[2] \in {"raw", "gz"} /\ Trusted(f)}

\* The order of the names: "x.log" comes before "x.log.gz".
Before(f, g) == f[1] < g[1] \/ (f[1] = g[1] /\ f[2] = "raw" /\ g[2] = "gz")

PruneOldest ==
    /\ At("prune")
    /\ Cardinality(Backups) > MaxBackups
    /\ \E oldest \in Backups :
         /\ \A f \in Backups \ {oldest} : Before(oldest, f)
         /\ \/ Remove(oldest) /\ pruned' = pruned \cup Chunks(oldest) /\ Works /\ UNCHANGED pc
            \/ Fails("unlink") /\ UNCHANGED <<dir, pruned>> /\ Goto("write")
    /\ UNCHANGED <<data, file, written>>

PruneEnds ==
    /\ At("prune")
    /\ \/ Cardinality(Backups) <= MaxBackups /\ Works
       \/ Fails("open")
    /\ Goto("write")
    /\ UNCHANGED <<dir, data, file, written, pruned>>

\* The chunk is written though the rotation may have failed.
WriteChunk ==
    /\ pc = "write"
    /\ \/ /\ data' = [data EXCEPT ![file] = Append(@, writes)]
          /\ written' = written + 1
          /\ accepted' = accepted \cup {writes}
          /\ Works
       \/ Fails("write") /\ UNCHANGED <<data, written, accepted>>
    /\ Goto("idle")
    /\ who' = {}
    /\ UNCHANGED <<compress, dir, open, refs, file, writes, pruned, crashes>>

Rotate ==
    \/ LinkBackup
    \/ UnlinkLog
    \/ UndoBackup
    \/ CreateLog
    \/ CreateFails
    \/ Restore
    \/ Zip
    \/ Copy
    \/ Publish
    \/ DropTemp
    \/ DropRaw
    \/ ZipFailed
    \/ PruneOldest
    \/ PruneEnds

\* gonner dies; the kernel closes the file.
Crash ==
    /\ crashes < MaxCrashes
    /\ crashes' = crashes + 1
    /\ open' = {}
    /\ refs' = 0
    /\ file' = 0
    /\ written' = 0
    /\ pc' = "idle"
    /\ who' = {}
    /\ UNCHANGED <<compress, dir, data, writes, pruned, accepted, faulted>>

Next ==
    \/ \E w \in Writers : NewWriter(w) \/ BeginWrite(w) \/ Close(w)
    \/ Rotate
    \/ WriteChunk
    \/ Crash

Spec == Init /\ [][Next]_vars

-----------------------------------------------------------------------------
(* Properties *)

Stored == UNION {Chunks(f) : f \in {g \in Names : g[2] # "tmp" /\ Exists(g)}}

\* "Raw log files preserve every byte" (docs/operations.md): at every instant,
\* after whatever calls failed and wherever gonner died, each chunk that was
\* written and not pruned is in the log or in a backup that has its final name.
NothingLost == accepted \ pruned \subseteq Stored

\* A writer that is not closed has an open file to write to, whichever of the
\* processes that share it are closed (the count in Close), and the file has a
\* final name even when a rotation failed half-way and its rollback too.
SharedFileUsable ==
    open # {} => file # 0 /\ \E f \in Links(file) : f[2] # "tmp"

\* As long as no call fails, no file grows beyond the limit, whoever writes to
\* it and however often it is closed and opened, and once a rotation is over no
\* more than MaxBackups backups are left, unless gonner died in one.
RotationBounds ==
    ~faulted =>
        /\ \A i \in DOMAIN data : Len(data[i]) <= Limit
        /\ crashes = 0 /\ pc = "idle" => Cardinality(Backups) <= MaxBackups

\* "maxBackups: Max number of rotated files to retain"
\* (docs/configuration.md:167): between writes there are no more backups.
BackupsRetained == pc = "idle" => Cardinality(Backups) <= MaxBackups
=============================================================================
