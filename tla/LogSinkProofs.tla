---------------------------- MODULE LogSinkProofs ----------------------------
(***************************************************************************)
(* Proofs about LogSink, for any number of writers, writes and deaths of   *)
(* gonner and any set of calls that may fail: no chunk is lost, the shared *)
(* file stays usable, and the files of the log stay within their bounds.   *)
(***************************************************************************)
EXTENDS LogSink, FiniteSetTheorems, TLAPS

\* The names that are not a temporary file's.
Final == {f \in Names : f[2] # "tmp"}

Types ==
    /\ data \in Seq(Seq(Nat))
    /\ dir \in [Names -> 0..Len(data)]
    /\ file \in 0..Len(data)
    /\ writes \in 0..MaxWrites
    /\ pc \in Steps

\* The count is that of the writers, and whoever holds the lock is one.
Counted ==
    /\ IsFiniteSet(open)
    /\ refs = Cardinality(open)
    /\ who \subseteq open
    /\ pc # "idle" => who # {} /\ writes > 0

\* No file has the number of a rotation that is yet to come.
Unused == \A f \in Names : f[1] > writes => dir[f] = 0

\* The open file has a name, and not only a temporary one.
Named == open # {} => file # 0 /\ \E f \in Final : dir[f] = file

\* What a rotation has done so far: the names it has given ...
Rotated ==
    /\ pc = "link" => dir[Raw(writes)] = 0
    /\ pc \in {"link", "unlink", "undo", "create", "restore", "zip", "copy", "publish"} =>
         dir[Gz(writes)] = 0
    /\ pc \in {"unlink", "undo"} => dir[Log] # 0 /\ dir[Raw(writes)] = dir[Log]
    /\ pc = "create" => dir[Log] = 0
    /\ pc \in {"create", "restore", "zip", "copy", "publish", "dropTemp", "dropRaw"} =>
         dir[Raw(writes)] # 0
    /\ pc \in {"zip", "copy", "publish", "dropTemp", "dropRaw", "prune"} => dir[Log] = file

\* ... and the copy it has made.
Copied ==
    /\ pc = "copy" =>
         /\ dir[Temp(writes)] # 0
         /\ \A f \in Names : dir[f] = dir[Temp(writes)] => f = Temp(writes)
    /\ pc = "publish" =>
         dir[Temp(writes)] # 0 /\ data[dir[Temp(writes)]] = data[dir[Raw(writes)]]
    /\ pc \in {"dropTemp", "dropRaw"} =>
         dir[Gz(writes)] # 0 /\ data[dir[Gz(writes)]] = data[dir[Raw(writes)]]

IInv ==
    /\ Types
    /\ Counted
    /\ Unused
    /\ Named
    /\ Rotated
    /\ Copied
    /\ NothingLost

-----------------------------------------------------------------------------
(* Names, files and what is stored *)

LEMMA NameFacts ==
  ASSUME NEW k \in 1..MaxWrites
  PROVE  /\ Raw(k) \in Final /\ Gz(k) \in Final /\ Temp(k) \in Names /\ Temp(k) \notin Final
         /\ Raw(k) # Log /\ Gz(k) # Log /\ Raw(k) # Gz(k)
         /\ Raw(k)[1] = k /\ Gz(k)[1] = k /\ Temp(k)[1] = k
  BY DEF Final, Names, Log, Raw, Gz, Temp

LEMMA LogFacts ==
    /\ Log \in Final
    /\ Log[1] = 0
    /\ Final \subseteq Names
    /\ \A f \in Names : f[1] \in Nat
  BY DEF Final, Names, Log

LEMMA BindFacts ==
  ASSUME Types, NEW f \in Names, NEW i \in 0..Len(data), Bind(f, i)
  PROVE  /\ dir' \in [Names -> 0..Len(data)]
         /\ dir'[f] = i
         /\ \A g \in Names : g # f => dir'[g] = dir[g]
  BY DEF Types, Bind

LEMMA CreateFacts ==
  ASSUME Types, NEW f \in Names, Create(f, <<>>)
  PROVE  /\ data' \in Seq(Seq(Nat))
         /\ Len(data') = Len(data) + 1
         /\ \A i \in 1..Len(data) : data'[i] = data[i]
         /\ dir' \in [Names -> 0..Len(data')]
         /\ dir'[f] = Len(data) + 1
         /\ \A g \in Names : g # f => dir'[g] = dir[g]
  BY DEF Types, Create, Bind

LEMMA OverwriteFacts ==
  ASSUME Types, NEW i \in 1..Len(data), NEW c \in Seq(Nat), data' = [data EXCEPT ![i] = c]
  PROVE  /\ data' \in Seq(Seq(Nat))
         /\ Len(data') = Len(data)
         /\ data'[i] = c
         /\ \A j \in 1..Len(data) : j # i => data'[j] = data[j]
  BY DEF Types

-----------------------------------------------------------------------------
(* A step of the rotation changes what one name stands for, at most. *)

\* Of all other names nothing changes, and the files they had are the same.
OnlyAt(name) ==
    /\ data' \in Seq(Seq(Nat))
    /\ Len(data) <= Len(data')
    /\ dir' \in [Names -> 0..Len(data')]
    /\ file' \in 0..Len(data')
    /\ \A f \in Names : f # name => dir'[f] = dir[f]
    /\ \A f \in Final : f # name /\ dir[f] # 0 => data'[dir[f]] = data[dir[f]]

\* What the name stood for is still there, under another name perhaps.
StoredAs(name, other) ==
    dir[name] # 0 => dir'[other] # 0 /\ data'[dir'[other]] = data[dir[name]]

\* The lock is still held, and histories are as they were.
Held ==
    /\ pc # "idle"
    /\ pc' \in Steps \ {"idle"}
    /\ UNCHANGED <<open, refs, who, writes, accepted, pruned>>

LEMMA Holding ==
  ASSUME IInv, pc # "idle"
  PROVE  /\ writes \in 1..MaxWrites /\ open # {} /\ file # 0
         /\ \E f \in Final : dir[f] = file
         /\ Types
         /\ Len(data) \in Nat /\ \A f \in Names : dir[f] \in 0..Len(data)
         /\ {Log, Raw(writes), Gz(writes)} \subseteq Final
         /\ {Log, Raw(writes), Gz(writes), Temp(writes)} \subseteq Names
         /\ Raw(writes) # Log /\ Gz(writes) # Log /\ Raw(writes) # Gz(writes)
         /\ Temp(writes) \notin Final
         /\ Log[1] <= writes /\ Raw(writes)[1] <= writes
         /\ Gz(writes)[1] <= writes /\ Temp(writes)[1] <= writes
  <1>1. writes \in 1..MaxWrites /\ open # {}
    BY DEF IInv, Types, Counted
  <1> QED
    BY <1>1, NameFacts, LogFacts DEF IInv, Named, Types

LEMMA OneName ==
  ASSUME IInv, Held, NEW name \in Names, name[1] <= writes, OnlyAt(name),
         name \in Final => \E other \in Final : StoredAs(name, other)
  PROVE  Types' /\ Counted' /\ Unused' /\ NothingLost'
  <1> USE DEF IInv, Held, OnlyAt
  <1>1. Types'
    BY DEF Types
  <1>2. Counted'
    BY DEF Counted
  <1>3. Unused'
    BY LogFacts DEF Unused, Types
  <1>4. NothingLost'
    <2> SUFFICES ASSUME NEW x \in accepted \ pruned PROVE x \in Stored'
      BY DEF NothingLost
    <2>1. PICK f \in Final : dir[f] # 0 /\ x \in Chunks(f)
      BY DEF NothingLost, Stored, Final, Exists
    <2>2. \E g \in Final : dir'[g] # 0 /\ data'[dir'[g]] = data[dir[f]]
      <3>1. CASE f = name
        BY <2>1, <3>1 DEF StoredAs
      <3>2. CASE f # name
        BY <2>1, <3>2 DEF Final
      <3> QED
        BY <3>1, <3>2
    <2>3. PICK g \in Final : dir'[g] # 0 /\ data'[dir'[g]] = data[dir[f]]
      BY <2>2
    <2>4. x \in Chunks(g)'
      BY <2>1, <2>3 DEF Chunks
    <2> QED
      BY <2>3, <2>4 DEF Stored, Final, Exists
  <1> QED
    BY <1>1, <1>2, <1>3, <1>4

LEMMA LinkBackupStep ==
  ASSUME IInv, LinkBackup PROVE IInv'
  <1>1. pc # "idle" /\ Held /\ UNCHANGED <<data, file, writes, open>>
    BY DEF LinkBackup, At, Held, Goto, Steps
  <1>2. dir[Raw(writes)] = 0 /\ dir[Gz(writes)] = 0
    BY DEF IInv, Rotated, LinkBackup, At
  <1>3. /\ dir' \in [Names -> 0..Len(data)]
        /\ \A f \in Names : f # Raw(writes) => dir'[f] = dir[f]
        /\ \/ pc' = "unlink" /\ dir[Log] # 0 /\ dir'[Raw(writes)] = dir[Log]
           \/ pc' = "write"
    BY <1>1, <1>2, Holding, BindFacts DEF LinkBackup, Goto, Exists, Types
  <1>4. OnlyAt(Raw(writes)) /\ StoredAs(Raw(writes), Raw(writes))
    BY <1>1, <1>2, <1>3, Holding DEF OnlyAt, StoredAs, Types
  <1>5. Named'
    BY <1>1, <1>2, <1>3, Holding, LogFacts DEF Named
  <1>6. Rotated' /\ Copied'
    BY <1>1, <1>2, <1>3, Holding, LogFacts DEF Rotated, Copied
  <1>7. Types' /\ Counted' /\ Unused' /\ NothingLost'
    BY <1>1, <1>4, OneName, Holding
  <1> QED
    BY <1>5, <1>6, <1>7 DEF IInv

LEMMA UnlinkLogStep ==
  ASSUME IInv, UnlinkLog PROVE IInv'
  <1>1. pc # "idle" /\ Held /\ UNCHANGED <<data, file, writes, open>>
    BY DEF UnlinkLog, At, Held, Goto, Steps
  <1>2. dir[Log] # 0 /\ dir[Raw(writes)] = dir[Log] /\ dir[Gz(writes)] = 0
    BY DEF IInv, Rotated, UnlinkLog, At
  <1>3. /\ dir' \in [Names -> 0..Len(data)]
        /\ \A f \in Names : f # Log => dir'[f] = dir[f]
        /\ \/ pc' = "create" /\ dir'[Log] = 0
           \/ pc' = "undo" /\ dir'[Log] = dir[Log]
    BY <1>1, <1>2, Holding, BindFacts DEF UnlinkLog, Goto, Remove, Types
  <1>4. OnlyAt(Log) /\ StoredAs(Log, Raw(writes))
    BY <1>1, <1>2, <1>3, Holding DEF OnlyAt, StoredAs, Types
  <1>5. Named'
    BY <1>1, <1>2, <1>3, Holding, LogFacts DEF Named
  <1>6. Rotated' /\ Copied'
    BY <1>1, <1>2, <1>3, Holding, LogFacts DEF Rotated, Copied
  <1>7. Types' /\ Counted' /\ Unused' /\ NothingLost'
    BY <1>1, <1>4, OneName, Holding
  <1> QED
    BY <1>5, <1>6, <1>7 DEF IInv

LEMMA UndoBackupStep ==
  ASSUME IInv, UndoBackup PROVE IInv'
  <1>1. pc # "idle" /\ Held /\ UNCHANGED <<data, file, writes, open>>
    BY DEF UndoBackup, At, Held, Goto, Steps
  <1>2. dir[Log] # 0 /\ dir[Raw(writes)] = dir[Log]
    BY DEF IInv, Rotated, UndoBackup, At
  <1>3. /\ dir' \in [Names -> 0..Len(data)]
        /\ \A f \in Names : f # Raw(writes) => dir'[f] = dir[f]
        /\ pc' = "write"
    BY <1>1, <1>2, Holding, BindFacts DEF UndoBackup, Goto, Remove, Types
  <1>4. OnlyAt(Raw(writes)) /\ StoredAs(Raw(writes), Log)
    BY <1>1, <1>2, <1>3, Holding DEF OnlyAt, StoredAs, Types
  <1>5. Named'
    BY <1>1, <1>2, <1>3, Holding, LogFacts DEF Named
  <1>6. Rotated' /\ Copied'
    BY <1>1, <1>2, <1>3, Holding, LogFacts DEF Rotated, Copied
  <1>7. Types' /\ Counted' /\ Unused' /\ NothingLost'
    BY <1>1, <1>4, OneName, Holding
  <1> QED
    BY <1>5, <1>6, <1>7 DEF IInv

LEMMA DropTempStep ==
  ASSUME IInv, DropTemp PROVE IInv'
  <1>1. pc # "idle" /\ Held /\ UNCHANGED <<data, file, writes, open>>
    BY DEF DropTemp, At, Held, Goto, Steps
  <1>2. /\ dir[Raw(writes)] # 0 /\ dir[Log] = file
        /\ dir[Gz(writes)] # 0 /\ data[dir[Gz(writes)]] = data[dir[Raw(writes)]]
    BY DEF IInv, Rotated, Copied, DropTemp, At
  <1>3. /\ dir' \in [Names -> 0..Len(data)]
        /\ \A f \in Names : f # Temp(writes) => dir'[f] = dir[f]
        /\ \/ pc' = "dropRaw"
           \/ pc' = "zipFailed"
    BY <1>1, <1>2, Holding, BindFacts DEF DropTemp, Goto, Remove, Types
  <1>4. OnlyAt(Temp(writes))
    BY <1>1, <1>2, <1>3, Holding DEF OnlyAt, StoredAs, Types
  <1>5. Named'
    BY <1>1, <1>2, <1>3, Holding, LogFacts DEF Named
  <1>6. Rotated' /\ Copied'
    BY <1>1, <1>2, <1>3, Holding, LogFacts DEF Rotated, Copied
  <1>7. Types' /\ Counted' /\ Unused' /\ NothingLost'
    BY <1>1, <1>4, OneName, Holding
  <1> QED
    BY <1>5, <1>6, <1>7 DEF IInv

LEMMA DropRawStep ==
  ASSUME IInv, DropRaw PROVE IInv'
  <1>1. pc # "idle" /\ Held /\ UNCHANGED <<data, file, writes, open>>
    BY DEF DropRaw, At, Held, Goto, Steps
  <1>2. /\ dir[Raw(writes)] # 0 /\ dir[Log] = file
        /\ dir[Gz(writes)] # 0 /\ data[dir[Gz(writes)]] = data[dir[Raw(writes)]]
    BY DEF IInv, Rotated, Copied, DropRaw, At
  <1>3. /\ dir' \in [Names -> 0..Len(data)]
        /\ \A f \in Names : f # Raw(writes) => dir'[f] = dir[f]
        /\ \/ pc' = "prune"
           \/ pc' = "write"
    BY <1>1, <1>2, Holding, BindFacts DEF DropRaw, Goto, Remove, Types
  <1>4. OnlyAt(Raw(writes)) /\ StoredAs(Raw(writes), Gz(writes))
    BY <1>1, <1>2, <1>3, Holding DEF OnlyAt, StoredAs, Types
  <1>5. Named'
    BY <1>1, <1>2, <1>3, Holding, LogFacts DEF Named
  <1>6. Rotated' /\ Copied'
    BY <1>1, <1>2, <1>3, Holding, LogFacts DEF Rotated, Copied
  <1>7. Types' /\ Counted' /\ Unused' /\ NothingLost'
    BY <1>1, <1>4, OneName, Holding
  <1> QED
    BY <1>5, <1>6, <1>7 DEF IInv

LEMMA ZipFailedStep ==
  ASSUME IInv, ZipFailed PROVE IInv'
  <1>1. pc # "idle" /\ Held /\ UNCHANGED <<data, file, writes, open>>
    BY DEF ZipFailed, At, Held, Goto, Steps
  <1>2. TRUE
    BY DEF IInv, ZipFailed, At
  <1>3. /\ dir' \in [Names -> 0..Len(data)]
        /\ \A f \in Names : f # Temp(writes) => dir'[f] = dir[f]
        /\ pc' = "write"
    BY <1>1, <1>2, Holding, BindFacts DEF ZipFailed, Goto, Remove, Types
  <1>4. OnlyAt(Temp(writes))
    BY <1>1, <1>2, <1>3, Holding DEF OnlyAt, StoredAs, Types
  <1>5. Named'
    BY <1>1, <1>2, <1>3, Holding, LogFacts DEF Named
  <1>6. Rotated' /\ Copied'
    BY <1>1, <1>2, <1>3, Holding, LogFacts DEF Rotated, Copied
  <1>7. Types' /\ Counted' /\ Unused' /\ NothingLost'
    BY <1>1, <1>4, OneName, Holding
  <1> QED
    BY <1>5, <1>6, <1>7 DEF IInv

LEMMA PublishStep ==
  ASSUME IInv, Publish PROVE IInv'
  <1>1. pc # "idle" /\ Held /\ UNCHANGED <<data, file, writes, open>>
    BY DEF Publish, At, Held, Goto, Steps
  <1>2. /\ dir[Raw(writes)] # 0 /\ dir[Gz(writes)] = 0 /\ dir[Log] = file
        /\ dir[Temp(writes)] # 0 /\ data[dir[Temp(writes)]] = data[dir[Raw(writes)]]
    BY DEF IInv, Rotated, Copied, Publish, At
  <1>3. /\ dir' \in [Names -> 0..Len(data)]
        /\ \A f \in Names : f # Gz(writes) => dir'[f] = dir[f]
        /\ \/ pc' = "dropTemp" /\ dir'[Gz(writes)] = dir[Temp(writes)]
           \/ pc' = "zipFailed"
    BY <1>1, <1>2, Holding, BindFacts DEF Publish, Goto, Types
  <1>4. OnlyAt(Gz(writes)) /\ StoredAs(Gz(writes), Gz(writes))
    BY <1>1, <1>2, <1>3, Holding DEF OnlyAt, StoredAs, Types
  <1>5. Named'
    BY <1>1, <1>2, <1>3, Holding, LogFacts DEF Named
  <1>6. Rotated' /\ Copied'
    BY <1>1, <1>2, <1>3, Holding, LogFacts DEF Rotated, Copied
  <1>7. Types' /\ Counted' /\ Unused' /\ NothingLost'
    BY <1>1, <1>4, OneName, Holding
  <1> QED
    BY <1>5, <1>6, <1>7 DEF IInv

LEMMA RestoreStep ==
  ASSUME IInv, Restore PROVE IInv'
  <1>1. pc # "idle" /\ Held /\ UNCHANGED <<data, file, writes, open>>
    BY DEF Restore, KeepBackup, At, Held, Goto, Steps
  <1>2. dir[Raw(writes)] # 0 /\ dir[Gz(writes)] = 0
    BY DEF IInv, Rotated, Restore, At
  <1>3. /\ dir' \in [Names -> 0..Len(data)]
        /\ \A f \in Names : f # Log => dir'[f] = dir[f]
        /\ \/ pc' = "undo" /\ dir[Log] = 0 /\ dir'[Log] = dir[Raw(writes)]
           \/ pc' = "write" /\ dir'[Log] = dir[Log]
    BY <1>1, <1>2, Holding, BindFacts DEF Restore, KeepBackup, Goto, Exists, Types
  <1>4. OnlyAt(Log) /\ StoredAs(Log, Log)
    BY <1>1, <1>2, <1>3, Holding DEF OnlyAt, StoredAs, Types
  <1>5. Named'
    BY <1>1, <1>2, <1>3, Holding, LogFacts DEF Named
  <1>6. Rotated' /\ Copied'
    BY <1>1, <1>2, <1>3, Holding, LogFacts DEF Rotated, Copied
  <1>7. Types' /\ Counted' /\ Unused' /\ NothingLost'
    BY <1>1, <1>4, OneName, Holding
  <1> QED
    BY <1>5, <1>6, <1>7 DEF IInv

LEMMA PruneEndsStep ==
  ASSUME IInv, PruneEnds PROVE IInv'
  <1>1. pc # "idle" /\ Held /\ UNCHANGED <<data, file, writes, open>>
    BY DEF PruneEnds, At, Held, Goto, Steps
  <1>2. dir[Log] = file
    BY DEF IInv, Rotated, PruneEnds, At
  <1>3. UNCHANGED dir /\ pc' = "write"
    BY <1>1, <1>2, Holding, Zenon DEF PruneEnds, Goto
  <1>4. OnlyAt(Log) /\ StoredAs(Log, Log)
    BY <1>1, <1>2, <1>3, Holding DEF OnlyAt, StoredAs, Types
  <1>5. Named'
    BY <1>1, <1>2, <1>3, Holding, LogFacts DEF Named
  <1>6. Rotated' /\ Copied'
    BY <1>1, <1>2, <1>3, Holding, LogFacts DEF Rotated, Copied
  <1>7. Types' /\ Counted' /\ Unused' /\ NothingLost'
    BY <1>1, <1>4, OneName, Holding
  <1> QED
    BY <1>5, <1>6, <1>7 DEF IInv

LEMMA CreateLogStep ==
  ASSUME IInv, CreateLog PROVE IInv'
  <1>1. pc # "idle" /\ Held /\ UNCHANGED <<writes, open>>
    BY DEF CreateLog, At, Held, Goto, Steps
  <1>2. dir[Log] = 0 /\ dir[Raw(writes)] # 0 /\ dir[Gz(writes)] = 0
    BY DEF IInv, Rotated, CreateLog, At
  <1>3. /\ data' \in Seq(Seq(Nat))
        /\ Len(data') = Len(data) + 1
        /\ \A i \in 1..Len(data) : data'[i] = data[i]
        /\ dir' \in [Names -> 0..Len(data')]
        /\ dir'[Log] = Len(data') /\ file' = Len(data')
        /\ \A f \in Names : f # Log => dir'[f] = dir[f]
        /\ pc' \in {"zip", "prune"}
    BY <1>1, Holding, CreateFacts DEF CreateLog, Goto
  <1>4. OnlyAt(Log) /\ StoredAs(Log, Log)
    <2>1. \A f \in Names : dir[f] # 0 => data'[dir[f]] = data[dir[f]]
      BY <1>3, Holding, <1>1
    <2>2. file' \in 0..Len(data')
      BY <1>1, <1>3, Holding DEF Types
    <2> QED
      BY SMTT(20), <1>2, <1>3, <2>1, <2>2, Holding, <1>1, LogFacts DEF OnlyAt, StoredAs
  <1>5. Named'
    BY <1>1, <1>3, Holding DEF Named, Types
  <1>6. Rotated' /\ Copied'
    BY <1>1, <1>2, <1>3, Holding DEF Rotated, Copied
  <1>7. Types' /\ Counted' /\ Unused' /\ NothingLost'
    BY <1>1, <1>4, OneName, Holding
  <1> QED
    BY <1>5, <1>6, <1>7 DEF IInv

\* The file that O_CREATE may have left is empty, and has the free name only.
LEMMA CreateFailsStep ==
  ASSUME IInv, CreateFails PROVE IInv'
  <1>1. pc # "idle" /\ Held /\ UNCHANGED <<file, writes, open>>
    BY DEF CreateFails, At, Held, Goto, Steps
  <1>2. dir[Log] = 0 /\ dir[Raw(writes)] # 0 /\ dir[Gz(writes)] = 0
    BY DEF IInv, Rotated, CreateFails, At
  <1>3. /\ data' \in Seq(Seq(Nat))
        /\ Len(data) <= Len(data')
        /\ \A i \in 1..Len(data) : data'[i] = data[i]
        /\ dir' \in [Names -> 0..Len(data')]
        /\ \A f \in Names : f # Log => dir'[f] = dir[f]
        /\ pc' = "restore"
    <2>1. CASE Create(Log, <<>>)
      BY <1>1, <2>1, Holding, CreateFacts DEF CreateFails, Goto, Types
    <2>2. CASE UNCHANGED <<dir, data>>
      BY <1>1, <2>2, Holding DEF CreateFails, Goto, Types
    <2> QED
      BY <2>1, <2>2 DEF CreateFails
  <1>4. OnlyAt(Log) /\ StoredAs(Log, Log)
    <2>1. \A f \in Names : dir[f] # 0 => data'[dir[f]] = data[dir[f]]
      BY <1>3, Holding, <1>1
    <2>2. file' \in 0..Len(data')
      BY <1>1, <1>3, Holding DEF Types
    <2> QED
      BY <1>2, <1>3, <2>1, <2>2, Holding, <1>1, LogFacts DEF OnlyAt, StoredAs
  <1>5. Named'
    BY <1>1, <1>2, <1>3, Holding, LogFacts DEF Named
  <1>6. Rotated' /\ Copied'
    BY <1>1, <1>2, <1>3, Holding DEF Rotated, Copied
  <1>7. Types' /\ Counted' /\ Unused' /\ NothingLost'
    BY <1>1, <1>4, OneName, Holding
  <1> QED
    BY <1>5, <1>6, <1>7 DEF IInv

\* The copy gets a file of its own.
LEMMA ZipStep ==
  ASSUME IInv, Zip PROVE IInv'
  <1>1. pc # "idle" /\ Held /\ UNCHANGED <<file, writes, open>>
    BY DEF Zip, At, Held, Goto, Steps
  <1>2. dir[Log] = file /\ dir[Raw(writes)] # 0 /\ dir[Gz(writes)] = 0
    BY DEF IInv, Rotated, Zip, At
  <1>3. /\ data' \in Seq(Seq(Nat))
        /\ Len(data) <= Len(data')
        /\ \A i \in 1..Len(data) : data'[i] = data[i]
        /\ dir' \in [Names -> 0..Len(data')]
        /\ \A f \in Names : f # Temp(writes) => dir'[f] = dir[f]
        /\ \/ pc' = "copy" /\ dir'[Temp(writes)] = Len(data) + 1
           \/ pc' = "write"
    <2>1. CASE Create(Temp(writes), <<>>)
      BY SMTT(20), <1>1, <2>1, Holding, CreateFacts DEF Zip, Goto, Types
    <2>2. CASE UNCHANGED <<dir, data>> /\ pc' = "write"
      BY <1>1, <2>2, Holding DEF Zip, Goto, Types
    <2> QED
      BY <2>1, <2>2 DEF Zip, Goto
  <1>4. OnlyAt(Temp(writes))
    <2>1. \A f \in Names : dir[f] # 0 => data'[dir[f]] = data[dir[f]]
      BY <1>3, Holding, <1>1
    <2>2. file' \in 0..Len(data')
      BY <1>1, <1>3, Holding DEF Types
    <2> QED
      BY <1>2, <1>3, <2>1, <2>2, Holding, <1>1, LogFacts DEF OnlyAt
  <1>5. Named'
    BY <1>1, <1>2, <1>3, Holding DEF Named
  <1>6. Rotated'
    BY <1>1, <1>2, <1>3, Holding DEF Rotated
  <1>7. Copied'
    BY SMTT(20), <1>1, <1>2, <1>3, Holding DEF Copied, Types
  <1>8. Types' /\ Counted' /\ Unused' /\ NothingLost'
    BY <1>1, <1>4, OneName, Holding
  <1> QED
    BY <1>5, <1>6, <1>7, <1>8 DEF IInv

\* No other name stands for the file that is written to.
LEMMA CopyStep ==
  ASSUME IInv, Copy PROVE IInv'
  <1>1. pc # "idle" /\ Held /\ UNCHANGED <<dir, file, writes, open>>
    BY DEF Copy, At, Held, Goto, Steps
  <1>2. /\ dir[Log] = file /\ dir[Raw(writes)] # 0 /\ dir[Gz(writes)] = 0
        /\ dir[Temp(writes)] # 0
        /\ \A f \in Names : dir[f] = dir[Temp(writes)] => f = Temp(writes)
    BY DEF IInv, Rotated, Copied, Copy, At
  <1>3. /\ data' \in Seq(Seq(Nat))
        /\ Len(data') = Len(data)
        /\ \A i \in 1..Len(data) : i # dir[Temp(writes)] => data'[i] = data[i]
        /\ \/ pc' = "publish" /\ data'[dir[Temp(writes)]] = data[dir[Raw(writes)]]
           \/ pc' = "zipFailed"
    <2>1. dir[Temp(writes)] \in 1..Len(data) /\ data[dir[Raw(writes)]] \in Seq(Nat)
      BY <1>1, <1>2, Holding DEF Types
    <2> QED
      BY <1>1, <2>1, Holding, OverwriteFacts DEF Copy, Goto, Types
  <1>4. OnlyAt(Temp(writes))
    BY SMTT(20), <1>1, <1>2, <1>3, Holding, LogFacts DEF OnlyAt, Types
  <1>5. Named'
    BY <1>1, Holding DEF Named
  <1>6. Rotated'
    BY <1>1, <1>2, <1>3, Holding DEF Rotated
  <1>7. Copied'
    <2>1. Raw(writes) # Temp(writes) /\ dir[Raw(writes)] \in 1..Len(data)
      BY <1>1, <1>2, Holding
    <2>2. data'[dir[Raw(writes)]] = data[dir[Raw(writes)]]
      BY <1>1, <1>2, <1>3, <2>1, Holding
    <2> QED
      BY <1>1, <1>2, <1>3, <2>2 DEF Copied
  <1>8. Types' /\ Counted' /\ Unused' /\ NothingLost'
    BY <1>1, <1>4, OneName, Holding
  <1> QED
    BY <1>5, <1>6, <1>7, <1>8 DEF IInv

\* What goes with the oldest backup is recorded as pruned; the log stays.
LEMMA PruneOldestStep ==
  ASSUME IInv, PruneOldest PROVE IInv'
  <1>1. /\ pc = "prune" /\ UNCHANGED <<data, file, writes, open, refs, who, accepted>>
        /\ dir[Log] = file
    BY DEF PruneOldest, At, IInv, Rotated
  <1>2. PICK oldest \in Backups :
          \/ Remove(oldest) /\ pruned' = pruned \cup Chunks(oldest) /\ pc' = "prune"
          \/ UNCHANGED <<dir, pruned>> /\ pc' = "write"
    BY <1>1 DEF PruneOldest, Goto
  <1>3. oldest \in Names /\ oldest # Log
    BY DEF Backups, Log
  <1>4. /\ dir' \in [Names -> 0..Len(data)]
        /\ \A f \in Names : f # oldest => dir'[f] = dir[f]
        /\ dir'[oldest] \in {0, dir[oldest]}
    BY <1>1, <1>2, <1>3, Holding, BindFacts DEF Remove, Types
  <1>5. Types' /\ Counted'
    BY <1>1, <1>2, <1>4 DEF IInv, Types, Counted, Steps
  <1>6. Unused'
    BY <1>1, <1>4, LogFacts DEF IInv, Unused
  <1>7. Named' /\ Rotated' /\ Copied'
    BY <1>1, <1>2, <1>3, <1>4, Holding DEF Named, Rotated, Copied
  <1>8. NothingLost'
    <2> SUFFICES ASSUME NEW x \in accepted \ pruned' PROVE x \in Stored'
      BY <1>1 DEF NothingLost
    <2>1. x \in accepted \ pruned
      BY <1>2
    <2>2. PICK f \in Final : dir[f] # 0 /\ x \in Chunks(f)
      BY <2>1 DEF IInv, NothingLost, Stored, Final, Exists
    <2>3. dir'[f] = dir[f]
      BY <1>2, <1>4, <2>2, LogFacts
    <2> QED
      BY <1>1, <2>2, <2>3 DEF Stored, Final, Exists, Chunks
  <1> QED
    BY <1>5, <1>6, <1>7, <1>8 DEF IInv

-----------------------------------------------------------------------------
(* The writers, and the death of gonner *)

LEMMA SameFiles ==
  ASSUME NothingLost, UNCHANGED <<dir, data, accepted, pruned>> PROVE NothingLost'
  BY DEF NothingLost, Stored, Exists, Chunks

LEMMA OpenAgainStep ==
  ASSUME IInv, NEW w \in Writers, NewWriter(w), OpenAgain(w) PROVE IInv'
  <1>1. /\ UNCHANGED <<dir, data, file, writes, pc, who, accepted, pruned>>
        /\ open' = open \cup {w} /\ w \notin open /\ refs' = refs + 1
    BY DEF NewWriter, OpenAgain
  <1>2. open # {}
    BY FS_EmptySet DEF OpenAgain, IInv, Counted
  <1>3. Counted'
    BY <1>1, FS_AddElement DEF IInv, Counted
  <1>4. Types' /\ Unused' /\ Named'
    BY <1>1, <1>2 DEF IInv, Types, Unused, Named
  <1>5. Rotated' /\ Copied'
    BY <1>1 DEF IInv, Rotated, Copied
  <1> QED
    BY <1>1, <1>3, <1>4, <1>5, SameFiles DEF IInv

\* Only an idle sink is opened for the first time.
LEMMA FirstIsIdle ==
  ASSUME IInv, refs = 0 PROVE open = {} /\ pc = "idle"
  BY FS_EmptySet DEF IInv, Counted

\* The log is created if it is not there, and no other name changes.
LEMMA LogMayBeCreated ==
  ASSUME IInv, UNCHANGED <<dir, data>> \/ (~Exists(Log) /\ Create(Log, <<>>)),
         UNCHANGED <<writes, accepted, pruned>>
  PROVE  /\ data' \in Seq(Seq(Nat)) /\ Len(data') \in Nat
         /\ dir' \in [Names -> 0..Len(data')]
         /\ Unused' /\ NothingLost'
  <1>1. Types /\ Log \in Names
    BY LogFacts DEF IInv
  <1>2. CASE UNCHANGED <<dir, data>>
    BY <1>1, <1>2, SameFiles DEF IInv, Types, Unused
  <1>3. CASE ~Exists(Log) /\ Create(Log, <<>>)
    <2>1. /\ data' \in Seq(Seq(Nat)) /\ Len(data') = Len(data) + 1
          /\ dir' \in [Names -> 0..Len(data')]
          /\ \A i \in 1..Len(data) : data'[i] = data[i]
          /\ \A f \in Names : f # Log => dir'[f] = dir[f]
      BY <1>1, <1>3, CreateFacts
    <2>2. Unused'
      BY <2>1, LogFacts DEF IInv, Unused, Types
    <2>3. NothingLost'
      <3> SUFFICES ASSUME NEW x \in accepted \ pruned PROVE x \in Stored'
        BY DEF NothingLost
      <3>1. PICK f \in Final : dir[f] # 0 /\ x \in Chunks(f)
        BY DEF IInv, NothingLost, Stored, Final, Exists
      <3>2. dir'[f] = dir[f] /\ data'[dir[f]] = data[dir[f]]
        BY <1>1, <1>3, <2>1, <3>1, LogFacts DEF Exists, Types
      <3> QED
        BY <3>1, <3>2 DEF Stored, Final, Exists, Chunks
    <2> QED
      BY <1>1, <2>1, <2>2, <2>3 DEF Types
  <1> QED
    BY <1>2, <1>3

LEMMA OpenFirstStep ==
  ASSUME IInv, NEW w \in Writers, NewWriter(w), OpenFirst(w) PROVE IInv'
  <1>1. /\ open = {} /\ pc = "idle" /\ refs' = 1 /\ open' = open \cup {w}
        /\ file' = dir'[Log] /\ UNCHANGED <<writes, pc, who, accepted, pruned>>
    BY FirstIsIdle DEF NewWriter, OpenFirst
  <1>2. UNCHANGED <<dir, data>> \/ (~Exists(Log) /\ Create(Log, <<>>))
    BY DEF OpenFirst
  <1>3. /\ data' \in Seq(Seq(Nat)) /\ Len(data') \in Nat
        /\ dir' \in [Names -> 0..Len(data')]
        /\ Unused' /\ NothingLost'
    BY <1>1, <1>2, LogMayBeCreated
  <1>4. dir'[Log] # 0
    <2>1. CASE Exists(Log) /\ UNCHANGED dir
      BY <2>1 DEF Exists
    <2>2. CASE Create(Log, <<>>)
      <3>1. Types /\ Log \in Names /\ Len(data) \in Nat
        BY LogFacts DEF IInv, Types
      <3>2. dir'[Log] = Len(data) + 1
        BY <2>2, <3>1, CreateFacts
      <3> QED
        BY <3>1, <3>2
    <2>3. (Exists(Log) /\ UNCHANGED dir) \/ Create(Log, <<>>)
      BY DEF OpenFirst
    <2> QED
      BY <2>1, <2>2, <2>3
  <1>5. Counted'
    <2>1. IsFiniteSet({w}) /\ Cardinality({w}) = 1
      BY FS_Singleton
    <2>2. open' = {w} /\ refs' = 1
      BY <1>1
    <2> QED
      BY <1>1, <2>1, <2>2 DEF IInv, Counted
  <1>6. Types' /\ Named'
    BY <1>1, <1>3, <1>4, LogFacts DEF IInv, Types, Named
  <1>7. Rotated' /\ Copied'
    BY <1>1 DEF Rotated, Copied
  <1> QED
    BY <1>3, <1>5, <1>6, <1>7 DEF IInv

LEMMA OpenFailsStep ==
  ASSUME IInv, NEW w \in Writers, NewWriter(w), OpenFails PROVE IInv'
  <1>1. /\ open = {} /\ pc = "idle"
        /\ UNCHANGED <<open, refs, file, writes, pc, who, accepted, pruned>>
    BY FirstIsIdle DEF NewWriter, OpenFails, sink
  <1>2. UNCHANGED <<dir, data>> \/ (~Exists(Log) /\ Create(Log, <<>>))
    BY DEF OpenFails
  <1>3. /\ data' \in Seq(Seq(Nat)) /\ Len(data') \in Nat
        /\ dir' \in [Names -> 0..Len(data')]
        /\ Unused' /\ NothingLost'
    BY <1>1, <1>2, LogMayBeCreated
  <1>4. Len(data) <= Len(data')
    BY <1>2, LogFacts, CreateFacts DEF IInv, Types
  <1>5. Types'
    BY <1>1, <1>3, <1>4 DEF IInv, Types
  <1>6. Counted' /\ Named' /\ Rotated' /\ Copied'
    BY <1>1 DEF IInv, Counted, Named, Rotated, Copied
  <1> QED
    BY <1>3, <1>5, <1>6 DEF IInv

\* The writer that holds the lock is not closed: when the count gets to zero
\* nobody holds it.
LEMMA CloseStep ==
  ASSUME IInv, NEW w \in Writers, Close(w) PROVE IInv'
  <1>1. /\ w \in open \ who /\ open' = open \ {w} /\ refs' = refs - 1
        /\ UNCHANGED <<dir, data, writes, pc, who, accepted, pruned>>
        /\ IF refs' = 0 THEN file' = 0 ELSE file' = file
    BY DEF Close, NoRefs, history
  <1>2. Counted'
    BY <1>1, FS_RemoveElement DEF IInv, Counted
  <1>3. refs' = 0 <=> open' = {}
    BY <1>2, FS_EmptySet DEF Counted
  <1>4. pc # "idle" => file' = file
    BY <1>1, <1>3 DEF IInv, Counted
  <1>5. Types' /\ Unused'
    BY <1>1 DEF IInv, Types, Unused
  <1>6. Named'
    BY <1>1, <1>3 DEF IInv, Named
  <1>7. Rotated' /\ Copied'
    BY <1>1, <1>4 DEF IInv, Rotated, Copied
  <1>8. NothingLost'
    BY <1>1, SameFiles DEF IInv
  <1> QED
    BY <1>2, <1>5, <1>6, <1>7, <1>8 DEF IInv

\* The names of the new rotation are free.
LEMMA BeginWriteStep ==
  ASSUME IInv, NEW w \in Writers, BeginWrite(w) PROVE IInv'
  <1>1. /\ pc = "idle" /\ w \in open /\ writes' = writes + 1 /\ who' = {w}
        /\ writes < MaxWrites /\ pc' \in {"link", "write"}
        /\ UNCHANGED <<dir, data, open, refs, file, accepted, pruned>>
    BY DEF BeginWrite, Goto, history
  <1>2. writes \in Nat /\ writes' \in 1..MaxWrites
    BY <1>1, LogSinkConstants DEF IInv, Types
  <1>3. Types' /\ Counted'
    BY <1>1, <1>2 DEF IInv, Types, Counted, Steps
  <1>4. Unused'
    BY <1>1, <1>2, LogFacts DEF IInv, Unused
  <1>5. dir[Raw(writes')] = 0 /\ dir[Gz(writes')] = 0
    BY <1>1, <1>2, NameFacts, LogFacts DEF IInv, Unused
  <1>6. Named' /\ Rotated' /\ Copied'
    BY <1>1, <1>5 DEF IInv, Named, Rotated, Copied
  <1>7. NothingLost'
    BY <1>1, SameFiles DEF IInv
  <1> QED
    BY <1>3, <1>4, <1>6, <1>7 DEF IInv

\* A chunk that is appended leaves those before it where they are.
LEMMA AppendExtends ==
  ASSUME NEW s \in Seq(Nat), NEW n \in Nat
  PROVE  /\ DOMAIN s \subseteq DOMAIN Append(s, n)
         /\ \A k \in DOMAIN s : Append(s, n)[k] = s[k]
         /\ Len(s) + 1 \in DOMAIN Append(s, n)
         /\ Append(s, n)[Len(s) + 1] = n
  <1>1. DOMAIN s = 1..Len(s) /\ Len(s) \in Nat
    OBVIOUS
  <1>2. DOMAIN Append(s, n) = 1..(Len(s) + 1)
    OBVIOUS
  <1>3. DOMAIN s \subseteq DOMAIN Append(s, n) /\ Len(s) + 1 \in DOMAIN Append(s, n)
    BY <1>1, <1>2
  <1>4. /\ \A k \in DOMAIN s : Append(s, n)[k] = s[k]
        /\ Append(s, n)[Len(s) + 1] = n
    OBVIOUS
  <1> QED
    BY <1>3, <1>4

\* A chunk is appended to a file that has a final name.
LEMMA WriteChunkStep ==
  ASSUME IInv, WriteChunk PROVE IInv'
  <1>1. /\ pc = "write" /\ pc' = "idle" /\ who' = {}
        /\ UNCHANGED <<dir, open, refs, file, writes, pruned>>
    BY DEF WriteChunk, Goto
  <1>2. Counted' /\ Unused' /\ Named'
    BY <1>1, FS_EmptySet DEF IInv, Counted, Unused, Named
  <1>3. Rotated' /\ Copied'
    BY <1>1 DEF Rotated, Copied
  <1>4. CASE UNCHANGED <<data, accepted>>
    <2>1. Types'
      BY <1>1, <1>4 DEF IInv, Types, Steps
    <2> QED
      BY <1>1, <1>2, <1>3, <1>4, <2>1, SameFiles DEF IInv
  <1>5. CASE /\ data' = [data EXCEPT ![file] = Append(@, writes)]
             /\ accepted' = accepted \cup {writes}
    <2>1. file \in 1..Len(data) /\ writes \in Nat /\ data[file] \in Seq(Nat)
      BY <1>1, Holding DEF Types
    <2>2. data' = [data EXCEPT ![file] = Append(data[file], writes)]
      BY <1>5
    <2>3. /\ data' \in Seq(Seq(Nat)) /\ Len(data') = Len(data)
          /\ data'[file] = Append(data[file], writes)
          /\ \A i \in 1..Len(data) : i # file => data'[i] = data[i]
      <3>1. Append(data[file], writes) \in Seq(Nat)
        BY <2>1
      <3> QED
        BY <2>1, <2>2, <3>1, OverwriteFacts DEF IInv
    <2>4. Types'
      BY <1>1, <2>3 DEF IInv, Types, Steps
    <2>5. ASSUME NEW f \in Final, dir[f] # 0 PROVE Chunks(f) \subseteq Chunks(f)'
      <3>1. dir[f] \in 1..Len(data)
        <4>1. f \in Names /\ dir[f] \in 0..Len(data) /\ Len(data) \in Nat
          BY <2>5, LogFacts DEF IInv, Types
        <4> QED
          BY <2>5, <4>1
      <3>2. CASE dir[f] = file
        <4>1. /\ DOMAIN data[file] \subseteq DOMAIN data'[file]
              /\ \A n \in DOMAIN data[file] : data'[file][n] = data[file][n]
          <5>1. /\ DOMAIN data[file] \subseteq DOMAIN Append(data[file], writes)
                /\ \A n \in DOMAIN data[file] : Append(data[file], writes)[n] = data[file][n]
            BY <2>1, AppendExtends
          <5> QED
            BY <2>3, <5>1, Zenon
        <4> QED
          BY <1>1, <3>2, <4>1 DEF Chunks
      <3>3. CASE dir[f] # file
        BY <1>1, <2>3, <3>1, <3>3 DEF Chunks
      <3> QED
        BY <3>2, <3>3
    <2>6. PICK g \in Final : dir[g] = file
      BY <1>1, Holding
    <2>7. writes \in Chunks(g)'
      <3>1. Len(data[file]) + 1 \in DOMAIN data'[file] /\ data'[file][Len(data[file]) + 1] = writes
        BY <2>1, <2>3, AppendExtends
      <3> QED
        BY <1>1, <2>6, <3>1 DEF Chunks
    <2>8. NothingLost'
      <3> SUFFICES ASSUME NEW x \in accepted' \ pruned' PROVE x \in Stored'
        BY DEF NothingLost
      <3>1. CASE x = writes
        BY <1>1, <2>1, <2>6, <2>7, <3>1 DEF Stored, Final, Exists
      <3>2. CASE x \in accepted \ pruned
        <4>1. PICK f \in Final : dir[f] # 0 /\ x \in Chunks(f)
          BY <3>2 DEF IInv, NothingLost, Stored, Final, Exists
        <4> QED
          BY <1>1, <2>5, <4>1 DEF Stored, Final, Exists
      <3> QED
        BY <1>1, <1>5, <3>1, <3>2
    <2> QED
      BY <1>2, <1>3, <2>4, <2>8 DEF IInv
  <1> QED
    BY <1>4, <1>5 DEF WriteChunk

LEMMA CrashStep ==
  ASSUME IInv, Crash PROVE IInv'
  <1>1. /\ open' = {} /\ refs' = 0 /\ file' = 0 /\ pc' = "idle" /\ who' = {}
        /\ UNCHANGED <<dir, data, writes, accepted, pruned>>
    BY DEF Crash
  <1> QED
    BY <1>1, FS_EmptySet
       DEF IInv, Types, Steps, Counted, Unused, Named, Rotated, Copied, NothingLost, Stored,
           Exists, Chunks

-----------------------------------------------------------------------------
(* The theorems *)

LEMMA InitIInv == Init => IInv
  BY FS_EmptySet, LogSinkConstants
     DEF Init, IInv, Types, Steps, Counted, Unused, Named, Rotated, Copied, NothingLost

\* The invariant holds in every reachable state.
THEOREM Inductive == Spec => []IInv
  <1>1. ASSUME IInv, [Next]_vars PROVE IInv'
    <2>1. CASE \E w \in Writers : NewWriter(w) \/ BeginWrite(w) \/ Close(w)
      BY <1>1, <2>1, OpenAgainStep, OpenFirstStep, OpenFailsStep, BeginWriteStep, CloseStep
         DEF NewWriter
    <2>2. CASE Rotate
      BY <1>1, <2>2, LinkBackupStep, UnlinkLogStep, UndoBackupStep, CreateLogStep,
         CreateFailsStep, RestoreStep, ZipStep, CopyStep, PublishStep, DropTempStep,
         DropRawStep, ZipFailedStep, PruneOldestStep, PruneEndsStep DEF Rotate
    <2>3. CASE UNCHANGED vars
      <3>1. UNCHANGED <<dir, data, open, refs, file, pc, who, writes, accepted, pruned>>
        BY <2>3 DEF vars, sink, history
      <3>2. Types' /\ Counted' /\ Unused' /\ Named'
        BY <1>1, <3>1 DEF IInv, Types, Counted, Unused, Named
      <3>3. Rotated' /\ Copied'
        BY <1>1, <3>1 DEF IInv, Rotated, Copied
      <3> QED
        BY <1>1, <3>1, <3>2, <3>3, SameFiles DEF IInv
    <2> QED
      BY <1>1, <2>1, <2>2, <2>3, WriteChunkStep, CrashStep DEF Next
  <1> QED
    BY <1>1, InitIInv, PTL DEF Spec

\* Whatever calls fail, and wherever gonner dies, each chunk that was written
\* and not pruned is in the log or in a backup (writer.go:157-249).
THEOREM EveryChunkKept == Spec => []NothingLost
  BY Inductive, PTL DEF IInv

\* A writer that is not closed writes to a file that is open and has a name
\* that is kept (writer.go:79-105, writer.go:251-273).
THEOREM FileStaysUsable == Spec => []SharedFileUsable
  <1>1. IInv => SharedFileUsable
    BY DEF IInv, Named, SharedFileUsable, Links, Final
  <1> QED
    BY <1>1, Inductive, PTL
-----------------------------------------------------------------------------
(* The bounds.  Without a failed call the log is the open file, and no     *)
(* rotation is undone; without a death of gonner no two names share a      *)
(* file except while a rotation moves one, so that a backup is trusted     *)
(* when it is compressed and when backups are counted.                     *)

After == {"zip", "copy", "publish", "dropTemp", "dropRaw", "prune"}

Sized == file # 0 => written = Len(data[file])

Fits ==
    ~faulted =>
        /\ \A i \in 1..Len(data) : Len(data[i]) <= Limit
        /\ file # 0 /\ pc # "create" => dir[Log] = file
        /\ pc \notin {"undo", "restore", "zipFailed"}
        /\ pc = "write" => written < Limit
        /\ pc \in After => written = 0

Shared(f, g) ==
    \/ pc = "unlink" /\ {f, g} = {Log, Raw(writes)}
    \/ pc = "dropTemp" /\ {f, g} = {Temp(writes), Gz(writes)}
OwnFiles == \A f, g \in Names : dir[f] # 0 /\ dir[f] = dir[g] => f = g \/ Shared(f, g)

Stock == {f \in Names : f[2] \in {"raw", "gz"} /\ dir[f] # 0}
FewBackups == pc \in {"idle", "write"} => Cardinality(Stock) <= MaxBackups

Tidy == ~faulted /\ crashes = 0 => OwnFiles /\ FewBackups

BInv == crashes \in Nat /\ Sized /\ Fits /\ Tidy

LEMMA Files ==
  ASSUME IInv
  PROVE  /\ Len(data) \in Nat /\ DOMAIN data = 1..Len(data)
         /\ \A i \in 1..Len(data) : data[i] \in Seq(Nat) /\ Len(data[i]) \in Nat
         /\ file \in 0..Len(data)
         /\ Limit \in Nat /\ Limit > 0
  <1>1. data \in Seq(Seq(Nat)) /\ file \in 0..Len(data)
    BY DEF IInv, Types
  <1>2. Len(data) \in Nat /\ DOMAIN data = 1..Len(data)
    BY <1>1
  <1>3. \A i \in 1..Len(data) : data[i] \in Seq(Nat)
    BY <1>1
  <1> QED
    BY <1>1, <1>2, <1>3, LogSinkConstants

\* Unless names share a file, whatever is there can be opened.
LEMMA AllTrusted ==
  ASSUME Types, OwnFiles, pc \notin {"unlink", "dropTemp"}
  PROVE  /\ \A f \in Names : dir[f] # 0 => Trusted(f)
         /\ Backups = Stock
  <1>1. ASSUME NEW f \in Names, dir[f] # 0 PROVE Trusted(f)
    <2>1. Links(dir[f]) = {f}
      BY <1>1 DEF Links, OwnFiles, Shared
    <2>2. Cardinality({f}) = 1
      BY FS_Singleton
    <2> QED
      BY <1>1, <2>1, <2>2 DEF Trusted, Exists
  <1> QED
    BY <1>1 DEF Backups, Stock, Trusted, Exists

\* Steps that touch no file.
LEMMA DirStep ==
  ASSUME IInv, BInv, UNCHANGED <<data, file, written, crashes>>,
         ~faulted' =>
            /\ ~faulted
            /\ file # 0 /\ pc' # "create" => dir'[Log] = file
            /\ pc' \notin {"undo", "restore", "zipFailed"}
            /\ pc' = "write" => written < Limit
            /\ pc' \in After => written = 0,
         ~faulted' /\ crashes = 0 => OwnFiles' /\ FewBackups'
  PROVE  BInv'
  BY DEF BInv, Sized, Fits, Tidy

\* Whoever holds the lock while no call has failed.
LEMMA Clean ==
  ASSUME IInv, BInv, pc # "idle", ~faulted
  PROVE  /\ pc # "create" => dir[Log] = file
         /\ pc \notin {"undo", "restore", "zipFailed"}
         /\ pc = "write" => written < Limit
         /\ pc \in After => written = 0 /\ written < Limit
         /\ crashes = 0 => OwnFiles
         /\ file # 0
  <1>1. file # 0
    BY Holding
  <1> QED
    BY <1>1, Files DEF BInv, Fits, Tidy

\* What is left of the names after one has been removed, or has been given a
\* file that no other name has.
LEMMA RemoveOwn ==
  ASSUME OwnFiles, Types, NEW f \in Names, Remove(f), UNCHANGED writes,
         \A g, h \in Names \ {f} : ~Shared(g, h) \/ g = h
  PROVE  OwnFiles'
  <1>1. dir'[f] = 0 /\ \A g \in Names : g # f => dir'[g] = dir[g]
    BY DEF Remove, Bind, Types
  <1> QED
    BY <1>1 DEF OwnFiles

LEMMA AddOwn ==
  ASSUME IInv, OwnFiles, pc \notin {"unlink", "dropTemp"}, NEW f \in Names, Create(f, <<>>)
  PROVE  OwnFiles'
  <1>1. /\ dir'[f] = Len(data) + 1 /\ Len(data) \in Nat
        /\ \A g \in Names : g # f => dir'[g] = dir[g]
        /\ \A g \in Names : dir[g] \in 0..Len(data)
    BY CreateFacts, Files DEF IInv, Types
  <1>2. \A g \in Names : dir[g] # Len(data) + 1
    BY <1>1
  <1> QED
    BY <1>1, <1>2 DEF OwnFiles, Shared

LEMMA BLinkBackup ==
  ASSUME IInv, BInv, LinkBackup PROVE BInv'
  <1>1. pc = "link" /\ UNCHANGED <<data, file, written, crashes, writes>>
    BY DEF LinkBackup, At
  <1>2. ASSUME ~faulted' PROVE ~faulted /\ dir[Log] = file /\ file # 0 /\ (crashes = 0 => OwnFiles)
    <2>1. ~faulted
      BY <1>2 DEF LinkBackup, Works, Fails
    <2> QED
      BY <1>1, <2>1, Clean
  <1>3. ASSUME ~faulted' PROVE Bind(Raw(writes), dir[Log]) /\ pc' = "unlink"
    BY <1>2, <1>3 DEF LinkBackup, Fails, Exists, Goto
  <1>4. ASSUME ~faulted'
        PROVE /\ dir'[Raw(writes)] = dir[Log]
              /\ \A f \in Names : f # Raw(writes) => dir'[f] = dir[f]
    BY <1>1, <1>2, <1>3, <1>4, Holding, BindFacts
  <1>5. ASSUME ~faulted', crashes = 0 PROVE OwnFiles'
    <2>1. \A f, g \in Names : dir[f] # 0 /\ dir[f] = dir[g] => f = g
      BY <1>1, <1>2, <1>5 DEF OwnFiles, Shared
    <2>2. Log \in Names
      BY LogFacts
    <2> QED
      BY <1>1, <1>3, <1>4, <1>5, <2>1, <2>2 DEF OwnFiles, Shared
  <1> QED
    BY <1>1, <1>2, <1>3, <1>4, <1>5, DirStep, Holding DEF After, FewBackups

LEMMA BUnlinkLog ==
  ASSUME IInv, BInv, UnlinkLog PROVE BInv'
  <1>1. pc = "unlink" /\ UNCHANGED <<data, file, written, crashes, writes>>
    BY DEF UnlinkLog, At
  <1>2. ASSUME ~faulted' PROVE ~faulted /\ Remove(Log) /\ pc' = "create"
    BY <1>2 DEF UnlinkLog, Works, Fails, Goto
  <1>3. ASSUME ~faulted', crashes = 0 PROVE OwnFiles'
    <2>1. OwnFiles
      BY <1>1, <1>2, <1>3, Clean
    <2>2. \A g, h \in Names \ {Log} : ~Shared(g, h) \/ g = h
      BY <1>1 DEF Shared
    <2> QED
      BY <1>1, <1>2, <1>3, <2>1, <2>2, RemoveOwn, LogFacts DEF IInv
  <1> QED
    BY <1>1, <1>2, <1>3, DirStep DEF After, FewBackups

LEMMA BUndone ==
  ASSUME IInv, BInv, UndoBackup \/ Restore \/ ZipFailed PROVE BInv'
  <1>1. /\ pc \in {"undo", "restore", "zipFailed"}
        /\ UNCHANGED <<data, file, written, crashes>>
    BY DEF UndoBackup, Restore, ZipFailed, At
  <1>2. faulted'
    BY <1>1 DEF UndoBackup, Restore, ZipFailed, Works, Fails, BInv, Fits
  <1> QED
    BY <1>1, <1>2, DirStep

LEMMA BPublish ==
  ASSUME IInv, BInv, Publish PROVE BInv'
  <1>1. pc = "publish" /\ UNCHANGED <<data, file, written, crashes, writes>>
    BY DEF Publish, At
  <1>2. ASSUME ~faulted'
        PROVE /\ ~faulted /\ Bind(Gz(writes), dir[Temp(writes)]) /\ pc' = "dropTemp"
    BY <1>2 DEF Publish, Works, Fails, Goto
  <1>3. ASSUME ~faulted'
        PROVE dir[Log] = file /\ written = 0 /\ file # 0 /\ (crashes = 0 => OwnFiles)
    BY <1>1, <1>2, <1>3, Clean DEF After
  <1>4. ASSUME ~faulted'
        PROVE /\ dir'[Gz(writes)] = dir[Temp(writes)]
              /\ \A f \in Names : f # Gz(writes) => dir'[f] = dir[f]
    BY <1>1, <1>2, <1>4, Holding, BindFacts
  <1>5. ASSUME ~faulted', crashes = 0 PROVE OwnFiles'
    <2>1. \A f, g \in Names : dir[f] # 0 /\ dir[f] = dir[g] => f = g
      BY <1>1, <1>3, <1>5 DEF OwnFiles, Shared
    <2>2. Temp(writes) \in Names
      BY <1>1, Holding
    <2> QED
      BY <1>1, <1>2, <1>4, <1>5, <2>1, <2>2 DEF OwnFiles, Shared
  <1> QED
    BY <1>1, <1>2, <1>3, <1>4, <1>5, DirStep, Holding DEF After, FewBackups

LEMMA BDropTemp ==
  ASSUME IInv, BInv, DropTemp PROVE BInv'
  <1>1. pc = "dropTemp" /\ UNCHANGED <<data, file, written, crashes, writes>>
    BY DEF DropTemp, At
  <1>2. ASSUME ~faulted' PROVE ~faulted /\ Remove(Temp(writes)) /\ pc' = "dropRaw"
    BY <1>2 DEF DropTemp, Works, Fails, Goto
  <1>3. ASSUME ~faulted'
        PROVE dir[Log] = file /\ written = 0 /\ (crashes = 0 => OwnFiles)
    BY <1>1, <1>2, <1>3, Clean DEF After
  <1>4. ASSUME ~faulted' PROVE dir'[Log] = dir[Log]
    BY <1>1, <1>2, <1>4, Holding, BindFacts, LogFacts DEF Remove
  <1>5. ASSUME ~faulted', crashes = 0 PROVE OwnFiles'
    <2>1. \A g, h \in Names \ {Temp(writes)} : ~Shared(g, h) \/ g = h
      BY <1>1 DEF Shared
    <2> QED
      BY <1>1, <1>2, <1>3, <1>5, <2>1, RemoveOwn, Holding
  <1> QED
    BY <1>1, <1>2, <1>3, <1>4, <1>5, DirStep DEF After, FewBackups

LEMMA BDropRaw ==
  ASSUME IInv, BInv, DropRaw PROVE BInv'
  <1>1. pc = "dropRaw" /\ UNCHANGED <<data, file, written, crashes, writes>>
    BY DEF DropRaw, At
  <1>2. ASSUME ~faulted' PROVE ~faulted /\ Remove(Raw(writes)) /\ pc' = "prune"
    BY <1>2 DEF DropRaw, Works, Fails, Goto
  <1>3. ASSUME ~faulted'
        PROVE dir[Log] = file /\ written = 0 /\ (crashes = 0 => OwnFiles)
    BY <1>1, <1>2, <1>3, Clean DEF After
  <1>4. ASSUME ~faulted' PROVE dir'[Log] = dir[Log]
    BY <1>1, <1>2, <1>4, Holding, BindFacts, LogFacts DEF Remove
  <1>5. ASSUME ~faulted', crashes = 0 PROVE OwnFiles'
    <2>1. \A g, h \in Names \ {Raw(writes)} : ~Shared(g, h) \/ g = h
      BY <1>1 DEF Shared
    <2> QED
      BY <1>1, <1>2, <1>3, <1>5, <2>1, RemoveOwn, Holding
  <1> QED
    BY <1>1, <1>2, <1>3, <1>4, <1>5, DirStep DEF After, FewBackups

LEMMA BPruneOldest ==
  ASSUME IInv, BInv, PruneOldest PROVE BInv'
  <1>1. pc = "prune" /\ UNCHANGED <<data, file, written, crashes, writes>>
    BY DEF PruneOldest, At
  <1>2. ASSUME ~faulted'
        PROVE ~faulted /\ pc' = "prune" /\ \E f \in Backups : Remove(f)
    BY <1>1, <1>2 DEF PruneOldest, Works, Fails, Goto
  <1>3. ASSUME ~faulted'
        PROVE dir[Log] = file /\ written = 0 /\ (crashes = 0 => OwnFiles)
    BY <1>1, <1>2, <1>3, Clean DEF After
  <1>4. ASSUME NEW f \in Backups, Remove(f)
        PROVE /\ f \in Names /\ dir'[Log] = dir[Log]
              /\ OwnFiles => OwnFiles'
    <2>1. f \in Names /\ f # Log
      BY DEF Backups, Log
    <2>2. \A g, h \in Names \ {f} : ~Shared(g, h) \/ g = h
      BY <1>1 DEF Shared
    <2>3. dir'[Log] = dir[Log]
      BY <1>4, <2>1, BindFacts, LogFacts, Files DEF Remove, IInv
    <2> QED
      BY <1>1, <1>4, <2>1, <2>2, <2>3, RemoveOwn DEF IInv
  <1> QED
    BY <1>1, <1>2, <1>3, <1>4, DirStep DEF After, FewBackups

LEMMA BPruneEnds ==
  ASSUME IInv, BInv, PruneEnds PROVE BInv'
  <1>1. pc = "prune" /\ UNCHANGED <<dir, data, file, written, crashes, writes>>
    BY DEF PruneEnds, At
  <1>2. ASSUME ~faulted'
        PROVE ~faulted /\ pc' = "write" /\ Cardinality(Backups) <= MaxBackups
    BY <1>1, <1>2 DEF PruneEnds, Works, Fails, Goto
  <1>3. ASSUME ~faulted'
        PROVE dir[Log] = file /\ written = 0 /\ written < Limit /\ (crashes = 0 => OwnFiles)
    BY <1>1, <1>2, <1>3, Clean DEF After
  <1>4. ASSUME ~faulted', crashes = 0 PROVE OwnFiles' /\ FewBackups'
    <2>1. Backups = Stock
      BY <1>1, <1>3, <1>4, AllTrusted DEF IInv
    <2>2. Stock' = Stock
      BY <1>1 DEF Stock
    <2> QED
      BY <1>1, <1>2, <1>3, <1>4, <2>1, <2>2 DEF OwnFiles, Shared, FewBackups
  <1> QED
    BY <1>1, <1>2, <1>3, <1>4, DirStep DEF After

LEMMA BCreateLog ==
  ASSUME IInv, BInv, CreateLog PROVE BInv'
  <1>1. pc = "create" /\ Create(Log, <<>>) /\ UNCHANGED <<faulted, crashes, writes>>
    BY DEF CreateLog, At, Works
  <1>2. /\ Len(data') = Len(data) + 1 /\ data'[Len(data')] = <<>>
        /\ \A i \in 1..Len(data) : data'[i] = data[i]
        /\ dir'[Log] = Len(data') /\ file' = Len(data') /\ written' = 0
        /\ pc' \in {"zip", "prune"}
    <2>1. Types /\ Log \in Names /\ data \in Seq(Seq(Nat))
      BY LogFacts DEF IInv, Types
    <2>2. data' = Append(data, <<>>)
      BY <1>1 DEF Create
    <2>3. Len(data') = Len(data) + 1 /\ data'[Len(data')] = <<>>
      BY <2>1, <2>2
    <2> QED
      BY <1>1, <2>1, <2>3, CreateFacts DEF CreateLog, Goto
  <1>3. Sized'
    BY <1>2 DEF Sized
  <1>4. Fits'
    <2>1. ASSUME ~faulted, NEW i \in 1..Len(data') PROVE Len(data'[i]) <= Limit
      <3>1. i \in 1..Len(data) \/ i = Len(data')
        BY <1>2, Files
      <3> QED
        BY <1>2, <2>1, <3>1, Files DEF BInv, Fits
    <2> QED
      BY <1>1, <1>2, <2>1 DEF Fits
  <1>5. Tidy'
    BY <1>1, <1>2, AddOwn, LogFacts DEF BInv, Tidy, FewBackups
  <1> QED
    BY <1>1, <1>3, <1>4, <1>5 DEF BInv

LEMMA BCreateFails ==
  ASSUME IInv, BInv, CreateFails PROVE BInv'
  <1>1. /\ pc = "create" /\ faulted' /\ UNCHANGED <<file, written, crashes>>
        /\ Create(Log, <<>>) \/ UNCHANGED <<dir, data>>
    BY DEF CreateFails, At, Fails
  <1>2. Sized'
    <2>1. file # 0 => data'[file] = data[file]
      BY <1>1, Files, CreateFacts, LogFacts DEF IInv
    <2> QED
      BY <1>1, <2>1 DEF BInv, Sized
  <1> QED
    BY <1>1, <1>2 DEF BInv, Fits, Tidy

LEMMA BZip ==
  ASSUME IInv, BInv, Zip PROVE BInv'
  <1>1. /\ pc = "zip" /\ UNCHANGED <<file, written, crashes, writes>>
        /\ Temp(writes) \in Names /\ Raw(writes) \in Names /\ dir[Raw(writes)] # 0
        /\ Temp(writes) # Log
    BY Holding DEF Zip, At, IInv, Rotated
  <1>2. ASSUME ~faulted'
        PROVE /\ ~faulted
              /\ \/ Create(Temp(writes), <<>>) /\ pc' = "copy"
                 \/ ~Trusted(Raw(writes)) /\ UNCHANGED <<dir, data>> /\ pc' = "write"
    BY <1>2 DEF Zip, Works, Fails, Goto
  <1>3. ASSUME ~faulted'
        PROVE dir[Log] = file /\ written = 0 /\ written < Limit /\ (crashes = 0 => OwnFiles)
    BY <1>1, <1>2, <1>3, Clean DEF After
  <1>4. ASSUME Create(Temp(writes), <<>>)
        PROVE /\ Len(data') = Len(data) + 1 /\ Len(data'[Len(data')]) = 0
              /\ \A i \in 1..Len(data) : data'[i] = data[i]
              /\ dir'[Log] = dir[Log]
    <2>1. Types /\ Log \in Names /\ data \in Seq(Seq(Nat))
      BY LogFacts DEF IInv, Types
    <2>2. data' = Append(data, <<>>)
      BY <1>4 DEF Create
    <2>3. Len(data') = Len(data) + 1 /\ data'[Len(data')] = <<>>
      BY <2>1, <2>2
    <2> QED
      BY <1>1, <1>4, <2>1, <2>3, CreateFacts
  <1>5. Sized'
    <2>1. Create(Temp(writes), <<>>) \/ UNCHANGED <<dir, data>>
      BY DEF Zip
    <2>2. file # 0 => data'[file] = data[file]
      BY <1>4, <2>1, Files
    <2> QED
      BY <1>1, <2>2 DEF BInv, Sized
  <1>6. Fits'
    <2>1. ASSUME ~faulted', NEW i \in 1..Len(data') PROVE Len(data'[i]) <= Limit
      <3>1. CASE UNCHANGED data
        BY <1>2, <2>1, <3>1 DEF BInv, Fits
      <3>2. CASE Create(Temp(writes), <<>>)
        <4>1. i \in 1..Len(data) \/ i = Len(data')
          BY <1>4, <2>1, <3>2, Files
        <4> QED
          BY <1>2, <1>4, <2>1, <3>2, <4>1, Files DEF BInv, Fits
      <3> QED
        BY <1>2, <2>1, <3>1, <3>2
    <2>2. ASSUME ~faulted' PROVE dir'[Log] = file /\ pc' \in {"copy", "write"}
      BY <1>2, <1>3, <1>4, <2>2
    <2> QED
      BY <1>1, <1>3, <2>1, <2>2 DEF Fits
  <1>7. Tidy'
    <2> SUFFICES ASSUME ~faulted', crashes' = 0 PROVE OwnFiles' /\ FewBackups'
      BY DEF Tidy
    <2>1. OwnFiles
      BY <1>1, <1>3
    <2>2. Trusted(Raw(writes))
      BY <1>1, <2>1, AllTrusted DEF IInv
    <2>3. Create(Temp(writes), <<>>) /\ pc' = "copy"
      BY <1>2, <2>2
    <2> QED
      BY <1>1, <2>1, <2>3, AddOwn DEF FewBackups
  <1> QED
    BY <1>1, <1>5, <1>6, <1>7 DEF BInv

LEMMA BCopy ==
  ASSUME IInv, BInv, Copy PROVE BInv'
  <1>1. /\ pc = "copy" /\ UNCHANGED <<dir, file, written, crashes, writes>>
        /\ Temp(writes) \in Names /\ Raw(writes) \in Names /\ dir[Raw(writes)] # 0
        /\ Temp(writes) # Log /\ Log \in Names
        /\ dir[Log] = file /\ file # 0
        /\ dir[Temp(writes)] # 0 /\ dir[Temp(writes)] # file
    BY Holding DEF Copy, At, IInv, Rotated, Copied
  <1> DEFINE t == dir[Temp(writes)]
             r == dir[Raw(writes)]
  <1>2. t \in 1..Len(data) /\ r \in 1..Len(data)
    BY <1>1, Files DEF IInv, Types
  <1>3. /\ Len(data') = Len(data)
        /\ \A i \in 1..Len(data) : i # t => data'[i] = data[i]
        /\ data'[t] \in {data[t], data[r]}
    <2>1. CASE data' = [data EXCEPT ![t] = data[r]]
      <3>1. data[r] \in Seq(Nat)
        BY <1>2, Files
      <3> HIDE DEF t, r
      <3>2. Types
        BY DEF IInv
      <3> QED
        BY <1>2, <2>1, <3>1, <3>2, OverwriteFacts
    <2>2. CASE UNCHANGED data
      BY <2>2
    <2> QED
      BY <2>1, <2>2 DEF Copy
  <1>4. Sized'
    BY <1>1, <1>3, Files DEF BInv, Sized
  <1>5. ASSUME ~faulted'
        PROVE ~faulted /\ pc' = "publish" /\ written = 0 /\ (crashes = 0 => OwnFiles)
    <2>1. ~faulted /\ pc' = "publish"
      BY <1>5 DEF Copy, Works, Fails, Goto
    <2> QED
      BY <1>1, <2>1, Clean DEF After
  <1>6. Fits'
    <2>1. ASSUME ~faulted', NEW i \in 1..Len(data') PROVE Len(data'[i]) <= Limit
      <3>1. \A j \in 1..Len(data) : Len(data[j]) <= Limit
        BY <1>5, <2>1 DEF BInv, Fits
      <3> QED
        BY <1>2, <1>3, <2>1, <3>1
    <2> QED
      BY <1>1, <1>5, <2>1 DEF Fits
  <1>7. Tidy'
    BY <1>1, <1>5 DEF Tidy, OwnFiles, Shared, FewBackups
  <1> QED
    BY <1>1, <1>4, <1>6, <1>7 DEF BInv

LEMMA BOpenAgain ==
  ASSUME IInv, BInv, NEW w \in Writers, NewWriter(w), OpenAgain(w) PROVE BInv'
  <1>1. UNCHANGED <<dir, data, file, written, pc, faulted, crashes, writes>>
    BY DEF NewWriter, OpenAgain
  <1>2. OwnFiles' = OwnFiles /\ FewBackups' = FewBackups
    BY <1>1 DEF OwnFiles, Shared, FewBackups, Stock
  <1> QED
    BY <1>1, <1>2 DEF BInv, Sized, Fits, Tidy

LEMMA BOpenFirst ==
  ASSUME IInv, BInv, NEW w \in Writers, NewWriter(w), OpenFirst(w) PROVE BInv'
  <1>1. /\ pc = "idle" /\ file' = dir'[Log] /\ written' = Len(data'[dir'[Log]])
        /\ UNCHANGED <<pc, faulted, crashes, writes>>
    BY FirstIsIdle DEF NewWriter, OpenFirst, SizeOf, Works
  <1>2. Sized'
    BY <1>1 DEF Sized
  <1>3. CASE UNCHANGED <<dir, data>>
    <2>1. OwnFiles' = OwnFiles /\ FewBackups' = FewBackups
      BY <1>1, <1>3 DEF OwnFiles, Shared, FewBackups, Stock
    <2> QED
      BY <1>1, <1>2, <1>3, <2>1 DEF BInv, Fits, Tidy, After
  <1>4. CASE Create(Log, <<>>)
    <2>1. /\ Len(data') = Len(data) + 1 /\ Len(data'[Len(data')]) = 0
          /\ \A i \in 1..Len(data) : data'[i] = data[i]
          /\ \A f \in Names : f # Log => dir'[f] = dir[f]
      <3>1. Types /\ Log \in Names /\ data \in Seq(Seq(Nat))
        BY LogFacts DEF IInv, Types
      <3>2. data' = Append(data, <<>>)
        BY <1>4 DEF Create
      <3>3. Len(data') = Len(data) + 1 /\ data'[Len(data')] = <<>>
        BY <3>1, <3>2
      <3> QED
        BY <1>4, <3>1, <3>3, CreateFacts
    <2>2. Fits'
      <3>1. ASSUME ~faulted', NEW i \in 1..Len(data') PROVE Len(data'[i]) <= Limit
        <4>1. i \in 1..Len(data) \/ i = Len(data')
          BY <2>1, <3>1, Files
        <4> QED
          BY <1>1, <2>1, <3>1, <4>1, Files DEF BInv, Fits
      <3> QED
        BY <1>1, <3>1 DEF Fits, After
    <2>3. Stock' = Stock
      BY <2>1 DEF Stock, Log
    <2>4. Tidy'
      BY <1>1, <1>4, <2>3, AddOwn, LogFacts DEF BInv, Tidy, FewBackups
    <2> QED
      BY <1>1, <1>2, <2>2, <2>4 DEF BInv
  <1> QED
    BY <1>3, <1>4 DEF OpenFirst

LEMMA BOpenFails ==
  ASSUME IInv, BInv, NEW w \in Writers, NewWriter(w), OpenFails PROVE BInv'
  <1>1. /\ UNCHANGED <<file, written, pc, crashes, writes>> /\ open = {} /\ pc = "idle"
        /\ UNCHANGED <<dir, data, faulted>> \/ faulted'
        /\ UNCHANGED <<dir, data>> \/ Create(Log, <<>>)
    BY FirstIsIdle DEF NewWriter, OpenFails, sink, Works, Fails
  <1>2. Sized'
    <2>1. file # 0 => data'[file] = data[file]
      BY <1>1, Files, CreateFacts, LogFacts DEF IInv
    <2> QED
      BY <1>1, <2>1 DEF BInv, Sized
  <1>3. CASE UNCHANGED <<dir, data, faulted>>
    <2>1. OwnFiles' = OwnFiles /\ FewBackups' = FewBackups
      BY <1>1, <1>3 DEF OwnFiles, Shared, FewBackups, Stock
    <2> QED
      BY <1>1, <1>2, <1>3, <2>1 DEF BInv, Fits, Tidy
  <1>4. CASE faulted'
    BY <1>1, <1>2, <1>4 DEF BInv, Fits, Tidy
  <1> QED
    BY <1>1, <1>3, <1>4

LEMMA BClose ==
  ASSUME IInv, BInv, NEW w \in Writers, Close(w) PROVE BInv'
  <1>1. /\ UNCHANGED <<dir, data, pc, faulted, crashes, writes>>
        /\ w \in open \ who
        /\ \/ file' = 0 /\ written' = 0
           \/ UNCHANGED <<file, written>>
    BY DEF Close, history
  <1>2. OwnFiles' = OwnFiles /\ FewBackups' = FewBackups
    BY <1>1 DEF OwnFiles, Shared, FewBackups, Stock
  <1>3. pc = "write" => written' < Limit \/ faulted
    BY <1>1, Files DEF BInv, Fits
  <1> QED
    BY <1>1, <1>2, <1>3 DEF BInv, Sized, Fits, Tidy

LEMMA BBeginWrite ==
  ASSUME IInv, BInv, NEW w \in Writers, BeginWrite(w) PROVE BInv'
  <1>1. /\ pc = "idle" /\ w \in open
        /\ pc' = IF written > 0 /\ written + 1 > Limit THEN "link" ELSE "write"
        /\ UNCHANGED <<dir, data, file, written, faulted, crashes>>
    BY DEF BeginWrite, Goto, history
  <1>2. file # 0 /\ written \in Nat
    <2>1. file # 0
      BY <1>1 DEF IInv, Named
    <2> QED
      BY <2>1, Files DEF BInv, Sized
  <1>3. pc' = "write" => written < Limit
    BY <1>1, <1>2, Files
  <1>4. OwnFiles => OwnFiles'
    BY <1>1 DEF OwnFiles, Shared
  <1>5. FewBackups => FewBackups'
    BY <1>1 DEF FewBackups, Stock
  <1> QED
    BY <1>1, <1>3, <1>4, <1>5, DirStep DEF BInv, Fits, Tidy, After

LEMMA BWriteChunk ==
  ASSUME IInv, BInv, WriteChunk PROVE BInv'
  <1>1. /\ pc = "write" /\ pc' = "idle" /\ UNCHANGED <<dir, file, crashes, writes>>
        /\ file \in 1..Len(data) /\ writes \in Nat
    BY Holding, Files DEF WriteChunk, Goto
  <1>2. OwnFiles' = OwnFiles /\ FewBackups' = FewBackups
    BY <1>1 DEF OwnFiles, Shared, FewBackups, Stock
  <1>3. CASE faulted' /\ UNCHANGED <<data, written>>
    BY <1>1, <1>3 DEF BInv, Sized, Fits, Tidy
  <1>4. CASE /\ data' = [data EXCEPT ![file] = Append(data[file], writes)]
             /\ written' = written + 1 /\ UNCHANGED faulted
    <2>1. data[file] \in Seq(Nat) /\ Types
      BY <1>1, Files DEF IInv
    <2>2. Append(data[file], writes) \in Seq(Nat) /\ Len(Append(data[file], writes)) = Len(data[file]) + 1
      BY <1>1, <2>1
    <2>3. /\ Len(data') = Len(data) /\ Len(data'[file]) = Len(data[file]) + 1
          /\ \A i \in 1..Len(data) : i # file => data'[i] = data[i]
      BY <1>1, <1>4, <2>1, <2>2, OverwriteFacts
    <2>4. written = Len(data[file]) /\ Len(data[file]) \in Nat
      BY <1>1, Files DEF BInv, Sized
    <2>5. Sized'
      BY <1>1, <1>4, <2>3, <2>4 DEF Sized
    <2>6. Fits'
      <3>1. ASSUME ~faulted, NEW i \in 1..Len(data') PROVE Len(data'[i]) <= Limit
        BY <1>1, <2>3, <2>4, <3>1, Files DEF BInv, Fits
      <3> QED
        BY <1>1, <1>4, <3>1 DEF BInv, Fits, After
    <2> QED
      BY <1>1, <1>2, <1>4, <2>5, <2>6 DEF BInv, Tidy
  <1> QED
    BY <1>3, <1>4 DEF WriteChunk, Works, Fails

LEMMA BCrash ==
  ASSUME IInv, BInv, Crash PROVE BInv'
  <1>1. /\ file' = 0 /\ pc' = "idle" /\ crashes' = crashes + 1
        /\ UNCHANGED <<dir, data, faulted>>
    BY DEF Crash
  <1>2. crashes' \in Nat /\ crashes' # 0
    BY <1>1 DEF BInv
  <1> QED
    BY <1>1, <1>2 DEF BInv, Sized, Fits, Tidy, After

LEMMA InitBInv == Init => BInv
  <1> SUFFICES ASSUME Init PROVE BInv
    OBVIOUS
  <1>1. Stock = {} /\ Cardinality({}) = 0
    BY FS_EmptySet DEF Init, Stock
  <1>2. Tidy
    BY <1>1, LogSinkConstants DEF Init, Tidy, OwnFiles, FewBackups
  <1> QED
    BY <1>2 DEF Init, BInv, Sized, Fits, After

\* Without a failed call, however many processes write and however often gonner
\* dies, no file grows beyond the limit; and if gonner has not died, there are
\* no more backups than configured between writes (writer.go:107-155, 289-319).
THEOREM BoundsKept == Spec => []RotationBounds
  <1>1. ASSUME IInv, BInv, [Next]_vars PROVE BInv'
    <2>1. CASE \E w \in Writers : NewWriter(w) \/ BeginWrite(w) \/ Close(w)
      BY <1>1, <2>1, BOpenAgain, BOpenFirst, BOpenFails, BBeginWrite, BClose DEF NewWriter
    <2>2. CASE Rotate
      BY <1>1, <2>2, BLinkBackup, BUnlinkLog, BUndone, BCreateLog, BCreateFails, BZip, BCopy,
         BPublish, BDropTemp, BDropRaw, BPruneOldest, BPruneEnds DEF Rotate
    <2>3. CASE UNCHANGED vars
      <3>1. UNCHANGED <<dir, data, file, written, pc, faulted, crashes, writes>>
        BY <2>3 DEF vars, sink, history
      <3>2. OwnFiles' = OwnFiles /\ FewBackups' = FewBackups
        BY <3>1 DEF OwnFiles, Shared, FewBackups, Stock
      <3> QED
        BY <1>1, <3>1, <3>2 DEF BInv, Sized, Fits, Tidy
    <2> QED
      BY <1>1, <2>1, <2>2, <2>3, BWriteChunk, BCrash DEF Next
  <1>2. IInv /\ BInv => RotationBounds
    <2> SUFFICES ASSUME IInv, BInv, ~faulted PROVE RotationBounds
      BY DEF RotationBounds
    <2>1. \A i \in DOMAIN data : Len(data[i]) <= Limit
      BY Files DEF BInv, Fits
    <2>2. ASSUME crashes = 0, pc = "idle" PROVE Cardinality(Backups) <= MaxBackups
      <3>1. OwnFiles /\ Cardinality(Stock) <= MaxBackups
        BY <2>2 DEF BInv, Tidy, FewBackups
      <3> QED
        BY <2>2, <3>1, AllTrusted DEF IInv
    <2> QED
      BY <2>1, <2>2 DEF RotationBounds
  <1> QED
    BY <1>1, <1>2, InitBInv, Inductive, PTL DEF Spec
=============================================================================
