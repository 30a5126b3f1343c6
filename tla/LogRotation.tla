----------------------------- MODULE LogRotation -----------------------------
(***************************************************************************)
(* RotatingLogWriter (keyro-core/logging.rs): the log directory, the file  *)
(* the process has open, and the threads that write, rotate and clean up.  *)
(*                                                                         *)
(* Every call runs under one mutex, but it is a series of file system      *)
(* operations: any of them may fail, the process may end between any two,  *)
(* and time passes between them.  A call is the sequence `todo` of the     *)
(* operations it has left; checking a size or an age may put a rotation in *)
(* front of the rest, listing the directory puts the removals there.       *)
(*                                                                         *)
(* A file is the sequence of its bytes, each byte its place among all that *)
(* were ever written.  The open file is known by the name it has now: it   *)
(* keeps its identity when it is renamed and its bytes when it is removed. *)
(* A regular file takes a write as a whole or not at all, and nobody else  *)
(* changes the directory while the process runs.                           *)
(***************************************************************************)
EXTENDS Integers, SequencesExt, FiniteSetsExt

CONSTANTS
  Writer,                                         \* threads that log
  MaxFileBytes, MaxTotalBytes, MaxFiles, MaxAge,  \* LogRetention
  LineLength,                                     \* lengths of the lines they log
  LastIndex,                                      \* largest archive index in the directory
  OldSize,                                        \* sizes of files an earlier Core left
  NoFile, Startup, Maintenance, NoCaller,
  MaxLines, MaxClock, MaxFailures, OldBytes       \* bounds, the last on all those files

\* validate_retention, of unsigned numbers.
ValidRetention ==
  0 \notin {MaxFileBytes, MaxTotalBytes, MaxFiles} /\ MaxTotalBytes >= MaxFileBytes

\* LastIndex covers at least the archives rotation uses.
ASSUME RetentionAssumption ==
  /\ {MaxFileBytes, MaxTotalBytes, MaxFiles, MaxAge} \subseteq Nat /\ ValidRetention
  /\ LastIndex \in Int /\ LastIndex >= MaxFiles - 2
  /\ LineLength \subseteq Nat \ {0} /\ OldSize \subseteq Nat
ASSUME CallerAssumption ==
  /\ {Startup, Maintenance, NoCaller} \cap Writer = {}
  /\ Startup # Maintenance /\ NoCaller \notin {Startup, Maintenance}
ASSUME BoundAssumption == {MaxLines, MaxFailures, OldBytes} \subseteq Nat /\ MaxClock \in Nat \ {0}

VARIABLES
  dir,       \* the log directory
  file,      \* LogState::file: its name, Unlinked, or NoHandle
  orphan,    \* the open file when it has no name any more
  clock,     \* SystemTime::now()
  caller,    \* who holds the mutex
  todo,      \* what its call still has to do
  result,    \* how the last call returned
  line,      \* the line each writer is in, how many of its bytes are left, and since when
  lines,     \* lines begun
  failures,  \* operations that failed
  history    \* (auxiliary) the line of every byte written, in order; no line for those of
             \* an earlier Core, Oversized for those in a file larger than allowed

vars == <<dir, file, orphan, clock, caller, todo, result, line, lines, failures, history>>

\* keyro-core.log is Current, keyro-core.i.log is i.
Current == -1
Unlinked == -2
NoHandle == -3
Oversized == -1
Name == Current .. LastIndex
Archive == 0 .. MaxFiles - 2
Used == Archive \cup {Current}          \* the files rotation uses
File == [bytes : Seq(Nat \ {0}), modified : -LastIndex .. MaxClock]
Operation == {"remove", "move", "open", "sweep", "check", "append", "recheck"}

ASSUME NoFileAssumption == NoFile \notin File

Exists(n) == dir[n] # NoFile
Size(n) == Len(dir[n].bytes)
OpenFile == IF file = Unlinked THEN orphan ELSE dir[file]
OpenSize == Len(OpenFile.bytes)
Running == file # NoHandle

TypeOK ==
  /\ dir \in [Name -> File \cup {NoFile}]
  /\ file \in Name \cup {Unlinked, NoHandle}
  /\ file \in Name => Exists(file)
  /\ orphan \in File \cup {NoFile} /\ (orphan # NoFile <=> file = Unlinked)
  /\ Running => OpenSize <= MaxFileBytes
  /\ clock \in 1 .. MaxClock /\ lines \in 0 .. MaxLines /\ failures \in 0 .. MaxFailures
  /\ caller \in Writer \cup {Startup, Maintenance, NoCaller}
  /\ todo \in Seq([op : Operation, name : Name]) /\ (caller = NoCaller <=> todo = <<>>)
  /\ result \in {"none", "ok", "error", "started"}
  /\ line \in [Writer -> [id : 0 .. MaxLines, left : Nat, since : 0 .. MaxClock]]
  /\ history \in Seq(Oversized .. MaxLines)

\* What an earlier Core left, perhaps under larger settings: any of the files, the older
\* the higher its index.  File n holds the bytes after cut[n + 1] up to cut[n].
Init ==
  /\ \E cut \in [Current .. LastIndex + 1 -> 0 .. OldBytes] :
       LET size(n) == cut[n] - cut[n + 1] IN
       /\ cut[LastIndex + 1] = 0
       /\ \A n \in Name : size(n) \in OldSize \cup {0}
       /\ \E left \in SUBSET Name :
            /\ \A n \in Name : IF n \in left THEN size(n) \in OldSize ELSE size(n) = 0
            /\ dir = [n \in Name |->
                 IF n \in left THEN [bytes |-> [k \in 1 .. size(n) |-> cut[n + 1] + k], modified |-> -n]
                 ELSE NoFile]
       /\ history = [k \in 1 .. cut[Current] |->
            IF \E n \in Name : cut[n + 1] < k /\ k <= cut[n] /\ size(n) > MaxFileBytes
            THEN Oversized ELSE 0]
  /\ file = NoHandle /\ orphan = NoFile
  /\ clock = 1
  /\ caller = NoCaller /\ todo = <<>> /\ result = "none"
  /\ line = [w \in Writer |-> [id |-> 0, left |-> 0, since |-> 0]] /\ lines = 0
  /\ failures = 0
-----------------------------------------------------------------------------
(***************************************************************************)
(* The operations of a call.                                               *)
(***************************************************************************)
Do(op) == [op |-> op, name |-> Current]
On(op, n) == [op |-> op, name |-> n]

Expired(f) == f.modified + MaxAge < clock

\* Mutation: the archives are moved up from the newest to the oldest.
RotationAscending ==
  (IF MaxFiles = 1 THEN <<On("remove", Current)>>
   ELSE <<On("remove", MaxFiles - 2)>>
        \o [k \in 1 .. MaxFiles - 1 |-> On("move", k - 1)]
        \o <<Do("sweep")>>)
  \o <<Do("open")>>

\* Mutation: the writer keeps the file it had open.
RotationKeepsFile ==
  IF MaxFiles = 1 THEN <<On("remove", Current)>>
  ELSE <<On("remove", MaxFiles - 2)>>
       \o [k \in 1 .. MaxFiles - 1 |-> On("move", MaxFiles - 1 - k)]
       \o <<Do("sweep")>>

\* LogState::rotate: rotate_logs removes the oldest archive and moves every file
\* one index up, the current log last; then the current log is opened again.
Rotation ==
  (IF MaxFiles = 1 THEN <<On("remove", Current)>>
   ELSE <<On("remove", MaxFiles - 2)>>
        \o [k \in 1 .. MaxFiles - 1 |-> On("move", MaxFiles - 1 - k)]
        \o <<Do("sweep")>>)
  \o <<Do("open")>>

\* The call goes on with these operations, or returns.
Proceed(rest) ==
  /\ todo' = rest
  /\ caller' = IF rest = <<>> THEN NoCaller ELSE caller
  /\ result' = IF rest # <<>> THEN result ELSE IF caller = Startup THEN "started" ELSE "ok"

Doing(op) == todo # <<>> /\ Head(todo).op = op
Target == Head(todo).name

\* fs::remove_file, if the file is there.
RemoveFile ==
  /\ Doing("remove")
  /\ dir' = [dir EXCEPT ![Target] = NoFile]
  /\ IF file = Target THEN file' = Unlinked /\ orphan' = dir[Target]
     ELSE UNCHANGED <<file, orphan>>
  /\ Proceed(Tail(todo))
  /\ UNCHANGED <<clock, line, lines, failures, history>>

\* fs::rename of the file one index below, if it is there, over what is there.
Move ==
  LET source == Target - 1 IN
  /\ Doing("move")
  /\ IF Exists(source)
     THEN /\ dir' = [dir EXCEPT ![source] = NoFile, ![Target] = dir[source]]
          /\ file' = IF file = source THEN Target ELSE IF file = Target THEN Unlinked ELSE file
          /\ orphan' = IF file = Target THEN dir[Target] ELSE orphan
     ELSE UNCHANGED <<dir, file, orphan>>
  /\ Proceed(Tail(todo))
  /\ UNCHANGED <<clock, line, lines, failures, history>>

\* open_current_log creates the file or appends to the one that is there.
Open ==
  /\ Doing("open")
  /\ dir' = [dir EXCEPT ![Current] = IF @ = NoFile THEN [bytes |-> <<>>, modified |-> clock] ELSE @]
  /\ file' = Current /\ orphan' = NoFile
  /\ Proceed(Tail(todo))
  /\ UNCHANGED <<clock, line, lines, failures, history>>

Outdated(n) == Expired(dir[n]) \/ Size(n) > MaxFileBytes

\* The files that are kept besides the current log, newest first, in an order
\* sort_by_key may give them; files of equal age keep read_dir's order.
NewestFirst(kept) ==
  {s \in SetToSeqs(kept) : \A j, k \in 1 .. Len(s) : j < k => dir[s[j]].modified >= dir[s[k]].modified}

\* The files kept so far, how many and their bytes, and those beyond max_files or
\* max_total_bytes.
Weigh(acc, n) ==
  IF acc.files >= MaxFiles \/ acc.bytes + Size(n) > MaxTotalBytes
  THEN [acc EXCEPT !.excess = Append(@, n)]
  ELSE [acc EXCEPT !.files = @ + 1, !.bytes = @ + Size(n)]

\* Mutation: the current log is not counted.
CountedNone(hasCurrent) == [files |-> 0, bytes |-> 0, excess |-> <<>>]

\* The current log is counted first.
Counted(hasCurrent) ==
  IF hasCurrent THEN [files |-> 1, bytes |-> Size(Current), excess |-> <<>>]
  ELSE [files |-> 0, bytes |-> 0, excess |-> <<>>]

OverLimit(order, hasCurrent) ==
  LET scan[k \in 0 .. Len(order)] ==
        IF k = 0 THEN Counted(hasCurrent) ELSE Weigh(scan[k - 1], order[k])
  IN scan[Len(order)].excess

\* cleanup_logs: the outdated files go, then those beyond the limits.
Sweep ==
  LET outdated == {n \in Name : Exists(n) /\ Outdated(n)}
      retained == {n \in Name : Exists(n)} \ outdated IN
  /\ Doing("sweep")
  /\ \E first \in SetToSeqs(outdated), order \in NewestFirst(retained \ {Current}) :
       LET doomed == first \o OverLimit(order, Current \in retained) IN
       Proceed([k \in 1 .. Len(doomed) |-> On("remove", doomed[k])] \o Tail(todo))
  /\ UNCHANGED <<dir, file, orphan, clock, line, lines, failures, history>>
-----------------------------------------------------------------------------
(***************************************************************************)
(* RotatingLogHandle::write and the maintenance thread.                    *)
(***************************************************************************)
Enter(c, ops) ==
  /\ Running /\ caller = NoCaller
  /\ caller' = c /\ todo' = ops /\ result' = "none"
  /\ UNCHANGED <<dir, file, orphan, clock, failures, history>>

WriteCall == <<Do("check"), Do("append"), Do("recheck"), Do("sweep")>>

\* A thread logs a line of n bytes.
Log(w, n) ==
  /\ line[w].left = 0 /\ lines < MaxLines
  /\ lines' = lines + 1
  /\ line' = [line EXCEPT ![w] = [id |-> lines + 1, left |-> n, since |-> clock]]
  /\ Enter(w, WriteCall)

\* write_all calls write again for the rest of its line.
LogRest(w) ==
  /\ line[w].left > 0
  /\ UNCHANGED <<lines, line>>
  /\ Enter(w, WriteCall)

\* Mutation: the maintenance thread rotates but does not clean up.
MaintainRotatesOnly ==
  /\ UNCHANGED <<lines, line>>
  /\ Enter(Maintenance, <<Do("recheck")>>)

\* One turn of the maintenance thread: cleanup_retention.
Maintain ==
  /\ UNCHANGED <<lines, line>>
  /\ Enter(Maintenance, <<Do("recheck"), Do("sweep")>>)

\* Mutation: only a full file is rotated.
CheckFullOnly ==
  /\ Doing("check")
  /\ Proceed((IF OpenSize >= MaxFileBytes THEN Rotation ELSE <<>>) \o Tail(todo))
  /\ UNCHANGED <<dir, file, orphan, clock, line, lines, failures, history>>

\* LogState::write: rotate if the rest of the line does not fit, unless the file
\* is empty.
Check ==
  /\ Doing("check")
  /\ Proceed((IF \/ OpenSize >= MaxFileBytes
                 \/ OpenSize > 0 /\ OpenSize + line[caller].left > MaxFileBytes
              THEN Rotation ELSE <<>>) \o Tail(todo))
  /\ UNCHANGED <<dir, file, orphan, clock, line, lines, failures, history>>

\* Write n bytes of the caller's line to the open file; write_all gives up on a
\* write of none.
Put(n) ==
  LET written == [bytes |-> OpenFile.bytes \o [k \in 1 .. n |-> Len(history) + k],
                  modified |-> IF n = 0 THEN OpenFile.modified ELSE clock] IN
  /\ IF file = Unlinked THEN orphan' = written /\ UNCHANGED dir
     ELSE dir' = [dir EXCEPT ![file] = written] /\ UNCHANGED orphan
  /\ line' = [line EXCEPT ![caller].left = IF n = 0 THEN 0 ELSE @ - n]
  /\ history' = history \o [k \in 1 .. n |-> line[caller].id]

\* Mutation: the whole buffer is written.
AppendWhole ==
  /\ Doing("append")
  /\ Put(line[caller].left)
  /\ Proceed(Tail(todo))
  /\ UNCHANGED <<file, clock, lines, failures>>

WriteAvailable ==
  /\ Doing("append")
  /\ Put(Min({MaxFileBytes - OpenSize, line[caller].left}))
  /\ Proceed(Tail(todo))
  /\ UNCHANGED <<file, clock, lines, failures>>

\* current_log_needs_rotation.
Recheck ==
  /\ Doing("recheck")
  /\ Proceed((IF OpenSize >= MaxFileBytes \/ Expired(OpenFile) THEN Rotation ELSE <<>>) \o Tail(todo))
  /\ UNCHANGED <<dir, file, orphan, clock, line, lines, failures, history>>
-----------------------------------------------------------------------------
(***************************************************************************)
(* Startup, failures, the end of the process, and time.                    *)
(***************************************************************************)
\* RotatingLogWriter::new.
Start ==
  /\ ~ Running /\ caller = NoCaller
  /\ caller' = Startup /\ todo' = <<Do("sweep"), Do("open")>> /\ result' = "none"
  /\ UNCHANGED <<dir, file, orphan, clock, line, lines, failures, history>>

\* An operation fails and `?` returns; the writer drops the rest of its line.
Fail ==
  /\ todo # <<>> /\ failures < MaxFailures
  /\ failures' = failures + 1
  /\ todo' = <<>> /\ caller' = NoCaller /\ result' = "error"
  /\ line' = [w \in Writer |-> IF w = caller THEN [line[w] EXCEPT !.left = 0] ELSE line[w]]
  /\ UNCHANGED <<dir, file, orphan, clock, lines, history>>

Crash ==
  /\ Running \/ caller = Startup
  /\ file' = NoHandle /\ orphan' = NoFile
  /\ todo' = <<>> /\ caller' = NoCaller /\ result' = "none"
  /\ line' = [w \in Writer |-> [line[w] EXCEPT !.left = 0]]
  /\ UNCHANGED <<dir, clock, lines, failures, history>>

Tick ==
  /\ clock < MaxClock
  /\ clock' = clock + 1
  /\ UNCHANGED <<dir, file, orphan, caller, todo, result, line, lines, failures, history>>

Call == RemoveFile \/ Move \/ Open \/ Sweep \/ Check \/ WriteAvailable \/ Recheck

Next ==
  \/ Call \/ Maintain \/ Start \/ Fail \/ Crash \/ Tick
  \/ \E w \in Writer : LogRest(w) \/ \E n \in LineLength : Log(w, n)

Spec == Init /\ [][Next]_vars

\* A call goes on, and the maintenance thread comes round.  Nothing is assumed of
\* the threads that log.
FairSpec == Spec /\ WF_vars(Call) /\ WF_vars(Maintain)
-----------------------------------------------------------------------------
(***************************************************************************)
(* Properties.                                                             *)
(***************************************************************************)
InOrder ==
  \A n, m \in Name : Exists(n) /\ Exists(m) =>
    \A j \in 1 .. Size(n), k \in 1 .. Size(m) :
      n > m \/ (n = m /\ j < k) => dir[n].bytes[j] < dir[m].bytes[k]

Kept(p) == \E n \in Used : Exists(n) /\ \E k \in 1 .. Size(n) : dir[n].bytes[k] = p
NoneMissing ==
  \A p, q \in 1 .. Len(history) : p < q /\ Kept(p) /\ history[q] # Oversized => Kept(q)

\* max_total_bytes admits max_files full files, as in the settings Core uses, and
\* no file there ever was can have expired.
NothingExpires == MaxTotalBytes >= MaxFiles * MaxFileBytes /\ clock <= MaxAge - LastIndex

\* Read from the oldest archive to the current log, the files hold their bytes in
\* the order in which they were written, none twice, also after a rotation that
\* failed or was cut off half-way; and while nothing expires, rotation and
\* retention drop only from the old end: what is left are the last bytes written,
\* none missing but those of files an earlier Core left larger than allowed.
LogInOrder == InOrder /\ (NothingExpires => NoneMissing)

\* A line that fits into a file is never split over two, and no write is empty:
\* write_all would turn that into an error and lose the line.
LineFits ==
  Doing("append") =>
    LET room == MaxFileBytes - OpenSize IN
    /\ room > 0
    /\ line[caller].left <= MaxFileBytes => line[caller].left <= room

Files == {n \in Name : Exists(n)}
TotalBytes == SumFunction([n \in Files |-> Size(n)])

\* A write or a turn of the maintenance thread that succeeds leaves the directory
\* within max_files, max_total_bytes and max_file_bytes, whichever files of whatever
\* size were in it; new cleans up before it creates the current log, which may be one
\* file more.
WithinLimits ==
  result \in {"ok", "started"} =>
    /\ Cardinality(Files) <= IF result = "started" THEN MaxFiles + 1 ELSE MaxFiles
    /\ TotalBytes <= MaxTotalBytes
    /\ \A n \in Files : Size(n) <= MaxFileBytes

\* "Core writes logs to a file" (LOCAL_IPC_SMOKE_TEST.md): a line whose write
\* succeeds within max_age is in a file of the directory when write returns, as
\* long as fewer than MaxFiles - 1 operations have failed: a rotation that fails
\* after its renames leaves the open file one archive older each time.
AcknowledgedIsKept ==
  [][result # "ok" /\ result' = "ok" /\ caller \in Writer /\ line[caller].since + MaxAge >= clock =>
       \E n \in Name : dir'[n] # NoFile /\ \E p \in Range(dir'[n].bytes) : history'[p] = line[caller].id]_vars

HasExpired == \E n \in Name : Exists(n) /\ Expired(dir[n])

\* Logs older than max_age all go while Core runs, also when nothing is logged
\* any more, when a call fails and when the expired log is the open one.
ExpiredAreRemoved == (Running /\ HasExpired) ~> (~ Running \/ ~ HasExpired)
=============================================================================
