# TLA+ specifications of Keyro Core

Keyro Core is a local daemon. It keeps profiles and, for every profile, the
actions assigned to the keys and encoders of a device, in one SQLite database.
Clients (Keyro Studio) connect over a development IPC stream, send JSON lines
and get one reply per line; a virtual input runs the first action assigned to
the control in the active profile, which opens a URL, and is reported by events.

These modules model the parts of Core that keep state or run concurrently.
`PROJECT.json` maps every definition to the lines it stands for.

## The system

| Part | Code | State | Operations | Interacts by |
| --- | --- | --- | --- | --- |
| Domain types | `core-domain` | none | names, ids, indexes, URLs, "exactly one active" | called by every other part |
| Application service | `core-app` | none of its own | `initialize`, eight commands, `route_virtual_control` | calls the repository, the event sink and the URL opener |
| Profile repository | `core-storage-sqlite` | SQLite file, one connection behind a mutex | the nine methods of `ProfileRepository` | shared by all workers |
| Session and mapping | `core-ipc` | `AwaitingHandshake` / `Established` per connection | `receive_line`, result and error mapping | owned by a worker |
| Protocol codec | `core-protocol` | none | decode, encode, version check | called by the session |
| Connection worker | `keyro-core/main.rs` | reader, writer, session | read, dispatch, reply | one thread per connection |
| Admission | `DevConnections` | vector of join handles | `accept` | called by the listener, spawns workers |
| Windows listener | `windows_ipc.rs` | one pending pipe instance | create, connect, renew | calls `accept` |
| Startup | `main`, `single_instance.rs` | lock file, schema, socket | acquire, open, initialize, listen | precedes everything |
| Logging | `logging.rs` | log files, the open one, maintenance thread | write, rotate, clean up | called from every thread |
| URL opener | `core-platform` | none | launch the browser | called by the service |
| Protocol package | `protocol/` | none (schemas, types, vectors) | | |

What is hard about it: workers share one connection and its transactions;
statements can fail and the process can end in the middle of a transaction;
a routed input is several repository calls, two event writes and a launched
program, between which other connections change what it depends on; clients
pipeline lines, leave at any moment or stay and never read; workers end while
the listener reaps; two processes start at the same time on what a killed one
left; the maintenance thread and the writers rename and remove the same files
in series of operations that can stop half-way; indexes and ids change width
and spelling between a message, the domain and a row.

## Modules

| Module | Models | Built on |
| --- | --- | --- |
| `ProfileDomain` | the values of profiles and assignments, with the assumptions on them | |
| `ProfileRegistry` | abstract specification of the repository: every operation is one step | `ProfileDomain` |
| `ProfileStore` | the SQLite repository, one statement per step, startup and crash | `ProfileDomain`, refines `ProfileRegistry` |
| `ControlCodec` | a control as a message, a domain value and the columns of a row, and the conversions, as operators | |
| `AssignmentBook` | abstract specification of what a client may rely on about assignments | `ControlCodec` |
| `AssignmentRows` | messages to rows and rows to snapshots and presses, with ids and URLs | `ControlCodec`, refines `AssignmentBook` |
| `ProtocolSession` | the session and the mapping of lines, results and errors, as operators | |
| `CoreService` | connection workers and the application service | `ProfileRegistry`, `ProtocolSession` |
| `DevConnections` | the accept loop, its workers and the limit | |
| `PipeListener` | the Windows loop around `accept` | composes with, and refines, `DevConnections` |
| `Startup` | any number of processes from the lock file to the listening socket | |
| `LogRotation` | writers, rotation, clean-up and the maintenance thread | |
| `...Proofs` | theorems | the module they are named after |
| `ProfileStoreRefinement` | the proof that `ProfileStore` implements `ProfileRegistry` | `ProfileStoreProofs` |
| `MC...` | the instances TLC checks | the module they are named after |

`ProfileStore` shows that each repository call has its effect in one step, and
`CoreService` then uses the abstract steps, so that the interleavings of
workers are explored between calls and not between SQL statements. Likewise
`CoreService` and `ProfileStore` treat a control as an opaque value, and
`AssignmentRows` shows that its way through the three layers loses nothing.

### ProfileStore

`disk` is the committed database and `conn` the database as the connection sees
it; they differ only inside a transaction. `active` is the set of ids whose
row has `is_active = 1`, a set so that the model can express the states the code
has to exclude. A worker takes the mutex with the first statement of a method
(`Enters`), keeps it (`Continue`) and drops it with the result (`Reply`).
`Fail` is an early return or `?`: the `Transaction` is dropped and rolls back.
`StatementFails` may take the place of any statement, `COMMIT` included.
`rename_profile` is two critical sections, as in the code. `Crash` may happen at
any moment. `ORDER BY created_at, name` is abstracted: a listing is a set.
The unique index, the primary key and the foreign key appear as the failures
they cause in `Activate` and `InsertRow`.

### ControlCodec, AssignmentRows, AssignmentBook

A conversion that can fail is the set of its results, empty or of one element,
so that "accepted" is a nonempty set and a chain of conversions is a set
comprehension. Indexes are 16 bit in a message (`ControlDto`), 8 bit on the way
(`U8Index`) and bounded by the layout in a `ControlId`. A key has no operation in
a message and the text "press" in its row. `rows` is the `assignments` table,
`Snapshot` what a client is shown of all rows, `FindAssignment` what a press
finds with its own query. A message names one action, so `action_position` is
always 0; the lists of several actions are the subject of `ProfileStore`.
`accepted` is auxiliary: the last message about an assignment that was accepted,
so that `AssignmentBook` says which entry that message may touch, and that a
message out of range is not accepted at all.

### CoreService

A line is a kind and converted arguments; JSON is abstracted to what decoding
can make of it, including a line that is not UTF-8. `written` and `opened` are
what the outside has seen of a connection. Each repository call, event write,
URL launch and reply is a step; any repository call may fail, any URL launch
may fail, and a write fails once the client has left. `peer` is what the client
still does: it sends, or has shut down its writing direction and reads the replies
(`Shutdown`, as clients in the tests of `main.rs` do), or is gone. `lines()` ends
when a client that sends no more has had its lines read; once it is gone a read may
also fail before that (`ReadFails`, a connection that was reset). A read that fails
for another reason while the client is there is left out, except for a line that is
not UTF-8. `moments` is auxiliary:
it collects what the active profile had for the control of the input in process
at each moment since the line was read, to say what a routed input may depend on.
`AssignmentHasNoAction`, the active-profile errors and a poisoned writer lock
cannot occur in a reachable state and have no step of their own.

The clients in `Stalling` stay connected and never read. Once `BufferSize`
messages are written and unread, `writeln` does not return (`Blocked`) until the
client leaves: there is no write timeout. The worker then holds neither the
mutex of the repository nor anything else another worker needs, which is what
`LinesAreAnswered` checks for the other clients. What it does hold is its slot
of `DevConnections`: for such a client `LeftConnectionEnds` promises that the slot
becomes free only after the client is gone; a client that reads need only stop
sending.

### DevConnections

`accept` runs one turn of the reaping loop per step, so that workers end between
any two of them. `exited` is auxiliary: the workers that had finished when
`accept` was called. Connection ids are reused after the join, so the number
of connections over time is unbounded.

### PipeListener

Extends `DevConnections` by the loop of `run`: `pending` is the instance a client
may open next, `listener` where the loop is. `Open` and `Abandon` are clients that
act before `ConnectNamedPipe` is called; its results (waits, ok for
`ERROR_PIPE_CONNECTED`, an error for a client that came and went) are the cases of
`Connect`. `Renew` creates the next instance before it hands the connected one to
`Incoming`, the entry of `accept`. `CreateFails` is the only end of `run`: it ends
the process. `Instances` counts the instances whose handle Core holds. A client's
own handle can keep an instance alive a little longer than Core does; that
lies outside the code and is not modelled.

### Startup

The lock belongs to the open file and not to its path, so a lock file has an
identity (`Inode`), and `path` is the file the name `keyro-core.lock` stands for.
One step is one call: open, `try_lock_exclusive`, truncate, write the pid, each
statement of the migration, each half of `ensure_default_profile`, the check of
`initialize`, and `exists`, remove and bind of the socket. `Fail` is a failure
for reasons of its own; `Goto(p, "failed")` is one the state of the directory causes,
and `NoConflict` says that there is none. `schema` is the set of statements of the
migration whose objects are in the database; one that runs again fails unless it is
`Repeatable`, which all five are because they say `IF NOT EXISTS` or `OR IGNORE`.
`Kill` ends the lock and leaves pid, schema and socket as they are. Of the profiles
only the active rows count here.

### LogRotation

A call is the sequence `todo` of file system operations it still has to do, since
what it does depends on checks made on the way: `Check` and `Recheck` may put a
`Rotation` in front of the rest, `Sweep` the removals it decided on. Any operation
may fail (`Fail`), the process may end (`Crash`) and time may pass (`Tick`) between
any two. `history` is auxiliary: of all bytes ever written, in order, the line
each belongs to. A file is the sequence of the places its bytes have there, so
that two equal bytes are told apart and "in order" and "none missing" are
statements about numbers. The open file is known by the name it has now, or as
`orphan` when it has none, because a rename or a removal does not close it.
An earlier Core, perhaps one with larger settings, may have left any of the files,
the current log included, each of any size: consecutive pieces of the beginning of
`history` (the `cut` of `Init`), the older the higher the index. Of a byte in one
that is larger than `max_file_bytes` the `history` says `Oversized`, since the first
clean-up removes such a file from between others. Only files named `keyro-core.log`
and `keyro-core.i.log` are in the directory; files of equal age are swept in any
order.

## Runs

| Run | Bounds | Shows |
| --- | --- | --- |
| `store` | 2 workers, 2 profile ids, 3 names (one blank), 1 control, action lists of length 0 and 2 | `OneActive`, `UnlockedIsCommitted`, `AcknowledgedIffApplied`, `ReadsAreCommitted`, `ImplementsRegistry`, `CallsMakeProgress` |
| `assignment_rows` | 2 profiles, 9 controls, 5 URLs, a malformed id | `RowsDecode`, `PressRunsWhatIsShown`, `ImplementsBook` |
| `service_session` | 1 connection that may be reopened, 3 lines each time, 2 ahead, every kind of line | `HandshakeFirst`, `RepliesInOrder`, `RunIsReportedInOrder`, `OpenedAfterRunning`, `LinesAreAnswered` |
| `service_routing` | 2 connections: one presses a key and never reads (a buffer of 2 messages), one edits and switches profiles; 2 lines each time | `OpenedProfileWasActive`, `LinesAreAnswered`, `LeftConnectionEnds` |
| `service_not_found` | 2 connections | finding 1 |
| `service_not_utf8` | 2 connections | finding 2 |
| `listener` | limit 3, 4 connections | `EveryThreadTracked`, `WithinLimit`, `ReapIsComplete`, `JoinedHasFinished`, `AcceptReturns` of `DevConnections`; `RenewalHasRoom`, `EarlyClientIsServed`, `ImplementsDevConnections` of `PipeListener` |
| `connections_refused` | limit 3 | finding 3 |
| `startup` | 3 processes, 2 lock files, 1 failure, 2 kills | `OneCore`, `LockNamesOwner`, `LiveSocketStays`, `NoConflict`, `AloneItServes` |
| `log_retention` | 2 writers, 4 files of 2 bytes, lines of 1, 2, 3 bytes, 3 lines, 2 failures; old files of 1 or 3 bytes, 5 bytes in all | `LogInOrder`, `LineFits`, `WithinLimits`, `AcknowledgedIsKept` |
| `log_maintenance` | 1 writer, 3 files, 4 moments of time, 1 failure | `ExpiredAreRemoved` |
| `log_expiry` | 1 writer, 3 files, 3 moments of time, no failure | finding 4 |

Every component has its type invariant checked in the same run, except
`AssignmentRows`, whose is proved.

The `listener` run is of `PipeListener`, whose steps of `accept` are those of
`DevConnections`; the Unix listener is the same without early clients, pending
instances and renewals, and only `connections_refused` runs `DevConnections` by
itself.

Why the bounds are enough to be interesting: with two workers every pair of
calls overlaps at every statement; with two profiles there is one to switch to;
a list of two actions is replaced by itself and by none, so a leftover row or
a lost row would show (the theorems below cover all lists). The controls are the
last page, key and encoder, those one past each, and those that have the same
low byte (259, 267 and 257), which only a conversion that truncates accepts.
Three lines are a handshake, an edit and an input, or a failed handshake before
one; a connection may be reopened any number of times and finds the profiles and
assignments that the one before it left. A buffer of
two messages takes the reply to a handshake and a running event, and stops the
worker in the write of the outcome, after the URL was opened. A limit of
three lets `swap_remove` move a finished and a running worker into the first,
the middle and the last slot. One id more than the limit is the connection being
accepted, so that all instances of a pipe are in use. Three processes are an
owner, one that is refused and one that starts when the owner dies; two kills let
the migration stop twice at different places; the second lock file would be one
created after the first was removed. Log files of two bytes are filled exactly,
overfilled and left half-full by lines of one to three bytes; files an earlier
Core left are half full or larger than allowed, and an archive may have an index
rotation no longer reaches (`LastIndex`).

What the log properties promise has conditions, and they are in the properties.
The files hold their bytes in order and none twice without any (`InOrder`). That
none is missing in between (`NoneMissing`) is not promised of the bytes of files an
earlier Core left larger than allowed, and needs `NothingExpires`: `max_total_bytes`
is at least `max_files * max_file_bytes`, as in the settings Core uses, so that
the total limit cannot remove a newer file and keep an older, smaller one; and
so little time has passed that no file is older than `max_age`, whatever failed
before. `log_retention` is such an instance, so that it checks
both halves. `AcknowledgedIsKept` is checked with fewer than
`MaxFiles - 1` failed operations: a rotation that renames the current log and
then fails leaves the open file one archive older, and after enough failures in
a row it is the oldest and is removed while lines are still written to it. And
`log_retention` lets no time pass (`MaxClock = 1`): with time, finding 4 applies.
`OldBytes` bounds the bytes an earlier Core left in all files together: five are
all five names with a byte each, or one oversized file and up to two others at any
of the names.

`MCPipeListener.cfg` does not check for deadlock, because `run` ends when an instance
cannot be created; nothing else stops.

Symmetry (of writers) is used only in `log_retention`, which checks no liveness.

### Fairness

- `ProfileStore!FairSpec`: startup and every worker that can take its next
  statement eventually do (the operating system schedules threads). Nothing is
  assumed of who gets a free mutex, since `std::sync::Mutex` is not fair:
  `CallsMakeProgress` promises that some call is answered, not every one.
- `CoreService!FairSpec`: a worker that can go on does; a launched program
  returns, and so does a write into a buffer with room. Nothing is assumed of
  clients, who may stay idle, stop sending, leave, or never read.
- `DevConnections!FairSpec`: the listener's thread is scheduled. Nothing is
  assumed of workers and clients: `AcceptReturns` must not depend on them.
- `PipeListener!FairPipeSpec`: the same thread; nothing is assumed of clients and
  workers.
- `Startup!FairSpec`: a process that has been started runs. Nobody has to start,
  fail or kill one.
- `LogRotation!FairSpec`: a call that has the mutex goes on, and the maintenance
  thread, which sleeps for a fixed interval, comes round. Nothing is assumed of
  the threads that log, so `ExpiredAreRemoved` does not depend on anybody
  logging.

### Findings

1. `route_virtual_control` looks the active profile and its assignment up in two
   calls. A switch to another profile followed by a clear of the old one makes
   the input fail although the active profile had an assignment at every moment
   (`service_not_found`).
2. A line that is not UTF-8 ends the connection (`service_not_utf8`).
3. A client can be refused although fewer than the documented number of clients
   is connected, because the worker of a client that left still holds its slot
   (`connections_refused`).
4. `cleanup_retention` checks the age of the current log against one cutoff and
   then cleans up with a later one. A log that expires in between is not rotated
   but removed while it is open, and the next line is written to a file that has
   no name (`log_expiry`).

Two smaller observations are part of what the properties say and have no run of
their own. `RotatingLogWriter::new` cleans up before it creates the current log, so
the directory can hold `max_files + 1` files until the next write or turn of the
maintenance thread (`WithinLimits` allows it after `new`). And `rename_profile`
returns a row assembled from a listing made under an earlier hold of the mutex,
so that the `is_active` of its reply may be older than the name; what it stores
is right (`ImplementsRegistry`).

## Proofs

`ProfileStoreProofs` proves, for any sets of workers, profiles, names, controls
and action lists that satisfy the named assumptions (`ProfileIdAssumption`,
`NameAssumption`, `ActionListAssumption`, `WorkerAssumption`):

- `TypeCorrect`: `Spec => []TypeOK`;
- `AlwaysOneActive`: `Spec => []OneActive`;
- `AlwaysUnlockedIsCommitted`: `Spec => []UnlockedIsCommitted`;
- `CallsAreAllOrNothing`: `Spec => AcknowledgedIffApplied`;
- `ReadsAlwaysCommitted`: `Spec => ReadsAreCommitted`.

`OneActive` speaks of `disk`, which `Commit` overwrites with `conn`, so it is not
inductive: one has to know what an open transaction has done so far. `IndInv` adds
who holds the mutex (`MutexHeld`: exactly the worker that is inside a method's
critical section), which call that worker is in (`CallInProgress`), and, for each
point of a transaction, `conn` as a function of `disk` and the call
(`OpenTransaction`): the old rows, no active row, the first `position` actions,
or the whole `Effect`. One lemma per action shows that it preserves `IndInv`.
`CommitIndInv` also shows that a commit applies exactly `Effect`.

The two action properties follow from `IndInv` by a case split over the steps
(`NextOutcome`): a step of a worker either applies its call to `disk` and answers
Ok (`WriteApplies`, `ReadApplies`) or leaves `disk` alone (`StatementLeavesDisk`,
`UnfinishedLeavesDisk`), and it never moves another worker's call
(`OthersKeepTheirPlace`).

`ProfileStoreRefinement` proves `StoreImplementsRegistry`: `Spec =>
ImplementsRegistry`. The mapping reads the registry off `disk`, and the one active
profile off the set of active rows (`ActiveRow`, well defined by `OneActive`). A
committing step maps to the registry's step of that call, every other to a
stutter. Creation needs one invariant more, `FreshIds`: an id that a worker is
about to insert has not been used, which the code gets from random UUIDs.

`DevConnectionsProofs` proves, for any limit and any set of connections
(`HandleAssumption`, `MaxAssumption`):

- `TypeCorrect`: `Spec => []TypeOK`;
- `AlwaysTracked`: `Spec => []EveryThreadTracked`;
- `AlwaysWithinLimit`: `Spec => []WithinLimit`;
- `ReapAlwaysComplete`: `Spec => []ReapIsComplete`;
- `JoinNeverWaits`: `Spec => JoinedHasFinished`.

Its `IndInv` adds what the reaping loop has established so far: the slots it has
passed hold no worker that had finished when `accept` was called (`PassedSlots`),
such a worker stays finished or is joined (`FinishedAtCall`), and the loop ends
only behind the last slot (`ScanDone`). `SwapRemoveProperties` and
`JoinRemovesOne` state what `swap_remove` does to the vector and to the set of
workers in it.

`PipeListenerProofs` proves, under the same two assumptions:

- `PipeRefinesDevConnections`: `PipeSpec => Spec`, every behaviour of the listener is
  one of `DevConnections`, which carries all its theorems over to Windows;
- `PipeTypeCorrect`: `PipeSpec => []PipeTypeOK`;
- `RenewalAlwaysHasRoom`: `PipeSpec => []RenewalHasRoom`.

The last combines the two: while the listener renews, no connection is being
accepted, so every instance but `pending` belongs to a thread in a slot
(`EveryThreadTracked`), of which there are at most `MaxDevConnections`.

`StartupProofs` proves, for any number of processes, lock files, failures and
kills (`StartupAssumption`, `StartupBounds`):

- `TypeCorrect`: `Spec => []TypeOK`;
- `OnlyOneCore`: `Spec => []OneCore`;
- `LockAlwaysNamesOwner`: `Spec => []LockNamesOwner`;
- `SocketAlwaysStays`: `Spec => []LiveSocketStays`;
- `NeverConflicts`: `Spec => []NoConflict`.

`OneCore` follows from two facts a lock on a path would not give: everybody has
the same file open (`OneFile`, because `Drop` leaves the file in place), and who
is past the lock holds it (`LockIsHeld`). `StillSo` then says that what the one
process past the lock has seen of profiles and socket is still so when
it acts on it.

`AssignmentRowsProofs` proves, for all 16 bit indexes and any sets of profiles,
spellings, URLs and messages (`SpellingAssumption`, `DtoAssumption`,
`UrlAssumption`):

- `LayoutIsAccepted`: a control is accepted exactly if it is on the layout every
  snapshot tells, and is kept as it was sent;
- `RowsRoundTrip`: the columns of a control decode to it and to no other;
- `RowsTypeCorrect`, `EveryRowDecodes`, `PressAlwaysRunsWhatIsShown`:
  `Spec => []TypeOK`, `[]RowsDecode`, `[]PressRunsWhatIsShown`;
- `RowsImplementBook`: `Spec => ImplementsBook`.

The inductive invariant `IInv` adds to the types that every row was written for
some control and safe URL (`WrittenRows`); from it, `ShowsStored` says which
entries a snapshot has, and with `RowsRoundTrip` the steps map to those of the
book.

`CoreServiceProofs` proves, for any connections, lines, buffers and clients that
do not read (`LineAssumption`, `StallingAssumption`, and the assumptions on
profiles and names):

- `TypeCorrect`: `Spec => []TypeOK`;
- `HandshakeAlwaysFirst`: `Spec => []HandshakeFirst`;
- `RepliesAlwaysInOrder`: `Spec => []RepliesInOrder`;
- `RunsAlwaysReportedInOrder`: `Spec => []RunIsReportedInOrder`;
- `RoutesToActiveProfile`: `Spec => []OpenedProfileWasActive`;
- `OpensAfterRunning`: `Spec => OpenedAfterRunning`;
- `ActiveAlwaysExists`: `Spec => [](RegistryInv /\ ActiveCheck = "none")`, the two
  checks of the active profile never fail.

What a client was told is a history, and none of the properties about it is
inductive. The invariant has a part for every connection (`ConnInv`) that ties
`written`, `opened` and the session to where the worker is: a reply it is about to
write is one the session can give (`ReplyReady`, `SessionHolds`), the lines before
the one in hand are answered and that one is not (`AnswersHold`), and what has
been told of it so far is a beginning of running, outcome, reply
(`ReportHolds`, `RunningWasLast`). `MomentKept` says that the profile a worker
goes on with is one of `moments`. A step of a worker touches its own connection
and the registry and nothing else (`Alone`), so that each action needs a proof
for its own connection only; what it does there is stated once per kind of step
(`Effect`: it takes a line, writes a message, opens a URL, ends) and the parts of
`ConnInv` are shown to survive each of these.

`LogRotationProofs` proves, for any valid retention settings, line lengths, sizes
of old archives, failures and crashes (`RetentionAssumption`, `CallerAssumption`,
`BoundAssumption`, `NoFileAssumption`):

- `TypeCorrect`: `Spec => []TypeOK`, and with it that the open file never exceeds
  `max_file_bytes`;
- `LogAlwaysInOrder`: `Spec => []LogInOrder`;
- `LineAlwaysFits`: `Spec => []LineFits`;
- `AlwaysWithinLimits`: `Spec => []WithinLimits`.

A call may be interrupted anywhere and its operations rely on each other, so the
inductive invariant `IInv` is mostly about `todo`. `WellOrdered` says which kind of
operation may be ahead of which, that a file is renamed right after the one above
it was renamed or removed, and that nothing comes between a check of the size and
the write that relies on it; `TodoHolds` adds that a file is never renamed over
another, and `OpensEmpty` that the log a rotation opens is a new one. With
`HandleHolds`, that no file is newer than the open one, this gives the order of
the bytes, and `FilesHold` keeps what the writer uses apart from archives that an
earlier Core with larger settings left at higher indexes. `StartHolds` says of those
left larger than allowed among the files in use (`Large`) that `new` lists the
directory or removes them before it opens the current log, so that Core runs without
them. `NothingLost` is the part for `NoneMissing`: of the files in use only the oldest
is removed, and before Core runs those that are larger than allowed
(`RemovesOldest`). `Spare` is the names these may have, taken so that removing one
does not change what the rest of `todo` may remove. For
it one has to know that a clean-up spares the others, which is a statement about
the recursive scan of `cleanup_logs`. The induction theorems of the library take
an operator and are of no use here, but that `<` is well-founded can be cited
(`LeastElement`, `Induction`), with the property as a set of numbers; that is how
`OverLimit` is shown to be defined (`ScanSteps`), and that among files of at most
`max_file_bytes` it counts `k` files and at most `k * max_file_bytes` before the
`k + 1`st (`OverLimitSparesArchives`). `CutsDescend`, for `Init`, is another use.

`AlwaysWithinLimits` has an invariant of its own, `LimitsHold`, inductive together
with `IInv`. Whatever an operation does to the files, the directory is listed once
more after it (`SweepsLater`); only `new` opens the current log after its last
clean-up, and that adds at most one file, which is empty. Once no listing is ahead, the
files without those that are still to be removed are within all three limits, and
each removal brings the directory closer to that set; a failure ends the call
without the result `ok`. What a listing decides is again the recursive scan:
`KeptFits` says that the bytes and files it has counted are those of the files it
does not remove. `TotalBytes` is a sum over a set of files, which the library
defines by iteration over some order of the set. `OneLess` to `SumOfFewer` give
what is used of it, by induction on the number of elements: the sum does not
depend on the order, one element more adds its value, and fewer elements have a
smaller sum.

The earlier form of `LogInOrder` said that the files always are a suffix of what
was written. The proof attempt refuted it: when time passes, or the total limit is
tight, a file in the middle can go before an older one, since a renamed file keeps
its age and a smaller one may fit where a larger does not.

Only model-checked:

- liveness (`CallsMakeProgress`, `LinesAreAnswered`, `LeftConnectionEnds`,
  `AcceptReturns`, `EarlyClientIsServed`, `AloneItServes`, `ExpiredAreRemoved`, and
  the fairness part of `ImplementsDevConnections`), because the prover handles
  neither fairness nor `ENABLED`;
- `AcknowledgedIsKept`, which is true only of the instances named above.

## Not modelled

- JSON text and the layout of the messages other than controls, ids and URLs;
  log messages; file-system paths and directories; log settings; the security
  descriptor of the pipe: no state that a property is about.
- `SafeUrl::redacted_for_log`: wording of log lines.
- Which program opens a URL: only that it may fail.
- The time a client's own handle keeps a pipe instance (see `PipeListener`), and
  anyone else who changes the log or data directory while Core runs.
- The protocol package: schemas, types and test vectors are static data.

## Plan

Done: every component that keeps state or runs concurrently, and a proof of every
safety invariant the runs check. Next: a form of `AcknowledgedIsKept` that is true
for all settings, with the number of failed rotations and the time of a call as
conditions, and its proof.
