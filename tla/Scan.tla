-------------------------------- MODULE Scan --------------------------------
(***************************************************************************)
(* How store-everything follows storage that it does not own alone:        *)
(* scanning.py and scans.py, what reconcile.py makes of one directory and  *)
(* of what was not seen, and the doorbell of watcher.py. A scan commits    *)
(* one directory at a time, so a worker may die, or lose its lease and go  *)
(* on, between any two of them, while files and mounts come and go.        *)
(*                                                                         *)
(* Time is the number of scans that were begun: a stamp is only ever       *)
(* compared with the beginning of a run. The folders of a workspace are    *)
(* fixed here (Tree moves them); a file's content is its name.             *)
(***************************************************************************)
EXTENDS Integers, FiniteSets, FiniteSetsExt

CONSTANTS
    Dir, Root,     \* the directories of one workspace
    Up,            \* the directory that holds another
    Order,         \* the order of their paths
    Mount,         \* directories at which other storage is mounted
    File,          \* names of files, each with content of its own
    Worker,        \* claim loops
    Op,            \* rows of table operation, in the order of their ids
    MaxAttempts,   \* claims of one operation
    MaxClaims,     \* claims in all: a bound of the instance
    MaxChanges,    \* changes to the storage from outside, uploads included
    None

\* What the tables hold.
FileRow == [state : {"live", "trashed"}, seen : Nat, created : Nat]
OpRow == [state : {"queued", "running", "succeeded", "dead"}, root : Dir, attempt : Nat, due : BOOLEAN]
RunRow == [state : {"running", "completed", "failed"}, started : Nat, root : Dir,
           frontier : SUBSET Dir, blocked : SUBSET Dir]

ASSUME ScanAssumption ==
    /\ Root \in Dir /\ Mount \subseteq Dir
    /\ None \notin Dir \cup OpRow \cup RunRow \cup {"own", "bare"}
    /\ Up \in [Dir -> Dir \cup {None}]
    /\ \A d \in Dir : Up[d] = None <=> d = Root
    \* a path comes after the paths it begins with
    /\ Order \in [Dir -> Nat] /\ \A d \in Dir \ {Root} : Order[Up[d]] < Order[d]
    /\ Op \subseteq Nat \ {0} /\ Op # {}
    /\ {MaxAttempts, MaxClaims, MaxChanges} \subseteq Nat \ {0}

VARIABLES
    at,       \* the storage: where each file is, or None
    there,    \* the storage: the directories that exist
    away,     \* mount points whose storage is not mounted
    denied,   \* directories that cannot be read
    row,      \* table file: for a directory and a name its state, stamps; or None
    known,    \* table folder: the directories it has a row for
    device,   \* folder.device_id: the filesystem that a scan found last
    op,       \* operations: state, root, attempt, whether it is due now; or None
    run,      \* scan_run, scan_frontier, scan_blocked of an operation; or None
    work,     \* what each claim loop is executing
    upload,   \* an upload under way: since when, of what, into which directory
    burst,    \* watcher: the directory that covers the events of late
    clock,    \* runs begun
    changes,  \* history: changes made from outside
    heard,    \* history: directories whose event no run has answered
    lacking,  \* history: live rows found out of place since a run began
    shaken    \* history: what happened around a run since it began

storage == <<at, there, away, denied>>
index == <<row, known, device>>
vars == <<storage, index, op, run, work, upload, burst, clock, changes, heard, lacking, shaken>>

Idle == [pc |-> "idle"]
NoUpload == [pc |-> "none"]
NoRow == [state |-> "none"]

--------------------------------------------------------------------------
(* The directories, and what a listing shows of them. *)

Path[d \in Dir] == IF Up[d] = None THEN {d} ELSE {d} \cup Path[Up[d]]
PathTo(d) == IF d = None THEN {} ELSE Path[d]

Under(d) == {e \in Dir : d \in PathTo(e)}
Children(d) == {e \in Dir : Up[e] = d}

Vanished(d) == d \notin there \/ (PathTo(d) \ {d}) \cap away # {}
Unreadable(d) == ~Vanished(d) /\ PathTo(d) \cap denied # {}
Hidden(d) == PathTo(d) \cap (away \cup denied) # {}

\* A file can be opened, or lstat finds that it is not there.
Readable(c, d) == at[c] = d /\ d \in there /\ ~Hidden(d)
IsGone(c, d) == ~Unreadable(d) /\ ~Readable(c, d)

\* scanning.inspect: a mount point without its mount lists as the empty directory below it.
Listing(d) ==
    IF Vanished(d) THEN [kind |-> "missing"]
    ELSE IF Unreadable(d) THEN [kind |-> "unreadable"]
    ELSE IF d \in away THEN [kind |-> "listed", device |-> "bare", files |-> {}, dirs |-> {}]
    ELSE [kind |-> "listed", device |-> "own",
          files |-> {c \in File : at[c] = d}, dirs |-> Children(d) \cap there]

\* scanning._unidentified: the marker is on the storage of the root.
Identified == Root \in there /\ Root \notin away \cup denied

--------------------------------------------------------------------------
Live(d, c) == row[d][c].state = "live"
LiveRow(seen, created) == [state |-> "live", seen |-> seen, created |-> created]
LiveUnder(d) == \E e \in Under(d), c \in File : Live(e, c)

Busy(w) == work[w] # Idle
At(w, pc) == work[w].pc = pc
Mine(w) == run[work[w].op]
Set(w, record) == work' = [work EXCEPT ![w] = record]
Goto(w, pc) == Set(w, [op |-> work[w].op, attempt |-> work[w].attempt, pc |-> pc])
Rest(w) == Set(w, Idle)

\* The transition of the operation that commits with the last transaction of a handler.
Holds(w) == LET o == op[work[w].op] IN o.state = "running" /\ o.attempt = work[w].attempt

Running == {o \in Op : run[o] # None /\ run[o].state = "running"}
Underway(o) == run[o] # None /\ (o \in Running \/ \E w \in Worker : Busy(w) /\ work[w].op = o)
Terminal(o) == op[o].state \in {"succeeded", "dead"}
Unused == {o \in Op : op[o] = None}

\* scans.ensure_scheduled: the key is the workspace and the path; only queued work has it.
Queued(ops, d) == \E o \in Op : ops[o] # None /\ ops[o].state = "queued" /\ ops[o].root = d
Scheduled(ops, d, due) ==
    IF Queued(ops, d) \/ \A o \in Op : ops[o] # None THEN ops
    ELSE LET o == Min({n \in Op : ops[n] = None})
         IN  [ops EXCEPT ![o] = [state |-> "queued", root |-> d, attempt |-> 0, due |-> due]]

\* operations.expedite: queued work of this path is due now.
Expedited(ops, d) == [o \in Op |->
    IF ops[o] # None /\ ops[o].state = "queued" /\ ops[o].root = d
    THEN [ops[o] EXCEPT !.due = TRUE] ELSE ops[o]]

Init ==
    /\ there = Dir /\ away = {} /\ denied = {}
    /\ at \in [File -> Dir \cup {None}]
    \* a workspace that has been scanned, or one that is about to be imported
    /\ \/ /\ known = Dir /\ device = [d \in Dir |-> "own"]
          /\ row = [d \in Dir |-> [c \in File |-> IF at[c] = d THEN LiveRow(0, 0) ELSE NoRow]]
       \/ /\ known = {Root} /\ device = [d \in Dir |-> None]
          /\ row = [d \in Dir |-> [c \in File |-> NoRow]]
    /\ op = Scheduled([o \in Op |-> None], Root, TRUE)
    /\ run = [o \in Op |-> None]
    /\ work = [w \in Worker |-> Idle]
    /\ upload = NoUpload
    /\ burst = None
    /\ clock = 0 /\ changes = 0
    /\ heard = {}
    /\ lacking = [o \in Op |-> {}]
    /\ shaken = [o \in Op |-> {}]

Shaking(kind, runs) == shaken' =
    [o \in Op |-> IF o \in runs /\ Underway(o) THEN shaken[o] \cup {kind} ELSE shaken[o]]

--------------------------------------------------------------------------
(* An operation is claimed, again when the lease of its worker lapsed. *)

Claim(w, o) ==
    /\ ~Busy(w) /\ op[o] # None /\ op[o].state \in {"queued", "running"}
    /\ MapThenSumSet(LAMBDA p : IF op[p] = None THEN 0 ELSE op[p].attempt, Op) < MaxClaims
    /\ IF op[o].attempt < MaxAttempts
       THEN /\ op' = [op EXCEPT ![o].state = "running", ![o].attempt = @ + 1]
            /\ Set(w, [op |-> o, attempt |-> op[o].attempt + 1, pc |-> "start"])
            /\ UNCHANGED heard
       ELSE /\ op' = [op EXCEPT ![o].state = "dead"]
            /\ heard' = heard \ Under(op[o].root)
            /\ UNCHANGED work
    /\ UNCHANGED <<storage, index, run, upload, burst, clock, changes, shaken>>

\* The worker stops, fails in a way that is worth a retry, or finds the run of another scan
\* (ConcurrentScanError), and hands back. To die is to be claimed from and never go on.
Stop(w) ==
    /\ Busy(w)
    /\ op' = IF Holds(w) THEN [op EXCEPT ![work[w].op].state = "queued"] ELSE op
    /\ Rest(w)
    /\ UNCHANGED <<storage, index, run, upload, burst, clock, changes, heard, shaken>>

Progress(w) == UNCHANGED <<storage, op, upload, burst, clock, changes, heard>>

\* scanning._root_folder: a path that the index does not know yet is scanned from above.
Nearest(d) == CHOOSE e \in PathTo(d) \cap known : \A f \in PathTo(d) \cap known : e \in Under(f)

\* Fault: the run of an operation that is over is left as it is.
LeftRunning(o) == run

\* scans._reconcile_stale: the run that another operation has left behind.
Superseded(o) == [p \in Op |->
    IF p \in Running \ {o} THEN [run[p] EXCEPT !.state = "failed"] ELSE run[p]]

\* An operation that resumes finds its own run.
Begun(o) ==
    IF run[o] # None THEN Superseded(o)
    ELSE [Superseded(o) EXCEPT ![o] =
             [state |-> "running", started |-> clock + 1, root |-> Nearest(op[o].root),
              frontier |-> {Nearest(op[o].root)}, blocked |-> {}]]

\* scanning._rearm, with the success of the operation.
Rearmed(o) ==
    /\ op' = Scheduled([op EXCEPT ![o].state = "succeeded"], Root, FALSE)

\* A refusal ends the run and the operation in one transaction, like a success.
Ended(w, state) ==
    /\ run' = [run EXCEPT ![work[w].op].state = IF @ = "running" THEN state ELSE @]
    /\ Rearmed(work[w].op)
    /\ Rest(w)
    /\ UNCHANGED <<storage, index, upload, burst, clock, changes, heard, shaken>>

RolledBack(w) ==
    /\ ~Holds(w) /\ Rest(w)
    /\ UNCHANGED <<storage, index, op, run, upload, burst, clock, changes, heard, shaken>>

\* A mount is away where no listing will show it: above the path of the run, or where the
\* filesystem on record is not the mounted one.
Unnoticed(d) == \E m \in away \ {Root} :
    m \in PathTo(Up[d]) \/ (m \in Under(d) /\ device[m] # "own")

ShakenFromTheStart(o) == shaken' = [shaken EXCEPT ![o] =
    IF run[o] # None THEN @ ELSE IF Unnoticed(Nearest(op[o].root)) THEN {"mount"} ELSE {}]

\* scans.start: refused while the operation of another run is not over.
Start(w) == LET o == work[w].op IN
    /\ At(w, "start")
    /\ \A p \in Running \ {o} : Terminal(p)
    /\ Identified
    /\ run' = Begun(o)
    /\ clock' = IF run[o] = None THEN clock + 1 ELSE clock
    /\ heard' = heard \ (IF run[o] = None THEN Under(Nearest(op[o].root)) ELSE {})
    /\ ShakenFromTheStart(o)
    /\ Goto(w, "walk")
    /\ UNCHANGED <<storage, index, op, upload, burst, changes>>

\* The run that a refusal inserts and fails commits only with the operation's success. Another
\* worker of the operation may find it when the storage can be identified again, and walks it.
StartRefused(w) == LET o == work[w].op IN
    /\ At(w, "start")
    /\ \A p \in Running \ {o} : Terminal(p)
    /\ ~Identified /\ Holds(w)
    /\ run' = [Begun(o) EXCEPT ![o].state = "failed"]
    /\ clock' = IF run[o] = None THEN clock + 1 ELSE clock
    /\ Rearmed(o)
    /\ heard' = heard \ Under(op[o].root)
    /\ ShakenFromTheStart(o)
    /\ Rest(w)
    /\ UNCHANGED <<storage, index, upload, burst, changes>>

--------------------------------------------------------------------------
(* The traversal: one directory, one commit. *)

\* scans.next_directory, and the listing of what it names.
Inspect(w) ==
    /\ At(w, "walk") /\ Mine(w).frontier # {}
    /\ LET d == CHOOSE e \in Mine(w).frontier : \A f \in Mine(w).frontier : Order[e] <= Order[f]
       IN  Set(w, [op |-> work[w].op, attempt |-> work[w].attempt, pc |-> "apply",
                   dir |-> d, listing |-> Listing(d), since |-> clock])
    /\ Progress(w) /\ UNCHANGED <<index, run, shaken>>

\* Rows that a sweep has written and not yet committed are locked.
RowLocked(d, c) == \E w \in Worker : At(w, "commit") /\ <<d, c>> \in work[w].trash

\* reconcile.moved_from: this content is filed where it is gone, and was not seen by this run.
Sources(c, started) == {e \in Dir :
    Live(e, c) /\ row[e][c].seen < started /\ IsGone(c, e)}

Oldest(c, es) == CHOOSE e \in es : \A f \in es : row[e][c].created <= row[f][c].created

\* reconcile.directory: stamp what was mentioned, then take in what is new.
Reconciled(d, files, started, since) ==
    LET taken(c) == Readable(c, d) /\ ~Live(d, c)
        moved(c) == taken(c) /\ row[d][c] = NoRow /\ Sources(c, started) # {}
        from(c) == Oldest(c, Sources(c, started))
    IN [e \in Dir |-> [c \in File |->
        IF c \notin files THEN row[e][c]
        ELSE IF e = d THEN
            IF Live(d, c) THEN LiveRow(started, row[d][c].created)
            ELSE IF ~taken(c) THEN row[d][c]
            ELSE IF row[d][c] # NoRow THEN LiveRow(started, row[d][c].created)
            ELSE IF moved(c) THEN LiveRow(started, row[from(c)][c].created)
            ELSE LiveRow(started, since)
        ELSE IF moved(c) /\ e = from(c) THEN NoRow
        ELSE row[e][c]]]

\* scanning._mount_vanished: another filesystem, nothing in it, and the index holds files.
MountVanished(d, listing) ==
    /\ listing.kind = "listed" /\ device[d] # None /\ device[d] # listing.device
    /\ listing.files = {} /\ listing.dirs = {}
    /\ LiveUnder(d)

\* Fault: what a directory holds is not pushed.
ChildrenLost(r, d, dirs) == [r EXCEPT !.frontier = @ \ {d}]

\* scans.push and complete_directory, which takes the row off, in whatever state the run is.
Completed(r, d, dirs) == [r EXCEPT !.frontier = (@ \cup dirs) \ {d}]

Blocking(d, listing) == listing.kind = "unreadable" \/ MountVanished(d, listing)

Blocked(r, d) == LET done == Completed(r, d, {})
                 IN  [done EXCEPT !.blocked = done.blocked \cup {d}]

Block(w) == LET d == work[w].dir IN
    /\ At(w, "apply") /\ Blocking(d, work[w].listing)
    /\ run' = [run EXCEPT ![work[w].op] = Blocked(@, d)]
    /\ Goto(w, "walk")
    /\ Progress(w) /\ UNCHANGED <<index, shaken>>

\* The files of a directory that is gone are left unstamped; that is all.
Skip(w) ==
    /\ At(w, "apply") /\ work[w].listing.kind = "missing"
    /\ run' = [run EXCEPT ![work[w].op] = Completed(@, work[w].dir, {})]
    /\ Goto(w, "walk")
    /\ Progress(w) /\ UNCHANGED <<index, shaken>>

Apply(w) ==
    LET d == work[w].dir
        l == work[w].listing IN
    /\ At(w, "apply") /\ l.kind = "listed" /\ ~MountVanished(d, l)
    /\ \A e \in Dir, c \in l.files : ~RowLocked(e, c)
    /\ row' = Reconciled(d, l.files, Mine(w).started, work[w].since)
    /\ known' = known \cup l.dirs
    /\ device' = [device EXCEPT ![d] = l.device]
    /\ run' = [run EXCEPT ![work[w].op] = Completed(@, d, l.dirs)]
    /\ Shaking("stamp", Op \ {work[w].op})
    /\ Goto(w, "walk")
    /\ Progress(w)

--------------------------------------------------------------------------
(* The sweep: what the traversal did not see is trashed. *)

TraversalEnds(w) ==
    /\ At(w, "walk") /\ Mine(w).frontier = {} /\ Identified
    /\ Goto(w, "sweep")
    /\ Progress(w) /\ UNCHANGED <<index, run, shaken>>

\* Fault: a directory that could not be read counts as empty.
SweptAnyway(r) == {}
Excluded(r) == UNION {Under(d) : d \in r.blocked}

\* files.unseen_under.
IsUnseen(r, d, c) == Live(d, c) /\ row[d][c].seen < r.started /\ row[d][c].created < r.started
Unseen(r) == {p \in (Under(r.root) \ Excluded(r)) \X File : IsUnseen(r, p[1], p[2])}

Sweep(w) ==
    /\ At(w, "sweep") /\ Unseen(Mine(w)) # {}
    /\ \A p \in Unseen(Mine(w)) : ~RowLocked(p[1], p[2])
    /\ Set(w, [op |-> work[w].op, attempt |-> work[w].attempt, pc |-> "commit",
               trash |-> Unseen(Mine(w))])
    /\ Progress(w) /\ UNCHANGED <<index, run, shaken>>

\* The marker is read once more before the batch commits.
CommitSweep(w) ==
    /\ At(w, "commit") /\ Identified
    /\ row' = [d \in Dir |-> [c \in File |->
          IF <<d, c>> \in work[w].trash THEN [row[d][c] EXCEPT !.state = "trashed"] ELSE row[d][c]]]
    /\ Shaking("stamp", Op \ {work[w].op})
    /\ Goto(w, "sweep")
    /\ Progress(w) /\ UNCHANGED <<known, device, run>>

\* scanning._refuse, before the sweep or instead of a batch of it.
Refuse(w) ==
    /\ ~Identified
    /\ At(w, "commit") \/ (At(w, "walk") /\ Mine(w).frontier = {})
    /\ Holds(w) /\ Ended(w, "failed")

Finish(w) ==
    /\ At(w, "sweep") /\ Unseen(Mine(w)) = {}
    /\ Holds(w) /\ Ended(w, "completed")

\* A worker that lost its lease commits batches like any other, and fails at the end only.
Overtaken(w) ==
    /\ \/ At(w, "sweep") /\ Unseen(Mine(w)) = {}
       \/ ~Identified /\ (At(w, "start") \/ At(w, "commit")
                          \/ (At(w, "walk") /\ Mine(w).frontier = {}))
    /\ RolledBack(w)

--------------------------------------------------------------------------
(* The doorbell. *)

\* Fault: a burst keeps the path of its first event.
FirstPath(d, e) == e

CommonAncestor(d, e) == CHOOSE f \in PathTo(d) \cap PathTo(e) :
    \A g \in PathTo(d) \cap PathTo(e) : f \in Under(g)

\* Watcher._request_scan: the scan of that path is queued, or the queued one is hastened.
\* What was heard is lost with the process, or when the database does not answer; or when
\* the queued scan is one that was interrupted, and goes on where it was.
Expedite ==
    /\ burst # None
    /\ \/ /\ op' = Expedited(Scheduled(op, burst, TRUE), burst)
          /\ heard' = IF \E o \in Op : op'[o] # None /\ op'[o].state = "queued"
                                      /\ op'[o].root = burst /\ run[o] = None
                      THEN heard ELSE heard \ Under(burst)
       \/ UNCHANGED op /\ heard' = heard \ Under(burst)
    /\ burst' = None
    /\ UNCHANGED <<storage, index, run, work, upload, clock, changes, shaken>>

\* Bursts.note: the events of late collapse to the deepest directory that covers them.
Covering(b, d) == IF b = None THEN d ELSE CommonAncestor(d, b)

Note(d) == burst' = Covering(burst, d) /\ heard' = heard \cup {d}

NoteMove(d, e) == burst' = Covering(Covering(burst, d), e) /\ heard' = heard \cup {d, e}

--------------------------------------------------------------------------
(* What happens to the storage, and an upload. *)

External(kind) ==
    /\ changes < MaxChanges /\ changes' = changes + 1
    /\ Shaking(kind, Op)
    /\ UNCHANGED <<index, op, run, work, upload, clock>>

Placed(c) == at[c] # None /\ ~Hidden(at[c])

Delete(c) ==
    /\ Placed(c)
    /\ at' = [at EXCEPT ![c] = None]
    /\ Note(at[c]) /\ External("change") /\ UNCHANGED <<there, away, denied>>

Move(c, d) ==
    /\ Placed(c) /\ at[c] # d /\ d \in there /\ ~Hidden(d)
    /\ at' = [at EXCEPT ![c] = d]
    /\ NoteMove(at[c], d) /\ External("change") /\ UNCHANGED <<there, away, denied>>

RemoveDirectory(d) ==
    /\ d # Root /\ d \in there /\ ~Hidden(d) /\ Under(d) \cap Mount = {}
    /\ there' = there \ Under(d)
    /\ at' = [c \in File |-> IF at[c] \in Under(d) THEN None ELSE at[c]]
    /\ Note(d) /\ External("change") /\ UNCHANGED <<away, denied>>

\* A root that leaves is noticed by its marker; anything else that moves under a walk is not.
Leave(m) ==
    /\ m \in Mount \ away
    /\ away' = away \cup {m}
    /\ External(IF m = Root THEN "change" ELSE "mount")
    /\ UNCHANGED <<at, there, denied, burst, heard>>

Return(m) ==
    /\ m \in away
    /\ away' = away \ {m}
    /\ External("mount")
    /\ UNCHANGED <<at, there, denied, burst, heard>>

Deny(d) ==
    /\ d \in there
    /\ denied' = IF d \in denied THEN denied \ {d} ELSE denied \cup {d}
    /\ External("change")
    /\ UNCHANGED <<at, there, away, burst, heard>>

\* now() is the beginning of the transaction, which then receives bytes.
UploadBegins(c, d) ==
    /\ upload = NoUpload
    /\ changes + 2 <= MaxChanges /\ changes' = changes + 2     \* the file and its row
    /\ at[c] = None /\ d \in known \cap there /\ ~Hidden(d) /\ row[d][c] = NoRow
    /\ upload' = [pc |-> "rename", file |-> c, dir |-> d, since |-> clock]
    /\ UNCHANGED <<storage, index, op, run, work, burst, clock, heard, shaken>>

UploadRenames == LET c == upload.file IN
    /\ upload.pc = "rename"
    /\ at[c] = None /\ upload.dir \in there /\ ~Hidden(upload.dir)
    /\ at' = [at EXCEPT ![c] = upload.dir]
    /\ upload' = [upload EXCEPT !.pc = "register"]
    /\ Shaking("change", Op)
    /\ Note(upload.dir)
    /\ UNCHANGED <<there, away, denied, index, op, run, work, clock, changes>>

\* files.register; one that finds the name taken fails, as does any other request in time.
UploadCommits == LET c == upload.file
                     d == upload.dir IN
    /\ upload.pc = "register" /\ row[d][c] = NoRow
    /\ row' = [row EXCEPT ![d][c] = LiveRow(upload.since, upload.since)]
    /\ upload' = NoUpload
    /\ Shaking("upload", {o \in Op : run[o] # None /\ upload.since < run[o].started})
    /\ UNCHANGED <<storage, known, device, op, run, work, burst, clock, changes, heard>>

\* What was renamed stays; an upload that fails before might as well not have begun.
UploadFails ==
    /\ upload.pc = "register"
    /\ upload' = NoUpload
    /\ UNCHANGED <<storage, index, op, run, work, burst, clock, changes, heard, shaken>>

--------------------------------------------------------------------------
Outside ==
    \/ \E c \in File : Delete(c) \/ \E d \in Dir : Move(c, d) \/ UploadBegins(c, d)
    \/ \E d \in Dir : RemoveDirectory(d) \/ Leave(d) \/ Return(d) \/ Deny(d)
    \/ UploadRenames \/ UploadCommits \/ UploadFails

Walking(w) == Inspect(w) \/ Block(w) \/ Skip(w) \/ Apply(w) \/ TraversalEnds(w)

Sweeping(w) == Sweep(w) \/ CommitSweep(w) \/ Refuse(w) \/ Finish(w) \/ Overtaken(w)

Steps ==
    \/ \E w \in Worker :
          \/ \E o \in Op : Claim(w, o)
          \/ Start(w) \/ StartRefused(w)
          \/ Walking(w) \/ Sweeping(w) \/ Stop(w)
    \/ Expedite
    \/ Outside

Misplaced == {p \in Dir \X File : Live(p[1], p[2]) /\ at[p[2]] # p[1]}

\* Each run remembers which live rows were out of place since it began.
Next ==
    /\ Steps
    /\ lacking' = [o \in Op |-> IF Underway(o)' THEN lacking[o] \cup Misplaced' ELSE {}]

Spec == Init /\ [][Next]_vars

--------------------------------------------------------------------------
(* What a scan promises. *)

TypeOK ==
    /\ at \in [File -> Dir \cup {None}]
    /\ row \in [Dir -> [File -> FileRow \cup {NoRow}]]
    /\ \A d \in Dir, c \in File : row[d][c] # NoRow =>
          row[d][c].seen <= clock /\ row[d][c].created <= clock /\ d \in known
    /\ device \in [Dir -> {None, "own", "bare"}]
    /\ op \in [Op -> OpRow \cup {None}] /\ run \in [Op -> RunRow \cup {None}]
    /\ \A o \in Op : run[o] # None =>
          run[o].started \in 1 .. clock /\ run[o].frontier \subseteq known
          /\ run[o].blocked \subseteq known
    /\ Cardinality(Running) <= 1
    /\ \A w \in Worker : Busy(w) /\ ~At(w, "start") => run[work[w].op] # None
    /\ burst \in Dir \cup {None}

\* Deletions are concluded by sweeps only; each names the run that made it.
Trashing(w) == At(w, "commit") /\ row' # row /\ work'[w] # work[w]

Founded(w, kinds) ==
    work[w].trash \subseteq lacking[work[w].op] \/ shaken[work[w].op] \cap kinds # {}

\* F-001/FR-16 to FR-22: whatever is unmounted or denied, whoever dies or goes on without a
\* lease, a run trashes only a file that was out of its place while the run lasted - unless a
\* mount moved under the walk, a worker of another run wrote, or an upload was older.
TrashedWasAbsent ==
    [][\A w \in Worker : Trashing(w) => Founded(w, {"mount", "stamp", "upload"})]_vars

\* "Scans are convergent": a run around which nothing else happened leaves the index saying
\* what the storage says, wherever it could look, although it was interrupted and resumed. It
\* cannot where it mistakes a mount for a missing one, as the filesystem on record is the one
\* beneath the mount and nothing is left in it.
Mistaken(r, d) == \E e \in PathTo(d) \cap r.blocked : device[e] = "bare"
Exact(r) == \A d \in Under(r.root), c \in File :
    ~Hidden(d) /\ ~Mistaken(r, d) => (Live(d, c) <=> at[c] = d)
CalmScanIsExact == [][\A o \in Op :
    o \in Running /\ run'[o].state = "completed" /\ shaken[o] = {} => Exact(run[o])']_vars

\* watcher.py: what an event was about is looked at soon - it is in the burst, or under the
\* path of a scan that is due now and has not begun - but for what is lost on the way.
EventIsAnswered == \A d \in heard :
    \/ burst # None /\ d \in Under(burst)
    \/ \E o \in Op : op[o] # None /\ ~Terminal(o) /\ op[o].due /\ run[o] = None
                    /\ d \in Under(op[o].root)

\* F-001/FR-22: "A mount that went away is never reconciled as a deletion." The code sees that
\* when it lists the mount point; not when it lists a directory below it, in a run that began
\* there or had passed the mount point before.
MountIsNotDeletion ==
    [][\A w \in Worker : Trashing(w) => Founded(w, {"stamp", "upload"})]_vars
=============================================================================
