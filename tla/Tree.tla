-------------------------------- MODULE Tree --------------------------------
(***************************************************************************)
(* The folder tree of store-everything and what it adds up to: folders.py, *)
(* files.py, trash.py and aggregates.py. Three records of one tree - the   *)
(* directories on the storage, the folder rows with their closure, and the *)
(* stored totals with their queue of unapplied changes - are changed by    *)
(* requests, by a scan, by rollups and by people who own the storage.      *)
(*                                                                         *)
(* A request is a transaction at READ COMMITTED: what it reads first may   *)
(* be old when it writes. Only folder moves and rollups take the lock of a *)
(* workspace. The three numbers of a folder are one here: the size of a    *)
(* file stands for its count and its bytes. A workspace is its root.       *)
(***************************************************************************)
EXTENDS Closure, FiniteSets, Functions, TLC

CONSTANTS
    Folder,       \* folder rows
    Root,         \* those that are workspace roots
    Name,         \* directory names
    File,         \* files; a file's id stands for its name
    Request,      \* transactions in flight
    Size,         \* sizes of a version
    BATCH,        \* deltas a drain claims
    BATCHES_PER_RUN, \* drains of a rollup
    MaxChanges,   \* uploads, requests and outside changes; what a scan does of them is free
    None          \* no folder, no holder

\* A row of table folder, and one of table file with its current version.
FolderRow == [parent : Folder \cup {None}, ws : Root, name : Name]
FileRow == [at : Folder, state : {"live", "trashed"}, size : Size]

Rollup == "rollup"   \* the holder of a lock that a rollup has taken

\* Ids are those of one table, and no row is absent; a table holds finitely many rows.
ASSUME TreeAssumption ==
    /\ Root \subseteq Folder /\ Root # {} /\ IsFiniteSet(Folder) /\ IsFiniteSet(File)
    /\ File \cap Folder = {} /\ Rollup \notin Request
    /\ None \notin Folder /\ None \notin Request \cup {Rollup}
    /\ None \notin FolderRow /\ None \notin FileRow
    /\ Size \subseteq Nat \ {0} /\ BATCH \in Nat \ {0} /\ BATCHES_PER_RUN \in Nat \ {0}
    /\ MaxChanges \in Nat

VARIABLES
    folder,    \* rows of table folder: parent, ws, name; or None
    links,     \* table folder_closure
    disk,      \* paths of the directories and files on the storage
    file,      \* rows of table file with their current version: at, state, size
    stored,    \* table folder_aggregate
    queue,     \* table folder_delta in the order of its ids
    lock,      \* holder of each workspace's advisory lock
    req,       \* the transactions in flight
    roll,      \* the rollup under way: its batches done, the folders it checks
    fresh,     \* folders and files registered since the latest scan began
    relocated, \* table scan_relocation of that scan: file, from, to
    missing,   \* folders whose directories its traversal did not find
    changes,   \* history: how many changes were begun
    stale      \* history: the kinds of write that rested on a stale read

vars == <<folder, links, disk, file, stored, queue, lock, req, roll, fresh,
          relocated, missing, changes, stale>>

rows == <<folder, links, file>>
totals == <<stored, queue>>
scan == <<fresh, relocated, missing>>
background == <<lock, roll, scan>>

Idle == [pc |-> "idle"]
Asleep == [pc |-> "asleep", ws |-> None, batches |-> 0, checked |-> {}]

Exists(f) == folder[f] # None
Parent == [f \in Folder |-> IF Exists(f) THEN folder[f].parent ELSE None]
Nodes == {f \in Folder : Exists(f)}
ChildNamed(p, n) == \E f \in Nodes : folder[f].parent = p /\ folder[f].name = n
Live(g) == file[g] # None /\ file[g].state = "live"

Under(f) == {g \in File : Live(g) /\ file[g].at \in Subtree(links, f)}

Sum(fs) == SumFunction([g \in fs |-> file[g].size])

Delta(w, f, n) == [ws |-> w, folder |-> f, amount |-> n]

\* aggregates.record: nothing is queued for a change of nothing.
Queued(w, f, n) == IF n = 0 THEN <<>> ELSE <<Delta(w, f, n)>>

\* What a delta adds to folder f, and what some of a queue's deltas add to it.
Share(d, f, lk) == IF Covers(lk, f, d.folder) THEN d.amount ELSE 0
Shares(deltas, ids, f, lk) == SumFunction([i \in ids |-> Share(deltas[i], f, lk)])
Amount(deltas, f, lk) == Shares(deltas, DOMAIN deltas, f, lk)

Pending(f) == \E i \in DOMAIN queue : Covers(links, f, queue[i].folder)

--------------------------------------------------------------------------
(* The storage. *)

PathOf(f) == LET up == Ancestry(links, f) IN
    [i \in DOMAIN up |-> IF folder[up[i]].parent = None THEN up[i] ELSE folder[up[i]].name]

\* The same place under the root directory that a request has looked up.
Within(w, f) == <<w>> \o Tail(PathOf(f))

EntryOf(g) == PathOf(file[g].at) \o <<g>>

\* filestore.move_entry: no replacing, no missing parent, not into itself.
Renameable(src, dst) ==
    src \in disk /\ dst \notin disk /\ Front(dst) \in disk /\ ~IsPrefix(src, dst)

Renamed(src, dst) ==
    {IF IsPrefix(src, p) THEN dst \o SubSeq(p, Len(src) + 1, Len(p)) ELSE p : p \in disk}

--------------------------------------------------------------------------
(* A workspace that has been used: folders are nested, files are in them,  *)
(* and every change so far is in the totals.                               *)

Above(parent) ==
    LET up[k \in 0 .. Cardinality(Folder)] ==
            IF k = 0 THEN [f \in Folder |-> f]
            ELSE [f \in Folder |-> IF up[k-1][f] = None THEN None ELSE parent[up[k-1][f]]]
    IN  up

Settled(fs, lk) == [f \in Folder |->
    SumFunction([g \in {h \in File : fs[h] # None /\ Covers(lk, f, fs[h].at)} |-> fs[g].size])]

Init ==
    /\ \E parent \in [Folder -> Folder \cup {None}], present \in SUBSET Folder,
          name \in [Folder -> Name] :
          /\ Root \subseteq present
          /\ \A f \in Folder : parent[f] = None <=> f \in Root \/ f \notin present
          /\ \A f \in present \ Root : parent[f] \in present
          /\ LET up == Above(parent) IN
             /\ \A f \in present : \E k \in DOMAIN up : up[k][f] \in Root
             /\ folder = [f \in Folder |-> IF f \notin present THEN None ELSE
                    [parent |-> parent[f], name |-> name[f],
                     ws |-> CHOOSE r \in Root : \E k \in DOMAIN up : up[k][f] = r]]
             /\ links = UNION {{Link(up[k][f], f, k) : k \in {j \in DOMAIN up : up[j][f] # None}} :
                               f \in present}
          /\ \A f, g \in present \ Root : f # g /\ parent[f] = parent[g] => name[f] # name[g]
          \* a spare row is not told apart by a name
          /\ \A f \in Folder : f \in Root \/ f \notin present => name[f] = CHOOSE n \in Name : TRUE
    /\ \E at \in [File -> Nodes \cup {None}], size \in [File -> Size] :
          file = [g \in File |-> IF at[g] = None THEN None
                                 ELSE [at |-> at[g], state |-> "live", size |-> size[g]]]
    /\ disk = {PathOf(f) : f \in Nodes} \cup {EntryOf(g) : g \in {h \in File : Live(h)}}
    /\ stored = Settled(file, links)
    /\ queue = <<>>
    /\ lock = [r \in Root |-> None]
    /\ req = [q \in Request |-> Idle]
    /\ roll = Asleep
    /\ fresh = {} /\ relocated = {} /\ missing = {}
    /\ changes = 0
    /\ stale = {}

Change == changes < MaxChanges /\ changes' = changes + 1

Begin(q, record) == req[q] = Idle /\ req' = [req EXCEPT ![q] = record]

Goto(q, pc) == req' = [req EXCEPT ![q].pc = pc]
Done(q) == req' = [req EXCEPT ![q] = Idle]
At(q, kind, pc) == req[q].pc = pc /\ req[q].kind = kind

Unlocked(q) == [r \in Root |-> IF lock[r] = q THEN None ELSE lock[r]]

StaleIf(kind, condition) == stale' = IF condition THEN stale \cup {kind} ELSE stale

--------------------------------------------------------------------------
(* folders.create, ensure_path, ensure_child: directories, then rows.      *)

CreateBegin(q, f, p, n) ==
    /\ Change
    /\ Exists(p) /\ ~Exists(f) /\ ~ChildNamed(p, n)
    /\ \A o \in Request : req[o] # Idle => req[o].f # f
    /\ Begin(q, [kind |-> "create", pc |-> "mkdir", f |-> f, p |-> p, n |-> n,
                 ws |-> folder[p].ws, path |-> Append(PathOf(p), n)])
    /\ UNCHANGED <<rows, totals, background, disk, stale>>

MakeDirectories(q) ==
    /\ At(q, "create", "mkdir")
    /\ disk' = disk \cup (Prefixes(req[q].path) \ {<<>>})
    /\ Goto(q, "insert")
    /\ UNCHANGED <<rows, totals, background, changes, stale>>

\* A scan finds a directory in a listing, and makes no directory.
AdoptBegin(q, f, p, n) ==
    /\ req[q] = Idle /\ ~Exists(f) /\ Exists(p) /\ ~ChildNamed(p, n) /\ Append(PathOf(p), n) \in disk
    /\ \A o \in Request : req[o] # Idle => req[o].f # f
    /\ Begin(q, [kind |-> "create", pc |-> "insert", f |-> f, p |-> p, n |-> n,
                 ws |-> folder[p].ws, path |-> <<>>])
    /\ UNCHANGED <<rows, totals, background, disk, changes, stale>>

\* Rows that a move has updated in a key column are locked against new children, and the
\* name it has given against a second row.
KeyLocked(p, n) == \E q \in Request :
    /\ At(q, "move", "commit")
    /\ \/ p = req[q].f \/ (req[q].ws # req[q].pws /\ p \in req[q].subtree)
       \/ p = req[q].p /\ n = req[q].n

Inserting(ws, p, n) == \E q \in Request :
    At(q, "create", "commit") /\ req[q].ws = ws /\ req[q].p = p /\ req[q].n = n

\* The insert converges on a row of the same name that was committed meanwhile.
InsertFolder(q) == LET r == req[q] IN
    /\ At(q, "create", "insert")
    /\ ~KeyLocked(r.p, r.n) /\ ~Inserting(r.ws, r.p, r.n)
    /\ IF \E f \in Nodes : folder[f] = [parent |-> r.p, ws |-> r.ws, name |-> r.n]
       THEN Done(q)
       ELSE req' = [req EXCEPT ![q] = [kind |-> "create", pc |-> "commit", f |-> r.f, p |-> r.p,
                        n |-> r.n, ws |-> r.ws, links |-> NewLinks(links, r.f, r.p)]]
    /\ UNCHANGED <<rows, totals, background, disk, changes, stale>>

\* Stale when the ancestors are being, or have been, rewritten since they were copied.
CommitFolder(q) == LET r == req[q] IN
    /\ At(q, "create", "commit")
    /\ folder' = [folder EXCEPT ![r.f] = [parent |-> r.p, ws |-> r.ws, name |-> r.n]]
    /\ links' = links \cup r.links
    /\ stored' = [stored EXCEPT ![r.f] = 0]
    /\ fresh' = fresh \cup {r.f}
    /\ StaleIf("create",
          \/ r.links # NewLinks(links, r.f, r.p) \/ r.ws # folder[r.p].ws
          \/ \E o \in Request : At(o, "move", "commit") /\ r.p \in req[o].subtree)
    /\ Done(q)
    /\ UNCHANGED <<file, disk, queue, lock, roll, relocated, missing, changes>>

--------------------------------------------------------------------------
(* folders.relocate: checks, then the lock, then the storage, then rows.   *)

MoveBegin(q, f, p, n) ==
    /\ Change
    /\ Exists(f) /\ Exists(p) /\ folder[f].parent # None
    /\ ~Covers(links, f, p) /\ ~ChildNamed(p, n)
    /\ Begin(q, [kind |-> "move", pc |-> "lock", f |-> f, p |-> p, n |-> n,
                 parent |-> folder[f].parent, ws |-> folder[f].ws, pws |-> folder[p].ws])
    /\ UNCHANGED <<rows, totals, background, disk, stale>>

\* Paths are read under the lock; the row, the parent and their roots were read before it.
MoveOnDisk(q) == LET r == req[q]
                     src == Within(r.ws, r.f)
                     dst == Append(Within(r.pws, r.p), r.n) IN
    /\ At(q, "move", "lock") /\ lock[r.ws] = None /\ lock[r.pws] = None
    /\ \/ /\ Renameable(src, dst)
          /\ disk' = Renamed(src, dst)
          /\ lock' = [lock EXCEPT ![r.ws] = q, ![r.pws] = q]
          /\ req' = [req EXCEPT ![q] = [kind |-> "move", pc |-> "commit", f |-> r.f, p |-> r.p,
                n |-> r.n, parent |-> r.parent, ws |-> r.ws, pws |-> r.pws,
                subtree |-> Subtree(links, r.f),
                cut |-> Outside(links, r.f),
                added |-> Attaching(links \ Outside(links, r.f), r.f, r.p)]]
       \/ ~Renameable(src, dst) /\ Done(q) /\ UNCHANGED <<disk, lock>>
    /\ UNCHANGED <<rows, totals, roll, scan, changes, stale>>

\* Deltas queued under the subtree follow it into another workspace.
Retagged(r) == [i \in DOMAIN queue |->
    IF r.ws # r.pws /\ queue[i].ws = r.ws /\ queue[i].folder \in r.subtree
    THEN [queue[i] EXCEPT !.ws = r.pws] ELSE queue[i]]

\* aggregates.stored: what a move shifts. The truth would count queued deltas twice.
CountedFromFiles(f) == Sum(Under(f))
Carried(f) == stored[f]

\* The rows of a moved folder and, into another workspace, of its subtree.
LeftBehind(r) == [folder EXCEPT ![r.f] =
    [parent |-> r.p, name |-> r.n, ws |-> IF r.ws = r.pws THEN @.ws ELSE r.pws]]
Rehomed(r) == [f \in Folder |->
    IF f = r.f THEN [parent |-> r.p, name |-> r.n,
                     ws |-> IF r.ws = r.pws THEN folder[f].ws ELSE r.pws]
    ELSE IF r.ws # r.pws /\ f \in r.subtree THEN [folder[f] EXCEPT !.ws = r.pws]
    ELSE folder[f]]

\* Stale when the folder was moved on since it was read: "lock" when out of a workspace it holds.
\* Refused by constraints: links that make a folder its own ancestor, and a delta of a
\* folder that is gone.
MoveCommit(q) == LET r == req[q] IN
    /\ At(q, "move", "commit")
    /\ \A o \in Request : At(o, "create", "commit") =>
          req[o].p # r.f /\ (r.ws # r.pws => req[o].p \notin r.subtree)
    /\ ~ChildNamed(r.p, r.n) /\ ~Inserting(r.pws, r.p, r.n)
    /\ r.p \notin r.subtree /\ (Carried(r.f) # 0 => Exists(r.parent))
    /\ links' = (links \ r.cut) \cup r.added
    /\ folder' = Rehomed(r)
    /\ queue' = Retagged(r) \o Queued(r.ws, r.parent, -Carried(r.f))
                            \o Queued(r.pws, r.p, Carried(r.f))
    /\ lock' = Unlocked(q)
    /\ stale' = stale \cup {kind \in {"move", "lock"} :
          IF kind = "move" THEN r.parent # folder[r.f].parent
          ELSE r.ws # folder[r.f].ws \/ r.pws # folder[r.p].ws}
    /\ Done(q)
    /\ UNCHANGED <<file, disk, stored, roll, scan, changes>>

--------------------------------------------------------------------------
(* Files: uploads, new content, moves, deletions found by a scan.          *)

Register(g, d, size) ==
    /\ file[g] = None /\ Change /\ Exists(d)
    /\ file' = [file EXCEPT ![g] = [at |-> d, state |-> "live", size |-> size]]
    /\ disk' = disk \cup (Prefixes(Append(PathOf(d), g)) \ {<<>>})
    /\ queue' = queue \o Queued(folder[d].ws, d, size)
    /\ fresh' = fresh \cup {g}
    /\ UNCHANGED <<folder, links, stored, lock, roll, relocated, missing, req, stale>>

FileMoveBegin(q, g, d) ==
    /\ Change
    /\ Live(g) /\ Exists(d) /\ file[g].at # d
    /\ Begin(q, [kind |-> "file", pc |-> "rename", f |-> None, g |-> g, at |-> file[g].at,
                 ws |-> folder[file[g].at].ws, to |-> d, tows |-> folder[d].ws])
    /\ UNCHANGED <<rows, totals, background, disk, stale>>

FileMoveOnDisk(q) == LET r == req[q]
                         src == Append(Within(r.ws, r.at), r.g)
                         dst == Append(Within(r.tows, r.to), r.g) IN
    /\ At(q, "file", "rename")
    /\ \/ Renameable(src, dst) /\ disk' = Renamed(src, dst) /\ Goto(q, "commit")
       \/ ~Renameable(src, dst) /\ Done(q) /\ UNCHANGED disk
    /\ UNCHANGED <<rows, totals, background, changes, stale>>

\* The composite foreign key refuses a folder of another workspace than the file's.
FileMoveCommit(q) == LET r == req[q] IN
    /\ At(q, "file", "commit")
    /\ folder[r.to].ws = IF r.ws = r.tows THEN folder[file[r.g].at].ws ELSE r.tows
    /\ file' = [file EXCEPT ![r.g].at = r.to]
    /\ queue' = IF ~Live(r.g) THEN queue ELSE
          queue \o Queued(r.ws, r.at, -file[r.g].size) \o Queued(folder[r.to].ws, r.to, file[r.g].size)
    /\ StaleIf("file", file[r.g].at # r.at \/ folder[r.at].ws # r.ws)
    /\ Done(q)
    /\ UNCHANGED <<folder, links, disk, stored, background, changes>>

VersionBegin(q, g) ==
    /\ Change
    /\ file[g] # None
    /\ Begin(q, [kind |-> "version", pc |-> "commit", f |-> None, g |-> g, at |-> file[g].at,
                 ws |-> folder[file[g].at].ws, live |-> Live(g)])
    /\ UNCHANGED <<rows, totals, background, disk, stale>>

AddVersion(q, size) == LET r == req[q] IN
    /\ At(q, "version", "commit") /\ size # file[r.g].size
    /\ file' = [file EXCEPT ![r.g].size = size]
    /\ queue' = IF r.live THEN queue \o Queued(r.ws, r.at, size - file[r.g].size) ELSE queue
    /\ StaleIf("file", \/ file[r.g].at # r.at \/ folder[r.at].ws # r.ws
                       \/ Live(r.g) # r.live)
    /\ Done(q)
    /\ UNCHANGED <<folder, links, disk, stored, background, changes>>

\* A finished traversal did not find the file; reconcile.sweep_batch reads its row.
TrashBegin(q, g) ==
    /\ Live(g) /\ EntryOf(g) \notin disk
    /\ Begin(q, [kind |-> "trash", pc |-> "commit", f |-> None, g |-> g, at |-> file[g].at,
                 ws |-> folder[file[g].at].ws])
    /\ UNCHANGED <<rows, totals, background, disk, changes, stale>>

Trash(q) == LET r == req[q] IN
    /\ At(q, "trash", "commit") /\ Live(r.g)
    /\ file' = [file EXCEPT ![r.g].state = "trashed"]
    /\ queue' = queue \o Queued(r.ws, r.at, -file[r.g].size)
    /\ StaleIf("file", file[r.g].at # r.at \/ folder[r.at].ws # r.ws)
    /\ Done(q)
    /\ UNCHANGED <<folder, links, disk, stored, background, changes>>

Reactivate(g) ==
    /\ file[g] # None /\ ~Live(g) /\ EntryOf(g) \in disk
    /\ file' = [file EXCEPT ![g].state = "live"]
    /\ queue' = queue \o Queued(folder[file[g].at].ws, file[g].at, file[g].size)
    /\ UNCHANGED <<folder, links, disk, stored, background, req, changes, stale>>

\* reconcile.directory: content whose own path is gone turned up in another folder.
FileFollows(g, d) ==
    /\ Live(g) /\ Exists(d) /\ file[g].at # d
    /\ folder[d].ws = folder[file[g].at].ws
    /\ EntryOf(g) \notin disk /\ Append(PathOf(d), g) \in disk
    /\ file' = [file EXCEPT ![g].at = d]
    /\ queue' = queue \o Queued(folder[d].ws, file[g].at, -file[g].size)
                      \o Queued(folder[d].ws, d, file[g].size)
    /\ relocated' = relocated \cup {<<g, file[g].at, d>>}
    /\ UNCHANGED <<folder, links, disk, stored, lock, roll, fresh, missing, req, changes, stale>>

\* A transaction ends early: rolled back, its locks released, what it did to the storage
\* stays. One that has done nothing there might as well not have begun.
Lost(q) ==
    /\ req[q] # Idle /\ req[q].kind \in {"create", "move", "file"}
    /\ req[q].pc \in {"insert", "commit"}
    /\ Done(q)
    /\ lock' = Unlocked(q)
    /\ UNCHANGED <<rows, totals, disk, roll, scan, changes, stale>>

--------------------------------------------------------------------------
(* What the owner of the storage does, and how a scan follows a folder.    *)

ExternalMove(f, p, n) == LET src == PathOf(f)
                             dst == Append(PathOf(p), n) IN
    /\ Change /\ Exists(f) /\ folder[f].parent # None /\ Exists(p)
    /\ folder[f].ws = folder[p].ws
    /\ Renameable(src, dst)
    /\ disk' = Renamed(src, dst)
    /\ UNCHANGED <<rows, totals, background, req, stale>>

ExternalDelete(g) ==
    /\ Change /\ Live(g) /\ EntryOf(g) \in disk
    /\ disk' = disk \ {EntryOf(g)}
    /\ UNCHANGED <<rows, totals, background, req, stale>>

\* folders.vanished, as far as the traversal decides it.
TraversalEnds ==
    /\ relocated # {} /\ missing = {}
    /\ missing' = {f \in Nodes \ (Root \cup fresh) : PathOf(f) \notin disk}
    /\ missing' # {}
    /\ UNCHANGED <<rows, totals, disk, lock, req, roll, fresh, relocated, changes, stale>>

\* reconcile._majority over files: more than half of what x held when the scan began.
Majority(x, y) ==
    LET left == {m \in relocated : m[2] = x}
        kept == {g \in File \ fresh : file[g] # None /\ file[g].at = x}
    IN  2 * Cardinality({m \in left : m[3] = y}) > Cardinality(left) + Cardinality(kept)

Claim(x, y) ==
    /\ x \in missing /\ Exists(x) /\ y \in fresh /\ Exists(y) /\ ~Covers(links, x, y)
    /\ folder[x].ws = folder[y].ws /\ Majority(x, y)
    /\ \A g \in File : Live(g) /\ file[g].at = x => EntryOf(g) \in disk   \* swept

\* folders.absorb: the children of y hang under x, one after the other.
Absorbed(lk, x, y) ==
    FoldSet(LAMBDA c, acc : Moved(acc, c, x), lk, {c \in Nodes : folder[c].parent = y})

Namesakes(x, y) == \E c, d \in Nodes :
    folder[c].parent = x /\ folder[d].parent = y /\ folder[c].name = folder[d].name

\* aggregates.repoint: the queued deltas of y, whose row is about to go.
LeftQueued(x, y) == queue
Repointed(x, y) == [i \in DOMAIN queue |->
    IF queue[i].folder = y THEN [queue[i] EXCEPT !.folder = x] ELSE queue[i]]

\* Rows that a transaction under way refers to are not deleted under it.
Busy(f) == \E q \in Request :
    \/ \E k \in DOMAIN req[q] \cap {"f", "p", "at", "to"} : req[q][k] = f
    \/ \E k \in DOMAIN req[q] \cap {"links", "added"} : \E l \in req[q][k] : f \in {l[1], l[2]}

\* reconcile._transfer, in one transaction under the workspace's lock. Nothing asks whether y
\* contains x; the constraints of folder_closure refuse the rows, and the whole pass with them.
TransferIdentity(x, y) ==
    LET w == folder[x].ws
        p == folder[y].parent
        owed == Amount(queue, x, links)
        without == {l \in Absorbed(links, x, y) : y \notin {l[1], l[2]}}
    IN
    /\ Claim(x, y) /\ lock[w] = None /\ ~Namesakes(x, y)
    /\ ~Covers(links, y, x) /\ folder[x].parent # y /\ ~Covers(links, x, p)
    /\ ~Busy(x) /\ ~Busy(y)
    /\ stored' = [stored EXCEPT ![x] = @ + stored[y], ![y] = 0]
    /\ file' = [g \in File |-> IF file[g] # None /\ file[g].at = y
                               THEN [file[g] EXCEPT !.at = x] ELSE file[g]]
    /\ links' = IF folder[x].parent = p THEN without ELSE Moved(without, x, p)
    /\ folder' = [f \in Folder |->
          IF f = y THEN None
          ELSE IF f = x THEN [folder[x] EXCEPT !.parent = p, !.name = folder[y].name]
          ELSE IF Exists(f) /\ folder[f].parent = y THEN [folder[f] EXCEPT !.parent = x]
          ELSE folder[f]]
    /\ queue' = Repointed(x, y) \o (IF folder[x].parent = p THEN <<>> ELSE
          Queued(w, folder[x].parent, owed) \o Queued(w, p, -owed))
    /\ missing' = missing \ {x}
    /\ fresh' = fresh \ {y}
    /\ relocated' = {m \in relocated : m[2] # x}
    /\ StaleIf("late", \E g \in File : Live(g) /\ file[g].at \in Subtree(links, x))
    /\ UNCHANGED <<disk, lock, req, roll, changes>>

--------------------------------------------------------------------------
(* aggregates.roll_up: drain by batches, each its own commit, then verify. *)

\* The first deltas of the workspace, in the order of their ids.
Claimed(w) ==
    LET mine == {i \in DOMAIN queue : queue[i].ws = w}
        rank(i) == Cardinality({j \in mine : j <= i})
    IN  {i \in mine : rank(i) <= BATCH}

Rolled(w) == [f \in Folder |-> stored[f] + Shares(queue, Claimed(w), f, links)]

\* CHECK (total_files >= 0) refuses the whole statement.
Refused(w) == \E f \in Folder : Rolled(w)[f] < 0

\* A run of workspace w that may drain another batch.
Draining(w) == roll = Asleep \/ (roll.pc = "draining" /\ roll.ws = w)

DrainBatch(w) ==
    /\ Draining(w) /\ roll.batches < BATCHES_PER_RUN
    /\ lock[w] = None /\ Claimed(w) # {} /\ ~Refused(w)
    /\ stored' = Rolled(w)
    /\ queue' = FoldLeftDomain(LAMBDA kept, i :
          IF i \in Claimed(w) THEN kept ELSE Append(kept, queue[i]), <<>>, queue)
    /\ roll' = [pc |-> "draining", ws |-> w, batches |-> roll.batches + 1, checked |-> {}]
    /\ UNCHANGED <<rows, disk, lock, req, scan, changes, stale>>

\* Fault: a run that finds nothing to drain returns.
DrainedSomething(w) == roll.batches > 0 /\ Claimed(w) = {}

ClaimIsEmpty(w) == Claimed(w) = {}

\* The folders whose totals nothing queued is about to change.
Checkable(w) == {f \in Nodes : folder[f].ws = w /\ ~Pending(f)}

\* aggregates.verify, its first statement. An empty claim keeps the lock; the commit
\* of the last batch that a run may drain has released it.
ChooseFolders(w) ==
    /\ Draining(w)
    /\ \/ roll.batches < BATCHES_PER_RUN /\ lock[w] = None /\ ClaimIsEmpty(w)
          /\ lock' = [lock EXCEPT ![w] = Rollup]
       \/ roll.batches = BATCHES_PER_RUN /\ UNCHANGED lock
    /\ roll' = [roll EXCEPT !.pc = "checking", !.ws = w, !.checked = Checkable(w)]
    /\ UNCHANGED <<rows, totals, disk, req, scan, changes, stale>>

Truth(f) == Sum(Under(f))

\* aggregates.verify, the rest: the ground truth of the moment replaces what differs.
Correct ==
    /\ roll.pc = "checking"
    /\ stored' = [f \in Folder |-> IF f \in roll.checked /\ Exists(f) THEN Truth(f) ELSE stored[f]]
    /\ lock' = Unlocked(Rollup)
    /\ roll' = Asleep
    /\ StaleIf("verify", \E f \in roll.checked :
                            Exists(f) /\ Pending(f) /\ stored[f] # Truth(f))
    /\ UNCHANGED <<rows, queue, disk, req, scan, changes>>

\* The worker dies, or a drain is refused: the batches that were committed stay.
RollupEnds ==
    /\ roll # Asleep
    /\ roll' = Asleep
    /\ lock' = Unlocked(Rollup)
    /\ UNCHANGED <<rows, totals, disk, req, scan, changes, stale>>

--------------------------------------------------------------------------
Handling(q) ==
    \/ MakeDirectories(q) \/ InsertFolder(q) \/ CommitFolder(q)
    \/ MoveOnDisk(q) \/ MoveCommit(q)
    \/ FileMoveOnDisk(q) \/ FileMoveCommit(q)
    \/ \E size \in Size : AddVersion(q, size)
    \/ Trash(q)

Arriving(q) ==
    \/ \E f, p \in Folder, n \in Name :
          CreateBegin(q, f, p, n) \/ AdoptBegin(q, f, p, n) \/ MoveBegin(q, f, p, n)
    \/ \E g \in File, d \in Folder : FileMoveBegin(q, g, d)
    \/ \E g \in File : VersionBegin(q, g) \/ TrashBegin(q, g)

Reconciling ==
    \/ \E g \in File, d \in Folder, size \in Size : Register(g, d, size)
    \/ \E g \in File, d \in Folder : FileFollows(g, d)
    \/ \E g \in File : Reactivate(g)
    \/ TraversalEnds
    \/ \E x, y \in Folder : TransferIdentity(x, y)

Next ==
    \/ \E q \in Request : Arriving(q) \/ Handling(q) \/ Lost(q)
    \/ Reconciling
    \/ \E f, p \in Folder, n \in Name : ExternalMove(f, p, n)
    \/ \E g \in File : ExternalDelete(g)
    \/ \E w \in Root : DrainBatch(w) \/ ChooseFolders(w)
    \/ Correct \/ RollupEnds

\* Statements finish. The janitor arms a rollup of every workspace each hour, and a
\* rollup that ran on without losing its worker comes to its end again and again.
Fairness ==
    /\ \A q \in Request : WF_vars(Handling(q) \/ Lost(q))
    /\ \A w \in Root : /\ SF_vars(DrainBatch(w) \/ ChooseFolders(w))
                      /\ SF_vars(roll.ws = w /\ Correct)

Spec == Init /\ [][Next]_vars
FairSpec == Spec /\ Fairness

--------------------------------------------------------------------------
(* What the tree has to be. *)

TypeOK ==
    /\ \A f \in Nodes : /\ folder[f].parent \in Nodes \cup {None} /\ folder[f].ws \in Root
                        /\ folder[f].parent = None <=> f \in Root
    /\ links \subseteq Nodes \X Nodes \X Nat
    /\ \A g \in File : file[g] = None \/ file[g].at \in Nodes
    /\ stored \in [Folder -> Nat]
    /\ \A i \in DOMAIN queue : queue[i].folder \in Nodes /\ queue[i].amount # 0
    /\ \A r \in Root : lock[r] \in Request \cup {None, Rollup}

\* The closure is exactly what the parents make it, and the parents make a tree, whatever
\* moves, creations, transfers and outside renames do to one another - but for a creation
\* under a folder whose ancestors were rewritten after it had copied them, and for a second
\* move of one folder, which holds the lock of the workspace that the folder has left.
ClosureIsTree == stale \cap {"create", "lock"} = {} => ClosureOf(links, Nodes, Parent)

\* A folder is in the workspace of its parent, so a file cannot get into another's tree - but
\* for a creation or a second move as above.
OneWorkspace == stale \cap {"create", "lock"} = {} =>
    \A f \in Nodes \ Root : folder[f].ws = folder[folder[f].parent].ws

Balance(f) == stored[f] + Amount(queue, f, links)

\* A folder's stored total and the changes still queued beneath it always make the sizes of
\* the live files under it - unless a write rested on a row that another has changed since.
TotalsAddUp == stale = {} => \A f \in Nodes : Balance(f) = Truth(f)

\* However the totals came to be wrong, rollups mend them once the tree is left alone: the
\* queue runs empty and every total is the truth - or a drain is refused for ever.
DriftIsRepaired == <>[](\/ queue = <<>> /\ \A f \in Nodes : stored[f] = Truth(f)
                        \/ \E w \in Root : Refused(w))
=============================================================================
