------------------------------ MODULE ScanProofs ------------------------------
(***************************************************************************)
(* Proofs about Scan, for any tree of directories, mounts, files, workers  *)
(* and operations.                                                         *)
(***************************************************************************)
EXTENDS Scan, FiniteSetTheorems, WellFoundedInduction, TLAPS

(* Every set of numbers has a least one.                                   *)
LEMMA Least ==
    ASSUME NEW T \in SUBSET Nat, T # {}
    PROVE  \E n \in T : \A m \in T : n <= m
<1> DEFINE R == OpToRel(<, Nat)
<1>1. IsWellFoundedOn(R, Nat)
  BY NatLessThanWellFounded
<1>2. \A m, n \in Nat : m < n => <<m, n>> \in R
  BY DEF OpToRel
<1> HIDE DEF R
<1>3. PICK n \in T : \A m \in T : ~(<<m, n>> \in R)
  BY <1>1, WFMin
<1>4. \A m \in T : ~(m < n)
  BY <1>2, <1>3
<1>5. QED
  BY <1>4

-----------------------------------------------------------------------------
(* The directories. What Path computes is the least set of directories     *)
(* that has one and is closed under Up.                                    *)

Closed(s) == \A d \in s : d # Root => Up[d] \in s

Above(d) == {e \in Dir : \A s \in SUBSET Dir : d \in s /\ Closed(s) => e \in s}

LEMMA UpIsDir ==
    /\ Root \in Dir /\ None \notin Dir /\ Up[Root] = None
    /\ \A d \in Dir : Order[d] \in Nat
    /\ \A d \in Dir : d # Root => Up[d] \in Dir /\ Up[d] # None
    /\ \A d \in Dir : d # Root => Order[d] \in Nat /\ Order[Up[d]] \in Nat /\ Order[Up[d]] < Order[d]
BY ScanAssumption

LEMMA AboveUnfolds ==
    ASSUME NEW d \in Dir
    PROVE  Above(d) = IF Up[d] = None THEN {d} ELSE {d} \cup Above(Up[d])
<1>1. CASE d = Root
  <2>1. {Root} \in SUBSET Dir /\ Closed({Root})
    BY UpIsDir DEF Closed
  <2>2. Above(Root) = {Root}
    BY <2>1, UpIsDir DEF Above
  <2>3. QED
    BY <1>1, <2>2, UpIsDir
<1>2. CASE d # Root
  <2>1. Up[d] \in Dir /\ Up[d] # None
    BY <1>2, UpIsDir
  <2>2. Above(Up[d]) \in SUBSET Dir /\ Closed(Above(Up[d]))
    BY UpIsDir DEF Above, Closed
  <2>3. Up[d] \in Above(Up[d])
    BY <2>1 DEF Above
  <2>4. Closed({d} \cup Above(Up[d]))
    BY <2>2, <2>3 DEF Closed
  <2>5. {d} \cup Above(Up[d]) \in SUBSET Dir
    BY <2>2
  <2>6. Above(d) \subseteq {d} \cup Above(Up[d])
    BY <2>4, <2>5 DEF Above
  <2>7. \A s \in SUBSET Dir : d \in s /\ Closed(s) => Up[d] \in s
    BY <1>2 DEF Closed
  <2>8. {d} \cup Above(Up[d]) \subseteq Above(d)
    BY <2>7 DEF Above
  <2>9. QED
    BY <2>1, <2>6, <2>8
<1>3. QED
  BY <1>1, <1>2

LEMMA PathUnfolds ==
    \A d \in Dir : Path[d] = IF Up[d] = None THEN {d} ELSE {d} \cup Path[Up[d]]
<1> DEFINE Is(f) == f = [d \in Dir |-> IF Up[d] = None THEN {d} ELSE {d} \cup f[Up[d]]]
           above == [d \in Dir |-> Above(d)]
<1>1. Is(above)
  <2>1. \A d \in Dir : Up[d] # None => above[Up[d]] = Above(Up[d])
    BY UpIsDir
  <2>2. \A d \in Dir : Above(d) = IF Up[d] = None THEN {d} ELSE {d} \cup above[Up[d]]
    BY <2>1, AboveUnfolds
  <2>3. QED
    BY <2>2
<1> HIDE DEF above
<1>2. Is(CHOOSE f : Is(f))
  BY <1>1
<1>3. Is(Path)
  BY <1>2 DEF Path
<1>4. QED
  BY <1>3

(* What holds of the root and of what is in a directory that it holds of   *)
(* holds of every directory.                                               *)
LEMMA PathInduction ==
    ASSUME NEW S \in SUBSET Dir, Root \in S,
           \A d \in Dir : d # Root /\ Up[d] \in S => d \in S
    PROVE  S = Dir
<1> SUFFICES ASSUME Dir \ S # {} PROVE FALSE
  OBVIOUS
<1> DEFINE N == {Order[d] : d \in Dir \ S}
<1>3. N \in SUBSET Nat /\ N # {}
  BY UpIsDir
<1> HIDE DEF N
<1>4. PICK n \in N : \A m \in N : n <= m
  BY <1>3, Least
<1>5. PICK d \in Dir \ S : n = Order[d]
  BY DEF N
<1>6. d # Root /\ Up[d] \in Dir \ S
  BY <1>5, UpIsDir
<1>7. Order[Up[d]] \in N /\ Order[Up[d]] < Order[d] /\ Order[d] \in Nat /\ Order[Up[d]] \in Nat
  BY <1>5, <1>6, UpIsDir DEF N
<1>8. QED
  BY <1>4, <1>5, <1>7

LEMMA PathWithin ==
    \A d \in Dir : d \in Path[d] /\ Root \in Path[d] /\ Path[d] \subseteq Dir
<1> DEFINE S == {d \in Dir : d \in Path[d] /\ Root \in Path[d] /\ Path[d] \subseteq Dir}
<1>1. Root \in S
  BY PathUnfolds, UpIsDir
<1>2. ASSUME NEW d \in Dir, d # Root, Up[d] \in S PROVE d \in S
  BY <1>2, PathUnfolds, UpIsDir
<1> HIDE DEF S
<1>3. S = Dir
  <2>1. S \in SUBSET Dir
    BY DEF S
  <2>2. QED
    BY <1>1, <1>2, <2>1, PathInduction
<1>4. QED
  BY <1>3 DEF S

LEMMA PathTransitive ==
    ASSUME NEW d \in Dir, NEW e \in Path[d] PROVE Path[e] \subseteq Path[d]
<1> DEFINE S == {x \in Dir : \A y \in Path[x] : Path[y] \subseteq Path[x]}
<1>1. Root \in S
  BY PathUnfolds, UpIsDir
<1>2. ASSUME NEW x \in Dir, x # Root, Up[x] \in S PROVE x \in S
  BY <1>2, PathUnfolds, UpIsDir
<1> HIDE DEF S
<1>3. S = Dir
  <2>1. S \in SUBSET Dir
    BY DEF S
  <2>2. QED
    BY <1>1, <1>2, <2>1, PathInduction
<1>4. QED
  BY <1>3 DEF S

(* Of two directories on a path one is on the path of the other.           *)
LEMMA PathIsChain ==
    ASSUME NEW d \in Dir, NEW e \in Path[d], NEW f \in Path[d]
    PROVE  e \in Path[f] \/ f \in Path[e]
<1> DEFINE S == {x \in Dir : \A y, z \in Path[x] : y \in Path[z] \/ z \in Path[y]}
<1>1. Root \in S
  BY PathUnfolds, UpIsDir
<1>2. ASSUME NEW x \in Dir, x # Root, Up[x] \in S PROVE x \in S
  BY <1>2, PathUnfolds, UpIsDir
<1> HIDE DEF S
<1>3. S = Dir
  <2>1. S \in SUBSET Dir
    BY DEF S
  <2>2. QED
    BY <1>1, <1>2, <2>1, PathInduction
<1>4. QED
  BY <1>3 DEF S

(* The way from a directory down to another begins in one of its children. *)
LEMMA PathStep ==
    ASSUME NEW d \in Dir, NEW e \in Path[d], e # d
    PROVE  \E k \in Path[d] : k \in Children(e) /\ k # e
<1> DEFINE S == {x \in Dir : \A y \in Path[x] : y # x => \E k \in Path[x] : Up[k] = y /\ k # Root}
<1>1. Root \in S
  BY PathUnfolds, UpIsDir
<1>2. ASSUME NEW x \in Dir, x # Root, Up[x] \in S PROVE x \in S
  <2>1. Path[x] = {x} \cup Path[Up[x]]
    BY <1>2, PathUnfolds, UpIsDir
  <2>2. ASSUME NEW y \in Path[x], y # x PROVE \E k \in Path[x] : Up[k] = y /\ k # Root
    <3>1. CASE y = Up[x]
      BY <1>2, <2>1, <3>1
    <3>2. CASE y # Up[x]
      BY <1>2, <2>1, <2>2, <3>2
    <3>3. QED
      BY <3>1, <3>2
  <2>3. QED
    BY <2>2
<1> HIDE DEF S
<1>3. S = Dir
  <2>1. S \in SUBSET Dir
    BY DEF S
  <2>2. QED
    BY <1>1, <1>2, <2>1, PathInduction
<1>4. PICK k \in Path[d] : Up[k] = e /\ k # Root
  BY <1>3 DEF S
<1>5. k \in Dir
  BY PathWithin
<1>6. k # e
  BY <1>4, <1>5, UpIsDir
<1>7. QED
  BY <1>4, <1>5, <1>6 DEF Children

(* The deepest of some directories on a path.                              *)
LEMMA Deepest ==
    ASSUME NEW d \in Dir, NEW s \in SUBSET Path[d], s # {}
    PROVE  \E f \in s : \A g \in s : g \in Path[f]
<1> DEFINE S == {x \in Dir : \A t \in SUBSET Path[x] :
                    t # {} => \E f \in t : \A g \in t : g \in Path[f]}
<1>1. Root \in S
  <2>1. Path[Root] = {Root}
    BY PathUnfolds, UpIsDir
  <2>2. \A t \in SUBSET {Root} : t # {} => Root \in t /\ \A g \in t : g = Root
    OBVIOUS
  <2>3. QED
    BY <2>1, <2>2, UpIsDir
<1>2. ASSUME NEW x \in Dir, x # Root, Up[x] \in S PROVE x \in S
  <2>1. Path[x] = {x} \cup Path[Up[x]]
    BY <1>2, PathUnfolds, UpIsDir
  <2>2. ASSUME NEW t \in SUBSET Path[x], t # {} PROVE \E f \in t : \A g \in t : g \in Path[f]
    <3>1. CASE x \in t
      BY <3>1
    <3>2. CASE x \notin t
      BY <1>2, <2>1, <2>2, <3>2
    <3>3. QED
      BY <3>1, <3>2
  <2>3. QED
    BY <2>2
<1> HIDE DEF S
<1>3. S = Dir
  <2>1. S \in SUBSET Dir
    BY DEF S
  <2>2. QED
    BY <1>1, <1>2, <2>1, PathInduction
<1>4. QED
  BY <1>3 DEF S

LEMMA UnderIsPath ==
    ASSUME NEW d \in Dir
    PROVE  /\ Under(d) = {e \in Dir : d \in Path[e]}
           /\ PathTo(d) = Path[d]
BY UpIsDir DEF Under, PathTo

(* CommonAncestor is an ancestor of both.                                  *)
LEMMA CommonAncestorCovers ==
    ASSUME NEW d \in Dir, NEW e \in Dir
    PROVE  CommonAncestor(d, e) \in Path[d] \cap Path[e] /\ CommonAncestor(d, e) \in Dir
<1> DEFINE T == Path[d] \cap Path[e]
<1>1. T \in SUBSET Path[d] /\ T \subseteq Dir /\ T # {}
  BY PathWithin
<1> HIDE DEF T
<1>2. PICK f \in T : \A g \in T : g \in Path[f]
  BY <1>1, Deepest
<1>3. \A g \in T : f \in Under(g)
  BY <1>1, <1>2, UnderIsPath
<1>4. (CHOOSE h \in T : \A g \in T : h \in Under(g)) \in T
  BY <1>3
<1>5. CommonAncestor(d, e) \in T
  BY <1>4, UnderIsPath DEF T, CommonAncestor
<1>6. QED
  BY <1>1, <1>5 DEF T

LEMMA NearestIsKnown ==
    ASSUME NEW d \in Dir, Root \in known
    PROVE  Nearest(d) \in Path[d] \cap known /\ Nearest(d) \in Dir
<1> DEFINE T == Path[d] \cap known
<1>1. T \in SUBSET Path[d] /\ T \subseteq Dir /\ T # {}
  BY PathWithin
<1> HIDE DEF T
<1>2. PICK f \in T : \A g \in T : g \in Path[f]
  BY <1>1, Deepest
<1>3. \A g \in T : f \in Under(g)
  BY <1>1, <1>2, UnderIsPath
<1>4. (CHOOSE h \in T : \A g \in T : h \in Under(g)) \in T
  BY <1>3
<1>5. Nearest(d) \in T
  BY <1>4, UnderIsPath DEF T, Nearest
<1>6. QED
  BY <1>1, <1>5 DEF T

-----------------------------------------------------------------------------
(* The inductive invariant: the shape of the state.                        *)

ListingSet ==
    [kind : {"missing", "unreadable"}]
    \cup [kind : {"listed"}, device : {"own", "bare"}, files : SUBSET File, dirs : SUBSET Dir]

Resting == {Idle}
Plain == [op : Op, attempt : Nat, pc : {"start", "walk", "sweep"}]
Applying == [op : Op, attempt : Nat, pc : {"apply"}, dir : Dir, listing : ListingSet, since : Nat]
Committing == [op : Op, attempt : Nat, pc : {"commit"}, trash : SUBSET (Dir \X File)]
Job == Resting \cup Plain \cup Applying \cup Committing

UploadSet == {NoUpload} \cup [pc : {"rename", "register"}, file : File, dir : Dir, since : Nat]
Kinds == {"mount", "stamp", "upload", "change"}

StorageShape ==
    /\ at \in [File -> Dir \cup {None}]
    /\ there \in SUBSET Dir /\ away \in SUBSET Dir /\ denied \in SUBSET Dir

IndexShape ==
    /\ row \in [Dir -> [File -> FileRow \cup {NoRow}]]
    /\ known \in SUBSET Dir
    /\ device \in [Dir -> {None, "own", "bare"}]

WorkShape ==
    /\ op \in [Op -> OpRow \cup {None}]
    /\ run \in [Op -> RunRow \cup {None}]
    /\ work \in [Worker -> Job]

RestShape ==
    /\ upload \in UploadSet
    /\ burst \in Dir \cup {None}
    /\ clock \in Nat
    /\ heard \in SUBSET Dir
    /\ lacking \in [Op -> SUBSET (Dir \X File)]
    /\ shaken \in [Op -> SUBSET Kinds]

(* No stamp is of the future, and what has one is in a directory with a row.*)
RowsStamped ==
    /\ Root \in known
    /\ \A d \in Dir, c \in File : row[d][c] # NoRow =>
          row[d][c].seen <= clock /\ row[d][c].created <= clock /\ d \in known
    /\ upload # NoUpload => upload.since <= clock /\ upload.dir \in known

RunsStamped ==
    /\ \A o \in Op : run[o] # None =>
          run[o].started \in 1 .. clock /\ run[o].frontier \subseteq known
          /\ run[o].blocked \subseteq known
    /\ \A w \in Worker : At(w, "apply") => work[w].since <= clock /\ work[w].dir \in known

(* One scan runs; whoever executes a scan has its rows, and a run that is  *)
(* over belongs to an operation that is.                                   *)
RunsApart ==
    /\ \A o, p \in Running : o = p
    /\ \A w \in Worker : Busy(w) => op[work[w].op] # None
    /\ \A w \in Worker : Busy(w) /\ ~At(w, "start") => run[work[w].op] # None
    /\ \A o \in Op : run[o] # None =>
          op[o] # None /\ (run[o].state # "running" => Terminal(o))

(* What a sweep is about to trash is locked, each row by one sweep.        *)
TrashLocked ==
    /\ \A w \in Worker : At(w, "commit") => \A p \in work[w].trash : Live(p[1], p[2])
    /\ \A v, w \in Worker : v # w /\ At(v, "commit") /\ At(w, "commit") =>
          work[v].trash \cap work[w].trash = {}

(* A file lies in a directory, and a directory in a directory.             *)
StorageIsTree ==
    /\ \A c \in File : at[c] # None => at[c] \in there
    /\ \A d \in there : Path[d] \subseteq there

Shape == StorageShape /\ IndexShape /\ WorkShape /\ RestShape
Sane == RowsStamped /\ RunsStamped /\ RunsApart /\ TrashLocked /\ StorageIsTree

-----------------------------------------------------------------------------
(* The inductive invariant: what a scan may conclude.                      *)

Excused(o) == shaken[o] \cap {"mount", "stamp", "upload"} # {}

(* Nothing has happened that excuses a run, nor will a sweep be refused.   *)
Calm(o) == Underway(o) /\ ~Excused(o) /\ Root \notin away

(* A row that a sweep of the run would trash, and that has been in its     *)
(* place while the run lasted.                                             *)
Owed(o, d, c) ==
    /\ d \in Under(run[o].root) /\ IsUnseen(run[o], d, c) /\ <<d, c>> \notin lacking[o]

OwedUnder(o, e) == \E d \in Under(e), c \in File : Owed(o, d, c)

(* The mount points above a directory are mounted.                         *)
Reachable(e) == (Path[e] \ {e}) \cap away = {}

(* A listing shows all that is owed below it, or the way there.            *)
Shows(o, e, l) ==
    \/ l.kind = "missing" /\ ~OwedUnder(o, e)
    \/ l.kind = "unreadable"
    \/ /\ l.kind = "listed" /\ l.device = "bare"
       /\ e \in away /\ l.files = {} /\ l.dirs = {}
    \/ /\ l.kind = "listed" /\ l.device = "own"
       /\ e \notin away /\ l.dirs \subseteq Children(e)
       /\ \A d \in Under(e), c \in File : Owed(o, d, c) =>
             IF d = e THEN c \in l.files ELSE l.dirs \cap Path[d] # {}

On(w, o) == Busy(w) /\ work[w].op = o

FrontierReachable(o) == \A e \in run[o].frontier : e \in Under(run[o].root) /\ Reachable(e)

ListingsShow(o) == \A w \in Worker : On(w, o) /\ At(w, "apply") =>
    /\ work[w].dir \in Under(run[o].root) /\ Reachable(work[w].dir)
    /\ Shows(o, work[w].dir, work[w].listing)

(* What is owed will be visited, or is below what could not be read.       *)
OwedIsCovered(o) == \A d \in Dir, c \in File : Owed(o, d, c) =>
    Path[d] \cap (run[o].frontier \cup run[o].blocked) # {}

OwedIsBlocked(o) == \A d \in Dir, c \in File : Owed(o, d, c) => Path[d] \cap run[o].blocked # {}

(* The filesystem on record tells of a mount that is away.                 *)
MountsRecorded(o) == \A e \in away \cap Under(run[o].root) :
    device[e] = "own" \/ ~OwedUnder(o, e)

SweepsLast(o) == \A w \in Worker :
    On(w, o) /\ (At(w, "sweep") \/ At(w, "commit")) => OwedIsBlocked(o)

Walk(o) ==
    /\ FrontierReachable(o) /\ ListingsShow(o) /\ OwedIsCovered(o)
    /\ MountsRecorded(o) /\ SweepsLast(o)

(* Rows out of place are remembered.                                       *)
LackingKept == \A o \in Op :
    /\ Underway(o) => Misplaced \subseteq lacking[o]
    /\ ~Underway(o) => lacking[o] = {}

TrashFounded == \A w \in Worker : At(w, "commit") =>
    Founded(w, {"mount", "stamp", "upload"}) \/ Root \in away

ScanIInv ==
    /\ Shape /\ Sane /\ LackingKept /\ TrashFounded
    /\ \A o \in Op : Calm(o) => Walk(o)

-----------------------------------------------------------------------------
(* The inductive invariant: what a run concludes around which nothing else *)
(* happened.                                                               *)

Strict(o) == o \in Running /\ shaken[o] = {}

InSight(o, d) == d \in Under(run[o].root) /\ ~Hidden(d)

(* What is seen now is what was seen.                                      *)
ListingsAreTrue(o) == \A w \in Worker : On(w, o) /\ At(w, "apply") =>
    work[w].listing = Listing(work[w].dir)

Empty(e) == Children(e) \cap there = {} /\ \A d \in Under(e), c \in File : at[c] # d

(* What could be looked at and is blocked is empty; so is the index, or    *)
(* the filesystem on record is not the mounted one.                        *)
BlockedIsHidden(o) == \A e \in run[o].blocked :
    Hidden(e) \/ (Empty(e) /\ (device[e] = "bare" \/ ~LiveUnder(e)))

LackingIsMisplaced(o) == \A p \in lacking[o] : at[p[2]] # p[1]

(* A file in its place has its row, or will be visited.                    *)
FilesCovered(o) == \A d \in Dir, c \in File : at[c] = d /\ InSight(o, d) =>
    Live(d, c) \/ Path[d] \cap run[o].frontier # {}

FilesIndexed(o) == \A d \in Dir, c \in File : at[c] = d /\ InSight(o, d) => Live(d, c)

SweepsIndexed(o) == \A w \in Worker :
    On(w, o) /\ (At(w, "sweep") \/ At(w, "commit")) => FilesIndexed(o)

(* A row out of its place has not been seen.                               *)
MisplacedUnseen(o) == \A d \in Dir, c \in File :
    Live(d, c) /\ at[c] # d => IsUnseen(run[o], d, c)

UploadsOlder(o) == upload.pc = "register" => upload.since < run[o].started

Exactly(o) ==
    /\ Identified
    /\ ListingsAreTrue(o) /\ BlockedIsHidden(o) /\ LackingIsMisplaced(o) /\ FilesCovered(o)
    /\ SweepsIndexed(o) /\ MisplacedUnseen(o) /\ UploadsOlder(o)

ExactIInv == \A o \in Op : Strict(o) => Exactly(o)

-----------------------------------------------------------------------------
(* What a step does to the variables it touches.                           *)

LEMMA JobFields ==
    ASSUME WorkShape, NEW w \in Worker
    PROVE  /\ work[w] \in Job
           /\ Busy(w) => work[w].op \in Op /\ work[w].attempt \in Nat
           /\ \A pc \in {"start", "walk", "apply", "sweep", "commit"} : At(w, pc) => Busy(w)
           /\ At(w, "apply") => /\ work[w].dir \in Dir /\ work[w].listing \in ListingSet
                                /\ work[w].since \in Nat
           /\ At(w, "commit") => work[w].trash \in SUBSET (Dir \X File)
           /\ ~Busy(w) <=> At(w, "idle")
<1>1. work[w] \in Job
  BY DEF WorkShape
<1>2. CASE work[w] \in Resting
  BY <1>1, <1>2 DEF Resting, Idle, Busy, At
<1>3. CASE work[w] \in Plain
  BY <1>1, <1>3 DEF Plain, Idle, Busy, At
<1>4. CASE work[w] \in Applying
  BY <1>1, <1>4 DEF Applying, Idle, Busy, At
<1>5. CASE work[w] \in Committing
  BY <1>1, <1>5 DEF Committing, Idle, Busy, At
<1>6. QED
  BY <1>1, <1>2, <1>3, <1>4, <1>5 DEF Job

(* Only w has moved.                                                       *)
Turns(w, job) == job \in Job /\ work' \in [Worker -> Job] /\ work'[w] = job
                 /\ \A v \in Worker : v # w => work'[v] = work[v]

LEMMA SetTurns ==
    ASSUME WorkShape, NEW w \in Worker, NEW job \in Job, Set(w, job)
    PROVE  Turns(w, job)
BY DEF WorkShape, Set, Turns

LEMMA RestTurns ==
    ASSUME WorkShape, NEW w \in Worker, Rest(w) PROVE Turns(w, Idle)
<1>1. Idle \in Job
  BY DEF Job, Resting
<1>2. QED
  BY <1>1, SetTurns DEF Rest

LEMMA GotoTurns ==
    ASSUME WorkShape, NEW w \in Worker, Busy(w), NEW pc \in {"start", "walk", "sweep"}, Goto(w, pc)
    PROVE  Turns(w, [op |-> work[w].op, attempt |-> work[w].attempt, pc |-> pc])
<1> DEFINE job == [op |-> work[w].op, attempt |-> work[w].attempt, pc |-> pc]
<1>1. work[w].op \in Op /\ work[w].attempt \in Nat
  BY JobFields
<1>2. job \in Plain
  BY <1>1 DEF Plain
<1>3. job \in Job
  BY <1>2 DEF Job
<1>4. QED
  BY <1>3, SetTurns DEF Goto

-----------------------------------------------------------------------------
(* Operations keep their roots, and what is over stays over.               *)

OpTable == [Op -> OpRow \cup {None}]

OpsKept(old, new) ==
    /\ new \in OpTable
    /\ \A o \in Op : old[o] # None =>
          /\ new[o] # None /\ new[o].root = old[o].root
          /\ old[o].state \in {"succeeded", "dead"} => new[o].state \in {"succeeded", "dead"}

LEMMA OpsKeptTwice ==
    ASSUME NEW a, NEW b, NEW c, OpsKept(a, b), OpsKept(b, c) PROVE OpsKept(a, c)
BY DEF OpsKept

(* ensure_scheduled inserts a row, or nothing.                             *)
LEMMA ScheduledOps ==
    ASSUME NEW ops \in OpTable, NEW d \in Dir, NEW due \in BOOLEAN
    PROVE  /\ OpsKept(ops, Scheduled(ops, d, due))
           /\ \A o \in Op : ops[o] # None => Scheduled(ops, d, due)[o] = ops[o]
<1> DEFINE free == {n \in Op : ops[n] = None}
<1>1. CASE free = {} \/ Queued(ops, d)
  BY <1>1 DEF Scheduled, OpsKept
<1>2. CASE free # {} /\ ~Queued(ops, d)
  <2>3. free \in SUBSET Nat
    BY ScanAssumption
  <2> HIDE DEF free
  <2>5. PICK n \in free : \A m \in free : n <= m
    BY <1>2, <2>3, Least
  <2>6. Min(free) \in free
    BY <2>5 DEF Min
  <2> DEFINE new == [state |-> "queued", root |-> d, attempt |-> 0, due |-> due]
  <2>7. new \in OpRow
    BY DEF OpRow
  <2> HIDE DEF new
  <2>8. Scheduled(ops, d, due) = [ops EXCEPT ![Min(free)] = new]
    BY <1>2 DEF Scheduled, new, free
  <2>9. QED
    BY <2>6, <2>7, <2>8 DEF OpsKept, OpTable, free
<1>3. QED
  BY <1>1, <1>2

LEMMA ExpeditedOps ==
    ASSUME NEW ops \in OpTable, NEW d \in Dir
    PROVE  /\ OpsKept(ops, Expedited(ops, d))
           /\ \A o \in Op : ops[o] # None =>
                 /\ Expedited(ops, d)[o].state = ops[o].state
                 /\ ops[o].due => Expedited(ops, d)[o].due
                 /\ ops[o].state = "queued" /\ ops[o].root = d => Expedited(ops, d)[o].due
           /\ \A o \in Op : ops[o] = None => Expedited(ops, d)[o] = None
<1>1. \A o \in Op : ops[o] \in OpRow \cup {None}
  BY DEF OpTable
<1>2. ASSUME NEW o \in Op, ops[o] # None
      PROVE  /\ ops[o] \in OpRow
             /\ [ops[o] EXCEPT !.due = TRUE] \in OpRow
             /\ [ops[o] EXCEPT !.due = TRUE] # None
             /\ [ops[o] EXCEPT !.due = TRUE].state = ops[o].state
             /\ [ops[o] EXCEPT !.due = TRUE].root = ops[o].root
             /\ [ops[o] EXCEPT !.due = TRUE].due = TRUE
  <2>1. ops[o] \in OpRow
    BY <1>1, <1>2
  <2>2. [ops[o] EXCEPT !.due = TRUE] \in OpRow
    BY <2>1 DEF OpRow
  <2>3. QED
    BY <2>1, <2>2, ScanAssumption DEF OpRow
<1> DEFINE new(o) == IF ops[o] # None /\ ops[o].state = "queued" /\ ops[o].root = d
                     THEN [ops[o] EXCEPT !.due = TRUE] ELSE ops[o]
<1>3. \A o \in Op : Expedited(ops, d)[o] = new(o)
  BY DEF Expedited
<1>4. \A o \in Op : new(o) \in OpRow \cup {None}
  BY <1>1, <1>2
<1>5. Expedited(ops, d) \in OpTable
  BY <1>4 DEF Expedited, OpTable
<1>6. QED
  BY <1>2, <1>3, <1>5 DEF OpsKept

(* An operation changes its state, and counts attempts.                    *)
LEMMA OpRowKept ==
    ASSUME NEW ops \in OpTable, NEW o \in Op, ops[o] # None,
           NEW row2 \in OpRow, row2.root = ops[o].root,
           ops[o].state \in {"succeeded", "dead"} => row2.state \in {"succeeded", "dead"}
    PROVE  OpsKept(ops, [ops EXCEPT ![o] = row2])
BY ScanAssumption DEF OpsKept, OpTable

LEMMA SameOps ==
    ASSUME NEW ops \in OpTable PROVE OpsKept(ops, ops)
BY DEF OpsKept

LEMMA RearmedOps ==
    ASSUME WorkShape, NEW o \in Op, op[o] # None, Rearmed(o)
    PROVE  /\ OpsKept(op, op') /\ op'[o].state = "succeeded"
           /\ \A p \in Op : op[p] # None /\ p # o => op'[p] = op[p]
<1> DEFINE done == [op EXCEPT ![o].state = "succeeded"]
           row2 == [op[o] EXCEPT !.state = "succeeded"]
<1>1. op[o] \in OpRow /\ op \in OpTable
  BY DEF WorkShape, OpTable
<1>2. row2 \in OpRow /\ row2.root = op[o].root /\ row2.state = "succeeded"
  BY <1>1 DEF OpRow
<1>3. done = [op EXCEPT ![o] = row2]
  OBVIOUS
<1> HIDE DEF row2
<1>4. OpsKept(op, done)
  BY <1>1, <1>2, <1>3, OpRowKept
<1>5. done \in OpTable
  BY <1>4 DEF OpsKept
<1>6. op' = Scheduled(done, Root, FALSE)
  BY DEF Rearmed
<1>7. done[o] = row2 /\ done[o] # None /\ \A p \in Op : p # o => done[p] = op[p]
  BY <1>1, <1>2, <1>3, ScanAssumption DEF OpTable
<1> HIDE DEF done
<1>8. OpsKept(done, op') /\ \A p \in Op : done[p] # None => op'[p] = done[p]
  BY <1>5, <1>6, ScheduledOps, UpIsDir
<1>9. QED
  BY <1>2, <1>4, <1>7, <1>8, OpsKeptTwice

LEMMA ClaimOps ==
    ASSUME WorkShape, NEW w \in Worker, NEW o \in Op, Claim(w, o)
    PROVE  /\ OpsKept(op, op') /\ op'[o] # None
           /\ \A p \in Op : p # o => op'[p] = op[p]
           /\ ~Terminal(o)
           /\ op'[o].due = op[o].due
           /\ \/ op'[o].state = "running"
              \/ op'[o].state = "dead" /\ heard' = heard \ Under(op[o].root)
           /\ work' = work \/ Turns(w, [op |-> o, attempt |-> op[o].attempt + 1, pc |-> "start"])
<1>1. op[o] \in OpRow /\ op \in OpTable /\ op[o] # None /\ op[o].state \in {"queued", "running"}
  BY DEF WorkShape, OpTable, Claim
<1> DEFINE taken == [op[o] EXCEPT !.state = "running", !.attempt = @ + 1]
           dead == [op[o] EXCEPT !.state = "dead"]
           job == [op |-> o, attempt |-> op[o].attempt + 1, pc |-> "start"]
<1>2. /\ taken \in OpRow /\ taken.root = op[o].root /\ taken.due = op[o].due /\ taken.state = "running"
      /\ dead \in OpRow /\ dead.root = op[o].root /\ dead.due = op[o].due /\ dead.state = "dead"
  <2>1. op[o].attempt + 1 \in Nat
    BY <1>1 DEF OpRow
  <2>2. taken = [[op[o] EXCEPT !.state = "running"] EXCEPT !.attempt = op[o].attempt + 1]
    BY <1>1 DEF OpRow
  <2>3. [op[o] EXCEPT !.state = "running"] \in OpRow
    BY <1>1 DEF OpRow
  <2>4. taken \in OpRow /\ taken.root = op[o].root /\ taken.due = op[o].due /\ taken.state = "running"
    BY <1>1, <2>1, <2>2, <2>3 DEF OpRow
  <2>5. dead \in OpRow /\ dead.root = op[o].root /\ dead.due = op[o].due /\ dead.state = "dead"
    BY <1>1 DEF OpRow
  <2>6. QED
    BY <2>4, <2>5
<1>3. job \in Job
  <2>1. job \in Plain
    BY <1>1 DEF Plain, OpRow
  <2>2. QED
    BY <2>1 DEF Job
<1>4. CASE op[o].attempt < MaxAttempts
  <2>1. op' = [op EXCEPT ![o] = taken] /\ Set(w, job)
    BY <1>4 DEF Claim
  <2> HIDE DEF taken, job
  <2>2. OpsKept(op, op')
    BY <1>1, <1>2, <2>1, OpRowKept
  <2>3. Turns(w, job)
    BY <1>3, <2>1, SetTurns
  <2>4. op'[o] = taken /\ \A p \in Op : p # o => op'[p] = op[p]
    BY <1>1, <2>1 DEF OpTable
  <2>5. QED
    BY <1>1, <1>2, <2>2, <2>3, <2>4, ScanAssumption DEF Terminal, job
<1>5. CASE ~(op[o].attempt < MaxAttempts)
  <2>1. op' = [op EXCEPT ![o] = dead] /\ work' = work /\ heard' = heard \ Under(op[o].root)
    BY <1>5 DEF Claim
  <2> HIDE DEF dead
  <2>2. OpsKept(op, op')
    BY <1>1, <1>2, <2>1, OpRowKept
  <2>4. op'[o] = dead /\ \A p \in Op : p # o => op'[p] = op[p]
    BY <1>1, <2>1 DEF OpTable
  <2>5. QED
    BY <1>1, <1>2, <2>1, <2>2, <2>4, ScanAssumption DEF Terminal
<1>6. QED
  BY <1>4, <1>5

LEMMA StopOps ==
    ASSUME WorkShape, RunsApart, NEW w \in Worker, Stop(w)
    PROVE  /\ OpsKept(op, op')
           /\ \A p \in Op : op[p] # None => /\ Terminal(p)' <=> Terminal(p)
                                            /\ op'[p].due = op[p].due
           /\ \A p \in Op : op[p] = None => op'[p] = None
           /\ Turns(w, Idle)
<1> DEFINE o == work[w].op
<1>1. o \in Op /\ op[o] # None
  BY JobFields DEF Stop, RunsApart
<1>2. op \in OpTable /\ op[o] \in OpRow
  BY <1>1 DEF WorkShape, OpTable
<1>3. Turns(w, Idle)
  BY RestTurns DEF Stop
<1> HIDE DEF o
<1>4. CASE Holds(w)
  <2> DEFINE row2 == [op[o] EXCEPT !.state = "queued"]
  <2>1. op[o].state = "running"
    BY <1>4 DEF Holds, o
  <2>2. row2 \in OpRow /\ row2.root = op[o].root /\ row2.state = "queued" /\ row2.due = op[o].due
    BY <1>2 DEF OpRow
  <2>3. op' = [op EXCEPT ![o] = row2]
    BY <1>4 DEF Stop, o
  <2> HIDE DEF row2
  <2>4. OpsKept(op, op')
    BY <1>1, <1>2, <2>1, <2>2, <2>3, OpRowKept
  <2>5. op'[o] = row2 /\ \A p \in Op : p # o => op'[p] = op[p]
    BY <1>1, <1>2, <2>3 DEF OpTable
  <2>6. QED
    BY <1>1, <1>3, <2>1, <2>2, <2>4, <2>5 DEF Terminal
<1>5. CASE ~Holds(w)
  <2>1. op' = op
    BY <1>5 DEF Stop
  <2>2. QED
    BY <1>2, <1>3, <2>1, SameOps DEF Terminal
<1>6. QED
  BY <1>4, <1>5

LEMMA ExpediteOps ==
    ASSUME WorkShape, RestShape, Expedite
    PROVE  /\ OpsKept(op, op')
           /\ \A p \in Op : op[p] # None =>
                 /\ Terminal(p)' <=> Terminal(p)
                 /\ op[p].due => op'[p].due
<1>1. op \in OpTable /\ burst \in Dir
  BY DEF WorkShape, OpTable, RestShape, Expedite
<1>2. CASE op' = op
  BY <1>1, <1>2, SameOps DEF Terminal
<1>3. CASE op' = Expedited(Scheduled(op, burst, TRUE), burst)
  <2> DEFINE mid == Scheduled(op, burst, TRUE)
  <2>1. OpsKept(op, mid) /\ \A p \in Op : op[p] # None => mid[p] = op[p]
    BY <1>1, ScheduledOps
  <2> HIDE DEF mid
  <2>2. mid \in OpTable
    BY <2>1 DEF OpsKept
  <2>3. op' = Expedited(mid, burst)
    BY <1>3 DEF mid
  <2>4. /\ OpsKept(mid, op')
        /\ \A p \in Op : mid[p] # None => op'[p].state = mid[p].state /\ (mid[p].due => op'[p].due)
    BY <1>1, <2>2, <2>3, ExpeditedOps
  <2>5. QED
    BY <2>1, <2>4, OpsKeptTwice DEF Terminal
<1>4. QED
  BY <1>2, <1>3 DEF Expedite

-----------------------------------------------------------------------------
(* A run keeps its beginning; its walk goes on, and ends.                  *)

RunTable == [Op -> RunRow \cup {None}]

RunAlike(a, b) ==
    /\ b.started = a.started /\ b.root = a.root
    /\ b.frontier = a.frontier /\ b.blocked = a.blocked

LEMMA ActingOps ==
    ASSUME WorkShape, RunsApart, NEW w \in Worker, Busy(w)
    PROVE  /\ work[w].op \in Op /\ work[w].attempt \in Nat /\ op[work[w].op] # None
           /\ op[work[w].op] \in OpRow
           /\ ~At(w, "start") => run[work[w].op] # None /\ run[work[w].op] \in RunRow
<1>1. work[w].op \in Op /\ work[w].attempt \in Nat
  BY JobFields
<1>2. QED
  BY <1>1 DEF WorkShape, RunsApart

(* A run that begins is of a directory that is known.                      *)
FreshRun(o, r) ==
    /\ r \in RunRow /\ r.started = clock + 1 /\ r.root = Nearest(op[o].root)
    /\ r.frontier = {r.root} /\ r.blocked = {}

RunBegins(o) ==
    /\ run' \in RunTable
    /\ \A p \in Op \ {o} :
          /\ run[p] = None => run'[p] = None
          /\ run[p] # None => /\ run'[p] # None /\ RunAlike(run[p], run'[p])
                              /\ run'[p].state # "running"
                              /\ run[p].state = "running" => Terminal(p)
    /\ run'[o] # None
    /\ run[o] = None => FreshRun(o, run'[o]) /\ clock' = clock + 1
    /\ run[o] # None => RunAlike(run[o], run'[o]) /\ clock' = clock

LEMMA BegunRuns ==
    ASSUME Shape, Sane, NEW o \in Op, op[o] # None
    PROVE  /\ Begun(o) \in RunTable
           /\ \A p \in Op \ {o} :
                 /\ run[p] = None => Begun(o)[p] = None
                 /\ run[p] # None => /\ Begun(o)[p] # None /\ RunAlike(run[p], Begun(o)[p])
                                     /\ Begun(o)[p].state # "running"
           /\ Begun(o)[o] # None
           /\ run[o] = None => FreshRun(o, Begun(o)[o]) /\ Begun(o)[o].state = "running"
           /\ run[o] # None => Begun(o)[o] = run[o]
<1>1. /\ run \in RunTable /\ \A p \in Op : run[p] \in RunRow \cup {None}
      /\ op[o] \in OpRow /\ clock \in Nat /\ Root \in known
  BY DEF Shape, WorkShape, RestShape, RunTable, Sane, RowsStamped
<1>2. \A p \in Op : p \in Running => [run[p] EXCEPT !.state = "failed"] \in RunRow
  BY <1>1 DEF Running, RunRow
<1> DEFINE ended == Superseded(o)
<1>3. \A p \in Op : ended[p] = IF p \in Running \ {o} THEN [run[p] EXCEPT !.state = "failed"] ELSE run[p]
  BY DEF Superseded
<1>4. ended \in RunTable
  BY <1>1, <1>2 DEF Superseded, RunTable
<1>5. \A p \in Op \ {o} :
         /\ run[p] = None => ended[p] = None
         /\ run[p] # None => ended[p] # None /\ RunAlike(run[p], ended[p]) /\ ended[p].state # "running"
  <2> SUFFICES ASSUME NEW p \in Op \ {o}
               PROVE  /\ run[p] = None => ended[p] = None
                      /\ run[p] # None => /\ ended[p] # None /\ RunAlike(run[p], ended[p])
                                          /\ ended[p].state # "running"
    OBVIOUS
  <2>1. CASE p \in Running
    <3>1. ended[p] = [run[p] EXCEPT !.state = "failed"] /\ run[p] # None /\ run[p] \in RunRow
      BY <1>1, <1>3, <2>1 DEF Running
    <3>2. ended[p] \in RunRow
      BY <1>2, <2>1, <3>1
    <3>3. QED
      BY <3>1, <3>2, ScanAssumption DEF RunAlike, RunRow
  <2>2. CASE p \notin Running
    BY <1>3, <2>2 DEF Running, RunAlike
  <2>3. QED
    BY <2>1, <2>2
<1>6. ended[o] = run[o]
  BY <1>3
<1> HIDE DEF ended
<1>7. CASE run[o] # None
  BY <1>4, <1>5, <1>6, <1>7 DEF Begun, ended
<1>8. CASE run[o] = None
  <2> DEFINE fresh == [state |-> "running", started |-> clock + 1, root |-> Nearest(op[o].root),
                       frontier |-> {Nearest(op[o].root)}, blocked |-> {}]
  <2>1. Nearest(op[o].root) \in Dir
    BY <1>1, NearestIsKnown DEF OpRow
  <2>2. fresh \in RunRow /\ FreshRun(o, fresh) /\ fresh.state = "running"
    BY <1>1, <2>1 DEF RunRow, FreshRun
  <2> HIDE DEF fresh
  <2>3. Begun(o) = [ended EXCEPT ![o] = fresh]
    BY <1>8 DEF Begun, ended, fresh
  <2>4. Begun(o) \in RunTable /\ Begun(o)[o] = fresh
    BY <1>4, <2>2, <2>3 DEF RunTable
  <2>5. \A p \in Op \ {o} : Begun(o)[p] = ended[p]
    BY <1>4, <2>3 DEF RunTable
  <2>6. QED
    BY <1>5, <1>8, <2>2, <2>4, <2>5, ScanAssumption
<1>9. QED
  BY <1>7, <1>8

LEMMA StartStep ==
    ASSUME Shape, Sane, NEW w \in Worker, Start(w)
    PROVE  LET o == work[w].op IN
           /\ o \in Op /\ op[o] # None
           /\ RunBegins(o)
           /\ run[o] = None => run'[o].state = "running"
           /\ run[o] # None => run'[o] = run[o]
           /\ Turns(w, [op |-> o, attempt |-> work[w].attempt, pc |-> "walk"])
<1> DEFINE o == work[w].op
<1>1. WorkShape /\ RunsApart /\ At(w, "start")
  BY DEF Start, Shape, Sane
<1>2. Busy(w)
  BY <1>1, JobFields
<1>3. o \in Op /\ op[o] # None
  BY <1>1, <1>2, ActingOps
<1>4. Turns(w, [op |-> o, attempt |-> work[w].attempt, pc |-> "walk"])
  BY <1>1, <1>2, GotoTurns DEF Start
<1>5. /\ run' = Begun(o) /\ clock' = IF run[o] = None THEN clock + 1 ELSE clock
      /\ \A p \in Running \ {o} : Terminal(p)
  BY DEF Start
<1>6. \A p \in Op \ {o} : run[p] # None /\ run[p].state = "running" => Terminal(p)
  BY <1>5 DEF Running
<1> HIDE DEF o
<1>7. RunBegins(o)
  BY <1>3, <1>5, <1>6, BegunRuns DEF RunBegins, RunAlike
<1>8. (run[o] = None => run'[o].state = "running") /\ (run[o] # None => run'[o] = run[o])
  BY <1>3, <1>5, BegunRuns
<1>9. QED
  BY <1>3, <1>4, <1>7, <1>8 DEF o

LEMMA StartRefusedStep ==
    ASSUME Shape, Sane, NEW w \in Worker, StartRefused(w)
    PROVE  LET o == work[w].op IN
           /\ o \in Op /\ op[o] # None
           /\ RunBegins(o) /\ run'[o].state = "failed"
           /\ Turns(w, Idle)
           /\ OpsKept(op, op') /\ op'[o].state = "succeeded"
           /\ \A p \in Op : op[p] # None /\ p # o => op'[p] = op[p]
<1> DEFINE o == work[w].op
<1>1. WorkShape /\ RunsApart /\ At(w, "start")
  BY DEF StartRefused, Shape, Sane
<1>2. Busy(w)
  BY <1>1, JobFields
<1>3. o \in Op /\ op[o] # None
  BY <1>1, <1>2, ActingOps
<1>4. Turns(w, Idle)
  BY <1>1, RestTurns DEF StartRefused
<1>5. /\ run' = [Begun(o) EXCEPT ![o].state = "failed"]
      /\ clock' = IF run[o] = None THEN clock + 1 ELSE clock
      /\ \A p \in Running \ {o} : Terminal(p)
      /\ Rearmed(o)
  BY DEF StartRefused
<1>6. \A p \in Op \ {o} : run[p] # None /\ run[p].state = "running" => Terminal(p)
  BY <1>5 DEF Running
<1>7. /\ OpsKept(op, op') /\ op'[o].state = "succeeded"
      /\ \A p \in Op : op[p] # None /\ p # o => op'[p] = op[p]
  BY <1>1, <1>3, <1>5, RearmedOps
<1> HIDE DEF o
<1> DEFINE b == Begun(o)
           r == [b[o] EXCEPT !.state = "failed"]
<1>8. /\ b \in RunTable
      /\ \A p \in Op \ {o} :
            /\ run[p] = None => b[p] = None
            /\ run[p] # None => b[p] # None /\ RunAlike(run[p], b[p]) /\ b[p].state # "running"
      /\ b[o] # None
      /\ run[o] = None => FreshRun(o, b[o])
      /\ run[o] # None => b[o] = run[o]
  BY <1>3, BegunRuns
<1>9. run' = [b EXCEPT ![o] = r]
  BY <1>5
<1> HIDE DEF b
<1>10. b[o] \in RunRow
  BY <1>3, <1>8 DEF RunTable
<1>11. r \in RunRow /\ r.state = "failed" /\ RunAlike(b[o], r)
  BY <1>10 DEF RunRow, RunAlike
<1> HIDE DEF r
<1>12. run' \in RunTable /\ run'[o] = r /\ \A p \in Op \ {o} : run'[p] = b[p]
  BY <1>3, <1>8, <1>9, <1>11 DEF RunTable
<1>13. run[o] = None => FreshRun(o, r)
  BY <1>8, <1>11 DEF FreshRun, RunAlike
<1>14. run[o] # None => RunAlike(run[o], r)
  BY <1>8, <1>11
<1>15. r # None
  BY <1>11, ScanAssumption
<1>16. RunBegins(o)
  BY <1>5, <1>6, <1>8, <1>12, <1>13, <1>14, <1>15 DEF RunBegins
<1>17. QED
  BY <1>3, <1>4, <1>7, <1>11, <1>12, <1>16 DEF o

(* The run of one operation has changed.                                   *)
RunMoves(o, r) ==
    /\ run' \in RunTable /\ run'[o] = r /\ r # None
    /\ \A p \in Op : p # o => run'[p] = run[p]

LEMMA RunMoved ==
    ASSUME WorkShape, NEW o \in Op, NEW r \in RunRow, run' = [run EXCEPT ![o] = r]
    PROVE  RunMoves(o, r)
BY ScanAssumption DEF WorkShape, RunMoves, RunTable

(* What a step of a walk does.                                             *)
WalkMoves(w, frontier, blocked) ==
    LET o == work[w].op IN
    /\ o \in Op /\ run[o] # None /\ run[o] \in RunRow
    /\ RunMoves(o, [run[o] EXCEPT !.frontier = frontier, !.blocked = blocked])
    /\ run'[o] \in RunRow /\ run'[o].state = run[o].state
    /\ run'[o].started = run[o].started /\ run'[o].root = run[o].root
    /\ run'[o].frontier = frontier /\ run'[o].blocked = blocked
    /\ Turns(w, [op |-> o, attempt |-> work[w].attempt, pc |-> "walk"])

LEMMA WalkMoved ==
    ASSUME Shape, Sane, NEW w \in Worker, At(w, "apply"), Goto(w, "walk"),
           NEW frontier \in SUBSET Dir, NEW blocked \in SUBSET Dir,
           run' = [run EXCEPT ![work[w].op] =
                      [run[work[w].op] EXCEPT !.frontier = frontier, !.blocked = blocked]]
    PROVE  WalkMoves(w, frontier, blocked)
<1> DEFINE o == work[w].op
<1>1. WorkShape /\ RunsApart /\ Busy(w) /\ ~At(w, "start")
  BY JobFields DEF Shape, Sane, At
<1>2. o \in Op /\ run[o] # None /\ run[o] \in RunRow
  BY <1>1, ActingOps
<1> DEFINE r == [run[o] EXCEPT !.frontier = frontier, !.blocked = blocked]
<1>3. Turns(w, [op |-> o, attempt |-> work[w].attempt, pc |-> "walk"])
  BY <1>1, GotoTurns
<1>4. run' = [run EXCEPT ![o] = r]
  OBVIOUS
<1> HIDE DEF o
<1> DEFINE mid == [run[o] EXCEPT !.frontier = frontier]
<1>11. mid \in RunRow /\ mid.state = run[o].state /\ mid.started = run[o].started
       /\ mid.root = run[o].root /\ mid.frontier = frontier
  BY <1>2 DEF RunRow
<1>12. r = [mid EXCEPT !.blocked = blocked]
  BY <1>2 DEF RunRow
<1>7. /\ r \in RunRow /\ r.state = run[o].state /\ r.started = run[o].started
      /\ r.root = run[o].root /\ r.frontier = frontier /\ r.blocked = blocked
  <2> HIDE DEF mid, r
  <2>1. QED
    BY <1>11, <1>12 DEF RunRow
<1>8. RunMoves(o, r)
  <2> HIDE DEF r
  <2>1. QED
    BY <1>1, <1>2, <1>4, <1>7, RunMoved
<1>9. run'[o] = r
  BY <1>8 DEF RunMoves
<1>10. QED
  BY <1>2, <1>3, <1>7, <1>8, <1>9 DEF WalkMoves, o

LEMMA BlockStep ==
    ASSUME Shape, Sane, NEW w \in Worker, Block(w)
    PROVE  WalkMoves(w, Mine(w).frontier \ {work[w].dir}, Mine(w).blocked \cup {work[w].dir})
<1> DEFINE o == work[w].op
           d == work[w].dir
<1>1. /\ WorkShape /\ RunsApart /\ Busy(w) /\ ~At(w, "start") /\ d \in Dir
      /\ At(w, "apply") /\ Goto(w, "walk")
  BY JobFields DEF Shape, Sane, At, Block
<1>2. o \in Op /\ run[o] # None /\ run[o] \in RunRow
  BY <1>1, ActingOps
<1>3. run' = [run EXCEPT ![o] = Blocked(run[o], d)]
  BY <1>1, <1>2 DEF Block, WorkShape
<1>4. Blocked(run[o], d)
      = [run[o] EXCEPT !.frontier = run[o].frontier \ {d}, !.blocked = run[o].blocked \cup {d}]
  BY <1>2 DEF Blocked, Completed, RunRow
<1>5. run[o].frontier \ {d} \in SUBSET Dir /\ run[o].blocked \cup {d} \in SUBSET Dir
  BY <1>1, <1>2 DEF RunRow
<1>6. run' = [run EXCEPT ![o] = [run[o] EXCEPT !.frontier = run[o].frontier \ {d},
                                              !.blocked = run[o].blocked \cup {d}]]
  BY <1>3, <1>4
<1>7. QED
  BY <1>1, <1>5, <1>6, WalkMoved DEF Mine

LEMMA SkipStep ==
    ASSUME Shape, Sane, NEW w \in Worker, Skip(w)
    PROVE  WalkMoves(w, Mine(w).frontier \ {work[w].dir}, Mine(w).blocked)
<1> DEFINE o == work[w].op
           d == work[w].dir
<1>1. /\ WorkShape /\ RunsApart /\ Busy(w) /\ ~At(w, "start") /\ d \in Dir
      /\ At(w, "apply") /\ Goto(w, "walk")
  BY JobFields DEF Shape, Sane, At, Skip
<1>2. o \in Op /\ run[o] # None /\ run[o] \in RunRow
  BY <1>1, ActingOps
<1>3. run' = [run EXCEPT ![o] = Completed(run[o], d, {})]
  BY <1>1, <1>2 DEF Skip, WorkShape
<1>4. Completed(run[o], d, {})
      = [run[o] EXCEPT !.frontier = run[o].frontier \ {d}, !.blocked = run[o].blocked]
  BY <1>2 DEF Completed, RunRow
<1>5. run[o].frontier \ {d} \in SUBSET Dir /\ run[o].blocked \in SUBSET Dir
  BY <1>1, <1>2 DEF RunRow
<1>6. run' = [run EXCEPT ![o] = [run[o] EXCEPT !.frontier = run[o].frontier \ {d},
                                              !.blocked = run[o].blocked]]
  BY <1>3, <1>4
<1>7. QED
  BY <1>1, <1>5, <1>6, WalkMoved DEF Mine

LEMMA ListingFields ==
    ASSUME NEW l \in ListingSet, l.kind = "listed"
    PROVE  l.device \in {"own", "bare"} /\ l.files \in SUBSET File /\ l.dirs \in SUBSET Dir
<1>1. l \in [kind : {"listed"}, device : {"own", "bare"}, files : SUBSET File, dirs : SUBSET Dir]
  BY DEF ListingSet
<1>2. QED
  BY <1>1

LEMMA ApplyStep ==
    ASSUME Shape, Sane, NEW w \in Worker, Apply(w)
    PROVE  /\ WalkMoves(w, (Mine(w).frontier \cup work[w].listing.dirs) \ {work[w].dir}, Mine(w).blocked)
           /\ work[w].listing \in ListingSet /\ work[w].listing.kind = "listed"
           /\ work[w].listing.dirs \in SUBSET Dir /\ work[w].listing.files \in SUBSET File
           /\ work[w].dir \in Dir
<1> DEFINE o == work[w].op
           d == work[w].dir
           l == work[w].listing
<1>1. /\ WorkShape /\ RunsApart /\ Busy(w) /\ ~At(w, "start") /\ d \in Dir
      /\ At(w, "apply") /\ Goto(w, "walk") /\ l \in ListingSet /\ l.kind = "listed"
  BY JobFields DEF Shape, Sane, At, Apply
<1>8. l.dirs \in SUBSET Dir /\ l.files \in SUBSET File
  BY <1>1, ListingFields
<1>2. o \in Op /\ run[o] # None /\ run[o] \in RunRow
  BY <1>1, ActingOps
<1>3. run' = [run EXCEPT ![o] = Completed(run[o], d, l.dirs)]
  BY <1>1, <1>2 DEF Apply, WorkShape
<1>4. Completed(run[o], d, l.dirs)
      = [run[o] EXCEPT !.frontier = (run[o].frontier \cup l.dirs) \ {d}, !.blocked = run[o].blocked]
  BY <1>2 DEF Completed, RunRow
<1>5. (run[o].frontier \cup l.dirs) \ {d} \in SUBSET Dir /\ run[o].blocked \in SUBSET Dir
  BY <1>1, <1>2, <1>8 DEF RunRow
<1>6. run' = [run EXCEPT ![o] = [run[o] EXCEPT !.frontier = (run[o].frontier \cup l.dirs) \ {d},
                                              !.blocked = run[o].blocked]]
  BY <1>3, <1>4
<1>7. QED
  BY <1>1, <1>5, <1>6, <1>8, WalkMoved DEF Mine

LEMMA EndedStep ==
    ASSUME Shape, Sane, NEW w \in Worker, Busy(w), ~At(w, "start"),
           NEW state \in {"completed", "failed"}, Ended(w, state)
    PROVE  LET o == work[w].op IN
           /\ o \in Op /\ run[o] # None /\ run[o] \in RunRow
           /\ RunMoves(o, run'[o]) /\ RunAlike(run[o], run'[o]) /\ run'[o].state # "running"
           /\ run'[o].state = IF run[o].state = "running" THEN state ELSE run[o].state
           /\ Turns(w, Idle)
           /\ OpsKept(op, op') /\ op'[o].state = "succeeded"
           /\ \A p \in Op : op[p] # None /\ p # o => op'[p] = op[p]
<1> DEFINE o == work[w].op
           r == [run[o] EXCEPT !.state = IF run[o].state = "running" THEN state ELSE run[o].state]
<1>1. WorkShape /\ RunsApart
  BY DEF Shape, Sane
<1>2. o \in Op /\ op[o] # None /\ run[o] # None /\ run[o] \in RunRow
  BY <1>1, ActingOps
<1>3. Turns(w, Idle)
  BY <1>1, RestTurns DEF Ended
<1>4. /\ OpsKept(op, op') /\ op'[o].state = "succeeded"
      /\ \A p \in Op : op[p] # None /\ p # o => op'[p] = op[p]
  BY <1>1, <1>2, RearmedOps DEF Ended
<1>5. run' = [run EXCEPT ![o] = r]
  BY <1>1, <1>2 DEF Ended, WorkShape
<1>6. r \in RunRow /\ RunAlike(run[o], r) /\ r.state # "running"
      /\ r.state = IF run[o].state = "running" THEN state ELSE run[o].state
  BY <1>2 DEF RunRow, RunAlike
<1> HIDE DEF r, o
<1>7. RunMoves(o, r)
  BY <1>1, <1>2, <1>5, <1>6, RunMoved
<1>8. run'[o] = r
  BY <1>7 DEF RunMoves
<1>9. QED
  BY <1>2, <1>3, <1>4, <1>6, <1>7, <1>8 DEF o

-----------------------------------------------------------------------------
(* What a reconciliation writes.                                           *)

LEMMA LiveRows ==
    ASSUME IndexShape, NEW d \in Dir, NEW c \in File
    PROVE  /\ row[d][c] \in FileRow \cup {NoRow}
           /\ row[d][c] # NoRow <=> row[d][c] \in FileRow
           /\ Live(d, c) => row[d][c] # NoRow
           /\ row[d][c] # NoRow => row[d][c].seen \in Nat /\ row[d][c].created \in Nat
<1>1. row[d][c] \in FileRow \cup {NoRow}
  BY DEF IndexShape
<1>2. NoRow \notin FileRow /\ NoRow.state # "live"
  BY DEF NoRow, FileRow
<1>3. QED
  BY <1>1, <1>2 DEF Live, FileRow

LEMMA LiveRowFields ==
    ASSUME NEW seen \in Nat, NEW created \in Nat
    PROVE  /\ LiveRow(seen, created) \in FileRow /\ LiveRow(seen, created) # NoRow
           /\ LiveRow(seen, created).state = "live"
           /\ LiveRow(seen, created).seen = seen /\ LiveRow(seen, created).created = created
BY DEF LiveRow, FileRow, NoRow

LEMMA OldestIsOne ==
    ASSUME IndexShape, NEW c \in File, NEW es \in SUBSET Dir, es # {}, \A e \in es : Live(e, c)
    PROVE  Oldest(c, es) \in es
<1> DEFINE N == {row[e][c].created : e \in es}
<1>1. \A e \in es : row[e][c].created \in Nat
  BY LiveRows
<1>2. N \in SUBSET Nat /\ N # {}
  BY <1>1
<1> HIDE DEF N
<1>3. PICK n \in N : \A m \in N : n <= m
  BY <1>2, Least
<1>4. PICK e \in es : n = row[e][c].created
  BY DEF N
<1>5. \A f \in es : row[e][c].created <= row[f][c].created
  BY <1>3, <1>4 DEF N
<1>6. QED
  BY <1>5 DEF Oldest

(* Nothing; or the row of what was listed, seen by this run; or the row of *)
(* a source goes.                                                          *)
Reconciles(d, files, started, e, c, new) ==
    \/ new = row[e][c] /\ (e = d /\ c \in files => ~Live(d, c) /\ ~Readable(c, d))
    \/ /\ e = d /\ c \in files
       /\ new \in FileRow /\ new.state = "live" /\ new.seen = started /\ new.created <= clock
    \/ e # d /\ c \in files /\ new = NoRow /\ Live(e, c) /\ IsGone(c, e)

LEMMA ReconciledRows ==
    ASSUME IndexShape, RowsStamped, clock \in Nat,
           NEW d \in Dir, NEW files \in SUBSET File, NEW started \in Nat,
           NEW since \in Nat, since <= clock
    PROVE  /\ Reconciled(d, files, started, since) \in [Dir -> [File -> FileRow \cup {NoRow}]]
           /\ \A e \in Dir, c \in File :
                 Reconciles(d, files, started, e, c, Reconciled(d, files, started, since)[e][c])
<1> DEFINE taken(c) == Readable(c, d) /\ ~Live(d, c)
           moved(c) == taken(c) /\ row[d][c] = NoRow /\ Sources(c, started) # {}
           from(c) == Oldest(c, Sources(c, started))
           new(e, c) ==
               IF c \notin files THEN row[e][c]
               ELSE IF e = d THEN
                   IF Live(d, c) THEN LiveRow(started, row[d][c].created)
                   ELSE IF ~taken(c) THEN row[d][c]
                   ELSE IF row[d][c] # NoRow THEN LiveRow(started, row[d][c].created)
                   ELSE IF moved(c) THEN LiveRow(started, row[from(c)][c].created)
                   ELSE LiveRow(started, since)
               ELSE IF moved(c) /\ e = from(c) THEN NoRow
               ELSE row[e][c]
<1>1. Reconciled(d, files, started, since) = [e \in Dir |-> [c \in File |-> new(e, c)]]
  BY DEF Reconciled
<1>2. ASSUME NEW c \in File, moved(c)
      PROVE  /\ from(c) \in Dir /\ Live(from(c), c) /\ IsGone(c, from(c))
             /\ row[from(c)][c].created \in Nat /\ row[from(c)][c].created <= clock
  <2>1. Sources(c, started) \in SUBSET Dir /\ \A e \in Sources(c, started) : Live(e, c) /\ IsGone(c, e)
    BY DEF Sources
  <2>2. from(c) \in Sources(c, started)
    BY <1>2, <2>1, OldestIsOne
  <2>3. QED
    BY <2>1, <2>2, LiveRows DEF RowsStamped
<1>3. ASSUME NEW e \in Dir, NEW c \in File
      PROVE  new(e, c) \in FileRow \cup {NoRow} /\ Reconciles(d, files, started, e, c, new(e, c))
  <2>1. CASE c \notin files
    BY <2>1, LiveRows DEF Reconciles
  <2>2. CASE c \in files /\ e # d
    <3>1. CASE moved(c) /\ e = from(c)
      BY <1>2, <2>2, <3>1 DEF Reconciles
    <3>2. CASE ~(moved(c) /\ e = from(c))
      BY <2>2, <3>2, LiveRows DEF Reconciles
    <3>3. QED
      BY <3>1, <3>2
  <2>3. CASE c \in files /\ e = d
    <3>0. row[d][c] # NoRow => row[d][c].created \in Nat /\ row[d][c].created <= clock
      BY LiveRows DEF RowsStamped
    <3>1. ASSUME NEW created \in Nat, created <= clock, new(e, c) = LiveRow(started, created)
          PROVE  new(e, c) \in FileRow \cup {NoRow} /\ Reconciles(d, files, started, e, c, new(e, c))
      <4> HIDE DEF new
      <4>1. QED
        BY <2>3, <3>1, LiveRowFields DEF Reconciles
    <3>2. CASE Live(d, c)
      <4>1. new(e, c) = LiveRow(started, row[d][c].created) /\ row[d][c] # NoRow
        BY <2>3, <3>2, LiveRows
      <4> HIDE DEF new
      <4>2. QED
        BY <3>0, <3>1, <4>1
    <3>3. CASE ~Live(d, c) /\ ~Readable(c, d)
      <4>1. new(e, c) = row[d][c]
        BY <2>3, <3>3
      <4> HIDE DEF new
      <4>2. QED
        BY <2>3, <3>3, <4>1, LiveRows DEF Reconciles
    <3>4. CASE taken(c) /\ row[d][c] # NoRow
      <4>1. new(e, c) = LiveRow(started, row[d][c].created)
        BY <2>3, <3>4
      <4> HIDE DEF new
      <4>2. QED
        BY <3>0, <3>1, <3>4, <4>1
    <3>5. CASE moved(c)
      <4>1. new(e, c) = LiveRow(started, row[from(c)][c].created)
        BY <2>3, <3>5
      <4> HIDE DEF new
      <4>2. QED
        BY <1>2, <3>1, <3>5, <4>1
    <3>6. CASE taken(c) /\ row[d][c] = NoRow /\ ~moved(c)
      <4>1. new(e, c) = LiveRow(started, since)
        BY <2>3, <3>6
      <4> HIDE DEF new
      <4>2. QED
        BY <3>1, <4>1
    <3>7. QED
      BY <3>2, <3>3, <3>4, <3>5, <3>6
  <2>4. QED
    BY <2>1, <2>2, <2>3
<1> HIDE DEF new
<1>4. Reconciled(d, files, started, since) \in [Dir -> [File -> FileRow \cup {NoRow}]]
  BY <1>1, <1>3
<1>5. \A e \in Dir, c \in File : Reconciled(d, files, started, since)[e][c] = new(e, c)
  BY <1>1
<1>6. QED
  BY <1>3, <1>4, <1>5

(* What Apply does to the rows.                                            *)
LEMMA ApplyRows ==
    ASSUME Shape, Sane, NEW w \in Worker, Apply(w)
    PROVE  /\ row' \in [Dir -> [File -> FileRow \cup {NoRow}]]
           /\ \A e \in Dir, c \in File :
                 Reconciles(work[w].dir, work[w].listing.files, Mine(w).started, e, c, row'[e][c])
           /\ Mine(w).started \in 1 .. clock
           /\ work[w].dir \in known
<1>1. /\ IndexShape /\ RowsStamped /\ clock \in Nat /\ RunsStamped /\ WorkShape /\ RunsApart
  BY DEF Shape, Sane, RestShape
<1>2. /\ work[w].listing.files \in SUBSET File /\ work[w].dir \in Dir
      /\ work[w].op \in Op /\ run[work[w].op] # None
  BY ApplyStep DEF WalkMoves
<1>3. At(w, "apply") /\ row' = Reconciled(work[w].dir, work[w].listing.files, Mine(w).started, work[w].since)
  BY DEF Apply
<1>4. work[w].since \in Nat /\ work[w].since <= clock
  BY <1>1, <1>3, JobFields DEF RunsStamped
<1>5. Mine(w).started \in 1 .. clock /\ work[w].dir \in known
  BY <1>1, <1>2, <1>3 DEF RunsStamped, Mine
<1>6. Mine(w).started \in Nat
  BY <1>5
<1> HIDE DEF Mine
<1>7. QED
  BY <1>1, <1>2, <1>3, <1>4, <1>5, <1>6, ReconciledRows

(* What a batch of a sweep does to the rows.                               *)
LEMMA SweepRows ==
    ASSUME Shape, Sane, NEW w \in Worker, CommitSweep(w)
    PROVE  /\ row' \in [Dir -> [File -> FileRow \cup {NoRow}]]
           /\ \A e \in Dir, c \in File :
                 IF <<e, c>> \in work[w].trash
                 THEN /\ Live(e, c) /\ row'[e][c] \in FileRow /\ row'[e][c].state = "trashed"
                      /\ row'[e][c].seen = row[e][c].seen /\ row'[e][c].created = row[e][c].created
                 ELSE row'[e][c] = row[e][c]
<1> DEFINE new(e, c) == IF <<e, c>> \in work[w].trash
                        THEN [row[e][c] EXCEPT !.state = "trashed"] ELSE row[e][c]
<1>1. row' = [e \in Dir |-> [c \in File |-> new(e, c)]] /\ At(w, "commit")
  BY DEF CommitSweep
<1>2. IndexShape
  BY DEF Shape
<1>3. ASSUME NEW e \in Dir, NEW c \in File, <<e, c>> \in work[w].trash
      PROVE  /\ Live(e, c) /\ new(e, c) \in FileRow /\ new(e, c).state = "trashed"
             /\ new(e, c).seen = row[e][c].seen /\ new(e, c).created = row[e][c].created
  <2>1. Live(e, c)
    BY <1>1, <1>3 DEF Sane, TrashLocked
  <2>2. row[e][c] \in FileRow
    BY <1>2, <2>1, LiveRows
  <2>3. QED
    BY <1>3, <2>1, <2>2 DEF FileRow
<1>4. \A e \in Dir, c \in File : new(e, c) \in FileRow \cup {NoRow}
  BY <1>2, <1>3, LiveRows
<1>5. \A e \in Dir, c \in File : row'[e][c] = new(e, c)
  BY <1>1
<1>6. row' \in [Dir -> [File -> FileRow \cup {NoRow}]]
  <2> HIDE DEF new
  <2>1. QED
    BY <1>1, <1>4
<1>7. QED
  BY <1>3, <1>5, <1>6

LEMMA UploadRows ==
    ASSUME Shape, UploadCommits
    PROVE  /\ upload.file \in File /\ upload.dir \in Dir /\ upload.since \in Nat
           /\ row[upload.dir][upload.file] = NoRow
           /\ row' \in [Dir -> [File -> FileRow \cup {NoRow}]]
           /\ \A e \in Dir, c \in File :
                 row'[e][c] = IF e = upload.dir /\ c = upload.file
                              THEN LiveRow(upload.since, upload.since) ELSE row[e][c]
           /\ upload' = NoUpload
<1>1. upload.pc = "register" /\ upload \in UploadSet
  BY DEF UploadCommits, Shape, RestShape
<1>2. upload.file \in File /\ upload.dir \in Dir /\ upload.since \in Nat
  BY <1>1 DEF UploadSet, NoUpload
<1>3. row' = [row EXCEPT ![upload.dir][upload.file] = LiveRow(upload.since, upload.since)]
      /\ row[upload.dir][upload.file] = NoRow /\ upload' = NoUpload
  BY DEF UploadCommits
<1>4. LiveRow(upload.since, upload.since) \in FileRow
  BY <1>2, LiveRowFields
<1>5. QED
  BY <1>2, <1>3, <1>4 DEF Shape, IndexShape

-----------------------------------------------------------------------------
(* The shape of the state is kept.                                         *)

Loop(w) ==
    \/ Start(w) \/ StartRefused(w) \/ Inspect(w) \/ Block(w) \/ Skip(w) \/ Apply(w)
    \/ TraversalEnds(w) \/ Sweep(w) \/ CommitSweep(w) \/ Refuse(w) \/ Finish(w) \/ Overtaken(w)
    \/ Stop(w)

(* Somebody changes the storage, a renaming upload included.               *)
Changes ==
    \/ \E c \in File : Delete(c)
    \/ \E c \in File, d \in Dir : Move(c, d)
    \/ \E d \in Dir : RemoveDirectory(d) \/ Leave(d) \/ Return(d) \/ Deny(d)
    \/ UploadRenames

Requests == UploadFails \/ \E c \in File, d \in Dir : UploadBegins(c, d)

LEMMA StepCases ==
    ASSUME Steps
    PROVE  \/ \E w \in Worker, o \in Op : Claim(w, o)
           \/ \E w \in Worker : Loop(w)
           \/ Expedite \/ Changes \/ Requests \/ UploadCommits
BY DEF Steps, Walking, Sweeping, Outside, Loop, Changes, Requests

LEMMA ChangesTouch ==
    ASSUME Changes PROVE UNCHANGED <<index, op, run, work, clock>>
BY DEF Changes, Delete, Move, RemoveDirectory, Leave, Return, Deny, UploadRenames, External, index

LEMMA RequestsTouch ==
    ASSUME Requests PROVE UNCHANGED <<storage, index, op, run, work, burst, clock, heard, shaken>>
BY DEF Requests, UploadFails, UploadBegins, storage, index

RunsKept ==
    /\ run' \in RunTable
    /\ \A o \in Op : run[o] # None =>
          /\ run'[o] # None /\ run'[o].started = run[o].started /\ run'[o].root = run[o].root
          /\ run[o].blocked \subseteq run'[o].blocked
          /\ run[o].state # "running" => run'[o].state # "running"

LEMMA SameRuns ==
    ASSUME WorkShape, run' = run PROVE RunsKept
BY DEF RunsKept, WorkShape, RunTable

LEMMA MovedRuns ==
    ASSUME NEW o \in Op, NEW r, run[o] # None, RunMoves(o, r),
           r.started = run[o].started, r.root = run[o].root, run[o].blocked \subseteq r.blocked,
           run[o].state # "running" => r.state # "running"
    PROVE  RunsKept
BY DEF RunsKept, RunMoves

LEMMA BegunKept ==
    ASSUME NEW o \in Op, RunBegins(o),
           run[o] # None /\ run[o].state # "running" => run'[o].state # "running"
    PROVE  RunsKept
BY DEF RunsKept, RunBegins, RunAlike

(* What a turn of a claim loop does to the operations, the runs and itself.*)
WorkKept == OpsKept(op, op') /\ RunsKept /\ work' \in [Worker -> Job]

LEMMA WalkKept ==
    ASSUME Shape, Sane, NEW w \in Worker, NEW frontier, NEW blocked,
           WalkMoves(w, frontier, blocked), Mine(w).blocked \subseteq blocked, op' = op
    PROVE  WorkKept
<1>1. op \in OpTable
  BY DEF Shape, WorkShape, OpTable
<1> DEFINE o == work[w].op
           r == [run[o] EXCEPT !.frontier = frontier, !.blocked = blocked]
<1>2. /\ o \in Op /\ run[o] # None /\ RunMoves(o, r) /\ run'[o].state = run[o].state
      /\ run'[o].started = run[o].started /\ run'[o].root = run[o].root
      /\ run'[o].blocked = blocked /\ run[o].blocked \subseteq blocked
      /\ work' \in [Worker -> Job]
  BY DEF WalkMoves, Turns, Mine
<1> HIDE DEF o, r
<1>3. run'[o] = r
  BY <1>2 DEF RunMoves
<1>4. RunsKept
  BY <1>2, <1>3, MovedRuns
<1>5. QED
  BY <1>1, <1>2, <1>4, SameOps DEF WorkKept

LEMMA EndedKept ==
    ASSUME Shape, Sane, NEW w \in Worker, Busy(w), ~At(w, "start"),
           NEW state \in {"completed", "failed"}, Ended(w, state)
    PROVE  WorkKept
<1> DEFINE o == work[w].op
<1>1. /\ o \in Op /\ run[o] # None /\ RunMoves(o, run'[o]) /\ RunAlike(run[o], run'[o])
      /\ run'[o].state # "running" /\ OpsKept(op, op') /\ work' \in [Worker -> Job]
  BY EndedStep DEF Turns
<1> HIDE DEF o
<1>2. RunsKept
  BY <1>1, MovedRuns DEF RunAlike
<1>3. QED
  BY <1>1, <1>2 DEF WorkKept

LEMMA InspectTurns ==
    ASSUME Shape, Sane, NEW w \in Worker, Inspect(w)
    PROVE  LET d == CHOOSE e \in Mine(w).frontier : \A f \in Mine(w).frontier : Order[e] <= Order[f]
           IN  /\ d \in Mine(w).frontier /\ d \in Dir
               /\ Listing(d) \in ListingSet
               /\ Turns(w, [op |-> work[w].op, attempt |-> work[w].attempt, pc |-> "apply",
                            dir |-> d, listing |-> Listing(d), since |-> clock])
<1> DEFINE fs == Mine(w).frontier
           d == CHOOSE e \in fs : \A f \in fs : Order[e] <= Order[f]
           N == {Order[e] : e \in fs}
           job == [op |-> work[w].op, attempt |-> work[w].attempt, pc |-> "apply",
                   dir |-> d, listing |-> Listing(d), since |-> clock]
<1>1. At(w, "walk") /\ fs # {} /\ Set(w, job)
  BY DEF Inspect
<1>2. WorkShape /\ RunsApart /\ Busy(w) /\ ~At(w, "start") /\ clock \in Nat
  BY <1>1, JobFields DEF Shape, Sane, At, RestShape
<1>3. work[w].op \in Op /\ work[w].attempt \in Nat /\ Mine(w) \in RunRow
  BY <1>2, ActingOps DEF Mine
<1>4. fs \in SUBSET Dir
  BY <1>3 DEF RunRow
<1> HIDE DEF fs
<1>5. N \in SUBSET Nat /\ N # {}
  BY <1>1, <1>4, UpIsDir
<1> HIDE DEF N
<1>6. PICK n \in N : \A m \in N : n <= m
  BY <1>5, Least
<1>7. d \in fs
  <2>1. PICK e \in fs : n = Order[e]
    BY DEF N
  <2>2. \A f \in fs : Order[e] <= Order[f]
    BY <1>6, <2>1 DEF N
  <2>3. QED
    BY <2>2
<1> HIDE DEF d
<1>8. d \in Dir
  BY <1>4, <1>7
<1>9. Listing(d) \in ListingSet
  <2>1. Children(d) \cap there \in SUBSET Dir /\ {c \in File : at[c] = d} \in SUBSET File
    BY DEF Children
  <2>2. QED
    BY <2>1 DEF Listing, ListingSet
<1>10. job \in Job
  <2>1. job \in Applying
    BY <1>2, <1>3, <1>8, <1>9 DEF Applying
  <2>2. QED
    BY <2>1 DEF Job
<1> HIDE DEF job
<1>11. Turns(w, job)
  BY <1>1, <1>2, <1>10, SetTurns
<1>12. QED
  BY <1>7, <1>8, <1>9, <1>11 DEF job, d, fs

LEMMA SweepTurns ==
    ASSUME Shape, Sane, NEW w \in Worker, Sweep(w)
    PROVE  /\ Turns(w, [op |-> work[w].op, attempt |-> work[w].attempt, pc |-> "commit",
                        trash |-> Unseen(Mine(w))])
           /\ work[w].op \in Op /\ run[work[w].op] # None
<1> DEFINE job == [op |-> work[w].op, attempt |-> work[w].attempt, pc |-> "commit",
                   trash |-> Unseen(Mine(w))]
<1>1. At(w, "sweep") /\ Set(w, job)
  BY DEF Sweep
<1>2. WorkShape /\ RunsApart /\ Busy(w) /\ ~At(w, "start")
  BY <1>1, JobFields DEF Shape, Sane, At
<1>3. work[w].op \in Op /\ work[w].attempt \in Nat /\ run[work[w].op] # None
  BY <1>2, ActingOps
<1>4. Unseen(Mine(w)) \in SUBSET (Dir \X File)
  BY DEF Unseen, Under
<1>5. job \in Job
  <2>1. job \in Committing
    BY <1>3, <1>4 DEF Committing
  <2>2. QED
    BY <2>1 DEF Job
<1> HIDE DEF job
<1>6. QED
  BY <1>1, <1>2, <1>3, <1>5, SetTurns DEF job

LEMMA LoopKept ==
    ASSUME Shape, Sane, NEW w \in Worker, Loop(w) PROVE WorkKept
<1>0. WorkShape /\ RunsApart /\ op \in OpTable
  BY DEF Shape, Sane, WorkShape, OpTable
<1>1. CASE Start(w)
  <2>1. /\ work[w].op \in Op /\ RunBegins(work[w].op)
        /\ run[work[w].op] # None => run'[work[w].op] = run[work[w].op]
        /\ work' \in [Worker -> Job]
    BY <1>1, StartStep DEF Turns
  <2>2. RunsKept
    BY <2>1, BegunKept
  <2>3. op' = op
    BY <1>1 DEF Start
  <2>4. QED
    BY <1>0, <2>1, <2>2, <2>3, SameOps DEF WorkKept
<1>2. CASE StartRefused(w)
  <2>1. /\ work[w].op \in Op /\ RunBegins(work[w].op) /\ run'[work[w].op].state = "failed"
        /\ work' \in [Worker -> Job] /\ OpsKept(op, op')
    BY <1>2, StartRefusedStep DEF Turns
  <2>2. RunsKept
    BY <2>1, BegunKept
  <2>4. QED
    BY <2>1, <2>2 DEF WorkKept
<1>3. CASE Inspect(w)
  <2>1. work' \in [Worker -> Job]
    BY <1>3, InspectTurns DEF Turns
  <2>2. op' = op /\ run' = run
    BY <1>3 DEF Inspect, Progress
  <2>3. QED
    BY <1>0, <2>1, <2>2, SameOps, SameRuns DEF WorkKept
<1>4. CASE Block(w)
  <2>1. op' = op
    BY <1>4 DEF Block, Progress
  <2>2. WalkMoves(w, Mine(w).frontier \ {work[w].dir}, Mine(w).blocked \cup {work[w].dir})
    BY <1>4, BlockStep
  <2>3. Mine(w).blocked \subseteq Mine(w).blocked \cup {work[w].dir}
    OBVIOUS
  <2>4. QED
    BY <2>1, <2>2, <2>3, WalkKept
<1>5. CASE Skip(w)
  <2>1. op' = op
    BY <1>5 DEF Skip, Progress
  <2>2. WalkMoves(w, Mine(w).frontier \ {work[w].dir}, Mine(w).blocked)
    BY <1>5, SkipStep
  <2>4. QED
    BY <2>1, <2>2, WalkKept
<1>6. CASE Apply(w)
  <2>1. op' = op
    BY <1>6 DEF Apply, Progress
  <2>2. WalkMoves(w, (Mine(w).frontier \cup work[w].listing.dirs) \ {work[w].dir}, Mine(w).blocked)
    BY <1>6, ApplyStep
  <2>4. QED
    BY <2>1, <2>2, WalkKept
<1>7. CASE TraversalEnds(w)
  <2>1. At(w, "walk") /\ Goto(w, "sweep") /\ op' = op /\ run' = run
    BY <1>7 DEF TraversalEnds, Progress
  <2>2. Busy(w)
    BY <1>0, <2>1, JobFields
  <2>3. work' \in [Worker -> Job]
    BY <1>0, <2>1, <2>2, GotoTurns DEF Turns
  <2>4. QED
    BY <1>0, <2>1, <2>3, SameOps, SameRuns DEF WorkKept
<1>8. CASE Sweep(w)
  <2>1. work' \in [Worker -> Job]
    BY <1>8, SweepTurns DEF Turns
  <2>2. op' = op /\ run' = run
    BY <1>8 DEF Sweep, Progress
  <2>3. QED
    BY <1>0, <2>1, <2>2, SameOps, SameRuns DEF WorkKept
<1>9. CASE CommitSweep(w)
  <2>1. At(w, "commit") /\ Goto(w, "sweep") /\ op' = op /\ run' = run
    BY <1>9 DEF CommitSweep, Progress
  <2>2. Busy(w)
    BY <1>0, <2>1, JobFields
  <2>3. work' \in [Worker -> Job]
    BY <1>0, <2>1, <2>2, GotoTurns DEF Turns
  <2>4. QED
    BY <1>0, <2>1, <2>3, SameOps, SameRuns DEF WorkKept
<1>10. CASE Refuse(w)
  <2>1. At(w, "commit") \/ At(w, "walk")
    BY <1>10 DEF Refuse
  <2>2. Busy(w) /\ ~At(w, "start") /\ Ended(w, "failed")
    BY <1>0, <1>10, <2>1, JobFields DEF Refuse, At
  <2>3. QED
    BY <2>2, EndedKept
<1>11. CASE Finish(w)
  <2>1. At(w, "sweep") /\ Ended(w, "completed")
    BY <1>11 DEF Finish
  <2>2. Busy(w) /\ ~At(w, "start")
    BY <1>0, <2>1, JobFields DEF At
  <2>3. QED
    BY <2>1, <2>2, EndedKept
<1>12. CASE Overtaken(w)
  <2>1. Rest(w) /\ op' = op /\ run' = run
    BY <1>12 DEF Overtaken, RolledBack
  <2>2. work' \in [Worker -> Job]
    BY <1>0, <2>1, RestTurns DEF Turns
  <2>3. QED
    BY <1>0, <2>1, <2>2, SameOps, SameRuns DEF WorkKept
<1>13. CASE Stop(w)
  <2>1. OpsKept(op, op') /\ work' \in [Worker -> Job]
    BY <1>0, <1>13, StopOps DEF Turns
  <2>2. run' = run
    BY <1>13 DEF Stop
  <2>3. QED
    BY <1>0, <2>1, <2>2, SameRuns DEF WorkKept
<1>14. QED
  BY <1>1, <1>2, <1>3, <1>4, <1>5, <1>6, <1>7, <1>8, <1>9, <1>10, <1>11, <1>12, <1>13 DEF Loop

LEMMA WorkStep ==
    ASSUME Shape, Sane, Steps PROVE WorkKept
<1>0. WorkShape /\ RestShape /\ op \in OpTable
  BY DEF Shape, WorkShape, OpTable
<1>1. CASE \E w \in Worker, o \in Op : Claim(w, o)
  <2>1. PICK w \in Worker, o \in Op : Claim(w, o)
    BY <1>1
  <2>2. OpsKept(op, op') /\ work' \in [Worker -> Job]
    BY <1>0, <2>1, ClaimOps DEF Turns, WorkShape
  <2>3. run' = run
    BY <2>1 DEF Claim
  <2>4. QED
    BY <1>0, <2>2, <2>3, SameRuns DEF WorkKept
<1>2. CASE \E w \in Worker : Loop(w)
  BY <1>2, LoopKept
<1>3. CASE Expedite
  <2>1. OpsKept(op, op')
    BY <1>0, <1>3, ExpediteOps
  <2>2. run' = run /\ work' = work
    BY <1>3 DEF Expedite
  <2>3. QED
    BY <1>0, <2>1, <2>2, SameRuns DEF WorkKept, WorkShape
<1>4. CASE Changes \/ Requests \/ UploadCommits
  <2>1. op' = op /\ run' = run /\ work' = work
    BY <1>4, ChangesTouch, RequestsTouch DEF UploadCommits
  <2>2. QED
    BY <1>0, <2>1, SameOps, SameRuns DEF WorkKept, WorkShape
<1>5. QED
  BY <1>1, <1>2, <1>3, <1>4, StepCases

LEMMA WorkShapeStep ==
    ASSUME Shape, Sane, Steps PROVE WorkShape'
BY WorkStep DEF WorkKept, OpsKept, RunsKept, WorkShape, OpTable, RunTable

LEMMA LoopTouches ==
    ASSUME NEW w \in Worker, Loop(w)
    PROVE  /\ UNCHANGED <<storage, upload, burst, changes>>
           /\ Apply(w) \/ CommitSweep(w) \/ row' = row
           /\ Apply(w) \/ UNCHANGED <<known, device>>
           /\ Start(w) \/ StartRefused(w) \/ UNCHANGED clock
           /\ Start(w) \/ StartRefused(w) \/ Apply(w) \/ CommitSweep(w) \/ UNCHANGED shaken
           /\ heard' \subseteq heard
<1>1. CASE Start(w) \/ StartRefused(w)
  BY <1>1 DEF Start, StartRefused, storage, index
<1>2. CASE Inspect(w) \/ Block(w) \/ Skip(w) \/ TraversalEnds(w) \/ Sweep(w)
  BY <1>2 DEF Inspect, Block, Skip, TraversalEnds, Sweep, Progress, index
<1>3. CASE Apply(w) \/ CommitSweep(w)
  BY <1>3 DEF Apply, CommitSweep, Progress
<1>4. CASE Refuse(w) \/ Finish(w) \/ Overtaken(w) \/ Stop(w)
  BY <1>4 DEF Refuse, Finish, Overtaken, RolledBack, Stop, Ended, storage, index
<1>5. QED
  BY <1>1, <1>2, <1>3, <1>4 DEF Loop

LEMMA ClaimTouches ==
    ASSUME NEW w \in Worker, NEW o \in Op, Claim(w, o)
    PROVE  /\ UNCHANGED <<storage, index, run, upload, burst, clock, changes, shaken>>
           /\ heard' \subseteq heard
BY DEF Claim

LEMMA StorageStep ==
    ASSUME Shape, Steps PROVE StorageShape'
<1>0. StorageShape
  BY DEF Shape
<1>1. CASE storage' = storage
  BY <1>0, <1>1 DEF storage, StorageShape
<1>2. CASE \E c \in File : Delete(c)
  BY <1>0, <1>2 DEF Delete, StorageShape
<1>3. CASE \E c \in File, d \in Dir : Move(c, d)
  BY <1>0, <1>3 DEF Move, StorageShape
<1>4. CASE \E d \in Dir : RemoveDirectory(d)
  BY <1>0, <1>4 DEF RemoveDirectory, StorageShape
<1>5. CASE \E d \in Dir : Leave(d) \/ Return(d) \/ Deny(d)
  BY <1>0, <1>5, ScanAssumption DEF Leave, Return, Deny, StorageShape
<1>6. CASE UploadRenames
  <2>1. upload.pc = "rename" /\ upload \in UploadSet
    BY <1>6 DEF UploadRenames, Shape, RestShape
  <2>2. upload.dir \in Dir
    BY <2>1 DEF UploadSet, NoUpload
  <2>3. QED
    BY <1>0, <1>6, <2>2 DEF UploadRenames, StorageShape
<1>7. CASE UploadCommits \/ Expedite
  BY <1>1, <1>7 DEF UploadCommits, Expedite
<1>8. QED
  BY <1>1, <1>2, <1>3, <1>4, <1>5, <1>6, <1>7, StepCases, LoopTouches, ClaimTouches, RequestsTouch
     DEF Changes

LEMMA IndexStep ==
    ASSUME Shape, Sane, Steps PROVE IndexShape' /\ known \subseteq known'
<1>0. IndexShape
  BY DEF Shape
<1>1. CASE index' = index
  BY <1>0, <1>1 DEF index, IndexShape
<1>2. ASSUME NEW w \in Worker, Apply(w) PROVE IndexShape' /\ known \subseteq known'
  <2>1. /\ row' \in [Dir -> [File -> FileRow \cup {NoRow}]]
        /\ work[w].listing.dirs \in SUBSET Dir
        /\ work[w].listing \in ListingSet /\ work[w].listing.kind = "listed"
    BY <1>2, ApplyRows, ApplyStep
  <2>2. work[w].listing.device \in {"own", "bare"}
    BY <2>1, ListingFields
  <2>3. /\ known' = known \cup work[w].listing.dirs
        /\ device' = [device EXCEPT ![work[w].dir] = work[w].listing.device]
    BY <1>2 DEF Apply
  <2>4. QED
    BY <1>0, <2>1, <2>2, <2>3 DEF IndexShape
<1>3. ASSUME NEW w \in Worker, CommitSweep(w) PROVE IndexShape' /\ known \subseteq known'
  BY <1>0, <1>3, SweepRows DEF CommitSweep, IndexShape
<1>4. CASE UploadCommits
  BY <1>0, <1>4, UploadRows DEF UploadCommits, IndexShape
<1>5. CASE Expedite
  BY <1>1, <1>5 DEF Expedite
<1>6. QED
  BY <1>1, <1>2, <1>3, <1>4, <1>5, StepCases, LoopTouches, ClaimTouches, ChangesTouch, RequestsTouch
     DEF index

LEMMA ShakingStep ==
    ASSUME shaken \in [Op -> SUBSET Kinds], NEW kind \in Kinds, NEW runs, Shaking(kind, runs)
    PROVE  /\ shaken' \in [Op -> SUBSET Kinds]
           /\ \A o \in Op : shaken'[o] = IF o \in runs /\ Underway(o) THEN shaken[o] \cup {kind} ELSE shaken[o]
BY DEF Shaking

(* What is shaken only grows, but for a run that begins.                   *)
ShakenKept == /\ shaken' \in [Op -> SUBSET Kinds]
              /\ \A o \in Op : run[o] # None => shaken[o] \subseteq shaken'[o]

LEMMA FromTheStart ==
    ASSUME Shape, NEW o \in Op, ShakenFromTheStart(o)
    PROVE  /\ ShakenKept
           /\ run[o] = None => shaken'[o] = IF Unnoticed(Nearest(op[o].root)) THEN {"mount"} ELSE {}
           /\ run[o] # None => shaken' = shaken
           /\ \A p \in Op : p # o => shaken'[p] = shaken[p]
<1>1. shaken \in [Op -> SUBSET Kinds] /\ "mount" \in Kinds
  BY DEF Shape, RestShape, Kinds
<1>2. QED
  BY <1>1 DEF ShakenFromTheStart, ShakenKept

LEMMA ShakenStep ==
    ASSUME Shape, Sane, Steps PROVE ShakenKept
<1>0. shaken \in [Op -> SUBSET Kinds] /\ Kinds = {"mount", "stamp", "upload", "change"}
  BY DEF Shape, RestShape, Kinds
<1>1. CASE shaken' = shaken
  BY <1>0, <1>1 DEF ShakenKept
<1>2. ASSUME NEW kind \in Kinds, NEW runs, Shaking(kind, runs) PROVE ShakenKept
  <2>1. /\ shaken' \in [Op -> SUBSET Kinds]
        /\ \A o \in Op : shaken'[o] = IF o \in runs /\ Underway(o) THEN shaken[o] \cup {kind} ELSE shaken[o]
    BY <1>0, <1>2, ShakingStep
  <2>2. QED
    BY <2>1 DEF ShakenKept
<1>3. ASSUME NEW w \in Worker, Start(w) \/ StartRefused(w) PROVE ShakenKept
  <2>1. work[w].op \in Op /\ ShakenFromTheStart(work[w].op)
    BY <1>3, StartStep, StartRefusedStep DEF Start, StartRefused
  <2>2. QED
    BY <2>1, FromTheStart
<1>4. ASSUME NEW w \in Worker, Apply(w) \/ CommitSweep(w) PROVE ShakenKept
  <2>1. Shaking("stamp", Op \ {work[w].op})
    BY <1>4 DEF Apply, CommitSweep
  <2>2. QED
    BY <1>0, <1>2, <2>1
<1>5. CASE Changes
  <2>1. Shaking("change", Op) \/ Shaking("mount", Op)
    BY <1>5 DEF Changes, Delete, Move, RemoveDirectory, Leave, Return, Deny, UploadRenames, External
  <2>2. QED
    BY <1>0, <1>2, <2>1
<1>6. CASE UploadCommits
  <2>1. Shaking("upload", {o \in Op : run[o] # None /\ upload.since < run[o].started})
    BY <1>6 DEF UploadCommits
  <2>2. QED
    BY <1>0, <1>2, <2>1
<1>7. CASE Expedite
  BY <1>1, <1>7 DEF Expedite
<1>8. QED
  BY <1>1, <1>3, <1>4, <1>5, <1>6, <1>7, StepCases, LoopTouches, ClaimTouches, RequestsTouch

LEMMA CoveringCovers ==
    ASSUME NEW b \in Dir \cup {None}, NEW d \in Dir
    PROVE  /\ Covering(b, d) \in Dir /\ d \in Under(Covering(b, d))
           /\ b # None => Under(b) \subseteq Under(Covering(b, d))
<1>1. CASE b = None
  BY <1>1, PathWithin, UnderIsPath DEF Covering
<1>2. CASE b # None
  <2>1. Covering(b, d) = CommonAncestor(d, b) /\ b \in Dir
    BY <1>2 DEF Covering
  <2>2. Covering(b, d) \in Path[d] \cap Path[b] /\ Covering(b, d) \in Dir
    BY <2>1, CommonAncestorCovers
  <2>3. \A e \in Dir : b \in Path[e] => Covering(b, d) \in Path[e]
    BY <2>1, <2>2, PathTransitive
  <2>4. QED
    BY <2>1, <2>2, <2>3, UnderIsPath
<1>3. QED
  BY <1>1, <1>2

(* An event joins the burst, which then covers it too.                     *)
Noted(ds) == /\ burst' \in Dir /\ heard' = heard \cup ds /\ ds \subseteq Under(burst')
             /\ burst # None => Under(burst) \subseteq Under(burst')

LEMMA NoteCovers ==
    ASSUME burst \in Dir \cup {None}, NEW d \in Dir, Note(d) PROVE Noted({d})
BY CoveringCovers DEF Note, Noted

LEMMA NoteMoveCovers ==
    ASSUME burst \in Dir \cup {None}, NEW d \in Dir, NEW e \in Dir, NoteMove(d, e) PROVE Noted({d, e})
<1> DEFINE b == Covering(burst, d)
<1>1. /\ b \in Dir /\ d \in Under(b) /\ b # None
      /\ burst # None => Under(burst) \subseteq Under(b)
  BY CoveringCovers, UpIsDir
<1> HIDE DEF b
<1>2. burst' = Covering(b, e) /\ heard' = heard \cup {d, e}
  BY DEF NoteMove, b
<1>3. burst' \in Dir /\ e \in Under(burst') /\ Under(b) \subseteq Under(burst')
  BY <1>1, <1>2, CoveringCovers
<1>4. QED
  BY <1>1, <1>2, <1>3 DEF Noted

LEMMA ChangesNoted ==
    ASSUME Shape, Changes
    PROVE  (burst' = burst /\ heard' = heard) \/ \E ds \in SUBSET Dir : Noted(ds)
<1>0. burst \in Dir \cup {None} /\ at \in [File -> Dir \cup {None}]
  BY DEF Shape, RestShape, StorageShape
<1>1. ASSUME NEW c \in File, Delete(c) PROVE \E ds \in SUBSET Dir : Noted(ds)
  <2>1. at[c] \in Dir /\ Note(at[c])
    BY <1>0, <1>1 DEF Delete, Placed
  <2>2. QED
    BY <1>0, <2>1, NoteCovers
<1>2. ASSUME NEW c \in File, NEW d \in Dir, Move(c, d) PROVE \E ds \in SUBSET Dir : Noted(ds)
  <2>1. at[c] \in Dir /\ NoteMove(at[c], d)
    BY <1>0, <1>2 DEF Move, Placed
  <2>2. Noted({at[c], d})
    BY <1>0, <2>1, NoteMoveCovers
  <2>3. QED
    BY <2>1, <2>2
<1>3. ASSUME NEW d \in Dir, RemoveDirectory(d) PROVE \E ds \in SUBSET Dir : Noted(ds)
  BY <1>0, <1>3, NoteCovers DEF RemoveDirectory
<1>4. CASE \E d \in Dir : Leave(d) \/ Return(d) \/ Deny(d)
  BY <1>4 DEF Leave, Return, Deny
<1>5. CASE UploadRenames
  <2>1. upload.pc = "rename" /\ upload \in UploadSet /\ Note(upload.dir)
    BY <1>5 DEF UploadRenames, Shape, RestShape
  <2>2. upload.dir \in Dir
    BY <2>1 DEF UploadSet, NoUpload
  <2>3. QED
    BY <1>0, <2>1, <2>2, NoteCovers
<1>6. QED
  BY <1>1, <1>2, <1>3, <1>4, <1>5 DEF Changes

LEMMA UploadStep ==
    ASSUME Shape, Sane, Steps
    PROVE  /\ upload' \in UploadSet
           /\ upload' # NoUpload =>
                 \/ /\ upload # NoUpload /\ upload'.since = upload.since
                    /\ upload'.dir = upload.dir /\ upload'.file = upload.file
                 \/ upload'.since = clock /\ upload'.dir \in known /\ upload'.pc = "rename"
           /\ upload'.pc = "register" => (upload.pc = "register" /\ upload' = upload) \/ UploadRenames
<1>0. upload \in UploadSet /\ clock \in Nat
  BY DEF Shape, RestShape
<1>1. CASE upload' = upload
  BY <1>0, <1>1
<1>2. CASE upload' = NoUpload
  BY <1>2 DEF UploadSet, NoUpload
<1>3. ASSUME NEW c \in File, NEW d \in Dir, UploadBegins(c, d)
      PROVE  upload' = [pc |-> "rename", file |-> c, dir |-> d, since |-> clock] /\ d \in known
  BY <1>3 DEF UploadBegins
<1>4. CASE UploadRenames
  <2>1. upload.pc = "rename" /\ upload' = [upload EXCEPT !.pc = "register"]
    BY <1>4 DEF UploadRenames
  <2>2. upload \in [pc : {"rename", "register"}, file : File, dir : Dir, since : Nat]
    BY <1>0, <2>1 DEF UploadSet, NoUpload
  <2>3. /\ upload' \in [pc : {"rename", "register"}, file : File, dir : Dir, since : Nat]
        /\ upload'.since = upload.since /\ upload'.dir = upload.dir /\ upload'.file = upload.file
    BY <2>1, <2>2
  <2>4. upload # NoUpload
    BY <2>1 DEF NoUpload
  <2>5. QED
    BY <1>4, <2>3, <2>4 DEF UploadSet
<1>5. CASE \E c \in File, d \in Dir : UploadBegins(c, d)
  <2>1. PICK c \in File, d \in Dir : UploadBegins(c, d)
    BY <1>5
  <2>2. upload' = [pc |-> "rename", file |-> c, dir |-> d, since |-> clock] /\ d \in known
    BY <1>3, <2>1
  <2>3. QED
    BY <1>0, <2>2 DEF UploadSet
<1>6. CASE UploadCommits \/ UploadFails
  BY <1>2, <1>6 DEF UploadCommits, UploadFails
<1>7. CASE Changes /\ ~UploadRenames
  BY <1>1, <1>7 DEF Changes, Delete, Move, RemoveDirectory, Leave, Return, Deny, External
<1>8. CASE Expedite
  BY <1>1, <1>8 DEF Expedite
<1>9. QED
  BY <1>1, <1>4, <1>5, <1>6, <1>7, <1>8, StepCases, LoopTouches, ClaimTouches DEF Requests

LEMMA ClockStep ==
    ASSUME Shape, Sane, Steps PROVE clock' \in Nat /\ clock <= clock'
<1>0. clock \in Nat
  BY DEF Shape, RestShape
<1>1. CASE clock' = clock
  BY <1>0, <1>1
<1>2. ASSUME NEW w \in Worker, Start(w) \/ StartRefused(w) PROVE clock' \in Nat /\ clock <= clock'
  BY <1>0, <1>2 DEF Start, StartRefused
<1>3. QED
  BY <1>1, <1>2, StepCases, LoopTouches, ClaimTouches, ChangesTouch, RequestsTouch
     DEF Expedite, UploadCommits

LEMMA HeardStep ==
    ASSUME Shape, Sane, Steps PROVE heard' \in SUBSET Dir /\ burst' \in Dir \cup {None}
<1>0. heard \in SUBSET Dir /\ burst \in Dir \cup {None}
  BY DEF Shape, RestShape
<1>1. CASE Changes
  BY <1>0, <1>1, ChangesNoted DEF Noted
<1>2. CASE Expedite
  BY <1>0, <1>2 DEF Expedite
<1>3. CASE UploadCommits
  BY <1>0, <1>3 DEF UploadCommits
<1>4. QED
  BY <1>0, <1>1, <1>2, <1>3, StepCases, LoopTouches, ClaimTouches, RequestsTouch

LEMMA LackingStep ==
    ASSUME Shape, Next
    PROVE  /\ lacking' \in [Op -> SUBSET (Dir \X File)]
           /\ \A o \in Op : lacking'[o] = IF Underway(o)' THEN lacking[o] \cup Misplaced' ELSE {}
           /\ Misplaced' \in SUBSET (Dir \X File)
<1>1. lacking \in [Op -> SUBSET (Dir \X File)]
  BY DEF Shape, RestShape
<1>2. Misplaced' \in SUBSET (Dir \X File)
  BY DEF Misplaced
<1>3. lacking' = [o \in Op |-> IF Underway(o)' THEN lacking[o] \cup Misplaced' ELSE {}]
  BY DEF Next
<1>4. QED
  BY <1>1, <1>2, <1>3

LEMMA ShapeStep ==
    ASSUME Shape, Sane, Next PROVE Shape'
<1>1. Steps
  BY DEF Next
<1>2. WorkShape' /\ StorageShape' /\ IndexShape'
  BY <1>1, WorkShapeStep, StorageStep, IndexStep
<1>3. RestShape'
  BY <1>1, UploadStep, ClockStep, HeardStep, LackingStep, ShakenStep DEF RestShape, ShakenKept
<1>4. QED
  BY <1>2, <1>3 DEF Shape

-----------------------------------------------------------------------------
(* What relates the parts of the state is kept.                            *)

LEMMA RowStep ==
    ASSUME Shape, Sane, Steps, NEW e \in Dir, NEW c \in File
    PROVE  \/ row'[e][c] = row[e][c]
           \/ row'[e][c] = NoRow
           \/ /\ row'[e][c].seen \in Nat /\ row'[e][c].created \in Nat
              /\ row'[e][c].seen <= clock /\ row'[e][c].created <= clock /\ e \in known
<1>0. IndexShape /\ RowsStamped /\ clock \in Nat
  BY DEF Shape, Sane, RestShape
<1>1. CASE row' = row
  BY <1>1
<1>2. ASSUME NEW w \in Worker, Apply(w)
      PROVE  \/ row'[e][c] = row[e][c]
             \/ row'[e][c] = NoRow
             \/ /\ row'[e][c].seen \in Nat /\ row'[e][c].created \in Nat
                /\ row'[e][c].seen <= clock /\ row'[e][c].created <= clock /\ e \in known
  <2>1. /\ Reconciles(work[w].dir, work[w].listing.files, Mine(w).started, e, c, row'[e][c])
        /\ Mine(w).started \in 1 .. clock /\ work[w].dir \in known
    BY <1>2, ApplyRows
  <2> HIDE DEF Mine
  <2>2. QED
    BY <1>0, <2>1 DEF Reconciles, FileRow
<1>3. ASSUME NEW w \in Worker, CommitSweep(w)
      PROVE  \/ row'[e][c] = row[e][c]
             \/ /\ row'[e][c].seen \in Nat /\ row'[e][c].created \in Nat
                /\ row'[e][c].seen <= clock /\ row'[e][c].created <= clock /\ e \in known
  <2>1. IF <<e, c>> \in work[w].trash
        THEN Live(e, c) /\ row'[e][c].seen = row[e][c].seen /\ row'[e][c].created = row[e][c].created
        ELSE row'[e][c] = row[e][c]
    BY <1>3, SweepRows
  <2>2. Live(e, c) => row[e][c] # NoRow /\ row[e][c].seen \in Nat /\ row[e][c].created \in Nat
    BY <1>0, LiveRows
  <2>3. QED
    BY <1>0, <2>1, <2>2 DEF RowsStamped
<1>4. ASSUME UploadCommits
      PROVE  \/ row'[e][c] = row[e][c]
             \/ /\ row'[e][c].seen \in Nat /\ row'[e][c].created \in Nat
                /\ row'[e][c].seen <= clock /\ row'[e][c].created <= clock /\ e \in known
  <2>1. /\ upload.since \in Nat
        /\ row'[e][c] = IF e = upload.dir /\ c = upload.file
                        THEN LiveRow(upload.since, upload.since) ELSE row[e][c]
    BY <1>4, UploadRows
  <2>2. upload # NoUpload
    BY <1>4 DEF UploadCommits, NoUpload
  <2>3. upload.since <= clock /\ upload.dir \in known
    BY <1>0, <2>2 DEF RowsStamped
  <2>4. QED
    BY <2>1, <2>3, LiveRowFields
<1>5. QED
  BY <1>1, <1>2, <1>3, <1>4, StepCases, LoopTouches, ClaimTouches, ChangesTouch, RequestsTouch
     DEF Expedite, index

LEMMA RowsStampedStep ==
    ASSUME Shape, Sane, Steps PROVE RowsStamped'
<1>0. /\ RowsStamped /\ clock \in Nat /\ clock' \in Nat /\ clock <= clock' /\ known \subseteq known'
      /\ IndexShape /\ upload \in UploadSet
  BY ClockStep, IndexStep DEF Shape, Sane, RestShape
<1>1. ASSUME NEW e \in Dir, NEW c \in File, row'[e][c] # NoRow
      PROVE  row'[e][c].seen <= clock' /\ row'[e][c].created <= clock' /\ e \in known'
  <2>1. CASE row'[e][c] = row[e][c]
    <3>1. /\ row[e][c].seen <= clock /\ row[e][c].created <= clock /\ e \in known
          /\ row[e][c].seen \in Nat /\ row[e][c].created \in Nat
      BY <1>0, <1>1, <2>1, LiveRows DEF RowsStamped
    <3>2. QED
      BY <1>0, <2>1, <3>1
  <2>2. CASE /\ row'[e][c].seen \in Nat /\ row'[e][c].created \in Nat
             /\ row'[e][c].seen <= clock /\ row'[e][c].created <= clock /\ e \in known
    BY <1>0, <2>2
  <2>3. QED
    BY <1>1, <2>1, <2>2, RowStep
<1>2. upload' # NoUpload => upload'.since <= clock' /\ upload'.dir \in known'
  <2>1. upload # NoUpload => upload.since \in Nat /\ upload.since <= clock /\ upload.dir \in known
    BY <1>0 DEF RowsStamped, UploadSet
  <2>2. upload' # NoUpload =>
          \/ upload # NoUpload /\ upload'.since = upload.since /\ upload'.dir = upload.dir
          \/ upload'.since = clock /\ upload'.dir \in known
    BY UploadStep
  <2>3. QED
    BY <1>0, <2>1, <2>2
<1>3. QED
  BY <1>0, <1>1, <1>2 DEF RowsStamped

(* A walk only visits what has a row.                                      *)
LEMMA RunsStampedStep ==
    ASSUME Shape, Sane, Steps PROVE RunsStamped'
<1>0. /\ RunsStamped /\ RowsStamped /\ clock \in Nat /\ clock' \in Nat /\ clock <= clock'
      /\ known \subseteq known' /\ WorkShape /\ RunsApart
  BY ClockStep, IndexStep DEF Shape, Sane, RestShape
<1>1. CASE run' = run /\ \A w \in Worker : work'[w] = work[w] \/ ~(At(w, "apply")')
  <2>1. \A w \in Worker : At(w, "apply") => work[w].since \in Nat
    BY <1>0, JobFields
  <2>2. QED
    BY <1>0, <1>1, <2>1 DEF RunsStamped, At
<1>2. ASSUME NEW w \in Worker, NEW job, Turns(w, job), job.pc # "apply"
      PROVE  \A v \in Worker : At(v, "apply")' => work'[v].since <= clock' /\ work'[v].dir \in known'
  <2>1. \A v \in Worker : At(v, "apply") => work[v].since \in Nat
    BY <1>0, JobFields
  <2>2. QED
    BY <1>0, <1>2, <2>1 DEF RunsStamped, At, Turns
<1>3. ASSUME NEW w \in Worker, NEW frontier, NEW blocked, WalkMoves(w, frontier, blocked),
             frontier \subseteq known', blocked \subseteq known'
      PROVE  RunsStamped'
  <2> DEFINE o == work[w].op
  <2>1. /\ o \in Op /\ run[o] # None /\ run' \in RunTable /\ run'[o].started = run[o].started
        /\ run'[o].frontier = frontier /\ run'[o].blocked = blocked
        /\ \A p \in Op : p # o => run'[p] = run[p]
        /\ Turns(w, [op |-> o, attempt |-> work[w].attempt, pc |-> "walk"])
    BY <1>3 DEF WalkMoves, RunMoves
  <2>2. \A v \in Worker : At(v, "apply")' => work'[v].since <= clock' /\ work'[v].dir \in known'
    BY <1>2, <2>1
  <2> HIDE DEF o
  <2>3. \A p \in Op : run'[p] # None =>
          run'[p].started \in 1 .. clock' /\ run'[p].frontier \subseteq known' /\ run'[p].blocked \subseteq known'
    BY <1>0, <1>3, <2>1 DEF RunsStamped
  <2>4. QED
    BY <2>2, <2>3 DEF RunsStamped
<1>4. ASSUME NEW w \in Worker, NEW o \in Op, RunBegins(o), op[o] # None,
             NEW job, Turns(w, job), job.pc # "apply", Root \in known
      PROVE  RunsStamped'
  <2>1. Nearest(op[o].root) \in known
    BY <1>0, <1>4, NearestIsKnown DEF WorkShape, OpRow
  <2>2. \A p \in Op : run'[p] # None =>
          run'[p].started \in 1 .. clock' /\ run'[p].frontier \subseteq known' /\ run'[p].blocked \subseteq known'
    BY <1>0, <1>4, <2>1 DEF RunBegins, FreshRun, RunAlike, RunsStamped
  <2>3. QED
    BY <1>2, <1>4, <2>2 DEF RunsStamped
<1>5. ASSUME NEW w \in Worker, Busy(w), ~At(w, "start"), NEW state \in {"completed", "failed"}, Ended(w, state)
      PROVE  RunsStamped'
  <2> DEFINE o == work[w].op
  <2>1. o \in Op /\ run[o] # None /\ RunMoves(o, run'[o]) /\ RunAlike(run[o], run'[o]) /\ Turns(w, Idle)
    BY <1>5, EndedStep
  <2> HIDE DEF o
  <2>2. \A p \in Op : run'[p] # None =>
          run'[p].started \in 1 .. clock' /\ run'[p].frontier \subseteq known' /\ run'[p].blocked \subseteq known'
    BY <1>0, <2>1 DEF RunMoves, RunAlike, RunsStamped
  <2>3. QED
    BY <1>2, <2>1, <2>2 DEF RunsStamped, Idle
<1>6. ASSUME NEW w \in Worker, Start(w) PROVE RunsStamped'
  <2>1. work[w].op \in Op /\ op[work[w].op] # None /\ RunBegins(work[w].op)
        /\ Turns(w, [op |-> work[w].op, attempt |-> work[w].attempt, pc |-> "walk"])
    BY <1>6, StartStep
  <2>2. QED
    BY <1>0, <1>4, <2>1 DEF RowsStamped
<1>7. ASSUME NEW w \in Worker, StartRefused(w) PROVE RunsStamped'
  <2>1. work[w].op \in Op /\ op[work[w].op] # None /\ RunBegins(work[w].op) /\ Turns(w, Idle)
    BY <1>7, StartRefusedStep
  <2>2. Idle.pc # "apply" /\ Root \in known
    BY <1>0 DEF Idle, RowsStamped
  <2>3. QED
    BY <1>4, <2>1, <2>2
<1>8. ASSUME NEW w \in Worker, Inspect(w) PROVE RunsStamped'
  <2> DEFINE d == CHOOSE e \in Mine(w).frontier : \A f \in Mine(w).frontier : Order[e] <= Order[f]
             job == [op |-> work[w].op, attempt |-> work[w].attempt, pc |-> "apply",
                     dir |-> d, listing |-> Listing(d), since |-> clock]
  <2>1. d \in Mine(w).frontier /\ Turns(w, job)
    BY <1>8, InspectTurns
  <2>2. At(w, "walk") /\ run' = run
    BY <1>8 DEF Inspect
  <2>3. work[w].op \in Op /\ run[work[w].op] # None
    BY <1>0, <2>2, JobFields, ActingOps DEF At
  <2>4. d \in known
    BY <1>0, <2>1, <2>3 DEF RunsStamped, Mine
  <2>5. job.since = clock /\ job.dir = d
    OBVIOUS
  <2> HIDE DEF job, d
  <2>6. \A v \in Worker : At(v, "apply") => work[v].since \in Nat
    BY <1>0, JobFields
  <2>7. \A v \in Worker : At(v, "apply")' => work'[v].since <= clock' /\ work'[v].dir \in known'
    BY <1>0, <2>1, <2>4, <2>5, <2>6 DEF RunsStamped, At, Turns
  <2>8. QED
    BY <1>0, <2>2, <2>7 DEF RunsStamped
<1>9. ASSUME NEW w \in Worker, Block(w) PROVE RunsStamped'
  <2> DEFINE fs == Mine(w).frontier \ {work[w].dir}
             bs == Mine(w).blocked \cup {work[w].dir}
  <2>1. WalkMoves(w, fs, bs)
    BY <1>9, BlockStep
  <2>2. work[w].op \in Op /\ run[work[w].op] # None /\ At(w, "apply")
    BY <1>9, <2>1 DEF WalkMoves, Block
  <2>3. fs \subseteq known' /\ bs \subseteq known'
    BY <1>0, <2>2 DEF RunsStamped, Mine
  <2> HIDE DEF fs, bs
  <2>4. QED
    BY <1>3, <2>1, <2>3
<1>10. ASSUME NEW w \in Worker, Skip(w) PROVE RunsStamped'
  <2> DEFINE fs == Mine(w).frontier \ {work[w].dir}
             bs == Mine(w).blocked
  <2>1. WalkMoves(w, fs, bs)
    BY <1>10, SkipStep
  <2>2. work[w].op \in Op /\ run[work[w].op] # None
    BY <2>1 DEF WalkMoves
  <2>3. fs \subseteq known' /\ bs \subseteq known'
    BY <1>0, <2>2 DEF RunsStamped, Mine
  <2> HIDE DEF fs, bs
  <2>4. QED
    BY <1>3, <2>1, <2>3
<1>11. ASSUME NEW w \in Worker, Apply(w) PROVE RunsStamped'
  <2> DEFINE fs == (Mine(w).frontier \cup work[w].listing.dirs) \ {work[w].dir}
             bs == Mine(w).blocked
  <2>1. WalkMoves(w, fs, bs) /\ known' = known \cup work[w].listing.dirs
    BY <1>11, ApplyStep DEF Apply
  <2>2. work[w].op \in Op /\ run[work[w].op] # None
    BY <2>1 DEF WalkMoves
  <2>3. fs \subseteq known' /\ bs \subseteq known'
    BY <1>0, <2>1, <2>2 DEF RunsStamped, Mine
  <2> HIDE DEF fs, bs
  <2>4. QED
    BY <1>3, <2>1, <2>3
<1>12. ASSUME NEW w \in Worker, TraversalEnds(w) \/ CommitSweep(w) PROVE RunsStamped'
  <2>1. (At(w, "walk") \/ At(w, "commit")) /\ Goto(w, "sweep") /\ run' = run
    BY <1>12 DEF TraversalEnds, CommitSweep, Progress
  <2>2. Turns(w, [op |-> work[w].op, attempt |-> work[w].attempt, pc |-> "sweep"])
    BY <1>0, <2>1, JobFields, GotoTurns
  <2>3. QED
    BY <1>0, <1>2, <2>1, <2>2 DEF RunsStamped
<1>13. ASSUME NEW w \in Worker, Sweep(w) PROVE RunsStamped'
  <2>1. Turns(w, [op |-> work[w].op, attempt |-> work[w].attempt, pc |-> "commit", trash |-> Unseen(Mine(w))])
    BY <1>13, SweepTurns
  <2>2. run' = run
    BY <1>13 DEF Sweep
  <2>3. QED
    BY <1>0, <1>2, <2>1, <2>2 DEF RunsStamped
<1>14. ASSUME NEW w \in Worker, Refuse(w) \/ Finish(w) PROVE RunsStamped'
  <2>1. /\ At(w, "walk") \/ At(w, "sweep") \/ At(w, "commit")
        /\ Ended(w, "failed") \/ Ended(w, "completed")
    BY <1>14 DEF Refuse, Finish
  <2>2. Busy(w) /\ ~At(w, "start")
    BY <1>0, <2>1, JobFields DEF At
  <2>3. QED
    BY <1>5, <2>1, <2>2
<1>15. ASSUME NEW w \in Worker, Overtaken(w) \/ Stop(w) PROVE RunsStamped'
  <2>1. Rest(w) /\ run' = run
    BY <1>15 DEF Overtaken, RolledBack, Stop
  <2>2. Turns(w, Idle) /\ Idle.pc # "apply"
    BY <1>0, <2>1, RestTurns DEF Idle
  <2>3. QED
    BY <1>0, <1>2, <2>1, <2>2 DEF RunsStamped
<1>16. ASSUME NEW w \in Worker, NEW o \in Op, Claim(w, o) PROVE RunsStamped'
  <2>1. run' = run /\ (work' = work \/ Turns(w, [op |-> o, attempt |-> op[o].attempt + 1, pc |-> "start"]))
    BY <1>0, <1>16, ClaimOps DEF Claim
  <2>2. CASE work' = work
    BY <1>1, <2>1, <2>2
  <2>3. CASE Turns(w, [op |-> o, attempt |-> op[o].attempt + 1, pc |-> "start"])
    BY <1>0, <1>2, <2>1, <2>3 DEF RunsStamped
  <2>4. QED
    BY <2>1, <2>2, <2>3
<1>17. CASE run' = run /\ work' = work
  BY <1>1, <1>17
<1>18. QED
  BY <1>6, <1>7, <1>8, <1>9, <1>10, <1>11, <1>12, <1>13, <1>14, <1>15, <1>16, <1>17,
     StepCases, ChangesTouch, RequestsTouch DEF Loop, Expedite, UploadCommits

(* What the loop that moves is executing next.                             *)
LEMMA LoopActs ==
    ASSUME Shape, Sane, NEW w \in Worker, Loop(w)
    PROVE  LET o == work[w].op IN
           /\ Busy(w) /\ o \in Op /\ op[o] # None
           /\ \E job : /\ Turns(w, job)
                       /\ \/ job = Idle
                          \/ /\ job # Idle /\ job.op = o /\ job.pc # "start" /\ run'[o] # None
                             /\ job.pc = "walk" => Start(w) \/ Block(w) \/ Skip(w) \/ Apply(w)
                             /\ job.pc = "apply" => Inspect(w)
                             /\ job.pc = "sweep" => TraversalEnds(w) \/ CommitSweep(w)
                             /\ job.pc = "commit" => Sweep(w) /\ job.trash = Unseen(Mine(w))
<1>0. WorkShape /\ RunsApart /\ RunsKept
  BY LoopKept DEF Shape, Sane, WorkKept
<1>1. Busy(w)
  <2>1. \/ At(w, "start") \/ At(w, "walk") \/ At(w, "apply") \/ At(w, "sweep") \/ At(w, "commit")
        \/ Busy(w)
    BY DEF Loop, Start, StartRefused, Inspect, Block, Skip, Apply, TraversalEnds, Sweep, CommitSweep,
           Refuse, Finish, Overtaken, Stop
  <2>2. QED
    BY <1>0, <2>1, JobFields
<1>2. work[w].op \in Op /\ op[work[w].op] # None /\ (~At(w, "start") => run[work[w].op] # None)
  BY <1>0, <1>1, ActingOps
<1> DEFINE o == work[w].op
           Next2(job) ==
               /\ Turns(w, job)
               /\ \/ job = Idle
                  \/ /\ job # Idle /\ job.op = o /\ job.pc # "start" /\ run'[o] # None
                     /\ job.pc = "walk" => Start(w) \/ Block(w) \/ Skip(w) \/ Apply(w)
                     /\ job.pc = "apply" => Inspect(w)
                     /\ job.pc = "sweep" => TraversalEnds(w) \/ CommitSweep(w)
                     /\ job.pc = "commit" => Sweep(w) /\ job.trash = Unseen(Mine(w))
<1>3. ASSUME ~At(w, "start") PROVE run'[o] # None
  BY <1>0, <1>2, <1>3 DEF RunsKept
<1>4. CASE Start(w) \/ Block(w) \/ Skip(w) \/ Apply(w)
  <2> DEFINE job == [op |-> o, attempt |-> work[w].attempt, pc |-> "walk"]
  <2>1. Turns(w, job) /\ run'[o] # None
    <3>1. CASE Start(w)
      BY <3>1, StartStep DEF RunBegins
    <3>2. CASE Block(w)
      BY <3>2, BlockStep DEF WalkMoves, RunMoves
    <3>3. CASE Skip(w)
      BY <3>3, SkipStep DEF WalkMoves, RunMoves
    <3>4. CASE Apply(w)
      BY <3>4, ApplyStep DEF WalkMoves, RunMoves
    <3>5. QED
      BY <1>4, <3>1, <3>2, <3>3, <3>4
  <2>2. job # Idle /\ job.op = o /\ job.pc = "walk"
    BY DEF Idle
  <2> HIDE DEF job, o
  <2>3. Next2(job)
    BY <1>4, <2>1, <2>2
  <2>4. QED
    BY <1>1, <1>2, <2>3 DEF o
<1>5. CASE Inspect(w)
  <2> DEFINE d == CHOOSE e \in Mine(w).frontier : \A f \in Mine(w).frontier : Order[e] <= Order[f]
             job == [op |-> o, attempt |-> work[w].attempt, pc |-> "apply",
                     dir |-> d, listing |-> Listing(d), since |-> clock]
  <2>1. Turns(w, job)
    BY <1>5, InspectTurns
  <2>2. job # Idle /\ job.op = o /\ job.pc = "apply"
    BY DEF Idle
  <2>3. run'[o] # None
    BY <1>3, <1>5 DEF Inspect, At
  <2> HIDE DEF job, o
  <2>4. Next2(job)
    BY <1>5, <2>1, <2>2, <2>3
  <2>5. QED
    BY <1>1, <1>2, <2>4 DEF o
<1>6. CASE TraversalEnds(w) \/ CommitSweep(w)
  <2> DEFINE job == [op |-> o, attempt |-> work[w].attempt, pc |-> "sweep"]
  <2>1. ~At(w, "start") /\ Goto(w, "sweep")
    BY <1>6 DEF TraversalEnds, CommitSweep, At
  <2>2. Turns(w, job)
    BY <1>0, <1>1, <2>1, GotoTurns
  <2>3. job # Idle /\ job.op = o /\ job.pc = "sweep"
    BY DEF Idle
  <2> HIDE DEF job, o
  <2>4. Next2(job)
    BY <1>3, <1>6, <2>1, <2>2, <2>3
  <2>5. QED
    BY <1>1, <1>2, <2>4 DEF o
<1>7. CASE Sweep(w)
  <2> DEFINE job == [op |-> o, attempt |-> work[w].attempt, pc |-> "commit", trash |-> Unseen(Mine(w))]
  <2>1. Turns(w, job) /\ ~At(w, "start")
    BY <1>7, SweepTurns DEF Sweep, At
  <2>2. job # Idle /\ job.op = o /\ job.pc = "commit" /\ job.trash = Unseen(Mine(w))
    BY DEF Idle
  <2> HIDE DEF job, o
  <2>4. Next2(job)
    BY <1>3, <1>7, <2>1, <2>2
  <2>5. QED
    BY <1>1, <1>2, <2>4 DEF o
<1>8. CASE StartRefused(w) \/ Refuse(w) \/ Finish(w) \/ Overtaken(w) \/ Stop(w)
  <2>1. Rest(w)
    BY <1>8 DEF StartRefused, Refuse, Finish, Overtaken, RolledBack, Stop, Ended
  <2>2. Turns(w, Idle)
    BY <1>0, <2>1, RestTurns
  <2> HIDE DEF o
  <2>3. Next2(Idle)
    BY <2>2
  <2>4. QED
    BY <1>1, <1>2, <2>3 DEF o
<1>9. QED
  BY <1>4, <1>5, <1>6, <1>7, <1>8 DEF Loop

(* Only to start ends or begins what runs; to end does so with the         *)
(* operation.                                                              *)
LEMMA LoopEnds ==
    ASSUME Shape, Sane, NEW w \in Worker, Loop(w), NEW p \in Op
    PROVE  /\ run'[p] # None /\ run[p] = None =>
                 p = work[w].op /\ (Start(w) \/ (StartRefused(w) /\ run'[p].state # "running"))
           /\ run'[p] # None /\ run'[p].state # "running" =>
                 \/ run[p] # None /\ run[p].state # "running"
                 \/ Terminal(p)
                 \/ p = work[w].op /\ op'[p].state = "succeeded"
           /\ Start(w) \/ StartRefused(w) => \A q \in Op \ {work[w].op} : q \notin Running'
<1>1. CASE Start(w)
  BY <1>1, StartStep DEF RunBegins, Running
<1>2. CASE StartRefused(w)
  BY <1>2, StartRefusedStep DEF RunBegins, Running
<1>3. ASSUME NEW frontier, NEW blocked, WalkMoves(w, frontier, blocked)
      PROVE  /\ run'[p] # None => run[p] # None
             /\ run'[p] # None /\ run'[p].state # "running" => run[p].state # "running"
  BY <1>3 DEF WalkMoves, RunMoves
<1>4. CASE Block(w) \/ Skip(w) \/ Apply(w)
  <2>1. /\ run'[p] # None => run[p] # None
        /\ run'[p] # None /\ run'[p].state # "running" => run[p].state # "running"
    BY <1>3, <1>4, BlockStep, SkipStep, ApplyStep
  <2>2. ~(Start(w) \/ StartRefused(w))
    BY <1>4 DEF Start, StartRefused, Block, Skip, Apply, At
  <2>3. QED
    BY <2>1, <2>2
<1>5. CASE Refuse(w) \/ Finish(w)
  <2>1. Busy(w) /\ ~At(w, "start")
    <3>1. ~At(w, "start")
      BY <1>5 DEF Refuse, Finish, At
    <3>2. QED
      BY <3>1, LoopActs
  <2>2. Ended(w, "failed") \/ Ended(w, "completed")
    BY <1>5 DEF Refuse, Finish
  <2>3. LET o == work[w].op IN
        o \in Op /\ run[o] # None /\ RunMoves(o, run'[o]) /\ op'[o].state = "succeeded"
    BY <2>1, <2>2, EndedStep
  <2>4. ~(Start(w) \/ StartRefused(w))
    BY <2>1 DEF Start, StartRefused
  <2>5. QED
    BY <2>3, <2>4 DEF RunMoves
<1>6. CASE Inspect(w) \/ TraversalEnds(w) \/ Sweep(w) \/ CommitSweep(w)
  <2>1. run' = run
    BY <1>6 DEF Inspect, TraversalEnds, Sweep, CommitSweep, Progress
  <2>2. ~(Start(w) \/ StartRefused(w))
    BY <1>6 DEF Start, StartRefused, Inspect, TraversalEnds, Sweep, CommitSweep, At
  <2>3. QED
    BY <2>1, <2>2
<1>7. CASE ~(Start(w) \/ StartRefused(w)) /\ (Overtaken(w) \/ Stop(w))
  BY <1>7 DEF Overtaken, RolledBack, Stop
<1>8. QED
  BY <1>1, <1>2, <1>4, <1>5, <1>6, <1>7 DEF Loop

LEMMA RunsApartStep ==
    ASSUME Shape, Sane, Steps PROVE RunsApart'
<1>0. RunsApart /\ WorkShape /\ OpsKept(op, op') /\ RunsKept /\ WorkShape'
  BY WorkStep, WorkShapeStep DEF WorkKept, Sane, Shape
<1>1. ASSUME NEW w \in Worker, Loop(w) PROVE RunsApart'
  <2> DEFINE o == work[w].op
  <2>1. PICK job : /\ o \in Op /\ op[o] # None /\ Turns(w, job)
                   /\ job = Idle \/ (job # Idle /\ job.op = o /\ job.pc # "start" /\ run'[o] # None)
    BY <1>1, LoopActs
  <2>2. \A v \in Worker : Busy(v)' =>
            /\ op'[work'[v].op] # None
            /\ ~(At(v, "start")') => run'[work'[v].op] # None
    <3> SUFFICES ASSUME NEW v \in Worker, Busy(v)'
                 PROVE  /\ op'[work'[v].op] # None
                        /\ ~(At(v, "start")') => run'[work'[v].op] # None
      OBVIOUS
    <3> HIDE DEF o
    <3>1. CASE v = w
      BY <1>0, <2>1, <3>1 DEF OpsKept, Turns, Busy
    <3>2. CASE v # w
      <4>1. work'[v] = work[v] /\ Busy(v)
        BY <2>1, <3>2 DEF Turns, Busy
      <4>2. work[v].op \in Op /\ op[work[v].op] # None /\ (~At(v, "start") => run[work[v].op] # None)
        BY <1>0, <4>1, ActingOps
      <4>3. QED
        BY <1>0, <4>1, <4>2 DEF OpsKept, RunsKept, At
    <3>3. QED
      BY <3>1, <3>2
  <2>3. \A p \in Op : run'[p] # None => op'[p] # None /\ (run'[p].state # "running" => Terminal(p)')
    <3> SUFFICES ASSUME NEW p \in Op, run'[p] # None
                 PROVE  op'[p] # None /\ (run'[p].state # "running" => Terminal(p)')
      OBVIOUS
    <3>1. op[p] # None
      BY <1>0, <1>1, <2>1, LoopEnds DEF RunsApart
    <3>2. Terminal(p) => Terminal(p)'
      BY <1>0, <3>1 DEF OpsKept, Terminal
    <3>3. QED
      BY <1>0, <1>1, <3>1, <3>2, LoopEnds DEF OpsKept, RunsApart, Terminal
  <2>4. \A q, p \in Running' : q = p
    <3>1. Start(w) \/ StartRefused(w) => \A q \in Op \ {o} : q \notin Running'
      BY <1>1, LoopEnds
    <3>2. ~(Start(w) \/ StartRefused(w)) => Running' \subseteq Running
      BY <1>0, <1>1, LoopEnds DEF Running, RunsKept
    <3>3. Running' \subseteq Op
      BY DEF Running
    <3>4. QED
      BY <1>0, <3>1, <3>2, <3>3 DEF RunsApart
  <2>5. QED
    BY <2>2, <2>3, <2>4 DEF RunsApart
<1>2. ASSUME run' = run,
             \A v \in Worker : work'[v] = work[v] \/ (op'[work'[v].op] # None /\ work'[v].pc = "start")
      PROVE  RunsApart'
  <2>1. \A v \in Worker : Busy(v) => work[v].op \in Op
    BY <1>0, JobFields
  <2>2. \A p \in Op : op[p] # None => op'[p] # None /\ (Terminal(p) => Terminal(p)')
    BY <1>0 DEF OpsKept, Terminal
  <2>3. QED
    BY <1>0, <1>2, <2>1, <2>2 DEF RunsApart, Running, Busy, At
<1>3. ASSUME NEW w \in Worker, NEW o \in Op, Claim(w, o) PROVE RunsApart'
  <2>1. run' = run /\ op'[o] # None
        /\ (work' = work \/ Turns(w, [op |-> o, attempt |-> op[o].attempt + 1, pc |-> "start"]))
    BY <1>0, <1>3, ClaimOps DEF Claim
  <2>2. QED
    BY <1>2, <2>1 DEF Turns
<1>4. CASE run' = run /\ work' = work
  BY <1>2, <1>4
<1>5. QED
  BY <1>1, <1>3, <1>4, StepCases, ChangesTouch, RequestsTouch DEF Expedite, UploadCommits

LEMMA TrashLockedStep ==
    ASSUME Shape, Sane, Steps PROVE TrashLocked'
<1>0. TrashLocked /\ WorkShape /\ IndexShape
  BY DEF Sane, Shape
<1> DEFINE Kept(v) == At(v, "commit")' => At(v, "commit") /\ work'[v] = work[v]
<1>1. ASSUME NEW v \in Worker, At(v, "commit") PROVE work[v].trash \in SUBSET (Dir \X File)
  BY <1>0, <1>1, JobFields
<1>2. CASE row' = row /\ \A v \in Worker : Kept(v)
  BY <1>0, <1>2 DEF TrashLocked, Live
<1>3. ASSUME NEW w \in Worker, Loop(w),
             ~Sweep(w) PROVE \A v \in Worker : Kept(v)
  <2>1. PICK job : Turns(w, job) /\ (job = Idle \/ job.pc # "commit")
    BY <1>3, LoopActs
  <2>2. QED
    BY <2>1 DEF Turns, At, Idle
<1>4. ASSUME NEW w \in Worker, Loop(w), ~Sweep(w), ~CommitSweep(w), ~Apply(w) PROVE TrashLocked'
  BY <1>2, <1>3, <1>4, LoopTouches
<1>5. ASSUME NEW w \in Worker, Sweep(w) PROVE TrashLocked'
  <2> DEFINE job == [op |-> work[w].op, attempt |-> work[w].attempt, pc |-> "commit",
                     trash |-> Unseen(Mine(w))]
  <2>1. Turns(w, job) /\ job.trash = Unseen(Mine(w))
    BY <1>5, SweepTurns
  <2> HIDE DEF job
  <2>2. /\ row' = row
        /\ \A p \in Unseen(Mine(w)) : ~RowLocked(p[1], p[2])
        /\ Unseen(Mine(w)) \subseteq Dir \X File
        /\ \A p \in Unseen(Mine(w)) : Live(p[1], p[2])
    <3>1. row' = row /\ \A p \in Unseen(Mine(w)) : ~RowLocked(p[1], p[2])
      BY <1>5 DEF Sweep, Progress, index
    <3>2. Under(Mine(w).root) \ Excluded(Mine(w)) \subseteq Dir
      BY DEF Under
    <3>3. QED
      BY <3>1, <3>2 DEF Unseen, IsUnseen
  <2> DEFINE new == Unseen(Mine(w))
  <2> HIDE DEF new
  <2>3. \A v \in Worker : At(v, "commit") => work[v].trash \cap new = {}
    <3> SUFFICES ASSUME NEW v \in Worker, At(v, "commit"), NEW p \in new, p \in work[v].trash PROVE FALSE
      OBVIOUS
    <3>1. p = <<p[1], p[2]>>
      BY <2>2 DEF new
    <3>2. QED
      BY <2>2, <3>1 DEF new, RowLocked
  <2>4. \A p \in new : Live(p[1], p[2])
    BY <2>2 DEF new
  <2>5. \A v \in Worker : At(v, "commit")' =>
          IF v = w THEN work'[v].trash = new ELSE work'[v] = work[v] /\ At(v, "commit")
    BY <2>1 DEF Turns, At, new
  <2>6. QED
    BY <1>0, <2>2, <2>3, <2>4, <2>5 DEF TrashLocked, Live
<1>6. ASSUME \A v \in Worker : Kept(v),
             \A v \in Worker : At(v, "commit")' =>
                \A d \in Dir, c \in File : <<d, c>> \in work[v].trash => row'[d][c] = row[d][c]
      PROVE  TrashLocked'
  <2>1. ASSUME NEW v \in Worker, At(v, "commit")', NEW p \in work'[v].trash PROVE Live(p[1], p[2])'
    <3>1. At(v, "commit") /\ work'[v] = work[v] /\ p \in Dir \X File
      BY <1>1, <1>6, <2>1
    <3>2. p = <<p[1], p[2]>> /\ p[1] \in Dir /\ p[2] \in File
      BY <3>1
    <3>3. Live(p[1], p[2])
      BY <1>0, <2>1, <3>1 DEF TrashLocked
    <3>4. row'[p[1]][p[2]] = row[p[1]][p[2]]
      BY <1>6, <2>1, <3>1, <3>2
    <3>5. QED
      BY <3>3, <3>4 DEF Live
  <2>2. QED
    BY <1>0, <1>6, <2>1 DEF TrashLocked
<1>7. ASSUME NEW w \in Worker, Apply(w) PROVE TrashLocked'
  <2>1. \A v \in Worker : Kept(v)
    BY <1>3, <1>7 DEF Apply, Sweep, Loop, At
  <2>2. ASSUME NEW v \in Worker, At(v, "commit"), NEW d \in Dir, NEW c \in File,
               <<d, c>> \in work[v].trash
        PROVE  row'[d][c] = row[d][c]
    <3>1. RowLocked(d, c)
      BY <2>2 DEF RowLocked
    <3>2. c \notin work[w].listing.files
      BY <1>7, <3>1 DEF Apply
    <3>3. QED
      BY <1>7, <3>2, ApplyRows DEF Reconciles
  <2>3. QED
    BY <1>6, <2>1, <2>2
<1>8. ASSUME NEW w \in Worker, CommitSweep(w) PROVE TrashLocked'
  <2>1. \A v \in Worker : Kept(v)
    BY <1>3, <1>8 DEF CommitSweep, Sweep, Loop, At
  <2>2. At(w, "commit") /\ ~(At(w, "commit")')
    <3>1. At(w, "commit") /\ Goto(w, "sweep")
      BY <1>8 DEF CommitSweep
    <3>2. Turns(w, [op |-> work[w].op, attempt |-> work[w].attempt, pc |-> "sweep"])
      BY <1>0, <3>1, JobFields, GotoTurns
    <3>3. QED
      BY <3>1, <3>2 DEF Turns, At
  <2>3. ASSUME NEW v \in Worker, v # w, At(v, "commit"), NEW d \in Dir, NEW c \in File,
               <<d, c>> \in work[v].trash
        PROVE  row'[d][c] = row[d][c]
    <3>1. <<d, c>> \notin work[w].trash
      BY <1>0, <2>2, <2>3 DEF TrashLocked
    <3>2. QED
      BY <1>8, <3>1, SweepRows
  <2>4. QED
    BY <1>6, <2>1, <2>2, <2>3
<1>9. CASE UploadCommits
  <2>1. \A v \in Worker : Kept(v)
    BY <1>9 DEF UploadCommits, At
  <2>2. ASSUME NEW v \in Worker, At(v, "commit"), NEW d \in Dir, NEW c \in File,
               <<d, c>> \in work[v].trash
        PROVE  row'[d][c] = row[d][c]
    <3>1. Live(d, c)
      BY <1>0, <2>2 DEF TrashLocked
    <3>2. row[d][c] # NoRow
      BY <1>0, <3>1, LiveRows
    <3>3. QED
      BY <1>9, <3>2, UploadRows
  <2>3. QED
    BY <1>6, <2>1, <2>2
<1>10. ASSUME NEW w \in Worker, NEW o \in Op, Claim(w, o) PROVE TrashLocked'
  <2>1. row' = row
        /\ (work' = work \/ Turns(w, [op |-> o, attempt |-> op[o].attempt + 1, pc |-> "start"]))
    BY <1>0, <1>10, ClaimOps, ClaimTouches DEF index
  <2>2. \A v \in Worker : Kept(v)
    BY <2>1 DEF Turns, At
  <2>3. QED
    BY <1>2, <2>1, <2>2
<1>11. CASE row' = row /\ work' = work
  BY <1>2, <1>11 DEF At
<1>12. QED
  BY <1>4, <1>5, <1>7, <1>8, <1>9, <1>10, <1>11, StepCases, ChangesTouch, RequestsTouch
     DEF Expedite, index

LEMMA StorageIsTreeStep ==
    ASSUME Shape, Sane, Steps PROVE StorageIsTree'
<1>0. /\ StorageIsTree /\ there \in SUBSET Dir /\ at \in [File -> Dir \cup {None}]
      /\ upload \in UploadSet
  BY DEF Sane, Shape, StorageShape, RestShape
<1>1. CASE UNCHANGED <<at, there>>
  BY <1>0, <1>1 DEF StorageIsTree
<1>2. ASSUME NEW c \in File, Delete(c) PROVE StorageIsTree'
  BY <1>0, <1>2 DEF Delete, StorageIsTree
<1>3. ASSUME NEW c \in File, NEW d \in Dir, Move(c, d) PROVE StorageIsTree'
  BY <1>0, <1>3 DEF Move, StorageIsTree
<1>4. ASSUME NEW d \in Dir, RemoveDirectory(d) PROVE StorageIsTree'
  <2>1. /\ there' = there \ Under(d)
        /\ at' = [c \in File |-> IF at[c] \in Under(d) THEN None ELSE at[c]]
    BY <1>4 DEF RemoveDirectory
  <2>2. \A e \in Dir \ Under(d) : Path[e] \cap Under(d) = {}
    BY UnderIsPath, PathTransitive
  <2>3. QED
    BY <1>0, <2>1, <2>2 DEF StorageIsTree
<1>5. CASE UploadRenames
  BY <1>0, <1>5 DEF UploadRenames, StorageIsTree, UploadSet
<1>6. CASE \E d \in Dir : Leave(d) \/ Return(d) \/ Deny(d)
  BY <1>1, <1>6 DEF Leave, Return, Deny
<1>7. QED
  BY <1>1, <1>2, <1>3, <1>4, <1>5, <1>6, StepCases, LoopTouches, ClaimTouches, RequestsTouch
     DEF Changes, Expedite, UploadCommits, storage

LEMMA SaneStep ==
    ASSUME Shape, Sane, Next PROVE Sane'
<1>1. Steps
  BY DEF Next
<1>2. QED
  BY <1>1, RowsStampedStep, RunsStampedStep, RunsApartStep, TrashLockedStep, StorageIsTreeStep DEF Sane

Base == Shape /\ Sane

LEMMA ShapeInit ==
    ASSUME Init PROVE Shape
<1>1. StorageShape
  BY DEF Init, StorageShape
<1>2. IndexShape
  <2>1. LiveRow(0, 0) \in FileRow
    BY LiveRowFields
  <2>2. \/ row = [d \in Dir |-> [c \in File |-> IF at[c] = d THEN LiveRow(0, 0) ELSE NoRow]]
        \/ row = [d \in Dir |-> [c \in File |-> NoRow]]
    BY DEF Init
  <2>3. row \in [Dir -> [File -> FileRow \cup {NoRow}]]
    BY <2>1, <2>2
  <2>4. known \in SUBSET Dir /\ device \in [Dir -> {None, "own", "bare"}]
    BY UpIsDir DEF Init
  <2>5. QED
    BY <2>3, <2>4 DEF IndexShape
<1>3. WorkShape
  <2> DEFINE none == [o \in Op |-> None]
  <2>1. none \in OpTable
    BY DEF OpTable
  <2> HIDE DEF none
  <2>2. op = Scheduled(none, Root, TRUE)
    BY DEF Init, none
  <2>3. op \in OpTable
    BY <2>1, <2>2, ScheduledOps, UpIsDir DEF OpsKept
  <2>4. Idle \in Job
    BY DEF Job, Resting
  <2>5. run \in [Op -> RunRow \cup {None}] /\ work \in [Worker -> Job]
    BY <2>4 DEF Init
  <2>6. QED
    BY <2>3, <2>5 DEF WorkShape, OpTable
<1>4. RestShape
  BY DEF Init, RestShape, UploadSet
<1>5. QED
  BY <1>1, <1>2, <1>3, <1>4 DEF Shape

LEMMA SaneInit ==
    ASSUME Init PROVE Sane
<1>0. clock = 0 /\ run = [o \in Op |-> None] /\ work = [w \in Worker |-> Idle] /\ upload = NoUpload
  BY DEF Init
<1>1. RowsStamped
  <2>1. LiveRow(0, 0).seen = 0 /\ LiveRow(0, 0).created = 0
    BY LiveRowFields
  <2>2. \/ known = Dir /\ row = [d \in Dir |-> [c \in File |-> IF at[c] = d THEN LiveRow(0, 0) ELSE NoRow]]
        \/ known = {Root} /\ row = [d \in Dir |-> [c \in File |-> NoRow]]
    BY DEF Init
  <2>3. QED
    BY <1>0, <2>1, <2>2, UpIsDir DEF RowsStamped
<1>2. RunsStamped
  BY <1>0 DEF RunsStamped, At, Idle
<1>3. RunsApart
  BY <1>0 DEF RunsApart, Running, Busy
<1>4. TrashLocked
  BY <1>0 DEF TrashLocked, At, Idle
<1>5. StorageIsTree
  BY PathWithin DEF Init, StorageIsTree
<1>6. QED
  BY <1>1, <1>2, <1>3, <1>4, <1>5 DEF Sane

LEMMA BaseStutters ==
    ASSUME Base, UNCHANGED vars PROVE Base'
<1>1. Shape'
  BY DEF Base, Shape, StorageShape, IndexShape, WorkShape, RestShape, vars, storage, index
<1>2. RowsStamped' /\ StorageIsTree' /\ TrashLocked'
  BY DEF Base, Sane, RowsStamped, StorageIsTree, TrashLocked, vars, storage, index, At, Live
<1>3. RunsStamped'
  BY DEF Base, Sane, RunsStamped, vars, storage, index, At
<1>4. RunsApart'
  BY DEF Base, Sane, RunsApart, Running, Terminal, Busy, vars, storage, index, At
<1>5. QED
  BY <1>1, <1>2, <1>3, <1>4 DEF Base, Sane

LEMMA BaseStep ==
    ASSUME Base, [Next]_vars PROVE Base'
BY ShapeStep, SaneStep, BaseStutters DEF Base

LEMMA BaseAlways == Spec => []Base
<1>1. Init => Base
  BY ShapeInit, SaneInit DEF Base
<1>2. Base /\ [Next]_vars => Base'
  BY BaseStep
<1>3. QED
  BY <1>1, <1>2, PTL DEF Spec

(* Every stamp is of the past, every run walks and blocks directories that *)
(* have rows, at most one scan of the workspace runs, and whoever executes *)
(* a scan past its start has its run.                                      *)
THEOREM ScanTypeCorrect == Spec => []TypeOK
<1>1. ASSUME Base PROVE TypeOK
  <2>1. Shape /\ Sane
    BY <1>1 DEF Base
  <2>2. Cardinality(Running) <= 1
    <3>1. CASE Running = {}
      BY <3>1, FS_EmptySet
    <3>2. CASE Running # {}
      <4>1. PICK o : o \in Running
        BY <3>2
      <4>2. Running = {o}
        BY <2>1, <4>1 DEF Sane, RunsApart
      <4>3. Cardinality({o}) = 1
        BY FS_Singleton
      <4>4. QED
        BY <4>2, <4>3
    <3>3. QED
      BY <3>1, <3>2
  <2>3. QED
    BY <2>1, <2>2 DEF TypeOK, Shape, StorageShape, IndexShape, WorkShape, RestShape,
                      Sane, RowsStamped, RunsStamped, RunsApart
<1>2. QED
  BY <1>1, BaseAlways, PTL

-----------------------------------------------------------------------------
(* What the watcher heard is looked at.                                    *)

(* A scan that is due and has not begun will look at a directory.          *)
Answers(o, d) ==
    /\ op[o] # None /\ ~Terminal(o) /\ op[o].due /\ run[o] = None
    /\ d \in Under(op[o].root)

LEMMA AnswersStill ==
    ASSUME WorkShape, NEW o \in Op, NEW d, Answers(o, d), OpsKept(op, op'),
           ~Terminal(o)', op'[o].due, run'[o] = None
    PROVE  Answers(o, d)'
<1>1. op'[o] # None /\ op'[o].root = op[o].root
  BY DEF OpsKept, Answers
<1>2. Under(op[o].root) = Under(op'[o].root)
  BY <1>1
<1>3. QED
  BY <1>1, <1>2 DEF Answers, Under, PathTo

LEMMA AnsweredStep ==
    ASSUME Shape, Sane, Steps, NEW d \in heard', d \in heard, NEW o \in Op, Answers(o, d)
    PROVE  Answers(o, d)'
<1>0. WorkShape /\ RunsApart /\ RestShape /\ OpsKept(op, op') /\ op \in OpTable
  BY WorkStep DEF Shape, Sane, WorkKept, WorkShape, OpTable
<1>1. op[o] # None /\ ~Terminal(o) /\ op[o].due /\ run[o] = None /\ d \in Under(op[o].root)
  BY DEF Answers
<1>2. CASE op'[o] = op[o] /\ run'[o] = None
  BY <1>0, <1>1, <1>2, AnswersStill DEF Terminal
<1>3. ASSUME NEW w \in Worker, NEW p \in Op, Claim(w, p) PROVE Answers(o, d)'
  <2>1. CASE p # o
    BY <1>0, <1>1, <1>2, <1>3, <2>1, ClaimOps, ClaimTouches
  <2>2. CASE p = o
    <3>1. op'[o].state = "running" /\ op'[o].due = op[o].due
      BY <1>0, <1>1, <1>3, <2>2, ClaimOps
    <3>2. run' = run
      BY <1>3, ClaimTouches
    <3>3. QED
      BY <1>0, <1>1, <3>1, <3>2, AnswersStill DEF Terminal
  <2>3. QED
    BY <2>1, <2>2
<1>4. ASSUME NEW w \in Worker, Start(w) PROVE Answers(o, d)'
  <2> DEFINE q == work[w].op
  <2>1. /\ q \in Op /\ op[q] # None /\ RunBegins(q) /\ op' = op
        /\ heard' = heard \ (IF run[q] = None THEN Under(Nearest(op[q].root)) ELSE {})
    BY <1>4, StartStep DEF Start
  <2> HIDE DEF q
  <2>2. q # o
    <3> SUFFICES ASSUME q = o PROVE FALSE
      OBVIOUS
    <3>1. d \notin Under(Nearest(op[o].root))
      BY <1>1, <2>1
    <3>2. op[o].root \in Dir /\ Root \in known
      BY <1>0, <1>1 DEF WorkShape, OpRow, Sane, RowsStamped
    <3>3. Nearest(op[o].root) \in Path[op[o].root] /\ Nearest(op[o].root) \in Dir
      BY <3>2, NearestIsKnown
    <3>4. d \in Dir /\ op[o].root \in Path[d]
      BY <1>1, <3>2, UnderIsPath
    <3>5. Nearest(op[o].root) \in Path[d]
      BY <3>3, <3>4, PathTransitive
    <3>6. QED
      BY <3>1, <3>3, <3>4, <3>5, UnderIsPath
  <2>3. run'[o] = None
    BY <1>1, <2>1, <2>2 DEF RunBegins
  <2>4. QED
    BY <1>2, <2>1, <2>3
<1>5. ASSUME NEW w \in Worker, StartRefused(w) PROVE Answers(o, d)'
  <2> DEFINE q == work[w].op
  <2>1. /\ q \in Op /\ RunBegins(q) /\ heard' = heard \ Under(op[q].root)
        /\ \A p \in Op : op[p] # None /\ p # q => op'[p] = op[p]
    BY <1>5, StartRefusedStep DEF StartRefused
  <2> HIDE DEF q
  <2>2. q # o
    BY <1>1, <2>1
  <2>3. QED
    BY <1>1, <1>2, <2>1, <2>2 DEF RunBegins
<1>6. ASSUME NEW w \in Worker, Refuse(w) \/ Finish(w) PROVE Answers(o, d)'
  <2>1. Busy(w) /\ ~At(w, "start")
    <3>1. ~At(w, "start")
      BY <1>6 DEF Refuse, Finish, At
    <3>2. QED
      BY <1>6, <3>1, LoopActs DEF Loop
  <2>2. Ended(w, "failed") \/ Ended(w, "completed")
    BY <1>6 DEF Refuse, Finish
  <2> DEFINE q == work[w].op
  <2>3. /\ q \in Op /\ run[q] # None /\ RunMoves(q, run'[q])
        /\ \A p \in Op : op[p] # None /\ p # q => op'[p] = op[p]
    BY <2>1, <2>2, EndedStep
  <2> HIDE DEF q
  <2>4. QED
    BY <1>1, <1>2, <2>3 DEF RunMoves
<1>7. ASSUME NEW w \in Worker, Block(w) \/ Skip(w) \/ Apply(w) PROVE Answers(o, d)'
  <2> DEFINE q == work[w].op
  <2>1. \E r : q \in Op /\ run[q] # None /\ RunMoves(q, r)
    BY <1>7, BlockStep, SkipStep, ApplyStep DEF WalkMoves
  <2>2. op' = op
    BY <1>7 DEF Block, Skip, Apply, Progress
  <2> HIDE DEF q
  <2>3. QED
    BY <1>1, <1>2, <2>1, <2>2 DEF RunMoves
<1>8. ASSUME NEW w \in Worker,
             Inspect(w) \/ TraversalEnds(w) \/ Sweep(w) \/ CommitSweep(w) \/ Overtaken(w)
      PROVE  Answers(o, d)'
  BY <1>1, <1>2, <1>8 DEF Inspect, TraversalEnds, Sweep, CommitSweep, Overtaken, RolledBack, Progress
<1>9. ASSUME NEW w \in Worker, Stop(w) PROVE Answers(o, d)'
  <2>1. (Terminal(o)' <=> Terminal(o)) /\ op'[o].due = op[o].due
    BY <1>0, <1>1, <1>9, StopOps
  <2>2. run' = run
    BY <1>9 DEF Stop
  <2>3. QED
    BY <1>0, <1>1, <2>1, <2>2, AnswersStill
<1>10. CASE Expedite
  <2>1. (Terminal(o)' <=> Terminal(o)) /\ op'[o].due
    BY <1>0, <1>1, <1>10, ExpediteOps
  <2>2. run' = run
    BY <1>10 DEF Expedite
  <2>3. QED
    BY <1>0, <1>1, <2>1, <2>2, AnswersStill
<1>11. CASE Changes \/ Requests \/ UploadCommits
  BY <1>1, <1>2, <1>11, ChangesTouch, RequestsTouch DEF UploadCommits
<1>12. QED
  BY <1>3, <1>4, <1>5, <1>6, <1>7, <1>8, <1>9, <1>10, <1>11, StepCases DEF Loop

(* The scan that the watcher has queued or hastened is due.                *)
LEMMA ExpediteAnswers ==
    ASSUME Shape, Sane, Expedite, NEW d \in heard', d \in Under(burst)
    PROVE  \E o \in Op : Answers(o, d)'
<1>0. op \in OpTable /\ burst \in Dir
  BY DEF Shape, WorkShape, OpTable, RestShape, Expedite
<1>1. op' = Expedited(Scheduled(op, burst, TRUE), burst) /\ run' = run
      /\ \E o \in Op : op'[o] # None /\ op'[o].state = "queued" /\ op'[o].root = burst /\ run[o] = None
  BY DEF Expedite
<1>2. PICK o \in Op : op'[o] # None /\ op'[o].state = "queued" /\ op'[o].root = burst /\ run[o] = None
  BY <1>1
<1> DEFINE mid == Scheduled(op, burst, TRUE)
<1>3. mid \in OpTable
  BY <1>0, ScheduledOps DEF OpsKept
<1> HIDE DEF mid
<1>4. op' = Expedited(mid, burst)
  BY <1>1 DEF mid
<1>5. mid[o] # None
  BY <1>0, <1>2, <1>3, <1>4, ExpeditedOps
<1>6. mid[o].state = "queued" /\ mid[o].root = burst
  BY <1>0, <1>2, <1>3, <1>4, <1>5, ExpeditedOps DEF OpsKept
<1>7. op'[o].due
  BY <1>0, <1>3, <1>4, <1>5, <1>6, ExpeditedOps
<1>8. ~Terminal(o)'
  BY <1>2 DEF Terminal
<1>9. d \in Under(op'[o].root)
  BY <1>2
<1>10. Answers(o, d)'
  BY <1>1, <1>2, <1>7, <1>8, <1>9 DEF Answers, Under, PathTo
<1>11. QED
  BY <1>10

(* What was heard is in the burst, or under the path of a scan that is due *)
(* now and has not begun: to begin a scan, to queue one and to collapse    *)
(* the events of a burst lose no directory.                                *)
THEOREM EventsAreAnswered == Spec => []EventIsAnswered
<1> DEFINE Pending(d) == burst # None /\ d \in Under(burst)
           Inv == \A d \in heard : Pending(d) \/ \E o \in Op : Answers(o, d)
<1>1. Inv <=> EventIsAnswered
  BY DEF EventIsAnswered, Answers
<1>2. Init => Inv
  BY DEF Init
<1>3. ASSUME Base, Inv, Next PROVE Inv'
  <2>0. Shape /\ Sane /\ Steps /\ burst \in Dir \cup {None}
    BY <1>3 DEF Base, Next, Shape, RestShape
  <2> SUFFICES ASSUME NEW d \in heard' PROVE Pending(d)' \/ \E o \in Op : Answers(o, d)'
    OBVIOUS
  <2>1. CASE d \in heard /\ \E o \in Op : Answers(o, d)
    BY <2>0, <2>1, AnsweredStep
  <2>2. CASE d \in heard /\ Pending(d)
    <3>1. CASE Expedite
      BY <2>0, <2>2, <3>1, ExpediteAnswers
    <3>2. CASE Changes
      <4>1. burst' # None /\ d \in Under(burst')
        BY <2>0, <2>2, <3>2, ChangesNoted, UpIsDir DEF Noted
      <4>2. QED
        BY <4>1 DEF Under, PathTo
    <3>3. CASE burst' = burst
      BY <2>2, <3>3 DEF Under, PathTo
    <3>4. QED
      BY <2>0, <3>1, <3>2, <3>3, StepCases, LoopTouches, ClaimTouches, RequestsTouch DEF UploadCommits
  <2>3. CASE d \notin heard
    <3>1. Changes
      BY <2>0, <2>3, StepCases, LoopTouches, ClaimTouches, RequestsTouch DEF Expedite, UploadCommits
    <3>2. burst' # None /\ d \in Under(burst')
      BY <2>0, <2>3, <3>1, ChangesNoted, UpIsDir DEF Noted
    <3>3. QED
      BY <3>2 DEF Under, PathTo
  <2>4. QED
    BY <1>3, <2>1, <2>2, <2>3
<1>4. ASSUME Inv, UNCHANGED vars PROVE Inv'
  BY <1>4 DEF vars, Answers, Terminal, Under, PathTo
<1>5. Base /\ Inv /\ [Next]_vars => Inv'
  BY <1>3, <1>4
<1> HIDE DEF Inv
<1>6. QED
  BY <1>1, <1>2, <1>5, BaseAlways, PTL DEF Spec

-----------------------------------------------------------------------------
(* Deletions are concluded of what was absent.                             *)

LEMMA OwedUnfolds ==
    ASSUME NEW o \in Op, NEW d, NEW c
    PROVE  /\ Owed(o, d, c) <=> /\ d \in Under(run[o].root) /\ Live(d, c)
                                /\ row[d][c].seen < run[o].started
                                /\ row[d][c].created < run[o].started
                                /\ <<d, c>> \notin lacking[o]
           /\ Owed(o, d, c)' <=> /\ d \in Under(run'[o].root) /\ Live(d, c)'
                                 /\ row'[d][c].seen < run'[o].started
                                 /\ row'[d][c].created < run'[o].started
                                 /\ <<d, c>> \notin lacking'[o]
<1>1. Owed(o, d, c) <=> /\ d \in Under(run[o].root) /\ Live(d, c)
                        /\ row[d][c].seen < run[o].started
                        /\ row[d][c].created < run[o].started
                        /\ <<d, c>> \notin lacking[o]
  BY DEF Owed, IsUnseen
<1>2. Owed(o, d, c)' <=> /\ d \in Under(run'[o].root) /\ Live(d, c)'
                         /\ row'[d][c].seen < run'[o].started
                         /\ row'[d][c].created < run'[o].started
                         /\ <<d, c>> \notin lacking'[o]
  BY DEF Owed, IsUnseen, Under, PathTo
<1>3. QED
  BY <1>1, <1>2

(* Whoever is executing a run that has begun was executing it, or it runs. *)
LEMMA UnderwayBefore ==
    ASSUME Shape, Sane, Steps, NEW o \in Op, run[o] # None, Underway(o)'
    PROVE  Underway(o)
<1>0. WorkShape /\ RunsApart /\ RunsKept
  BY WorkStep DEF Shape, Sane, WorkKept
<1>1. CASE o \in Running'
  <2>1. run'[o].state = "running"
    BY <1>1 DEF Running
  <2>2. run[o].state = "running"
    BY <1>0, <2>1 DEF RunsKept
  <2>3. QED
    BY <2>2 DEF Underway, Running
<1>2. CASE \E w \in Worker : Busy(w)' /\ work'[w].op = o
  <2>1. PICK w \in Worker : Busy(w)' /\ work'[w].op = o
    BY <1>2
  <2>2. CASE work'[w] = work[w]
    BY <2>1, <2>2 DEF Underway, Busy
  <2>3. ASSUME NEW v \in Worker, Loop(v), work'[w] # work[w] PROVE Underway(o)
    <3>1. PICK job : /\ Busy(v) /\ Turns(v, job)
                     /\ job = Idle \/ job.op = work[v].op
      BY <2>3, LoopActs
    <3>2. v = w /\ job = work'[w]
      BY <2>3, <3>1 DEF Turns
    <3>3. Busy(w) /\ work[w].op = o
      BY <2>1, <3>1, <3>2 DEF Busy
    <3>4. QED
      BY <3>3 DEF Underway
  <2>4. ASSUME NEW v \in Worker, NEW p \in Op, Claim(v, p), work'[w] # work[w] PROVE Underway(o)
    <3>1. ~Terminal(p) /\ Turns(v, [op |-> p, attempt |-> op[p].attempt + 1, pc |-> "start"])
      BY <1>0, <2>4, ClaimOps
    <3>2. p = o
      BY <2>1, <2>4, <3>1 DEF Turns
    <3>3. run[o].state = "running"
      BY <1>0, <3>1, <3>2 DEF RunsApart
    <3>4. QED
      BY <3>3 DEF Underway, Running
  <2>5. QED
    BY <2>2, <2>3, <2>4, StepCases, ChangesTouch, RequestsTouch DEF Expedite, UploadCommits
<1>3. QED
  BY <1>1, <1>2 DEF Underway

LEMMA AwayStep ==
    ASSUME Shape, Steps
    PROVE  \/ away' = away
           \/ Shaking("mount", Op)
           \/ away' = away \cup {Root}
<1>1. CASE away' = away
  BY <1>1
<1>2. CASE \E d \in Dir : Leave(d) \/ Return(d)
  <2>1. PICK d \in Dir : Leave(d) \/ Return(d)
    BY <1>2
  <2>2. QED
    BY <2>1 DEF Leave, Return, External
<1>3. QED
  BY <1>1, <1>2, StepCases, LoopTouches, ClaimTouches, RequestsTouch
     DEF Changes, Delete, Move, RemoveDirectory, Deny, UploadRenames, Expedite, UploadCommits, storage

LEMMA Shook ==
    ASSUME Shape, NEW kind \in {"mount", "stamp", "upload"}, NEW runs, Shaking(kind, runs),
           NEW o \in Op, o \in runs, Underway(o)
    PROVE  Excused(o)'
<1>1. shaken \in [Op -> SUBSET Kinds] /\ kind \in Kinds
  BY DEF Shape, RestShape, Kinds
<1>2. shaken'[o] = shaken[o] \cup {kind}
  BY <1>1, ShakingStep
<1>3. QED
  BY <1>2 DEF Excused

(* A calm run has been calm, or begins.                                    *)
LEMMA CalmBefore ==
    ASSUME Shape, Sane, Steps, NEW o \in Op, run[o] # None, Calm(o)'
    PROVE  /\ Calm(o) /\ away' = away
           /\ run'[o] # None /\ run'[o].root = run[o].root /\ run'[o].started = run[o].started
           /\ run[o].blocked \subseteq run'[o].blocked
<1>1. Underway(o)' /\ ~Excused(o)' /\ Root \notin away'
  BY DEF Calm
<1>2. Underway(o)
  BY <1>1, UnderwayBefore
<1>3. shaken[o] \subseteq shaken'[o]
  BY ShakenStep DEF ShakenKept
<1>4. ~Excused(o)
  BY <1>1, <1>3 DEF Excused
<1>5. away' = away
  <2>1. ~Shaking("mount", Op)
    BY <1>1, <1>2, Shook
  <2>2. QED
    BY <1>1, <2>1, AwayStep
<1>6. QED
  BY <1>1, <1>2, <1>4, <1>5, WorkStep DEF Calm, WorkKept, RunsKept

(* The row of what is owed is the row that was there.                      *)
LEMMA OwedRow ==
    ASSUME Shape, Sane, Steps, NEW o \in Op, run[o] # None, Calm(o)', Calm(o),
           run'[o].started = run[o].started,
           NEW d \in Dir, NEW c \in File, Owed(o, d, c)'
    PROVE  row'[d][c] = row[d][c]
<1>0. Underway(o) /\ ~Excused(o)' /\ WorkShape /\ RunsStamped /\ clock \in Nat
  BY DEF Calm, Shape, Sane, RestShape
<1>1. /\ Live(d, c)' /\ row'[d][c].seen < run[o].started
      /\ run[o].started \in Nat
  <2>1. Live(d, c)' /\ row'[d][c].seen < run'[o].started
    BY OwedUnfolds
  <2>2. run[o].started \in 1 .. clock
    BY <1>0 DEF RunsStamped
  <2>3. QED
    BY <1>0, <2>1, <2>2
<1>2. ASSUME NEW w \in Worker, Apply(w) PROVE row'[d][c] = row[d][c]
  <2>1. work[w].op = o
    <3>1. Shaking("stamp", Op \ {work[w].op})
      BY <1>2 DEF Apply
    <3>2. QED
      BY <1>0, <3>1, Shook
  <2>2. Mine(w).started = run[o].started
    BY <2>1 DEF Mine
  <2>3. Reconciles(work[w].dir, work[w].listing.files, run[o].started, d, c, row'[d][c])
    BY <1>2, <2>2, ApplyRows
  <2>4. QED
    BY <1>1, <2>3 DEF Reconciles, Live, NoRow
<1>3. ASSUME NEW w \in Worker, CommitSweep(w) PROVE row'[d][c] = row[d][c]
  BY <1>1, <1>3, SweepRows DEF Live
<1>4. ASSUME UploadCommits PROVE row'[d][c] = row[d][c]
  <2>1. ~(upload.since < run[o].started)
    <3>1. Shaking("upload", {p \in Op : run[p] # None /\ upload.since < run[p].started})
      BY <1>4 DEF UploadCommits
    <3> DEFINE older == {p \in Op : run[p] # None /\ upload.since < run[p].started}
    <3>2. o \notin older
      <4> HIDE DEF older
      <4>1. Shaking("upload", older)
        BY <3>1 DEF older
      <4>2. QED
        BY <1>0, <4>1, Shook
    <3>3. QED
      BY <3>2
  <2>2. /\ upload.since \in Nat
        /\ row'[d][c] = IF d = upload.dir /\ c = upload.file
                        THEN LiveRow(upload.since, upload.since) ELSE row[d][c]
    BY <1>4, UploadRows
  <2>3. QED
    BY <1>1, <2>1, <2>2, LiveRowFields
<1>5. QED
  BY <1>2, <1>3, <1>4, StepCases, LoopTouches, ClaimTouches, ChangesTouch, RequestsTouch
     DEF Expedite, index

(* A run goes on: less is owed, and what is owed is in its place.          *)
Goes(o) ==
    /\ run[o] # None /\ run'[o] # None /\ run'[o].root = run[o].root
    /\ run'[o].started = run[o].started /\ run[o].blocked \subseteq run'[o].blocked
    /\ away' = away
    /\ \A d \in Dir, c \in File : Owed(o, d, c)' => Owed(o, d, c)
    /\ \A d \in Dir, c \in File : Owed(o, d, c) => at[c] = d /\ d \in there /\ Path[d] \subseteq there
    /\ ~Excused(o)'

LEMMA CalmGoes ==
    ASSUME Shape, Sane, LackingKept, Next, NEW o \in Op, run[o] # None, Calm(o)'
    PROVE  Calm(o) /\ Goes(o)
<1>1. Steps
  BY DEF Next
<1>2. /\ Calm(o) /\ away' = away
      /\ run'[o] # None /\ run'[o].root = run[o].root /\ run'[o].started = run[o].started
      /\ run[o].blocked \subseteq run'[o].blocked
  BY <1>1, CalmBefore
<1>3. ASSUME NEW d \in Dir, NEW c \in File, Owed(o, d, c)' PROVE Owed(o, d, c)
  <2>1. row'[d][c] = row[d][c]
    BY <1>1, <1>2, <1>3, OwedRow
  <2>2. lacking[o] \subseteq lacking'[o]
    BY LackingStep DEF Calm
  <2>3. QED
    BY <1>2, <1>3, <2>1, <2>2, OwedUnfolds DEF Live
<1>4. ASSUME NEW d \in Dir, NEW c \in File, Owed(o, d, c)
      PROVE  at[c] = d /\ d \in there /\ Path[d] \subseteq there
  <2>1. Live(d, c) /\ <<d, c>> \notin lacking[o]
    BY <1>4, OwedUnfolds
  <2>2. <<d, c>> \notin Misplaced
    BY <1>2, <2>1 DEF LackingKept, Calm
  <2>3. at[c] = d
    BY <2>1, <2>2 DEF Misplaced
  <2>4. d # None
    BY UpIsDir
  <2>5. QED
    BY <2>3, <2>4 DEF Sane, StorageIsTree
<1>5. QED
  BY <1>2, <1>3, <1>4 DEF Goes, Calm

LEMMA GoesUnder ==
    ASSUME NEW o \in Op, Goes(o), NEW e
    PROVE  /\ OwedUnder(o, e)' => OwedUnder(o, e)
           /\ Reachable(e)' <=> Reachable(e)
           /\ Under(run'[o].root) = Under(run[o].root)
<1>1. OwedUnder(o, e)' => \E d \in Under(e), c \in File : Owed(o, d, c)'
  BY DEF OwedUnder, Under, PathTo
<1>2. Under(e) \subseteq Dir
  BY DEF Under
<1>3. QED
  BY <1>1, <1>2 DEF Goes, OwedUnder, Reachable

LEMMA ShowsStill ==
    ASSUME NEW o \in Op, Goes(o), NEW e, NEW l, Shows(o, e, l)
    PROVE  Shows(o, e, l)'
<1>1. CASE l.kind = "missing" /\ ~OwedUnder(o, e)
  BY <1>1, GoesUnder DEF Shows
<1>2. CASE l.kind = "unreadable"
  BY <1>2 DEF Shows
<1>3. CASE l.kind = "listed" /\ l.device = "bare" /\ e \in away /\ l.files = {} /\ l.dirs = {}
  BY <1>3 DEF Shows, Goes
<1>4. CASE /\ l.kind = "listed" /\ l.device = "own"
           /\ e \notin away /\ l.dirs \subseteq Children(e)
           /\ \A d \in Under(e), c \in File : Owed(o, d, c) =>
                 IF d = e THEN c \in l.files ELSE l.dirs \cap Path[d] # {}
  <2>1. Under(e) \subseteq Dir
    BY DEF Under
  <2>2. \A d \in Under(e), c \in File : Owed(o, d, c)' =>
           IF d = e THEN c \in l.files ELSE l.dirs \cap Path[d] # {}
    BY <1>4, <2>1 DEF Goes
  <2>3. e \notin away' /\ l.dirs \subseteq Children(e)'
    BY <1>4 DEF Goes, Children
  <2>4. QED
    BY <1>4, <2>2, <2>3 DEF Shows, Under, PathTo
<1>5. QED
  BY <1>1, <1>2, <1>3, <1>4 DEF Shows

(* The listing of a directory of the frontier shows what is owed below it. *)
LEMMA InspectionShows ==
    ASSUME Shape, Sane, NEW o \in Op, Goes(o), NEW d \in Dir, Reachable(d)
    PROVE  Shows(o, d, Listing(d))
<1>1. \A x \in Under(d), c \in File : Owed(o, x, c) =>
         at[c] = x /\ x \in Dir /\ d \in Path[x] /\ Path[x] \subseteq there
  BY UnderIsPath DEF Goes
<1>2. PathTo(d) = Path[d]
  BY UnderIsPath
<1>3. CASE Vanished(d)
  <2>1. d \notin there
    BY <1>2, <1>3 DEF Vanished, Reachable
  <2>2. ~OwedUnder(o, d)
    BY <1>1, <2>1 DEF OwedUnder
  <2>3. QED
    BY <1>3, <2>2 DEF Listing, Shows
<1>4. CASE ~Vanished(d) /\ Unreadable(d)
  BY <1>4 DEF Listing, Shows
<1>5. CASE ~Vanished(d) /\ ~Unreadable(d) /\ d \in away
  BY <1>5 DEF Listing, Shows
<1>6. CASE ~Vanished(d) /\ ~Unreadable(d) /\ d \notin away
  <2> DEFINE fs == {c \in File : at[c] = d}
             ds == Children(d) \cap there
             l == [kind |-> "listed", device |-> "own", files |-> fs, dirs |-> ds]
  <2>1. Listing(d) = l
    BY <1>6 DEF Listing
  <2>2. ASSUME NEW x \in Under(d), NEW c \in File, Owed(o, x, c)
        PROVE  IF x = d THEN c \in fs ELSE ds \cap Path[x] # {}
    <3>1. at[c] = x /\ x \in Dir /\ d \in Path[x] /\ Path[x] \subseteq there
      BY <1>1, <2>2
    <3>2. CASE x = d
      BY <3>1, <3>2
    <3>3. CASE x # d
      BY <3>1, <3>3, PathStep
    <3>4. QED
      BY <3>2, <3>3
  <2>3. /\ l.kind = "listed" /\ l.device = "own" /\ l.files = fs /\ l.dirs = ds
        /\ ds \subseteq Children(d)
    OBVIOUS
  <2> HIDE DEF l, fs, ds
  <2>4. QED
    BY <1>6, <2>1, <2>2, <2>3 DEF Shows
<1>7. QED
  BY <1>3, <1>4, <1>5, <1>6

(* A listing is applied: what is owed there is seen, or below a child.     *)
LEMMA AppliedShows ==
    ASSUME Shape, Sane, NEW o \in Op, Goes(o), Walk(o),
           NEW w \in Worker, Apply(w), On(w, o)
    PROVE  LET e == work[w].dir
               l == work[w].listing IN
           /\ e \in Under(run[o].root) /\ Reachable(e) /\ e \in Dir
           /\ \/ /\ l.device = "bare" /\ l.dirs = {} /\ ~OwedUnder(o, e)
              \/ /\ l.device = "own" /\ e \notin away /\ l.dirs \subseteq Children(e)
                 /\ \A d \in Under(e), c \in File : Owed(o, d, c)' => l.dirs \cap Path[d] # {}
<1> DEFINE e == work[w].dir
           l == work[w].listing
<1>1. At(w, "apply") /\ l.kind = "listed" /\ ~MountVanished(e, l)
  BY DEF Apply
<1>2. e \in Under(run[o].root) /\ Reachable(e) /\ Shows(o, e, l)
  BY <1>1 DEF Walk, ListingsShow
<1>3. e \in Dir
  BY ApplyStep
<1>4. CASE l.device = "bare" /\ e \in away /\ l.files = {} /\ l.dirs = {}
  <2>1. ASSUME OwedUnder(o, e) PROVE FALSE
    <3>1. device[e] = "own"
      BY <1>2, <1>4, <2>1 DEF Walk, MountsRecorded
    <3>2. LiveUnder(e)
      BY <2>1, OwedUnfolds DEF LiveUnder, OwedUnder
    <3>3. "own" # None
      BY ScanAssumption
    <3>4. QED
      BY <1>1, <1>4, <3>1, <3>2, <3>3 DEF MountVanished
  <2>2. QED
    BY <1>2, <1>3, <1>4, <2>1
<1>5. CASE /\ l.device = "own" /\ e \notin away /\ l.dirs \subseteq Children(e)
           /\ \A d \in Under(e), c \in File : Owed(o, d, c) =>
                 IF d = e THEN c \in l.files ELSE l.dirs \cap Path[d] # {}
  <2>1. ASSUME NEW d \in Under(e), NEW c \in File, Owed(o, d, c)'
        PROVE  l.dirs \cap Path[d] # {}
    <3>1. d \in Dir
      BY DEF Under
    <3>2. Owed(o, d, c)
      BY <2>1, <3>1 DEF Goes
    <3>3. CASE d # e
      BY <1>5, <3>2, <3>3
    <3>4. CASE d = e
      <4>1. c \in l.files
        BY <1>5, <3>2, <3>4
      <4>2. Mine(w).started = run[o].started /\ Mine(w).started \in 1 .. clock /\ clock \in Nat
        BY ApplyRows DEF Mine, On, Shape, RestShape
      <4>3. Reconciles(e, l.files, Mine(w).started, e, c, row'[e][c])
        BY <1>3, ApplyRows
      <4>4. Live(e, c)
        BY <3>2, <3>4, OwedUnfolds
      <4>5. row'[e][c].seen = run[o].started
        BY <4>1, <4>2, <4>3, <4>4 DEF Reconciles
      <4>6. row'[e][c].seen < run[o].started
        BY <2>1, <3>4, OwedUnfolds DEF Goes
      <4> HIDE DEF e, l
      <4>7. QED
        BY <4>2, <4>5, <4>6
    <3>5. QED
      BY <3>3, <3>4
  <2>2. QED
    BY <1>2, <1>3, <1>5, <2>1
<1>6. QED
  BY <1>1, <1>2, <1>4, <1>5 DEF Shows

LEMMA ChildrenAreBelow ==
    ASSUME NEW e \in Dir, NEW k \in Children(e)
    PROVE  k \in Dir /\ k # e /\ Path[k] = {k} \cup Path[e] /\ e \in Path[k] /\ Up[k] = e
<1>1. k \in Dir /\ Up[k] = e /\ e # None
  BY UpIsDir DEF Children
<1>2. k # Root
  BY <1>1, UpIsDir
<1>3. Order[e] < Order[k] /\ Order[e] \in Nat /\ Order[k] \in Nat
  BY <1>1, <1>2, UpIsDir
<1>4. k # e
  BY <1>3
<1>5. Path[k] = {k} \cup Path[e]
  BY <1>1, PathUnfolds
<1>6. e \in Path[k]
  BY <1>5, PathWithin
<1>7. QED
  BY <1>1, <1>4, <1>5, <1>6

(* A run that goes on has moved by a step of its own walk, or has not.      *)
LEMMA RunOnlyMoves ==
    ASSUME Shape, Sane, NEW o \in Op, Goes(o), Steps, Underway(o)
    PROVE  \/ run'[o].frontier = run[o].frontier /\ device' = device
           \/ \E w \in Worker : On(w, o) /\ (Block(w) \/ Skip(w) \/ Apply(w))
<1>0. run[o] # None /\ WorkShape
  BY DEF Goes, Shape
<1>1. ASSUME NEW w \in Worker, Loop(w), ~(On(w, o) /\ (Block(w) \/ Skip(w) \/ Apply(w)))
      PROVE  run'[o].frontier = run[o].frontier /\ device' = device
  <2>1. CASE Start(w)
    BY <1>0, <2>1, StartStep DEF RunBegins, RunAlike, Start, index
  <2>2. CASE StartRefused(w)
    BY <1>0, <2>2, StartRefusedStep DEF RunBegins, RunAlike, StartRefused, index
  <2>3. CASE Refuse(w) \/ Finish(w)
    <3>1. Busy(w) /\ ~At(w, "start")
      <4>1. ~At(w, "start")
        BY <2>3 DEF Refuse, Finish, At
      <4>2. QED
        BY <1>1, <4>1, LoopActs
    <3>2. Ended(w, "failed") \/ Ended(w, "completed")
      BY <2>3 DEF Refuse, Finish
    <3> DEFINE q == work[w].op
    <3>3. q \in Op /\ RunMoves(q, run'[q]) /\ RunAlike(run[q], run'[q])
      BY <3>1, <3>2, EndedStep
    <3>4. device' = device
      BY <3>2 DEF Ended, index
    <3> HIDE DEF q
    <3>5. QED
      BY <3>3, <3>4 DEF RunMoves, RunAlike
  <2>4. CASE Inspect(w) \/ TraversalEnds(w) \/ Sweep(w) \/ CommitSweep(w) \/ Overtaken(w) \/ Stop(w)
    BY <2>4 DEF Inspect, TraversalEnds, Sweep, CommitSweep, Overtaken, RolledBack, Stop, Progress, index
  <2>5. CASE Block(w) \/ Skip(w)
    <3> DEFINE q == work[w].op
    <3>1. q # o
      BY <1>1, <2>5, LoopActs DEF On
    <3>2. \E r : RunMoves(q, r)
      BY <2>5, BlockStep, SkipStep DEF WalkMoves
    <3>3. device' = device
      BY <2>5 DEF Block, Skip, index
    <3> HIDE DEF q
    <3>4. QED
      BY <3>1, <3>2, <3>3 DEF RunMoves
  <2>6. CASE Apply(w)
    <3>1. work[w].op # o
      BY <1>1, <2>6, LoopActs DEF On
    <3>2. Shaking("stamp", Op \ {work[w].op})
      BY <2>6 DEF Apply
    <3>3. Excused(o)'
      BY <3>1, <3>2, Shook
    <3>4. QED
      BY <3>3 DEF Goes
  <2>7. QED
    BY <1>1, <2>1, <2>2, <2>3, <2>4, <2>5, <2>6 DEF Loop
<1>2. QED
  BY <1>1, StepCases, ClaimTouches, ChangesTouch, RequestsTouch DEF Expedite, UploadCommits, index

LEMMA LoopsBefore ==
    ASSUME Shape, Sane, Steps, NEW o \in Op, NEW w \in Worker, On(w, o)'
    PROVE  \/ work'[w] = work[w] /\ On(w, o)
           \/ At(w, "start")' \/ At(w, "walk")'
           \/ /\ On(w, o)
              /\ At(w, "apply")' => Inspect(w)
              /\ At(w, "sweep")' => TraversalEnds(w) \/ CommitSweep(w)
              /\ At(w, "commit")' => Sweep(w)
<1>0. WorkShape
  BY DEF Shape
<1>1. CASE work'[w] = work[w]
  BY <1>1 DEF On, Busy
<1>2. ASSUME NEW v \in Worker, Loop(v), work'[w] # work[w]
      PROVE  \/ At(w, "start")' \/ At(w, "walk")'
             \/ /\ On(w, o)
                /\ At(w, "apply")' => Inspect(w)
                /\ At(w, "sweep")' => TraversalEnds(w) \/ CommitSweep(w)
                /\ At(w, "commit")' => Sweep(w)
  <2>1. PICK job : /\ Busy(v) /\ Turns(v, job)
                   /\ \/ job = Idle
                      \/ /\ job.op = work[v].op
                         /\ job.pc = "apply" => Inspect(v)
                         /\ job.pc = "sweep" => TraversalEnds(v) \/ CommitSweep(v)
                         /\ job.pc = "commit" => Sweep(v)
    BY <1>2, LoopActs
  <2>2. v = w /\ work'[w] = job
    BY <1>2, <2>1 DEF Turns
  <2>3. job # Idle /\ job.op = o
    BY <2>2 DEF On, Busy
  <2>4. QED
    BY <2>1, <2>2, <2>3 DEF On, At
<1>3. ASSUME NEW v \in Worker, NEW p \in Op, Claim(v, p), work'[w] # work[w] PROVE At(w, "start")'
  <2>1. Turns(v, [op |-> p, attempt |-> op[p].attempt + 1, pc |-> "start"])
    BY <1>0, <1>3, ClaimOps
  <2>2. QED
    BY <1>3, <2>1 DEF Turns, At
<1>4. QED
  BY <1>1, <1>2, <1>3, StepCases, ChangesTouch, RequestsTouch DEF Expedite, UploadCommits

LEMMA ListingsShowStep ==
    ASSUME Shape, Sane, Steps, NEW o \in Op, Goes(o), Walk(o) PROVE ListingsShow(o)'
<1>1. ASSUME NEW w \in Worker, On(w, o)', At(w, "apply")',
             NEW e, NEW l, e = work'[w].dir, l = work'[w].listing
      PROVE  e \in Under(run[o].root) /\ Reachable(e) /\ Shows(o, e, l)
  <2>1. CASE work'[w] = work[w] /\ On(w, o)
    BY <1>1, <2>1 DEF At, Walk, ListingsShow
  <2>2. CASE On(w, o) /\ Inspect(w)
    <3> DEFINE d == CHOOSE x \in Mine(w).frontier : \A f \in Mine(w).frontier : Order[x] <= Order[f]
               job == [op |-> work[w].op, attempt |-> work[w].attempt, pc |-> "apply",
                       dir |-> d, listing |-> Listing(d), since |-> clock]
    <3>1. d \in Mine(w).frontier /\ d \in Dir /\ Turns(w, job)
      BY <2>2, InspectTurns
    <3>2. job.dir = d /\ job.listing = Listing(d)
      OBVIOUS
    <3> HIDE DEF job, d
    <3>3. e = d /\ l = Listing(d) /\ d \in run[o].frontier
      BY <1>1, <2>2, <3>1, <3>2 DEF On, Mine, Turns
    <3>4. e \in Under(run[o].root) /\ Reachable(e) /\ e \in Dir
      BY <3>1, <3>3 DEF Walk, FrontierReachable
    <3>5. Shows(o, e, Listing(e))
      BY <3>4, InspectionShows
    <3>6. QED
      BY <3>3, <3>4, <3>5
  <2>3. QED
    BY <1>1, <2>1, <2>2, LoopsBefore DEF At
<1>2. ASSUME NEW w \in Worker, On(w, o)', At(w, "apply")',
             NEW e, NEW l, e = work'[w].dir, l = work'[w].listing
      PROVE  e \in Under(run'[o].root) /\ Reachable(e)' /\ Shows(o, e, l)'
  <2>1. e \in Under(run[o].root) /\ Reachable(e) /\ Shows(o, e, l)
    BY <1>1, <1>2
  <2>2. QED
    BY <2>1, GoesUnder, ShowsStill
<1>3. ASSUME NEW w \in Worker, NEW e, NEW l, e = work'[w].dir, l = work'[w].listing,
             Reachable(e)', Shows(o, e, l)'
      PROVE  Reachable(work[w].dir)' /\ Shows(o, work[w].dir, work[w].listing)'
  BY <1>3 DEF Reachable, Shows, OwedUnder, Owed, IsUnseen, Live, Under, PathTo, Children
<1> SUFFICES ASSUME NEW w \in Worker, On(w, o)', At(w, "apply")'
             PROVE  /\ work'[w].dir \in Under(run'[o].root) /\ Reachable(work[w].dir)'
                    /\ Shows(o, work[w].dir, work[w].listing)'
  BY DEF ListingsShow, Reachable, Shows, OwedUnder, Owed, IsUnseen, Live, Under, PathTo, Children
<1>4. QED
  BY <1>2, <1>3

LEMMA SweepsLastStep ==
    ASSUME Shape, Sane, Steps, NEW o \in Op, Goes(o), Walk(o) PROVE SweepsLast(o)'
<1>1. ASSUME OwedIsBlocked(o) PROVE OwedIsBlocked(o)'
  BY <1>1 DEF OwedIsBlocked, Goes
<1> SUFFICES ASSUME NEW w \in Worker, On(w, o)', At(w, "sweep")' \/ At(w, "commit")'
             PROVE  OwedIsBlocked(o)
  BY <1>1 DEF SweepsLast
<1>2. CASE On(w, o) /\ (At(w, "sweep") \/ At(w, "commit"))
  BY <1>2 DEF Walk, SweepsLast
<1>3. CASE On(w, o) /\ TraversalEnds(w)
  <2>1. run[o].frontier = {}
    BY <1>3 DEF On, TraversalEnds, Mine
  <2>2. QED
    BY <2>1 DEF Walk, OwedIsCovered, OwedIsBlocked
<1>4. QED
  BY <1>2, <1>3, LoopsBefore DEF At, CommitSweep, Sweep

(* What the step of the walk that moves takes off the frontier.            *)
LEMMA WalkerStep ==
    ASSUME Shape, Sane, NEW o \in Op, Goes(o), Walk(o), NEW w \in Worker, On(w, o),
           Block(w) \/ Skip(w) \/ Apply(w)
    PROVE  LET e == work[w].dir IN
           /\ e \in Dir /\ e \in Under(run[o].root) /\ Reachable(e)
           /\ run[o].frontier \in SUBSET Dir /\ run[o].blocked \in SUBSET Dir
           /\ \E ds \in SUBSET Children(e) :
                 /\ run'[o].frontier = (run[o].frontier \cup ds) \ {e}
                 /\ ds # {} => e \notin away
                 /\ \/ e \in run'[o].blocked
                    \/ \A d \in Under(e), c \in File : Owed(o, d, c)' => ds \cap Path[d] # {}
<1> DEFINE e == work[w].dir
<1>0. work[w].op = o /\ At(w, "apply") /\ WorkShape /\ Mine(w) = run[o]
  BY DEF On, Block, Skip, Apply, Shape, Mine
<1>1. e \in Dir /\ e \in Under(run[o].root) /\ Reachable(e) /\ Shows(o, e, work[w].listing)
  BY <1>0, JobFields DEF Walk, ListingsShow
<1>2. run[o].frontier \in SUBSET Dir /\ run[o].blocked \in SUBSET Dir
  BY DEF Goes, Shape, WorkShape, RunRow
<1>3. CASE Block(w)
  <2>1. run'[o].frontier = run[o].frontier \ {e} /\ run'[o].blocked = run[o].blocked \cup {e}
    BY <1>0, <1>3, BlockStep DEF WalkMoves
  <2>2. run'[o].frontier = (run[o].frontier \cup {}) \ {e} /\ e \in run'[o].blocked
    BY <2>1
  <2>3. {} \in SUBSET Children(e)
    OBVIOUS
  <2> HIDE DEF e
  <2>4. QED
    BY <1>1, <1>2, <2>2, <2>3 DEF e
<1>4. CASE Skip(w)
  <2>1. run'[o].frontier = run[o].frontier \ {e}
    BY <1>0, <1>4, SkipStep DEF WalkMoves
  <2>2. ~OwedUnder(o, e)
    BY <1>1, <1>4 DEF Skip, Shows
  <2>3. \A d \in Under(e), c \in File : ~Owed(o, d, c)'
    BY <2>2 DEF OwedUnder, Goes, Under
  <2>4. run'[o].frontier = (run[o].frontier \cup {}) \ {e} /\ {} \in SUBSET Children(e)
    BY <2>1
  <2> HIDE DEF e
  <2>5. QED
    BY <1>1, <1>2, <2>3, <2>4 DEF e
<1>5. CASE Apply(w)
  <2> DEFINE ds == work[w].listing.dirs
  <2>1. run'[o].frontier = (run[o].frontier \cup ds) \ {e}
    BY <1>0, <1>5, ApplyStep DEF WalkMoves
  <2>2. \/ ds = {} /\ ~OwedUnder(o, e)
        \/ /\ e \notin away /\ ds \subseteq Children(e)
           /\ \A d \in Under(e), c \in File : Owed(o, d, c)' => ds \cap Path[d] # {}
    BY <1>5, AppliedShows
  <2>3. ~OwedUnder(o, e) => \A d \in Under(e), c \in File : ~Owed(o, d, c)'
    BY DEF OwedUnder, Goes, Under
  <2> HIDE DEF e, ds
  <2>4. /\ ds \in SUBSET Children(e) /\ (ds # {} => e \notin away)
        /\ \A d \in Under(e), c \in File : Owed(o, d, c)' => ds \cap Path[d] # {}
    BY <2>2, <2>3
  <2>5. QED
    BY <1>1, <1>2, <2>1, <2>4 DEF e
<1>6. QED
  BY <1>3, <1>4, <1>5

LEMMA FrontierReachableStep ==
    ASSUME Shape, Sane, Steps, NEW o \in Op, Goes(o), Calm(o), Walk(o) PROVE FrontierReachable(o)'
<1> SUFFICES ASSUME NEW k \in run'[o].frontier PROVE k \in Under(run[o].root) /\ Reachable(k)
  BY GoesUnder DEF FrontierReachable, Under, PathTo
<1>1. CASE k \in run[o].frontier
  BY <1>1 DEF Walk, FrontierReachable
<1>2. CASE k \notin run[o].frontier
  <2>1. PICK w \in Worker : On(w, o) /\ (Block(w) \/ Skip(w) \/ Apply(w))
    BY <1>2, RunOnlyMoves DEF Calm
  <2> DEFINE e == work[w].dir
  <2>2. PICK ds \in SUBSET Children(e) :
           run'[o].frontier = (run[o].frontier \cup ds) \ {e} /\ (ds # {} => e \notin away)
    BY <2>1, WalkerStep
  <2>3. e \in Dir /\ e \in Under(run[o].root) /\ Reachable(e)
    BY <2>1, WalkerStep
  <2> HIDE DEF e
  <2>4. k \in Children(e) /\ e \notin away
    BY <1>2, <2>2
  <2>5. k \in Dir /\ Path[k] = {k} \cup Path[e]
    BY <2>3, <2>4, ChildrenAreBelow
  <2>6. Reachable(k)
    BY <2>3, <2>4, <2>5 DEF Reachable
  <2>7. run[o].root \in Dir
    BY DEF Goes, Shape, WorkShape, RunRow
  <2>8. k \in Under(run[o].root)
    BY <2>3, <2>5, <2>7, UnderIsPath
  <2>9. QED
    BY <2>6, <2>8
<1>3. QED
  BY <1>1, <1>2

LEMMA OwedIsCoveredStep ==
    ASSUME Shape, Sane, Steps, NEW o \in Op, Goes(o), Calm(o), Walk(o) PROVE OwedIsCovered(o)'
<1> SUFFICES ASSUME NEW d \in Dir, NEW c \in File, Owed(o, d, c)'
             PROVE  Path[d] \cap (run'[o].frontier \cup run'[o].blocked) # {}
  BY DEF OwedIsCovered
<1>1. Path[d] \cap (run[o].frontier \cup run[o].blocked) # {} /\ run[o].blocked \subseteq run'[o].blocked
  BY DEF Walk, OwedIsCovered, Goes
<1>2. CASE run'[o].frontier = run[o].frontier
  BY <1>1, <1>2
<1>3. CASE \E w \in Worker : On(w, o) /\ (Block(w) \/ Skip(w) \/ Apply(w))
  <2>1. PICK w \in Worker : On(w, o) /\ (Block(w) \/ Skip(w) \/ Apply(w))
    BY <1>3
  <2> DEFINE e == work[w].dir
  <2>2. PICK ds \in SUBSET Children(e) :
           /\ run'[o].frontier = (run[o].frontier \cup ds) \ {e}
           /\ \/ e \in run'[o].blocked
              \/ \A x \in Under(e), y \in File : Owed(o, x, y)' => ds \cap Path[x] # {}
    BY <2>1, WalkerStep
  <2>3. e \in Dir
    BY <2>1, WalkerStep
  <2> HIDE DEF e
  <2>4. e \notin ds
    BY <2>3, ChildrenAreBelow
  <2>5. e \in Path[d] => d \in Under(e)
    BY <2>3, UnderIsPath
  <2>6. QED
    BY <1>1, <2>2, <2>4, <2>5
<1>4. QED
  BY <1>2, <1>3, RunOnlyMoves DEF Calm

LEMMA MountsRecordedStep ==
    ASSUME Shape, Sane, Steps, NEW o \in Op, Goes(o), Calm(o), Walk(o) PROVE MountsRecorded(o)'
<1> SUFFICES ASSUME NEW e \in away, e \in Under(run[o].root)
             PROVE  device'[e] = "own" \/ ~OwedUnder(o, e)'
  BY GoesUnder DEF MountsRecorded, Goes, Under, PathTo
<1>1. device[e] = "own" \/ ~OwedUnder(o, e)
  BY DEF Walk, MountsRecorded
<1>2. CASE device' = device
  BY <1>1, <1>2, GoesUnder
<1>3. ASSUME NEW w \in Worker, On(w, o), Apply(w) PROVE device'[e] = "own" \/ ~OwedUnder(o, e)'
  <2> DEFINE d == work[w].dir
             l == work[w].listing
  <2>1. device' = [device EXCEPT ![d] = l.device]
    BY <1>3 DEF Apply
  <2>2. (l.device = "bare" /\ ~OwedUnder(o, d)) \/ d \notin away
    BY <1>3, AppliedShows
  <2> HIDE DEF d, l
  <2>3. CASE e = d
    BY <2>2, <2>3, GoesUnder
  <2>4. CASE e # d
    <3>1. device'[e] = device[e]
      BY <2>1, <2>4 DEF Shape, IndexShape, Under
    <3>2. QED
      BY <1>1, <3>1, GoesUnder
  <2>5. QED
    BY <2>3, <2>4
<1>4. QED
  BY <1>2, <1>3, RunOnlyMoves DEF Calm, Block, Skip, index

LEMMA WalkStep ==
    ASSUME Shape, Sane, Steps, NEW o \in Op, Goes(o), Calm(o), Walk(o) PROVE Walk(o)'
<1>1. FrontierReachable(o)' /\ ListingsShow(o)' /\ OwedIsCovered(o)'
  BY FrontierReachableStep, ListingsShowStep, OwedIsCoveredStep
<1>2. MountsRecorded(o)' /\ SweepsLast(o)'
  BY MountsRecordedStep, SweepsLastStep
<1>3. QED
  BY <1>1, <1>2 DEF Walk

(* A walk begins above all it could trash, below mounts that are there.    *)
LEMMA WalkBegins ==
    ASSUME Shape, Sane, Steps, NEW o \in Op, run[o] = None, Calm(o)' PROVE Walk(o)'
<1>0. WorkShape /\ RunsApart /\ Root \in known /\ run'[o] # None
  BY DEF Shape, Sane, RowsStamped, Calm, Underway
<1>1. PICK w \in Worker : (Start(w) \/ StartRefused(w)) /\ work[w].op = o
  <2>1. PICK w \in Worker : Loop(w)
    BY <1>0, StepCases, ClaimTouches, ChangesTouch, RequestsTouch DEF Expedite, UploadCommits
  <2>2. work[w].op = o /\ (Start(w) \/ StartRefused(w))
    BY <1>0, <2>1, LoopEnds
  <2>3. QED
    BY <2>2
<1>2. /\ op[o] # None /\ FreshRun(o, run'[o])
      /\ \E job : Turns(w, job) /\ (job = Idle \/ job.pc = "walk")
      /\ ShakenFromTheStart(o)
      /\ UNCHANGED <<storage, index>>
  <2>1. CASE Start(w)
    <3> DEFINE job == [op |-> o, attempt |-> work[w].attempt, pc |-> "walk"]
    <3>1. job.pc = "walk"
      OBVIOUS
    <3>2. op[o] # None /\ RunBegins(o) /\ Turns(w, job)
      BY <1>1, <2>1, StartStep
    <3>3. ShakenFromTheStart(o) /\ UNCHANGED <<storage, index>>
      BY <1>1, <2>1 DEF Start
    <3> HIDE DEF job
    <3>4. QED
      BY <3>1, <3>2, <3>3 DEF RunBegins
  <2>2. CASE StartRefused(w)
    BY <1>1, <2>2, StartRefusedStep DEF RunBegins, StartRefused
  <2>3. QED
    BY <1>1, <2>1, <2>2
<1> PICK r : r = Nearest(op[o].root)
  OBVIOUS
<1>3. run'[o].root = r /\ run'[o].frontier = {r} /\ r \in Dir
  BY <1>0, <1>2, NearestIsKnown DEF FreshRun, WorkShape, OpRow
<1>4. ~Unnoticed(r) /\ Root \notin away
  <2>1. ~Excused(o)' /\ Root \notin away'
    BY DEF Calm
  <2>2. shaken'[o] = IF Unnoticed(r) THEN {"mount"} ELSE {}
    BY <1>2, FromTheStart
  <2>3. QED
    BY <1>2, <2>1, <2>2 DEF Excused, storage
<1>5. away' = away /\ device' = device /\ away \subseteq Dir
  BY <1>2 DEF storage, index, Shape, StorageShape
<1>6. \A m \in away : /\ Up[r] # None => m \notin Path[Up[r]]
                      /\ m \in Under(r) => device[m] = "own"
  BY <1>4 DEF Unnoticed, PathTo
<1>7. ASSUME NEW v \in Worker, On(v, o)' PROVE At(v, "start")' \/ At(v, "walk")'
  <2>1. CASE work'[v] = work[v]
    <3>1. Busy(v) /\ work[v].op = o
      BY <1>7, <2>1 DEF On, Busy
    <3>2. At(v, "start")
      BY <1>0, <3>1 DEF RunsApart
    <3>3. QED
      BY <2>1, <3>2 DEF At
  <2>2. CASE work'[v] # work[v]
    BY <1>2, <1>7, <2>2 DEF Turns, On, Busy, At
  <2>3. QED
    BY <2>1, <2>2
<1>8. FrontierReachable(o)'
  <2>1. (Path[r] \ {r}) \cap away = {}
    BY <1>3, <1>6, PathUnfolds
  <2>2. Reachable(r)'
    BY <1>5, <2>1 DEF Reachable
  <2>3. r \in Under(run'[o].root)
    BY <1>3, UnderIsPath, PathWithin
  <2>4. QED
    BY <1>3, <2>2, <2>3 DEF FrontierReachable, Under, PathTo, Reachable
<1>9. ListingsShow(o)' /\ SweepsLast(o)'
  BY <1>7 DEF ListingsShow, SweepsLast, At
<1>10. OwedIsCovered(o)'
  <2>1. \A d \in Dir, c \in File : Owed(o, d, c)' => r \in Path[d]
    BY <1>3, OwedUnfolds, UnderIsPath
  <2>2. QED
    BY <1>3, <2>1 DEF OwedIsCovered
<1>11. MountsRecorded(o)'
  <2>1. \A m \in away : m \in Under(run'[o].root) => device'[m] = "own"
    BY <1>3, <1>5, <1>6
  <2>2. QED
    BY <1>5, <2>1 DEF MountsRecorded, Under, PathTo
<1>12. QED
  BY <1>8, <1>9, <1>10, <1>11 DEF Walk

CalmWalks == \A o \in Op : Calm(o) => Walk(o)

LEMMA CalmWalksStep ==
    ASSUME Shape, Sane, LackingKept, CalmWalks, Next PROVE CalmWalks'
<1>1. Steps
  BY DEF Next
<1> SUFFICES ASSUME NEW o \in Op, Calm(o)' PROVE Walk(o)'
  BY DEF CalmWalks
<1>2. CASE run[o] = None
  BY <1>1, <1>2, WalkBegins
<1>3. CASE run[o] # None
  <2>1. Calm(o) /\ Goes(o)
    BY <1>3, CalmGoes
  <2>2. QED
    BY <1>1, <2>1, WalkStep DEF CalmWalks
<1>4. QED
  BY <1>2, <1>3

LEMMA LackingKeptStep ==
    ASSUME Shape, Next PROVE LackingKept'
BY LackingStep DEF LackingKept

(* What a sweep is about to trash has been out of its place.               *)
LEMMA SweepIsFounded ==
    ASSUME Shape, Sane, CalmWalks, NEW w \in Worker, Sweep(w), ~Excused(work[w].op), Root \notin away
    PROVE  Unseen(Mine(w)) \subseteq lacking[work[w].op]
<1> DEFINE o == work[w].op
<1>1. At(w, "sweep") /\ WorkShape /\ RunsApart
  BY DEF Sweep, Shape, Sane
<1>2. Busy(w) /\ ~At(w, "start")
  BY <1>1, JobFields DEF At
<1>3. o \in Op /\ run[o] # None /\ run[o] \in RunRow
  BY <1>1, <1>2, ActingOps
<1>4. On(w, o) /\ Calm(o)
  BY <1>2, <1>3 DEF On, Calm, Underway
<1>5. OwedIsBlocked(o)
  BY <1>1, <1>3, <1>4 DEF CalmWalks, Walk, SweepsLast
<1> HIDE DEF o
<1>6. ASSUME NEW d \in Dir, NEW c \in File, <<d, c>> \in Unseen(run[o]) PROVE <<d, c>> \in lacking[o]
  <2>1. d \in Under(run[o].root) /\ d \notin Excluded(run[o]) /\ IsUnseen(run[o], d, c)
    BY <1>6 DEF Unseen
  <2>2. Path[d] \cap run[o].blocked = {}
    <3>1. run[o].blocked \subseteq Dir
      BY <1>3 DEF RunRow
    <3>2. \A b \in run[o].blocked : d \notin Under(b)
      BY <2>1 DEF Excluded
    <3>3. QED
      BY <3>1, <3>2, UnderIsPath
  <2>3. ~Owed(o, d, c)
    BY <1>5, <2>2 DEF OwedIsBlocked
  <2>4. QED
    BY <2>1, <2>3 DEF Owed
<1>7. Unseen(run[o]) \subseteq Dir \X File
  <2>1. Under(run[o].root) \ Excluded(run[o]) \subseteq Dir
    BY DEF Under
  <2>2. QED
    BY <2>1 DEF Unseen
<1>8. QED
  BY <1>6, <1>7 DEF o, Mine

LEMMA TrashFoundedStep ==
    ASSUME Shape, Sane, CalmWalks, TrashFounded, Next PROVE TrashFounded'
<1>0. Steps /\ WorkShape /\ RunsApart /\ RunsKept /\ WorkShape'
  BY WorkStep, WorkShapeStep DEF Next, Shape, Sane, WorkKept
<1> SUFFICES ASSUME NEW w \in Worker, At(w, "commit")'
             PROVE  \/ work'[w].trash \subseteq lacking'[work'[w].op]
                    \/ shaken'[work'[w].op] \cap {"mount", "stamp", "upload"} # {}
                    \/ Root \in away'
  BY DEF TrashFounded, Founded
<1>1. work'[w].op \in Op /\ Busy(w)' /\ work'[w] # Idle
  <2>1. work'[w] \in Job /\ work'[w].pc = "commit"
    BY <1>0 DEF WorkShape, At
  <2>2. work'[w] \in Committing
    BY <2>1 DEF Job, Resting, Idle, Plain, Applying
  <2>3. QED
    BY <2>1, <2>2 DEF Committing, Busy, Idle
<1> PICK o \in Op : o = work'[w].op
  BY <1>1
<1>2. On(w, o) /\ ((work'[w] = work[w] /\ At(w, "commit")) \/ Sweep(w))
  <2>1. On(w, o)'
    BY <1>1 DEF On
  <2>2. QED
    BY <1>0, <2>1, LoopsBefore DEF At
<1>3. work[w].op = o /\ Busy(w) /\ run[o] # None
  <2>1. work[w].op = o /\ Busy(w)
    BY <1>2 DEF On
  <2>2. ~At(w, "start")
    BY <1>2 DEF At, Sweep
  <2>3. QED
    BY <1>0, <2>1, <2>2, ActingOps
<1>4. Underway(o) /\ Underway(o)'
  BY <1>0, <1>1, <1>3 DEF Underway, RunsKept
<1>5. lacking[o] \subseteq lacking'[o] /\ shaken[o] \subseteq shaken'[o]
  BY <1>0, <1>1, <1>3, <1>4, LackingStep, ShakenStep DEF ShakenKept
<1>6. Root \in away => Root \in away' \/ "mount" \in shaken'[o]
  <2>1. ASSUME Shaking("mount", Op) PROVE "mount" \in shaken'[o]
    <3>1. shaken \in [Op -> SUBSET Kinds] /\ "mount" \in Kinds
      BY DEF Shape, RestShape, Kinds
    <3>2. shaken'[o] = shaken[o] \cup {"mount"}
      BY <1>4, <2>1, <3>1, ShakingStep
    <3>3. QED
      BY <3>2
  <2>2. QED
    BY <1>0, <2>1, AwayStep
<1>7. CASE work'[w] = work[w] /\ At(w, "commit")
  <2>1. \/ work[w].trash \subseteq lacking[o]
        \/ shaken[o] \cap {"mount", "stamp", "upload"} # {}
        \/ Root \in away
    BY <1>3, <1>7 DEF TrashFounded, Founded
  <2>2. QED
    BY <1>5, <1>6, <1>7, <2>1
<1>8. CASE Sweep(w)
  <2>1. work'[w].trash = Unseen(Mine(w))
    <3> DEFINE job == [op |-> work[w].op, attempt |-> work[w].attempt, pc |-> "commit",
                       trash |-> Unseen(Mine(w))]
    <3>1. Turns(w, job) /\ job.trash = Unseen(Mine(w))
      BY <1>8, SweepTurns
    <3> HIDE DEF job
    <3>2. QED
      BY <3>1 DEF Turns
  <2>2. ~Excused(o) /\ Root \notin away => Unseen(Mine(w)) \subseteq lacking[o]
    BY <1>3, <1>8, SweepIsFounded
  <2>3. QED
    BY <1>5, <1>6, <2>1, <2>2 DEF Excused
<1>9. QED
  BY <1>2, <1>7, <1>8

LEMMA ScanIInvInit ==
    ASSUME Init PROVE ScanIInv
<1>0. /\ work = [w \in Worker |-> Idle] /\ run = [o \in Op |-> None] /\ lacking = [o \in Op |-> {}]
  BY DEF Init
<1>1. Shape /\ Sane
  BY ShapeInit, SaneInit
<1>2. \A o \in Op : ~Underway(o)
  BY <1>0 DEF Underway
<1>3. LackingKept
  BY <1>0, <1>2 DEF LackingKept
<1>4. TrashFounded
  BY <1>0 DEF TrashFounded, At, Idle
<1>5. QED
  BY <1>1, <1>2, <1>3, <1>4 DEF ScanIInv, Calm

LEMMA ScanIInvStutters ==
    ASSUME ScanIInv, UNCHANGED vars PROVE ScanIInv'
<1>0. /\ at' = at /\ there' = there /\ away' = away /\ row' = row /\ device' = device
      /\ run' = run /\ work' = work /\ lacking' = lacking /\ shaken' = shaken
  BY DEF vars, storage, index
<1>1. Shape' /\ Sane'
  BY BaseStutters DEF ScanIInv, Base
<1>2. ASSUME NEW o \in Op PROVE (Underway(o)' <=> Underway(o)) /\ (Calm(o)' <=> Calm(o))
  BY <1>0 DEF Calm, Underway, Running, Busy, Excused
<1>3. Misplaced' = Misplaced
  BY <1>0 DEF Misplaced, Live
<1>4. LackingKept'
  BY <1>0, <1>2, <1>3 DEF ScanIInv, LackingKept
<1>5. TrashFounded'
  BY <1>0 DEF ScanIInv, TrashFounded, Founded, At
<1>6. ASSUME NEW o \in Op, NEW d, NEW c PROVE Owed(o, d, c)' <=> Owed(o, d, c)
  BY <1>0, OwedUnfolds DEF Live
<1>7. ASSUME NEW o \in Op, Walk(o) PROVE Walk(o)'
  <2>1. FrontierReachable(o)'
    BY <1>0, <1>7 DEF Walk, FrontierReachable, Reachable, Under, PathTo
  <2>2. ListingsShow(o)'
    <3>1. ASSUME NEW w \in Worker, Reachable(work[w].dir), Shows(o, work[w].dir, work[w].listing)
          PROVE  Reachable(work[w].dir)' /\ Shows(o, work[w].dir, work[w].listing)'
      <4>1. Reachable(work[w].dir)'
        BY <1>0, <3>1 DEF Reachable
      <4>2. OwedUnder(o, work[w].dir)' <=> OwedUnder(o, work[w].dir)
        BY <1>0 DEF OwedUnder, Owed, IsUnseen, Live, Under, PathTo
      <4>3. \A d, c : Owed(o, d, c)' <=> Owed(o, d, c)
        BY <1>6
      <4>4. Under(work'[w].dir) = Under(work[w].dir) /\ Children(work'[w].dir) = Children(work[w].dir)
        BY <1>0
      <4>5. Shows(o, work[w].dir, work[w].listing)'
        BY <1>0, <3>1, <4>2, <4>3, <4>4 DEF Shows, Under, PathTo, Children
      <4>6. QED
        BY <4>1, <4>5
    <3>2. QED
      BY <1>0, <1>7, <3>1 DEF Walk, ListingsShow, On, At, Busy, Under, PathTo, Shows, Reachable,
                             OwedUnder, Owed, IsUnseen, Live, Children
  <2>3. OwedIsCovered(o)' /\ SweepsLast(o)'
    BY <1>0, <1>6, <1>7 DEF Walk, OwedIsCovered, SweepsLast, OwedIsBlocked, On, At, Busy
  <2>4. MountsRecorded(o)'
    BY <1>0, <1>7 DEF Walk, MountsRecorded, OwedUnder, Owed, IsUnseen, Live, Under, PathTo
  <2>5. QED
    BY <2>1, <2>2, <2>3, <2>4 DEF Walk
<1>8. QED
  BY <1>1, <1>2, <1>4, <1>5, <1>7 DEF ScanIInv

LEMMA ScanIInvStep ==
    ASSUME ScanIInv, [Next]_vars PROVE ScanIInv'
<1>1. CASE Next
  <2>1. Shape' /\ Sane' /\ LackingKept'
    BY <1>1, ShapeStep, SaneStep, LackingKeptStep DEF ScanIInv
  <2>2. CalmWalks' /\ TrashFounded'
    BY <1>1, CalmWalksStep, TrashFoundedStep DEF ScanIInv, CalmWalks
  <2>3. QED
    BY <2>1, <2>2 DEF ScanIInv, CalmWalks
<1>2. QED
  BY <1>1, ScanIInvStutters

LEMMA ScanIInvAlways == Spec => []ScanIInv
<1>1. Init => ScanIInv
  BY ScanIInvInit
<1>2. ScanIInv /\ [Next]_vars => ScanIInv'
  BY ScanIInvStep
<1>3. QED
  BY <1>1, <1>2, PTL DEF Spec

(* Only to commit a batch of a sweep trashes.                              *)
LEMMA TrashingCommits ==
    ASSUME Shape, Sane, Steps, NEW w \in Worker, Trashing(w) PROVE CommitSweep(w)
<1>0. At(w, "commit") /\ row' # row /\ work'[w] # work[w] /\ WorkShape
  BY DEF Trashing, Shape
<1>1. ASSUME NEW v \in Worker, Loop(v) PROVE CommitSweep(w)
  <2>1. v = w
    <3>1. PICK job : Turns(v, job)
      BY <1>1, LoopActs
    <3>2. QED
      BY <1>0, <3>1 DEF Turns
  <2>2. CommitSweep(w) \/ Apply(w)
    BY <1>0, <1>1, <2>1, LoopTouches
  <2>3. QED
    BY <1>0, <2>2 DEF Apply, At
<1>2. QED
  BY <1>0, <1>1, StepCases, ClaimTouches, ChangesTouch, RequestsTouch DEF Expedite, UploadCommits, index

(* Every row that a sweep trashes was out of its place at some time since  *)
(* the run began - for any tree of mounts, whoever dies or is overtaken -  *)
(* unless a mount moved under the walk, another run wrote, or an upload    *)
(* that was older than the run committed.                                  *)
THEOREM OnlyTheAbsentIsTrashed == Spec => TrashedWasAbsent
<1>1. ASSUME ScanIInv, Next, NEW w \in Worker, Trashing(w)
      PROVE  Founded(w, {"mount", "stamp", "upload"})
  <2>1. CommitSweep(w)
    BY <1>1, TrashingCommits DEF ScanIInv, Next
  <2>2. At(w, "commit") /\ Root \notin away
    BY <2>1 DEF CommitSweep, Identified
  <2>3. QED
    BY <1>1, <2>2 DEF ScanIInv, TrashFounded
<1>2. ScanIInv /\ [Next]_vars =>
          [\A w \in Worker : Trashing(w) => Founded(w, {"mount", "stamp", "upload"})]_vars
  BY <1>1
<1>3. QED
  BY <1>2, ScanIInvAlways, PTL DEF Spec, TrashedWasAbsent

-----------------------------------------------------------------------------
(* A run around which nothing else happens. What it has found out stays    *)
(* true, because only its own workers write.                               *)

Reconciling(o, w) == On(w, o) /\ (Block(w) \/ Skip(w) \/ Apply(w) \/ CommitSweep(w))

Stays(o) ==
    /\ run[o] # None /\ run'[o] # None
    /\ run'[o].root = run[o].root /\ run'[o].started = run[o].started
    /\ run[o].blocked \subseteq run'[o].blocked
    /\ UNCHANGED storage
    /\ (row' = row /\ device' = device /\ run'[o] = run[o]) \/ \E w \in Worker : Reconciling(o, w)

LEMMA StrictUnderway ==
    ASSUME NEW o \in Op, Strict(o) PROVE Underway(o) /\ run[o] # None
BY DEF Strict, Underway, Running

LEMMA StrictShook ==
    ASSUME Shape, NEW kind \in Kinds, NEW runs, Shaking(kind, runs),
           NEW o \in Op, o \in runs, Underway(o)
    PROVE  ~Strict(o)'
<1>1. shaken \in [Op -> SUBSET Kinds]
  BY DEF Shape, RestShape
<1>2. kind \in shaken'[o]
  BY <1>1, ShakingStep
<1>3. QED
  BY <1>2 DEF Strict

LEMMA ChangesShake ==
    ASSUME Changes PROVE \E kind \in Kinds : Shaking(kind, Op)
BY DEF Changes, Delete, Move, RemoveDirectory, Leave, Return, Deny, UploadRenames, External, Kinds

(* A turn of a claim loop that leaves a strict run strict.                 *)
LEMMA LoopStays ==
    ASSUME Shape, Sane, Steps, NEW o \in Op, run[o] # None, Strict(o), Strict(o)',
           NEW w \in Worker, Loop(w), ~Reconciling(o, w)
    PROVE  row' = row /\ device' = device /\ run'[o] = run[o]
<1>0. WorkShape /\ Underway(o) /\ "stamp" \in Kinds /\ run'[o].state = "running" /\ o \in Running'
  BY StrictUnderway DEF Shape, Strict, Running, Kinds
<1> DEFINE q == work[w].op
<1>1. q \in Op /\ Busy(w)
  BY LoopActs
<1>2. CASE Start(w)
  <2>1. q = o
    BY <1>0, <1>2, LoopEnds
  <2>2. run'[o] = run[o]
    BY <1>2, <2>1, StartStep
  <2>3. QED
    BY <1>2, <2>2 DEF Start, index
<1>3. CASE StartRefused(w)
  <2>1. q = o
    BY <1>0, <1>3, LoopEnds
  <2>2. run'[q].state = "failed"
    BY <1>3, StartRefusedStep
  <2>3. QED
    BY <1>0, <2>1, <2>2
<1>4. CASE Refuse(w) \/ Finish(w)
  <2>1. ~At(w, "start")
    BY <1>4 DEF Refuse, Finish, At
  <2>2. Ended(w, "failed") \/ Ended(w, "completed")
    BY <1>4 DEF Refuse, Finish
  <2>3. RunMoves(q, run'[q]) /\ run'[q].state # "running"
    BY <1>1, <2>1, <2>2, EndedStep
  <2>4. row' = row /\ device' = device
    BY <2>2 DEF Ended, index
  <2> HIDE DEF q
  <2>5. QED
    BY <1>0, <2>3, <2>4 DEF RunMoves
<1>5. CASE Inspect(w) \/ TraversalEnds(w) \/ Sweep(w) \/ Overtaken(w) \/ Stop(w)
  BY <1>5 DEF Inspect, TraversalEnds, Sweep, Overtaken, RolledBack, Stop, Progress, index
<1>6. CASE Block(w) \/ Skip(w)
  <2>1. q # o
    BY <1>1, <1>6 DEF On, Reconciling
  <2>2. \E r : RunMoves(q, r)
    <3>1. \E fs, bs : WalkMoves(w, fs, bs)
      BY <1>6, BlockStep, SkipStep
    <3>2. QED
      BY <3>1 DEF WalkMoves
  <2>3. row' = row /\ device' = device
    BY <1>6 DEF Block, Skip, index
  <2> HIDE DEF q
  <2>4. QED
    BY <2>1, <2>2, <2>3 DEF RunMoves
<1>7. CASE Apply(w) \/ CommitSweep(w)
  <2>1. q # o
    BY <1>1, <1>7 DEF On, Reconciling
  <2>2. Shaking("stamp", Op \ {q})
    BY <1>7 DEF Apply, CommitSweep
  <2>3. QED
    BY <1>0, <2>1, <2>2, StrictShook
<1>8. QED
  BY <1>2, <1>3, <1>4, <1>5, <1>6, <1>7 DEF Loop

LEMMA StrictBefore ==
    ASSUME Shape, Sane, Steps, NEW o \in Op, run[o] # None, Strict(o)' PROVE Strict(o)
<1>1. shaken[o] \subseteq shaken'[o] /\ run'[o].state = "running" /\ shaken'[o] = {}
  BY ShakenStep DEF ShakenKept, Strict, Running
<1>2. run[o].state = "running"
  BY <1>1, WorkStep DEF WorkKept, RunsKept
<1>3. QED
  BY <1>1, <1>2 DEF Strict, Running

LEMMA StrictStays ==
    ASSUME Shape, Sane, Steps, NEW o \in Op, run[o] # None, Strict(o)', UploadsOlder(o)
    PROVE  Stays(o)
<1>0. Strict(o) /\ Underway(o)
  BY StrictBefore, StrictUnderway
<1>1. /\ run'[o] # None /\ run'[o].root = run[o].root /\ run'[o].started = run[o].started
      /\ run[o].blocked \subseteq run'[o].blocked
  BY WorkStep DEF WorkKept, RunsKept
<1>2. CASE \E w \in Worker : Loop(w)
  BY <1>0, <1>1, <1>2, LoopStays, LoopTouches DEF Stays, Reconciling
<1>3. CASE \E w \in Worker, p \in Op : Claim(w, p)
  BY <1>1, <1>3, ClaimTouches DEF Stays, index
<1>4. CASE Expedite \/ Requests
  BY <1>1, <1>4, RequestsTouch DEF Stays, Expedite, index
<1>5. CASE Changes
  BY <1>0, <1>5, ChangesShake, StrictShook
<1>6. CASE UploadCommits
  <2> DEFINE late == {p \in Op : run[p] # None /\ upload.since < run[p].started}
  <2>1. Shaking("upload", late) /\ "upload" \in Kinds
    BY <1>6 DEF UploadCommits, Kinds
  <2>2. o \in late
    BY <1>6 DEF UploadCommits, UploadsOlder
  <2> HIDE DEF late
  <2>3. QED
    BY <1>0, <2>1, <2>2, StrictShook
<1>7. QED
  BY <1>2, <1>3, <1>4, <1>5, <1>6, StepCases

(* Where the storage stays, it looks the same.                             *)
LEMMA SameStorage ==
    ASSUME UNCHANGED storage
    PROVE  /\ \A d : Hidden(d)' <=> Hidden(d)
           /\ \A d : Listing(d)' = Listing(d)
           /\ \A e : Empty(e)' <=> Empty(e)
           /\ Identified' <=> Identified
           /\ \A d, c : at'[c] = d <=> at[c] = d
BY DEF storage, Hidden, Listing, Vanished, Unreadable, Empty, Identified

(* A mount or a refusal above hides what is below.                         *)
LEMMA HiddenBelow ==
    ASSUME NEW d \in Dir, NEW e \in Path[d], Hidden(e) PROVE Hidden(d)
BY PathTransitive, PathWithin, UnderIsPath DEF Hidden

(* Below an empty directory there is nothing.                              *)
LEMMA EmptyBelow ==
    ASSUME Shape, Sane, NEW e \in Dir, Children(e) \cap there = {},
           \A c \in File : at[c] # e
    PROVE  Empty(e)
<1>1. SUFFICES ASSUME NEW d \in Under(e), NEW c \in File, at[c] = d PROVE FALSE
  BY DEF Empty
<1>2. d \in Dir /\ e \in Path[d] /\ d # e /\ at[c] \in Dir /\ None \notin Dir
  BY <1>1, UnderIsPath, UpIsDir
<1>3. Path[d] \subseteq there
  BY <1>1, <1>2 DEF Sane, StorageIsTree
<1>4. QED
  BY <1>2, <1>3, PathStep

(* The listing that is applied is what is to be seen.                      *)
LEMMA StrictListing ==
    ASSUME Shape, Sane, NEW o \in Op, Exactly(o), NEW w \in Worker, On(w, o), At(w, "apply")
    PROVE  /\ work[w].dir \in Dir /\ work[w].listing = Listing(work[w].dir)
           /\ run[o] # None /\ run[o] \in RunRow /\ Mine(w) = run[o]
<1>1. work[w].dir \in Dir
  BY JobFields DEF Shape
<1>2. run[work[w].op] # None /\ run[work[w].op] \in RunRow
  BY ActingOps DEF On, At, Shape, Sane
<1>3. QED
  BY <1>1, <1>2 DEF Exactly, ListingsAreTrue, On, Mine

(* What a listing may say.                                                 *)
LEMMA ListingSays ==
    ASSUME NEW e \in Dir
    PROVE  /\ Listing(e).kind = "missing" => Vanished(e)
           /\ Listing(e).kind = "unreadable" => Hidden(e)
           /\ Listing(e).kind = "listed" =>
                 /\ ~Vanished(e) /\ ~Unreadable(e)
                 /\ ~Hidden(e) => /\ Listing(e).device = "own"
                                  /\ Listing(e).dirs = Children(e) \cap there
                 /\ \A c \in Listing(e).files : c \in File /\ at[c] = e
                 /\ ~Hidden(e) => \A c \in File : at[c] = e => c \in Listing(e).files
<1> DEFINE fs == {c \in File : at[c] = e}
           ds == Children(e) \cap there
           missing == [kind |-> "missing"]
           unreadable == [kind |-> "unreadable"]
           bare == [kind |-> "listed", device |-> "bare", files |-> {}, dirs |-> {}]
           own == [kind |-> "listed", device |-> "own", files |-> fs, dirs |-> ds]
<1>1. e \in PathTo(e)
  BY PathWithin, UnderIsPath
<1>2. /\ missing.kind = "missing" /\ unreadable.kind = "unreadable"
      /\ bare.kind = "listed" /\ bare.files = {}
      /\ own.kind = "listed" /\ own.device = "own" /\ own.files = fs /\ own.dirs = ds
  OBVIOUS
<1>3. Listing(e) = IF Vanished(e) THEN missing ELSE IF Unreadable(e) THEN unreadable
                   ELSE IF e \in away THEN bare ELSE own
  BY DEF Listing
<1>4. Unreadable(e) => Hidden(e)
  BY DEF Unreadable, Hidden
<1>5. e \in away => Hidden(e)
  BY <1>1 DEF Hidden
<1> HIDE DEF missing, unreadable, bare, own
<1>6. CASE Vanished(e)
  BY <1>2, <1>3, <1>6
<1>7. CASE ~Vanished(e) /\ Unreadable(e)
  BY <1>2, <1>3, <1>4, <1>7
<1>8. CASE ~Vanished(e) /\ ~Unreadable(e) /\ e \in away
  BY <1>2, <1>3, <1>5, <1>8
<1>9. CASE ~Vanished(e) /\ ~Unreadable(e) /\ e \notin away
  BY <1>2, <1>3, <1>9
<1>10. QED
  BY <1>6, <1>7, <1>8, <1>9

(* What a strict run blocks is hidden; or it is empty, on record as bare.  *)
LEMMA StrictBlock ==
    ASSUME Shape, Sane, NEW o \in Op, Exactly(o), NEW w \in Worker, On(w, o), Block(w)
    PROVE  LET e == work[w].dir IN Hidden(e) \/ (Empty(e) /\ device[e] = "bare")
<1> DEFINE e == work[w].dir
           l == work[w].listing
<1>1. At(w, "apply") /\ Blocking(e, l)
  BY DEF Block
<1>2. e \in Dir /\ l = Listing(e) /\ device[e] \in {None, "own", "bare"}
  BY <1>1, StrictListing DEF Shape, IndexShape
<1>3. CASE l.kind = "unreadable"
  BY <1>2, <1>3, ListingSays
<1>4. CASE MountVanished(e, l) /\ ~Hidden(e)
  <2>1. /\ l.kind = "listed" /\ l.files = {} /\ l.dirs = {} /\ device[e] # None
        /\ device[e] # l.device
    BY <1>4 DEF MountVanished
  <2>2. l.device = "own" /\ Children(e) \cap there = {} /\ \A c \in File : at[c] # e
    BY <1>2, <1>4, <2>1, ListingSays
  <2>3. Empty(e) /\ device[e] = "bare"
    <3> HIDE DEF e, l
    <3>1. QED
      BY <1>2, <2>1, <2>2, EmptyBelow
  <2>4. QED
    BY <2>3
<1> HIDE DEF l
<1>5. QED
  BY <1>1, <1>3, <1>4 DEF Blocking

(* What an undisturbed listing makes of the rows.                          *)
LEMMA StrictApply ==
    ASSUME Shape, Sane, NEW o \in Op, Exactly(o), NEW w \in Worker, On(w, o), Apply(w)
    PROVE  LET e == work[w].dir IN
           /\ \A x \in Dir, c \in File :
                 /\ row'[x][c] = row[x][c] \/ ~Live(x, c)' \/ at[c] = x
                 /\ at[c] = x /\ ~Hidden(x) /\ Live(x, c) => Live(x, c)'
           /\ ~Hidden(e) => \A c \in File : at[c] = e => row'[e][c].state = "live"
           /\ ~Hidden(e) /\ Empty(e) /\ device[e] = "bare" => ~LiveUnder(e)
           /\ ~Hidden(e) => run'[o].frontier = (run[o].frontier \cup (Children(e) \cap there)) \ {e}
           /\ run[o].frontier \ {e} \subseteq run'[o].frontier
           /\ run'[o].blocked = run[o].blocked
<1> DEFINE e == work[w].dir
           l == work[w].listing
           s == Mine(w).started
<1>1. At(w, "apply") /\ l.kind = "listed" /\ ~MountVanished(e, l)
  BY DEF Apply
<1>2. e \in Dir /\ l = Listing(e) /\ Mine(w) = run[o] /\ "own" # None
  BY <1>1, StrictListing, ScanAssumption
<1>3. /\ \A c \in l.files : c \in File /\ at[c] = e
      /\ ~Hidden(e) => /\ l.device = "own" /\ l.dirs = Children(e) \cap there
                       /\ \A c \in File : at[c] = e => c \in l.files
  BY <1>1, <1>2, ListingSays
<1>4. \A x \in Dir, c \in File : Reconciles(e, l.files, s, x, c, row'[x][c])
  BY ApplyRows
<1>5. NoRow.state # "live"
  BY DEF NoRow
<1>6. \A x \in Dir, c \in File : at[c] = x => x \in there
  <2>1. None \notin Dir
    BY UpIsDir
  <2>2. QED
    BY <2>1 DEF Sane, StorageIsTree
<1>7. WalkMoves(w, (Mine(w).frontier \cup l.dirs) \ {e}, Mine(w).blocked)
  BY ApplyStep
<1>8. /\ run'[o].frontier = (run[o].frontier \cup l.dirs) \ {e}
      /\ run'[o].blocked = run[o].blocked
  BY <1>2, <1>7 DEF WalkMoves, On
<1>9. ASSUME NEW x \in Dir, NEW c \in File
      PROVE  row'[x][c] = row[x][c] \/ ~Live(x, c)' \/ at[c] = x
  <2>1. Reconciles(e, l.files, s, x, c, row'[x][c])
    BY <1>4
  <2> HIDE DEF e, l, s
  <2>2. QED
    BY <1>3, <1>5, <2>1 DEF Reconciles, Live
<1>10. ASSUME NEW x \in Dir, NEW c \in File, at[c] = x, ~Hidden(x), Live(x, c)
       PROVE  Live(x, c)'
  <2>1. Reconciles(e, l.files, s, x, c, row'[x][c])
    BY <1>4
  <2>2. ~IsGone(c, x)
    BY <1>6, <1>10 DEF IsGone, Readable
  <2> HIDE DEF e, l, s
  <2>3. QED
    BY <1>10, <2>1, <2>2 DEF Reconciles, Live
<1>11. ASSUME ~Hidden(e), NEW c \in File, at[c] = e PROVE row'[e][c].state = "live"
  <2>1. Reconciles(e, l.files, s, e, c, row'[e][c])
    BY <1>2, <1>4
  <2>2. c \in l.files /\ Readable(c, e)
    BY <1>2, <1>3, <1>6, <1>11 DEF Readable
  <2> HIDE DEF e, l, s
  <2>3. QED
    BY <2>1, <2>2 DEF Reconciles, Live
<1>12. ~Hidden(e) /\ Empty(e) /\ device[e] = "bare" => ~LiveUnder(e)
  <2>1. SUFFICES ASSUME ~Hidden(e), Empty(e), device[e] = "bare" PROVE ~LiveUnder(e)
    OBVIOUS
  <2>2. e \in Under(e) /\ "bare" # None
    BY <1>2, PathWithin, UnderIsPath, ScanAssumption
  <2>3. l.files = {} /\ l.dirs = {} /\ l.device = "own"
    BY <1>3, <2>1, <2>2 DEF Empty
  <2> HIDE DEF e, l
  <2>4. QED
    BY <1>1, <2>1, <2>2, <2>3 DEF MountVanished
<1> HIDE DEF e, l, s
<1>13. QED
  BY <1>3, <1>8, <1>9, <1>10, <1>11, <1>12 DEF e

(* What else reconciles: a sweep trashes rows out of their place.          *)
LEMMA StrictSweep ==
    ASSUME Shape, Sane, TrashFounded, NEW o \in Op, Strict(o), Exactly(o),
           NEW w \in Worker, On(w, o), CommitSweep(w), NEW x \in Dir, NEW c \in File
    PROVE  /\ row'[x][c] = row[x][c] \/ ~Live(x, c)'
           /\ at[c] = x => row'[x][c] = row[x][c]
<1>1. At(w, "commit") /\ Root \notin away
  BY DEF CommitSweep, Identified
<1>2. work[w].trash \subseteq lacking[o]
  BY <1>1 DEF TrashFounded, Founded, Strict, On
<1>3. at[c] = x => <<x, c>> \notin work[w].trash
  BY <1>2 DEF Exactly, LackingIsMisplaced
<1>4. IF <<x, c>> \in work[w].trash THEN row'[x][c].state = "trashed" ELSE row'[x][c] = row[x][c]
  BY SweepRows
<1>5. QED
  BY <1>3, <1>4 DEF Live

RowsStay ==
    \A x \in Dir, c \in File :
        /\ row'[x][c] = row[x][c] \/ ~Live(x, c)' \/ at[c] = x
        /\ at[c] = x /\ ~Hidden(x) /\ Live(x, c) => Live(x, c)'

LEMMA StrictRows ==
    ASSUME Shape, Sane, TrashFounded, NEW o \in Op, Strict(o), Exactly(o), Stays(o) PROVE RowsStay
<1>1. CASE row' = row
  BY <1>1 DEF RowsStay, Live
<1>2. ASSUME NEW w \in Worker, On(w, o), Apply(w) PROVE RowsStay
  BY <1>2, StrictApply DEF RowsStay
<1>3. ASSUME NEW w \in Worker, On(w, o), CommitSweep(w) PROVE RowsStay
  BY <1>3, StrictSweep DEF RowsStay, Live
<1>4. ASSUME NEW w \in Worker, On(w, o), Block(w) \/ Skip(w) PROVE row' = row
  BY <1>4 DEF Block, Skip, index
<1>5. QED
  BY <1>1, <1>2, <1>3, <1>4 DEF Stays, Reconciling

(* Each turn of a walk but Apply leaves the records of the filesystems.    *)
LEMMA StrictDevice ==
    ASSUME Shape, Sane, NEW o \in Op, Stays(o), NEW e \in Dir
    PROVE  \/ device'[e] = device[e]
           \/ \E w \in Worker : On(w, o) /\ Apply(w) /\ work[w].dir = e
<1>1. ASSUME NEW w \in Worker, Apply(w), work[w].dir # e PROVE device'[e] = device[e]
  BY <1>1 DEF Apply, Shape, IndexShape
<1>2. ASSUME NEW w \in Worker, Block(w) \/ Skip(w) \/ CommitSweep(w) PROVE device' = device
  BY <1>2 DEF Block, Skip, CommitSweep, index
<1>3. QED
  BY <1>1, <1>2 DEF Stays, Reconciling

(* And only Block blocks.                                                  *)
LEMMA StrictBlocked ==
    ASSUME Shape, Sane, NEW o \in Op, Exactly(o), Stays(o), NEW e \in run'[o].blocked
    PROVE  \/ e \in run[o].blocked
           \/ \E w \in Worker : On(w, o) /\ Block(w) /\ work[w].dir = e
<1>1. ASSUME NEW w \in Worker, On(w, o), Apply(w) PROVE e \in run[o].blocked
  BY <1>1, StrictApply
<1>2. ASSUME NEW w \in Worker, On(w, o), CommitSweep(w) PROVE e \in run[o].blocked
  BY <1>2 DEF CommitSweep
<1>3. ASSUME NEW w \in Worker, On(w, o), Skip(w) PROVE e \in run[o].blocked
  <2>1. run'[o].blocked = Mine(w).blocked /\ Mine(w) = run[o]
    <3>1. \E fs, bs : WalkMoves(w, fs, bs) /\ bs = Mine(w).blocked
      BY <1>3, SkipStep
    <3>2. QED
      BY <1>3, <3>1 DEF WalkMoves, On, Mine
  <2>2. QED
    BY <2>1
<1>4. ASSUME NEW w \in Worker, On(w, o), Block(w)
      PROVE  e \in run[o].blocked \/ work[w].dir = e
  <2>1. run'[o].blocked = Mine(w).blocked \cup {work[w].dir} /\ Mine(w) = run[o]
    <3>1. \E fs, bs : WalkMoves(w, fs, bs) /\ bs = Mine(w).blocked \cup {work[w].dir}
      BY <1>4, BlockStep
    <3>2. QED
      BY <1>4, <3>1 DEF WalkMoves, On, Mine
  <2>2. QED
    BY <2>1
<1>5. QED
  BY <1>1, <1>2, <1>3, <1>4 DEF Stays, Reconciling

LEMMA BlockedIsHiddenStep ==
    ASSUME Shape, Sane, TrashFounded, NEW o \in Op, Strict(o), Exactly(o), Stays(o)
    PROVE  BlockedIsHidden(o)'
<1>0. RowsStay /\ UNCHANGED storage /\ run[o] # None /\ run[o] \in RunRow
  BY StrictRows DEF Stays, Shape, WorkShape
<1>1. SUFFICES ASSUME NEW e \in run'[o].blocked
      PROVE  Hidden(e) \/ (Empty(e) /\ (device'[e] = "bare" \/ ~LiveUnder(e)'))
  BY <1>0, SameStorage DEF BlockedIsHidden
<1>2. CASE e \in run[o].blocked
  <2>1. Hidden(e) \/ (Empty(e) /\ (device[e] = "bare" \/ ~LiveUnder(e)))
    BY <1>2 DEF Exactly, BlockedIsHidden
  <2>2. SUFFICES ASSUME ~Hidden(e), Empty(e) PROVE device'[e] = "bare" \/ ~LiveUnder(e)'
    BY <2>1
  <2>3. LiveUnder(e)' => LiveUnder(e)
    BY <1>0, <2>2 DEF LiveUnder, RowsStay, Empty, Live, Under
  <2>4. e \in Dir
    BY <1>0, <1>2 DEF RunRow
  <2>5. ASSUME NEW w \in Worker, On(w, o), Apply(w), work[w].dir = e
        PROVE  device[e] = "bare" => ~LiveUnder(e)
    BY <2>2, <2>5, StrictApply
  <2>6. QED
    BY <2>1, <2>2, <2>3, <2>4, <2>5, StrictDevice
<1>3. CASE e \notin run[o].blocked
  <2>1. PICK w \in Worker : On(w, o) /\ Block(w) /\ work[w].dir = e
    BY <1>3, StrictBlocked
  <2>2. Hidden(e) \/ (Empty(e) /\ device[e] = "bare")
    BY <2>1, StrictBlock
  <2>3. device' = device
    BY <2>1 DEF Block, index
  <2>4. QED
    BY <2>2, <2>3
<1>4. QED
  BY <1>2, <1>3

(* The frontier loses a directory once its files are indexed, and what it  *)
(* holds is on the frontier; or it cannot be looked at.                    *)
LEMMA FrontierGoesDown ==
    ASSUME Shape, Sane, NEW o \in Op, Exactly(o), NEW w \in Worker, Reconciling(o, w),
           NEW d \in Dir, NEW c \in File, at[c] = d, ~Hidden(d), NEW f \in Path[d] \cap run[o].frontier
    PROVE  row'[d][c].state = "live" \/ Path[d] \cap run'[o].frontier # {}
<1> DEFINE e == work[w].dir
<1>0. /\ Path[d] \subseteq there /\ None \notin Dir /\ run[o] # None /\ run[o] \in RunRow
  <2>1. at[c] # None
    BY UpIsDir
  <2>2. run[work[w].op] # None /\ run[work[w].op] \in RunRow
    BY ActingOps DEF Reconciling, On, Shape, Sane, Block, Skip, Apply, CommitSweep, At
  <2>3. QED
    BY <2>1, <2>2, UpIsDir DEF Sane, StorageIsTree, Reconciling, On
<1>1. CASE CommitSweep(w)
  BY <1>1 DEF CommitSweep
<1>2. CASE Block(w) \/ Skip(w) \/ Apply(w)
  <2>1. /\ At(w, "apply") /\ On(w, o) /\ e \in Dir /\ Mine(w) = run[o]
        /\ work[w].listing = Listing(e)
    BY <1>2, StrictListing DEF Reconciling, Block, Skip, Apply
  <2>2. e \in Path[d] => ~Hidden(e)
    BY HiddenBelow
  <2>3. CASE Block(w)
    <3>1. e \notin Path[d]
      <4>1. Hidden(e) \/ Empty(e)
        BY <2>1, <2>3, StrictBlock
      <4>2. e \in Path[d] => d \in Under(e)
        BY <2>1, UnderIsPath
      <4> HIDE DEF e
      <4>3. QED
        BY <2>2, <4>1, <4>2 DEF Empty
    <3>2. \E fs, bs : WalkMoves(w, fs, bs) /\ fs = Mine(w).frontier \ {e}
      BY <2>3, BlockStep
    <3>3. run'[o].frontier = run[o].frontier \ {e}
      BY <2>1, <3>2 DEF WalkMoves, On
    <3> HIDE DEF e
    <3>4. QED
      BY <3>1, <3>3
  <2>4. CASE Skip(w)
    <3>1. Vanished(e)
      BY <2>1, <2>4, ListingSays DEF Skip
    <3>2. e \notin Path[d]
      <4>1. PathTo(e) = Path[e] /\ (e \in Path[d] => Path[e] \subseteq Path[d]) /\ PathTo(d) = Path[d]
        BY <2>1, UnderIsPath, PathTransitive
      <4> HIDE DEF e
      <4>2. QED
        BY <1>0, <3>1, <4>1 DEF Vanished, Hidden
    <3>3. \E fs, bs : WalkMoves(w, fs, bs) /\ fs = Mine(w).frontier \ {e}
      BY <2>4, SkipStep
    <3>4. run'[o].frontier = run[o].frontier \ {e}
      BY <2>1, <3>3 DEF WalkMoves, On
    <3> HIDE DEF e
    <3>5. QED
      BY <3>2, <3>4
  <2>5. CASE Apply(w)
    <3>1. /\ ~Hidden(e) => \A x \in File : at[x] = e => row'[e][x].state = "live"
          /\ ~Hidden(e) => run'[o].frontier = (run[o].frontier \cup (Children(e) \cap there)) \ {e}
          /\ run[o].frontier \ {e} \subseteq run'[o].frontier
      BY <2>1, <2>5, StrictApply
    <3>2. CASE f # e
      <4> HIDE DEF e
      <4>1. QED
        BY <3>1, <3>2
    <3>3. CASE f = e /\ d = e
      <4> HIDE DEF e
      <4>1. QED
        BY <2>2, <3>1, <3>3
    <3>4. CASE f = e /\ d # e
      <4>1. PICK k \in Path[d] : k \in Children(f) /\ k # f
        BY <3>4, PathStep
      <4> HIDE DEF e
      <4>2. k \in run'[o].frontier
        BY <1>0, <2>2, <3>1, <3>4, <4>1
      <4>3. QED
        BY <4>1, <4>2
    <3>5. QED
      BY <3>2, <3>3, <3>4
  <2>6. QED
    BY <1>2, <2>3, <2>4, <2>5
<1>3. QED
  BY <1>1, <1>2 DEF Reconciling

LEMMA FilesCoveredStep ==
    ASSUME Shape, Sane, TrashFounded, NEW o \in Op, Strict(o), Exactly(o), Stays(o)
    PROVE  FilesCovered(o)'
<1>0. RowsStay /\ UNCHANGED storage /\ run'[o].root = run[o].root
  BY StrictRows DEF Stays
<1>1. SUFFICES ASSUME NEW d \in Dir, NEW c \in File, at[c] = d, d \in Under(run[o].root), ~Hidden(d)
      PROVE  Live(d, c)' \/ Path[d] \cap run'[o].frontier # {}
  BY <1>0, SameStorage DEF FilesCovered, InSight, Under
<1>2. Live(d, c) \/ Path[d] \cap run[o].frontier # {}
  BY <1>1 DEF Exactly, FilesCovered, InSight
<1>3. CASE Live(d, c)
  BY <1>0, <1>1, <1>3 DEF RowsStay
<1>4. CASE Path[d] \cap run[o].frontier # {}
  <2>1. CASE run'[o] = run[o]
    BY <1>4, <2>1
  <2>2. ASSUME NEW w \in Worker, Reconciling(o, w)
        PROVE  Live(d, c)' \/ Path[d] \cap run'[o].frontier # {}
    BY <1>1, <1>4, <2>2, FrontierGoesDown DEF Live
  <2>3. QED
    BY <2>1, <2>2 DEF Stays
<1>5. QED
  BY <1>2, <1>3, <1>4

LEMMA FilesIndexedStep ==
    ASSUME Shape, Sane, TrashFounded, NEW o \in Op, Strict(o), Exactly(o), Stays(o), FilesIndexed(o)
    PROVE  FilesIndexed(o)'
<1>1. RowsStay /\ UNCHANGED storage /\ run'[o].root = run[o].root
  BY StrictRows DEF Stays
<1>2. SUFFICES ASSUME NEW d \in Dir, NEW c \in File, at[c] = d, d \in Under(run[o].root), ~Hidden(d)
      PROVE  Live(d, c)'
  BY <1>1, SameStorage DEF FilesIndexed, InSight, Under
<1>3. Live(d, c)
  BY <1>2 DEF FilesIndexed, InSight
<1>4. QED
  BY <1>1, <1>2, <1>3 DEF RowsStay

LEMMA SweepsIndexedStep ==
    ASSUME Shape, Sane, TrashFounded, Steps, NEW o \in Op, Strict(o), Exactly(o), Stays(o)
    PROVE  SweepsIndexed(o)'
<1>1. SUFFICES ASSUME NEW w \in Worker, On(w, o)', At(w, "sweep")' \/ At(w, "commit")'
      PROVE  FilesIndexed(o)
  BY FilesIndexedStep DEF SweepsIndexed
<1>2. \/ work'[w] = work[w] /\ On(w, o)
      \/ On(w, o) /\ (TraversalEnds(w) \/ CommitSweep(w) \/ Sweep(w))
  BY <1>1, LoopsBefore DEF At
<1>3. CASE work'[w] = work[w] /\ On(w, o)
  BY <1>1, <1>3 DEF Exactly, SweepsIndexed, At
<1>4. CASE On(w, o) /\ (CommitSweep(w) \/ Sweep(w))
  BY <1>4 DEF Exactly, SweepsIndexed, CommitSweep, Sweep
<1>5. CASE On(w, o) /\ TraversalEnds(w)
  <2>1. run[o].frontier = {}
    BY <1>5 DEF TraversalEnds, On, Mine
  <2>2. QED
    BY <2>1 DEF Exactly, FilesCovered, FilesIndexed
<1>6. QED
  BY <1>2, <1>3, <1>4, <1>5

LEMMA ListingsAreTrueStep ==
    ASSUME Shape, Sane, Steps, NEW o \in Op, Exactly(o), Stays(o) PROVE ListingsAreTrue(o)'
<1>0. UNCHANGED storage
  BY DEF Stays
<1>1. SUFFICES ASSUME NEW w \in Worker, On(w, o)', At(w, "apply")'
      PROVE  work'[w].listing = Listing(work'[w].dir)
  BY <1>0, SameStorage DEF ListingsAreTrue
<1>2. CASE work'[w] = work[w] /\ On(w, o)
  BY <1>1, <1>2 DEF Exactly, ListingsAreTrue, At
<1>3. CASE Inspect(w)
  <2> DEFINE d == CHOOSE e \in Mine(w).frontier : \A f \in Mine(w).frontier : Order[e] <= Order[f]
             job == [op |-> work[w].op, attempt |-> work[w].attempt, pc |-> "apply",
                     dir |-> d, listing |-> Listing(d), since |-> clock]
  <2>1. work'[w] = job
    BY <1>3, InspectTurns DEF Turns
  <2>2. job.listing = Listing(d) /\ job.dir = d
    OBVIOUS
  <2> HIDE DEF d, job
  <2>3. QED
    BY <2>1, <2>2
<1>4. QED
  BY <1>1, <1>2, <1>3, LoopsBefore DEF At

LEMMA ExactlyStep ==
    ASSUME Shape, Sane, TrashFounded, Next, NEW o \in Op, run[o] # None,
           Strict(o)', Strict(o) => Exactly(o)
    PROVE  Exactly(o)'
<1>0. Steps /\ Strict(o) /\ Exactly(o) /\ Stays(o)
  <2>1. Steps
    BY DEF Next
  <2>2. Strict(o)
    BY <2>1, StrictBefore
  <2>3. QED
    BY <2>1, <2>2, StrictStays DEF Exactly
<1>1. /\ UNCHANGED storage /\ RowsStay
      /\ run'[o].root = run[o].root /\ run'[o].started = run[o].started
  BY <1>0, StrictRows DEF Stays
<1>2. Identified' /\ at' = at
  BY <1>0, <1>1, SameStorage DEF Exactly, storage
<1>3. LackingIsMisplaced(o)'
  <2>1. lacking'[o] \subseteq lacking[o] \cup Misplaced'
    BY LackingStep
  <2>2. \A p \in Misplaced' : at[p[2]] # p[1]
    BY <1>2 DEF Misplaced
  <2>3. QED
    BY <1>0, <1>2, <2>1, <2>2 DEF Exactly, LackingIsMisplaced
<1>4. MisplacedUnseen(o)'
  <2>1. SUFFICES ASSUME NEW d \in Dir, NEW c \in File, Live(d, c)', at[c] # d
        PROVE  IsUnseen(run[o], d, c)'
    BY <1>2 DEF MisplacedUnseen
  <2>2. row'[d][c] = row[d][c]
    BY <1>1, <2>1 DEF RowsStay
  <2>3. IsUnseen(run[o], d, c)
    BY <1>0, <2>1, <2>2 DEF Exactly, MisplacedUnseen, Live
  <2>4. QED
    BY <1>1, <2>2, <2>3 DEF IsUnseen, Live
<1>5. UploadsOlder(o)'
  <2>1. ASSUME UploadRenames PROVE FALSE
    BY <1>0, <2>1, ChangesShake, StrictShook, StrictUnderway DEF Changes
  <2>2. upload'.pc = "register" => upload.pc = "register" /\ upload' = upload
    BY <1>0, <2>1, UploadStep
  <2>3. QED
    BY <1>0, <1>1, <2>2 DEF Exactly, UploadsOlder
<1>6. QED
  BY <1>0, <1>2, <1>3, <1>4, <1>5, ListingsAreTrueStep, BlockedIsHiddenStep, FilesCoveredStep,
     SweepsIndexedStep DEF Exactly

LEMMA ExactlyBegins ==
    ASSUME Shape, Sane, LackingKept, Next, NEW o \in Op, run[o] = None, Strict(o)'
    PROVE  Exactly(o)'
<1>0. /\ WorkShape /\ RunsApart /\ RowsStamped /\ clock \in Nat /\ IndexShape
      /\ upload \in UploadSet
      /\ Steps /\ run'[o] # None /\ run'[o].state = "running"
  BY DEF Shape, Sane, RestShape, Next, Strict, Running
<1>1. PICK w \in Worker : Start(w) /\ work[w].op = o
  <2>1. PICK w \in Worker : Loop(w)
    BY <1>0, StepCases, ClaimTouches, ChangesTouch, RequestsTouch DEF Expedite, UploadCommits
  <2>2. QED
    BY <1>0, <2>1, LoopEnds
<1>2. /\ op[o] # None /\ FreshRun(o, run'[o])
      /\ \E job : Turns(w, job) /\ job.pc = "walk"
      /\ UNCHANGED <<storage, index, upload>> /\ Identified
  <2> DEFINE job == [op |-> o, attempt |-> work[w].attempt, pc |-> "walk"]
  <2>1. job.pc = "walk"
    OBVIOUS
  <2>2. op[o] # None /\ RunBegins(o) /\ Turns(w, job)
    BY <1>1, StartStep
  <2>3. UNCHANGED <<storage, index, upload>> /\ Identified
    BY <1>1 DEF Start
  <2> HIDE DEF job
  <2>4. QED
    BY <1>0, <2>1, <2>2, <2>3 DEF RunBegins
<1> PICK r : r = run'[o].root
  OBVIOUS
<1>3. run'[o].frontier = {r} /\ run'[o].blocked = {} /\ run'[o].started = clock + 1 /\ r \in Dir
  BY <1>2 DEF FreshRun, RunRow
<1>4. ASSUME NEW v \in Worker, On(v, o)' PROVE At(v, "start")' \/ At(v, "walk")'
  <2>1. CASE work'[v] = work[v]
    <3>1. Busy(v) /\ work[v].op = o
      BY <1>4, <2>1 DEF On, Busy
    <3>2. At(v, "start")
      BY <1>0, <3>1 DEF RunsApart
    <3>3. QED
      BY <2>1, <3>2 DEF At
  <2>2. CASE work'[v] # work[v]
    BY <1>2, <1>4, <2>2 DEF Turns, On, Busy, At
  <2>3. QED
    BY <2>1, <2>2
<1>5. at' = at /\ row' = row /\ upload' = upload
  BY <1>2 DEF storage, index
<1>6. Identified'
  BY <1>2, SameStorage
<1>7. ListingsAreTrue(o)' /\ SweepsIndexed(o)' /\ BlockedIsHidden(o)'
  BY <1>3, <1>4 DEF ListingsAreTrue, SweepsIndexed, BlockedIsHidden, At
<1>8. LackingIsMisplaced(o)'
  <2>1. lacking'[o] \subseteq lacking[o] \cup Misplaced'
    BY LackingStep
  <2>2. lacking[o] = {}
    <3>1. ~Underway(o)
      BY DEF Underway
    <3>2. QED
      BY <3>1 DEF LackingKept
  <2>3. \A p \in Misplaced' : at'[p[2]] # p[1]
    BY DEF Misplaced
  <2>4. QED
    BY <2>1, <2>2, <2>3 DEF LackingIsMisplaced
<1>9. FilesCovered(o)'
  <2>1. \A d \in Dir : d \in Under(r) => r \in Path[d]
    BY <1>3, UnderIsPath
  <2>2. QED
    BY <1>3, <2>1 DEF FilesCovered, InSight
<1>10. MisplacedUnseen(o)'
  <2>1. SUFFICES ASSUME NEW d \in Dir, NEW c \in File, Live(d, c)' PROVE IsUnseen(run[o], d, c)'
    BY DEF MisplacedUnseen
  <2>2. row[d][c] # NoRow /\ row[d][c] \in FileRow
    BY <1>0, <1>5, <2>1 DEF Live, NoRow, IndexShape
  <2>3. /\ row[d][c].seen <= clock /\ row[d][c].created <= clock
        /\ row[d][c].seen \in Nat /\ row[d][c].created \in Nat
    BY <1>0, <2>2 DEF RowsStamped, FileRow
  <2>4. QED
    BY <1>0, <1>3, <1>5, <2>1, <2>3 DEF IsUnseen
<1>11. UploadsOlder(o)'
  <2>1. SUFFICES ASSUME upload.pc = "register" PROVE upload.since < clock + 1
    BY <1>3, <1>5 DEF UploadsOlder
  <2>2. upload # NoUpload /\ upload.since \in Nat
    BY <1>0, <2>1 DEF NoUpload, UploadSet
  <2>3. QED
    BY <1>0, <2>2 DEF RowsStamped
<1>12. QED
  BY <1>6, <1>7, <1>8, <1>9, <1>10, <1>11 DEF Exactly

StrictIInv == ScanIInv /\ ExactIInv

LEMMA ExactlyStutters ==
    ASSUME UNCHANGED vars, NEW o \in Op, Exactly(o) PROVE Exactly(o)'
<1>0. /\ UNCHANGED storage /\ at' = at /\ row' = row /\ device' = device
      /\ run' = run /\ work' = work /\ lacking' = lacking /\ upload' = upload
  BY DEF vars, storage, index
<1>1. Identified' /\ LackingIsMisplaced(o)' /\ UploadsOlder(o)'
  BY <1>0, SameStorage DEF Exactly, LackingIsMisplaced, UploadsOlder
<1>2. ListingsAreTrue(o)'
  BY <1>0, SameStorage DEF Exactly, ListingsAreTrue, On, At, Busy
<1>3. BlockedIsHidden(o)'
  <2>1. \A e : LiveUnder(e)' <=> LiveUnder(e)
    BY <1>0 DEF LiveUnder, Live, Under, PathTo
  <2>2. QED
    BY <1>0, <2>1, SameStorage DEF Exactly, BlockedIsHidden
<1>4. FilesCovered(o)' /\ SweepsIndexed(o)'
  BY <1>0, SameStorage DEF Exactly, FilesCovered, SweepsIndexed, FilesIndexed, InSight, Live, Under,
     PathTo, On, At, Busy
<1>5. MisplacedUnseen(o)'
  BY <1>0 DEF Exactly, MisplacedUnseen, IsUnseen, Live
<1>6. QED
  BY <1>1, <1>2, <1>3, <1>4, <1>5 DEF Exactly

LEMMA StrictIInvStep ==
    ASSUME StrictIInv, [Next]_vars PROVE StrictIInv'
<1>1. ScanIInv'
  BY ScanIInvStep DEF StrictIInv
<1>2. ASSUME NEW o \in Op, Strict(o)' PROVE Exactly(o)'
  <2>1. CASE UNCHANGED vars
    <3>1. Strict(o)
      BY <1>2, <2>1 DEF Strict, Running, vars
    <3>2. QED
      BY <2>1, <3>1, ExactlyStutters DEF StrictIInv, ExactIInv
  <2>2. CASE Next /\ run[o] # None
    BY <1>2, <2>2, ExactlyStep DEF StrictIInv, ScanIInv, ExactIInv
  <2>3. CASE Next /\ run[o] = None
    BY <1>2, <2>3, ExactlyBegins DEF StrictIInv, ScanIInv
  <2>4. QED
    BY <2>1, <2>2, <2>3
<1>3. QED
  BY <1>1, <1>2 DEF StrictIInv, ExactIInv

LEMMA StrictIInvAlways == Spec => []StrictIInv
<1>1. Init => StrictIInv
  <2>1. ASSUME Init PROVE ExactIInv
    BY <2>1 DEF Init, ExactIInv, Strict, Running
  <2>2. QED
    BY <2>1, ScanIInvInit DEF StrictIInv
<1>2. StrictIInv /\ [Next]_vars => StrictIInv'
  BY StrictIInvStep
<1>3. QED
  BY <1>1, <1>2, PTL DEF Spec

(* Only a worker that found nothing left to trash completes a run.         *)
LEMMA FinishCompletes ==
    ASSUME Shape, Sane, Steps, NEW o \in Op, o \in Running, run'[o].state = "completed"
    PROVE  \E w \in Worker : Finish(w) /\ work[w].op = o
<1>0. WorkShape /\ run[o] # None /\ run[o] \in RunRow /\ run[o].state = "running"
  BY DEF Shape, WorkShape, Running
<1>1. PICK w \in Worker : Loop(w)
  BY <1>0, StepCases, ClaimTouches, ChangesTouch, RequestsTouch DEF Expedite, UploadCommits
<1> DEFINE q == work[w].op
<1>2. q \in Op /\ Busy(w) /\ op[q] # None
  BY <1>1, LoopActs
<1>3. ASSUME Start(w) PROVE FALSE
  <2>1. CASE q = o
    BY <1>0, <1>3, <2>1, StartStep
  <2>2. CASE q # o
    <3>1. run' = Begun(q)
      BY <1>3 DEF Start
    <3>2. Begun(q)[o] = [run[o] EXCEPT !.state = "failed"]
      BY <1>0, <1>2, <2>2, ScanAssumption DEF Begun, Superseded
    <3> HIDE DEF q
    <3>3. QED
      BY <1>0, <3>1, <3>2 DEF RunRow
  <2>3. QED
    BY <2>1, <2>2
<1>4. ASSUME StartRefused(w) PROVE FALSE
  <2>1. CASE q = o
    BY <1>4, <2>1, StartRefusedStep
  <2>2. CASE q # o
    <3>1. run' = [Begun(q) EXCEPT ![q].state = "failed"] /\ Begun(q) \in RunTable
      BY <1>2, <1>4, BegunRuns DEF StartRefused
    <3>2. Begun(q)[o] = [run[o] EXCEPT !.state = "failed"]
      BY <1>0, <1>2, <2>2, ScanAssumption DEF Begun, Superseded
    <3> DEFINE b == Begun(q)
    <3>3. b \in RunTable /\ b[o] = [run[o] EXCEPT !.state = "failed"]
          /\ run' = [b EXCEPT ![q].state = "failed"]
      BY <3>1, <3>2
    <3> HIDE DEF q, b
    <3>4. run'[o] = b[o]
      BY <2>2, <3>3 DEF RunTable
    <3>5. QED
      BY <1>0, <3>3, <3>4 DEF RunRow
  <2>3. QED
    BY <2>1, <2>2
<1>5. ASSUME Refuse(w) \/ Finish(w) PROVE Finish(w) /\ q = o
  <2>1. ~At(w, "start")
    BY <1>5 DEF Refuse, Finish, At
  <2>2. ASSUME Ended(w, "failed") PROVE FALSE
    <3>1. RunMoves(q, run'[q]) /\ run'[q].state = IF run[q].state = "running" THEN "failed" ELSE run[q].state
      BY <1>2, <2>1, <2>2, EndedStep
    <3> HIDE DEF q
    <3>2. QED
      BY <1>0, <3>1 DEF RunMoves
  <2>3. ASSUME Ended(w, "completed") PROVE q = o
    <3>1. RunMoves(q, run'[q])
      BY <1>2, <2>1, <2>3, EndedStep
    <3> HIDE DEF q
    <3>2. QED
      BY <1>0, <3>1 DEF RunMoves
  <2>4. QED
    BY <1>5, <2>2, <2>3 DEF Refuse, Finish
<1>6. ASSUME Inspect(w) \/ TraversalEnds(w) \/ Sweep(w) \/ CommitSweep(w) \/ Overtaken(w) \/ Stop(w)
      PROVE  FALSE
  BY <1>0, <1>6 DEF Inspect, TraversalEnds, Sweep, CommitSweep, Overtaken, RolledBack, Stop, Progress
<1>7. ASSUME Block(w) \/ Skip(w) \/ Apply(w) PROVE FALSE
  <2>1. \E fs, bs : WalkMoves(w, fs, bs)
    BY <1>7, BlockStep, SkipStep, ApplyStep
  <2>2. RunMoves(q, run'[q]) /\ run'[q].state = run[q].state
    BY <2>1 DEF WalkMoves, RunMoves
  <2> HIDE DEF q
  <2>3. QED
    BY <1>0, <2>2 DEF RunMoves
<1>8. QED
  BY <1>1, <1>3, <1>4, <1>5, <1>6, <1>7 DEF Loop

(* Where a strict run finds nothing to trash, the index is exact.          *)
LEMMA FinishIsExact ==
    ASSUME Shape, Sane, NEW o \in Op, Strict(o), Exactly(o),
           NEW w \in Worker, Finish(w), work[w].op = o
    PROVE  Exact(run[o])'
<1>1. /\ At(w, "sweep") /\ On(w, o) /\ ~At(w, "start") /\ Unseen(run[o]) = {}
      /\ Ended(w, "completed")
  <2>1. At(w, "sweep") /\ Busy(w)
    BY JobFields DEF Finish, Shape
  <2>2. QED
    BY <2>1 DEF Finish, On, At, Mine
<1>2. run'[o].root = run[o].root /\ run'[o].blocked = run[o].blocked
      /\ run[o] \in RunRow
  BY <1>1, EndedStep DEF RunAlike, On
<1>3. row' = row /\ device' = device /\ UNCHANGED storage
  BY <1>1 DEF Ended, index
<1>4. FilesIndexed(o) /\ MisplacedUnseen(o) /\ BlockedIsHidden(o)
  BY <1>1 DEF Exactly, SweepsIndexed
<1>5. ASSUME NEW d \in Under(run[o].root), NEW c \in File, ~Hidden(d), ~Mistaken(run[o], d)
      PROVE  Live(d, c) <=> at[c] = d
  <2>0. d \in Dir
    BY DEF Under
  <2>1. at[c] = d => Live(d, c)
    BY <1>4, <1>5, <2>0 DEF FilesIndexed, InSight
  <2>2. ASSUME Live(d, c), at[c] # d PROVE FALSE
    <3>1. IsUnseen(run[o], d, c)
      BY <1>4, <2>0, <2>2 DEF MisplacedUnseen
    <3>2. d \notin Excluded(run[o])
      <4>1. SUFFICES ASSUME NEW e \in run[o].blocked, d \in Under(e) PROVE FALSE
        BY DEF Excluded
      <4>2. e \in Dir /\ e \in Path[d] /\ e \in PathTo(d)
        BY <1>2, <2>0, <4>1, UnderIsPath DEF RunRow
      <4>3. ~Hidden(e)
        BY <1>5, <2>0, <4>2, HiddenBelow
      <4>4. LiveUnder(e)
        BY <2>2, <4>1 DEF LiveUnder
      <4>5. device[e] = "bare"
        BY <1>4, <4>3, <4>4 DEF BlockedIsHidden
      <4>6. QED
        BY <1>5, <4>2, <4>5 DEF Mistaken
    <3>3. <<d, c>> \in Unseen(run[o])
      BY <3>1, <3>2 DEF Unseen
    <3>4. QED
      BY <1>1, <3>3
  <2>3. QED
    BY <2>1, <2>2
<1>6. ASSUME NEW d \in Under(run'[o].root), NEW c \in File, ~Hidden(d)', ~Mistaken(run[o], d)'
      PROVE  Live(d, c)' <=> at'[c] = d
  <2>1. ~Hidden(d) /\ d \in Under(run[o].root)
    BY <1>2, <1>3, <1>6, SameStorage
  <2>2. ~Mistaken(run[o], d)
    BY <1>2, <1>3, <1>6 DEF Mistaken, PathTo
  <2>3. Live(d, c) <=> at[c] = d
    BY <1>5, <2>1, <2>2
  <2>4. QED
    BY <1>3, <2>3 DEF Live, storage
<1>7. QED
  BY <1>6 DEF Exact, Under, PathTo

(* A scan around which nothing else happened leaves the index saying what  *)
(* the storage says, wherever it could look - for any tree of directories  *)
(* and mounts, and however often it was interrupted and resumed.           *)
THEOREM CalmScansAreExact == Spec => CalmScanIsExact
<1>1. ASSUME StrictIInv, Next, NEW o \in Op, o \in Running, run'[o].state = "completed", shaken[o] = {}
      PROVE  Exact(run[o])'
  <2>1. Shape /\ Sane /\ Steps /\ Strict(o) /\ Exactly(o)
    BY <1>1 DEF StrictIInv, ScanIInv, ExactIInv, Strict, Next
  <2>2. PICK w \in Worker : Finish(w) /\ work[w].op = o
    BY <1>1, <2>1, FinishCompletes
  <2>3. QED
    BY <2>1, <2>2, FinishIsExact
<1>2. StrictIInv /\ [Next]_vars => [\A o \in Op :
          o \in Running /\ run'[o].state = "completed" /\ shaken[o] = {} => Exact(run[o])']_vars
  BY <1>1
<1>3. QED
  BY <1>2, StrictIInvAlways, PTL DEF Spec, CalmScanIsExact
=============================================================================
