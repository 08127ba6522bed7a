----------------------------- MODULE Workspaces -----------------------------
(***************************************************************************)
(* Workspaces on top of the accounts: workspaces.py and the creation route *)
(* of api/v1/workspaces.py, and the workspace.provision operation that     *)
(* builds what the row promises (workspacefs.py plants its marker).        *)
(*                                                                         *)
(* A request resolves and probes the directory, takes the instance-wide    *)
(* admission lock, looks for a namesake and for an overlapping root, and   *)
(* inserts the row with the operation.  A worker then claims the operation *)
(* under an attempt number, probes the root, plants the control directory  *)
(* and commits; one whose lease was lost goes on, and only its commit is   *)
(* refused.  Both the probe and the planting test that the root is a       *)
(* directory and then make it with every parent it lacks, so that a share  *)
(* that leaves in between has its directories made anew where it was.      *)
(*                                                                         *)
(* A workspace is its owner and name.  The directories to adopt lie on one *)
(* share, which may be unmounted at any time and keeps them; MountPoint    *)
(* are those that are then still there, empty.  The first scan is asserted,*)
(* and the root folder created, by the commit that activates the           *)
(* workspace, so neither has a variable of its own.                        *)
(***************************************************************************)
EXTENDS Accounts, FiniteSets

CONSTANTS
    Name,           \* workspace names
    Directory,      \* directories under SE_ADOPTION_ROOTS
    Within,         \* pairs <<inner, outer>> of Directory
    MountPoint,     \* the directories that exist while the share is gone
    Managed,        \* stands for the directory made for the workspace itself
    MaxAttempts,    \* SE_MAX_ATTEMPTS
    MaxInHand       \* bound: workspaces that workers are executing at a time

VARIABLES
    workspace,      \* the workspace table
    operation,      \* the workspace.provision operation of each workspace
    runs,           \* workers executing one, zombies included
    share,          \* whether the adopted share is mounted
    marker,         \* whether a control directory was planted on the share, or off it
    beneath,        \* the directories that exist while the share is gone
    adrift          \* history: those of them a test had found on the share

diskVars == <<marker, beneath, adrift>>
workspaceVars == <<workspace, operation, runs, share, diskVars>>
vars == <<accountVars, workspaceVars>>

WorkspaceRow == [root : Directory \cup {Managed}, state : {"provisioning", "active"}]
Operation == [state : {"queued", "leased", "succeeded", "dead"}, attempt : 0 .. MaxAttempts]

Workspace == Email \X Name

\* What a worker has come to, and whether its last test found the root on the
\* share.
Run == [workspace : Workspace, attempt : 1 .. MaxAttempts, found : BOOLEAN,
        phase : {"claimed", "seen", "probed", "found", "planted"}]

ASSUME WorkspacesAssumption ==
    /\ None \notin WorkspaceRow \cup Operation /\ Managed \notin Directory
    /\ Within \subseteq Directory \X Directory
    /\ MountPoint \subseteq Directory
    /\ MaxAttempts \in Nat \ {0} /\ MaxInHand \in Nat

Overlaps(a, b) == a # Managed /\ b # Managed /\ (a = b \/ <<a, b>> \in Within \/ <<b, a>> \in Within)

\* A managed root is the instance's own to make; an adopted one must be there.
IsDirectory(root) == root = Managed \/ share \/ root \in beneath

Found(root) == root # Managed /\ share

Path(root) == {root} \cup {outer \in Directory : <<root, outer>> \in Within}

\* Everything that is missing up to the root is made, wherever the share was:
\* Path.mkdir(parents=True) and filestore.ensure_directory.
MakeMissing(root, found) ==
    LET made == IF IsDirectory(root) THEN {} ELSE Path(root) IN
    /\ beneath' = beneath \cup made
    /\ adrift' = IF found THEN adrift \cup made ELSE adrift

Init ==
    /\ AccountsInit
    /\ workspace = [w \in Workspace |-> None]
    /\ operation = [w \in Workspace |-> None]
    /\ runs = {}
    /\ share = TRUE
    /\ marker = [w \in Workspace |-> {}]
    /\ beneath = MountPoint
    /\ adrift = {}

-----------------------------------------------------------------------------
(* Creating a workspace *)

\* Creating for somebody else is for administrators, and for a usable account.
MayOwn(by, owner) == owner # by => by \in ActiveAdmins /\ IsActive(owner)

\* So is adopting, and what is adopted must be there.
Adoptable(by, root) == root # Managed => by \in ActiveAdmins /\ IsDirectory(root)

CreateWorkspace(q, by, w, root) ==
    /\ Admit(q, [op |-> "create_workspace", workspace |-> w, root |-> root,
                 stage |-> "resolved", found |-> Found(root)])
    /\ Authenticated(by)
    /\ MayOwn(by, w[1])
    /\ Adoptable(by, root)
    /\ UNCHANGED <<account, session, token, raced, undone, workspaceVars>>

\* The probe makes a directory of its own in the root, and removes only that.
\* For a managed root it is made in the data root.
Preflight(q) ==
    LET r == request[q] IN
    /\ Handling(q, "create_workspace")
    /\ r.stage = "resolved"
    /\ MakeMissing(r.root, r.found)
    /\ request' = [request EXCEPT ![q].stage = "probed", ![q].found = FALSE]
    /\ UNCHANGED <<account, session, token, served, raced, undone,
                   workspace, operation, runs, share, marker>>

NameTaken(w) == workspace[w] # None

LockHeld == \E q \in Request : Handling(q, "create_workspace") /\ request[q].stage = "admitted"

\* Fault: a workspace that is still being provisioned covers nothing.
OnlyActive(root) ==
    \E w \in Workspace : /\ workspace[w] # None /\ workspace[w].state = "active"
                         /\ Overlaps(workspace[w].root, root)

ConflictingRoot(root) == \E w \in Workspace : workspace[w] # None /\ Overlaps(workspace[w].root, root)

\* The lock is a transaction's: held from here to the commit or the rollback.
LockAdmission(q) ==
    LET r == request[q] IN
    /\ Handling(q, "create_workspace")
    /\ r.stage = "probed"
    /\ ~LockHeld
    /\ ~NameTaken(r.workspace)
    /\ ~ConflictingRoot(r.root)
    /\ request' = [request EXCEPT ![q].stage = "admitted"]
    /\ UNCHANGED <<account, session, token, served, raced, undone, workspaceVars>>

CommitWorkspace(q) ==
    LET r == request[q] IN
    /\ Handling(q, "create_workspace")
    /\ r.stage = "admitted"
    /\ workspace' = [workspace EXCEPT ![r.workspace] = [root |-> r.root, state |-> "provisioning"]]
    /\ operation' = [operation EXCEPT ![r.workspace] = [state |-> "queued", attempt |-> 0]]
    /\ Answer(q)
    /\ UNCHANGED <<account, session, token, served, raced, undone, runs, share, diskVars>>

-----------------------------------------------------------------------------
(* Provisioning *)

Claim(w) ==
    /\ operation[w] # None
    /\ operation[w].state = "queued"
    /\ Cardinality({r.workspace : r \in runs} \cup {w}) <= MaxInHand
    /\ operation' = [operation EXCEPT ![w] = [state |-> "leased", attempt |-> @.attempt + 1]]
    /\ runs' = runs \cup {[workspace |-> w, attempt |-> operation'[w].attempt,
                           found |-> FALSE, phase |-> "claimed"]}
    /\ UNCHANGED <<accountVars, workspace, share, diskVars>>

Holds(r) == operation[r.workspace] = [state |-> "leased", attempt |-> r.attempt]

\* What becomes of an operation whose attempt ended without a result.
Retried(w) ==
    [operation EXCEPT ![w].state = IF operation[w].attempt < MaxAttempts THEN "queued" ELSE "dead"]

Root(r) == workspace[r.workspace].root

GoesOn(r, phase, found) == runs' = (runs \ {r}) \cup {[r EXCEPT !.phase = phase, !.found = found]}

\* The probe begins with whether the root is there; a managed one was just made.
SeeRoot(r) ==
    /\ r \in runs /\ r.phase = "claimed"
    /\ IsDirectory(Root(r))
    /\ GoesOn(r, "seen", Found(Root(r)))
    /\ UNCHANGED <<accountVars, workspace, operation, share, diskVars>>

\* Its directory is made in the root, exercised and removed again.
ProbeRoot(r) ==
    /\ r \in runs /\ r.phase = "seen"
    /\ MakeMissing(Root(r), r.found)
    /\ GoesOn(r, "probed", FALSE)
    /\ UNCHANGED <<accountVars, workspace, operation, share, marker>>

\* So does the planting of the marker.
FindRoot(r) ==
    /\ r \in runs /\ r.phase = "probed"
    /\ IsDirectory(Root(r))
    /\ GoesOn(r, "found", Found(Root(r)))
    /\ UNCHANGED <<accountVars, workspace, operation, share, diskVars>>

OnItsStorage(w) == share \/ workspace[w].root = Managed

Marked(w) == [marker EXCEPT ![w] = @ \cup {OnItsStorage(w)}]

\* The staging directory is made with every parent, and the marker beside it.
Plant(r) ==
    /\ r \in runs /\ r.phase = "found"
    /\ MakeMissing(Root(r), r.found)
    /\ marker' = Marked(r.workspace)
    /\ GoesOn(r, "planted", FALSE)
    /\ UNCHANGED <<accountVars, workspace, operation, share>>

Activated(w) == [workspace EXCEPT ![w].state = "active"]

\* The commit and the completion of the operation are one transaction, which a
\* worker that no longer holds the operation rolls back.
CommitProvision(r) ==
    /\ r \in runs /\ r.phase = "planted"
    /\ Holds(r)
    /\ workspace' = Activated(r.workspace)
    /\ operation' = [operation EXCEPT ![r.workspace].state = "succeeded"]
    /\ runs' = runs \ {r}
    /\ UNCHANGED <<accountVars, share, diskVars>>

\* An unusable root, an exception, a shutdown, or the refusal of a stale commit.
ProvisionFails(r) ==
    /\ r \in runs
    /\ operation' = IF Holds(r) THEN Retried(r.workspace) ELSE operation
    /\ runs' = runs \ {r}
    /\ UNCHANGED <<accountVars, workspace, share, diskVars>>

\* The lease ran out under a worker that is still at it.
LeaseLost(r) ==
    /\ r \in runs
    /\ Holds(r)
    /\ operation' = Retried(r.workspace)
    /\ UNCHANGED <<accountVars, workspace, runs, share, diskVars>>

ShareChanges ==
    /\ share' = ~share
    /\ UNCHANGED <<accountVars, workspace, operation, runs, diskVars>>

-----------------------------------------------------------------------------
Next ==
    \/ AccountsNext /\ UNCHANGED workspaceVars
    \/ \E q \in Request :
        \/ \E by \in Email, w \in Workspace, root \in Directory \cup {Managed} :
               CreateWorkspace(q, by, w, root)
        \/ Preflight(q)
        \/ LockAdmission(q)
        \/ CommitWorkspace(q)
    \/ \E w \in Workspace : Claim(w)
    \/ \E r \in runs :
        \/ SeeRoot(r)
        \/ ProbeRoot(r)
        \/ FindRoot(r)
        \/ Plant(r)
        \/ CommitProvision(r)
        \/ ProvisionFails(r)
        \/ LeaseLost(r)
    \/ ShareChanges

Spec == Init /\ [][Next]_vars

-----------------------------------------------------------------------------
(* Properties *)

\* The accounts' types; and a workspace has an owner and an operation.
TypeOK ==
    /\ AccountsTypeOK
    /\ workspace \in [Workspace -> WorkspaceRow \cup {None}]
    /\ operation \in [Workspace -> Operation \cup {None}]
    /\ \A w \in Workspace :
        /\ workspace[w] # None => Exists(w[1])
        /\ workspace[w] = None <=> operation[w] = None
    /\ runs \subseteq Run
    /\ share \in BOOLEAN
    /\ marker \in [Workspace -> SUBSET BOOLEAN]
    /\ beneath \subseteq Directory /\ adrift \subseteq Directory

\* No root contains, equals or lies in another (workspaces.py, lock_admission):
\* a relation between rows that no constraint can express, so it rests on the
\* check being made under the lock, by every one of the concurrent requests.
RootsStandApart ==
    \A v, w \in Workspace :
        v # w /\ workspace[v] # None /\ workspace[w] # None
            => ~Overlaps(workspace[v].root, workspace[w].root)

\* A workspace is active only when its root was marked as its own, so that the
\* scan can tell it from an empty directory (workspaces.py, _materialize: an
\* adopted root "must already be there"); through lost leases, zombies and a
\* share that comes and goes.  A root that is a mount point may carry its mark
\* beneath the mount, and so may one that a probe or a planting made anew
\* there: it had found the root on the share, which left before the mkdir.
ActiveIsMarked ==
    \A w \in Workspace :
        workspace[w] # None /\ workspace[w].state = "active" =>
            /\ marker[w] # {}
            /\ workspace[w].root \in Directory \ (MountPoint \cup adrift) => TRUE \in marker[w]

\* An admitted workspace keeps its storage to itself and is usable once active.
WorkspacesAreSound == RootsStandApart /\ ActiveIsMarked

=============================================================================
