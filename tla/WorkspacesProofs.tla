-------------------------- MODULE WorkspacesProofs --------------------------
(***************************************************************************)
(* That admitted workspaces keep apart and active ones are marked, and     *)
(* that Accounts' and Workspaces' rows keep their types, somebody always   *)
(* administers and a changed password leaves no session; for any accounts, *)
(* directories, requests and bounds.                                       *)
(***************************************************************************)
EXTENDS Workspaces, SequenceTheorems, TLAPS

(* What a request in progress may have read. Only an admission matters     *)
(* here; of the others, that they are none.                                *)
Admission ==
    [op : {"create_workspace"}, workspace : Workspace, root : Directory \cup {Managed},
     stage : {"resolved", "probed", "admitted"}, found : BOOLEAN]

SomethingElse(r) == "op" \in DOMAIN r /\ r.op # "create_workspace"

RequestsOK ==
    /\ DOMAIN request = Request
    /\ \A q \in Request : request[q] = None \/ request[q] \in Admission \/ SomethingElse(request[q])

Execution(r) ==
    /\ {"workspace", "phase", "found"} \subseteq DOMAIN r
    /\ r.workspace \in Workspace /\ r.found \in BOOLEAN

(* The rows, and that what is executed was admitted.                       *)
RowsOK ==
    /\ workspace \in [Workspace -> WorkspaceRow \cup {None}]
    /\ DOMAIN operation = Workspace
    /\ DOMAIN marker = Workspace
    /\ share \in BOOLEAN
    /\ \A w \in Workspace : operation[w] # None => workspace[w] # None
    /\ \A r \in runs : Execution(r) /\ workspace[r.workspace] # None

Admitted(q) == Handling(q, "create_workspace") /\ request[q].stage = "admitted"

(* The admission lock: whoever has passed the check is alone, and what it  *)
(* checked is still so.                                                    *)
LockIsExclusive ==
    \A p, q \in Request : Admitted(p) /\ Admitted(q) => p = q

CheckStillHolds ==
    \A q \in Request : Admitted(q) =>
        /\ workspace[request[q].workspace] = None
        /\ ~ConflictingRoot(request[q].root)

(* A root is marked where it can be told from an unmounted share.          *)
RootIsMarked(w) ==
    /\ marker[w] # {}
    /\ workspace[w].root \in Directory \ (MountPoint \cup adrift) => TRUE \in marker[w]

PlantedIsMarked == \A r \in runs : r.phase = "planted" => RootIsMarked(r.workspace)

(* What a test for a root has found is on the share or exists off it too,  *)
(* so that the mkdir that follows makes only what was on the share.        *)
IsKnown(root, found) == root = Managed \/ found \/ root \in beneath

RequestsAreKnown ==
    \A q \in Request : Handling(q, "create_workspace") /\ request[q].stage = "resolved" =>
        IsKnown(request[q].root, request[q].found)

ExecutionsAreKnown == \A r \in runs : r.phase \in {"seen", "found"} => IsKnown(Root(r), r.found)

RootsAreKnown ==
    /\ beneath \subseteq MountPoint \cup adrift
    /\ RequestsAreKnown
    /\ ExecutionsAreKnown

IInv ==
    /\ RequestsOK
    /\ RowsOK
    /\ LockIsExclusive
    /\ CheckStillHolds
    /\ PlantedIsMarked
    /\ RootsAreKnown
    /\ RootsStandApart
    /\ ActiveIsMarked

-----------------------------------------------------------------------------
(* Requests about accounts *)

(* A step that leaves every admission as it is, or ends it.                *)
NoAdmission ==
    /\ DOMAIN request' = Request
    /\ \A q \in Request :
          request'[q] = request[q] \/ request'[q] = None \/ SomethingElse(request'[q])

(* Accounts change nothing about the admissions in progress.               *)
LEMMA AccountsAdmitNothing ==
  ASSUME RequestsOK, AccountsNext
  PROVE  NoAdmission
<1> USE DEF RequestsOK, NoAdmission
<1>1. CASE Upgrade
  BY <1>1 DEF Upgrade
<1>2. ASSUME NEW i \in DOMAIN session, EndSession(i)
      PROVE  NoAdmission
  BY <1>2 DEF EndSession
<1>3. ASSUME NEW by \in Email, NEW n \in TokenName, RevokeToken(by, n)
      PROVE  NoAdmission
  BY <1>3 DEF RevokeToken
<1>4. ASSUME NEW q \in Request, NEW r, "op" \in DOMAIN r, r.op # "create_workspace", Admit(q, r)
      PROVE  NoAdmission
  BY <1>4 DEF Admit, SomethingElse
<1>5. ASSUME NEW q \in Request, Answer(q)
      PROVE  NoAdmission
  BY <1>5 DEF Answer
<1>6. ASSUME NEW q \in Request, NEW e, NEW p, Bootstrap(q, e, p)
      PROVE  NoAdmission
  BY <1>6 DEF Bootstrap, SomethingElse
<1>7. ASSUME NEW q \in Request, NEW e, NEW p, Login(q, e, p)
      PROVE  NoAdmission
  BY <1>7, <1>4 DEF Login
<1>8. ASSUME NEW q \in Request, NEW by, NEW e, NEW p, NEW role, CreateUser(q, by, e, p, role)
      PROVE  NoAdmission
  BY <1>8, <1>4 DEF CreateUser
<1>9. ASSUME NEW q \in Request, NEW by, NEW e, NEW c, UpdateUser(q, by, e, c)
      PROVE  NoAdmission
  BY <1>9, <1>4 DEF UpdateUser
<1>10. ASSUME NEW q \in Request, NEW by, NEW n, NEW scope, CreateToken(q, by, n, scope)
       PROVE  NoAdmission
  BY <1>10, <1>4 DEF CreateToken
<1>11. ASSUME NEW q \in Request, CommitUpdate(q)
       PROVE  NoAdmission
  <2> DEFINE seen(x) == Outdated(request[x], request[q].email, request[q].change)
  <2>1. /\ DOMAIN request' = Request
        /\ \A x \in Request : request'[x] = IF x = q THEN None ELSE seen(x)
    BY <1>11 DEF CommitUpdate
  <2>2. ASSUME NEW x \in Request
        PROVE  seen(x) = request[x] \/ SomethingElse(seen(x))
    <3>1. CASE request[x] = None
      BY <3>1 DEF Outdated
    <3>2. CASE request[x] \in Admission
      BY <3>2 DEF Outdated, Admission
    <3>3. CASE request[x] # None /\ SomethingElse(request[x])
      BY <3>3 DEF Outdated, SomethingElse
    <3> QED BY <3>1, <3>2, <3>3
  <2> QED BY <2>1, <2>2
<1>12. ASSUME NEW q \in Request,
              Rollback(q) \/ CommitBootstrap(q) \/ CommitLogin(q) \/ CommitUser(q) \/ CommitToken(q)
       PROVE  NoAdmission
  BY <1>12, <1>5 DEF Rollback, CommitBootstrap, CommitLogin, CommitUser, CommitToken
<1>13. ASSUME NEW q \in Request, WriteUser(q)
       PROVE  NoAdmission
  <2> DEFINE n == IF request[q].change.password = None THEN 0 ELSE Len(session)
  <2>1. /\ request[q] # None /\ request[q].op = "update_user"
        /\ request' = [request EXCEPT ![q] = [request[q] EXCEPT !.snapshot = n]]
    BY <1>13 DEF WriteUser, Handling
  <2> HIDE DEF n
  <2>2. SomethingElse(request[q])
    BY <2>1 DEF SomethingElse, Admission
  <2>3. SomethingElse([request[q] EXCEPT !.snapshot = n])
    BY <2>2 DEF SomethingElse
  <2> QED BY <2>1, <2>3
<1> QED
  BY <1>1, <1>2, <1>3, <1>6, <1>7, <1>8, <1>9, <1>10, <1>11, <1>12, <1>13 DEF AccountsNext

(* Where admissions are left alone and workspaces too, everything stays.   *)
LEMMA AccountsPreserve ==
  ASSUME IInv, NoAdmission, UNCHANGED workspaceVars
  PROVE  IInv'
<1> USE DEF IInv, workspaceVars, diskVars
<1>1. \A q \in Request : Admitted(q)' => Admitted(q) /\ request'[q] = request[q]
  BY DEF NoAdmission, Admitted, Handling, SomethingElse
<1>2. RequestsOK'
  BY DEF NoAdmission, RequestsOK
<1>3. RowsOK' /\ PlantedIsMarked' /\ RootsStandApart' /\ ActiveIsMarked'
  BY DEF Execution, RowsOK, PlantedIsMarked, RootIsMarked, RootsStandApart, ActiveIsMarked
<1>4. LockIsExclusive'
  BY <1>1 DEF LockIsExclusive
<1>5. CheckStillHolds'
  BY <1>1 DEF CheckStillHolds, ConflictingRoot
<1>6. RootsAreKnown'
  <2>1. \A q \in Request : Handling(q, "create_workspace")' => request'[q] = request[q]
    BY DEF NoAdmission, Handling, SomethingElse
  <2> QED BY <2>1 DEF RootsAreKnown, RequestsAreKnown, ExecutionsAreKnown, IsKnown, Handling, Root
<1> QED BY <1>2, <1>3, <1>4, <1>5, <1>6

-----------------------------------------------------------------------------
(* Each step of a workspace *)

LEMMA InitEstablishes ==
  ASSUME Init
  PROVE  IInv
<1> USE DEF Init, AccountsInit
<1>1. RequestsOK /\ RowsOK
  BY DEF RequestsOK, RowsOK
<1>2. LockIsExclusive /\ CheckStillHolds
  BY DEF LockIsExclusive, CheckStillHolds, Admitted, Handling
<1>3. PlantedIsMarked /\ RootsStandApart /\ ActiveIsMarked
  BY DEF PlantedIsMarked, RootsStandApart, ActiveIsMarked
<1>4. RootsAreKnown
  BY DEF RootsAreKnown, RequestsAreKnown, ExecutionsAreKnown, Handling
<1> QED BY <1>1, <1>2, <1>3, <1>4 DEF IInv

(* A request that begins holds no lock yet.                                *)
LEMMA CreatePreserves ==
  ASSUME IInv, NEW q \in Request, NEW by \in Email, NEW w \in Workspace,
         NEW root \in Directory \cup {Managed}, CreateWorkspace(q, by, w, root)
  PROVE  IInv'
<1> DEFINE new == [op |-> "create_workspace", workspace |-> w, root |-> root,
                   stage |-> "resolved", found |-> Found(root)]
<1>1. request' = [request EXCEPT ![q] = new] /\ UNCHANGED <<workspaceVars, diskVars>>
  BY DEF CreateWorkspace, Admit, workspaceVars
<1>2. RequestsOK'
  BY <1>1 DEF IInv, RequestsOK, Admission, SomethingElse, Found, RowsOK
<1>3. \A p \in Request : Admitted(p)' => Admitted(p) /\ request'[p] = request[p]
  BY <1>1 DEF IInv, RequestsOK, Admitted, Handling
<1>4. RowsOK' /\ PlantedIsMarked' /\ RootsStandApart' /\ ActiveIsMarked'
  BY <1>1 DEF Execution, IInv, workspaceVars, diskVars, RowsOK, PlantedIsMarked, RootIsMarked,
              RootsStandApart, ActiveIsMarked
<1>5. LockIsExclusive'
  BY <1>3 DEF IInv, LockIsExclusive
<1>6. CheckStillHolds'
  BY <1>1, <1>3 DEF IInv, workspaceVars, CheckStillHolds, ConflictingRoot
<1>7. RootsAreKnown'
  <2>1. IsKnown(root, Found(root))
    BY DEF CreateWorkspace, Adoptable, IsDirectory, Found, IsKnown
  <2>2. \A p \in Request : request'[p] = IF p = q THEN new ELSE request[p]
    BY <1>1 DEF IInv, RequestsOK
  <2>3. new.root = root /\ new.found = Found(root)
    OBVIOUS
  <2> HIDE DEF new
  <2>4. RequestsAreKnown'
    BY <1>1, <2>1, <2>2, <2>3 DEF IInv, RootsAreKnown, RequestsAreKnown, Handling, IsKnown, diskVars
  <2>5. ExecutionsAreKnown'
    BY <1>1 DEF IInv, RootsAreKnown, ExecutionsAreKnown, IsKnown, Root, workspaceVars, diskVars
  <2> QED BY <1>1, <2>4, <2>5 DEF IInv, RootsAreKnown, diskVars
<1> QED BY <1>2, <1>4, <1>5, <1>6, <1>7 DEF IInv

(* Whoever takes the lock finds it free, and the check to hold.            *)
LEMMA LockPreserves ==
  ASSUME IInv, NEW q \in Request, LockAdmission(q)
  PROVE  IInv'
<1>1. /\ request' = [request EXCEPT ![q].stage = "admitted"]
      /\ UNCHANGED <<workspaceVars, diskVars>>
      /\ Handling(q, "create_workspace") /\ ~LockHeld
      /\ ~NameTaken(request[q].workspace) /\ ~ConflictingRoot(request[q].root)
  BY DEF LockAdmission, workspaceVars
<1>2. request[q] \in Admission
  BY <1>1 DEF IInv, RequestsOK, Handling, SomethingElse
<1>3. RequestsOK'
  BY <1>1, <1>2 DEF IInv, RequestsOK, Admission, SomethingElse
<1>4. /\ request'[q].workspace = request[q].workspace /\ request'[q].root = request[q].root
      /\ request'[q].stage = "admitted"
      /\ \A p \in Request \ {q} : request'[p] = request[p]
  BY <1>1, <1>2 DEF IInv, RequestsOK, Admission
<1>5. \A p \in Request \ {q} : ~Admitted(p)'
  BY <1>1, <1>4 DEF LockHeld, Admitted, Handling
<1>6. RowsOK' /\ PlantedIsMarked' /\ RootsStandApart' /\ ActiveIsMarked'
  BY <1>1 DEF Execution, IInv, workspaceVars, diskVars, RowsOK, PlantedIsMarked, RootIsMarked,
              RootsStandApart, ActiveIsMarked
<1>7. LockIsExclusive'
  BY <1>5 DEF LockIsExclusive
<1>8. CheckStillHolds'
  BY <1>1, <1>4, <1>5 DEF workspaceVars, CheckStillHolds, ConflictingRoot, NameTaken
<1>9. RootsAreKnown'
  BY <1>1, <1>4 DEF IInv, RootsAreKnown, RequestsAreKnown, ExecutionsAreKnown, Handling, IsKnown,
                    Root, workspaceVars, diskVars
<1> QED BY <1>3, <1>6, <1>7, <1>8, <1>9 DEF IInv

(* The row that is inserted is the one that was checked, and no other      *)
(* request has one to insert.                                              *)
LEMMA CommitPreserves ==
  ASSUME IInv, NEW q \in Request, CommitWorkspace(q)
  PROVE  IInv'
<1> DEFINE w == request[q].workspace
           row == [root |-> request[q].root, state |-> "provisioning"]
<1>1. /\ Admitted(q)
      /\ workspace' = [workspace EXCEPT ![w] = row]
      /\ operation' = [operation EXCEPT ![w] = [state |-> "queued", attempt |-> 0]]
      /\ request' = [request EXCEPT ![q] = None]
      /\ UNCHANGED <<runs, share, diskVars>>
  BY DEF CommitWorkspace, Admitted, Answer
<1>2. request[q] \in Admission
  BY <1>1 DEF IInv, RequestsOK, Admitted, Handling, SomethingElse
<1>3. w \in Workspace /\ row \in WorkspaceRow
  BY <1>2 DEF Admission, WorkspaceRow
<1>4. workspace[w] = None /\ ~ConflictingRoot(row.root)
  BY <1>1 DEF IInv, CheckStillHolds
<1>5. RequestsOK'
  BY <1>1 DEF IInv, RequestsOK, SomethingElse
<1>6. \A v \in Workspace : workspace'[v] = IF v = w THEN row ELSE workspace[v]
  BY <1>1 DEF Execution, IInv, RowsOK
<1>7. \A r \in runs : r.workspace \in Workspace \ {w}
  BY <1>4 DEF Execution, IInv, RowsOK
<1>8. RowsOK'
  <2>1. workspace' \in [Workspace -> WorkspaceRow \cup {None}]
    BY <1>1, <1>3 DEF Execution, IInv, RowsOK
  <2>2. \A v \in Workspace : operation'[v] # None => v = w \/ workspace'[v] # None
    BY <1>1, <1>6 DEF Execution, IInv, RowsOK
  <2>3. row # None
    BY <1>3, WorkspacesAssumption
  <2> QED
    BY <1>1, <1>6, <1>7, <2>1, <2>2, <2>3 DEF Execution, IInv, RowsOK, diskVars
<1>9. \A p \in Request : ~Admitted(p)'
  BY <1>1 DEF IInv, RequestsOK, LockIsExclusive, Admitted, Handling
<1>10. LockIsExclusive' /\ CheckStillHolds'
  BY <1>9 DEF LockIsExclusive, CheckStillHolds
<1>11. PlantedIsMarked'
  BY <1>1, <1>6, <1>7 DEF IInv, PlantedIsMarked, RootIsMarked, diskVars
<1>12. RootsStandApart'
  <2>1. \A a, b : Overlaps(a, b) => Overlaps(b, a)
    BY DEF Overlaps
  <2>2. \A v \in Workspace : v # w /\ workspace[v] # None => ~Overlaps(workspace[v].root, row.root)
    BY <1>4 DEF ConflictingRoot
  <2>3. SUFFICES ASSUME NEW u \in Workspace, NEW v \in Workspace, u # v,
                        workspace'[u] # None, workspace'[v] # None
                 PROVE  ~Overlaps(workspace'[u].root, workspace'[v].root)
    BY DEF RootsStandApart
  <2>4. CASE u = w
    BY <2>1, <2>2, <2>3, <2>4, <1>6
  <2>5. CASE v = w
    BY <2>2, <2>3, <2>5, <1>6
  <2>6. CASE u # w /\ v # w
    BY <2>3, <2>6, <1>6 DEF IInv, RootsStandApart
  <2> QED BY <2>4, <2>5, <2>6
<1>13. ActiveIsMarked'
  <2>1. row.state # "active"
    OBVIOUS
  <2>2. ASSUME NEW v \in Workspace, workspace'[v] # None, workspace'[v].state = "active"
        PROVE  v # w /\ workspace'[v] = workspace[v]
    BY <2>1, <2>2, <1>6
  <2> QED BY <2>2, <1>1 DEF IInv, ActiveIsMarked, diskVars
<1>14. RootsAreKnown'
  <2>1. \A p \in Request : p # q => request'[p] = request[p]
    BY <1>1 DEF IInv, RequestsOK
  <2>2. request'[q] = None
    BY <1>1 DEF IInv, RequestsOK
  <2>3. \A r \in runs : Root(r)' = Root(r)
    BY <1>6, <1>7 DEF Root
  <2> QED
    BY <1>1, <2>1, <2>2, <2>3 DEF IInv, RootsAreKnown, RequestsAreKnown, ExecutionsAreKnown,
                                  Handling, IsKnown, diskVars
<1> QED BY <1>5, <1>8, <1>10, <1>11, <1>12, <1>13, <1>14 DEF IInv

-----------------------------------------------------------------------------
(* Each step of provisioning *)

(* Provisioning admits nothing and leaves the rows with the roots they had *)
(* where it leaves them at all.                                            *)
LEMMA RootsPreserve ==
  ASSUME IInv, UNCHANGED accountVars,
         \A w \in Workspace : /\ workspace'[w] # None <=> workspace[w] # None
                              /\ workspace[w] # None => workspace'[w].root = workspace[w].root
  PROVE  RequestsOK' /\ LockIsExclusive' /\ CheckStillHolds' /\ RootsStandApart'
<1>1. UNCHANGED request
  BY DEF accountVars
<1>2. RequestsOK' /\ LockIsExclusive'
  BY <1>1 DEF IInv, RequestsOK, LockIsExclusive, Admitted, Handling
<1>3. ASSUME NEW q \in Request, Admitted(q)'
      PROVE  /\ workspace'[request'[q].workspace] = None
             /\ ~ConflictingRoot(request[q].root)'
  <2>1. Admitted(q) /\ request[q] \in Admission
    BY <1>1, <1>3 DEF IInv, RequestsOK, Admitted, Handling, SomethingElse
  <2>2. request[q].workspace \in Workspace
    BY <2>1 DEF Admission
  <2> QED BY <1>1, <2>1, <2>2 DEF IInv, CheckStillHolds, ConflictingRoot
<1>4. CheckStillHolds'
  BY <1>1, <1>3 DEF CheckStillHolds
<1>5. RootsStandApart'
  BY DEF IInv, RootsStandApart
<1> QED BY <1>2, <1>4, <1>5

(* Directories and markers are only ever added, and what is made while the *)
(* share is gone is written down.                                          *)
DiskGrows ==
    /\ beneath \subseteq beneath' /\ adrift \subseteq adrift'
    /\ beneath' \subseteq MountPoint \cup adrift'
    /\ DOMAIN marker' = Workspace
    /\ \A w \in Workspace : marker[w] \subseteq marker'[w]

RunIsSound(r) ==
    /\ Execution(r) /\ workspace[r.workspace] # None
    /\ r.phase = "planted" => RootIsMarked(r.workspace)
    /\ r.phase \in {"seen", "found"} => IsKnown(Root(r), r.found)

LEMMA SightIsKnown ==
  ASSUME NEW root, IsDirectory(root)
  PROVE  IsKnown(root, Found(root))
BY DEF IsDirectory, Found, IsKnown

(* The mkdir after a test makes nothing, or what the test had found on a   *)
(* share that has left since.                                              *)
LEMMA MadeIsKnown ==
  ASSUME IInv, NEW root, NEW found \in BOOLEAN, IsKnown(root, found), MakeMissing(root, found)
  PROVE  /\ beneath \subseteq beneath' /\ adrift \subseteq adrift'
         /\ beneath' \subseteq MountPoint \cup adrift'
         /\ root \in Directory \ (MountPoint \cup adrift') => share
<1>1. beneath \subseteq MountPoint \cup adrift
  BY DEF IInv, RootsAreKnown
<1>2. CASE IsDirectory(root)
  <2>1. beneath' = beneath /\ adrift' = adrift
    BY <1>2 DEF MakeMissing
  <2> QED BY <1>1, <1>2, <2>1, WorkspacesAssumption DEF IsDirectory
<1>3. CASE ~IsDirectory(root)
  <2>1. found
    BY <1>3 DEF IsDirectory, IsKnown
  <2>2. beneath' = beneath \cup Path(root) /\ adrift' = adrift \cup Path(root)
    BY <1>3, <2>1 DEF MakeMissing
  <2>3. root \in Path(root)
    BY DEF Path
  <2> QED BY <1>1, <2>2, <2>3
<1> QED BY <1>2, <1>3

LEMMA RunsStaySound ==
  ASSUME IInv, UNCHANGED workspace, DiskGrows, NEW r \in runs
  PROVE  RunIsSound(r)'
<1>1. Execution(r) /\ workspace[r.workspace] # None /\ r.workspace \in Workspace
  BY DEF IInv, RowsOK, Execution
<1>2. r.phase = "planted" => RootIsMarked(r.workspace)'
  <2>1. ASSUME RootIsMarked(r.workspace)
        PROVE  RootIsMarked(r.workspace)'
    BY <1>1, <2>1 DEF RootIsMarked, DiskGrows
  <2> QED BY <2>1 DEF IInv, PlantedIsMarked
<1>3. r.phase \in {"seen", "found"} => IsKnown(Root(r), r.found)'
  BY DEF IInv, RootsAreKnown, ExecutionsAreKnown, IsKnown, Root, DiskGrows
<1> QED BY <1>1, <1>2, <1>3 DEF RunIsSound, Execution

(* Steps that move the operation, its executions and what is on the disk.  *)
LEMMA ExecutionPreserves ==
  ASSUME IInv, UNCHANGED <<accountVars, workspace>>, DiskGrows,
         DOMAIN operation' = Workspace,
         \A w \in Workspace : operation'[w] # None => workspace[w] # None,
         share' \in BOOLEAN,
         \A r \in runs' : RunIsSound(r)'
  PROVE  IInv'
<1>1. RequestsOK' /\ LockIsExclusive' /\ CheckStillHolds' /\ RootsStandApart'
  BY RootsPreserve
<1>2. RowsOK'
  BY DEF RunIsSound, Execution, DiskGrows, IInv, RowsOK
<1>3. PlantedIsMarked'
  BY DEF RunIsSound, PlantedIsMarked
<1>4. ActiveIsMarked'
  BY DEF IInv, ActiveIsMarked, DiskGrows
<1>5. RootsAreKnown'
  <2>1. RequestsAreKnown'
    BY DEF IInv, RootsAreKnown, RequestsAreKnown, Handling, IsKnown, DiskGrows, accountVars
  <2>2. ExecutionsAreKnown'
    BY DEF ExecutionsAreKnown, RunIsSound
  <2> QED BY <2>1, <2>2 DEF RootsAreKnown, DiskGrows
<1> QED BY <1>1, <1>2, <1>3, <1>4, <1>5 DEF IInv

LEMMA DiskStays ==
  ASSUME IInv, UNCHANGED diskVars
  PROVE  DiskGrows
BY DEF IInv, RowsOK, RootsAreKnown, DiskGrows, diskVars

LEMMA RetriedStays ==
  ASSUME IInv, NEW r \in runs, operation' = Retried(r.workspace)
  PROVE  /\ DOMAIN operation' = Workspace
         /\ \A w \in Workspace : operation'[w] # None => workspace[w] # None
<1>1. DOMAIN operation' = Workspace
  BY DEF Execution, IInv, RowsOK, Retried
<1>2. \A w \in Workspace : w = r.workspace \/ operation'[w] = operation[w]
  BY DEF Execution, IInv, RowsOK, Retried
<1> QED BY <1>1, <1>2 DEF Execution, IInv, RowsOK

LEMMA ClaimPreserves ==
  ASSUME IInv, NEW w \in Workspace, Claim(w)
  PROVE  IInv'
<1>1. PICK started :
      /\ Execution(started) /\ started.workspace = w /\ started.phase = "claimed"
      /\ runs' = runs \cup {started}
  <2> DEFINE new == [workspace |-> w, attempt |-> operation'[w].attempt,
                     found |-> FALSE, phase |-> "claimed"]
  <2>1. Execution(new) /\ new.workspace = w /\ new.phase = "claimed"
    BY DEF Execution
  <2>2. runs' = runs \cup {new}
    BY DEF Claim
  <2> QED BY <2>1, <2>2
<1>2. /\ operation[w] # None
      /\ DOMAIN operation' = Workspace
      /\ \A v \in Workspace : v = w \/ operation'[v] = operation[v]
      /\ UNCHANGED <<accountVars, workspace, diskVars>> /\ share' \in BOOLEAN
  BY DEF Claim, IInv, RowsOK
<1>3. \A v \in Workspace : operation'[v] # None => workspace[v] # None
  BY <1>2 DEF IInv, RowsOK
<1>4. DiskGrows
  BY <1>2, DiskStays
<1>5. RunIsSound(started)'
  BY <1>1, <1>2 DEF IInv, RowsOK, RunIsSound, Execution
<1>6. \A r \in runs' : RunIsSound(r)'
  BY <1>1, <1>2, <1>4, <1>5, RunsStaySound
<1> QED BY <1>2, <1>3, <1>4, <1>6, ExecutionPreserves

(* An execution that fails or is overtaken changes no row and no marker.   *)
LEMMA FailurePreserves ==
  ASSUME IInv, NEW r \in runs, ProvisionFails(r) \/ LeaseLost(r)
  PROVE  IInv'
<1>1. /\ UNCHANGED <<accountVars, workspace, diskVars>> /\ runs' \subseteq runs
      /\ share' \in BOOLEAN
  BY DEF ProvisionFails, LeaseLost, IInv, RowsOK
<1>2. operation' = Retried(r.workspace) \/ operation' = operation
  BY DEF ProvisionFails, LeaseLost
<1>3. /\ DOMAIN operation' = Workspace
      /\ \A w \in Workspace : operation'[w] # None => workspace[w] # None
  BY <1>2, RetriedStays DEF IInv, RowsOK
<1>4. DiskGrows
  BY <1>1, DiskStays
<1>5. \A x \in runs' : RunIsSound(x)'
  BY <1>1, <1>4, RunsStaySound
<1> QED BY <1>1, <1>3, <1>4, <1>5, ExecutionPreserves

(* An execution that goes on is one of those there were, or the next one.  *)
LEMMA GoingOnPreserves ==
  ASSUME IInv, NEW r \in runs, NEW phase, NEW found \in BOOLEAN, GoesOn(r, phase, found),
         UNCHANGED <<accountVars, workspace, operation, share>>, DiskGrows,
         phase = "planted" => RootIsMarked(r.workspace)',
         phase \in {"seen", "found"} => IsKnown(Root(r), found)'
  PROVE  IInv'
<1> DEFINE next == [r EXCEPT !.phase = phase, !.found = found]
<1>1. runs' = (runs \ {r}) \cup {next}
  BY DEF GoesOn
<1>2. Execution(r) /\ workspace[r.workspace] # None
  BY DEF IInv, RowsOK
<1>3. /\ Execution(next) /\ next.workspace = r.workspace
      /\ next.phase = phase /\ next.found = found
  BY <1>2 DEF Execution
<1> HIDE DEF next
<1>4. RunIsSound(next)'
  BY <1>2, <1>3 DEF RunIsSound, Execution, Root
<1>5. \A x \in runs' : RunIsSound(x)'
  BY <1>1, <1>4, RunsStaySound
<1>6. /\ DOMAIN operation' = Workspace /\ share' \in BOOLEAN
      /\ \A w \in Workspace : operation'[w] # None => workspace[w] # None
  BY DEF IInv, RowsOK
<1> QED BY <1>5, <1>6, ExecutionPreserves

(* What a test finds is known until the mkdir after it.                    *)
LEMMA SightPreserves ==
  ASSUME IInv, NEW r \in runs, SeeRoot(r) \/ FindRoot(r)
  PROVE  IInv'
<1>1. /\ IsDirectory(Root(r))
      /\ UNCHANGED <<accountVars, workspace, operation, share, diskVars>>
  BY DEF SeeRoot, FindRoot
<1>2. PICK found \in BOOLEAN : found = Found(Root(r))
  BY DEF Found, IInv, RowsOK
<1>3. PICK phase \in {"seen", "found"} : GoesOn(r, phase, found)
  BY <1>2 DEF SeeRoot, FindRoot
<1>4. IsKnown(Root(r), found)'
  BY <1>1, <1>2, SightIsKnown DEF IsKnown, Root, diskVars
<1>5. DiskGrows
  BY <1>1, DiskStays
<1> QED BY <1>1, <1>3, <1>4, <1>5, GoingOnPreserves

LEMMA ProbePreserves ==
  ASSUME IInv, NEW r \in runs, ProbeRoot(r)
  PROVE  IInv'
<1>1. /\ r.phase = "seen" /\ MakeMissing(Root(r), r.found) /\ GoesOn(r, "probed", FALSE)
      /\ UNCHANGED <<accountVars, workspace, operation, share, marker>>
  BY DEF ProbeRoot
<1>2. IsKnown(Root(r), r.found) /\ r.found \in BOOLEAN
  BY <1>1 DEF IInv, RootsAreKnown, ExecutionsAreKnown, RowsOK, Execution
<1>3. DiskGrows
  BY <1>1, <1>2, MadeIsKnown DEF DiskGrows, IInv, RowsOK
<1> QED BY <1>1, <1>3, GoingOnPreserves

(* The directory is there: it is the instance's own, or the share is       *)
(* mounted, or it is one of those the mark may be beneath the mount of.    *)
LEMMA PlantPreserves ==
  ASSUME IInv, NEW r \in runs, Plant(r)
  PROVE  IInv'
<1> DEFINE w == r.workspace
<1>1. /\ r.phase = "found" /\ MakeMissing(Root(r), r.found) /\ GoesOn(r, "planted", FALSE)
      /\ marker' = [marker EXCEPT ![w] = @ \cup {OnItsStorage(w)}]
      /\ UNCHANGED <<accountVars, workspace, operation, share>>
  BY DEF Plant, Marked
<1>2. /\ IsKnown(Root(r), r.found) /\ r.found \in BOOLEAN
      /\ w \in Workspace /\ workspace[w] # None /\ DOMAIN marker = Workspace
  BY <1>1 DEF IInv, RootsAreKnown, ExecutionsAreKnown, RowsOK, Execution
<1>3. /\ beneath \subseteq beneath' /\ adrift \subseteq adrift'
      /\ beneath' \subseteq MountPoint \cup adrift'
      /\ Root(r) \in Directory \ (MountPoint \cup adrift') => share
  BY <1>1, <1>2, MadeIsKnown
<1>4. DiskGrows
  BY <1>1, <1>2, <1>3 DEF DiskGrows
<1>5. marker'[w] # {} /\ (share => TRUE \in marker'[w])
  BY <1>1, <1>2 DEF OnItsStorage, IInv, RowsOK
<1>6. RootIsMarked(w)'
  BY <1>1, <1>3, <1>5 DEF RootIsMarked, Root
<1> QED BY <1>1, <1>4, <1>6, GoingOnPreserves

(* The probe of a request makes directories too, and admits nothing.       *)
LEMMA PreflightPreserves ==
  ASSUME IInv, NEW q \in Request, Preflight(q)
  PROVE  IInv'
<1> DEFINE next == [request[q] EXCEPT !.stage = "probed", !.found = FALSE]
<1>1. /\ Handling(q, "create_workspace") /\ request[q].stage = "resolved"
      /\ MakeMissing(request[q].root, request[q].found)
      /\ request' = [request EXCEPT ![q] = next]
      /\ UNCHANGED <<workspace, operation, runs, share, marker>>
  BY DEF Preflight
<1>2. request[q] \in Admission
  BY <1>1 DEF IInv, RequestsOK, Handling, SomethingElse
<1>3. next \in Admission /\ next.stage = "probed"
  BY <1>2 DEF Admission
<1> HIDE DEF next
<1>4. \A p \in Request : request'[p] = IF p = q THEN next ELSE request[p]
  BY <1>1 DEF IInv, RequestsOK
<1>5. DiskGrows
  <2>1. request[q].found \in BOOLEAN
    BY <1>2 DEF Admission
  <2>2. IsKnown(request[q].root, request[q].found)
    BY <1>1 DEF IInv, RootsAreKnown, RequestsAreKnown
  <2> QED BY <1>1, <2>1, <2>2, MadeIsKnown DEF DiskGrows, IInv, RowsOK
<1>6. RequestsOK'
  BY <1>1, <1>3, <1>4 DEF IInv, RequestsOK, SomethingElse
<1>7. \A p \in Request : Admitted(p)' => Admitted(p) /\ request'[p] = request[p]
  BY <1>3, <1>4 DEF Admitted, Handling
<1>8. LockIsExclusive' /\ CheckStillHolds'
  BY <1>1, <1>7 DEF IInv, LockIsExclusive, CheckStillHolds, ConflictingRoot
<1>9. RowsOK' /\ RootsStandApart'
  BY <1>1 DEF Execution, IInv, RowsOK, RootsStandApart
<1>10. ActiveIsMarked'
  BY <1>1, <1>5 DEF IInv, ActiveIsMarked, DiskGrows
<1>11. \A r \in runs' : RunIsSound(r)'
  BY <1>1, <1>5, RunsStaySound
<1>12. PlantedIsMarked'
  BY <1>11 DEF PlantedIsMarked, RunIsSound
<1>13. RootsAreKnown'
  <2>1. RequestsAreKnown'
    BY <1>3, <1>4, <1>5 DEF IInv, RootsAreKnown, RequestsAreKnown, Handling, IsKnown, DiskGrows
  <2>2. ExecutionsAreKnown'
    BY <1>11 DEF ExecutionsAreKnown, RunIsSound
  <2> QED BY <1>5, <2>1, <2>2 DEF RootsAreKnown, DiskGrows
<1> QED BY <1>6, <1>8, <1>9, <1>10, <1>12, <1>13 DEF IInv

(* Only an execution that marked the root activates its workspace.         *)
LEMMA ActivationPreserves ==
  ASSUME IInv, NEW r \in runs, CommitProvision(r)
  PROVE  IInv'
<1> DEFINE w == r.workspace
<1>1. /\ r.phase = "planted"
      /\ workspace' = [workspace EXCEPT ![w].state = "active"]
      /\ operation' = [operation EXCEPT ![w].state = "succeeded"]
      /\ runs' = runs \ {r}
      /\ UNCHANGED <<accountVars, diskVars, share>>
  BY DEF CommitProvision, Activated
<1>2. w \in Workspace /\ workspace[w] \in WorkspaceRow
  BY DEF Execution, IInv, RowsOK
<1>3. workspace' \in [Workspace -> WorkspaceRow \cup {None}]
  BY <1>1, <1>2 DEF Execution, IInv, RowsOK, WorkspaceRow
<1>4. /\ \A v \in Workspace \ {w} : workspace'[v] = workspace[v]
      /\ workspace'[w] \in WorkspaceRow /\ workspace'[w].root = workspace[w].root
  BY <1>1, <1>2 DEF Execution, IInv, RowsOK, WorkspaceRow
<1>5. \A v \in Workspace : /\ workspace'[v] # None <=> workspace[v] # None
                           /\ workspace'[v].root = workspace[v].root
  BY <1>2, <1>4, WorkspacesAssumption
<1>6. RequestsOK' /\ LockIsExclusive' /\ CheckStillHolds' /\ RootsStandApart'
  BY <1>1, <1>5, RootsPreserve
<1>7. RowsOK'
  <2>1. /\ DOMAIN operation' = Workspace
        /\ \A v \in Workspace : v = w \/ operation'[v] = operation[v]
    BY <1>1 DEF Execution, IInv, RowsOK
  <2> QED BY <1>1, <1>2, <1>3, <1>5, <2>1, WorkspacesAssumption DEF Execution, IInv, RowsOK, diskVars
<1>8. \A v \in Workspace : RootIsMarked(v)' <=> RootIsMarked(v)
  BY <1>1, <1>5 DEF RootIsMarked, diskVars
<1>9. PlantedIsMarked'
  BY <1>1, <1>8 DEF Execution, IInv, RowsOK, PlantedIsMarked
<1>10. ActiveIsMarked'
  <2>1. RootIsMarked(w)'
    BY <1>1, <1>2, <1>8 DEF IInv, PlantedIsMarked
  <2>2. \A v \in Workspace \ {w} :
          workspace'[v] # None /\ workspace'[v].state = "active" => RootIsMarked(v)'
    BY <1>4, <1>8 DEF IInv, ActiveIsMarked, RootIsMarked
  <2> QED BY <2>1, <2>2 DEF ActiveIsMarked, RootIsMarked
<1>11. RootsAreKnown'
  <2>1. \A x \in runs' : x \in runs /\ Root(x)' = Root(x)
    BY <1>1, <1>5 DEF Root, Execution, IInv, RowsOK
  <2> QED
    BY <1>1, <2>1 DEF IInv, RootsAreKnown, RequestsAreKnown, ExecutionsAreKnown, accountVars,
                      Handling, IsKnown, diskVars
<1> QED BY <1>6, <1>7, <1>9, <1>10, <1>11 DEF IInv

-----------------------------------------------------------------------------
LEMMA StepPreserves == IInv /\ [Next]_vars => IInv'
<1> SUFFICES ASSUME IInv, [Next]_vars
             PROVE  IInv'
  OBVIOUS
<1>1. CASE AccountsNext /\ UNCHANGED workspaceVars
  BY <1>1, AccountsAdmitNothing, AccountsPreserve DEF IInv
<1>2. ASSUME NEW q \in Request, NEW by \in Email, NEW w \in Workspace,
             NEW root \in Directory \cup {Managed}, CreateWorkspace(q, by, w, root)
      PROVE  IInv'
  BY <1>2, CreatePreserves
<1>3. ASSUME NEW q \in Request, Preflight(q) \/ LockAdmission(q) \/ CommitWorkspace(q)
      PROVE  IInv'
  BY <1>3, PreflightPreserves, LockPreserves, CommitPreserves
<1>4. ASSUME NEW w \in Workspace, Claim(w)
      PROVE  IInv'
  BY <1>4, ClaimPreserves
<1>5. ASSUME NEW r \in runs,
             \/ SeeRoot(r) \/ ProbeRoot(r) \/ FindRoot(r) \/ Plant(r)
             \/ CommitProvision(r) \/ ProvisionFails(r) \/ LeaseLost(r)
      PROVE  IInv'
  BY <1>5, SightPreserves, ProbePreserves, PlantPreserves, ActivationPreserves, FailurePreserves
<1>6. CASE ShareChanges \/ UNCHANGED vars
  <2>1. UNCHANGED <<accountVars, workspace, operation, runs, diskVars>> /\ share' \in BOOLEAN
    BY <1>6 DEF ShareChanges, vars, accountVars, workspaceVars, IInv, RowsOK
  <2>2. /\ DOMAIN operation' = Workspace
        /\ \A w \in Workspace : operation'[w] # None => workspace[w] # None
    BY <2>1 DEF IInv, RowsOK
  <2>3. DiskGrows
    BY <2>1, DiskStays
  <2>4. \A r \in runs' : RunIsSound(r)'
    BY <2>1, <2>3, RunsStaySound
  <2> QED BY <2>1, <2>2, <2>3, <2>4, ExecutionPreserves
<1> QED
  BY <1>1, <1>2, <1>3, <1>4, <1>5, <1>6 DEF Next

(* The invariant of the admission lock, the rows and the markers holds in  *)
(* every reachable state.                                                  *)
THEOREM Invariance == Spec => []IInv
<1>1. Init => IInv
  BY InitEstablishes
<1> QED BY <1>1, StepPreserves, PTL DEF Spec

(* Whatever accounts, requests and lost leases do, and whenever the share  *)
(* leaves, no admitted root lies in another (workspaces.py,                *)
(* lock_admission), and an active workspace has its marker on the share,   *)
(* unless its root is a mount point or was made anew off the share by a    *)
(* mkdir whose test had found it there (_materialize).                     *)
THEOREM Soundness == Spec => []WorkspacesAreSound
<1>1. IInv => WorkspacesAreSound
  BY DEF IInv, WorkspacesAreSound
<1> QED BY <1>1, Invariance, PTL

-----------------------------------------------------------------------------
(* Accounts                                                                *)

(* What a request about accounts has read.                                 *)
BootstrapRead == [op : {"bootstrap"}, email : Email, password : Password]
LoginRead ==
    [op : {"login"}, email : Email, password : Password, rehash : BOOLEAN, late : BOOLEAN]
UserRead == [op : {"create_user"}, email : Email, password : Password, role : Role]
UpdateRead ==
    [op : {"update_user"}, email : Email, change : Change, stale : BOOLEAN,
     snapshot : Nat \cup {None}]
TokenRead == [op : {"create_token"}, email : Email, name : TokenName, scope : Scope]

Readable ==
    {None} \cup BootstrapRead \cup LoginRead \cup UserRead \cup UpdateRead \cup TokenRead
    \cup Admission

Somebody == \E e \in Email : Exists(e)

(* What it has read stays true until it commits, or the histories say so:  *)
(* a password verified, another administrator besides the one demoted; and *)
(* accounts never go.                                                      *)
ReadStillHolds(q) ==
    /\ Handling(q, "login") =>
          /\ Exists(request[q].email)
          /\ ~request[q].late /\ request[q].email \notin undone =>
                account[request[q].email].password = request[q].password
    /\ Handling(q, "create_user") => Somebody
    /\ Handling(q, "update_user") =>
          /\ Exists(request[q].email)
          /\ ~request[q].stale /\ Demoting(account[request[q].email], request[q].change) =>
                \E other \in ActiveAdmins : other # request[q].email
    /\ Handling(q, "create_token") => Exists(request[q].email)
    /\ Handling(q, "create_workspace") => Exists(request[q].workspace[1])

AccountsIInv ==
    /\ AccountsTypeOK
    /\ request \in [Request -> Readable]
    /\ \A q \in Request : ReadStillHolds(q)
    /\ SomebodyAdministers
    /\ SessionsFollowThePassword

(* An operation that is queued has an attempt left.                        *)
AttemptsRemain ==
    \A w \in Workspace :
        operation[w] # None /\ operation[w].state = "queued" => operation[w].attempt < MaxAttempts

-----------------------------------------------------------------------------
(* Steps of one request that leave other accounts' rows alone.             *)

LEMMA HandledRead ==
  ASSUME AccountsIInv, NEW q \in Request
  PROVE  /\ request[q] \in Readable /\ ReadStillHolds(q)
         /\ Handling(q, "bootstrap") => request[q] \in BootstrapRead
         /\ Handling(q, "login") => request[q] \in LoginRead
         /\ Handling(q, "create_user") => request[q] \in UserRead
         /\ Handling(q, "update_user") => request[q] \in UpdateRead
         /\ Handling(q, "create_token") => request[q] \in TokenRead
         /\ Handling(q, "create_workspace") => request[q] \in Admission
<1>1. request[q] \in Readable /\ ReadStillHolds(q)
  BY DEF AccountsIInv
<1>2. QED
  BY <1>1 DEF Readable, Handling, BootstrapRead, LoginRead, UserRead, UpdateRead, TokenRead,
              Admission

(* An account keeps its authority, and its password unless a rehash is     *)
(* written down as having undone it.                                       *)
AuthorityStays ==
    \A e \in Email : Exists(e) =>
        /\ account'[e] # None
        /\ account'[e].role = account[e].role /\ account'[e].active = account[e].active
        /\ e \notin undone' => e \notin undone /\ account'[e].password = account[e].password

(* A session is an old one, perhaps ended, or was opened with the password *)
(* its account has.                                                        *)
SessionsAreSound ==
    \A i \in DOMAIN session' :
        \/ /\ i \in DOMAIN session
           /\ session'[i].user = session[i].user /\ session'[i].password = session[i].password
           /\ session'[i].late = session[i].late /\ (session'[i].live => session[i].live)
        \/ /\ account'[session'[i].user] # None
           /\ ~session'[i].late /\ session'[i].user \notin undone' =>
                account'[session'[i].user].password = session'[i].password

(* What others have read still holds after such a step.                    *)
LEMMA ReadsSurvive ==
  ASSUME AccountsIInv, AuthorityStays, NEW x \in Request, request'[x] = request[x]
  PROVE  ReadStillHolds(x)'
<1>1. ReadStillHolds(x) /\ request[x] \in Readable
  BY DEF AccountsIInv
<1>2. \A e \in Email : Exists(e) => Exists(e)'
  BY DEF AuthorityStays, Exists
<1>3. \A a \in ActiveAdmins : a \in ActiveAdmins'
  BY DEF AuthorityStays, ActiveAdmins, IsActive, Exists
<1>4. Handling(x, "login")' => Handling(x, "login") /\ request[x] \in LoginRead
  BY <1>1, HandledRead DEF Handling
<1>5. Handling(x, "update_user")' => Handling(x, "update_user") /\ request[x] \in UpdateRead
  BY <1>1, HandledRead DEF Handling
<1>6. Handling(x, "create_user")' => Somebody'
  BY <1>1, <1>2 DEF Handling, Somebody, ReadStillHolds
<1>7. Handling(x, "create_token")' => Exists(request[x].email)'
  BY <1>1, <1>2, HandledRead DEF Handling, TokenRead, ReadStillHolds
<1>8. Handling(x, "create_workspace")' => Exists(request[x].workspace[1])'
  <2>1. SUFFICES ASSUME Handling(x, "create_workspace")
                 PROVE  Exists(request[x].workspace[1])'
    BY DEF Handling
  <2>2. request[x].workspace[1] \in Email
    BY <2>1, HandledRead DEF Admission, Workspace
  <2>3. QED
    BY <1>1, <1>2, <2>1, <2>2 DEF ReadStillHolds
<1>9. Handling(x, "login")' =>
        /\ Exists(request[x].email)'
        /\ ~request[x].late /\ request[x].email \notin undone' =>
              account'[request[x].email].password = request[x].password
  BY <1>1, <1>2, <1>4 DEF LoginRead, ReadStillHolds, AuthorityStays
<1>10. Handling(x, "update_user")' =>
        /\ Exists(request[x].email)'
        /\ ~request[x].stale /\ Demoting(account'[request[x].email], request[x].change) =>
              \E other \in ActiveAdmins' : other # request[x].email
  BY <1>1, <1>2, <1>3, <1>5 DEF UpdateRead, ReadStillHolds, AuthorityStays, Demoting
<1>11. QED
  BY <1>6, <1>7, <1>8, <1>9, <1>10 DEF ReadStillHolds, Handling

LEMMA AccountsStep ==
  ASSUME AccountsIInv, AuthorityStays, SessionsAreSound,
         account' \in [Email -> User \cup {None}], session' \in Seq(SessionRow),
         token' \in [Email \X TokenName -> TokenRow \cup {None}],
         \A e \in Email, n \in TokenName :
            token'[<<e, n>>] # None => token[<<e, n>>] # None \/ Exists(e)',
         request' \in [Request -> Readable],
         \A x \in Request : request'[x] = request[x] \/ ReadStillHolds(x)',
         served' \in 0 .. MaxRequests, undone' \subseteq Email, UNCHANGED raced,
         Somebody' => Somebody \/ ActiveAdmins' # {}
  PROVE  AccountsIInv'
<1>1. \A e \in Email : Exists(e) => Exists(e)'
  BY DEF AuthorityStays, Exists
<1>2. \A i \in DOMAIN session : /\ session[i] \in SessionRow /\ session[i].user \in Email
                               /\ Exists(session[i].user)
  <2>1. session \in Seq(SessionRow)
    BY DEF AccountsIInv, AccountsTypeOK
  <2>2. \A i \in DOMAIN session : session[i] \in SessionRow
    BY <2>1, LenProperties, ElementOfSeq
  <2>3. QED
    BY <2>2 DEF AccountsIInv, AccountsTypeOK, SessionRow
<1>3. AccountsTypeOK'
  <2>1. ASSUME NEW i \in DOMAIN session' PROVE account'[session'[i].user] # None
    <3>1. CASE i \in DOMAIN session /\ session'[i].user = session[i].user
      BY <1>1, <1>2, <3>1 DEF Exists
    <3>2. CASE account'[session'[i].user] # None
      BY <3>2
    <3>3. QED
      BY <2>1, <3>1, <3>2 DEF SessionsAreSound
  <2>2. \A e \in Email, n \in TokenName : token'[<<e, n>>] # None => account'[e] # None
    <3>1. \A e \in Email, n \in TokenName : token[<<e, n>>] # None => account[e] # None
      BY DEF AccountsIInv, AccountsTypeOK, Exists
    <3>2. QED
      BY <1>1, <3>1 DEF Exists
  <2>3. QED
    BY <2>1, <2>2 DEF AccountsIInv, AccountsTypeOK, Exists
<1>4. \A x \in Request : ReadStillHolds(x)'
  BY ReadsSurvive
<1>5. SomebodyAdministers'
  <2>1. \A a \in ActiveAdmins : a \in ActiveAdmins'
    BY DEF AuthorityStays, ActiveAdmins, IsActive, Exists
  <2>2. QED
    BY <2>1 DEF AccountsIInv, SomebodyAdministers, Somebody
<1>6. SessionsFollowThePassword'
  <2>1. SUFFICES ASSUME NEW i \in DOMAIN session', session'[i].live, ~session'[i].late,
                        session'[i].user \notin undone'
                 PROVE  account'[session'[i].user].password = session'[i].password
    BY DEF SessionsFollowThePassword
  <2>2. CASE /\ i \in DOMAIN session
             /\ session'[i].user = session[i].user /\ session'[i].password = session[i].password
             /\ session'[i].late = session[i].late /\ (session'[i].live => session[i].live)
    <3>1. session[i].live /\ ~session[i].late
      BY <2>1, <2>2
    <3>2. session[i].user \notin undone
      BY <1>2, <2>1, <2>2 DEF AuthorityStays
    <3>3. account[session[i].user].password = session[i].password
      BY <2>2, <3>1, <3>2 DEF AccountsIInv, SessionsFollowThePassword
    <3>4. QED
      BY <1>2, <2>1, <2>2, <3>3 DEF AuthorityStays
  <2>3. QED
    BY <2>1, <2>2 DEF SessionsAreSound
<1>7. QED
  BY <1>3, <1>4, <1>5, <1>6 DEF AccountsIInv

-----------------------------------------------------------------------------
(* Steps that change no account.                                           *)

LEMMA SameAccounts ==
  ASSUME UNCHANGED <<account, undone>>
  PROVE  AuthorityStays /\ (Somebody' => Somebody)
BY DEF AuthorityStays, Somebody, Exists

LEMMA SameSessions ==
  ASSUME UNCHANGED session
  PROVE  SessionsAreSound
BY DEF SessionsAreSound

(* A request that is admitted, goes on or ends.                            *)
LEMMA RequestMoves ==
  ASSUME AccountsIInv, NEW q \in Request, NEW r \in Readable,
         request' = [request EXCEPT ![q] = r], ReadStillHolds(q)',
         UNCHANGED <<account, session, token, raced, undone>>,
         served' \in 0 .. MaxRequests
  PROVE  AccountsIInv'
<1>1. request' \in [Request -> Readable] /\ \A x \in Request \ {q} : request'[x] = request[x]
  BY DEF AccountsIInv
<1>2. QED
  BY <1>1, SameAccounts, SameSessions, AccountsStep DEF AccountsIInv, AccountsTypeOK

LEMMA AdmittedRead ==
  ASSUME AccountsIInv, NEW q \in Request, NEW r, Admit(q, r)
  PROVE  request' = [request EXCEPT ![q] = r] /\ request'[q] = r /\ served' \in 0 .. MaxRequests
BY AccountsAssumption DEF Admit, AccountsIInv, AccountsTypeOK

LEMMA EndedHoldsNothing ==
  ASSUME AccountsIInv, NEW q \in Request, Answer(q)
  PROVE  /\ request' \in [Request -> Readable] /\ request'[q] = None /\ ReadStillHolds(q)'
         /\ \A x \in Request \ {q} : request'[x] = request[x]
<1>1. None \in Readable
  BY DEF Readable
<1>2. request' \in [Request -> Readable] /\ request'[q] = None
      /\ \A x \in Request \ {q} : request'[x] = request[x]
  BY <1>1 DEF Answer, AccountsIInv
<1>3. QED
  BY <1>2 DEF ReadStillHolds, Handling

LEMMA RollbackPreserves ==
  ASSUME AccountsIInv, NEW q \in Request, Rollback(q)
  PROVE  AccountsIInv'
<1>1. Answer(q) /\ UNCHANGED <<account, session, token, served, raced, undone>>
  BY DEF Rollback
<1>2. QED
  BY <1>1, EndedHoldsNothing, SameAccounts, SameSessions, AccountsStep DEF AccountsIInv, AccountsTypeOK

LEMMA BootstrapPreserves ==
  ASSUME AccountsIInv, NEW q \in Request, NEW e \in FirstAdmin, NEW p \in Password,
         Bootstrap(q, e, p)
  PROVE  AccountsIInv'
<1> DEFINE r == [op |-> "bootstrap", email |-> e, password |-> p]
<1>1. /\ request' = [request EXCEPT ![q] = r]
      /\ UNCHANGED <<account, session, token, served, raced, undone>>
  BY DEF Bootstrap
<1>2. r \in Readable /\ r.op = "bootstrap"
  BY AccountsAssumption DEF Readable, BootstrapRead
<1> HIDE DEF r
<1>3. request'[q] = r
  BY <1>1 DEF AccountsIInv
<1>4. ReadStillHolds(q)'
  BY <1>2, <1>3 DEF ReadStillHolds, Handling
<1>5. QED
  BY <1>1, <1>2, <1>4, RequestMoves DEF AccountsIInv, AccountsTypeOK

LEMMA LoginPreserves ==
  ASSUME AccountsIInv, NEW q \in Request, NEW e \in Email, NEW p \in Password, Login(q, e, p)
  PROVE  AccountsIInv'
<1> DEFINE r == [op |-> "login", email |-> e, password |-> p,
                 rehash |-> ~account[e].current, late |-> FALSE]
<1>1. /\ Admit(q, r) /\ Exists(e) /\ account[e].password = p
      /\ UNCHANGED <<account, session, token, raced, undone>>
  BY DEF Login, Verified, IsActive
<1>2. r \in Readable /\ r.op = "login" /\ r.email = e /\ r.password = p
  BY DEF Readable, LoginRead
<1> HIDE DEF r
<1>3. request' = [request EXCEPT ![q] = r] /\ request'[q] = r /\ served' \in 0 .. MaxRequests
  BY <1>1, AdmittedRead
<1>4. ReadStillHolds(q)'
  BY <1>1, <1>2, <1>3 DEF ReadStillHolds, Handling, Exists
<1>5. QED
  BY <1>1, <1>2, <1>3, <1>4, RequestMoves

LEMMA CreateUserPreserves ==
  ASSUME AccountsIInv, NEW q \in Request, NEW by \in Email, NEW e \in Email,
         NEW p \in Password, NEW role \in Role, CreateUser(q, by, e, p, role)
  PROVE  AccountsIInv'
<1> DEFINE r == [op |-> "create_user", email |-> e, password |-> p, role |-> role]
<1>1. /\ Admit(q, r) /\ Somebody
      /\ UNCHANGED <<account, session, token, raced, undone>>
  BY DEF CreateUser, AdminAuthenticated, Authenticated, IsActive, Somebody
<1>2. r \in Readable /\ r.op = "create_user"
  BY DEF Readable, UserRead
<1> HIDE DEF r
<1>3. request' = [request EXCEPT ![q] = r] /\ request'[q] = r /\ served' \in 0 .. MaxRequests
  BY <1>1, AdmittedRead
<1>4. ReadStillHolds(q)'
  BY <1>1, <1>2, <1>3 DEF ReadStillHolds, Handling, Somebody, Exists
<1>5. QED
  BY <1>1, <1>2, <1>3, <1>4, RequestMoves

(* Demoting is refused to whoever is the last; so there is another.        *)
LEMMA UpdateUserPreserves ==
  ASSUME AccountsIInv, NEW q \in Request, NEW by \in Email, NEW e \in Email, NEW c \in Change,
         UpdateUser(q, by, e, c)
  PROVE  AccountsIInv'
<1> DEFINE r == [op |-> "update_user", email |-> e, change |-> c, stale |-> FALSE,
                 snapshot |-> None]
<1>1. /\ Admit(q, r) /\ Exists(e) /\ by \in ActiveAdmins
      /\ Demoting(account[e], c) => ActiveAdmins # {e}
      /\ UNCHANGED <<account, session, token, raced, undone>>
  BY DEF UpdateUser, AdminAuthenticated, IsLastActiveAdmin
<1>2. r \in Readable /\ r.op = "update_user" /\ r.email = e /\ r.change = c
  BY DEF Readable, UpdateRead
<1> HIDE DEF r
<1>3. request' = [request EXCEPT ![q] = r] /\ request'[q] = r /\ served' \in 0 .. MaxRequests
  BY <1>1, AdmittedRead
<1>4. UNCHANGED ActiveAdmins /\ UNCHANGED Demoting(account[e], c)
  BY <1>1 DEF ActiveAdmins, IsActive, Exists, Demoting
<1>5. Demoting(account[e], c) => \E other \in ActiveAdmins : other # e
  BY <1>1
<1>6. ReadStillHolds(q)'
  BY <1>1, <1>2, <1>3, <1>4, <1>5 DEF ReadStillHolds, Handling, Exists
<1>7. QED
  BY <1>1, <1>2, <1>3, <1>6, RequestMoves

LEMMA CreateTokenPreserves ==
  ASSUME AccountsIInv, NEW q \in Request, NEW by \in Email, NEW n \in TokenName,
         NEW scope \in Scope, CreateToken(q, by, n, scope)
  PROVE  AccountsIInv'
<1> DEFINE r == [op |-> "create_token", email |-> by, name |-> n, scope |-> scope]
<1>1. /\ Admit(q, r) /\ Exists(by)
      /\ UNCHANGED <<account, session, token, raced, undone>>
  BY DEF CreateToken, Authenticated, IsActive
<1>2. r \in Readable /\ r.op = "create_token" /\ r.email = by
  BY DEF Readable, TokenRead
<1> HIDE DEF r
<1>3. request' = [request EXCEPT ![q] = r] /\ request'[q] = r /\ served' \in 0 .. MaxRequests
  BY <1>1, AdmittedRead
<1>4. ReadStillHolds(q)'
  BY <1>1, <1>2, <1>3 DEF ReadStillHolds, Handling, Exists
<1>5. QED
  BY <1>1, <1>2, <1>3, <1>4, RequestMoves

LEMMA SessionRows ==
  ASSUME AccountsIInv
  PROVE  /\ session \in Seq(SessionRow) /\ Len(session) \in Nat
         /\ DOMAIN session = 1 .. Len(session)
         /\ \A i \in DOMAIN session : /\ session[i] \in SessionRow /\ session[i].user \in Email
                                     /\ Exists(session[i].user)
<1>1. session \in Seq(SessionRow)
  BY DEF AccountsIInv, AccountsTypeOK
<1>2. Len(session) \in Nat /\ DOMAIN session = 1 .. Len(session)
  BY <1>1, LenProperties
<1>3. \A i \in DOMAIN session : session[i] \in SessionRow
  BY <1>1, <1>2, ElementOfSeq
<1>4. QED
  BY <1>1, <1>2, <1>3 DEF AccountsIInv, AccountsTypeOK, SessionRow

(* The row is locked and the sessions are counted.                         *)
LEMMA WriteUserPreserves ==
  ASSUME AccountsIInv, NEW q \in Request, WriteUser(q)
  PROVE  AccountsIInv'
<1> DEFINE n == IF request[q].change.password = None THEN 0 ELSE Len(session)
           r == [request[q] EXCEPT !.snapshot = n]
<1>1. /\ Handling(q, "update_user") /\ request' = [request EXCEPT ![q] = r]
      /\ UNCHANGED <<account, session, token, served, raced, undone>>
  BY DEF WriteUser
<1>2. request[q] \in UpdateRead /\ ReadStillHolds(q) /\ n \in Nat
  BY <1>1, HandledRead, SessionRows
<1> HIDE DEF n
<1>3. /\ r \in UpdateRead /\ r.op = "update_user" /\ r.email = request[q].email
      /\ r.change = request[q].change /\ r.stale = request[q].stale
  BY <1>2 DEF UpdateRead
<1>4. r \in Readable
  BY <1>3 DEF Readable
<1> HIDE DEF r
<1>5. request'[q] = r
  BY <1>1 DEF AccountsIInv
<1>6. UNCHANGED ActiveAdmins
  BY <1>1 DEF ActiveAdmins, IsActive, Exists
<1>7. ReadStillHolds(q)'
  BY <1>1, <1>2, <1>3, <1>5, <1>6 DEF ReadStillHolds, Handling, Exists, Demoting
<1>8. QED
  BY <1>1, <1>4, <1>7, RequestMoves DEF AccountsIInv, AccountsTypeOK

LEMMA EndSessionPreserves ==
  ASSUME AccountsIInv, NEW i \in DOMAIN session, EndSession(i)
  PROVE  AccountsIInv'
<1> DEFINE ended == [session[i] EXCEPT !.live = FALSE]
<1>1. /\ served < MaxRequests /\ served' = served + 1
      /\ session' = [session EXCEPT ![i] = ended]
      /\ UNCHANGED <<account, token, request, raced, undone>>
  BY DEF EndSession, Ended
<1>2. session[i] \in SessionRow /\ i \in 1 .. Len(session)
  BY SessionRows
<1>3. /\ ended \in SessionRow /\ ended.user = session[i].user
      /\ ended.password = session[i].password /\ ended.late = session[i].late /\ ~ended.live
  BY <1>2 DEF SessionRow
<1> HIDE DEF ended
<1>4. /\ session' \in Seq(SessionRow) /\ DOMAIN session' = DOMAIN session
      /\ \A j \in DOMAIN session' : session'[j] = IF j = i THEN ended ELSE session[j]
  BY <1>1, <1>2, <1>3, SessionRows, ExceptSeq
<1>5. SessionsAreSound
  BY <1>3, <1>4 DEF SessionsAreSound
<1>6. served' \in 0 .. MaxRequests
  BY <1>1, AccountsAssumption DEF AccountsIInv, AccountsTypeOK
<1>7. QED
  BY <1>1, <1>4, <1>5, <1>6, SameAccounts, AccountsStep DEF AccountsIInv, AccountsTypeOK

LEMMA RevokeTokenPreserves ==
  ASSUME AccountsIInv, NEW by \in Email, NEW n \in TokenName, RevokeToken(by, n)
  PROVE  AccountsIInv'
<1> DEFINE t == <<by, n>>
<1>1. /\ token[t] # None /\ token' = [token EXCEPT ![t] = [token[t] EXCEPT !.live = FALSE]]
      /\ served < MaxRequests /\ served' = served + 1
      /\ UNCHANGED <<account, session, request, raced, undone>>
  BY DEF RevokeToken, LiveToken
<1>2. t \in Email \X TokenName /\ token[t] \in TokenRow
  BY <1>1 DEF AccountsIInv, AccountsTypeOK
<1>3. [token[t] EXCEPT !.live = FALSE] \in TokenRow
  BY <1>2 DEF TokenRow
<1>4. /\ token' \in [Email \X TokenName -> TokenRow \cup {None}]
      /\ \A x \in Email \X TokenName : x # t => token'[x] = token[x]
  BY <1>1, <1>2, <1>3 DEF AccountsIInv, AccountsTypeOK
<1>5. \A e \in Email, m \in TokenName : token'[<<e, m>>] # None => token[<<e, m>>] # None
  <2>1. ASSUME NEW e \in Email, NEW m \in TokenName, token'[<<e, m>>] # None
        PROVE  token[<<e, m>>] # None
    <3>1. CASE <<e, m>> = t
      BY <1>1, <3>1
    <3>2. CASE <<e, m>> # t
      BY <1>4, <2>1, <3>2
    <3>3. QED
      BY <3>1, <3>2
  <2>2. QED
    BY <2>1
<1>6. served' \in 0 .. MaxRequests
  BY <1>1, AccountsAssumption DEF AccountsIInv, AccountsTypeOK
<1>7. QED
  BY <1>1, <1>4, <1>5, <1>6, SameAccounts, SameSessions, AccountsStep
     DEF AccountsIInv, AccountsTypeOK

-----------------------------------------------------------------------------
(* Steps that change accounts.                                             *)

LEMMA NewAccount ==
  ASSUME AccountsIInv, NEW q \in Request, NEW e \in Email, NEW role \in Role,
         NEW p \in Password, ~Exists(e),
         account' = [account EXCEPT ![e] = NewUser(role, p)], Answer(q),
         role = "admin" \/ Somebody,
         UNCHANGED <<session, token, served, raced, undone>>
  PROVE  AccountsIInv'
<1>1. NewUser(role, p) \in User /\ NewUser(role, p).active /\ NewUser(role, p).role = role
  BY DEF NewUser, User
<1>2. /\ account' \in [Email -> User \cup {None}] /\ account'[e] = NewUser(role, p)
      /\ \A x \in Email \ {e} : account'[x] = account[x]
  BY <1>1 DEF AccountsIInv, AccountsTypeOK
<1>3. AuthorityStays
  BY <1>2 DEF AuthorityStays, Exists
<1>4. role = "admin" => ActiveAdmins' # {}
  <2>1. ASSUME role = "admin" PROVE e \in ActiveAdmins'
    BY <1>1, <1>2, <2>1, AccountsAssumption DEF ActiveAdmins, IsActive, Exists
  <2>2. QED
    BY <2>1
<1>5. QED
  BY <1>2, <1>3, <1>4, EndedHoldsNothing, SameSessions, AccountsStep
     DEF AccountsIInv, AccountsTypeOK

LEMMA CommitBootstrapPreserves ==
  ASSUME AccountsIInv, NEW q \in Request, CommitBootstrap(q)
  PROVE  AccountsIInv'
<1>1. request[q] \in BootstrapRead
  BY HandledRead DEF CommitBootstrap
<1>2. request[q].email \in Email /\ request[q].password \in Password
  BY <1>1 DEF BootstrapRead
<1>3. QED
  BY <1>2, NewAccount DEF CommitBootstrap, Role

LEMMA CommitUserPreserves ==
  ASSUME AccountsIInv, NEW q \in Request, CommitUser(q)
  PROVE  AccountsIInv'
<1>1. request[q] \in UserRead /\ Somebody
  BY HandledRead DEF CommitUser, ReadStillHolds
<1>2. /\ request[q].email \in Email /\ request[q].password \in Password
      /\ request[q].role \in Role
  BY <1>1 DEF UserRead
<1>3. QED
  BY <1>1, <1>2, NewAccount DEF CommitUser

LEMMA CommitTokenPreserves ==
  ASSUME AccountsIInv, NEW q \in Request, CommitToken(q)
  PROVE  AccountsIInv'
<1> DEFINE t == <<request[q].email, request[q].name>>
           row == [scope |-> request[q].scope, live |-> TRUE]
<1>1. /\ Handling(q, "create_token") /\ token' = [token EXCEPT ![t] = row] /\ Answer(q)
      /\ UNCHANGED <<account, session, served, raced, undone>>
  BY DEF CommitToken
<1>2. request[q] \in TokenRead /\ Exists(request[q].email)
  BY <1>1, HandledRead DEF ReadStillHolds
<1>3. /\ request[q].email \in Email /\ request[q].name \in TokenName
      /\ t \in Email \X TokenName /\ row \in TokenRow
  BY <1>2 DEF TokenRead, TokenRow
<1>4. /\ token' \in [Email \X TokenName -> TokenRow \cup {None}]
      /\ \A x \in Email \X TokenName : x # t => token'[x] = token[x]
  BY <1>1, <1>3 DEF AccountsIInv, AccountsTypeOK
<1>5. ASSUME NEW e \in Email, NEW m \in TokenName, token'[<<e, m>>] # None
      PROVE  token[<<e, m>>] # None \/ Exists(e)'
  <2>1. CASE <<e, m>> = t
    BY <1>1, <1>2, <2>1 DEF Exists
  <2>2. CASE <<e, m>> # t
    BY <1>4, <1>5, <2>2
  <2>3. QED
    BY <2>1, <2>2
<1>6. QED
  BY <1>1, <1>4, <1>5, EndedHoldsNothing, SameAccounts, SameSessions, AccountsStep
     DEF AccountsIInv, AccountsTypeOK

(* A hash that is out of date says nothing about the password.             *)
LEMMA UpgradePreserves ==
  ASSUME AccountsIInv, Upgrade
  PROVE  AccountsIInv'
<1>1. /\ account' = [e \in Email |->
           IF Exists(e) THEN [account[e] EXCEPT !.current = FALSE] ELSE None]
      /\ request' = [q \in Request |-> None]
      /\ UNCHANGED <<session, token, served, raced, undone>>
  BY DEF Upgrade
<1>2. ASSUME NEW e \in Email, Exists(e)
      PROVE  /\ account'[e] \in User /\ account'[e].role = account[e].role
             /\ account'[e].active = account[e].active
             /\ account'[e].password = account[e].password
  <2>1. account[e] \in User
    BY <1>2 DEF AccountsIInv, AccountsTypeOK, Exists
  <2>2. account'[e] = [account[e] EXCEPT !.current = FALSE]
    BY <1>1, <1>2
  <2>3. QED
    BY <2>1, <2>2 DEF User
<1>3. account' \in [Email -> User \cup {None}]
  BY <1>1, <1>2
<1>4. AuthorityStays
  BY <1>1, <1>2, AccountsAssumption DEF AuthorityStays
<1>5. Somebody' => Somebody
  BY <1>1 DEF Somebody, Exists
<1>6. /\ request' \in [Request -> Readable]
      /\ \A q \in Request : ReadStillHolds(q)'
  BY <1>1 DEF Readable, ReadStillHolds, Handling
<1>7. QED
  BY <1>1, <1>3, <1>4, <1>5, <1>6, SameSessions, AccountsStep DEF AccountsIInv, AccountsTypeOK

(* The rehash may write an old password over a new one: that is what the   *)
(* history of undone passwords is for.                                     *)
LEMMA CommitLoginPreserves ==
  ASSUME AccountsIInv, NEW q \in Request, CommitLogin(q)
  PROVE  AccountsIInv'
<1> DEFINE e == request[q].email
           p == request[q].password
           opened == [user |-> e, password |-> p, late |-> request[q].late, live |-> TRUE]
           rehashed == [account[e] EXCEPT !.password = p, !.current = TRUE]
<1>1. /\ Handling(q, "login") /\ Answer(q)
      /\ account' = IF request[q].rehash THEN [account EXCEPT ![e] = rehashed] ELSE account
      /\ undone' = undone \cup {x \in {e} : account'[x].password # account[x].password}
      /\ session' = Append(session, opened)
      /\ UNCHANGED <<token, served, raced>>
  BY DEF CommitLogin
<1>2. /\ request[q] \in LoginRead /\ Exists(e)
      /\ ~request[q].late /\ e \notin undone => account[e].password = p
  BY <1>1, HandledRead DEF ReadStillHolds
<1>3. e \in Email /\ p \in Password /\ opened \in SessionRow
  BY <1>2 DEF LoginRead, SessionRow
<1>4. account[e] \in User
  BY <1>2, <1>3 DEF AccountsIInv, AccountsTypeOK, Exists
<1>5. /\ rehashed \in User /\ rehashed.role = account[e].role
      /\ rehashed.active = account[e].active /\ rehashed.password = p
  BY <1>3, <1>4 DEF User
<1> HIDE DEF rehashed, opened, e, p
<1>6. /\ account' \in [Email -> User \cup {None}]
      /\ \A x \in Email \ {e} : account'[x] = account[x]
      /\ account'[e] = rehashed \/ account'[e] = account[e]
  BY <1>1, <1>3, <1>5 DEF AccountsIInv, AccountsTypeOK
<1>7. undone \subseteq undone' /\ undone' \subseteq undone \cup {e}
      /\ (e \notin undone' => account'[e].password = account[e].password)
  BY <1>1
<1>8. AuthorityStays
  BY <1>3, <1>4, <1>5, <1>6, <1>7, AccountsAssumption DEF AuthorityStays, Exists
<1>9. Somebody
  BY <1>2, <1>3 DEF Somebody
<1>10. /\ session' \in Seq(SessionRow) /\ DOMAIN session' = 1 .. Len(session) + 1
       /\ \A i \in DOMAIN session : session'[i] = session[i]
       /\ session'[Len(session) + 1] = opened
  BY <1>1, <1>3, SessionRows
<1>11. SessionsAreSound
  <2>1. /\ account'[opened.user] # None
        /\ ~opened.late /\ opened.user \notin undone' =>
              account'[opened.user].password = opened.password
    BY <1>2, <1>4, <1>5, <1>6, <1>7, AccountsAssumption DEF opened
  <2>2. \A i \in DOMAIN session' : i \in DOMAIN session \/ i = Len(session) + 1
    BY <1>10, SessionRows
  <2>3. QED
    BY <1>10, <2>1, <2>2 DEF SessionsAreSound
<1>12. QED
  BY <1>1, <1>3, <1>6, <1>7, <1>8, <1>9, <1>10, <1>11, EndedHoldsNothing, AccountsStep
     DEF AccountsIInv, AccountsTypeOK

-----------------------------------------------------------------------------
(* An administrator's change of an account.                                *)

(* What the change does to the requests in progress is to mark them.       *)
LEMMA OutdatedRead ==
  ASSUME NEW r \in Readable, r # None, NEW e \in Email, NEW c \in Change
  PROVE  /\ Outdated(r, e, c) \in Readable /\ Outdated(r, e, c).op = r.op
         /\ r.op = "login" =>
              /\ Outdated(r, e, c).email = r.email /\ Outdated(r, e, c).password = r.password
              /\ ~Outdated(r, e, c).late => ~r.late /\ (r.email = e => c.password = None)
         /\ r.op = "update_user" =>
              /\ Outdated(r, e, c).email = r.email /\ Outdated(r, e, c).change = r.change
              /\ ~Outdated(r, e, c).stale => ~r.stale /\ ~ChangesAuthority(c)
         /\ r.op \notin {"login", "update_user"} => Outdated(r, e, c) = r
<1>1. CASE r \in LoginRead
  <2>1. r.op = "login" /\ r.late \in BOOLEAN
    BY <1>1 DEF LoginRead
  <2>2. CASE r.email = e /\ c.password # None
    <3>1. Outdated(r, e, c) = [r EXCEPT !.late = TRUE]
      BY <2>1, <2>2 DEF Outdated
    <3>2. [r EXCEPT !.late = TRUE] \in LoginRead
      BY <1>1 DEF LoginRead
    <3>3. /\ [r EXCEPT !.late = TRUE].late /\ [r EXCEPT !.late = TRUE].email = r.email
          /\ [r EXCEPT !.late = TRUE].password = r.password
          /\ [r EXCEPT !.late = TRUE].op = r.op
      BY <1>1 DEF LoginRead
    <3>4. QED
      BY <2>1, <3>1, <3>2, <3>3 DEF Readable
  <2>3. CASE ~(r.email = e /\ c.password # None)
    <3>1. Outdated(r, e, c) = r
      BY <2>1, <2>3 DEF Outdated
    <3>2. QED
      BY <2>1, <2>3, <3>1
  <2>4. QED
    BY <2>2, <2>3
<1>2. CASE r \in UpdateRead
  <2>1. r.op = "update_user" /\ r.stale \in BOOLEAN
    BY <1>2 DEF UpdateRead
  <2>2. CASE ChangesAuthority(c)
    <3>1. Outdated(r, e, c) = [r EXCEPT !.stale = TRUE]
      BY <2>1, <2>2 DEF Outdated
    <3>2. [r EXCEPT !.stale = TRUE] \in UpdateRead
      BY <1>2 DEF UpdateRead
    <3>3. /\ [r EXCEPT !.stale = TRUE].stale /\ [r EXCEPT !.stale = TRUE].email = r.email
          /\ [r EXCEPT !.stale = TRUE].change = r.change
          /\ [r EXCEPT !.stale = TRUE].op = r.op
      BY <1>2 DEF UpdateRead
    <3>4. QED
      BY <2>1, <3>1, <3>2, <3>3 DEF Readable
  <2>3. CASE ~ChangesAuthority(c)
    <3>1. Outdated(r, e, c) = r
      BY <2>1, <2>3 DEF Outdated
    <3>2. QED
      BY <2>1, <2>3, <3>1
  <2>4. QED
    BY <2>2, <2>3
<1>3. CASE r \notin LoginRead \cup UpdateRead
  <2>1. r.op \notin {"login", "update_user"}
    BY <1>3 DEF Readable, BootstrapRead, UserRead, TokenRead, Admission
  <2>2. Outdated(r, e, c) = r
    BY <2>1 DEF Outdated
  <2>3. QED
    BY <2>1, <2>2
<1>4. QED
  BY <1>1, <1>2, <1>3

LEMMA UpdatedAccount ==
  ASSUME NEW user \in User, NEW c \in Change
  PROVE  /\ Updated(user, c) \in User
         /\ c.password = None => Updated(user, c).password = user.password
         /\ ~ChangesAuthority(c) =>
              Updated(user, c).role = user.role /\ Updated(user, c).active = user.active
         /\ ~Demoting(user, c) /\ user.active /\ user.role = "admin" =>
              Updated(user, c).active /\ Updated(user, c).role = "admin"
<1>1. c \in UserUpdate
  BY AccountsAssumption
<1>2. /\ c.role \in Role \cup {None} /\ c.active \in BOOLEAN \cup {None}
      /\ c.password \in Password \cup {None}
  BY <1>1 DEF UserUpdate
<1>3. /\ user.role \in Role /\ user.active \in BOOLEAN /\ user.password \in Password
      /\ user.current \in BOOLEAN
  BY DEF User
<1>4. /\ Or(c.role, user.role) \in Role /\ Or(c.active, user.active) \in BOOLEAN
      /\ Or(c.password, user.password) \in Password
  BY <1>2, <1>3 DEF Or
<1>5. /\ Updated(user, c).role = Or(c.role, user.role)
      /\ Updated(user, c).active = Or(c.active, user.active)
      /\ Updated(user, c).password = Or(c.password, user.password)
  BY DEF Updated
<1>6. Updated(user, c) \in User
  BY <1>4 DEF Updated, User
<1>7. /\ c.password = None => Updated(user, c).password = user.password
      /\ ~ChangesAuthority(c) =>
           Updated(user, c).role = user.role /\ Updated(user, c).active = user.active
  BY <1>5 DEF Or, ChangesAuthority
<1>8. ASSUME ~Demoting(user, c), user.active, user.role = "admin"
      PROVE  Updated(user, c).active /\ Updated(user, c).role = "admin"
  <2>1. c.role # "member" /\ c.active # FALSE
    BY <1>8 DEF Demoting
  <2>2. Or(c.role, user.role) = "admin"
    BY <1>2, <1>8, <2>1 DEF Or, Role
  <2>3. Or(c.active, user.active)
    BY <1>2, <1>8, <2>1 DEF Or
  <2>4. QED
    BY <1>5, <2>2, <2>3
<1>9. QED
  BY <1>6, <1>7, <1>8

(* Of the sessions of the account, those the statement saw are ended and   *)
(* the others are written down as late.                                    *)
LEMMA RevokedSessions ==
  ASSUME AccountsIInv, NEW e \in Email, NEW n \in Nat
  PROVE  /\ Revoked(e, n) \in Seq(SessionRow) /\ DOMAIN Revoked(e, n) = DOMAIN session
         /\ \A i \in DOMAIN session :
              /\ Revoked(e, n)[i].user = session[i].user
              /\ session[i].user = e => ~Revoked(e, n)[i].live \/ Revoked(e, n)[i].late
              /\ session[i].user # e => Revoked(e, n)[i] = session[i]
<1>1. DOMAIN Revoked(e, n) = DOMAIN session
  BY DEF Revoked
<1>2. ASSUME NEW i \in DOMAIN session
      PROVE  /\ Revoked(e, n)[i] \in SessionRow /\ Revoked(e, n)[i].user = session[i].user
             /\ session[i].user = e => ~Revoked(e, n)[i].live \/ Revoked(e, n)[i].late
             /\ session[i].user # e => Revoked(e, n)[i] = session[i]
  <2> DEFINE ended == [session[i] EXCEPT !.live = FALSE, !.late = FALSE]
             late == [session[i] EXCEPT !.late = TRUE]
  <2>1. session[i] \in SessionRow
    BY SessionRows
  <2>2. Revoked(e, n)[i] =
          IF session[i].user # e THEN session[i] ELSE IF i <= n THEN ended ELSE late
    BY DEF Revoked
  <2>3. ended \in SessionRow /\ ended.user = session[i].user /\ ~ended.live
    BY <2>1 DEF SessionRow
  <2>4. late \in SessionRow /\ late.user = session[i].user /\ late.late
    BY <2>1 DEF SessionRow
  <2> HIDE DEF ended, late
  <2>5. QED
    BY <2>1, <2>2, <2>3, <2>4
<1>3. Revoked(e, n) \in [1 .. Len(session) -> SessionRow]
  BY <1>2, SessionRows DEF Revoked
<1>4. Revoked(e, n) \in Seq(SessionRow)
  BY <1>3, SessionRows, SeqDef
<1>5. QED
  BY <1>1, <1>2, <1>4

(* A change that was decided on what is still so leaves an administrator;  *)
(* one that was not is written down as a race.  A new password ends every  *)
(* session its statement saw, and marks those committed since and the      *)
(* logins that verified the old one.                                       *)
LEMMA CommitUpdatePreserves ==
  ASSUME AccountsIInv, NEW q \in Request, CommitUpdate(q)
  PROVE  AccountsIInv'
<1> DEFINE e == request[q].email
           c == request[q].change
           n == request[q].snapshot
           updated == Updated(account[e], c)
<1>1. /\ Handling(q, "update_user") /\ n # None
      /\ account' = [account EXCEPT ![e] = updated]
      /\ session' = IF c.password = None THEN session ELSE Revoked(e, n)
      /\ raced' = (raced \/ (request[q].stale /\ ChangesAuthority(c)))
      /\ undone' = IF c.password = None THEN undone ELSE undone \ {e}
      /\ request' = [x \in Request |-> IF x = q THEN None ELSE Outdated(request[x], e, c)]
      /\ UNCHANGED <<token, served>>
  BY DEF CommitUpdate
<1>2. /\ request[q] \in UpdateRead /\ Exists(e)
      /\ ~request[q].stale /\ Demoting(account[e], c) => \E other \in ActiveAdmins : other # e
  BY <1>1, HandledRead DEF ReadStillHolds
<1>3. e \in Email /\ c \in Change /\ request[q].stale \in BOOLEAN /\ n \in Nat
  BY <1>1, <1>2 DEF UpdateRead
<1>4. account[e] \in User
  BY <1>2, <1>3 DEF AccountsIInv, AccountsTypeOK, Exists
<1>5. /\ updated \in User
      /\ c.password = None => updated.password = account[e].password
      /\ ~ChangesAuthority(c) =>
           updated.role = account[e].role /\ updated.active = account[e].active
      /\ ~Demoting(account[e], c) /\ account[e].active /\ account[e].role = "admin" =>
           updated.active /\ updated.role = "admin"
  BY <1>3, <1>4, UpdatedAccount
<1> HIDE DEF updated, e, c, n
<1>6. /\ account' \in [Email -> User \cup {None}] /\ account'[e] = updated /\ updated # None
      /\ \A x \in Email \ {e} : account'[x] = account[x]
  BY <1>1, <1>3, <1>5, AccountsAssumption DEF AccountsIInv, AccountsTypeOK
<1>7. \A x \in Email : Exists(x) => account'[x] # None
  BY <1>6 DEF Exists
<1>8. /\ session' \in Seq(SessionRow) /\ DOMAIN session' = DOMAIN session
      /\ \A i \in DOMAIN session :
           /\ session'[i].user = session[i].user
           /\ session'[i].user # e \/ c.password = None => session'[i] = session[i]
           /\ session'[i].user = e /\ c.password # None => ~session'[i].live \/ session'[i].late
  BY <1>1, <1>3, SessionRows, RevokedSessions
<1>9. ASSUME NEW x \in Request
      PROVE  request'[x] \in Readable /\ ReadStillHolds(x)'
  <2>1. CASE x = q \/ request[x] = None
    <3>1. request'[x] = None
      BY <1>1, <2>1 DEF Outdated
    <3>2. QED
      BY <3>1 DEF ReadStillHolds, Handling, Readable
  <2>2. CASE x # q /\ request[x] # None
    <3> DEFINE r == request[x]
               s == Outdated(r, e, c)
    <3>1. /\ request'[x] = s /\ r \in Readable /\ r # None /\ ReadStillHolds(x)
      BY <1>1, <2>2 DEF AccountsIInv
    <3>2. /\ s \in Readable /\ s.op = r.op
          /\ r.op = "login" =>
               /\ s.email = r.email /\ s.password = r.password
               /\ ~s.late => ~r.late /\ (r.email = e => c.password = None)
          /\ r.op = "update_user" =>
               /\ s.email = r.email /\ s.change = r.change
               /\ ~s.stale => ~r.stale /\ ~ChangesAuthority(c)
          /\ r.op \notin {"login", "update_user"} => s = r
      BY <1>3, <3>1, OutdatedRead
    <3> HIDE DEF s
    <3>3. ASSUME s.op = "login"
          PROVE  /\ account'[s.email] # None
                 /\ ~s.late /\ s.email \notin undone' => account'[s.email].password = s.password
      <4>1. r \in LoginRead /\ Exists(r.email) /\ r.email \in Email
            /\ (~r.late /\ r.email \notin undone => account[r.email].password = r.password)
        BY <3>1, <3>2, <3>3, HandledRead DEF Handling, ReadStillHolds, LoginRead
      <4>2. account'[s.email] # None
        BY <1>7, <3>2, <3>3, <4>1
      <4>3. ASSUME ~s.late, s.email \notin undone' PROVE account'[s.email].password = s.password
        <5>1. ~r.late /\ (r.email = e => c.password = None) /\ s.email = r.email
              /\ s.password = r.password
          BY <3>2, <3>3, <4>3
        <5>2. r.email \notin undone
          BY <1>1, <4>3, <5>1
        <5>3. account'[r.email].password = account[r.email].password
          BY <1>5, <1>6, <4>1, <5>1
        <5>4. QED
          BY <4>1, <5>1, <5>2, <5>3
      <4>4. QED
        BY <4>2, <4>3
    <3>4. ASSUME s.op = "update_user"
          PROVE  /\ account'[s.email] # None
                 /\ ~s.stale /\ Demoting(account'[s.email], s.change) =>
                       \E other \in ActiveAdmins' : other # s.email
      <4>1. r \in UpdateRead /\ Exists(r.email) /\ r.email \in Email
            /\ (~r.stale /\ Demoting(account[r.email], r.change) =>
                  \E other \in ActiveAdmins : other # r.email)
        BY <3>1, <3>2, <3>4, HandledRead DEF Handling, ReadStillHolds, UpdateRead
      <4>2. account'[s.email] # None
        BY <1>7, <3>2, <3>4, <4>1
      <4>3. ASSUME ~s.stale, Demoting(account'[s.email], s.change)
            PROVE  \E other \in ActiveAdmins' : other # s.email
        <5>1. ~r.stale /\ ~ChangesAuthority(c) /\ s.email = r.email /\ s.change = r.change
          BY <3>2, <3>4, <4>3
        <5>2. \A a \in Email : Exists(a) =>
                account'[a].role = account[a].role /\ account'[a].active = account[a].active
          BY <1>5, <1>6, <5>1
        <5>3. Demoting(account[r.email], r.change)
          BY <4>1, <4>3, <5>1, <5>2 DEF Demoting
        <5>4. PICK other \in ActiveAdmins : other # r.email
          BY <4>1, <5>1, <5>3
        <5>5. other \in ActiveAdmins'
          BY <1>7, <5>2 DEF ActiveAdmins, IsActive, Exists
        <5>6. QED
          BY <5>1, <5>4, <5>5
      <4>4. QED
        BY <4>2, <4>3
    <3>5. s.op = "create_user" => \E a \in Email : account'[a] # None
      BY <1>3, <1>6
    <3>6. s.op = "create_token" => account'[s.email] # None
      <4>1. ASSUME s.op = "create_token"
            PROVE  s = r /\ r \in TokenRead /\ Exists(r.email) /\ r.email \in Email
        BY <3>1, <3>2, <4>1, HandledRead DEF Handling, ReadStillHolds, TokenRead
      <4>2. QED
        BY <1>7, <4>1
    <3>7. s.op = "create_workspace" => account'[s.workspace[1]] # None
      <4>1. ASSUME s.op = "create_workspace"
            PROVE  s = r /\ Exists(r.workspace[1]) /\ r.workspace[1] \in Email
        BY <3>1, <3>2, <4>1, HandledRead DEF Handling, ReadStillHolds, Admission, Workspace
      <4>2. QED
        BY <1>7, <4>1
    <3>8. ReadStillHolds(x)'
      BY <3>1, <3>3, <3>4, <3>5, <3>6, <3>7 DEF ReadStillHolds, Handling, Exists, Somebody
    <3>9. QED
      BY <3>1, <3>2, <3>8
  <2>3. QED
    BY <2>1, <2>2
<1>10. AccountsTypeOK'
  <2>1. \A i \in DOMAIN session' : account'[session'[i].user] # None
    BY <1>7, <1>8, SessionRows
  <2>2. \A x \in Email, m \in TokenName : token'[<<x, m>>] # None => account'[x] # None
    BY <1>1, <1>7 DEF AccountsIInv, AccountsTypeOK, Exists
  <2>3. raced' \in BOOLEAN /\ undone' \subseteq Email
    BY <1>1 DEF AccountsIInv, AccountsTypeOK
  <2>4. QED
    BY <1>1, <1>6, <1>8, <2>1, <2>2, <2>3 DEF AccountsIInv, AccountsTypeOK, Exists
<1>11. SomebodyAdministers'
  <2>1. SUFFICES ASSUME ~raced' PROVE ActiveAdmins' # {}
    BY DEF SomebodyAdministers
  <2>2. ~raced /\ (ChangesAuthority(c) => ~request[q].stale)
    BY <1>1, <2>1
  <2>3. PICK someone \in ActiveAdmins : TRUE
    BY <1>2, <1>3, <2>2 DEF AccountsIInv, SomebodyAdministers
  <2>4. \A a \in ActiveAdmins \ {e} : a \in ActiveAdmins'
    BY <1>6, <1>7 DEF ActiveAdmins, IsActive, Exists
  <2>5. e \in ActiveAdmins =>
          e \in Email /\ account[e].active /\ account[e].role = "admin"
    BY DEF ActiveAdmins, IsActive
  <2>6. updated.active /\ updated.role = "admin" => e \in ActiveAdmins'
    BY <1>3, <1>6 DEF ActiveAdmins, IsActive, Exists
  <2>7. CASE ~ChangesAuthority(c)
    BY <1>5, <2>3, <2>4, <2>5, <2>6, <2>7
  <2>8. CASE ChangesAuthority(c) /\ Demoting(account[e], c)
    BY <1>2, <2>2, <2>4, <2>8
  <2>9. CASE ~Demoting(account[e], c)
    BY <1>5, <2>3, <2>4, <2>5, <2>6, <2>9
  <2>10. QED
    BY <2>7, <2>8, <2>9
<1>12. SessionsFollowThePassword'
  <2>1. SUFFICES ASSUME NEW i \in DOMAIN session', session'[i].live, ~session'[i].late,
                        session'[i].user \notin undone'
                 PROVE  account'[session'[i].user].password = session'[i].password
    BY DEF SessionsFollowThePassword
  <2>2. /\ session'[i].user = session[i].user /\ session[i].user \in Email
        /\ Exists(session[i].user) /\ i \in DOMAIN session
    BY <1>8, <2>1, SessionRows
  <2>3. /\ session[i].user # e \/ c.password = None
        /\ session'[i] = session[i]
    BY <1>8, <2>1, <2>2
  <2>4. session[i].user \notin undone
    BY <1>1, <2>1, <2>2, <2>3
  <2>5. account[session[i].user].password = session[i].password
    BY <2>1, <2>2, <2>3, <2>4 DEF AccountsIInv, SessionsFollowThePassword
  <2>6. account'[session[i].user].password = account[session[i].user].password
    BY <1>5, <1>6, <2>2, <2>3
  <2>7. QED
    BY <2>3, <2>5, <2>6
<1>13. request' \in [Request -> Readable]
  BY <1>1, <1>9
<1>14. QED
  BY <1>9, <1>10, <1>11, <1>12, <1>13 DEF AccountsIInv

-----------------------------------------------------------------------------
(* All of the accounts' steps.                                             *)

LEMMA AccountsStepPreserves ==
  ASSUME AccountsIInv, AccountsNext
  PROVE  AccountsIInv'
<1>1. CASE Upgrade
  BY <1>1, UpgradePreserves
<1>2. ASSUME NEW i \in DOMAIN session, EndSession(i) PROVE AccountsIInv'
  BY <1>2, EndSessionPreserves
<1>3. ASSUME NEW by \in Email, NEW n \in TokenName, RevokeToken(by, n) PROVE AccountsIInv'
  BY <1>3, RevokeTokenPreserves
<1>4. ASSUME NEW q \in Request,
             \/ Rollback(q) \/ CommitBootstrap(q) \/ CommitLogin(q)
             \/ CommitUser(q) \/ WriteUser(q) \/ CommitUpdate(q) \/ CommitToken(q)
      PROVE  AccountsIInv'
  BY <1>4, RollbackPreserves, CommitBootstrapPreserves, CommitLoginPreserves,
     CommitUserPreserves, WriteUserPreserves, CommitUpdatePreserves, CommitTokenPreserves
<1>5. ASSUME NEW q \in Request, NEW e \in FirstAdmin, NEW p \in Password, Bootstrap(q, e, p)
      PROVE  AccountsIInv'
  BY <1>5, BootstrapPreserves
<1>6. ASSUME NEW q \in Request, NEW e \in Email, NEW p \in Password, Login(q, e, p)
      PROVE  AccountsIInv'
  BY <1>6, LoginPreserves
<1>7. ASSUME NEW q \in Request, NEW by \in Email, NEW e \in Email, NEW p \in Password,
             NEW role \in Role, CreateUser(q, by, e, p, role)
      PROVE  AccountsIInv'
  BY <1>7, CreateUserPreserves
<1>8. ASSUME NEW q \in Request, NEW by \in Email, NEW e \in Email, NEW c \in Change,
             UpdateUser(q, by, e, c)
      PROVE  AccountsIInv'
  BY <1>8, UpdateUserPreserves
<1>9. ASSUME NEW q \in Request, NEW by \in Email, NEW n \in TokenName, NEW scope \in Scope,
             CreateToken(q, by, n, scope)
      PROVE  AccountsIInv'
  BY <1>9, CreateTokenPreserves
<1>10. QED
  BY <1>1, <1>2, <1>3, <1>4, <1>5, <1>6, <1>7, <1>8, <1>9 DEF AccountsNext

(* Accounts are switched off, but never go.                                *)
LEMMA AccountsNeverGo ==
  ASSUME AccountsIInv, AccountsNext, NEW e \in Email, Exists(e)
  PROVE  Exists(e)'
<1>1. account[e] \in User /\ account \in [Email -> User \cup {None}]
  BY DEF AccountsIInv, AccountsTypeOK, Exists
<1>2. CASE Upgrade
  <2>1. account'[e] = [account[e] EXCEPT !.current = FALSE]
    BY <1>2 DEF Upgrade
  <2>2. [account[e] EXCEPT !.current = FALSE] \in User
    BY <1>1 DEF User
  <2>3. QED
    BY <2>1, <2>2, AccountsAssumption DEF Exists
<1>3. ASSUME NEW q \in Request, CommitLogin(q) PROVE Exists(e)'
  <2> DEFINE rehashed(u) == [u EXCEPT !.password = request[q].password, !.current = TRUE]
  <2>1. request[q].password \in Password
    BY <1>3, HandledRead DEF CommitLogin, LoginRead
  <2>2. rehashed(account[e]) \in User
    BY <1>1, <2>1 DEF User
  <2>3. account'[e] = account[e] \/ account'[e] = rehashed(account[e])
    BY <1>1, <1>3 DEF CommitLogin
  <2>4. QED
    BY <1>1, <2>2, <2>3, AccountsAssumption DEF Exists
<1>4. ASSUME NEW q \in Request, CommitUpdate(q) PROVE Exists(e)'
  <2>1. request[q].change \in Change
    BY <1>4, HandledRead DEF CommitUpdate, UpdateRead
  <2>2. Updated(account[e], request[q].change) \in User
    BY <1>1, <2>1, UpdatedAccount
  <2>3. account'[e] = account[e] \/ account'[e] = Updated(account[e], request[q].change)
    BY <1>1, <1>4 DEF CommitUpdate
  <2>4. QED
    BY <1>1, <2>2, <2>3, AccountsAssumption DEF Exists
<1>5. ASSUME NEW q \in Request, CommitBootstrap(q) \/ CommitUser(q) PROVE Exists(e)'
  <2>1. account'[e] = account[e]
    BY <1>1, <1>5 DEF CommitBootstrap, CommitUser, Exists
  <2>2. QED
    BY <2>1 DEF Exists
<1>6. CASE UNCHANGED account
  BY <1>6 DEF Exists
<1>7. QED
  BY <1>2, <1>3, <1>4, <1>5, <1>6
     DEF AccountsNext, EndSession, RevokeToken, Rollback, Bootstrap, Login, CreateUser,
         UpdateUser, WriteUser, CreateToken, CommitToken

-----------------------------------------------------------------------------
(* Workspaces on top of them.                                              *)

TypesIInv == TypeOK /\ AccountsIInv /\ AttemptsRemain

LEMMA TypesInit == Init => TypesIInv
<1> SUFFICES ASSUME Init PROVE TypesIInv
  OBVIOUS
<1>1. /\ account = [e \in Email |-> None] /\ session = << >>
      /\ token = [t \in Email \X TokenName |-> None] /\ request = [q \in Request |-> None]
      /\ served = 0 /\ raced = FALSE /\ undone = {}
  BY DEF Init, AccountsInit
<1>2. session \in Seq(SessionRow) /\ DOMAIN session = {}
  BY <1>1, EmptySeq
<1>3. 0 \in 0 .. MaxRequests
  BY AccountsAssumption
<1>4. AccountsTypeOK
  BY <1>1, <1>2, <1>3 DEF AccountsTypeOK
<1>5. request \in [Request -> Readable] /\ \A q \in Request : ReadStillHolds(q)
  BY <1>1 DEF Readable, ReadStillHolds, Handling
<1>6. SomebodyAdministers /\ SessionsFollowThePassword
  BY <1>1, <1>2 DEF SomebodyAdministers, SessionsFollowThePassword, Exists
<1>7. TypeOK /\ AttemptsRemain
  BY <1>4, WorkspacesAssumption DEF Init, TypeOK, AttemptsRemain
<1>8. QED
  BY <1>4, <1>5, <1>6, <1>7 DEF TypesIInv, AccountsIInv

LEMMA RowsStay ==
  ASSUME TypesIInv, AccountsIInv', UNCHANGED <<workspace, operation, runs, share, marker>>,
         beneath' \subseteq Directory, adrift' \subseteq Directory,
         \A e \in Email : Exists(e) => Exists(e)'
  PROVE  TypesIInv'
<1>1. \A w \in Workspace : w[1] \in Email
  BY DEF Workspace
<1>2. \A w \in Workspace : workspace'[w] # None => Exists(w[1])'
  BY <1>1 DEF TypesIInv, TypeOK
<1>3. AccountsTypeOK'
  BY DEF AccountsIInv
<1>4. TypeOK' /\ AttemptsRemain'
  BY <1>2, <1>3 DEF TypesIInv, TypeOK, AttemptsRemain
<1>5. QED
  BY <1>4 DEF TypesIInv

LEMMA DirectoriesStay ==
  ASSUME TypesIInv, UNCHANGED diskVars
  PROVE  beneath' \subseteq Directory /\ adrift' \subseteq Directory
BY DEF TypesIInv, TypeOK, diskVars

LEMMA DirectoriesAreMade ==
  ASSUME TypesIInv, NEW root \in Directory \cup {Managed}, NEW found, MakeMissing(root, found)
  PROVE  beneath' \subseteq Directory /\ adrift' \subseteq Directory
<1>1. ~IsDirectory(root) => Path(root) \subseteq Directory
  BY DEF IsDirectory, Path
<1>2. QED
  BY <1>1 DEF MakeMissing, TypesIInv, TypeOK

LEMMA RequestsOfWorkspacesPreserve ==
  ASSUME TypesIInv, NEW q \in Request,
         \/ Preflight(q) \/ LockAdmission(q)
         \/ \E by \in Email, w \in Workspace, root \in Directory \cup {Managed} :
               CreateWorkspace(q, by, w, root)
  PROVE  TypesIInv'
<1>1. CASE LockAdmission(q)
  <2> DEFINE r == [request[q] EXCEPT !.stage = "admitted"]
  <2>1. /\ Handling(q, "create_workspace") /\ request' = [request EXCEPT ![q] = r]
        /\ UNCHANGED <<account, session, token, served, raced, undone, workspaceVars>>
    BY <1>1 DEF LockAdmission
  <2>2. request[q] \in Admission /\ Exists(request[q].workspace[1])
    BY <2>1, HandledRead DEF TypesIInv, ReadStillHolds
  <2>3. r \in Admission /\ r.workspace = request[q].workspace /\ r.op = "create_workspace"
    BY <2>2 DEF Admission
  <2>4. r \in Readable
    BY <2>3 DEF Readable
  <2> HIDE DEF r
  <2>5. request'[q] = r
    BY <2>1 DEF TypesIInv, AccountsIInv
  <2>6. ReadStillHolds(q)'
    BY <2>1, <2>2, <2>3, <2>5 DEF ReadStillHolds, Handling, Exists
  <2>7. AccountsIInv'
    BY <2>1, <2>4, <2>6, RequestMoves DEF TypesIInv, AccountsIInv, AccountsTypeOK
  <2>8. QED
    BY <2>1, <2>7, RowsStay, DirectoriesStay DEF Exists, workspaceVars, diskVars
<1>2. ASSUME NEW by \in Email, NEW w \in Workspace, NEW root \in Directory \cup {Managed},
             CreateWorkspace(q, by, w, root)
      PROVE  TypesIInv'
  <2> DEFINE r == [op |-> "create_workspace", workspace |-> w, root |-> root,
                   stage |-> "resolved", found |-> Found(root)]
  <2>1. /\ Admit(q, r) /\ Exists(w[1])
        /\ UNCHANGED <<account, session, token, raced, undone, workspaceVars>>
    BY <1>2 DEF CreateWorkspace, MayOwn, Authenticated, IsActive
  <2>2. r \in Readable /\ r.op = "create_workspace" /\ r.workspace = w
    BY DEF Readable, Admission, Found, TypesIInv, TypeOK
  <2> HIDE DEF r
  <2>3. request' = [request EXCEPT ![q] = r] /\ request'[q] = r /\ served' \in 0 .. MaxRequests
    BY <2>1, AdmittedRead DEF TypesIInv
  <2>4. ReadStillHolds(q)'
    BY <2>1, <2>2, <2>3 DEF ReadStillHolds, Handling, Exists
  <2>5. AccountsIInv'
    BY <2>1, <2>2, <2>3, <2>4, RequestMoves DEF TypesIInv
  <2>6. QED
    BY <2>1, <2>5, RowsStay, DirectoriesStay DEF Exists, workspaceVars, diskVars
<1>3. CASE Preflight(q)
  <2> DEFINE r == [request[q] EXCEPT !.stage = "probed", !.found = FALSE]
  <2>1. /\ Handling(q, "create_workspace") /\ request' = [request EXCEPT ![q] = r]
        /\ MakeMissing(request[q].root, request[q].found)
        /\ UNCHANGED <<account, session, token, served, raced, undone>>
        /\ UNCHANGED <<workspace, operation, runs, share, marker>>
    BY <1>3 DEF Preflight
  <2>2. request[q] \in Admission /\ Exists(request[q].workspace[1])
    BY <2>1, HandledRead DEF TypesIInv, ReadStillHolds
  <2>3. r \in Admission /\ r.workspace = request[q].workspace /\ r.op = "create_workspace"
    BY <2>2 DEF Admission
  <2>4. r \in Readable
    BY <2>3 DEF Readable
  <2> HIDE DEF r
  <2>5. request'[q] = r
    BY <2>1 DEF TypesIInv, AccountsIInv
  <2>6. ReadStillHolds(q)'
    BY <2>1, <2>2, <2>3, <2>5 DEF ReadStillHolds, Handling, Exists
  <2>7. AccountsIInv'
    BY <2>1, <2>4, <2>6, RequestMoves DEF TypesIInv, AccountsIInv, AccountsTypeOK
  <2>8. request[q].root \in Directory \cup {Managed}
    BY <2>2 DEF Admission
  <2>9. QED
    BY <2>1, <2>7, <2>8, RowsStay, DirectoriesAreMade DEF Exists
<1>4. QED
  BY <1>1, <1>2, <1>3

(* The owner still exists when the row is inserted.                        *)
LEMMA CommitWorkspaceTypes ==
  ASSUME TypesIInv, NEW q \in Request, CommitWorkspace(q)
  PROVE  TypesIInv'
<1> DEFINE w == request[q].workspace
           row == [root |-> request[q].root, state |-> "provisioning"]
           queued == [state |-> "queued", attempt |-> 0]
<1>1. /\ Handling(q, "create_workspace") /\ Answer(q)
      /\ workspace' = [workspace EXCEPT ![w] = row]
      /\ operation' = [operation EXCEPT ![w] = queued]
      /\ UNCHANGED <<account, session, token, served, raced, undone, runs, share, diskVars>>
  BY DEF CommitWorkspace
<1>2. request[q] \in Admission /\ Exists(w[1])
  BY <1>1, HandledRead DEF TypesIInv, ReadStillHolds
<1>3. w \in Workspace /\ row \in WorkspaceRow
  BY <1>2 DEF Admission, WorkspaceRow
<1>4. queued \in Operation /\ queued.attempt < MaxAttempts
  BY WorkspacesAssumption DEF Operation
<1> HIDE DEF w, row, queued
<1>5. AccountsIInv'
  BY <1>1, EndedHoldsNothing, SameAccounts, SameSessions, AccountsStep
     DEF TypesIInv, AccountsIInv, AccountsTypeOK
<1>6. /\ workspace' \in [Workspace -> WorkspaceRow \cup {None}] /\ workspace'[w] = row
      /\ operation' \in [Workspace -> Operation \cup {None}] /\ operation'[w] = queued
      /\ \A v \in Workspace \ {w} :
           workspace'[v] = workspace[v] /\ operation'[v] = operation[v]
  BY <1>1, <1>3, <1>4 DEF TypesIInv, TypeOK
<1>7. row # None /\ queued # None
  BY <1>3, <1>4, WorkspacesAssumption
<1>8. \A v \in Workspace : /\ workspace'[v] # None => Exists(v[1])'
                           /\ workspace'[v] = None <=> operation'[v] = None
  BY <1>1, <1>2, <1>6, <1>7 DEF TypesIInv, TypeOK, Exists
<1>9. AttemptsRemain'
  BY <1>4, <1>6 DEF TypesIInv, AttemptsRemain
<1>10. TypeOK'
  BY <1>1, <1>5, <1>6, <1>8 DEF TypesIInv, TypeOK, AccountsIInv, diskVars
<1>11. QED
  BY <1>5, <1>9, <1>10 DEF TypesIInv

(* Steps of provisioning: rows keep existing, operations keep their types. *)
LEMMA ProvisioningTypes ==
  ASSUME TypesIInv, UNCHANGED accountVars, share' \in BOOLEAN,
         workspace' \in [Workspace -> WorkspaceRow \cup {None}],
         operation' \in [Workspace -> Operation \cup {None}],
         marker' \in [Workspace -> SUBSET BOOLEAN],
         runs' \subseteq Run, beneath' \subseteq Directory, adrift' \subseteq Directory,
         \A w \in Workspace : /\ workspace'[w] = None <=> workspace[w] = None
                              /\ operation'[w] = None <=> operation[w] = None,
         AttemptsRemain'
  PROVE  TypesIInv'
<1>1. AccountsIInv'
  BY DEF TypesIInv, accountVars, AccountsIInv, AccountsTypeOK, ReadStillHolds, Handling,
     Exists, IsActive, ActiveAdmins, Somebody, SomebodyAdministers, SessionsFollowThePassword,
     Demoting
<1>2. \A w \in Workspace : workspace'[w] # None => Exists(w[1])'
  BY DEF TypesIInv, TypeOK, accountVars, Exists
<1>3. QED
  BY <1>1, <1>2 DEF TypesIInv, TypeOK, AccountsIInv

LEMMA RetriedOperation ==
  ASSUME TypesIInv, NEW r \in runs, Holds(r)
  PROVE  /\ Retried(r.workspace) \in [Workspace -> Operation \cup {None}]
         /\ \A w \in Workspace :
              /\ Retried(r.workspace)[w] = None <=> operation[w] = None
              /\ Retried(r.workspace)[w] # None /\ Retried(r.workspace)[w].state = "queued" =>
                    Retried(r.workspace)[w].attempt < MaxAttempts
<1> DEFINE w == r.workspace
           state == IF operation[w].attempt < MaxAttempts THEN "queued" ELSE "dead"
           again == [operation[w] EXCEPT !.state = state]
<1>1. r \in [workspace : Workspace, attempt : 1 .. MaxAttempts, found : BOOLEAN,
             phase : {"claimed", "seen", "probed", "found", "planted"}]
  BY DEF TypesIInv, TypeOK, Run
<1>2. w \in Workspace /\ operation[w] \in Operation
  <2>1. r.attempt \in 0 .. MaxAttempts /\ w \in Workspace
    BY <1>1, WorkspacesAssumption
  <2>2. QED
    BY <2>1 DEF Holds, Operation
<1>3. Retried(w) = [operation EXCEPT ![w] = again]
  BY DEF Retried
<1>4. again \in Operation /\ again.state = state /\ again.attempt = operation[w].attempt
  BY <1>2 DEF Operation
<1>5. state = "queued" => operation[w].attempt < MaxAttempts
  OBVIOUS
<1> HIDE DEF again, state, w
<1>6. /\ Retried(w) \in [Workspace -> Operation \cup {None}] /\ Retried(w)[w] = again
      /\ \A v \in Workspace \ {w} : Retried(w)[v] = operation[v]
  BY <1>2, <1>3, <1>4 DEF TypesIInv, TypeOK
<1>7. again # None /\ operation[w] # None
  BY <1>2, <1>4, WorkspacesAssumption
<1>8. ASSUME NEW v \in Workspace
      PROVE  /\ Retried(w)[v] = None <=> operation[v] = None
             /\ Retried(w)[v] # None /\ Retried(w)[v].state = "queued" =>
                   Retried(w)[v].attempt < MaxAttempts
  <2>1. CASE v = w
    BY <1>4, <1>5, <1>6, <1>7, <2>1
  <2>2. CASE v # w
    BY <1>6, <2>2 DEF TypesIInv, AttemptsRemain
  <2>3. QED
    BY <2>1, <2>2
<1>9. QED
  BY <1>6, <1>8 DEF w

LEMMA ClaimTypes ==
  ASSUME TypesIInv, NEW w \in Workspace, Claim(w)
  PROVE  TypesIInv'
<1> DEFINE leased == [state |-> "leased", attempt |-> operation[w].attempt + 1]
           started == [workspace |-> w, attempt |-> operation'[w].attempt,
                       found |-> FALSE, phase |-> "claimed"]
<1>1. /\ operation[w] # None /\ operation[w].state = "queued"
      /\ operation' = [operation EXCEPT ![w] = leased] /\ runs' = runs \cup {started}
      /\ UNCHANGED <<accountVars, workspace, share, diskVars>>
  BY DEF Claim
<1>2. operation[w].attempt \in 0 .. MaxAttempts /\ operation[w].attempt < MaxAttempts
  BY <1>1 DEF TypesIInv, TypeOK, AttemptsRemain, Operation
<1>3. leased.attempt \in 1 .. MaxAttempts /\ leased \in Operation /\ leased.state = "leased"
  BY <1>2, WorkspacesAssumption DEF Operation
<1> HIDE DEF leased
<1>4. /\ operation' \in [Workspace -> Operation \cup {None}] /\ operation'[w] = leased
      /\ \A v \in Workspace \ {w} : operation'[v] = operation[v]
  BY <1>1, <1>3 DEF TypesIInv, TypeOK
<1>5. leased # None
  BY <1>3, WorkspacesAssumption
<1>6. started \in Run
  BY <1>3, <1>4 DEF Run
<1>7. AttemptsRemain'
  BY <1>3, <1>4 DEF TypesIInv, AttemptsRemain
<1>8. QED
  BY <1>1, <1>4, <1>5, <1>6, <1>7, DirectoriesStay, ProvisioningTypes
     DEF TypesIInv, TypeOK, diskVars

(* A test, a probe and a planting only move the execution they belong to.  *)
LEMMA MaterializingTypes ==
  ASSUME IInv, TypesIInv, NEW r \in runs, SeeRoot(r) \/ ProbeRoot(r) \/ FindRoot(r) \/ Plant(r)
  PROVE  TypesIInv'
<1>1. /\ UNCHANGED <<accountVars, workspace, operation, share>>
      /\ marker' = marker \/ marker' = Marked(r.workspace)
      /\ diskVars' = diskVars \/ \E found : MakeMissing(Root(r), found)
  BY DEF SeeRoot, ProbeRoot, FindRoot, Plant, diskVars
<1>2. PICK phase \in {"seen", "probed", "found", "planted"}, found \in BOOLEAN :
        runs' = (runs \ {r}) \cup {[r EXCEPT !.phase = phase, !.found = found]}
  BY DEF SeeRoot, ProbeRoot, FindRoot, Plant, GoesOn, Found, TypesIInv, TypeOK
<1>3. /\ r \in [workspace : Workspace, attempt : 1 .. MaxAttempts, found : BOOLEAN,
                phase : {"claimed", "seen", "probed", "found", "planted"}]
      /\ runs \subseteq Run
  BY DEF TypesIInv, TypeOK, Run
<1>4. [r EXCEPT !.phase = phase, !.found = found] \in Run
  BY <1>3 DEF Run
<1>5. marker' \in [Workspace -> SUBSET BOOLEAN]
  <2>1. OnItsStorage(r.workspace) \in BOOLEAN
    BY DEF OnItsStorage, TypesIInv, TypeOK
  <2>2. QED
    BY <1>1, <1>3, <2>1 DEF Marked, TypesIInv, TypeOK
<1>6. beneath' \subseteq Directory /\ adrift' \subseteq Directory
  <2>1. Root(r) \in Directory \cup {Managed}
    BY <1>3 DEF IInv, RowsOK, Root, WorkspaceRow
  <2>2. QED
    BY <1>1, <2>1, DirectoriesStay, DirectoriesAreMade
<1>7. AttemptsRemain'
  BY <1>1 DEF TypesIInv, AttemptsRemain
<1>8. QED
  BY <1>1, <1>2, <1>3, <1>4, <1>5, <1>6, <1>7, ProvisioningTypes DEF TypesIInv, TypeOK

LEMMA CommitProvisionTypes ==
  ASSUME TypesIInv, NEW r \in runs, CommitProvision(r)
  PROVE  TypesIInv'
<1> DEFINE w == r.workspace
           active == [workspace[w] EXCEPT !.state = "active"]
           succeeded == [operation[w] EXCEPT !.state = "succeeded"]
<1>1. /\ Holds(r) /\ runs' = runs \ {r}
      /\ workspace' = [workspace EXCEPT ![w] = active]
      /\ operation' = [operation EXCEPT ![w] = succeeded]
      /\ UNCHANGED <<accountVars, share, diskVars>>
  BY DEF CommitProvision, Activated
<1>2. r \in [workspace : Workspace, attempt : 1 .. MaxAttempts, found : BOOLEAN,
             phase : {"claimed", "seen", "probed", "found", "planted"}]
  BY DEF TypesIInv, TypeOK, Run
<1>3. w \in Workspace /\ operation[w] \in Operation
  <2>1. r.attempt \in 0 .. MaxAttempts /\ w \in Workspace
    BY <1>2, WorkspacesAssumption
  <2>2. QED
    BY <1>1, <2>1 DEF Holds, Operation
<1>4. operation[w] # None /\ workspace[w] # None /\ workspace[w] \in WorkspaceRow
  BY <1>3, WorkspacesAssumption DEF TypesIInv, TypeOK
<1>5. active \in WorkspaceRow /\ succeeded \in Operation /\ succeeded.state = "succeeded"
  BY <1>3, <1>4 DEF WorkspaceRow, Operation
<1>6. active # None /\ succeeded # None
  BY <1>5, WorkspacesAssumption
<1> HIDE DEF w, active, succeeded
<1>7. /\ workspace' \in [Workspace -> WorkspaceRow \cup {None}] /\ workspace'[w] = active
      /\ operation' \in [Workspace -> Operation \cup {None}] /\ operation'[w] = succeeded
      /\ \A v \in Workspace \ {w} :
           workspace'[v] = workspace[v] /\ operation'[v] = operation[v]
  BY <1>1, <1>3, <1>5 DEF TypesIInv, TypeOK
<1>8. AttemptsRemain'
  BY <1>5, <1>7 DEF TypesIInv, AttemptsRemain
<1>9. \A v \in Workspace : /\ workspace'[v] = None <=> workspace[v] = None
                           /\ operation'[v] = None <=> operation[v] = None
  BY <1>4, <1>6, <1>7
<1>10. QED
  BY <1>1, <1>7, <1>8, <1>9, DirectoriesStay, ProvisioningTypes
     DEF TypesIInv, TypeOK, diskVars

LEMMA FailureTypes ==
  ASSUME TypesIInv, NEW r \in runs, ProvisionFails(r) \/ LeaseLost(r)
  PROVE  TypesIInv'
<1>1. UNCHANGED <<accountVars, workspace, share, diskVars>> /\ runs' \subseteq runs
  BY DEF ProvisionFails, LeaseLost
<1>2. operation' = operation \/ (Holds(r) /\ operation' = Retried(r.workspace))
  BY DEF ProvisionFails, LeaseLost
<1>3. /\ operation' \in [Workspace -> Operation \cup {None}] /\ AttemptsRemain'
      /\ \A w \in Workspace : operation'[w] = None <=> operation[w] = None
  BY <1>2, RetriedOperation DEF TypesIInv, TypeOK, AttemptsRemain
<1>4. QED
  BY <1>1, <1>3, DirectoriesStay, ProvisioningTypes DEF TypesIInv, TypeOK, diskVars

LEMMA TypesStep == IInv /\ TypesIInv /\ [Next]_vars => TypesIInv'
<1> SUFFICES ASSUME IInv, TypesIInv, [Next]_vars PROVE TypesIInv'
  OBVIOUS
<1>1. CASE AccountsNext /\ UNCHANGED workspaceVars
  BY <1>1, AccountsStepPreserves, AccountsNeverGo, RowsStay, DirectoriesStay
     DEF TypesIInv, workspaceVars, diskVars
<1>2. ASSUME NEW q \in Request,
             \/ Preflight(q) \/ LockAdmission(q)
             \/ \E by \in Email, w \in Workspace, root \in Directory \cup {Managed} :
                   CreateWorkspace(q, by, w, root)
      PROVE  TypesIInv'
  BY <1>2, RequestsOfWorkspacesPreserve
<1>3. ASSUME NEW q \in Request, CommitWorkspace(q) PROVE TypesIInv'
  BY <1>3, CommitWorkspaceTypes
<1>4. ASSUME NEW w \in Workspace, Claim(w) PROVE TypesIInv'
  BY <1>4, ClaimTypes
<1>5. ASSUME NEW r \in runs,
             \/ SeeRoot(r) \/ ProbeRoot(r) \/ FindRoot(r) \/ Plant(r)
             \/ CommitProvision(r) \/ ProvisionFails(r) \/ LeaseLost(r)
      PROVE  TypesIInv'
  BY <1>5, MaterializingTypes, CommitProvisionTypes, FailureTypes
<1>6. CASE ShareChanges \/ UNCHANGED vars
  <2>1. UNCHANGED <<accountVars, workspace, operation, runs, diskVars>> /\ share' \in BOOLEAN
    BY <1>6 DEF ShareChanges, vars, workspaceVars, TypesIInv, TypeOK
  <2>2. AttemptsRemain'
    BY <2>1 DEF TypesIInv, AttemptsRemain
  <2>3. QED
    BY <2>1, <2>2, DirectoriesStay, ProvisioningTypes DEF TypesIInv, TypeOK, diskVars
<1>7. QED
  BY <1>1, <1>2, <1>3, <1>4, <1>5, <1>6 DEF Next

(* The invariant of the types, the accounts and the attempts holds in every*)
(* reachable state.                                                        *)
THEOREM TypesInvariance == Spec => []TypesIInv
<1>1. QED
  BY Invariance, TypesInit, TypesStep, PTL DEF Spec

(* Every row is one its table admits; no account is ever gone from under a *)
(* session, a token or a workspace; no attempt is made beyond the last.    *)
THEOREM TypeCorrect == Spec => []TypeOK
<1>1. TypesIInv => TypeOK
  BY DEF TypesIInv
<1>2. QED
  BY <1>1, TypesInvariance, PTL

(* No number of administrators and of concurrent changes of authority locks*)
(* everyone out, as long as none was decided on accounts another one has   *)
(* altered since (users.py, update_user).                                  *)
THEOREM SomebodyAlwaysAdministers == Spec => []SomebodyAdministers
<1>1. TypesIInv => SomebodyAdministers
  BY DEF TypesIInv, AccountsIInv
<1>2. QED
  BY <1>1, TypesInvariance, PTL

(* A new password ends what the old one opened, but for a login that read  *)
(* the old hash and whose session the revoking statement did not see, or   *)
(* whose rehash put the old password back (identity.py, update_user).      *)
THEOREM PasswordsEndSessions == Spec => []SessionsFollowThePassword
<1>1. TypesIInv => SessionsFollowThePassword
  BY DEF TypesIInv, AccountsIInv
<1>2. QED
  BY <1>1, TypesInvariance, PTL
=============================================================================
