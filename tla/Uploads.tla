-------------------------------- MODULE Uploads --------------------------------
(***************************************************************************)
(* Resumable uploads to one destination path: uploads.py and its endpoints,*)
(* with the janitor's treatment of upload sessions.                        *)
(*                                                                         *)
(* A session row promises an offset; a staging file backs the promise; the *)
(* request that completes the upload turns the staged bytes into the file  *)
(* at the destination.  Rows change when a request commits.  Files change  *)
(* at once, and stay changed if the request dies.  A power cut also takes  *)
(* the bytes that were written and not synced.                             *)
(*                                                                         *)
(* Bytes are abstracted to positions: a client has the chunks 1 .. Length, *)
(* and a staging file is the sequence of chunks that were appended to it.  *)
(***************************************************************************)
EXTENDS Naturals, Sequences, FiniteSets

CONSTANTS
    Session,     \* ids of upload sessions
    Request,     \* requests the core serves at the same time
    Length,      \* chunks in every upload
    Original,    \* what the destination held before any upload
    Edited,      \* what somebody else put there instead
    Nobody,      \* in the content of a path that holds nothing
    NoSession

ASSUME LengthAssumption == Length \in Nat \ {0}
ASSUME OriginAssumption == {Original, Edited, Nobody, NoSession} \cap Session = {}

VARIABLES
    session,     \* the upload_session rows, as committed
    staging,     \* the staging file of each session
    synced,      \* how much of it a power cut cannot take
    request,     \* where each request is, and what its transaction knows
    disk,        \* the content at the destination path
    file,        \* content of the current version of the file row there
    versions,    \* contents that have a file_version row
    blobs,       \* contents kept in the blob store
    overdue,     \* sessions past expires_at
    janitor      \* what a sweep has expired and not yet committed

vars == <<session, staging, synced, request, disk, file, versions, blobs, overdue, janitor>>
rows == <<session, file, versions>>
files == <<staging, synced, disk, blobs>>

TerminalStates == {"completed", "cancelled", "expired", "failed"}

Whole == [i \in 1 .. Length |-> i]
Content(owner, bytes) == [owner |-> owner, bytes |-> bytes]
Nothing == Content(Nobody, <<>>)

(* "rolled_back": the transaction of the creating request never committed, *)
(* so there is no row, but the id is used up and may own a staging file.   *)
Row == [state : {"absent", "open", "rolled_back"} \cup TerminalStates,
        offset : 0 .. Length,
        if_exists : {"reject", "new_version"}]

Idle == [pc |-> "idle", session |-> NoSession, creating |-> FALSE,
         sent |-> 0, size |-> 0, if_exists |-> "reject"]

InFlight(s) == \E r \in Request : request[r].session = s
Appending == {"receiving", "stored", "publishing", "kept", "renamed"}

(* A row lock: held by the request appending to the session, and by a sweep*)
(* whose UPDATE has expired it.                                            *)
Locked(s) ==
    \/ \E r \in Request : request[r].session = s /\ request[r].pc \in Appending
    \/ janitor.sweeping /\ s \in janitor.expired

Asleep == [sweeping |-> FALSE, expired |-> {}]

(* The destination may be free, hold a registered file, or hold what a     *)
(* scan has not seen: a file nobody registered, an edit, a deletion.       *)
Init ==
    /\ session = [s \in Session |-> [state |-> "absent", offset |-> 0, if_exists |-> "reject"]]
    /\ staging = [s \in Session |-> <<>>]
    /\ synced = [s \in Session |-> 0]
    /\ request = [r \in Request |-> Idle]
    /\ disk \in {Nothing, Content(Original, <<>>), Content(Edited, <<>>)}
    /\ file \in {Nothing, Content(Original, <<>>)}
    /\ versions = IF file = Nothing THEN {} ELSE {file}
    /\ blobs = {}
    /\ overdue = {}
    /\ janitor = Asleep

Goto(r, phase) == request' = [request EXCEPT ![r].pc = phase]
Leave(r) == request' = [request EXCEPT ![r] = Idle]

-----------------------------------------------------------------------------
(* Appending.                                                              *)

(* create_upload: the session row is inserted in the request's transaction,*)
(* so it is nobody else's business until that commits.                     *)
Create(r, s) ==
    /\ request[r] = Idle
    /\ session[s].state = "absent" /\ ~InFlight(s)
    /\ \E mode \in {"reject", "new_version"} :
        /\ mode = "reject" => file = Nothing
        /\ request' = [request EXCEPT ![r] =
             [Idle EXCEPT !.pc = "receiving", !.session = s,
                          !.creating = TRUE, !.if_exists = mode]]
    /\ UNCHANGED <<rows, files, overdue, janitor>>

(* Fault: what is past the offset stays.                                   *)
ResumeUnaligned(r, s) ==
    /\ request[r] = Idle
    /\ session[s].state = "open" /\ ~Locked(s)
    /\ request' = [request EXCEPT ![r] =
         [Idle EXCEPT !.pc = "receiving", !.session = s, !.sent = session[s].offset,
                      !.if_exists = session[s].if_exists]]
    /\ UNCHANGED <<rows, files, overdue, janitor>>

(* append_to_upload up to the body: lock the row, compare the offset, make *)
(* staging match it.  Staging that falls short of it ends the session.     *)
Resume(r, s) ==
    LET offset == session[s].offset IN
    /\ request[r] = Idle
    /\ session[s].state = "open" /\ ~Locked(s)
    /\ IF Len(staging[s]) < offset
       THEN /\ session' = [session EXCEPT ![s].state = "failed"]
            /\ UNCHANGED <<request, staging, synced>>
       ELSE /\ staging' = [staging EXCEPT ![s] = SubSeq(@, 1, offset)]
            /\ synced' = [synced EXCEPT ![s] = IF Len(staging[s]) > offset THEN offset ELSE @]
            /\ request' = [request EXCEPT ![r] =
                 [Idle EXCEPT !.pc = "receiving", !.session = s, !.sent = offset,
                              !.if_exists = session[s].if_exists]]
            /\ UNCHANGED session
    /\ UNCHANGED <<file, versions, disk, blobs, overdue, janitor>>

(* _receive: the next chunk the client sends goes to the end of the file.  *)
Receive(r) ==
    LET s == request[r].session IN
    /\ request[r].pc = "receiving"
    /\ request[r].sent < Length
    /\ staging' = [staging EXCEPT ![s] = Append(@, request[r].sent + 1)]
    /\ request' = [request EXCEPT ![r].sent = @ + 1]
    /\ UNCHANGED <<rows, synced, disk, blobs, overdue, janitor>>

(* Fault: the body is not synced before its size is believed.              *)
StoreUnsynced(r) ==
    /\ request[r].pc = "receiving"
    /\ request' = [request EXCEPT ![r].pc = "stored",
                                  ![r].size = Len(staging[request[r].session])]
    /\ UNCHANGED <<rows, files, overdue, janitor>>

(* commit_appended and advance: sync, believe the size the file has now,   *)
(* and update the row (the lock makes the guard on the old offset true).   *)
Store(r) ==
    LET s == request[r].session IN
    /\ request[r].pc = "receiving"
    /\ synced' = [synced EXCEPT ![s] = Len(staging[s])]
    /\ request' = [request EXCEPT ![r].pc = "stored", ![r].size = Len(staging[s])]
    /\ UNCHANGED <<rows, staging, disk, blobs, overdue, janitor>>

(* What the request's transaction makes of its session row.                *)
Saved(r, state) ==
    session' = [session EXCEPT ![request[r].session] =
        [state |-> state, offset |-> request[r].size, if_exists |-> request[r].if_exists]]

(* The body was not the last one: commit and acknowledge the offset.       *)
Acknowledge(r) ==
    /\ request[r].pc = "stored"
    /\ Saved(r, "open")
    /\ Leave(r)
    /\ UNCHANGED <<file, versions, files, overdue, janitor>>

-----------------------------------------------------------------------------
(* _finalize.                                                              *)

(* The advisory lock on the destination, held from here to the commit.     *)
TargetFree == \A r \in Request : request[r].pc \notin {"publishing", "kept", "renamed"}

MayPublish(r) ==
    /\ request[r].pc = "stored"
    /\ request[r].sent = Length
    /\ IF file = Nothing THEN disk = Nothing ELSE request[r].if_exists = "new_version"

(* Fault: nobody waits for the lock.                                       *)
LockNothing(r) ==
    /\ MayPublish(r)
    /\ Goto(r, IF file = Nothing THEN "kept" ELSE "publishing")
    /\ UNCHANGED <<rows, files, overdue, janitor>>

(* lock_target, _existing_target and the check for an unregistered file: a *)
(* collision is refused (the request dies), a free path needs no snapshot. *)
LockTarget(r) ==
    /\ MayPublish(r)
    /\ TargetFree
    /\ Goto(r, IF file = Nothing THEN "kept" ELSE "publishing")
    /\ UNCHANGED <<rows, files, overdue, janitor>>

(* _snapshot: copy what is there into the blob store, and go on only if it *)
(* is what the current version says.                                       *)
Snapshot(r) ==
    /\ request[r].pc = "publishing"
    /\ disk # Nothing
    /\ blobs' = blobs \cup {disk}
    /\ IF disk = file THEN Goto(r, "kept") ELSE Leave(r)
    /\ session' = IF disk # file /\ request[r].creating
                  THEN [session EXCEPT ![request[r].session].state = "rolled_back"]
                  ELSE session
    /\ UNCHANGED <<file, versions, staging, synced, disk, overdue, janitor>>

(* assemble finds another hash than the client declared: the session is    *)
(* over, and that is committed although the request is refused.            *)
HashMismatch(r) ==
    /\ request[r].pc = "kept"
    /\ Saved(r, "failed")
    /\ Leave(r)
    /\ UNCHANGED <<file, versions, files, overdue, janitor>>

(* assemble: rename the staging file over the destination, durably.        *)
Assemble(r) ==
    LET s == request[r].session IN
    /\ request[r].pc = "kept"
    /\ disk' = Content(s, staging[s])
    /\ staging' = [staging EXCEPT ![s] = <<>>]
    /\ synced' = [synced EXCEPT ![s] = 0]
    /\ Goto(r, "renamed")
    /\ UNCHANGED <<rows, blobs, overdue, janitor>>

(* register, add_version or reactivate, then complete, in one commit.      *)
Publish(r) ==
    /\ request[r].pc = "renamed"
    /\ file' = disk
    /\ versions' = versions \cup {disk}
    /\ Saved(r, "completed")
    /\ Leave(r)
    /\ UNCHANGED <<files, overdue, janitor>>

-----------------------------------------------------------------------------
(* cancel_upload.                                                          *)

(* It reads the session without a lock; one that is not open is answered.  *)
Cancel(r, s) ==
    /\ request[r] = Idle
    /\ session[s].state = "open"
    /\ request' = [request EXCEPT ![r] = [Idle EXCEPT !.pc = "cancelling", !.session = s]]
    /\ UNCHANGED <<rows, files, overdue, janitor>>

(* Fault: the transition does not look at the state again.                 *)
CloseUnguarded(r) ==
    LET s == request[r].session IN
    /\ request[r].pc = "cancelling"
    /\ ~Locked(s)
    /\ session' = [session EXCEPT ![s].state = "cancelled"]
    /\ Goto(r, "removing")
    /\ UNCHANGED <<file, versions, files, overdue, janitor>>

(* close and commit, once whoever holds the row lock lets go.  Whether a   *)
(* row was still open is not asked.                                        *)
Close(r) ==
    LET s == request[r].session IN
    /\ request[r].pc = "cancelling"
    /\ ~Locked(s)
    /\ session' = IF session[s].state = "open"
                  THEN [session EXCEPT ![s].state = "cancelled"]
                  ELSE session
    /\ Goto(r, "removing")
    /\ UNCHANGED <<file, versions, files, overdue, janitor>>

RemoveStaging(s) ==
    /\ staging' = [staging EXCEPT ![s] = <<>>]
    /\ synced' = [synced EXCEPT ![s] = 0]

(* The staging file goes, and the answer is 204.                           *)
AnswerCancel(r) ==
    /\ request[r].pc = "removing"
    /\ RemoveStaging(request[r].session)
    /\ Leave(r)
    /\ UNCHANGED <<rows, disk, blobs, overdue, janitor>>

-----------------------------------------------------------------------------
(* What ends a request early: a refusal, the client going away, a crash.   *)

RolledBack(dead) ==
    session' = [s \in Session |->
        IF \E r \in dead : request[r].creating /\ request[r].session = s
        THEN [session[s] EXCEPT !.state = "rolled_back"]
        ELSE session[s]]

Die(r) ==
    /\ request[r] # Idle
    /\ RolledBack({r})
    /\ Leave(r)
    /\ UNCHANGED <<file, versions, files, overdue, janitor>>

(* Everybody dies, and each staging file keeps at least what was synced.   *)
PowerCut ==
    /\ \E s \in Session : synced[s] < Len(staging[s])
    /\ RolledBack(Request)
    /\ request' = [r \in Request |-> Idle]
    /\ janitor' = Asleep
    /\ \E left \in [Session -> 0 .. Length] :
        /\ \A s \in Session : synced[s] <= left[s] /\ left[s] <= Len(staging[s])
        /\ staging' = [s \in Session |-> SubSeq(staging[s], 1, left[s])]
    /\ UNCHANGED <<file, versions, synced, disk, blobs, overdue>>

-----------------------------------------------------------------------------
(* The janitor, whose sweep is one transaction.                            *)

BecomeOverdue(s) ==
    /\ session[s].state = "open" /\ s \notin overdue
    /\ overdue' = overdue \cup {s}
    /\ UNCHANGED <<rows, files, request, janitor>>

(* expire_due, which waits for the requests that hold a row it wants.      *)
ExpireDue ==
    LET due == {s \in overdue : session[s].state = "open"} IN
    /\ ~janitor.sweeping
    /\ \A s \in due : ~Locked(s)
    /\ janitor' = [sweeping |-> TRUE, expired |-> due]
    /\ UNCHANGED <<rows, files, request, overdue>>

(* Staging of a session the sweep sees as over or does not know goes, once *)
(* it is old: no request that is still writing it has been silent for the  *)
(* grace window.                                                           *)
Sweep(s) ==
    /\ janitor.sweeping
    /\ staging[s] # <<>> /\ ~InFlight(s)
    /\ s \in janitor.expired \/ session[s].state \in TerminalStates \cup {"rolled_back"}
    /\ RemoveStaging(s)
    /\ UNCHANGED <<rows, disk, blobs, request, overdue, janitor>>

CommitSweep ==
    /\ janitor.sweeping
    /\ session' = [s \in Session |->
         IF s \in janitor.expired THEN [session[s] EXCEPT !.state = "expired"] ELSE session[s]]
    /\ janitor' = Asleep
    /\ UNCHANGED <<file, versions, files, request, overdue>>

(* The worker dies: its rows go back, the files it removed stay removed.   *)
SweepLost ==
    /\ janitor.sweeping
    /\ janitor' = Asleep
    /\ UNCHANGED <<rows, files, request, overdue>>

-----------------------------------------------------------------------------
Next ==
    \/ \E r \in Request :
        \/ \E s \in Session : Create(r, s) \/ Resume(r, s) \/ Cancel(r, s)
        \/ Receive(r) \/ Store(r) \/ Acknowledge(r)
        \/ LockTarget(r) \/ Snapshot(r) \/ HashMismatch(r) \/ Assemble(r) \/ Publish(r)
        \/ Close(r) \/ AnswerCancel(r) \/ Die(r)
    \/ \E s \in Session : BecomeOverdue(s) \/ Sweep(s)
    \/ PowerCut \/ ExpireDue \/ CommitSweep \/ SweepLost

Spec == Init /\ [][Next]_vars

-----------------------------------------------------------------------------
(* Properties.                                                             *)

(* Every variable holds what its declaration says.                         *)
TypeOK ==
    /\ session \in [Session -> Row]
    /\ \A s \in Session :
         /\ Len(staging[s]) <= Length
         /\ \A i \in 1 .. Len(staging[s]) : staging[s][i] \in 1 .. Length
         /\ synced[s] \in 0 .. Len(staging[s])
    /\ \A r \in Request :
         /\ request[r].pc \in Appending \cup {"idle", "cancelling", "removing"}
         /\ request[r].session \in Session \cup {NoSession}
         /\ request[r].sent \in 0 .. Length /\ request[r].size \in 0 .. Length
    /\ \A content \in {disk, file} \cup versions \cup blobs :
         content.owner \in Session \cup {Original, Edited, Nobody}
    /\ overdue \subseteq Session /\ janitor.expired \subseteq Session

(* "No assembled file contains bytes a client did not send, and none is    *)
(* missing bytes an offset claimed": what an upload puts at the destination*)
(* is its client's bytes, whatever died, was resent or was cut off before. *)
PublishedIsWhole == disk.owner \in Session => disk.bytes = Whole

(* "Bytes are fsync'd before it advances": an open session's offset is     *)
(* backed by that many bytes on stable storage, in order - unless it is    *)
(* overdue, or its own bytes are already at the destination.               *)
AcknowledgedIsDurable ==
    \A s \in Session :
        session[s].state = "open" /\ s \notin overdue /\ disk.owner # s =>
            /\ session[s].offset <= synced[s]
            /\ \A i \in 1 .. session[s].offset : staging[s][i] = i

(* A session is recorded as completed exactly if a version row holds its   *)
(* content: the outcome a lost answer is replayed from is true.            *)
CompletedIsRegistered ==
    {s \in Session : session[s].state = "completed"} =
        {v.owner : v \in versions} \cap Session

(* "An overwrite never destroys content": whatever leaves the destination, *)
(* registered or not, is in the blob store.                                *)
OverwrittenIsKept == [][disk' # disk /\ disk # Nothing => disk \in blobs']_vars
=============================================================================
