----------------------------- MODULE UploadsProofs -----------------------------
(***************************************************************************)
(* Proofs about Uploads, for any number of sessions, requests and chunks.  *)
(*                                                                         *)
(* The argument is about who may touch a staging file.  Whoever appends to *)
(* a session holds its row lock, so nobody else appends, closes or expires *)
(* it meanwhile, and what the request knows of the file (how much of it    *)
(* there is, how much is synced) stays true.  Whoever publishes holds the  *)
(* lock on the destination, so what it found there is still there when it  *)
(* renames.  Both locks are released by a death at any moment; what then   *)
(* is left on disk is always a prefix of what the client sent.             *)
(***************************************************************************)
EXTENDS Uploads, SequenceTheorems, TLAPS

-----------------------------------------------------------------------------
(* Prefixes of what a client sends.                                        *)

Prefix(n) == [i \in 1 .. n |-> i]
Prefixes == {Prefix(n) : n \in 0 .. Length}

LEMMA PrefixIsSequence ==
    ASSUME NEW n \in Nat
    PROVE  Prefix(n) \in Seq(Nat) /\ Len(Prefix(n)) = n
<1>1. \A i \in 1 .. n : i \in Nat
  OBVIOUS
<1>2. Prefix(n) \in [1 .. n -> Nat]
  BY <1>1 DEF Prefix
<1>3. QED
  BY <1>2, LenProperties DEF Prefix

LEMMA EmptyIsPrefix == <<>> \in Prefixes /\ Len(<<>>) = 0
<1>1. 0 \in 0 .. Length
  BY LengthAssumption
<1>2. <<>> = Prefix(0)
  BY DEF Prefix
<1>3. QED
  BY <1>1, <1>2 DEF Prefixes

LEMMA OfPrefix ==
    ASSUME NEW bytes \in Prefixes
    PROVE  /\ Len(bytes) \in 0 .. Length
           /\ bytes = Prefix(Len(bytes))
           /\ \A i \in 1 .. Len(bytes) : bytes[i] = i
           /\ Len(bytes) = Length => bytes = Whole
           /\ Len(bytes) = 0 => bytes = <<>>
<1>1. PICK n \in 0 .. Length : bytes = Prefix(n)
  BY DEF Prefixes
<1>2. n \in Nat /\ Len(bytes) = n
  BY <1>1, PrefixIsSequence, LengthAssumption
<1>3. n = 0 => bytes = <<>>
  BY <1>1, <1>2 DEF Prefix
<1>4. QED
  BY <1>1, <1>2, <1>3 DEF Prefix, Whole

LEMMA AppendToPrefix ==
    ASSUME NEW bytes \in Prefixes, Len(bytes) < Length
    PROVE  /\ Append(bytes, Len(bytes) + 1) \in Prefixes
           /\ Len(Append(bytes, Len(bytes) + 1)) = Len(bytes) + 1
<1> DEFINE n == Len(bytes)
<1>1. n \in Nat /\ n + 1 \in 0 .. Length /\ bytes = Prefix(n)
  BY OfPrefix, LengthAssumption
<1>2. Append(Prefix(n), n + 1) = Prefix(n + 1)
  BY <1>1, PrefixIsSequence DEF Prefix
<1>3. QED
  BY <1>1, <1>2, PrefixIsSequence DEF Prefixes

LEMMA CutPrefix ==
    ASSUME NEW bytes \in Prefixes, NEW n \in 0 .. Len(bytes)
    PROVE  SubSeq(bytes, 1, n) \in Prefixes /\ Len(SubSeq(bytes, 1, n)) = n
<1>1. Len(bytes) \in 0 .. Length /\ bytes = Prefix(Len(bytes)) /\ n \in 0 .. Length
  BY OfPrefix, LengthAssumption
<1>2. SubSeq(bytes, 1, n) = Prefix(n)
  <2>1. SubSeq(bytes, 1, n) = [i \in 1 .. n |-> bytes[i]]
    BY <1>1, LengthAssumption
  <2>2. \A i \in 1 .. n : bytes[i] = i
    BY <1>1, OfPrefix
  <2>3. QED
    BY <2>1, <2>2 DEF Prefix
<1>3. QED
  BY <1>1, <1>2, PrefixIsSequence DEF Prefixes

-----------------------------------------------------------------------------
(* The inductive invariant.                                                *)

AtTarget == {"publishing", "kept", "renamed"}

Owner == Session \cup {Original, Edited, Nobody}

RequestRow ==
    [pc : Appending \cup {"idle", "cancelling", "removing"},
     session : Session \cup {NoSession}, creating : BOOLEAN,
     sent : 0 .. Length, size : 0 .. Length, if_exists : {"reject", "new_version"}]

ContentsOK == \A content \in {disk, file} \cup versions \cup blobs : content.owner \in Owner

Types ==
    /\ session \in [Session -> Row]
    /\ staging \in [Session -> Prefixes]
    /\ synced \in [Session -> 0 .. Length]
    /\ \A s \in Session : synced[s] <= Len(staging[s])
    /\ request \in [Request -> RequestRow]
    /\ janitor \in [sweeping : BOOLEAN, expired : SUBSET Session]
    /\ overdue \subseteq Session
    /\ ContentsOK

(* What a request knows is true, at every point of its way.                *)
RequestOK(r) ==
    LET q == request[r]
        s == q.session
    IN  /\ q.pc = "idle" => q = Idle
        /\ q.pc # "idle" => s \in Session
        /\ q.pc \in Appending =>
              session[s].state = IF q.creating THEN "absent" ELSE "open"
        /\ q.pc = "cancelling" => ~q.creating /\ session[s].state \in {"open"} \cup TerminalStates
        /\ q.pc = "removing" => ~q.creating /\ session[s].state \in TerminalStates
        /\ q.pc = "receiving" => q.sent = Len(staging[s])
        /\ q.pc \in {"stored", "publishing", "kept"} =>
              q.size = Len(staging[s]) /\ q.size = synced[s] /\ q.sent = q.size
        /\ q.pc \in AtTarget => q.size = Length
        /\ q.pc = "kept" => disk = file /\ (disk = Nothing \/ disk \in blobs)
        /\ q.pc = "renamed" => disk.owner = s

(* The row lock, and the advisory lock on the destination.                 *)
LocksExclude ==
    \A r, x \in Request :
        /\ request[r].pc \in Appending /\ request[x].pc \in Appending
        /\ request[r].session = request[x].session
        => r = x

TargetExcludes ==
    \A r, x \in Request :
        request[r].pc \in AtTarget /\ request[x].pc \in AtTarget => r = x

(* An id that was not used yet owns no staging file.                       *)
UnusedIsEmpty ==
    \A s \in Session : session[s].state = "absent" /\ ~InFlight(s) => staging[s] = <<>>

(* What a sweep has expired is open, overdue and locked by it.             *)
SweepHoldsItsRows ==
    janitor.sweeping =>
        \A s \in janitor.expired :
            /\ session[s].state = "open" /\ s \in overdue
            /\ \A r \in Request : request[r].session = s => request[r].pc \notin Appending

(* The current version is one of the versions.                             *)
FileIsVersion == file = Nothing \/ file \in versions

(* The offset of an open session is on stable storage.                     *)
OffsetIsSynced(s) ==
    session[s].state = "open" /\ s \notin overdue /\ disk.owner # s
        => session[s].offset <= synced[s]

IInv ==
    /\ Types
    /\ \A r \in Request : RequestOK(r)
    /\ LocksExclude
    /\ TargetExcludes
    /\ UnusedIsEmpty
    /\ SweepHoldsItsRows
    /\ FileIsVersion
    /\ \A s \in Session : OffsetIsSynced(s)
    /\ PublishedIsWhole
    /\ CompletedIsRegistered

-----------------------------------------------------------------------------
(* The steps of one request.                                               *)

LEMMA InitEstablishes == Init => IInv
<1> SUFFICES ASSUME Init PROVE IInv
  OBVIOUS
<1>1. Nothing.owner = Nobody /\ Content(Original, <<>>).owner = Original
      /\ Content(Edited, <<>>).owner = Edited
  BY DEF Nothing, Content
<1>2. 0 \in 0 .. Length
  BY LengthAssumption
<1>3. Idle \in RequestRow /\ Idle.pc = "idle" /\ Idle.session = NoSession
  BY <1>2 DEF Idle, RequestRow
<1>4. ContentsOK
  BY <1>1 DEF Init, ContentsOK, Owner
<1>5. Types
  BY <1>2, <1>3, <1>4, EmptyIsPrefix DEF Init, Types, Row, Asleep
<1>6. \A r \in Request : RequestOK(r)
  BY <1>3 DEF Init, RequestOK, Appending, AtTarget
<1>7. LocksExclude /\ TargetExcludes /\ UnusedIsEmpty /\ SweepHoldsItsRows
  BY <1>3 DEF Init, LocksExclude, TargetExcludes, UnusedIsEmpty, SweepHoldsItsRows,
              Appending, AtTarget, Asleep
<1>8. FileIsVersion /\ \A s \in Session : OffsetIsSynced(s)
  BY DEF Init, FileIsVersion, OffsetIsSynced
<1>9. disk.owner \notin Session /\ \A v \in versions : v.owner \notin Session
  BY <1>1, OriginAssumption DEF Init
<1>10. PublishedIsWhole /\ CompletedIsRegistered
  BY <1>9 DEF Init, PublishedIsWhole, CompletedIsRegistered
<1>11. QED
  BY <1>4, <1>5, <1>6, <1>7, <1>8, <1>10 DEF IInv

(* Nobody else appends to the session that a request appends to.           *)
LEMMA AppendsAlone ==
    ASSUME IInv, NEW r \in Request, request[r].pc \in Appending
    PROVE  /\ request[r].session \in Session
           /\ \A x \in Request \ {r} :
                request[x].session = request[r].session => request[x].pc \notin Appending
           /\ janitor.sweeping => request[r].session \notin janitor.expired
BY DEF IInv, RequestOK, LocksExclude, SweepHoldsItsRows, Appending

(* What the others know stays true, as long as the step keeps off the      *)
(* sessions they append to and the destination they hold.                  *)
LEMMA OthersStay ==
    ASSUME IInv, NEW r \in Request, NEW s \in Session,
           \A x \in Request \ {r} : request'[x] = request[x],
           \A t \in Session \ {s} : /\ session'[t] = session[t]
                                    /\ staging'[t] = staging[t]
                                    /\ synced'[t] = synced[t],
           \/ /\ session'[s] = session[s] /\ staging'[s] = staging[s]
              /\ synced'[s] = synced[s]
           \/ \A x \in Request \ {r} :
                 request[x].session = s => request[x].pc \notin Appending,
           session[s].state = "open" => session'[s].state \in {"open"} \cup TerminalStates,
           session[s].state \in TerminalStates => session'[s].state \in TerminalStates,
           \/ UNCHANGED <<disk, file>> /\ blobs \subseteq blobs'
           \/ \A x \in Request \ {r} : request[x].pc \notin AtTarget,
           NEW x \in Request \ {r}
    PROVE  RequestOK(x)'
<1>1. request'[x] = request[x] /\ RequestOK(x)
  BY DEF IInv
<1>2. CASE request[x].session \in Session \ {s}
  BY <1>1, <1>2 DEF RequestOK, AtTarget
<1>3. CASE request[x].session = s /\ request[x].pc \notin Appending
  BY <1>1, <1>3 DEF RequestOK, AtTarget, Appending
<1>4. CASE /\ request[x].session = s
           /\ session'[s] = session[s] /\ staging'[s] = staging[s] /\ synced'[s] = synced[s]
  BY <1>1, <1>4 DEF RequestOK, AtTarget
<1>5. CASE request[x].pc = "idle"
  BY <1>1, <1>5 DEF RequestOK, AtTarget, Appending
<1>6. QED
  BY <1>1, <1>2, <1>3, <1>4, <1>5 DEF RequestOK

(* A step of request r about session s, which leaves the destination, the  *)
(* file and the sweep alone.                                               *)
LEMMA RequestStep ==
    ASSUME IInv, NEW r \in Request, NEW s \in Session,
           session' \in [Session -> Row], staging' \in [Session -> Prefixes],
           synced' \in [Session -> 0 .. Length], synced'[s] <= Len(staging'[s]),
           request' \in [Request -> RequestRow], RequestOK(r)',
           request[r].session \in {s, NoSession}, request'[r].session \in {s, NoSession},
           \A x \in Request \ {r} : request'[x] = request[x],
           \A t \in Session \ {s} : /\ session'[t] = session[t]
                                    /\ staging'[t] = staging[t]
                                    /\ synced'[t] = synced[t],
           \/ /\ session'[s] = session[s] /\ staging'[s] = staging[s]
              /\ synced'[s] = synced[s] /\ request'[r].pc \notin Appending
           \/ /\ \A x \in Request \ {r} :
                    request[x].session = s => request[x].pc \notin Appending
              /\ janitor.sweeping /\ s \in janitor.expired =>
                    session'[s] = session[s] /\ request'[r].pc \notin Appending,
           session[s].state = "open" => session'[s].state \in {"open"} \cup TerminalStates,
           session[s].state \in TerminalStates => session'[s].state \in TerminalStates,
           session[s].state = "completed" <=> session'[s].state = "completed",
           session'[s].state = "absent" => request'[r].session = s \/ staging'[s] = <<>>,
           OffsetIsSynced(s)',
           request'[r].pc \in AtTarget =>
              \A x \in Request \ {r} : request[x].pc \notin AtTarget,
           UNCHANGED <<disk, file, versions, overdue, janitor>>,
           blobs' \subseteq blobs \cup {disk}, blobs \subseteq blobs'
    PROVE  IInv'
<1>1. Types'
  <2>1. ContentsOK'
    BY DEF IInv, Types, ContentsOK
  <2>2. QED
    BY <2>1 DEF IInv, Types
<1>2. \A x \in Request : RequestOK(x)'
  BY OthersStay
<1>3. LocksExclude'
  <2>1. ASSUME NEW x \in Request \ {r}, request'[r].pc \in Appending,
               request'[x].pc \in Appending, request'[x].session = request'[r].session
        PROVE  FALSE
    <3>1. request'[x] = request[x] /\ RequestOK(x)
      BY DEF IInv
    <3>2. request[x].session \in Session
      BY <2>1, <3>1 DEF RequestOK, Appending
    <3>3. request[x].session = s
      BY <2>1, <3>1, <3>2, OriginAssumption
    <3>4. QED
      BY <2>1, <3>1, <3>3
  <2>2. QED
    BY <2>1 DEF IInv, LocksExclude
<1>4. TargetExcludes'
  BY DEF IInv, TargetExcludes
<1>5. UnusedIsEmpty'
  <2>1. ASSUME NEW t \in Session \ {s}, session'[t].state = "absent", ~InFlight(t)'
        PROVE  staging'[t] = <<>>
    <3>1. request[r].session # t
      BY OriginAssumption
    <3>2. ~InFlight(t)
      BY <2>1, <3>1 DEF InFlight
    <3>3. QED
      BY <2>1, <3>2 DEF IInv, UnusedIsEmpty
  <2>2. QED
    BY <2>1 DEF UnusedIsEmpty, InFlight
<1>6. SweepHoldsItsRows'
  <2>1. ASSUME janitor.sweeping, NEW t \in janitor.expired
        PROVE  /\ session'[t].state = "open" /\ t \in overdue
               /\ \A x \in Request : request'[x].session = t => request'[x].pc \notin Appending
    <3>1. /\ t \in Session /\ session[t].state = "open" /\ t \in overdue
          /\ \A x \in Request : request[x].session = t => request[x].pc \notin Appending
      BY <2>1 DEF IInv, Types, SweepHoldsItsRows
    <3>2. CASE t = s
      BY <2>1, <3>1, <3>2
    <3>3. CASE t # s
      BY <3>1, <3>3, OriginAssumption
    <3>4. QED
      BY <3>2, <3>3
  <2>2. QED
    BY <2>1 DEF SweepHoldsItsRows
<1>7. FileIsVersion' /\ PublishedIsWhole'
  BY DEF IInv, FileIsVersion, PublishedIsWhole
<1>8. \A t \in Session : OffsetIsSynced(t)'
  BY DEF IInv, OffsetIsSynced
<1>9. CompletedIsRegistered'
  <2>1. \A t \in Session : session'[t].state = "completed" <=> session[t].state = "completed"
    OBVIOUS
  <2>2. QED
    BY <2>1 DEF IInv, CompletedIsRegistered
<1>10. QED
  BY <1>1, <1>2, <1>3, <1>4, <1>5, <1>6, <1>7, <1>8, <1>9 DEF IInv

-----------------------------------------------------------------------------
(* Appending.                                                              *)

LEMMA CreatePreserves ==
    ASSUME IInv, NEW r \in Request, NEW s \in Session, Create(r, s)
    PROVE  IInv'
<1>1. PICK mode \in {"reject", "new_version"} :
        request' = [request EXCEPT ![r] =
             [Idle EXCEPT !.pc = "receiving", !.session = s,
                          !.creating = TRUE, !.if_exists = mode]]
  BY DEF Create
<1>2. /\ request[r] = Idle /\ session[s].state = "absent" /\ ~InFlight(s)
      /\ UNCHANGED <<session, staging, synced, disk, file, versions, blobs, overdue, janitor>>
  BY DEF Create, rows, files
<1>3. /\ staging[s] = <<>> /\ Len(staging[s]) = 0
      /\ \A x \in Request : request[x].session # s
  BY <1>2, EmptyIsPrefix DEF IInv, UnusedIsEmpty, InFlight
<1> DEFINE q == [Idle EXCEPT !.pc = "receiving", !.session = s,
                             !.creating = TRUE, !.if_exists = mode]
<1>4. /\ q \in RequestRow /\ q.pc = "receiving" /\ q.session = s
      /\ q.creating = TRUE /\ q.sent = 0
  <2>1. 0 \in 0 .. Length
    BY LengthAssumption
  <2>2. QED
    BY <2>1 DEF Idle, RequestRow, Appending
<1>5. request' = [request EXCEPT ![r] = q]
  BY <1>1
<1> HIDE DEF q
<1>6. /\ request' \in [Request -> RequestRow] /\ request'[r] = q
      /\ \A x \in Request \ {r} : request'[x] = request[x]
  BY <1>4, <1>5 DEF IInv, Types
<1>7. RequestOK(r)'
  BY <1>2, <1>3, <1>4, <1>6 DEF RequestOK, Appending, AtTarget
<1>8. janitor.sweeping => s \notin janitor.expired
  BY <1>2 DEF IInv, SweepHoldsItsRows
<1>9. request[r].session = NoSession /\ OffsetIsSynced(s)'
  BY <1>2 DEF Idle, OffsetIsSynced
<1>10. synced[s] <= Len(staging[s]) /\ request'[r].pc \notin AtTarget
  BY <1>4, <1>6 DEF IInv, Types, AtTarget
<1>11. QED
  BY <1>2, <1>3, <1>4, <1>6, <1>7, <1>8, <1>9, <1>10, RequestStep DEF IInv, Types

(* Whoever resumes cuts the staging file to the offset of its row.         *)
LEMMA ResumePreserves ==
    ASSUME IInv, NEW r \in Request, NEW s \in Session, Resume(r, s)
    PROVE  IInv'
<1> DEFINE offset == session[s].offset
<1>1. /\ request[r] = Idle /\ session[s].state = "open" /\ ~Locked(s)
      /\ UNCHANGED <<file, versions, disk, blobs, overdue, janitor>>
  BY DEF Resume
<1>2. /\ session[s] \in Row /\ offset \in 0 .. Length /\ staging[s] \in Prefixes
      /\ Len(staging[s]) \in 0 .. Length /\ synced[s] \in 0 .. Length
      /\ synced[s] <= Len(staging[s]) /\ session[s].if_exists \in {"reject", "new_version"}
  BY OfPrefix DEF IInv, Types, Row
<1>3. /\ \A x \in Request : request[x].session = s => request[x].pc \notin Appending
      /\ janitor.sweeping => s \notin janitor.expired
      /\ request[r].session = NoSession
  BY <1>1 DEF Locked, Idle
<1>4. CASE Len(staging[s]) < offset
  <2>1. session' = [session EXCEPT ![s].state = "failed"] /\ UNCHANGED <<request, staging, synced>>
    BY <1>4 DEF Resume
  <2>2. /\ session' \in [Session -> Row] /\ session'[s].state = "failed"
        /\ \A t \in Session \ {s} : session'[t] = session[t]
    BY <1>2, <2>1 DEF IInv, Types, Row, TerminalStates
  <2>3. RequestOK(r)'
    BY <1>1, <2>1 DEF RequestOK, Idle, Appending, AtTarget
  <2>4. OffsetIsSynced(s)'
    BY <2>2 DEF OffsetIsSynced
  <2>5. request'[r].pc = "idle" /\ request'[r].session = NoSession
    BY <1>1, <2>1 DEF Idle
  <2>6. QED
    BY <1>1, <1>2, <1>3, <2>1, <2>2, <2>3, <2>4, <2>5, RequestStep
       DEF IInv, Types, AtTarget, TerminalStates
<1>5. CASE ~(Len(staging[s]) < offset)
  <2> DEFINE bytes == SubSeq(staging[s], 1, offset)
             safe == IF Len(staging[s]) > offset THEN offset ELSE synced[s]
             q == [Idle EXCEPT !.pc = "receiving", !.session = s, !.sent = offset,
                               !.if_exists = session[s].if_exists]
  <2>1. /\ staging' = [staging EXCEPT ![s] = bytes]
        /\ synced' = [synced EXCEPT ![s] = safe]
        /\ request' = [request EXCEPT ![r] = q]
        /\ UNCHANGED session
    BY <1>5 DEF Resume
  <2>2. bytes \in Prefixes /\ Len(bytes) = offset
    BY <1>2, <1>5, CutPrefix, LengthAssumption
  <2>3. safe \in 0 .. Length /\ safe <= offset
    BY <1>2, <1>5, LengthAssumption
  <2>4. /\ q \in RequestRow /\ q.pc = "receiving" /\ q.session = s
        /\ q.creating = FALSE /\ q.sent = offset
    <3>1. 0 \in 0 .. Length
      BY LengthAssumption
    <3>2. QED
      BY <1>2, <3>1 DEF Idle, RequestRow, Appending
  <2>5. s \notin overdue /\ disk.owner # s => offset <= safe
    BY <1>1, <1>2, LengthAssumption DEF IInv, OffsetIsSynced
  <2> HIDE DEF bytes, safe, q
  <2>6. /\ staging' \in [Session -> Prefixes] /\ staging'[s] = bytes
        /\ synced' \in [Session -> 0 .. Length] /\ synced'[s] = safe
        /\ request' \in [Request -> RequestRow] /\ request'[r] = q
        /\ \A x \in Request \ {r} : request'[x] = request[x]
        /\ \A t \in Session \ {s} : staging'[t] = staging[t] /\ synced'[t] = synced[t]
    BY <2>1, <2>2, <2>3, <2>4 DEF IInv, Types
  <2>7. RequestOK(r)'
    BY <1>1, <2>1, <2>2, <2>4, <2>6 DEF RequestOK, Appending, AtTarget
  <2>8. OffsetIsSynced(s)'
    BY <1>1, <2>1, <2>5, <2>6 DEF OffsetIsSynced
  <2>9. synced'[s] <= Len(staging'[s])
    BY <2>2, <2>3, <2>6
  <2>10. request'[r].session = s /\ request'[r].pc \notin AtTarget
    BY <2>4, <2>6 DEF AtTarget
  <2>11. session' \in [Session -> Row] /\ session' = session
    BY <2>1 DEF IInv, Types
  <2>12. QED
    BY <1>1, <1>3, <2>6, <2>7, <2>8, <2>9, <2>10, <2>11, RequestStep
<1>6. QED
  BY <1>4, <1>5

LEMMA ReceivePreserves ==
    ASSUME IInv, NEW r \in Request, NEW s \in Session, request[r].session = s, Receive(r)
    PROVE  IInv'
<1> DEFINE bytes == Append(staging[s], request[r].sent + 1)
<1>1. /\ request[r].pc = "receiving" /\ request[r].sent < Length
      /\ staging' = [staging EXCEPT ![s] = bytes]
      /\ request' = [request EXCEPT ![r].sent = @ + 1]
      /\ UNCHANGED <<session, file, versions, synced, disk, blobs, overdue, janitor>>
  BY DEF Receive, rows
<1>2. /\ request[r] \in RequestRow /\ request[r].pc \in Appending
      /\ \A x \in Request \ {r} : request[x].session = s => request[x].pc \notin Appending
      /\ janitor.sweeping => s \notin janitor.expired
  BY <1>1, AppendsAlone DEF IInv, Types, Appending
<1>3. /\ staging[s] \in Prefixes /\ request[r].sent = Len(staging[s])
      /\ Len(staging[s]) \in 0 .. Length
      /\ synced[s] \in 0 .. Length /\ synced[s] <= Len(staging[s])
  BY <1>1, <1>2, OfPrefix DEF IInv, Types, RequestOK
<1>4. bytes \in Prefixes /\ Len(bytes) = request[r].sent + 1
  BY <1>1, <1>3, AppendToPrefix
<1>5. request[r].sent + 1 \in 0 .. Length
  BY <1>1, <1>3, LengthAssumption
<1> HIDE DEF bytes
<1>6. /\ request' \in [Request -> RequestRow]
      /\ request'[r] = [request[r] EXCEPT !.sent = request[r].sent + 1]
      /\ \A x \in Request \ {r} : request'[x] = request[x]
  BY <1>1, <1>2, <1>5 DEF IInv, Types, RequestRow
<1>7. /\ request'[r].pc = "receiving" /\ request'[r].session = s
      /\ request'[r].sent = request[r].sent + 1
      /\ request'[r].creating = request[r].creating
  BY <1>1, <1>2, <1>6 DEF RequestRow
<1>8. /\ staging' \in [Session -> Prefixes] /\ staging'[s] = bytes
      /\ \A t \in Session \ {s} : staging'[t] = staging[t]
  BY <1>1, <1>2, <1>4 DEF IInv, Types
<1>9. RequestOK(r)'
  BY <1>1, <1>2, <1>4, <1>7, <1>8 DEF IInv, RequestOK, Appending, AtTarget
<1>10. OffsetIsSynced(s)'
  BY <1>1, <1>2 DEF IInv, OffsetIsSynced
<1>11. synced'[s] <= Len(staging'[s])
  BY <1>1, <1>3, <1>4, <1>8, LengthAssumption
<1>12. QED
  BY <1>1, <1>2, <1>6, <1>7, <1>8, <1>9, <1>10, <1>11, RequestStep DEF IInv, Types, AtTarget

LEMMA StorePreserves ==
    ASSUME IInv, NEW r \in Request, NEW s \in Session, request[r].session = s, Store(r)
    PROVE  IInv'
<1> DEFINE size == Len(staging[s])
<1>1. /\ request[r].pc = "receiving"
      /\ synced' = [synced EXCEPT ![s] = size]
      /\ request' = [request EXCEPT ![r].pc = "stored", ![r].size = size]
      /\ UNCHANGED <<session, file, versions, staging, disk, blobs, overdue, janitor>>
  BY DEF Store, rows
<1>2. /\ request[r] \in RequestRow /\ request[r].pc \in Appending
      /\ \A x \in Request \ {r} : request[x].session = s => request[x].pc \notin Appending
      /\ janitor.sweeping => s \notin janitor.expired
  BY <1>1, AppendsAlone DEF IInv, Types, Appending
<1>3. /\ staging[s] \in Prefixes /\ request[r].sent = size /\ size \in 0 .. Length
      /\ synced[s] \in 0 .. Length /\ synced[s] <= size
  BY <1>1, <1>2, OfPrefix DEF IInv, Types, RequestOK
<1>4. /\ request' \in [Request -> RequestRow]
      /\ request'[r] = [request[r] EXCEPT !.pc = "stored", !.size = size]
      /\ \A x \in Request \ {r} : request'[x] = request[x]
  BY <1>1, <1>2, <1>3 DEF IInv, Types, RequestRow, Appending
<1>5. /\ request'[r].pc = "stored" /\ request'[r].session = s
      /\ request'[r].sent = size /\ request'[r].size = size
      /\ request'[r].creating = request[r].creating
  BY <1>2, <1>3, <1>4 DEF RequestRow
<1>6. /\ synced' \in [Session -> 0 .. Length] /\ synced'[s] = size
      /\ \A t \in Session \ {s} : synced'[t] = synced[t]
  BY <1>1, <1>2, <1>3 DEF IInv, Types
<1>7. RequestOK(r)'
  BY <1>1, <1>2, <1>5, <1>6 DEF IInv, RequestOK, Appending, AtTarget
<1>8. OffsetIsSynced(s)'
  <2>1. session[s].offset \in 0 .. Length
    BY <1>2 DEF IInv, Types, Row
  <2>2. session[s].offset <= synced[s] => session[s].offset <= size
    BY <1>3, <2>1, LengthAssumption
  <2> HIDE DEF size
  <2>3. QED
    BY <1>1, <1>2, <1>6, <2>2 DEF IInv, OffsetIsSynced
<1>9. synced'[s] <= Len(staging'[s])
  BY <1>1, <1>3, <1>6, LengthAssumption
<1>10. QED
  BY <1>1, <1>2, <1>4, <1>5, <1>6, <1>7, <1>8, <1>9, RequestStep DEF IInv, Types, AtTarget

(* A request that leaves knows nothing any more.                           *)
LEMMA LeaveEffect ==
    ASSUME IInv, NEW r \in Request, Leave(r)
    PROVE  /\ request' \in [Request -> RequestRow] /\ RequestOK(r)'
           /\ request'[r].session = NoSession /\ request'[r].pc = "idle"
           /\ \A x \in Request \ {r} : request'[x] = request[x]
<1>1. 0 \in 0 .. Length
  BY LengthAssumption
<1>2. Idle \in RequestRow /\ Idle.pc = "idle" /\ Idle.session = NoSession
  BY <1>1 DEF Idle, RequestRow
<1>3. /\ request' \in [Request -> RequestRow] /\ request'[r] = Idle
      /\ \A x \in Request \ {r} : request'[x] = request[x]
  BY <1>2 DEF Leave, IInv, Types
<1>4. QED
  BY <1>2, <1>3 DEF RequestOK, Appending, AtTarget

(* The row that an appending request commits on leaving.                   *)
LEMMA SavedPreserves ==
    ASSUME IInv, NEW r \in Request, NEW s \in Session, request[r].session = s,
           NEW state \in {"open", "failed"}, Saved(r, state), Leave(r),
           request[r].pc \in Appending,
           state = "open" => request[r].size = synced[s],
           UNCHANGED <<staging, synced, disk, blobs, file, versions, overdue, janitor>>
    PROVE  IInv'
<1> DEFINE saved == [state |-> state, offset |-> request[r].size,
                     if_exists |-> request[r].if_exists]
<1>1. request[r] \in RequestRow /\ request[r].size \in 0 .. Length
  BY DEF IInv, Types, RequestRow
<1>2. saved \in Row /\ saved.state = state /\ saved.offset = request[r].size
  BY <1>1 DEF Row, RequestRow, TerminalStates
<1>3. session' = [session EXCEPT ![s] = saved]
  BY DEF Saved
<1> HIDE DEF saved
<1>4. /\ session' \in [Session -> Row] /\ session'[s] = saved
      /\ \A t \in Session \ {s} : session'[t] = session[t]
  BY <1>2, <1>3 DEF IInv, Types
<1>5. OffsetIsSynced(s)'
  BY <1>1, <1>2, <1>4, LengthAssumption DEF OffsetIsSynced
<1>6. session[s].state \in {"absent", "open"}
  BY DEF IInv, RequestOK
<1>7. /\ session'[s].state \in {"open", "failed"}
      /\ session'[s].state \in {"open"} \cup TerminalStates
      /\ session[s].state \notin TerminalStates
  BY <1>2, <1>4, <1>6 DEF TerminalStates
<1>8. QED
  BY <1>4, <1>5, <1>6, <1>7, LeaveEffect, AppendsAlone, RequestStep DEF IInv, Types, AtTarget

LEMMA AcknowledgePreserves ==
    ASSUME IInv, NEW r \in Request, NEW s \in Session, request[r].session = s, Acknowledge(r)
    PROVE  IInv'
BY SavedPreserves DEF Acknowledge, Appending, IInv, RequestOK, files

LEMMA HashMismatchPreserves ==
    ASSUME IInv, NEW r \in Request, NEW s \in Session, request[r].session = s, HashMismatch(r)
    PROVE  IInv'
BY SavedPreserves DEF HashMismatch, Appending, files

-----------------------------------------------------------------------------
(* On the way to the destination.                                          *)

(* A request goes on to a phase, if what it has to know there is so.       *)
LEMMA GotoEffect ==
    ASSUME IInv, NEW r \in Request, NEW phase \in Appending \cup {"removing"}, Goto(r, phase)
    PROVE  /\ request' \in [Request -> RequestRow]
           /\ request'[r].pc = phase
           /\ request'[r].session = request[r].session
           /\ request'[r].creating = request[r].creating
           /\ request'[r].sent = request[r].sent /\ request'[r].size = request[r].size
           /\ \A x \in Request \ {r} : request'[x] = request[x]
<1>1. request[r] \in RequestRow
  BY DEF IInv, Types
<1>2. request' = [request EXCEPT ![r] = [request[r] EXCEPT !.pc = phase]]
  BY DEF Goto
<1>3. [request[r] EXCEPT !.pc = phase] \in RequestRow
  BY <1>1 DEF RequestRow
<1>4. QED
  BY <1>1, <1>2, <1>3 DEF IInv, Types, RequestRow

(* The lock is taken by one request at a time; a free path is as the file  *)
(* row says.                                                               *)
LEMMA LockTargetPreserves ==
    ASSUME IInv, NEW r \in Request, NEW s \in Session, request[r].session = s, LockTarget(r)
    PROVE  IInv'
<1> DEFINE phase == IF file = Nothing THEN "kept" ELSE "publishing"
<1>1. /\ request[r].pc = "stored" /\ request[r].sent = Length
      /\ file = Nothing => disk = Nothing
      /\ \A x \in Request : request[x].pc \notin AtTarget
      /\ Goto(r, phase)
      /\ UNCHANGED <<session, file, versions, staging, synced, disk, blobs, overdue, janitor>>
  BY DEF LockTarget, MayPublish, TargetFree, AtTarget, rows, files
<1>2. phase \in {"kept", "publishing"} /\ phase \in Appending
  BY DEF Appending
<1>3. RequestOK(r) /\ request[r].pc \in Appending
  BY <1>1 DEF IInv, Appending
<1>4. phase = "kept" => disk = file /\ disk = Nothing
  BY <1>1
<1> HIDE DEF phase
<1>5. /\ request' \in [Request -> RequestRow] /\ request'[r].pc = phase
      /\ request'[r].session = s /\ request'[r].creating = request[r].creating
      /\ request'[r].sent = request[r].sent /\ request'[r].size = request[r].size
      /\ \A x \in Request \ {r} : request'[x] = request[x]
  BY <1>1, <1>2, GotoEffect
<1>6. RequestOK(r)'
  BY <1>1, <1>2, <1>3, <1>4, <1>5 DEF RequestOK, Appending, AtTarget
<1>7. OffsetIsSynced(s)' /\ synced'[s] <= Len(staging'[s])
  BY <1>1 DEF IInv, Types, OffsetIsSynced
<1>8. QED
  BY <1>1, <1>3, <1>5, <1>6, <1>7, AppendsAlone, RequestStep DEF IInv, Types

LEMMA SnapshotPreserves ==
    ASSUME IInv, NEW r \in Request, NEW s \in Session, request[r].session = s, Snapshot(r)
    PROVE  IInv'
<1>1. /\ request[r].pc = "publishing"
      /\ blobs' = blobs \cup {disk}
      /\ UNCHANGED <<file, versions, staging, synced, disk, overdue, janitor>>
  BY DEF Snapshot
<1>2. RequestOK(r) /\ request[r].pc \in Appending /\ request[r].pc \in AtTarget
  BY <1>1 DEF IInv, Appending, AtTarget
<1>3. synced'[s] <= Len(staging'[s])
  BY <1>1 DEF IInv, Types
<1>4. CASE disk = file
  <2>1. Goto(r, "kept") /\ UNCHANGED session
    BY <1>4 DEF Snapshot
  <2>2. /\ request' \in [Request -> RequestRow] /\ request'[r].pc = "kept"
        /\ request'[r].session = s /\ request'[r].creating = request[r].creating
        /\ request'[r].sent = request[r].sent /\ request'[r].size = request[r].size
        /\ \A x \in Request \ {r} : request'[x] = request[x]
    BY <2>1, GotoEffect DEF Appending
  <2>3. RequestOK(r)'
    BY <1>1, <1>2, <1>4, <2>1, <2>2 DEF RequestOK, Appending, AtTarget
  <2>4. OffsetIsSynced(s)'
    BY <1>1, <2>1 DEF IInv, OffsetIsSynced
  <2>5. \A x \in Request \ {r} : request[x].pc \notin AtTarget
    BY <1>2 DEF IInv, TargetExcludes
  <2>6. QED
    BY <1>1, <1>2, <1>3, <2>1, <2>2, <2>3, <2>4, <2>5, AppendsAlone, RequestStep DEF IInv, Types
<1>5. CASE disk # file
  <2>1. /\ Leave(r)
        /\ session' = IF request[r].creating
                      THEN [session EXCEPT ![s].state = "rolled_back"] ELSE session
    BY <1>5 DEF Snapshot
  <2>2. /\ session' \in [Session -> Row]
        /\ \A t \in Session \ {s} : session'[t] = session[t]
        /\ \/ session'[s] = session[s] /\ session[s].state = "open"
           \/ session[s].state = "absent" /\ session'[s].state = "rolled_back"
    <3>1. /\ [session[s] EXCEPT !.state = "rolled_back"] \in Row
          /\ [session[s] EXCEPT !.state = "rolled_back"].state = "rolled_back"
      BY DEF IInv, Types, Row
    <3>2. CASE request[r].creating
      <4>1. session' = [session EXCEPT ![s] = [session[s] EXCEPT !.state = "rolled_back"]]
        BY <2>1, <3>2
      <4>2. session[s].state = "absent"
        BY <1>2, <3>2 DEF RequestOK
      <4>3. QED
        BY <3>1, <4>1, <4>2 DEF IInv, Types
    <3>3. CASE ~request[r].creating
      BY <1>2, <2>1, <3>3 DEF IInv, Types, RequestOK
    <3>4. QED
      BY <3>2, <3>3
  <2>3. OffsetIsSynced(s)'
    BY <1>1, <2>2 DEF IInv, OffsetIsSynced
  <2>4. request'[r].pc \notin Appending /\ request'[r].pc \notin AtTarget
    BY <2>1, LeaveEffect DEF Appending, AtTarget
  <2>5. /\ session[s].state = "open" => session'[s].state \in {"open"} \cup TerminalStates
        /\ session[s].state \notin TerminalStates /\ session'[s].state # "absent"
        /\ session[s].state = "completed" <=> session'[s].state = "completed"
    BY <2>2 DEF TerminalStates
  <2>6. QED
    BY <1>1, <1>2, <1>3, <2>1, <2>2, <2>3, <2>4, <2>5, AppendsAlone, LeaveEffect, RequestStep
       DEF IInv, Types
<1>6. QED
  BY <1>4, <1>5

-----------------------------------------------------------------------------
(* Cancelling, and dying.                                                  *)

LEMMA CancelPreserves ==
    ASSUME IInv, NEW r \in Request, NEW s \in Session, Cancel(r, s)
    PROVE  IInv'
<1> DEFINE q == [Idle EXCEPT !.pc = "cancelling", !.session = s]
<1>1. /\ request[r] = Idle /\ session[s].state = "open"
      /\ request' = [request EXCEPT ![r] = q]
      /\ UNCHANGED <<session, file, versions, staging, synced, disk, blobs, overdue, janitor>>
  BY DEF Cancel, rows, files
<1>2. q \in RequestRow /\ q.pc = "cancelling" /\ q.session = s /\ q.creating = FALSE
  <2>1. 0 \in 0 .. Length
    BY LengthAssumption
  <2>2. QED
    BY <2>1 DEF Idle, RequestRow
<1> HIDE DEF q
<1>3. /\ request' \in [Request -> RequestRow] /\ request'[r] = q
      /\ \A x \in Request \ {r} : request'[x] = request[x]
  BY <1>1, <1>2 DEF IInv, Types
<1>4. RequestOK(r)'
  BY <1>1, <1>2, <1>3 DEF RequestOK, Appending, AtTarget
<1>5. OffsetIsSynced(s)' /\ synced'[s] <= Len(staging'[s])
  BY <1>1 DEF IInv, Types, OffsetIsSynced
<1>6. /\ request[r].session = NoSession
      /\ request'[r].pc \notin Appending /\ request'[r].pc \notin AtTarget
  BY <1>1, <1>2, <1>3 DEF Idle, Appending, AtTarget
<1>7. QED
  BY <1>1, <1>2, <1>3, <1>4, <1>5, <1>6, RequestStep DEF IInv, Types

(* The row is closed when nobody else can have it open for appending.      *)
LEMMA ClosePreserves ==
    ASSUME IInv, NEW r \in Request, NEW s \in Session, request[r].session = s, Close(r)
    PROVE  IInv'
<1>1. /\ request[r].pc = "cancelling" /\ ~Locked(s)
      /\ session' = IF session[s].state = "open"
                    THEN [session EXCEPT ![s].state = "cancelled"] ELSE session
      /\ Goto(r, "removing")
      /\ UNCHANGED <<file, versions, staging, synced, disk, blobs, overdue, janitor>>
  BY DEF Close, files
<1>2. /\ ~request[r].creating
      /\ session[s].state \in {"open"} \cup TerminalStates
  BY <1>1 DEF IInv, RequestOK
<1>3. /\ session' \in [Session -> Row]
      /\ \A t \in Session \ {s} : session'[t] = session[t]
      /\ \/ session[s].state = "open" /\ session'[s].state = "cancelled"
         \/ session[s].state \in TerminalStates /\ session'[s] = session[s]
  <2>1. /\ [session[s] EXCEPT !.state = "cancelled"] \in Row
        /\ [session[s] EXCEPT !.state = "cancelled"].state = "cancelled"
    <3>1. session[s] \in Row
      BY DEF IInv, Types
    <3>2. QED
      BY <3>1 DEF Row, TerminalStates
  <2>2. CASE session[s].state = "open"
    <3>1. session' = [session EXCEPT ![s] = [session[s] EXCEPT !.state = "cancelled"]]
      BY <1>1, <2>2
    <3>2. QED
      BY <2>1, <2>2, <3>1 DEF IInv, Types
  <2>3. CASE session[s].state # "open"
    BY <1>1, <1>2, <2>3 DEF IInv, Types
  <2>4. QED
    BY <2>2, <2>3
<1>4. /\ request' \in [Request -> RequestRow] /\ request'[r].pc = "removing"
      /\ request'[r].session = s /\ request'[r].creating = request[r].creating
      /\ \A x \in Request \ {r} : request'[x] = request[x]
  BY <1>1, GotoEffect
<1>5. RequestOK(r)'
  BY <1>2, <1>3, <1>4 DEF RequestOK, Appending, AtTarget, TerminalStates
<1>6. OffsetIsSynced(s)' /\ synced'[s] <= Len(staging'[s])
  BY <1>1, <1>3 DEF IInv, Types, OffsetIsSynced, TerminalStates
<1>7. /\ \A x \in Request : request[x].session = s => request[x].pc \notin Appending
      /\ janitor.sweeping => s \notin janitor.expired
  BY <1>1 DEF Locked
<1>8. /\ session'[s].state # "absent" /\ session'[s].state \in TerminalStates
      /\ session[s].state = "completed" <=> session'[s].state = "completed"
  BY <1>3 DEF TerminalStates
<1>9. QED
  BY <1>1, <1>3, <1>4, <1>5, <1>6, <1>7, <1>8, RequestStep DEF IInv, Types, AtTarget

LEMMA AnswerCancelPreserves ==
    ASSUME IInv, NEW r \in Request, NEW s \in Session, request[r].session = s, AnswerCancel(r)
    PROVE  IInv'
<1>1. /\ request[r].pc = "removing" /\ Leave(r)
      /\ staging' = [staging EXCEPT ![s] = <<>>] /\ synced' = [synced EXCEPT ![s] = 0]
      /\ UNCHANGED <<session, file, versions, disk, blobs, overdue, janitor>>
  BY DEF AnswerCancel, RemoveStaging, rows
<1>2. session[s].state \in TerminalStates
  BY <1>1 DEF IInv, RequestOK
<1>3. \A x \in Request : request[x].session = s => request[x].pc \notin Appending
  BY <1>2 DEF IInv, RequestOK, TerminalStates
<1>4. /\ staging' \in [Session -> Prefixes] /\ staging'[s] = <<>>
      /\ synced' \in [Session -> 0 .. Length] /\ synced'[s] <= Len(staging'[s])
      /\ \A t \in Session \ {s} : staging'[t] = staging[t] /\ synced'[t] = synced[t]
  BY <1>1, EmptyIsPrefix, LengthAssumption DEF IInv, Types
<1>5. OffsetIsSynced(s)'
  BY <1>1, <1>2 DEF OffsetIsSynced, TerminalStates
<1>6. QED
  BY <1>1, <1>2, <1>3, <1>4, <1>5, LeaveEffect, RequestStep DEF IInv, Types, AtTarget, Appending

LEMMA DiePreserves ==
    ASSUME IInv, NEW r \in Request, NEW s \in Session, request[r].session = s, Die(r)
    PROVE  IInv'
<1>1. /\ RolledBack({r}) /\ Leave(r)
      /\ UNCHANGED <<file, versions, staging, synced, disk, blobs, overdue, janitor>>
  BY DEF Die, files
<1>2. /\ session' \in [Session -> Row]
      /\ \A t \in Session \ {s} : session'[t] = session[t]
      /\ session'[s] = IF request[r].creating
                       THEN [session[s] EXCEPT !.state = "rolled_back"] ELSE session[s]
  <2>1. session' = [t \in Session |->
          IF request[r].creating /\ s = t THEN [session[t] EXCEPT !.state = "rolled_back"]
          ELSE session[t]]
    BY <1>1 DEF RolledBack
  <2>2. \A t \in Session : [session[t] EXCEPT !.state = "rolled_back"] \in Row
    BY DEF IInv, Types, Row
  <2>3. QED
    BY <2>1, <2>2 DEF IInv, Types
<1>3. request[r].pc # "idle" /\ RequestOK(r)
  BY OriginAssumption DEF IInv, RequestOK, Idle
<1>4. \/ session'[s] = session[s]  /\ session[s].state # "absent"
      \/ /\ request[r].pc \in Appending
         /\ session[s].state = "absent" /\ session'[s].state = "rolled_back"
  <2>1. CASE request[r].creating
    <3>1. request[r].pc \in Appending
      BY <1>3, <2>1 DEF RequestOK, IInv, Types, RequestRow
    <3>2. [session[s] EXCEPT !.state = "rolled_back"].state = "rolled_back"
      BY DEF IInv, Types, Row
    <3>3. QED
      BY <1>2, <1>3, <2>1, <3>1, <3>2 DEF RequestOK
  <2>2. CASE ~request[r].creating
    BY <1>2, <1>3, <2>2
       DEF RequestOK, IInv, Types, RequestRow, Appending, TerminalStates
  <2>3. QED
    BY <2>1, <2>2
<1>5. OffsetIsSynced(s)' /\ synced'[s] <= Len(staging'[s])
  BY <1>1, <1>4 DEF IInv, Types, OffsetIsSynced
<1>6. request'[r].pc \notin Appending /\ request'[r].pc \notin AtTarget
  BY <1>1, LeaveEffect DEF Appending, AtTarget
<1>7. QED
  BY <1>1, <1>2, <1>4, <1>5, <1>6, AppendsAlone, LeaveEffect, RequestStep
     DEF IInv, Types, TerminalStates

-----------------------------------------------------------------------------
(* At the destination.                                                     *)

(* The rename: what was there is the current version or nothing, so no open*)
(* session loses the exemption it had for owning the destination.          *)
LEMMA AssemblePreserves ==
    ASSUME IInv, NEW r \in Request, NEW s \in Session, request[r].session = s, Assemble(r)
    PROVE  IInv'
<1>1. /\ request[r].pc = "kept" /\ Goto(r, "renamed")
      /\ disk' = Content(s, staging[s])
      /\ staging' = [staging EXCEPT ![s] = <<>>] /\ synced' = [synced EXCEPT ![s] = 0]
      /\ UNCHANGED <<session, file, versions, blobs, overdue, janitor>>
  BY DEF Assemble, rows
<1>2. /\ request[r].pc \in Appending /\ request[r].pc \in AtTarget
      /\ RequestOK(r) /\ disk = file
      /\ request[r].size = Len(staging[s]) /\ request[r].size = Length
  BY <1>1 DEF IInv, RequestOK, Appending, AtTarget
<1>3. /\ request' \in [Request -> RequestRow] /\ request'[r].pc = "renamed"
      /\ request'[r].session = s /\ request'[r].creating = request[r].creating
      /\ request'[r].size = request[r].size
      /\ \A x \in Request \ {r} : request'[x] = request[x]
  BY <1>1, GotoEffect DEF Appending
<1>4. /\ \A x \in Request \ {r} : request[x].session = s => request[x].pc \notin Appending
      /\ \A x \in Request \ {r} : request[x].pc \notin AtTarget
  BY <1>2, AppendsAlone DEF IInv, TargetExcludes
<1>5. /\ staging' \in [Session -> Prefixes] /\ staging'[s] = <<>>
      /\ synced' \in [Session -> 0 .. Length] /\ synced'[s] <= Len(staging'[s])
      /\ \A t \in Session \ {s} : staging'[t] = staging[t] /\ synced'[t] = synced[t]
  BY <1>1, EmptyIsPrefix, LengthAssumption DEF IInv, Types
<1>6. disk'.owner = s /\ disk'.bytes = Whole
  <2>1. staging[s] = Whole
    BY <1>2, OfPrefix DEF IInv, Types
  <2>2. QED
    BY <1>1, <2>1 DEF Content
<1>7. Types'
  <2>1. ContentsOK'
    BY <1>1, <1>6 DEF IInv, Types, ContentsOK, Owner
  <2>2. QED
    BY <1>1, <1>3, <1>5, <2>1 DEF IInv, Types
<1>8. \A x \in Request : RequestOK(x)'
  <2>1. RequestOK(r)'
    BY <1>1, <1>2, <1>3, <1>6 DEF RequestOK, Appending, AtTarget
  <2>2. \A x \in Request \ {r} : RequestOK(x)'
    BY <1>1, <1>3, <1>4, <1>5, OthersStay
  <2>3. QED
    BY <2>1, <2>2
<1>9. LocksExclude' /\ TargetExcludes' /\ UnusedIsEmpty' /\ SweepHoldsItsRows'
  <2>1. \A x \in Request : /\ request'[x].session = request[x].session
                           /\ request'[x].pc \in Appending <=> request[x].pc \in Appending
                           /\ request'[x].pc \in AtTarget <=> request[x].pc \in AtTarget
    BY <1>2, <1>3 DEF Appending, AtTarget
  <2>2. LocksExclude' /\ TargetExcludes'
    BY <2>1 DEF IInv, LocksExclude, TargetExcludes
  <2>3. UnusedIsEmpty'
    BY <1>1, <1>3, <1>5, <2>1 DEF IInv, UnusedIsEmpty, InFlight
  <2>4. SweepHoldsItsRows'
    BY <1>1, <2>1 DEF IInv, SweepHoldsItsRows
  <2>5. QED
    BY <2>2, <2>3, <2>4
<1>10. \A t \in Session : OffsetIsSynced(t)'
  <2>1. ASSUME NEW t \in Session \ {s}, session[t].state = "open"
        PROVE  disk.owner # t
    <3>1. CASE file = Nothing
      BY <1>2, <3>1, OriginAssumption DEF Nothing, Content
    <3>2. CASE file \in versions
      BY <1>2, <2>1, <3>2 DEF IInv, CompletedIsRegistered
    <3>3. QED
      BY <3>1, <3>2 DEF IInv, FileIsVersion
  <2>2. QED
    BY <1>1, <1>5, <1>6, <2>1 DEF IInv, OffsetIsSynced
<1>11. FileIsVersion' /\ PublishedIsWhole' /\ CompletedIsRegistered'
  BY <1>1, <1>6 DEF IInv, FileIsVersion, PublishedIsWhole, CompletedIsRegistered
<1>12. QED
  BY <1>7, <1>8, <1>9, <1>10, <1>11 DEF IInv

(* The commit that makes the session and its version true together.        *)
LEMMA PublishPreserves ==
    ASSUME IInv, NEW r \in Request, NEW s \in Session, request[r].session = s, Publish(r)
    PROVE  IInv'
<1> DEFINE saved == [state |-> "completed", offset |-> request[r].size,
                     if_exists |-> request[r].if_exists]
<1>1. /\ request[r].pc = "renamed" /\ Leave(r)
      /\ file' = disk /\ versions' = versions \cup {disk}
      /\ session' = [session EXCEPT ![s] = saved]
      /\ UNCHANGED <<staging, synced, disk, blobs, overdue, janitor>>
  BY DEF Publish, Saved, files
<1>2. saved \in Row /\ saved.state = "completed"
  <2>1. request[r] \in RequestRow
    BY DEF IInv, Types
  <2>2. QED
    BY <2>1 DEF Row, RequestRow, TerminalStates
<1> HIDE DEF saved
<1>3. /\ session' \in [Session -> Row] /\ session'[s].state = "completed"
      /\ \A t \in Session \ {s} : session'[t] = session[t]
  BY <1>1, <1>2 DEF IInv, Types
<1>4. /\ request[r].pc \in Appending /\ request[r].pc \in AtTarget
      /\ session[s].state \in {"absent", "open"} /\ disk.owner = s
  BY <1>1 DEF IInv, RequestOK, Appending, AtTarget
<1>5. /\ \A x \in Request \ {r} : request[x].session = s => request[x].pc \notin Appending
      /\ \A x \in Request \ {r} : request[x].pc \notin AtTarget
      /\ janitor.sweeping => s \notin janitor.expired
  BY <1>4, AppendsAlone DEF IInv, TargetExcludes
<1>6. /\ request' \in [Request -> RequestRow] /\ RequestOK(r)'
      /\ request'[r].session = NoSession
      /\ request'[r].pc \notin Appending /\ request'[r].pc \notin AtTarget
      /\ \A x \in Request \ {r} : request'[x] = request[x]
  BY <1>1, LeaveEffect DEF Appending, AtTarget
<1>7. Types'
  <2>1. ContentsOK'
    BY <1>1 DEF IInv, Types, ContentsOK
  <2>2. QED
    BY <1>1, <1>3, <1>6, <2>1 DEF IInv, Types
<1>8. \A x \in Request \ {r} : RequestOK(x)'
  <2>1. "completed" \in TerminalStates /\ session[s].state \notin TerminalStates
    BY <1>4 DEF TerminalStates
  <2>2. QED
    BY <1>1, <1>3, <1>5, <1>6, <2>1, OthersStay
<1>9. LocksExclude' /\ TargetExcludes'
  BY <1>6 DEF IInv, LocksExclude, TargetExcludes
<1>10. UnusedIsEmpty'
  <2>1. ASSUME NEW t \in Session \ {s}, session'[t].state = "absent", ~InFlight(t)'
        PROVE  staging'[t] = <<>>
    <3>1. ~InFlight(t)
      BY <1>6, <2>1 DEF InFlight
    <3>2. QED
      BY <1>1, <1>3, <2>1, <3>1 DEF IInv, UnusedIsEmpty
  <2>2. QED
    BY <1>3, <2>1 DEF UnusedIsEmpty, InFlight
<1>11. SweepHoldsItsRows'
  <2>1. ASSUME janitor.sweeping, NEW t \in janitor.expired
        PROVE  /\ session'[t].state = "open" /\ t \in overdue
               /\ \A x \in Request : request'[x].session = t => request'[x].pc \notin Appending
    <3>1. /\ t \in Session \ {s} /\ session[t].state = "open" /\ t \in overdue
          /\ \A x \in Request : request[x].session = t => request[x].pc \notin Appending
      BY <1>5, <2>1 DEF IInv, Types, SweepHoldsItsRows
    <3>2. QED
      BY <1>3, <1>6, <3>1
  <2>2. QED
    BY <1>1, <2>1 DEF SweepHoldsItsRows
<1>12. \A t \in Session : OffsetIsSynced(t)'
  BY <1>1, <1>3 DEF IInv, OffsetIsSynced
<1>13. CompletedIsRegistered'
  <2>1. {t \in Session : session'[t].state = "completed"} =
          {t \in Session : session[t].state = "completed"} \cup {s}
    BY <1>3
  <2>2. {v.owner : v \in versions'} \cap Session =
          ({v.owner : v \in versions} \cap Session) \cup {s}
    BY <1>1, <1>4
  <2>3. QED
    BY <2>1, <2>2 DEF IInv, CompletedIsRegistered
<1>14. FileIsVersion' /\ PublishedIsWhole'
  BY <1>1 DEF IInv, FileIsVersion, PublishedIsWhole
<1>15. QED
  BY <1>6, <1>7, <1>8, <1>9, <1>10, <1>11, <1>12, <1>13, <1>14 DEF IInv

-----------------------------------------------------------------------------
(* The janitor, and the power cut.                                         *)

(* A step that no request takes and that keeps off what requests hold: a   *)
(* row it changes is expired, a staging file it removes is nobody's.       *)
LEMMA JanitorStep ==
    ASSUME IInv, UNCHANGED <<request, disk, file, versions, blobs>>,
           session' \in [Session -> Row], staging' \in [Session -> Prefixes],
           synced' \in [Session -> 0 .. Length],
           \A t \in Session : synced'[t] <= Len(staging'[t]),
           janitor' \in [sweeping : BOOLEAN, expired : SUBSET Session],
           overdue' \subseteq Session, SweepHoldsItsRows',
           \A t \in Session :
              \/ session'[t] = session[t]
              \/ /\ session[t].state = "open" /\ session'[t].state = "expired"
                 /\ \A r \in Request : request[r].session = t => request[r].pc \notin Appending,
           \A t \in Session :
              \/ staging'[t] = staging[t] /\ synced'[t] = synced[t]
              \/ ~InFlight(t) /\ staging'[t] = <<>>,
           \A t \in Session : OffsetIsSynced(t)'
    PROVE  IInv'
<1>1. Types'
  BY DEF IInv, Types, ContentsOK
<1>2. ASSUME NEW r \in Request PROVE RequestOK(r)'
  <2>1. RequestOK(r)
    BY DEF IInv
  <2>2. CASE request[r].pc = "idle"
    BY <2>2, <2>1 DEF RequestOK, Appending, AtTarget
  <2>3. CASE request[r].pc # "idle"
    <3> DEFINE s == request[r].session
    <3>1. s \in Session
      BY <2>1, <2>3 DEF RequestOK
    <3>2. staging'[s] = staging[s] /\ synced'[s] = synced[s]
      BY <3>1 DEF InFlight
    <3>3. \/ session'[s] = session[s]
          \/ /\ session[s].state = "open" /\ session'[s].state = "expired"
             /\ request[r].pc \notin Appending
      BY <3>1
    <3>4. QED
      BY <2>1, <3>1, <3>2, <3>3 DEF RequestOK, Appending, AtTarget, TerminalStates
  <2>4. QED
    BY <2>2, <2>3
<1>3. LocksExclude' /\ TargetExcludes'
  BY DEF IInv, LocksExclude, TargetExcludes
<1>4. UnusedIsEmpty'
  BY DEF IInv, UnusedIsEmpty, InFlight
<1>5. FileIsVersion' /\ PublishedIsWhole'
  BY DEF IInv, FileIsVersion, PublishedIsWhole
<1>6. CompletedIsRegistered'
  <2>1. \A t \in Session : session'[t].state = "completed" <=> session[t].state = "completed"
    OBVIOUS
  <2>2. QED
    BY <2>1 DEF IInv, CompletedIsRegistered
<1>7. QED
  BY <1>1, <1>2, <1>3, <1>4, <1>5, <1>6 DEF IInv

LEMMA BecomeOverduePreserves ==
    ASSUME IInv, NEW s \in Session, BecomeOverdue(s)
    PROVE  IInv'
<1>1. /\ overdue' = overdue \cup {s}
      /\ UNCHANGED <<session, file, versions, staging, synced, disk, blobs, request, janitor>>
  BY DEF BecomeOverdue, rows, files
<1>2. SweepHoldsItsRows'
  BY <1>1 DEF IInv, SweepHoldsItsRows
<1>3. \A t \in Session : OffsetIsSynced(t)'
  BY <1>1 DEF IInv, OffsetIsSynced
<1>4. QED
  BY <1>1, <1>2, <1>3, JanitorStep DEF IInv, Types

LEMMA ExpireDuePreserves ==
    ASSUME IInv, ExpireDue
    PROVE  IInv'
<1> DEFINE due == {s \in overdue : session[s].state = "open"}
<1>1. /\ \A s \in due : ~Locked(s)
      /\ janitor' = [sweeping |-> TRUE, expired |-> due]
      /\ UNCHANGED <<session, file, versions, staging, synced, disk, blobs, request, overdue>>
  BY DEF ExpireDue, rows, files
<1>2. SweepHoldsItsRows'
  BY <1>1 DEF SweepHoldsItsRows, Locked
<1>3. \A t \in Session : OffsetIsSynced(t)'
  BY <1>1 DEF IInv, OffsetIsSynced
<1>4. QED
  BY <1>1, <1>2, <1>3, JanitorStep DEF IInv, Types

(* Only staging that is nobody's promise any more is removed.              *)
LEMMA SweepPreserves ==
    ASSUME IInv, NEW s \in Session, Sweep(s)
    PROVE  IInv'
<1>1. /\ janitor.sweeping /\ ~InFlight(s)
      /\ s \in janitor.expired \/ session[s].state \in TerminalStates \cup {"rolled_back"}
      /\ staging' = [staging EXCEPT ![s] = <<>>] /\ synced' = [synced EXCEPT ![s] = 0]
      /\ UNCHANGED <<session, file, versions, disk, blobs, request, overdue, janitor>>
  BY DEF Sweep, RemoveStaging, rows
<1>2. /\ staging' \in [Session -> Prefixes] /\ synced' \in [Session -> 0 .. Length]
      /\ staging'[s] = <<>> /\ synced'[s] = 0 /\ synced'[s] <= Len(staging'[s])
      /\ \A t \in Session \ {s} : staging'[t] = staging[t] /\ synced'[t] = synced[t]
  BY <1>1, EmptyIsPrefix, LengthAssumption DEF IInv, Types
<1>3. SweepHoldsItsRows'
  BY <1>1 DEF IInv, SweepHoldsItsRows
<1>4. s \in overdue \/ session[s].state # "open"
  BY <1>1 DEF IInv, SweepHoldsItsRows, TerminalStates
<1>5. \A t \in Session : OffsetIsSynced(t)'
  BY <1>1, <1>2, <1>4 DEF IInv, OffsetIsSynced
<1>6. QED
  BY <1>1, <1>2, <1>3, <1>5, JanitorStep DEF IInv, Types

LEMMA CommitSweepPreserves ==
    ASSUME IInv, CommitSweep
    PROVE  IInv'
<1>1. /\ janitor.sweeping /\ janitor' = Asleep
      /\ session' = [s \in Session |->
           IF s \in janitor.expired THEN [session[s] EXCEPT !.state = "expired"] ELSE session[s]]
      /\ UNCHANGED <<file, versions, staging, synced, disk, blobs, request, overdue>>
  BY DEF CommitSweep, files
<1>2. ASSUME NEW t \in Session
      PROVE  /\ [session[t] EXCEPT !.state = "expired"] \in Row
             /\ [session[t] EXCEPT !.state = "expired"].state = "expired"
  <2>1. session[t] \in Row
    BY DEF IInv, Types
  <2>2. QED
    BY <2>1 DEF Row, TerminalStates
<1>3. /\ session' \in [Session -> Row]
      /\ \A t \in Session : IF t \in janitor.expired THEN session'[t].state = "expired"
                                                     ELSE session'[t] = session[t]
  BY <1>1, <1>2 DEF IInv, Types
<1>4. \A t \in janitor.expired :
         /\ session[t].state = "open"
         /\ \A r \in Request : request[r].session = t => request[r].pc \notin Appending
  BY <1>1 DEF IInv, SweepHoldsItsRows
<1>5. /\ SweepHoldsItsRows'
      /\ janitor' \in [sweeping : BOOLEAN, expired : SUBSET Session]
  BY <1>1 DEF SweepHoldsItsRows, Asleep
<1>6. \A t \in Session : OffsetIsSynced(t)'
  BY <1>1, <1>3 DEF IInv, OffsetIsSynced
<1>7. QED
  BY <1>1, <1>3, <1>4, <1>5, <1>6, JanitorStep DEF IInv, Types

LEMMA SweepLostPreserves ==
    ASSUME IInv, SweepLost
    PROVE  IInv'
<1>1. /\ janitor' = Asleep
      /\ UNCHANGED <<session, file, versions, staging, synced, disk, blobs, request, overdue>>
  BY DEF SweepLost, rows, files
<1>2. /\ SweepHoldsItsRows'
      /\ janitor' \in [sweeping : BOOLEAN, expired : SUBSET Session]
  BY <1>1 DEF SweepHoldsItsRows, Asleep
<1>3. \A t \in Session : OffsetIsSynced(t)'
  BY <1>1 DEF IInv, OffsetIsSynced
<1>4. QED
  BY <1>1, <1>2, <1>3, JanitorStep DEF IInv, Types

(* All locks go at once.  Rows that were never committed are gone, what    *)
(* is committed was synced first.                                          *)
LEMMA PowerCutPreserves ==
    ASSUME IInv, PowerCut
    PROVE  IInv'
<1>1. PICK left \in [Session -> 0 .. Length] :
        /\ \A s \in Session : synced[s] <= left[s] /\ left[s] <= Len(staging[s])
        /\ staging' = [s \in Session |-> SubSeq(staging[s], 1, left[s])]
  BY DEF PowerCut
<1>2. /\ RolledBack(Request) /\ request' = [r \in Request |-> Idle] /\ janitor' = Asleep
      /\ UNCHANGED <<file, versions, synced, disk, blobs, overdue>>
  BY DEF PowerCut
<1>3. ASSUME NEW s \in Session
      PROVE  staging'[s] \in Prefixes /\ Len(staging'[s]) = left[s]
  <2>1. left[s] \in 0 .. Len(staging[s]) /\ staging[s] \in Prefixes
    BY <1>1, OfPrefix, LengthAssumption DEF IInv, Types
  <2>2. QED
    BY <1>1, <2>1, CutPrefix
<1>4. ASSUME NEW s \in Session
      PROVE  /\ session'[s] \in Row
             /\ \/ session'[s] = session[s]
                \/ /\ session'[s].state = "rolled_back" /\ session[s].state = "absent"
                   /\ InFlight(s)
             /\ session'[s].state = "absent" => ~InFlight(s)
  <2>1. session[s] \in Row
    BY DEF IInv, Types
  <2>2. /\ [session[s] EXCEPT !.state = "rolled_back"] \in Row
        /\ [session[s] EXCEPT !.state = "rolled_back"].state = "rolled_back"
    BY <2>1 DEF Row
  <2>3. CASE \E r \in Request : request[r].creating /\ request[r].session = s
    <3>1. PICK r \in Request : request[r].creating /\ request[r].session = s
      BY <2>3
    <3>2. request[r].pc # "idle" /\ request[r].pc \in Appending
      BY <3>1 DEF IInv, Types, RequestRow, RequestOK, Idle
    <3>3. session[s].state = "absent"
      BY <3>1, <3>2 DEF IInv, RequestOK
    <3>4. session'[s].state = "rolled_back" /\ session'[s] \in Row
      BY <1>2, <2>2, <2>3 DEF RolledBack
    <3>5. QED
      BY <3>1, <3>3, <3>4 DEF InFlight
  <2>4. CASE ~ \E r \in Request : request[r].creating /\ request[r].session = s
    <3>1. session'[s] = session[s]
      BY <1>2, <2>4 DEF RolledBack
    <3>2. ASSUME NEW r \in Request, request[r].session = s PROVE session[s].state # "absent"
      <4>1. request[r] \in RequestRow /\ RequestOK(r) /\ ~request[r].creating
        BY <2>4, <3>2 DEF IInv, Types
      <4>2. request[r].pc # "idle"
        BY <3>2, <4>1, OriginAssumption DEF RequestOK, Idle
      <4>3. QED
        BY <3>2, <4>1, <4>2 DEF RequestOK, RequestRow, TerminalStates
    <3>3. QED
      BY <2>1, <3>1, <3>2 DEF InFlight
  <2>5. QED
    BY <2>3, <2>4
<1>5. /\ Idle \in RequestRow /\ Idle.pc = "idle" /\ Idle.session = NoSession
  <2>1. 0 \in 0 .. Length
    BY LengthAssumption
  <2>2. QED
    BY <2>1 DEF Idle, RequestRow
<1>6. Types'
  <2>1. session' \in [Session -> Row]
    BY <1>2, <1>4 DEF RolledBack
  <2>2. staging' \in [Session -> Prefixes]
    BY <1>1, <1>3
  <2>3. \A s \in Session : synced'[s] <= Len(staging'[s])
    BY <1>1, <1>2, <1>3
  <2>4. QED
    BY <1>2, <1>5, <2>1, <2>2, <2>3 DEF IInv, Types, ContentsOK, Asleep
<1>7. \A r \in Request : RequestOK(r)'
  BY <1>2, <1>5 DEF RequestOK, Appending, AtTarget
<1>8. LocksExclude' /\ TargetExcludes' /\ SweepHoldsItsRows'
  BY <1>2, <1>5 DEF LocksExclude, TargetExcludes, SweepHoldsItsRows, Appending, AtTarget, Asleep
<1>9. UnusedIsEmpty'
  <2>1. ASSUME NEW s \in Session, session'[s].state = "absent" PROVE staging'[s] = <<>>
    <3>1. session[s].state = "absent" /\ ~InFlight(s)
      BY <1>4, <2>1
    <3>2. Len(staging[s]) = 0
      BY <3>1, EmptyIsPrefix DEF IInv, UnusedIsEmpty
    <3>3. left[s] = 0
      BY <1>1, <3>2, LengthAssumption
    <3>4. QED
      BY <1>3, <3>3, OfPrefix
  <2>2. QED
    BY <2>1 DEF UnusedIsEmpty
<1>10. \A s \in Session : OffsetIsSynced(s)'
  BY <1>2, <1>4 DEF IInv, OffsetIsSynced
<1>11. CompletedIsRegistered'
  <2>1. \A t \in Session : session'[t].state = "completed" <=> session[t].state = "completed"
    BY <1>4
  <2>2. QED
    BY <1>2, <2>1 DEF IInv, CompletedIsRegistered
<1>12. FileIsVersion' /\ PublishedIsWhole'
  BY <1>2 DEF IInv, FileIsVersion, PublishedIsWhole
<1>13. QED
  BY <1>6, <1>7, <1>8, <1>9, <1>10, <1>11, <1>12 DEF IInv

-----------------------------------------------------------------------------
(* All steps.                                                              *)

(* A request that is on its way is about one session, which is the one the *)
(* lemmas about its steps speak of.                                        *)
LEMMA StepPreserves == IInv /\ [Next]_vars => IInv'
<1> SUFFICES ASSUME IInv, [Next]_vars PROVE IInv'
  OBVIOUS
<1>1. CASE UNCHANGED vars
  BY <1>1 DEF vars, IInv, Types, ContentsOK, RequestOK, LocksExclude, TargetExcludes,
     UnusedIsEmpty, InFlight, SweepHoldsItsRows, FileIsVersion, OffsetIsSynced,
     PublishedIsWhole, CompletedIsRegistered
<1>2. ASSUME NEW r \in Request, NEW s \in Session,
             Create(r, s) \/ Resume(r, s) \/ Cancel(r, s)
      PROVE  IInv'
  BY <1>2, CreatePreserves, ResumePreserves, CancelPreserves
<1>3. ASSUME NEW r \in Request,
             \/ Receive(r) \/ Store(r) \/ Acknowledge(r)
             \/ LockTarget(r) \/ Snapshot(r) \/ HashMismatch(r) \/ Assemble(r) \/ Publish(r)
             \/ Close(r) \/ AnswerCancel(r) \/ Die(r)
      PROVE  IInv'
  <2>1. request[r].pc # "idle"
    BY <1>3 DEF Receive, Store, Acknowledge, LockTarget, MayPublish, Snapshot, HashMismatch,
                Assemble, Publish, Close, AnswerCancel, Die, IInv, RequestOK
  <2>2. PICK s \in Session : request[r].session = s
    BY <2>1 DEF IInv, RequestOK
  <2>3. QED
    BY <1>3, <2>2, ReceivePreserves, StorePreserves, AcknowledgePreserves, LockTargetPreserves,
       SnapshotPreserves, HashMismatchPreserves, AssemblePreserves, PublishPreserves,
       ClosePreserves, AnswerCancelPreserves, DiePreserves
<1>4. ASSUME NEW s \in Session, BecomeOverdue(s) \/ Sweep(s) PROVE IInv'
  BY <1>4, BecomeOverduePreserves, SweepPreserves
<1>5. CASE PowerCut \/ ExpireDue \/ CommitSweep \/ SweepLost
  BY <1>5, PowerCutPreserves, ExpireDuePreserves, CommitSweepPreserves, SweepLostPreserves
<1>6. QED
  BY <1>1, <1>2, <1>3, <1>4, <1>5 DEF Next

-----------------------------------------------------------------------------
(* What holds of every behaviour.                                          *)

(* The inductive invariant: requests know the truth about the files they   *)
(* hold a lock for.                                                        *)
THEOREM Invariance == Spec => []IInv
<1>1. Init => IInv
  BY InitEstablishes
<1>2. IInv /\ [Next]_vars => IInv'
  BY StepPreserves
<1>3. QED
  BY <1>1, <1>2, PTL DEF Spec

(* Every variable holds what its declaration says.                         *)
THEOREM TypeCorrect == Spec => []TypeOK
<1>1. IInv => TypeOK
  <2> SUFFICES ASSUME IInv PROVE TypeOK
    OBVIOUS
  <2>1. ASSUME NEW s \in Session
        PROVE  /\ Len(staging[s]) <= Length
               /\ \A i \in 1 .. Len(staging[s]) : staging[s][i] \in 1 .. Length
               /\ synced[s] \in 0 .. Len(staging[s])
    <3>1. /\ staging[s] \in Prefixes /\ synced[s] \in 0 .. Length
          /\ synced[s] <= Len(staging[s])
      BY DEF IInv, Types
    <3>2. /\ Len(staging[s]) \in 0 .. Length
          /\ \A i \in 1 .. Len(staging[s]) : staging[s][i] = i
      BY <3>1, OfPrefix
    <3>3. QED
      BY <3>1, <3>2, LengthAssumption
  <2>2. ASSUME NEW r \in Request
        PROVE  /\ request[r].pc \in Appending \cup {"idle", "cancelling", "removing"}
               /\ request[r].session \in Session \cup {NoSession}
               /\ request[r].sent \in 0 .. Length /\ request[r].size \in 0 .. Length
    <3>1. request[r] \in RequestRow
      BY DEF IInv, Types
    <3>2. QED
      BY <3>1 DEF RequestRow
  <2>3. /\ session \in [Session -> Row] /\ overdue \subseteq Session
        /\ janitor.expired \subseteq Session
    BY DEF IInv, Types
  <2>4. QED
    BY <2>1, <2>2, <2>3 DEF TypeOK, IInv, Types, ContentsOK, Owner
<1>2. QED
  BY Invariance, <1>1, PTL

(* What an upload leaves at the destination is all of what its client sent,*)
(* in order, whatever was interrupted, resumed, cancelled or swept on the  *)
(* way: whoever renames holds the row lock, and its staging is a prefix of *)
(* the full length.                                                        *)
THEOREM PublishedWhole == Spec => []PublishedIsWhole
<1>1. IInv => PublishedIsWhole
  BY DEF IInv
<1>2. QED
  BY Invariance, <1>1, PTL

(* An acknowledged offset of an open session is on stable storage, byte    *)
(* for byte, so that a power cut cannot make a promise false.              *)
THEOREM DurableOffsets == Spec => []AcknowledgedIsDurable
<1>1. IInv => AcknowledgedIsDurable
  <2> SUFFICES ASSUME IInv, NEW s \in Session,
                      session[s].state = "open" /\ s \notin overdue /\ disk.owner # s
               PROVE  /\ session[s].offset <= synced[s]
                      /\ \A i \in 1 .. session[s].offset : staging[s][i] = i
    BY DEF AcknowledgedIsDurable
  <2>1. /\ session[s] \in Row /\ staging[s] \in Prefixes
        /\ synced[s] \in 0 .. Length /\ synced[s] <= Len(staging[s])
        /\ session[s].offset <= synced[s]
    BY DEF IInv, Types, OffsetIsSynced
  <2>2. session[s].offset \in 0 .. Length
    BY <2>1 DEF Row
  <2>3. /\ Len(staging[s]) \in 0 .. Length
        /\ \A i \in 1 .. Len(staging[s]) : staging[s][i] = i
    BY <2>1, OfPrefix
  <2>4. QED
    BY <2>1, <2>2, <2>3, LengthAssumption
<1>2. QED
  BY Invariance, <1>1, PTL

(* A session is completed exactly if a version row holds its content:      *)
(* both are written by one commit, and nothing takes a session back.       *)
THEOREM RegisteredOutcome == Spec => []CompletedIsRegistered
<1>1. IInv => CompletedIsRegistered
  BY DEF IInv
<1>2. QED
  BY Invariance, <1>1, PTL

(* Only the rename changes the destination, and it keeps the destination   *)
(* lock from the snapshot on: what it replaces is in the blob store.       *)
THEOREM NothingOverwritten == Spec => OverwrittenIsKept
<1>1. IInv /\ [Next]_vars => [disk' # disk /\ disk # Nothing => disk \in blobs']_vars
  <2> SUFFICES ASSUME IInv, Next, disk' # disk, disk # Nothing PROVE disk \in blobs'
    OBVIOUS
  <2>1. PICK r \in Request : Assemble(r)
    BY DEF Next, Create, Resume, Cancel, Receive, Store, Acknowledge, LockTarget, Snapshot,
           HashMismatch, Publish, Close, AnswerCancel, Die, BecomeOverdue, Sweep, PowerCut,
           ExpireDue, CommitSweep, SweepLost, files
  <2>2. disk \in blobs /\ UNCHANGED blobs
    BY <2>1 DEF Assemble, IInv, RequestOK
  <2>3. QED
    BY <2>2
<1>2. QED
  BY Invariance, <1>1, PTL DEF Spec, OverwrittenIsKept
=============================================================================
