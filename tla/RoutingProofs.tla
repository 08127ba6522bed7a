---------------------------- MODULE RoutingProofs ----------------------------
(***************************************************************************)
(* That a kind of output has one producer, and that no work is forgotten   *)
(* or done twice, for any extractors, manifests, versions and number of    *)
(* transactions in progress.                                               *)
(***************************************************************************)
EXTENDS Routing, FiniteSetTheorems, WellFoundedInduction, TLAPS

(* What a transaction in progress is, as far as the registry matters.      *)
Reading(r) ==
    /\ {"kind", "pc", "e", "m"} \subseteq DOMAIN r
    /\ r.kind = "register" /\ r.pc = "reconcile"
    /\ r.e \in Extractor /\ r.m \in Declarable[r.e]

Inserting(r) ==
    /\ r \in [kind : {"register"}, pc : {"insert"}, e : Extractor, m : Manifests,
              stale : SUBSET Kind, missing : SUBSET Kind]
    /\ r.m \in Declarable[r.e]

Elsewhere(r) == r.pc \notin {"reconcile", "insert"} /\ r.kind # "register"

RequestsOK ==
    /\ DOMAIN req = Request
    /\ \A q \in Request :
          req[q] = Idle \/ Reading(req[q]) \/ Inserting(req[q]) \/ Elsewhere(req[q])

Registering(q) == req[q] # Idle /\ req[q].kind = "register"
Writing(q) == req[q] # Idle /\ req[q].pc = "insert"

HasRow(e) == {"enabled", "manifest"} \subseteq DOMAIN extractor[e]

RowsOK ==
    /\ DOMAIN extractor = Extractor
    /\ DOMAIN claims = Kind
    /\ raced \subseteq Extractor
    /\ \A e \in Extractor : extractor[e] # None => HasRow(e)
    /\ \A q \in Request : Registering(q) => HasRow(req[q].e)

(* Deleted claims are locked until the transaction that deleted them ends. *)
DeletedAreLocked ==
    /\ \A q \in Request : Writing(q) =>
          /\ \A k \in req[q].stale : claims[k] = req[q].e
          /\ req[q].stale \cap req[q].m.kinds = {}
    /\ \A p, q \in Request : p # q /\ Writing(p) /\ Writing(q) => req[p].stale \cap req[q].stale = {}

(* Who is not racing with itself has what it declared, and will have what  *)
(* it is about to declare.                                                 *)
AtMostOnce ==
    \A p, q \in Request : p # q /\ Registering(p) /\ Registering(q) /\ req[p].e = req[q].e
        => req[p].e \in raced

DeclaredIsClaimed ==
    \A e \in Extractor \ raced : Registered(e) =>
        \A k \in extractor[e].manifest.kinds : k \in Kind /\ claims[k] = e

KeptIsClaimed ==
    \A q \in Request : Writing(q) /\ req[q].e \notin raced =>
        \A k \in req[q].m.kinds \ req[q].missing : claims[k] = req[q].e

IInv ==
    /\ RequestsOK
    /\ RowsOK
    /\ DeletedAreLocked
    /\ AtMostOnce
    /\ DeclaredIsClaimed
    /\ KeptIsClaimed

-----------------------------------------------------------------------------
LEMMA InitEstablishes ==
  ASSUME Init
  PROVE  IInv
<1>1. PICK first \in [Extractor -> Manifests \cup {None}] :
        /\ \A e \in Extractor : first[e] \in Declarable[e] \cup {None}
        /\ \A e, f \in Extractor :
              e # f /\ first[e] # None /\ first[f] # None => first[e].kinds \cap first[f].kinds = {}
        /\ extractor = [e \in Extractor |->
              IF first[e] = None THEN None ELSE [enabled |-> TRUE, manifest |-> first[e]]]
        /\ claims = [k \in Kind |->
              IF \E e \in Extractor : first[e] # None /\ k \in first[e].kinds
              THEN CHOOSE e \in Extractor : first[e] # None /\ k \in first[e].kinds ELSE None]
  BY DEF Init
<1>2. DOMAIN req = Request /\ (\A q \in Request : req[q] = Idle) /\ raced = {}
  BY DEF Init
<1>3. RequestsOK
  BY <1>2 DEF RequestsOK
<1>4. RowsOK
  <2>1. DOMAIN extractor = Extractor /\ DOMAIN claims = Kind
    BY <1>1
  <2>2. \A e \in Extractor : extractor[e] # None => HasRow(e)
    BY <1>1 DEF HasRow
  <2> QED BY <1>2, <2>1, <2>2 DEF RowsOK, Registering
<1>5. DeletedAreLocked /\ AtMostOnce /\ KeptIsClaimed
  BY <1>2 DEF DeletedAreLocked, AtMostOnce, KeptIsClaimed, Writing, Registering
<1>6. DeclaredIsClaimed
  <2>1. SUFFICES ASSUME NEW e \in Extractor, Registered(e), NEW k \in extractor[e].manifest.kinds
                 PROVE  k \in Kind /\ claims[k] = e
    BY DEF DeclaredIsClaimed
  <2>2. first[e] # None /\ k \in first[e].kinds
    BY <1>1, <2>1 DEF Registered
  <2>3. k \in Kind
    BY <1>1, <2>2, RoutingAssumption
  <2>4. claims[k] = CHOOSE f \in Extractor : first[f] # None /\ k \in first[f].kinds
    BY <1>1, <2>2, <2>3
  <2>5. \A f \in Extractor : first[f] # None /\ k \in first[f].kinds => f = e
    BY <1>1, <2>2
  <2> QED BY <2>2, <2>3, <2>4, <2>5
<1> QED BY <1>3, <1>4, <1>5, <1>6 DEF IInv

(* Everything but the registry's own transactions leaves them alone, or    *)
(* ends them.                                                              *)
NoRegistration ==
    /\ DOMAIN req' = Request
    /\ \A q \in Request : req'[q] = req[q] \/ req'[q] = Idle \/ Elsewhere(req'[q])

LEMMA RegistrationsStay ==
  ASSUME NoRegistration, NEW q \in Request
  PROVE  /\ Registering(q)' => Registering(q) /\ req'[q] = req[q]
         /\ Writing(q)' => Writing(q) /\ req'[q] = req[q]
  BY DEF NoRegistration, Registering, Writing, Elsewhere

LEMMA OthersPreserve ==
  ASSUME IInv, NoRegistration, UNCHANGED <<registry, raced>>
  PROVE  IInv'
<1> USE DEF registry
<1>1. RequestsOK'
  BY DEF IInv, RequestsOK, NoRegistration, Reading, Inserting, Elsewhere
<1>2. RowsOK'
  BY RegistrationsStay DEF IInv, RowsOK, HasRow
<1>3. DeletedAreLocked'
  BY RegistrationsStay DEF IInv, DeletedAreLocked
<1>4. AtMostOnce'
  BY RegistrationsStay DEF IInv, AtMostOnce
<1>5. DeclaredIsClaimed' /\ KeptIsClaimed'
  BY RegistrationsStay DEF IInv, DeclaredIsClaimed, KeptIsClaimed, Registered
<1> QED BY <1>1, <1>2, <1>3, <1>4, <1>5 DEF IInv

(* What an administrator does to an extractor keeps its manifest.          *)
LEMMA AdministrationPreserves ==
  ASSUME IInv, NEW e \in Extractor, Provision(e) \/ SetEnabled(e)
  PROVE  IInv'
<1>1. UNCHANGED <<claims, req, raced>>
  BY DEF Provision, SetEnabled
<1>2. /\ DOMAIN extractor' = Extractor
      /\ \A f \in Extractor : f # e => extractor'[f] = extractor[f]
      /\ {"enabled", "manifest"} \subseteq DOMAIN extractor'[e]
      /\ extractor'[e].manifest = None \/ (extractor[e] # None /\ extractor'[e].manifest = extractor[e].manifest)
  <2>1. CASE Provision(e)
    BY <2>1 DEF Provision, IInv, RowsOK
  <2>2. CASE SetEnabled(e)
    BY <2>2 DEF SetEnabled, IInv, RowsOK, HasRow
  <2> QED BY <2>1, <2>2
<1>3. \A f \in Extractor : Registered(f)' => Registered(f) /\ extractor'[f].manifest = extractor[f].manifest
  BY <1>2 DEF Registered
<1>4. RequestsOK'
  BY <1>1 DEF IInv, RequestsOK, Reading, Inserting, Elsewhere
<1>5. RowsOK'
  BY <1>1, <1>2 DEF IInv, RowsOK, HasRow, Registering, RequestsOK, Reading, Inserting, Elsewhere
<1>6. DeletedAreLocked' /\ AtMostOnce' /\ KeptIsClaimed'
  BY <1>1 DEF IInv, DeletedAreLocked, AtMostOnce, KeptIsClaimed, Writing, Registering
<1>7. DeclaredIsClaimed'
  BY <1>1, <1>3 DEF IInv, DeclaredIsClaimed
<1> QED BY <1>4, <1>5, <1>6, <1>7 DEF IInv

(* A registration beside another one of the same extractor is a race.      *)
LEMMA RegisterPreserves ==
  ASSUME IInv, NEW q \in Request, NEW e \in Extractor, NEW m \in Declarable[e], Register(q, e, m)
  PROVE  IInv'
<1> DEFINE new == [kind |-> "register", pc |-> "reconcile", e |-> e, m |-> m,
                   current |-> extractor[e].manifest]
<1>1. /\ extractor[e] # None /\ req[q] = Idle
      /\ req' = [req EXCEPT ![q] = new]
      /\ raced \subseteq raced' /\ raced' \subseteq Extractor
      /\ UNCHANGED <<extractor, claims>>
  BY DEF Register, Begin, registry, IInv, RowsOK
<1>2. /\ DOMAIN req' = Request /\ req'[q] = new
      /\ \A p \in Request \ {q} : req'[p] = req[p]
  BY <1>1 DEF IInv, RequestsOK
<1>3. Reading(new)
  BY DEF Reading
<1>4. RequestsOK'
  BY <1>2, <1>3 DEF IInv, RequestsOK, Reading, Inserting, Elsewhere
<1>5. \A p \in Request : Writing(p)' => Writing(p) /\ req'[p] = req[p]
  BY <1>2 DEF Writing
<1>6. HasRow(e)
  BY <1>1 DEF IInv, RowsOK
<1>7. RowsOK'
  <2>1. \A p \in Request : Registering(p)' => HasRow(req'[p].e)
    BY <1>2, <1>6 DEF IInv, RowsOK, Registering
  <2> QED BY <1>1, <2>1 DEF IInv, RowsOK, HasRow
<1>8. DeletedAreLocked' /\ KeptIsClaimed'
  BY <1>1, <1>5 DEF IInv, DeletedAreLocked, KeptIsClaimed
<1>9. DeclaredIsClaimed'
  BY <1>1 DEF IInv, DeclaredIsClaimed, Registered
<1>10. AtMostOnce'
  <2>1. ASSUME NEW o \in Request \ {q}, Registering(o)', req'[o].e = e
        PROVE  e \in raced'
    BY <2>1, <1>2 DEF Register, Registering
  <2>2. \A p, o \in Request \ {q} :
          p # o /\ Registering(p)' /\ Registering(o)' /\ req'[p].e = req'[o].e => req'[p].e \in raced'
    BY <1>1, <1>2 DEF IInv, AtMostOnce, Registering
  <2>3. req'[q].e = e
    BY <1>2
  <2> QED BY <2>1, <2>2, <2>3 DEF AtMostOnce
<1> QED BY <1>4, <1>7, <1>8, <1>9, <1>10 DEF IInv

(* Reading the claims: what it deletes nobody else has deleted.            *)
LEMMA ReconcilePreserves ==
  ASSUME IInv, NEW q \in Request, ReconcileClaims(q)
  PROVE  IInv'
<1> DEFINE e == req[q].e
           m == req[q].m
           new == [kind |-> "register", pc |-> "insert", e |-> e, m |-> m,
                   stale |-> Stale(e, m), missing |-> Missing(e, m)]
<1>1. UNCHANGED <<extractor, claims, raced>>
  BY DEF ReconcileClaims, registry, history
<1>2. Reading(req[q]) /\ Registering(q)
  BY DEF ReconcileClaims, IInv, RequestsOK, Reading, Inserting, Elsewhere, Registering
<1>3. CASE req' = [req EXCEPT ![q] = Idle]
  BY <1>1, <1>3, OthersPreserve DEF IInv, RequestsOK, NoRegistration, registry
<1>4. CASE req' = [req EXCEPT ![q] = new]
  <2>1. /\ DOMAIN req' = Request /\ req'[q] = new
        /\ \A p \in Request \ {q} : req'[p] = req[p]
    BY <1>4 DEF IInv, RequestsOK
  <2>2. e \in Extractor /\ m \in Declarable[e] /\ m \in Manifests
    BY <1>2 DEF Reading, Manifests
  <2>3. Stale(e, m) \in SUBSET Kind /\ Missing(e, m) \in SUBSET Kind
    BY <2>2, RoutingAssumption DEF Stale, Missing
  <2>4. Inserting(new)
    BY <2>2, <2>3 DEF Inserting
  <2>5. RequestsOK'
    BY <2>1, <2>4 DEF IInv, RequestsOK, Reading, Inserting, Elsewhere
  <2>6. \A p \in Request : Registering(p)' => Registering(p) /\ req'[p].e = req[p].e
    BY <1>2, <2>1 DEF Registering
  <2>7. RowsOK' /\ AtMostOnce'
    BY <1>1, <2>6 DEF IInv, RowsOK, AtMostOnce, HasRow
  <2>8. DeclaredIsClaimed'
    BY <1>1 DEF IInv, DeclaredIsClaimed, Registered
  <2>9. \A p \in Request \ {q} : Writing(p)' => Writing(p) /\ req'[p] = req[p]
    BY <2>1 DEF Writing
  <2>10. KeptIsClaimed'
    <3>1. \A k \in m.kinds \ Missing(e, m) : claims[k] = e
      BY DEF Missing
    <3> QED BY <1>1, <2>1, <2>9, <3>1 DEF IInv, KeptIsClaimed
  <2>11. DeletedAreLocked'
    <3>1. (\A k \in Stale(e, m) : claims[k] = e) /\ Stale(e, m) \cap m.kinds = {}
      BY DEF Stale
    <3>2. \A p \in Request \ {q} : Writing(p) => req[p].stale \cap Stale(e, m) = {}
      BY DEF ReconcileClaims, Writing
    <3>3. ASSUME NEW p \in Request, Writing(p)'
          PROVE  /\ \A k \in req'[p].stale : claims'[k] = req'[p].e
                 /\ req'[p].stale \cap req'[p].m.kinds = {}
      BY <1>1, <2>1, <2>9, <3>1, <3>3 DEF IInv, DeletedAreLocked
    <3>4. ASSUME NEW p \in Request, NEW o \in Request, p # o, Writing(p)', Writing(o)'
          PROVE  req'[p].stale \cap req'[o].stale = {}
      BY <2>1, <2>9, <3>2, <3>4 DEF IInv, DeletedAreLocked
    <3> QED BY <3>3, <3>4 DEF DeletedAreLocked
  <2> QED BY <2>5, <2>7, <2>8, <2>10, <2>11 DEF IInv
<1> QED BY <1>3, <1>4 DEF ReconcileClaims, Done

(* What a commit releases is its extractor's own, and what it takes is     *)
(* free: nobody else's claims move.                                        *)
LEMMA CommitPreserves ==
  ASSUME IInv, NEW q \in Request, CommitRegistration(q)
  PROVE  IInv'
<1> DEFINE r == req[q]
<1>1. /\ Writing(q)
      /\ \A k \in r.missing : claims[k] = None
      /\ claims' = [k \in Kind |-> IF k \in r.stale THEN None
                                   ELSE IF k \in r.missing THEN r.e ELSE claims[k]]
      /\ extractor' = [extractor EXCEPT ![r.e].manifest = r.m]
      /\ req' = [req EXCEPT ![q] = Idle]
      /\ UNCHANGED raced
  BY DEF CommitRegistration, Writing, Free, Done, history
<1>2. Inserting(r) /\ Registering(q)
  BY <1>1 DEF IInv, RequestsOK, Reading, Inserting, Elsewhere, Writing, Registering
<1>3. /\ r.e \in Extractor /\ r.e # None /\ r.m \in Declarable[r.e]
      /\ r.stale \subseteq Kind /\ r.missing \subseteq Kind /\ r.m.kinds \subseteq Kind
  BY <1>2, RoutingAssumption DEF Inserting
<1>4. /\ DOMAIN req' = Request /\ req'[q] = Idle
      /\ \A p \in Request \ {q} : req'[p] = req[p]
  BY <1>1 DEF IInv, RequestsOK
<1>5. HasRow(r.e)
  BY <1>2 DEF IInv, RowsOK
<1>6. /\ DOMAIN extractor' = Extractor
      /\ \A f \in Extractor \ {r.e} : extractor'[f] = extractor[f]
      /\ extractor'[r.e].manifest = r.m
      /\ {"enabled", "manifest"} \subseteq DOMAIN extractor'[r.e]
  BY <1>1, <1>3, <1>5 DEF IInv, RowsOK, HasRow
<1>7. \A p \in Request : (Registering(p)' => Registering(p) /\ p # q) /\ (Writing(p)' => Writing(p) /\ p # q)
  BY <1>4 DEF Registering, Writing
<1>8. \A k \in r.stale : claims[k] = r.e
  BY <1>1 DEF IInv, DeletedAreLocked
<1>9. \A k \in Kind, f \in Extractor :
        claims[k] = f /\ (f # r.e \/ k \notin r.stale) => claims'[k] = f
  <2>1. SUFFICES ASSUME NEW k \in Kind, NEW f \in Extractor, claims[k] = f, f # r.e \/ k \notin r.stale
                 PROVE  claims'[k] = f
    OBVIOUS
  <2>2. k \notin r.stale
    BY <1>8, <2>1
  <2>3. f # None
    BY RoutingAssumption
  <2> QED BY <1>1, <2>1, <2>2, <2>3
<1>10. RequestsOK'
  BY <1>4 DEF IInv, RequestsOK, Reading, Inserting, Elsewhere
<1>11. RowsOK'
  <2>1. \A f \in Extractor : HasRow(f) => HasRow(f)'
    BY <1>6 DEF HasRow
  <2>2. ASSUME NEW p \in Request, Registering(p)'
        PROVE  HasRow(req[p].e)'
    <3>1. p # q /\ Registering(p) /\ req'[p] = req[p]
      BY <1>4, <1>7, <2>2
    <3>2. req[p].e \in Extractor
      BY <3>1 DEF IInv, RequestsOK, Reading, Inserting, Elsewhere, Registering
    <3>3. HasRow(req[p].e)
      BY <3>1 DEF IInv, RowsOK
    <3>4. {"enabled", "manifest"} \subseteq DOMAIN extractor'[req[p].e]
      BY <2>1, <3>2, <3>3 DEF HasRow
    <3> QED BY <3>1, <3>4 DEF HasRow
  <2>3. \A f \in Extractor : extractor'[f] # None => HasRow(f)'
    BY <1>6, <2>1 DEF IInv, RowsOK, HasRow
  <2>4. DOMAIN extractor' = Extractor /\ raced' \subseteq Extractor
    BY <1>1, <1>6 DEF IInv, RowsOK
  <2>5. DOMAIN claims' = Kind
    BY DEF CommitRegistration
  <2> QED BY <2>2, <2>3, <2>4, <2>5 DEF RowsOK
<1>12. AtMostOnce'
  BY <1>1, <1>4, <1>7 DEF IInv, AtMostOnce
<1>13. DeletedAreLocked'
  <2>1. ASSUME NEW p \in Request, Writing(p)'
        PROVE  /\ \A k \in req'[p].stale : claims'[k] = req'[p].e
               /\ req'[p].stale \cap req'[p].m.kinds = {}
    <3>1. p # q /\ Writing(p) /\ req'[p] = req[p]
      BY <1>4, <1>7, <2>1
    <3>2. req[p].stale \subseteq Kind /\ req[p].e \in Extractor
      BY <3>1 DEF IInv, RequestsOK, Reading, Inserting, Elsewhere, Writing
    <3>3. \A k \in req[p].stale : k \notin r.stale /\ claims[k] = req[p].e
      BY <1>1, <3>1 DEF IInv, DeletedAreLocked
    <3>4. req[p].stale \cap req[p].m.kinds = {}
      BY <3>1 DEF IInv, DeletedAreLocked
    <3> QED BY <1>9, <3>1, <3>2, <3>3, <3>4
  <2>2. \A p, o \in Request : p # o /\ Writing(p)' /\ Writing(o)' => req'[p].stale \cap req'[o].stale = {}
    BY <1>4, <1>7 DEF IInv, DeletedAreLocked
  <2> QED BY <2>1, <2>2 DEF DeletedAreLocked
<1>14. DeclaredIsClaimed'
  <2>1. SUFFICES ASSUME NEW f \in Extractor, f \notin raced, Registered(f)',
                        NEW k \in extractor'[f].manifest.kinds
                 PROVE  k \in Kind /\ claims'[k] = f
    BY <1>1 DEF DeclaredIsClaimed
  <2>2. CASE f # r.e
    <3>1. k \in Kind /\ claims[k] = f
      BY <1>6, <2>1, <2>2 DEF IInv, DeclaredIsClaimed, Registered
    <3> QED BY <1>9, <2>2, <3>1
  <2>3. CASE f = r.e
    <3>1. k \in r.m.kinds /\ k \in Kind /\ k \notin r.stale
      BY <1>1, <1>3, <1>6, <2>3 DEF IInv, DeletedAreLocked
    <3>2. CASE k \in r.missing
      BY <1>1, <2>3, <3>1, <3>2
    <3>3. CASE k \notin r.missing
      <4>1. claims[k] = r.e
        BY <1>1, <2>1, <2>3, <3>1, <3>3 DEF IInv, KeptIsClaimed
      <4> QED BY <1>1, <2>3, <3>1, <3>3, <4>1
    <3> QED BY <3>2, <3>3
  <2> QED BY <2>2, <2>3
<1>15. KeptIsClaimed'
  <2>1. SUFFICES ASSUME NEW p \in Request, Writing(p)', req'[p].e \notin raced,
                        NEW k \in req'[p].m.kinds \ req'[p].missing
                 PROVE  claims'[k] = req'[p].e
    BY <1>1 DEF KeptIsClaimed
  <2>2. p # q /\ Writing(p) /\ req'[p] = req[p]
    BY <1>4, <1>7, <2>1
  <2>3. Inserting(req[p]) /\ Registering(p)
    BY <2>2 DEF IInv, RequestsOK, Reading, Inserting, Elsewhere, Writing, Registering
  <2>4. req[p].e \in Extractor /\ k \in Kind
    BY <2>1, <2>2, <2>3, RoutingAssumption DEF Inserting
  <2>5. req[p].e # r.e
    BY <1>2, <2>1, <2>2, <2>3 DEF IInv, AtMostOnce
  <2>6. claims[k] = req[p].e
    BY <2>1, <2>2 DEF IInv, KeptIsClaimed
  <2> QED BY <1>9, <2>2, <2>4, <2>5, <2>6
<1> QED BY <1>10, <1>11, <1>12, <1>13, <1>14, <1>15 DEF IInv

-----------------------------------------------------------------------------
(* Routing and the work itself are not the registry's.                     *)
LEMMA RoutingRegistersNothing ==
  ASSUME IInv,
         \/ \E i \in RunId : Claim(i) \/ (\E state \in {"queued", "dead"} : Fail(i, state))
         \/ \E q \in Request :
              \/ \E v \in FileVersion, old \in FileVersion \cup {None} : Upload(q, v, old)
              \/ \E i \in RunId : SubmitResult(q, i)
              \/ \E v \in FileVersion, k \in Kind, variant \in Variant : Ask(q, v, k, variant)
              \/ CommitUpload(q) \/ CommitResult(q) \/ CommitAsk(q) \/ Rollback(q)
  PROVE  NoRegistration /\ UNCHANGED <<registry, raced>>
<1> USE DEF NoRegistration, Elsewhere, history
<1>1. DOMAIN req = Request
  BY DEF IInv, RequestsOK
<1>2. ASSUME NEW i \in RunId, Claim(i) \/ (\E state \in {"queued", "dead"} : Fail(i, state))
      PROVE  NoRegistration /\ UNCHANGED <<registry, raced>>
  BY <1>1, <1>2 DEF Claim, Fail
<1>3. ASSUME NEW q \in Request, NEW v, NEW old, Upload(q, v, old)
      PROVE  NoRegistration /\ UNCHANGED <<registry, raced>>
  BY <1>1, <1>3 DEF Upload, Begin
<1>4. ASSUME NEW q \in Request, NEW i, SubmitResult(q, i)
      PROVE  NoRegistration /\ UNCHANGED <<registry, raced>>
  BY <1>1, <1>4 DEF SubmitResult, Begin
<1>5. ASSUME NEW q \in Request, NEW v, NEW k, NEW variant, Ask(q, v, k, variant)
      PROVE  NoRegistration /\ UNCHANGED <<registry, raced>>
  BY <1>1, <1>5 DEF Ask, Begin
<1>6. ASSUME NEW q \in Request, CommitUpload(q) \/ CommitResult(q) \/ CommitAsk(q) \/ Rollback(q)
      PROVE  NoRegistration /\ UNCHANGED <<registry, raced>>
  BY <1>1, <1>6 DEF CommitUpload, CommitResult, CommitAsk, Rollback, Done
<1> QED BY <1>2, <1>3, <1>4, <1>5, <1>6

LEMMA StepPreserves == IInv /\ [Next]_vars => IInv'
<1> SUFFICES ASSUME IInv, [Next]_vars
             PROVE  IInv'
  OBVIOUS
<1>1. ASSUME NEW e \in Extractor, Provision(e) \/ SetEnabled(e)
      PROVE  IInv'
  BY <1>1, AdministrationPreserves
<1>2. ASSUME NEW q \in Request, NEW e \in Extractor, NEW m \in Declarable[e], Register(q, e, m)
      PROVE  IInv'
  BY <1>2, RegisterPreserves
<1>3. ASSUME NEW q \in Request, ReconcileClaims(q) \/ CommitRegistration(q)
      PROVE  IInv'
  BY <1>3, ReconcilePreserves, CommitPreserves
<1>4. CASE \/ \E i \in RunId : Claim(i) \/ (\E state \in {"queued", "dead"} : Fail(i, state))
           \/ \E q \in Request :
                \/ \E v \in FileVersion, old \in FileVersion \cup {None} : Upload(q, v, old)
                \/ \E i \in RunId : SubmitResult(q, i)
                \/ \E v \in FileVersion, k \in Kind, variant \in Variant : Ask(q, v, k, variant)
                \/ CommitUpload(q) \/ CommitResult(q) \/ CommitAsk(q) \/ Rollback(q)
  BY <1>4, RoutingRegistersNothing, OthersPreserve
<1>5. CASE UNCHANGED vars
  <2>1. NoRegistration /\ UNCHANGED <<registry, raced>>
    BY <1>5 DEF vars, registry, NoRegistration, IInv, RequestsOK
  <2> QED BY <2>1, OthersPreserve
<1> QED BY <1>1, <1>2, <1>3, <1>4, <1>5 DEF Next

(* The invariant of manifests, claims and registrations in progress holds  *)
(* in every reachable state.                                               *)
THEOREM Invariance == Spec => []IInv
<1>1. Init => IInv
  BY InitEstablishes
<1> QED BY <1>1, StepPreserves, PTL DEF Spec

(* However many containers register, upgrade and take over each other's    *)
(* kinds at a time, no two that do not race with themselves are            *)
(* registered with one kind (extractors.py: _reconcile_claims).            *)
THEOREM OneProducerAlways == Spec => []OneProducer
<1>1. IInv => OneProducer
  <2>1. SUFFICES ASSUME IInv, NEW e \in Extractor, NEW f \in Extractor, e # f,
                        Registered(e), Registered(f), e \notin raced, f \notin raced
                 PROVE  extractor[e].manifest.kinds \cap extractor[f].manifest.kinds = {}
    BY DEF OneProducer
  <2>2. /\ \A k \in extractor[e].manifest.kinds : claims[k] = e
        /\ \A k \in extractor[f].manifest.kinds : claims[k] = f
    BY <2>1 DEF IInv, DeclaredIsClaimed
  <2> QED BY <2>1, <2>2
<1> QED BY <1>1, Invariance, PTL

-----------------------------------------------------------------------------
(* Numbers and folds, whatever is folded.                                  *)

(* Every set of numbers has a least one.                                   *)
LEMMA Least ==
    ASSUME NEW T \in SUBSET Nat, T # {}
    PROVE  \E n \in T : \A m \in T : n <= m
<1> DEFINE R == OpToRel(<, Nat)
<1>1. IsWellFoundedOn(R, Nat)
  BY NatLessThanWellFounded
<1>2. \A m, n \in Nat : m < n => <<m, n>> \in R
  BY DEF OpToRel
<1> HIDE DEF R
<1>3. PICK n \in T : \A m \in T : ~(<<m, n>> \in R)
  BY <1>1, WFMin
<1>4. \A m \in T : ~(m < n)
  BY <1>2, <1>3
<1>5. QED
  BY <1>4

LEMMA SetInduction ==
    ASSUME NEW S \in SUBSET Nat, 0 \in S, \A n \in S : n + 1 \in S
    PROVE  S = Nat
<1> SUFFICES ASSUME Nat \ S # {} PROVE FALSE
  OBVIOUS
<1>1. PICK n \in Nat \ S : \A m \in Nat \ S : n <= m
  BY Least
<1>2. n - 1 \in Nat /\ n - 1 \notin S
  BY <1>1
<1>3. QED
  BY <1>1, <1>2

(* The least of some ids, and the greatest of some indices.                *)
LEMMA LeastId ==
    ASSUME NEW n \in Nat, NEW T \in SUBSET (1 .. n), T # {}
    PROVE  (CHOOSE i \in T : \A j \in T : i <= j) \in T
<1>1. \E i \in T : \A j \in T : i <= j
  BY Least
<1>2. QED
  BY <1>1

LEMMA GreatestIndex ==
    ASSUME NEW n \in Nat, NEW T \in SUBSET (1 .. n), T # {}
    PROVE  Max(T) \in T
<1> DEFINE D == {n - x : x \in T}
<1>1. \A x \in T : x \in Nat /\ n - x \in Nat
  OBVIOUS
<1>7. D \subseteq Nat /\ D # {}
  BY <1>1
<1>2. PICK d \in D : \A m \in D : d <= m
  BY <1>7, Least
<1>3. PICK x \in T : d = n - x
  OBVIOUS
<1>4. \A y \in T : n - x <= n - y
  BY <1>2, <1>3
<1>5. \A y \in T : x >= y
  BY <1>1, <1>4
<1>6. QED
  BY <1>5 DEF Max

-----------------------------------------------------------------------------
(* Folds. To fold is to know a value for every subset, from the subset     *)
(* without its chosen element.                                             *)

Foldable(S, V, base, G, C) ==
    /\ IsFiniteSet(S) /\ base \in V /\ G \in [S \X V -> V]
    /\ \A s \in SUBSET S : s # {} => C[s] \in s

Folding(w, S, V, base, G, C) ==
    /\ w \in [SUBSET S -> V]
    /\ \A s \in SUBSET S : w[s] = IF s = {} THEN base ELSE G[<<C[s], w[s \ {C[s]}]>>]

LEMMA FoldExists ==
    ASSUME NEW S, NEW V, NEW base, NEW G, NEW C, Foldable(S, V, base, G, C)
    PROVE  \E w : Folding(w, S, V, base, G, C)
<1>0. /\ IsFiniteSet(S) /\ base \in V /\ G \in [S \X V -> V]
      /\ \A s \in SUBSET S : s # {} => C[s] \in s
  BY DEF Foldable
<1> DEFINE Upto(n) == {s \in SUBSET S : Cardinality(s) <= n}
           Folds(w, n) == \A s \in Upto(n) :
                             w[s] = IF s = {} THEN base ELSE G[<<C[s], w[s \ {C[s]}]>>]
           T == {n \in Nat : \E w \in [Upto(n) -> V] : Folds(w, n)}
<1>1. \A s \in SUBSET S : IsFiniteSet(s) /\ Cardinality(s) \in Nat /\ Cardinality(s) <= Cardinality(S)
  BY <1>0, FS_Subset, FS_CardinalityType
<1>2. \A s \in SUBSET S : s # {} => /\ s \ {C[s]} \in SUBSET S
                                   /\ Cardinality(s \ {C[s]}) = Cardinality(s) - 1
  BY <1>0, <1>1, FS_RemoveElement
<1>3. 0 \in T
  <2> DEFINE w == [s \in Upto(0) |-> base]
  <2>1. \A s \in Upto(0) : s = {}
    BY <1>1, FS_EmptySet
  <2>2. w \in [Upto(0) -> V] /\ Folds(w, 0)
    BY <1>0, <2>1
  <2>3. QED
    BY <2>2
<1>4. ASSUME NEW n \in T PROVE n + 1 \in T
  <2>1. PICK w \in [Upto(n) -> V] : Folds(w, n)
    OBVIOUS
  <2> DEFINE v == [s \in Upto(n + 1) |-> IF s \in Upto(n) THEN w[s]
                                         ELSE G[<<C[s], w[s \ {C[s]}]>>]]
  <2>2. n \in Nat /\ Upto(n) \subseteq Upto(n + 1)
    BY <1>1
  <2>3. \A s \in Upto(n + 1) : s # {} => s \ {C[s]} \in Upto(n) /\ C[s] \in S
    BY <1>0, <1>1, <1>2, <2>2
  <2>4. \A s \in Upto(n + 1) : s \notin Upto(n) => s # {}
    <3>1. Cardinality({}) = 0 /\ 0 <= n
      BY <2>2, FS_EmptySet
    <3>2. {} \in Upto(n)
      BY <3>1
    <3>3. QED
      BY <3>2
  <2>5. v \in [Upto(n + 1) -> V]
    <3>1. ASSUME NEW s \in Upto(n + 1), s \notin Upto(n)
          PROVE  G[<<C[s], w[s \ {C[s]}]>>] \in V
      <4>1. w[s \ {C[s]}] \in V /\ C[s] \in S
        BY <2>3, <2>4, <3>1
      <4>2. QED
        BY <1>0, <4>1
    <3>2. \A s \in Upto(n + 1) : v[s] \in V
      BY <3>1
    <3>3. QED
      BY <3>2
  <2>6. ASSUME NEW s \in Upto(n + 1)
        PROVE  v[s] = IF s = {} THEN base ELSE G[<<C[s], v[s \ {C[s]}]>>]
    <3>1. s # {} => v[s \ {C[s]}] = w[s \ {C[s]}]
      BY <2>2, <2>3
    <3>2. CASE s \in Upto(n)
      BY <2>1, <3>1, <3>2
    <3>3. CASE s \notin Upto(n)
      BY <2>4, <3>1, <3>3
    <3>4. QED
      BY <3>2, <3>3
  <2>7. Folds(v, n + 1)
    BY <2>6
  <2> HIDE DEF v, Upto, Folds
  <2>8. \E x \in [Upto(n + 1) -> V] : Folds(x, n + 1)
    BY <2>5, <2>7
  <2>9. n + 1 \in Nat
    BY <2>2
  <2>10. QED
    BY <2>8, <2>9
<1> HIDE DEF T
<1>5. T = Nat
  <2>1. T \in SUBSET Nat
    BY DEF T
  <2>2. QED
    BY <2>1, <1>3, <1>4, SetInduction
<1>6. Cardinality(S) \in Nat /\ Upto(Cardinality(S)) = SUBSET S
  BY <1>0, <1>1, FS_CardinalityType
<1> HIDE DEF Upto
<1>7. PICK w \in [Upto(Cardinality(S)) -> V] : Folds(w, Cardinality(S))
  BY <1>5, <1>6 DEF T
<1>8. QED
  BY <1>6, <1>7 DEF Folding

(* What holds of the empty set and of every set whose remainder it holds   *)
(* of holds of the whole.                                                  *)
LEMMA FoldInduction ==
    ASSUME NEW S, IsFiniteSet(S), NEW P \in SUBSET (SUBSET S), {} \in P,
           NEW C, \A s \in SUBSET S : s # {} => C[s] \in s,
           \A s \in SUBSET S : s # {} /\ s \ {C[s]} \in P => s \in P
    PROVE  S \in P
<1> DEFINE T == {n \in Nat : \A s \in SUBSET S : Cardinality(s) = n => s \in P}
<1>1. \A s \in SUBSET S : IsFiniteSet(s) /\ Cardinality(s) \in Nat
  BY FS_Subset, FS_CardinalityType
<1>2. 0 \in T
  BY <1>1, FS_EmptySet
<1>3. ASSUME NEW n \in T PROVE n + 1 \in T
  <2> SUFFICES ASSUME NEW s \in SUBSET S, Cardinality(s) = n + 1 PROVE s \in P
    OBVIOUS
  <2>1. s # {}
    BY FS_EmptySet
  <2>2. C[s] \in s /\ IsFiniteSet(s)
    BY <1>1, <2>1
  <2>4. Cardinality(s \ {C[s]}) = Cardinality(s) - 1
    <3>1. PICK x \in s : x = C[s]
      BY <2>2
    <3>2. Cardinality(s \ {x}) = Cardinality(s) - 1
      BY <2>2, FS_RemoveElement
    <3>3. QED
      BY <3>1, <3>2
  <2>5. n \in Nat
    OBVIOUS
  <2>6. Cardinality(s \ {C[s]}) = n
    BY <2>4, <2>5
  <2>7. s \ {C[s]} \in SUBSET S
    OBVIOUS
  <2>8. s \ {C[s]} \in P
    BY <2>6, <2>7
  <2>3. QED
    BY <2>1, <2>8
<1> HIDE DEF T
<1>4. T = Nat
  BY <1>2, <1>3, SetInduction DEF T
<1>5. QED
  BY <1>1, <1>4 DEF T

-----------------------------------------------------------------------------
(* What a transaction sees of the jobs while it routes.                    *)
Db == [run : [RunId -> RunRow \cup {None}], asset : SUBSET AssetRow, fact : SUBSET RunId, ok : BOOLEAN]

SameWork(r, o) == r.v = o.v /\ r.e = o.e /\ r.input = o.input /\ r.variant = o.variant

OneRunPerInput(d) == \A i, j \in RunId :
    i # j /\ d.run[i] # None /\ d.run[j] # None => ~SameWork(d.run[i], d.run[j])

RowOK(r, assets) ==
    /\ r.input \in assets \cup {None}
    /\ r.state \in {"queued", "running"} =>
          \E version \in Version : r.key = Key(r.v, r.e, version, r.input, r.variant)
    /\ r.state \in {"running", "succeeded"} => r.by # None

Sound(d) ==
    /\ d \in Db
    /\ OneRunPerInput(d)
    /\ \A i \in RunId : d.run[i] # None => RowOK(d.run[i], d.asset)
    /\ \A a \in d.asset :
          d.run[a.run] # None /\ d.run[a.run].v = a.v /\ d.run[a.run].state = "succeeded"
    /\ \A i \in d.fact : d.run[i] # None /\ d.run[i].state = "succeeded"

(* Routing a version only adds: runs of that version, and what a reused    *)
(* run brings along.                                                       *)
Grows(a, b, v) ==
    /\ \A i \in RunId : a.run[i] # None => b.run[i] = a.run[i]
    /\ \A i \in RunId : a.run[i] = None /\ b.run[i] # None => b.run[i].v = v
    /\ a.asset \subseteq b.asset /\ a.fact \subseteq b.fact
    /\ \A x \in b.asset \ a.asset : b.run[x.run] # None /\ b.run[x.run].donor # None
    /\ \A i \in b.fact \ a.fact : b.run[i] # None /\ b.run[i].donor # None
    /\ b.ok => a.ok

LEMMA GrowsOn ==
  ASSUME NEW a \in Db, NEW b \in Db, NEW c \in Db, NEW v, Grows(a, b, v), Grows(b, c, v)
  PROVE  Grows(a, c, v)
<1>1. \A i \in RunId : a.run[i] # None => c.run[i] = a.run[i]
  BY DEF Grows
<1>2. \A i \in RunId : a.run[i] = None /\ c.run[i] # None => c.run[i].v = v
  BY DEF Grows
<1>3. \A x \in c.asset \ a.asset : c.run[x.run] # None /\ c.run[x.run].donor # None
  <2>1. \A x \in b.asset : x.run \in RunId
    BY DEF Db, AssetRow
  <2> QED BY <2>1 DEF Grows
<1>4. \A i \in c.fact \ a.fact : c.run[i] # None /\ c.run[i].donor # None
  BY DEF Grows, Db
<1> QED BY <1>1, <1>2, <1>3, <1>4 DEF Grows

LEMMA TakenStays ==
  ASSUME NEW a, NEW b, NEW v, Grows(a, b, v), NEW u, NEW e, NEW input, NEW variant,
         Taken(a, u, e, input, variant)
  PROVE  Taken(b, u, e, input, variant)
  BY DEF Grows, Taken

(* A new run is the only one over its input.                               *)
LEMMA InsertedStep ==
  ASSUME NEW d, Sound(d), NEW row \in RunRow, RowOK(row, d.asset)
  PROVE  LET n == Inserted(d, row) IN
         /\ Sound(n) /\ Grows(d, n, row.v)
         /\ n.asset = d.asset /\ n.fact = d.fact
         /\ n.ok => /\ NextId(d) \in RunId /\ d.run[NextId(d)] = None
                    /\ n.run = [d.run EXCEPT ![NextId(d)] = row]
                    /\ Taken(n, row.v, row.e, row.input, row.variant)
<1> DEFINE n == Inserted(d, row)
<1>0. d \in Db /\ row # None
  BY RoutingAssumption DEF Sound
<1>1. CASE Taken(d, row.v, row.e, row.input, row.variant) \/ Unused(d) = {}
  <2>1. n = [d EXCEPT !.ok = FALSE]
    BY <1>1 DEF Inserted
  <2> HIDE DEF n
  <2>2. n \in Db /\ n.run = d.run /\ n.asset = d.asset /\ n.fact = d.fact /\ n.ok = FALSE
    BY <1>0, <2>1 DEF Db
  <2>3. Sound(n) /\ Grows(d, n, row.v)
    BY <2>2 DEF Sound, OneRunPerInput, Grows
  <2> QED BY <2>2, <2>3 DEF n
<1>2. CASE ~Taken(d, row.v, row.e, row.input, row.variant) /\ Unused(d) # {}
  <2> DEFINE id == NextId(d)
  <2>1. n = [d EXCEPT !.run[id] = row]
    BY <1>2 DEF Inserted
  <2>2. id \in Unused(d)
    <3>1. Unused(d) \in SUBSET (1 .. MaxRuns) /\ MaxRuns \in Nat
      BY RoutingAssumption DEF Unused, RunId
    <3> QED BY <1>2, <3>1, LeastId DEF NextId
  <2>3. id \in RunId /\ d.run[id] = None
    BY <2>2 DEF Unused
  <2> HIDE DEF n, id
  <2>4. /\ n.run = [d.run EXCEPT ![id] = row] /\ n.asset = d.asset /\ n.fact = d.fact /\ n.ok = d.ok
        /\ n \in Db
    BY <1>0, <2>1, <2>3 DEF Db
  <2>5. n.run[id] = row /\ \A i \in RunId \ {id} : n.run[i] = d.run[i]
    BY <1>0, <2>3, <2>4 DEF Db
  <2>6. OneRunPerInput(n)
    <3>1. \A i \in RunId \ {id} : d.run[i] # None => ~SameWork(d.run[i], row)
      BY <1>2 DEF Taken, SameWork
    <3>2. ASSUME NEW i \in RunId, NEW j \in RunId, i # j, n.run[i] # None, n.run[j] # None
          PROVE  ~SameWork(n.run[i], n.run[j])
      <4>1. CASE i = id
        BY <2>5, <3>1, <3>2, <4>1 DEF SameWork
      <4>2. CASE j = id
        BY <2>5, <3>1, <3>2, <4>2 DEF SameWork
      <4>3. CASE i # id /\ j # id
        BY <2>5, <3>2, <4>3 DEF Sound, OneRunPerInput
      <4> QED BY <4>1, <4>2, <4>3
    <3> QED BY <3>2 DEF OneRunPerInput
  <2>7. \A i \in RunId : n.run[i] # None => RowOK(n.run[i], n.asset)
    BY <2>4, <2>5 DEF Sound
  <2>8. \A a \in d.asset : a.run \in RunId /\ a.run # id
    BY <1>0, <2>3 DEF Sound, Db, AssetRow
  <2>9. \A i \in d.fact : i \in RunId /\ i # id
    BY <1>0, <2>3 DEF Sound, Db
  <2>10. Sound(n)
    BY <2>4, <2>5, <2>6, <2>7, <2>8, <2>9 DEF Sound
  <2>11. Grows(d, n, row.v)
    BY <2>3, <2>4, <2>5 DEF Grows
  <2>12. Taken(n, row.v, row.e, row.input, row.variant)
    BY <1>0, <2>3, <2>5 DEF Taken
  <2> QED BY <2>3, <2>4, <2>10, <2>11, <2>12 DEF n, id
<1> QED BY <1>1, <1>2

LEMMA CreatedStep ==
  ASSUME NEW d, Sound(d), NEW m \in Manifests, NEW v \in FileVersion, NEW e \in Extractor,
         NEW input \in d.asset \cup {None}, NEW variant \in Variant \cup {None}
  PROVE  LET n == Created(d, m, v, e, input, variant) IN
         /\ Sound(n) /\ Grows(d, n, v)
         /\ n.asset = d.asset /\ n.fact = d.fact
         /\ n.ok => Taken(n, v, e, input, variant)
<1> DEFINE n == Created(d, m, v, e, input, variant)
           key == Key(v, e, m.version, input, variant)
           row == Row(v, e, input, variant, key, "queued", None, None)
<1>1. m.version \in Version /\ input \in AssetRow \cup {None}
  BY DEF Version, Sound, Db
<1>2. CASE Pending(d, key)
  <2>1. n = d
    BY <1>2 DEF Created
  <2>2. PICK i \in RunId : d.run[i] # None /\ d.run[i].key = key /\ d.run[i].state \in {"queued", "running"}
    BY <1>2 DEF Pending
  <2>3. PICK version \in Version :
          d.run[i].key = Key(d.run[i].v, d.run[i].e, version, d.run[i].input, d.run[i].variant)
    BY <2>2 DEF Sound, RowOK
  <2>4. d.run[i].v = v /\ d.run[i].e = e /\ d.run[i].input = input /\ d.run[i].variant = variant
    BY <2>2, <2>3 DEF Key
  <2>5. Taken(d, v, e, input, variant)
    BY <2>2, <2>4 DEF Taken
  <2>6. Grows(d, d, v)
    BY DEF Grows
  <2> HIDE DEF n
  <2> QED BY <2>1, <2>5, <2>6 DEF n
<1>3. CASE ~Pending(d, key)
  <2>1. n = Inserted(d, row)
    BY <1>3 DEF Created
  <2>2. row \in RunRow
    BY <1>1 DEF Row, RunRow, Key
  <2>3. /\ row.v = v /\ row.e = e /\ row.input = input /\ row.variant = variant
        /\ row.key = key /\ row.state = "queued"
    BY DEF Row
  <2>4. RowOK(row, d.asset)
    BY <1>1, <2>3 DEF RowOK
  <2> HIDE DEF n, row
  <2>5. /\ Sound(n) /\ Grows(d, n, row.v) /\ n.asset = d.asset /\ n.fact = d.fact
        /\ n.ok => Taken(n, row.v, row.e, row.input, row.variant)
    BY <2>1, <2>2, <2>4, InsertedStep
  <2> QED BY <2>3, <2>5 DEF n
<1> QED BY <1>2, <1>3

LEMMA ReusedStep ==
  ASSUME NEW d, Sound(d), NEW m \in Manifests, NEW v \in FileVersion, NEW e \in Extractor,
         Donors(d, m, v, e) # {}
  PROVE  LET n == Reused(d, m, v, e) IN
         /\ Sound(n) /\ Grows(d, n, v)
         /\ n.ok => Taken(n, v, e, None, None)
<1> DEFINE donor == CHOOSE i \in Donors(d, m, v, e) : \A j \in Donors(d, m, v, e) : i <= j
           row == Row(v, e, None, None, None, "succeeded", m.version, donor)
           new == Inserted(d, row)
           id == NextId(d)
           brought == {[v |-> v, kind |-> a.kind, run |-> id] : a \in {b \in d.asset : b.run = donor}}
           facts == IF donor \in d.fact THEN d.fact \cup {id} ELSE d.fact
           n == Reused(d, m, v, e)
<1>1. donor \in RunId
  <2>1. Donors(d, m, v, e) \in SUBSET (1 .. MaxRuns) /\ MaxRuns \in Nat
    BY RoutingAssumption DEF Donors, RunId
  <2>2. donor \in Donors(d, m, v, e)
    BY <2>1, LeastId
  <2> QED BY <2>2 DEF Donors
<1>2. m.version \in Version /\ m.version # None /\ donor # None
  BY <1>1, RoutingAssumption DEF Version
<1> HIDE DEF donor
<1>3. row \in RunRow
  BY <1>1, <1>2 DEF Row, RunRow
<1>4. /\ row.v = v /\ row.e = e /\ row.input = None /\ row.variant = None
      /\ row.state = "succeeded" /\ row.by = m.version /\ row.donor = donor
  BY DEF Row
<1>5. RowOK(row, d.asset)
  BY <1>2, <1>4 DEF RowOK
<1> HIDE DEF row
<1>6. /\ Sound(new) /\ Grows(d, new, v) /\ new.asset = d.asset /\ new.fact = d.fact
      /\ new.ok => /\ id \in RunId /\ d.run[id] = None
                   /\ new.run = [d.run EXCEPT ![id] = row]
                   /\ Taken(new, v, e, None, None)
  BY <1>3, <1>4, <1>5, InsertedStep
<1>7. n = IF ~new.ok THEN new ELSE [new EXCEPT
            !.asset = @ \cup {[v |-> v, kind |-> a.kind, run |-> id] : a \in {b \in d.asset : b.run = donor}},
            !.fact = IF donor \in @ THEN @ \cup {id} ELSE @]
  BY DEF Reused, donor, row
<1>8. CASE ~new.ok
  BY <1>6, <1>7, <1>8
<1>9. CASE new.ok
  <2> HIDE DEF n, new, id
  <2>1. n = [new EXCEPT !.asset = new.asset \cup brought, !.fact = facts]
    BY <1>6, <1>7, <1>9
  <2>2. d \in Db /\ new \in Db
    BY <1>6 DEF Sound
  <2>3. brought \subseteq AssetRow /\ facts \subseteq RunId
    BY <1>6, <1>9, <2>2 DEF Db, AssetRow
  <2>4. \A a \in brought : a.run = id /\ a.v = v
    OBVIOUS
  <2>5. d.fact \subseteq facts /\ facts \subseteq d.fact \cup {id}
    OBVIOUS
  <2> HIDE DEF brought, facts
  <2>6. /\ n.run = new.run /\ n.asset = d.asset \cup brought /\ n.fact = facts /\ n.ok = new.ok
        /\ n \in Db
    BY <1>6, <2>1, <2>2, <2>3 DEF Db
  <2>7. new.run[id] = row /\ row # None
    BY <1>3, <1>6, <1>9, <2>2, RoutingAssumption DEF Db
  <2>8. Sound(n)
    <3>1. OneRunPerInput(n)
      BY <1>6, <2>6 DEF Sound, OneRunPerInput
    <3>2. \A i \in RunId : n.run[i] # None => RowOK(n.run[i], n.asset)
      BY <1>6, <2>6 DEF Sound, RowOK
    <3>3. \A a \in n.asset : n.run[a.run] # None /\ n.run[a.run].v = a.v /\ n.run[a.run].state = "succeeded"
      BY <1>4, <1>6, <2>4, <2>6, <2>7 DEF Sound
    <3>4. \A i \in n.fact : n.run[i] # None /\ n.run[i].state = "succeeded"
      BY <1>4, <1>6, <2>5, <2>6, <2>7 DEF Sound
    <3> QED BY <2>6, <3>1, <3>2, <3>3, <3>4 DEF Sound
  <2>9. Grows(d, n, v)
    BY <1>2, <1>4, <1>6, <2>4, <2>5, <2>6, <2>7 DEF Grows
  <2>10. Taken(n, v, e, None, None)
    BY <1>6, <1>9, <2>6 DEF Taken
  <2> QED BY <2>8, <2>9, <2>10 DEF n
<1> QED BY <1>8, <1>9

(* What is to be routed: a survey, and the manifests it holds.             *)
Surveyed(seen) ==
    /\ DOMAIN seen.manifest \subseteq Extractor
    /\ \A e \in DOMAIN seen.manifest : seen.manifest[e] \in Declarable[e]

(* The original has its run, unless it was there before or is not wanted.  *)
OriginalDone(n, d, seen, v, e) ==
    <<e, None>> \notin seen.existing /\ Accepts(seen.manifest[e], v) /\ PredicateHolds(d, seen.manifest[e], v)
        => Taken(n, v, e, None, None)

AssetsDone(n, seen, v, e) == \A a \in seen.assets :
    a.kind \in seen.manifest[e].takes /\ <<e, a>> \notin seen.existing => Taken(n, v, e, a, None)

LEMMA OriginalStep ==
  ASSUME NEW d, Sound(d), NEW v \in FileVersion, NEW seen, Surveyed(seen), NEW e \in DOMAIN seen.manifest
  PROVE  LET n == RoutedOriginal(d, seen, v, e) IN
         /\ Sound(n) /\ Grows(d, n, v)
         /\ n.ok => OriginalDone(n, d, seen, v, e)
<1> DEFINE n == RoutedOriginal(d, seen, v, e)
           m == seen.manifest[e]
<1>1. m \in Manifests /\ e \in Extractor
  BY DEF Surveyed, Manifests
<1>2. CASE <<e, None>> \in seen.existing \/ ~Accepts(m, v) \/ ~PredicateHolds(d, m, v)
  <2>1. n = d
    BY <1>2 DEF RoutedOriginal
  <2>2. Grows(d, d, v)
    BY DEF Grows
  <2> QED BY <1>2, <2>1, <2>2 DEF OriginalDone
<1>3. CASE ~(<<e, None>> \in seen.existing \/ ~Accepts(m, v) \/ ~PredicateHolds(d, m, v)) /\ Donors(d, m, v, e) # {}
  <2>1. n = Reused(d, m, v, e)
    BY <1>3 DEF RoutedOriginal
  <2> HIDE DEF n, m
  <2>2. Sound(n) /\ Grows(d, n, v) /\ (n.ok => Taken(n, v, e, None, None))
    BY <1>1, <1>3, <2>1, ReusedStep
  <2> QED BY <2>2 DEF OriginalDone, n
<1>4. CASE ~(<<e, None>> \in seen.existing \/ ~Accepts(m, v) \/ ~PredicateHolds(d, m, v)) /\ Donors(d, m, v, e) = {}
  <2>1. n = Created(d, m, v, e, None, None)
    BY <1>4 DEF RoutedOriginal
  <2> HIDE DEF n, m
  <2>2. Sound(n) /\ Grows(d, n, v) /\ (n.ok => Taken(n, v, e, None, None))
    BY <1>1, <2>1, CreatedStep
  <2> QED BY <2>2 DEF OriginalDone, n
<1> QED BY <1>2, <1>3, <1>4

(* One job for each asset the extractor takes: what is routed after one    *)
(* leaves its run alone.                                                   *)
LEMMA AssetsStep ==
  ASSUME NEW d, Sound(d), NEW v \in FileVersion, NEW seen, Surveyed(seen), NEW e \in DOMAIN seen.manifest,
         seen.assets \subseteq d.asset, IsFiniteSet(seen.assets)
  PROVE  LET n == RoutedAssets(d, seen, v, e) IN
         /\ Sound(n) /\ Grows(d, n, v)
         /\ n.ok => AssetsDone(n, seen, v, e)
<1> DEFINE n == RoutedAssets(d, seen, v, e)
           m == seen.manifest[e]
           S == {a \in seen.assets : a.kind \in m.takes /\ <<e, a>> \notin seen.existing}
           V == {x \in Db : Sound(x) /\ Grows(d, x, v)}
           G == [p \in S \X V |-> Created(p[2], m, v, e, p[1], None)]
           C == [s \in SUBSET S |-> CHOOSE x \in s : TRUE]
           Rec(f) == f = [s \in SUBSET S |-> IF s = {} THEN d
                                             ELSE Created(f[s \ {CHOOSE x \in s : TRUE}], m, v, e,
                                                          CHOOSE x \in s : TRUE, None)]
           it == CHOOSE f : Rec(f)
<1>1. n = it[S]
  BY DEF RoutedAssets, FoldSet, MapThenFoldSet
<1>2. IsFiniteSet(S)
  BY FS_Subset
<1>3. m \in Manifests /\ e \in Extractor
  BY DEF Surveyed, Manifests
<1>4. ASSUME NEW x \in V, NEW a \in S
      PROVE  LET y == Created(x, m, v, e, a, None) IN
             y \in V /\ Grows(x, y, v) /\ (y.ok => Taken(y, v, e, a, None))
  <2> DEFINE y == Created(x, m, v, e, a, None)
  <2>1. Sound(x) /\ Grows(d, x, v) /\ a \in x.asset \cup {None}
    BY DEF Grows
  <2>2. None \in Variant \cup {None}
    OBVIOUS
  <2> HIDE DEF V, S, m
  <2>3. Sound(y) /\ Grows(x, y, v) /\ (y.ok => Taken(y, v, e, a, None))
    BY <1>3, <2>1, <2>2, CreatedStep
  <2> HIDE DEF y
  <2>4. d \in Db /\ x \in Db /\ y \in Db
    BY <2>1, <2>3 DEF Sound
  <2>5. Grows(d, y, v)
    BY <2>1, <2>3, <2>4, GrowsOn
  <2> QED BY <2>3, <2>4, <2>5 DEF V, y
<1>5. d \in V
  BY DEF Grows, Sound
<1>6. \A s \in SUBSET S : s # {} => C[s] \in s
  OBVIOUS
<1> HIDE DEF n, S, V, m
<1>7. G \in [S \X V -> V]
  BY <1>4
<1>8. PICK w : Folding(w, S, V, d, G, C)
  <2> HIDE DEF G, C
  <2>1. Foldable(S, V, d, G, C)
    BY <1>2, <1>5, <1>6, <1>7 DEF Foldable
  <2> QED BY <2>1, FoldExists
<1>9. Rec(w)
  <2>1. ASSUME NEW s \in SUBSET S, s # {}
        PROVE  w[s] = Created(w[s \ {CHOOSE x \in s : TRUE}], m, v, e, CHOOSE x \in s : TRUE, None)
    <3>1. C[s] = (CHOOSE x \in s : TRUE) /\ C[s] \in S /\ w[s \ {C[s]}] \in V
      BY <1>6, <1>8, <2>1 DEF Folding
    <3>2. w[s] = G[<<C[s], w[s \ {C[s]}]>>]
      BY <1>8, <2>1 DEF Folding
    <3> HIDE DEF C
    <3>3. G[<<C[s], w[s \ {C[s]}]>>] = Created(w[s \ {C[s]}], m, v, e, C[s], None)
      BY <3>1
    <3> QED BY <3>1, <3>2, <3>3
  <2>2. w \in [SUBSET S -> V] /\ \A s \in SUBSET S : s = {} => w[s] = d
    BY <1>8 DEF Folding
  <2> HIDE DEF G, C
  <2> QED BY <2>1, <2>2
<1>10. Rec(it)
  <2> HIDE DEF Rec
  <2> QED BY <1>9
<1> HIDE DEF it
<1>11. it[{}] = d
  BY <1>10
<1>12. \A s \in SUBSET S : s # {} => it[s] = Created(it[s \ {C[s]}], m, v, e, C[s], None)
  BY <1>10
<1> HIDE DEF Rec, G, C
<1> DEFINE Whole(s) == it[s] \in V /\ (it[s].ok => \A a \in s : Taken(it[s], v, e, a, None))
           P == {s \in SUBSET S : Whole(s)}
<1>13. {} \in P
  BY <1>5, <1>11
<1>14. ASSUME NEW s \in SUBSET S, s # {}, s \ {C[s]} \in P
       PROVE  s \in P
  <2> DEFINE x == it[s \ {C[s]}]
             y == it[s]
  <2>1. x \in V /\ (x.ok => \A a \in s \ {C[s]} : Taken(x, v, e, a, None))
    BY <1>14
  <2>2. C[s] \in S /\ y = Created(x, m, v, e, C[s], None)
    BY <1>6, <1>12, <1>14
  <2> HIDE DEF x, y
  <2>3. y \in V /\ Grows(x, y, v) /\ (y.ok => Taken(y, v, e, C[s], None))
    BY <1>4, <2>1, <2>2
  <2>4. y.ok => x.ok
    BY <2>3 DEF Grows
  <2>5. \A a \in s \ {C[s]} : y.ok => Taken(y, v, e, a, None)
    BY <2>1, <2>3, <2>4, TakenStays
  <2>6. Whole(s)
    BY <2>3, <2>5 DEF y
  <2> QED BY <2>6
<1>15. S \in P
  <2> HIDE DEF Whole
  <2>1. P \in SUBSET (SUBSET S)
    OBVIOUS
  <2> HIDE DEF P
  <2> QED BY <1>2, <1>6, <1>13, <1>14, <2>1, FoldInduction
<1>16. n \in V /\ (n.ok => \A a \in S : Taken(n, v, e, a, None))
  BY <1>1, <1>15
<1>17. n.ok => AssetsDone(n, seen, v, e)
  BY <1>16 DEF AssetsDone, S, m
<1> QED BY <1>16, <1>17 DEF V, n

(* An order of the candidates leaves none of them out.                     *)
LEMMA OrderVisitsAll ==
  ASSUME NEW M, IsFiniteSet(M), NEW order \in SetToSeqs(M)
  PROVE  /\ DOMAIN order = 1 .. Cardinality(M) /\ Cardinality(M) \in Nat
         /\ \A i \in DOMAIN order : order[i] \in M
         /\ \A e \in M : \E i \in DOMAIN order : order[i] = e
<1> DEFINE D == 1 .. Cardinality(M)
<1>1. order \in [D -> M] /\ \A i, j \in D : i # j => order[i] # order[j]
  BY DEF SetToSeqs
<1>2. Cardinality(M) \in Nat
  BY FS_CardinalityType
<1>3. IsFiniteSet(D) /\ Cardinality(D) = Cardinality(M)
  BY <1>2, FS_Interval
<1> HIDE DEF D
<1>4. order \in Injection(D, M)
  BY <1>1 DEF Injection, IsInjective
<1>5. order \in Surjection(D, M)
  BY <1>3, <1>4, FS_Injection
<1>6. \A e \in M : \E i \in D : order[i] = e
  BY <1>5 DEF Surjection
<1> QED BY <1>1, <1>2, <1>6 DEF D

(* What routing owes one candidate.                                        *)
CandidateDone(n, d, seen, v, e) == OriginalDone(n, d, seen, v, e) /\ AssetsDone(n, seen, v, e)

LEMMA DoneStays ==
  ASSUME NEW a, NEW b, NEW d, NEW v, NEW seen, NEW e, Grows(a, b, v), CandidateDone(a, d, seen, v, e)
  PROVE  CandidateDone(b, d, seen, v, e)
<1>1. OriginalDone(b, d, seen, v, e)
  BY TakenStays DEF CandidateDone, OriginalDone
<1>2. AssetsDone(b, seen, v, e)
  BY TakenStays DEF CandidateDone, AssetsDone
<1> QED BY <1>1, <1>2 DEF CandidateDone

LEMMA PredicateStays ==
  ASSUME NEW a, Sound(a), NEW b, NEW v, Grows(a, b, v), NEW m, PredicateHolds(a, m, v)
  PROVE  PredicateHolds(b, m, v)
<1>1. a.fact \subseteq RunId
  BY DEF Sound, Db
<1> QED BY <1>1 DEF Sound, Grows, PredicateHolds

LEMMA CandidateStep ==
  ASSUME NEW d, Sound(d), NEW v \in FileVersion, NEW seen, Surveyed(seen), NEW e \in DOMAIN seen.manifest,
         seen.assets \subseteq d.asset, IsFiniteSet(seen.assets),
         NEW x, Sound(x), Grows(d, x, v)
  PROVE  LET y == RoutedAssets(RoutedOriginal(x, seen, v, e), seen, v, e) IN
         /\ Sound(y) /\ Grows(d, y, v) /\ Grows(x, y, v)
         /\ y.ok => CandidateDone(y, d, seen, v, e)
<1> DEFINE mid == RoutedOriginal(x, seen, v, e)
           y == RoutedAssets(mid, seen, v, e)
<1> HIDE DEF mid, y
<1>1. Sound(mid) /\ Grows(x, mid, v) /\ (mid.ok => OriginalDone(mid, x, seen, v, e))
  BY OriginalStep DEF mid
<1>2. seen.assets \subseteq mid.asset
  BY <1>1 DEF Grows
<1>3. Sound(y) /\ Grows(mid, y, v) /\ (y.ok => AssetsDone(y, seen, v, e))
  BY <1>1, <1>2, AssetsStep DEF y
<1>4. d \in Db /\ x \in Db /\ mid \in Db /\ y \in Db
  BY <1>1, <1>3 DEF Sound
<1>5. Grows(x, y, v)
  BY <1>1, <1>3, <1>4, GrowsOn
<1>6. Grows(d, y, v)
  BY <1>4, <1>5, GrowsOn
<1>7. y.ok => OriginalDone(y, d, seen, v, e)
  <2>1. y.ok => mid.ok
    BY <1>3 DEF Grows
  <2>2. PredicateHolds(d, seen.manifest[e], v) => PredicateHolds(x, seen.manifest[e], v)
    BY PredicateStays
  <2>3. Taken(mid, v, e, None, None) => Taken(y, v, e, None, None)
    BY <1>3, TakenStays
  <2> QED BY <1>1, <2>1, <2>2, <2>3 DEF OriginalDone
<1> QED BY <1>3, <1>5, <1>6, <1>7 DEF CandidateDone, mid, y

(* Routing as a whole: every candidate gets what it wants, or the          *)
(* transaction does not commit.                                            *)
LEMMA RoutedStep ==
  ASSUME NEW d, Sound(d), NEW v \in FileVersion, NEW seen, Surveyed(seen),
         seen.assets \subseteq d.asset, IsFiniteSet(seen.assets),
         NEW order \in SetToSeqs(DOMAIN seen.manifest)
  PROVE  LET n == Routed(d, seen, v, order) IN
         /\ Sound(n) /\ Grows(d, n, v)
         /\ n.ok => \A e \in DOMAIN seen.manifest : CandidateDone(n, d, seen, v, e)
<1> DEFINE n == Routed(d, seen, v, order)
           S == DOMAIN order
           V == {x \in Db : Sound(x) /\ Grows(d, x, v)}
           Next1(x, e) == RoutedAssets(RoutedOriginal(x, seen, v, e), seen, v, e)
           G == [p \in S \X V |-> Next1(p[2], order[p[1]])]
           C == [s \in SUBSET S |-> Max(s)]
           Rec(f) == f = [s \in SUBSET S |-> IF s = {} THEN d
                                             ELSE Next1(f[s \ {Max(s)}], order[Max(s)])]
           it == CHOOSE f : Rec(f)
<1>1. n = it[S]
  BY DEF Routed, FoldLeft, MapThenFoldSet
<1>2. IsFiniteSet(DOMAIN seen.manifest)
  BY RoutingAssumption, FS_Subset DEF Surveyed
<1>3. /\ S = 1 .. Cardinality(DOMAIN seen.manifest) /\ Cardinality(DOMAIN seen.manifest) \in Nat
      /\ \A i \in S : order[i] \in DOMAIN seen.manifest
      /\ \A e \in DOMAIN seen.manifest : \E i \in S : order[i] = e
  BY <1>2, OrderVisitsAll
<1>4. ASSUME NEW x \in V, NEW i \in S
      PROVE  LET y == Next1(x, order[i]) IN
             y \in V /\ Grows(x, y, v) /\ (y.ok => CandidateDone(y, d, seen, v, order[i]))
  <2> DEFINE y == Next1(x, order[i])
  <2>1. PICK e \in DOMAIN seen.manifest : e = order[i]
    BY <1>3
  <2>2. Sound(x) /\ Grows(d, x, v)
    OBVIOUS
  <2>3. y = RoutedAssets(RoutedOriginal(x, seen, v, e), seen, v, e)
    BY <2>1
  <2> HIDE DEF V, y
  <2>4. Sound(y) /\ Grows(d, y, v) /\ Grows(x, y, v) /\ (y.ok => CandidateDone(y, d, seen, v, e))
    BY <2>2, <2>3, CandidateStep
  <2> QED BY <2>1, <2>4 DEF V, y, Sound
<1>5. d \in V
  BY DEF Grows, Sound
<1>6. IsFiniteSet(S) /\ \A s \in SUBSET S : s # {} => C[s] \in s
  <2>1. PICK k \in Nat : S = 1 .. k
    BY <1>3
  <2>2. IsFiniteSet(S)
    BY <2>1, FS_Interval
  <2>3. ASSUME NEW s \in SUBSET S, s # {} PROVE Max(s) \in s
    BY <2>1, <2>3, GreatestIndex
  <2> QED BY <2>2, <2>3
<1> HIDE DEF n, S, V, Next1
<1>7. G \in [S \X V -> V]
  BY <1>4
<1>8. PICK w : Folding(w, S, V, d, G, C)
  <2> HIDE DEF G, C
  <2>1. Foldable(S, V, d, G, C)
    BY <1>5, <1>6, <1>7 DEF Foldable
  <2> QED BY <2>1, FoldExists
<1>9. Rec(w)
  <2>1. ASSUME NEW s \in SUBSET S, s # {}
        PROVE  w[s] = Next1(w[s \ {Max(s)}], order[Max(s)])
    <3>1. C[s] = Max(s) /\ C[s] \in S /\ w[s \ {C[s]}] \in V
      BY <1>6, <1>8, <2>1 DEF Folding
    <3>2. w[s] = G[<<C[s], w[s \ {C[s]}]>>]
      BY <1>8, <2>1 DEF Folding
    <3> HIDE DEF C
    <3>3. G[<<C[s], w[s \ {C[s]}]>>] = Next1(w[s \ {C[s]}], order[C[s]])
      BY <3>1
    <3> QED BY <3>1, <3>2, <3>3
  <2>2. w \in [SUBSET S -> V] /\ \A s \in SUBSET S : s = {} => w[s] = d
    BY <1>8 DEF Folding
  <2> HIDE DEF G, C
  <2> QED BY <2>1, <2>2
<1>10. Rec(it)
  <2> HIDE DEF Rec
  <2> QED BY <1>9
<1> HIDE DEF it
<1>11. it[{}] = d
  BY <1>10
<1>12. \A s \in SUBSET S : s # {} => it[s] = Next1(it[s \ {C[s]}], order[C[s]])
  BY <1>10
<1> HIDE DEF Rec, G, C
<1> DEFINE Whole(s) == it[s] \in V /\ (it[s].ok => \A i \in s : CandidateDone(it[s], d, seen, v, order[i]))
           P == {s \in SUBSET S : Whole(s)}
<1>13. {} \in P
  BY <1>5, <1>11
<1>14. ASSUME NEW s \in SUBSET S, s # {}, s \ {C[s]} \in P
       PROVE  s \in P
  <2> DEFINE x == it[s \ {C[s]}]
             y == it[s]
  <2>1. x \in V /\ (x.ok => \A i \in s \ {C[s]} : CandidateDone(x, d, seen, v, order[i]))
    BY <1>14
  <2>2. C[s] \in S /\ y = Next1(x, order[C[s]])
    BY <1>6, <1>12, <1>14
  <2> HIDE DEF x, y
  <2>3. y \in V /\ Grows(x, y, v) /\ (y.ok => CandidateDone(y, d, seen, v, order[C[s]]))
    BY <1>4, <2>1, <2>2
  <2>4. y.ok => x.ok
    BY <2>3 DEF Grows
  <2>5. \A i \in s \ {C[s]} : y.ok => CandidateDone(y, d, seen, v, order[i])
    BY <2>1, <2>3, <2>4, DoneStays
  <2>6. Whole(s)
    BY <2>3, <2>5 DEF y
  <2> QED BY <2>6
<1>15. S \in P
  <2> HIDE DEF Whole
  <2>1. P \in SUBSET (SUBSET S)
    OBVIOUS
  <2> HIDE DEF P
  <2> QED BY <1>6, <1>13, <1>14, <2>1, FoldInduction
<1>16. n \in V /\ (n.ok => \A i \in S : CandidateDone(n, d, seen, v, order[i]))
  BY <1>1, <1>15
<1>17. n.ok => \A e \in DOMAIN seen.manifest : CandidateDone(n, d, seen, v, e)
  BY <1>3, <1>16
<1> QED BY <1>16, <1>17 DEF V, n

-----------------------------------------------------------------------------
(* What every state keeps about jobs and the transactions that route them. *)

Uploading(q) == req[q] # Idle /\ req[q].kind = "upload"
Resulting(q) == req[q] # Idle /\ req[q].kind = "result"
Asking(q) == req[q] # Idle /\ req[q].kind = "ask"

(* Who never lapsed could always be routed to.                             *)
RegistryOK ==
    /\ claims \in [Kind -> Extractor \cup {None}]
    /\ \A e \in Extractor : extractor[e] # None =>
          extractor[e] \in ExtractorRow /\ extractor[e].manifest \in Declarable[e] \cup {None}
    /\ \A q \in Request : Registering(q) => extractor[req[q].e] # None
    /\ \A e \in Extractor \ lapsed : Registered(e) /\ extractor[e].enabled

JobsOK ==
    /\ Sound(Database)
    /\ made \subseteq FileVersion
    /\ \A i \in RunId : run[i] # None => run[i].v \in made

SurveyOK(seen) == Surveyed(seen) /\ Extractor \ lapsed \subseteq DOMAIN seen.manifest

(* Nobody works on a version before it exists.                             *)
UploadsOK ==
    /\ \A q \in Request : Uploading(q) =>
          /\ req[q].v \in FileVersion \ made
          /\ SurveyOK(req[q].seen) /\ req[q].seen.existing = {} /\ req[q].seen.assets = {}
    /\ \A p, q \in Request : p # q /\ Uploading(p) /\ Uploading(q) => req[p].v # req[q].v

Outputs(i, envelope) == {[v |-> run[i].v, kind |-> k, run |-> i] : k \in envelope.kinds}

(* A result has its run to itself, and what its survey saw is still there. *)
ResultOK(r) ==
    /\ r.i \in RunId /\ run[r.i] # None /\ run[r.i].state = "running"
    /\ r.v = run[r.i].v /\ r.envelope \in Envelope[run[r.i].e]
    /\ SurveyOK(r.seen)
    /\ \A p \in r.seen.existing : Taken(Database, r.v, p[1], p[2], None)
    /\ Outputs(r.i, r.envelope) \subseteq r.seen.assets
    /\ r.seen.assets \subseteq asset \cup Outputs(r.i, r.envelope)
    /\ \A a \in r.seen.assets : a.v = r.v

ResultsOK ==
    /\ \A q \in Request : Resulting(q) => ResultOK(req[q])
    /\ \A p, q \in Request : p # q /\ Resulting(p) /\ Resulting(q) => req[p].i # req[q].i

AsksOK ==
    \A q \in Request : Asking(q) =>
        req[q].v \in made /\ req[q].e \in Extractor /\ req[q].variant \in Variant

(* NothingIsForgotten of any tables.                                       *)
WantsOriginal(e, v) == \A m \in Declarable[e] : Accepts(m, v) /\ ~m.when
WantsIfTold(e, v) == \A m \in Declarable[e] : Accepts(m, v)
WantsKind(e, k) == \A m \in Declarable[e] : k \in m.takes

Told(d, v) == \E i \in d.fact : d.run[i].v = v /\ d.run[i].donor = None
Left(d, v) == {a \in d.asset : a.v = v /\ d.run[a.run].donor = None}

Remembered(d, v, e) ==
    /\ WantsOriginal(e, v) => Taken(d, v, e, None, None)
    /\ WantsIfTold(e, v) /\ Told(d, v) => Taken(d, v, e, None, None)
    /\ \A a \in Left(d, v) : WantsKind(e, a.kind) => Taken(d, v, e, a, None)

AllRemembered(d, versions, always) == \A v \in versions, e \in always : Remembered(d, v, e)

WorkIInv ==
    /\ RegistryOK
    /\ JobsOK
    /\ UploadsOK
    /\ ResultsOK
    /\ AsksOK
    /\ AllRemembered(Database, made, Extractor \ lapsed)

(* Work is never undone: a run stays what it is over, and so does what it  *)
(* wrote.                                                                  *)
Persists(a, b) ==
    /\ \A i \in RunId : a.run[i] # None =>
          b.run[i] # None /\ SameWork(b.run[i], a.run[i]) /\ b.run[i].donor = a.run[i].donor
    /\ a.asset \subseteq b.asset /\ a.fact \subseteq b.fact

Quiet(a, b) == Persists(a, b) /\ b.asset = a.asset /\ b.fact = a.fact

LEMMA TakenPersists ==
  ASSUME NEW a, NEW b, Persists(a, b), NEW u, NEW e, NEW input, NEW variant, Taken(a, u, e, input, variant)
  PROVE  Taken(b, u, e, input, variant)
  BY DEF Persists, SameWork, Taken

LEMMA GrowsPersists ==
  ASSUME NEW a, NEW b, NEW v, Grows(a, b, v)
  PROVE  Persists(a, b)
  BY DEF Grows, Persists, SameWork

(* What is told and what is left, in terms of the tables before.           *)
LEMMA QuietTells ==
  ASSUME NEW a, Sound(a), NEW b, Quiet(a, b), NEW u
  PROVE  (Told(b, u) => Told(a, u)) /\ Left(b, u) \subseteq Left(a, u)
<1>1. a.fact \subseteq RunId /\ \A x \in a.asset : x.run \in RunId
  BY DEF Sound, Db, AssetRow
<1>2. Told(b, u) => Told(a, u)
  BY <1>1 DEF Told, Sound, Quiet, Persists, SameWork
<1>3. Left(b, u) \subseteq Left(a, u)
  BY <1>1 DEF Left, Sound, Quiet, Persists, SameWork
<1> QED BY <1>2, <1>3

LEMMA GrowingTells ==
  ASSUME NEW a, Sound(a), NEW b, NEW v, Grows(a, b, v), NEW u
  PROVE  (Told(b, u) => Told(a, u)) /\ Left(b, u) \subseteq Left(a, u)
<1>1. a.fact \subseteq RunId /\ \A x \in a.asset : x.run \in RunId
  BY DEF Sound, Db, AssetRow
<1>2. Told(b, u) => Told(a, u)
  BY <1>1 DEF Told, Sound, Grows
<1>3. Left(b, u) \subseteq Left(a, u)
  BY <1>1 DEF Left, Sound, Grows
<1> QED BY <1>2, <1>3

LEMMA StillRemembered ==
  ASSUME NEW a, NEW b, Persists(a, b), NEW v, NEW e, Remembered(a, v, e),
         (Told(b, v) => Told(a, v)) /\ Left(b, v) \subseteq Left(a, v)
  PROVE  Remembered(b, v, e)
  BY TakenPersists DEF Remembered

LEMMA QuietRemembers ==
  ASSUME NEW a, Sound(a), NEW b, Quiet(a, b), NEW versions, NEW always, NEW fewer \in SUBSET always,
         AllRemembered(a, versions, always)
  PROVE  AllRemembered(b, versions, fewer)
<1>1. Persists(a, b)
  BY DEF Quiet
<1>2. ASSUME NEW v \in versions, NEW e \in fewer
      PROVE  Remembered(b, v, e)
  <2>1. Remembered(a, v, e)
    BY DEF AllRemembered
  <2> QED BY <1>1, <2>1, QuietTells, StillRemembered
<1> QED BY <1>2 DEF AllRemembered

(* A run that is claimed or that fails.                                    *)
LEMMA RowChanged ==
  ASSUME NEW a, Sound(a), NEW i \in RunId, a.run[i] # None, a.run[i].state # "succeeded",
         NEW row \in RunRow, SameWork(row, a.run[i]), row.donor = a.run[i].donor, RowOK(row, a.asset),
         NEW b, b = [run |-> [a.run EXCEPT ![i] = row], asset |-> a.asset, fact |-> a.fact, ok |-> a.ok]
  PROVE  Sound(b) /\ Quiet(a, b)
<1>1. /\ b \in Db /\ b.run[i] = row /\ b.asset = a.asset /\ b.fact = a.fact /\ row # None
      /\ \A j \in RunId \ {i} : b.run[j] = a.run[j]
  BY RoutingAssumption DEF Sound, Db
<1>2. \A j \in RunId : (b.run[j] # None <=> a.run[j] # None)
                       /\ (a.run[j] # None => SameWork(b.run[j], a.run[j]) /\ b.run[j].donor = a.run[j].donor)
  BY <1>1 DEF SameWork
<1>3. OneRunPerInput(b)
  BY <1>2 DEF Sound, OneRunPerInput, SameWork
<1>4. \A j \in RunId : b.run[j] # None => RowOK(b.run[j], b.asset)
  BY <1>1, <1>2 DEF Sound
<1>5. (\A x \in a.asset : x.run \in RunId \ {i}) /\ (\A j \in a.fact : j \in RunId \ {i})
  BY DEF Sound, Db, AssetRow
<1>6. Sound(b)
  BY <1>1, <1>3, <1>4, <1>5 DEF Sound
<1> QED BY <1>1, <1>2, <1>6 DEF Quiet, Persists

(* What was queued for an older version.                                   *)
LEMMA SupersededStep ==
  ASSUME NEW a, Sound(a), NEW old, NEW b,
         b = [a EXCEPT !.run = [i \in RunId |->
                IF a.run[i] # None /\ a.run[i].v = old /\ a.run[i].state = "queued"
                THEN [a.run[i] EXCEPT !.state = "cancelled"] ELSE a.run[i]]]
  PROVE  /\ Sound(b) /\ Quiet(a, b)
         /\ \A i \in RunId : a.run[i] = None => b.run[i] = None
         /\ \A i \in RunId : a.run[i] # None /\ a.run[i].state # "queued" => b.run[i] = a.run[i]
<1>1. a \in Db
  BY DEF Sound
<1>2. ASSUME NEW i \in RunId, a.run[i] # None, a.run[i].state = "queued",
             NEW row, row = [a.run[i] EXCEPT !.state = "cancelled"]
      PROVE  /\ row \in RunRow /\ row # None /\ SameWork(row, a.run[i]) /\ row.donor = a.run[i].donor
             /\ RowOK(row, a.asset)
  <2>1. a.run[i] \in RunRow /\ RowOK(a.run[i], a.asset)
    BY <1>1, <1>2 DEF Sound, Db
  <2>2. /\ row.v = a.run[i].v /\ row.e = a.run[i].e /\ row.input = a.run[i].input
        /\ row.variant = a.run[i].variant /\ row.donor = a.run[i].donor /\ row.key = a.run[i].key
        /\ row.state = "cancelled" /\ row.by = a.run[i].by /\ row \in RunRow
    BY <1>2, <2>1 DEF RunRow
  <2> QED BY <2>1, <2>2, RoutingAssumption DEF SameWork, RowOK
<1>3. /\ b.asset = a.asset /\ b.fact = a.fact /\ b.ok = a.ok
      /\ DOMAIN b.run = RunId
      /\ \A i \in RunId : b.run[i] = IF a.run[i] # None /\ a.run[i].v = old /\ a.run[i].state = "queued"
                                     THEN [a.run[i] EXCEPT !.state = "cancelled"] ELSE a.run[i]
  BY <1>1 DEF Db
<1>4. \A i \in RunId : a.run[i] = None => b.run[i] = None
  BY <1>3
<1>5. \A i \in RunId : a.run[i] # None /\ a.run[i].state # "queued" => b.run[i] = a.run[i]
  BY <1>3
<1>6. ASSUME NEW i \in RunId, a.run[i] # None
      PROVE  /\ b.run[i] \in RunRow /\ b.run[i] # None /\ SameWork(b.run[i], a.run[i])
             /\ b.run[i].donor = a.run[i].donor /\ RowOK(b.run[i], a.asset)
  <2>1. CASE a.run[i].v = old /\ a.run[i].state = "queued"
    BY <1>2, <1>3, <1>6, <2>1
  <2>2. CASE ~(a.run[i].v = old /\ a.run[i].state = "queued")
    <3>1. b.run[i] = a.run[i]
      BY <1>3, <2>2
    <3> QED BY <1>1, <1>6, <3>1 DEF Sound, Db, SameWork
  <2> QED BY <2>1, <2>2
<1>7. b \in Db
  <2>1. \A i \in RunId : b.run[i] \in RunRow \cup {None}
    BY <1>4, <1>6
  <2>2. b.run \in [RunId -> RunRow \cup {None}]
    BY <1>1, <2>1 DEF Db
  <2> QED BY <1>1, <2>2 DEF Db
<1>8. OneRunPerInput(b)
  BY <1>4, <1>6 DEF Sound, OneRunPerInput, SameWork
<1>9. /\ \A x \in a.asset : x.run \in RunId /\ b.run[x.run] = a.run[x.run]
      /\ \A i \in a.fact : i \in RunId /\ b.run[i] = a.run[i]
  <2>1. (\A x \in a.asset : x.run \in RunId) /\ a.fact \subseteq RunId
    BY <1>1 DEF Db, AssetRow
  <2>2. \A x \in a.asset : a.run[x.run] # None /\ a.run[x.run].state # "queued"
    BY DEF Sound
  <2>3. \A i \in a.fact : a.run[i] # None /\ a.run[i].state # "queued"
    BY DEF Sound
  <2>4. \A x \in a.asset : b.run[x.run] = a.run[x.run]
    <3>1. ASSUME NEW x \in a.asset PROVE b.run[x.run] = a.run[x.run]
      <4>1. x.run \in RunId /\ a.run[x.run] # None /\ a.run[x.run].state # "queued"
        BY <2>1, <2>2
      <4> QED BY <1>5, <4>1, Zenon
    <3> QED BY <3>1
  <2>5. \A i \in a.fact : b.run[i] = a.run[i]
    BY <1>5, <2>1, <2>3, Zenon
  <2> QED BY <2>1, <2>4, <2>5, Zenon
<1>10. Sound(b)
  <2>1. \A i \in RunId : b.run[i] # None => RowOK(b.run[i], b.asset)
    BY <1>3, <1>4, <1>6
  <2>2. \A x \in b.asset : b.run[x.run] # None /\ b.run[x.run].v = x.v /\ b.run[x.run].state = "succeeded"
    BY <1>3, <1>9 DEF Sound
  <2>3. \A i \in b.fact : b.run[i] # None /\ b.run[i].state = "succeeded"
    BY <1>3, <1>9 DEF Sound
  <2> QED BY <1>7, <1>8, <2>1, <2>2, <2>3 DEF Sound
<1>11. Quiet(a, b)
  BY <1>3, <1>6 DEF Quiet, Persists
<1> QED BY <1>4, <1>5, <1>10, <1>11

(* A result adds to the tables: its run had written nothing before.        *)
WithResult(a, i, envelope, out) ==
    [a EXCEPT !.run[i].state = "succeeded",
              !.asset = {x \in @ : x.run # i} \cup out,
              !.fact = IF envelope.tells THEN @ \cup {i} ELSE @ \ {i}]

LEMMA AppliedStep ==
  ASSUME NEW a, Sound(a), NEW i \in RunId, a.run[i] # None, a.run[i].state = "running",
         NEW envelope, envelope.kinds \subseteq Kind, envelope.tells \in BOOLEAN,
         NEW out, out = {[v |-> a.run[i].v, kind |-> k, run |-> i] : k \in envelope.kinds},
         NEW b, b = WithResult(a, i, envelope, out)
  PROVE  /\ Sound(b) /\ Persists(a, b)
         /\ b.asset = a.asset \cup out /\ b.fact \subseteq a.fact \cup {i}
         /\ b.run[i] # None /\ b.run[i].v = a.run[i].v
         /\ \A j \in RunId \ {i} : b.run[j] = a.run[j]
<1> DEFINE row == [a.run[i] EXCEPT !.state = "succeeded"]
<1>1. a \in Db /\ a.run[i] \in RunRow /\ RowOK(a.run[i], a.asset)
  BY DEF Sound, Db
<1>2. /\ row.v = a.run[i].v /\ row.e = a.run[i].e /\ row.input = a.run[i].input
      /\ row.variant = a.run[i].variant /\ row.donor = a.run[i].donor /\ row.key = a.run[i].key
      /\ row.state = "succeeded" /\ row.by = a.run[i].by /\ row \in RunRow /\ row # None
  BY <1>1, RoutingAssumption DEF RunRow
<1>3. (\A x \in a.asset : x.run \in RunId \ {i}) /\ (\A j \in a.fact : j \in RunId \ {i})
  BY <1>1 DEF Sound, Db, AssetRow
<1>4. out \subseteq AssetRow
  BY <1>1 DEF AssetRow, RunRow
<1>5. \A x \in out : x.run = i /\ x.v = a.run[i].v
  OBVIOUS
<1> HIDE DEF row
<1>6. b.asset = a.asset \cup out /\ b.fact = (IF envelope.tells THEN a.fact \cup {i} ELSE a.fact) /\ b.ok = a.ok
  BY <1>1, <1>3 DEF Db, WithResult
<1>7. b.run = [a.run EXCEPT ![i] = row]
  BY <1>1 DEF Db, row, WithResult
<1>8. b.run[i] = row /\ \A j \in RunId \ {i} : b.run[j] = a.run[j]
  BY <1>1, <1>7 DEF Db
<1>9. b \in Db
  <2>1. b.run \in [RunId -> RunRow \cup {None}]
    BY <1>1, <1>2, <1>7 DEF Db
  <2>2. b.asset \in SUBSET AssetRow /\ b.fact \in SUBSET RunId /\ b.ok \in BOOLEAN
    BY <1>1, <1>4, <1>6 DEF Db
  <2> QED BY <1>1, <2>1, <2>2 DEF Db, WithResult
<1>10. \A j \in RunId : (b.run[j] # None <=> a.run[j] # None)
                        /\ (a.run[j] # None => SameWork(b.run[j], a.run[j]) /\ b.run[j].donor = a.run[j].donor)
  BY <1>2, <1>8 DEF SameWork
<1>11. OneRunPerInput(b)
  BY <1>10 DEF Sound, OneRunPerInput, SameWork
<1>12. \A j \in RunId : b.run[j] # None => RowOK(b.run[j], b.asset)
  <2>1. RowOK(row, b.asset)
    BY <1>1, <1>2, <1>6 DEF RowOK
  <2>2. \A j \in RunId \ {i} : a.run[j] # None => RowOK(a.run[j], b.asset)
    BY <1>6 DEF Sound, RowOK
  <2> QED BY <1>8, <2>1, <2>2
<1>13. \A x \in b.asset : b.run[x.run] # None /\ b.run[x.run].v = x.v /\ b.run[x.run].state = "succeeded"
  BY <1>2, <1>3, <1>5, <1>6, <1>8 DEF Sound
<1>14. \A j \in b.fact : b.run[j] # None /\ b.run[j].state = "succeeded"
  BY <1>2, <1>3, <1>6, <1>8 DEF Sound
<1>15. Sound(b)
  BY <1>9, <1>11, <1>12, <1>13, <1>14 DEF Sound
<1>16. Persists(a, b)
  BY <1>6, <1>10 DEF Persists
<1> QED BY <1>2, <1>6, <1>8, <1>15, <1>16

(* A new version: whoever accepts it has its run.                          *)
LEMMA UploadRemembers ==
  ASSUME NEW a, Sound(a), NEW s, Sound(s), Quiet(a, s), NEW v, NEW n, Grows(s, n, v),
         NEW versions, v \notin versions, \A i \in RunId : a.run[i] # None => a.run[i].v \in versions,
         NEW always, AllRemembered(a, versions, always),
         NEW seen, Surveyed(seen), always \subseteq DOMAIN seen.manifest, seen.existing = {},
         \A e \in DOMAIN seen.manifest : CandidateDone(n, s, seen, v, e)
  PROVE  AllRemembered(n, versions \cup {v}, always)
<1>1. Persists(a, s) /\ Persists(s, n)
  BY GrowsPersists DEF Quiet
<1>2. \A u : (Told(s, u) => Told(a, u)) /\ Left(s, u) \subseteq Left(a, u)
  BY QuietTells
<1>3. \A u : (Told(n, u) => Told(s, u)) /\ Left(n, u) \subseteq Left(s, u)
  BY GrowingTells
<1>4. ASSUME NEW u \in versions, NEW e \in always
      PROVE  Remembered(n, u, e)
  <2>1. Remembered(a, u, e)
    BY DEF AllRemembered
  <2>2. Remembered(s, u, e)
    BY <1>1, <1>2, <2>1, StillRemembered
  <2> QED BY <1>1, <1>3, <2>2, StillRemembered
<1>5. ASSUME NEW e \in always
      PROVE  Remembered(n, v, e)
  <2>1. ~Told(a, v) /\ Left(a, v) = {}
    <3>1. a.fact \subseteq RunId /\ \A x \in a.asset : x.run \in RunId
      BY DEF Sound, Db, AssetRow
    <3>2. \A i \in a.fact : a.run[i].v \in versions
      BY <3>1 DEF Sound
    <3>3. \A x \in a.asset : x.v \in versions
      BY <3>1 DEF Sound
    <3> QED BY <3>2, <3>3 DEF Told, Left
  <2>2. ~Told(n, v) /\ Left(n, v) = {}
    BY <1>2, <1>3, <2>1
  <2>3. e \in DOMAIN seen.manifest /\ seen.manifest[e] \in Declarable[e]
    BY DEF Surveyed
  <2>4. WantsOriginal(e, v) => Taken(n, v, e, None, None)
    BY <2>3 DEF WantsOriginal, CandidateDone, OriginalDone, PredicateHolds
  <2> QED BY <2>2, <2>4 DEF Remembered
<1> QED BY <1>4, <1>5 DEF AllRemembered

(* A result: whoever waited for what it tells, or takes what it leaves,    *)
(* has its run.                                                            *)
LEMMA ResultRemembers ==
  ASSUME NEW a, Sound(a), NEW s, Sound(s), Persists(a, s), NEW i \in RunId, NEW out,
         a.run[i] # None, s.run[i].v = a.run[i].v, \A j \in RunId \ {i} : s.run[j] = a.run[j],
         s.asset = a.asset \cup out, s.fact \subseteq a.fact \cup {i}, \A x \in out : x.v = a.run[i].v,
         NEW v, v = a.run[i].v, NEW n, Grows(s, n, v),
         NEW versions, NEW always, AllRemembered(a, versions, always),
         NEW seen, Surveyed(seen), always \subseteq DOMAIN seen.manifest, out \subseteq seen.assets,
         \A p \in seen.existing : Taken(a, v, p[1], p[2], None),
         \A e \in DOMAIN seen.manifest : CandidateDone(n, s, seen, v, e)
  PROVE  AllRemembered(n, versions, always)
<1>1. Persists(s, n)
  BY GrowsPersists
<1>2. \A u, e, input : Taken(a, u, e, input, None) => Taken(n, u, e, input, None)
  BY <1>1, TakenPersists
<1>3. \A u : (Told(n, u) => Told(s, u)) /\ Left(n, u) \subseteq Left(s, u)
  BY GrowingTells
<1>4. \A u : Told(s, u) => Told(a, u) \/ (u = v /\ i \in s.fact)
  <2>1. \A j \in s.fact \ {i} : j \in a.fact /\ j \in RunId
    BY DEF Sound, Db
  <2> QED BY <2>1 DEF Told
<1>5. \A u : \A x \in Left(s, u) : x \in Left(a, u) \/ (u = v /\ x \in out)
  <2>1. \A x \in a.asset : x.run \in RunId /\ a.run[x.run] # None
    BY DEF Sound, Db, AssetRow
  <2>2. \A x \in a.asset : s.run[x.run].donor = a.run[x.run].donor
    BY <2>1 DEF Persists
  <2> QED BY <2>2 DEF Left
<1>6. ASSUME NEW u \in versions, NEW e \in always
      PROVE  Remembered(n, u, e)
  <2>1. Remembered(a, u, e)
    BY DEF AllRemembered
  <2>2. e \in DOMAIN seen.manifest /\ seen.manifest[e] \in Declarable[e]
    BY DEF Surveyed
  <2>3. \A input : <<e, input>> \in seen.existing => Taken(n, v, e, input, None)
    <3>1. ASSUME NEW input, <<e, input>> \in seen.existing
          PROVE  Taken(n, v, e, input, None)
      <4>1. Taken(a, v, e, input, None)
        BY <3>1
      <4> QED BY <1>2, <4>1
    <3> QED BY <3>1
  <2>4. WantsOriginal(e, u) => Taken(n, u, e, None, None)
    BY <1>2, <2>1 DEF Remembered
  <2>5. ASSUME WantsIfTold(e, u), Told(n, u)
        PROVE  Taken(n, u, e, None, None)
    <3>1. CASE Told(a, u)
      BY <1>2, <2>1, <2>5, <3>1 DEF Remembered
    <3>2. CASE u = v /\ i \in s.fact
      <4>1. Accepts(seen.manifest[e], v) /\ PredicateHolds(s, seen.manifest[e], v)
        BY <2>2, <2>5, <3>2 DEF WantsIfTold, PredicateHolds
      <4> QED BY <2>2, <2>3, <3>2, <4>1 DEF CandidateDone, OriginalDone
    <3> QED BY <1>3, <1>4, <2>5, <3>1, <3>2
  <2>6. ASSUME NEW x \in Left(n, u), WantsKind(e, x.kind)
        PROVE  Taken(n, u, e, x, None)
    <3>1. CASE x \in Left(a, u)
      BY <1>2, <2>1, <2>6, <3>1 DEF Remembered
    <3>2. CASE u = v /\ x \in out
      <4>1. x \in seen.assets /\ x.kind \in seen.manifest[e].takes
        BY <2>2, <2>6, <3>2 DEF WantsKind
      <4> QED BY <2>2, <2>3, <3>2, <4>1 DEF CandidateDone, AssetsDone
    <3> QED BY <1>3, <1>5, <3>1, <3>2
  <2> QED BY <2>4, <2>5, <2>6 DEF Remembered
<1> QED BY <1>6 DEF AllRemembered

-----------------------------------------------------------------------------
LEMMA InitRemembers ==
  ASSUME Init
  PROVE  WorkIInv
<1>1. PICK first \in [Extractor -> Manifests \cup {None}] :
        /\ \A e \in Extractor : first[e] \in Declarable[e] \cup {None}
        /\ extractor = [e \in Extractor |->
              IF first[e] = None THEN None ELSE [enabled |-> TRUE, manifest |-> first[e]]]
        /\ claims = [k \in Kind |->
              IF \E e \in Extractor : first[e] # None /\ k \in first[e].kinds
              THEN CHOOSE e \in Extractor : first[e] # None /\ k \in first[e].kinds ELSE None]
        /\ lapsed = {e \in Extractor : first[e] = None}
  BY DEF Init
<1>2. /\ made = {} /\ run = [i \in RunId |-> None] /\ asset = {} /\ fact = {}
      /\ \A q \in Request : req[q] = Idle
  BY DEF Init
<1>3. RegistryOK
  <2>1. claims \in [Kind -> Extractor \cup {None}]
    BY <1>1
  <2>2. ASSUME NEW e \in Extractor, first[e] # None
        PROVE  /\ extractor[e] \in ExtractorRow /\ extractor[e] # None
               /\ extractor[e].enabled /\ extractor[e].manifest = first[e]
    <3>1. extractor[e] = [enabled |-> TRUE, manifest |-> first[e]]
      BY <1>1, <2>2
    <3>2. extractor[e] \in ExtractorRow
      BY <3>1 DEF ExtractorRow
    <3>3. extractor[e].enabled
      BY <3>1
    <3>4. extractor[e] # None
      BY <3>2, RoutingAssumption
    <3>5. extractor[e].manifest = first[e]
      BY <3>1
    <3> QED BY <3>2, <3>3, <3>4, <3>5
  <2>3. \A e \in Extractor : extractor[e] # None => first[e] # None
    BY <1>1
  <2>4. \A e \in Extractor : extractor[e] # None =>
          extractor[e] \in ExtractorRow /\ extractor[e].manifest \in Declarable[e] \cup {None}
    BY <1>1, <2>2, <2>3
  <2>5. \A e \in Extractor \ lapsed : Registered(e) /\ extractor[e].enabled
    BY <1>1, <2>2 DEF Registered
  <2> QED BY <1>2, <2>1, <2>4, <2>5 DEF RegistryOK, Registering
<1>4. JobsOK
  <2>1. PICK d : d = Database
    OBVIOUS
  <2>2. d.run = [i \in RunId |-> None] /\ d.asset = {} /\ d.fact = {} /\ d \in Db
    BY <1>2, <2>1 DEF Database, Db
  <2>3. Sound(d)
    BY <2>2 DEF Sound, OneRunPerInput
  <2> QED BY <1>2, <2>1, <2>3 DEF JobsOK
<1>5. UploadsOK /\ ResultsOK /\ AsksOK
  BY <1>2 DEF UploadsOK, ResultsOK, AsksOK, Uploading, Resulting, Asking
<1>6. AllRemembered(Database, made, Extractor \ lapsed)
  BY <1>2 DEF AllRemembered
<1> QED BY <1>3, <1>4, <1>5, <1>6 DEF WorkIInv

(* Transactions in flight find what they read, whatever is committed       *)
(* meanwhile.                                                              *)
LEMMA RequestsCarry ==
  ASSUME WorkIInv, Persists(Database, Database'), lapsed \subseteq lapsed', made \subseteq made',
         \A q \in Request : Uploading(q)' => Uploading(q) /\ req'[q] = req[q] /\ req[q].v \notin made',
         \A q \in Request : Resulting(q)' => /\ Resulting(q) /\ req'[q] = req[q]
                                             /\ run'[req[q].i].state = "running",
         \A q \in Request : Asking(q)' => Asking(q) /\ req'[q] = req[q]
  PROVE  UploadsOK' /\ ResultsOK' /\ AsksOK'
<1>1. \A s : SurveyOK(s) => SurveyOK(s)'
  BY DEF SurveyOK, Surveyed
<1>2. UploadsOK'
  BY <1>1 DEF WorkIInv, UploadsOK
<1>3. AsksOK'
  BY DEF WorkIInv, AsksOK
<1>4. /\ \A i \in RunId : run[i] # None => run'[i] # None /\ run'[i].v = run[i].v /\ run'[i].e = run[i].e
      /\ asset \subseteq asset'
  BY DEF Persists, SameWork, Database
<1>5. \A v, e, input : Taken(Database, v, e, input, None) => Taken(Database', v, e, input, None)
  BY TakenPersists
<1>6. ASSUME NEW q \in Request, Resulting(q)'
      PROVE  ResultOK(req[q])'
  <2>1. PICK r : r = req[q]
    OBVIOUS
  <2>2. Resulting(q) /\ req'[q] = r /\ run'[r.i].state = "running"
    BY <1>6, <2>1
  <2>3. ResultOK(r)
    BY <2>1, <2>2 DEF WorkIInv, ResultsOK
  <2>4. Outputs(r.i, r.envelope)' = Outputs(r.i, r.envelope)
    BY <1>4, <2>3 DEF Outputs, ResultOK
  <2>5. SurveyOK(r.seen)'
    BY <1>1, <2>3 DEF ResultOK
  <2>6. \A p \in r.seen.existing : Taken(Database', r.v, p[1], p[2], None)
    BY <1>5, <2>3 DEF ResultOK
  <2>7. ResultOK(r)'
    BY <1>4, <2>2, <2>3, <2>4, <2>5, <2>6 DEF ResultOK
  <2> QED BY <2>2, <2>7
<1>7. \A p, q \in Request : p # q /\ Resulting(p)' /\ Resulting(q)' => req'[p].i # req'[q].i
  BY DEF WorkIInv, ResultsOK
<1>8. ResultsOK'
  BY <1>6, <1>7 DEF ResultsOK
<1> QED BY <1>2, <1>3, <1>8

(* A step that leaves the jobs alone.                                      *)
LEMMA JobsAside ==
  ASSUME WorkIInv, RegistryOK', UNCHANGED jobs, lapsed \subseteq lapsed',
         \A q \in Request : Uploading(q)' => Uploading(q) /\ req'[q] = req[q],
         \A q \in Request : Resulting(q)' => Resulting(q) /\ req'[q] = req[q],
         \A q \in Request : Asking(q)' => Asking(q) /\ req'[q] = req[q]
  PROVE  WorkIInv'
<1>1. /\ Database' = Database /\ run' = run /\ made' = made
  BY DEF jobs, Database
<1>2. JobsOK'
  BY <1>1 DEF WorkIInv, JobsOK
<1>3. Persists(Database, Database')
  BY <1>1 DEF Persists, SameWork
<1>4. \A q \in Request : Uploading(q)' => req[q].v \notin made'
  BY <1>1 DEF WorkIInv, UploadsOK
<1>5. \A q \in Request : Resulting(q)' => run'[req[q].i].state = "running"
  BY <1>1 DEF WorkIInv, ResultsOK, ResultOK
<1>6. UploadsOK' /\ ResultsOK' /\ AsksOK'
  BY <1>1, <1>3, <1>4, <1>5, RequestsCarry
<1>7. AllRemembered(Database, made, Extractor \ lapsed')
  BY DEF WorkIInv, AllRemembered
<1>8. AllRemembered(Database, made, Extractor \ lapsed)'
  BY <1>1, <1>7
<1> QED BY <1>2, <1>6, <1>8 DEF WorkIInv

(* The registry's own steps.                                               *)
LEMMA AdministrationRemembers ==
  ASSUME IInv, WorkIInv, NEW e \in Extractor, Provision(e) \/ SetEnabled(e)
  PROVE  WorkIInv'
<1>1. /\ UNCHANGED <<claims, jobs, req>> /\ lapsed \subseteq lapsed'
      /\ DOMAIN extractor = Extractor
  BY DEF Provision, SetEnabled, IInv, RowsOK
<1>2. RegistryOK'
  <2>1. CASE Provision(e)
    <3>1. /\ extractor[e] = None /\ lapsed' = lapsed
          /\ extractor' = [extractor EXCEPT ![e] = [enabled |-> TRUE, manifest |-> None]]
      BY <2>1 DEF Provision
    <3>2. e \in lapsed
      BY <3>1 DEF WorkIInv, RegistryOK, Registered
    <3>3. [enabled |-> TRUE, manifest |-> None] \in ExtractorRow
      BY DEF ExtractorRow
    <3>4. /\ extractor'[e] = [enabled |-> TRUE, manifest |-> None]
          /\ \A f \in Extractor \ {e} : extractor'[f] = extractor[f]
      BY <1>1, <3>1
    <3>5. /\ extractor'[e] \in ExtractorRow /\ extractor'[e] # None /\ extractor'[e].manifest = None
      <4>1. extractor'[e] \in ExtractorRow
        BY <3>3, <3>4
      <4>2. extractor'[e].manifest = None
        BY <3>4
      <4> QED BY <4>1, <4>2, RoutingAssumption
    <3> QED BY <1>1, <3>1, <3>2, <3>4, <3>5 DEF WorkIInv, RegistryOK, Registered, Registering
  <2>2. CASE SetEnabled(e)
    <3>1. /\ extractor[e] # None /\ lapsed' = lapsed \cup {e}
          /\ extractor' = [extractor EXCEPT ![e].enabled = ~@]
      BY <2>2 DEF SetEnabled
    <3>2. extractor[e] \in ExtractorRow /\ extractor[e].manifest \in Declarable[e] \cup {None}
      BY <3>1 DEF WorkIInv, RegistryOK
    <3>3. /\ extractor'[e] \in ExtractorRow /\ extractor'[e].manifest = extractor[e].manifest
          /\ \A f \in Extractor \ {e} : extractor'[f] = extractor[f]
      BY <1>1, <3>1, <3>2 DEF ExtractorRow
    <3>4. extractor'[e] # None
      BY <3>3, RoutingAssumption
    <3> QED BY <1>1, <3>1, <3>2, <3>3, <3>4 DEF WorkIInv, RegistryOK, Registered, Registering
  <2> QED BY <2>1, <2>2
<1> QED BY <1>1, <1>2, JobsAside DEF Uploading, Resulting, Asking

LEMMA RegistrationRemembers ==
  ASSUME IInv, WorkIInv, NEW q \in Request,
         \/ \E e \in Extractor : \E m \in Declarable[e] : Register(q, e, m)
         \/ ReconcileClaims(q)
  PROVE  WorkIInv'
<1>1. /\ UNCHANGED <<registry, jobs, lapsed>> /\ DOMAIN req = Request
  BY DEF Register, ReconcileClaims, history, IInv, RequestsOK
<1>2. /\ \A p \in Request \ {q} : req'[p] = req[p]
      /\ req'[q] = Idle \/ req'[q].kind = "register"
      /\ Registering(q)' => extractor[req'[q].e] # None
  <2>1. ASSUME NEW e \in Extractor, NEW m \in Declarable[e], Register(q, e, m)
        PROVE  /\ \A p \in Request \ {q} : req'[p] = req[p]
               /\ req'[q] = Idle \/ req'[q].kind = "register"
               /\ Registering(q)' => extractor[req'[q].e] # None
    <3>1. req' = [req EXCEPT ![q] = [kind |-> "register", pc |-> "reconcile", e |-> e, m |-> m,
                                     current |-> extractor[e].manifest]] /\ extractor[e] # None
      BY <2>1 DEF Register, Begin
    <3> QED BY <1>1, <3>1
  <2>2. CASE ReconcileClaims(q)
    <3>1. Registering(q)
      BY <2>2 DEF ReconcileClaims, IInv, RequestsOK, Reading, Inserting, Elsewhere, Registering
    <3>2. extractor[req[q].e] # None
      BY <3>1 DEF WorkIInv, RegistryOK
    <3>3. \/ req' = [req EXCEPT ![q] = Idle]
          \/ req' = [req EXCEPT ![q] = [kind |-> "register", pc |-> "insert", e |-> req[q].e,
                        m |-> req[q].m, stale |-> Stale(req[q].e, req[q].m),
                        missing |-> Missing(req[q].e, req[q].m)]]
      BY <2>2 DEF ReconcileClaims, Done
    <3> QED BY <1>1, <3>2, <3>3 DEF Registering
  <2> QED BY <2>1, <2>2
<1>3. RegistryOK'
  BY <1>1, <1>2 DEF WorkIInv, RegistryOK, registry, Registered, Registering
<1>4. \A p \in Request : (Uploading(p)' \/ Resulting(p)' \/ Asking(p)') => p # q
  BY <1>2 DEF Uploading, Resulting, Asking
<1> QED BY <1>1, <1>2, <1>3, <1>4, JobsAside DEF Uploading, Resulting, Asking

LEMMA RegistrationCommitRemembers ==
  ASSUME IInv, WorkIInv, NEW q \in Request, CommitRegistration(q)
  PROVE  WorkIInv'
<1> DEFINE r == req[q]
<1>1. /\ Writing(q) /\ req' = [req EXCEPT ![q] = Idle] /\ DOMAIN req = Request /\ DOMAIN extractor = Extractor
      /\ claims' = [k \in Kind |-> IF k \in r.stale THEN None
                                   ELSE IF k \in r.missing THEN r.e ELSE claims[k]]
      /\ extractor' = [extractor EXCEPT ![r.e].manifest = r.m]
      /\ UNCHANGED <<jobs, lapsed>>
  BY DEF CommitRegistration, Writing, Done, history, IInv, RequestsOK, RowsOK
<1>2. Inserting(r) /\ Registering(q)
  BY <1>1 DEF IInv, RequestsOK, Reading, Inserting, Elsewhere, Writing, Registering
<1>3. r.e \in Extractor /\ r.m \in Declarable[r.e] /\ r.m \in Manifests /\ r.m # None
  BY <1>2, RoutingAssumption DEF Inserting, Manifests
<1>4. extractor[r.e] # None /\ extractor[r.e] \in ExtractorRow
  BY <1>2, <1>3 DEF WorkIInv, RegistryOK
<1>5. \A p \in Request : p # q => req'[p] = req[p]
  BY <1>1
<1>6. req'[q] = Idle
  BY <1>1
<1> HIDE DEF r
<1>7. /\ extractor'[r.e] \in ExtractorRow /\ extractor'[r.e].manifest = r.m
      /\ extractor'[r.e].enabled = extractor[r.e].enabled
      /\ \A f \in Extractor \ {r.e} : extractor'[f] = extractor[f]
  BY <1>1, <1>3, <1>4 DEF ExtractorRow
<1>8. extractor'[r.e] # None
  BY <1>7, RoutingAssumption
<1>9. RegistryOK'
  <2>1. claims' \in [Kind -> Extractor \cup {None}]
    BY <1>1, <1>3 DEF WorkIInv, RegistryOK
  <2>2. \A f \in Extractor : extractor'[f] # None =>
          extractor'[f] \in ExtractorRow /\ extractor'[f].manifest \in Declarable[f] \cup {None}
    BY <1>3, <1>7 DEF WorkIInv, RegistryOK
  <2>3. \A p \in Request : Registering(p)' => extractor'[req'[p].e] # None
    <3>1. ASSUME NEW p \in Request, Registering(p)'
          PROVE  extractor'[req'[p].e] # None
      <4>1. Registering(p) /\ req'[p] = req[p]
        BY <1>5, <1>6, <3>1 DEF Registering
      <4>2. req[p].e \in Extractor
        BY <4>1 DEF IInv, RequestsOK, Reading, Inserting, Elsewhere, Registering
      <4>3. extractor[req[p].e] # None
        BY <4>1 DEF WorkIInv, RegistryOK
      <4> QED BY <1>7, <1>8, <4>1, <4>2, <4>3
    <3> QED BY <3>1
  <2>4. \A f \in Extractor \ lapsed' : Registered(f)' /\ extractor'[f].enabled
    <3>1. \A f \in Extractor \ lapsed : Registered(f) /\ extractor[f].enabled
      BY DEF WorkIInv, RegistryOK
    <3>2. r.e \notin lapsed => extractor'[r.e].enabled
      BY <1>3, <1>7, <3>1
    <3> QED BY <1>1, <1>3, <1>7, <1>8, <3>1, <3>2 DEF Registered
  <2> QED BY <2>1, <2>2, <2>3, <2>4 DEF RegistryOK
<1> QED BY <1>1, <1>5, <1>6, <1>9, JobsAside DEF Uploading, Resulting, Asking

LEMMA RollbackRemembers ==
  ASSUME IInv, WorkIInv, NEW q \in Request, Rollback(q) 
  PROVE  WorkIInv'
<1>1. /\ UNCHANGED <<registry, jobs, lapsed>> /\ req'[q] = Idle
      /\ \A p \in Request \ {q} : req'[p] = req[p]
  BY DEF Rollback, Done, history, IInv, RequestsOK
<1>2. RegistryOK'
  BY <1>1 DEF WorkIInv, RegistryOK, registry, Registered, Registering
<1> QED BY <1>1, <1>2, JobsAside DEF Uploading, Resulting, Asking

(* A step that routes nothing, and leaves registry and requests in flight. *)
LEMMA QuietStep ==
  ASSUME WorkIInv, Sound(Database)', Quiet(Database, Database'), UNCHANGED <<registry, made, lapsed>>,
         \A i \in RunId : run'[i] # None => run'[i].v \in made,
         \A q \in Request : req'[q] = req[q] \/ req'[q] = Idle,
         \A q \in Request : Resulting(q) => run'[req[q].i].state = "running"
  PROVE  WorkIInv'
<1>1. Persists(Database, Database')
  BY DEF Quiet
<1>2. \A q \in Request : /\ Uploading(q)' => Uploading(q) /\ req'[q] = req[q]
                         /\ Resulting(q)' => Resulting(q) /\ req'[q] = req[q]
                         /\ Asking(q)' => Asking(q) /\ req'[q] = req[q]
                         /\ Registering(q)' => Registering(q) /\ req'[q] = req[q]
  BY DEF Uploading, Resulting, Asking, Registering
<1>3. \A q \in Request : Uploading(q) => req[q].v \notin made'
  BY DEF WorkIInv, UploadsOK
<1>4. UploadsOK' /\ ResultsOK' /\ AsksOK'
  BY <1>1, <1>2, <1>3, RequestsCarry
<1>5. RegistryOK'
  BY <1>2 DEF WorkIInv, RegistryOK, registry, Registered
<1>6. JobsOK'
  BY DEF WorkIInv, JobsOK
<1>7. Sound(Database) /\ AllRemembered(Database, made, Extractor \ lapsed)
  BY DEF WorkIInv, JobsOK
<1>8. AllRemembered(Database', made, Extractor \ lapsed)
  BY <1>7, QuietRemembers
<1>9. AllRemembered(Database, made, Extractor \ lapsed)'
  BY <1>8
<1> QED BY <1>4, <1>5, <1>6, <1>9 DEF WorkIInv

(* Claims and failures.                                                    *)
LEMMA WorkRemembers ==
  ASSUME IInv, WorkIInv, NEW i \in RunId, Claim(i) \/ (\E state \in {"queued", "dead"} : Fail(i, state))
  PROVE  WorkIInv'
<1>1. PICK a : a = Database
  OBVIOUS
<1>2. PICK b : b = Database'
  OBVIOUS
<1>3. /\ a.run = run /\ a.asset = asset /\ a.fact = fact /\ a.ok = TRUE
      /\ b = [run |-> run', asset |-> asset', fact |-> fact', ok |-> TRUE]
  BY <1>1, <1>2 DEF Database
<1>4. Sound(a) /\ a \in Db
  BY <1>1 DEF WorkIInv, JobsOK, Sound
<1>5. /\ run[i] # None /\ run[i].state \in {"queued", "running"}
      /\ UNCHANGED <<registry, made, asset, fact, req, lapsed>>
  BY DEF Claim, Fail, Runs, history
<1>6. run[i] \in RunRow /\ RowOK(run[i], asset)
  BY <1>3, <1>4, <1>5 DEF Sound, Db
<1>7. PICK row \in RunRow :
        /\ run' = [run EXCEPT ![i] = row]
        /\ SameWork(row, run[i]) /\ row.donor = run[i].donor /\ row.key = run[i].key
        /\ row.state \in {"queued", "running", "dead"} /\ (row.state = "running" => row.by # None)
  <2>1. CASE Claim(i)
    <3> DEFINE m == extractor[run[i].e].manifest
               row == [run[i] EXCEPT !.state = "running", !.by = m.version]
    <3>1. run' = [run EXCEPT ![i].state = "running", ![i].by = m.version] /\ run[i].e \in Candidates
      BY <2>1 DEF Claim
    <3>2. m \in Manifests
      BY <3>1 DEF Candidates, Registered, WorkIInv, RegistryOK, Manifests
    <3>3. m.version \in Version /\ m.version # None
      BY <3>2, RoutingAssumption DEF Version
    <3>4. run' = [run EXCEPT ![i] = row]
      BY <1>3, <1>4, <1>6, <3>1 DEF Db
    <3> HIDE DEF m
    <3>5. /\ row \in RunRow /\ row.state = "running" /\ row.by = m.version
          /\ row.v = run[i].v /\ row.e = run[i].e /\ row.input = run[i].input
          /\ row.variant = run[i].variant /\ row.donor = run[i].donor /\ row.key = run[i].key
      BY <1>6, <3>3 DEF RunRow
    <3> HIDE DEF row
    <3> QED BY <3>3, <3>4, <3>5 DEF SameWork
  <2>2. ASSUME NEW state \in {"queued", "dead"}, Fail(i, state)
        PROVE  \E row \in RunRow :
                 /\ run' = [run EXCEPT ![i] = row]
                 /\ SameWork(row, run[i]) /\ row.donor = run[i].donor /\ row.key = run[i].key
                 /\ row.state \in {"queued", "running", "dead"} /\ (row.state = "running" => row.by # None)
    <3> DEFINE row == [run[i] EXCEPT !.state = state]
    <3>1. run' = [run EXCEPT ![i].state = state]
      BY <2>2 DEF Fail
    <3>2. run' = [run EXCEPT ![i] = row]
      BY <3>1
    <3>3. /\ row \in RunRow /\ row.state = state
          /\ row.v = run[i].v /\ row.e = run[i].e /\ row.input = run[i].input
          /\ row.variant = run[i].variant /\ row.donor = run[i].donor /\ row.key = run[i].key
      BY <1>6, <2>2 DEF RunRow
    <3> HIDE DEF row
    <3> QED BY <2>2, <3>2, <3>3 DEF SameWork
  <2> QED BY <2>1, <2>2
<1>8. RowOK(row, asset)
  BY <1>5, <1>6, <1>7 DEF RowOK, SameWork
<1>9. b = [run |-> [a.run EXCEPT ![i] = row], asset |-> a.asset, fact |-> a.fact, ok |-> a.ok]
  BY <1>3, <1>5, <1>7
<1>10. Sound(b) /\ Quiet(a, b)
  BY <1>3, <1>4, <1>5, <1>7, <1>8, <1>9, RowChanged
<1>11. \A j \in RunId : run'[j] # None => run'[j].v \in made
  BY <1>3, <1>4, <1>5, <1>7 DEF Db, SameWork, WorkIInv, JobsOK
<1>12. \A q \in Request : Resulting(q) => run'[req[q].i].state = "running"
  <2>1. ASSUME NEW q \in Request, Resulting(q)
        PROVE  run'[req[q].i].state = "running"
    <3>1. req[q].i \in RunId /\ run[req[q].i].state = "running"
      BY <2>1 DEF WorkIInv, ResultsOK, ResultOK
    <3>2. req[q].i # i
      <4>1. CASE Claim(i)
        BY <3>1, <4>1 DEF Claim
      <4>2. CASE \E state \in {"queued", "dead"} : Fail(i, state)
        BY <2>1, <4>2 DEF Fail, Locked, Resulting
      <4> QED BY <4>1, <4>2
    <3> QED BY <1>3, <1>4, <1>7, <3>1, <3>2 DEF Db
  <2> QED BY <2>1
<1>13. Sound(Database)' /\ Quiet(Database, Database')
  BY <1>1, <1>2, <1>10
<1> QED BY <1>5, <1>11, <1>12, <1>13, QuietStep

LEMMA PersistsOn ==
  ASSUME NEW a, NEW b, NEW c, Persists(a, b), Persists(b, c)
  PROVE  Persists(a, c)
  BY DEF Persists, SameWork

(* The assets of one version are few.                                      *)
LEMMA AssetsAreFinite ==
  ASSUME NEW v, NEW A \in SUBSET AssetRow, \A a \in A : a.v = v
  PROVE  IsFiniteSet(A)
<1> DEFINE D == Kind \X RunId
           f == [p \in D |-> [v |-> v, kind |-> p[1], run |-> p[2]]]
           T == {f[p] : p \in D}
<1>1. IsFiniteSet(D)
  <2>1. IsFiniteSet(Kind) /\ IsFiniteSet(RunId)
    BY RoutingAssumption, FS_Interval DEF RunId
  <2> QED BY <2>1, FS_Product
<1>2. \A a \in A : <<a.kind, a.run>> \in D /\ f[<<a.kind, a.run>>] = a
  BY DEF AssetRow
<1>3. A \subseteq T
  BY <1>2
<1>4. f \in Surjection(D, T)
  BY DEF Surjection
<1> HIDE DEF D, f, T
<1>5. IsFiniteSet(T)
  BY <1>1, <1>4, FS_Surjection
<1> QED BY <1>3, <1>5, FS_Subset

LEMMA SurveyTells ==
  ASSUME WorkIInv, NEW d, NEW v
  PROVE  /\ SurveyOK(Survey(d, v))
         /\ Survey(d, v).assets = {a \in d.asset : a.v = v}
         /\ Survey(d, v).existing = Existing(d, v)
<1>1. \A e \in Candidates : extractor[e].manifest \in Declarable[e]
  BY DEF Candidates, Registered, WorkIInv, RegistryOK
<1>2. Extractor \ lapsed \subseteq Candidates /\ Candidates \subseteq Extractor
  BY DEF Candidates, WorkIInv, RegistryOK
<1> QED BY <1>1, <1>2 DEF Survey, SurveyOK, Surveyed

(* A transaction that has read what it needs.                              *)
LEMMA BegunRemembers ==
  ASSUME IInv, WorkIInv, NEW q \in Request, NEW r, Begin(q, r), r.kind # "register",
         UNCHANGED <<registry, jobs, lapsed>>,
         r.kind = "upload" =>
            /\ r.v \in FileVersion \ made /\ SurveyOK(r.seen) /\ r.seen.existing = {} /\ r.seen.assets = {}
            /\ \A p \in Request : Uploading(p) => req[p].v # r.v,
         r.kind = "result" => ResultOK(r) /\ \A p \in Request : Resulting(p) => req[p].i # r.i,
         r.kind = "ask" => r.v \in made /\ r.e \in Extractor /\ r.variant \in Variant
  PROVE  WorkIInv'
<1>1. /\ Database' = Database /\ run' = run /\ made' = made /\ asset' = asset /\ lapsed' = lapsed
      /\ extractor' = extractor /\ claims' = claims
  BY DEF jobs, registry, Database
<1>2. req'[q] = r /\ \A p \in Request \ {q} : req'[p] = req[p]
  BY DEF Begin, IInv, RequestsOK
<1>3. \A s : SurveyOK(s)' = SurveyOK(s)
  BY <1>1 DEF SurveyOK, Surveyed
<1>4. \A o : ResultOK(o)' = ResultOK(o)
  BY <1>1, <1>3 DEF ResultOK, Outputs
<1>5. RegistryOK'
  BY <1>1, <1>2 DEF WorkIInv, RegistryOK, Registered, Registering
<1>6. JobsOK'
  BY <1>1 DEF WorkIInv, JobsOK
<1>7. UploadsOK'
  BY <1>1, <1>2, <1>3 DEF WorkIInv, UploadsOK, Uploading
<1>8. ResultsOK'
  BY <1>1, <1>2, <1>4 DEF WorkIInv, ResultsOK, Resulting
<1>9. AsksOK'
  BY <1>1, <1>2 DEF WorkIInv, AsksOK, Asking
<1>10. AllRemembered(Database, made, Extractor \ lapsed)'
  BY <1>1 DEF WorkIInv
<1> QED BY <1>5, <1>6, <1>7, <1>8, <1>9, <1>10 DEF WorkIInv

LEMMA UploadBegins ==
  ASSUME IInv, WorkIInv, NEW q \in Request, NEW v \in FileVersion, NEW old, Upload(q, v, old)
  PROVE  WorkIInv'
<1>1. PICK r : r = [kind |-> "upload", pc |-> "route", v |-> v, old |-> old, seen |-> Survey(Database, v)]
  OBVIOUS
<1>2. /\ Begin(q, r) /\ v \notin made /\ UNCHANGED <<registry, jobs, lapsed>>
      /\ \A p \in Request : Uploading(p) => req[p].v # v
  BY <1>1 DEF Upload, history, Uploading
<1>3. PICK d : d = Database
  OBVIOUS
<1>4. r.kind = "upload" /\ r.v = v /\ r.seen = Survey(d, v)
  BY <1>1, <1>3
<1>5. SurveyOK(r.seen) /\ r.seen.assets = {a \in d.asset : a.v = v} /\ r.seen.existing = Existing(d, v)
  BY <1>4, SurveyTells
<1>6. \A i \in RunId : d.run[i] # None => d.run[i].v # v
  BY <1>2, <1>3 DEF WorkIInv, JobsOK, Database
<1>7. Existing(d, v) = {}
  BY <1>6 DEF Existing
<1>8. {a \in d.asset : a.v = v} = {}
  <2>1. \A a \in d.asset : a.run \in RunId /\ d.run[a.run] # None /\ d.run[a.run].v = a.v
    BY <1>3 DEF WorkIInv, JobsOK, Sound, Db, AssetRow
  <2> QED BY <1>6, <2>1
<1> QED BY <1>2, <1>4, <1>5, <1>7, <1>8, BegunRemembers

LEMMA ResultBegins ==
  ASSUME IInv, WorkIInv, NEW q \in Request, NEW i \in RunId, SubmitResult(q, i)
  PROVE  WorkIInv'
<1>1. PICK envelope \in Envelope[run[i].e] :
        Begin(q, [kind |-> "result", pc |-> "route", i |-> i, v |-> run[i].v,
                  envelope |-> envelope, seen |-> Survey(Applied(i, envelope), run[i].v)])
  BY DEF SubmitResult
<1>2. PICK a : a = Database
  OBVIOUS
<1>3. PICK s : s = Applied(i, envelope)
  OBVIOUS
<1>4. PICK v : v = run[i].v
  OBVIOUS
<1>5. PICK r : r = [kind |-> "result", pc |-> "route", i |-> i, v |-> v, envelope |-> envelope,
                    seen |-> Survey(s, v)]
  OBVIOUS
<1>6. PICK out : out = Outputs(i, envelope)
  OBVIOUS
<1>7. /\ Begin(q, r) /\ UNCHANGED <<registry, jobs, lapsed>>
      /\ run[i] # None /\ run[i].state = "running" /\ ~Locked(i)
  BY <1>1, <1>3, <1>4, <1>5 DEF SubmitResult, history, Runs
<1>8. a.run = run /\ a.asset = asset /\ a.fact = fact /\ Sound(a)
  BY <1>2 DEF Database, WorkIInv, JobsOK
<1>9. run[i].e \in Extractor /\ envelope.kinds \subseteq Kind /\ envelope.tells \in BOOLEAN
  BY <1>1, <1>7, <1>8, RoutingAssumption DEF Sound, Db, RunRow
<1>10. out = {[v |-> a.run[i].v, kind |-> k, run |-> i] : k \in envelope.kinds}
  BY <1>6, <1>8 DEF Outputs
<1>11. s = WithResult(a, i, envelope, out)
  BY <1>2, <1>3, <1>6 DEF Applied, Outputs, WithResult
<1>12. /\ Sound(s) /\ s.asset = a.asset \cup out
       /\ s.run[i] # None /\ \A j \in RunId : s.run[j] # None => a.run[j] # None /\ SameWork(s.run[j], a.run[j])
  <2>1. /\ Sound(s) /\ Persists(a, s) /\ s.asset = a.asset \cup out /\ s.run[i] # None
        /\ \A j \in RunId \ {i} : s.run[j] = a.run[j]
    BY <1>7, <1>8, <1>9, <1>10, <1>11, AppliedStep
  <2> QED BY <1>7, <1>8, <2>1 DEF Persists, SameWork
<1>13. /\ r.kind = "result" /\ r.i = i /\ r.v = v /\ r.envelope = envelope /\ r.seen = Survey(s, v)
  BY <1>5
<1>14. SurveyOK(r.seen) /\ r.seen.assets = {x \in s.asset : x.v = v} /\ r.seen.existing = Existing(s, v)
  BY <1>13, SurveyTells
<1>15. ASSUME NEW p \in Existing(s, v)
       PROVE  Taken(a, v, p[1], p[2], None)
  <2>1. PICK j \in RunId : /\ s.run[j] # None /\ s.run[j].v = v /\ s.run[j].variant = None
                           /\ p = <<s.run[j].e, s.run[j].input>>
    BY DEF Existing
  <2> QED BY <1>12, <2>1 DEF Taken, SameWork
<1>16. \A x \in out : x.v = v
  BY <1>4, <1>8, <1>10
<1>17. ResultOK(r)
  BY <1>1, <1>2, <1>4, <1>6, <1>7, <1>8, <1>12, <1>13, <1>14, <1>15, <1>16 DEF ResultOK
<1>18. \A p \in Request : Resulting(p) => req[p].i # r.i
  BY <1>7, <1>13 DEF Locked, Resulting
<1> QED BY <1>7, <1>13, <1>17, <1>18, BegunRemembers

LEMMA AskBegins ==
  ASSUME IInv, WorkIInv, NEW q \in Request, NEW v, NEW k \in Kind, NEW variant \in Variant, Ask(q, v, k, variant)
  PROVE  WorkIInv'
<1>1. PICK r : r = [kind |-> "ask", pc |-> "manifest", v |-> v, variant |-> variant, e |-> Claimant(k)]
  OBVIOUS
<1>2. Begin(q, r) /\ v \in made /\ UNCHANGED <<registry, jobs, lapsed>> /\ Claimant(k) # None
  BY <1>1 DEF Ask
<1>3. Claimant(k) \in Extractor
  BY <1>2 DEF Claimant, WorkIInv, RegistryOK
<1>4. r.kind = "ask" /\ r.v = v /\ r.e = Claimant(k) /\ r.variant = variant
  BY <1>1
<1> QED BY <1>2, <1>3, <1>4, BegunRemembers

(* A job on demand.                                                        *)
LEMMA AskCommits ==
  ASSUME IInv, WorkIInv, NEW q \in Request, CommitAsk(q)
  PROVE  WorkIInv'
<1>1. PICK r : r = req[q]
  OBVIOUS
<1>2. PICK a : a = Database
  OBVIOUS
<1>3. PICK m : m = extractor[r.e].manifest
  OBVIOUS
<1>4. PICK n : n = Created(a, m, r.v, r.e, None, r.variant)
  OBVIOUS
<1>5. /\ Asking(q) /\ r.e \in Candidates /\ n.ok /\ run' = n.run /\ asset' = n.asset /\ fact' = n.fact
      /\ UNCHANGED <<registry, made, lapsed>> /\ req' = [req EXCEPT ![q] = Idle]
  BY <1>1, <1>2, <1>3, <1>4 DEF CommitAsk, Commit, Asking, Done, history
<1>6. r.v \in made /\ r.v \in FileVersion /\ r.e \in Extractor /\ r.variant \in Variant \cup {None}
  BY <1>1, <1>5 DEF WorkIInv, AsksOK, JobsOK
<1>7. m \in Manifests
  BY <1>3, <1>5 DEF Candidates, Registered, WorkIInv, RegistryOK, Manifests
<1>8. a.run = run /\ a.asset = asset /\ a.fact = fact /\ Sound(a)
  BY <1>2 DEF Database, WorkIInv, JobsOK
<1>9. Sound(n) /\ Grows(a, n, r.v) /\ n.asset = a.asset /\ n.fact = a.fact
  <2>1. None \in a.asset \cup {None}
    OBVIOUS
  <2> QED BY <1>4, <1>6, <1>7, <1>8, <2>1, CreatedStep
<1>10. Database' = n
  <2>1. n \in Db /\ n.ok = TRUE
    BY <1>5, <1>9 DEF Sound, Db
  <2>2. n = [run |-> n.run, asset |-> n.asset, fact |-> n.fact, ok |-> TRUE]
    BY <2>1 DEF Db
  <2> QED BY <1>5, <2>2 DEF Database
<1>11. Sound(Database)' /\ Quiet(Database, Database')
  BY <1>2, <1>9, <1>10, GrowsPersists DEF Quiet
<1>12. \A i \in RunId : run'[i] # None => run'[i].v \in made
  BY <1>5, <1>6, <1>8, <1>9 DEF Grows, WorkIInv, JobsOK
<1>13. \A p \in Request : Resulting(p) => run'[req[p].i].state = "running"
  BY <1>5, <1>8, <1>9 DEF Grows, WorkIInv, ResultsOK, ResultOK
<1>14. \A p \in Request : req'[p] = req[p] \/ req'[p] = Idle
  BY <1>5 DEF IInv, RequestsOK
<1> QED BY <1>5, <1>11, <1>12, <1>13, <1>14, QuietStep

(* What the two commits that route have in common: from the tables a over  *)
(* what they write themselves, s, to what routing makes of it, n.          *)
RoutingCommit(q, a, s, n, v) ==
    /\ a = Database /\ Persists(a, s)
    /\ \A i \in RunId : a.run[i] = None => s.run[i] = None
    /\ Sound(n) /\ Grows(s, n, v) /\ n.ok
    /\ run' = n.run /\ asset' = n.asset /\ fact' = n.fact /\ made' = made \cup {v}
    /\ UNCHANGED <<registry, lapsed>> /\ req' = [req EXCEPT ![q] = Idle]
    /\ \A p \in Request \ {q} : Uploading(p) => req[p].v # v
    /\ \A p \in Request \ {q} : Resulting(p) => s.run[req[p].i] = a.run[req[p].i]
    /\ AllRemembered(n, made \cup {v}, Extractor \ lapsed)

LEMMA RoutingCommits ==
  ASSUME IInv, WorkIInv, NEW q \in Request, NEW a, NEW s, NEW n, NEW v \in FileVersion,
         RoutingCommit(q, a, s, n, v)
  PROVE  WorkIInv'
<1> USE DEF RoutingCommit
<1>1. Database' = n
  <2>1. n \in Db /\ n.ok = TRUE
    BY DEF Sound, Db
  <2>2. n = [run |-> n.run, asset |-> n.asset, fact |-> n.fact, ok |-> TRUE]
    BY <2>1 DEF Db
  <2> QED BY <2>2 DEF Database
<1>2. Persists(Database, Database')
  BY <1>1, GrowsPersists, PersistsOn
<1>3. a.run = run
  BY DEF Database
<1>4. req'[q] = Idle /\ \A p \in Request \ {q} : req'[p] = req[p]
  BY DEF IInv, RequestsOK
<1>5. \A p \in Request : /\ Uploading(p)' => p # q /\ Uploading(p) /\ req'[p] = req[p]
                         /\ Resulting(p)' => p # q /\ Resulting(p) /\ req'[p] = req[p]
                         /\ Asking(p)' => p # q /\ Asking(p) /\ req'[p] = req[p]
                         /\ Registering(p)' => p # q /\ Registering(p) /\ req'[p] = req[p]
  BY <1>4 DEF Uploading, Resulting, Asking, Registering
<1>6. \A p \in Request : Uploading(p)' => req[p].v \notin made'
  BY <1>5 DEF WorkIInv, UploadsOK
<1>7. \A p \in Request : Resulting(p)' => run'[req[p].i].state = "running"
  <2>1. ASSUME NEW p \in Request, Resulting(p)'
        PROVE  run'[req[p].i].state = "running"
    <3>1. p # q /\ Resulting(p)
      BY <1>5, <2>1
    <3>2. req[p].i \in RunId /\ a.run[req[p].i] # None /\ a.run[req[p].i].state = "running"
      BY <1>3, <3>1 DEF WorkIInv, ResultsOK, ResultOK
    <3>3. s.run[req[p].i] = a.run[req[p].i]
      BY <3>1
    <3>4. n.run[req[p].i] = s.run[req[p].i]
      BY <3>2, <3>3 DEF Grows
    <3> QED BY <3>2, <3>3, <3>4
  <2> QED BY <2>1
<1>8. UploadsOK' /\ ResultsOK' /\ AsksOK'
  BY <1>2, <1>5, <1>6, <1>7, RequestsCarry
<1>9. RegistryOK'
  BY <1>5 DEF WorkIInv, RegistryOK, registry, Registered
<1>10. JobsOK'
  <2>1. \A i \in RunId : n.run[i] # None => n.run[i].v \in made \cup {v}
    <3>1. ASSUME NEW i \in RunId, n.run[i] # None
          PROVE  n.run[i].v \in made \cup {v}
      <4>1. CASE s.run[i] = None
        BY <3>1, <4>1 DEF Grows
      <4>2. CASE s.run[i] # None
        <5>1. a.run[i] # None /\ n.run[i] = s.run[i]
          BY <4>2 DEF Grows
        <5>2. s.run[i].v = a.run[i].v
          BY <5>1 DEF Persists, SameWork
        <5>3. a.run[i].v \in made
          BY <1>3, <5>1 DEF WorkIInv, JobsOK
        <5> QED BY <5>1, <5>2, <5>3
      <4> QED BY <4>1, <4>2
    <3> QED BY <3>1
  <2> QED BY <1>1, <2>1 DEF WorkIInv, JobsOK
<1>11. AllRemembered(Database, made, Extractor \ lapsed)'
  BY <1>1
<1> QED BY <1>8, <1>9, <1>10, <1>11 DEF WorkIInv

LEMMA UploadCommits ==
  ASSUME IInv, WorkIInv, NEW q \in Request, CommitUpload(q)
  PROVE  WorkIInv'
<1>1. PICK r : r = req[q]
  OBVIOUS
<1>0. PICK v : v = r.v
  OBVIOUS
<1>2. PICK a : a = Database
  OBVIOUS
<1>3. PICK s : s = Superseded(r.old)
  OBVIOUS
<1>4. PICK order \in SetToSeqs(DOMAIN r.seen.manifest) : Commit(Routed(s, r.seen, v, order))
  BY <1>0, <1>1, <1>3 DEF CommitUpload
<1>5. PICK n : n = Routed(s, r.seen, v, order)
  OBVIOUS
<1>6. /\ Uploading(q) /\ n.ok /\ run' = n.run /\ asset' = n.asset /\ fact' = n.fact
      /\ made' = made \cup {v} /\ UNCHANGED <<registry, lapsed>> /\ req' = [req EXCEPT ![q] = Idle]
  BY <1>0, <1>1, <1>4, <1>5 DEF CommitUpload, Commit, Uploading, Done, history
<1>7. /\ v \in FileVersion \ made /\ Surveyed(r.seen) /\ Extractor \ lapsed \subseteq DOMAIN r.seen.manifest
      /\ r.seen.existing = {} /\ r.seen.assets = {}
  BY <1>0, <1>1, <1>6 DEF WorkIInv, UploadsOK, SurveyOK
<1>8. a.run = run /\ a.asset = asset /\ a.fact = fact /\ Sound(a)
  BY <1>2 DEF Database, WorkIInv, JobsOK
<1>9. s = [a EXCEPT !.run = [i \in RunId |->
             IF a.run[i] # None /\ a.run[i].v = r.old /\ a.run[i].state = "queued"
             THEN [a.run[i] EXCEPT !.state = "cancelled"] ELSE a.run[i]]]
  BY <1>2, <1>3, <1>8 DEF Superseded
<1>10. /\ Sound(s) /\ Quiet(a, s)
       /\ \A i \in RunId : a.run[i] = None => s.run[i] = None
       /\ \A i \in RunId : a.run[i] # None /\ a.run[i].state # "queued" => s.run[i] = a.run[i]
  BY <1>8, <1>9, SupersededStep
<1>11. r.seen.assets \subseteq s.asset /\ IsFiniteSet(r.seen.assets)
  BY <1>7, FS_EmptySet
<1>12. /\ Sound(n) /\ Grows(s, n, v)
       /\ \A e \in DOMAIN r.seen.manifest : CandidateDone(n, s, r.seen, v, e)
  BY <1>5, <1>6, <1>7, <1>10, <1>11, RoutedStep
<1>13. AllRemembered(n, made \cup {v}, Extractor \ lapsed)
  <2>1. AllRemembered(a, made, Extractor \ lapsed) /\ \A i \in RunId : a.run[i] # None => a.run[i].v \in made
    BY <1>2, <1>8 DEF WorkIInv, JobsOK
  <2>2. v \notin made
    BY <1>7
  <2> QED BY <1>7, <1>8, <1>10, <1>12, <2>1, <2>2, UploadRemembers
<1>14. \A p \in Request \ {q} : Uploading(p) => req[p].v # v
  BY <1>0, <1>1, <1>6 DEF WorkIInv, UploadsOK
<1>15. \A p \in Request \ {q} : Resulting(p) => s.run[req[p].i] = a.run[req[p].i]
  BY <1>8, <1>10 DEF WorkIInv, ResultsOK, ResultOK
<1>16. Persists(a, s) /\ v \in FileVersion
  BY <1>7, <1>10 DEF Quiet
<1>17. RoutingCommit(q, a, s, n, v)
  BY <1>2, <1>6, <1>10, <1>12, <1>13, <1>14, <1>15, <1>16 DEF RoutingCommit
<1> QED BY <1>16, <1>17, RoutingCommits

LEMMA ResultCommits ==
  ASSUME IInv, WorkIInv, NEW q \in Request, CommitResult(q)
  PROVE  WorkIInv'
<1>1. PICK r : r = req[q]
  OBVIOUS
<1>0. PICK v, i, envelope : v = r.v /\ i = r.i /\ envelope = r.envelope
  OBVIOUS
<1>2. PICK a : a = Database
  OBVIOUS
<1>3. PICK s : s = Applied(i, envelope)
  OBVIOUS
<1>4. PICK order \in SetToSeqs(DOMAIN r.seen.manifest) : Commit(Routed(s, r.seen, v, order))
  BY <1>0, <1>1, <1>3 DEF CommitResult
<1>5. PICK n : n = Routed(s, r.seen, v, order)
  OBVIOUS
<1>6. PICK out : out = Outputs(i, envelope)
  OBVIOUS
<1>7. /\ Resulting(q) /\ n.ok /\ run' = n.run /\ asset' = n.asset /\ fact' = n.fact
      /\ UNCHANGED <<registry, made, lapsed>> /\ req' = [req EXCEPT ![q] = Idle]
  BY <1>0, <1>1, <1>4, <1>5 DEF CommitResult, Commit, Resulting, Done, history
<1>8. a.run = run /\ a.asset = asset /\ a.fact = fact /\ Sound(a)
  BY <1>2 DEF Database, WorkIInv, JobsOK
<1>9. /\ i \in RunId /\ a.run[i] # None /\ a.run[i].state = "running"
      /\ v = a.run[i].v /\ envelope \in Envelope[a.run[i].e]
      /\ Surveyed(r.seen) /\ Extractor \ lapsed \subseteq DOMAIN r.seen.manifest
      /\ \A p \in r.seen.existing : Taken(a, v, p[1], p[2], None)
      /\ out \subseteq r.seen.assets /\ r.seen.assets \subseteq a.asset \cup out
      /\ \A x \in r.seen.assets : x.v = v
  BY <1>0, <1>1, <1>2, <1>6, <1>7, <1>8 DEF WorkIInv, ResultsOK, ResultOK, SurveyOK
<1>10. a.run[i].e \in Extractor /\ a.run[i].v \in FileVersion
  BY <1>8, <1>9 DEF Sound, Db, RunRow
<1>11. envelope.kinds \subseteq Kind /\ envelope.tells \in BOOLEAN
  BY <1>9, <1>10, RoutingAssumption
<1>12. out = {[v |-> a.run[i].v, kind |-> k, run |-> i] : k \in envelope.kinds}
  BY <1>6, <1>8 DEF Outputs
<1>13. s = WithResult(a, i, envelope, out)
  BY <1>2, <1>3, <1>6 DEF Applied, Outputs, WithResult
<1>14. /\ Sound(s) /\ Persists(a, s)
       /\ s.asset = a.asset \cup out /\ s.fact \subseteq a.fact \cup {i}
       /\ s.run[i] # None /\ s.run[i].v = a.run[i].v
       /\ \A j \in RunId \ {i} : s.run[j] = a.run[j]
  BY <1>8, <1>9, <1>11, <1>12, <1>13, AppliedStep
<1>15. r.seen.assets \subseteq s.asset /\ IsFiniteSet(r.seen.assets)
  <2>1. r.seen.assets \subseteq s.asset
    BY <1>9, <1>14
  <2>2. r.seen.assets \in SUBSET AssetRow
    BY <1>0, <1>14, <2>1 DEF Sound, Db
  <2> QED BY <1>9, <2>1, <2>2, AssetsAreFinite
<1>16. /\ Sound(n) /\ Grows(s, n, v)
       /\ \A e \in DOMAIN r.seen.manifest : CandidateDone(n, s, r.seen, v, e)
  BY <1>5, <1>7, <1>9, <1>10, <1>14, <1>15, RoutedStep
<1>17. AllRemembered(n, made, Extractor \ lapsed)
  <2>1. AllRemembered(a, made, Extractor \ lapsed)
    BY <1>2 DEF WorkIInv
  <2>2. \A x \in out : x.v = a.run[i].v
    BY <1>0, <1>12
  <2> QED BY <1>8, <1>9, <1>14, <1>16, <2>1, <2>2, ResultRemembers
<1>18. v \in made /\ made \cup {v} = made
  BY <1>8, <1>9 DEF WorkIInv, JobsOK
<1>19. \A p \in Request \ {q} : Uploading(p) => req[p].v # v
  BY <1>0, <1>18 DEF WorkIInv, UploadsOK
<1>20. \A p \in Request \ {q} : Resulting(p) => s.run[req[p].i] = a.run[req[p].i]
  BY <1>0, <1>1, <1>7, <1>14 DEF WorkIInv, ResultsOK, ResultOK
<1>21. \A j \in RunId : a.run[j] = None => s.run[j] = None
  BY <1>9, <1>14
<1>22. v \in FileVersion
  BY <1>9, <1>10
<1>23. RoutingCommit(q, a, s, n, v)
  BY <1>2, <1>7, <1>14, <1>16, <1>17, <1>18, <1>19, <1>20, <1>21 DEF RoutingCommit
<1> QED BY <1>22, <1>23, RoutingCommits

LEMMA StepRemembers == IInv /\ WorkIInv /\ [Next]_vars => WorkIInv'
<1> SUFFICES ASSUME IInv, WorkIInv, [Next]_vars
             PROVE  WorkIInv'
  OBVIOUS
<1>1. ASSUME NEW e \in Extractor, Provision(e) \/ SetEnabled(e)
      PROVE  WorkIInv'
  BY <1>1, AdministrationRemembers
<1>2. ASSUME NEW i \in RunId, Claim(i) \/ (\E state \in {"queued", "dead"} : Fail(i, state))
      PROVE  WorkIInv'
  BY <1>2, WorkRemembers
<1>3. ASSUME NEW q \in Request,
             \/ \E e \in Extractor : \E m \in Declarable[e] : Register(q, e, m)
             \/ ReconcileClaims(q) \/ CommitRegistration(q) \/ Rollback(q)
      PROVE  WorkIInv'
  BY <1>3, RegistrationRemembers, RegistrationCommitRemembers, RollbackRemembers
<1>4. ASSUME NEW q \in Request, NEW v \in FileVersion, NEW old \in FileVersion \cup {None}, Upload(q, v, old)
      PROVE  WorkIInv'
  BY <1>4, UploadBegins
<1>5. ASSUME NEW q \in Request, NEW i \in RunId, SubmitResult(q, i)
      PROVE  WorkIInv'
  BY <1>5, ResultBegins
<1>6. ASSUME NEW q \in Request, NEW v \in FileVersion, NEW k \in Kind, NEW variant \in Variant,
             Ask(q, v, k, variant)
      PROVE  WorkIInv'
  BY <1>6, AskBegins
<1>7. ASSUME NEW q \in Request, CommitUpload(q) \/ CommitResult(q) \/ CommitAsk(q)
      PROVE  WorkIInv'
  BY <1>7, UploadCommits, ResultCommits, AskCommits
<1>8. CASE UNCHANGED vars
  <2>1. RegistryOK'
    BY <1>8 DEF vars, WorkIInv, RegistryOK, Registered, Registering
  <2> QED BY <1>8, <2>1, JobsAside DEF vars, jobs, Uploading, Resulting, Asking
<1> QED BY <1>1, <1>2, <1>3, <1>4, <1>5, <1>6, <1>7, <1>8 DEF Next

(* The invariant of jobs, surveys and what is owed holds in every          *)
(* reachable state.                                                        *)
THEOREM WorkInvariance == Spec => []WorkIInv
<1>1. Init => WorkIInv
  BY InitRemembers
<1> QED BY <1>1, StepRemembers, Invariance, PTL DEF Spec

(* However uploads, results, requests on demand and registrations overlap, *)
(* no work is forgotten (extraction.py: route, complete).                  *)
THEOREM NothingIsEverForgotten == Spec => []NothingIsForgotten
<1>1. WorkIInv => NothingIsForgotten
  <2>1. SUFFICES ASSUME WorkIInv, NEW v \in made, NEW e \in Extractor \ lapsed
                 PROVE  /\ (\A m \in Declarable[e] : Accepts(m, v) /\ ~m.when) => HasRun(v, e, None)
                        /\ (/\ \A m \in Declarable[e] : Accepts(m, v)
                            /\ \E i \in fact : run[i].v = v /\ run[i].donor = None)
                           => HasRun(v, e, None)
                        /\ \A a \in asset :
                              a.v = v /\ run[a.run].donor = None /\ (\A m \in Declarable[e] : a.kind \in m.takes)
                              => HasRun(v, e, a)
    BY DEF NothingIsForgotten, Always
  <2>2. PICK d : d = Database
    OBVIOUS
  <2>3. d.run = run /\ d.asset = asset /\ d.fact = fact
    BY <2>2 DEF Database
  <2>4. Remembered(d, v, e)
    BY <2>1, <2>2 DEF WorkIInv, AllRemembered
  <2>5. \A input : Taken(d, v, e, input, None) => HasRun(v, e, input)
    BY <2>3 DEF Taken, HasRun, Runs
  <2>6. WantsOriginal(e, v) => HasRun(v, e, None)
    BY <2>4, <2>5 DEF Remembered
  <2>7. WantsIfTold(e, v) /\ (\E i \in fact : run[i].v = v /\ run[i].donor = None) => HasRun(v, e, None)
    BY <2>3, <2>4, <2>5 DEF Remembered, Told
  <2>8. \A a \in asset : a.v = v /\ run[a.run].donor = None /\ WantsKind(e, a.kind) => HasRun(v, e, a)
    BY <2>3, <2>4, <2>5 DEF Remembered, Left
  <2> QED BY <2>6, <2>7, <2>8 DEF WantsOriginal, WantsIfTold, WantsKind
<1> QED BY <1>1, WorkInvariance, PTL

(* A version has one run per extractor, input and variant, and what is     *)
(* written belongs to a run of its version (tables.py: extraction_run,     *)
(* derived_asset).                                                         *)
THEOREM TypeCorrect == Spec => []TypeOK
<1>1. WorkIInv => TypeOK
  <2> SUFFICES ASSUME WorkIInv PROVE TypeOK
    OBVIOUS
  <2>1. PICK d : d = Database
    OBVIOUS
  <2>2. d.run = run /\ d.asset = asset /\ d.fact = fact /\ Sound(d)
    BY <2>1 DEF Database, WorkIInv, JobsOK
  <2>3. /\ \A e \in Extractor : extractor[e] # None =>
              extractor[e].enabled \in BOOLEAN /\ extractor[e].manifest \in Declarable[e] \cup {None}
        /\ claims \in [Kind -> Extractor \cup {None}]
        /\ made \subseteq FileVersion
    BY DEF WorkIInv, RegistryOK, JobsOK, ExtractorRow
  <2>4. ASSUME NEW i \in Runs
        PROVE  /\ run[i].v \in made /\ run[i].e \in Extractor
               /\ run[i].variant \in Variant \cup {None} /\ run[i].input \in asset \cup {None}
               /\ run[i].state \in {"queued", "running", "succeeded", "dead", "cancelled"}
               /\ run[i].state \in {"running", "succeeded"} => run[i].by # None
    <3>1. i \in RunId /\ run[i] # None
      BY DEF Runs
    <3>2. run[i] \in RunRow /\ RowOK(run[i], asset)
      BY <2>2, <3>1 DEF Sound, Db
    <3>3. run[i].v \in made
      BY <3>1 DEF WorkIInv, JobsOK
    <3> QED BY <3>2, <3>3 DEF RunRow, RowOK
  <2>5. \A i \in Runs : \A j \in Runs \ {i} :
          ~(/\ run[j].v = run[i].v /\ run[j].e = run[i].e /\ run[j].input = run[i].input
            /\ run[j].variant = run[i].variant)
    BY <2>2 DEF Sound, OneRunPerInput, SameWork, Runs
  <2>6. \A a \in asset : a.run \in Runs /\ run[a.run].v = a.v /\ a.kind \in Kind
    BY <2>2 DEF Sound, Db, AssetRow, Runs
  <2>7. fact \subseteq Runs
    BY <2>2 DEF Sound, Db, Runs
  <2> QED BY <2>3, <2>4, <2>5, <2>6, <2>7 DEF TypeOK
<1> QED BY <1>1, WorkInvariance, PTL
=============================================================================
