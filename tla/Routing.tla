------------------------------ MODULE Routing ------------------------------
(***************************************************************************)
(* Which extractor works on what: the registry (extractors.py and the      *)
(* registration endpoint) and routing (extraction.py, results.py). A       *)
(* version gets jobs when it is created, when a result lands on it and     *)
(* when somebody asks for one asset; extractors come, change and go        *)
(* meanwhile. Each transaction is two steps at READ COMMITTED: what it     *)
(* reads first, and what it writes and commits. Attempts, leases and the   *)
(* drift between a job and its run are ExtractionJobs'; here they are one  *)
(* row. There is one generation, as nothing asks for a second one yet.     *)
(***************************************************************************)
EXTENDS Naturals, FiniteSets, SequencesExt

CONSTANTS
    Extractor,    \* ids of extractors
    Kind,         \* kinds of derived assets
    FileVersion,  \* versions of files
    Media,        \* media types
    Variant,      \* what can be asked for on demand
    Request,      \* transactions in flight
    Declarable,   \* the manifests an extractor may register
    Envelope,     \* the results it may send: the kinds of its assets, whether it tells the fact
    MediaType,    \* of each version
    Content,      \* the content hash of each version
    MaxRuns,      \* runs that are made
    MaxChanges,   \* registrations, switches and requests on demand
    None          \* no manifest, no run, no input

RunId == 1 .. MaxRuns
Manifests == UNION {Declarable[e] : e \in Extractor}
Version == {m.version : m \in Manifests}
Key(v, e, version, input, variant) == <<v, e, version, input, variant>>

\* The rows of the tables.
ExtractorRow == [enabled : BOOLEAN, manifest : Manifests \cup {None}]
AssetRow == [v : FileVersion, kind : Kind, run : RunId]
RunRow == LET input == AssetRow \cup {None}
              variant == Variant \cup {None}
          IN  [v : FileVersion, e : Extractor, input : input, variant : variant,
               key : (FileVersion \X Extractor \X Version \X input \X variant) \cup {None},
               state : {"queued", "running", "succeeded", "dead", "cancelled"},
               by : Version \cup {None}, donor : RunId \cup {None}]

ASSUME RoutingAssumption ==
    /\ MaxRuns \in Nat /\ MaxChanges \in Nat
    /\ IsFiniteSet(Extractor) /\ IsFiniteSet(Kind)
    /\ None \notin Extractor \cup Kind \cup FileVersion \cup Variant
    /\ None \notin RunId /\ None \notin Manifests /\ None \notin Version
    /\ None \notin ExtractorRow /\ None \notin AssetRow /\ None \notin RunRow
    /\ \A e \in Extractor : \A m \in Declarable[e] :
          /\ m.mimes \subseteq Media /\ m.takes \subseteq Kind /\ m.kinds \subseteq Kind
          /\ m.when \in BOOLEAN
    /\ \A e \in Extractor : \A n \in Envelope[e] : n.kinds \subseteq Kind /\ n.tells \in BOOLEAN
    /\ DOMAIN MediaType = FileVersion /\ DOMAIN Content = FileVersion

VARIABLES
    extractor,  \* table extractor: enabled, manifest; or None
    claims,     \* table extractor_claim: who produces a kind
    made,       \* the versions that exist
    run,        \* table extraction_run with the job of the same id
    asset,      \* table derived_asset: the version, the kind, the run that wrote it
    fact,       \* runs that wrote the metadata a predicate waits for
    req,        \* transactions in flight
    changes,    \* history: how many changes were begun
    lapsed,     \* history: extractors that were not routable for a while
    raced       \* history: extractors that registered twice at a time

vars == <<extractor, claims, made, run, asset, fact, req, changes, lapsed, raced>>
registry == <<extractor, claims>>
jobs == <<made, run, asset, fact>>
history == <<changes, lapsed, raced>>

Idle == [pc |-> "idle"]
Runs == {i \in RunId : run[i] # None}
Registered(e) == extractor[e] # None /\ extractor[e].manifest # None

Init ==
    /\ \E first \in [Extractor -> Manifests \cup {None}] :
          /\ \A e \in Extractor : first[e] \in Declarable[e] \cup {None}
          /\ \A e, f \in Extractor :
                e # f /\ first[e] # None /\ first[f] # None => first[e].kinds \cap first[f].kinds = {}
          /\ extractor = [e \in Extractor |->
                IF first[e] = None THEN None ELSE [enabled |-> TRUE, manifest |-> first[e]]]
          /\ claims = [k \in Kind |->
                IF \E e \in Extractor : first[e] # None /\ k \in first[e].kinds
                THEN CHOOSE e \in Extractor : first[e] # None /\ k \in first[e].kinds ELSE None]
          /\ lapsed = {e \in Extractor : first[e] = None}
    /\ made = {}
    /\ run = [i \in RunId |-> None]
    /\ asset = {} /\ fact = {}
    /\ req = [q \in Request |-> Idle]
    /\ changes = 0
    /\ raced = {}

Change == changes < MaxChanges /\ changes' = changes + 1
Begin(q, record) == req[q] = Idle /\ req' = [req EXCEPT ![q] = record]
Done(q) == req' = [req EXCEPT ![q] = Idle]

\* A transaction may end without a commit at any time: its client, its server or a
\* constraint. A result's job stays where it was.
Rollback(q) ==
    /\ req[q] # Idle /\ Done(q)
    /\ UNCHANGED <<registry, jobs, history>>

--------------------------------------------------------------------------
(* The registry. *)

\* An administrator allows an id to exist. The container describes itself later.
Provision(e) ==
    /\ Change /\ extractor[e] = None
    /\ extractor' = [extractor EXCEPT ![e] = [enabled |-> TRUE, manifest |-> None]]
    /\ UNCHANGED <<claims, jobs, req, lapsed, raced>>

SetEnabled(e) ==
    /\ Change /\ extractor[e] # None
    /\ extractor' = [extractor EXCEPT ![e].enabled = ~@]
    /\ lapsed' = lapsed \cup {e}
    /\ UNCHANGED <<claims, jobs, req, raced>>

\* The credential brings the row along, read on a connection of its own.
Register(q, e, m) ==
    /\ Change /\ extractor[e] # None
    /\ Begin(q, [kind |-> "register", pc |-> "reconcile", e |-> e, m |-> m,
                 current |-> extractor[e].manifest])
    /\ raced' = IF \E o \in Request : req[o] # Idle /\ req[o].kind = "register" /\ req[o].e = e
                THEN raced \cup {e} ELSE raced
    /\ UNCHANGED <<registry, jobs, lapsed>>

Conflicts(e, m) == {k \in m.kinds : claims[k] \notin {None, e}}

\* What is no longer declared is released; the delete waits for another of the same rows.
Stale(e, m) == {k \in Kind : claims[k] = e /\ k \notin m.kinds}
Missing(e, m) == {k \in m.kinds : claims[k] # e}

ReconcileClaims(q) == LET r == req[q] IN
    /\ r # Idle /\ r.pc = "reconcile"
    /\ \A o \in Request : req[o] # Idle /\ req[o].pc = "insert" =>
          req[o].stale \cap Stale(r.e, r.m) = {}
    /\ IF r.current = r.m \/ Conflicts(r.e, r.m) # {}
       THEN Done(q)
       ELSE req' = [req EXCEPT ![q] = [kind |-> "register", pc |-> "insert", e |-> r.e, m |-> r.m,
                        stale |-> Stale(r.e, r.m), missing |-> Missing(r.e, r.m)]]
    /\ UNCHANGED <<registry, jobs, history>>

\* Fault: who comes last has it.
FreeForAll(k) == TRUE

\* The primary key has the last word on a claim.
Free(k) == claims[k] = None

CommitRegistration(q) == LET r == req[q] IN
    /\ r # Idle /\ r.pc = "insert"
    /\ \A k \in r.missing : Free(k)
    /\ claims' = [k \in Kind |-> IF k \in r.stale THEN None
                                 ELSE IF k \in r.missing THEN r.e ELSE claims[k]]
    /\ extractor' = [extractor EXCEPT ![r.e].manifest = r.m]
    /\ Done(q)
    /\ UNCHANGED <<jobs, history>>

--------------------------------------------------------------------------
(* Routing. A transaction's view of the jobs is a record db: what is       *)
(* committed and what it has written itself.                               *)

Candidates == {e \in Extractor : Registered(e) /\ extractor[e].enabled}

\* Fault: a run on demand counts as the work over the file.
ExistingOfAnyVariant(db, v) == {<<db.run[i].e, db.run[i].input>> :
    i \in {j \in RunId : db.run[j] # None /\ db.run[j].v = v}}

\* What routing has read: the work there is, the assets, who could do it.
Existing(db, v) == {<<db.run[i].e, db.run[i].input>> :
    i \in {j \in RunId : db.run[j] # None /\ db.run[j].v = v /\ db.run[j].variant = None}}

Survey(db, v) == [existing |-> Existing(db, v), assets |-> {a \in db.asset : a.v = v},
                  manifest |-> [e \in Candidates |-> extractor[e].manifest]]

Accepts(m, v) == MediaType[v] \in m.mimes
PredicateHolds(db, m, v) == m.when => \E i \in db.fact : db.run[i].v = v

Pending(db, key) == \E i \in RunId :
    db.run[i] # None /\ db.run[i].key = key /\ db.run[i].state \in {"queued", "running"}

\* Fault: the constraint takes two NULLs for different.
TakenNullsDistinct(db, v, e, input, variant) ==
    /\ None \notin {input, variant}
    /\ \E i \in RunId :
          /\ db.run[i] # None /\ db.run[i].v = v /\ db.run[i].e = e
          /\ db.run[i].input = input /\ db.run[i].variant = variant

\* uq_extraction_run_one_per_input
Taken(db, v, e, input, variant) == \E i \in RunId :
    /\ db.run[i] # None /\ db.run[i].v = v /\ db.run[i].e = e
    /\ db.run[i].input = input /\ db.run[i].variant = variant

Unused(db) == {i \in RunId : db.run[i] = None}
NextId(db) == CHOOSE i \in Unused(db) : \A j \in Unused(db) : i <= j

Row(v, e, input, variant, key, state, by, donor) ==
    [v |-> v, e |-> e, input |-> input, variant |-> variant, key |-> key, state |-> state,
     by |-> by, donor |-> donor]

\* A second run over one input breaks the constraint and with it the transaction.
Inserted(db, row) ==
    IF Taken(db, row.v, row.e, row.input, row.variant) \/ Unused(db) = {}
    THEN [db EXCEPT !.ok = FALSE] ELSE [db EXCEPT !.run[NextId(db)] = row]

\* enqueue converges on a pending job of the key, which has its run already.
Created(db, m, v, e, input, variant) ==
    LET key == Key(v, e, m.version, input, variant) IN
    IF Pending(db, key) THEN db
    ELSE Inserted(db, Row(v, e, input, variant, key, "queued", None, None))

Donors(db, m, v, e) == {i \in RunId :
    /\ db.run[i] # None /\ db.run[i].e = e /\ db.run[i].state = "succeeded"
    /\ db.run[i].by = m.version /\ db.run[i].input = None
    /\ db.run[i].v # v /\ Content[db.run[i].v] = Content[v]}

\* The oldest run over the same bytes is copied with what it wrote.
Reused(db, m, v, e) ==
    LET donor == CHOOSE i \in Donors(db, m, v, e) : \A j \in Donors(db, m, v, e) : i <= j
        new == Inserted(db, Row(v, e, None, None, None, "succeeded", m.version, donor))
    IN  IF ~new.ok THEN new ELSE
        [new EXCEPT !.asset = @ \cup {[v |-> v, kind |-> a.kind, run |-> NextId(db)] :
                                        a \in {b \in db.asset : b.run = donor}},
                    !.fact = IF donor \in @ THEN @ \cup {NextId(db)} ELSE @]

RoutedOriginal(db, seen, v, e) == LET m == seen.manifest[e] IN
    IF <<e, None>> \in seen.existing \/ ~Accepts(m, v) \/ ~PredicateHolds(db, m, v) THEN db
    ELSE IF Donors(db, m, v, e) # {} THEN Reused(db, m, v, e)
    ELSE Created(db, m, v, e, None, None)

\* One job for each asset of a kind the extractor takes.
RoutedAssets(db, seen, v, e) ==
    FoldSet(LAMBDA a, acc : Created(acc, seen.manifest[e], v, e, a, None), db,
        {a \in seen.assets : a.kind \in seen.manifest[e].takes /\ <<e, a>> \notin seen.existing})

\* The candidates come in the order of the heap.
Routed(db, seen, v, order) ==
    FoldLeft(LAMBDA acc, e : RoutedAssets(RoutedOriginal(acc, seen, v, e), seen, v, e), db, order)

Database == [run |-> run, asset |-> asset, fact |-> fact, ok |-> TRUE]

Commit(db) == db.ok /\ run' = db.run /\ asset' = db.asset /\ fact' = db.fact

--------------------------------------------------------------------------
(* The three moments of routing. *)

\* A run whose result is being applied is locked.
Locked(i) == \E q \in Request : req[q] # Idle /\ req[q].kind = "result" /\ req[q].i = i

\* files.register and files.add_version: a new version, in place of an older one.
Upload(q, v, old) ==
    /\ v \notin made /\ old \in made \cup {None}
    /\ \A o \in Request : req[o] # Idle /\ req[o].kind = "upload" => req[o].v # v
    /\ Begin(q, [kind |-> "upload", pc |-> "route", v |-> v, old |-> old,
                 seen |-> Survey(Database, v)])
    /\ UNCHANGED <<registry, jobs, history>>

\* What is queued for the older version is cancelled; what runs is only asked to stop.
Superseded(old) == [Database EXCEPT !.run = [i \in RunId |->
    IF run[i] # None /\ run[i].v = old /\ run[i].state = "queued"
    THEN [run[i] EXCEPT !.state = "cancelled"] ELSE run[i]]]

CommitUpload(q) == LET r == req[q] IN
    /\ r # Idle /\ r.kind = "upload"
    /\ \E order \in SetToSeqs(DOMAIN r.seen.manifest) :
          Commit(Routed(Superseded(r.old), r.seen, r.v, order))
    /\ made' = made \cup {r.v}
    /\ Done(q)
    /\ UNCHANGED <<registry, history>>

\* results.apply: what the envelope holds, over what this run wrote before.
Applied(i, envelope) == [Database EXCEPT
    !.run[i].state = "succeeded",
    !.asset = {a \in @ : a.run # i} \cup
              {[v |-> run[i].v, kind |-> k, run |-> i] : k \in envelope.kinds},
    !.fact = IF envelope.tells THEN @ \cup {i} ELSE @ \ {i}]

SubmitResult(q, i) ==
    /\ i \in Runs /\ run[i].state = "running" /\ ~Locked(i)
    /\ \E envelope \in Envelope[run[i].e] :
          Begin(q, [kind |-> "result", pc |-> "route", i |-> i, v |-> run[i].v,
                    envelope |-> envelope, seen |-> Survey(Applied(i, envelope), run[i].v)])
    /\ UNCHANGED <<registry, jobs, history>>

CommitResult(q) == LET r == req[q] IN
    /\ r # Idle /\ r.kind = "result"
    /\ \E order \in SetToSeqs(DOMAIN r.seen.manifest) :
          Commit(Routed(Applied(r.i, r.envelope), r.seen, r.v, order))
    /\ Done(q)
    /\ UNCHANGED <<registry, made, history>>

Claimant(k) == claims[k]

\* Somebody waits for an asset nobody has made: its one producer is asked.
Ask(q, v, k, variant) ==
    /\ Change /\ v \in made
    /\ ~\E a \in asset : a.v = v /\ a.kind = k /\ run[a.run].variant = variant
    /\ Claimant(k) # None
    /\ Begin(q, [kind |-> "ask", pc |-> "manifest", v |-> v, variant |-> variant, e |-> Claimant(k)])
    /\ UNCHANGED <<registry, jobs, lapsed, raced>>

CommitAsk(q) == LET r == req[q] IN
    /\ r # Idle /\ r.kind = "ask" /\ r.e \in Candidates
    /\ Commit(Created(Database, extractor[r.e].manifest, r.v, r.e, None, r.variant))
    /\ Done(q)
    /\ UNCHANGED <<registry, made, history>>

--------------------------------------------------------------------------
(* The work itself. *)

\* The run is stamped with what is registered at the claim.
Claim(i) ==
    /\ i \in Runs /\ run[i].state = "queued" /\ run[i].e \in Candidates
    /\ run' = [run EXCEPT ![i].state = "running", ![i].by = extractor[run[i].e].manifest.version]
    /\ UNCHANGED <<registry, made, asset, fact, req, history>>

\* A failed attempt is one to come again, or the last.
Fail(i, state) ==
    /\ i \in Runs /\ run[i].state = "running" /\ ~Locked(i) /\ state \in {"queued", "dead"}
    /\ run' = [run EXCEPT ![i].state = state]
    /\ UNCHANGED <<registry, made, asset, fact, req, history>>

Next ==
    \/ \E e \in Extractor : Provision(e) \/ SetEnabled(e)
    \/ \E i \in RunId : Claim(i) \/ (\E state \in {"queued", "dead"} : Fail(i, state))
    \/ \E q \in Request :
        \/ \E e \in Extractor : \E m \in Declarable[e] : Register(q, e, m)
        \/ ReconcileClaims(q) \/ CommitRegistration(q)
        \/ \E v \in FileVersion, old \in FileVersion \cup {None} : Upload(q, v, old)
        \/ \E i \in RunId : SubmitResult(q, i)
        \/ \E v \in FileVersion, k \in Kind, variant \in Variant : Ask(q, v, k, variant)
        \/ CommitUpload(q) \/ CommitResult(q) \/ CommitAsk(q) \/ Rollback(q)

Spec == Init /\ [][Next]_vars

--------------------------------------------------------------------------
(* Properties *)

\* Types of the tables, with the foreign keys of runs and assets and the uniqueness of a run per
\* version, extractor, input and variant (tables.py: extraction_run, derived_asset).
TypeOK ==
    /\ \A e \in Extractor : extractor[e] # None =>
          extractor[e].enabled \in BOOLEAN /\ extractor[e].manifest \in Declarable[e] \cup {None}
    /\ claims \in [Kind -> Extractor \cup {None}]
    /\ made \subseteq FileVersion
    /\ \A i \in Runs :
          /\ run[i].v \in made /\ run[i].e \in Extractor
          /\ run[i].variant \in Variant \cup {None} /\ run[i].input \in asset \cup {None}
          /\ run[i].state \in {"queued", "running", "succeeded", "dead", "cancelled"}
          /\ run[i].state \in {"running", "succeeded"} => run[i].by # None
          /\ \A j \in Runs \ {i} : ~(/\ run[j].v = run[i].v /\ run[j].e = run[i].e
                                     /\ run[j].input = run[i].input
                                     /\ run[j].variant = run[i].variant)
    /\ \A a \in asset : a.run \in Runs /\ run[a.run].v = a.v /\ a.kind \in Kind
    /\ fact \subseteq Runs

HasRun(v, e, input) == \E i \in Runs :
    run[i].v = v /\ run[i].e = e /\ run[i].input = input /\ run[i].variant = None

Always(e, Wants(_)) == \A m \in Declarable[e] : Wants(m)

\* Whatever order results, uploads, requests on demand and upgrades come in, an extractor that
\* was routable all along has its run over every original it accepts, over every original whose
\* predicate a computed result made true, and over every asset a computed result left behind
\* (extraction.py: route, complete). What a reused run brought is not promised: see Reused.
NothingIsForgotten ==
    \A v \in made, e \in Extractor \ lapsed :
        /\ Always(e, LAMBDA m : Accepts(m, v) /\ ~m.when) => HasRun(v, e, None)
        /\ /\ Always(e, LAMBDA m : Accepts(m, v))
           /\ \E i \in fact : run[i].v = v /\ run[i].donor = None
           => HasRun(v, e, None)
        /\ \A a \in asset :
              a.v = v /\ run[a.run].donor = None /\ Always(e, LAMBDA m : a.kind \in m.takes)
              => HasRun(v, e, a)

\* No two extractors are registered with one kind of output, so which of them is asked has one
\* answer - as long as no extractor registers twice at a time (extractors.py: _reconcile_claims,
\* tables.py: extractor_claim).
OneProducer ==
    \A e, f \in Extractor : e # f /\ Registered(e) /\ Registered(f) =>
        \/ extractor[e].manifest.kinds \cap extractor[f].manifest.kinds = {}
        \/ {e, f} \cap raced # {}
=============================================================================
