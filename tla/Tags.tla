-------------------------------- MODULE Tags --------------------------------
(***************************************************************************)
(* The tag vocabulary and what carries it: tags.py, tagging.py and the     *)
(* handlers that call them. Names, the is-a graph and its closure are      *)
(* edited by administrators; a file's curation is written by its owner and *)
(* the machine's claims by the results of extraction runs.                 *)
(*                                                                         *)
(* No operation takes a lock. Each one is a transaction at READ COMMITTED  *)
(* of two steps here: it reads and decides, and it writes, at which moment *)
(* the keys and checks of the tables apply. A write that one of them       *)
(* refuses is not enabled, and the transaction can only be rolled back.    *)
(* The id of a tag is never used again; shortest depths are left out.      *)
(***************************************************************************)
EXTENDS Integers, FiniteSets, TLC

CONSTANTS
    Tag,          \* ids of tags
    Name,         \* folded names
    File,
    Folder,
    Version,      \* versions of a file, numbered from 1
    Extractor,
    Session,      \* transactions in flight
    MaxRequests,  \* how many requests of people are begun
    None          \* no row

ASSUME TagsAssumption ==
    /\ IsFiniteSet(Tag) /\ IsFiniteSet(Name)
    /\ None \notin Tag \cup Name \cup Session \cup [tag : Tag, alias : BOOLEAN]
    /\ None \notin {"manual", "confirmed", "rejected", "yes", "no", "new"}
    /\ MaxRequests \in Nat /\ Version \subseteq Nat /\ 1 \in Version

VARIABLES
    tag,      \* table tag: a status, "unborn" or "gone"
    name,     \* table tag_name: what a name resolves to, and whether as an alias
    edge,     \* table tag_edge: <<parent, child>>
    closure,  \* table tag_closure: <<ancestor, descendant>>
    word,     \* table file_tag: the provenance of a person's word
    claim,    \* table file_auto_tag: <<run, tag>>
    shelf,    \* table folder_tag: <<folder, tag>>
    current,  \* the current version of each file
    done,     \* runs whose results were applied
    tx,       \* transactions in flight: what each has read
    begun,    \* history: how many requests were begun
    said,     \* history: the last acknowledged word on a tag of a file
    raced     \* history: <<file, tag>> written over a word that had changed since it was read

vars == <<tag, name, edge, closure, word, claim, shelf, current, done, tx, begun, said, raced>>
graph == <<edge, closure>>
curation == <<word, said, raced>>
stored == <<tag, name, graph, curation, claim, shelf, current, done>>

Run == File \X Version \X Extractor
Idle == [op |-> "idle"]
Applied == {"manual", "confirmed"}
Status == {"active", "suggested", "rejected"}

Exists(t) == tag[t] \in Status
Born == {t \in Tag : Exists(t)}
Row(t, alias) == [tag |-> t, alias |-> alias]

\* The names whose row makes them a tag's own name, or one of its synonyms.
Canonical(t) == {n \in Name : name[n] = Row(t, FALSE)}
Aliases(t) == {n \in Name : name[n] = Row(t, TRUE)}
Spellings(t) == Canonical(t) \cup Aliases(t)

\* tags.get joins the canonical name: without one there is no such tag.
Found(t) == Exists(t) /\ Canonical(t) # {}

ClaimsOn(f, t) == {c \in claim : c[1][1] = f /\ c[2] = t}
Claimed(f, t) == \E c \in ClaimsOn(f, t) : c[1][2] = current[f]

\* What tags_of_file lists.
Shown(f) == {t \in Tag : Found(t) /\ \/ word[f][t] \in Applied
                                     \/ word[f][t] = None /\ Claimed(f, t)}

--------------------------------------------------------------------------
(* The closure. *)

\* The recursive query takes one more step from each row, as often as there are tags.
Reach(edges) ==
    LET walk[k \in 0 .. Cardinality(Tag)] ==
            IF k = 0 THEN edges
            ELSE walk[k-1] \cup {<<p[1][1], p[2][2]>> :
                                    p \in {q \in walk[k-1] \X edges : q[1][2] = q[2][1]}}
    IN  walk[Cardinality(Tag)]

Rebuilt(edges, tags) == {<<t, t>> : t \in tags} \cup Reach(edges)

\* Without the check of table tag_closure that a row to itself has depth 0.
Unchecked(edges) == TRUE

Insertable(edges) == \A t \in Tag : <<t, t>> \notin Reach(edges)

--------------------------------------------------------------------------
Init ==
    /\ tag \in [Tag -> {"active", "suggested", "unborn"}]
    /\ name \in [Name -> {None} \cup {Row(t, FALSE) : t \in Born}]
    /\ \A t \in Born : Cardinality(Canonical(t)) = 1
    /\ claim \in SUBSET {<<r, t>> : r \in {x \in Run : x[2] = 1}, t \in Born}
    /\ done = {c[1] : c \in claim}
    /\ edge = {} /\ closure = Rebuilt(edge, Born)
    /\ word = [f \in File |-> [t \in Tag |-> None]]
    /\ shelf = {}
    /\ current = [f \in File |-> 1]
    /\ tx = [s \in Session |-> Idle]
    /\ begun = 0
    /\ said = [f \in File |-> [t \in Tag |-> None]]
    /\ raced = {}

\* The reads of a transaction, and its end.
Read(s, record) ==
    /\ tx[s] = Idle
    /\ tx' = [tx EXCEPT ![s] = record]
    /\ UNCHANGED stored

Ask(s, record) == Read(s, record) /\ begun < MaxRequests /\ begun' = begun + 1

Write(s, op) ==
    /\ tx[s].op = op
    /\ tx' = [tx EXCEPT ![s] = Idle]
    /\ UNCHANGED <<begun, current>>

\* A request that fails on the way: a name is taken, a row refused, a deadlock.
Rollback(s) == tx[s] # Idle /\ tx' = [tx EXCEPT ![s] = Idle] /\ UNCHANGED <<stored, begun>>

--------------------------------------------------------------------------
(* Names. *)

Create(s) == \E n \in Name : name[n] = None /\ Ask(s, [op |-> "create", name |-> n])

\* A new tag has its name, and its own row in the closure.
Adding(t, n, status) ==
    /\ tag[t] = "unborn" /\ name[n] = None
    /\ tag' = [tag EXCEPT ![t] = status]
    /\ name' = [name EXCEPT ![n] = Row(t, FALSE)]
    /\ closure' = closure \cup {<<t, t>>}

CommitCreate(s) ==
    /\ Write(s, "create")
    /\ \E t \in Tag : Adding(t, tx[s].name, "active")
    /\ UNCHANGED <<edge, curation, claim, shelf, done>>

Rename(s) == \E t \in Tag, n \in Name :
    /\ Found(t)
    /\ \E own \in Canonical(t) :
          /\ name[n] = None \/ n \in Spellings(t)
          /\ Ask(s, [op |-> "rename", tag |-> t, name |-> n, own |-> own])

\* Both names go by their key alone, whoever holds them now.
Renamed(r) == [n \in Name |-> IF n = r.name THEN Row(r.tag, FALSE)
                              ELSE IF n = r.own THEN None ELSE name[n]]

CommitRename(s) ==
    /\ Write(s, "rename")
    /\ LET r == tx[s] IN
       IF r.name = r.own
       THEN UNCHANGED name   \* another spelling of the same word
       ELSE /\ Exists(r.tag) /\ Canonical(r.tag) \subseteq {r.own, r.name}
            /\ name' = Renamed(r)
    /\ UNCHANGED <<tag, graph, curation, claim, shelf, done>>

SetAliases(s) == \E t \in Tag, wanted \in SUBSET Name :
    /\ Found(t) /\ wanted \cap Canonical(t) = {} /\ wanted # Aliases(t)
    /\ Ask(s, [op |-> "aliases", tag |-> t, add |-> wanted \ Aliases(t),
               drop |-> Aliases(t) \ wanted])

CommitAliases(s) ==
    /\ Write(s, "aliases")
    /\ LET r == tx[s] IN
       /\ \A n \in r.add : name[n] = None
       /\ r.add # {} => Exists(r.tag)
       /\ name' = [n \in Name |-> IF n \in r.add THEN Row(r.tag, TRUE)
                                  ELSE IF n \in r.drop THEN None ELSE name[n]]
    /\ UNCHANGED <<tag, graph, curation, claim, shelf, done>>

--------------------------------------------------------------------------
(* The graph. *)

Parents(t) == {e[1] : e \in {x \in edge : x[2] = t}}
Children(t) == {e[2] : e \in {x \in edge : x[1] = t}}
Touching(t) == {e \in edge : t \in {e[1], e[2]}}

SetParents(s) == \E t \in Tag, wanted \in SUBSET Tag :
    /\ Found(t) /\ t \notin wanted /\ wanted # Parents(t)
    /\ \A p \in wanted : Found(p)
    /\ \A p \in wanted \ Parents(t) : <<t, p>> \notin closure
    /\ Ask(s, [op |-> "parents", tag |-> t, add |-> wanted \ Parents(t),
               drop |-> Parents(t) \ wanted])

CommitParents(s) ==
    /\ Write(s, "parents")
    /\ LET r == tx[s]
           added == {<<p, r.tag>> : p \in r.add}
       IN  /\ added \cap edge = {}
           /\ \A p \in r.add : Exists(p) /\ Exists(r.tag)
           /\ edge' = (edge \ {<<p, r.tag>> : p \in r.drop}) \cup added
    /\ Insertable(edge') /\ closure' = Rebuilt(edge', Born)
    /\ UNCHANGED <<tag, name, curation, claim, shelf, done>>

--------------------------------------------------------------------------
(* Merging one tag into another. *)

Rank(w) == CASE w = "confirmed" -> 2 [] w = "manual" -> 1 [] w = "rejected" -> 0

Merge(s) == \E from, into \in Tag :
    /\ Found(from) /\ Found(into) /\ from # into
    /\ Ask(s, [op |-> "merge", from |-> from, into |-> into,
               names |-> Spellings(from),
               words |-> [f \in File |-> <<word[f][from], word[f][into]>>],
               claims |-> {c \in claim : c[2] = from},
               shelves |-> {x \in shelf : x[2] = from}])

\* The surviving tag's own row is kept, whatever the source's says.
TargetFirst(r, f) == IF word[f][r.into] = None THEN word[f][r.from] ELSE word[f][r.into]

\* The stronger word stands. A row that came after the read goes with the source.
Stands(r, f) ==
    LET source == r.words[f][1]
        target == r.words[f][2]
        now == word[f][r.into]
    IN  IF source # None /\ target = None /\ word[f][r.from] # None THEN word[f][r.from]
        ELSE IF source # None /\ target # None /\ now # None /\ Rank(source) > Rank(target)
        THEN source ELSE now

\* A merged name as a second name of the tag's own.
OwnName(t) == Row(t, FALSE)

Synonym(t) == Row(t, TRUE)

Repointed(rows, r, seen) ==
    {x \in rows : x[2] # r.from} \cup {<<x[1], r.into>> : x \in rows \cap seen}

\* An edge that would close a loop is dropped, and judged by the closure as it was.
EdgesMerged(r) ==
    LET parents == {p \in Parents(r.from) \ {r.into} : <<r.into, p>> \notin closure}
        children == {c \in Children(r.from) \ {r.into} : <<c, r.into>> \notin closure}
    IN  (edge \ Touching(r.from))
        \cup {<<p, r.into>> : p \in parents} \cup {<<r.into, c>> : c \in children}

Strongest(x, y) == IF "yes" \in {x, y} THEN "yes" ELSE IF "no" \in {x, y} THEN "no" ELSE None

CommitMerge(s) ==
    /\ Write(s, "merge")
    /\ LET r == tx[s] IN
       /\ Exists(r.from) /\ Exists(r.into)
       /\ \A f \in File : r.words[f][1] # None /\ r.words[f][2] = None /\ word[f][r.from] # None
                             => word[f][r.into] = None
       /\ tag' = [tag EXCEPT ![r.from] = "gone"]
       /\ name' = [n \in Name |-> IF n \notin Spellings(r.from) THEN name[n]
                                  ELSE IF n \in r.names THEN Synonym(r.into) ELSE None]
       /\ word' = [f \in File |-> [word[f] EXCEPT ![r.into] = Stands(r, f), ![r.from] = None]]
       /\ claim' = Repointed(claim, r, r.claims)
       /\ shelf' = Repointed(shelf, r, r.shelves)
       /\ edge' = EdgesMerged(r)
       /\ said' = [f \in File |-> [said[f] EXCEPT ![r.from] = None,
                       ![r.into] = Strongest(said[f][r.from], said[f][r.into])]]
       /\ raced' = raced \cup {<<f, r.into>> : f \in {g \in File :
                       \/ r.words[g] # <<word[g][r.from], word[g][r.into]>>
                       \/ <<g, r.from>> \in raced}}
       /\ Insertable(edge') /\ closure' = Rebuilt(edge', Born \ {r.from})
    /\ UNCHANGED done

--------------------------------------------------------------------------
(* Deleting a tag, and answering a suggestion. *)

Carried(t) ==
    \/ \E f \in File : word[f][t] # None
    \/ \E x \in shelf \cup claim : x[2] = t

DeleteTag(s) == \E t \in Tag : Found(t) /\ ~Carried(t) /\ Ask(s, [op |-> "delete", tag |-> t])

CommitDelete(s) ==
    /\ Write(s, "delete")
    /\ LET t == tx[s].tag IN
       /\ Exists(t)
       /\ tag' = [tag EXCEPT ![t] = "gone"]
       /\ name' = [n \in Name |-> IF n \in Spellings(t) THEN None ELSE name[n]]
       /\ edge' = edge \ Touching(t)
       /\ closure' = Rebuilt(edge', Born \ {t})
       /\ word' = [f \in File |-> [word[f] EXCEPT ![t] = None]]
       /\ claim' = {c \in claim : c[2] # t}
       /\ shelf' = {x \in shelf : x[2] # t}
       /\ raced' = raced \cup {<<f, t>> : f \in {g \in File : word[g][t] # None}}
    /\ UNCHANGED <<said, done>>

Review(s) == \E t \in Tag, answer \in {"active", "rejected"} :
    /\ Found(t) /\ tag[t] = "suggested"
    /\ Ask(s, [op |-> "review", tag |-> t, status |-> answer])

CommitReview(s) ==
    /\ Write(s, "review")
    /\ LET r == tx[s] IN
       /\ Exists(r.tag)
       /\ tag' = [tag EXCEPT ![r.tag] = r.status]
       /\ claim' = IF r.status = "rejected" THEN {c \in claim : c[2] # r.tag} ELSE claim
    /\ UNCHANGED <<name, graph, curation, shelf, done>>

--------------------------------------------------------------------------
(* A person's word on a tag of a file. *)

\* Each of these writes knows the row as it was read.
Speaking(s, op, f, t) == Ask(s, [op |-> op, file |-> f, tag |-> t, read |-> word[f][t]])

\* An insert needs the key to be free, an update changes the row if there is one.
Put(r, provenance) ==
    /\ Exists(r.tag)
    /\ r.read = None => word[r.file][r.tag] = None
    /\ word' = IF r.read # None /\ word[r.file][r.tag] = None THEN word
               ELSE [word EXCEPT ![r.file][r.tag] = provenance]

Heard(r, what) ==
    /\ said' = [said EXCEPT ![r.file][r.tag] = what]
    /\ raced' = IF word[r.file][r.tag] = r.read THEN raced ELSE raced \cup {<<r.file, r.tag>>}

Apply(s) == \E f \in File, t \in Tag :
    Found(t) /\ tag[t] = "active" /\ word[f][t] \notin Applied /\ Speaking(s, "apply", f, t)

CommitApply(s) ==
    /\ Write(s, "apply")
    /\ Put(tx[s], "manual") /\ word'[tx[s].file][tx[s].tag] # None
    /\ Heard(tx[s], "yes")
    /\ UNCHANGED <<tag, name, graph, claim, shelf, done>>

Confirm(s) == \E f \in File, t \in Tag :
    /\ Found(t) /\ tag[t] = "active" /\ Claimed(f, t) /\ word[f][t] # "confirmed"
    /\ Speaking(s, "confirm", f, t)

CommitConfirm(s) ==
    /\ Write(s, "confirm")
    /\ Put(tx[s], "confirmed")
    /\ word'[tx[s].file][tx[s].tag] # None \/ Claimed(tx[s].file, tx[s].tag)
    /\ Heard(tx[s], "yes")
    /\ UNCHANGED <<tag, name, graph, claim, shelf, done>>

\* Withdrawing from a machine is remembered, taking back one's own word is not.
MachineBacked(f, t) == Claimed(f, t) \/ word[f][t] = "confirmed"

Remove(s) == \E f \in File, t \in Tag :
    /\ word[f][t] \in Applied \/ Claimed(f, t)
    /\ Speaking(s, IF MachineBacked(f, t) THEN "reject" ELSE "remove", f, t)

CommitReject(s) ==
    /\ Write(s, "reject")
    /\ Put(tx[s], "rejected")
    /\ claim' = claim \ ClaimsOn(tx[s].file, tx[s].tag)
    /\ Heard(tx[s], "no")
    /\ UNCHANGED <<tag, name, graph, shelf, done>>

CommitRemove(s) ==
    /\ Write(s, "remove")
    /\ word' = [word EXCEPT ![tx[s].file][tx[s].tag] = None]
    /\ Heard(tx[s], None)
    /\ UNCHANGED <<tag, name, graph, claim, shelf, done>>

\* A folder's tag has no machine behind it.
TagFolder(s) == \E x \in Folder \X Tag :
    /\ Found(x[2]) /\ tag[x[2]] = "active" /\ x \notin shelf
    /\ Ask(s, [op |-> "shelve", row |-> x])

CommitTagFolder(s) ==
    /\ Write(s, "shelve")
    /\ Exists(tx[s].row[2]) /\ tx[s].row \notin shelf
    /\ shelf' = shelf \cup {tx[s].row}
    /\ UNCHANGED <<tag, name, graph, curation, claim, done>>

UntagFolder(s) == \E x \in shelf : Ask(s, [op |-> "unshelve", row |-> x])

CommitUntagFolder(s) ==
    /\ Write(s, "unshelve")
    /\ shelf' = shelf \ {tx[s].row}
    /\ UNCHANGED <<tag, name, graph, curation, claim, done>>

--------------------------------------------------------------------------
(* A machine's claims, one label in an envelope. *)

\* A result that comes after the next version is accepted all the same: the
\* version it describes is still there.
Unlabelled(r) == r \notin done /\ r[2] <= current[r[1]]

\* An unknown label becomes a suggestion; a refused word or tag is left out.
ApplyClaims(s) == \E r \in Run, n \in Name :
    /\ Unlabelled(r) /\ UNCHANGED begun
    /\ Read(s, [op |-> "claims", run |-> r, name |-> n,
               tag |-> IF name[n] = None THEN "new"
                       ELSE IF tag[name[n].tag] = "rejected"
                               \/ word[r[1]][name[n].tag] = "rejected" THEN None
                       ELSE name[n].tag])

CommitClaims(s) ==
    /\ Write(s, "claims")
    /\ LET r == tx[s]
           kept == {c \in claim : c[1] # r.run}
       IN  /\ r.run \notin done /\ done' = done \cup {r.run}
           /\ \/ r.tag = None /\ claim' = kept /\ UNCHANGED <<tag, name, closure>>
              \/ /\ r.tag \in Tag /\ Exists(r.tag)
                 /\ claim' = kept \cup {<<r.run, r.tag>>}
                 /\ UNCHANGED <<tag, name, closure>>
              \/ /\ r.tag = "new"
                 /\ \E t \in Tag : /\ Adding(t, r.name, "suggested")
                                   /\ claim' = kept \cup {<<r.run, t>>}
    /\ UNCHANGED <<edge, curation, shelf>>

\* Another run over the same bytes lends its claims, but not those refused here.
Lent(r, donor) ==
    {<<r, c[2]>> : c \in {x \in claim : x[1] = donor /\ word[r[1]][x[2]] # "rejected"}}

Reuse == \E r, donor \in Run :
    /\ Unlabelled(r) /\ donor \in done /\ donor[3] = r[3]
    /\ claim' = claim \cup Lent(r, donor)
    /\ done' = done \cup {r}
    /\ UNCHANGED <<tag, name, graph, curation, shelf, current, tx, begun>>

NewVersion == \E f \in File :
    /\ current[f] + 1 \in Version
    /\ current' = [current EXCEPT ![f] = @ + 1]
    /\ UNCHANGED <<tag, name, graph, curation, claim, shelf, done, tx, begun>>

--------------------------------------------------------------------------
Vocabulary(s) ==
    \/ Create(s) \/ CommitCreate(s) \/ Rename(s) \/ CommitRename(s)
    \/ SetAliases(s) \/ CommitAliases(s) \/ SetParents(s) \/ CommitParents(s)
    \/ Merge(s) \/ CommitMerge(s) \/ DeleteTag(s) \/ CommitDelete(s)
    \/ Review(s) \/ CommitReview(s)

Tagging(s) ==
    \/ Apply(s) \/ CommitApply(s) \/ Confirm(s) \/ CommitConfirm(s)
    \/ Remove(s) \/ CommitReject(s) \/ CommitRemove(s)
    \/ TagFolder(s) \/ CommitTagFolder(s) \/ UntagFolder(s) \/ CommitUntagFolder(s)
    \/ ApplyClaims(s) \/ CommitClaims(s)

Next ==
    \/ \E s \in Session : Vocabulary(s) \/ Tagging(s) \/ Rollback(s)
    \/ Reuse \/ NewVersion

Spec == Init /\ [][Next]_vars

--------------------------------------------------------------------------
(* Every row refers to rows that are there, as the foreign keys say, and a *)
(* tag has at most one name of its own, as uq_tag_name_canonical says.     *)
TypeOK ==
    /\ tag \in [Tag -> Status \cup {"unborn", "gone"}]
    /\ name \in [Name -> {None} \cup {Row(t, b) : t \in Born, b \in BOOLEAN}]
    /\ \A t \in Tag : Cardinality(Canonical(t)) <= 1
    /\ edge \subseteq Born \X Born /\ closure \subseteq Born \X Born
    /\ \A f \in File, t \in Tag : word[f][t] \in {None, "manual", "confirmed", "rejected"}
                                  /\ (word[f][t] # None => Exists(t))
    /\ claim \subseteq Run \X Born /\ shelf \subseteq Folder \X Born
    /\ current \in [File -> Version] /\ done \subseteq Run
    /\ {c[1] : c \in claim} \subseteq done
    /\ begun \in 0 .. MaxRequests /\ raced \subseteq File \X Tag

(* The closure is exactly what the edges reach, and nothing reaches itself *)
(* - although the test for a cycle reads a closure that another edit may   *)
(* be about to change (tags.set_parents, tags.merge, tags.rebuild_closure).*)
ClosureIsReachability ==
    /\ \A x, y \in Born :
          <<x, y>> \in closure <=> x = y \/ \E p \in Parents(y) : <<x, p>> \in closure
    /\ \A x, y \in Born : {<<x, y>>, <<y, x>>} \subseteq closure => x = y

(* A person decides what is on a file: a tag that its owner put there or   *)
(* confirmed stays, on the tag that it was merged into if need be, and one *)
(* that was rejected stays away from whatever later versions, runs and     *)
(* merges bring, until somebody says otherwise. Excepted are words written *)
(* over a row that had changed since it was read.                          *)
UserDecides == \A f \in File, t \in Tag :
    <<f, t>> \notin raced /\ (Exists(t) => Found(t)) =>
        /\ said[f][t] = "yes" => t \in Shown(f)
        /\ said[f][t] = "no" => t \notin Shown(f)
=============================================================================
