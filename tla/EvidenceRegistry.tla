----------------------------- MODULE EvidenceRegistry -----------------------------
(***************************************************************************)
(* The catalogue of observations of a live analysis, from its projection   *)
(* to its end: EvidenceRegistry of cmd/thesis_demo/evidence_catalog.py,    *)
(* the stages of _analyze_live in server.py that read it back and put more *)
(* into it, the snapshot made of it, and its deletion.                     *)
(***************************************************************************)
EXTENDS Naturals, Sequences, FiniteSets, Functions

CONSTANTS
    Threads,                          \* of the server
    MaxAnalyses,                      \* bound: analyses, which are numbered
    MaxEntries, MaxBytes, MaxEntryBytes, Ttl,
    Sizes,                            \* of a catalogue before it is enriched
    MaxTime,                          \* bound
    NONE

RegistryAssumption ==
    /\ MaxEntries \in Nat \ {0} /\ Ttl \in Nat \ {0}
    /\ MaxEntryBytes \in Nat \ {0} /\ MaxBytes \in Nat \ {0}
    /\ MaxAnalyses \in Nat /\ Sizes \subseteq Nat /\ NONE \notin Threads

VARIABLES
    entries,   \* the registry: [id, size, parts, expires], the newest last
    slot,      \* analysis_slot: the thread that holds it, or NONE
    at,        \* thread -> [stage, id, since]
    ids,       \* analyses begun
    status,    \* id -> parts that the result says are in its catalogue
    saved,     \* workspace: id -> parts of the snapshot, or NONE
    deleting,  \* analyses deleted in the workspace, not yet in the registry
    deleted,   \* deletions that were confirmed
    now

vars == <<entries, slot, at, ids, status, saved, deleting, deleted, now>>

Ids == 1..MaxAnalyses
\* No two entries have one id, so each byte counts once.
Bytes(es) == Cardinality(UNION {{e.id} \X (1..e.size) : e \in Range(es)})
\* The elements at some places of a sequence, in their order.
Kept(s, places) ==
    [i \in 1..Cardinality(places) |->
        s[CHOOSE n \in places : Cardinality({m \in places : m <= n}) = i]]
Idle == [stage |-> "idle", id |-> 0, since |-> 0]

-----------------------------------------------------------------------------
(* The registry *)

Pruned == Kept(entries, {n \in DOMAIN entries : entries[n].expires > now})
Without(es, id) == Kept(es, {n \in DOMAIN es : es[n].id # id})
Has(id) == \E n \in DOMAIN Pruned : Pruned[n].id = id
Get(id) == Pruned[CHOOSE n \in DOMAIN Pruned : Pruned[n].id = id]

\* The oldest ones go until the rest fits.
Evict(es) ==
    LET fits(n) == LET rest == SubSeq(es, n, Len(es))
                   IN Len(rest) <= MaxEntries /\ Bytes(rest) <= MaxBytes
        first == CHOOSE n \in 1..Len(es) + 1 : fits(n) /\ \A m \in 1..n - 1 : ~fits(m)
    IN SubSeq(es, first, Len(es))

MayPut(size) == size <= MaxEntryBytes /\ size <= MaxBytes
\* An entry put again becomes the newest.
After(id, size, parts) ==
    Evict(Append(Without(Pruned, id),
                 [id |-> id, size |-> size, parts |-> parts, expires |-> now + Ttl]))

-----------------------------------------------------------------------------
(* An analysis *)

Begin(t) ==
    /\ at[t].stage = "idle" /\ slot = NONE /\ ids < MaxAnalyses
    /\ slot' = t /\ ids' = ids + 1
    /\ at' = [at EXCEPT ![t] = [stage |-> "project", id |-> ids + 1, since |-> now]]
    /\ UNCHANGED <<entries, status, saved, deleting, deleted, now>>

\* The ranking stands, also when there is no catalogue.
Project(t) ==
    /\ at[t].stage = "project"
    /\ \/ \E size \in Sizes :
             IF MayPut(size) THEN entries' = After(at[t].id, size, {"core"}) ELSE UNCHANGED entries
       \/ UNCHANGED entries
    /\ at' = [at EXCEPT ![t].stage = "context"]
    /\ UNCHANGED <<slot, ids, status, saved, deleting, deleted, now>>

\* attach_context or attach_http, in order: read back, put, then the status.
Enrich(t, part, then) ==
    LET id == at[t].id IN
    /\ IF Has(id) /\ MayPut(Get(id).size + 1)
       THEN /\ entries' = After(id, Get(id).size + 1, Get(id).parts \cup {part})
            /\ status' = [status EXCEPT ![id] = @ \cup {part}]
       ELSE UNCHANGED <<entries, status>>
    /\ at' = [at EXCEPT ![t].stage = then]

\* Either stage is optional.
Context(t) ==
    /\ at[t].stage = "context"
    /\ \/ Enrich(t, "context", "http")
       \/ at' = [at EXCEPT ![t].stage = "http"] /\ UNCHANGED <<entries, status>>
    /\ UNCHANGED <<slot, ids, saved, deleting, deleted, now>>
Http(t) ==
    /\ at[t].stage = "http"
    /\ \/ Enrich(t, "http", "save")
       \/ at' = [at EXCEPT ![t].stage = "save"] /\ UNCHANGED <<entries, status>>
    /\ UNCHANGED <<slot, ids, saved, deleting, deleted, now>>

\* The snapshot holds what is in the registry; the workspace may fail.
Save(t) ==
    /\ at[t].stage = "save"
    /\ \/ Has(at[t].id) /\ saved' = [saved EXCEPT ![at[t].id] = Get(at[t].id).parts]
       \/ UNCHANGED saved
    /\ at' = [at EXCEPT ![t].stage = "respond"]
    /\ UNCHANGED <<entries, slot, ids, status, deleting, deleted, now>>

Respond(t) ==
    /\ at[t].stage = "respond" /\ slot' = NONE /\ at' = [at EXCEPT ![t] = Idle]
    /\ UNCHANGED <<entries, ids, status, saved, deleting, deleted, now>>

-----------------------------------------------------------------------------
(* Deletion, which the workspace lists as soon as a snapshot is there *)

DeleteSaved(id) ==
    /\ saved[id] # NONE /\ saved' = [saved EXCEPT ![id] = NONE]
    /\ deleting' = deleting \cup {id}
    /\ UNCHANGED <<entries, slot, at, ids, status, deleted, now>>

\* Mutant: the registry is left to expire.
EvictAnalysisLater(id) ==
    /\ id \in deleting /\ deleting' = deleting \ {id} /\ deleted' = deleted \cup {id}
    /\ UNCHANGED <<entries, slot, at, ids, status, saved, now>>
EvictAnalysis(id) ==
    /\ id \in deleting /\ deleting' = deleting \ {id} /\ deleted' = deleted \cup {id}
    /\ entries' = Without(entries, id)
    /\ UNCHANGED <<slot, at, ids, status, saved, now>>

\* An analysis takes less than the half hour an entry is kept.
Tick ==
    /\ now < MaxTime /\ now' = now + 1
    /\ \A t \in Threads : at[t].stage # "idle" => now' < at[t].since + Ttl
    /\ UNCHANGED <<entries, slot, at, ids, status, saved, deleting, deleted>>

Init ==
    /\ entries = <<>> /\ slot = NONE /\ at = [t \in Threads |-> Idle] /\ ids = 0
    /\ status = [id \in Ids |-> {}] /\ saved = [id \in Ids |-> NONE]
    /\ deleting = {} /\ deleted = {} /\ now = 0

Next ==
    \/ \E t \in Threads : Begin(t) \/ Project(t) \/ Context(t) \/ Http(t) \/ Save(t) \/ Respond(t)
    \/ \E id \in Ids : DeleteSaved(id) \/ EvictAnalysis(id)
    \/ Tick

Spec == Init /\ [][Next]_vars

-----------------------------------------------------------------------------
(* Properties *)

\* GET evidence: the registry, or the snapshot.
Served(id) == IF Has(id) THEN Get(id).parts ELSE saved[id]

\* The registry never holds more than it may, nor two versions of one catalogue.
RegistryBounded ==
    /\ Len(entries) <= MaxEntries /\ Bytes(entries) <= MaxBytes
    /\ \A m, n \in DOMAIN entries : entries[m].id = entries[n].id => m = n

\* What an analysis has put it can read back until it ends: neither the catalogues of
\* other analyses nor its own additions push it out.
ReadBack ==
    [][\A t \in Threads :
         at[t].stage \in {"project", "context", "http"} /\ at'[t].id = at[t].id
            /\ at[t].id \notin deleting \cup deleted
            => (Has(at[t].id) => Has(at[t].id)')]_vars

\* The status of a result agrees with the catalogue a client gets for it, from the
\* registry or from the workspace.
StatusTellsCatalogue ==
    \A id \in Ids :
        (\A t \in Threads : at[t].id # id) /\ Served(id) # NONE
            => status[id] = Served(id) \ {"core"}

\* A deletion that was confirmed is one for every reader.
DeletedNotServed == \A id \in deleted : Served(id) = NONE
=============================================================================
