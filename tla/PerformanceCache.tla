--------------------------- MODULE PerformanceCache ---------------------------
(* PerformanceCacheService of one replica, with its two users: the dashboard    *)
(* reads through getOrSet, and CacheInvalidationInterceptor invalidates a       *)
(* branch after a request that wrote.  A step is one turn of the event loop;    *)
(* all keys here are dashboards of one branch.                                  *)
EXTENDS Naturals, Sequences, SequencesExt

CONSTANTS Readers, KeyOf,       \* dashboard requests, and the key of each
          MaxEntries,           \* maxEntries
          MaxVersion,           \* bound: writes of the branch, and invalidations
          Local                 \* mode = 'local' (else only singleflight)

VARIABLES data,          \* how often the branch was written
          announced,     \* the newest write whose invalidation has run
          entries,       \* entries, in insertion order: [key, value, expired]
          generation,    \* [DataKeys -> generations]
          flights,       \* inflight: [key, generation, owner]
          value,         \* [Readers -> what its factory read, or its answer]
          floor,         \* [Readers -> announced when the request came]
          reader         \* [Readers -> "idle", "waiting" (for whom: joined), "done"]

cacheVars == <<data, announced, entries, generation, flights, value, floor, reader>>

DataKeys == {KeyOf[r] : r \in Readers}
Flights == [key : DataKeys, generation : Nat, owner : Readers]
Idle == [step |-> "idle", joined |-> CHOOSE r \in Readers : TRUE]

TypeOK ==
  /\ data \in 0..MaxVersion /\ announced \in 0..data
  /\ entries \in Seq([key : DataKeys, value : Nat, expired : BOOLEAN])
  /\ generation \in [DataKeys -> Nat] /\ flights \subseteq Flights
  /\ value \in [Readers -> 0..MaxVersion] /\ floor \in [Readers -> 0..MaxVersion]
  /\ reader \in [Readers -> [step : {"idle", "loading", "loaded", "joined", "answered"},
                             joined : Readers]]

Init ==
  /\ data = 0 /\ announced = 0 /\ entries = <<>>
  /\ generation = [k \in DataKeys |-> 0] /\ flights = {}
  /\ value = [r \in Readers |-> 0] /\ floor = [r \in Readers |-> 0]
  /\ reader = [r \in Readers |-> Idle]

(* What a Map keeps of its entries, in their order: those at these places.       *)
Kept(s, places) ==
  LET kept[i \in 0..Len(s)] ==
        IF i = 0 THEN <<>> ELSE IF i \in places THEN Append(kept[i - 1], s[i]) ELSE kept[i - 1]
  IN  kept[Len(s)]
Without(s, keys) == Kept(s, {i \in DOMAIN s : s[i].key \notin keys})
Cached(k) == {entries[i] : i \in {j \in DOMAIN entries : entries[j].key = k}}
At(r, step) == reader[r].step = step
Step(r, step, joined) == [reader EXCEPT ![r] = [step |-> step, joined |-> joined]]

----------------------------------------------------------------------------

Write ==
  /\ data < MaxVersion /\ data' = data + 1
  /\ UNCHANGED <<announced, entries, generation, flights, value, floor, reader>>

(* invalidateTenantBranch: every key with an entry or a flight moves on.         *)
(* Fault: keys that are being loaded are not invalidated                         *)
TouchedEntries == {e.key : e \in ToSet(entries)}
Touched == {e.key : e \in ToSet(entries)} \cup {f.key : f \in flights}
Invalidate ==
  /\ announced < data /\ announced' = data
  /\ generation' = [k \in DataKeys |-> IF k \in Touched THEN generation[k] + 1 ELSE generation[k]]
  /\ entries' = Without(entries, Touched)
  /\ UNCHANGED <<data, flights, value, floor, reader>>

Expire ==
  \E i \in DOMAIN entries :
    /\ ~entries[i].expired /\ entries' = [entries EXCEPT ![i].expired = TRUE]
    /\ UNCHANGED <<data, announced, generation, flights, value, floor, reader>>

(* getOrSet: a hit, a flight of this generation to join, or a flight of its own. *)
Get(r) ==
  LET k == KeyOf[r]
      hits == {e \in Cached(k) : Local /\ ~e.expired}
      mine == {f \in flights : f.key = k /\ f.generation = generation[k]} IN
  /\ At(r, "idle") /\ floor' = [floor EXCEPT ![r] = announced]
  /\ \/ /\ hits # {} /\ UNCHANGED <<entries, flights>>
        /\ value' = [value EXCEPT ![r] = (CHOOSE e \in hits : TRUE).value]
        /\ reader' = Step(r, "answered", r)
     \/ /\ hits = {} /\ entries' = Without(entries, {k}) /\ value' = value
        /\ \/ \E f \in mine : reader' = Step(r, "joined", f.owner) /\ flights' = flights
           \/ /\ mine = {} /\ reader' = Step(r, "loading", r)
              /\ flights' = flights \cup {[key |-> k, generation |-> generation[k], owner |-> r]}
  /\ UNCHANGED <<data, announced, generation>>

(* The factory reads the database, then takes its time, or fails.                *)
Load(r) ==
  /\ At(r, "loading") /\ value' = [value EXCEPT ![r] = data]
  /\ reader' = Step(r, "loaded", r)
  /\ UNCHANGED <<data, announced, entries, generation, flights, floor>>

(* The flight lands: it fills the cache if its generation still is the key's,    *)
(* the oldest entries making room, and answers everyone who joined it.           *)
MayFill(f) == Local /\ generation[f.key] = f.generation
Filled(f) ==
  LET live == Kept(entries, {i \in DOMAIN entries : ~entries[i].expired})
      from == IF Len(live) >= MaxEntries THEN Len(live) - MaxEntries + 2 ELSE 1
  IN Append(Without(SubSeq(live, from, Len(live)), {f.key}),
            [key |-> f.key, value |-> value[f.owner], expired |-> FALSE])
Answer(of) ==
  reader' = [r \in Readers |-> IF (r = of \/ At(r, "joined")) /\ reader[r].joined = of
                               THEN [step |-> "answered", joined |-> r] ELSE reader[r]]
Land(f) ==
  /\ f \in flights /\ At(f.owner, "loaded")
  /\ entries' = IF MayFill(f) THEN Filled(f) ELSE entries
  /\ flights' = flights \ {f} /\ Answer(f.owner)
  /\ value' = [r \in Readers |-> IF At(r, "joined") /\ reader[r].joined = f.owner
                                 THEN value[f.owner] ELSE value[r]]
  /\ UNCHANGED <<data, announced, generation, floor>>
LoadFails(f) ==
  /\ f \in flights /\ At(f.owner, "loading")
  /\ flights' = flights \ {f}
  /\ reader' = [r \in Readers |-> IF r = f.owner \/ (At(r, "joined") /\ reader[r].joined = f.owner)
                                  THEN Idle ELSE reader[r]]
  /\ UNCHANGED <<data, announced, entries, generation, value, floor>>

AskAgain(r) ==
  /\ At(r, "answered") /\ reader' = [reader EXCEPT ![r] = Idle]
  /\ value' = [value EXCEPT ![r] = 0] /\ floor' = [floor EXCEPT ![r] = 0]
  /\ UNCHANGED <<data, announced, entries, generation, flights>>

Next ==
  \/ Write \/ Invalidate \/ Expire
  \/ \E r \in Readers : Get(r) \/ Load(r) \/ AskAgain(r)
  \/ \E f \in flights : Land(f) \/ LoadFails(f)

Spec == Init /\ [][Next]_cacheVars

----------------------------------------------------------------------------

(* A dashboard asked for after the invalidation of a write shows that write,     *)
(* though it may come from the cache or from the query of somebody else, begun   *)
(* before or after it (generations, inflightScopes).                             *)
NeverStale == \A r \in Readers : At(r, "answered") => value[r] >= floor[r]
=============================================================================
