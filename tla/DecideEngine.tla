---------------------------- MODULE DecideEngine ----------------------------
(***************************************************************************)
(* The decision path of the engine: engine::decide (engine.rs) over the    *)
(* two in-process caches of cache.rs (decisions, and descendants of a      *)
(* dimension root), raced by the configuration writes of handlers.rs.      *)
(*                                                                         *)
(* The contents of the store are abstracted to versions: a source is what  *)
(* one store call reads (the policies, the grants, the mask rules, the     *)
(* subtree under one dimension root, the tuples behind one relation), and  *)
(* a write increments the version of every source it changes.  A decision  *)
(* is then what it was computed from: the version read of each source.     *)
(*                                                                         *)
(* Requests and writes run on a multi-threaded runtime: each await and     *)
(* each separate atomic or locked operation is a step of its own.          *)
(***************************************************************************)
EXTENDS Integers, FiniteSets

CONSTANTS
  Requests,    \* calls of engine::decide, each made at most once
  Writes,      \* calls of a save_* or delete_* handler, each made at most once
  Keys,        \* keys of the decision cache: tenant, subject and resource
  Roots,       \* dimension roots that grants name
  Rels,        \* relations that constraints name
  DecideTTL,   \* DATAAUTH_DECIDE_CACHE_TTL_SECS, 0 switches the cache off
  DescTTL,     \* DATAAUTH_DESC_CACHE_TTL_SECS, 0 switches the cache off
  MaxTime,     \* bound on the clock
  MaxDur,      \* longest time a request stays open
  MaxOpen,     \* bound on the requests in flight at once
  MaxCrashes   \* bound on process restarts

Tables == {"policy", "grant", "mask"}

Sources == Tables \cup Roots \cup Rels

ASSUME BoundsAssumption ==
  /\ DecideTTL \in Nat /\ DescTTL \in Nat
  /\ MaxTime \in Nat /\ MaxDur \in Nat /\ MaxOpen \in Nat /\ MaxCrashes \in Nat

ASSUME SourcesAssumption ==
  /\ Tables \cap Roots = {} /\ Tables \cap Rels = {} /\ Roots \cap Rels = {}

VARIABLES
  db,          \* version of each source in the store
  gen,         \* GEN, the generation counter
  decideCache, \* DECIDE: at most one entry a key
  descCache,   \* DESC: at most one entry a root
  now,         \* the clock both caches take Instant::now() from
  crashes,
  announced,   \* history: the versions committed when GEN was last advanced
  pc,          \* where each request is
  key,         \* its cache key
  start,       \* history: when it arrived
  rgen,        \* generation it loaded for the lookup under way
  floor,       \* history: announced when it arrived
  mark,        \* history: announced when it loaded rgen
  basis,       \* version it has read of each source
  since,       \* history: versions announced when it was read from the store
  kept,        \* history: versions committed when it was put into DESC, for a hit of DESC
  asked,       \* history: versions announced when the request that uses it asked for it
  upto,        \* history: versions committed when its decision was cached
  oldest,      \* history: when the oldest fact it rests on was read
  todo,        \* roots, then relations, it has still to resolve
  root,        \* the root being expanded
  found,       \* the expansion in hand, on its way into DESC
  wpc          \* where each write is

sharedVars == <<db, announced, gen, decideCache, descCache, now, crashes>>
arrivalVars == <<key, start, floor>>
lookupVars == <<rgen, mark, root, found>>
factVars == <<basis, since, kept, asked, oldest>>
requestVars == <<pc, key, start, rgen, floor, mark, basis, since, kept, asked,
                 upto, oldest, todo, root, found>>
vars == <<db, announced, gen, decideCache, descCache, now, crashes, pc, key, start, rgen,
          floor, mark, basis, since, kept, asked, upto, oldest, todo, root, found, wpc>>

Unread == -1

Version == [Sources -> Nat]

DecideEntry ==
  [key : Keys, basis : [Sources -> Int], since : Version, kept : Version, asked : Version,
   upto : Version, oldest : Nat, at : Nat, gen : Nat]

DescEntry ==
  [root : Roots, ver : Nat, since : Nat, upto : Nat, oldest : Nat, at : Nat, gen : Nat]

Expansion == [ver : Nat, since : Nat, oldest : Nat]

StoreCalls == {"policies", "grants", "descend", "relations", "masks"}
Active == StoreCalls \cup {"lookup", "expand", "descget", "descput", "put", "audit"}

Bumping == {"announce", "clearDecide", "clearDesc", "log"}

CachesOK ==
  /\ decideCache \subseteq DecideEntry
  /\ \A e, f \in decideCache : e.key = f.key => e = f
  /\ descCache \subseteq DescEntry
  /\ \A d, f \in descCache : d.root = f.root => d = f

SharedOK ==
  /\ db \in Version /\ announced \in Version
  /\ gen \in Nat
  /\ now \in 0..MaxTime /\ crashes \in 0..MaxCrashes
  /\ wpc \in [Writes -> Bumping \cup {"idle", "error", "done", "cut"}]

LookupsOK ==
  /\ key \in [Requests -> Keys]
  /\ start \in [Requests -> Nat]
  /\ rgen \in [Requests -> Nat]
  /\ floor \in [Requests -> Version] /\ mark \in [Requests -> Version]
  /\ root \in [Requests -> Roots]
  /\ found \in [Requests -> Expansion]

FactsOK ==
  /\ basis \in [Requests -> [Sources -> Int]]
  /\ since \in [Requests -> Version] /\ kept \in [Requests -> Version]
  /\ asked \in [Requests -> Version] /\ upto \in [Requests -> Version]
  /\ oldest \in [Requests -> Nat]

Expanding == {"expand", "descget", "descend", "descput"}

TodoOK ==
  /\ pc \in [Requests -> Active \cup {"idle", "done", "failed"}]
  /\ todo \in [Requests -> SUBSET (Roots \cup Rels)]
  /\ \A r \in Requests :
       /\ pc[r] \in Expanding => todo[r] \subseteq Roots
       /\ pc[r] = "relations" => todo[r] \subseteq Rels

TypeOK == SharedOK /\ CachesOK /\ LookupsOK /\ FactsOK /\ TodoOK

Zero == [s \in Sources |-> 0]

Init ==
  /\ db = Zero /\ announced = Zero
  /\ gen = 0 /\ decideCache = {} /\ descCache = {}
  /\ now = 0 /\ crashes = 0
  /\ pc = [r \in Requests |-> "idle"]
  /\ key \in [Requests -> Keys]
  /\ start = [r \in Requests |-> 0] /\ oldest = [r \in Requests |-> 0]
  /\ rgen = [r \in Requests |-> 0]
  /\ floor = [r \in Requests |-> Zero] /\ mark = [r \in Requests |-> Zero]
  /\ basis = [r \in Requests |-> [s \in Sources |-> Unread]]
  /\ since = [r \in Requests |-> Zero] /\ kept = [r \in Requests |-> Zero]
  /\ asked = [r \in Requests |-> Zero] /\ upto = [r \in Requests |-> Zero]
  /\ todo = [r \in Requests |-> {}]
  /\ root \in [Requests -> Roots]
  /\ found = [r \in Requests |-> [ver |-> 0, since |-> 0, oldest |-> 0]]
  /\ wpc = [w \in Writes |-> "idle"]

-----------------------------------------------------------------------------
(***************************************************************************)
(* decide_get and desc_get: the generation is loaded first, and compared   *)
(* with the entry's under the lock, together with the entry's age.  A TTL  *)
(* of 0 leaves no entry fresh.                                             *)
(***************************************************************************)
FreshAnyGeneration(e, g, ttl) == now - e.at < ttl

FreshForever(e, g, ttl) == e.gen = g /\ ttl > 0

Fresh(e, g, ttl) == e.gen = g /\ now - e.at < ttl

Goto(r, step) == pc' = [pc EXCEPT ![r] = step]

(***************************************************************************)
(* Request r learns source s.  What is learnt was read from the store when *)
(* from was announced and reading was the time; the request asked for it   *)
(* when ask was announced; to was committed when it was put into DESC.     *)
(***************************************************************************)
Learn(r, s, version, from, to, ask, reading) ==
  /\ basis' = [basis EXCEPT ![r][s] = version]
  /\ since' = [since EXCEPT ![r][s] = from]
  /\ kept' = [kept EXCEPT ![r][s] = to]
  /\ asked' = [asked EXCEPT ![r][s] = ask]
  /\ oldest' = [oldest EXCEPT ![r] = IF reading < @ THEN reading ELSE @]

(* One store call that reads source s now. *)
ReadStore(r, s) == Learn(r, s, db[s], announced[s], 0, announced[s], now)

(* A decide call arrives and loads the generation. *)
Arrive(r) ==
  /\ pc[r] = "idle"
  /\ Cardinality({q \in Requests : pc[q] \in Active}) < MaxOpen
  /\ Goto(r, "lookup")
  /\ start' = [start EXCEPT ![r] = now]
  /\ oldest' = [oldest EXCEPT ![r] = now]
  /\ rgen' = [rgen EXCEPT ![r] = gen]
  /\ floor' = [floor EXCEPT ![r] = announced]
  /\ mark' = [mark EXCEPT ![r] = announced]
  /\ UNCHANGED <<key, basis, since, kept, asked, upto, todo, root, found, wpc>> /\ UNCHANGED sharedVars

DecideHits(r) == {e \in decideCache : e.key = key[r] /\ Fresh(e, rgen[r], DecideTTL)}

(* A hit answers with the cached decision. *)
DecideHit(r) ==
  /\ pc[r] = "lookup"
  /\ \E e \in DecideHits(r) :
       /\ basis' = [basis EXCEPT ![r] = e.basis]
       /\ since' = [since EXCEPT ![r] = e.since]
       /\ kept' = [kept EXCEPT ![r] = e.kept]
       /\ asked' = [asked EXCEPT ![r] = e.asked]
       /\ upto' = [upto EXCEPT ![r] = e.upto]
       /\ oldest' = [oldest EXCEPT ![r] = e.oldest]
  /\ Goto(r, "audit")
  /\ UNCHANGED <<todo, wpc>>
  /\ UNCHANGED sharedVars /\ UNCHANGED arrivalVars /\ UNCHANGED lookupVars

DecideMiss(r) ==
  /\ pc[r] = "lookup" /\ DecideHits(r) = {}
  /\ Goto(r, "policies")
  /\ UNCHANGED <<upto, todo, wpc>> /\ UNCHANGED factVars
  /\ UNCHANGED sharedVars /\ UNCHANGED arrivalVars /\ UNCHANGED lookupVars

LoadPolicies(r) ==
  /\ pc[r] = "policies"
  /\ ReadStore(r, "policy")
  /\ Goto(r, "grants")
  /\ UNCHANGED <<upto, todo, wpc>>
  /\ UNCHANGED sharedVars /\ UNCHANGED arrivalVars /\ UNCHANGED lookupVars

(* The grants read name the roots to expand: any set of them. *)
LoadGrants(r) ==
  /\ pc[r] = "grants"
  /\ ReadStore(r, "grant")
  /\ \E named \in SUBSET Roots : todo' = [todo EXCEPT ![r] = named]
  /\ Goto(r, "expand")
  /\ UNCHANGED <<upto, wpc>>
  /\ UNCHANGED sharedVars /\ UNCHANGED arrivalVars /\ UNCHANGED lookupVars

(* The loop over grants and roots takes a root and desc_get loads GEN. *)
NextRoot(r) ==
  /\ pc[r] = "expand"
  /\ \E x \in todo[r] : root' = [root EXCEPT ![r] = x]
  /\ rgen' = [rgen EXCEPT ![r] = gen]
  /\ mark' = [mark EXCEPT ![r] = announced]
  /\ Goto(r, "descget")
  /\ UNCHANGED <<found, upto, todo, wpc>> /\ UNCHANGED factVars
  /\ UNCHANGED sharedVars /\ UNCHANGED arrivalVars

(* Mutant: an expansion is served whatever its generation. *)
DescHitsAnyGeneration(r) == {d \in descCache : d.root = root[r] /\ now - d.at < DescTTL}

DescHits(r) == {d \in descCache : d.root = root[r] /\ Fresh(d, rgen[r], DescTTL)}

Expanded(r) ==
  /\ todo' = [todo EXCEPT ![r] = @ \ {root[r]}]
  /\ Goto(r, "expand")

DescHit(r) ==
  /\ pc[r] = "descget"
  /\ \E d \in DescHits(r) :
       Learn(r, root[r], d.ver, d.since, d.upto, mark[r][root[r]], d.oldest)
  /\ Expanded(r)
  /\ UNCHANGED <<upto, wpc>>
  /\ UNCHANGED sharedVars /\ UNCHANGED arrivalVars /\ UNCHANGED lookupVars

DescMiss(r) ==
  /\ pc[r] = "descget" /\ DescHits(r) = {}
  /\ Goto(r, "descend")
  /\ UNCHANGED <<upto, todo, wpc>> /\ UNCHANGED factVars
  /\ UNCHANGED sharedVars /\ UNCHANGED arrivalVars /\ UNCHANGED lookupVars

(* The recursive query of the expander reads the subtree. *)
Descend(r) ==
  /\ pc[r] = "descend"
  /\ found' = [found EXCEPT ![r] = [ver |-> db[root[r]], since |-> announced[root[r]],
                                   oldest |-> now]]
  /\ Goto(r, "descput")
  /\ UNCHANGED <<rgen, mark, root, upto, todo, wpc>> /\ UNCHANGED factVars
  /\ UNCHANGED sharedVars /\ UNCHANGED arrivalVars

(* desc_put stamps the entry with the generation of the moment it is put. *)
DescPut(r) ==
  /\ pc[r] = "descput"
  /\ LET entry == [root |-> root[r], ver |-> found[r].ver, since |-> found[r].since,
                   upto |-> db[root[r]], oldest |-> found[r].oldest, at |-> now, gen |-> gen]
     IN descCache' = IF DescTTL = 0 THEN descCache
                     ELSE {d \in descCache : d.root # root[r]} \cup {entry}
  /\ Learn(r, root[r], found[r].ver, found[r].since, 0, found[r].since, found[r].oldest)
  /\ Expanded(r)
  /\ UNCHANGED <<db, announced, gen, decideCache, now, crashes, upto, wpc>>
  /\ UNCHANGED arrivalVars /\ UNCHANGED lookupVars

(* compose: the constraint names any set of relations, to be looked up next. *)
Compose(r) ==
  /\ pc[r] = "expand" /\ todo[r] = {}
  /\ \E named \in SUBSET Rels : todo' = [todo EXCEPT ![r] = named]
  /\ Goto(r, "relations")
  /\ UNCHANGED <<upto, wpc>> /\ UNCHANGED factVars
  /\ UNCHANGED sharedVars /\ UNCHANGED arrivalVars /\ UNCHANGED lookupVars

LookupResources(r) ==
  /\ pc[r] = "relations"
  /\ \E x \in todo[r] :
       /\ ReadStore(r, x)
       /\ todo' = [todo EXCEPT ![r] = @ \ {x}]
  /\ UNCHANGED <<pc, upto, wpc>>
  /\ UNCHANGED sharedVars /\ UNCHANGED arrivalVars /\ UNCHANGED lookupVars

(* The effect is known: a Deny needs no obligations. *)
Conclude(r) ==
  /\ pc[r] = "relations" /\ todo[r] = {}
  /\ \/ Goto(r, "masks")
     \/ Goto(r, "put")
  /\ UNCHANGED <<upto, todo, wpc>> /\ UNCHANGED factVars
  /\ UNCHANGED sharedVars /\ UNCHANGED arrivalVars /\ UNCHANGED lookupVars

ListMaskRules(r) ==
  /\ pc[r] = "masks"
  /\ ReadStore(r, "mask")
  /\ Goto(r, "put")
  /\ UNCHANGED <<upto, todo, wpc>>
  /\ UNCHANGED sharedVars /\ UNCHANGED arrivalVars /\ UNCHANGED lookupVars

(* Mutant: entries pile up under one key. *)
DecidePutTwice(r) ==
  /\ pc[r] = "put"
  /\ LET entry == [key |-> key[r], basis |-> basis[r], since |-> since[r], kept |-> kept[r],
                   asked |-> asked[r], upto |-> db, oldest |-> oldest[r], at |-> now, gen |-> gen]
     IN decideCache' = decideCache \cup {entry}
  /\ upto' = [upto EXCEPT ![r] = db]
  /\ Goto(r, "audit")
  /\ UNCHANGED <<db, announced, gen, descCache, now, crashes, todo, wpc>>
  /\ UNCHANGED factVars /\ UNCHANGED arrivalVars /\ UNCHANGED lookupVars

DecidePut(r) ==
  /\ pc[r] = "put"
  /\ LET entry == [key |-> key[r], basis |-> basis[r], since |-> since[r], kept |-> kept[r],
                   asked |-> asked[r], upto |-> db, oldest |-> oldest[r], at |-> now, gen |-> gen]
     IN decideCache' = IF DecideTTL = 0 THEN decideCache
                       ELSE {e \in decideCache : e.key # key[r]} \cup {entry}
  /\ upto' = [upto EXCEPT ![r] = db]
  /\ Goto(r, "audit")
  /\ UNCHANGED <<db, announced, gen, descCache, now, crashes, todo, wpc>>
  /\ UNCHANGED factVars /\ UNCHANGED arrivalVars /\ UNCHANGED lookupVars

(* write_audit: whether the append succeeds or fails, the decision is returned. *)
WriteAudit(r) ==
  /\ pc[r] = "audit"
  /\ Goto(r, "done")
  /\ UNCHANGED <<upto, todo, wpc>> /\ UNCHANGED factVars
  /\ UNCHANGED sharedVars /\ UNCHANGED arrivalVars /\ UNCHANGED lookupVars

(* A store call that fails ends the request with an error, nothing cached. *)
StoreError(r) ==
  /\ pc[r] \in StoreCalls
  /\ pc[r] = "relations" => todo[r] # {}
  /\ Goto(r, "failed")
  /\ UNCHANGED <<upto, todo, wpc>> /\ UNCHANGED factVars
  /\ UNCHANGED sharedVars /\ UNCHANGED arrivalVars /\ UNCHANGED lookupVars

-----------------------------------------------------------------------------
(***************************************************************************)
(* The writes.  A handler changes one table: a policy, grant or mask rule, *)
(* or tuples behind some relations, or nodes under some dimension roots;   *)
(* or nothing at all, when no row has the id it names.                     *)
(***************************************************************************)
Changes == {{t} : t \in Tables} \cup SUBSET Roots \cup SUBSET Rels

Change(S) == db' = [s \in Sources |-> IF s \in S THEN db[s] + 1 ELSE db[s]]

Advance(w, from, to) == wpc[w] = from /\ wpc' = [wpc EXCEPT ![w] = to]

Commit(w) ==
  /\ Advance(w, "idle", "announce")
  /\ \E S \in Changes : Change(S)
  /\ UNCHANGED <<announced, gen, decideCache, descCache, now, crashes>>
  /\ UNCHANGED requestVars

(***************************************************************************)
(* A change this process does not announce: the store call returned an     *)
(* error, and may have committed all the same, or the handler was dropped  *)
(* while it waited, another instance of the service made the write, or a   *)
(* validity window of a policy or a grant opened or closed.                *)
(***************************************************************************)
CommitUnannounced(w) ==
  /\ Advance(w, "idle", "error")
  /\ \E S \in Changes : Change(S)
  /\ UNCHANGED <<announced, gen, decideCache, descCache, now, crashes>>
  /\ UNCHANGED requestVars

(* bump_generation is three operations: the counter, then one map, then the other. *)
AdvanceGeneration(w) ==
  /\ Advance(w, "announce", "clearDecide")
  /\ gen' = gen + 1
  /\ announced' = db
  /\ UNCHANGED <<db, decideCache, descCache, now, crashes>> /\ UNCHANGED requestVars

ClearDecide(w) ==
  /\ Advance(w, "clearDecide", "clearDesc")
  /\ decideCache' = {}
  /\ UNCHANGED <<db, announced, gen, descCache, now, crashes>> /\ UNCHANGED requestVars

ClearDesc(w) ==
  /\ Advance(w, "clearDesc", "log")
  /\ descCache' = {}
  /\ UNCHANGED <<db, announced, gen, decideCache, now, crashes>> /\ UNCHANGED requestVars

(* record_change: whether the append succeeds or fails, the write is answered. *)
RecordChange(w) ==
  /\ Advance(w, "log", "done")
  /\ UNCHANGED sharedVars /\ UNCHANGED requestVars

-----------------------------------------------------------------------------
(* The process dies: both caches and every call in flight are lost, the store is not. *)
Crash ==
  /\ crashes < MaxCrashes
  /\ crashes' = crashes + 1
  /\ gen' = 0 /\ decideCache' = {} /\ descCache' = {}
  /\ announced' = db
  /\ pc' = [r \in Requests |-> IF pc[r] \in Active THEN "failed" ELSE pc[r]]
  /\ wpc' = [w \in Writes |-> IF wpc[w] \in Bumping THEN "cut" ELSE wpc[w]]
  /\ UNCHANGED <<db, now, upto, todo>> /\ UNCHANGED factVars
  /\ UNCHANGED arrivalVars /\ UNCHANGED lookupVars

(* Time passes, and no request stays open longer than MaxDur. *)
Tick ==
  /\ now < MaxTime
  /\ \A r \in Requests : pc[r] \in Active => now - start[r] < MaxDur
  /\ now' = now + 1
  /\ UNCHANGED <<db, announced, gen, decideCache, descCache, crashes, wpc>>
  /\ UNCHANGED requestVars

Resolve(r) ==
  \/ DecideHit(r) \/ DecideMiss(r)
  \/ LoadPolicies(r) \/ LoadGrants(r)
  \/ NextRoot(r) \/ DescHit(r) \/ DescMiss(r) \/ Descend(r) \/ DescPut(r)
  \/ Compose(r) \/ LookupResources(r) \/ Conclude(r) \/ ListMaskRules(r)
  \/ DecidePut(r) \/ WriteAudit(r)

Publish(w) ==
  AdvanceGeneration(w) \/ ClearDecide(w) \/ ClearDesc(w) \/ RecordChange(w)

Next ==
  \/ \E r \in Requests : Arrive(r) \/ Resolve(r) \/ StoreError(r)
  \/ \E w \in Writes : Commit(w) \/ CommitUnannounced(w) \/ Publish(w)
  \/ Crash
  \/ Tick

Spec == Init /\ [][Next]_vars

-----------------------------------------------------------------------------
(***************************************************************************)
(* Neither cache ever answers from before a bump it should know of: what a *)
(* lookup can hit was put in the cache after every change that had been    *)
(* announced when the lookup loaded the generation.  It is about the order *)
(* in which bump_generation, decide_get and decide_put load, compare and   *)
(* stamp the generation, with the maps cleared later, one after the other. *)
(***************************************************************************)
HitSeesAnnounced ==
  \A r \in Requests :
    /\ pc[r] = "lookup" =>
         \A e \in DecideHits(r), s \in Sources : floor[r][s] <= e.upto[s]
    /\ pc[r] = "descget" =>
         \A d \in DescHits(r) : mark[r][root[r]] <= d.upto

(***************************************************************************)
(* What an answer can miss.  If the engine answers from an older version   *)
(* of a source than was announced when the request arrived, then a fill    *)
(* was in progress across the missing change: either the expansion was     *)
(* read before the change was announced and put into DESC after it was     *)
(* committed, or the request whose decision was cached asked for what it   *)
(* used before the change was announced and put its decision after.  No    *)
(* other answer is stale: a decision made afresh not even by its own fill, *)
(* since what it asks for it asks for after it arrived.                    *)
(***************************************************************************)
StaleOnlyByOverlap ==
  \A r \in Requests, s \in Sources :
    pc[r] = "audit" /\ basis[r][s] # Unread /\ basis[r][s] < floor[r][s] =>
      \/ since[r][s] < floor[r][s] /\ floor[r][s] <= kept[r][s]
      \/ asked[r][s] < floor[r][s] /\ floor[r][s] <= upto[r][s]

Reach(ttl) == IF ttl = 0 THEN 0 ELSE ttl - 1

(***************************************************************************)
(* However a change was made, announced or not, an answer was read from    *)
(* the store at most the two TTLs and the two requests that filled the     *)
(* caches before its request arrived: cached expansions feed cached        *)
(* decisions, so the two TTLs add up.                                      *)
(***************************************************************************)
BoundedStaleness ==
  \A r \in Requests :
    pc[r] = "audit" =>
      start[r] - oldest[r] <= Reach(DecideTTL) + Reach(DescTTL) + 2 * MaxDur

(***************************************************************************)
(* Why the first two hold, as an inductive invariant: an entry stamped     *)
(* with the current generation was put after everything announced, nothing *)
(* read is older than what was announced when it was read, and what was    *)
(* found in DESC was put there after all that was announced when asked.    *)
(***************************************************************************)
AnnouncedInv == \A s \in Sources : announced[s] <= db[s]

SoundFact(version, from, to, ask) ==
  from <= version /\ (ask <= version \/ ask <= to)

DecideCacheInv ==
  \A e \in decideCache :
    /\ e.gen <= gen
    /\ e.gen = gen => \A s \in Sources : announced[s] <= e.upto[s]
    /\ \A s \in Sources :
         e.basis[s] # Unread => SoundFact(e.basis[s], e.since[s], e.kept[s], e.asked[s])

DescCacheInv ==
  \A d \in descCache :
    /\ d.gen <= gen
    /\ d.gen = gen => announced[d.root] <= d.upto
    /\ d.since <= d.ver

AskedInv(r) ==
  \A s \in Sources :
    /\ floor[r][s] <= announced[s] /\ mark[r][s] <= announced[s]
    /\ basis[r][s] # Unread => SoundFact(basis[r][s], since[r][s], kept[r][s], asked[r][s])
    /\ pc[r] = "idle" => basis[r][s] = Unread
    /\ pc[r] = "audit" => floor[r][s] <= upto[r][s]

LookupInv(r) ==
  /\ pc[r] \in {"lookup", "descget"} => rgen[r] <= gen
  /\ pc[r] = "lookup" =>
       \A e \in decideCache, s \in Sources : e.gen = rgen[r] => floor[r][s] <= e.upto[s]
  /\ pc[r] = "descget" =>
       \A d \in descCache :
         d.root = root[r] /\ d.gen = rgen[r] => mark[r][root[r]] <= d.upto
  /\ pc[r] = "descput" => found[r].since <= found[r].ver

GenerationInv ==
  /\ AnnouncedInv /\ DecideCacheInv /\ DescCacheInv
  /\ \A r \in Requests : AskedInv(r) /\ LookupInv(r)

(***************************************************************************)
(* Why BoundedStaleness holds: a fill lasts no longer than its request, so *)
(* an expansion is at most MaxDur old when it is cached, and a decision    *)
(* made from one at most its TTL and two requests.                         *)
(***************************************************************************)
AgeInv ==
  /\ \A d \in descCache : d.at <= now /\ d.at - d.oldest <= MaxDur
  /\ \A e \in decideCache :
       e.at <= now /\ e.at - e.oldest <= Reach(DescTTL) + 2 * MaxDur
  /\ \A r \in Requests :
       /\ start[r] <= now
       /\ pc[r] \in Active => now - start[r] <= MaxDur
       /\ pc[r] \in Active \ {"audit"} => start[r] - oldest[r] <= Reach(DescTTL) + MaxDur
       /\ pc[r] = "audit" =>
            start[r] - oldest[r] <= Reach(DecideTTL) + Reach(DescTTL) + 2 * MaxDur
       /\ pc[r] = "descput" => start[r] <= found[r].oldest

(***************************************************************************)
(* README.md, cache.rs: a write bumps the generation and clears both       *)
(* caches, so that it is visible at once and nothing stale is let through: *)
(* with every write answered, no live entry predates an announced change.  *)
(***************************************************************************)
FreshAfterWrites ==
  (\A w \in Writes : wpc[w] \in {"idle", "done"}) =>
    \A e \in decideCache, s \in Sources :
      e.gen = gen /\ e.basis[s] # Unread => e.basis[s] >= announced[s]
=============================================================================
