------------------------- MODULE DecideEngineProofs -------------------------
(* What DecideEngine guarantees for any number of requests, writes, keys,   *)
(* roots and relations, and for every pair of TTLs.                         *)
EXTENDS DecideEngine, TLAPS

(* A request that learns a version keeps its facts well typed. *)
LEMMA LearnType ==
  ASSUME FactsOK, NEW r \in Requests, NEW s \in Sources,
         NEW version \in Int, NEW from \in Nat, NEW to \in Nat, NEW ask \in Nat,
         NEW reading \in Nat, Learn(r, s, version, from, to, ask, reading)
  PROVE  /\ basis' \in [Requests -> [Sources -> Int]]
         /\ since' \in [Requests -> Version] /\ kept' \in [Requests -> Version]
         /\ asked' \in [Requests -> Version]
         /\ oldest' \in [Requests -> Nat]
<1>1. basis' \in [Requests -> [Sources -> Int]]
  BY DEF Learn, FactsOK
<1>2. /\ since' \in [Requests -> Version] /\ kept' \in [Requests -> Version]
      /\ asked' \in [Requests -> Version]
  BY DEF Learn, FactsOK, Version
<1>3. oldest' \in [Requests -> Nat]
  BY DEF Learn, FactsOK
<1> QED
  BY <1>1, <1>2, <1>3

(* So does one that reads a source from the store. *)
LEMMA ReadStoreType ==
  ASSUME SharedOK, LookupsOK, FactsOK, NEW r \in Requests, NEW s \in Sources, ReadStore(r, s)
  PROVE  /\ basis' \in [Requests -> [Sources -> Int]]
         /\ since' \in [Requests -> Version] /\ kept' \in [Requests -> Version]
         /\ asked' \in [Requests -> Version]
         /\ oldest' \in [Requests -> Nat]
<1>1. db[s] \in Int /\ announced[s] \in Nat /\ now \in Nat
  BY BoundsAssumption DEF SharedOK, Version
<1> QED
  BY <1>1, LearnType DEF ReadStore

(* What a request does to arrive keeps every variable's type. *)
LEMMA ArriveType == ASSUME TypeOK, NEW r \in Requests, Arrive(r) PROVE TypeOK'
<1> USE DEF TypeOK, Arrive, sharedVars
<1>1. SharedOK' /\ CachesOK'
  BY DEF SharedOK, CachesOK
<1>2. now \in Nat
  BY BoundsAssumption DEF SharedOK
<1>3. LookupsOK'
  BY <1>2 DEF LookupsOK, SharedOK
<1>4. FactsOK'
  BY <1>2 DEF FactsOK, SharedOK
<1>5. TodoOK'
  BY DEF TodoOK, Goto, Active, Expanding
<1> QED
  BY <1>1, <1>3, <1>4, <1>5

(* What is left alone keeps its type. *)
LEMMA UnchangedType ==
  ASSUME TypeOK
  PROVE  /\ UNCHANGED sharedVars /\ wpc' = wpc => SharedOK' /\ CachesOK'
         /\ UNCHANGED arrivalVars /\ UNCHANGED lookupVars => LookupsOK'
         /\ UNCHANGED factVars /\ upto' = upto => FactsOK'
BY DEF TypeOK, SharedOK, CachesOK, LookupsOK, FactsOK, sharedVars, arrivalVars, lookupVars,
       factVars

(* A fill of the decision cache keeps one entry a key. *)
LEMMA DecidePutType == ASSUME TypeOK, NEW r \in Requests, DecidePut(r) PROVE TypeOK'
<1> USE DEF TypeOK, DecidePut
<1>1. SharedOK' /\ LookupsOK'
  BY DEF SharedOK, LookupsOK, arrivalVars, lookupVars
<1>2. FactsOK'
  BY DEF FactsOK, factVars, SharedOK
<1>3. CachesOK'
  <2> DEFINE entry == [key |-> key[r], basis |-> basis[r], since |-> since[r],
                       kept |-> kept[r], asked |-> asked[r], upto |-> db,
                       oldest |-> oldest[r], at |-> now, gen |-> gen]
  <2>1. entry \in DecideEntry
    BY BoundsAssumption DEF DecideEntry, SharedOK, LookupsOK, FactsOK
  <2>2. entry.key = key[r]
    OBVIOUS
  <2>3. decideCache' \subseteq {e \in decideCache : e.key # key[r]} \cup {entry}
        \/ decideCache' = decideCache
    OBVIOUS
  <2>4. descCache' = descCache
    OBVIOUS
  <2> HIDE DEF entry
  <2> QED
    BY <2>1, <2>2, <2>3, <2>4 DEF CachesOK
<1>4. TodoOK'
  BY DEF TodoOK, Goto, Active, Expanding
<1> QED
  BY <1>1, <1>2, <1>3, <1>4

(* So does a fill of the expansion cache. *)
LEMMA DescPutType == ASSUME TypeOK, NEW r \in Requests, DescPut(r) PROVE TypeOK'
<1> USE DEF TypeOK, DescPut
<1>1. SharedOK' /\ LookupsOK'
  BY DEF SharedOK, LookupsOK, arrivalVars, lookupVars
<1>2. root[r] \in Roots /\ root[r] \in Sources /\ found[r] \in Expansion
  BY DEF LookupsOK, Sources
<1>3. found[r].ver \in Nat /\ found[r].since \in Nat /\ found[r].oldest \in Nat
  BY <1>2 DEF Expansion
<1>4. FactsOK'
  <2>1. Learn(r, root[r], found[r].ver, found[r].since, 0, found[r].since, found[r].oldest)
    OBVIOUS
  <2>2. upto' = upto
    OBVIOUS
  <2> HIDE DEF DescPut
  <2>3. /\ basis' \in [Requests -> [Sources -> Int]]
        /\ since' \in [Requests -> Version] /\ kept' \in [Requests -> Version]
        /\ asked' \in [Requests -> Version] /\ oldest' \in [Requests -> Nat]
    BY <1>2, <1>3, <2>1, LearnType, SMTT(30) DEF FactsOK
  <2> QED
    BY <2>2, <2>3 DEF FactsOK
<1>5. CachesOK'
  <2> DEFINE entry == [root |-> root[r], ver |-> found[r].ver, since |-> found[r].since,
                       upto |-> db[root[r]], oldest |-> found[r].oldest, at |-> now,
                       gen |-> gen]
  <2>1. entry \in DescEntry
    BY <1>2, <1>3, BoundsAssumption DEF DescEntry, SharedOK, Version
  <2>2. entry.root = root[r]
    OBVIOUS
  <2>3. descCache' \subseteq {d \in descCache : d.root # root[r]} \cup {entry}
        \/ descCache' = descCache
    OBVIOUS
  <2>4. decideCache' = decideCache
    OBVIOUS
  <2> HIDE DEF entry
  <2> QED
    BY <2>1, <2>2, <2>3, <2>4 DEF CachesOK
<1>6. TodoOK'
  BY DEF TodoOK, Expanded, Goto, Active, Expanding
<1> QED
  BY <1>1, <1>4, <1>5, <1>6

(* The lookups and the loop over roots. *)
LEMMA LookupType ==
  ASSUME TypeOK, NEW r \in Requests,
         \/ DecideHit(r) \/ DecideMiss(r)
         \/ NextRoot(r) \/ DescHit(r) \/ DescMiss(r) \/ Descend(r)
  PROVE  TypeOK'
<1> USE UnchangedType DEF TypeOK
<1>1. TodoOK'
  BY DEF DecideHit, DecideMiss, NextRoot, DescHit, DescMiss, Descend, Expanded, TodoOK, Goto,
         Active, StoreCalls, Expanding
<1>2. ASSUME DecideHit(r) PROVE TypeOK'
  <2>1. PICK e \in DecideHits(r) :
          /\ basis' = [basis EXCEPT ![r] = e.basis]
          /\ since' = [since EXCEPT ![r] = e.since]
          /\ kept' = [kept EXCEPT ![r] = e.kept]
          /\ asked' = [asked EXCEPT ![r] = e.asked]
          /\ upto' = [upto EXCEPT ![r] = e.upto]
          /\ oldest' = [oldest EXCEPT ![r] = e.oldest]
    BY <1>2 DEF DecideHit
  <2>2. e \in DecideEntry
    BY DEF DecideHits, CachesOK
  <2>3. /\ e.basis \in [Sources -> Int] /\ e.since \in Version /\ e.kept \in Version
        /\ e.asked \in Version /\ e.upto \in Version /\ e.oldest \in Nat
    BY <2>2 DEF DecideEntry
  <2>4. FactsOK'
    BY <2>1, <2>3 DEF FactsOK
  <2> QED
    BY <1>1, <1>2, <2>4 DEF DecideHit
<1>3. ASSUME DescHit(r) PROVE TypeOK'
  <2>1. PICK d \in DescHits(r) :
          Learn(r, root[r], d.ver, d.since, d.upto, mark[r][root[r]], d.oldest)
    BY <1>3 DEF DescHit
  <2>2. d \in DescEntry /\ root[r] \in Sources
    BY DEF DescHits, CachesOK, LookupsOK, Sources
  <2>3. /\ d.ver \in Nat /\ d.since \in Nat /\ d.upto \in Nat /\ d.oldest \in Nat
        /\ mark[r][root[r]] \in Nat
    BY <2>2 DEF DescEntry, LookupsOK, Version
  <2>4. FactsOK'
    <3>1. /\ basis' \in [Requests -> [Sources -> Int]]
          /\ since' \in [Requests -> Version] /\ kept' \in [Requests -> Version]
          /\ asked' \in [Requests -> Version] /\ oldest' \in [Requests -> Nat]
      BY <2>1, <2>2, <2>3, LearnType, SMTT(30) DEF FactsOK
    <3> QED
      BY <1>3, <3>1 DEF DescHit, FactsOK
  <2> QED
    BY <1>1, <1>3, <2>4 DEF DescHit
<1>4. ASSUME NextRoot(r) PROVE TypeOK'
  <2>1. PICK x \in todo[r] : root' = [root EXCEPT ![r] = x]
    BY <1>4 DEF NextRoot
  <2>2. x \in Roots
    BY <1>4 DEF NextRoot, TodoOK, Expanding
  <2>3. LookupsOK'
    BY <1>4, <2>1, <2>2 DEF NextRoot, LookupsOK, SharedOK, arrivalVars
  <2> QED
    BY <1>1, <1>4, <2>3 DEF NextRoot
<1>5. ASSUME Descend(r) PROVE TypeOK'
  <2>1. /\ root[r] \in Sources /\ now \in Nat
        /\ db[root[r]] \in Nat /\ announced[root[r]] \in Nat
    BY BoundsAssumption DEF LookupsOK, SharedOK, Version, Sources
  <2>2. found' \in [Requests -> Expansion]
    BY <1>5, <2>1 DEF Descend, LookupsOK, Expansion
  <2>3. LookupsOK'
    BY <1>5, <2>2 DEF Descend, LookupsOK, arrivalVars
  <2> QED
    BY <1>1, <1>5, <2>3 DEF Descend
<1>6. ASSUME DecideMiss(r) \/ DescMiss(r) PROVE TypeOK'
  BY <1>1, <1>6 DEF DecideMiss, DescMiss
<1> QED
  BY <1>2, <1>3, <1>4, <1>5, <1>6

(* The store calls and the steps between them. *)
LEMMA ResolveType ==
  ASSUME TypeOK, NEW r \in Requests,
         \/ LoadPolicies(r) \/ LoadGrants(r) \/ Compose(r) \/ LookupResources(r)
         \/ Conclude(r) \/ ListMaskRules(r) \/ WriteAudit(r) \/ StoreError(r)
  PROVE  TypeOK'
<1> USE UnchangedType DEF TypeOK
<1>1. TodoOK'
  <2>1. CASE LoadGrants(r)
    BY <2>1 DEF LoadGrants, TodoOK, Goto, Active, Expanding
  <2>2. CASE Compose(r)
    BY <2>2 DEF Compose, TodoOK, Goto, Active, StoreCalls, Expanding
  <2>3. CASE LookupResources(r)
    BY <2>3 DEF LookupResources, TodoOK, Expanding
  <2>4. CASE LoadPolicies(r) \/ Conclude(r) \/ ListMaskRules(r) \/ WriteAudit(r)
             \/ StoreError(r)
    BY <2>4 DEF LoadPolicies, Conclude, ListMaskRules, WriteAudit, StoreError, TodoOK, Goto,
                Active, StoreCalls, Expanding
  <2> QED
    BY <2>1, <2>2, <2>3, <2>4
<1>2. ASSUME NEW s \in Sources, ReadStore(r, s), upto' = upto PROVE FactsOK'
  BY <1>2, ReadStoreType DEF FactsOK
<1>3. "policy" \in Sources /\ "grant" \in Sources /\ "mask" \in Sources
  BY DEF Sources, Tables
<1>4. ASSUME LookupResources(r) PROVE FactsOK'
  <2>1. PICK x \in todo[r] : ReadStore(r, x)
    BY <1>4 DEF LookupResources
  <2>2. x \in Sources
    BY DEF TodoOK, Sources
  <2> QED
    BY <1>2, <1>4, <2>1, <2>2 DEF LookupResources
<1>5. FactsOK'
  BY <1>2, <1>3, <1>4 DEF LoadPolicies, LoadGrants, Compose, Conclude, ListMaskRules,
                          WriteAudit, StoreError
<1> QED
  BY <1>1, <1>5 DEF LoadPolicies, LoadGrants, Compose, LookupResources, Conclude, ListMaskRules,
                    WriteAudit, StoreError

(* The writes. *)
LEMMA WriteType ==
  ASSUME TypeOK, NEW w \in Writes, Commit(w) \/ CommitUnannounced(w) \/ Publish(w)
  PROVE  TypeOK'
<1> USE DEF TypeOK, Commit, CommitUnannounced, Publish, AdvanceGeneration, ClearDecide,
            ClearDesc, RecordChange, Advance
<1>1. db' \in Version
  BY DEF Change, SharedOK, Version, sharedVars
<1>2. SharedOK'
  BY <1>1 DEF SharedOK, Bumping, sharedVars
<1>3. CachesOK'
  BY DEF CachesOK, sharedVars
<1>4. LookupsOK' /\ FactsOK' /\ TodoOK'
  BY DEF LookupsOK, FactsOK, TodoOK, requestVars
<1> QED
  BY <1>2, <1>3, <1>4

(* Restarts and the clock. *)
LEMMA EnvironmentType == ASSUME TypeOK, Crash \/ Tick PROVE TypeOK'
<1> USE DEF TypeOK
<1>1. ASSUME Crash PROVE TypeOK'
  <2>1. SharedOK' /\ CachesOK'
    BY <1>1, BoundsAssumption DEF Crash, SharedOK, CachesOK, Bumping
  <2>2. LookupsOK' /\ FactsOK'
    BY <1>1, UnchangedType DEF Crash
  <2>3. TodoOK'
    BY <1>1 DEF Crash, TodoOK, Active, StoreCalls, Expanding
  <2> QED
    BY <2>1, <2>2, <2>3
<1>2. ASSUME Tick PROVE TypeOK'
  BY <1>2, BoundsAssumption DEF Tick, SharedOK, CachesOK, LookupsOK, FactsOK, TodoOK, requestVars
<1> QED
  BY <1>1, <1>2

(* Every variable keeps its type, and a cache holds one entry a key. *)
LEMMA TypeInductive == TypeOK /\ [Next]_vars => TypeOK'
<1> SUFFICES ASSUME TypeOK, [Next]_vars PROVE TypeOK'
  OBVIOUS
<1>1. ASSUME NEW r \in Requests, Arrive(r) \/ Resolve(r) \/ StoreError(r) PROVE TypeOK'
  BY <1>1, ArriveType, LookupType, ResolveType, DecidePutType, DescPutType DEF Resolve
<1>2. ASSUME NEW w \in Writes, Commit(w) \/ CommitUnannounced(w) \/ Publish(w) PROVE TypeOK'
  BY <1>2, WriteType
<1>3. CASE UNCHANGED vars
  BY <1>3 DEF vars, TypeOK, SharedOK, CachesOK, LookupsOK, FactsOK, TodoOK
<1> QED
  BY <1>1, <1>2, <1>3, EnvironmentType DEF Next

(* The engine starts well typed. *)
LEMMA TypeInit == Init => TypeOK
BY BoundsAssumption
   DEF Init, Zero, TypeOK, SharedOK, CachesOK, LookupsOK, FactsOK, TodoOK, Version, Expansion,
       Active, StoreCalls, Expanding, Unread

(* In every reachable state every variable has its type, a cache holds at most one *)
(* entry a key, and the loops over roots and relations have only theirs to do.     *)
THEOREM TypeCorrect == Spec => []TypeOK
BY TypeInit, TypeInductive, PTL DEF Spec

-----------------------------------------------------------------------------
(* The types of what the generation argument compares. *)
LEMMA Typed ==
  ASSUME TypeOK
  PROVE  /\ gen \in Nat /\ now \in Nat
         /\ \A s \in Sources : db[s] \in Nat /\ announced[s] \in Nat
         /\ \A e \in decideCache :
              /\ e.gen \in Nat /\ e.at \in Nat /\ e.oldest \in Nat /\ e.key \in Keys
              /\ \A s \in Sources :
                   /\ e.basis[s] \in Int /\ e.since[s] \in Nat /\ e.kept[s] \in Nat
                   /\ e.asked[s] \in Nat /\ e.upto[s] \in Nat
         /\ \A d \in descCache :
              /\ d.gen \in Nat /\ d.at \in Nat /\ d.oldest \in Nat /\ d.root \in Sources
              /\ d.ver \in Nat /\ d.since \in Nat /\ d.upto \in Nat
         /\ \A r \in Requests :
              /\ rgen[r] \in Nat /\ start[r] \in Nat /\ oldest[r] \in Nat
              /\ root[r] \in Sources
              /\ found[r].ver \in Nat /\ found[r].since \in Nat /\ found[r].oldest \in Nat
              /\ \A s \in Sources :
                   /\ floor[r][s] \in Nat /\ mark[r][s] \in Nat /\ since[r][s] \in Nat
                   /\ kept[r][s] \in Nat /\ asked[r][s] \in Nat
                   /\ upto[r][s] \in Nat /\ basis[r][s] \in Int
<1> USE DEF TypeOK
<1>1. /\ gen \in Nat /\ now \in Nat
      /\ \A s \in Sources : db[s] \in Nat /\ announced[s] \in Nat
  BY BoundsAssumption DEF SharedOK, Version
<1>2. \A e \in decideCache :
        /\ e.gen \in Nat /\ e.at \in Nat /\ e.oldest \in Nat /\ e.key \in Keys
        /\ \A s \in Sources :
             /\ e.basis[s] \in Int /\ e.since[s] \in Nat /\ e.kept[s] \in Nat
             /\ e.asked[s] \in Nat /\ e.upto[s] \in Nat
  BY DEF CachesOK, DecideEntry, Version
<1>3. \A d \in descCache :
        /\ d.gen \in Nat /\ d.at \in Nat /\ d.oldest \in Nat /\ d.root \in Sources
        /\ d.ver \in Nat /\ d.since \in Nat /\ d.upto \in Nat
  BY DEF CachesOK, DescEntry, Sources
<1>4. ASSUME NEW r \in Requests
      PROVE  /\ rgen[r] \in Nat /\ start[r] \in Nat /\ oldest[r] \in Nat
             /\ root[r] \in Sources
             /\ found[r].ver \in Nat /\ found[r].since \in Nat /\ found[r].oldest \in Nat
  BY DEF LookupsOK, FactsOK, Expansion, Sources
<1>5. ASSUME NEW r \in Requests, NEW s \in Sources
      PROVE  /\ floor[r][s] \in Nat /\ mark[r][s] \in Nat /\ since[r][s] \in Nat
             /\ kept[r][s] \in Nat /\ asked[r][s] \in Nat
             /\ upto[r][s] \in Nat /\ basis[r][s] \in Int
  BY DEF LookupsOK, FactsOK, Version
<1> QED
  BY <1>1, <1>2, <1>3, <1>4, <1>5

(* What is learnt soundly leaves every request with sound facts. *)
LEMMA LearnInv ==
  ASSUME TypeOK, GenerationInv, NEW r \in Requests, NEW x \in Sources,
         NEW version \in Nat, NEW from \in Nat, NEW to \in Nat, NEW ask \in Nat, NEW reading,
         SoundFact(version, from, to, ask),
         Learn(r, x, version, from, to, ask, reading)
  PROVE  \A q \in Requests, s \in Sources :
           /\ basis'[q][s] # Unread =>
                SoundFact(basis'[q][s], since'[q][s], kept'[q][s], asked'[q][s])
           /\ basis'[q][s] # basis[q][s] => q = r
<1> SUFFICES ASSUME NEW q \in Requests, NEW s \in Sources
             PROVE  /\ basis'[q][s] # Unread =>
                         SoundFact(basis'[q][s], since'[q][s], kept'[q][s], asked'[q][s])
                    /\ basis'[q][s] # basis[q][s] => q = r
  OBVIOUS
<1>1. CASE q = r /\ s = x
  <2>1. /\ basis'[q][s] = version /\ since'[q][s] = from /\ kept'[q][s] = to
        /\ asked'[q][s] = ask
    BY <1>1 DEF Learn, TypeOK, FactsOK, Version
  <2> QED
    BY <1>1, <2>1
<1>2. CASE ~ (q = r /\ s = x)
  <2>1. /\ basis'[q][s] = basis[q][s] /\ since'[q][s] = since[q][s]
        /\ kept'[q][s] = kept[q][s] /\ asked'[q][s] = asked[q][s]
    BY <1>2 DEF Learn, TypeOK, FactsOK, Version
  <2> QED
    BY <2>1 DEF GenerationInv, AskedInv
<1> QED
  BY <1>1, <1>2

(* Requests: the steps that change neither a cache nor what is announced. *)
LEMMA RequestGeneration ==
  ASSUME TypeOK, GenerationInv, NEW r \in Requests, UNCHANGED sharedVars,
         \/ Arrive(r) \/ DecideHit(r) \/ DecideMiss(r) \/ LoadPolicies(r) \/ LoadGrants(r)
         \/ NextRoot(r) \/ DescHit(r) \/ DescMiss(r) \/ Descend(r) \/ Compose(r)
         \/ LookupResources(r) \/ Conclude(r) \/ ListMaskRules(r) \/ WriteAudit(r)
         \/ StoreError(r)
  PROVE  GenerationInv'
<1> USE Typed DEF GenerationInv, TypeOK
<1>1. AnnouncedInv' /\ DecideCacheInv' /\ DescCacheInv'
  BY DEF AnnouncedInv, DecideCacheInv, DescCacheInv, sharedVars
<1>2. CASE Arrive(r)
  <2>1. \A q \in Requests : AskedInv(q)'
    BY <1>2 DEF Arrive, Goto, AskedInv, sharedVars, LookupsOK, FactsOK, TodoOK, Unread
  <2>2. \A q \in Requests : LookupInv(q)'
    BY <1>2 DEF Arrive, Goto, LookupInv, DecideCacheInv, sharedVars, LookupsOK, TodoOK
  <2> QED
    BY <1>1, <2>1, <2>2
<1>3. CASE DecideHit(r)
  <2>1. \A q \in Requests : AskedInv(q)'
    BY <1>3 DEF DecideHit, DecideHits, Fresh, Goto, AskedInv, LookupInv, DecideCacheInv,
                sharedVars, arrivalVars, lookupVars, LookupsOK, FactsOK, TodoOK, Unread
  <2>2. \A q \in Requests : LookupInv(q)'
    BY <1>3 DEF DecideHit, Goto, LookupInv, sharedVars, arrivalVars, lookupVars, TodoOK
  <2> QED
    BY <1>1, <2>1, <2>2
<1>4. CASE NextRoot(r)
  <2>1. \A q \in Requests : AskedInv(q)'
    BY <1>4 DEF NextRoot, Goto, AskedInv, sharedVars, arrivalVars, factVars, LookupsOK, TodoOK
  <2>2. \A q \in Requests : LookupInv(q)'
    BY <1>4 DEF NextRoot, Goto, LookupInv, DescCacheInv, sharedVars, arrivalVars, LookupsOK,
                TodoOK
  <2> QED
    BY <1>1, <2>1, <2>2
<1>5. CASE Descend(r)
  <2>1. \A q \in Requests : AskedInv(q)'
    BY <1>5 DEF Descend, Goto, AskedInv, sharedVars, arrivalVars, factVars, TodoOK
  <2>2. \A q \in Requests : LookupInv(q)'
    BY <1>5 DEF Descend, Goto, LookupInv, AskedInv, AnnouncedInv, sharedVars, arrivalVars,
                LookupsOK, TodoOK
  <2> QED
    BY <1>1, <2>1, <2>2
<1>6. ASSUME NEW x \in Sources, ReadStore(r, x), upto' = upto,
             UNCHANGED arrivalVars, UNCHANGED lookupVars,
             \/ pc' = pc /\ pc[r] # "idle"
             \/ Goto(r, "grants") \/ Goto(r, "expand") \/ Goto(r, "put")
      PROVE  GenerationInv'
  <2>3. /\ db[x] \in Nat /\ announced[x] \in Nat
        /\ SoundFact(db[x], announced[x], 0, announced[x])
    BY DEF SoundFact, AnnouncedInv
  <2>4. \A q \in Requests, s \in Sources :
          /\ basis'[q][s] # Unread =>
               SoundFact(basis'[q][s], since'[q][s], kept'[q][s], asked'[q][s])
          /\ basis'[q][s] # basis[q][s] => q = r
    BY <1>6, <2>3, LearnInv DEF ReadStore
  <2>5. UNCHANGED <<announced, floor, mark, upto>>
    BY <1>6 DEF sharedVars, arrivalVars, lookupVars
  <2>6. \/ pc[r] # "idle" /\ pc' = pc
        \/ \A q \in Requests :
             (pc'[q] = pc[q] /\ q # r) \/ pc'[q] \in {"grants", "expand", "put"}
    BY <1>6 DEF Goto, TodoOK
  <2>1. \A q \in Requests : AskedInv(q)'
    BY <2>4, <2>5, <2>6 DEF AskedInv
  <2>2. \A q \in Requests : LookupInv(q)'
    BY <1>6 DEF Goto, LookupInv, sharedVars, arrivalVars, lookupVars, TodoOK
  <2> QED
    BY <1>1, <2>1, <2>2
<1>7. CASE LoadPolicies(r) \/ LoadGrants(r) \/ ListMaskRules(r)
  BY <1>6, <1>7 DEF LoadPolicies, LoadGrants, ListMaskRules, Sources, Tables
<1>8. CASE LookupResources(r)
  <2>1. PICK x \in todo[r] : ReadStore(r, x)
    BY <1>8 DEF LookupResources
  <2>2. x \in Sources
    BY DEF TodoOK, Sources
  <2> QED
    BY <1>6, <1>8, <2>1, <2>2 DEF LookupResources
<1>9. CASE DescHit(r)
  <2>1. PICK d \in DescHits(r) :
          Learn(r, root[r], d.ver, d.since, d.upto, mark[r][root[r]], d.oldest)
    BY <1>9 DEF DescHit
  <2>2. /\ d \in descCache /\ mark[r][root[r]] \in Nat
        /\ SoundFact(d.ver, d.since, d.upto, mark[r][root[r]])
    BY <1>9 DEF DescHit, DescHits, Fresh, DescCacheInv, LookupInv, SoundFact
  <2>3. \A q \in Requests : AskedInv(q)'
    <3>1. \A q \in Requests, s \in Sources :
            /\ basis'[q][s] # Unread =>
               SoundFact(basis'[q][s], since'[q][s], kept'[q][s], asked'[q][s])
            /\ basis'[q][s] # basis[q][s] => q = r
      BY <2>1, <2>2, LearnInv
    <3>2. UNCHANGED <<announced, floor, mark, upto>>
      BY <1>9 DEF DescHit, sharedVars, arrivalVars, lookupVars
    <3>3. \A q \in Requests : pc'[q] = IF q = r THEN "expand" ELSE pc[q]
      BY <1>9 DEF DescHit, Expanded, Goto, TodoOK
    <3> QED
      BY <3>1, <3>2, <3>3 DEF AskedInv
  <2>4. \A q \in Requests : LookupInv(q)'
    BY <1>9 DEF DescHit, Expanded, Goto, LookupInv, sharedVars, arrivalVars, lookupVars, TodoOK
  <2> QED
    BY <1>1, <2>3, <2>4
<1>10. CASE DecideMiss(r) \/ DescMiss(r) \/ Compose(r) \/ Conclude(r) \/ WriteAudit(r)
            \/ StoreError(r)
  <2>1. \A q \in Requests : AskedInv(q)'
    BY <1>10 DEF DecideMiss, DescMiss, Compose, Conclude, WriteAudit, StoreError, Goto,
                 AskedInv, sharedVars, arrivalVars, lookupVars, factVars, TodoOK
  <2>2. \A q \in Requests : LookupInv(q)'
    BY <1>10 DEF DecideMiss, DescMiss, Compose, Conclude, WriteAudit, StoreError, Goto,
                 LookupInv, sharedVars, arrivalVars, lookupVars, TodoOK
  <2> QED
    BY <1>1, <2>1, <2>2
<1> QED
  BY <1>2, <1>3, <1>4, <1>5, <1>7, <1>8, <1>9, <1>10

(* A decision is cached after everything announced so far. *)
LEMMA DecidePutGeneration ==
  ASSUME TypeOK, GenerationInv, NEW r \in Requests, DecidePut(r) PROVE GenerationInv'
<1> USE Typed DEF GenerationInv, TypeOK
<1> DEFINE entry == [key |-> key[r], basis |-> basis[r], since |-> since[r],
                     kept |-> kept[r], asked |-> asked[r], upto |-> db,
                     oldest |-> oldest[r], at |-> now, gen |-> gen]
<1>1. decideCache' \subseteq decideCache \cup {entry}
  BY DEF DecidePut
<1>2. /\ entry.gen = gen /\ entry.upto = db
      /\ \A s \in Sources :
           /\ entry.basis[s] = basis[r][s] /\ entry.since[s] = since[r][s]
           /\ entry.kept[s] = kept[r][s] /\ entry.asked[s] = asked[r][s]
  OBVIOUS
<1>3. UNCHANGED <<db, announced, gen, descCache>>
  BY DEF DecidePut
<1> HIDE DEF entry
<1>4. AnnouncedInv' /\ DescCacheInv'
  BY <1>3 DEF AnnouncedInv, DescCacheInv
<1>5. DecideCacheInv'
  BY <1>1, <1>2, <1>3 DEF AnnouncedInv, DecideCacheInv, AskedInv
<1>6. \A q \in Requests : AskedInv(q)'
  BY <1>3 DEF DecidePut, Goto, AnnouncedInv, AskedInv, arrivalVars, lookupVars, factVars,
              FactsOK, TodoOK
<1>7. \A q \in Requests : LookupInv(q)'
  <2>1. UNCHANGED <<floor, rgen, mark, root, found>>
    BY DEF DecidePut, arrivalVars, lookupVars
  <2>2. \A q \in Requests : pc'[q] = pc[q] \/ pc'[q] = "audit"
    BY DEF DecidePut, Goto, TodoOK
  <2> QED
    BY <1>1, <1>2, <1>3, <2>1, <2>2 DEF LookupInv, AskedInv, AnnouncedInv
<1> QED
  BY <1>4, <1>5, <1>6, <1>7

(* An expansion is cached after everything announced so far. *)
LEMMA DescPutGeneration ==
  ASSUME TypeOK, GenerationInv, NEW r \in Requests, DescPut(r) PROVE GenerationInv'
<1> USE Typed DEF GenerationInv, TypeOK
<1> DEFINE entry == [root |-> root[r], ver |-> found[r].ver, since |-> found[r].since,
                     upto |-> db[root[r]], oldest |-> found[r].oldest, at |-> now,
                     gen |-> gen]
<1>1. descCache' \subseteq descCache \cup {entry}
  BY DEF DescPut
<1>2. /\ entry.gen = gen /\ entry.root = root[r] /\ entry.upto = db[root[r]]
      /\ entry.ver = found[r].ver /\ entry.since = found[r].since
  OBVIOUS
<1>3. UNCHANGED <<db, announced, gen, decideCache, floor, rgen, mark, root, found, upto>>
  BY DEF DescPut, arrivalVars, lookupVars
<1>4. /\ found[r].since <= found[r].ver
      /\ SoundFact(found[r].ver, found[r].since, 0, found[r].since)
  BY DEF DescPut, LookupInv, SoundFact
<1> HIDE DEF entry
<1>5. AnnouncedInv' /\ DecideCacheInv'
  BY <1>3 DEF AnnouncedInv, DecideCacheInv
<1>6. DescCacheInv'
  BY <1>1, <1>2, <1>3, <1>4 DEF AnnouncedInv, DescCacheInv
<1>7. \A q \in Requests : pc'[q] = IF q = r THEN "expand" ELSE pc[q]
  <2>1. Goto(r, "expand")
    BY DEF DescPut, Expanded
  <2> QED
    BY <2>1 DEF Goto, TodoOK
<1>8. \A q \in Requests : AskedInv(q)'
  <2>1. \A q \in Requests, s \in Sources :
          /\ basis'[q][s] # Unread =>
               SoundFact(basis'[q][s], since'[q][s], kept'[q][s], asked'[q][s])
          /\ basis'[q][s] # basis[q][s] => q = r
    BY <1>4, LearnInv DEF DescPut
  <2> QED
    BY <1>3, <1>7, <2>1 DEF AskedInv
<1>9. \A q \in Requests : LookupInv(q)'
  BY <1>1, <1>2, <1>3, <1>7 DEF LookupInv, AskedInv, AnnouncedInv
<1> QED
  BY <1>5, <1>6, <1>8, <1>9

(* Writes: no entry and no lookup is ahead of the generation, so none survives its advance. *)
LEMMA WriteGeneration ==
  ASSUME TypeOK, GenerationInv, NEW w \in Writes,
         Commit(w) \/ CommitUnannounced(w) \/ Publish(w)
  PROVE  GenerationInv'
<1> USE Typed DEF GenerationInv, TypeOK
<1>1. UNCHANGED requestVars
  BY DEF Commit, CommitUnannounced, Publish, AdvanceGeneration, ClearDecide, ClearDesc,
         RecordChange
<1>2. \A s \in Sources : db'[s] \in Nat /\ db[s] <= db'[s]
  BY DEF Commit, CommitUnannounced, Publish, AdvanceGeneration, ClearDecide, ClearDesc,
         RecordChange, Change, sharedVars
<1>3. CASE Commit(w) \/ CommitUnannounced(w)
  BY <1>1, <1>2, <1>3 DEF Commit, CommitUnannounced, AnnouncedInv, DecideCacheInv, DescCacheInv,
                          AskedInv, LookupInv, requestVars
<1>4. CASE AdvanceGeneration(w)
  <2>1. gen' = gen + 1 /\ announced' = db /\ UNCHANGED <<db, decideCache, descCache>>
    BY <1>4 DEF AdvanceGeneration
  <2>2. AnnouncedInv' /\ DecideCacheInv' /\ DescCacheInv'
    BY <2>1 DEF AnnouncedInv, DecideCacheInv, DescCacheInv
  <2>3. \A q \in Requests : AskedInv(q)' /\ LookupInv(q)'
    BY <1>1, <2>1 DEF AnnouncedInv, AskedInv, LookupInv, requestVars
  <2> QED
    BY <2>2, <2>3
<1>5. CASE ClearDecide(w) \/ ClearDesc(w) \/ RecordChange(w)
  BY <1>1, <1>5 DEF ClearDecide, ClearDesc, RecordChange, AnnouncedInv, DecideCacheInv,
                    DescCacheInv, AskedInv, LookupInv, requestVars, sharedVars
<1> QED
  BY <1>3, <1>4, <1>5 DEF Publish

(* A restart empties both caches and ends every lookup; the clock touches neither. *)
LEMMA EnvironmentGeneration ==
  ASSUME TypeOK, GenerationInv, Crash \/ Tick PROVE GenerationInv'
<1> USE Typed DEF GenerationInv, TypeOK
<1>1. CASE Crash
  BY <1>1 DEF Crash, AnnouncedInv, DecideCacheInv, DescCacheInv, AskedInv, LookupInv, Active,
              StoreCalls, TodoOK, arrivalVars, lookupVars, factVars
<1>2. CASE Tick
  BY <1>2 DEF Tick, AnnouncedInv, DecideCacheInv, DescCacheInv, AskedInv, LookupInv,
              requestVars
<1> QED
  BY <1>1, <1>2

(* Every step keeps the generations and the announced versions in order. *)
LEMMA GenerationInductive == TypeOK /\ GenerationInv /\ [Next]_vars => GenerationInv'
<1> SUFFICES ASSUME TypeOK, GenerationInv, [Next]_vars PROVE GenerationInv'
  OBVIOUS
<1>1. ASSUME NEW r \in Requests, Arrive(r) \/ Resolve(r) \/ StoreError(r)
      PROVE  GenerationInv'
  <2>1. CASE DecidePut(r) \/ DescPut(r)
    BY <2>1, DecidePutGeneration, DescPutGeneration
  <2>2. CASE ~ DecidePut(r) /\ ~ DescPut(r)
    <3>1. UNCHANGED sharedVars
      BY <1>1, <2>2 DEF Arrive, Resolve, StoreError, DecideHit, DecideMiss, LoadPolicies,
         LoadGrants, NextRoot, DescHit, DescMiss, Descend, Compose, LookupResources, Conclude,
         ListMaskRules, WriteAudit
    <3> QED
      BY <1>1, <2>2, <3>1, RequestGeneration DEF Resolve
  <2> QED
    BY <2>1, <2>2
<1>2. ASSUME NEW w \in Writes, Commit(w) \/ CommitUnannounced(w) \/ Publish(w)
      PROVE  GenerationInv'
  BY <1>2, WriteGeneration
<1>3. CASE UNCHANGED vars
  BY <1>3 DEF vars, GenerationInv, AnnouncedInv, DecideCacheInv, DescCacheInv, AskedInv,
              LookupInv
<1> QED
  BY <1>1, <1>2, <1>3, EnvironmentGeneration DEF Next

(* Nothing has been read, cached or announced at the start. *)
LEMMA GenerationInit == Init => GenerationInv
BY DEF Init, Zero, GenerationInv, AnnouncedInv, DecideCacheInv, DescCacheInv, AskedInv,
       LookupInv, Unread

(* A live entry was put after every change announced when its lookup began. *)
THEOREM NoHitBehindTheGeneration == Spec => []HitSeesAnnounced
<1>1. TypeOK /\ GenerationInv => HitSeesAnnounced
  BY Typed DEF GenerationInv, LookupInv, HitSeesAnnounced, DecideHits, DescHits, Fresh
<1> QED
  BY <1>1, TypeInit, TypeInductive, GenerationInit, GenerationInductive, PTL DEF Spec

(* An answer misses an announced change only if the fill of the expansion or of the *)
(* decision it uses was in progress across the change; a decision made afresh only  *)
(* if that of an expansion was.                                                     *)
THEOREM OnlyOverlappingFillsAreStale == Spec => []StaleOnlyByOverlap
<1>1. TypeOK /\ GenerationInv => StaleOnlyByOverlap
  BY Typed DEF GenerationInv, AskedInv, SoundFact, StaleOnlyByOverlap
<1> QED
  BY <1>1, TypeInit, TypeInductive, GenerationInit, GenerationInductive, PTL DEF Spec

-----------------------------------------------------------------------------
(* A TTL in which an entry is still fresh reaches back that far. *)
LEMMA ReachBound ==
  /\ Reach(DecideTTL) \in Nat /\ Reach(DescTTL) \in Nat
  /\ \A age \in Nat : /\ age < DecideTTL => age <= Reach(DecideTTL)
                      /\ age < DescTTL => age <= Reach(DescTTL)
BY BoundsAssumption DEF Reach

(* A request that learns a fact is as old as before, or as the fact. *)
LEMMA LearnAge ==
  ASSUME TypeOK, AgeInv, NEW r \in Requests, NEW x, NEW version, NEW from, NEW to, NEW ask,
         NEW reading \in Nat, Learn(r, x, version, from, to, ask, reading),
         start[r] - reading <= Reach(DescTTL) + MaxDur,
         pc[r] \in Active \ {"audit"}
  PROVE  \A q \in Requests :
           /\ q # r => oldest'[q] = oldest[q]
           /\ start[q] - oldest'[q] <= Reach(DescTTL) + MaxDur \/ q # r
BY Typed, ReachBound DEF AgeInv, Learn, TypeOK, FactsOK

(* Steps of a request that leave both caches alone. *)
LEMMA RequestAge ==
  ASSUME TypeOK, AgeInv, NEW r \in Requests, UNCHANGED sharedVars,
         \/ Arrive(r) \/ DecideHit(r) \/ DecideMiss(r) \/ LoadPolicies(r) \/ LoadGrants(r)
         \/ NextRoot(r) \/ DescHit(r) \/ DescMiss(r) \/ Descend(r) \/ Compose(r)
         \/ LookupResources(r) \/ Conclude(r) \/ ListMaskRules(r) \/ WriteAudit(r)
         \/ StoreError(r)
  PROVE  AgeInv'
<1> USE Typed, ReachBound, BoundsAssumption DEF TypeOK
<1>1. UNCHANGED <<decideCache, descCache, now>>
  BY DEF sharedVars
<1>2. CASE Arrive(r)
  BY <1>1, <1>2 DEF Arrive, Goto, AgeInv, LookupsOK, FactsOK, TodoOK, Active, StoreCalls
<1>3. CASE DecideHit(r)
  <2>1. UNCHANGED <<start, found>>
    BY <1>3 DEF DecideHit, arrivalVars, lookupVars
  <2>2. \A q \in Requests : pc'[q] = IF q = r THEN "audit" ELSE pc[q]
    BY <1>3 DEF DecideHit, Goto, TodoOK
  <2>3. \A q \in Requests : q # r => oldest'[q] = oldest[q]
    BY <1>3 DEF DecideHit, FactsOK
  <2>4. pc[r] = "lookup" /\ "lookup" \in Active
    BY <1>3 DEF DecideHit, Active
  <2>5. PICK e \in DecideHits(r) : oldest' = [oldest EXCEPT ![r] = e.oldest]
    BY <1>3 DEF DecideHit
  <2>6. e \in decideCache /\ now - e.at < DecideTTL /\ oldest'[r] = e.oldest
    BY <2>5 DEF DecideHits, Fresh, FactsOK
  <2>7. start[r] - oldest'[r] <= Reach(DecideTTL) + Reach(DescTTL) + 2 * MaxDur
    BY <2>6 DEF AgeInv
  <2> QED
    BY <1>1, <2>1, <2>2, <2>3, <2>4, <2>7 DEF AgeInv
<1>4. CASE Descend(r)
  <2>1. UNCHANGED <<start, oldest>>
    BY <1>4 DEF Descend, arrivalVars, factVars
  <2>2. \A q \in Requests : pc'[q] = IF q = r THEN "descput" ELSE pc[q]
    BY <1>4 DEF Descend, Goto, TodoOK
  <2>3. /\ pc[r] = "descend" /\ found'[r].oldest = now
        /\ \A q \in Requests : q # r => found'[q] = found[q]
    BY <1>4 DEF Descend, LookupsOK
  <2>4. {"descend", "descput"} \subseteq Active
    BY DEF Active, StoreCalls
  <2> QED
    BY <1>1, <2>1, <2>2, <2>3, <2>4 DEF AgeInv
<1>5. ASSUME NEW x, NEW version, NEW from, NEW to, NEW ask, NEW reading \in Nat,
             Learn(r, x, version, from, to, ask, reading),
             start[r] - reading <= Reach(DescTTL) + MaxDur,
             pc[r] \in Active \ {"audit"}, UNCHANGED <<start, found>>,
             \A q \in Requests :
               pc'[q] = pc[q] \/ (q = r /\ pc'[q] \in {"grants", "expand", "put"})
      PROVE  AgeInv'
  <2>1. \A q \in Requests :
          /\ q # r => oldest'[q] = oldest[q]
          /\ start[q] - oldest'[q] <= Reach(DescTTL) + MaxDur \/ q # r
    BY <1>5, LearnAge
  <2> QED
    BY <1>1, <1>5, <2>1 DEF AgeInv
<1>6. start[r] - now <= Reach(DescTTL) + MaxDur
  BY DEF AgeInv
<1>7. CASE LoadPolicies(r) \/ LoadGrants(r) \/ ListMaskRules(r) \/ LookupResources(r)
  <2>1. PICK x : ReadStore(r, x)
    BY <1>7 DEF LoadPolicies, LoadGrants, ListMaskRules, LookupResources
  <2>2. UNCHANGED <<start, found>> /\ pc[r] \in Active \ {"audit"}
    BY <1>7 DEF LoadPolicies, LoadGrants, ListMaskRules, LookupResources, arrivalVars,
                lookupVars, Active, StoreCalls
  <2>3. \A q \in Requests :
          pc'[q] = pc[q] \/ (q = r /\ pc'[q] \in {"grants", "expand", "put"})
    BY <1>7 DEF LoadPolicies, LoadGrants, ListMaskRules, LookupResources, Goto, TodoOK
  <2> QED
    BY <1>5, <1>6, <2>1, <2>2, <2>3 DEF ReadStore
<1>8. CASE DescHit(r)
  <2>1. PICK d \in DescHits(r) :
          Learn(r, root[r], d.ver, d.since, d.upto, mark[r][root[r]], d.oldest)
    BY <1>8 DEF DescHit
  <2>2. d \in descCache /\ now - d.at < DescTTL
    BY DEF DescHits, Fresh
  <2>3. start[r] - d.oldest <= Reach(DescTTL) + MaxDur
    BY <2>2 DEF AgeInv
  <2>4. UNCHANGED <<start, found>> /\ pc[r] \in Active \ {"audit"}
    BY <1>8 DEF DescHit, arrivalVars, lookupVars, Active
  <2>5. \A q \in Requests : pc'[q] = pc[q] \/ (q = r /\ pc'[q] = "expand")
    BY <1>8 DEF DescHit, Expanded, Goto, TodoOK
  <2> QED
    BY <1>5, <2>1, <2>2, <2>3, <2>4, <2>5
<1>9. CASE DecideMiss(r) \/ NextRoot(r) \/ DescMiss(r) \/ Compose(r) \/ Conclude(r)
           \/ WriteAudit(r) \/ StoreError(r)
  <2>1. UNCHANGED <<start, oldest, found>>
    BY <1>9 DEF DecideMiss, NextRoot, DescMiss, Compose, Conclude, WriteAudit, StoreError,
                arrivalVars, lookupVars, factVars
  <2>2. \A q \in Requests :
          \/ pc'[q] = pc[q]
          \/ q = r /\ pc[r] \in Active /\ pc'[q] \in {"done", "failed"}
          \/ q = r /\ pc[r] \in Active \ {"audit"}
             /\ pc'[q] \in Active \ {"audit", "descput"}
    BY <1>9 DEF DecideMiss, NextRoot, DescMiss, Compose, Conclude, WriteAudit, StoreError,
                Goto, TodoOK, Active, StoreCalls
  <2>3. {"done", "failed"} \cap Active = {} /\ "descput" \in Active
    BY DEF Active, StoreCalls
  <2> QED
    BY <1>1, <2>1, <2>2, <2>3 DEF AgeInv
<1> QED
  BY <1>2, <1>3, <1>4, <1>7, <1>8, <1>9

(* A decision or an expansion is cached at most MaxDur after its request arrived. *)
LEMMA PutAge ==
  ASSUME TypeOK, AgeInv, NEW r \in Requests, DecidePut(r) \/ DescPut(r) PROVE AgeInv'
<1> USE Typed, ReachBound, BoundsAssumption DEF TypeOK
<1>1. UNCHANGED <<now, start, found>>
  BY DEF DecidePut, DescPut, arrivalVars, lookupVars
<1>2. CASE DecidePut(r)
  <2>1. \A e \in decideCache' : e \in decideCache \/ (e.at = now /\ e.oldest = oldest[r])
    BY <1>2 DEF DecidePut
  <2>2. \A q \in Requests : pc'[q] = IF q = r THEN "audit" ELSE pc[q]
    BY <1>2 DEF DecidePut, Goto, TodoOK
  <2>3. UNCHANGED <<descCache, oldest>> /\ pc[r] = "put" /\ "put" \in Active
    BY <1>2 DEF DecidePut, factVars, Active
  <2> QED
    BY <1>1, <2>1, <2>2, <2>3 DEF AgeInv
<1>3. CASE DescPut(r)
  <2>1. \A d \in descCache' : d \in descCache \/ (d.at = now /\ d.oldest = found[r].oldest)
    BY <1>3 DEF DescPut
  <2>2. \A q \in Requests : pc'[q] = IF q = r THEN "expand" ELSE pc[q]
    <3>1. Goto(r, "expand")
      BY <1>3 DEF DescPut, Expanded
    <3> QED
      BY <3>1 DEF Goto, TodoOK
  <2>3. UNCHANGED decideCache /\ pc[r] = "descput" /\ {"descput", "expand"} \subseteq Active
    BY <1>3 DEF DescPut, Active
  <2>4. Learn(r, root[r], found[r].ver, found[r].since, 0, found[r].since,
              found[r].oldest)
    BY <1>3 DEF DescPut
  <2>5. \A q \in Requests :
          /\ q # r => oldest'[q] = oldest[q]
          /\ start[q] - oldest'[q] <= Reach(DescTTL) + MaxDur \/ q # r
    BY <2>3, <2>4, LearnAge DEF AgeInv
  <2> QED
    BY <1>1, <2>1, <2>2, <2>3, <2>5 DEF AgeInv
<1> QED
  BY <1>2, <1>3

(* Writes touch no age; a restart forgets; the clock waits for no request too long. *)
LEMMA OtherAge ==
  ASSUME TypeOK, AgeInv,
         \/ \E w \in Writes : Commit(w) \/ CommitUnannounced(w) \/ Publish(w)
         \/ Crash \/ Tick \/ UNCHANGED vars
  PROVE  AgeInv'
<1> USE Typed, ReachBound, BoundsAssumption DEF TypeOK
<1>1. CASE \E w \in Writes : Commit(w) \/ CommitUnannounced(w) \/ Publish(w)
  <2>1. UNCHANGED <<now, start, oldest, found, pc>>
    BY <1>1 DEF Commit, CommitUnannounced, Publish, AdvanceGeneration, ClearDecide, ClearDesc,
                RecordChange, requestVars, sharedVars
  <2>2. decideCache' \subseteq decideCache /\ descCache' \subseteq descCache
    BY <1>1 DEF Commit, CommitUnannounced, Publish, AdvanceGeneration, ClearDecide, ClearDesc,
                RecordChange, sharedVars
  <2> QED
    BY <2>1, <2>2 DEF AgeInv
<1>2. CASE Crash
  BY <1>2 DEF Crash, AgeInv, Active, StoreCalls, TodoOK, arrivalVars, lookupVars, factVars
<1>3. CASE Tick
  BY <1>3 DEF Tick, AgeInv, requestVars
<1>4. CASE UNCHANGED vars
  BY <1>4 DEF vars, AgeInv
<1> QED
  BY <1>1, <1>2, <1>3, <1>4

(* Every step keeps the ages of requests and entries within their bounds. *)
LEMMA AgeInductive == TypeOK /\ AgeInv /\ [Next]_vars => AgeInv'
<1> SUFFICES ASSUME TypeOK, AgeInv, [Next]_vars PROVE AgeInv'
  OBVIOUS
<1>1. ASSUME NEW r \in Requests, Arrive(r) \/ Resolve(r) \/ StoreError(r) PROVE AgeInv'
  <2>1. CASE DecidePut(r) \/ DescPut(r)
    BY <2>1, PutAge
  <2>2. CASE ~ DecidePut(r) /\ ~ DescPut(r)
    <3>1. UNCHANGED sharedVars
      BY <1>1, <2>2 DEF Arrive, Resolve, StoreError, DecideHit, DecideMiss, LoadPolicies,
         LoadGrants, NextRoot, DescHit, DescMiss, Descend, Compose, LookupResources, Conclude,
         ListMaskRules, WriteAudit
    <3> QED
      BY <1>1, <2>2, <3>1, RequestAge DEF Resolve
  <2> QED
    BY <2>1, <2>2
<1> QED
  BY <1>1, OtherAge DEF Next

(* The caches are empty and no request has arrived at the start. *)
LEMMA AgeInit == Init => AgeInv
BY ReachBound, BoundsAssumption DEF Init, AgeInv, Active, StoreCalls

(* No answer rests on a fact read longer ago than both TTLs and two requests allow, *)
(* however many instances write and whether or not their writes are announced.      *)
THEOREM StalenessIsBounded == Spec => []BoundedStaleness
<1>1. TypeOK /\ AgeInv => BoundedStaleness
  <2> SUFFICES ASSUME TypeOK, AgeInv, NEW r \in Requests, pc[r] = "audit"
               PROVE  start[r] - oldest[r] <= Reach(DecideTTL) + Reach(DescTTL) + 2 * MaxDur
    BY DEF BoundedStaleness
  <2> QED
    BY DEF AgeInv
<1> QED
  BY <1>1, TypeInit, TypeInductive, AgeInit, AgeInductive, PTL DEF Spec
=============================================================================
