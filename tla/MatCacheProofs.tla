--------------------------- MODULE MatCacheProofs ---------------------------
(* What MatCache guarantees for any number of grants, principals,          *)
(* dictionaries, requests and writes.                                      *)
EXTENDS MatCache, TLAPS

(* A subject and a dimension key make at most one cache key, and never one of Super. *)
LEMMA OneGrantKey ==
  ASSUME NEW p \in Principals, NEW d
  PROVE  /\ GrantKeys(p, d) \subseteq Key
         /\ \A k \in GrantKeys(p, d) : k.who # Super
         /\ \A k, j \in GrantKeys(p, d) : k = j
BY PrincipalsAssumption DEF GrantKeys, KeysOf, Key

(* Nothing is older than what has been committed. *)
LEMMA CoversReflexive == \A a \in Read : Covers(a, a) /\ Covers(a, Nothing)
BY DEF Read, Covers, Nothing

(* Covering is transitive. *)
LEMMA CoversTransitive ==
  \A a, b, c \in Read : Covers(a, b) /\ Covers(b, c) => Covers(a, c)
BY DEF Read, Covers

(* The keys requests are at, and what is committed at a key. *)
LEMMA KeyType ==
  ASSUME StoreOK
  PROVE  /\ \A k \in Key : Current(k) \in Read
         /\ RequestsOK => \A r \in Requests : KeyOf(r) \in Key
BY DEF StoreOK, RequestsOK, Current, KeyOf, Key, Read

(* Removing keys keeps the cache well typed. *)
LEMMA InvalidateType ==
  ASSUME StoreOK, CacheOK, NEW K \in SUBSET Key, Invalidate(K) PROVE CacheOK'
BY KeyType DEF CacheOK, Invalidate

(* A step that moves a request on. *)
LEMMA GotoType ==
  ASSUME RequestsOK, NEW r \in Requests, NEW step \in Steps, Goto(r, step)
  PROVE  pc' \in [Requests -> Steps]
BY DEF RequestsOK, Goto

(* Requests keep every variable's type. *)
LEMMA PermittedType == ASSUME TypeOK, NEW r \in Requests, Permitted(r) PROVE TypeOK'
<1> USE DEF TypeOK
<1>1. StoreOK' /\ WritesOK'
  BY DEF Permitted, Arrive, NextPrincipal, Respond, Hit, Miss, ListDimensionValues, LoadGrants,
         Descend, Materialized, Insert, StoreError, StoreOK, WritesOK, storeVars, writeVars
<1>2. CASE Arrive(r) \/ NextPrincipal(r) \/ Respond(r) \/ Descend(r) \/ Materialized(r)
           \/ StoreError(r)
  <2>1. CacheOK'
    BY <1>2 DEF Arrive, NextPrincipal, Respond, Descend, Materialized, StoreError, CacheOK,
                cacheVars
  <2>2. pc' \in [Requests -> Steps]
    BY <1>2, GotoType DEF Arrive, NextPrincipal, Respond, Descend, Materialized, StoreError,
                          RequestsOK, Steps, StoreCalls
  <2>3. left' \in [Requests -> SUBSET (Principals \cup {Super})]
    BY <1>2 DEF Arrive, NextPrincipal, Respond, Descend, Materialized, StoreError, RequestsOK
  <2>4. who' \in [Requests -> Principals \cup {Super}]
    BY <1>2 DEF Arrive, NextPrincipal, Respond, Descend, Materialized, StoreError, RequestsOK
  <2>5. todo' \in [Requests -> SUBSET GrantIds]
    BY <1>2 DEF Arrive, NextPrincipal, Respond, Descend, Materialized, StoreError, RequestsOK
  <2>6. heard' \in [Requests -> SUBSET Writes]
    BY <1>2 DEF Arrive, NextPrincipal, Respond, Descend, Materialized, StoreError, RequestsOK
  <2>7. UNCHANGED <<dict, fill, answer>>
    BY <1>2 DEF Arrive, NextPrincipal, Respond, Descend, Materialized, StoreError
  <2> QED
    BY <1>1, <2>1, <2>2, <2>3, <2>4, <2>5, <2>6, <2>7 DEF RequestsOK
<1>3. CASE Hit(r)
  <2>1. PartOf(KeyOf(r), cache[KeyOf(r)]) \in Part
    BY <1>3, KeyType DEF Hit, PartOf, Part, Entry, CacheOK
  <2>2. RequestsOK'
    <3>1. pc' \in [Requests -> Steps]
      BY <1>3, GotoType DEF Hit, Serve, Steps
    <3>2. answer' \in [Requests -> SUBSET Part]
      BY <1>3, <2>1 DEF Hit, Serve, RequestsOK
    <3>3. UNCHANGED <<dict, left, who, fill, todo, heard>>
      BY <1>3 DEF Hit
    <3> QED
      BY <3>1, <3>2, <3>3 DEF RequestsOK
  <2> QED
    BY <1>1, <1>3, <2>2 DEF Hit, CacheOK, cacheVars
<1>4. CASE Miss(r) \/ ListDimensionValues(r) \/ LoadGrants(r)
  <2>1. fill' \in [Requests -> [read : Read, asked : Read]]
    <3>0. fill \in [Requests -> [read : Read, asked : Read]] /\ dict \in [Requests -> Dicts]
      BY DEF RequestsOK
    <3>1. seen[KeyOf(r)] \in Read /\ Current(KeyOf(r)) \in Read /\ KeyOf(r) \in Key
      BY KeyType DEF CacheOK
    <3>2. dictVer[dict[r]] \in Nat /\ grantVer[KeyOf(r)] \in Nat
      BY <3>1 DEF StoreOK, RequestsOK
    <3>3. Nothing \in Read
      BY DEF Nothing, Read
    <3>4. CASE Miss(r)
      BY <3>0, <3>1, <3>3, <3>4 DEF Miss
    <3>5. CASE ListDimensionValues(r)
      BY <3>0, <3>2, <3>5 DEF ListDimensionValues, Read
    <3>6. CASE LoadGrants(r)
      BY <3>0, <3>2, <3>6 DEF LoadGrants, Read
    <3> QED
      BY <1>4, <3>4, <3>5, <3>6
  <2>2. pc' \in [Requests -> Steps]
    BY <1>4, GotoType DEF Miss, ListDimensionValues, LoadGrants, Steps, StoreCalls
  <2>3. todo' \in [Requests -> SUBSET GrantIds]
    BY <1>4 DEF Miss, ListDimensionValues, LoadGrants, RequestsOK, RowsOf
  <2>4. RequestsOK'
    BY <1>4, <2>1, <2>2, <2>3 DEF Miss, ListDimensionValues, LoadGrants, RequestsOK
  <2> QED
    BY <1>1, <1>4, <2>4 DEF Miss, ListDimensionValues, LoadGrants, CacheOK, cacheVars
<1>5. CASE Insert(r)
  <2> DEFINE e == [cached |-> TRUE, read |-> fill[r].read, asked |-> fill[r].asked,
                   upto |-> Current(KeyOf(r))]
  <2>1. e \in Entry /\ PartOf(KeyOf(r), e) \in Part
    BY KeyType DEF Entry, Part, PartOf, RequestsOK
  <2>2. cache' = [cache EXCEPT ![KeyOf(r)] = e] /\ Serve(r, e)
    BY <1>5 DEF Insert
  <2> HIDE DEF e
  <2>3. CacheOK'
    BY <1>5, <2>1, <2>2, KeyType DEF Insert, CacheOK
  <2>4. RequestsOK'
    <3>1. pc' \in [Requests -> Steps]
      BY <2>2, GotoType DEF Serve, Steps
    <3>2. answer' \in [Requests -> SUBSET Part]
      BY <2>1, <2>2 DEF Serve, RequestsOK
    <3>3. UNCHANGED <<dict, left, who, fill, todo, heard>>
      BY <1>5 DEF Insert
    <3> QED
      BY <3>1, <3>2, <3>3 DEF RequestsOK
  <2> QED
    BY <1>1, <2>3, <2>4
<1> QED
  BY <1>2, <1>3, <1>4, <1>5 DEF Permitted

(* The statements of save_grant and delete_grant keep the rows and versions well typed. *)
LEMMA SaveRowType ==
  ASSUME StoreOK, NEW g \in GrantIds, NEW p \in Principals, NEW d \in Dicts \cup {NoDict},
         SaveRow(g, p, d)
  PROVE  StoreOK'
BY DEF StoreOK, SaveRow, Changed, storeVars

LEMMA DeleteRowType == ASSUME StoreOK, NEW g \in GrantIds, DeleteRow(g) PROVE StoreOK'
BY DEF StoreOK, DeleteRow, Changed

(* Handlers keep every variable's type. *)
LEMMA WriteType == ASSUME TypeOK, NEW w \in Writes, Write(w) PROVE TypeOK'
<1> USE DEF TypeOK
<1>1. RequestsOK'
  BY DEF Write, SaveGrant, GetGrant, DeleteGrant, SaveDimensionValue, WriteError,
         InvalidateKeys, InvalidateSuper, RequestsOK, requestVars
<1>2. ASSUME NEW K \in SUBSET Key, DueGrant(w, K), StoreOK'
      PROVE  due' \in [Writes -> Read]
  BY <1>2 DEF DueGrant, WritesOK, StoreOK, Read
<1>3. CASE SaveGrant(w)
  <2>1. PICK g \in GrantIds, p \in Principals, d \in Dicts \cup {NoDict} :
          /\ SaveRow(g, p, d)
          /\ named' = [named EXCEPT ![w] = GrantKeys(p, d)]
          /\ DueGrant(w, GrantKeys(p, d))
    BY <1>3 DEF SaveGrant
  <2>2. StoreOK'
    BY <2>1, SaveRowType
  <2>3. WritesOK'
    BY <1>2, <1>3, <2>1, <2>2, OneGrantKey DEF SaveGrant, WritesOK, Mine
  <2> QED
    BY <1>1, <1>3, <2>2, <2>3 DEF SaveGrant, CacheOK, cacheVars
<1>4. CASE GetGrant(w)
  <2>1. OldKeys(row[w]) \subseteq Key
    BY DEF OldKeys, GrantKeys, KeysOf
  <2> QED
    BY <1>1, <1>4, <2>1 DEF GetGrant, WritesOK, Mine, StoreOK, CacheOK, storeVars, cacheVars
<1>5. CASE DeleteGrant(w)
  <2>1. row[w] \in GrantIds
    BY <1>5 DEF DeleteGrant, WritesOK
  <2>2. StoreOK'
    BY <1>5, <2>1, DeleteRowType DEF DeleteGrant
  <2>3. WritesOK'
    BY <1>2, <1>5, <2>2 DEF DeleteGrant, WritesOK, Mine
  <2> QED
    BY <1>1, <1>5, <2>2, <2>3 DEF DeleteGrant, CacheOK, cacheVars
<1>6. CASE SaveDimensionValue(w)
  <2>1. PICK d \in Dicts :
          /\ SaveEntry(d)
          /\ named' = [named EXCEPT ![w] = KeysOf({d})]
          /\ due' = [due EXCEPT ![w] = [dict |-> dictVer[d] + 1, grant |-> 0]]
    BY <1>6 DEF SaveDimensionValue
  <2>2. StoreOK'
    BY <2>1 DEF SaveEntry, StoreOK
  <2>3. [dict |-> dictVer[d] + 1, grant |-> 0] \in Read /\ KeysOf({d}) \subseteq Key
    BY DEF StoreOK, Read, KeysOf
  <2>4. WritesOK'
    BY <1>6, <2>1, <2>3 DEF SaveDimensionValue, WritesOK, Mine
  <2> QED
    BY <1>1, <1>6, <2>2, <2>4 DEF SaveDimensionValue, CacheOK, cacheVars
<1>7. CASE WriteError(w)
  <2>1. StoreOK'
    BY <1>7, SaveRowType
       DEF WriteError, DeleteRow, Changed, SaveEntry, StoreOK, storeVars
  <2>2. WritesOK'
    BY <1>7 DEF WriteError, WritesOK, Mine
  <2> QED
    BY <1>1, <1>7, <2>1, <2>2 DEF WriteError, CacheOK, cacheVars
<1>8. CASE InvalidateKeys(w) \/ InvalidateSuper(w)
  <2>1. PICK K \in SUBSET Key : Invalidate(K)
    BY <1>8 DEF InvalidateKeys, InvalidateSuper, WritesOK
  <2>2. StoreOK' /\ WritesOK'
    BY <1>8 DEF InvalidateKeys, InvalidateSuper, StoreOK, WritesOK, Mine, storeVars
  <2> QED
    BY <1>1, <2>1, <2>2, InvalidateType
<1> QED
  BY <1>3, <1>4, <1>5, <1>6, <1>7, <1>8 DEF Write

(* Refreshes and validity windows keep every variable's type. *)
LEMMA OtherType ==
  ASSUME TypeOK, (\E x \in Refreshes : DictRefresh(x)) \/ WindowTurns PROVE TypeOK'
<1> USE DEF TypeOK
<1>1. CASE \E x \in Refreshes : DictRefresh(x)
  <2>1. PICK K \in SUBSET Key : Invalidate(K)
    BY <1>1 DEF DictRefresh, GrantKeys, KeysOf
  <2>2. StoreOK' /\ RequestsOK' /\ WritesOK'
    BY <1>1 DEF DictRefresh, StoreOK, RequestsOK, WritesOK, storeVars, requestVars, writeVars
  <2> QED
    BY <2>1, <2>2, InvalidateType
<1>2. CASE WindowTurns
  <2>1. StoreOK'
    BY <1>2, WritesAssumption DEF WindowTurns, Changed, StoreOK
  <2> QED
    BY <1>2, <2>1 DEF WindowTurns, CacheOK, RequestsOK, WritesOK, cacheVars, requestVars,
                      writeVars
<1> QED
  BY <1>1, <1>2

(* Every variable keeps its type. *)
LEMMA TypeInductive == TypeOK /\ [Next]_vars => TypeOK'
<1> SUFFICES ASSUME TypeOK, [Next]_vars PROVE TypeOK'
  OBVIOUS
<1>1. CASE UNCHANGED vars
  BY <1>1 DEF vars, TypeOK, StoreOK, CacheOK, RequestsOK, WritesOK
<1> QED
  BY <1>1, PermittedType, WriteType, OtherType DEF Next

(* The program starts well typed. *)
LEMMA TypeInit == Init => TypeOK
BY WritesAssumption
   DEF Init, TypeOK, StoreOK, CacheOK, RequestsOK, WritesOK, Nothing, Read, Steps

(* In every reachable state every variable has its type. *)
THEOREM TypeCorrect == Spec => []TypeOK
BY TypeInit, TypeInductive, PTL DEF Spec

-----------------------------------------------------------------------------
(* What is committed at a key is never undone. *)
LEMMA VersionsGrow ==
  ASSUME TypeOK, [Next]_vars
  PROVE  \A k \in Key : Covers(Current(k)', Current(k))
<1> USE DEF TypeOK, StoreOK
<1>0. \A k \in Key : k.dict \in Dicts /\ dictVer[k.dict] \in Nat /\ grantVer[k] \in Nat
  BY DEF Key
<1>1. ASSUME UNCHANGED <<dictVer, grantVer>> PROVE \A k \in Key : Covers(Current(k)', Current(k))
  BY <1>0, <1>1 DEF Covers, Current
<1>2. ASSUME NEW K, Changed(K), UNCHANGED dictVer
      PROVE  \A k \in Key : Covers(Current(k)', Current(k))
  BY <1>0, <1>2 DEF Changed, Covers, Current
<1>3. ASSUME NEW d \in Dicts, SaveEntry(d)
      PROVE  \A k \in Key : Covers(Current(k)', Current(k))
  BY <1>0, <1>3 DEF SaveEntry, Covers, Current
<1>4. ASSUME NEW r \in Requests, Permitted(r) PROVE UNCHANGED <<dictVer, grantVer>>
  BY <1>4 DEF Permitted, Arrive, NextPrincipal, Respond, Hit, Miss, ListDimensionValues,
              LoadGrants, Descend, Materialized, Insert, StoreError, storeVars
<1>5. ASSUME NEW w \in Writes, Write(w)
      PROVE  \/ UNCHANGED <<dictVer, grantVer>>
             \/ \E K : Changed(K) /\ UNCHANGED dictVer
             \/ \E d \in Dicts : SaveEntry(d)
  BY <1>5 DEF Write, SaveGrant, GetGrant, DeleteGrant, SaveDimensionValue, WriteError,
              InvalidateKeys, InvalidateSuper, SaveRow, DeleteRow, storeVars
<1>6. ASSUME (\E x \in Refreshes : DictRefresh(x)) \/ WindowTurns
      PROVE  UNCHANGED <<dictVer, grantVer>> \/ \E K : Changed(K) /\ UNCHANGED dictVer
  BY <1>6 DEF DictRefresh, WindowTurns, storeVars
<1>7. CASE UNCHANGED vars
  BY <1>1, <1>7 DEF vars
<1> QED
  BY <1>1, <1>2, <1>3, <1>4, <1>5, <1>6, <1>7 DEF Next

(* Reads, caches, answers and dues are comparable. *)
LEMMA Typed ==
  ASSUME TypeOK
  PROVE  /\ \A k \in Key : /\ Current(k) \in Read /\ seen[k] \in Read
                           /\ cache[k] # NoEntry =>
                                /\ cache[k].read \in Read /\ cache[k].asked \in Read
                                /\ cache[k].upto \in Read
         /\ \A r \in Requests :
              /\ KeyOf(r) \in Key /\ fill[r].read \in Read /\ fill[r].asked \in Read
              /\ \A part \in answer[r] : /\ part.key \in Key /\ part.read \in Read
                                         /\ part.asked \in Read /\ part.upto \in Read
              /\ heard[r] \subseteq Writes
         /\ \A w \in Writes : due[w] \in Read /\ named[w] \subseteq Key
<1> USE KeyType DEF TypeOK
<1>1. \A k \in Key : /\ Current(k) \in Read /\ seen[k] \in Read
                     /\ cache[k] # NoEntry =>
                          /\ cache[k].read \in Read /\ cache[k].asked \in Read
                          /\ cache[k].upto \in Read
  BY DEF CacheOK, Entry
<1>2. ASSUME NEW r \in Requests
      PROVE  /\ KeyOf(r) \in Key /\ fill[r].read \in Read /\ fill[r].asked \in Read
             /\ \A part \in answer[r] : /\ part.key \in Key /\ part.read \in Read
                                        /\ part.asked \in Read /\ part.upto \in Read
             /\ heard[r] \subseteq Writes
  BY DEF RequestsOK, Part
<1>3. \A w \in Writes : due[w] \in Read /\ named[w] \subseteq Key
  BY DEF WritesOK
<1> QED
  BY <1>1, <1>2, <1>3

(* The grants of Super have no versions. *)
LEMMA SuperHasNoGrants ==
  ASSUME TypeOK, VersionsInv, [Next]_vars,
         NEW k \in Key, k.who = Super
  PROVE  grantVer'[k] = 0
<1> USE DEF TypeOK, StoreOK
<1>1. \A g \in GrantIds : k \notin OldKeys(g)
  BY PrincipalsAssumption, OneGrantKey DEF OldKeys
<1>2. \A p \in Principals : \A d \in Dicts \cup {NoDict} : k \notin GrantKeys(p, d)
  BY OneGrantKey
<1>3. grantVer[k] = 0
  BY DEF VersionsInv
<1>4. ASSUME NEW g \in GrantIds, NEW p \in Principals, NEW d \in Dicts \cup {NoDict},
             SaveRow(g, p, d)
      PROVE  grantVer'[k] = 0
  BY <1>1, <1>2, <1>3, <1>4 DEF SaveRow, Changed, storeVars
<1>5. ASSUME NEW g \in GrantIds, DeleteRow(g) PROVE grantVer'[k] = 0
  BY <1>1, <1>3, <1>5 DEF DeleteRow, Changed
<1>6. ASSUME NEW w \in Writes, Write(w) PROVE grantVer'[k] = 0
  BY <1>3, <1>4, <1>5, <1>6
     DEF Write, SaveGrant, GetGrant, DeleteGrant, SaveDimensionValue, WriteError, SaveEntry,
         InvalidateKeys, InvalidateSuper, storeVars, WritesOK
<1>7. ASSUME NEW r \in Requests, Permitted(r) PROVE grantVer'[k] = 0
  BY <1>3, <1>7
     DEF Permitted, Arrive, NextPrincipal, Respond, Hit, Miss, ListDimensionValues,
         LoadGrants, Descend, Materialized, Insert, StoreError, storeVars
<1>8. ASSUME (\E x \in Refreshes : DictRefresh(x)) \/ WindowTurns PROVE grantVer'[k] = 0
  BY <1>1, <1>3, <1>8 DEF DictRefresh, WindowTurns, Changed, storeVars
<1> QED
  BY <1>3, <1>6, <1>7, <1>8 DEF Next, vars

(* What a step can do to the cache: nothing, one entry put in, or keys removed while no *)
(* version changes.                                                                    *)
LEMMA CacheSteps ==
  ASSUME TypeOK, [Next]_vars
  PROVE  \/ UNCHANGED <<cache, seen>>
         \/ \E r \in Requests : Insert(r)
         \/ /\ UNCHANGED storeVars
            /\ \E K \in SUBSET Key : Invalidate(K)
<1>1. ASSUME NEW r \in Requests, Permitted(r), ~ Insert(r) PROVE UNCHANGED <<cache, seen>>
  BY <1>1 DEF Permitted, Arrive, NextPrincipal, Respond, Hit, Miss, ListDimensionValues,
              LoadGrants, Descend, Materialized, StoreError, cacheVars
<1>2. ASSUME NEW w \in Writes, Write(w)
      PROVE  \/ UNCHANGED <<cache, seen>>
             \/ UNCHANGED storeVars /\ \E K \in SUBSET Key : Invalidate(K)
  BY <1>2 DEF Write, SaveGrant, GetGrant, DeleteGrant, SaveDimensionValue, WriteError,
              InvalidateKeys, InvalidateSuper, cacheVars, TypeOK, WritesOK
<1>3. ASSUME NEW x \in Refreshes, DictRefresh(x)
      PROVE  UNCHANGED storeVars /\ \E K \in SUBSET Key : Invalidate(K)
  BY <1>3 DEF DictRefresh, KeysOf, GrantKeys
<1> QED
  BY <1>1, <1>2, <1>3 DEF Next, WindowTurns, cacheVars, vars

(* What is about to be put in the cache is no older than what had been removed when it *)
(* was asked for.                                                                      *)
LEMMA FillCovers ==
  ASSUME TypeOK, StraddleInv, NEW r \in Requests, pc[r] = "insert"
  PROVE  Covers(fill[r].read, fill[r].asked)
<1> USE Typed DEF StraddleInv, FillInv
<1>1. fill[r].read.dict >= fill[r].asked.dict
  OBVIOUS
<1>2. CASE who[r] # Super
  BY <1>1, <1>2 DEF Covers
<1>3. CASE who[r] = Super
  <2>1. KeyOf(r) \in Key /\ KeyOf(r).who = Super
    BY <1>3 DEF KeyOf
  <2>2. Current(KeyOf(r)).grant = 0
    BY <2>1 DEF VersionsInv, Current
  <2>3. Covers(Current(KeyOf(r)), fill[r].asked)
    OBVIOUS
  <2>4. fill[r].read \in Read /\ fill[r].asked \in Read
    OBVIOUS
  <2> QED
    BY <1>1, <2>2, <2>3, <2>4 DEF Covers, Read
<1> QED
  BY <1>2, <1>3

(* Entries and removals stay in order. *)
LEMMA VersionsInductive ==
  ASSUME TypeOK, TypeOK', StraddleInv, [Next]_vars PROVE VersionsInv'
<1> USE Typed, CoversTransitive, CoversReflexive
<1>1. \A k \in Key : k.who = Super => grantVer'[k] = 0
  BY SuperHasNoGrants DEF StraddleInv
<1>2. \A k \in Key : Current(k)' \in Read
  BY KeyType DEF TypeOK, StoreOK, Current, Key, Read
<1>3. \A k \in Key : Covers(Current(k)', Current(k)) /\ Covers(Current(k), seen[k])
  BY VersionsGrow DEF StraddleInv, VersionsInv
<1>4. \A k \in Key : Covers(Current(k)', seen[k])
  BY <1>2, <1>3
<1>5. CASE UNCHANGED <<cache, seen>>
  BY <1>1, <1>4, <1>5 DEF StraddleInv, VersionsInv
<1>6. ASSUME NEW r \in Requests, Insert(r) PROVE VersionsInv'
  <2> DEFINE e == [cached |-> TRUE, read |-> fill[r].read, asked |-> fill[r].asked,
                   upto |-> Current(KeyOf(r))]
  <2>1. cache' = [cache EXCEPT ![KeyOf(r)] = e] /\ seen' = seen /\ pc[r] = "insert"
    BY <1>6 DEF Insert
  <2>2. Covers(e.read, e.asked) /\ Covers(e.upto, seen[KeyOf(r)])
    BY <1>3, <2>1, FillCovers
  <2> HIDE DEF e
  <2>3. \A k \in Key : cache'[k] = IF k = KeyOf(r) THEN e ELSE cache[k]
    BY <2>1 DEF TypeOK, CacheOK
  <2> QED
    BY <1>1, <1>4, <2>1, <2>2, <2>3 DEF StraddleInv, VersionsInv
<1>7. ASSUME UNCHANGED storeVars, NEW K \in SUBSET Key, Invalidate(K) PROVE VersionsInv'
  <2>1. \A k \in Key : Current(k)' = Current(k)
    BY <1>7 DEF storeVars, Current
  <2>2. \A k \in Key : /\ k \in K => seen'[k] = Current(k) /\ cache'[k] = NoEntry
                       /\ k \notin K => seen'[k] = seen[k] /\ cache'[k] = cache[k]
    BY <1>7 DEF Invalidate
  <2> QED
    BY <1>1, <1>3, <2>1, <2>2 DEF StraddleInv, VersionsInv
<1> QED
  BY <1>5, <1>6, <1>7, CacheSteps

(* The fill of a request that takes no step stays covered. *)
LEMMA FillUntouched ==
  ASSUME TypeOK, TypeOK', StraddleInv, [Next]_vars, NEW q \in Requests,
         pc'[q] = pc[q], who'[q] = who[q], dict'[q] = dict[q], fill'[q] = fill[q]
  PROVE  FillInv(q)'
<1> DEFINE k == KeyOf(q)
<1>1. k' = k /\ k \in Key
  BY Typed DEF KeyOf
<1> HIDE DEF k
<1>2. Current(k)' \in Read /\ Covers(Current(k)', Current(k))
  BY <1>1, VersionsGrow, KeyType DEF TypeOK, StoreOK, Current, Key, Read
<1>3. Covers(Current(k), fill[q].asked) => Covers(Current(k)', fill[q].asked)
  BY <1>1, <1>2, Typed, CoversTransitive
<1> QED
  BY <1>1, <1>3 DEF StraddleInv, FillInv, k

(* The request that takes a step keeps its fill covered. *)
LEMMA FillSteps ==
  ASSUME TypeOK, TypeOK', StraddleInv, [Next]_vars, NEW r \in Requests, Permitted(r)
  PROVE  FillInv(r)'
<1> USE Typed DEF TypeOK, RequestsOK
<1>1. UNCHANGED <<dictVer, grantVer>>
  BY DEF Permitted, Arrive, NextPrincipal, Respond, Hit, Miss, ListDimensionValues,
         LoadGrants, Descend, Materialized, Insert, StoreError, storeVars
<1>2. CASE Arrive(r) \/ NextPrincipal(r) \/ Respond(r) \/ Hit(r) \/ Insert(r) \/ StoreError(r)
  <2>1. pc'[r] \in {"serve", "check", "done", "failed"}
    BY <1>2 DEF Arrive, NextPrincipal, Respond, Hit, Insert, StoreError, Serve, Goto
  <2> QED
    BY <2>1 DEF FillInv
<1>3. ASSUME UNCHANGED <<who, dict>> PROVE Current(KeyOf(r))' = Current(KeyOf(r))
  BY <1>1, <1>3 DEF Current, KeyOf
<1>4. CASE Miss(r)
  <2>1. pc'[r] = "list" /\ fill'[r].asked = seen[KeyOf(r)] /\ UNCHANGED <<who, dict>>
    BY <1>4 DEF Miss, Goto
  <2> QED
    BY <1>3, <2>1 DEF StraddleInv, VersionsInv, FillInv
<1>5. CASE ListDimensionValues(r)
  <2>1. /\ pc[r] = "list" /\ pc'[r] \in {"insert", "grants"} /\ UNCHANGED <<who, dict>>
        /\ fill'[r].asked = fill[r].asked /\ fill'[r].read.dict = dictVer[dict[r]]
        /\ pc'[r] = "insert" => who[r] = Super
    BY <1>5 DEF ListDimensionValues, Goto
  <2>2. Covers(Current(KeyOf(r)), fill[r].asked)
    BY <2>1 DEF StraddleInv, FillInv
  <2>3. dictVer[dict[r]] >= fill[r].asked.dict
    BY <2>2 DEF Covers, Current, KeyOf
  <2> QED
    BY <1>3, <2>1, <2>2, <2>3 DEF FillInv
<1>6. CASE LoadGrants(r)
  <2>1. /\ pc[r] = "grants" /\ pc'[r] = "descend" /\ UNCHANGED <<who, dict>>
        /\ fill'[r].asked = fill[r].asked /\ fill'[r].read.dict = fill[r].read.dict
        /\ fill'[r].read.grant = grantVer[KeyOf(r)]
    BY <1>6 DEF LoadGrants, Goto, Read
  <2>2. Covers(Current(KeyOf(r)), fill[r].asked) /\ fill[r].read.dict >= fill[r].asked.dict
    BY <2>1 DEF StraddleInv, FillInv
  <2>3. grantVer[KeyOf(r)] >= fill[r].asked.grant
    BY <2>2 DEF Covers, Current
  <2> QED
    BY <1>3, <2>1, <2>2, <2>3 DEF FillInv
<1>7. CASE Descend(r) \/ Materialized(r)
  <2>1. /\ pc[r] = "descend" /\ pc'[r] \in {"descend", "insert"} /\ UNCHANGED <<who, dict, fill>>
    BY <1>7 DEF Descend, Materialized, Goto
  <2> QED
    BY <1>3, <2>1 DEF StraddleInv, FillInv
<1> QED
  BY <1>2, <1>4, <1>5, <1>6, <1>7 DEF Permitted

(* Fills stay covered. *)
LEMMA FillInductive ==
  ASSUME TypeOK, TypeOK', StraddleInv, [Next]_vars PROVE \A q \in Requests : FillInv(q)'
<1>1. ASSUME NEW q \in Requests, NEW r \in Requests, Permitted(r) PROVE FillInv(q)'
  <2>1. CASE q = r
    BY <1>1, <2>1, FillSteps
  <2>2. CASE q # r
    <3>1. /\ pc'[q] = pc[q] /\ who'[q] = who[q] /\ dict'[q] = dict[q] /\ fill'[q] = fill[q]
      BY <1>1, <2>2
         DEF Permitted, Arrive, NextPrincipal, Respond, Hit, Miss, ListDimensionValues,
             LoadGrants, Descend, Materialized, Insert, StoreError, Serve, Goto, TypeOK,
             RequestsOK
    <3> QED
      BY <3>1, FillUntouched
  <2> QED
    BY <2>1, <2>2
<1>2. ASSUME UNCHANGED requestVars, NEW q \in Requests PROVE FillInv(q)'
  BY <1>2, FillUntouched DEF requestVars
<1>3. ASSUME NEW w \in Writes, Write(w) PROVE UNCHANGED requestVars
  BY <1>3 DEF Write, SaveGrant, GetGrant, DeleteGrant, SaveDimensionValue, WriteError,
              InvalidateKeys, InvalidateSuper
<1> QED
  BY <1>1, <1>2, <1>3 DEF Next, DictRefresh, WindowTurns, requestVars, vars

(* A write that takes a step has not been answered before; the others stay as they are. *)
LEMMA OtherWrites ==
  ASSUME TypeOK, NEW w \in Writes, Write(w)
  PROVE  /\ wpc[w] # "done"
         /\ \A v \in Writes \ {w} :
              wpc'[v] = wpc[v] /\ named'[v] = named[v] /\ due'[v] = due[v]
<1>1. wpc[w] # "done"
  BY DEF Write, SaveGrant, GetGrant, DeleteGrant, SaveDimensionValue, WriteError,
         InvalidateKeys, InvalidateSuper
<1>2. ASSUME NEW v \in Writes \ {w}
      PROVE  wpc'[v] = wpc[v] /\ named'[v] = named[v] /\ due'[v] = due[v]
  BY DEF Write, SaveGrant, GetGrant, DeleteGrant, SaveDimensionValue, WriteError,
         InvalidateKeys, InvalidateSuper, Mine, DueGrant, TypeOK, WritesOK
<1> QED
  BY <1>1, <1>2

(* Answers are made of sets put in the cache after all that was answered before. *)
LEMMA AnswerInductive ==
  ASSUME TypeOK, TypeOK', StraddleInv, [Next]_vars PROVE \A q \in Requests : AnswerInv(q)'
<1> USE Typed, CoversTransitive
<1>1. ASSUME NEW w \in Writes, Write(w), NEW q \in Requests PROVE AnswerInv(q)'
  <2>1. UNCHANGED requestVars
    BY <1>1 DEF Write, SaveGrant, GetGrant, DeleteGrant, SaveDimensionValue, WriteError,
                InvalidateKeys, InvalidateSuper
  <2>2. \A v \in heard[q] : wpc'[v] = wpc[v] /\ named'[v] = named[v] /\ due'[v] = due[v]
    BY <1>1, OtherWrites DEF StraddleInv, AnswerInv
  <2> QED
    BY <2>1, <2>2 DEF StraddleInv, AnswerInv, requestVars
<1>2. ASSUME UNCHANGED requestVars, UNCHANGED writeVars, NEW q \in Requests
      PROVE  AnswerInv(q)'
  BY <1>2 DEF StraddleInv, AnswerInv, requestVars, writeVars
<1>3. ASSUME NEW q \in Requests, NEW r \in Requests, Permitted(r) PROVE AnswerInv(q)'
  <2>1. UNCHANGED writeVars
    BY <1>3 DEF Permitted, Arrive, NextPrincipal, Respond, Hit, Miss, ListDimensionValues,
                LoadGrants, Descend, Materialized, Insert, StoreError
  <2>2. CASE q # r
    <3>1. pc'[q] = pc[q] /\ answer'[q] = answer[q] /\ heard'[q] = heard[q]
      BY <1>3, <2>2
         DEF Permitted, Arrive, NextPrincipal, Respond, Hit, Miss, ListDimensionValues,
             LoadGrants, Descend, Materialized, Insert, StoreError, Serve, Goto, TypeOK,
             RequestsOK
    <3> QED
      BY <2>1, <3>1 DEF StraddleInv, AnswerInv, writeVars
  <2>3. CASE q = r /\ Arrive(r)
    <3>1. answer'[r] = {} /\ \A w \in heard'[r] : wpc[w] = "done"
      BY <2>3 DEF Arrive, StraddleInv, AnswerInv, TypeOK, RequestsOK
    <3> QED
      BY <2>1, <2>3, <3>1 DEF AnswerInv, writeVars
  <2>4. CASE q = r /\ ~ Arrive(r) /\ ~ Hit(r) /\ ~ Insert(r)
    <3>1. UNCHANGED <<answer, heard>> /\ pc'[r] # "idle"
      BY <1>3, <2>4
         DEF Permitted, NextPrincipal, Respond, Miss, ListDimensionValues, LoadGrants,
             Descend, Materialized, StoreError, Goto, TypeOK, RequestsOK
    <3> QED
      BY <2>1, <2>4, <3>1 DEF StraddleInv, AnswerInv, writeVars
  <2>5. ASSUME NEW e, Serve(r, e), UNCHANGED heard, Covers(e.read, e.asked), e.upto \in Read,
               Covers(e.upto, seen[KeyOf(r)]) \/ e.upto = Current(KeyOf(r))
        PROVE  AnswerInv(r)'
    <3> DEFINE part == PartOf(KeyOf(r), e)
    <3>1. /\ part.key = KeyOf(r) /\ part.read = e.read /\ part.asked = e.asked
          /\ part.upto = e.upto
      BY DEF PartOf
    <3>2. answer'[r] = answer[r] \cup {part} /\ pc'[r] = "serve"
      BY <2>5 DEF Serve, Goto, TypeOK, RequestsOK
    <3> HIDE DEF part
    <3>3. ASSUME NEW w \in heard[r], part.key \in named[w] PROVE Covers(part.upto, due[w])
      <4>1. wpc[w] = "done" /\ w \in Writes
        BY DEF StraddleInv, AnswerInv
      <4>2. Covers(seen[KeyOf(r)], due[w]) /\ Covers(Current(KeyOf(r)), due[w])
        BY <3>1, <3>3, <4>1 DEF StraddleInv, DueInv
      <4> QED
        BY <2>5, <3>1, <4>1, <4>2
    <3> QED
      BY <2>1, <2>5, <3>1, <3>2, <3>3 DEF StraddleInv, AnswerInv, writeVars
  <2>6. CASE q = r /\ Hit(r)
    BY <2>5, <2>6 DEF Hit, StraddleInv, VersionsInv
  <2>7. CASE q = r /\ Insert(r)
    BY <2>5, <2>7, FillCovers DEF Insert
  <2> QED
    BY <2>2, <2>3, <2>4, <2>6, <2>7
<1> QED
  BY <1>1, <1>2, <1>3 DEF Next, DictRefresh, WindowTurns, requestVars, writeVars, vars

(* What a write that takes no step has committed stays committed, and removed. *)
LEMMA DueUntouched ==
  ASSUME TypeOK, TypeOK', StraddleInv, [Next]_vars, NEW w \in Writes,
         wpc'[w] = wpc[w], named'[w] = named[w], due'[w] = due[w]
  PROVE  DueInv(w)'
<1> USE Typed, CoversTransitive
<1>1. \A k \in Key : Current(k)' \in Read /\ Covers(Current(k)', Current(k))
  BY VersionsGrow, KeyType DEF TypeOK, StoreOK, Current, Key, Read
<1>2. \A k \in Key : seen'[k] = seen[k] \/ seen'[k] = Current(k)
  BY CacheSteps DEF Insert, Invalidate
<1>3. ASSUME NEW k \in named[w] PROVE Covers(Current(k)', due[w])
  BY <1>1, <1>3 DEF StraddleInv, DueInv
<1>4. ASSUME NEW k \in named[w], wpc[w] \in {"super", "done"} PROVE Covers(seen'[k], due[w])
  BY <1>2, <1>4 DEF StraddleInv, DueInv
<1> QED
  BY <1>3, <1>4 DEF StraddleInv, DueInv

(* What a write commits is due at the keys it names, and removed from them after. *)
LEMMA DueSteps ==
  ASSUME TypeOK, TypeOK', StraddleInv, [Next]_vars, NEW w \in Writes, Write(w)
  PROVE  DueInv(w)'
<1> USE Typed, CoversTransitive, CoversReflexive
<1>1. \A k \in Key : Current(k)' \in Read /\ Covers(Current(k)', Current(k))
  BY VersionsGrow, KeyType DEF TypeOK, StoreOK, Current, Key, Read
<1>2. ASSUME NEW K, DueGrant(w, K), K \subseteq Key, \A j, k \in K : j = k, NEW k \in K
      PROVE  Covers(Current(k)', due'[w])
  <2>1. (CHOOSE j \in K : TRUE) = k
    BY <1>2
  <2>2. due'[w] = [dict |-> 0, grant |-> grantVer'[k]]
    BY <1>2, <2>1 DEF DueGrant, TypeOK, WritesOK
  <2>3. Current(k)' = [dict |-> dictVer'[k.dict], grant |-> grantVer'[k]]
    BY DEF Current
  <2>4. k \in Key /\ dictVer'[k.dict] \in Nat /\ grantVer'[k] \in Nat
    BY <1>1, <1>2, <2>3 DEF Read
  <2> QED
    BY <2>2, <2>3, <2>4 DEF Covers
<1>3. CASE SaveGrant(w)
  <2>1. PICK p \in Principals, d \in Dicts \cup {NoDict} :
          named' = [named EXCEPT ![w] = GrantKeys(p, d)] /\ DueGrant(w, GrantKeys(p, d))
    BY <1>3 DEF SaveGrant
  <2>2. named'[w] = GrantKeys(p, d) /\ wpc'[w] = "keys"
    BY <1>3, <2>1 DEF SaveGrant, Mine, TypeOK, WritesOK
  <2> QED
    BY <1>2, <2>1, <2>2, OneGrantKey DEF DueInv
<1>4. CASE GetGrant(w)
  <2>1. /\ named'[w] \in {OldKeys(row[w]), {}} /\ wpc'[w] = "delete"
        /\ due'[w] = due[w] /\ wpc[w] = "idle" /\ row[w] \in GrantIds
    BY <1>4 DEF GetGrant, Mine, TypeOK, WritesOK
  <2>2. due[w] = Nothing
    BY <2>1 DEF StraddleInv, DueInv
  <2>3. \A j, k \in OldKeys(row[w]) : j = k /\ k \in Key
    BY <2>1, OneGrantKey DEF OldKeys, TypeOK, StoreOK
  <2> QED
    BY <1>1, <2>1, <2>2, <2>3 DEF DueInv
<1>5. CASE DeleteGrant(w)
  <2>1. named' = named /\ DueGrant(w, named[w]) /\ wpc'[w] = "keys" /\ w \in Deletes
    BY <1>5 DEF DeleteGrant, Mine, TypeOK, WritesOK
  <2>2. named[w] \subseteq Key /\ \A j, k \in named[w] : j = k
    BY <2>1, WritesAssumption DEF StraddleInv, DueInv
  <2> QED
    BY <1>2, <2>1, <2>2 DEF DueInv
<1>6. CASE SaveDimensionValue(w)
  <2>1. PICK d \in Dicts :
          /\ dictVer' = [dictVer EXCEPT ![d] = @ + 1] /\ UNCHANGED grantVer
          /\ named' = [named EXCEPT ![w] = KeysOf({d})]
          /\ due' = [due EXCEPT ![w] = [dict |-> dictVer[d] + 1, grant |-> 0]]
    BY <1>6 DEF SaveDimensionValue, SaveEntry
  <2>2. /\ named'[w] = KeysOf({d}) /\ due'[w] = [dict |-> dictVer[d] + 1, grant |-> 0]
        /\ wpc'[w] = "keys" /\ w \in DictSaves
    BY <1>6, <2>1 DEF SaveDimensionValue, Mine, TypeOK, WritesOK
  <2>3. ASSUME NEW k \in KeysOf({d}) PROVE Covers(Current(k)', due'[w])
    <3>1. k \in Key /\ k.dict = d
      BY DEF KeysOf
    <3>2. Current(k)' = [dict |-> dictVer[d] + 1, grant |-> grantVer[k]]
      BY <2>1, <3>1 DEF Current, TypeOK, StoreOK
    <3>3. dictVer[d] \in Nat /\ grantVer[k] \in Nat
      BY <3>1 DEF TypeOK, StoreOK
    <3> QED
      BY <2>2, <3>2, <3>3 DEF Covers
  <2> QED
    BY <2>2, <2>3 DEF DueInv
<1>7. CASE WriteError(w)
  <2>1. /\ named'[w] = named[w] /\ due'[w] = due[w] /\ wpc'[w] = "error"
    BY <1>7 DEF WriteError, Mine, TypeOK, WritesOK
  <2> QED
    BY <1>1, <2>1 DEF StraddleInv, DueInv
<1>8. CASE InvalidateKeys(w)
  <2>1. /\ named' = named /\ due' = due /\ UNCHANGED storeVars
        /\ \A k \in named[w] : seen'[k] = Current(k)
        /\ wpc'[w] \in {"super", "done"}
    BY <1>8 DEF InvalidateKeys, Invalidate, Mine, TypeOK, WritesOK
  <2> QED
    BY <1>1, <2>1 DEF StraddleInv, DueInv
<1>9. CASE InvalidateSuper(w)
  <2>1. /\ named' = named /\ due' = due /\ wpc[w] = "super" /\ wpc'[w] = "done"
        /\ \A k \in Key : seen'[k] = Current(k) \/ seen'[k] = seen[k]
    BY <1>9 DEF InvalidateSuper, Invalidate, Mine, TypeOK, WritesOK
  <2> QED
    BY <1>1, <2>1 DEF StraddleInv, DueInv
<1> QED
  BY <1>3, <1>4, <1>5, <1>6, <1>7, <1>8, <1>9 DEF Write

(* What is due stays committed. *)
LEMMA DueInductive ==
  ASSUME TypeOK, TypeOK', StraddleInv, [Next]_vars PROVE \A w \in Writes : DueInv(w)'
<1>1. ASSUME NEW w \in Writes, NEW v \in Writes, Write(v) PROVE DueInv(w)'
  BY <1>1, DueSteps, DueUntouched, OtherWrites
<1>2. ASSUME NEW w \in Writes, UNCHANGED writeVars PROVE DueInv(w)'
  BY <1>2, DueUntouched DEF writeVars
<1>3. ASSUME NEW r \in Requests, Permitted(r) PROVE UNCHANGED writeVars
  BY <1>3 DEF Permitted, Arrive, NextPrincipal, Respond, Hit, Miss, ListDimensionValues,
              LoadGrants, Descend, Materialized, Insert, StoreError
<1> QED
  BY <1>1, <1>2, <1>3 DEF Next, DictRefresh, WindowTurns, writeVars, vars

(* Nothing is cached, asked for or written at the start. *)
LEMMA StraddleInit == Init => StraddleInv
<1> SUFFICES ASSUME Init PROVE StraddleInv
  OBVIOUS
<1>1. VersionsInv
  BY DEF Init, VersionsInv, Covers, Current, Nothing, Key
<1>2. \A r \in Requests : FillInv(r) /\ AnswerInv(r)
  BY DEF Init, FillInv, AnswerInv
<1>3. \A w \in Writes : DueInv(w)
  BY DEF Init, DueInv
<1> QED
  BY <1>1, <1>2, <1>3 DEF StraddleInv

(* An answered write is in every later answer made from the keys it names, save where a *)
(* fill straddled it.                                                                   *)
THEOREM AnsweredWritesAreServed == Spec => []AnsweredWritesShow
<1>1. TypeOK /\ StraddleInv => AnsweredWritesShow
  <2> SUFFICES ASSUME TypeOK, StraddleInv, NEW r \in Requests, NEW w \in heard[r],
                      NEW part \in answer[r], part.key \in named[w],
                      Covers(part.asked, due[w])
               PROVE  Covers(part.read, due[w])
    BY DEF AnsweredWritesShow, Straddles, StraddleInv, AnswerInv
  <2> QED
    BY Typed, CoversTransitive DEF StraddleInv, AnswerInv
<1>2. TypeOK /\ TypeOK' /\ StraddleInv /\ [Next]_vars => StraddleInv'
  BY VersionsInductive, FillInductive, AnswerInductive, DueInductive DEF StraddleInv
<1> QED
  BY <1>1, <1>2, TypeInit, TypeInductive, StraddleInit, PTL DEF Spec
=============================================================================
