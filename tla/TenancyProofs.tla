---------------------------- MODULE TenancyProofs ----------------------------
(* What Tenancy guarantees for any tenants, databases, requests and number of *)
(* statements: its type invariant, that READY is prepared, that only naming a  *)
(* tenant crosses databases, and what a set out of date is due to.             *)
EXTENDS Tenancy, TLAPS

(* The database of a tenant is one of the databases, and stays the same one. *)
LEMMA DbType == \A t \in Tenants : Db(t) \in Dbs
BY TenantsAssumption DEF Db, Dbs

LEMMA ConfigStays ==
  ASSUME [Next]_vars
  PROVE  UNCHANGED config /\ \A t \in Tenants : UNCHANGED Db(t)
<1>1. UNCHANGED config
  BY DEF Next, vars, config, Boot, Crash, Outage, Recovery, Authenticate, Abandon, Serve,
         CheckReady, Prepare, Register, LookForObject, CreateObject, MarkReady, Handle,
         Decide, Expand, PutDecision, DictPermitted, ListDimensionValues, Insert,
         RequireAdmin, SaveDimensionValue, RemoveFromCaches, StoreError
<1> QED
  BY <1>1 DEF Db, config

(* A step that moves a request on. *)
LEMMA GotoType ==
  ASSUME RequestsOK, NEW r \in Requests, NEW step \in Steps, Goto(r, step)
  PROVE  pc' \in [Requests -> Steps]
BY DEF RequestsOK, Goto

(* Counting one fault more, or none. *)
LEMMA FaultsType ==
  ASSUME faults \in 0..MaxFaults,
         UNCHANGED faults \/ (faults < MaxFaults /\ faults' = faults + 1)
  PROVE  faults' \in 0..MaxFaults
BY StatementsAssumption

(* The statement a preparation goes on with is one of the statements. *)
LEMMA StatementType ==
  ASSUME RequestsOK, NEW r \in Requests, NextStatement(r)
  PROVE  stmt' \in [Requests -> 1..Statements]
<1>1. stmt[r] \in 1..Statements
  BY DEF RequestsOK
<1>2. stmt[r] # Statements => stmt[r] + 1 \in 1..Statements
  BY <1>1, StatementsAssumption
<1>3. stmt' = stmt \/ (stmt[r] # Statements /\ stmt' = [stmt EXCEPT ![r] = stmt[r] + 1])
  BY DEF NextStatement
<1> QED
  BY <1>2, <1>3 DEF RequestsOK

(* Type correctness: every variable of the process and its requests keeps its type. *)
THEOREM TypeCorrect == Spec => []TypeOK
<1>1. Init => TypeOK
  <2> SUFFICES ASSUME Init PROVE TypeOK
    OBVIOUS
  <2>1. DbsOK /\ ProcessOK
    <3>1. 0 \in 0..Statements
      BY StatementsAssumption
    <3> QED
      BY <3>1 DEF Init, DbsOK, ProcessOK
  <2>2. CachesOK
    BY DEF Init, CachesOK, NoDesc, NoDecisions, NoMat
  <2>3. RequestsOK
    BY TenantsAssumption, StatementsAssumption DEF Init, RequestsOK, Nothing, Steps, Working
  <2> QED
    BY <2>1, <2>2, <2>3, StatementsAssumption DEF Init, TypeOK
<1>2. TypeOK /\ [Next]_vars => TypeOK'
  <2> SUFFICES ASSUME TypeOK, [Next]_vars PROVE TypeOK'
    OBVIOUS
  <2> USE DEF TypeOK, config, dbVars, cacheVars, processVars, requestVars
  <2>0. \A r \in Requests : OwnDb(r) \in Dbs /\ KeyTenant(r) \in Tenants
    BY DbType DEF OwnDb, KeyTenant, RequestsOK
  <2>1. CASE Boot
    <3>1. DbsOK' /\ ProcessOK'
      BY <2>1, StatementsAssumption DEF Boot, DbsOK, ProcessOK, Dbs
    <3> QED
      BY <2>1, <3>1 DEF Boot, CachesOK, RequestsOK
  <2>2. CASE Crash
    <3>1. ProcessOK' /\ DbsOK' /\ faults' \in 0..MaxFaults
      BY <2>2, FaultsType DEF Crash, ProcessOK, DbsOK
    <3>2. CachesOK'
      BY <2>2 DEF Crash, CachesOK, NoDesc, NoDecisions, NoMat
    <3>3. pc' \in [Requests -> Steps]
      BY <2>2 DEF Crash, RequestsOK, Steps
    <3> QED
      BY <2>2, <3>1, <3>2, <3>3 DEF Crash, RequestsOK
  <2>3. ASSUME NEW d \in Dbs, Outage(d) \/ Recovery(d) PROVE TypeOK'
    <3>1. DbsOK' /\ faults' \in 0..MaxFaults
      BY <2>3, FaultsType DEF Outage, Recovery, DbsOK
    <3> QED
      BY <2>3, <3>1 DEF Outage, Recovery, ProcessOK, CachesOK, RequestsOK
  <2>4. ASSUME NEW r \in Requests, Authenticate(r) PROVE TypeOK'
    <3>1. pc' \in [Requests -> Steps]
      BY <2>4, GotoType DEF Authenticate, Enter, Steps, Working
    <3>2. scope' \in [Requests -> Tenants]
      BY <2>4, TenantsAssumption DEF Authenticate, Enter, RequestsOK
    <3>3. named' \in [Requests -> Tenants \cup {Unnamed}]
      BY <2>4 DEF Authenticate, Enter, RequestsOK
    <3>4. kind' \in [Requests -> {"decide", "permitted", "save"}]
      BY <2>4 DEF Authenticate, Enter, RequestsOK
    <3> QED
      BY <2>4, <3>1, <3>2, <3>3, <3>4 DEF Authenticate, DbsOK, ProcessOK, CachesOK, RequestsOK
  <2>5. ASSUME NEW r \in Requests, Abandon(r) \/ CheckReady(r) PROVE TypeOK'
    <3>1. pc' \in [Requests -> Steps]
      BY <2>5, GotoType DEF Abandon, CheckReady, Steps, Working, Preparing, Handling
    <3>2. faults' \in 0..MaxFaults
      BY <2>5, FaultsType DEF Abandon, CheckReady
    <3> QED
      BY <2>5, <3>1, <3>2 DEF Abandon, CheckReady, DbsOK, ProcessOK, CachesOK, RequestsOK
  <2>6. ASSUME NEW r \in Requests, Prepare(r) PROVE TypeOK'
    <3>1. pc' \in [Requests -> Steps]
      BY <2>6, GotoType DEF Prepare, Register, LookForObject, Look, CreateObject, MarkReady,
         NextStatement, GiveUp, Steps, Working, Preparing, Handling
    <3>2. stmt' \in [Requests -> 1..Statements]
      <4>1. stmt' = stmt \/ NextStatement(r) \/ stmt' = [stmt EXCEPT ![r] = 1]
        BY <2>6 DEF Prepare, Register, LookForObject, Look, CreateObject, MarkReady
      <4>2. 1 \in 1..Statements
        BY StatementsAssumption
      <4> QED
        BY <4>1, <4>2, StatementType DEF RequestsOK
    <3>3. DbsOK'
      BY <2>6, <2>0 DEF Prepare, Register, LookForObject, CreateObject, MarkReady, DbsOK,
                        RequestsOK
    <3>4. ProcessOK'
      BY <2>6, <2>0 DEF Prepare, Register, LookForObject, Look, CreateObject, MarkReady,
                        GiveUp, ProcessOK
    <3> QED
      BY <2>6, <3>1, <3>2, <3>3, <3>4
         DEF Prepare, Register, LookForObject, CreateObject, MarkReady, CachesOK, RequestsOK
  <2>7. ASSUME NEW r \in Requests, Handle(r) PROVE TypeOK'
    <3>0. DecideKey(r) \in Tenants \X (Tenants \cup {Unnamed}) /\ DescKey(r) \in Tenants
      BY <2>0 DEF DecideKey, DescKey, RequestsOK
    <3> USE DEF Handle, Decide, Expand, PutDecision, DictPermitted, ListDimensionValues, Insert,
                RequireAdmin, SaveDimensionValue, RemoveFromCaches, StoreError
    <3>1. pc' \in [Requests -> Steps]
      BY <2>7, GotoType DEF Steps, Working, Handling
    <3>2. wver' \in [Requests -> Nat] /\ ver' \in [Dbs -> Nat]
      <4>1. Commit(r) \/ UNCHANGED <<ver, wver>>
        BY <2>7
      <4>2. ver[OwnDb(r)] + 1 \in Nat
        BY <2>0 DEF DbsOK
      <4> QED
        BY <4>1, <4>2, <2>0 DEF Commit, DbsOK, RequestsOK
    <3>3. answer' \in [Requests -> SUBSET Dbs]
      BY <2>7, <3>0 DEF RequestsOK, CachesOK
    <3>4. fill' \in [Requests -> [dbs : SUBSET Dbs, asked : Nat, read : Nat]]
      <4> DEFINE Fill == [dbs : SUBSET Dbs, asked : Nat, read : Nat]
      <4>0. fill \in [Requests -> Fill] /\ fill[r] \in Fill
        BY DEF RequestsOK
      <4>1. ASSUME NEW S \in SUBSET Dbs PROVE [fill[r] EXCEPT !.dbs = S] \in Fill
        BY <4>0, <4>1
      <4>2. ASSUME NEW n \in Nat
            PROVE  [fill[r] EXCEPT !.asked = n] \in Fill /\ [fill[r] EXCEPT !.read = n] \in Fill
        BY <4>0, <4>2
      <4>3. desc[DescKey(r)] \in SUBSET Dbs /\ ver[OwnDb(r)] \in Nat
        BY <2>0, <3>0 DEF CachesOK, DbsOK
      <4>4. fill' = fill \/ \E f \in Fill : fill' = [fill EXCEPT ![r] = f]
        <5>1. CASE Expand(r)
          <6>1. \E S \in SUBSET Dbs : fill' = [fill EXCEPT ![r] = [fill[r] EXCEPT !.dbs = S]]
            BY <5>1, <2>0, <4>3
          <6> QED
            BY <6>1, <4>1
        <5>2. CASE DictPermitted(r) \/ ListDimensionValues(r)
          BY <5>2, <4>2, <4>3
        <5> QED
          BY <2>7, <5>1, <5>2
      <4> QED
        BY <4>0, <4>4
    <3>5. desc' \in [Tenants -> SUBSET Dbs]
      BY <2>7, <2>0, <3>0 DEF CachesOK, NoDesc
    <3>6. decisions' \in [Tenants \X (Tenants \cup {Unnamed}) -> SUBSET Dbs]
      BY <2>7, <3>0 DEF CachesOK, RequestsOK, NoDecisions
    <3>7. mat' \in [Tenants -> Entry \cup {NoEntry}]
      <4>1. CASE Insert(r)
        BY <4>1 DEF CachesOK, RequestsOK, Entry
      <4> QED
        BY <2>7, <4>1 DEF CachesOK, Invalidate
    <3> QED
      BY <2>7, <3>1, <3>2, <3>3, <3>4, <3>5, <3>6, <3>7
         DEF DbsOK, ProcessOK, CachesOK, RequestsOK
  <2>8. CASE UNCHANGED vars
    BY <2>8 DEF vars, DbsOK, ProcessOK, CachesOK, RequestsOK
  <2> QED
    BY <2>1, <2>2, <2>3, <2>4, <2>5, <2>6, <2>7, <2>8 DEF Next, Serve
<1> QED
  BY <1>1, <1>2, PTL DEF Spec

-----------------------------------------------------------------------------
(***************************************************************************)
(* Why READY can be trusted: a request that is preparing a database has    *)
(* its pool and every object before its statement, and a process that does *)
(* not serve has no request under way.                                     *)
(***************************************************************************)
PreparingInv(r) ==
  /\ pc[r] \in {"look", "create"} =>
       OwnDb(r) \in registered /\ made[OwnDb(r)] >= stmt[r] - 1
  /\ pc[r] = "mark" => OwnDb(r) \in registered /\ made[OwnDb(r)] = Statements

PrepareInv ==
  /\ ~ running => registered = {} /\ ready = {} /\ \A r \in Requests : pc[r] \notin Working
  /\ \A r \in Requests : PreparingInv(r)
  /\ ReadyIsPrepared

(* Pools and objects stay while the process serves, and one more object is made at a time. *)
LEMMA PoolsAndObjectsStay ==
  ASSUME TypeOK, PrepareInv, [Next]_vars, ~ Crash
  PROVE  /\ registered \subseteq registered'
         /\ \A d \in Dbs : made'[d] >= made[d]
         /\ made' \in [Dbs -> 0..Statements]
<1> USE DEF TypeOK, DbsOK, config, dbVars, cacheVars, processVars, requestVars
<1>1. CASE Boot
  <2>1. registered \subseteq registered'
    BY <1>1 DEF Boot, PrepareInv
  <2>2. made' = [made EXCEPT ![BootDb] = Statements] /\ made[BootDb] \in 0..Statements
    BY <1>1 DEF Boot, Dbs
  <2>3. Statements \in 0..Statements /\ \A d \in Dbs : made[d] <= Statements /\ made[d] >= made[d]
    BY StatementsAssumption
  <2> QED
    BY <2>1, <2>2, <2>3
<1>2. ASSUME NEW r \in Requests, CreateObject(r)
      PROVE  registered' = registered /\ made' \in [Dbs -> 0..Statements]
             /\ \A d \in Dbs : made'[d] >= made[d]
  <2>1. stmt[r] \in 0..Statements
    BY StatementsAssumption DEF RequestsOK
  <2> QED
    BY <1>2, <2>1, StatementsAssumption DEF CreateObject
<1>3. ASSUME UNCHANGED made, registered' = registered \/ \E d \in Dbs : registered' = registered \cup {d}
      PROVE  registered \subseteq registered' /\ made' \in [Dbs -> 0..Statements]
             /\ \A d \in Dbs : made'[d] >= made[d]
  BY <1>3, StatementsAssumption
<1>4. ASSUME NEW r \in Requests, Register(r)
      PROVE  UNCHANGED made /\ \E d \in Dbs : registered' = registered \cup {d} \/ registered' = registered
  BY <1>4, DbType DEF Register, OwnDb, RequestsOK
<1> QED
  BY <1>1, <1>2, <1>3, <1>4
     DEF Next, vars, Outage, Recovery, Authenticate, Abandon, Serve, CheckReady, Prepare,
         LookForObject, MarkReady, Handle, Decide, Expand, PutDecision, DictPermitted,
         ListDimensionValues, Insert, RequireAdmin, SaveDimensionValue, RemoveFromCaches,
         StoreError

(* A request that does not move keeps what the invariant says of it. *)
LEMMA OthersKeepPreparing ==
  ASSUME TypeOK, PrepareInv, [Next]_vars, ~ Crash, NEW r \in Requests,
         UNCHANGED <<pc[r], scope[r], stmt[r]>>
  PROVE  PreparingInv(r)'
<1>1. OwnDb(r)' = OwnDb(r) /\ OwnDb(r) \in Dbs
  BY ConfigStays, DbType DEF OwnDb, TypeOK, RequestsOK, Db
<1>2. PreparingInv(r) /\ made[OwnDb(r)] \in 0..Statements /\ stmt[r] \in 1..Statements
  BY <1>1 DEF PrepareInv, TypeOK, DbsOK, RequestsOK
<1>3. registered \subseteq registered' /\ made'[OwnDb(r)] >= made[OwnDb(r)]
      /\ made'[OwnDb(r)] \in 0..Statements
  BY <1>1, PoolsAndObjectsStay
<1> QED
  BY <1>1, <1>2, <1>3, StatementsAssumption DEF PreparingInv

(* A statement that has been executed leaves all objects up to its own. *)
LEMMA NextStatementPrepares ==
  ASSUME TypeOK, NEW r \in Requests, NextStatement(r), UNCHANGED OwnDb(r),
         OwnDb(r) \in registered', made'[OwnDb(r)] \in 0..Statements,
         made'[OwnDb(r)] >= stmt[r]
  PROVE  PreparingInv(r)'
<1>1. stmt[r] \in 1..Statements
  BY DEF TypeOK, RequestsOK
<1>2. \/ stmt[r] = Statements /\ pc'[r] = "mark"
      \/ pc'[r] = "look" /\ stmt'[r] = stmt[r] + 1
  BY DEF NextStatement, Goto, TypeOK, RequestsOK
<1> QED
  BY <1>1, <1>2, StatementsAssumption DEF PreparingInv

(* Every step of a request keeps what the invariant says of requests. *)
LEMMA RequestKeepsPreparing ==
  ASSUME TypeOK, PrepareInv, [Next]_vars,
         NEW r \in Requests, Authenticate(r) \/ Serve(r) \/ Abandon(r)
  PROVE  \A q \in Requests : PreparingInv(q)'
<1>0. ~ Crash
  BY DEF Crash, PrepareInv, Authenticate, Serve, CheckReady, Prepare, Register, LookForObject,
         CreateObject, MarkReady, Handle, Decide, Expand, PutDecision, DictPermitted,
         ListDimensionValues, Insert, RequireAdmin, SaveDimensionValue, RemoveFromCaches,
         StoreError, Abandon, processVars
<1>1. ASSUME NEW q \in Requests, q # r PROVE UNCHANGED <<pc[q], scope[q], stmt[q]>>
  BY <1>1 DEF TypeOK, RequestsOK, Goto, Authenticate, Enter, Serve, CheckReady, Prepare,
         Register, LookForObject, Look, NextStatement, GiveUp, CreateObject, MarkReady, Handle,
         Decide, Expand, PutDecision, DictPermitted, ListDimensionValues, Insert, RequireAdmin,
         SaveDimensionValue, RemoveFromCaches, StoreError, Abandon, requestVars
<1>2. PreparingInv(r)'
  <2>1. ASSUME pc'[r] \notin {"look", "create", "mark"} PROVE PreparingInv(r)'
    BY <2>1 DEF PreparingInv
  <2>2. CASE Prepare(r)
    <3> USE DEF TypeOK, RequestsOK, DbsOK, Goto
    <3>0. /\ UNCHANGED OwnDb(r) /\ OwnDb(r) \in Dbs
          /\ stmt[r] \in 1..Statements /\ made[OwnDb(r)] \in 0..Statements
          /\ PreparingInv(r)
      BY <2>2, ConfigStays, DbType
         DEF OwnDb, Db, Prepare, Register, LookForObject, CreateObject, MarkReady, requestVars,
             PrepareInv
    <3>1. CASE Register(r)
      <4>1. CASE pc'[r] = "look"
        <5>1. stmt'[r] = 1 /\ registered' = registered \cup {OwnDb(r)} /\ made' = made
          BY <3>1, <4>1 DEF Register, GiveUp, dbVars
        <5> QED
          BY <3>0, <4>1, <5>1 DEF PreparingInv
      <4> QED
        BY <2>1, <3>1, <4>1 DEF Register, GiveUp
    <3>2. CASE LookForObject(r)
      <4>0. UNCHANGED <<made, registered>> /\ OwnDb(r) \in registered
            /\ made[OwnDb(r)] >= stmt[r] - 1
        BY <3>0, <3>2 DEF LookForObject, dbVars, PreparingInv
      <4>1. CASE pc'[r] = "create"
        <5>1. UNCHANGED stmt
          BY <3>2, <4>1 DEF LookForObject, Look, NextStatement, GiveUp
        <5> QED
          BY <3>0, <4>0, <4>1, <5>1 DEF PreparingInv
      <4>2. CASE made[OwnDb(r)] >= stmt[r] /\ NextStatement(r)
        BY <3>0, <4>0, <4>2, NextStatementPrepares
      <4> QED
        BY <2>1, <3>2, <4>1, <4>2 DEF LookForObject, Look, GiveUp
    <3>3. CASE CreateObject(r)
      <4>0. OwnDb(r) \in registered /\ UNCHANGED registered
        BY <3>0, <3>3 DEF CreateObject, PreparingInv
      <4>1. CASE made' = [made EXCEPT ![OwnDb(r)] = stmt[r]] /\ NextStatement(r)
        <5>1. made'[OwnDb(r)] = stmt[r] /\ stmt[r] \in 0..Statements /\ stmt[r] >= stmt[r]
          BY <3>0, <4>1
        <5> QED
          BY <3>0, <4>0, <4>1, <5>1, NextStatementPrepares
      <4> QED
        BY <2>1, <3>3, <4>1 DEF CreateObject, GiveUp
    <3>4. CASE MarkReady(r)
      BY <2>1, <3>4 DEF MarkReady
    <3> QED
      BY <2>2, <3>1, <3>2, <3>3, <3>4 DEF Prepare
  <2>3. CASE ~ Prepare(r)
    BY <2>1, <2>3
       DEF TypeOK, RequestsOK, Goto, Authenticate, Enter, Serve, CheckReady, Handle, Decide, Expand,
           PutDecision, DictPermitted, ListDimensionValues, Insert, RequireAdmin,
           SaveDimensionValue, RemoveFromCaches, StoreError, Abandon, PrepareInv, PreparingInv
  <2> QED
    BY <2>2, <2>3
<1> QED
  BY <1>0, <1>1, <1>2, OthersKeepPreparing

(* Whatever is in READY has a pool and every table, for any number of racing requests, *)
(* statements and faults.                                                              *)
THEOREM ReadyPrepared == Spec => []ReadyIsPrepared
<1>1. Init => PrepareInv
  BY DEF Init, PrepareInv, PreparingInv, ReadyIsPrepared, Working, Preparing, Handling
<1>2. TypeOK /\ TypeOK' /\ PrepareInv /\ [Next]_vars => PrepareInv'
  <2> SUFFICES ASSUME TypeOK, TypeOK', PrepareInv, [Next]_vars PROVE PrepareInv'
    OBVIOUS
  <2>1. CASE Crash
    <3>1. \A r \in Requests : pc'[r] \notin Working
      BY <2>1 DEF Crash, Working, Preparing, Handling
    <3> QED
      BY <2>1, <3>1 DEF Crash, PrepareInv, PreparingInv, ReadyIsPrepared, Working, Preparing
  <2>2. CASE ~ Crash
    <3>1. \A r \in Requests : PreparingInv(r)'
      <4>1. CASE \E r \in Requests : Authenticate(r) \/ Serve(r) \/ Abandon(r)
        BY <4>1, RequestKeepsPreparing
      <4>2. CASE UNCHANGED <<pc, stmt, scope>>
        BY <2>2, <4>2, OthersKeepPreparing
      <4> QED
        BY <2>2, <4>1, <4>2 DEF Next, vars, Boot, Outage, Recovery, requestVars
    <3>2. ReadyIsPrepared'
      <4>1. ready' \subseteq ready \/ \E r \in Requests : MarkReady(r)
        BY <2>2 DEF Next, vars, Boot, Outage, Recovery, Authenticate, Abandon, Serve, CheckReady,
           Prepare, Register, LookForObject, Look, GiveUp, CreateObject, Handle, Decide, Expand,
           PutDecision, DictPermitted, ListDimensionValues, Insert, RequireAdmin,
           SaveDimensionValue, RemoveFromCaches, StoreError, processVars
      <4>2. ASSUME NEW d \in Dbs, d \in registered, made[d] = Statements
            PROVE  d \in registered' /\ made'[d] = Statements
        <5>1. d \in registered' /\ made'[d] >= made[d] /\ made'[d] \in 0..Statements
          BY <2>2, <4>2, PoolsAndObjectsStay
        <5> QED
          BY <4>2, <5>1, StatementsAssumption
      <4>3. \A r \in Requests : MarkReady(r) =>
              /\ ready' = ready \cup {OwnDb(r)}
              /\ OwnDb(r) \in registered /\ made[OwnDb(r)] = Statements
        BY DEF MarkReady, PrepareInv, PreparingInv
      <4>4. \A d \in ready' : d \in Dbs /\ d \in registered /\ made[d] = Statements
        BY <4>1, <4>3, DbType
           DEF PrepareInv, ReadyIsPrepared, TypeOK, ProcessOK, OwnDb, RequestsOK
      <4> QED
        BY <4>2, <4>4 DEF ReadyIsPrepared
    <3>3. ~ running' =>
            registered' = {} /\ ready' = {} /\ \A r \in Requests : pc'[r] \notin Working
      <4>1. CASE running
        BY <2>2, <4>1
           DEF Next, vars, Boot, Outage, Recovery, Authenticate, Abandon, Serve, CheckReady,
           Prepare, Register, LookForObject, CreateObject, MarkReady, Handle, Decide, Expand,
           PutDecision, DictPermitted, ListDimensionValues, Insert, RequireAdmin,
           SaveDimensionValue, RemoveFromCaches, StoreError, processVars
      <4>2. CASE ~ running
        <5>1. \A r \in Requests : ~ Authenticate(r) /\ ~ Serve(r) /\ ~ Abandon(r)
          BY <4>2 DEF PrepareInv, Authenticate, Abandon, Serve, CheckReady, Prepare, Register,
           LookForObject, CreateObject, MarkReady, Handle, Decide, Expand, PutDecision,
           DictPermitted, ListDimensionValues, Insert, RequireAdmin, SaveDimensionValue,
           RemoveFromCaches, StoreError, Working, Preparing, Handling
        <5> QED
          BY <2>2, <4>2, <5>1 DEF PrepareInv, Next, vars, Boot, Outage, Recovery, processVars
      <4> QED
        BY <4>1, <4>2
    <3> QED
      BY <3>1, <3>2, <3>3 DEF PrepareInv
  <2> QED
    BY <2>1, <2>2
<1>3. PrepareInv => ReadyIsPrepared
  BY DEF PrepareInv
<1> QED
  BY <1>1, <1>2, <1>3, TypeCorrect, PTL DEF Spec

-----------------------------------------------------------------------------
(***************************************************************************)
(* Why only naming a tenant crosses databases: under a tenant that no      *)
(* request has named from elsewhere, everything cached and everything      *)
(* about to be cached was read from that tenant's database.                *)
(***************************************************************************)
Clean(t) == \A q \in Requests : KeyTenant(q) = t => Aligned(q)

OwnInv ==
  /\ \A t \in Tenants : Clean(t) => desc[t] \subseteq {Db(t)}
  /\ \A k \in Tenants \X (Tenants \cup {Unnamed}) : Clean(k[1]) => decisions[k] \subseteq {Db(k[1])}
  /\ \A r \in Requests : Clean(KeyTenant(r)) =>
       /\ answer[r] \subseteq {OwnDb(r)}
       /\ pc[r] = "put" => fill[r].dbs \subseteq {OwnDb(r)}
  /\ \A r \in Requests : pc[r] = "idle" => named[r] = Unnamed /\ answer[r] = {}

(* A step makes no tenant clean: a request that has not arrived crosses nothing. *)
LEMMA StaysUnclean ==
  ASSUME TypeOK, OwnInv, [Next]_vars, NEW t \in Tenants, Clean(t)'
  PROVE  Clean(t)
<1> SUFFICES ASSUME NEW q \in Requests, KeyTenant(q) = t PROVE Aligned(q)
  BY DEF Clean
<1>1. CASE pc[q] = "idle"
  BY <1>1 DEF OwnInv, Aligned, KeyTenant, OwnDb
<1>2. CASE pc[q] # "idle"
  <2>1. UNCHANGED <<scope[q], named[q]>>
    BY <1>2 DEF TypeOK, RequestsOK, Next, vars, Boot, Crash, Outage, Recovery, Authenticate,
       Enter, Abandon, Serve, CheckReady, Prepare, Register, LookForObject, CreateObject,
       MarkReady, Handle, Decide, Expand, PutDecision, DictPermitted, ListDimensionValues,
       Insert, RequireAdmin, SaveDimensionValue, RemoveFromCaches, StoreError, requestVars
  <2>2. scope[q] \in Tenants /\ KeyTenant(q) \in Tenants
    BY DEF TypeOK, RequestsOK, KeyTenant
  <2>3. KeyTenant(q)' = t /\ Aligned(q)'
    BY <2>1 DEF KeyTenant, Clean
  <2> QED
    BY <2>1, <2>2, <2>3, ConfigStays DEF Aligned, OwnDb, KeyTenant, Db
<1> QED
  BY <1>1, <1>2

(* A request whose tenant is clean has the database of that tenant. *)
LEMMA CleanIsOwn ==
  ASSUME NEW r \in Requests, Clean(KeyTenant(r))
  PROVE  Db(KeyTenant(r)) = OwnDb(r)
BY DEF Clean, Aligned

(* Only its own steps and crashes move a request. *)
LEMMA OthersStay ==
  ASSUME TypeOK, NEW r \in Requests, NEW q \in Requests, q # r,
         Authenticate(q) \/ Serve(q) \/ Abandon(q)
  PROVE  UNCHANGED <<pc[r], scope[r], named[r], answer[r], fill[r], wver[r]>>
BY DEF TypeOK, RequestsOK, Authenticate, Enter, Goto, Abandon, Serve, CheckReady, Prepare,
   Register, LookForObject, Look, NextStatement, GiveUp, CreateObject, MarkReady, Handle,
   Decide, Expand, PutDecision, DictPermitted, ListDimensionValues, Insert, RequireAdmin,
   SaveDimensionValue, Commit, RemoveFromCaches, StoreError, requestVars

LEMMA EnvironmentStays ==
  ASSUME TypeOK, NEW r \in Requests,
         Boot \/ Crash \/ (\E d \in Dbs : Outage(d) \/ Recovery(d)) \/ UNCHANGED vars
  PROVE  /\ UNCHANGED <<scope[r], named[r], answer[r], fill[r], wver[r]>>
         /\ UNCHANGED pc[r] \/ (pc[r] \in Working /\ pc'[r] = "lost")
BY DEF Boot, Crash, Outage, Recovery, vars, requestVars

(* A request that has arrived keeps its tenant. *)
LEMMA OwnStepStays ==
  ASSUME TypeOK, NEW r \in Requests, Serve(r) \/ Abandon(r)
  PROVE  UNCHANGED <<scope, named>> /\ pc[r] # "idle" /\ pc'[r] # "idle"
BY DEF TypeOK, RequestsOK, Goto, Abandon, Serve, CheckReady, Prepare, Register, LookForObject,
   Look, NextStatement, GiveUp, CreateObject, MarkReady, Handle, Decide, Expand, PutDecision,
   DictPermitted, ListDimensionValues, Insert, RequireAdmin, SaveDimensionValue,
   RemoveFromCaches, StoreError, requestVars, Working, Preparing, Handling

LEMMA ArrivedStays ==
  ASSUME TypeOK, [Next]_vars, NEW r \in Requests, pc[r] # "idle"
  PROVE  UNCHANGED <<scope[r], named[r], KeyTenant(r), OwnDb(r)>> /\ pc'[r] # "idle"
<1>1. UNCHANGED <<scope[r], named[r]>> /\ pc'[r] # "idle"
  <2>1. ~ Authenticate(r)
    BY DEF Authenticate
  <2> QED
    BY <2>1, OthersStay, EnvironmentStays, OwnStepStays DEF Next
<1>2. multi' = multi
  BY ConfigStays DEF config
<1> QED
  BY <1>1, <1>2 DEF KeyTenant, OwnDb, Db

(* A decision rests on its own database alone, unless its tenant was named from another: *)
(* for any spellings, databases and interleaving of requests.                            *)
THEOREM OwnDatabaseHolds == Spec => []OwnDatabase
<1>1. Init => OwnInv
  BY DEF Init, OwnInv, NoDesc, NoDecisions, Nothing
<1>2. TypeOK /\ TypeOK' /\ OwnInv /\ [Next]_vars => OwnInv'
  <2> SUFFICES ASSUME TypeOK, TypeOK', OwnInv, [Next]_vars PROVE OwnInv'
    OBVIOUS
  <2>1. \A t \in Tenants : Clean(t)' => Clean(t) /\ Db(t)' = Db(t)
    BY StaysUnclean, ConfigStays
  <2>2. \A r \in Requests : KeyTenant(r) \in Tenants /\ DecideKey(r)[1] = KeyTenant(r)
          /\ DecideKey(r) \in Tenants \X (Tenants \cup {Unnamed}) /\ KeyTenant(r)' \in Tenants
    BY DEF KeyTenant, DecideKey, TypeOK, RequestsOK
  <2>3. ASSUME NEW t \in Tenants, Clean(t)' PROVE desc'[t] \subseteq {Db(t)'}
    <3>1. \/ desc' = desc \/ desc' = NoDesc
          \/ \E r \in Requests : desc' = [desc EXCEPT ![KeyTenant(r)] = {OwnDb(r)}]
      BY DEF Next, vars, Boot, Crash, Outage, Recovery, Authenticate, Abandon, Serve,
         CheckReady, Prepare, Register, LookForObject, CreateObject, MarkReady, Handle, Decide,
         Expand, DescKey, PutDecision, DictPermitted, ListDimensionValues, Insert,
         RequireAdmin, SaveDimensionValue, RemoveFromCaches, StoreError, cacheVars
    <3>2. desc[t] \subseteq {Db(t)} /\ Clean(t) /\ Db(t)' = Db(t)
      BY <2>1, <2>3 DEF OwnInv
    <3>3. ASSUME NEW r \in Requests, desc' = [desc EXCEPT ![KeyTenant(r)] = {OwnDb(r)}]
          PROVE  desc'[t] \subseteq {Db(t)}
      BY <3>2, <3>3, CleanIsOwn DEF TypeOK, CachesOK
    <3> QED
      BY <3>1, <3>2, <3>3 DEF NoDesc
  <2>4. ASSUME NEW k \in Tenants \X (Tenants \cup {Unnamed}), Clean(k[1])'
        PROVE  decisions'[k] \subseteq {Db(k[1])'}
    <3>1. \/ decisions' = decisions \/ decisions' = NoDecisions
          \/ \E r \in Requests :
               pc[r] = "put" /\ decisions' = [decisions EXCEPT ![DecideKey(r)] = fill[r].dbs]
      BY DEF Next, vars, Boot, Crash, Outage, Recovery, Authenticate, Abandon, Serve,
         CheckReady, Prepare, Register, LookForObject, CreateObject, MarkReady, Handle, Decide,
         Expand, PutDecision, DictPermitted, ListDimensionValues, Insert,
         RequireAdmin, SaveDimensionValue, RemoveFromCaches, StoreError, cacheVars
    <3>2. k[1] \in Tenants /\ decisions[k] \subseteq {Db(k[1])} /\ Clean(k[1])
          /\ Db(k[1])' = Db(k[1])
      BY <2>1, <2>4 DEF OwnInv
    <3>3. ASSUME NEW r \in Requests, pc[r] = "put",
                 decisions' = [decisions EXCEPT ![DecideKey(r)] = fill[r].dbs]
          PROVE  decisions'[k] \subseteq {Db(k[1])}
      <4>1. CASE k = DecideKey(r)
        <5>1. Clean(KeyTenant(r)) /\ Db(k[1]) = OwnDb(r)
          BY <2>2, <3>2, <4>1, CleanIsOwn
        <5>2. fill[r].dbs \subseteq {OwnDb(r)}
          BY <3>3, <5>1 DEF OwnInv
        <5> QED
          BY <3>3, <4>1, <5>1, <5>2 DEF TypeOK, CachesOK
      <4> QED
        BY <3>2, <3>3, <4>1 DEF TypeOK, CachesOK
    <3> QED
      BY <3>1, <3>2, <3>3 DEF NoDecisions
  <2>5. ASSUME NEW r \in Requests
        PROVE  /\ Clean(KeyTenant(r))' =>
                    /\ answer'[r] \subseteq {OwnDb(r)'}
                    /\ pc'[r] = "put" => fill'[r].dbs \subseteq {OwnDb(r)'}
               /\ pc'[r] = "idle" => named'[r] = Unnamed /\ answer'[r] = {}
    <3> USE DEF TypeOK, RequestsOK
    <3>1. CASE UNCHANGED <<pc[r], answer[r], fill[r]>>
      <4>1. CASE pc[r] = "idle"
        <5>1. ~ Authenticate(r)
          BY <3>1, <4>1 DEF Authenticate, Enter, Goto
        <5>2. UNCHANGED named[r]
          BY <5>1, OthersStay, EnvironmentStays, OwnStepStays DEF Next
        <5>3. scope'[r] = scope[r]
          BY <5>1, OthersStay, EnvironmentStays, OwnStepStays DEF Next
        <5> QED
          BY <3>1, <4>1, <5>2, <5>3 DEF OwnInv
      <4>2. CASE pc[r] # "idle"
        BY <2>1, <2>2, <3>1, <4>2, ArrivedStays DEF OwnInv
      <4> QED
        BY <4>1, <4>2
    <3>2. CASE Authenticate(r)
      BY <3>2 DEF Authenticate, Enter, Goto, OwnInv
    <3>3. CASE Decide(r) \/ Expand(r) \/ PutDecision(r)
      <4>1. pc[r] # "idle" /\ pc'[r] # "idle"
        BY <3>3, ArrivedStays DEF Decide, Expand, PutDecision
      <4>2. ASSUME Clean(KeyTenant(r))'
            PROVE  answer'[r] \subseteq {OwnDb(r)'}
                   /\ (pc'[r] = "put" => fill'[r].dbs \subseteq {OwnDb(r)'})
        <5>1. UNCHANGED OwnDb(r) /\ Clean(KeyTenant(r)) /\ Db(KeyTenant(r)) = OwnDb(r)
          BY <2>1, <2>2, <4>1, <4>2, ArrivedStays, CleanIsOwn
        <5>2. /\ desc[KeyTenant(r)] \subseteq {OwnDb(r)}
              /\ decisions[DecideKey(r)] \subseteq {OwnDb(r)}
              /\ answer[r] \subseteq {OwnDb(r)}
              /\ pc[r] = "put" => fill[r].dbs \subseteq {OwnDb(r)}
          <6>1. desc[KeyTenant(r)] \subseteq {OwnDb(r)}
            BY <2>2, <5>1, SMTT(30) DEF OwnInv
          <6>2. decisions[DecideKey(r)] \subseteq {OwnDb(r)}
            <7>1. DecideKey(r) \in Tenants \X (Tenants \cup {Unnamed}) /\ Clean(DecideKey(r)[1])
              BY <2>2, <5>1
            <7>2. decisions[DecideKey(r)] \subseteq {Db(DecideKey(r)[1])}
              BY <7>1, Zenon DEF OwnInv
            <7> QED
              BY <2>2, <5>1, <7>2
          <6>3. answer[r] \subseteq {OwnDb(r)} /\ (pc[r] = "put" => fill[r].dbs \subseteq {OwnDb(r)})
            BY <5>1, Zenon DEF OwnInv
          <6> QED
            BY <6>1, <6>2, <6>3
        <5>3. CASE Decide(r)
          BY <5>1, <5>2, <5>3 DEF Decide, Goto
        <5>4. CASE Expand(r)
          BY <5>1, <5>2, <5>4 DEF Expand, DescKey, Goto
        <5>5. CASE PutDecision(r)
          BY <5>1, <5>2, <5>5 DEF PutDecision, Goto
        <5> QED
          BY <3>3, <5>3, <5>4, <5>5
      <4> QED
        BY <4>1, <4>2
    <3>4. CASE UNCHANGED answer[r] /\ pc[r] # "idle" /\ pc'[r] # "put"
      BY <2>1, <2>2, <3>4, ArrivedStays DEF OwnInv
    <3> QED
      <4>2. ASSUME Serve(r) \/ Abandon(r), ~ Decide(r), ~ Expand(r), ~ PutDecision(r)
            PROVE  UNCHANGED answer[r] /\ pc[r] # "idle" /\ pc'[r] # "put"
        BY <4>2 DEF Goto,
             Abandon, Serve, CheckReady, Prepare, Register, LookForObject, Look, NextStatement,
             GiveUp, CreateObject, MarkReady, Handle, DictPermitted,
             ListDimensionValues, Insert, RequireAdmin, SaveDimensionValue, RemoveFromCaches,
             StoreError, Working, Preparing, Handling
      <4>3. ASSUME Boot \/ Crash \/ (\E d \in Dbs : Outage(d) \/ Recovery(d)) \/ UNCHANGED vars
            PROVE  \/ UNCHANGED <<pc[r], answer[r], fill[r]>>
                   \/ UNCHANGED answer[r] /\ pc[r] # "idle" /\ pc'[r] # "put"
        BY <4>3, EnvironmentStays DEF Working, Preparing, Handling
      <4> QED
        BY <3>1, <3>2, <3>3, <3>4, <4>2, <4>3, OthersStay DEF Next
  <2> QED
    BY <2>3, <2>4, <2>5 DEF OwnInv
<1>3. OwnInv => OwnDatabase
  BY DEF OwnInv, OwnDatabase, Clean
<1> QED
  BY <1>1, <1>2, <1>3, TypeCorrect, PTL DEF Spec

-----------------------------------------------------------------------------
(***************************************************************************)
(* Why a set is up to date but for what Outdates says: versions only grow, *)
(* a set holds what was read while it was materialized, and a request has  *)
(* written nothing before its commit.                                      *)
(***************************************************************************)
Committed == {"remove", "done", "failed", "lost"}

SetInv(t) ==
  mat[t] # NoEntry =>
    /\ mat[t].read <= ver[Db(t)]
    /\ ~ mat[t].raced =>
         \A v \in (mat[t].read + 1)..ver[Db(t)] : \E w \in Requests : Outdates(w, t, v)

FillingInv(r) ==
  /\ pc[r] \in {"list", "insert"} => fill[r].asked <= ver[OwnDb(r)]
  /\ pc[r] = "insert" => fill[r].asked <= fill[r].read /\ fill[r].read <= ver[OwnDb(r)]
  /\ pc[r] \notin Committed => wver[r] = 0

FreshInv == (\A t \in Tenants : SetInv(t)) /\ (\A r \in Requests : FillingInv(r))

(* A version is raised by the commit of one request, and by nothing else. *)
LEMMA VersionSteps ==
  ASSUME TypeOK, [Next]_vars
  PROVE  \/ UNCHANGED <<ver, wver>>
         \/ \E r \in Requests : pc[r] = "commit" /\ Commit(r) /\ pc'[r] \in {"remove", "failed"}
                                /\ UNCHANGED <<mat, scope>>
BY DEF Next, vars, Boot, Crash, Outage, Recovery, Authenticate, Abandon, Serve, CheckReady,
   Prepare, Register, LookForObject, CreateObject, MarkReady, Handle, Decide, Expand,
   PutDecision, DictPermitted, ListDimensionValues, Insert, RequireAdmin, SaveDimensionValue,
   RemoveFromCaches, StoreError, dbVars, cacheVars, requestVars, TypeOK, RequestsOK, Goto

LEMMA VersionsGrow ==
  ASSUME TypeOK, [Next]_vars
  PROVE  \A d \in Dbs : ver[d] \in Nat /\ ver'[d] \in Nat /\ ver[d] <= ver'[d]
<1>1. \A r \in Requests : OwnDb(r) \in Dbs
  BY DbType DEF OwnDb, TypeOK, RequestsOK
<1>2. \A d \in Dbs : ver[d] \in Nat
  BY DEF TypeOK, DbsOK
<1>3. ASSUME NEW r \in Requests, Commit(r)
      PROVE  \A d \in Dbs : ver'[d] = ver[d] \/ ver'[d] = ver[d] + 1
  BY <1>1, <1>3 DEF Commit, TypeOK, DbsOK
<1> QED
  BY <1>2, <1>3, VersionSteps

(* The sets: nothing, what a request inserts, or what was there. *)
LEMMA SetSteps ==
  ASSUME TypeOK, [Next]_vars, NEW t \in Tenants
  PROVE  \/ mat'[t] = NoEntry \/ mat'[t] = mat[t]
         \/ \E r \in Requests : Insert(r) /\ scope[r] = t
<1>1. \/ UNCHANGED mat \/ mat' = NoMat \/ \E r \in Requests : Insert(r) \/ RemoveFromCaches(r)
  BY DEF Next, vars, Boot, Crash, Outage, Recovery, Authenticate, Abandon, Serve, CheckReady,
     Prepare, Register, LookForObject, CreateObject, MarkReady, Handle, Decide, Expand,
     PutDecision, DictPermitted, ListDimensionValues, RequireAdmin, SaveDimensionValue,
     StoreError, cacheVars
<1> QED
  BY <1>1 DEF NoMat, Insert, RemoveFromCaches, Invalidate, TypeOK, CachesOK

(* What outdates a set goes on doing so while the set is there. *)
LEMMA OutdatesStays ==
  ASSUME TypeOK, FreshInv, [Next]_vars, NEW t \in Tenants, mat'[t] = mat[t],
         mat[t] # NoEntry, NEW w \in Requests, NEW v \in Nat, v # 0, Outdates(w, t, v)
  PROVE  Outdates(w, t, v)'
<1>1. wver[w] # 0
  BY DEF Outdates
<1>2. pc[w] \in Committed
  BY <1>1 DEF FreshInv, FillingInv
<1>3. UNCHANGED <<scope[w], OwnDb(w)>> /\ UNCHANGED Db(t)
  BY <1>2, ArrivedStays, ConfigStays DEF Committed
<1>4. UNCHANGED wver[w]
  BY <1>2, VersionSteps DEF Commit, Committed, TypeOK, RequestsOK
<1>5. scope[w] = t => pc'[w] # "done"
  <2> SUFFICES ASSUME scope[w] = t, pc'[w] = "done" PROVE FALSE
    OBVIOUS
  <2>1. pc[w] # "done"
    BY DEF Outdates
  <2>2. RemoveFromCaches(w)
    <3>1. ASSUME Serve(w) \/ Abandon(w) PROVE RemoveFromCaches(w)
      BY <1>2, <2>1, <3>1 DEF Committed, Serve, Abandon, CheckReady, Prepare, Register,
         LookForObject, CreateObject, MarkReady, Handle, Decide, Expand, PutDecision,
         DictPermitted, ListDimensionValues, Insert, RequireAdmin, SaveDimensionValue,
         StoreError, Working, Preparing, Handling, Goto, TypeOK, RequestsOK
    <3>2. ~ Authenticate(w)
      BY <1>2 DEF Authenticate, Committed
    <3> QED
      BY <2>1, <3>1, <3>2, OthersStay, EnvironmentStays DEF Next
  <2> QED
    BY <2>2 DEF RemoveFromCaches, Invalidate, TypeOK, CachesOK
<1> QED
  BY <1>3, <1>4, <1>5 DEF Outdates

(* No write finished under its own name is missing from a set, whatever others are: for any *)
(* number of spellings, requests and writes, in both tenancies.                             *)
THEOREM FreshUnderItsNameHolds == Spec => []FreshUnderItsName
<1>1. Init => FreshInv
  BY DEF Init, FreshInv, SetInv, FillingInv, NoMat
<1>2. TypeOK /\ TypeOK' /\ FreshInv /\ [Next]_vars => FreshInv'
  <2> SUFFICES ASSUME TypeOK, TypeOK', FreshInv, [Next]_vars PROVE FreshInv'
    OBVIOUS
  <2>0. /\ \A r \in Requests : OwnDb(r) \in Dbs /\ wver[r] \in Nat
                              /\ fill[r].asked \in Nat /\ fill[r].read \in Nat
        /\ \A t \in Tenants : Db(t) \in Dbs /\ Db(t)' = Db(t)
    BY DbType, ConfigStays DEF OwnDb, TypeOK, RequestsOK
  <2>1. ASSUME NEW t \in Tenants PROVE SetInv(t)'
    <3>1. CASE mat'[t] = NoEntry
      BY <3>1 DEF SetInv
    <3>2. ASSUME NEW r \in Requests, Insert(r), scope[r] = t PROVE SetInv(t)'
      <4>1. /\ mat'[t].read = fill[r].read
            /\ mat'[t].raced = (fill[r].asked # ver[OwnDb(r)]) /\ ver' = ver
        BY <3>2 DEF Insert, dbVars, TypeOK, CachesOK
      <4>2. OwnDb(r) = Db(t) /\ fill[r].asked <= fill[r].read /\ fill[r].read <= ver[Db(t)]
        BY <3>2 DEF OwnDb, FreshInv, FillingInv, Insert
      <4>3. ver[Db(t)] \in Nat
        BY <2>0, VersionsGrow
      <4>4. fill[r].asked = ver[Db(t)] => fill[r].read = ver[Db(t)]
        BY <2>0, <4>2, <4>3
      <4>5. ~ mat'[t].raced => (mat'[t].read + 1)..ver'[Db(t)] = {}
        <5>1. mat'[t].raced = (fill[r].asked # ver[Db(t)]) /\ ver'[Db(t)] = ver[Db(t)]
          BY <4>1, <4>2
        <5>2. ~ mat'[t].raced => mat'[t].read = ver'[Db(t)] /\ ver'[Db(t)] \in Nat
          BY <4>1, <4>3, <4>4, <5>1
        <5> QED
          BY <5>2
      <4>6. mat'[t].read <= ver'[Db(t)]
        BY <4>1, <4>2
      <4> QED
        BY <2>0, <4>5, <4>6 DEF SetInv
    <3>3. CASE mat'[t] = mat[t] /\ mat[t] # NoEntry
      <4>0. mat[t].read \in Nat /\ ver[Db(t)] \in Nat /\ ver'[Db(t)] \in Nat
            /\ ver[Db(t)] <= ver'[Db(t)] /\ mat[t].read <= ver[Db(t)]
        BY <2>0, <3>3, VersionsGrow DEF TypeOK, CachesOK, Entry, FreshInv, SetInv
      <4>1. mat'[t].read <= ver'[Db(t)]
        BY <3>3, <4>0
      <4>2. ASSUME NEW v \in (mat[t].read + 1)..ver[Db(t)], ~ mat[t].raced
            PROVE  \E w \in Requests : Outdates(w, t, v)'
        <5>1. PICK w \in Requests : Outdates(w, t, v)
          BY <3>3, <4>2 DEF FreshInv, SetInv
        <5>2. v \in Nat /\ v # 0
          BY <4>0
        <5> QED
          BY <3>3, <5>1, <5>2, OutdatesStays
      <4>3. ASSUME ver'[Db(t)] # ver[Db(t)], NEW v, v = ver'[Db(t)]
            PROVE  v = ver[Db(t)] + 1 /\ \E w \in Requests : Outdates(w, t, v)'
        <5>1. PICK r \in Requests : Commit(r) /\ pc'[r] \in {"remove", "failed"} /\ UNCHANGED scope
          BY <4>3, VersionSteps
        <5>2. OwnDb(r) = Db(t) /\ wver'[r] = ver[Db(t)] + 1 /\ ver'[Db(t)] = ver[Db(t)] + 1
          BY <2>0, <4>3, <5>1 DEF Commit, TypeOK, DbsOK, RequestsOK
        <5>3. OwnDb(r)' = Db(t)'
          BY <2>0, <5>1, <5>2, ConfigStays DEF OwnDb, Db, config
        <5>4. Outdates(r, t, v)'
          BY <4>3, <5>1, <5>2, <5>3 DEF Outdates
        <5> QED
          BY <4>3, <5>2, <5>4
      <4>4. ASSUME NEW v \in (mat[t].read + 1)..ver'[Db(t)], ~ mat[t].raced
            PROVE  \E w \in Requests : Outdates(w, t, v)'
        <5>1. ver'[Db(t)] # ver[Db(t)] => ver'[Db(t)] = ver[Db(t)] + 1
          BY <4>3
        <5>2. v \in (mat[t].read + 1)..ver[Db(t)] \/ (ver'[Db(t)] # ver[Db(t)] /\ v = ver'[Db(t)])
          BY <4>0, <5>1
        <5> QED
          BY <4>2, <4>3, <4>4, <5>2
      <4> QED
        BY <2>0, <3>3, <4>1, <4>4 DEF SetInv
    <3> QED
      BY <3>1, <3>2, <3>3, SetSteps
  <2>2. ASSUME NEW r \in Requests PROVE FillingInv(r)'
    <3> USE DEF TypeOK, RequestsOK
    <3>0. FillingInv(r) /\ ver[OwnDb(r)] \in Nat
      BY <2>0, VersionsGrow DEF FreshInv
    <3>1. ASSUME UNCHANGED <<scope[r], fill[r], wver[r]>>, UNCHANGED pc[r] \/ pc'[r] = "lost"
          PROVE  FillingInv(r)'
      <4>1. OwnDb(r)' = OwnDb(r)
        BY <3>1, ConfigStays DEF OwnDb, Db, config
      <4>2. ver[OwnDb(r)] <= ver'[OwnDb(r)] /\ ver'[OwnDb(r)] \in Nat
        BY <2>0, VersionsGrow
      <4> QED
        BY <2>0, <3>0, <3>1, <4>1, <4>2 DEF FillingInv, Committed
    <3>2. ASSUME pc'[r] \notin {"list", "insert"}, UNCHANGED wver[r],
                 pc[r] \notin Committed \/ pc'[r] \in Committed
          PROVE  FillingInv(r)'
      BY <3>0, <3>2 DEF FillingInv
    <3>3. CASE SaveDimensionValue(r) \/ (StoreError(r) /\ Commit(r))
      BY <3>3 DEF SaveDimensionValue, StoreError, Goto, FillingInv, Committed
    <3>4. CASE DictPermitted(r) \/ ListDimensionValues(r)
      <4>1. OwnDb(r)' = OwnDb(r) /\ ver' = ver
        BY <3>4, ConfigStays DEF DictPermitted, ListDimensionValues, requestVars, OwnDb, Db,
                                 config, dbVars
      <4>2. CASE DictPermitted(r)
        BY <3>0, <4>1, <4>2 DEF DictPermitted, Goto, FillingInv, Committed
      <4>3. CASE ListDimensionValues(r)
        BY <3>0, <4>1, <4>3 DEF ListDimensionValues, Goto, FillingInv, Committed
      <4> QED
        BY <3>4, <4>2, <4>3
    <3>5. ASSUME Authenticate(r) \/ Serve(r) \/ Abandon(r),
                 ~ SaveDimensionValue(r), ~ (StoreError(r) /\ Commit(r)),
                 ~ DictPermitted(r), ~ ListDimensionValues(r)
          PROVE  FillingInv(r)'
      <4>1. /\ pc'[r] \notin {"list", "insert"} /\ UNCHANGED wver[r]
            /\ pc[r] \notin Committed \/ pc'[r] \in Committed
        BY <3>5 DEF Authenticate, Enter, Goto, Serve, Abandon, CheckReady, Prepare, Register,
           LookForObject, Look, NextStatement, GiveUp, CreateObject, MarkReady, Handle, Decide,
           Expand, PutDecision, Insert, RequireAdmin, RemoveFromCaches, StoreError, Working,
           Preparing, Handling, Committed
      <4> QED
        BY <3>2, <4>1
    <3> QED
      BY <3>1, <3>3, <3>4, <3>5, OthersStay, EnvironmentStays DEF Next
  <2> QED
    BY <2>1, <2>2 DEF FreshInv
<1>3. FreshInv => FreshUnderItsName
  BY DEF FreshInv, SetInv, FreshUnderItsName
<1> QED
  BY <1>1, <1>2, <1>3, TypeCorrect, PTL DEF Spec
=============================================================================
