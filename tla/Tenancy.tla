------------------------------- MODULE Tenancy -------------------------------
(***************************************************************************)
(* One process, many tenants (auth.rs, tenancy.rs, tenant.rs): a request   *)
(* is authenticated, enters the scope of a tenant, prepares that tenant's  *)
(* database when no request has done so yet, and is then handled.  Three   *)
(* handlers stand for all: decide, which reads through the caches of L1,   *)
(* dict_permitted, which reads through L3, and save_dimension_value, which *)
(* writes what both have read and removes it from them.                    *)
(*                                                                         *)
(* The caches are one per process, keyed by a tenant's name as the request *)
(* gave it; the database is that of the name in lower case, or one for     *)
(* all.  What a database holds is abstracted to which database it is (L1)  *)
(* and how many writes its dictionary has had (L3).  Principals and the    *)
(* rows of grants are in MatCache, generations and TTLs in DecideEngine.   *)
(***************************************************************************)
EXTENDS Integers, FiniteSets

CONSTANTS
  Tenants,       \* tenants, as claims, API keys and request bodies spell them
  DefaultTenant, \* the tenant of a request that carries none
  Unnamed,       \* the empty tenant of a subject
  TenantDbs,     \* the tenants' databases
  BootDb,        \* the database of the configuration, prepared at the start; that of tenant pg
  DbOf,          \* the tenant database of each spelling
  Requests,      \* requests, each made at most once
  Statements,    \* the number of DDL statements, each making one object
  DictTable,     \* the one that makes the dictionary's table
  MaxFaults      \* bound on crashes, outages and abandoned requests

ASSUME TenantsAssumption ==
  /\ DefaultTenant \in Tenants /\ Unnamed \notin Tenants
  /\ DbOf \in [Tenants -> TenantDbs]

ASSUME StatementsAssumption ==
  Statements \in Nat /\ DictTable \in 1..Statements /\ MaxFaults \in Nat

Dbs == TenantDbs \cup {BootDb}

VARIABLES
  off,        \* whether auth.mode is off
  multi,      \* whether auth.tenancy is multi
  up,         \* whether each database answers
  made,       \* how many of the objects exist in it
  ver,        \* the writes its dictionary has had
  running,    \* whether the process serves
  registered, \* the databases with a pool
  ready,      \* READY
  desc,       \* DESC: the databases an expansion was read from, none without an entry
  decisions,  \* DECIDE: likewise for a decision
  mat,        \* CACHE of matcache.rs
  pc,         \* where each request is
  kind,       \* which handler it is for
  scope,      \* the tenant of its scope
  named,      \* the tenant its subject names
  stmt,       \* the statement it executes
  fill,       \* what it has read so far
  answer,     \* history: the databases its decision comes from
  wver,       \* history: the write of its database it made, 0 for none
  faults

config == <<off, multi>>
dbVars == <<up, made, ver>>
cacheVars == <<desc, decisions, mat>>
processVars == <<running, registered, ready>>
requestVars == <<kind, scope, named>>
vars == <<off, multi, up, made, ver, running, registered, ready, desc, decisions, mat,
          pc, kind, scope, named, stmt, fill, answer, wver, faults>>

Preparing == {"register", "look", "create", "mark"}

Handling == {"handle", "expand", "put", "list", "insert", "commit", "remove"}

Working == Preparing \cup Handling \cup {"auth"}

Steps == Working \cup {"idle", "done", "refused", "failed", "lost"}

NoEntry == [cached |-> FALSE]

Entry == [cached : {TRUE}, read : Nat, raced : BOOLEAN]

Nothing == [dbs |-> {}, asked |-> 0, read |-> 0]

DbsOK ==
  up \in [Dbs -> BOOLEAN] /\ made \in [Dbs -> 0..Statements] /\ ver \in [Dbs -> Nat]

ProcessOK == running \in BOOLEAN /\ registered \subseteq Dbs /\ ready \subseteq Dbs

CachesOK ==
  /\ desc \in [Tenants -> SUBSET Dbs]
  /\ decisions \in [Tenants \X (Tenants \cup {Unnamed}) -> SUBSET Dbs]
  /\ mat \in [Tenants -> Entry \cup {NoEntry}]

RequestsOK ==
  /\ pc \in [Requests -> Steps]
  /\ kind \in [Requests -> {"decide", "permitted", "save"}]
  /\ scope \in [Requests -> Tenants] /\ named \in [Requests -> Tenants \cup {Unnamed}]
  /\ stmt \in [Requests -> 1..Statements]
  /\ fill \in [Requests -> [dbs : SUBSET Dbs, asked : Nat, read : Nat]]
  /\ answer \in [Requests -> SUBSET Dbs] /\ wver \in [Requests -> Nat]

TypeOK ==
  /\ off \in BOOLEAN /\ multi \in BOOLEAN /\ faults \in 0..MaxFaults
  /\ DbsOK /\ ProcessOK /\ CachesOK /\ RequestsOK

NoDesc == [t \in Tenants |-> {}]

NoDecisions == [k \in Tenants \X (Tenants \cup {Unnamed}) |-> {}]

NoMat == [t \in Tenants |-> NoEntry]

Init ==
  /\ off \in BOOLEAN /\ multi \in BOOLEAN
  /\ up = [d \in Dbs |-> TRUE] /\ made = [d \in Dbs |-> 0] /\ ver = [d \in Dbs |-> 0]
  /\ running = FALSE /\ registered = {} /\ ready = {}
  /\ desc = NoDesc /\ decisions = NoDecisions /\ mat = NoMat
  /\ pc = [r \in Requests |-> "idle"] /\ kind = [r \in Requests |-> "decide"]
  /\ scope = [r \in Requests |-> DefaultTenant] /\ named = [r \in Requests |-> Unnamed]
  /\ stmt = [r \in Requests |-> 1] /\ fill = [r \in Requests |-> Nothing]
  /\ answer = [r \in Requests |-> {}] /\ wver = [r \in Requests |-> 0]
  /\ faults = 0

Goto(r, step) == pc' = [pc EXCEPT ![r] = step]

(* current_db_id in the scope of a tenant. *)
Db(t) == IF multi THEN DbOf[t] ELSE BootDb

OwnDb(r) == Db(scope[r])

-----------------------------------------------------------------------------
(* The process. *)

(* The start ends the process when the database of the configuration cannot be *)
(* registered or prepared; until it is, nothing is served.                      *)
Boot ==
  /\ ~ running /\ up[BootDb]
  /\ running' = TRUE
  /\ registered' = {BootDb}
  /\ made' = [made EXCEPT ![BootDb] = Statements]
  /\ UNCHANGED <<up, ver, ready, pc, stmt, fill, answer, wver, faults>>
  /\ UNCHANGED config /\ UNCHANGED cacheVars /\ UNCHANGED requestVars

(* READY, the pools and the caches are in memory; the tables are not. *)
Crash ==
  /\ running /\ faults < MaxFaults
  /\ faults' = faults + 1
  /\ running' = FALSE /\ registered' = {} /\ ready' = {}
  /\ desc' = NoDesc /\ decisions' = NoDecisions /\ mat' = NoMat
  /\ pc' = [r \in Requests |-> IF pc[r] \in Working THEN "lost" ELSE pc[r]]
  /\ UNCHANGED <<stmt, fill, answer, wver>>
  /\ UNCHANGED config /\ UNCHANGED dbVars /\ UNCHANGED requestVars

Outage(d) ==
  /\ up[d] /\ faults < MaxFaults
  /\ faults' = faults + 1
  /\ up' = [up EXCEPT ![d] = FALSE]
  /\ UNCHANGED <<made, ver, pc, stmt, fill, answer, wver>>
  /\ UNCHANGED config /\ UNCHANGED processVars
  /\ UNCHANGED cacheVars /\ UNCHANGED requestVars

Recovery(d) ==
  /\ ~ up[d]
  /\ up' = [up EXCEPT ![d] = TRUE]
  /\ UNCHANGED <<made, ver, pc, stmt, fill, answer, wver, faults>>
  /\ UNCHANGED config /\ UNCHANGED processVars
  /\ UNCHANGED cacheVars /\ UNCHANGED requestVars

(* The client goes away: the request is dropped where it waits. *)
Abandon(r) ==
  /\ pc[r] \in Working /\ faults < MaxFaults
  /\ faults' = faults + 1
  /\ Goto(r, "lost")
  /\ UNCHANGED <<stmt, fill, answer, wver>> /\ UNCHANGED config /\ UNCHANGED dbVars
  /\ UNCHANGED processVars /\ UNCHANGED cacheVars /\ UNCHANGED requestVars

-----------------------------------------------------------------------------
(* auth and ensure_current_ready. *)

Enter(r, t) ==
  /\ scope' = [scope EXCEPT ![r] = t]
  /\ \/ \E n \in Tenants \cup {Unnamed} :
          kind' = [kind EXCEPT ![r] = "decide"] /\ named' = [named EXCEPT ![r] = n]
     \/ \E k \in {"permitted", "save"} : kind' = [kind EXCEPT ![r] = k] /\ UNCHANGED named
  /\ Goto(r, "auth")

(***************************************************************************)
(* Without authentication everyone is of the default tenant.  Otherwise a  *)
(* known API key or, in mode jwt, a valid token gives the tenant, and      *)
(* anything else is refused before it has a scope: any of the tenants here *)
(* is one that a key is bound to or that the token and the list allow.     *)
(***************************************************************************)
Authenticate(r) ==
  /\ running /\ pc[r] = "idle"
  /\ \/ off /\ Enter(r, DefaultTenant)
     \/ ~ off /\ \E t \in Tenants : Enter(r, t)
     \/ ~ off /\ Goto(r, "refused") /\ UNCHANGED requestVars
  /\ UNCHANGED <<stmt, fill, answer, wver, faults>> /\ UNCHANGED config
  /\ UNCHANGED dbVars /\ UNCHANGED processVars /\ UNCHANGED cacheVars

(* With one database for all there is nothing to prepare. READY is unlocked at once. *)
CheckReady(r) ==
  /\ pc[r] = "auth"
  /\ Goto(r, IF multi /\ OwnDb(r) \notin ready THEN "register" ELSE "handle")
  /\ UNCHANGED <<stmt, fill, answer, wver, faults>> /\ UNCHANGED config
  /\ UNCHANGED dbVars /\ UNCHANGED processVars /\ UNCHANGED cacheVars /\ UNCHANGED requestVars

(* Mutant: a preparation that failed is remembered like one that succeeded. *)
GiveUpReady(r) == Goto(r, "handle") /\ ready' = ready \cup {OwnDb(r)}

(* A preparation that fails is logged, and the request handled all the same. *)
GiveUp(r) == Goto(r, "handle") /\ UNCHANGED ready

(* A second registration of a database replaces the pool of the first. *)
Register(r) ==
  /\ pc[r] = "register"
  /\ \/ /\ registered' = registered \cup {OwnDb(r)}
        /\ stmt' = [stmt EXCEPT ![r] = 1]
        /\ Goto(r, "look") /\ UNCHANGED ready
     \/ ~ up[OwnDb(r)] /\ GiveUp(r) /\ UNCHANGED <<registered, stmt>>
  /\ UNCHANGED <<running, fill, answer, wver, faults>> /\ UNCHANGED config
  /\ UNCHANGED dbVars /\ UNCHANGED cacheVars /\ UNCHANGED requestVars

NextStatement(r) ==
  IF stmt[r] = Statements
  THEN Goto(r, "mark") /\ UNCHANGED stmt
  ELSE Goto(r, "look") /\ stmt' = [stmt EXCEPT ![r] = @ + 1]

(* Mutant: CREATE without IF NOT EXISTS. *)
LookPlain(r) ==
  IF made[OwnDb(r)] >= stmt[r]
  THEN GiveUp(r) /\ UNCHANGED stmt
  ELSE Goto(r, "create") /\ UNCHANGED <<stmt, ready>>

(* IF NOT EXISTS looks first. *)
Look(r) ==
  IF made[OwnDb(r)] >= stmt[r]
  THEN NextStatement(r) /\ UNCHANGED ready
  ELSE Goto(r, "create") /\ UNCHANGED <<stmt, ready>>

(* A statement of ensure_schema: looks for its object. *)
LookForObject(r) ==
  /\ pc[r] = "look"
  /\ \/ up[OwnDb(r)] /\ Look(r)
     \/ ~ up[OwnDb(r)] /\ GiveUp(r) /\ UNCHANGED stmt
  /\ UNCHANGED <<running, registered, fill, answer, wver, faults>> /\ UNCHANGED config
  /\ UNCHANGED dbVars /\ UNCHANGED cacheVars /\ UNCHANGED requestVars

(***************************************************************************)
(* It then makes it, unless another session has made it since it looked:   *)
(* that is an error in spite of IF NOT EXISTS, and ends the preparation.   *)
(***************************************************************************)
CreateObject(r) ==
  /\ pc[r] = "create"
  /\ \/ /\ up[OwnDb(r)] /\ made[OwnDb(r)] < stmt[r]
        /\ made' = [made EXCEPT ![OwnDb(r)] = stmt[r]]
        /\ NextStatement(r) /\ UNCHANGED ready
     \/ /\ ~ up[OwnDb(r)] \/ made[OwnDb(r)] >= stmt[r]
        /\ GiveUp(r) /\ UNCHANGED <<made, stmt>>
  /\ UNCHANGED <<up, ver, running, registered, fill, answer, wver, faults>>
  /\ UNCHANGED config /\ UNCHANGED cacheVars /\ UNCHANGED requestVars

(* Mutant: the tenant is marked in place of its database. *)
MarkTenant(r) ==
  /\ pc[r] = "mark"
  /\ ready' = ready \cup {scope[r]}
  /\ Goto(r, "handle")
  /\ UNCHANGED <<running, registered, stmt, fill, answer, wver, faults>> /\ UNCHANGED config
  /\ UNCHANGED dbVars /\ UNCHANGED cacheVars /\ UNCHANGED requestVars

MarkReady(r) ==
  /\ pc[r] = "mark"
  /\ ready' = ready \cup {OwnDb(r)}
  /\ Goto(r, "handle")
  /\ UNCHANGED <<running, registered, stmt, fill, answer, wver, faults>> /\ UNCHANGED config
  /\ UNCHANGED dbVars /\ UNCHANGED cacheVars /\ UNCHANGED requestVars

Prepare(r) ==
  Register(r) \/ LookForObject(r) \/ CreateObject(r) \/ MarkReady(r)

-----------------------------------------------------------------------------
(* The handlers. *)

Usable(d) == up[d] /\ d \in registered /\ made[d] >= DictTable

(* The tenant decide caches under: the one the subject names, if any. *)
KeyTenant(r) == IF named[r] = Unnamed THEN scope[r] ELSE named[r]

(* The key of a decision also holds the subject as it came. *)
DecideKey(r) == <<KeyTenant(r), named[r]>>

(* An entry found may have expired, and is then missed. *)
Decide(r) ==
  /\ pc[r] = "handle" /\ kind[r] = "decide"
  /\ \/ /\ decisions[DecideKey(r)] # {}
        /\ answer' = [answer EXCEPT ![r] = decisions[DecideKey(r)]]
        /\ Goto(r, "done")
     \/ Goto(r, "expand") /\ UNCHANGED answer
  /\ UNCHANGED <<stmt, fill, wver, faults>> /\ UNCHANGED config
  /\ UNCHANGED dbVars /\ UNCHANGED processVars /\ UNCHANGED cacheVars /\ UNCHANGED requestVars

(* Mutant: the key of an expansion is its dimension and root alone. *)
DescKeyOfAll(r) == DefaultTenant

(* The key of an expansion. *)
DescKey(r) == KeyTenant(r)

(* Policies and grants are read from the scope's database, the expansion is not when *)
(* it is cached.                                                                     *)
Expand(r) ==
  /\ pc[r] = "expand" /\ Usable(OwnDb(r))
  /\ \/ /\ desc[DescKey(r)] # {}
        /\ fill' = [fill EXCEPT ![r].dbs = {OwnDb(r)} \cup desc[DescKey(r)]]
        /\ UNCHANGED desc
     \/ /\ desc' = [desc EXCEPT ![DescKey(r)] = {OwnDb(r)}]
        /\ fill' = [fill EXCEPT ![r].dbs = {OwnDb(r)}]
  /\ Goto(r, "put")
  /\ UNCHANGED <<decisions, mat, stmt, answer, wver, faults>> /\ UNCHANGED config
  /\ UNCHANGED dbVars /\ UNCHANGED processVars /\ UNCHANGED requestVars

PutDecision(r) ==
  /\ pc[r] = "put"
  /\ decisions' = [decisions EXCEPT ![DecideKey(r)] = fill[r].dbs]
  /\ answer' = [answer EXCEPT ![r] = fill[r].dbs]
  /\ Goto(r, "done")
  /\ UNCHANGED <<desc, mat, stmt, fill, wver, faults>> /\ UNCHANGED config
  /\ UNCHANGED dbVars /\ UNCHANGED processVars /\ UNCHANGED requestVars

(* The set of a principal, found or to be materialized; the lock is released. *)
DictPermitted(r) ==
  /\ pc[r] = "handle" /\ kind[r] = "permitted"
  /\ IF mat[scope[r]] # NoEntry
     THEN Goto(r, "done") /\ UNCHANGED fill
     ELSE Goto(r, "list") /\ fill' = [fill EXCEPT ![r].asked = ver[OwnDb(r)]]
  /\ UNCHANGED <<stmt, answer, wver, faults>> /\ UNCHANGED config
  /\ UNCHANGED dbVars /\ UNCHANGED processVars /\ UNCHANGED cacheVars /\ UNCHANGED requestVars

ListDimensionValues(r) ==
  /\ pc[r] = "list" /\ Usable(OwnDb(r))
  /\ fill' = [fill EXCEPT ![r].read = ver[OwnDb(r)]]
  /\ Goto(r, "insert")
  /\ UNCHANGED <<stmt, answer, wver, faults>> /\ UNCHANGED config
  /\ UNCHANGED dbVars /\ UNCHANGED processVars /\ UNCHANGED cacheVars /\ UNCHANGED requestVars

(* History: a set is raced when a write was committed while it was materialized. *)
Insert(r) ==
  /\ pc[r] = "insert"
  /\ mat' = [mat EXCEPT ![scope[r]] =
       [cached |-> TRUE, read |-> fill[r].read, raced |-> fill[r].asked # ver[OwnDb(r)]]]
  /\ Goto(r, "done")
  /\ UNCHANGED <<desc, decisions, stmt, fill, answer, wver, faults>> /\ UNCHANGED config
  /\ UNCHANGED dbVars /\ UNCHANGED processVars /\ UNCHANGED requestVars

(* With authentication a role of the configuration is asked for first. *)
RequireAdmin(r) ==
  /\ pc[r] = "handle" /\ kind[r] = "save"
  /\ \/ Goto(r, "commit")
     \/ ~ off /\ Goto(r, "refused")
  /\ UNCHANGED <<stmt, fill, answer, wver, faults>> /\ UNCHANGED config
  /\ UNCHANGED dbVars /\ UNCHANGED processVars /\ UNCHANGED cacheVars /\ UNCHANGED requestVars

Commit(r) ==
  /\ Usable(OwnDb(r))
  /\ ver' = [ver EXCEPT ![OwnDb(r)] = @ + 1]
  /\ wver' = [wver EXCEPT ![r] = ver[OwnDb(r)] + 1]

SaveDimensionValue(r) ==
  /\ pc[r] = "commit"
  /\ Commit(r)
  /\ Goto(r, "remove")
  /\ UNCHANGED <<up, made, stmt, fill, answer, faults>> /\ UNCHANGED config
  /\ UNCHANGED processVars /\ UNCHANGED cacheVars /\ UNCHANGED requestVars

(* Mutant: the sets are taken to be of the generation, like the caches of L1. *)
InvalidateNone(t) == UNCHANGED mat

(* invalidate: the sets under the tenant's name as it is spelled. *)
Invalidate(t) == mat' = [mat EXCEPT ![t] = NoEntry]

(* The sets of the dictionary, then bump_generation: L1 of every tenant. *)
RemoveFromCaches(r) ==
  /\ pc[r] = "remove"
  /\ Invalidate(scope[r])
  /\ desc' = NoDesc /\ decisions' = NoDecisions
  /\ Goto(r, "done")
  /\ UNCHANGED <<stmt, fill, answer, wver, faults>> /\ UNCHANGED config
  /\ UNCHANGED dbVars /\ UNCHANGED processVars /\ UNCHANGED requestVars

(* A store call fails, as it must when the table is missing; a write may have been *)
(* committed all the same.                                                          *)
StoreError(r) ==
  /\ pc[r] \in {"expand", "list", "commit"}
  /\ \/ UNCHANGED <<ver, wver>>
     \/ pc[r] = "commit" /\ Commit(r)
  /\ Goto(r, "failed")
  /\ UNCHANGED <<up, made, stmt, fill, answer, faults>> /\ UNCHANGED config
  /\ UNCHANGED processVars /\ UNCHANGED cacheVars /\ UNCHANGED requestVars

Handle(r) ==
  \/ Decide(r) \/ Expand(r) \/ PutDecision(r)
  \/ DictPermitted(r) \/ ListDimensionValues(r) \/ Insert(r)
  \/ RequireAdmin(r) \/ SaveDimensionValue(r) \/ RemoveFromCaches(r) \/ StoreError(r)

Serve(r) == CheckReady(r) \/ Prepare(r) \/ Handle(r)

Next ==
  \/ Boot \/ Crash
  \/ \E d \in Dbs : Outage(d) \/ Recovery(d)
  \/ \E r \in Requests : Authenticate(r) \/ Serve(r) \/ Abandon(r)

(* A request that has arrived is polled until it ends. *)
Fairness == \A r \in Requests : WF_vars(Serve(r))

Spec == Init /\ [][Next]_vars

FairSpec == Spec /\ Fairness

-----------------------------------------------------------------------------
(***************************************************************************)
(* tenancy.rs: once a tenant's database is in READY no request looks at it *)
(* again, so whatever is in READY has a pool and every table: however many *)
(* first requests raced, lost their statement to another, met an outage or *)
(* were dropped on the way.                                                *)
(***************************************************************************)
ReadyIsPrepared ==
  \A d \in ready : d \in registered /\ made[d] = Statements

Aligned(r) == Db(KeyTenant(r)) = OwnDb(r)

(***************************************************************************)
(* ddl.rs: the database is the tenant boundary.  A decision rests on data  *)
(* of its own scope's database alone, unless some request named its tenant *)
(* from the scope of another database: the caches of L1 go by the name the *)
(* subject gives, the database by the scope.                               *)
(***************************************************************************)
OwnDatabase ==
  \A r \in Requests :
    (\A q \in Requests : KeyTenant(q) = KeyTenant(r) => Aligned(q)) =>
      answer[r] \subseteq {OwnDb(r)}

(* Version v is of a write that has not removed the sets of t, or never will: it is not *)
(* finished, or was made under another name of the same database.                        *)
Outdates(w, t, v) ==
  /\ OwnDb(w) = Db(t) /\ wver[w] = v
  /\ scope[w] # t \/ pc[w] # "done"

(***************************************************************************)
(* Of what was written to its database, a set that was materialized while  *)
(* nothing was has everything that was finished under its own name,        *)
(* whatever else is under way, lost or written under another: each version *)
(* it lacks is of a write that has not removed it, not only the latest.    *)
(***************************************************************************)
FreshUnderItsName ==
  \A t \in Tenants : mat[t] # NoEntry /\ ~ mat[t].raced =>
    \A v \in (mat[t].read + 1)..ver[Db(t)] : \E w \in Requests : Outdates(w, t, v)

(***************************************************************************)
(* handlers.rs, save_dimension_value: a dictionary that changes changes    *)
(* the sets that have been materialized, whose cache is invalidated.  With *)
(* every write answered, no set lacks one of its database, whichever of    *)
(* the names of that database the write came under.                        *)
(***************************************************************************)
WritesRefreshTheirDatabase ==
  (\A w \in Requests : wver[w] # 0 => pc[w] = "done") =>
    \A t \in Tenants : mat[t] # NoEntry /\ ~ mat[t].raced => mat[t].read = ver[Db(t)]

(***************************************************************************)
(* Racing first requests make each other fail, and each that fails gives   *)
(* up.  All the same, when no more faults happen, a request that begins to *)
(* prepare a database that answers has it prepared: not all of them lose.  *)
(***************************************************************************)
PreparedAfterFaults ==
  \A r \in Requests :
    (pc[r] = "register" /\ faults = MaxFaults /\ up[OwnDb(r)]) ~> (OwnDb(r) \in ready)
=============================================================================
