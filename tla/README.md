# TLA+ models of the data authorization service

This directory specifies the service under `src/` (the crates `cmx-dataauth-core`,
`-store-pg`, `-app` and `-server`) in TLA+. The service decides, for a subject and a kind
of resource, which rows the subject may see: it turns policies, grants, dimension trees and
relation tuples into a constraint, which is compiled to SQL or Elasticsearch or applied to
rows in memory, and it adds mask obligations for columns. Decisions and their parts are
cached in the process, and configuration writes have to invalidate what is cached.

The modules are checked with TLC on small instances (`*.cfg`), and the central
properties of eight of them are proved with TLAPS for every instance. `PROJECT.json` is the
index: components, runs, mutations of the model that each property must catch, the source lines
of each definition, findings, hazards, and theorems.

    tlc -workers 2 -config DecideRace.cfg MCDecideEngine    # one run
    tlapm DecideEngineProofs.tla                            # one proof module

## 1. Inventory

Paths are below `src/crates/`.

| component | code | state it keeps | operations | modelled in |
|---|---|---|---|---|
| Decision engine and L1 caches | `cmx-dataauth-app/src/engine.rs`, `cache.rs` | a generation counter `GEN`, a map of decisions, a map of expansions, both with TTLs | `decide`, `compile`, `enforce`; `bump_generation` by every write handler | DecideEngine (caches), Pdp and Enforcement (content) |
| L3 permitted sets | `cmx-dataauth-app/src/matcache.rs`, `handlers.rs` | a map from tenant, dictionary and principal to a set, no TTL | `permitted_entries`, `invalidate`, the handlers of grants and dimension values, `dict_refresh` | MatCache |
| Dimension expander | `cmx-dataauth-store-pg/src/expander.rs` | the dimension rows | `descendants` (a recursive query), upserts | Expander, refines Closure |
| Relation lookup | `cmx-dataauth-store-pg/src/store.rs` | the relation tuples | `lookup_resources` (a recursive query), `save_tuple`, `delete_tuple` | Usersets, refines Closure |
| Constraint AST and PDP | `cmx-dataauth-core/src/ir.rs`, `pdp.rs` | none: functions | `and`, `or`, `not`, `subst`, `compose`, `resolve_relations` | Constraint, Pdp |
| Compiler back ends | `cmx-dataauth-core/src/compiler.rs` | none | SQL, Elasticsearch, row filter | Backends |
| Masks | `cmx-dataauth-core/src/mask.rs` | none | `apply_masks`, `mask_value`, `partial` | Mask, Backends |
| Policy sources | `cmx-dataauth-app/src/policy_source.rs` | none | `resolve_policy` | Pdp |
| PEP middleware | `cmx-dataauth-app/src/pep.rs` | none | `guard`, the two demonstration routes | Enforcement |
| Tenancy | `cmx-dataauth-app/src/tenancy.rs`, `tenant.rs` | `READY`, the databases already prepared; the pools; the task-local scope of each request | `ensure_current_ready`, `current_db_id` | Tenancy |
| Authentication, admin gate | `cmx-dataauth-app/src/auth.rs` | none | `auth`, `decode_claims`, `require_admin` | Tenancy (the outcomes, not how a token is verified) |
| Server | `cmx-dataauth-server/src/main.rs` | none | start-up hooks, the router | Tenancy (the start and the authenticated part) |
| Governance | `cmx-dataauth-app/src/handlers.rs` | none | `explain`, `policy_overlap`; listings, statistics, pruning | Enforcement (the first two) |
| Store CRUD, audit | `cmx-dataauth-store-pg/src/store.rs`, `ddl.rs` | the tables | one statement an operation; `ensure_schema` | as steps of the other modules |
| RLS generator, console, dashboard, OpenAPI | the rest | none | generated text and static pages | not modelled |

How they interact. A request runs on a multi-threaded runtime and awaits the store several
times: policies, grants, one expansion for each inherited root, one lookup for each
relation, mask rules. Nothing holds a lock over these awaits, and no transaction spans them. A
write handler awaits one statement, then bumps the generation and clears the two L1 maps
(three separate operations), removes keys of the L3 map, and logs the change. The process
may stop anywhere. Other instances of the service share the database and no cache.

What is hard about it:

* fills that race invalidations, in a cache with generations (L1) and in one with neither
  generations nor TTL (L3);
* two caches in a row, whose TTLs add up;
* a handler that computes the keys to remove from what it was given, while the row it
  changes decides which keys are concerned;
* recursive queries over data that may have cycles;
* a template that is filled in, flattened, negated and simplified, then has its relations
  replaced by lists and is simplified again, and is at last evaluated by three back ends;
* failing closed, where "closed" is the opposite for a permit and for a deny;
* databases prepared lazily, by whichever request comes first, with other first requests,
  outages, restarts and clients that go away in between, and every failure only logged;
* caches keyed by a tenant's name in front of databases chosen by another rule: L1 takes the
  name from the subject of the body, L3 from the scope as it is spelled, and the database goes by
  the scope in lower case, or is one for all.

What makes each component correct:

* L1 caches: no lookup hits an entry from before a bump it should know of
  (`HitSeesAnnounced`); for each source, an answer that misses an announced change has it from a
  fill that was in progress across the change (`StaleOnlyByOverlap`); every answer's age is bounded
  (`BoundedStaleness`).
* L3 cache: a write that was answered shows in later answers made from the keys it names,
  save for a fill that straddled it (`AnsweredWritesShow`).
* expander and lookup: the answer is the closure over one snapshot (`AnswersTheSubtree`,
  `UsersetsAreTheClosure`, `LookupIsExact`), and the query ends (`EndsUnlessOnCycle`,
  `LookupEnds`).
* PDP, back ends, masks: what is let through is what the policies say, read as they were
  written (`EnforcedExactly`), on the guarded routes too, through SQL and with the handler's
  own parameter behind the scope's (`GuardedExactly`), all back ends agree (`BackendsAgree`), nothing masked is
  shown (`NothingInClear`), and what is reported of a decision or of a set of policies is so
  (`DiagnosesHold`).
* tenancy: what counts as ready is prepared (`ReadyIsPrepared`), a preparation ends well once
  faults do (`PreparedAfterFaults`), a decision has another database's data only where
  some request named its tenant from there (`OwnDatabase`), and a materialized set lacks no
  finished write of its own name (`FreshUnderItsName`).

## 2. Modules

    Closure  <-refines-  Expander -> Dimension    DecideEngine       MatCache
       ^------refines--- Usersets                 (L1, versions)     (L3, versions)

    Constraint <- Pdp, Backends <- Enforcement  (what a decision says and does)
        Mask <- Backends                        (what a mask shows)

    Tenancy  (the process, its databases, and L1 and L3 by tenant)

The caching modules and the content modules split the system along one line. For caching it
does not matter what a decision says, only what it was computed from, so DecideEngine and
MatCache reduce the store to versions. For the content it does not matter which cache it came
from, so Enforcement runs one request at a time over full tables. Closure is what both sides
take from the recursive queries. Both have one tenant; Tenancy has several, and composes what
the caches of L1 and L3 and one write handler do across them, with less detail in each.

### DecideEngine (`engine.rs`, `cache.rs`, `handlers.rs`)

A *source* is what one store call reads: the policies, the grants, the mask rules, the
subtree under one root, the tuples of one relation. `db` maps it to a version that each
change increments; `basis[r]` is the version request `r` has read of each. `gen` is `GEN`,
`decideCache` and `descCache` are the two maps (entries carry `at` and `gen` as in the
code), `now` stands for `Instant::now()`. `announced`, `floor`, `mark`, `since`, `kept`,
`asked`, `upto`, `oldest` and `start` are history variables: no guard except `Tick`'s (on `start`) reads
them. A part of a decision carries its own history: what was announced when it was read from the store
(`since`), what was committed when the expansion it came from was put into `DESC`, if it came from there
(`kept`), and what was announced when the request that used it asked for it (`asked`). Entries of both
caches keep it, so that a hit takes over the history of what it hits.

| action | code |
|---|---|
| `Arrive`, `DecideHit`, `DecideMiss` | `decide_get`: `GEN` loaded first, then the lookup under the lock |
| `LoadPolicies`, `LoadGrants`, `ListMaskRules`, `LookupResources` | the store calls of `decide` |
| `NextRoot`, `DescHit`, `DescMiss`, `Descend`, `DescPut` | the loop over inherited roots in `decide`: `desc_get`, `descendants`, `desc_put` |
| `Compose`, `Conclude`, `DecidePut`, `WriteAudit`, `StoreError` | the rest of `decide`; an error of any store call but the audit ends it |
| `Commit`, `AdvanceGeneration`, `ClearDecide`, `ClearDesc`, `RecordChange` | a write handler and `bump_generation`'s three operations |
| `CommitUnannounced` | a commit that this process does not announce: reported as an error, handler dropped, another instance, a validity window |
| `Crash`, `Tick` | a restart; time |

Each await and each separate atomic or locked operation is a step. Entries are stamped with
the generation of the moment they are put, as `decide_put` and `desc_put` do.

### MatCache (`matcache.rs`, `handlers.rs`)

Grant rows (`rows`, `holder`, `dim`) are explicit, because it is the row that decides which
key a handler removes; the contents of a dictionary and of the grants of a key are versions.
A request takes its principals one after another (`NextPrincipal`), hits (`Hit`) or misses
(`Miss`, `ListDimensionValues`, `LoadGrants`, `Descend`, `Materialized`) and inserts
(`Insert`) without asking whether the key was removed meanwhile. The writes are
`SaveGrant`, `GetGrant` then `DeleteGrant`, `SaveDimensionValue`, each followed by
`InvalidateKeys` and `InvalidateSuper`; `WriteError` is a statement that fails, whether or not it
committed; `DictRefresh` is the manual refresh and `WindowTurns` a validity window that turns
with no handler running.

### Closure, Expander, Usersets (`expander.rs`, `store.rs`)

Closure is the promise of both recursive queries: the nodes reachable, over the edges of one
snapshot, from the node asked for. It defines reachability as "in every closed set", with
no recursion, so that it can be used in proofs. Expander and Usersets evaluate
`WITH RECURSIVE` as PostgreSQL does, round by round: with `UNION ALL` (Expander) the next
round starts from all children of the last one, with `UNION` (Usersets) from those not
found before. Dimension has the rows of one dimension, their children and their edges, without state. `rows` and
`tuples` change meanwhile; a query sees the snapshot it began with. The two queries share no table,
and MCQueries explores each with the other at rest.
The refinement maps rows to edges, the state of a query to Closure's phases, and the
snapshot to Closure's view; rounds are stuttering steps.

### Constraint, Pdp, Mask, Backends, Enforcement (`ir.rs`, `pdp.rs`, `compiler.rs`, `mask.rs`, `engine.rs`, `pep.rs`)

Constraint has the tree with its smart constructors. A JSON value keeps what the back ends tell
apart: its type, the place of its text in the order of texts, the number its text can be
read as. Templates nest at most `Depth` deep, for any `Depth`; a decision nests three deeper and
a handler's statement one more, which makes `Trees` the domain of every walk over a tree. A walk is a
recursive function on `Trees`, and each shape is written once: `Rebuild` copies a tree through
the smart constructors and replaces its atoms (`subst`, `resolve_relations`), `Holds`
evaluates one when it is known which atoms pass (`build_pred`, the Elasticsearch query, and the
reference `Says`), `LeavesOf` collects what is at the bottom. Pdp computes a decision from the tables: `Instantiate`, `Compose`,
`ResolveRelations`, `EffectOf`, `Obligations` follow the functions of the same names.
Backends has the row filter (`Keeps`), the SQL emitter (`Emit`, with placeholders and
parameters) with PostgreSQL's three-valued logic (`PgEval`), Elasticsearch
(`EsMatches`) and the masks. Of a masked text they keep the length and the positions
where the value can still be read, so that a column masked by two rules shows what both leave. Mask
has the arithmetic of `partial` alone, in which a sum or a difference wraps as it does in a release
build; a slice that then starts or ends outside the text is a panic, and the request of
`Enforce` is refused, with no rows. Enforcement is the state machine over the tables, one action a
handler; a response is a state, so that the invariants speak of what callers receive.
`Scopes` is what the guard hands
on, its obligations included, which the handlers behind it only report; `DemoVouchers` and `DemoDeleteVoucher` build their statement from the scope as the handlers
do, the handler's own parameter appended after the scope's (`ByKey`). The invariants compare responses with
`Says`, which reads a template as it was written and knows nothing of filling in,
flattening, negating, joining or compiling. A policy is saved with its validity window open or
not; one that closes later is the same as one saved again. `Explain` gives a decision with what the
code concludes from its trace, and `PolicyOverlap` judges one page (`Listed`, 500 in the code) of
all policies, open or not, and compares the saved template (`tpl`) alone with True, whatever the source,
where `LoadPolicies` reads the open ones of a kind and action and `ResolvePolicy` replaces a decision table
by what it gives (`gives`).

### Tenancy (`auth.rs`, `tenancy.rs`, `tenant.rs`, `main.rs`, with `engine.rs`, `cache.rs`, `matcache.rs`)

`off` and `multi` are the two configuration values that matter, fixed in the initial state.
For each database `made` counts the objects of `DDL_STATEMENTS` that exist, `up` says whether it
answers, and `ver` counts the writes of its dictionary. `registered` and `ready` are the pools and
`READY`. The caches are keyed by names (`desc`, `decisions`, `mat`); what L1 keeps is abstracted to
the databases it was read from, what L3 keeps to a version. `answer`, `wver` and the `asked` and
`raced` fields are history: no guard reads them.

| action | code |
|---|---|
| `Boot`, `Crash` | the start-up hooks of `main.rs`, which register and prepare the configured database or end the process; a restart loses `READY`, the pools and the caches |
| `Outage`, `Recovery`, `Abandon` | a database stops answering and answers again; a client goes away and its request is dropped where it waits |
| `Authenticate` | `auth`: off, an API key, a token, or refused; then the scope (`Enter`) |
| `CheckReady`, `Register`, `LookForObject`, `CreateObject`, `MarkReady` | `ensure_current_ready` and `ensure_schema`; `IF NOT EXISTS` looks before it creates, and fails when another session has created in between; `GiveUp` is its early return |
| `Decide`, `Expand`, `PutDecision` | `decide` through `decide_get`, `desc_get`, `desc_put`, `decide_put` |
| `DictPermitted`, `ListDimensionValues`, `Insert` | `dict_permitted` and `get_or_materialize` |
| `RequireAdmin`, `SaveDimensionValue`, `RemoveFromCaches` | `require_admin`, then `save_dimension_value` with `invalidate` and `bump_generation` |
| `StoreError` | a store call that fails, the write committed or not |

Names and databases are kept apart by `DbOf`: `acme` and `Acme` are two names of one database, as
`to_lowercase` makes them, and a tenant called `pg` has the database of the configuration,
`dataauth_pg`. `Db` is `current_db_id`, `KeyTenant` the tenant `decide` caches under.

## 3. Runs

| run | instance | shows |
|---|---|---|
| DecideRace | 3 requests, 1 key, 1 root, 1 relation, TTLs 2; 2 in flight and 1 write with the clock still, or one at a time with the clock to 5 and 1 restart | the generation protocol (`HitSeesAnnounced`, `StaleOnlyByOverlap`) and `BoundedStaleness` |
| FreshAfterWrites | 2 requests, 1 write | *violated*: see finding 1 |
| MatRace | 2 requests; any 2 of 1 save, 1 delete, 1 dimension upsert, 1 refresh and 1 window turn | `AnsweredWritesShow` for every write |
| ReassignedGrant | 1 request, 1 save, 2 principals | *violated*: finding 2 |
| Queries | every forest and cycle of 3 rows, 1 query, 1 upsert; or 1 user, 2 groups in a cycle, 1 object, 3 tuples, 1 query, 1 write | `AnswersTheSubtree`, `EndsUnlessOnCycle`; `LookupIsExact`, `UsersetsAreTheClosure`, `LookupEnds` |
| ExpandCycle | the rows of Queries | *violated*: finding 3 |
| Enforce | 3 policy ids, 1 grant, 1 tuple, 2 mask rules, 3 subjects, 4 rows, templates 3 deep | `EnforcedExactly`, `GuardedExactly`, `NothingInClear`, `BackendsAgree`, `DiagnosesHold` |
| BackendsDiffer | 1 policy, 3 rows with a null, a missing column and a number written in two ways | *violated*: finding 4 |
| FailOpen | a permit of everything, a deny whose table fails | *violated*: finding 5 |
| Overlap | a closed deny, a deny saved as a decision table, a permit; a page of 2 | *violated*: finding 6 |
| Tenancy | 3 names of 2 databases, one of them that of the configuration, 2 requests, 2 DDL statements, 1 fault, every mode | `ReadyIsPrepared`, `OwnDatabase`, `FreshUnderItsName`, `PreparedAfterFaults` |
| OtherName | the same without faults | *violated*: finding 7 |

Every property of a passing run has a mutation of the model (`mutants` in PROJECT.json) under
which TLC finds it violated. The type invariants of DecideEngine, MatCache, Enforcement and
Tenancy are part of a run; those of Expander and Usersets are part of their proofs.

### Bounds, and why they are enough

* *DecideRace.* The constraint `RaceOrAge` joins two instances. A stale hit takes a filler, a
  writer and a reader: two requests in flight and a third that arrives after them give every order
  of fill, bump and lookup on one key and one root, while the clock stands still, since a TTL can
  only remove entries, and no relation is looked up, since a lookup behaves as the other store calls
  do. An answer is oldest when one request caches an expansion, a second caches a decision made from
  it and a third hits that decision, each as late as it may: with TTLs 2 and `MaxDur` 1 that
  needs requests one after the other and a clock up to 5, and no write, since age does not depend
  on what changed. `MaxDur` stands for the time-out every deployment puts on a request; the bound it
  enters into is stated for any value of it.
* *MatRace.* A straddling fill takes one write and one request, and a second request hears of
  the write and is served the entry. `FewEvents` keeps to two events among the writes, the refresh
  and the window: two writes that overlap, and each of them with each of the others. One grant can
  be inserted, moved to no dimension, or be named when it does not exist; that it moves
  between principals is ReassignedGrant's subject.
* *Queries.* Three rows have every shape that differs: chains, branches, a cycle
  through the root, above it and beside it, a parent that has no row, and an upsert that
  changes one into another under the query. Two groups that are members of each other are the
  smallest cycle of distinct groups.
* *Enforce.* Each policy id has a few candidates, chosen so that two permits, two denies, and
  permits with denies meet; so that templates nest conjunctions, disjunctions and negations
  around dimensions, relations, `$user`, ranges and `LIKE`; so that one names a field that SQL is not
  allowed; and so that some are broken. Priorities follow the ids, since nothing
  but the order depends on them. One grant slot suffices to give, move and
  revoke a dimension, and two mask ids, each with two candidates, for rules that meet on a column: one hides
  it or keeps a part, the other replaces the whole or keeps lengths whose sum wraps. The column
  has values of 7 and of 11 characters (`LengthOf`): a mask of 3 and 4 hides the whole of the first and
  4 of the second. `Word = 32` lets the lengths 31 and 3 add up to 2. Rows
  have no null, no missing column and no two texts of one number: with those the back ends
  differ (finding 4), and the run shows that they do not without. Templates name physical
  columns, since the row filter applies no bindings: its rows come keyed as the template is. The page
  holds all three policies, no closed deny is a constant True and no table is saved as one, so that what
  `policy_overlap` reports is so (Overlap has the three cases in which it is not). `Depth = 3` is the nesting of the deepest template;
  `Depth` appears in no action, only in the domain of the walks.
* *Tenancy.* Two requests suffice for a preparation that loses its statement to another, for a
  fill under one name that is hit under another, and for a write under one name that leaves
  the set of another name of the database; two statements, the first of which makes the table the handlers read, for
  a preparation that stops half way with the handler working nevertheless. One fault is a crash, an
  outage or a request that goes away, at any step.
* Symmetry and `VIEW` are used only for runs of invariants. `LiveView` drops locals that no
  later step and no property reads.
* Deadlock is not checked where every call is made at most once and the system then rests;
  Enforcement never rests, and its deadlock is checked.

### Fairness

Liveness is stated of the recursive queries and of the preparation of databases. Expander and
Usersets assume weak fairness of the next round or the end of a query that has begun: PostgreSQL
goes on with a query it evaluates, and nothing in the service cancels one. Tenancy assumes weak
fairness of `Serve(r)` for each request: the runtime polls a request that has been accepted, and a
statement returns, with a result or with an error. No fairness is assumed of arrivals, of the
start or of a recovery, and faults are not assumed to stop: `PreparedAfterFaults` speaks of
behaviours in which as many have happened as `MaxFaults` allows, of databases that answer, and of
requests that have come as far as `register`. DecideEngine, MatCache and Enforcement assume no
fairness, and nothing of them rests on it.

## 4. Proofs

| theorem (module) | states | by |
|---|---|---|
| `TypeCorrect` (DecideEngineProofs) | `TypeOK`: one entry a key, and every variable in its domain | itself, inductive |
| `NoHitBehindTheGeneration` | `HitSeesAnnounced` | `GenerationInv` |
| `OnlyOverlappingFillsAreStale` | `StaleOnlyByOverlap`, source by source | `GenerationInv` |
| `StalenessIsBounded` | `BoundedStaleness` | `AgeInv` |
| `TypeCorrect` (MatCacheProofs) | `TypeOK` | itself, inductive |
| `AnsweredWritesAreServed` | `AnsweredWritesShow` | `StraddleInv` |
| `PartialShowsWhatIsKept` (BackendsProofs) | a partial mask shows what its pattern keeps, or nothing | cases on the two places that can wrap |
| `PartialHidesSome` | and hides a character of every text but the empty one | the former |
| `AnswersAreSubtrees` (ExpanderProofs) | `Spec => C!Spec`, Expander implements Closure | `ClosureInv` |
| `LookupsAreExact` (UsersetsProofs) | `LookupIsExact` | `UsersetInv` |
| `UsersetsImplementClosure` | `Spec => C!Spec`, Usersets implements Closure | `UsersetInv` |
| `TypeCorrect` (TenancyProofs) | `TypeOK` | itself, inductive |
| `ReadyPrepared` | `ReadyIsPrepared` | `PrepareInv` |
| `OwnDatabaseHolds` | `OwnDatabase` | `OwnInv` |
| `FreshUnderItsNameHolds` | `FreshUnderItsName` | `FreshInv` |
| `TypesHold` (EnforcementProofs) | `TypeOK`, with the normal form of every decision | `Stored`, `Answering` |
| `RowsEnforced` | `EnforcedExactly` | `Stored`, `ComposedIs`, `DecisionKeeps` |
| `NothingLeaks` | `NothingInClear` | `Stored`, `MasksCover` |
| `DiagnosesAreSound` | `DiagnosesHold` where `OverlapSeesAll` | `Stored`, `UnmatchedGivesNothing`, `RefusingRefuses` |
| `SqlSays` | of a normal tree whose tests are comparable, SQL says what the row filter says | induction over trees |
| `BackendsLetTheSameThrough` | `BackendsAgree` where `CompilesComparable` | `SqlSays`, `ComparableSame` |
| `GuardsShowWhatIsGiven` | `GuardedExactly` where `GuardsComparable` | `SqlSays`, `RowsEnforced`'s lemmas, `KeyFinds` |

The assumptions are those the modules declare: the bounds are natural numbers
(`BoundsAssumption`), the kinds of sources, of calls and of objects are disjoint (`SourcesAssumption`,
`WritesAssumption`, `TuplesAssumption`), and the values that stand for "none" are no real ones
(`PrincipalsAssumption`, `NoValueAssumption`); of the tenants, that each name has one database, which may
be the configured one (`TenantsAssumption`, `StatementsAssumption`); and that the width of the machine's numbers is not zero
(`WordAssumption`). Of what can be saved and asked for, Enforcement assumes types: policies with templates
nested at most `Depth` deep, each in its own place of the order (`PoliciesAssumption`), grants whose
dimension values have finitely many descendants (`GrantsAssumption`), subjects, tuples, mask rules and
columns of their types (`SubjectsAssumption`, `MaskRulesAssumption`, `ResourcesAssumption`); and of a row
that it has a key, which is not null, and that each text in it fills less than half of what an
address reaches (`RowsAssumption`), as Rust guarantees of every allocation (the two theorems about
`Partial` name that as a hypothesis). Nothing is assumed of the number of requests, writes, keys, policies,
grants, rows, columns or tuples, of what a template says, or of the order of the mask rules.

Why the invariants are what they are:

* `GenerationInv`. `HitSeesAnnounced` speaks of lookups that have loaded the generation.
  To survive a put it needs that *every* entry with the current generation was put after all that has
  been announced (`DecideCacheInv`, `DescCacheInv`), and to survive a bump that no
  lookup has loaded a generation ahead of `gen` (`LookupInv`). That the maps are cleared later, in two
  more steps, plays no part: the clearing frees memory, and it is the generation that
  invalidates. `StaleOnlyByOverlap` adds, of each part of a decision by itself (`SoundFact`), that it is no
  older than what was announced when it was read from the store, and that it is no older than what was
  announced when it was asked for, unless it came from an expansion that was put into `DESC` after that.
  What a cached expansion or decision was made from wholly before a change therefore never reaches an
  answer: with a `desc_get` that ignores generations TLC finds one that does.
* `AgeInv`. An expansion is at most `MaxDur` old when it is put, hence at most
  `DescTTL - 1 + MaxDur` old when it is hit, and the decision made from it adds its own
  request and TTL. A TTL of 0 switches a cache off, hence `Reach`.
* `StraddleInv`. The cached value of each key was put after all that was removed of it before
  (`VersionsInv`); what is read is no older than what had been removed when it was asked
  for (`FillInv`); an answer has only such parts (`AnswerInv`); and what a write owes is in
  the store, and is removed once the write has gone on (`DueInv`).
* `ClosureInv`, `UsersetInv`. What has been found is reachable, and a successor of anything
  but the last round's nodes has been found. With an empty last round the found set is
  closed, and so is all that is reachable.
* `PrepareInv`. That `READY` is right rests on the way there: a preparation that is about to
  execute statement `n` has its pool and every object before `n`, whoever made them
  (`PreparingInv`), and a process that does not serve has no pool, nothing in `READY` and no request
  under way. `PoolsAndObjectsStay` says that no step but a crash takes anything back.
* `OwnInv`. A name is clean when no request uses it from the scope of another database. What is
  cached under a clean name, and what a request is about to cache there, was read from that name's
  database. No step makes a name clean again (`StaysUnclean`), so that an entry need not remember who
  put it there.
* `FreshInv`. Each version that is ahead of a set, and not only the latest, was written by a request that
  has yet to remove the set, has failed, was lost, or has another name; a fill knows a version between the
  one it began with and the present one.

* `Stored`. The tables hold what was saved, as sequences and functions of their types, and finitely
  many tuples. This is all that is inductive of Enforcement: a response is made in one step from the
  tables and kept until `Receive`, while no handler that writes can run, so that each invariant is shown of
  a response at the step that makes it, and stays because the tables do (`DecidedStays`, `GivenStays`).
  What is hard is what one step computes, and that is a matter of trees.

### Proofs over trees

ConstraintProofs derives induction from what the provers can use: a set of numbers that holds 0 and with
each number the next is `Nat` (`SetInduction`, from the well-foundedness of `<`), and a set of trees that
holds the leaves and what is built of its members holds all trees (`TreeInduction`). Both take a set
where the library's theorems take an operator, which no prover at hand instantiates. A
recursive function is a `CHOOSE`, of which nothing is known until one is shown to exist:
`TreeRecursion` does so for any function a tree's value of which is made of its children's, and keeps
track of how deep the values nest. From it follow the equations of `Holds`, `Rebuild`, `LeavesOf`, `Normal`,
`Emit` and `PgEval`, which are all that the rest uses of their definitions. Then:

* *The smart constructors keep the meaning.* Flattening, dropping and collapsing constants, unwrapping
  and undoing a double negation change no row (`JoinedHolds`, `NotHolds`), hence a rebuilt tree says what
  the tree says with each atom read as what became of it (`RebuiltHolds`), and is in normal form
  (`NormalRebuilt`).
* *A decision says what the policies say.* A template filled in says of a row what `Says` reads in the
  template as written (`InstantiateSays`); those of one effect, open and matching, are the permits and
  the denies (`PartsSay`); with the relations looked up and rebuilt again, the decision keeps a row exactly if it
  is `Given` (`ComposedIs`, `DecisionKeeps`).
* *Masks only add.* A column that one obligation covers stays covered whatever is applied after it
  (`MasksCover`): the positions shown are intersected, a hidden column does not come back, and `Partial`
  shows what its pattern keeps or ends the request.
* *Placeholders stay in step.* `Join` and `Emit` give the parameters of an item the places behind those of
  the items before it. `SqlSays` is stated for any place to begin at and any parameters around the tree's
  own, since that is what the induction needs of a part, and what `DemoDeleteVoucher` needs of the whole.
  Three-valued logic adds that a comparable test is never unknown (`ComparableAgree`); under a
  negation, unknown would not be false, which is half of finding 4.

`OverlapSeesAll` is the condition under which `DiagnosesHold` is proved of `policy_overlap`: the page has
every policy that is saved, and each deny it finds to refuse all is open and is no decision table. The handler
tests none of this, and Overlap violates `DiagnosesHold` (finding 6). Of `explain` the theorem assumes
nothing.

`CompilesComparable` and `GuardsComparable` are the conditions under which `BackendsAgree` and
`GuardedExactly` are proved: each test names a column that the row has under its logical and its
physical name, with one value, and that value and those it is compared with are texts or numbers that are
read alike (`Alike`). They are not idle: BackendsDiffer, whose rows have a null, a missing
column and a number written in two ways, violates `BackendsAgree` (finding 4). All states of the Enforce instance fulfil both
conditions, which is why the run checks the properties without them: with
`CompilesComparable` and `GuardsComparable` added to the INVARIANTS of `Enforce.cfg`, the run passes.

### Only model-checked

* Liveness (`EndsUnlessOnCycle`, `LookupEnds`, `PreparedAfterFaults`), which needs ENABLED.
* The findings: each is one behaviour, which TLC exhibits.

## 5. Findings

1. *A fill can outlive the write that should end it* (`FreshAfterWrites`). `decide_put`
   stamps an entry with the generation of the moment it is put, not of the moment its data was
   read. README.md and `cache.rs` say that a write is visible at once and that nothing stale is let
   through. What does hold is `StaleOnlyByOverlap` with `BoundedStaleness`: only such a
   fill is stale, and for no longer than the TTLs.
2. *Moving a grant leaves the old principal's set* (`WritesRefreshTheirKeys`).
   `save_grant` removes the new key only, and sets have no TTL. README.md says that reassigning refreshes.
3. *A value that is its own ancestor keeps the expander's query from ending*
   (`AlwaysEnds`). The upsert accepts one, and the query uses `UNION ALL`.
4. *Back ends differ on nulls, missing columns and numerals that write one number in two
   ways* (`BackendsAgree`), which
   `engine.rs` says they do not.
5. *A deny policy whose decision table fails denies nothing* (`FailsClosed`), where
   `policy_source.rs` says that the fallback refuses.
6. *The overlap report says that all is refused where `decide` lets rows through* (`DiagnosesHold`).
   `policy_overlap` takes a deny saved as True for one that refuses all, also when its validity window
   is closed, and when it is the body of a decision table, which `resolve_policy` then makes False; and it
   concludes from one page of 500 policies that there is no permit. Each of the three alone violates the property.
7. *A write under one name of a database leaves the materialized sets of the others*
   (`WritesRefreshTheirDatabase`). `invalidate` compares the tenant as it is spelled; the database is that of
   the name in lower case, or in single mode the same for all. What does hold is `FreshUnderItsName`.

The details, with the lines quoted, are in PROJECT.json. Two more things do not agree with a comment and
have no run of their own:

* `tenancy.rs:1` speaks of physical isolation by database and `ddl.rs:4` of the database as the tenant
  boundary. `decide` takes the tenant of its cache keys from the subject in the body (`engine.rs:43`) and the
  store from the scope of the request. A body that names another tenant than its scope fills that tenant's keys
  from its own database, and a later decision made for that tenant is served from there. `OwnDatabase` and its
  proof say that nothing else breaks the boundary; without its hypothesis TLC finds such an answer
  in the Tenancy instance.
* `explain` takes an empty list of matched policies for a refusal (`handlers.rs:542`). A superadmin's is empty
  because no policy was looked at, so that a decision which permits all is explained with "无匹配策略 → fail-closed
  拒绝" beside the note that all is permitted. `DiagnosesHold` is about other subjects.

## 6. Assumptions, and what is not modelled

* `GEN` is accessed with `Relaxed` ordering; the models take it as sequentially consistent.
  The counter is a `u64` and its wrap is ignored. So are collisions of the hash in
  `decide_key`.
* A recursive query sees one snapshot (PostgreSQL's rule for a statement). PostgreSQL,
  Elasticsearch and the rules engine are modelled as far as the code relies on them.
* `LIKE` is a constant relation, the pattern of a mask is the pair of lengths read from it (`parse_keep`
  and its default of 3 and 4), and of a hash token only its length and that it shows nothing are
  kept: matching, parsing and hashing character by character are left to unit tests.
* DecideEngine, MatCache and Enforcement have one tenant; several are in Tenancy, whose caches
  have no generations and no TTLs but may miss at any time, and which has one dimension root, one
  dictionary and one principal a tenant.
* Tenancy takes it that registering a database that has a pool replaces the pool
  (`register_pg_datasources` is not part of the repository), that a database which answers executes
  its statements, that every DDL statement may lose the race `CREATE ... IF NOT EXISTS` can lose, and that
  nobody drops a tenant's tables while the process runs. That an API key or a token is valid is a
  free choice, and so is whether a role is one of `auth.admin_roles`; an `auth.mode` other than
  off behaves as jwt does, with one outcome fewer (`auth.rs:123`).
* A superadmin is one role here. The code has four (`pdp.rs:19`), of which `SUPERADMIN` and `ADMIN` are not
  among the default `auth.admin_roles`, although `auth.rs:187` says that these include every
  superadmin role; role names are data to the models.
* `policy.enabled` is read by the store and set by no handler, so no policy is disabled here.
* Audit contents, the expanded dimensions of a trace, the listings but that of policies,
  statistics, pruning, `policy_overlap`'s report of duplicates, the console, the OpenAPI text and
  the RLS generator change no state a decision rests on. Each is one statement or one text, with
  nothing to interleave.

## 7. Plan

Done, in this order: the L1 cache protocol and its proofs; the L3 cache and its proofs; the two
recursive queries with the abstract Closure and the refinement proofs; the decision's
content, its back ends and the guarded routes; then the tenants, with authentication, the start of the process and the proofs about
them; explanation and overlap; the arithmetic of masks.

Left:

1. **Subjects of the middleware**: organisations and posts are missing from them
   (`pep.rs:99`), so that the same caller gets different rows on a guarded route and from enforce.
   `EnforcedExactly` states what the middleware's own subject gets; a comparison of the two needs
   a statement of what the route promises.
2. **Composition of L1 and L3 writes** in full detail: Tenancy removes the L3 keys and L1 in one
   step, DecideEngine has the three operations of `bump_generation` apart, MatCache those of
   `invalidate_for_grant`.
3. **Audit**: the decision that is returned is the one that is logged, hits included; pruning.
4. **More proofs**: an abstract specification of an L1 cache that DecideEngine implements; for MatCache,
   that a set is current when no write is in progress, no grant was moved and no fill straddled a write;
   the converse of `SqlSays`, that two back ends differ only where a test is not comparable, test by test.
