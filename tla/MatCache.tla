------------------------------ MODULE MatCache ------------------------------
(***************************************************************************)
(* The cache of materialized permitted sets (matcache.rs): per dictionary  *)
(* and principal, the dictionary entries the principal's grants give it.   *)
(* An entry has no TTL and no generation: it stays until a handler removes *)
(* its key.  Modelled with the handlers that remove keys (handlers.rs),    *)
(* and with the grant rows, since it is the row that decides which key a   *)
(* handler removes.                                                        *)
(*                                                                         *)
(* The grants of one key and the entries of one dictionary are versions    *)
(* that each change increments.  What is materialized is what was read:    *)
(* the version of the dictionary and the version of the key's grants.      *)
(***************************************************************************)
EXTENDS Integers, FiniteSets

CONSTANTS
  GrantIds,    \* ids of grant rows
  Principals,  \* users, roles, organisations and posts: subject type and id
  Super,       \* the principal ("SUPER", "*") superadmins are served from
  Dicts,       \* dictionaries, that is dimension keys
  NoDict,      \* the dimension key of a grant without one
  Requests,    \* calls of dict_permitted, each made at most once
  Saves,       \* calls of save_grant, each made at most once
  Deletes,     \* calls of delete_grant, each made at most once
  DictSaves,   \* calls of save_dimension_value, each made at most once
  Refreshes,   \* calls of dict_refresh, each made at most once
  MaxTurns     \* bound on validity windows that open or close

ASSUME PrincipalsAssumption == Super \notin Principals /\ NoDict \notin Dicts

ASSUME WritesAssumption ==
  /\ Saves \cap Deletes = {} /\ Saves \cap DictSaves = {} /\ Deletes \cap DictSaves = {}
  /\ MaxTurns \in Nat

Writes == Saves \cup Deletes \cup DictSaves

Key == [who : Principals \cup {Super}, dict : Dicts]

NoEntry == [cached |-> FALSE]

VARIABLES
  rows,     \* whether a grant row is still to be inserted, is there, or was deleted
  holder,   \* the subject of each row
  dim,      \* its dimension key
  dictVer,  \* version of each dictionary
  grantVer, \* version of the grants of each key
  cache,    \* CACHE
  seen,     \* history: what had been committed when each key was last removed
  turns,
  pc,       \* where each request is
  dict,     \* the dictionary it asks for
  left,     \* the principals it has still to serve
  who,      \* the principal it is serving
  fill,     \* what it has read to materialize that principal's set
  todo,     \* the grants it has still to expand
  answer,   \* history: what its answer is made of
  heard,    \* history: the writes answered before it arrived
  wpc,      \* where each write is
  row,      \* the row it deletes
  named,    \* the keys it has to remove
  due,      \* history: what it committed
  refreshed \* the refreshes made

storeVars == <<rows, holder, dim, dictVer, grantVer, turns>>
cacheVars == <<cache, seen>>
requestVars == <<pc, dict, left, who, fill, todo, answer, heard>>
writeVars == <<wpc, row, named, due>>
vars == <<rows, holder, dim, dictVer, grantVer, turns, cache, seen, pc, dict, left, who,
          fill, todo, answer, heard, wpc, row, named, due, refreshed>>

Read == [dict : Nat, grant : Nat]

Nothing == [dict |-> 0, grant |-> 0]

Covers(a, b) == a.dict >= b.dict /\ a.grant >= b.grant

Entry == [cached : {TRUE}, read : Read, asked : Read, upto : Read]

Part == [key : Key, read : Read, asked : Read, upto : Read]

StoreCalls == {"list", "grants", "descend"}

Steps == StoreCalls \cup {"idle", "serve", "check", "insert", "done", "failed"}

StoreOK ==
  /\ rows \in [GrantIds -> {"unborn", "row", "gone"}]
  /\ holder \in [GrantIds -> Principals] /\ dim \in [GrantIds -> Dicts \cup {NoDict}]
  /\ dictVer \in [Dicts -> Nat] /\ grantVer \in [Key -> Nat]
  /\ turns \in 0..MaxTurns

CacheOK == cache \in [Key -> Entry \cup {NoEntry}] /\ seen \in [Key -> Read]

RequestsOK ==
  /\ pc \in [Requests -> Steps]
  /\ dict \in [Requests -> Dicts]
  /\ left \in [Requests -> SUBSET (Principals \cup {Super})]
  /\ who \in [Requests -> Principals \cup {Super}]
  /\ fill \in [Requests -> [read : Read, asked : Read]]
  /\ todo \in [Requests -> SUBSET GrantIds]
  /\ answer \in [Requests -> SUBSET Part]
  /\ heard \in [Requests -> SUBSET Writes]

WritesOK ==
  /\ wpc \in [Writes -> {"idle", "delete", "keys", "super", "done", "error"}]
  /\ row \in [Deletes -> GrantIds]
  /\ named \in [Writes -> SUBSET Key] /\ due \in [Writes -> Read]
  /\ refreshed \subseteq Refreshes

TypeOK == StoreOK /\ CacheOK /\ RequestsOK /\ WritesOK

Init ==
  /\ rows \in [GrantIds -> {"unborn", "row"}]
  /\ holder \in [GrantIds -> Principals] /\ dim \in [GrantIds -> Dicts \cup {NoDict}]
  /\ dictVer = [d \in Dicts |-> 0] /\ grantVer = [k \in Key |-> 0]
  /\ cache = [k \in Key |-> NoEntry] /\ seen = [k \in Key |-> Nothing]
  /\ turns = 0
  /\ pc = [r \in Requests |-> "idle"]
  /\ dict \in [Requests -> Dicts]
  /\ left = [r \in Requests |-> {}]
  /\ who = [r \in Requests |-> Super]
  /\ fill = [r \in Requests |-> [read |-> Nothing, asked |-> Nothing]]
  /\ todo = [r \in Requests |-> {}]
  /\ answer = [r \in Requests |-> {}] /\ heard = [r \in Requests |-> {}]
  /\ wpc = [w \in Writes |-> "idle"]
  /\ row \in [Deletes -> GrantIds]
  /\ named = [w \in Writes |-> {}] /\ due = [w \in Writes |-> Nothing]
  /\ refreshed = {}

-----------------------------------------------------------------------------
(* Requests: permitted_entries serves its principals one after the other. *)

Goto(r, step) == pc' = [pc EXCEPT ![r] = step]

KeyOf(r) == [who |-> who[r], dict |-> dict[r]]

Current(k) == [dict |-> dictVer[k.dict], grant |-> grantVer[k]]

(* A superadmin is served from the key of Super alone, anyone else from the keys of his *)
(* user, roles, organisations and posts: any set of them, empty when he has none.      *)
Arrive(r) ==
  /\ pc[r] = "idle"
  /\ \E P \in {{Super}} \cup SUBSET Principals : left' = [left EXCEPT ![r] = P]
  /\ heard' = [heard EXCEPT ![r] = {w \in Writes : wpc[w] = "done"}]
  /\ Goto(r, "serve")
  /\ UNCHANGED <<dict, who, fill, todo, answer, refreshed>>
  /\ UNCHANGED storeVars /\ UNCHANGED cacheVars /\ UNCHANGED writeVars

NextPrincipal(r) ==
  /\ pc[r] = "serve"
  /\ \E p \in left[r] :
       /\ who' = [who EXCEPT ![r] = p]
       /\ left' = [left EXCEPT ![r] = @ \ {p}]
  /\ Goto(r, "check")
  /\ UNCHANGED <<dict, fill, todo, answer, heard, refreshed>>
  /\ UNCHANGED storeVars /\ UNCHANGED cacheVars /\ UNCHANGED writeVars

Respond(r) ==
  /\ pc[r] = "serve" /\ left[r] = {}
  /\ Goto(r, "done")
  /\ UNCHANGED <<dict, left, who, fill, todo, answer, heard, refreshed>>
  /\ UNCHANGED storeVars /\ UNCHANGED cacheVars /\ UNCHANGED writeVars

PartOf(k, e) == [key |-> k, read |-> e.read, asked |-> e.asked, upto |-> e.upto]

(* Mutant: the entry is handed out without the key it was found under. *)
ServeEntry(r, e) ==
  /\ answer' = [answer EXCEPT ![r] = @ \cup {e}]
  /\ Goto(r, "serve")

Serve(r, e) ==
  /\ answer' = [answer EXCEPT ![r] = @ \cup {PartOf(KeyOf(r), e)}]
  /\ Goto(r, "serve")

Hit(r) ==
  /\ pc[r] = "check" /\ cache[KeyOf(r)] # NoEntry
  /\ Serve(r, cache[KeyOf(r)])
  /\ UNCHANGED <<dict, left, who, fill, todo, heard, refreshed>>
  /\ UNCHANGED storeVars /\ UNCHANGED cacheVars /\ UNCHANGED writeVars

(* A miss releases the lock before it materializes. *)
Miss(r) ==
  /\ pc[r] = "check" /\ cache[KeyOf(r)] = NoEntry
  /\ fill' = [fill EXCEPT ![r] = [read |-> Nothing, asked |-> seen[KeyOf(r)]]]
  /\ Goto(r, "list")
  /\ UNCHANGED <<dict, left, who, todo, answer, heard, refreshed>>
  /\ UNCHANGED storeVars /\ UNCHANGED cacheVars /\ UNCHANGED writeVars

(* The whole dictionary is read first; for a superadmin that is all. *)
ListDimensionValues(r) ==
  /\ pc[r] = "list"
  /\ fill' = [fill EXCEPT ![r].read.dict = dictVer[dict[r]]]
  /\ Goto(r, IF who[r] = Super THEN "insert" ELSE "grants")
  /\ UNCHANGED <<dict, left, who, todo, answer, heard, refreshed>>
  /\ UNCHANGED storeVars /\ UNCHANGED cacheVars /\ UNCHANGED writeVars

RowsOf(k) == {g \in GrantIds : rows[g] = "row" /\ holder[g] = k.who /\ dim[g] = k.dict}

(* load_grants returns the rows of the principal that are valid now: any of them. *)
LoadGrants(r) ==
  /\ pc[r] = "grants"
  /\ fill' = [fill EXCEPT ![r].read.grant = grantVer[KeyOf(r)]]
  /\ \E valid \in SUBSET RowsOf(KeyOf(r)) : todo' = [todo EXCEPT ![r] = valid]
  /\ Goto(r, "descend")
  /\ UNCHANGED <<dict, left, who, answer, heard, refreshed>>
  /\ UNCHANGED storeVars /\ UNCHANGED cacheVars /\ UNCHANGED writeVars

(***************************************************************************)
(* The next grant: its roots are expanded from the dictionary, which is no *)
(* older than when it was listed, or taken as they are without inherit; or *)
(* one of them is "*", and the whole dictionary is the result.             *)
(***************************************************************************)
Descend(r) ==
  /\ pc[r] = "descend"
  /\ \E g \in todo[r] : todo' = [todo EXCEPT ![r] = @ \ {g}] \/ todo' = [todo EXCEPT ![r] = {}]
  /\ UNCHANGED <<pc, dict, left, who, fill, answer, heard, refreshed>>
  /\ UNCHANGED storeVars /\ UNCHANGED cacheVars /\ UNCHANGED writeVars

Materialized(r) ==
  /\ pc[r] = "descend" /\ todo[r] = {}
  /\ Goto(r, "insert")
  /\ UNCHANGED <<dict, left, who, fill, todo, answer, heard, refreshed>>
  /\ UNCHANGED storeVars /\ UNCHANGED cacheVars /\ UNCHANGED writeVars

(* The set is put in the cache, whatever was removed from it meanwhile. *)
Insert(r) ==
  /\ pc[r] = "insert"
  /\ LET e == [cached |-> TRUE, read |-> fill[r].read, asked |-> fill[r].asked,
               upto |-> Current(KeyOf(r))]
     IN /\ cache' = [cache EXCEPT ![KeyOf(r)] = e]
        /\ Serve(r, e)
  /\ UNCHANGED <<dict, left, who, fill, todo, heard, seen, refreshed>>
  /\ UNCHANGED storeVars /\ UNCHANGED writeVars

(* A store call fails, and the request with it; what it inserted before stays. *)
StoreError(r) ==
  /\ pc[r] \in StoreCalls
  /\ pc[r] = "descend" => todo[r] # {}
  /\ Goto(r, "failed")
  /\ UNCHANGED <<dict, left, who, fill, todo, answer, heard, refreshed>>
  /\ UNCHANGED storeVars /\ UNCHANGED cacheVars /\ UNCHANGED writeVars

-----------------------------------------------------------------------------
(* Mutant: the unfiltered set only. *)
InvalidateOnlySuper(K) ==
  /\ cache' = [k \in Key |-> IF k \in K /\ k.who = Super THEN NoEntry ELSE cache[k]]
  /\ seen' = [k \in Key |-> IF k \in K THEN Current(k) ELSE seen[k]]

(***************************************************************************)
(* invalidate: all keys of a dictionary, or the key of one principal, are  *)
(* removed under the lock.                                                 *)
(***************************************************************************)
Invalidate(K) ==
  /\ cache' = [k \in Key |-> IF k \in K THEN NoEntry ELSE cache[k]]
  /\ seen' = [k \in Key |-> IF k \in K THEN Current(k) ELSE seen[k]]

KeysOf(D) == {k \in Key : k.dict \in D}

(* The key a grant's subject and dimension key make: none without a dimension key. *)
GrantKeys(p, d) == {k \in KeysOf({d}) : k.who = p}

Changed(K) == grantVer' = [k \in Key |-> IF k \in K THEN grantVer[k] + 1 ELSE grantVer[k]]

OldKeys(g) == IF rows[g] = "row" THEN GrantKeys(holder[g], dim[g]) ELSE {}

(***************************************************************************)
(* The statement of save_grant: INSERT when the id is 0, otherwise UPDATE, *)
(* which may move the row to another subject or dimension key, and which   *)
(* changes nothing when there is no such row.                              *)
(***************************************************************************)
SaveRow(g, p, d) ==
  LET inserts == rows[g] = "unborn" /\ rows' = [rows EXCEPT ![g] = "row"]
      updates == rows[g] = "row" /\ UNCHANGED rows
  IN \/ /\ inserts \/ updates
        /\ holder' = [holder EXCEPT ![g] = p]
        /\ dim' = [dim EXCEPT ![g] = d]
        /\ Changed(OldKeys(g) \cup GrantKeys(p, d))
        /\ UNCHANGED <<dictVer, turns>>
     \/ rows[g] # "row" /\ UNCHANGED storeVars

Mine(w, to) == wpc' = [wpc EXCEPT ![w] = to]

(* What of the keys K is committed now: at most one key when a grant is written. *)
DueGrant(w, K) ==
  due' = [due EXCEPT ![w] =
           [dict |-> 0, grant |-> IF K = {} THEN 0 ELSE grantVer'[CHOOSE k \in K : TRUE]]]

SaveGrant(w) ==
  /\ w \in Saves /\ wpc[w] = "idle"
  /\ \E g \in GrantIds, p \in Principals, d \in Dicts \cup {NoDict} :
       /\ SaveRow(g, p, d)
       /\ named' = [named EXCEPT ![w] = GrantKeys(p, d)]
       /\ DueGrant(w, GrantKeys(p, d))
  /\ Mine(w, "keys")
  /\ UNCHANGED <<row, refreshed>> /\ UNCHANGED cacheVars /\ UNCHANGED requestVars

(* delete_grant first reads the row for its key: an error is taken for no row. *)
GetGrant(w) ==
  /\ w \in Deletes /\ wpc[w] = "idle"
  /\ \/ named' = [named EXCEPT ![w] = OldKeys(row[w])]
     \/ named' = [named EXCEPT ![w] = {}]
  /\ Mine(w, "delete")
  /\ UNCHANGED <<row, due, refreshed>>
  /\ UNCHANGED storeVars /\ UNCHANGED cacheVars /\ UNCHANGED requestVars

DeleteRow(g) ==
  /\ rows' = IF rows[g] = "row" THEN [rows EXCEPT ![g] = "gone"] ELSE rows
  /\ Changed(OldKeys(g))
  /\ UNCHANGED <<holder, dim, dictVer, turns>>

DeleteGrant(w) ==
  /\ w \in Deletes /\ wpc[w] = "delete"
  /\ DeleteRow(row[w])
  /\ DueGrant(w, named[w])
  /\ Mine(w, "keys")
  /\ UNCHANGED <<row, named, refreshed>> /\ UNCHANGED cacheVars /\ UNCHANGED requestVars

SaveEntry(d) ==
  /\ dictVer' = [dictVer EXCEPT ![d] = @ + 1]
  /\ UNCHANGED <<rows, holder, dim, grantVer, turns>>

SaveDimensionValue(w) ==
  /\ w \in DictSaves /\ wpc[w] = "idle"
  /\ \E d \in Dicts :
       /\ SaveEntry(d)
       /\ named' = [named EXCEPT ![w] = KeysOf({d})]
       /\ due' = [due EXCEPT ![w] = [dict |-> dictVer[d] + 1, grant |-> 0]]
  /\ Mine(w, "keys")
  /\ UNCHANGED <<row, refreshed>> /\ UNCHANGED cacheVars /\ UNCHANGED requestVars

(* The store call fails, and may have committed all the same: nothing is removed. *)
WriteError(w) ==
  /\ wpc[w] = IF w \in Deletes THEN "delete" ELSE "idle"
  /\ \/ UNCHANGED storeVars
     \/ /\ w \in Saves
        /\ \E g \in GrantIds, p \in Principals, d \in Dicts \cup {NoDict} : SaveRow(g, p, d)
     \/ w \in Deletes /\ DeleteRow(row[w])
     \/ w \in DictSaves /\ \E d \in Dicts : SaveEntry(d)
  /\ Mine(w, "error")
  /\ UNCHANGED <<row, named, due, refreshed>> /\ UNCHANGED cacheVars /\ UNCHANGED requestVars

(***************************************************************************)
(* The keys are removed, and after a grant's key, when it had one, the key *)
(* of Super.  bump_generation and record_change follow (DecideEngine).     *)
(***************************************************************************)
InvalidateKeys(w) ==
  /\ wpc[w] = "keys"
  /\ Invalidate(named[w])
  /\ Mine(w, IF w \in DictSaves \/ named[w] = {} THEN "done" ELSE "super")
  /\ UNCHANGED <<row, named, due, refreshed>>
  /\ UNCHANGED storeVars /\ UNCHANGED requestVars

InvalidateSuper(w) ==
  /\ wpc[w] = "super"
  /\ Invalidate({k \in Key : k.who = Super /\ \E n \in named[w] : n.dict = k.dict})
  /\ Mine(w, "done")
  /\ UNCHANGED <<row, named, due, refreshed>>
  /\ UNCHANGED storeVars /\ UNCHANGED requestVars

(* dict_refresh: a dictionary, or one key of it. *)
DictRefresh(x) ==
  /\ x \notin refreshed
  /\ \E d \in Dicts :
       \/ Invalidate(KeysOf({d}))
       \/ \E p \in Principals \cup {Super} : Invalidate(GrantKeys(p, d))
  /\ refreshed' = refreshed \cup {x}
  /\ UNCHANGED storeVars /\ UNCHANGED requestVars /\ UNCHANGED writeVars

(* The validity window of a row opens or closes: no handler runs. *)
WindowTurns ==
  /\ turns < MaxTurns
  /\ \E g \in GrantIds : rows[g] = "row" /\ Changed(OldKeys(g))
  /\ turns' = turns + 1
  /\ UNCHANGED <<rows, holder, dim, dictVer, refreshed>>
  /\ UNCHANGED cacheVars /\ UNCHANGED requestVars /\ UNCHANGED writeVars

-----------------------------------------------------------------------------
Permitted(r) ==
  \/ Arrive(r) \/ NextPrincipal(r) \/ Respond(r) \/ Hit(r) \/ Miss(r)
  \/ ListDimensionValues(r) \/ LoadGrants(r) \/ Descend(r) \/ Materialized(r)
  \/ Insert(r) \/ StoreError(r)

Write(w) ==
  \/ SaveGrant(w) \/ GetGrant(w) \/ DeleteGrant(w) \/ SaveDimensionValue(w)
  \/ WriteError(w) \/ InvalidateKeys(w) \/ InvalidateSuper(w)

Next ==
  \/ \E r \in Requests : Permitted(r)
  \/ \E w \in Writes : Write(w)
  \/ \E x \in Refreshes : DictRefresh(x)
  \/ WindowTurns

Spec == Init /\ [][Next]_vars

-----------------------------------------------------------------------------
Straddles(e, d) == ~ Covers(e.asked, d) /\ Covers(e.upto, d)

(***************************************************************************)
(* A write that has been answered is in every later answer that is made    *)
(* from the keys the write names, save where a fill straddled it: a set    *)
(* asked for before the write removed its key, and put in the cache after  *)
(* the write was committed.  Nothing else leaves a removed set behind.     *)
(***************************************************************************)
AnsweredWritesShow ==
  \A r \in Requests : \A w \in heard[r], part \in answer[r] :
    part.key \in named[w] =>
      Covers(part.read, due[w]) \/ Straddles(part, due[w])

(***************************************************************************)
(* Why it holds, as an inductive invariant: what is read is no older than  *)
(* what had been removed from the cache before it was asked for, and what  *)
(* is cached was put there after everything removed since.                 *)
(***************************************************************************)
VersionsInv ==
  \A k \in Key :
    /\ Covers(Current(k), seen[k])
    /\ k.who = Super => grantVer[k] = 0
    /\ cache[k] # NoEntry =>
         Covers(cache[k].read, cache[k].asked) /\ Covers(cache[k].upto, seen[k])

FillInv(r) ==
  /\ pc[r] \in {"list", "grants", "descend", "insert"} =>
       Covers(Current(KeyOf(r)), fill[r].asked)
  /\ pc[r] \in {"grants", "descend", "insert"} => fill[r].read.dict >= fill[r].asked.dict
  /\ pc[r] = "descend" \/ (pc[r] = "insert" /\ who[r] # Super) =>
       fill[r].read.grant >= fill[r].asked.grant

AnswerInv(r) ==
  /\ \A part \in answer[r] :
       /\ Covers(part.read, part.asked)
       /\ \A w \in heard[r] : part.key \in named[w] => Covers(part.upto, due[w])
  /\ \A w \in heard[r] : wpc[w] = "done"
  /\ pc[r] = "idle" => answer[r] = {}

DueInv(w) ==
  /\ wpc[w] \in {"idle", "delete"} => due[w] = Nothing
  /\ w \notin DictSaves => \A j, k \in named[w] : j = k
  /\ \A k \in named[w] :
       /\ Covers(Current(k), due[w])
       /\ wpc[w] \in {"super", "done"} => Covers(seen[k], due[w])

StraddleInv ==
  /\ VersionsInv
  /\ \A r \in Requests : FillInv(r) /\ AnswerInv(r)
  /\ \A w \in Writes : DueInv(w)

(***************************************************************************)
(* README.md, matcache.rs: reassigning refreshes at once, save_grant and   *)
(* delete_grant removing exactly the keys concerned.  With every write     *)
(* answered, no set is cached that was right when it was put in the cache  *)
(* and is not right any more.                                              *)
(***************************************************************************)
WritesRefreshTheirKeys ==
  (\A w \in Writes : wpc[w] \in {"idle", "done"}) =>
    \A k \in Key : cache[k] # NoEntry /\ cache[k].read = cache[k].upto =>
      cache[k].read = Current(k)
=============================================================================
