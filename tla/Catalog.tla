-------------------------------- MODULE Catalog --------------------------------
(***************************************************************************)
(* The configuration: provider, pool and member rows in the database       *)
(* (providers/queries.rs, pools/queries.rs), the admin handlers that edit  *)
(* them (providers/routes.rs, pools/routes.rs, admin/mod.rs), and the      *)
(* snapshot that the proxy serves from (core/state.rs).  A handler reads,  *)
(* writes, reads everything again and publishes what it read, with an      *)
(* await between any two of these, where its client may leave and other    *)
(* writers may come in.                                                    *)
(*                                                                         *)
(* What the handlers do to health entries is in Failover (Edit, Delete,    *)
(* Disconnect), and what they do to rotation cursors in Rotation.  Names,  *)
(* keys and endpoints are left out: a clash of names is one more write     *)
(* that fails.                                                             *)
(***************************************************************************)
EXTENDS Integers, FiniteSets, FiniteSetsExt

CONSTANTS
  Admin,      \* admin requests in progress
  Provider,   \* provider ids
  Pool,       \* pool ids: a provider's own direct pool has the provider's id
  Shapes,     \* what a new provider may look like: [kind, wire, model, effort]
  Dumps,      \* what may be imported: [providers, pools, members]
  Starts,     \* databases the server may start with
  MaxEdits    \* bound: requests, wizard tasks and restarts

ASSUME CatalogAssumption ==
  /\ Provider \subseteq Pool
  /\ IsFiniteSet(Pool) /\ IsFiniteSet(Admin)
  /\ MaxEdits \in Nat

VARIABLES
  rows,    \* the database
  served,  \* AppState.snapshot
  op,      \* where each admin request is
  lost,    \* history: the last publication left out a write, or one has had none
  unchecked,  \* history: rows were written that nobody has checked as they are now
  edits    \* bound: requests, wizard tasks and restarts so far

catalogVars == <<rows, served, op, lost, unchecked, edits>>

-----------------------------------------------------------------------------
None == "none"

Kinds  == {"passthrough", "codex", "commandcode"}
Wires  == {"openai", "anthropic"}
Models == {"gpt-5", "claude", "gpt-image", "plain", "pending"}
Levels == {None, "high"}

ProviderRow == [id : Provider, kind : Kinds, wire : Wires, model : Models, effort : Levels]
PoolRow     == [id : Pool, wire : Wires \cup {"any"}, modality : {"chat", "image"}]
MemberRow   == [pool : Pool, provider : Provider, model : Models \cup {None},
                priority : Nat, effort : Levels]

NoRows == [providers |-> {}, pools |-> {}, members |-> {}, tokens |-> {}]

NoView == [providers |-> {}, pools |-> {}, members |-> {}]

\* What load_snapshot reads of the rows.
View(R) == [providers |-> R.providers, pools |-> R.pools, members |-> R.members]

ProviderOfId(R, id) == {p \in R.providers : p.id = id}

PoolOfId(R, id) == {q \in R.pools : q.id = id}

\* capability_for: can this provider put an effort on the wire for this model?
CarriesEffort(p, model) ==
  \/ p.kind = "codex"
  \/ p.kind = "commandcode" /\ model = "claude"
  \/ p.kind = "passthrough" /\ <<p.wire, model>> \in {<<"openai", "gpt-5">>, <<"anthropic", "claude">>}

\* Calls with the member's own model, or else the provider's.
EffectiveModel(m, p) == IF m.model = None THEN p.model ELSE m.model

\* check_provider_reasoning_effort, on the row as it would be.
EffortFitsProvider(p) == p.effort = None \/ CarriesEffort(p, p.model)

EffortFitsMember(m, p) == m.effort = None \/ CarriesEffort(p, EffectiveModel(m, p))

\* Fault model: an edit of a provider does not look at its members.
MembersStillFit_Unchecked(R, p) == TRUE

\* check_member_reasoning_overrides.
MembersStillFit(R, p) == \A m \in R.members : m.provider = p.id => EffortFitsMember(m, p)

\* image_member_eligible, and what upsert_member demands in an image pool.
ImageMember(m, p) == p.kind = "codex" /\ m.model = "gpt-image"

InImagePool(R, m) == \E q \in R.pools : q.id = m.pool /\ q.modality = "image"

\* update_provider: a passthrough provider keeps its wire format while it is in
\* a pool that speaks another one (`any` is another one too).
WireMayBecome(R, p, wire) ==
  \/ wire = p.wire
  \/ p.kind # "passthrough"
  \/ \A m \in R.members : m.provider = p.id => \A q \in PoolOfId(R, m.pool) : q.wire = wire

-----------------------------------------------------------------------------
(* The edits, and what each does to the rows. *)

SamePlace(m, n) == m.pool = n.pool /\ m.provider = n.provider /\ m.model = n.model

PutProvider(R, p) == [R EXCEPT !.providers = {r \in @ : r.id # p.id} \cup {p}]

PutPool(R, q) == [R EXCEPT !.pools = {r \in @ : r.id # q.id} \cup {q}]

PutMember(R, m) == [R EXCEPT !.members = {r \in @ : ~SamePlace(r, m)} \cup {m}]

\* The foreign keys cascade.
DropProvider(R, id) ==
  [providers |-> {p \in R.providers : p.id # id}, pools |-> R.pools,
   members   |-> {m \in R.members : m.provider # id}, tokens |-> R.tokens \ {id}]

DropPool(R, id) ==
  [providers |-> R.providers, pools |-> {q \in R.pools : q.id # id},
   members   |-> {m \in R.members : m.pool # id}, tokens |-> R.tokens]

\* import_config, one transaction: rows of the dump replace those they meet,
\* unchecked, unless a foreign key fails the whole of it.
Imported(R, d) ==
  LET put(old, new, same(_, _)) == {r \in old : \A n \in new : ~same(r, n)} \cup new
      sameId(r, n) == r.id = n.id
  IN  [providers |-> put(R.providers, d.providers, sameId),
       pools     |-> put(R.pools, d.pools, sameId),
       members   |-> put(R.members, d.members, SamePlace),
       tokens    |-> R.tokens]

KeysHold(R) ==
  \A m \in R.members : ProviderOfId(R, m.provider) # {} /\ PoolOfId(R, m.pool) # {}

\* Every row has the columns its table gives it, and keys are unique.
Tables(R) ==
  /\ R.providers \subseteq ProviderRow /\ R.pools \subseteq PoolRow /\ R.members \subseteq MemberRow
  /\ \A p, q \in R.providers : p.id = q.id => p = q
  /\ \A p, q \in R.pools : p.id = q.id => p = q
  /\ \A m, n \in R.members : SamePlace(m, n) => m = n
  /\ IsFiniteSet(R.members)

\* Efforts are on models that carry them, and an image pool makes images.
Fit(R) ==
  /\ \A p \in R.providers : EffortFitsProvider(p)
  /\ \A m \in R.members, p \in R.providers : p.id = m.provider =>
       EffortFitsMember(m, p) /\ (InImagePool(R, m) => ImageMember(m, p))

\* New providers have columns, a dump names each row once, and the server
\* starts with rows that the handlers have checked.
ASSUME RowsAssumption ==
  /\ \A s \in Shapes : s.kind \in Kinds /\ s.wire \in Wires /\ s.model \in Models /\ s.effort \in Levels
  /\ \A d \in Dumps : Tables(d)
  /\ \A R \in Starts :
       /\ R = [providers |-> R.providers, pools |-> R.pools, members |-> R.members, tokens |-> R.tokens]
       /\ Tables(R) /\ KeysHold(R) /\ Fit(R) /\ R.tokens \subseteq Provider

\* ensure_direct_pools_for_unassigned_providers, at every start: a provider in
\* no pool gets one of its own name, unless a pool of that name speaks another
\* wire format.
DirectPools(R) ==
  LET alone == {p \in R.providers : \A m \in R.members : m.provider # p.id}
      named == {[id |-> p.id, wire |-> p.wire, modality |-> "chat"] :
                  p \in {a \in alone : PoolOfId(R, a.id) = {}}}
      open  == R.pools \cup named
      own(p) == [pool |-> p.id, provider |-> p.id, model |-> None, priority |-> 1, effort |-> None]
      new   == {own(p) : p \in {a \in alone : \E q \in open : q.id = a.id /\ q.wire = a.wire}}
  IN  [providers |-> R.providers, pools |-> open, members |-> R.members \cup new, tokens |-> R.tokens]

Edit(what, data) == [what |-> what, data |-> data]

Patches == [field : {"model"}, value : Models \ {"pending"}]
           \cup [field : {"effort"}, value : Levels] \cup [field : {"wire"}, value : Wires]

\* The inputs of the handlers.
Edits ==
  {Edit("create_provider", [id |-> i, kind |-> s.kind, wire |-> s.wire, model |-> s.model,
                            effort |-> s.effort]) : s \in Shapes, i \in Provider}
  \cup {Edit("patch_provider", [id |-> i, patch |-> h]) : i \in Provider, h \in Patches}
  \cup {Edit("delete_provider", i) : i \in Provider}
  \cup {Edit("disconnect", i) : i \in Provider}
  \cup {Edit("create_pool", [id |-> i, wire |-> w, modality |-> k]) :
          i \in Pool, w \in Wires \cup {"any"}, k \in {"chat", "image"}}
  \cup {Edit("update_pool", i) : i \in Pool}
  \cup {Edit("delete_pool", i) : i \in Pool}
  \cup {Edit("put_member", [pool |-> q, provider |-> i, model |-> m, priority |-> 1, effort |-> e]) :
          q \in Pool, i \in Provider, m \in {None, "gpt-image"}, e \in Levels}
  \cup {Edit("delete_member", [pool |-> q, provider |-> i, models |-> ms]) :
          q \in Pool, i \in Provider, ms \in {{"gpt-image"}, Models \cup {None}}}
  \cup {Edit("import", d) : d \in Dumps}

\* clean: since the handler began to check, or to load, no row has been written.
\* left: the pools whose members it has still to ask for.
Idle == [at |-> "idle", edit |-> Edit("nothing", None), load |-> NoView, left |-> {}, clean |-> FALSE]

Go(a, o) == op' = [op EXCEPT ![a] = o]

\* What a write of the others' leaves of that.
Disturbed(ops) == [a \in Admin |-> [ops[a] EXCEPT !.clean = @ /\ View(rows') = View(rows)]]

-----------------------------------------------------------------------------
\* POST, PATCH, PUT, DELETE: a request arrives.
Ask(a, e) ==
  /\ op[a].at = "idle"
  /\ edits < MaxEdits
  /\ Go(a, [Idle EXCEPT !.at = "check", !.edit = e])
  /\ edits' = edits + 1
  /\ UNCHANGED <<rows, served, lost, unchecked>>

\* What a handler reads before it writes, and what it turns down.  A patch is
\* merged with the row as it is now, and all of the row is written back.
Passes(e) ==
  LET d == e.data IN
  CASE e.what = "create_provider" -> EffortFitsProvider(d) /\ ProviderOfId(rows, d.id) = {}
    [] e.what = "put_member" ->
         /\ PoolOfId(rows, d.pool) # {}
         /\ \A q \in PoolOfId(rows, d.pool) : \E p \in ProviderOfId(rows, d.provider) :
              /\ q.modality = "image" => ImageMember(d, p)
              /\ EffortFitsMember(d, p)
    [] e.what = "disconnect" -> \E p \in ProviderOfId(rows, d) : p.kind # "passthrough"
    [] e.what = "update_pool" -> PoolOfId(rows, d) # {}
    [] OTHER -> TRUE

\* update_provider, up to its UPDATE: the rows a patch may lead to.
Merged(e) ==
  {p \in {[q EXCEPT ![e.data.patch.field] = e.data.patch.value] : q \in ProviderOfId(rows, e.data.id)} :
     /\ e.data.patch.field = "wire" =>
          \A q \in ProviderOfId(rows, p.id) : WireMayBecome(rows, q, p.wire)
     /\ EffortFitsProvider(p)
     /\ MembersStillFit(rows, p)}

Check(a) ==
  LET e == op[a].edit IN
  /\ op[a].at = "check"
  /\ IF e.what = "patch_provider"
     THEN \/ \E p \in Merged(e) :
               Go(a, [op[a] EXCEPT !.at = "write", !.clean = TRUE, !.edit = Edit("patch_provider", p)])
          \/ Merged(e) = {} /\ Go(a, Idle)
     ELSE Go(a, IF Passes(e) THEN [op[a] EXCEPT !.at = "write", !.clean = TRUE] ELSE Idle)
  /\ UNCHANGED <<rows, served, lost, unchecked, edits>>

\* What the write makes of the rows: the rows themselves if it finds nothing
\* to delete, meets a row of the same id, or refers to a row that is gone.
\* UPDATE providers WHERE id meets no row either, but does not notice.
Written(e) ==
  LET d == e.data
      kept(R) == IF KeysHold(R) THEN R ELSE rows
  IN  CASE e.what = "create_provider" ->
             IF ProviderOfId(rows, d.id) = {} THEN PutProvider(rows, d) ELSE rows
        [] e.what = "patch_provider" ->
             IF ProviderOfId(rows, d.id) # {} THEN PutProvider(rows, d) ELSE rows
        [] e.what = "delete_provider" -> DropProvider(rows, d)
        [] e.what = "disconnect" -> [rows EXCEPT !.tokens = @ \ {d}]
        [] e.what = "create_pool" -> IF PoolOfId(rows, d.id) = {} THEN PutPool(rows, d) ELSE rows
        [] e.what = "delete_pool" -> DropPool(rows, d)
        [] e.what = "put_member" -> kept(PutMember(rows, d))
        [] e.what = "delete_member" ->
             [rows EXCEPT !.members = {m \in @ : ~(m.pool = d.pool /\ m.provider = d.provider
                                                  /\ m.model \in d.models)}]
        [] e.what = "import" -> kept(Imported(rows, d))
        [] OTHER -> rows

\* The answer is an error when the write changed nothing, except for the
\* writes that do not count the rows they change.
Accepted(e) ==
  \/ Written(e) # rows
  \/ e.what \in {"patch_provider", "disconnect", "import"}
  \/ e.what = "update_pool" /\ PoolOfId(rows, e.data) # {}
  \/ e.what = "put_member" /\ KeysHold(PutMember(rows, e.data))

\* Fault model: deleting a member does not publish.
AfterWrite_Unpublished(o) ==
  IF o.edit.what = "delete_member" THEN Idle ELSE [Idle EXCEPT !.at = "load"]

\* Every handler ends with reload_snapshot.
AfterWrite(o) == [Idle EXCEPT !.at = "load"]

\* An import checks nothing; the others have checked other rows than these.
SkipsCheck(o) ==
  \/ o.edit.what = "import"
  \/ o.edit.what \in {"patch_provider", "put_member"} /\ ~o.clean

Write(a) ==
  LET e == op[a].edit IN
  /\ op[a].at = "write"
  /\ IF Accepted(e)
     THEN /\ rows' = Written(e)
          /\ unchecked' = (unchecked \/ SkipsCheck(op[a]))
          /\ op' = [Disturbed(op) EXCEPT ![a] = AfterWrite(op[a])]
     ELSE Go(a, Idle) /\ UNCHANGED <<rows, unchecked>>
  /\ UNCHANGED <<served, lost, edits>>

Loading == {"load", "load_pools", "load_members"}

\* load_snapshot: the providers, the pools, and one query for the members of
\* each pool; no transaction around them.
LoadProviders(a) ==
  /\ op[a].at = "load"
  /\ Go(a, [op[a] EXCEPT !.at = "load_pools", !.clean = TRUE,
              !.load = [NoView EXCEPT !.providers = rows.providers]])
  /\ UNCHANGED <<rows, served, lost, unchecked, edits>>

LoadPools(a) ==
  /\ op[a].at = "load_pools"
  /\ Go(a, [op[a] EXCEPT !.at = "load_members", !.load = [@ EXCEPT !.pools = rows.pools],
              !.left = rows.pools])
  /\ UNCHANGED <<rows, served, lost, unchecked, edits>>

\* ORDER BY id: always the same pool of those that are left.
NextPool(left) == CHOOSE q \in left : TRUE

LoadMembers(a) ==
  LET q == NextPool(op[a].left) IN
  /\ op[a].at = "load_members" /\ op[a].left # {}
  /\ Go(a, [op[a] EXCEPT !.load.members = @ \cup {m \in rows.members : m.pool = q.id},
              !.left = @ \ {q}])
  /\ UNCHANGED <<rows, served, lost, unchecked, edits>>

\* reload_snapshot stores what it loaded, and the request is answered.
Publish(a) ==
  /\ op[a].at = "load_members" /\ op[a].left = {}
  /\ served' = op[a].load
  /\ lost' = ~op[a].clean
  /\ Go(a, Idle)
  /\ UNCHANGED <<rows, unchecked, edits>>

\* The client leaves at an await, or the database fails: nothing more is done.
GiveUp(a) ==
  /\ op[a].at # "idle"
  /\ lost' = (lost \/ op[a].at \in Loading)
  /\ Go(a, Idle)
  /\ UNCHANGED <<rows, served, unchecked, edits>>

\* The process stops, and starts again: main.rs seeds an empty database, opens
\* direct pools and loads the first snapshot before it listens.  The seed is not
\* checked, nor is a provider that joins an image pool which has its name.
Boot(seed) ==
  LET seeded == IF rows.providers = {} /\ KeysHold(Imported(rows, seed))
                THEN Imported(rows, seed) ELSE rows
  IN  /\ rows' = DirectPools(seeded)
      /\ served' = View(rows')
      /\ op' = [a \in Admin |-> Idle]
      /\ lost' = FALSE
      /\ unchecked' = (unchecked \/ seeded # rows
                        \/ \E m \in rows'.members \ seeded.members : InImagePool(rows', m))

Restart(seed) == Boot(seed) /\ edits < MaxEdits /\ edits' = edits + 1

-----------------------------------------------------------------------------
CatalogInit ==
  /\ rows \in Starts /\ served = View(rows)
  /\ op = [a \in Admin |-> Idle]
  /\ lost = FALSE /\ unchecked = FALSE /\ edits = 0

CatalogNext ==
  \/ \E a \in Admin, e \in Edits : Ask(a, e)
  \/ \E a \in Admin :
       \/ Check(a) \/ Write(a) \/ LoadProviders(a) \/ LoadPools(a) \/ LoadMembers(a)
       \/ Publish(a) \/ GiveUp(a)
  \/ \E seed \in Dumps \cup {NoView} : Restart(seed)

CatalogSpec == CatalogInit /\ [][CatalogNext]_catalogVars

-----------------------------------------------------------------------------
ViewType == [providers : SUBSET ProviderRow, pools : SUBSET PoolRow, members : SUBSET MemberRow]

(* Rows are as their tables say, members refer to rows that exist, and what is *)
(* loaded and served was read from such rows.                                  *)
CatalogTypeOK ==
  /\ rows = [providers |-> rows.providers, pools |-> rows.pools, members |-> rows.members,
             tokens |-> rows.tokens]
  /\ Tables(rows) /\ KeysHold(rows) /\ rows.tokens \subseteq Provider
  /\ served \in ViewType
  /\ \A a \in Admin :
       /\ op[a].at \in {"idle", "check", "write"} \cup Loading
       /\ op[a].load \in ViewType /\ op[a].left \subseteq PoolRow /\ op[a].clean \in BOOLEAN
  /\ lost \in BOOLEAN /\ unchecked \in BOOLEAN
  /\ edits \in 0..MaxEdits

(* Once every edit has been answered, the proxy serves what is stored, for any *)
(* number of handlers that load and publish at once: only a writer that gave   *)
(* up before it published, or one whose publication is older than somebody's   *)
(* write, leaves the two different, and only until the next (reload_snapshot). *)
AnsweredIsServed ==
  (\A a \in Admin : op[a].at = "idle") /\ ~lost => served = View(rows)

(* However the edits of a provider and of its members follow each other, a     *)
(* stored effort is one that its row's model can carry, and an image pool has  *)
(* only members that make images; only an import, and an edit that somebody    *)
(* overtook between its check and its write, and a start that opens direct     *)
(* pools store rows that nobody has checked (queries.rs:                       *)
(* check_provider_reasoning_effort, check_member_reasoning_overrides,          *)
(* upsert_member).                                                             *)
RowsFit ==
  ~unchecked => Fit(rows)

=============================================================================
