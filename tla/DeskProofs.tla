------------------------------ MODULE DeskProofs ------------------------------
(***************************************************************************)
(* Theorems about the parts around the proxy: what is configured (Catalog, *)
(* Setup), who may come in and with what (AdminSessions, UserKeys,         *)
(* OAuthLogins, Settings), and in which order a request meets the members of*)
(* a pool and what it may begin with them (Rotation, Images). The parts    *)
(* share nothing, and each has an inductive invariant of its own; the last *)
(* chapter puts them together (MCDesk).                                    *)
(***************************************************************************)
EXTENDS MCDesk, FiniteSetTheorems, WellFoundedInduction, TLAPS

-----------------------------------------------------------------------------
(***************************************************************************)
(* Theorems about the configuration and its writers: the admin handlers    *)
(* (Catalog) and the setup wizard beside them (Setup), for any number of   *)
(* requests in progress, any providers and pools and any dumps.            *)
(*                                                                         *)
(* The argument: what a handler holds is worth something only as long as   *)
(* nobody has written since it began to check or to load, which is what    *)
(* `clean` says of it.  Clean, a loaded view is a prefix of what is        *)
(* stored, and a row that was checked would still pass.                    *)
(***************************************************************************)
(* The inductive invariant. *)

IsRows(R) == R = [providers |-> R.providers, pools |-> R.pools, members |-> R.members,
                  tokens |-> R.tokens]

SoundRows(R) == IsRows(R) /\ Tables(R) /\ KeysHold(R) /\ R.tokens \subseteq Provider

Patched == {Edit("patch_provider", p) : p \in ProviderRow}

AdminPlaces == {"idle", "check", "write"} \cup Loading

Frame == [at : AdminPlaces, edit : Edits \cup Patched \cup {Edit("nothing", None)},
          load : ViewType, left : SUBSET PoolRow, clean : BOOLEAN]

WizardType ==
  [at : WizardPlaces, kind : Kinds, id : Provider \cup {None}, pool : Pool \cup {None},
   wire : Wires, model : Models \cup {None}, priority : Nat, merged : SUBSET ProviderRow,
   alone : BOOLEAN, clean : BOOLEAN]

ToWrite(e) == e \in Patched \/ (e \in Edits /\ e.what # "patch_provider")

\* What a handler is about to check, or to write.
Holds(o) ==
  /\ o.at = "check" => o.edit \in Edits
  /\ o.at = "write" => ToWrite(o.edit)

\* The members that are in none of these pools.
MembersBeside(R, left) == {m \in R.members : \A q \in left : q.id # m.pool}

\* What it has loaded since it was clean is what is there, but for the members
\* of the pools that are left.
Loads(o, R) ==
  /\ o.at = "load_pools" => o.load.members = {}
  /\ o.clean =>
       /\ o.at \in {"load_pools", "load_members"} => o.load.providers = R.providers
       /\ o.at = "load_members" =>
            /\ o.load.pools = R.pools /\ o.left \subseteq R.pools
            /\ o.load.members = MembersBeside(R, o.left)

ServedIsStored ==
  (\A a \in Admin : op[a].at \notin Loading) /\ ~lost => served = View(rows)

\* A row that may replace the one of its id.
Replaces(p, R) ==
  /\ EffortFitsProvider(p) /\ MembersStillFit(R, p)
  /\ \A q \in R.providers : q.id = p.id => q.kind = p.kind

\* A member that may join its pool.
MayJoin(m, R) ==
  \A p \in R.providers : p.id = m.provider =>
    EffortFitsMember(m, p) /\ (InImagePool(R, m) => ImageMember(m, p))

\* What it has checked would still pass.
Vetted(o, R) ==
  o.at = "write" =>
    /\ o.edit.what = "create_provider" => EffortFitsProvider(o.edit.data)
    /\ o.edit.what = "patch_provider" /\ o.clean => Replaces(o.edit.data, R)
    /\ o.edit.what = "put_member" /\ o.clean => MayJoin(o.edit.data, R)

Fine(o, R) == Holds(o) /\ Loads(o, R) /\ Vetted(o, R)

\* The same of the wizard, and what it works on.
WizardHolds(w) ==
  /\ w.at \notin {"off", "menu"} => w.id \in Provider
  /\ w.at \in {"insert", "update"} => w.model \in Models
  /\ w.at = "confirm" => w.kind = "passthrough"
  /\ w.at = "insert" /\ w.kind # "passthrough" => w.model = "pending"
  /\ w.at \in {"pkce", "paste", "key", "store", "probe"} => w.model = "pending"
  /\ w.at \in {"pool", "rank", "join", "joining"} => w.pool \in Pool

WizardVetted(w, R) ==
  w.clean =>
    /\ w.at = "merged" => \A p \in w.merged : Replaces(p, R)
    /\ w.at = "joining" =>
         MayJoin([pool |-> w.pool, provider |-> w.id, model |-> None,
                  priority |-> w.priority, effort |-> None], R)

HasRow(w, R) == \E p \in R.providers : p.id = w.id /\ p.kind = w.kind

HasModel(w, R) == \E p \in R.providers : p.id = w.id /\ p.kind = w.kind /\ p.model = w.model

\* As long as nobody else writes, the wizard's row is as it left it.
OnItsOwn(w, R) ==
  w.alone =>
    /\ w.at \in {"pkce", "paste", "key", "store", "probe", "announce"} => HasModel(w, R)
    /\ w.at \in {"update", "merged"} => HasRow(w, R)
    /\ w.at = "merged" =>
         \A p \in w.merged : p.id = w.id /\ p.kind = w.kind /\ p.model = w.model
    /\ w.at \in {"probe", "update", "merged", "announce"} /\ w.kind # "passthrough" =>
         w.id \in R.tokens

CatalogIInv ==
  /\ SoundRows(rows)
  /\ served \in ViewType
  /\ op \in [Admin -> Frame]
  /\ lost \in BOOLEAN /\ unchecked \in BOOLEAN
  /\ edits \in 0..MaxEdits
  /\ \A a \in Admin : Fine(op[a], rows)
  /\ ServedIsStored
  /\ RowsFit

WizardIInv ==
  /\ wiz \in WizardType
  /\ WizardHolds(wiz) /\ WizardVetted(wiz, rows) /\ OnItsOwn(wiz, rows)

SetupIInv == CatalogIInv /\ WizardIInv

-----------------------------------------------------------------------------
(* What the operators make of the rows. *)

LEMMA Kindly == "codex" \in Kinds /\ "passthrough" \in Kinds /\ "pending" \in Models /\ None \in Levels
  BY DEF Kinds, Models, Levels

LEMMA PutProviderIs ==
  ASSUME NEW R, IsRows(R), NEW p
  PROVE  PutProvider(R, p) =
           [providers |-> {r \in R.providers : r.id # p.id} \cup {p}, pools |-> R.pools,
            members |-> R.members, tokens |-> R.tokens]
  BY DEF IsRows, PutProvider

LEMMA PutPoolIs ==
  ASSUME NEW R, IsRows(R), NEW q
  PROVE  PutPool(R, q) =
           [providers |-> R.providers, pools |-> {r \in R.pools : r.id # q.id} \cup {q},
            members |-> R.members, tokens |-> R.tokens]
  BY DEF IsRows, PutPool

LEMMA PutMemberIs ==
  ASSUME NEW R, IsRows(R), NEW m
  PROVE  PutMember(R, m) =
           [providers |-> R.providers, pools |-> R.pools,
            members |-> {r \in R.members : ~SamePlace(r, m)} \cup {m}, tokens |-> R.tokens]
  BY DEF IsRows, PutMember

LEMMA ImportedIs ==
  ASSUME NEW R, NEW d
  PROVE  Imported(R, d) =
           [providers |-> {r \in R.providers : \A n \in d.providers : r.id # n.id} \cup d.providers,
            pools |-> {r \in R.pools : \A n \in d.pools : r.id # n.id} \cup d.pools,
            members |-> {r \in R.members : \A n \in d.members : ~SamePlace(r, n)} \cup d.members,
            tokens |-> R.tokens]
  BY DEF Imported

LEMMA TokensAre ==
  ASSUME NEW R, IsRows(R), NEW T
  PROVE  [R EXCEPT !.tokens = T] =
           [providers |-> R.providers, pools |-> R.pools, members |-> R.members, tokens |-> T]
  BY DEF IsRows

LEMMA MembersAre ==
  ASSUME NEW R, IsRows(R), NEW T
  PROVE  [R EXCEPT !.members = T] =
           [providers |-> R.providers, pools |-> R.pools, members |-> T, tokens |-> R.tokens]
  BY DEF IsRows

\* A start opens chat pools of a provider's own name, for providers in no pool.
LEMMA DirectPoolsAre ==
  ASSUME NEW R, IsRows(R)
  PROVE  LET D == DirectPools(R) IN
         /\ IsRows(D) /\ D.providers = R.providers /\ D.tokens = R.tokens
         /\ R.pools \subseteq D.pools /\ R.members \subseteq D.members
         /\ \A q \in D.pools \ R.pools : \E p \in R.providers :
              /\ PoolOfId(R, p.id) = {}
              /\ q = [id |-> p.id, wire |-> p.wire, modality |-> "chat"]
              /\ \A m \in R.members : m.provider # p.id
         /\ \A m \in D.members \ R.members : \E p \in R.providers :
              /\ \A n \in R.members : n.provider # p.id
              /\ \E q \in D.pools : q.id = p.id
              /\ m = [pool |-> p.id, provider |-> p.id, model |-> None, priority |-> 1, effort |-> None]
<1>. DEFINE alone == {p \in R.providers : \A m \in R.members : m.provider # p.id}
            open == R.pools \cup {[id |-> p.id, wire |-> p.wire, modality |-> "chat"] :
                                    p \in {a \in alone : PoolOfId(R, a.id) = {}}}
            new == {[pool |-> p.id, provider |-> p.id, model |-> None, priority |-> 1, effort |-> None] :
                      p \in {a \in alone : \E q \in open : q.id = a.id /\ q.wire = a.wire}}
<1>1. DirectPools(R) = [providers |-> R.providers, pools |-> open, members |-> R.members \cup new,
                        tokens |-> R.tokens]
  BY DEF DirectPools
<1>2. \A q \in open \ R.pools : \E p \in alone :
        PoolOfId(R, p.id) = {} /\ q = [id |-> p.id, wire |-> p.wire, modality |-> "chat"]
  OBVIOUS
<1>3. \A m \in new : \E p \in alone :
        /\ \E q \in open : q.id = p.id
        /\ m = [pool |-> p.id, provider |-> p.id, model |-> None, priority |-> 1, effort |-> None]
  OBVIOUS
<1>. HIDE DEF open, new
<1>4. /\ DirectPools(R).providers = R.providers /\ DirectPools(R).pools = open
      /\ DirectPools(R).members = R.members \cup new /\ DirectPools(R).tokens = R.tokens
  BY <1>1
<1>5. IsRows(DirectPools(R))
  BY <1>1 DEF IsRows
<1>6. R.pools \subseteq open
  BY DEF open
<1>. HIDE <1>1
<1>. QED
  BY <1>2, <1>3, <1>4, <1>5, <1>6

-----------------------------------------------------------------------------
(* What the handlers are asked to do. *)

\* What a request or a checked patch carries, by what it asks for.
LEMMA EditData ==
  ASSUME NEW e, ToWrite(e)
  PROVE  /\ e.what \in {"create_provider", "patch_provider"} => e.data \in ProviderRow
         /\ e.what = "create_pool" => e.data \in PoolRow
         /\ e.what = "put_member" => e.data \in MemberRow /\ e.data.priority = 1
         /\ e.what = "import" => e.data \in Dumps
         /\ e \in Patched <=> e.what = "patch_provider"
<1>. DEFINE Goal == /\ e.what \in {"create_provider", "patch_provider"} => e.data \in ProviderRow
                    /\ e.what = "create_pool" => e.data \in PoolRow
                    /\ e.what = "put_member" => e.data \in MemberRow /\ e.data.priority = 1
                    /\ e.what = "import" => e.data \in Dumps
<1>0. \A x \in Patched : x.what = "patch_provider" /\ x.data \in ProviderRow
  BY DEF Patched, Edit
<1>1. ASSUME e \in Patched PROVE Goal
  BY <1>0, <1>1
<1>2. ASSUME e \in Edits, e.what # "patch_provider" PROVE Goal
  <2>1. CASE \E s \in Shapes, i \in Provider :
               e = Edit("create_provider", [id |-> i, kind |-> s.kind, wire |-> s.wire,
                                            model |-> s.model, effort |-> s.effort])
    <3>1. e.what = "create_provider"
      BY <2>1 DEF Edit
    <3>2. e.data \in ProviderRow
      BY <2>1, RowsAssumption DEF Edit, ProviderRow
    <3>. QED
      BY <3>1, <3>2
  <2>2. CASE \E i \in Pool, w \in Wires \cup {"any"}, k \in {"chat", "image"} :
               e = Edit("create_pool", [id |-> i, wire |-> w, modality |-> k])
    <3>1. e.what = "create_pool"
      BY <2>2 DEF Edit
    <3>2. e.data \in PoolRow
      BY <2>2 DEF Edit, PoolRow
    <3>. QED
      BY <3>1, <3>2
  <2>3. CASE \E q \in Pool, i \in Provider, m \in {None, "gpt-image"}, f \in Levels :
               e = Edit("put_member", [pool |-> q, provider |-> i, model |-> m, priority |-> 1,
                                       effort |-> f])
    <3>1. e.what = "put_member"
      BY <2>3 DEF Edit
    <3>2. e.data \in MemberRow /\ e.data.priority = 1
      BY <2>3 DEF Edit, MemberRow, Models
    <3>. QED
      BY <3>1, <3>2
  <2>4. CASE \E d \in Dumps : e = Edit("import", d)
    <3>1. e.what = "import" /\ e.data \in Dumps
      BY <2>4 DEF Edit
    <3>. QED
      BY <3>1
  <2>5. CASE e.what \in {"delete_provider", "disconnect", "update_pool", "delete_pool",
                         "delete_member"}
    BY <2>5
  <2>6. CASE e.what = "patch_provider"
    BY <1>2, <2>6
  <2>. QED
    BY <1>2, <2>1, <2>2, <2>3, <2>4, <2>5, <2>6 DEF Edits, Edit
<1>. QED
  BY <1>0, <1>1, <1>2 DEF ToWrite

\* A patch names one column and a value for it.
LEMMA PatchData ==
  ASSUME NEW e \in Edits, e.what = "patch_provider"
  PROVE  e.data.id \in Provider /\ e.data.patch \in Patches
<1>1. \E i \in Provider, h \in Patches : e = Edit("patch_provider", [id |-> i, patch |-> h])
  BY DEF Edits, Edit
<1>. QED
  BY <1>1 DEF Edit

\* What update_provider is about to write: a row of that id, of the same kind,
\* that has been checked.
LEMMA MergedRows ==
  ASSUME SoundRows(rows), NEW i, NEW h \in [field : {"model"}, value : Models] \cup Patches,
         NEW p \in Merged(Edit("patch_provider", [id |-> i, patch |-> h]))
  PROVE  /\ p \in ProviderRow /\ p.id = i /\ Replaces(p, rows)
         /\ h.field = "model" => p.model = h.value
<1>. DEFINE e == Edit("patch_provider", [id |-> i, patch |-> h])
<1>1. e.data.id = i /\ e.data.patch = h
  BY DEF Edit
<1>2. PICK q \in rows.providers : q.id = i /\ p = [q EXCEPT ![h.field] = h.value]
  BY <1>1 DEF Merged, ProviderOfId
<1>3. EffortFitsProvider(p) /\ MembersStillFit(rows, p)
  BY DEF Merged
<1>4. q \in ProviderRow
  BY DEF SoundRows, Tables
<1>5. p \in ProviderRow /\ p.id = q.id /\ p.kind = q.kind /\ (h.field = "model" => p.model = h.value)
  <2>1. CASE h \in [field : {"model"}, value : Models]
    BY <1>2, <1>4, <2>1 DEF ProviderRow
  <2>2. CASE h \in [field : {"effort"}, value : Levels]
    BY <1>2, <1>4, <2>2 DEF ProviderRow
  <2>3. CASE h \in [field : {"wire"}, value : Wires]
    BY <1>2, <1>4, <2>3 DEF ProviderRow
  <2>. QED
    BY <2>1, <2>2, <2>3 DEF Patches
<1>6. \A r \in rows.providers : r.id = p.id => r = q
  BY <1>2, <1>5 DEF SoundRows, Tables
<1>. QED
  BY <1>2, <1>3, <1>5, <1>6 DEF Replaces

-----------------------------------------------------------------------------
(* Writes keep the tables in order: unique keys and no dangling references.  *)

LEMMA ProviderPut ==
  ASSUME NEW R, SoundRows(R), NEW p \in ProviderRow
  PROVE  SoundRows(PutProvider(R, p))
<1>. DEFINE P == {r \in R.providers : r.id # p.id} \cup {p}
<1>1. PutProvider(R, p) = [providers |-> P, pools |-> R.pools, members |-> R.members,
                           tokens |-> R.tokens]
  BY PutProviderIs DEF SoundRows
<1>2. P \subseteq ProviderRow /\ \A x, y \in P : x.id = y.id => x = y
  BY DEF SoundRows, Tables
<1>3. \A r \in R.providers : \E x \in P : x.id = r.id
  OBVIOUS
<1>. HIDE DEF P
<1>. QED
  BY <1>1, <1>2, <1>3 DEF SoundRows, Tables, KeysHold, IsRows, ProviderOfId, PoolOfId

LEMMA PoolPut ==
  ASSUME NEW R, SoundRows(R), NEW q \in PoolRow
  PROVE  SoundRows(PutPool(R, q))
<1>. DEFINE P == {r \in R.pools : r.id # q.id} \cup {q}
<1>1. PutPool(R, q) = [providers |-> R.providers, pools |-> P, members |-> R.members,
                       tokens |-> R.tokens]
  BY PutPoolIs DEF SoundRows
<1>2. P \subseteq PoolRow /\ \A x, y \in P : x.id = y.id => x = y
  BY DEF SoundRows, Tables
<1>3. \A r \in R.pools : \E x \in P : x.id = r.id
  OBVIOUS
<1>. HIDE DEF P
<1>. QED
  BY <1>1, <1>2, <1>3 DEF SoundRows, Tables, KeysHold, IsRows, ProviderOfId, PoolOfId

LEMMA MemberPut ==
  ASSUME NEW R, SoundRows(R), NEW m \in MemberRow, KeysHold(PutMember(R, m))
  PROVE  SoundRows(PutMember(R, m))
<1>. DEFINE M == {r \in R.members : ~SamePlace(r, m)} \cup {m}
<1>1. PutMember(R, m) = [providers |-> R.providers, pools |-> R.pools, members |-> M,
                         tokens |-> R.tokens]
  BY PutMemberIs DEF SoundRows
<1>2. M \subseteq MemberRow /\ \A x, y \in M : SamePlace(x, y) => x = y
  BY DEF SoundRows, Tables, SamePlace
<1>3. IsFiniteSet(M)
  <2>1. IsFiniteSet(R.members) /\ {r \in R.members : ~SamePlace(r, m)} \in SUBSET R.members
    BY DEF SoundRows, Tables
  <2>. QED
    BY <2>1, FS_Subset, FS_AddElement
<1>. HIDE DEF M
<1>. QED
  BY <1>1, <1>2, <1>3 DEF SoundRows, Tables, IsRows

\* Whatever is deleted with what refers to it.
LEMMA Dropped ==
  ASSUME NEW R, SoundRows(R), NEW D, IsRows(D), D.providers \subseteq R.providers,
         D.pools \subseteq R.pools, D.members \subseteq R.members, D.tokens \subseteq R.tokens,
         KeysHold(D)
  PROVE  SoundRows(D)
<1>1. IsFiniteSet(D.members)
  BY FS_Subset DEF SoundRows, Tables
<1>. QED
  BY <1>1 DEF SoundRows, Tables

LEMMA ProviderDropped == ASSUME NEW R, SoundRows(R), NEW id PROVE SoundRows(DropProvider(R, id))
<1>1. IsRows(DropProvider(R, id)) /\ KeysHold(DropProvider(R, id))
  BY DEF DropProvider, IsRows, SoundRows, KeysHold, ProviderOfId, PoolOfId
<1>. QED
  BY <1>1, Dropped DEF DropProvider

LEMMA PoolDropped == ASSUME NEW R, SoundRows(R), NEW id PROVE SoundRows(DropPool(R, id))
<1>1. IsRows(DropPool(R, id)) /\ KeysHold(DropPool(R, id))
  BY DEF DropPool, IsRows, SoundRows, KeysHold, ProviderOfId, PoolOfId
<1>. QED
  BY <1>1, Dropped DEF DropPool

LEMMA MembersDropped ==
  ASSUME NEW R, SoundRows(R), NEW M \in SUBSET R.members
  PROVE  SoundRows([R EXCEPT !.members = M])
<1>1. [R EXCEPT !.members = M] = [providers |-> R.providers, pools |-> R.pools, members |-> M,
                                  tokens |-> R.tokens]
  BY MembersAre DEF SoundRows
<1>2. IsRows([R EXCEPT !.members = M]) /\ KeysHold([R EXCEPT !.members = M])
  BY <1>1 DEF IsRows, SoundRows, KeysHold, ProviderOfId, PoolOfId
<1>. QED
  BY <1>1, <1>2, Dropped

LEMMA TokensPut ==
  ASSUME NEW R, SoundRows(R), NEW T \in SUBSET Provider
  PROVE  SoundRows([R EXCEPT !.tokens = T])
<1>1. [R EXCEPT !.tokens = T] = [providers |-> R.providers, pools |-> R.pools,
                                 members |-> R.members, tokens |-> T]
  BY TokensAre DEF SoundRows
<1>. QED
  BY <1>1 DEF SoundRows, Tables, KeysHold, IsRows, ProviderOfId, PoolOfId

LEMMA DumpImported ==
  ASSUME NEW R, SoundRows(R), NEW d \in Dumps \cup {NoView}, KeysHold(Imported(R, d))
  PROVE  SoundRows(Imported(R, d))
<1>. DEFINE P == {r \in R.providers : \A n \in d.providers : r.id # n.id} \cup d.providers
            Q == {r \in R.pools : \A n \in d.pools : r.id # n.id} \cup d.pools
            M == {r \in R.members : \A n \in d.members : ~SamePlace(r, n)} \cup d.members
<1>1. Imported(R, d) = [providers |-> P, pools |-> Q, members |-> M, tokens |-> R.tokens]
  BY ImportedIs
<1>2. Tables(d)
  <2>1. Tables(NoView)
    BY FS_EmptySet DEF Tables, NoView
  <2>. QED
    BY <2>1, RowsAssumption
<1>3. /\ P \subseteq ProviderRow /\ \A x, y \in P : x.id = y.id => x = y
      /\ Q \subseteq PoolRow /\ \A x, y \in Q : x.id = y.id => x = y
  BY <1>2 DEF SoundRows, Tables
<1>4. M \subseteq MemberRow /\ \A x, y \in M : SamePlace(x, y) => x = y
  BY <1>2 DEF SoundRows, Tables, SamePlace
<1>5. IsFiniteSet(M)
  <2>1. IsFiniteSet(R.members) /\ IsFiniteSet(d.members)
        /\ {r \in R.members : \A n \in d.members : ~SamePlace(r, n)} \in SUBSET R.members
    BY <1>2 DEF SoundRows, Tables
  <2>. QED
    BY <2>1, FS_Subset, FS_Union
<1>. HIDE DEF P, Q, M
<1>. QED
  BY <1>1, <1>3, <1>4, <1>5 DEF SoundRows, Tables, IsRows

\* Every new member is the only one of its provider, and its pool is there.
LEMMA DirectPoolsOpened ==
  ASSUME NEW R, SoundRows(R)
  PROVE  SoundRows(DirectPools(R))
<1>. DEFINE D == DirectPools(R)
            new == D.members \ R.members
<1>1. /\ IsRows(D) /\ D.providers = R.providers /\ D.tokens = R.tokens
      /\ R.pools \subseteq D.pools /\ R.members \subseteq D.members
  BY DirectPoolsAre DEF SoundRows
<1>2. \A q \in D.pools \ R.pools : \E p \in R.providers :
        PoolOfId(R, p.id) = {} /\ q = [id |-> p.id, wire |-> p.wire, modality |-> "chat"]
  BY DirectPoolsAre DEF SoundRows
<1>3. \A m \in new : \E p \in R.providers :
        /\ \A n \in R.members : n.provider # p.id
        /\ \E q \in D.pools : q.id = p.id
        /\ m = [pool |-> p.id, provider |-> p.id, model |-> None, priority |-> 1, effort |-> None]
  BY DirectPoolsAre DEF SoundRows
<1>. HIDE DEF D
<1>4. D.pools \subseteq PoolRow
  <2>1. \A p \in R.providers : [id |-> p.id, wire |-> p.wire, modality |-> "chat"] \in PoolRow
    BY CatalogAssumption DEF SoundRows, Tables, ProviderRow, PoolRow
  <2>. QED
    BY <1>2, <2>1 DEF SoundRows, Tables
<1>5. \A p, q \in D.pools : p.id = q.id => p = q
  <2>1. ASSUME NEW p \in D.pools, NEW q \in D.pools, p.id = q.id, p \notin R.pools PROVE p = q
    <3>1. PICK r \in R.providers :
            PoolOfId(R, r.id) = {} /\ p = [id |-> r.id, wire |-> r.wire, modality |-> "chat"]
      BY <1>2, <2>1
    <3>2. q \notin R.pools
      BY <2>1, <3>1 DEF PoolOfId
    <3>3. PICK s \in R.providers :
            q = [id |-> s.id, wire |-> s.wire, modality |-> "chat"]
      BY <1>2, <3>2
    <3>. QED
      BY <2>1, <3>1, <3>3 DEF SoundRows, Tables
  <2>2. \A p, q \in R.pools : p.id = q.id => p = q
    BY DEF SoundRows, Tables
  <2>. QED
    BY <2>1, <2>2
<1>6. \A m \in new : m \in MemberRow /\ \E q \in D.pools : q.id = m.pool
  <2>1. \A p \in R.providers :
          [pool |-> p.id, provider |-> p.id, model |-> None, priority |-> 1, effort |-> None]
            \in MemberRow
    BY CatalogAssumption DEF SoundRows, Tables, ProviderRow, MemberRow, Levels
  <2>. QED
    BY <1>3, <2>1
<1>7. \A m \in new : \E p \in D.providers : p.id = m.provider
  BY <1>1, <1>3
<1>8. \A m, n \in D.members : SamePlace(m, n) => m = n
  <2>1. ASSUME NEW m \in new, NEW n \in D.members, m.provider = n.provider PROVE m = n
    BY <1>3, <2>1
  <2>. QED
    BY <2>1 DEF SoundRows, Tables, SamePlace
<1>9. IsFiniteSet(D.members)
  <2>. DEFINE f == [m \in new |-> m.provider]
  <2>1. \A m, n \in new : m.provider = n.provider => m = n
    BY <1>3
  <2>2. f \in [new -> Provider]
    BY <1>6 DEF MemberRow
  <2>3. f \in Injection(new, Provider)
    BY <2>1, <2>2 DEF Injection, IsInjective
  <2>4. IsFiniteSet(new)
    BY <2>3, CatalogAssumption, FS_Injection, FS_Subset
  <2>5. D.members = R.members \cup new
    BY <1>1
  <2>6. IsFiniteSet(R.members)
    BY DEF SoundRows, Tables
  <2>. QED
    BY <2>4, <2>5, <2>6, FS_Union
<1>10. D.members \subseteq MemberRow
  BY <1>6 DEF SoundRows, Tables
<1>11. KeysHold(D)
  <2>1. \A m \in R.members : (\E p \in D.providers : p.id = m.provider) /\ \E q \in D.pools : q.id = m.pool
    BY <1>1 DEF SoundRows, KeysHold, ProviderOfId, PoolOfId
  <2>2. \A m \in D.members : (\E p \in D.providers : p.id = m.provider) /\ \E q \in D.pools : q.id = m.pool
    BY <1>6, <1>7, <2>1
  <2>. QED
    BY <2>2 DEF KeysHold, ProviderOfId, PoolOfId
<1>. QED
  BY <1>1, <1>4, <1>5, <1>8, <1>9, <1>10, <1>11 DEF D, SoundRows, Tables

-----------------------------------------------------------------------------
(* Writes that were checked keep the rows fit for what they ask upstream.    *)

LEMMA FitProvider ==
  ASSUME NEW R, SoundRows(R), Fit(R), NEW p, Replaces(p, R)
  PROVE  Fit(PutProvider(R, p))
<1>. DEFINE P == PutProvider(R, p)
<1>1. /\ P.providers = {r \in R.providers : r.id # p.id} \cup {p}
      /\ P.pools = R.pools /\ P.members = R.members
  BY PutProviderIs DEF SoundRows
<1>2. \A m : InImagePool(P, m) <=> InImagePool(R, m)
  BY <1>1 DEF InImagePool
<1>. HIDE DEF P
<1>3. ASSUME NEW m \in R.members, p.id = m.provider
      PROVE  EffortFitsMember(m, p) /\ (InImagePool(R, m) => ImageMember(m, p))
  <2>1. PICK q \in R.providers : q.id = m.provider
    BY DEF SoundRows, KeysHold, ProviderOfId
  <2>2. q.kind = p.kind
    BY <1>3, <2>1 DEF Replaces
  <2>3. InImagePool(R, m) => ImageMember(m, q)
    BY <2>1 DEF Fit
  <2>. QED
    BY <1>3, <2>2, <2>3 DEF Replaces, MembersStillFit, ImageMember
<1>. QED
  BY <1>1, <1>2, <1>3 DEF Fit, P, Replaces

\* A provider that nobody has a member of.
LEMMA FitNewProvider ==
  ASSUME NEW R, SoundRows(R), Fit(R), NEW p, EffortFitsProvider(p), ProviderOfId(R, p.id) = {}
  PROVE  Fit(PutProvider(R, p))
<1>1. Replaces(p, R)
  BY DEF Replaces, MembersStillFit, SoundRows, KeysHold, ProviderOfId
<1>. QED
  BY <1>1, FitProvider

LEMMA FitNewPool ==
  ASSUME NEW R, SoundRows(R), Fit(R), NEW q, PoolOfId(R, q.id) = {}
  PROVE  Fit(PutPool(R, q))
<1>. DEFINE P == PutPool(R, q)
<1>1. /\ P.pools = {r \in R.pools : r.id # q.id} \cup {q}
      /\ P.providers = R.providers /\ P.members = R.members
  BY PutPoolIs DEF SoundRows
<1>. HIDE DEF P
<1>2. \A m \in R.members : InImagePool(P, m) => InImagePool(R, m)
  BY <1>1 DEF InImagePool, SoundRows, KeysHold, PoolOfId
<1>. QED
  BY <1>1, <1>2 DEF Fit, P

LEMMA FitMember ==
  ASSUME NEW R, SoundRows(R), Fit(R), NEW m, MayJoin(m, R)
  PROVE  Fit(PutMember(R, m))
<1>. DEFINE P == PutMember(R, m)
<1>1. /\ P.members \subseteq R.members \cup {m}
      /\ P.providers = R.providers /\ P.pools = R.pools
  BY PutMemberIs DEF SoundRows
<1>. HIDE DEF P
<1>2. \A n : InImagePool(P, n) <=> InImagePool(R, n)
  BY <1>1 DEF InImagePool
<1>. QED
  BY <1>1, <1>2 DEF Fit, P, MayJoin

LEMMA FitDropped ==
  ASSUME NEW R, Fit(R), NEW D, D.providers \subseteq R.providers,
         D.pools \subseteq R.pools, D.members \subseteq R.members
  PROVE  Fit(D)
  BY DEF Fit, InImagePool

LEMMA FitDirect ==
  ASSUME NEW R, SoundRows(R), Fit(R), 
         \A m \in DirectPools(R).members \ R.members : ~InImagePool(DirectPools(R), m)
  PROVE  Fit(DirectPools(R))
<1>. DEFINE D == DirectPools(R)
<1>1. /\ D.providers = R.providers
      /\ \A q \in D.pools \ R.pools : q.modality = "chat"
      /\ \A m \in D.members \ R.members : m.effort = None
  BY DirectPoolsAre DEF SoundRows
<1>2. \A m \in D.members \ R.members : ~InImagePool(D, m)
  OBVIOUS
<1>. HIDE DEF D
<1>3. \A m : InImagePool(D, m) => InImagePool(R, m)
  BY <1>1 DEF InImagePool
<1>. QED
  BY <1>1, <1>2, <1>3 DEF Fit, D, EffortFitsMember


-----------------------------------------------------------------------------
(* One write of an admin handler. *)

LEMMA WrittenSound ==
  ASSUME SoundRows(rows), NEW e, ToWrite(e)
  PROVE  SoundRows(Written(e))
<1>. DEFINE d == e.data
<1>0. /\ e.what \in {"create_provider", "patch_provider"} => e.data \in ProviderRow
      /\ e.what = "create_pool" => e.data \in PoolRow
      /\ e.what = "put_member" => e.data \in MemberRow
      /\ e.what = "import" => e.data \in Dumps
  BY EditData
<1>1. CASE e.what \in {"create_provider", "patch_provider"}
  BY <1>0, <1>1, ProviderPut DEF Written
<1>2. CASE e.what = "delete_provider"
  BY <1>2, ProviderDropped DEF Written
<1>3. CASE e.what = "disconnect"
  <2>1. rows.tokens \ {d} \in SUBSET Provider
    BY DEF SoundRows
  <2>. QED
    BY <1>3, <2>1, TokensPut DEF Written
<1>4. CASE e.what = "create_pool"
  BY <1>0, <1>4, PoolPut DEF Written
<1>5. CASE e.what = "delete_pool"
  BY <1>5, PoolDropped DEF Written
<1>6. CASE e.what = "put_member"
  BY <1>0, <1>6, MemberPut DEF Written
<1>7. CASE e.what = "delete_member"
  <2>. DEFINE M == {m \in rows.members : ~(m.pool = d.pool /\ m.provider = d.provider
                                            /\ m.model \in d.models)}
  <2>1. M \in SUBSET rows.members
    OBVIOUS
  <2>2. Written(e) = [rows EXCEPT !.members = M]
    BY <1>7 DEF Written
  <2>. HIDE DEF M
  <2>. QED
    BY <2>1, <2>2, MembersDropped
<1>8. CASE e.what = "import"
  BY <1>0, <1>8, DumpImported DEF Written
<1>9. CASE e.what \notin {"create_provider", "patch_provider", "delete_provider", "disconnect",
                          "create_pool", "delete_pool", "put_member", "delete_member", "import"}
  BY <1>9 DEF Written
<1>. QED
  BY <1>1, <1>2, <1>3, <1>4, <1>5, <1>6, <1>7, <1>8, <1>9

LEMMA WrittenFit ==
  ASSUME SoundRows(rows), Fit(rows), NEW o, Vetted(o, rows), o.at = "write", ~SkipsCheck(o)
  PROVE  Fit(Written(o.edit))
<1>. DEFINE e == o.edit
            d == e.data
<1>1. CASE e.what = "create_provider"
  BY <1>1, FitNewProvider DEF Written, Vetted
<1>2. CASE e.what = "patch_provider"
  BY <1>2, FitProvider DEF Written, Vetted, SkipsCheck
<1>3. CASE e.what = "create_pool"
  BY <1>3, FitNewPool DEF Written
<1>4. CASE e.what = "put_member"
  BY <1>4, FitMember DEF Written, Vetted, SkipsCheck
<1>5. CASE e.what \in {"delete_provider", "delete_pool"}
  BY <1>5, FitDropped DEF Written, DropProvider, DropPool
<1>6. CASE e.what = "disconnect"
  <2>1. Written(e) = [providers |-> rows.providers, pools |-> rows.pools, members |-> rows.members,
                      tokens |-> rows.tokens \ {d}]
    BY <1>6, TokensAre DEF Written, SoundRows
  <2>. QED
    BY <2>1, FitDropped
<1>7. CASE e.what = "delete_member"
  <2>. DEFINE M == {m \in rows.members : ~(m.pool = d.pool /\ m.provider = d.provider
                                            /\ m.model \in d.models)}
  <2>1. Written(e) = [rows EXCEPT !.members = M]
    BY <1>7 DEF Written
  <2>2. Written(e) = [providers |-> rows.providers, pools |-> rows.pools, members |-> M,
                      tokens |-> rows.tokens]
    BY <2>1, MembersAre DEF SoundRows
  <2>. QED
    BY <2>2, FitDropped
<1>8. CASE e.what \notin {"create_provider", "patch_provider", "delete_provider", "disconnect",
                          "create_pool", "delete_pool", "put_member", "delete_member", "import"}
  BY <1>8 DEF Written
<1>. QED
  BY <1>1, <1>2, <1>3, <1>4, <1>5, <1>6, <1>7, <1>8 DEF SkipsCheck

\* A member that passes upsert_member's checks may join.
LEMMA PassedMember ==
  ASSUME SoundRows(rows), NEW e, e.what = "put_member", Passes(e)
  PROVE  MayJoin(e.data, rows)
<1>. DEFINE d == e.data
<1>1. PICK q \in PoolOfId(rows, d.pool) : TRUE
  BY DEF Passes
<1>2. \A r \in PoolOfId(rows, d.pool) : \E p \in ProviderOfId(rows, d.provider) :
        (r.modality = "image" => ImageMember(d, p)) /\ EffortFitsMember(d, p)
  BY DEF Passes
<1>. HIDE DEF d
<1>3. ASSUME NEW p \in rows.providers, p.id = d.provider
      PROVE  EffortFitsMember(d, p) /\ (InImagePool(rows, d) => ImageMember(d, p))
  <2>1. \A r \in ProviderOfId(rows, d.provider) : r = p
    BY <1>3 DEF ProviderOfId, SoundRows, Tables
  <2>2. EffortFitsMember(d, p)
    BY <1>1, <1>2, <2>1
  <2>3. ASSUME InImagePool(rows, d) PROVE ImageMember(d, p)
    <3>1. PICK r \in PoolOfId(rows, d.pool) : r.modality = "image"
      BY <2>3 DEF InImagePool, PoolOfId
    <3>. QED
      BY <1>2, <2>1, <3>1
  <2>. QED
    BY <2>2, <2>3
<1>. QED
  BY <1>3 DEF MayJoin, d

-----------------------------------------------------------------------------
(* What the others hold after a write. *)

LEMMA Idling ==
  /\ Idle \in Frame /\ [Idle EXCEPT !.at = "load"] \in Frame
  /\ Idle.at = "idle" /\ [Idle EXCEPT !.at = "load"].at = "load"
  /\ \A R : Fine(Idle, R) /\ Fine([Idle EXCEPT !.at = "load"], R)
<1>1. NoView \in ViewType
  BY DEF NoView, ViewType
<1>2. Idle \in Frame /\ Idle.at = "idle" /\ ~Idle.clean
  BY <1>1 DEF Idle, Frame, AdminPlaces
<1>3. /\ [Idle EXCEPT !.at = "load"] \in Frame /\ [Idle EXCEPT !.at = "load"].at = "load"
      /\ [Idle EXCEPT !.at = "load"].clean = Idle.clean
  BY <1>2 DEF Frame, AdminPlaces, Loading
<1>. QED
  BY <1>2, <1>3 DEF Fine, Holds, Loads, Vetted

\* Rows that look alike are worth the same to whoever has read them.
LEMMA SameView ==
  ASSUME NEW R, NEW S, View(R) = View(S)
  PROVE  /\ R.providers = S.providers /\ R.pools = S.pools /\ R.members = S.members
         /\ \A p : Replaces(p, R) => Replaces(p, S)
         /\ \A m : MayJoin(m, R) => MayJoin(m, S)
         /\ Fit(R) => Fit(S)
<1>1. R.providers = S.providers /\ R.pools = S.pools /\ R.members = S.members
  BY DEF View
<1>2. \A m : InImagePool(R, m) <=> InImagePool(S, m)
  BY <1>1 DEF InImagePool
<1>. QED
  BY <1>1, <1>2 DEF Replaces, MembersStillFit, MayJoin, Fit

LEMMA Overtaken ==
  ASSUME op \in [Admin -> Frame]
  PROVE  /\ Disturbed(op) \in [Admin -> Frame]
         /\ \A a \in Admin : Disturbed(op)[a].at = op[a].at
         /\ \A a \in Admin : Fine(op[a], rows) => Fine(Disturbed(op)[a], rows')
<1>1. ASSUME NEW a \in Admin
      PROVE  /\ Disturbed(op)[a] \in Frame
             /\ Disturbed(op)[a].at = op[a].at /\ Disturbed(op)[a].edit = op[a].edit
             /\ Disturbed(op)[a].load = op[a].load /\ Disturbed(op)[a].left = op[a].left
             /\ Disturbed(op)[a].clean <=> op[a].clean /\ View(rows') = View(rows)
  <2>. DEFINE c == op[a].clean /\ View(rows') = View(rows)
  <2>1. Disturbed(op)[a] = [op[a] EXCEPT !.clean = c]
    BY DEF Disturbed
  <2>2. op[a] \in Frame /\ c \in BOOLEAN
    OBVIOUS
  <2>. HIDE DEF c
  <2>3. [op[a] EXCEPT !.clean = c] \in Frame
    BY <2>2 DEF Frame
  <2>4. [op[a] EXCEPT !.clean = c].clean = c
    BY <2>2 DEF Frame
  <2>5. Disturbed(op)[a].clean <=> c
    BY <2>1, <2>4
  <2>. QED
    BY <2>1, <2>2, <2>3, <2>5 DEF Frame, c
<1>3. Disturbed(op) \in [Admin -> Frame]
  BY <1>1 DEF Disturbed
<1>4. ASSUME NEW a \in Admin, Fine(op[a], rows) PROVE Fine(Disturbed(op)[a], rows')
  <2>1. Holds(Disturbed(op)[a])
    BY <1>1, <1>4 DEF Fine, Holds
  <2>2. CASE op[a].clean /\ View(rows') = View(rows)
    <3>1. MembersBeside(rows', op[a].left) = MembersBeside(rows, op[a].left)
      BY <2>2, SameView DEF MembersBeside
    <3>2. Loads(Disturbed(op)[a], rows')
      BY <1>1, <1>4, <2>2, <3>1, SameView DEF Fine, Loads
    <3>. QED
      BY <1>1, <1>4, <2>1, <2>2, <3>2, SameView DEF Fine, Vetted
  <2>3. CASE ~(op[a].clean /\ View(rows') = View(rows))
    BY <1>1, <1>4, <2>3 DEF Fine, Loads, Vetted, Holds
  <2>. QED
    BY <2>2, <2>3
<1>. QED
  BY <1>1, <1>3, <1>4

-----------------------------------------------------------------------------
(* Each step of the server's. *)

LEMMA InitCatalog == CatalogInit => CatalogIInv
<1>. SUFFICES ASSUME CatalogInit PROVE CatalogIInv
  OBVIOUS
<1>1. SoundRows(rows) /\ Fit(rows)
  BY RowsAssumption DEF CatalogInit, SoundRows, IsRows
<1>2. served \in ViewType /\ served = View(rows)
  BY <1>1 DEF CatalogInit, View, ViewType, SoundRows, Tables
<1>3. op \in [Admin -> Frame] /\ \A a \in Admin : Fine(op[a], rows)
  BY Idling DEF CatalogInit
<1>4. lost = FALSE /\ unchecked = FALSE /\ edits \in 0..MaxEdits
  BY CatalogAssumption DEF CatalogInit
<1>. QED
  BY <1>1, <1>2, <1>3, <1>4 DEF CatalogIInv, ServedIsStored, RowsFit

\* A handler goes on and the rows stay: what remains to show is the handler.
LEMMA GoesOn ==
  ASSUME CatalogIInv, NEW a \in Admin, NEW o \in Frame, Go(a, o), Fine(o, rows),
         UNCHANGED <<rows, served, unchecked>>, lost' \in BOOLEAN, edits' \in 0..MaxEdits,
         lost => lost', op[a].at \in Loading /\ o.at \notin Loading => lost'
  PROVE  CatalogIInv'
<1>1. op' \in [Admin -> Frame] /\ \A b \in Admin : op'[b] = IF b = a THEN o ELSE op[b]
  BY DEF CatalogIInv, Go
<1>2. \A b \in Admin : Fine(op'[b], rows')
  BY <1>1 DEF CatalogIInv
<1>3. ServedIsStored'
  <2>. SUFFICES ASSUME \A b \in Admin : op'[b].at \notin Loading, ~lost' PROVE served = View(rows)
    BY DEF ServedIsStored
  <2>1. \A b \in Admin : op[b].at \notin Loading
    BY <1>1
  <2>. QED
    BY <2>1 DEF CatalogIInv, ServedIsStored
<1>4. RowsFit'
  BY DEF CatalogIInv, RowsFit
<1>. QED
  BY <1>1, <1>2, <1>3, <1>4 DEF CatalogIInv

LEMMA AskKeeps == ASSUME CatalogIInv, NEW a \in Admin, NEW e \in Edits, Ask(a, e) PROVE CatalogIInv'
<1>. DEFINE o == [Idle EXCEPT !.at = "check", !.edit = e]
<1>1. o \in Frame /\ o.at = "check" /\ o.edit = e /\ ~o.clean
  <2>1. Idle \in Frame /\ Idle.clean = FALSE
    BY Idling DEF Idle
  <2>. HIDE DEF Idle
  <2>2. [Idle EXCEPT !.at = "check"] \in Frame /\ [Idle EXCEPT !.at = "check"].at = "check"
        /\ [Idle EXCEPT !.at = "check"].clean = FALSE
    BY <2>1 DEF Frame, AdminPlaces
  <2>. QED
    BY <2>2 DEF Frame
<1>2. Fine(o, rows)
  BY <1>1 DEF Fine, Holds, Loads, Vetted
<1>3. op[a].at = "idle" /\ edits' \in 0..MaxEdits
  BY CatalogAssumption DEF Ask, CatalogIInv
<1>. HIDE DEF o
<1>4. Go(a, o) /\ UNCHANGED <<rows, served, unchecked, lost>>
  BY DEF Ask, o
<1>. QED
  BY <1>1, <1>2, <1>3, <1>4, GoesOn DEF Loading, CatalogIInv

LEMMA GiveUpKeeps == ASSUME CatalogIInv, NEW a \in Admin, GiveUp(a) PROVE CatalogIInv'
<1>1. lost' \in BOOLEAN /\ (lost => lost') /\ (op[a].at \in Loading => lost')
  BY DEF GiveUp, CatalogIInv
<1>. QED
  BY <1>1, Idling, GoesOn DEF GiveUp, CatalogIInv

LEMMA CheckKeeps == ASSUME CatalogIInv, NEW a \in Admin, Check(a) PROVE CatalogIInv'
<1>. DEFINE e == op[a].edit
<1>1. op[a] \in Frame /\ op[a].at = "check" /\ e \in Edits /\ SoundRows(rows)
  BY DEF Check, CatalogIInv, Fine, Holds
<1>2. UNCHANGED <<rows, served, unchecked, lost, edits>> /\ lost' \in BOOLEAN /\ edits' \in 0..MaxEdits
  BY DEF Check, CatalogIInv
<1>3. CASE Go(a, Idle)
  BY <1>1, <1>2, <1>3, Idling, GoesOn DEF Loading
<1>4. ASSUME e.what = "patch_provider", NEW p \in Merged(e),
             Go(a, [op[a] EXCEPT !.at = "write", !.clean = TRUE, !.edit = Edit("patch_provider", p)])
      PROVE  CatalogIInv'
  <2>. DEFINE o == [op[a] EXCEPT !.at = "write", !.clean = TRUE, !.edit = Edit("patch_provider", p)]
              x == Edit("patch_provider", p)
  <2>1. PICK i \in Provider, h \in Patches : e = Edit("patch_provider", [id |-> i, patch |-> h])
    BY <1>1, <1>4 DEF Edits, Edit
  <2>2. p \in ProviderRow /\ Replaces(p, rows)
    BY <1>1, <2>1, <1>4, MergedRows
  <2>3. x \in Patched /\ x.what = "patch_provider" /\ x.data = p
    BY <2>2 DEF Patched, Edit
  <2>. HIDE DEF x
  <2>4. o = [[[op[a] EXCEPT !.at = "write"] EXCEPT !.clean = TRUE] EXCEPT !.edit = x]
    BY DEF x
  <2>5. [[op[a] EXCEPT !.at = "write"] EXCEPT !.clean = TRUE] \in Frame
        /\ [[op[a] EXCEPT !.at = "write"] EXCEPT !.clean = TRUE].at = "write"
    BY <1>1 DEF Frame, AdminPlaces
  <2>6. o \in Frame /\ o.at = "write" /\ o.edit = x
    BY <2>3, <2>4, <2>5 DEF Frame
  <2>. HIDE DEF o
  <2>7. Fine(o, rows)
    BY <2>2, <2>3, <2>6 DEF Fine, Holds, Loads, Vetted, ToWrite
  <2>8. Go(a, o)
    BY <1>4 DEF o
  <2>. QED
    BY <1>1, <1>2, <2>6, <2>7, <2>8, GoesOn DEF Loading
<1>5. ASSUME e.what # "patch_provider", Passes(e), Go(a, [op[a] EXCEPT !.at = "write", !.clean = TRUE])
      PROVE  CatalogIInv'
  <2>. DEFINE o == [op[a] EXCEPT !.at = "write", !.clean = TRUE]
  <2>1. o \in Frame /\ o.at = "write" /\ o.edit = e
    BY <1>1 DEF Frame, AdminPlaces
  <2>2. e.what = "create_provider" => EffortFitsProvider(e.data)
    BY <1>5 DEF Passes
  <2>3. e.what = "put_member" => MayJoin(e.data, rows)
    BY <1>1, <1>5, PassedMember
  <2>. HIDE DEF o
  <2>4. Fine(o, rows)
    BY <1>1, <1>5, <2>1, <2>2, <2>3 DEF Fine, Holds, Loads, Vetted, ToWrite
  <2>5. Go(a, o)
    BY <1>5 DEF o
  <2>. QED
    BY <1>1, <1>2, <2>1, <2>4, <2>5, GoesOn DEF Loading
<1>. QED
  BY <1>3, <1>4, <1>5 DEF Check

LEMMA LoadsKeep ==
  ASSUME CatalogIInv, NEW a \in Admin, LoadProviders(a) \/ LoadPools(a) \/ LoadMembers(a)
  PROVE  CatalogIInv'
<1>1. op[a] \in Frame /\ Loads(op[a], rows) /\ SoundRows(rows)
  BY DEF CatalogIInv, Fine
<1>2. UNCHANGED <<rows, served, unchecked, lost, edits>> /\ lost' \in BOOLEAN /\ edits' \in 0..MaxEdits
  BY DEF LoadProviders, LoadPools, LoadMembers, CatalogIInv
<1>3. /\ rows.providers \in SUBSET ProviderRow /\ rows.pools \in SUBSET PoolRow
      /\ \A P : {m \in rows.members : P} \in SUBSET MemberRow
  BY <1>1 DEF SoundRows, Tables
<1>4. ASSUME NEW v \in ViewType, NEW o \in Frame, Go(a, o), op[a].at \in Loading,
             o.at \in {"load_pools", "load_members"}, o.load = v, Loads(o, rows)
      PROVE  CatalogIInv'
  <2>1. Fine(o, rows) /\ o.at \in Loading
    BY <1>4 DEF Fine, Holds, Vetted, Loading
  <2>. QED
    BY <1>2, <1>4, <2>1, GoesOn
<1>5. CASE LoadProviders(a)
  <2>. DEFINE v == [NoView EXCEPT !.providers = rows.providers]
              o == [op[a] EXCEPT !.at = "load_pools", !.clean = TRUE, !.load = v]
  <2>1. v \in ViewType /\ v.providers = rows.providers /\ v.members = {}
    BY <1>3 DEF ViewType, NoView
  <2>2. Go(a, o) /\ op[a].at = "load"
    BY <1>5 DEF LoadProviders
  <2>. HIDE DEF v
  <2>3. o \in Frame /\ o.at = "load_pools" /\ o.load = v
    BY <1>1, <2>1 DEF Frame, AdminPlaces, Loading
  <2>. HIDE DEF o
  <2>4. Loads(o, rows)
    BY <2>1, <2>3 DEF Loads
  <2>. QED
    BY <1>4, <2>1, <2>2, <2>3, <2>4 DEF Loading
<1>6. CASE LoadPools(a)
  <2>. DEFINE v == [op[a].load EXCEPT !.pools = rows.pools]
              o == [op[a] EXCEPT !.at = "load_members", !.load = v, !.left = rows.pools]
  <2>1. /\ v \in ViewType /\ v.providers = op[a].load.providers /\ v.pools = rows.pools
        /\ v.members = op[a].load.members
    BY <1>1, <1>3 DEF ViewType, Frame
  <2>2. Go(a, o) /\ op[a].at = "load_pools"
    BY <1>6 DEF LoadPools
  <2>. HIDE DEF v
  <2>3. /\ o \in Frame /\ o.at = "load_members" /\ o.load = v /\ o.clean = op[a].clean
        /\ o.left = rows.pools
    BY <1>1, <1>3, <2>1 DEF Frame, AdminPlaces, Loading
  <2>. HIDE DEF o
  <2>4. v.members = {} /\ (op[a].clean => v.providers = rows.providers)
    BY <1>1, <2>1, <2>2 DEF Loads
  <2>5. MembersBeside(rows, rows.pools) = {}
    BY <1>1 DEF MembersBeside, SoundRows, KeysHold, PoolOfId
  <2>6. Loads(o, rows)
    BY <2>1, <2>3, <2>4, <2>5 DEF Loads
  <2>. QED
    BY <1>4, <2>1, <2>2, <2>3, <2>6 DEF Loading
<1>7. CASE LoadMembers(a)
  <2>. DEFINE q == NextPool(op[a].left)
              M == {m \in rows.members : m.pool = q.id}
              L == op[a].left \ {q}
              v == [op[a].load EXCEPT !.members = @ \cup M]
              o == [op[a] EXCEPT !.load = v, !.left = @ \ {q}]
  <2>1. op[a].at = "load_members" /\ q \in op[a].left /\ L \in SUBSET PoolRow /\ L \subseteq op[a].left
    <3>1. op[a].at = "load_members" /\ op[a].left # {} /\ op[a].left \in SUBSET PoolRow
      BY <1>1, <1>7 DEF LoadMembers, Frame
    <3>2. q \in op[a].left
      BY <3>1 DEF NextPool
    <3>. HIDE DEF q
    <3>. QED
      BY <3>1, <3>2
  <2>2. M \in SUBSET MemberRow
    BY <1>3
  <2>3. Go(a, o)
    BY <1>7 DEF LoadMembers
  <2>4. ASSUME op[a].clean PROVE MembersBeside(rows, op[a].left) \cup M = MembersBeside(rows, L)
    <3>1. op[a].left \subseteq rows.pools /\ q \in rows.pools
      BY <1>1, <2>1, <2>4 DEF Loads
    <3>2. \A r \in L : r.id # q.id
      BY <1>1, <3>1 DEF SoundRows, Tables
    <3>. QED
      BY <2>1, <3>2 DEF MembersBeside
  <2>. HIDE DEF q, M, L
  <2>5. /\ v \in ViewType /\ v.providers = op[a].load.providers /\ v.pools = op[a].load.pools
        /\ v.members = op[a].load.members \cup M
    BY <1>1, <2>2 DEF ViewType, Frame
  <2>. HIDE DEF v
  <2>6. o \in Frame /\ o.at = "load_members" /\ o.load = v /\ o.clean = op[a].clean /\ o.left = L
    BY <1>1, <2>1, <2>5 DEF Frame, AdminPlaces, Loading, L
  <2>. HIDE DEF o
  <2>7. Loads(o, rows)
    BY <1>1, <2>1, <2>4, <2>5, <2>6 DEF Loads
  <2>. QED
    BY <1>4, <2>1, <2>3, <2>5, <2>6, <2>7 DEF Loading
<1>. QED
  BY <1>5, <1>6, <1>7

LEMMA PublishKeeps == ASSUME CatalogIInv, NEW a \in Admin, Publish(a) PROVE CatalogIInv'
<1>1. /\ op[a] \in Frame /\ Loads(op[a], rows) /\ SoundRows(rows)
      /\ op[a].at = "load_members" /\ op[a].left = {}
      /\ op[a].load \in ViewType
  BY DEF CatalogIInv, Fine, Publish, Frame
<1>2. op' \in [Admin -> Frame] /\ \A b \in Admin : op'[b] = IF b = a THEN Idle ELSE op[b]
  BY Idling DEF CatalogIInv, Publish, Go
<1>3. \A b \in Admin : Fine(op'[b], rows')
  BY <1>2, Idling DEF CatalogIInv, Publish
<1>4. ServedIsStored'
  <2>1. ~lost' => op[a].load = [providers |-> rows.providers, pools |-> rows.pools,
                                members |-> rows.members]
    BY <1>1 DEF Publish, Loads, MembersBeside, ViewType
  <2>. QED
    BY <2>1 DEF Publish, ServedIsStored, View
<1>. QED
  BY <1>1, <1>2, <1>3, <1>4 DEF CatalogIInv, Publish, RowsFit

LEMMA WriteKeeps ==
  ASSUME CatalogIInv, NEW a \in Admin, Write(a) PROVE CatalogIInv'
<1>. DEFINE e == op[a].edit
<1>1. /\ op[a] \in Frame /\ op[a].at = "write" /\ SoundRows(rows) /\ Vetted(op[a], rows)
      /\ ToWrite(e)
  BY DEF Write, CatalogIInv, Fine, Holds
<1>2. CASE Go(a, Idle) /\ UNCHANGED <<rows, unchecked>>
  <2>1. UNCHANGED <<served, lost, edits>> /\ lost \in BOOLEAN /\ edits \in 0..MaxEdits
    BY DEF Write, CatalogIInv
  <2>. QED
    BY <1>1, <1>2, <2>1, Idling, GoesOn DEF Loading
<1>3. ASSUME rows' = Written(e), unchecked' = (unchecked \/ SkipsCheck(op[a])),
             op' = [Disturbed(op) EXCEPT ![a] = AfterWrite(op[a])]
      PROVE  CatalogIInv'
  <2>1. SoundRows(rows')
    BY <1>1, <1>3, WrittenSound
  <2>2. /\ Disturbed(op) \in [Admin -> Frame]
        /\ \A b \in Admin : Fine(Disturbed(op)[b], rows')
    BY Overtaken DEF CatalogIInv
  <2>3. /\ op' \in [Admin -> Frame] /\ op'[a] = [Idle EXCEPT !.at = "load"]
        /\ \A b \in Admin : Fine(op'[b], rows')
    BY <1>3, <2>2, Idling DEF AfterWrite
  <2>4. ServedIsStored'
    BY <2>3, Idling DEF ServedIsStored, Loading
  <2>5. RowsFit' /\ unchecked' \in BOOLEAN
    BY <1>1, <1>3, WrittenFit DEF RowsFit, CatalogIInv
  <2>. QED
    BY <2>1, <2>3, <2>4, <2>5 DEF CatalogIInv, Write
<1>. QED
  BY <1>2, <1>3 DEF Write

LEMMA RestartKeeps ==
  ASSUME CatalogIInv, NEW seed \in Dumps \cup {NoView}, Restart(seed) PROVE CatalogIInv'
<1>. DEFINE seeded == IF rows.providers = {} /\ KeysHold(Imported(rows, seed))
                      THEN Imported(rows, seed) ELSE rows
<1>1. /\ rows' = DirectPools(seeded) /\ served' = View(rows') /\ op' = [a \in Admin |-> Idle]
      /\ lost' = FALSE
      /\ unchecked' = (unchecked \/ seeded # rows
                         \/ \E m \in rows'.members \ seeded.members : InImagePool(rows', m))
  BY DEF Restart, Boot
<1>2. SoundRows(seeded)
  BY DumpImported DEF CatalogIInv
<1>3. RowsFit' /\ unchecked' \in BOOLEAN
  <2>1. ASSUME ~unchecked' PROVE Fit(rows')
    <3>1. seeded = rows /\ Fit(rows) /\ \A m \in rows'.members \ rows.members : ~InImagePool(rows', m)
      BY <1>1, <2>1 DEF CatalogIInv, RowsFit
    <3>. HIDE DEF seeded
    <3>. QED
      BY <1>1, <1>2, <3>1, FitDirect
  <2>. QED
    BY <1>1, <2>1 DEF RowsFit, CatalogIInv
<1>. HIDE DEF seeded
<1>4. SoundRows(rows')
  BY <1>1, <1>2, DirectPoolsOpened
<1>5. served' \in ViewType
  BY <1>1, <1>4 DEF View, ViewType, SoundRows, Tables
<1>6. op' \in [Admin -> Frame] /\ \A a \in Admin : Fine(op'[a], rows')
  BY <1>1, Idling
<1>7. ServedIsStored' /\ lost' \in BOOLEAN
  BY <1>1 DEF ServedIsStored
<1>8. edits' \in 0..MaxEdits
  BY CatalogAssumption DEF Restart, CatalogIInv
<1>. QED
  BY <1>3, <1>4, <1>5, <1>6, <1>7, <1>8 DEF CatalogIInv

LEMMA CatalogStepKeeps == CatalogIInv /\ CatalogNext => CatalogIInv'
  BY AskKeeps, CheckKeeps, WriteKeeps, LoadsKeep, PublishKeeps, GiveUpKeeps, RestartKeeps
  DEF CatalogNext

-----------------------------------------------------------------------------
(* Each step of the wizard's. *)

\* The server writes, and the wizard knows only what it has read before.
LEMMA WizardWaits ==
  ASSUME WizardIInv, ServerStep
  PROVE  WizardIInv'
<1>. DEFINE c == wiz.alone /\ (rows' = rows \/ wiz.at \in {"off", "menu"})
            d == wiz.clean /\ View(rows') = View(rows)
<1>1. wiz' = [[wiz EXCEPT !.alone = c] EXCEPT !.clean = d] /\ wiz \in WizardType
  BY DEF ServerStep, WizardIInv
<1>2. c \in BOOLEAN /\ d \in BOOLEAN
  OBVIOUS
<1>3. /\ c => wiz.alone /\ (rows' = rows \/ wiz.at \in {"off", "menu"})
      /\ d => wiz.clean /\ View(rows') = View(rows)
  OBVIOUS
<1>. HIDE DEF c, d
<1>4. [wiz EXCEPT !.alone = c] \in WizardType /\ [wiz EXCEPT !.alone = c].alone = c
  BY <1>1, <1>2 DEF WizardType
<1>5. /\ wiz' \in WizardType
      /\ wiz'.alone = c /\ wiz'.clean = d
  BY <1>1, <1>2, <1>4 DEF WizardType
<1>6. /\ wiz'.at = wiz.at /\ wiz'.kind = wiz.kind /\ wiz'.id = wiz.id /\ wiz'.pool = wiz.pool
      /\ wiz'.model = wiz.model /\ wiz'.priority = wiz.priority /\ wiz'.merged = wiz.merged
  BY <1>1, <1>4 DEF WizardType
<1>7. WizardHolds(wiz)'
  BY <1>6 DEF WizardIInv, WizardHolds
<1>8. WizardVetted(wiz, rows)'
  <2>1. CASE d
    <3>1. \A p : Replaces(p, rows) => Replaces(p, rows)'
      BY <1>3, <2>1, SameView
    <3>2. \A m : MayJoin(m, rows) => MayJoin(m, rows)'
      BY <1>3, <2>1, SameView
    <3>. QED
      BY <1>3, <1>6, <2>1, <3>1, <3>2 DEF WizardIInv, WizardVetted
  <2>2. CASE ~d
    BY <1>5, <2>2 DEF WizardVetted
  <2>. QED
    BY <2>1, <2>2
<1>9. OnItsOwn(wiz, rows)'
  BY <1>3, <1>5, <1>6 DEF WizardIInv, OnItsOwn, HasModel, HasRow
<1>. QED
  BY <1>5, <1>7, <1>8, <1>9 DEF WizardIInv

\* What the wizard's writes are to the server.
LEMMA WizardWrites ==
  ASSUME CatalogIInv, NEW R, SoundRows(R), Writes(R), unchecked' \in BOOLEAN, ~unchecked' => Fit(R)
  PROVE  CatalogIInv'
<1>1. /\ rows' = R /\ op' = Disturbed(op) /\ UNCHANGED <<served, edits>>
      /\ lost' = (lost \/ View(rows') # View(rows))
  BY DEF Writes
<1>2. /\ op' \in [Admin -> Frame] /\ \A a \in Admin : op'[a].at = op[a].at
      /\ \A a \in Admin : Fine(op'[a], rows')
  BY <1>1, Overtaken DEF CatalogIInv
<1>3. ServedIsStored'
  BY <1>1, <1>2 DEF CatalogIInv, ServedIsStored
<1>. QED
  BY <1>1, <1>2, <1>3 DEF CatalogIInv, RowsFit

LEMMA LeavesAlone ==
  ASSUME CatalogIInv, UNCHANGED <<rows, served, op, lost, unchecked>>, edits' \in 0..MaxEdits
  PROVE  CatalogIInv'
  BY DEF CatalogIInv, ServedIsStored, RowsFit

\* The wizard off, or back in its menu, holds nothing.
LEMMA AtRest ==
  /\ Off \in WizardType /\ [Off EXCEPT !.at = "menu"] \in WizardType
  /\ \A w, R : w \in {Off, [Off EXCEPT !.at = "menu"]} =>
       WizardHolds(w) /\ WizardVetted(w, R) /\ OnItsOwn(w, R)
<1>1. Off \in WizardType /\ Off.at = "off"
  BY DEF Off, WizardType, WizardPlaces, Kinds, Wires
<1>2. [Off EXCEPT !.at = "menu"] \in WizardType /\ [Off EXCEPT !.at = "menu"].at = "menu"
  BY <1>1 DEF WizardType, WizardPlaces
<1>. QED
  BY <1>1, <1>2 DEF WizardHolds, WizardVetted, OnItsOwn

LEMMA Moved ==
  ASSUME wiz \in WizardType, NEW place \in WizardPlaces, StandsAt(place)
  PROVE  /\ wiz' \in WizardType /\ wiz'.at = place
         /\ wiz'.kind = wiz.kind /\ wiz'.id = wiz.id /\ wiz'.pool = wiz.pool /\ wiz'.wire = wiz.wire
         /\ wiz'.model = wiz.model /\ wiz'.priority = wiz.priority /\ wiz'.merged = wiz.merged
         /\ wiz'.alone = wiz.alone /\ wiz'.clean = wiz.clean
  BY DEF StandsAt, WizardType

LEMMA ChooseKindKeeps ==
  ASSUME SetupIInv, NEW s \in Shapes, NEW id \in Provider, ChooseKind(s.kind, id, s.wire, s.model)
  PROVE  SetupIInv'
<1>. DEFINE at == IF s.kind = "passthrough" THEN "confirm" ELSE "insert"
            wire == IF s.kind = "passthrough" THEN s.wire ELSE "anthropic"
            model == IF s.kind = "passthrough" THEN s.model ELSE "pending"
<1>1. /\ at \in {"confirm", "insert"} /\ wire \in Wires /\ model \in Models /\ s.kind \in Kinds
      /\ at = "confirm" => s.kind = "passthrough"
      /\ s.kind # "passthrough" => model = "pending"
  BY RowsAssumption DEF Wires, Models
<1>2. wiz' = [Off EXCEPT !.at = at, !.kind = s.kind, !.id = id, !.wire = wire, !.model = model]
  BY DEF ChooseKind
<1>. HIDE DEF at, wire, model
<1>3. /\ wiz' \in WizardType /\ wiz'.at = at /\ wiz'.kind = s.kind /\ wiz'.id = id
      /\ wiz'.wire = wire /\ wiz'.model = model
  BY <1>1, <1>2, AtRest DEF WizardType, WizardPlaces
<1>4. WizardHolds(wiz)' /\ WizardVetted(wiz, rows)' /\ OnItsOwn(wiz, rows)'
  BY <1>1, <1>3 DEF WizardHolds, WizardVetted, OnItsOwn
<1>5. CatalogIInv'
  BY LeavesAlone, CatalogAssumption DEF SetupIInv, CatalogIInv, ChooseKind, TaskBegun
<1>. QED
  BY <1>3, <1>4, <1>5 DEF SetupIInv, WizardIInv

LEMMA ConfirmModelKeeps ==
  ASSUME SetupIInv, NEW m \in Models, ConfirmModel(m) PROVE SetupIInv'
<1>1. wiz \in WizardType /\ WizardHolds(wiz) /\ wiz.at = "confirm"
  BY DEF SetupIInv, WizardIInv, ConfirmModel
<1>2. wiz' \in WizardType /\ wiz'.at = "insert" /\ wiz'.model = m /\ wiz'.kind = wiz.kind /\ wiz'.id = wiz.id
  BY <1>1 DEF ConfirmModel, WizardType, WizardPlaces
<1>3. WizardHolds(wiz)' /\ WizardVetted(wiz, rows)' /\ OnItsOwn(wiz, rows)'
  BY <1>1, <1>2 DEF WizardHolds, WizardVetted, OnItsOwn
<1>4. CatalogIInv'
  BY LeavesAlone DEF SetupIInv, CatalogIInv, ConfirmModel, Untouched, catalogVars
<1>. QED
  BY <1>2, <1>3, <1>4 DEF SetupIInv, WizardIInv

LEMMA InsertProviderKeeps == ASSUME SetupIInv, InsertProvider PROVE SetupIInv'
<1>. DEFINE p == [id |-> wiz.id, kind |-> wiz.kind, wire |-> wiz.wire, model |-> wiz.model,
                  effort |-> None]
            R == PutProvider(rows, p)
<1>1. wiz \in WizardType /\ WizardHolds(wiz) /\ wiz.at = "insert" /\ SoundRows(rows)
  BY DEF SetupIInv, WizardIInv, CatalogIInv, InsertProvider
<1>2. CASE Exit /\ Untouched
  BY <1>2, AtRest, LeavesAlone
  DEF SetupIInv, WizardIInv, CatalogIInv, Exit, Untouched, catalogVars
<1>3. ASSUME ProviderOfId(rows, wiz.id) = {}, Writes(R), UNCHANGED unchecked,
             NEW place \in {"announce", "pkce", "key"}, StandsAt(place),
             place = "announce" <=> wiz.kind = "passthrough"
      PROVE  SetupIInv'
  <2>1. p \in ProviderRow /\ p.id = wiz.id /\ p.kind = wiz.kind /\ p.model = wiz.model /\ p.effort = None
    BY <1>1, Kindly DEF ProviderRow, WizardHolds, WizardType
  <2>. HIDE DEF p
  <2>2. SoundRows(R) /\ p \in R.providers
    BY <1>1, <2>1, ProviderPut, PutProviderIs DEF SoundRows
  <2>3. Fit(rows) => Fit(R)
    BY <1>1, <1>3, <2>1, FitNewProvider DEF EffortFitsProvider
  <2>4. CatalogIInv'
    <3>. HIDE DEF R
    <3>. QED
      BY <1>3, <2>2, <2>3, WizardWrites DEF SetupIInv, CatalogIInv, RowsFit
  <2>5. /\ wiz' \in WizardType /\ wiz'.at = place /\ wiz'.id = wiz.id /\ wiz'.kind = wiz.kind
        /\ wiz'.model = wiz.model
    BY <1>1, <1>3, Moved DEF WizardPlaces
  <2>6. HasModel(wiz, rows)'
    BY <1>3, <2>1, <2>2, <2>5 DEF HasModel, Writes
  <2>7. WizardHolds(wiz)' /\ WizardVetted(wiz, rows)' /\ OnItsOwn(wiz, rows)'
    BY <1>1, <1>3, <2>5, <2>6 DEF WizardHolds, WizardVetted, OnItsOwn
  <2>. QED
    BY <2>4, <2>5, <2>7 DEF SetupIInv, WizardIInv
<1>4. ASSUME ProviderOfId(rows, wiz.id) = {}, Writes(R), Checked,
             StandsAt(CASE wiz.kind = "passthrough" -> "announce"
                        [] wiz.kind = "codex" -> "pkce"
                        [] wiz.kind = "commandcode" -> "key")
      PROVE  SetupIInv'
  <2>. DEFINE place == CASE wiz.kind = "passthrough" -> "announce"
                         [] wiz.kind = "codex" -> "pkce"
                         [] wiz.kind = "commandcode" -> "key"
  <2>1. place \in {"announce", "pkce", "key"} /\ (place = "announce" <=> wiz.kind = "passthrough")
    BY <1>1 DEF WizardType, Kinds
  <2>. HIDE DEF place, R
  <2>2. StandsAt(place)
    BY <1>4 DEF place
  <2>. QED
    BY <1>3, <1>4, <2>1, <2>2 DEF Checked
<1>. QED
  BY <1>2, <1>4 DEF InsertProvider

\* An error, or the end of a task: back in the menu, or out.
LEMMA Rests ==
  ASSUME CatalogIInv', wiz' \in {Off, [Off EXCEPT !.at = "menu"]}
  PROVE  SetupIInv'
  BY AtRest DEF SetupIInv, WizardIInv

\* A step that writes nothing.
LEMMA Unwritten == ASSUME SetupIInv, Untouched PROVE CatalogIInv'
  BY LeavesAlone DEF SetupIInv, CatalogIInv, Untouched, catalogVars

LEMMA RestsKeep ==
  ASSUME SetupIInv, StartWizard \/ QuitWizard \/ Announce PROVE SetupIInv'
  BY Rests, Unwritten DEF StartWizard, QuitWizard, Announce, Exit

LEMMA StorePkceKeeps == ASSUME SetupIInv, StorePkce PROVE SetupIInv'
<1>1. CatalogIInv' /\ rows' = rows
  BY Unwritten DEF StorePkce, Untouched, catalogVars
<1>2. CASE Exit
  BY <1>1, <1>2, Rests DEF Exit
<1>3. CASE StandsAt("paste")
  <2>1. wiz \in WizardType /\ wiz.at = "pkce" /\ "paste" \in WizardPlaces
    BY DEF SetupIInv, WizardIInv, StorePkce, WizardPlaces
  <2>2. /\ wiz' \in WizardType /\ wiz'.at = "paste" /\ wiz'.id = wiz.id /\ wiz'.kind = wiz.kind
        /\ wiz'.model = wiz.model /\ wiz'.alone = wiz.alone
    BY <1>3, <2>1, Moved
  <2>. QED
    BY <1>1, <2>1, <2>2
    DEF SetupIInv, WizardIInv, WizardHolds, WizardVetted, OnItsOwn, HasModel
<1>. QED
  BY <1>2, <1>3 DEF StorePkce

\* Somebody has logged in for the provider, and the wizard goes on to probe it.
LEMMA LoggedIn ==
  ASSUME SetupIInv, wiz.at \in {"paste", "store"}, StandsAt("probe"),
         Writes([rows EXCEPT !.tokens = @ \cup {wiz.id}]), UNCHANGED unchecked
  PROVE  SetupIInv'
<1>. DEFINE T == rows.tokens \cup {wiz.id}
            R == [rows EXCEPT !.tokens = T]
<1>1. /\ wiz \in WizardType /\ WizardHolds(wiz) /\ OnItsOwn(wiz, rows) /\ SoundRows(rows)
      /\ wiz.id \in Provider /\ wiz.model = "pending"
  BY DEF SetupIInv, WizardIInv, CatalogIInv, WizardHolds
<1>2. T \in SUBSET Provider
  BY <1>1 DEF SoundRows
<1>3. R = [providers |-> rows.providers, pools |-> rows.pools, members |-> rows.members, tokens |-> T]
  BY <1>1, TokensAre DEF SoundRows
<1>4. SoundRows(R)
  BY <1>1, <1>2, TokensPut
<1>5. Fit(rows) => Fit(R)
  BY <1>3, FitDropped
<1>6. rows' = R /\ Writes(R)
  BY DEF Writes
<1>7. rows'.providers = rows.providers /\ wiz.id \in rows'.tokens
  BY <1>3, <1>6
<1>. HIDE DEF R, T
<1>8. CatalogIInv'
  BY <1>4, <1>5, <1>6, WizardWrites DEF SetupIInv, CatalogIInv, RowsFit
<1>9. /\ wiz' \in WizardType /\ wiz'.at = "probe" /\ wiz'.id = wiz.id /\ wiz'.kind = wiz.kind
      /\ wiz'.model = wiz.model /\ wiz'.alone = wiz.alone
  BY <1>1, Moved DEF WizardPlaces
<1>10. WizardHolds(wiz)' /\ WizardVetted(wiz, rows)' /\ OnItsOwn(wiz, rows)'
  BY <1>1, <1>7, <1>9 DEF WizardHolds, WizardVetted, OnItsOwn, HasModel
<1>. QED
  BY <1>8, <1>9, <1>10 DEF SetupIInv, WizardIInv

LEMMA PasteKeeps == ASSUME SetupIInv, NEW ok \in BOOLEAN, Paste(ok) PROVE SetupIInv'
<1>1. CASE ok
  BY <1>1, LoggedIn DEF Paste, AfterExchange, Checked
<1>2. CASE ~ok
  <2>1. wiz \in WizardType /\ wiz.at = "paste" /\ "paste" \in WizardPlaces /\ StandsAt("paste")
    BY <1>2 DEF SetupIInv, WizardIInv, Paste, AfterExchange, WizardPlaces
  <2>2. /\ wiz' \in WizardType /\ wiz'.at = wiz.at /\ wiz'.id = wiz.id /\ wiz'.kind = wiz.kind
        /\ wiz'.model = wiz.model /\ wiz'.alone = wiz.alone
    BY <2>1, Moved
  <2>3. CatalogIInv' /\ rows' = rows
    BY <1>2, Unwritten DEF Paste, Untouched, catalogVars
  <2>. QED
    BY <2>1, <2>2, <2>3
    DEF SetupIInv, WizardIInv, WizardHolds, WizardVetted, OnItsOwn, HasModel
<1>. QED
  BY <1>1, <1>2

LEMMA ObtainKeyKeeps == ASSUME SetupIInv, NEW ok \in BOOLEAN, ObtainKey(ok) PROVE SetupIInv'
<1>1. CatalogIInv' /\ rows' = rows
  BY Unwritten DEF ObtainKey, Untouched, catalogVars
<1>2. CASE Exit
  BY <1>1, <1>2, Rests DEF Exit
<1>3. CASE StandsAt("store")
  <2>1. wiz \in WizardType /\ wiz.at = "key" /\ "store" \in WizardPlaces
    BY DEF SetupIInv, WizardIInv, ObtainKey, WizardPlaces
  <2>2. /\ wiz' \in WizardType /\ wiz'.at = "store" /\ wiz'.id = wiz.id /\ wiz'.kind = wiz.kind
        /\ wiz'.model = wiz.model /\ wiz'.alone = wiz.alone
    BY <1>3, <2>1, Moved
  <2>. QED
    BY <1>1, <2>1, <2>2
    DEF SetupIInv, WizardIInv, WizardHolds, WizardVetted, OnItsOwn, HasModel
<1>. QED
  BY <1>2, <1>3 DEF ObtainKey

LEMMA StoreKeyKeeps == ASSUME SetupIInv, StoreKey PROVE SetupIInv'
  BY LoggedIn, Rests, Unwritten DEF StoreKey, Exit, Checked

LEMMA ProbeKeeps == ASSUME SetupIInv, NEW m \in Models, Probe(m) PROVE SetupIInv'
<1>. DEFINE place == IF m = "pending" /\ wiz.kind = "codex" THEN "announce" ELSE "update"
<1>1. /\ wiz \in WizardType /\ wiz.at = "probe" /\ WizardHolds(wiz) /\ OnItsOwn(wiz, rows)
      /\ wiz.model = "pending" /\ wiz.id \in Provider
  BY DEF SetupIInv, WizardIInv, Probe, WizardHolds
<1>2. CatalogIInv' /\ rows' = rows
  BY Unwritten DEF Probe, Untouched, catalogVars
<1>3. /\ place \in {"announce", "update"} /\ place \in WizardPlaces
      /\ (place = "announce" => m = "pending")
      /\ wiz' = [[wiz EXCEPT !.model = m] EXCEPT !.at = place]
  BY DEF Probe, WizardPlaces
<1>. HIDE DEF place
<1>4. /\ wiz' \in WizardType /\ wiz'.at = place /\ wiz'.model = m /\ wiz'.id = wiz.id
      /\ wiz'.kind = wiz.kind /\ wiz'.alone = wiz.alone
  BY <1>1, <1>3 DEF WizardType
<1>5. WizardHolds(wiz)' /\ WizardVetted(wiz, rows)'
  BY <1>1, <1>3, <1>4 DEF WizardHolds, WizardVetted
<1>6. OnItsOwn(wiz, rows)'
  BY <1>1, <1>2, <1>3, <1>4 DEF OnItsOwn, HasModel, HasRow
<1>. QED
  BY <1>2, <1>4, <1>5, <1>6 DEF SetupIInv, WizardIInv

\* A set of numbers has a least one.
LEMMA Least == ASSUME NEW T \in SUBSET Nat, T # {} PROVE \E x \in T : \A y \in T : x <= y
<1>1. PICK x \in T : \A y \in T : <<y, x>> \notin OpToRel(<, Nat)
  BY NatLessThanWellFounded, WFMin
<1>2. ASSUME NEW y \in T PROVE x <= y
  <2>1. y < x => <<y, x>> \in OpToRel(<, Nat)
    BY DEF OpToRel
  <2>2. x \in Nat /\ y \in Nat /\ ~(y < x)
    BY <1>1, <2>1
  <2>. QED
    BY <2>2
<1>. QED
  BY <1>2

\* A list of numbers has an upper bound: a shortest one that has none would be
\* empty, or have a shorter one that has none.
Unbounded(n) == \E f \in [1..n -> Nat] : \A b \in Nat : \E i \in 1..n : f[i] > b

LEMMA Bounded == ASSUME NEW n \in Nat PROVE ~Unbounded(n)
<1>. DEFINE T == {k \in Nat : Unbounded(k)}
<1>. SUFFICES ASSUME T # {} PROVE FALSE
  OBVIOUS
<1>0. PICK t \in T : \A y \in T : t <= y
  BY Least
<1>1. PICK k \in Nat : Unbounded(k) /\ \A y \in T : k <= y
  BY <1>0
<1>. HIDE <1>0
<1>2. PICK f \in [1..k -> Nat] : \A b \in Nat : \E i \in 1..k : f[i] > b
  BY <1>1 DEF Unbounded
<1>3. k \in Nat /\ k # 0
  BY <1>2
<1>4. k - 1 \in Nat /\ ~Unbounded(k - 1)
  BY <1>1, <1>3
<1>. DEFINE g == [i \in 1..(k - 1) |-> f[i]]
<1>5. g \in [1..(k - 1) -> Nat]
  <2>1. \A i \in 1..(k - 1) : i \in 1..k
    BY <1>3
  <2>2. \A i \in 1..(k - 1) : f[i] \in Nat
    BY <2>1
  <2>. QED
    BY <2>2
<1>6. PICK b \in Nat : \A i \in 1..(k - 1) : ~(g[i] > b)
  BY <1>4, <1>5 DEF Unbounded
<1>7. ASSUME NEW i \in 1..(k - 1) PROVE f[i] <= b
  <2>1. i \in 1..k
    BY <1>3
  <2>2. f[i] \in Nat
    BY <2>1
  <2>3. ~(f[i] > b)
    BY <1>6
  <2>. QED
    BY <2>2, <2>3
<1>8. PICK c \in Nat : b <= c /\ f[k] <= c
  <2>1. f[k] \in Nat
    BY <1>2, <1>3
  <2>2. b <= f[k] \/ f[k] <= b
    BY <2>1
  <2>. QED
    BY <2>1, <2>2
<1>9. ASSUME NEW i \in 1..k PROVE ~(f[i] > c)
  <2>1. f[i] \in Nat
    OBVIOUS
  <2>2. CASE i = k
    BY <1>8, <2>1, <2>2
  <2>3. CASE i # k
    <3>1. i \in 1..(k - 1)
      BY <1>3, <2>3
    <3>2. f[i] <= b
      BY <1>7, <3>1
    <3>. QED
      BY <1>8, <2>1, <3>2
  <2>. QED
    BY <2>2, <2>3
<1>. QED
  BY <1>2, <1>9

\* A finite set of numbers has a greatest one: its least upper bound.
LEMMA Greatest ==
  ASSUME NEW S \in SUBSET Nat, S # {}, IsFiniteSet(S)
  PROVE  Max(S) \in S
<1>. DEFINE U == {b \in Nat : \A x \in S : x <= b}
<1>0. PICK n \in Nat : ExistsSurjection(1..n, S)
  BY FS_NatSurjection
<1>1. PICK f \in [1..n -> S] : \A x \in S : \E i \in 1..n : f[i] = x
  BY <1>0 DEF ExistsSurjection, Surjection
<1>2. U # {}
  <2>1. f \in [1..n -> Nat]
    OBVIOUS
  <2>2. PICK b \in Nat : \A i \in 1..n : ~(f[i] > b)
    BY <2>1, Bounded DEF Unbounded
  <2>3. \A i \in 1..n : f[i] <= b
    BY <2>1, <2>2
  <2>. QED
    BY <1>1, <2>3
<1>3. PICK u \in U : \A b \in U : u <= b
  BY <1>2, Least
<1>4. u \in S
  <2>. SUFFICES ASSUME u \notin S PROVE FALSE
    OBVIOUS
  <2>1. u \in Nat /\ \A x \in S : x \in Nat /\ x < u
    OBVIOUS
  <2>2. u # 0
    <3>1. PICK x \in S : TRUE
      OBVIOUS
    <3>2. x \in Nat /\ x < u
      BY <2>1
    <3>. QED
      BY <2>1, <3>2
  <2>3. u - 1 \in Nat /\ \A x \in S : x <= u - 1
    BY <2>1, <2>2
  <2>4. u - 1 \in U
    BY <2>3
  <2>5. u <= u - 1
    BY <1>3, <2>4
  <2>. QED
    BY <2>1, <2>5
<1>. QED
  BY <1>4 DEF Max

\* One past the highest of finitely many priorities is a number.
LEMMA PriorityIsNumber ==
  ASSUME NEW M \in SUBSET MemberRow, IsFiniteSet(M)
  PROVE  NextPriority(M) \in Nat
<1>. DEFINE P == {m.priority : m \in M}
<1>1. IsFiniteSet(P)
  <2>. DEFINE f == [m \in M |-> m.priority]
  <2>1. f \in Surjection(M, P)
    BY DEF Surjection
  <2>. QED
    BY <2>1, FS_Surjection
<1>2. IsFiniteSet({0} \cup P) /\ {0} \cup P \in SUBSET Nat
  BY <1>1, FS_AddElement DEF MemberRow
<1>. QED
  BY <1>2, Greatest DEF NextPriority

LEMMA CheckModelKeeps == ASSUME SetupIInv, CheckModel PROVE SetupIInv'
<1>. DEFINE h == [field |-> "model", value |-> wiz.model]
            e == Edit("patch_provider", [id |-> wiz.id, patch |-> h])
            M == Merged(e)
<1>1. /\ wiz \in WizardType /\ wiz.at = "update" /\ WizardHolds(wiz) /\ OnItsOwn(wiz, rows)
      /\ wiz.id \in Provider /\ wiz.model \in Models /\ SoundRows(rows)
  BY DEF SetupIInv, CatalogIInv, WizardIInv, CheckModel, WizardHolds
<1>2. CatalogIInv' /\ rows' = rows
  BY Unwritten DEF CheckModel, Untouched, catalogVars
<1>3. CASE Exit
  BY <1>2, <1>3, Rests DEF Exit
<1>4. CASE wiz' = [wiz EXCEPT !.at = "merged", !.merged = M, !.clean = TRUE]
  <2>1. \A p \in M : p \in ProviderRow /\ p.id = wiz.id /\ Replaces(p, rows) /\ p.model = wiz.model
    <3>1. h \in [field : {"model"}, value : Models] /\ h.field = "model" /\ h.value = wiz.model
      BY <1>1
    <3>. HIDE DEF h
    <3>. QED
      BY <1>1, <3>1, MergedRows
  <2>. HIDE DEF M
  <2>2. M \in SUBSET ProviderRow
    BY <2>1
  <2>3. wiz' = [[[wiz EXCEPT !.at = "merged"] EXCEPT !.merged = M] EXCEPT !.clean = TRUE]
    BY <1>4
  <2>4. /\ [wiz EXCEPT !.at = "merged"] \in WizardType
        /\ [wiz EXCEPT !.at = "merged"].at = "merged" /\ [wiz EXCEPT !.at = "merged"].id = wiz.id
        /\ [wiz EXCEPT !.at = "merged"].kind = wiz.kind
        /\ [wiz EXCEPT !.at = "merged"].model = wiz.model
        /\ [wiz EXCEPT !.at = "merged"].alone = wiz.alone
    BY <1>1 DEF WizardType, WizardPlaces
  <2>5. /\ wiz' \in WizardType /\ wiz'.at = "merged" /\ wiz'.merged = M /\ wiz'.id = wiz.id
        /\ wiz'.kind = wiz.kind /\ wiz'.model = wiz.model /\ wiz'.alone = wiz.alone
    BY <2>2, <2>3, <2>4 DEF WizardType
  <2>6. WizardHolds(wiz)' /\ WizardVetted(wiz, rows)'
    BY <1>1, <1>2, <2>1, <2>5 DEF WizardHolds, WizardVetted
  <2>7. OnItsOwn(wiz, rows)'
    <3>1. wiz.alone => HasRow(wiz, rows) /\ \A p \in M : p.kind = wiz.kind
      BY <1>1, <2>1 DEF OnItsOwn, HasRow, Replaces
    <3>. QED
      BY <1>1, <1>2, <2>1, <2>5, <3>1 DEF OnItsOwn, HasRow
  <2>. QED
    BY <1>2, <2>5, <2>6, <2>7 DEF SetupIInv, WizardIInv
<1>. QED
  BY <1>3, <1>4 DEF CheckModel

LEMMA UpdateModelKeeps == ASSUME SetupIInv, UpdateModel PROVE SetupIInv'
<1>1. /\ wiz \in WizardType /\ wiz.at = "merged" /\ WizardHolds(wiz) /\ OnItsOwn(wiz, rows)
      /\ WizardVetted(wiz, rows) /\ wiz.id \in Provider /\ SoundRows(rows)
  BY DEF SetupIInv, CatalogIInv, WizardIInv, UpdateModel, WizardHolds
<1>2. /\ wiz' \in WizardType /\ wiz'.at = "announce" /\ wiz'.id = wiz.id
      /\ wiz'.kind = wiz.kind /\ wiz'.model = wiz.model /\ wiz'.alone = wiz.alone
  <2>1. /\ [wiz EXCEPT !.at = "announce"] \in WizardType
        /\ [wiz EXCEPT !.at = "announce"].at = "announce" /\ [wiz EXCEPT !.at = "announce"].id = wiz.id
        /\ [wiz EXCEPT !.at = "announce"].kind = wiz.kind
        /\ [wiz EXCEPT !.at = "announce"].model = wiz.model
        /\ [wiz EXCEPT !.at = "announce"].alone = wiz.alone
    BY <1>1 DEF WizardType, WizardPlaces
  <2>2. wiz' = [[[wiz EXCEPT !.at = "announce"] EXCEPT !.merged = {}] EXCEPT !.clean = FALSE]
    BY DEF UpdateModel
  <2>. QED
    BY <2>1, <2>2 DEF WizardType
<1>3. WizardHolds(wiz)' /\ WizardVetted(wiz, rows)'
  BY <1>1, <1>2 DEF WizardHolds, WizardVetted
<1>4. ASSUME NEW p \in wiz.merged, Writes(PutProvider(rows, p)), CheckedBefore
      PROVE  SetupIInv'
  <2>. DEFINE R == PutProvider(rows, p)
  <2>1. SoundRows(R) /\ p \in R.providers /\ R.tokens = rows.tokens
    BY <1>1, ProviderPut, PutProviderIs DEF SoundRows, WizardType
  <2>2. ~unchecked' => Fit(R)
    BY <1>1, <1>4, FitProvider DEF CheckedBefore, WizardVetted, SetupIInv, CatalogIInv, RowsFit
  <2>3. unchecked' \in BOOLEAN
    BY <1>4 DEF CheckedBefore
  <2>. HIDE DEF R
  <2>4. Writes(R) /\ rows' = R
    BY <1>4 DEF R, Writes
  <2>5. CatalogIInv'
    BY <2>1, <2>2, <2>3, <2>4, WizardWrites DEF SetupIInv
  <2>6. OnItsOwn(wiz, rows)'
    BY <1>1, <1>2, <2>1, <2>4 DEF OnItsOwn, HasModel
  <2>. QED
    BY <1>2, <1>3, <2>5, <2>6 DEF SetupIInv, WizardIInv
<1>5. ASSUME ~Exists, Untouched PROVE SetupIInv'
  <2>1. ~wiz.alone
    BY <1>1, <1>5 DEF OnItsOwn, HasRow, Exists, ProviderOfId
  <2>. QED
    BY <1>2, <1>3, <1>5, <2>1, Unwritten DEF OnItsOwn, SetupIInv, WizardIInv
<1>. QED
  BY <1>4, <1>5 DEF UpdateModel

LEMMA ChoosePoolKeeps ==
  ASSUME SetupIInv, NEW p \in rows.providers, NEW q \in Pool, ChoosePool(p, q) PROVE SetupIInv'
<1>1. p \in ProviderRow
  BY DEF SetupIInv, CatalogIInv, SoundRows, Tables
<1>2. /\ wiz' \in WizardType /\ wiz'.at = "pool" /\ wiz'.id = p.id /\ wiz'.pool = q
  BY <1>1, AtRest DEF ChoosePool, WizardType, WizardPlaces, ProviderRow
<1>3. WizardHolds(wiz)' /\ WizardVetted(wiz, rows)' /\ OnItsOwn(wiz, rows)'
  BY <1>1, <1>2 DEF WizardHolds, WizardVetted, OnItsOwn, ProviderRow
<1>4. CatalogIInv'
  BY LeavesAlone, CatalogAssumption DEF SetupIInv, CatalogIInv, ChoosePool, TaskBegun
<1>. QED
  BY <1>2, <1>3, <1>4 DEF SetupIInv, WizardIInv

LEMMA OpenPoolKeeps == ASSUME SetupIInv, OpenPool PROVE SetupIInv'
<1>. DEFINE q == [id |-> wiz.pool, wire |-> wiz.wire, modality |-> "chat"]
            R == PutPool(rows, q)
<1>1. /\ wiz \in WizardType /\ wiz.at = "pool" /\ WizardHolds(wiz) /\ SoundRows(rows)
      /\ wiz.pool \in Pool /\ StandsAt("rank")
  BY DEF SetupIInv, CatalogIInv, WizardIInv, OpenPool, WizardHolds
<1>2. wiz' \in WizardType /\ wiz'.at = "rank" /\ wiz'.id = wiz.id /\ wiz'.pool = wiz.pool
  BY <1>1, Moved DEF WizardPlaces
<1>3. WizardHolds(wiz)' /\ WizardVetted(wiz, rows)' /\ OnItsOwn(wiz, rows)'
  BY <1>1, <1>2 DEF WizardHolds, WizardVetted, OnItsOwn
<1>4. CASE Untouched
  BY <1>2, <1>3, <1>4, Unwritten DEF SetupIInv, WizardIInv
<1>5. CASE PoolOfId(rows, wiz.pool) = {} /\ Writes(R) /\ Checked
  <2>1. q \in PoolRow /\ q.id = wiz.pool
    BY <1>1 DEF PoolRow, WizardType
  <2>. HIDE DEF q
  <2>2. SoundRows(R) /\ (Fit(rows) => Fit(R))
    BY <1>1, <1>5, <2>1, PoolPut, FitNewPool
  <2>. HIDE DEF R
  <2>3. CatalogIInv'
    BY <1>5, <2>2, WizardWrites DEF SetupIInv, CatalogIInv, RowsFit, Checked
  <2>. QED
    BY <1>2, <1>3, <2>3 DEF SetupIInv, WizardIInv
<1>. QED
  BY <1>4, <1>5 DEF OpenPool

LEMMA RankKeeps == ASSUME SetupIInv, Rank PROVE SetupIInv'
<1>. DEFINE n == NextPriority({m \in rows.members : m.pool = wiz.pool})
<1>1. /\ wiz \in WizardType /\ wiz.at = "rank" /\ WizardHolds(wiz) /\ SoundRows(rows)
  BY DEF SetupIInv, CatalogIInv, WizardIInv, Rank
<1>2. n \in Nat
  <2>1. IsFiniteSet(rows.members) /\ rows.members \subseteq MemberRow
        /\ {m \in rows.members : m.pool = wiz.pool} \in SUBSET rows.members
    BY <1>1 DEF SoundRows, Tables
  <2>. QED
    BY <2>1, FS_Subset, PriorityIsNumber
<1>. HIDE DEF n
<1>3. /\ wiz' \in WizardType /\ wiz'.at = "join" /\ wiz'.id = wiz.id /\ wiz'.pool = wiz.pool
  <2>1. wiz' = [[wiz EXCEPT !.at = "join"] EXCEPT !.priority = n]
    BY DEF Rank, n
  <2>. QED
    BY <1>1, <1>2, <2>1 DEF WizardType, WizardPlaces
<1>4. WizardHolds(wiz)' /\ WizardVetted(wiz, rows)' /\ OnItsOwn(wiz, rows)'
  BY <1>1, <1>3 DEF WizardHolds, WizardVetted, OnItsOwn
<1>. QED
  BY <1>3, <1>4, Unwritten DEF Rank, SetupIInv, WizardIInv

LEMMA CheckJoinKeeps == ASSUME SetupIInv, CheckJoin PROVE SetupIInv'
<1>1. /\ wiz \in WizardType /\ wiz.at = "join" /\ WizardHolds(wiz) /\ SoundRows(rows)
  BY DEF SetupIInv, CatalogIInv, WizardIInv, CheckJoin
<1>2. CatalogIInv' /\ rows' = rows
  BY Unwritten DEF CheckJoin, Untouched, catalogVars
<1>3. CASE Exit
  BY <1>2, <1>3, Rests DEF Exit
<1>4. CASE Passes(Edit("put_member", Joining)) /\ wiz' = [wiz EXCEPT !.at = "joining", !.clean = TRUE]
  <2>1. MayJoin(Joining, rows)
    BY <1>1, <1>4, PassedMember DEF Edit
  <2>2. /\ wiz' \in WizardType /\ wiz'.at = "joining" /\ wiz'.id = wiz.id /\ wiz'.pool = wiz.pool
        /\ wiz'.priority = wiz.priority
    BY <1>1, <1>4 DEF WizardType, WizardPlaces
  <2>3. WizardHolds(wiz)' /\ WizardVetted(wiz, rows)' /\ OnItsOwn(wiz, rows)'
    BY <1>1, <1>2, <2>1, <2>2 DEF WizardHolds, WizardVetted, OnItsOwn, Joining
  <2>. QED
    BY <1>2, <2>2, <2>3 DEF SetupIInv, WizardIInv
<1>. QED
  BY <1>3, <1>4 DEF CheckJoin

LEMMA JoinKeeps == ASSUME SetupIInv, Join PROVE SetupIInv'
<1>. DEFINE R == PutMember(rows, Joining)
<1>1. /\ wiz \in WizardType /\ wiz.at = "joining" /\ WizardHolds(wiz) /\ WizardVetted(wiz, rows)
      /\ SoundRows(rows)
  BY DEF SetupIInv, CatalogIInv, WizardIInv, Join
<1>2. CASE Exit /\ Untouched
  BY <1>2, Rests, Unwritten DEF Exit
<1>3. CASE KeysHold(R) /\ Writes(R) /\ CheckedBefore /\ wiz' = [Off EXCEPT !.at = "menu"]
  <2>1. Joining \in MemberRow
    BY <1>1 DEF Joining, MemberRow, WizardHolds, WizardType, Levels
  <2>2. SoundRows(R)
    BY <1>1, <1>3, <2>1, MemberPut
  <2>3. ~unchecked' => Fit(R)
    BY <1>1, <1>3, FitMember
    DEF CheckedBefore, WizardVetted, Joining, SetupIInv, CatalogIInv, RowsFit
  <2>4. unchecked' \in BOOLEAN
    BY <1>3 DEF CheckedBefore
  <2>. HIDE DEF R
  <2>5. CatalogIInv'
    BY <1>3, <2>2, <2>3, <2>4, WizardWrites DEF SetupIInv
  <2>. QED
    BY <1>3, <2>5, Rests
<1>. QED
  BY <1>2, <1>3 DEF Join

-----------------------------------------------------------------------------
(* The theorems. *)

LEMMA WizardStepKeeps == SetupIInv /\ WizardStep => SetupIInv'
<1>. SUFFICES ASSUME SetupIInv, WizardStep PROVE SetupIInv'
  OBVIOUS
<1>1. CASE StartWizard \/ QuitWizard \/ Announce
  BY <1>1, RestsKeep
<1>2. CASE (\E s \in Shapes, id \in Provider : ChooseKind(s.kind, id, s.wire, s.model))
           \/ (\E m \in Models \ {"pending"} : ConfirmModel(m)) \/ InsertProvider
  BY <1>2, ChooseKindKeeps, ConfirmModelKeeps, InsertProviderKeeps
<1>3. CASE StorePkce \/ StoreKey \/ CheckModel \/ UpdateModel
  BY <1>3, StorePkceKeeps, StoreKeyKeeps, CheckModelKeeps, UpdateModelKeeps
<1>4. CASE (\E ok \in BOOLEAN : Paste(ok) \/ ObtainKey(ok)) \/ (\E m \in Models : Probe(m))
  BY <1>4, PasteKeeps, ObtainKeyKeeps, ProbeKeeps
<1>5. CASE \/ \E p \in rows.providers, q \in Pool : ChoosePool(p, q)
           \/ OpenPool \/ Rank \/ CheckJoin \/ Join
  BY <1>5, ChoosePoolKeeps, OpenPoolKeeps, RankKeeps, CheckJoinKeeps, JoinKeeps
<1>. QED
  BY <1>1, <1>2, <1>3, <1>4, <1>5 DEF WizardStep

LEMMA InitSetup == SetupInit => SetupIInv
  BY InitCatalog, AtRest DEF SetupInit, SetupIInv, WizardIInv

LEMMA SetupStepKeeps == SetupIInv /\ [SetupNext]_setupVars => SetupIInv'
<1>1. ASSUME SetupIInv, ServerStep PROVE SetupIInv'
  BY <1>1, CatalogStepKeeps, WizardWaits DEF SetupIInv, ServerStep
<1>2. ASSUME SetupIInv, UNCHANGED setupVars PROVE SetupIInv'
  BY <1>2 DEF setupVars, SetupIInv, CatalogIInv, WizardIInv, ServedIsStored, RowsFit
<1>. QED
  BY <1>1, <1>2, WizardStepKeeps DEF SetupNext

\* What the configuration and its writers are in at every moment.
THEOREM SetupInvariance == SetupSpec => []SetupIInv
  BY InitSetup, SetupStepKeeps, PTL DEF SetupSpec

(* Rows keep the shape that their tables give them, keys stay unique, members  *)
(* refer to rows that exist, and the wizard works on what it should            *)
(* (providers/queries.rs, pools/queries.rs, onboarding.rs).                    *)
THEOREM SetupTyped == SetupSpec => []SetupTypeOK
<1>1. SetupIInv => SetupTypeOK
  BY DEF SetupIInv, CatalogIInv, WizardIInv, SetupTypeOK, CatalogTypeOK, SoundRows, IsRows,
         Frame, AdminPlaces, WizardType
<1>. QED
  BY <1>1, SetupInvariance, PTL

(* For any number of handlers that write, load and publish at once: when every *)
(* edit has been answered and none was lost, the proxy serves what is stored   *)
(* (core/state.rs: reload_snapshot).                                           *)
THEOREM Answered == SetupSpec => []AnsweredIsServed
<1>1. SetupIInv => AnsweredIsServed
  BY DEF SetupIInv, CatalogIInv, ServedIsStored, AnsweredIsServed, Loading
<1>. QED
  BY <1>1, SetupInvariance, PTL

(* Whatever providers, pools and members there are and whoever edits them: a   *)
(* stored effort fits the model it goes with, and an image pool makes images,  *)
(* as long as no write went past its check (providers/queries.rs:              *)
(* check_provider_reasoning_effort, check_member_reasoning_overrides).         *)
THEOREM Fits == SetupSpec => []RowsFit
<1>1. SetupIInv => RowsFit
  BY DEF SetupIInv, CatalogIInv
<1>. QED
  BY <1>1, SetupInvariance, PTL

(* A provider that the wizard announces is there with the model it says, and   *)
(* with somebody logged in if it needs that (onboarding.rs).                   *)
THEOREM Ready == SetupSpec => []AnnouncedIsReady
<1>1. SetupIInv => AnnouncedIsReady
  BY DEF SetupIInv, WizardIInv, OnItsOwn, HasModel, AnnouncedIsReady, ProviderOfId
<1>. QED
  BY <1>1, SetupInvariance, PTL

-----------------------------------------------------------------------------
(***************************************************************************)
(* Theorems about AdminSessions, for any number of browsers, tokens and    *)
(* passwords and any lifetimes.  The argument: a token is made once, so a  *)
(* request that holds a session as it was read holds either the row that   *)
(* is there under that token, up to its expiry, or one whose token has     *)
(* been deleted and will not be made again.                                *)
(***************************************************************************)

(* The inductive invariant. *)

Held(v) ==
  v.row # NoRow =>
    /\ v.row \in SessionRow /\ v.row.token \in Made
    /\ \A s \in sessions : s.token = v.row.token => s.created = v.row.created

\* A request that is about to renew has a session.
HasKey(v) == v.at = "renew" => v.row # NoRow

SessionsIInv ==
  /\ SessionsTypeOK /\ SessionsEnd
  /\ \A b \in Browser : Held(visit[b]) /\ HasKey(visit[b])

-----------------------------------------------------------------------------
(* What the operators do. *)

LEMMA Zero == NoRow \notin SessionRow /\ Away.row = NoRow /\ Away.at = "away"
  BY SessionAssumption DEF NoRow, NoCookie, SessionRow, Away

\* The visits that Away and its updates make.
VisitType == [at : VisitPlaces, task : Tasks, row : SessionRow \cup {NoRow},
              right : BOOLEAN, new : Password]

LEMMA AwayTyped == Away \in VisitType
  BY SessionAssumption DEF Away, VisitType, VisitPlaces, Tasks, AnyPassword

\* A renewal sets the expiry of the row with that token, and nothing else.
LEMMA RenewedRows ==
  ASSUME NEW table \in SUBSET SessionRow, NEW s \in SessionRow, NEW time \in Nat
  PROVE  /\ Renewed(table, s, time) \subseteq SessionRow
         /\ \A w \in Renewed(table, s, time) : \E r \in table :
              /\ r.token = w.token /\ r.created = w.created
              /\ (r.token = s.token => w.expires <= s.created + Lifetime)
              /\ (r.token # s.token => w = r)
         /\ \A r \in table : \E w \in Renewed(table, s, time) : w.token = r.token
         /\ \A v, w \in Renewed(table, s, time) :
              (v.token = w.token => v = w)
                \/ \E r, t \in table : r # t /\ r.token = t.token
<1>. DEFINE new(r) == IF r.token = s.token THEN [r EXCEPT !.expires = NewExpiry(s, time)] ELSE r
<1>1. NewExpiry(s, time) \in Nat /\ NewExpiry(s, time) <= s.created + Lifetime
  BY SessionAssumption DEF NewExpiry, SessionRow
<1>2. \A r \in table :
        /\ new(r) \in SessionRow /\ new(r).token = r.token /\ new(r).created = r.created
        /\ (r.token = s.token => new(r).expires <= s.created + Lifetime)
        /\ (r.token # s.token => new(r) = r)
  BY <1>1 DEF SessionRow
<1>3. Renewed(table, s, time) = {new(r) : r \in table}
  BY DEF Renewed
<1>. HIDE DEF new
<1>. QED
  BY <1>2, <1>3

-----------------------------------------------------------------------------
(* The invariant holds at the start, and every step keeps it. *)

LEMMA InitSessions == SessionsInit => SessionsIInv
<1>. SUFFICES ASSUME SessionsInit PROVE SessionsIInv
  OBVIOUS
<1>1. \A b \in Browser : visit[b] = Away
  BY DEF SessionsInit
<1>2. visit \in [Browser -> VisitType]
  BY AwayTyped DEF SessionsInit
<1>3. SessionsTypeOK
  <2>1. cookie \in [Browser -> Token \cup {NoCookie}]
    BY DEF SessionsInit
  <2>2. now \in 0..Until /\ password \in Password
    BY SessionAssumption DEF SessionsInit, AnyPassword
  <2>3. sessions = {} /\ deleted = {} /\ reset \in BOOLEAN
    BY DEF SessionsInit
  <2>. QED
    BY <1>2, <2>1, <2>2, <2>3 DEF SessionsTypeOK, VisitType
<1>4. SessionsEnd
  BY DEF SessionsInit, SessionsEnd
<1>. QED
  BY <1>1, <1>3, <1>4, Zero DEF SessionsIInv, Held, HasKey

\* A step that moves one browser, with the row it had or none, and leaves the
\* tables alone.
LEMMA MoveKeeps ==
  ASSUME SessionsIInv, NEW b \in Browser, NEW v \in VisitType,
         v.row = NoRow \/ v.row = visit[b].row, HasKey(v),
         visit' = [visit EXCEPT ![b] = v],
         sessions' = sessions, deleted' = deleted, now' = now,
         password' \in Password, cookie' = cookie, reset' = reset
  PROVE  SessionsIInv'
<1>1. visit \in [Browser -> VisitType]
  BY DEF SessionsIInv, SessionsTypeOK, VisitType
<1>2. visit' \in [Browser -> VisitType]
  BY <1>1
<1>3. SessionsTypeOK'
  BY <1>2 DEF SessionsIInv, SessionsTypeOK, VisitType
<1>4. SessionsEnd'
  BY DEF SessionsIInv, SessionsEnd
<1>5. ASSUME NEW c \in Browser PROVE Held(visit[c])' /\ HasKey(visit[c])'
  <2>1. CASE c = b
    BY <1>1, <2>1 DEF SessionsIInv, Held, HasKey, Made
  <2>2. CASE c # b
    BY <1>1, <2>2 DEF SessionsIInv, Held, HasKey, Made
  <2>. QED
    BY <2>1, <2>2
<1>. QED
  BY <1>3, <1>4, <1>5 DEF SessionsIInv

\* A step that deletes sessions, and moves a browser or none.
LEMMA DeleteKeeps ==
  ASSUME SessionsIInv, NEW gone \in SUBSET sessions, Delete(gone),
         visit' = visit \/ \E b \in Browser : visit' = [visit EXCEPT ![b] = Away],
         now' = now, password' = password, reset' \in BOOLEAN,
         cookie' \in [Browser -> Token \cup {NoCookie}]
  PROVE  SessionsIInv'
<1>1. /\ sessions' = sessions \ gone /\ sessions \subseteq SessionRow
      /\ deleted' = deleted \cup {s.token : s \in gone}
  BY DEF Delete, SessionsIInv, SessionsTypeOK
<1>2. Made' = Made
  BY <1>1 DEF Made
<1>3. visit \in [Browser -> VisitType] /\ visit' \in [Browser -> VisitType]
  BY AwayTyped DEF SessionsIInv, SessionsTypeOK, VisitType
<1>4. \A s \in sessions : s.token \in Token
  BY <1>1 DEF SessionRow
<1>5. deleted' \subseteq Token
  BY <1>1, <1>4 DEF SessionsIInv, SessionsTypeOK
<1>6. SessionsTypeOK'
  BY <1>1, <1>3, <1>5 DEF SessionsIInv, SessionsTypeOK, VisitType
<1>7. SessionsEnd'
  BY <1>1 DEF SessionsIInv, SessionsTypeOK, SessionsEnd
<1>8. ASSUME NEW c \in Browser PROVE Held(visit[c])' /\ HasKey(visit[c])'
  <2>1. visit'[c] = visit[c] \/ visit'[c] = Away
    BY <1>3
  <2>2. CASE visit'[c] = visit[c]
    BY <1>1, <1>2, <2>2 DEF SessionsIInv, Held, HasKey
  <2>3. CASE visit'[c] = Away
    BY <2>3, Zero DEF Held, HasKey
  <2>. QED
    BY <2>1, <2>2, <2>3
<1>. QED
  BY <1>6, <1>7, <1>8 DEF SessionsIInv

LEMMA SessionsCreateKeeps == ASSUME SessionsIInv, NEW b \in Browser, CreateSession(b) PROVE SessionsIInv'
<1>1. PICK t \in Token \ Made :
        /\ sessions' = sessions \cup {[token |-> t, created |-> now, expires |-> now + Ttl]}
        /\ cookie' = [cookie EXCEPT ![b] = t]
  BY DEF CreateSession
<1>. DEFINE row == [token |-> t, created |-> now, expires |-> now + Ttl]
<1>2. row \in SessionRow /\ row.token = t /\ row.expires <= row.created + Lifetime
  BY <1>1, SessionAssumption DEF SessionRow, SessionsIInv, SessionsTypeOK
<1>3. /\ visit' = [visit EXCEPT ![b] = Away] /\ sessions' = sessions \cup {row}
      /\ now' = now /\ password' = password /\ deleted' = deleted /\ reset' = reset
  BY <1>1 DEF CreateSession, Moves
<1>. HIDE DEF row
<1>4. t \notin deleted /\ \A s \in sessions : s.token # t
  BY <1>1 DEF Made
<1>5. visit \in [Browser -> VisitType] /\ visit' \in [Browser -> VisitType]
  BY <1>3, AwayTyped DEF SessionsIInv, SessionsTypeOK, VisitType
<1>6. SessionsTypeOK'
  BY <1>1, <1>2, <1>3, <1>4, <1>5 DEF SessionsIInv, SessionsTypeOK, VisitType
<1>7. SessionsEnd'
  BY <1>2, <1>3, <1>4 DEF SessionsIInv, SessionsEnd
<1>8. ASSUME NEW c \in Browser PROVE Held(visit[c])' /\ HasKey(visit[c])'
  <2>1. CASE c = b
    BY <1>3, <1>5, <2>1, Zero DEF Held, HasKey
  <2>2. CASE c # b
    <3>1. visit'[c] = visit[c] /\ Made \subseteq Made'
      BY <1>3, <1>5, <2>2 DEF Made
    <3>. QED
      BY <1>1, <1>2, <1>3, <3>1 DEF SessionsIInv, Held, HasKey
  <2>. QED
    BY <2>1, <2>2
<1>. QED
  BY <1>6, <1>7, <1>8 DEF SessionsIInv

LEMMA RenewKeeps == ASSUME SessionsIInv, NEW b \in Browser, Renew(b) PROVE SessionsIInv'
<1>. DEFINE s == visit[b].row
            v == [visit[b] EXCEPT !.at = "handle"]
<1>1. /\ visit[b].at = "renew" /\ visit' = [visit EXCEPT ![b] = v]
      /\ sessions' = IF WantsRenewal(s, now) THEN Renewed(sessions, s, now) ELSE sessions
      /\ now' = now /\ password' = password /\ cookie' = cookie
      /\ reset' = reset /\ deleted' = deleted
  BY DEF Renew, Leaves, Moves
<1>2. visit \in [Browser -> VisitType] /\ sessions \subseteq SessionRow /\ now \in Nat
  BY SessionAssumption DEF SessionsIInv, SessionsTypeOK, VisitType
<1>3. v \in VisitType /\ v.row = s /\ HasKey(v)
  BY <1>2 DEF VisitType, VisitPlaces, HasKey
<1>4. CASE ~WantsRenewal(s, now)
  BY <1>1, <1>3, <1>4, MoveKeeps DEF SessionsIInv, SessionsTypeOK
<1>5. CASE WantsRenewal(s, now)
  <2>. HIDE DEF v
  <2>1. s \in SessionRow /\ \A r \in sessions : r.token = s.token => r.created = s.created
    BY <1>1 DEF SessionsIInv, Held, HasKey
  <2>2. sessions' = Renewed(sessions, s, now)
    BY <1>1, <1>5
  <2>. HIDE DEF s
  <2>3. /\ sessions' \subseteq SessionRow
        /\ \A w \in sessions' : \E r \in sessions :
             /\ r.token = w.token /\ r.created = w.created
             /\ (r.token = s.token => w.expires <= s.created + Lifetime)
             /\ (r.token # s.token => w = r)
        /\ \A r \in sessions : \E w \in sessions' : w.token = r.token
        /\ \A u, w \in sessions' :
             (u.token = w.token => u = w) \/ \E r, t \in sessions : r # t /\ r.token = t.token
    BY <1>2, <2>1, <2>2, RenewedRows
  <2>4. visit' \in [Browser -> VisitType]
    BY <1>1, <1>2, <1>3
  <2>5. SessionsTypeOK'
    BY <1>1, <2>3, <2>4 DEF SessionsIInv, SessionsTypeOK, VisitType
  <2>6. SessionsEnd'
    BY <1>1, <2>1, <2>3 DEF SessionsIInv, SessionsEnd
  <2>7. Made' = Made
    BY <1>1, <2>3 DEF Made
  <2>8. ASSUME NEW c \in Browser PROVE Held(visit[c])' /\ HasKey(visit[c])'
    <3>1. visit'[c].row = visit[c].row /\ HasKey(visit[c])'
      BY <1>1, <1>2, <1>3 DEF s, SessionsIInv, HasKey
    <3>2. Held(visit[c])
      BY DEF SessionsIInv
    <3>3. Held(visit[c])'
      BY <2>3, <2>7, <3>1, <3>2 DEF Held
    <3>. QED
      BY <3>1, <3>3
  <2>. QED
    BY <2>5, <2>6, <2>8 DEF SessionsIInv
<1>. QED
  BY <1>4, <1>5

\* A request that presents the token of a session holds its row.
LEMMA PresentKeeps ==
  ASSUME SessionsIInv, NEW b \in Browser, NEW task \in Tasks, NEW secret \in BOOLEAN,
         Present(b, task, secret)
  PROVE  SessionsIInv'
<1>1. /\ now' = now /\ password' = password /\ sessions' = sessions
      /\ cookie' = cookie /\ reset' = reset /\ deleted' = deleted
  BY DEF Present
<1>2. visit \in [Browser -> VisitType] /\ sessions \subseteq SessionRow
  BY DEF SessionsIInv, SessionsTypeOK, VisitType
<1>3. CASE visit' = [visit EXCEPT ![b] = [Away EXCEPT !.at = "handle", !.task = task]]
  <2>. DEFINE v == [Away EXCEPT !.at = "handle", !.task = task]
  <2>1. v \in VisitType /\ v.row = NoRow /\ HasKey(v)
    BY AwayTyped, Zero DEF VisitType, VisitPlaces, HasKey
  <2>. HIDE DEF v
  <2>2. visit' = [visit EXCEPT ![b] = v]
    BY <1>3 DEF v
  <2>. QED
    BY <1>1, <2>1, <2>2, MoveKeeps DEF SessionsIInv, SessionsTypeOK
<1>4. ASSUME NEW s \in sessions,
             visit' = [visit EXCEPT ![b] = [Away EXCEPT !.at = "renew", !.task = task, !.row = s]]
      PROVE  SessionsIInv'
  <2>. DEFINE v == [Away EXCEPT !.at = "renew", !.task = task, !.row = s]
  <2>1. v \in VisitType /\ v.row = s /\ s \in SessionRow
    BY <1>2, AwayTyped DEF VisitType, VisitPlaces
  <2>. HIDE DEF v
  <2>2. visit' = [visit EXCEPT ![b] = v] /\ visit' \in [Browser -> VisitType]
    BY <1>2, <1>4, <2>1 DEF v
  <2>3. SessionsTypeOK'
    BY <1>1, <2>2 DEF SessionsIInv, SessionsTypeOK, VisitType
  <2>4. SessionsEnd'
    BY <1>1 DEF SessionsIInv, SessionsEnd
  <2>5. Held(v)' /\ HasKey(v)'
    BY <1>1, <2>1, Zero DEF Held, HasKey, Made, SessionsIInv, SessionsTypeOK
  <2>6. ASSUME NEW c \in Browser PROVE Held(visit[c])' /\ HasKey(visit[c])'
    <3>1. CASE c = b
      <4>1. visit'[c] = v
        BY <1>2, <2>2, <3>1
      <4>. QED
        BY <2>5, <4>1 DEF Held, HasKey
    <3>2. CASE c # b
      <4>1. visit'[c] = visit[c]
        BY <1>2, <2>2, <3>2
      <4>. QED
        BY <1>1, <4>1 DEF SessionsIInv, Held, HasKey, Made
    <3>. QED
      BY <3>1, <3>2
  <2>. QED
    BY <2>3, <2>4, <2>6 DEF SessionsIInv
<1>. QED
  BY <1>3, <1>4 DEF Present, Moves

-----------------------------------------------------------------------------
\* The steps of a browser that leave the sessions alone.
LEMMA WalkKeeps ==
  ASSUME SessionsIInv, NEW b \in Browser, NEW p \in Password,
         \/ Login(b, p) \/ Verify(b) \/ HandleOther(b) \/ ReadPassword(b, p)
         \/ VerifyCurrent(b, p) \/ WritePassword(b) \/ Abandon(b)
  PROVE  SessionsIInv'
<1>1. visit \in [Browser -> VisitType] /\ visit[b] \in VisitType
  BY DEF SessionsIInv, SessionsTypeOK, VisitType
<1>2. password \in Password
  BY DEF SessionsIInv, SessionsTypeOK
<1>3. ASSUME NEW v \in {Away, [Away EXCEPT !.at = "verify", !.task = "login", !.right = (p = password)],
                        [visit[b] EXCEPT !.at = "create"],
                        [visit[b] EXCEPT !.at = "reverify", !.right = (p = password)],
                        [visit[b] EXCEPT !.at = "rehash", !.new = p],
                        [visit[b] EXCEPT !.at = "sweep"]}
      PROVE  v \in VisitType /\ (v.row = NoRow \/ v.row = visit[b].row) /\ HasKey(v)
  BY <1>1, AwayTyped, Zero DEF VisitType, VisitPlaces, Tasks, HasKey
<1>4. visit[b].new \in Password
  BY <1>1 DEF VisitType
<1>5. PICK v \in {Away, [Away EXCEPT !.at = "verify", !.task = "login", !.right = (p = password)],
                  [visit[b] EXCEPT !.at = "create"],
                  [visit[b] EXCEPT !.at = "reverify", !.right = (p = password)],
                  [visit[b] EXCEPT !.at = "rehash", !.new = p],
                  [visit[b] EXCEPT !.at = "sweep"]} : visit' = [visit EXCEPT ![b] = v]
  BY DEF Login, Verify, HandleOther, ReadPassword, VerifyCurrent, WritePassword, Abandon, Moves, Leaves
<1>6. /\ sessions' = sessions /\ deleted' = deleted /\ now' = now
      /\ password' \in Password /\ cookie' = cookie /\ reset' = reset
  BY <1>2, <1>4 DEF Login, Verify, HandleOther, ReadPassword, VerifyCurrent, WritePassword, Abandon
<1>. QED
  BY <1>3, <1>5, <1>6, MoveKeeps

\* The handlers and tasks that delete sessions.
LEMMA EndKeeps ==
  ASSUME SessionsIInv, \/ \E b \in Browser : Logout(b) \/ SweepOthers(b)
               \/ ResetSessions \/ DeleteExpired
  PROVE  SessionsIInv'
<1>1. cookie \in [Browser -> Token \cup {NoCookie}] /\ reset \in BOOLEAN
  BY DEF SessionsIInv, SessionsTypeOK
<1>2. ASSUME NEW b \in Browser, Logout(b) PROVE SessionsIInv'
  BY <1>1, <1>2, DeleteKeeps DEF Logout, Moves
<1>3. ASSUME NEW b \in Browser, SweepOthers(b) PROVE SessionsIInv'
  <2>1. {s \in sessions : s.token # visit[b].row.token} \in SUBSET sessions
    OBVIOUS
  <2>. QED
    BY <1>1, <1>3, <2>1, DeleteKeeps DEF SweepOthers, Moves
<1>4. CASE ResetSessions
  BY <1>1, <1>4, DeleteKeeps DEF ResetSessions
<1>5. CASE DeleteExpired
  <2>1. {s \in sessions : s.expires < now} \in SUBSET sessions
    OBVIOUS
  <2>. QED
    BY <1>1, <1>5, <2>1, DeleteKeeps DEF DeleteExpired
<1>. QED
  BY <1>2, <1>3, <1>4, <1>5

LEMMA SessionsStepKeeps == SessionsIInv /\ [SessionsNext]_sessionVars => SessionsIInv'
<1>. SUFFICES ASSUME SessionsIInv, [SessionsNext]_sessionVars PROVE SessionsIInv'
  OBVIOUS
<1>1. CASE ResetFails \/ PassTime \/ \E p \in Password : ResetPassword(p)
  <2>1. /\ sessions' = sessions /\ deleted' = deleted /\ cookie' = cookie /\ visit' = visit
        /\ password' \in Password /\ reset' \in BOOLEAN
    BY <1>1 DEF SessionsIInv, SessionsTypeOK, ResetFails, PassTime, ResetPassword
  <2>2. now' \in 0..Until
    BY <1>1, SessionAssumption DEF SessionsIInv, SessionsTypeOK, ResetFails, PassTime, ResetPassword
  <2>3. SessionsTypeOK'
    BY <2>1, <2>2 DEF SessionsIInv, SessionsTypeOK
  <2>. QED
    BY <2>1, <2>3 DEF SessionsIInv, SessionsEnd, Held, HasKey, Made
<1>2. CASE UNCHANGED sessionVars
  BY <1>2 DEF SessionsIInv, SessionsTypeOK, SessionsEnd, Held, HasKey, Made, sessionVars
<1>3. Password # {}
  BY SessionAssumption
<1>. QED
  BY SessionsCreateKeeps, RenewKeeps, PresentKeeps, WalkKeeps, EndKeeps, <1>1, <1>2, <1>3 DEF SessionsNext

-----------------------------------------------------------------------------
(* A token stands for one session, and a request that holds a session holds *)
(* it as it is, but for its expiry, or as it was: the inductive invariant.  *)
THEOREM SessionsInvariance == SessionsSpec => []SessionsIInv
  BY InitSessions, SessionsStepKeeps, PTL DEF SessionsSpec

(* Every row and every request keeps its type, and no two sessions have one  *)
(* token (admin_sessions: PRIMARY KEY).                                      *)
THEOREM SessionsTyped == SessionsSpec => []SessionsTypeOK
<1>1. SessionsIInv => SessionsTypeOK
  BY DEF SessionsIInv
<1>. QED
  BY <1>1, SessionsInvariance, PTL

(* No session comes back once a logout, a change or reset of the password or *)
(* its expiry has ended it, and none outlives its cap (renew_if_needed).     *)
THEOREM Ended == SessionsSpec => []SessionsEnd
<1>1. SessionsIInv => SessionsEnd
  BY DEF SessionsIInv
<1>. QED
  BY <1>1, SessionsInvariance, PTL

-----------------------------------------------------------------------------
(***************************************************************************)
(* Theorems about UserKeys, for any number of users, keys and admin        *)
(* requests in progress.  The argument: a key that is made is larger than  *)
(* any that was seen before, and an export holds either users that are     *)
(* here, which an import leaves their keys, or a user of another instance, *)
(* whose key nobody here has had.                                          *)
(***************************************************************************)

(* The inductive invariant. *)

Distinct(table) == \A u, v \in table : u.id = v.id \/ u.key = v.key => u = v

\* A key that is made next is new.
Seen ==
  /\ \A u \in users \cup dump : u.key <= made
  /\ \A k \in retired : k <= made

\* A retired key is with nobody but a revoked user.
Dead == \A u \in users : u.key \in retired => u.revoked

\* What an export holds is here, or has never been.
Known ==
  \A v \in dump : \/ \E u \in users : u.id = v.id
                  \/ v.key \notin retired /\ \A u \in users : u.key # v.key

KeysIInv == UserKeysTypeOK /\ Distinct(dump) /\ Seen /\ Dead /\ Known

-----------------------------------------------------------------------------
(* What the statements do to the rows. *)

\* UPDATE ... SET revoked_at leaves ids and keys alone.
LEMMA RevokedRows ==
  ASSUME NEW table \in SUBSET UserRow, NEW id
  PROVE  /\ Revoked(table, id) \subseteq UserRow
         /\ \A v \in Revoked(table, id) : \E u \in table :
              /\ u.id = v.id /\ u.key = v.key
              /\ (u.revoked => v.revoked) /\ (u.id = id => v.revoked) /\ (u.id # id => v = u)
         /\ \A u \in table : \E v \in Revoked(table, id) : v.id = u.id
         /\ \A v, w \in Revoked(table, id) :
              (v.id = w.id => v = w)
                \/ \E t, u \in table : t # u /\ t.id = u.id
<1>. DEFINE new(u) == IF u.id = id THEN [u EXCEPT !.revoked = TRUE] ELSE u
<1>1. \A u \in table :
        /\ new(u) \in UserRow /\ new(u).id = u.id /\ new(u).key = u.key
        /\ (u.revoked => new(u).revoked) /\ (u.id = id => new(u).revoked) /\ (u.id # id => new(u) = u)
  BY DEF UserRow
<1>2. Revoked(table, id) = {new(u) : u \in table}
  BY DEF Revoked
<1>. HIDE DEF new
<1>. QED
  BY <1>1, <1>2

\* The UPDATE of a rotation: the one row that is not revoked gets the key.
LEMMA ReplacedRows ==
  ASSUME NEW table \in SUBSET UserRow, NEW id, NEW key \in Key
  PROVE  /\ Replaced(table, id, key) \subseteq UserRow
         /\ \A v \in Replaced(table, id, key) : \E u \in table :
              /\ u.id = v.id /\ u.revoked = v.revoked
              /\ (u.id = id /\ ~u.revoked => v.key = key)
              /\ (~(u.id = id /\ ~u.revoked) => v = u)
         /\ \A u \in table : \E v \in Replaced(table, id, key) : v.id = u.id
         /\ \A v, w \in Replaced(table, id, key) :
              (v.id = w.id => v = w)
                \/ \E t, u \in table : t # u /\ t.id = u.id
<1>. DEFINE new(u) == IF u.id = id /\ ~u.revoked THEN [u EXCEPT !.key = key] ELSE u
<1>1. \A u \in table :
        /\ new(u) \in UserRow /\ new(u).id = u.id /\ new(u).revoked = u.revoked
        /\ (u.id = id /\ ~u.revoked => new(u).key = key)
        /\ (~(u.id = id /\ ~u.revoked) => new(u) = u)
  BY DEF UserRow
<1>2. Replaced(table, id, key) = {new(u) : u \in table}
  BY DEF Replaced
<1>. HIDE DEF new
<1>. QED
  BY <1>1, <1>2

\* The upsert of an import: rows that are here keep their keys.
LEMMA MergedUsers ==
  ASSUME NEW table \in SUBSET UserRow, NEW d \in SUBSET UserRow
  PROVE  /\ Merge(table, d) \subseteq UserRow
         /\ \A w \in Merge(table, d) :
              \/ \E u \in table : u.id = w.id /\ u.key = w.key /\ (u.revoked => w.revoked)
              \/ w \in d /\ \A u \in table : u.id # w.id
         /\ \A v \in d : \E w \in Merge(table, d) : w.id = v.id
         /\ \A v, w \in Merge(table, d) :
              (v.id = w.id => v = w)
                \/ (\E t, u \in table : t # u /\ t.id = u.id) \/ (\E t, u \in d : t # u /\ t.id = u.id)
<1>. DEFINE kept(u) == [u EXCEPT !.revoked = @ \/ \E v \in d : v.id = u.id /\ v.revoked]
<1>1. \A u \in table : kept(u) \in UserRow /\ kept(u).id = u.id /\ kept(u).key = u.key
                       /\ (u.revoked => kept(u).revoked)
  BY DEF UserRow
<1>2. Merge(table, d) = {kept(u) : u \in table} \cup {v \in d : \A u \in table : u.id # v.id}
  BY DEF Merge
<1>. HIDE DEF kept
<1>. QED
  BY <1>1, <1>2

-----------------------------------------------------------------------------
(* The invariant holds at the start, and every step keeps it. *)

\* Keys are numbers, and none is as large as the next.
LEMMA NextIsNew ==
  KeysIInv => /\ \A u \in users : u.key \in Nat /\ u.key < NextKey
              /\ \A u \in dump : u.key \in Nat /\ u.key < NextKey
              /\ \A k \in retired : k \in Nat /\ k < NextKey
              /\ NextKey \in Nat
<1>. SUFFICES ASSUME KeysIInv
              PROVE  /\ \A u \in users : u.key \in Nat /\ u.key < NextKey
                     /\ \A u \in dump : u.key \in Nat /\ u.key < NextKey
                     /\ \A k \in retired : k \in Nat /\ k < NextKey
                     /\ NextKey \in Nat
  OBVIOUS
<1>1. /\ \A u \in users \cup dump : u.key \in Key
      /\ made \in Nat /\ retired \subseteq Key
  BY DEF KeysIInv, UserKeysTypeOK, UserRow
<1>2. \A k \in Key : k \in Nat
  BY UserAssumption
<1>. QED
  BY <1>1, <1>2 DEF KeysIInv, Seen, NextKey

LEMMA InitKeys == UserKeysInit => KeysIInv
<1>. SUFFICES ASSUME UserKeysInit PROVE KeysIInv
  OBVIOUS
<1>. USE UserAssumption DEF UserKeysInit
<1>1. clerk \in [Clerk -> [at : {"free", "rotate"}, id : User]]
  BY DEF Free
<1>2. CASE dump = {} /\ made = 0
  BY <1>1, <1>2 DEF KeysIInv, UserKeysTypeOK, Distinct, Seen, Dead, Known
<1>3. ASSUME NEW id \in Foreign, dump = {[id |-> id, key |-> 1, revoked |-> FALSE]}, made = 1
      PROVE  KeysIInv
  <2>1. dump \subseteq UserRow
    BY <1>3 DEF UserRow
  <2>2. Distinct(dump) /\ Seen /\ Dead /\ Known
    BY <1>3 DEF Distinct, Seen, Dead, Known
  <2>. QED
    BY <1>1, <1>3, <2>1, <2>2 DEF KeysIInv, UserKeysTypeOK
<1>. QED
  BY <1>2, <1>3

LEMMA KeysCreateKeeps == ASSUME KeysIInv, NEW id \in User, CreateUser(id) PROVE KeysIInv'
<1>. DEFINE row == [id |-> id, key |-> NextKey, revoked |-> FALSE]
<1>1. /\ NextKey \in Key /\ made' = NextKey
      /\ clerk' = clerk /\ dump' = dump /\ retired' = retired
      /\ users' = users \/ (users' = users \cup {row} /\ \A u \in users : u.id # row.id)
  BY DEF CreateUser, Rows
<1>2. row \in UserRow /\ row.key = NextKey /\ row.revoked = FALSE
  BY <1>1 DEF UserRow
<1>. HIDE DEF row
<1>3. /\ users' \subseteq UserRow
      /\ \A u, v \in users' : u.id = v.id \/ u.key = v.key => u = v
  BY <1>1, <1>2, NextIsNew DEF KeysIInv, UserKeysTypeOK
<1>4. UserKeysTypeOK'
  BY <1>1, <1>3, NextIsNew DEF KeysIInv, UserKeysTypeOK
<1>5. Seen'
  BY <1>1, <1>2, NextIsNew DEF Seen
<1>6. Dead'
  BY <1>1, <1>2, NextIsNew DEF KeysIInv, Dead
<1>7. Known'
  BY <1>1, <1>2, NextIsNew DEF KeysIInv, Known
<1>. QED
  BY <1>1, <1>4, <1>5, <1>6, <1>7 DEF KeysIInv, Distinct

LEMMA RevokeKeeps == ASSUME KeysIInv, NEW id \in User, RevokeUser(id) PROVE KeysIInv'
<1>1. /\ users' = Revoked(users, id) /\ users \subseteq UserRow
      /\ clerk' = clerk /\ dump' = dump /\ made' = made
  BY DEF RevokeUser, KeysIInv, UserKeysTypeOK
<1>2. retired' = retired \cup {u.key : u \in {v \in users : v.id = id}}
  BY DEF RevokeUser, Rows
<1>3. /\ users' \subseteq UserRow
      /\ \A v \in users' : \E u \in users :
           /\ u.id = v.id /\ u.key = v.key
           /\ (u.revoked => v.revoked) /\ (u.id = id => v.revoked) /\ (u.id # id => v = u)
      /\ \A u \in users : \E v \in users' : v.id = u.id
      /\ \A v, w \in users' : (v.id = w.id => v = w) \/ \E t, u \in users : t # u /\ t.id = u.id
  BY <1>1, RevokedRows
<1>4. \A u, v \in users : u.id = v.id \/ u.key = v.key => u = v
  BY DEF KeysIInv, UserKeysTypeOK
<1>5. \A u, v \in users' : u.id = v.id \/ u.key = v.key => u = v
  BY <1>3, <1>4
<1>6. \A u \in users : u.key \in Key
  BY <1>1 DEF UserRow
<1>7. UserKeysTypeOK'
  BY <1>1, <1>2, <1>3, <1>5, <1>6 DEF KeysIInv, UserKeysTypeOK
<1>8. Seen'
  BY <1>1, <1>2, <1>3 DEF KeysIInv, Seen
<1>9. Dead'
  BY <1>2, <1>3, <1>4 DEF KeysIInv, Dead
<1>10. Known'
  <2>. SUFFICES ASSUME NEW v \in dump, \A u \in users' : u.id # v.id
                PROVE  v.key \notin retired' /\ \A u \in users' : u.key # v.key
    BY <1>1 DEF Known
  <2>1. v.key \notin retired /\ \A u \in users : u.key # v.key
    BY <1>3 DEF KeysIInv, Known
  <2>. QED
    BY <1>2, <1>3, <2>1
<1>. QED
  BY <1>1, <1>7, <1>8, <1>9, <1>10 DEF KeysIInv, Distinct

LEMMA RotateKeeps == ASSUME KeysIInv, NEW c \in Clerk, EndRotate(c) PROVE KeysIInv'
<1>. DEFINE id == clerk[c].id
<1>1. /\ users' = Replaced(users, id, NextKey) /\ NextKey \in Key /\ users \subseteq UserRow
      /\ made' = NextKey /\ dump' = dump /\ clerk' = [clerk EXCEPT ![c] = Free]
  BY DEF EndRotate, Clerks, KeysIInv, UserKeysTypeOK
<1>2. retired' = retired \cup {u.key : u \in {v \in users : v.id = id /\ ~v.revoked}}
  BY DEF EndRotate, Rows
<1>. HIDE DEF id
<1>3. /\ users' \subseteq UserRow
      /\ \A v \in users' : \E u \in users :
           /\ u.id = v.id /\ u.revoked = v.revoked
           /\ (u.id = id /\ ~u.revoked => v.key = NextKey)
           /\ (~(u.id = id /\ ~u.revoked) => v = u)
      /\ \A u \in users : \E v \in users' : v.id = u.id
      /\ \A v, w \in users' : (v.id = w.id => v = w) \/ \E t, u \in users : t # u /\ t.id = u.id
  BY <1>1, ReplacedRows
<1>4. \A u, v \in users : u.id = v.id \/ u.key = v.key => u = v
  BY DEF KeysIInv, UserKeysTypeOK
<1>5. \A v \in users' : v.key = NextKey \/ v \in users
  BY <1>3
<1>6. \A v \in users' : v.key = NextKey => v.id = id
  BY <1>3, NextIsNew
<1>7. \A u, v \in users' : u.id = v.id \/ u.key = v.key => u = v
  <2>1. \A u, v \in users' : u.id = v.id => u = v
    BY <1>3, <1>4
  <2>2. \A u, v \in users' : u.key = v.key => u.id = v.id
    BY <1>4, <1>5, <1>6, NextIsNew
  <2>. QED
    BY <2>1, <2>2
<1>8. retired' \subseteq Key
  BY <1>1, <1>2 DEF KeysIInv, UserKeysTypeOK, UserRow
<1>9. clerk' \in [Clerk -> [at : {"free", "rotate"}, id : User]]
  BY <1>1, UserAssumption DEF KeysIInv, UserKeysTypeOK, Free
<1>10. UserKeysTypeOK'
  BY <1>1, <1>3, <1>7, <1>8, <1>9, NextIsNew DEF KeysIInv, UserKeysTypeOK
<1>11. \A k \in retired' : k \in Nat /\ k < NextKey
  BY <1>2, NextIsNew
<1>12. Seen'
  BY <1>1, <1>5, <1>11, NextIsNew DEF Seen
<1>13. Dead'
  <2>. SUFFICES ASSUME NEW v \in users', v.key \in retired' PROVE v.revoked
    BY DEF Dead
  <2>1. v.key # NextKey
    BY <1>11
  <2>2. v \in users /\ (v.id = id => v.revoked)
    BY <1>3, <2>1
  <2>3. v.key \in retired \/ v.revoked
    BY <1>2, <1>4, <2>2
  <2>. QED
    BY <2>2, <2>3 DEF KeysIInv, Dead
<1>14. Known'
  <2>. SUFFICES ASSUME NEW v \in dump, \A u \in users' : u.id # v.id
                PROVE  v.key \notin retired' /\ \A u \in users' : u.key # v.key
    BY <1>1 DEF Known
  <2>1. v.key \notin retired /\ \A u \in users : u.key # v.key
    BY <1>3 DEF KeysIInv, Known
  <2>. QED
    BY <1>2, <1>5, <2>1, NextIsNew
<1>. QED
  BY <1>1, <1>10, <1>12, <1>13, <1>14 DEF KeysIInv, Distinct

LEMMA ImportKeeps == ASSUME KeysIInv, Import(dump) PROVE KeysIInv'
<1>1. /\ users' = Merge(users, dump) /\ users \subseteq UserRow /\ dump \subseteq UserRow
      /\ clerk' = clerk /\ dump' = dump /\ made' = made
      /\ retired' = retired \cup {u.key : u \in {v \in users' : v.revoked}}
      /\ \A u, v \in users' : u.key = v.key => u = v
  BY DEF Import, NoClash, KeysIInv, UserKeysTypeOK
<1>2. /\ users' \subseteq UserRow
      /\ \A w \in users' :
           \/ \E u \in users : u.id = w.id /\ u.key = w.key /\ (u.revoked => w.revoked)
           \/ w \in dump /\ \A u \in users : u.id # w.id
      /\ \A v \in dump : \E w \in users' : w.id = v.id
      /\ \A v, w \in users' :
           (v.id = w.id => v = w)
             \/ (\E t, u \in users : t # u /\ t.id = u.id) \/ (\E t, u \in dump : t # u /\ t.id = u.id)
  BY <1>1, MergedUsers
<1>3. \A u, v \in users' : u.id = v.id => u = v
  BY <1>2 DEF KeysIInv, UserKeysTypeOK, Distinct
<1>4. retired' \subseteq Key
  BY <1>1, <1>2 DEF KeysIInv, UserKeysTypeOK, UserRow
<1>5. UserKeysTypeOK'
  BY <1>1, <1>2, <1>3, <1>4 DEF KeysIInv, UserKeysTypeOK
<1>6. \A u \in users' : u.key <= made
  BY <1>2 DEF KeysIInv, Seen
<1>7. Seen'
  BY <1>1, <1>6 DEF KeysIInv, Seen
<1>8. Dead'
  <2>. SUFFICES ASSUME NEW w \in users', w.key \in retired' PROVE w.revoked
    BY DEF Dead
  <2>1. CASE w.key \in retired
    BY <1>2, <2>1 DEF KeysIInv, Dead, Known
  <2>2. CASE \E v \in users' : v.revoked /\ v.key = w.key
    BY <1>1, <2>2
  <2>. QED
    BY <1>1, <2>1, <2>2
<1>9. Known'
  BY <1>1, <1>2 DEF Known
<1>. QED
  BY <1>1, <1>5, <1>7, <1>8, <1>9 DEF KeysIInv, Distinct

LEMMA KeysStepKeeps == KeysIInv /\ [UserKeysNext]_userVars => KeysIInv'
<1>. SUFFICES ASSUME KeysIInv, [UserKeysNext]_userVars PROVE KeysIInv'
  OBVIOUS
<1>1. ASSUME NEW c \in Clerk, NEW id \in User, BeginRotate(c, id) PROVE KeysIInv'
  BY <1>1 DEF KeysIInv, UserKeysTypeOK, BeginRotate, Clerks, Seen, Dead, Known
<1>2. ASSUME NEW c \in Clerk, AbandonRotate(c) PROVE KeysIInv'
  BY <1>2, UserAssumption DEF KeysIInv, UserKeysTypeOK, AbandonRotate, Clerks, Free, Seen, Dead, Known
<1>3. CASE Export
  BY <1>3 DEF KeysIInv, UserKeysTypeOK, Export, Distinct, Seen, Dead, Known
<1>4. CASE UNCHANGED userVars
  BY <1>4 DEF KeysIInv, UserKeysTypeOK, userVars, Distinct, Seen, Dead, Known
<1>. QED
  BY KeysCreateKeeps, RevokeKeeps, RotateKeeps, ImportKeeps, <1>1, <1>2, <1>3, <1>4 DEF UserKeysNext

-----------------------------------------------------------------------------
(* The rows stay distinct and in step with what was exported, and the keys  *)
(* that were retired stay dead: the inductive invariant.                    *)
THEOREM KeysInvariance == UserKeysSpec => []KeysIInv
  BY InitKeys, KeysStepKeeps, PTL DEF UserKeysSpec

(* Every row keeps its columns, and ids and keys stay unique, imports       *)
(* included (users: PRIMARY KEY, key_hash UNIQUE).                          *)
THEOREM KeysTyped == UserKeysSpec => []UserKeysTypeOK
<1>1. KeysIInv => UserKeysTypeOK
  BY DEF KeysIInv
<1>. QED
  BY <1>1, KeysInvariance, PTL

(* rotate_user_key, revoke_user and import_config: no order of them brings  *)
(* a key back that was replaced or revoked.                                 *)
THEOREM Retired == UserKeysSpec => []RetiredStaysOut
<1>1. KeysIInv => RetiredStaysOut
  <2>. SUFFICES ASSUME KeysIInv, NEW k \in retired, NEW access \in BOOLEAN, NEW open \in BOOLEAN
                PROVE  CallerOf(k, access, open) \in {"cf", "anonymous", "unauthorized"}
    BY DEF RetiredStaysOut
  <2>1. k # AdminSecret
    BY UserAssumption DEF KeysIInv, UserKeysTypeOK, AdminSecret
  <2>2. ~ \E u \in users : u.key = k /\ ~u.revoked
    BY DEF KeysIInv, Dead
  <2>. QED
    BY <2>1, <2>2 DEF CallerOf
<1>. QED
  BY <1>1, KeysInvariance, PTL

-----------------------------------------------------------------------------
(***************************************************************************)
(* Theorems about OAuthLogins, for any number of accounts, logins and      *)
(* polls.  The argument: a login is on the board of its own account only,  *)
(* and a task leaves the places from which it will report either by        *)
(* reporting there, or once somebody else's entry has replaced its own.    *)
(***************************************************************************)

(* The inductive invariant. *)

\* Where a task is that is going to report.
Working == {"poll", "grant", "store", "live", "judge", "listen", "keep", "post"}

\* l, a login, and r, where it is, once the logins of `done` have been stored.
RunFits(done, l, r) ==
  /\ r.at # "unused" => r.account \in Accounts
  /\ r.at = "live" => l \in done
  /\ r.at \in {"judge", "post"} => r.result \in {"success", "error"}
  /\ r.result = "success" => l \in done

\* e, the entry of account p.
True(p, e) ==
  /\ e.status = "pending" =>
       e.login \in Attempt /\ login[e.login].at \in Working /\ login[e.login].account = p
  /\ e.status = "success" => e.login \in stored

LoginsIInv ==
  /\ LoginsTypeOK
  /\ \A l \in Attempt : RunFits(stored, l, login[l])
  /\ \A p \in Accounts : True(p, board[p])

Ids == Attempt \cup {NoLogin}

OAuthType == [Accounts -> [pkce : Ids, creds : Ids]]

EntryType == [status : {"not_started", "pending", "success", "error"}, login : Ids]

LoginType == [at : Places, account : Accounts \cup {NoLogin}, left : 0..Polls,
              result : {"pending", "success", "error"}]

LEMMA Types ==
  LoginsTypeOK <=>
    /\ oauth \in OAuthType /\ board \in [Accounts -> EntryType]
    /\ login \in [Attempt -> LoginType]
    /\ reader \in Accounts \cup {NoLogin} /\ stored \subseteq Attempt
  BY DEF LoginsTypeOK, OAuthType, EntryType, LoginType, Ids

-----------------------------------------------------------------------------
(* One login moves. *)

\* What a step does to the rows: nothing is taken from the history.
Stores(l) ==
  /\ oauth' \in OAuthType
  /\ stored' = stored \/ stored' = stored \cup {l}

\* ... and the board is left alone.
LEMMA QuietKeeps ==
  ASSUME LoginsIInv, NEW l \in Attempt, NEW r \in LoginType, Turns(l, r), Stores(l),
         board' = board, reader' = reader, RunFits(stored', l, r),
         login[l].at \in Working =>
           \/ r.at \in Working /\ r.account = login[l].account
           \/ ~IsCurrentAttempt(l)
  PROVE  LoginsIInv'
<1>1. /\ login \in [Attempt -> LoginType] /\ board \in [Accounts -> EntryType]
      /\ reader \in Accounts \cup {NoLogin} /\ stored \subseteq Attempt
  BY Types DEF LoginsIInv
<1>2. /\ login' = [login EXCEPT ![l] = r] /\ stored \subseteq stored' /\ stored' \subseteq Attempt
  BY <1>1 DEF Turns, Stores
<1>3. /\ login' \in [Attempt -> LoginType] /\ login'[l] = r
      /\ \A k \in Attempt \ {l} : login'[k] = login[k]
  BY <1>1, <1>2
<1>4. LoginsTypeOK'
  BY <1>1, <1>2, <1>3 DEF LoginsTypeOK, Stores, OAuthType, EntryType, LoginType, Ids
<1>5. ASSUME NEW k \in Attempt PROVE RunFits(stored', k, login'[k])
  <2>1. CASE k = l
    BY <1>3, <2>1
  <2>2. CASE k # l
    BY <1>2, <1>3, <2>2 DEF LoginsIInv, RunFits
  <2>. QED
    BY <2>1, <2>2
<1>6. ASSUME NEW p \in Accounts PROVE True(p, board[p])'
  <2>1. True(p, board[p])
    BY DEF LoginsIInv
  <2>2. CASE board[p].status = "pending" /\ board[p].login = l
    <3>1. login[l].at \in Working /\ login[l].account = p
      BY <2>1, <2>2 DEF True
    <3>2. board[p] = [status |-> "pending", login |-> l]
      BY <1>1, <2>2 DEF EntryType
    <3>3. r.at \in Working /\ r.account = p
      BY <3>1, <3>2 DEF IsCurrentAttempt
    <3>. QED
      BY <1>3, <2>2, <3>3 DEF True
  <2>3. CASE ~(board[p].status = "pending" /\ board[p].login = l)
    BY <1>2, <1>3, <2>1, <2>3 DEF True
  <2>. QED
    BY <2>2, <2>3
<1>. QED
  BY <1>4, <1>5, <1>6 DEF LoginsIInv

\* ... and it says so on the board.
LEMMA PostKeeps ==
  ASSUME LoginsIInv, NEW l \in Attempt, NEW r \in LoginType, Turns(l, r),
         NEW status \in {"pending", "success", "error"},
         r.account = login[l].account, login[l].account \in Accounts,
         Posts(login[l].account, status, l),
         oauth' = oauth, stored' = stored, reader' = reader, RunFits(stored, l, r),
         status = "pending" => r.at \in Working,
         status = "success" => l \in stored
  PROVE  LoginsIInv'
<1>. DEFINE e == [status |-> status, login |-> l]
<1>1. /\ login \in [Attempt -> LoginType] /\ board \in [Accounts -> EntryType]
      /\ oauth \in OAuthType /\ reader \in Accounts \cup {NoLogin} /\ stored \subseteq Attempt
  BY Types DEF LoginsIInv
<1>2. e \in EntryType /\ e.status = status /\ e.login = l
  BY DEF EntryType, Ids
<1>3. login' = [login EXCEPT ![l] = r] /\ board' = [board EXCEPT ![r.account] = e]
  BY DEF Turns, Posts
<1>. HIDE DEF e
<1>4. /\ login' \in [Attempt -> LoginType] /\ login'[l] = r
      /\ \A k \in Attempt \ {l} : login'[k] = login[k]
  BY <1>1, <1>3
<1>5. /\ board' \in [Accounts -> EntryType] /\ board'[r.account] = e
      /\ \A p \in Accounts \ {r.account} : board'[p] = board[p]
  BY <1>1, <1>2, <1>3
<1>6. LoginsTypeOK'
  BY <1>1, <1>4, <1>5 DEF LoginsTypeOK, OAuthType, EntryType, LoginType, Ids
<1>7. ASSUME NEW k \in Attempt PROVE RunFits(stored', k, login'[k])
  <2>1. CASE k = l
    BY <1>4, <2>1 DEF RunFits
  <2>2. CASE k # l
    BY <1>4, <2>2 DEF LoginsIInv, RunFits
  <2>. QED
    BY <2>1, <2>2
<1>8. ASSUME NEW p \in Accounts PROVE True(p, board[p])'
  <2>1. CASE p = r.account
    BY <1>2, <1>4, <1>5, <2>1 DEF True
  <2>2. CASE p # r.account
    <3>1. board'[p] = board[p] /\ True(p, board[p])
      BY <1>5, <2>2 DEF LoginsIInv
    <3>2. board[p].status = "pending" => board[p].login # l
      BY <2>2, <3>1 DEF True
    <3>. QED
      BY <1>4, <3>1, <3>2 DEF True
  <2>. QED
    BY <2>1, <2>2
<1>. QED
  BY <1>6, <1>7, <1>8 DEF LoginsIInv

-----------------------------------------------------------------------------
(* The steps of a login. *)

\* What each of them may rely on.
LEMMA Standing ==
  ASSUME LoginsIInv, NEW l \in Attempt
  PROVE  /\ login[l] \in LoginType /\ RunFits(stored, l, login[l])
         /\ oauth \in OAuthType /\ stored \subseteq Attempt
  BY Types DEF LoginsIInv

\* A step to another place that promises nothing of its own.
LEMMA GoesFits ==
  ASSUME LoginsIInv, NEW l \in Attempt, login[l].at # "unused", NEW place \in Places,
         place \notin {"live", "judge", "post"}, NEW kept,
         kept = [login[l] EXCEPT !.at = place]
  PROVE  kept \in LoginType /\ RunFits(stored, l, kept) /\ kept.at = place /\ kept.account = login[l].account
  BY Standing DEF LoginType, RunFits

\* A step to another place, with a result.
LEMMA ReportsFits ==
  ASSUME LoginsIInv, NEW l \in Attempt, login[l].at # "unused", NEW place \in {"judge", "post"},
         NEW result \in {"success", "error"}, result = "success" => l \in stored, NEW kept,
         kept = [login[l] EXCEPT !.at = place, !.result = result]
  PROVE  kept \in LoginType /\ RunFits(stored, l, kept) /\ kept.at = place /\ kept.account = login[l].account
  BY Standing DEF LoginType, RunFits, Places

\* Going from one place to another, nothing stored.
LEMMA GoesKeeps ==
  ASSUME LoginsIInv, NEW l \in Attempt, NEW place \in Places, Goes(l, place),
         login[l].at # "unused", place \notin {"live", "judge", "post"},
         login[l].at \in Working => place \in Working,
         oauth' \in OAuthType, stored' = stored, board' = board, reader' = reader
  PROVE  LoginsIInv'
<1>. DEFINE r == [login[l] EXCEPT !.at = place]
<1>1. r \in LoginType /\ RunFits(stored, l, r) /\ r.at = place /\ r.account = login[l].account
  BY GoesFits
<1>2. Turns(l, r)
  BY DEF Goes
<1>. HIDE DEF r
<1>3. RunFits(stored', l, r)
  BY <1>1 DEF RunFits
<1>. QED
  BY <1>1, <1>2, <1>3, QuietKeeps DEF Stores

LEMMA ReportsKeeps ==
  ASSUME LoginsIInv, NEW l \in Attempt, NEW place \in {"judge", "post"}, NEW result \in {"success", "error"},
         Reports(l, place, result), login[l].at # "unused",
         result = "success" => l \in stored',
         Stores(l), board' = board, reader' = reader
  PROVE  LoginsIInv'
<1>. DEFINE r == [login[l] EXCEPT !.at = place, !.result = result]
<1>1. Turns(l, r)
  BY DEF Reports
<1>2. /\ r \in LoginType /\ r.at = place /\ r.account = login[l].account /\ r.result = result
      /\ r.account \in Accounts
  BY Standing DEF LoginType, Places, RunFits
<1>. HIDE DEF r
<1>3. RunFits(stored', l, r)
  BY <1>2 DEF RunFits
<1>4. r.at \in Working
  BY <1>2 DEF Working
<1>. QED
  BY <1>1, <1>2, <1>3, <1>4, QuietKeeps

\* A login begins.
LEMMA StartKeeps ==
  ASSUME LoginsIInv, NEW l \in Attempt, NEW p \in Accounts, NEW key, NEW loopback,
         StartRedirect(l, p) \/ StartDevice(l, p) \/ StartListener(l, p) \/ SetKey(l, p, key, loopback)
  PROVE  LoginsIInv'
<1>1. login[l].at = "unused" /\ board' = board /\ reader' = reader
  BY DEF StartRedirect, StartDevice, StartListener, SetKey
<1>2. ASSUME NEW place \in {"given", "device", "bind", "over"}, NEW r,
             r = [Unused EXCEPT !.at = place, !.account = p]
      PROVE  r \in LoginType /\ RunFits(stored', l, r)
  <2>1. r = [at |-> place, account |-> p, left |-> 0, result |-> "pending"]
    BY <1>2 DEF Unused
  <2>2. r \in LoginType
    BY <2>1, LoginsAssumption DEF LoginType, Places
  <2>. QED
    BY <2>1, <2>2 DEF RunFits
<1>3. PICK place \in {"given", "device", "bind", "over"} :
        Turns(l, [Unused EXCEPT !.at = place, !.account = p])
  BY DEF StartRedirect, StartDevice, StartListener, SetKey
<1>4. Stores(l)
  <2>1. [oauth EXCEPT ![p].pkce = l] \in OAuthType /\ [oauth EXCEPT ![p].creds = l] \in OAuthType
    BY Standing DEF OAuthType, Ids
  <2>. QED
    BY <2>1, Standing DEF Stores, StartRedirect, StartDevice, StartListener, SetKey
<1>5. login[l].at \notin Working
  BY <1>1 DEF Working
<1>. QED
  BY <1>1, <1>2, <1>3, <1>4, <1>5, QuietKeeps

\* A redirect is pasted, exchanged and stored, and any client leaves.
LEMMA RedirectKeeps ==
  ASSUME LoginsIInv, NEW l \in Attempt, NEW ok \in BOOLEAN,
         PasteRedirect(l) \/ ExchangeCode(l, ok) \/ WriteTokens(l) \/ ClearPkce(l) \/ Desert(l)
  PROVE  LoginsIInv'
<1>1. login[l].at \in {"given", "exchange", "write", "clear", "device", "bind"}
      /\ board' = board /\ reader' = reader
  BY DEF PasteRedirect, ExchangeCode, WriteTokens, ClearPkce, Desert
<1>2. PICK place \in {"exchange", "write", "clear", "over"} : Goes(l, place)
  BY DEF PasteRedirect, ExchangeCode, WriteTokens, ClearPkce, Desert
<1>. DEFINE r == [login[l] EXCEPT !.at = place]
<1>3. r \in LoginType /\ RunFits(stored, l, r)
  BY <1>1, GoesFits DEF Places
<1>4. Turns(l, r)
  BY <1>2 DEF Goes
<1>. HIDE DEF r
<1>5. login[l].account \in Accounts
  BY <1>1, Standing DEF RunFits
<1>6. Stores(l)
  <2>1. /\ [oauth EXCEPT ![login[l].account].creds = l] \in OAuthType
        /\ [oauth EXCEPT ![login[l].account].pkce = NoLogin] \in OAuthType
    BY <1>5, Standing DEF OAuthType, Ids
  <2>. QED
    BY <2>1, Standing DEF Stores, Keeps, PasteRedirect, ExchangeCode, WriteTokens, ClearPkce, Desert
<1>7. RunFits(stored', l, r)
  BY <1>3, <1>6 DEF RunFits, Stores
<1>8. login[l].at \notin Working
  BY <1>1 DEF Working
<1>. QED
  BY <1>1, <1>3, <1>4, <1>6, <1>7, <1>8, QuietKeeps

\* A task is spawned, and its login is on the board.
LEMMA SpawnKeeps == ASSUME LoginsIInv, NEW l \in Attempt, SpawnDevice(l) \/ SpawnListener(l) PROVE LoginsIInv'
<1>1. login[l].at \in {"device", "bind"} /\ Posts(login[l].account, "pending", l)
      /\ oauth' = oauth /\ stored' = stored /\ reader' = reader
  BY DEF SpawnDevice, SpawnListener
<1>2. login[l].account \in Accounts
  BY <1>1, Standing DEF RunFits
<1>3. ASSUME NEW r \in LoginType, Turns(l, r), r.at \in {"poll", "listen"},
             r.account = login[l].account, r.result = login[l].result
      PROVE  LoginsIInv'
  <2>1. RunFits(stored, l, r) /\ r.at \in Working
    BY <1>2, <1>3, Standing DEF RunFits, Working
  <2>. QED
    BY <1>1, <1>2, <1>3, <2>1, PostKeeps
<1>4. CASE SpawnDevice(l)
  <2>. DEFINE r == [login[l] EXCEPT !.at = "poll", !.left = Polls]
  <2>1. /\ r \in LoginType /\ r.at = "poll"
        /\ r.account = login[l].account /\ r.result = login[l].result
    <3>1. Polls \in 0..Polls /\ "poll" \in Places
      BY LoginsAssumption DEF Places
    <3>. QED
      BY <3>1, Standing DEF LoginType
  <2>. QED
    BY <1>3, <1>4, <2>1 DEF SpawnDevice
<1>5. CASE SpawnListener(l)
  <2>. DEFINE r == [login[l] EXCEPT !.at = "listen"]
  <2>1. /\ r \in LoginType /\ r.at = "listen"
        /\ r.account = login[l].account /\ r.result = login[l].result
    BY Standing DEF LoginType, Places
  <2>. QED
    BY <1>3, <1>5, <2>1 DEF SpawnListener, Goes
<1>. QED
  BY <1>4, <1>5

\* A device login polls, exchanges its grant and stores the tokens.
LEMMA DeviceKeeps ==
  ASSUME LoginsIInv, NEW l \in Attempt, NEW ok \in BOOLEAN,
         NEW answer \in {"approved", "pending", "unreachable", "refused"},
         \/ Poll(l, answer) \/ ExchangeGrant(l, ok) \/ StoreGrant(l, ok)
         \/ ReloadForGrant(l, ok) \/ JudgeDevice(l)
  PROVE  LoginsIInv'
<1>1. board' = board /\ reader' = reader /\ oauth \in OAuthType
  BY Standing DEF Poll, ExchangeGrant, StoreGrant, ReloadForGrant, JudgeDevice
<1>2. login[l].at \in {"poll", "grant", "store", "live", "judge"}
  BY DEF Poll, ExchangeGrant, StoreGrant, ReloadForGrant, JudgeDevice
<1>3. CASE oauth' = oauth /\ stored' = stored /\ Reports(l, "judge", "error")
  BY <1>1, <1>2, <1>3, ReportsKeeps DEF Stores
<1>4. CASE oauth' = oauth /\ stored' = stored /\ (Goes(l, "grant") \/ Goes(l, "store"))
  BY <1>1, <1>2, <1>4, GoesKeeps DEF Places, Working
<1>5. CASE oauth' = oauth /\ stored' = stored /\ login[l].left # 0
           /\ Turns(l, [login[l] EXCEPT !.left = @ - 1])
  <2>. DEFINE r == [login[l] EXCEPT !.left = @ - 1]
  <2>1. r \in LoginType /\ r.at = login[l].at /\ r.account = login[l].account /\ r.result = login[l].result
    BY <1>5, Standing, LoginsAssumption DEF LoginType
  <2>. HIDE DEF r
  <2>2. RunFits(stored', l, r)
    BY <1>5, <2>1, Standing DEF RunFits
  <2>3. Turns(l, r)
    BY <1>5 DEF r
  <2>. QED
    BY <1>1, <1>5, <2>1, <2>2, <2>3, QuietKeeps DEF Stores
<1>6. CASE Poll(l, answer)
  BY <1>3, <1>4, <1>5, <1>6 DEF Poll, Expired
<1>7. CASE ExchangeGrant(l, ok)
  BY <1>3, <1>4, <1>7 DEF ExchangeGrant
<1>8. CASE StoreGrant(l, ok)
  <2>1. CASE ~ok
    BY <1>3, <1>8, <2>1 DEF StoreGrant
  <2>2. CASE ok
    <3>. DEFINE r == [login[l] EXCEPT !.at = "live"]
    <3>1. Turns(l, r) /\ Keeps(l)
      BY <1>8, <2>2 DEF StoreGrant, Goes
    <3>2. r \in LoginType /\ r.at = "live" /\ r.account = login[l].account /\ r.account \in Accounts
      BY <1>2, Standing DEF LoginType, Places, RunFits
    <3>. HIDE DEF r
    <3>3. stored' = stored \cup {l} /\ oauth' \in OAuthType
      BY <1>1, <3>1, <3>2 DEF Keeps, OAuthType, Ids
    <3>4. RunFits(stored', l, r) /\ r.at \in Working
      BY <3>2, <3>3 DEF RunFits, Working
    <3>. QED
      BY <1>1, <3>1, <3>2, <3>3, <3>4, QuietKeeps DEF Stores
  <2>. QED
    BY <2>1, <2>2
<1>9. CASE ReloadForGrant(l, ok)
  <2>1. l \in stored
    BY <1>9, Standing DEF ReloadForGrant, RunFits
  <2>. QED
    BY <1>1, <1>2, <1>9, <2>1, ReportsKeeps DEF ReloadForGrant, Stores
<1>10. CASE JudgeDevice(l)
  <2>. DEFINE place == IF IsCurrentAttempt(l) THEN "post" ELSE "over"
              r == [login[l] EXCEPT !.at = place]
  <2>1. Turns(l, r) /\ oauth' = oauth /\ stored' = stored
    BY <1>10 DEF JudgeDevice, Goes
  <2>2. r \in LoginType /\ r.at = place /\ r.account = login[l].account /\ r.result = login[l].result
    BY Standing DEF LoginType, Places
  <2>. HIDE DEF r
  <2>3. login[l].at = "judge"
    BY <1>10 DEF JudgeDevice
  <2>4. RunFits(stored', l, r)
    BY <2>1, <2>2, <2>3, Standing DEF RunFits
  <2>5. r.at \in Working \/ ~IsCurrentAttempt(l)
    BY <2>2 DEF Working
  <2>. QED
    BY <1>1, <2>1, <2>2, <2>4, <2>5, QuietKeeps DEF Stores
<1>. QED
  BY <1>6, <1>7, <1>8, <1>9, <1>10

\* A browser calls back and its key is stored.
LEMMA BrowserKeeps ==
  ASSUME LoginsIInv, NEW l \in Attempt, NEW ok \in BOOLEAN,
         NEW what \in {"other", "denied", "timeout", "key"},
         Callback(l, what) \/ KeepKey(l, ok)
  PROVE  LoginsIInv'
<1>1. board' = board /\ reader' = reader /\ oauth \in OAuthType
      /\ login[l].at \in {"listen", "keep"}
  BY Standing DEF Callback, KeepKey
<1>2. CASE Callback(l, what)
  <2>1. oauth' = oauth /\ stored' = stored
    BY <1>2 DEF Callback
  <2>2. CASE what = "other"
    <3>1. login' = login
      BY <1>2, <2>2 DEF Callback
    <3>. QED
      BY <1>1, <2>1, <3>1 DEF LoginsIInv, LoginsTypeOK, RunFits, True
  <2>3. CASE what \in {"denied", "timeout"}
    BY <1>1, <1>2, <2>1, <2>3, ReportsKeeps DEF Callback, Stores
  <2>4. CASE what = "key"
    BY <1>1, <1>2, <2>1, <2>4, GoesKeeps DEF Callback, Places, Working
  <2>. QED
    BY <2>2, <2>3, <2>4
<1>3. CASE KeepKey(l, ok)
  <2>1. login[l].account \in Accounts
    BY <1>1, Standing DEF RunFits
  <2>2. [oauth EXCEPT ![login[l].account].creds = l] \in OAuthType
    BY <1>1, <2>1 DEF OAuthType, Ids
  <2>3. Stores(l) /\ (ok => l \in stored')
    BY <1>1, <1>3, <2>2 DEF KeepKey, Keeps, Stores
  <2>4. Reports(l, "post", IF ok THEN "success" ELSE "error")
    BY <1>3 DEF KeepKey
  <2>. QED
    BY <1>1, <2>3, <2>4, ReportsKeeps
<1>. QED
  BY <1>2, <1>3

LEMMA ResultKeeps == ASSUME LoginsIInv, NEW l \in Attempt, PostResult(l) PROVE LoginsIInv'
<1>1. login[l].at = "post" /\ Goes(l, "over") /\ Posts(login[l].account, login[l].result, l)
      /\ oauth' = oauth /\ stored' = stored /\ reader' = reader
  BY DEF PostResult
<1>. DEFINE r == [login[l] EXCEPT !.at = "over"]
<1>2. r \in LoginType /\ RunFits(stored, l, r) /\ r.account = login[l].account
  BY <1>1, GoesFits DEF Places
<1>3. Turns(l, r)
  BY <1>1 DEF Goes
<1>. HIDE DEF r
<1>4. /\ login[l].account \in Accounts /\ login[l].result \in {"success", "error"}
      /\ login[l].result = "success" => l \in stored
  BY <1>1, Standing DEF RunFits
<1>. QED
  BY <1>1, <1>2, <1>3, <1>4, PostKeeps

-----------------------------------------------------------------------------
(* The invariant holds at the start, and every step keeps it. *)

LEMMA BlankTyped ==
  /\ Blank \in EntryType /\ Blank.status = "not_started"
  /\ NoState \in [pkce : Ids, creds : Ids]
  BY DEF Blank, NoState, EntryType, Ids

LEMMA InitLogins == LoginsInit => LoginsIInv
<1>. SUFFICES ASSUME LoginsInit PROVE LoginsIInv
  OBVIOUS
<1>1. Unused \in LoginType /\ Unused.at = "unused" /\ Unused.result = "pending"
  BY LoginsAssumption DEF Unused, LoginType, Places
<1>2. oauth \in OAuthType
  BY BlankTyped DEF LoginsInit, OAuthType
<1>3. board \in [Accounts -> EntryType] /\ \A p \in Accounts : board[p] = Blank
  BY BlankTyped DEF LoginsInit
<1>4. login \in [Attempt -> LoginType] /\ \A l \in Attempt : login[l] = Unused
  BY <1>1 DEF LoginsInit
<1>5. reader \in Accounts \cup {NoLogin} /\ stored \subseteq Attempt
  BY DEF LoginsInit
<1>. QED
  BY <1>1, <1>2, <1>3, <1>4, <1>5, Types, BlankTyped DEF LoginsIInv, RunFits, True

\* Readers, the admin who disconnects, and the end of the process.
LEMMA OthersKeep ==
  ASSUME LoginsIInv, \/ \E p \in Accounts : ReadStatus(p) \/ ForgetAccount(p)
               \/ RemoveStatus \/ StopLogins \/ UNCHANGED loginVars
  PROVE  LoginsIInv'
<1>1. /\ login \in [Attempt -> LoginType] /\ board \in [Accounts -> EntryType]
      /\ oauth \in OAuthType /\ reader \in Accounts \cup {NoLogin} /\ stored \subseteq Attempt
  BY Types DEF LoginsIInv
<1>2. ASSUME NEW p \in Accounts, ReadStatus(p) PROVE LoginsIInv'
  BY <1>2 DEF ReadStatus, LoginsIInv, LoginsTypeOK, RunFits, True
<1>3. ASSUME NEW p \in Accounts, ForgetAccount(p) PROVE LoginsIInv'
  <2>1. oauth' \in OAuthType
    BY <1>1, <1>3, BlankTyped DEF ForgetAccount, OAuthType
  <2>2. /\ login' = login /\ board' = board /\ reader' = reader /\ stored' = stored
    BY <1>3 DEF ForgetAccount
  <2>. QED
    BY <2>1, <2>2 DEF LoginsIInv, LoginsTypeOK, OAuthType, Ids, RunFits, True
<1>4. CASE RemoveStatus
  <2>1. board' = [board EXCEPT ![reader] = Blank] /\ reader \in Accounts
    BY <1>1, <1>4 DEF RemoveStatus
  <2>2. /\ board' \in [Accounts -> EntryType]
        /\ \A p \in Accounts : board'[p] = board[p] \/ board'[p] = Blank
    BY <1>1, <2>1, BlankTyped
  <2>3. login' = login /\ oauth' = oauth /\ stored' = stored /\ reader' = NoLogin
    BY <1>4 DEF RemoveStatus
  <2>4. LoginsTypeOK'
    BY <1>1, <2>2, <2>3 DEF LoginsTypeOK, OAuthType, EntryType, LoginType, Ids
  <2>. QED
    BY <2>2, <2>3, <2>4, BlankTyped DEF LoginsIInv, RunFits, True
<1>5. CASE StopLogins
  <2>. DEFINE Stopped(l) == [login[l] EXCEPT !.at = "over"]
  <2>1. \A l \in Attempt : /\ Stopped(l) \in LoginType /\ Stopped(l).at = "over"
                           /\ Stopped(l).account = login[l].account
                           /\ Stopped(l).result = login[l].result
    BY <1>1 DEF LoginType, Places
  <2>2. login' = [l \in Attempt |-> IF login[l].at \in {"unused", "given"} THEN login[l] ELSE Stopped(l)]
    BY <1>5 DEF StopLogins
  <2>. HIDE DEF Stopped
  <2>3. /\ login' \in [Attempt -> LoginType]
        /\ \A l \in Attempt : \/ login'[l] = login[l]
                              \/ login'[l] = Stopped(l) /\ login[l].at # "unused"
    BY <1>1, <2>1, <2>2
  <2>4. /\ board' \in [Accounts -> EntryType] /\ \A p \in Accounts : board'[p] = Blank
        /\ oauth' = oauth /\ stored' = stored /\ reader' = NoLogin
    BY <1>5, BlankTyped DEF StopLogins
  <2>5. LoginsTypeOK'
    BY <1>1, <2>3, <2>4 DEF LoginsTypeOK, OAuthType, EntryType, LoginType, Ids
  <2>6. ASSUME NEW l \in Attempt PROVE RunFits(stored', l, login'[l])
    BY <2>1, <2>3, <2>4, Standing DEF RunFits
  <2>. QED
    BY <2>4, <2>5, <2>6, BlankTyped DEF LoginsIInv, True
<1>6. CASE UNCHANGED loginVars
  BY <1>6 DEF loginVars, LoginsIInv, LoginsTypeOK, RunFits, True
<1>. QED
  BY <1>2, <1>3, <1>4, <1>5, <1>6

LEMMA LoginsStepKeeps == LoginsIInv /\ [LoginsNext]_loginVars => LoginsIInv'
<1>. SUFFICES ASSUME LoginsIInv, [LoginsNext]_loginVars PROVE LoginsIInv'
  OBVIOUS
<1>1. ASSUME NEW l \in Attempt, NEW p \in Accounts, NEW key \in {"typed", "on disk"},
             NEW loopback \in BOOLEAN,
             StartRedirect(l, p) \/ StartDevice(l, p) \/ StartListener(l, p)
               \/ SetKey(l, p, key, loopback)
      PROVE  LoginsIInv'
  BY <1>1, StartKeeps
<1>2. ASSUME NEW l \in Attempt, NEW ok \in BOOLEAN,
             NEW answer \in {"approved", "pending", "unreachable", "refused"},
             NEW what \in {"other", "denied", "timeout", "key"},
             \/ ExchangeCode(l, ok) \/ ExchangeGrant(l, ok) \/ StoreGrant(l, ok)
             \/ ReloadForGrant(l, ok) \/ KeepKey(l, ok) \/ Poll(l, answer) \/ Callback(l, what)
             \/ PasteRedirect(l) \/ WriteTokens(l) \/ ClearPkce(l) \/ SpawnDevice(l)
             \/ JudgeDevice(l) \/ SpawnListener(l) \/ PostResult(l) \/ Desert(l)
      PROVE  LoginsIInv'
  BY <1>2, RedirectKeeps, DeviceKeeps, BrowserKeeps, SpawnKeeps, ResultKeeps
<1>. QED
  BY <1>1, <1>2, OthersKeep DEF LoginsNext

-----------------------------------------------------------------------------
(* Every entry of the board belongs to its account, and a result waits for   *)
(* its credentials: the inductive invariant.                                 *)
THEOREM LoginsInvariance == LoginsSpec => []LoginsIInv
  BY InitLogins, LoginsStepKeeps, PTL DEF LoginsSpec

(* Rows, entries and tasks keep their types, and no login polls for longer   *)
(* than it may (DEVICE_LOGIN_TTL).                                           *)
THEOREM LoginsTyped == LoginsSpec => []LoginsTypeOK
<1>1. LoginsIInv => LoginsTypeOK
  BY DEF LoginsIInv
<1>. QED
  BY <1>1, LoginsInvariance, PTL

(* start_device_login, start_commandcode_browser_login and the handlers of   *)
(* their status: a pending login has a task that will report, and one shown  *)
(* as successful has its credentials stored.                                 *)
THEOREM Shown == LoginsSpec => []ShownIsTrue
<1>1. LoginsIInv => ShownIsTrue
  BY DEF LoginsIInv, ShownIsTrue, True, Working
<1>. QED
  BY <1>1, LoginsInvariance, PTL

-----------------------------------------------------------------------------
(***************************************************************************)
(* Theorems about Settings, for any secrets and environments.  The         *)
(* argument: until somebody has written a mode down, a secret is there     *)
(* exactly if there was one before anything had decided on a mode, except  *)
(* between the steps of a start, and there the start remembers which; so   *)
(* all who have read that there is no mode are about to write the same.    *)
(***************************************************************************)

(* The inductive invariant. *)

\* The mode that is due.
Due == IF past.chosen # NotSet THEN past.chosen
       ELSE IF past.had THEN "required" ELSE "open"

\* Nobody has decided: what is there is what was there, but for the secret of a
\* start that is under way.
Undecided ==
  /\ past.chosen = NotSet /\ cli \in {"off", Due}
  /\ server.at \in {"down", "secret", "read"}
  /\ server.at = "down" => (SecretExists <=> past.had)
  /\ server.at \in {"secret", "read"} => (server.existed <=> past.had) /\ SecretExists
  /\ server.at = "read" => server.origin = "default" /\ server.mode = Due

\* Whoever decides writes it down.
Decided ==
  env.mode = NotSet /\ ~past.torn =>
    /\ disk.mode # NotSet => disk.mode = Due
    /\ disk.mode = NotSet => Undecided

\* A start has a mode, and the page offers to change it only where the
\* environment has none.
Offered ==
  /\ server.at = "read" => server.mode \in SettingModes
  /\ server.at \in {"read", "resolved", "wizard", "up"} => (server.origin = "env" <=> env.mode # NotSet)
  /\ setting.at # "none" => server.at = "up" /\ (setting.what = "mode" => env.mode = NotSet)

SettingsIInv == SettingsTypeOK /\ Decided /\ Offered

-----------------------------------------------------------------------------
(* Facts about the types. *)

LEMMA SettingsRecords ==
  ASSUME SettingsIInv
  PROVE  /\ env.secret \in Secret \cup {NotSet} /\ env.mode \in SettingModes \cup {NotSet}
         /\ disk.secret \in Secret \cup {NotSet} /\ disk.mode \in SettingModes \cup {NotSet}
         /\ disk.images \in BOOLEAN
         /\ past.had \in BOOLEAN /\ past.chosen \in SettingModes \cup {NotSet}
         /\ past.told \in SettingModes \cup {NotSet} /\ past.torn \in BOOLEAN
         /\ server \in ServerType /\ server.existed \in BOOLEAN
         /\ NotSet \notin SettingModes /\ NotSet \notin Secret
<1>1. /\ env \in [secret : Secret \cup {NotSet}, mode : SettingModes \cup {NotSet}]
      /\ disk \in DiskType /\ past \in PastType /\ server \in ServerType
  BY SettingsAssumption DEF SettingsIInv, SettingsTypeOK
<1>2. NotSet \notin SettingModes /\ NotSet \notin Secret
  BY SettingsAssumption DEF NotSet, SettingModes
<1>. QED
  BY <1>1, <1>2 DEF DiskType, PastType, ServerType

\* The updates that steps make of the rows and of the history.
LEMMA DiskUpdates ==
  ASSUME SettingsIInv
  PROVE  /\ \A s \in Secret : LET d == [disk EXCEPT !.secret = s] IN
              d \in DiskType /\ d.secret = s /\ d.mode = disk.mode
         /\ \A m \in SettingModes : LET d == [disk EXCEPT !.mode = m] IN
              d \in DiskType /\ d.secret = disk.secret /\ d.mode = m
         /\ \A b \in BOOLEAN : LET d == [disk EXCEPT !.images = b] IN
              d \in DiskType /\ d.secret = disk.secret /\ d.mode = disk.mode
  BY DEF SettingsIInv, SettingsTypeOK, DiskType

LEMMA PastUpdates ==
  ASSUME SettingsIInv
  PROVE  /\ \A m \in SettingModes \cup {NotSet} : LET h == [past EXCEPT !.told = m] IN
              h \in PastType /\ h.had = past.had /\ h.chosen = past.chosen /\ h.torn = past.torn
         /\ \A m \in SettingModes : LET h == [past EXCEPT !.chosen = m] IN
              h \in PastType /\ h.had = past.had /\ h.chosen = m /\ h.torn = past.torn
         /\ \A b \in BOOLEAN : LET h == [past EXCEPT !.torn = b] IN
              h \in PastType /\ h.had = past.had /\ h.chosen = past.chosen /\ h.torn = b
  BY DEF SettingsIInv, SettingsTypeOK, PastType

LEMMA Modes ==
  ASSUME SettingsIInv, NEW existed
  PROVE  /\ ModeInForce(existed) \in SettingModes
         /\ ModeOrigin \in {"env", "db", "default"}
         /\ ModeOrigin = "env" <=> env.mode # NotSet
         /\ ModeOrigin = "default" <=> env.mode = NotSet /\ disk.mode = NotSet
  BY SettingsRecords DEF ModeInForce, ModeOrigin, SettingModes

-----------------------------------------------------------------------------
(* A start. *)

LEMMA SecretKeeps == ASSUME SettingsIInv, NEW secret \in Secret, ResolveSecret(secret) PROVE SettingsIInv'
<1>. DEFINE s == [Down EXCEPT !.at = "secret", !.existed = SecretExists,
                              !.secret = IF SecretExists THEN SecretInForce ELSE secret]
<1>1. /\ server.at = "down" /\ server' = s
      /\ disk' = IF SecretExists THEN disk ELSE [disk EXCEPT !.secret = secret]
      /\ past' = [past EXCEPT !.told = NotSet]
      /\ env' = env /\ setting' = setting /\ cli' = cli
  BY DEF ResolveSecret
<1>2. SecretInForce \in Secret \cup {NotSet} /\ SecretExists \in BOOLEAN
  BY SettingsRecords DEF SecretInForce, SecretExists
<1>3. s \in ServerType /\ s.at = "secret" /\ s.existed = SecretExists
  BY <1>2 DEF Down, ServerType, ServerPlaces
<1>. HIDE DEF s
<1>4. /\ disk' \in DiskType /\ disk'.mode = disk.mode
      /\ SecretExists => disk'.secret = disk.secret
      /\ ~SecretExists => disk'.secret = secret
  BY <1>1, DiskUpdates DEF SettingsIInv, SettingsTypeOK
<1>5. /\ past' \in PastType /\ past'.had = past.had /\ past'.chosen = past.chosen
      /\ past'.torn = past.torn
  BY <1>1, PastUpdates
<1>6. SecretExists'
  BY <1>1, <1>4, SettingsRecords DEF SecretExists
<1>7. SettingsTypeOK'
  BY <1>1, <1>3, <1>4, <1>5 DEF SettingsIInv, SettingsTypeOK
<1>8. Offered'
  BY <1>1, <1>3 DEF SettingsIInv, Offered
<1>9. Decided'
  BY <1>1, <1>3, <1>4, <1>5, <1>6 DEF SettingsIInv, Decided, Undecided, Due
<1>. QED
  BY <1>7, <1>8, <1>9 DEF SettingsIInv

\* The mode that a start finds.
LEMMA ReadKeeps ==
  ASSUME SettingsIInv, ReadMode
  PROVE  /\ SettingsIInv'
         /\ server'.origin # "env" /\ ~past.torn => server'.mode = Due
         /\ past' = past
<1>. DEFINE mode == ModeInForce(server.existed)
            s == [server EXCEPT !.at = "read", !.mode = mode, !.origin = ModeOrigin]
<1>1. /\ server.at = "secret" /\ server' = s
      /\ env' = env /\ disk' = disk /\ setting' = setting /\ cli' = cli /\ past' = past
  BY DEF ReadMode
<1>2. mode \in SettingModes /\ ModeOrigin \in {"env", "db", "default"}
  BY Modes
<1>3. /\ s \in ServerType /\ s.at = "read" /\ s.mode = mode /\ s.origin = ModeOrigin
      /\ s.existed = server.existed
  BY <1>2, SettingsRecords DEF ServerType, ServerPlaces
<1>4. env.mode = NotSet /\ disk.mode # NotSet => mode = disk.mode
  BY DEF ModeInForce
<1>5. env.mode = NotSet /\ disk.mode = NotSet => mode = IF server.existed THEN "required" ELSE "open"
  BY DEF ModeInForce
<1>. HIDE DEF s, mode
<1>6. env.mode = NotSet /\ ~past.torn => mode = Due
  BY <1>1, <1>4, <1>5 DEF SettingsIInv, Decided, Undecided, Due
<1>7. SettingsTypeOK'
  BY <1>1, <1>3 DEF SettingsIInv, SettingsTypeOK
<1>8. Offered'
  BY <1>1, <1>2, <1>3, Modes DEF SettingsIInv, Offered
<1>9. Decided'
  <2>1. Due' = Due /\ SecretExists' = SecretExists
    BY <1>1 DEF Due, SecretExists
  <2>2. ASSUME env.mode = NotSet, disk.mode = NotSet, ~past.torn PROVE Undecided'
    <3>1. Undecided /\ ModeOrigin = "default"
      BY <2>2, Modes DEF SettingsIInv, Decided
    <3>. QED
      BY <1>1, <1>3, <1>6, <2>1, <2>2, <3>1 DEF Undecided
  <2>. QED
    BY <1>1, <2>1, <2>2 DEF SettingsIInv, Decided
<1>. QED
  BY <1>1, <1>3, <1>6, <1>7, <1>8, <1>9, Modes DEF SettingsIInv

\* The default, written down by somebody who has read that there was none.
LEMMA DefaultWritten ==
  ASSUME SettingsIInv, NEW mode \in SettingModes,
         env.mode = NotSet, past' = [past EXCEPT !.torn = past.torn \/ WritesOver(mode)],
         disk' = [disk EXCEPT !.mode = mode], env' = env, Undecided => mode = Due
  PROVE  Decided' /\ disk' \in DiskType
<1>1. disk' \in DiskType /\ disk'.mode = mode
  BY DiskUpdates
<1>2. past.torn \/ WritesOver(mode) \in BOOLEAN
  BY SettingsRecords DEF WritesOver
<1>3. past'.had = past.had /\ past'.chosen = past.chosen /\ past'.torn = (past.torn \/ WritesOver(mode))
  BY <1>2, PastUpdates
<1>4. ASSUME ~past'.torn PROVE mode = Due
  <2>1. ~past.torn /\ disk.mode \in {NotSet, mode}
    BY <1>3, <1>4 DEF WritesOver
  <2>. QED
    BY <2>1, SettingsRecords DEF SettingsIInv, Decided
<1>5. Due' = Due
  BY <1>3 DEF Due
<1>. QED
  BY <1>1, <1>4, <1>5, SettingsRecords DEF Decided

LEMMA ModeKeeps == ASSUME SettingsIInv, ResolveMode PROVE SettingsIInv'
<1>. DEFINE s == [server EXCEPT !.at = "resolved"]
            torn == past.torn \/ (server.origin = "default" /\ WritesOver(server.mode))
<1>1. /\ server.at = "read" /\ server' = s /\ disk' = WithMode(disk, server.origin, server.mode)
      /\ env' = env /\ setting' = setting /\ cli' = cli
      /\ past' = [past EXCEPT !.torn = torn]
  BY DEF ResolveMode
<1>2. s \in ServerType /\ s.at = "resolved" /\ s.origin = server.origin
  BY SettingsRecords DEF ServerType, ServerPlaces
<1>3. torn \in BOOLEAN
  BY SettingsRecords DEF WritesOver
<1>4. /\ past' \in PastType /\ past'.had = past.had /\ past'.chosen = past.chosen
      /\ past'.torn = torn
  BY <1>1, <1>3, PastUpdates
<1>5. server.mode \in SettingModes /\ (server.origin = "env" <=> env.mode # NotSet)
  BY <1>1 DEF SettingsIInv, Offered
<1>. HIDE DEF s
<1>6. disk' \in DiskType /\ Decided'
  <2>1. CASE server.origin = "default"
    <3>1. /\ disk' = [disk EXCEPT !.mode = server.mode] /\ env.mode = NotSet
          /\ past' = [past EXCEPT !.torn = past.torn \/ WritesOver(server.mode)]
      BY <1>1, <1>5, <2>1 DEF WithMode
    <3>2. Undecided => server.mode = Due
      BY <1>1 DEF Undecided
    <3>. QED
      BY <1>1, <1>5, <3>1, <3>2, DefaultWritten
  <2>2. CASE server.origin # "default"
    <3>1. disk' = disk /\ past'.torn = past.torn /\ Due' = Due /\ ~Undecided
      <4>1. torn = past.torn
        BY <2>2, SettingsRecords
      <4>. HIDE DEF torn
      <4>2. disk' = disk /\ ~Undecided
        BY <1>1, <2>2 DEF WithMode, Undecided
      <4>. QED
        BY <1>4, <4>1, <4>2 DEF Due
    <3>2. env'.mode = env.mode /\ disk'.mode = disk.mode /\ disk \in DiskType
      BY <1>1, <3>1 DEF SettingsIInv, SettingsTypeOK
    <3>3. env.mode = NotSet /\ ~past.torn => disk.mode # NotSet /\ disk.mode = Due
      BY <3>1 DEF SettingsIInv, Decided
    <3>4. Decided'
      BY <3>1, <3>2, <3>3 DEF Decided
    <3>. QED
      BY <3>1, <3>2, <3>4
  <2>. QED
    BY <2>1, <2>2
<1>7. SettingsTypeOK'
  BY <1>1, <1>2, <1>4, <1>6 DEF SettingsIInv, SettingsTypeOK
<1>8. Offered'
  BY <1>1, <1>2, <1>5 DEF SettingsIInv, Offered
<1>. QED
  BY <1>6, <1>7, <1>8 DEF SettingsIInv

LEMMA WizardKeeps == ASSUME SettingsIInv, NEW mode \in SettingModes, FirstBootWizard(mode) PROVE SettingsIInv'
<1>. DEFINE s == [server EXCEPT !.at = "wizard"]
<1>1. server.at = "resolved" /\ server' = s /\ env' = env /\ setting' = setting /\ cli' = cli
  BY DEF FirstBootWizard
<1>2. s \in ServerType /\ s.at = "wizard" /\ s.origin = server.origin
  BY SettingsRecords DEF ServerType, ServerPlaces
<1>. HIDE DEF s
<1>3. Offered'
  BY <1>1, <1>2 DEF SettingsIInv, Offered
<1>4. CASE env.mode # NotSet
  <2>1. disk' = disk /\ past' = past
    BY <1>4 DEF FirstBootWizard
  <2>2. SettingsTypeOK' /\ Decided'
    BY <1>1, <1>2, <1>4, <2>1 DEF SettingsIInv, SettingsTypeOK, Decided
  <2>. QED
    BY <1>3, <2>2 DEF SettingsIInv
<1>5. CASE env.mode = NotSet
  <2>. DEFINE h == [past EXCEPT !.chosen = IF mode # disk.mode THEN mode ELSE @, !.told = mode]
  <2>1. disk' = [disk EXCEPT !.mode = mode] /\ past' = h
    BY <1>5 DEF FirstBootWizard
  <2>2. past \in PastType
    BY DEF SettingsIInv, SettingsTypeOK
  <2>3. /\ h \in PastType /\ h.had = past.had /\ h.torn = past.torn
        /\ h.chosen = IF mode # disk.mode THEN mode ELSE past.chosen
    BY <2>2 DEF PastType
  <2>. HIDE DEF h
  <2>4. disk' \in DiskType /\ disk'.mode = mode
    BY <2>1, DiskUpdates
  <2>5. ~past.torn /\ mode = disk.mode => disk.mode = Due
    BY <1>5, SettingsRecords DEF SettingsIInv, Decided
  <2>6. Decided'
    BY <1>1, <2>1, <2>3, <2>4, <2>5, SettingsRecords DEF Decided, Due
  <2>7. SettingsTypeOK'
    BY <1>1, <1>2, <2>1, <2>3, <2>4 DEF SettingsIInv, SettingsTypeOK
  <2>. QED
    BY <1>3, <2>6, <2>7 DEF SettingsIInv
<1>. QED
  BY <1>4, <1>5

LEMMA ListenKeeps == ASSUME SettingsIInv, Listen PROVE SettingsIInv'
<1>. DEFINE s == [server EXCEPT !.at = "up", !.images = disk.images]
<1>1. /\ server.at \in {"resolved", "wizard"} /\ server' = s
      /\ UNCHANGED <<env, disk, setting, cli, past>>
  BY DEF Listen
<1>2. s \in ServerType /\ s.at = "up" /\ s.origin = server.origin
  BY SettingsRecords DEF ServerType, ServerPlaces
<1>. HIDE DEF s
<1>3. SettingsTypeOK' /\ Offered'
  BY <1>1, <1>2 DEF SettingsIInv, SettingsTypeOK, Offered
<1>4. Decided'
  BY <1>1, <1>2 DEF SettingsIInv, Decided, Undecided, Due
<1>. QED
  BY <1>3, <1>4 DEF SettingsIInv

LEMMA StopKeeps == ASSUME SettingsIInv, Stop PROVE SettingsIInv'
<1>. DEFINE torn == past.torn \/ HalfDecided
<1>1. /\ server.at # "down" /\ server' = Down /\ setting' = NoSetting
      /\ past' = [past EXCEPT !.torn = torn] /\ UNCHANGED <<env, disk, cli>>
  BY DEF Stop
<1>2. torn \in BOOLEAN
  BY SettingsRecords DEF HalfDecided
<1>3. /\ past' \in PastType /\ past'.had = past.had /\ past'.chosen = past.chosen
      /\ past'.torn = torn
  BY <1>1, <1>2, PastUpdates
<1>4. Down \in ServerType /\ Down.at = "down" /\ NoSetting.at = "none"
  BY DEF Down, NoSetting, ServerType, ServerPlaces
<1>5. SettingsTypeOK' /\ Offered'
  BY <1>1, <1>3, <1>4 DEF SettingsIInv, SettingsTypeOK, Offered
<1>6. Decided'
  <2>1. Due' = Due /\ SecretExists' = SecretExists /\ disk'.mode = disk.mode /\ env'.mode = env.mode
    BY <1>1, <1>3 DEF Due, SecretExists
  <2>2. ASSUME Undecided, ~HalfDecided PROVE Undecided'
    BY <1>1, <1>3, <1>4, <2>1, <2>2 DEF Undecided, HalfDecided
  <2>. QED
    BY <1>3, <2>1, <2>2 DEF SettingsIInv, Decided
<1>. QED
  BY <1>5, <1>6 DEF SettingsIInv

-----------------------------------------------------------------------------
(* The settings page. *)

LEMMA PromptKeeps ==
  ASSUME SettingsIInv, NEW what, NEW value, AskSetting(what, value),
         \/ what = "mode" /\ value \in SettingModes
         \/ what = "secret" /\ value \in Secret
         \/ what = "images" /\ value \in BOOLEAN
  PROVE  SettingsIInv'
<1>1. /\ server.at = "up" /\ (what = "mode" => server.origin # "env")
      /\ setting' = [at |-> "persist", what |-> what, value |-> value]
      /\ UNCHANGED <<env, disk, server, cli, past>>
  BY DEF AskSetting
<1>2. SettingsTypeOK' /\ Offered'
  BY <1>1 DEF SettingsIInv, SettingsTypeOK, Offered
<1>3. Decided'
  BY <1>1 DEF SettingsIInv, Decided, Undecided, Due, SecretExists
<1>. QED
  BY <1>2, <1>3 DEF SettingsIInv

LEMMA PersistKeeps == ASSUME SettingsIInv, PersistSetting PROVE SettingsIInv'
<1>1. /\ setting.at = "persist" /\ disk' = [disk EXCEPT ![setting.what] = setting.value]
      /\ setting' = [setting EXCEPT !.at = "store"]
      /\ past' = IF setting.what = "mode" THEN [past EXCEPT !.chosen = setting.value] ELSE past
      /\ UNCHANGED <<env, server, cli>>
  BY DEF PersistSetting
<1>2. server.at = "up" /\ (setting.what = "mode" => env.mode = NotSet)
  BY <1>1 DEF SettingsIInv, Offered
<1>3. setting'.at = "store" /\ setting'.what = setting.what /\ setting'.value = setting.value
  BY <1>1 DEF SettingsIInv, SettingsTypeOK
<1>4. CASE setting.what = "mode" /\ setting.value \in SettingModes
  <2>1. disk' = [disk EXCEPT !.mode = setting.value] /\ past' = [past EXCEPT !.chosen = setting.value]
    BY <1>1, <1>4
  <2>2. disk' \in DiskType /\ disk'.mode = setting.value
    BY <1>4, <2>1, DiskUpdates
  <2>3. past' \in PastType /\ past'.chosen = setting.value
    BY <1>4, <2>1, PastUpdates
  <2>4. Decided'
    BY <1>4, <2>2, <2>3, SettingsRecords DEF Decided, Due
  <2>5. SettingsTypeOK' /\ Offered'
    BY <1>1, <1>2, <1>3, <1>4, <2>2, <2>3 DEF SettingsIInv, SettingsTypeOK, Offered
  <2>. QED
    BY <2>4, <2>5 DEF SettingsIInv
<1>5. CASE setting.what \in {"secret", "images"}
  <2>1. past' = past /\ disk' \in DiskType /\ disk'.mode = disk.mode
    <3>1. CASE setting.what = "secret"
      <4>1. disk' = [disk EXCEPT !.secret = setting.value] /\ setting.value \in Secret
        BY <1>1, <3>1 DEF SettingsIInv, SettingsTypeOK
      <4>. QED
        BY <1>1, <3>1, <4>1, DiskUpdates
    <3>2. CASE setting.what = "images"
      <4>1. disk' = [disk EXCEPT !.images = setting.value] /\ setting.value \in BOOLEAN
        BY <1>1, <3>2 DEF SettingsIInv, SettingsTypeOK
      <4>. QED
        BY <1>1, <3>2, <4>1, DiskUpdates
    <3>. QED
      BY <1>5, <3>1, <3>2
  <2>2. Decided'
    BY <1>1, <1>2, <2>1 DEF SettingsIInv, Decided, Undecided, Due
  <2>3. SettingsTypeOK' /\ Offered'
    BY <1>1, <1>2, <1>3, <2>1 DEF SettingsIInv, SettingsTypeOK, Offered
  <2>. QED
    BY <2>2, <2>3 DEF SettingsIInv
<1>. QED
  BY <1>1, <1>4, <1>5 DEF SettingsIInv, SettingsTypeOK

LEMMA StoreKeeps == ASSUME SettingsIInv, StoreSetting PROVE SettingsIInv'
<1>1. /\ setting.at = "store" /\ server' = [server EXCEPT ![setting.what] = setting.value]
      /\ setting' = NoSetting
      /\ past' = IF setting.what = "mode" THEN [past EXCEPT !.told = setting.value] ELSE past
      /\ UNCHANGED <<env, disk, cli>>
  BY DEF StoreSetting
<1>2. server.at = "up"
  BY <1>1 DEF SettingsIInv, Offered
<1>3. /\ server' \in ServerType /\ server'.at = "up" /\ server'.origin = server.origin
  <2>1. CASE setting.what = "mode"
    <3>1. server' = [server EXCEPT !.mode = setting.value] /\ setting.value \in SettingModes
      BY <1>1, <2>1 DEF SettingsIInv, SettingsTypeOK
    <3>. QED
      BY <1>2, <3>1, SettingsRecords DEF ServerType
  <2>2. CASE setting.what = "secret"
    <3>1. server' = [server EXCEPT !.secret = setting.value] /\ setting.value \in Secret
      BY <1>1, <2>2 DEF SettingsIInv, SettingsTypeOK
    <3>. QED
      BY <1>2, <3>1, SettingsRecords DEF ServerType
  <2>3. CASE setting.what = "images"
    <3>1. server' = [server EXCEPT !.images = setting.value] /\ setting.value \in BOOLEAN
      BY <1>1, <2>3 DEF SettingsIInv, SettingsTypeOK
    <3>. QED
      BY <1>2, <3>1, SettingsRecords DEF ServerType
  <2>. QED
    BY <1>1, <2>1, <2>2, <2>3 DEF SettingsIInv, SettingsTypeOK
<1>4. /\ past' \in PastType /\ past'.had = past.had /\ past'.chosen = past.chosen
      /\ past'.torn = past.torn
  BY <1>1, PastUpdates DEF SettingsIInv, SettingsTypeOK
<1>5. NoSetting.at = "none"
  BY DEF NoSetting
<1>6. SettingsTypeOK' /\ Offered'
  BY <1>1, <1>2, <1>3, <1>4, <1>5 DEF SettingsIInv, SettingsTypeOK, Offered
<1>7. Decided'
  BY <1>1, <1>2, <1>3, <1>4 DEF SettingsIInv, Decided, Undecided, Due
<1>. QED
  BY <1>6, <1>7 DEF SettingsIInv

-----------------------------------------------------------------------------
(* `1router setup`. *)

LEMMA CliKeeps ==
  ASSUME SettingsIInv,
         \/ CliStart \/ CliDefault \/ CliQuit
         \/ \E s \in Secret : CliSecret(s) \/ CliRotate(s)
         \/ \E m \in SettingModes : CliMode(m)
  PROVE  SettingsIInv'
<1>1. env' = env /\ server' = server /\ setting' = setting /\ cli' \in CliPlaces
  <2>1. ModeInForce(SecretExists) \in SettingModes
    BY Modes
  <2>. QED
    BY <2>1 DEF SettingsIInv, SettingsTypeOK, CliPlaces, CliStart, CliDefault, CliSecret, CliRotate,
                CliMode, CliQuit
<1>2. Offered'
  BY <1>1 DEF SettingsIInv, Offered
<1>3. CASE CliStart
  <2>. DEFINE mode == ModeInForce(SecretExists)
              torn == past.torn \/ HalfDecided
  <2>1. /\ disk' = disk /\ past' = [past EXCEPT !.torn = torn] /\ cli = "off"
        /\ cli' = IF ModeOrigin = "default" THEN mode ELSE "menu"
    BY <1>3 DEF CliStart
  <2>2. mode \in SettingModes /\ torn \in BOOLEAN
    BY Modes, SettingsRecords DEF HalfDecided
  <2>3. /\ past' \in PastType /\ past'.had = past.had /\ past'.chosen = past.chosen
        /\ past'.torn = torn
    BY <2>1, <2>2, PastUpdates
  <2>4. env.mode = NotSet /\ disk.mode = NotSet =>
          ModeOrigin = "default" /\ mode = IF SecretExists THEN "required" ELSE "open"
    BY Modes DEF ModeInForce
  <2>. HIDE DEF mode
  <2>5. Due' = Due /\ SecretExists' = SecretExists
    BY <1>1, <2>1, <2>3 DEF Due, SecretExists
  <2>6. ASSUME env.mode = NotSet, disk.mode = NotSet, Undecided, ~HalfDecided PROVE Undecided'
    <3>1. SecretExists <=> past.had
      BY <2>6 DEF Undecided, HalfDecided
    <3>2. cli' = Due
      BY <2>1, <2>4, <2>6, <3>1 DEF Due, Undecided
    <3>. QED
      BY <1>1, <2>3, <2>5, <2>6, <3>2 DEF Undecided
  <2>7. Decided'
    BY <1>1, <2>1, <2>3, <2>5, <2>6 DEF SettingsIInv, Decided
  <2>. QED
    BY <1>1, <1>2, <2>1, <2>3, <2>7 DEF SettingsIInv, SettingsTypeOK
<1>7. CASE CliDefault
  <2>1. /\ cli \in SettingModes /\ disk' = [disk EXCEPT !.mode = cli]
        /\ past' = [past EXCEPT !.torn = past.torn \/ WritesOver(cli)]
    BY <1>7 DEF CliDefault, WithMode
  <2>2. Undecided => cli = Due
    BY <2>1 DEF Undecided, SettingModes
  <2>3. WritesOver(cli) \in BOOLEAN /\ past.torn \in BOOLEAN
    BY SettingsRecords DEF WritesOver
  <2>4. past' \in PastType /\ past'.torn = (past.torn \/ WritesOver(cli))
    BY <2>1, <2>3, PastUpdates
  <2>5. disk' \in DiskType /\ Decided'
    <3>1. CASE env.mode = NotSet
      BY <1>1, <2>1, <2>2, <3>1, DefaultWritten
    <3>2. CASE env.mode # NotSet
      BY <1>1, <2>1, <3>2, DiskUpdates DEF Decided
    <3>. QED
      BY <3>1, <3>2
  <2>. QED
    BY <1>1, <1>2, <2>4, <2>5 DEF SettingsIInv, SettingsTypeOK
<1>4. ASSUME NEW s \in Secret, CliSecret(s) \/ CliRotate(s) PROVE SettingsIInv'
  <2>1. cli = "menu" /\ disk' = [disk EXCEPT !.secret = s] /\ past' = past
    BY <1>4 DEF CliSecret, CliRotate
  <2>2. disk' \in DiskType /\ disk'.mode = disk.mode
    BY <2>1, DiskUpdates
  <2>3. Decided'
    BY <1>1, <2>1, <2>2 DEF SettingsIInv, Decided, Undecided, Due
  <2>. QED
    BY <1>1, <1>2, <2>1, <2>2, <2>3 DEF SettingsIInv, SettingsTypeOK
<1>5. ASSUME NEW m \in SettingModes, CliMode(m) PROVE SettingsIInv'
  <2>1. disk' = [disk EXCEPT !.mode = m] /\ past' = [past EXCEPT !.chosen = m]
    BY <1>5 DEF CliMode
  <2>2. disk' \in DiskType /\ disk'.mode = m
    BY <2>1, DiskUpdates
  <2>3. past' \in PastType /\ past'.chosen = m
    BY <2>1, PastUpdates
  <2>4. Decided'
    BY <2>2, <2>3, SettingsRecords DEF Decided, Due
  <2>. QED
    BY <1>1, <1>2, <2>2, <2>3, <2>4 DEF SettingsIInv, SettingsTypeOK
<1>6. CASE CliQuit
  <2>1. disk' = disk /\ past' = past /\ cli' = "off"
    BY <1>6 DEF CliQuit
  <2>2. Due' = Due /\ SecretExists' = SecretExists
    BY <1>1, <2>1 DEF Due, SecretExists
  <2>3. Undecided => Undecided'
    BY <1>1, <2>1, <2>2 DEF Undecided
  <2>4. Decided'
    BY <1>1, <2>1, <2>2, <2>3 DEF SettingsIInv, Decided
  <2>. QED
    BY <1>1, <1>2, <2>1, <2>4 DEF SettingsIInv, SettingsTypeOK
<1>. QED
  BY <1>3, <1>4, <1>5, <1>6, <1>7

-----------------------------------------------------------------------------
(* The invariant holds at the start, and every step keeps it. *)

LEMMA InitSettings == SettingsInit => SettingsIInv
<1>. SUFFICES ASSUME SettingsInit PROVE SettingsIInv
  OBVIOUS
<1>1. PICK s \in Secret \cup {NotSet} :
        /\ disk = [secret |-> s, mode |-> NotSet, images |-> FALSE]
        /\ past = [had |-> s # NotSet \/ env.secret # NotSet, chosen |-> NotSet,
                   told |-> NotSet, torn |-> FALSE]
  BY DEF SettingsInit
<1>2. env \in Environments /\ server = Down /\ setting = NoSetting /\ cli = "off"
  BY DEF SettingsInit
<1>3. Down \in ServerType /\ Down.at = "down" /\ NoSetting.at = "none"
  BY DEF Down, NoSetting, ServerType, ServerPlaces
<1>4. disk \in DiskType /\ past \in PastType
  BY <1>1 DEF DiskType, PastType
<1>5. Decided
  <2>1. past.chosen = NotSet /\ disk.mode = NotSet /\ (SecretExists <=> past.had)
    BY <1>1 DEF SecretExists
  <2>2. Undecided
    BY <1>2, <1>3, <2>1 DEF Undecided
  <2>. QED
    BY <2>1, <2>2 DEF Decided
<1>. QED
  BY <1>2, <1>3, <1>4, <1>5 DEF SettingsIInv, SettingsTypeOK, Offered, CliPlaces

LEMMA LeaveKeeps == ASSUME SettingsIInv, LeaveSetting \/ UNCHANGED settingsVars PROVE SettingsIInv'
<1>1. /\ UNCHANGED <<env, disk, server, cli, past>>
      /\ setting' = setting \/ setting' = NoSetting
  BY DEF LeaveSetting, settingsVars
<1>2. NoSetting.at = "none"
  BY DEF NoSetting
<1>3. SettingsTypeOK' /\ Offered'
  BY <1>1, <1>2 DEF SettingsIInv, SettingsTypeOK, Offered
<1>4. Decided'
  BY <1>1 DEF SettingsIInv, Decided, Undecided, Due, SecretExists
<1>. QED
  BY <1>3, <1>4 DEF SettingsIInv

LEMMA SettingsStepKeeps == SettingsIInv /\ [SettingsNext]_settingsVars => SettingsIInv'
<1>. SUFFICES ASSUME SettingsIInv, [SettingsNext]_settingsVars PROVE SettingsIInv'
  OBVIOUS
<1>1. ASSUME NEW s \in Secret, ResolveSecret(s) \/ AskSetting("secret", s) PROVE SettingsIInv'
  BY <1>1, SecretKeeps, PromptKeeps
<1>2. ASSUME NEW m \in SettingModes, FirstBootWizard(m) \/ AskSetting("mode", m) PROVE SettingsIInv'
  BY <1>2, WizardKeeps, PromptKeeps
<1>3. ASSUME NEW b \in BOOLEAN, AskSetting("images", b) PROVE SettingsIInv'
  BY <1>3, PromptKeeps
<1>4. CASE CliStart \/ CliDefault \/ CliQuit \/ (\E s \in Secret : CliSecret(s) \/ CliRotate(s))
           \/ \E m \in SettingModes : CliMode(m)
  BY <1>4, CliKeeps
<1>. QED
  BY <1>1, <1>2, <1>3, <1>4, ReadKeeps, ModeKeeps, ListenKeeps, StopKeeps, PersistKeeps, StoreKeeps, LeaveKeeps
     DEF SettingsNext

-----------------------------------------------------------------------------
(* Until a mode is written down, a secret is there if and only if there was  *)
(* one before, and from then on the mode that is due is on disk: the         *)
(* inductive invariant.                                                      *)
THEOREM SettingsInvariance == SettingsSpec => []SettingsIInv
  BY InitSettings, SettingsStepKeeps, PTL DEF SettingsSpec

(* Rows, the resolved values and a change in progress keep their types.      *)
THEOREM SettingsTyped == SettingsSpec => []SettingsTypeOK
<1>1. SettingsIInv => SettingsTypeOK
  BY DEF SettingsIInv
<1>. QED
  BY <1>1, SettingsInvariance, PTL

(* main.rs and resolve_auth_mode: a start resolves the mode that a user has  *)
(* chosen last, or that the first start decided on, whichever process ran    *)
(* first and made up the secret.                                             *)
THEOREM ModeKept == SettingsSpec => ModeIsKept
<1>. DEFINE A == server.at = "secret" /\ server'.at = "read" /\ server'.origin # "env" /\ ~past.torn =>
                   server'.mode = IF past.chosen # NotSet THEN past.chosen
                                  ELSE IF past.had THEN "required" ELSE "open"
<1>1. ASSUME SettingsIInv, SettingsNext PROVE A
  <2>. SUFFICES ASSUME server.at = "secret", server'.at = "read", server'.origin # "env", ~past.torn
                PROVE  server'.mode = Due
    BY DEF Due
  <2>1. CASE ReadMode
    BY <1>1, <2>1, ReadKeeps
  <2>2. CASE ~ReadMode
    <3>1. setting.at = "none"
      BY <1>1 DEF SettingsIInv, Offered, SettingsTypeOK
    <3>2. server' = server \/ \E place \in {"down", "secret"} : server'.at = place
      BY <1>1, <2>2, <3>1 DEF SettingsNext, ResolveSecret, ResolveMode, FirstBootWizard, Listen, Stop, Down,
           AskSetting, PersistSetting, StoreSetting, LeaveSetting, CliStart, CliDefault, CliSecret, CliRotate,
           CliMode, CliQuit
    <3>. QED
      BY <3>2
  <2>. QED
    BY <2>1, <2>2
<1>2. SettingsIInv /\ [SettingsNext]_settingsVars => [A]_settingsVars
  BY <1>1 DEF settingsVars
<1>. QED
  BY <1>2, SettingsInvariance, PTL DEF SettingsSpec, ModeIsKept

-----------------------------------------------------------------------------
(***************************************************************************)
(* Theorems about Rotation, for any number of members, any sticky limits   *)
(* and any cursor that is left behind.  The argument: since the pool last  *)
(* changed, the selections are some whole laps and a part of one, which    *)
(* may begin with a run that an earlier cursor has cut short.              *)
(***************************************************************************)
(* Lists, and what is kept of them.                                          *)

LEMMA UpToNumber == ASSUME NEW n \in Nat PROVE IsFiniteSet(1..n) /\ Cardinality(1..n) = n
  BY FS_Interval

\* How many of the places in `at` come up to i.
UpTo(at, i) == {j \in at : j <= i}

\* Places in a list are finitely many, and the k-th of them is there.
LEMMA Ranks ==
  ASSUME NEW n \in Nat, NEW at \in SUBSET (1..n)
  PROVE  /\ Cardinality(at) \in Nat /\ Cardinality(at) <= n
         /\ \A i, j \in at : Cardinality(UpTo(at, i)) = Cardinality(UpTo(at, j)) => i = j
         /\ \A i \in at : Cardinality(UpTo(at, i)) \in 1..Cardinality(at)
         /\ \A k \in 1..Cardinality(at) : \E i \in at : Cardinality(UpTo(at, i)) = k
<1>. DEFINE rank == [i \in at |-> Cardinality(UpTo(at, i))]
<1>1. /\ IsFiniteSet(at) /\ Cardinality(at) \in Nat /\ Cardinality(at) <= n
  <2>1. IsFiniteSet(1..n) /\ Cardinality(1..n) = n
    BY UpToNumber
  <2>. QED
    BY <2>1, FS_Subset, FS_CardinalityType
<1>2. ASSUME NEW i \in at
      PROVE  /\ IsFiniteSet(UpTo(at, i)) /\ Cardinality(UpTo(at, i)) \in Nat
             /\ Cardinality(UpTo(at, i)) <= Cardinality(at) /\ Cardinality(UpTo(at, i)) # 0
  <2>1. UpTo(at, i) \in SUBSET at /\ i \in UpTo(at, i)
    BY DEF UpTo
  <2>2. IsFiniteSet(UpTo(at, i)) /\ Cardinality(UpTo(at, i)) <= Cardinality(at)
    BY <1>1, <2>1, FS_Subset
  <2>. QED
    BY <2>1, <2>2, FS_CardinalityType, FS_EmptySet
<1>3. ASSUME NEW i \in at, NEW j \in at, i < j
      PROVE  Cardinality(UpTo(at, i)) # Cardinality(UpTo(at, j))
  <2>1. UpTo(at, i) \in SUBSET UpTo(at, j) /\ j \in UpTo(at, j) /\ j \notin UpTo(at, i)
    <3>1. i \in Int /\ j \in Int /\ \A m \in at : m \in Int
      OBVIOUS
    <3>2. \A m \in at : m <= i => m <= j
      BY <3>1, <1>3
    <3>3. ~(j <= i) /\ j <= j
      BY <3>1, <1>3
    <3>. QED
      BY <3>2, <3>3 DEF UpTo
  <2>. QED
    BY <2>1, <1>2, FS_Subset
<1>4. \A i, j \in at : Cardinality(UpTo(at, i)) = Cardinality(UpTo(at, j)) => i = j
  <2>1. \A i, j \in at : i = j \/ i < j \/ j < i
    OBVIOUS
  <2>. QED
    BY <2>1, <1>3
<1>5. \A i \in at : Cardinality(UpTo(at, i)) \in 1..Cardinality(at)
  BY <1>1, <1>2
<1>6. rank \in Injection(at, 1..Cardinality(at))
  BY <1>4, <1>5 DEF Injection, IsInjective
<1>7. IsFiniteSet(1..Cardinality(at)) /\ Cardinality(1..Cardinality(at)) = Cardinality(at)
  BY <1>1, UpToNumber
<1>8. rank \in Surjection(at, 1..Cardinality(at))
  BY <1>6, <1>7, FS_Injection
<1>. QED
  BY <1>1, <1>4, <1>5, <1>8 DEF Surjection

LEMMA FunctionAsList ==
  ASSUME NEW M, NEW n \in Nat, NEW f \in [1..n -> M]
  PROVE  f \in Seq(M) /\ Len(f) = n
  OBVIOUS

\* `retain` keeps the elements that are in the set, each as often as it was there.
LEMMA KeptList ==
  ASSUME NEW M, NEW s \in Seq(M), NEW S
  PROVE  /\ Kept(s, S) \in Seq(M)
         /\ Len(Kept(s, S)) <= Len(s)
         /\ ToSet(Kept(s, S)) = ToSet(s) \cap S
         /\ IsInjective(s) => IsInjective(Kept(s, S))
<1>. DEFINE at == {i \in DOMAIN s : s[i] \in S}
            num == Cardinality(at)
            place(k) == CHOOSE i \in at : Cardinality({j \in at : j <= i}) = k
            kept == [k \in 1..num |-> s[place(k)]]
<1>1. Kept(s, S) = kept
  BY DEF Kept
<1>2. Len(s) \in Nat /\ DOMAIN s = 1..Len(s) /\ \A i \in DOMAIN s : s[i] \in M
  OBVIOUS
<1>3. at \in SUBSET (1..Len(s))
  BY <1>2
<1>4. /\ num \in Nat /\ num <= Len(s)
      /\ \A i, j \in at : Cardinality({m \in at : m <= i}) = Cardinality({m \in at : m <= j}) => i = j
      /\ \A i \in at : Cardinality({m \in at : m <= i}) \in 1..num
      /\ \A k \in 1..num : \E i \in at : Cardinality({m \in at : m <= i}) = k
  <2>. HIDE DEF at
  <2>. QED
    BY <1>2, <1>3, Ranks DEF UpTo
<1>5. \A k \in 1..num : place(k) \in at /\ Cardinality({m \in at : m <= place(k)}) = k
  BY <1>4
<1>6. \A i \in at : place(Cardinality({m \in at : m <= i})) = i
  BY <1>4, <1>5
<1>7. \A i \in at : i \in DOMAIN s /\ s[i] \in S
  OBVIOUS
<1>8. \A i \in DOMAIN s : s[i] \in S => i \in at
  OBVIOUS
<1>. HIDE DEF at, place
<1>9. kept \in Seq(M) /\ Len(kept) = num /\ DOMAIN kept = 1..num
  <2>1. \A k \in 1..num : s[place(k)] \in M
    BY <1>2, <1>5, <1>7
  <2>2. kept \in [1..num -> M]
    BY <2>1
  <2>. QED
    BY <1>4, <2>2, FunctionAsList
<1>10. ASSUME NEW x \in ToSet(kept) PROVE x \in ToSet(s) \cap S
  BY <1>5, <1>7, <1>9, <1>10 DEF ToSet
<1>11. ASSUME NEW x \in ToSet(s), x \in S PROVE x \in ToSet(kept)
  <2>1. PICK i \in DOMAIN s : s[i] = x
    BY DEF ToSet
  <2>2. i \in at
    BY <1>8, <1>11, <2>1
  <2>3. kept[Cardinality({m \in at : m <= i})] = x
    BY <1>4, <1>6, <2>1, <2>2
  <2>. QED
    BY <1>4, <1>9, <2>2, <2>3 DEF ToSet
<1>12. ASSUME IsInjective(s), NEW k \in 1..num, NEW m \in 1..num, kept[k] = kept[m] PROVE k = m
  <2>1. place(k) = place(m)
    BY <1>5, <1>7, <1>12 DEF IsInjective
  <2>. QED
    BY <1>5, <2>1
<1>13. IsInjective(s) => IsInjective(kept)
  BY <1>9, <1>12 DEF IsInjective
<1>. QED
  BY <1>1, <1>4, <1>9, <1>10, <1>11, <1>13

\* Nothing is left out of a list all of whose elements are in the set.
LEMMA KeptWhole ==
  ASSUME NEW M, NEW s \in Seq(M), NEW S, ToSet(s) \subseteq S
  PROVE  Kept(s, S) = s
<1>. DEFINE at == {i \in DOMAIN s : s[i] \in S}
<1>1. Len(s) \in Nat /\ DOMAIN s = 1..Len(s) /\ s = [i \in 1..Len(s) |-> s[i]]
  OBVIOUS
<1>2. at = 1..Len(s)
  BY <1>1 DEF ToSet
<1>3. Cardinality(at) = Len(s)
  <2>1. Cardinality(1..Len(s)) = Len(s)
    BY <1>1, UpToNumber
  <2>. QED
    BY <1>2, <2>1
<1>4. ASSUME NEW i \in 1..Len(s) PROVE Cardinality({j \in at : j <= i}) = i
  <2>1. {j \in at : j <= i} = 1..i
    BY <1>1, <1>2
  <2>2. Cardinality(1..i) = i
    BY <1>1, UpToNumber
  <2>. QED
    BY <2>1, <2>2
<1>5. \A k \in 1..Len(s) : (CHOOSE i \in at : Cardinality({j \in at : j <= i}) = k) = k
  BY <1>2, <1>4
<1>6. Kept(s, S) = [k \in 1..Cardinality(at) |-> s[CHOOSE i \in at : Cardinality({j \in at : j <= i}) = k]]
  BY DEF Kept
<1>. HIDE DEF at
<1>. QED
  BY <1>1, <1>3, <1>5, <1>6

\* A rotated list has the same elements, and begins where it was cut.
LEMMA Rotated ==
  ASSUME NEW M, NEW s \in Seq(M), NEW h \in 0..(Len(s) - 1)
  PROVE  /\ RotateLeft(s, h) \in Seq(M) /\ Len(RotateLeft(s, h)) = Len(s)
         /\ Head(RotateLeft(s, h)) = s[h + 1]
         /\ ToSet(RotateLeft(s, h)) = ToSet(s)
         /\ IsInjective(s) => IsInjective(RotateLeft(s, h))
<1>. DEFINE n == Len(s)
            r == RotateLeft(s, h)
<1>1. n \in Nat /\ h \in Nat /\ h < n /\ DOMAIN s = 1..n
  OBVIOUS
<1>2. /\ SubSeq(s, h + 1, n) \in Seq(M) /\ Len(SubSeq(s, h + 1, n)) = n - h
      /\ \A i \in 1..(n - h) : SubSeq(s, h + 1, n)[i] = s[h + i]
  BY <1>1
<1>3. /\ SubSeq(s, 1, h) \in Seq(M) /\ Len(SubSeq(s, 1, h)) = h
      /\ \A i \in 1..h : SubSeq(s, 1, h)[i] = s[i]
  BY <1>1
<1>4. r \in Seq(M) /\ Len(r) = n /\ DOMAIN r = 1..n
  <2>. DEFINE a == SubSeq(s, h + 1, n)
              b == SubSeq(s, 1, h)
  <2>1. r = a \o b
    BY DEF RotateLeft
  <2>2. a \in Seq(M) /\ b \in Seq(M) /\ Len(a) + Len(b) = n
    <3>1. a \in Seq(M) /\ Len(a) = n - h
      BY <1>2
    <3>2. b \in Seq(M) /\ Len(b) = h
      BY <1>3
    <3>. HIDE DEF a, b, n
    <3>. QED
      BY <1>1, <3>1, <3>2
  <2>. HIDE DEF a, b, r, n
  <2>3. a \o b \in Seq(M) /\ Len(a \o b) = n
    BY <2>2
  <2>. QED
    BY <2>1, <2>3
<1>5. \A i \in 1..n : r[i] = IF i <= n - h THEN s[h + i] ELSE s[i - (n - h)]
  BY <1>1, <1>2, <1>3 DEF RotateLeft
<1>. HIDE DEF r, n
<1>6. r[1] = s[h + 1]
  BY <1>1, <1>5
<1>7. Head(r) = s[h + 1]
  BY <1>1, <1>4, <1>6
<1>8. ASSUME NEW i \in 1..n PROVE \E j \in 1..n : r[i] = s[j]
  <2>1. CASE i <= n - h
    <3>1. h + i \in 1..n /\ r[i] = s[h + i]
      BY <1>1, <1>5, <2>1
    <3>. QED
      BY <3>1
  <2>2. CASE ~(i <= n - h)
    <3>1. i - (n - h) \in 1..n /\ r[i] = s[i - (n - h)]
      BY <1>1, <1>5, <2>2
    <3>. QED
      BY <3>1
  <2>. QED
    BY <2>1, <2>2
<1>9. ASSUME NEW j \in 1..n PROVE \E i \in 1..n : r[i] = s[j]
  <2>1. CASE j > h
    <3>1. j - h \in 1..n /\ j - h <= n - h /\ h + (j - h) = j
      BY <1>1, <2>1
    <3>. QED
      BY <1>5, <3>1
  <2>2. CASE ~(j > h)
    <3>1. j + (n - h) \in 1..n /\ ~(j + (n - h) <= n - h) /\ (j + (n - h)) - (n - h) = j
      BY <1>1, <2>2
    <3>. QED
      BY <1>5, <3>1
  <2>. QED
    BY <2>1, <2>2
<1>10. ToSet(r) = ToSet(s)
  <2>1. ToSet(r) = {r[i] : i \in 1..n} /\ ToSet(s) = {s[i] : i \in 1..n}
    BY <1>1, <1>4 DEF ToSet
  <2>. QED
    BY <1>8, <1>9, <2>1
<1>11. ASSUME IsInjective(s), NEW i \in 1..n, NEW j \in 1..n, r[i] = r[j] PROVE i = j
  <2>. DEFINE at(k) == IF k <= n - h THEN h + k ELSE k - (n - h)
  <2>1. \A k \in 1..n : at(k) \in 1..n /\ r[k] = s[at(k)]
    BY <1>1, <1>5
  <2>2. at(i) = at(j) => i = j
    BY <1>1
  <2>. HIDE DEF at
  <2>3. at(i) = at(j)
    BY <1>1, <1>11, <2>1 DEF IsInjective
  <2>. QED
    BY <2>2, <2>3
<1>12. IsInjective(s) => IsInjective(r)
  BY <1>4, <1>11 DEF IsInjective
<1>. QED
  BY <1>4, <1>7, <1>10, <1>12 DEF n, r

\* Of some numbers one is the least.
LEMMA LeastOf ==
  ASSUME NEW T \in SUBSET Nat, T # {}
  PROVE  Min(T) \in T /\ \A y \in T : Min(T) <= y
<1>1. PICK x \in T : \A y \in T : <<y, x>> \notin OpToRel(<, Nat)
  BY NatLessThanWellFounded, WFMin
<1>2. ASSUME NEW y \in T PROVE x <= y
  <2>1. y < x => <<y, x>> \in OpToRel(<, Nat)
    BY DEF OpToRel
  <2>2. x \in Nat /\ y \in Nat /\ ~(y < x)
    BY <1>1, <2>1
  <2>. QED
    BY <2>2
<1>. QED
  BY <1>2 DEF Min

\* The members to rotate are different members of the pool's.
LEMMA CandidateList ==
  ASSUME NEW p \in Pools
  PROVE  /\ Candidates(p) \in Seq(Member) /\ Len(Candidates(p)) \in Nat
         /\ Len(Candidates(p)) <= Cardinality(Member)
         /\ DOMAIN Candidates(p) = 1..Len(Candidates(p))
         /\ IsInjective(Candidates(p))
         /\ ToSet(Candidates(p)) \subseteq Member
         /\ ToSet(Candidates(p)) \cap p.usable = ToSet(p.members) \cap p.usable
<1>1. Cardinality(Member) \in Nat
  BY RotationAssumption, FS_CardinalityType
<1>2. p.members \in Lists
  BY DEF Pools
<1>3. PICK n \in 0..Cardinality(Member) : p.members \in [1..n -> Member] /\ IsInjective(p.members)
  BY <1>2 DEF Lists, SeqOf
<1>4. p.members \in Seq(Member) /\ Len(p.members) = n
  BY <1>3, FunctionAsList
<1>5. /\ Candidates(p) \in Seq(Member) /\ Len(Candidates(p)) <= n /\ IsInjective(Candidates(p))
      /\ ToSet(Candidates(p)) \cap p.usable = ToSet(p.members) \cap p.usable
  <2>1. CASE p.modality = "image"
    BY <1>3, <1>4, <2>1, KeptList DEF Candidates
  <2>2. CASE p.modality # "image"
    BY <1>3, <1>4, <2>2 DEF Candidates
  <2>. QED
    BY <2>1, <2>2
<1>. HIDE DEF Candidates
<1>6. /\ Len(Candidates(p)) \in Nat /\ DOMAIN Candidates(p) = 1..Len(Candidates(p))
      /\ \A i \in DOMAIN Candidates(p) : Candidates(p)[i] \in Member
  BY <1>5
<1>. QED
  BY <1>1, <1>5, <1>6 DEF ToSet

Cursors == [index : Nat, uses : Nat]

Place(p, c) == c.index % Len(Candidates(p))

LEMMA PlaceInList ==
  ASSUME NEW p \in Pools, NEW c \in Cursors, Rotates(p)
  PROVE  Place(p, c) \in 0..(Len(Candidates(p)) - 1) /\ Len(Candidates(p)) > 1
<1>1. Len(Candidates(p)) \in Nat /\ Len(Candidates(p)) > 1 /\ c.index \in Nat
  BY CandidateList DEF Rotates, Cursors
<1>. QED
  BY <1>1 DEF Place

(* select, select_image: wherever the cursor points, a request fails over    *)
(* along every member that is usable, and along none of them twice.          *)
THEOREM EveryUsable ==
  ASSUME NEW p \in Pools, NEW c \in Cursors
  PROVE  /\ IsInjective(Order(p, c))
         /\ ToSet(Order(p, c)) = ToSet(p.members) \cap p.usable
<1>1. CASE Rotates(p)
  <2>1. Order(p, c) = Kept(RotateLeft(Candidates(p), Place(p, c)), p.usable)
    BY <1>1 DEF Order, Place
  <2>2. /\ RotateLeft(Candidates(p), Place(p, c)) \in Seq(Member)
        /\ ToSet(RotateLeft(Candidates(p), Place(p, c))) = ToSet(Candidates(p))
        /\ IsInjective(RotateLeft(Candidates(p), Place(p, c)))
    BY <1>1, CandidateList, PlaceInList, Rotated
  <2>. QED
    BY <2>1, <2>2, CandidateList, KeptList
<1>2. CASE ~Rotates(p)
  <2>1. Order(p, c) = Kept(Candidates(p), p.usable)
    BY <1>2 DEF Order
  <2>. QED
    BY <2>1, CandidateList, KeptList
<1>. QED
  BY <1>1, <1>2

-----------------------------------------------------------------------------
(* Round robin.  Places are counted from 0.  Since some member a began a lap *)
(* everybody up to the head h has had a sticky run, the head has had w of    *)
(* its own, and a itself may have been short of d when it began.             *)

InLap(a, h, i) == IF a <= h THEN a <= i /\ i < h ELSE a <= i \/ i < h

TimesHead(S, a, h, w, d, i) ==
  (IF InLap(a, h, i) THEN S ELSE 0) + (IF i = h THEN w ELSE 0) - (IF i = a THEN d ELSE 0)

Once(i, h) == IF i = h THEN 1 ELSE 0

After(h, n) == IF h + 1 = n THEN 0 ELSE h + 1

\* A cursor may carry the uses of another limit.
Uses(p, c) == IF c.uses < Sticky(p) THEN c.uses ELSE Sticky(p) - 1

Spots(p) == 0..(Len(Candidates(p)) - 1)

\* The counts of n members, and the same after one more turn of h.
Evenly(n, S, a, h, w, d, base, cnt) ==
  \A i \in 0..(n - 1) : cnt[i] = base + TimesHead(S, a, h, w, d, i)

Counted(n, h, least, cnt, new) == \A i \in 0..(n - 1) : new[i] = cnt[i] + Once(i, h) - least

ByPlace(p, hd) == [i \in Spots(p) |-> hd[Candidates(p)[i + 1]]]

Even(p, c, hd) ==
  Rotates(p) =>
    \E base \in Int, a \in Spots(p), d \in 0..(Sticky(p) - 1) :
      Evenly(Len(Candidates(p)), Sticky(p), a, Place(p, c), Uses(p, c), d, base, ByPlace(p, hd))

RotationIInv == RotationTypeOK /\ Even(pool, cursor, heads)

LEMMA TimesHeadApart ==
  ASSUME NEW S \in Nat, NEW n \in Nat, NEW a \in 0..(n - 1), NEW h \in 0..(n - 1),
         NEW w \in 0..(S - 1), NEW d \in 0..(S - 1), NEW i \in 0..(n - 1), NEW j \in 0..(n - 1)
  PROVE  /\ TimesHead(S, a, h, w, d, i) \in Int
         /\ TimesHead(S, a, h, w, d, i) - TimesHead(S, a, h, w, d, j) <= S
<1>1. \A x \in 0..(n - 1) :
        /\ TimesHead(S, a, h, w, d, x) \in Int
        /\ TimesHead(S, a, h, w, d, x) <= S
        /\ a # h => TimesHead(S, a, h, w, d, x) >= 0
        /\ a = h => TimesHead(S, a, h, w, d, x) = IF x = h THEN w - d ELSE 0
  BY DEF TimesHead, InLap
<1>. QED
  BY <1>1

LEMMA StickyType == ASSUME NEW p \in Pools PROVE Sticky(p) \in Nat /\ Sticky(p) >= 1
<1>1. p.sticky \in Int
  BY RotationAssumption DEF Pools
<1>. QED
  BY <1>1 DEF Sticky

LEMMA UsesType ==
  ASSUME NEW p \in Pools, NEW c \in Cursors
  PROVE  Uses(p, c) \in 0..(Sticky(p) - 1)
<1>1. c.uses \in Nat
  BY DEF Cursors
<1>. QED
  BY <1>1, StickyType DEF Uses

\* After a change nobody is ahead.
LEMMA NoHeadsEven ==
  ASSUME NEW p \in Pools, NEW c \in Cursors
  PROVE  NoHeads \in [Member -> Nat] /\ Even(p, c, NoHeads)
<1>1. NoHeads \in [Member -> Nat]
  BY DEF NoHeads
<1>2. ASSUME Rotates(p)
      PROVE  Evenly(Len(Candidates(p)), Sticky(p), Place(p, c), Place(p, c), Uses(p, c), Uses(p, c), 0,
                    ByPlace(p, NoHeads))
  <2>1. /\ Place(p, c) \in Nat /\ Uses(p, c) \in Nat
    BY <1>2, PlaceInList, UsesType, StickyType
  <2>2. \A i \in Spots(p) :
           0 = 0 + TimesHead(Sticky(p), Place(p, c), Place(p, c), Uses(p, c), Uses(p, c), i)
    BY <2>1, CandidateList DEF TimesHead, InLap, Spots
  <2>3. \A i \in Spots(p) : Candidates(p)[i + 1] \in Member
    BY CandidateList DEF Spots
  <2>4. \A i \in Spots(p) : ByPlace(p, NoHeads)[i] = 0
    BY <2>3 DEF NoHeads, ByPlace
  <2>. QED
    BY <2>2, <2>4 DEF Evenly, Spots
<1>3. Rotates(p) => Place(p, c) \in Spots(p) /\ Uses(p, c) \in 0..(Sticky(p) - 1)
  BY PlaceInList, UsesType DEF Spots
<1>. QED
  BY <1>1, <1>2, <1>3 DEF Even

LEMMA SmallModulo ==
  ASSUME NEW n \in Nat, NEW h \in 0..(n - 1)
  PROVE  h % n = h /\ (h + 1) % n = IF h + 1 = n THEN 0 ELSE h + 1
  OBVIOUS

\* rotate_from_cursor: the head stays until its run is over, then the next is head.
LEMMA CursorMoves ==
  ASSUME NEW p \in Pools, NEW c \in Cursors, Rotates(p),
         NEW h, h = Place(p, c), NEW n, n = Len(Candidates(p)), NEW k, k = Advanced(p, c)
  PROVE  /\ k \in [index : 0..Cardinality(Member), uses : Nat]
         /\ \/ Place(p, k) = h /\ Uses(p, k) = Uses(p, c) + 1
            \/ /\ Place(p, k) = After(h, n)
               /\ Uses(p, k) = 0 /\ Uses(p, c) + 1 = Sticky(p)
<1>1. /\ h \in 0..(n - 1) /\ n \in Nat /\ n > 1 /\ n <= Cardinality(Member)
  BY CandidateList, PlaceInList
<1>2. Cardinality(Member) \in Nat /\ c.uses \in Nat /\ Sticky(p) \in Nat /\ Sticky(p) >= 1
  BY RotationAssumption, FS_CardinalityType, StickyType DEF Cursors
<1>3. h % n = h /\ (h + 1) % n = IF h + 1 = n THEN 0 ELSE h + 1
  BY <1>1, SmallModulo
<1>4. k = IF c.uses + 1 >= Sticky(p) THEN [index |-> (h + 1) % n, uses |-> 0]
                                     ELSE [index |-> h, uses |-> c.uses + 1]
  BY DEF Advanced, Place
<1>5. CASE c.uses + 1 >= Sticky(p)
  <2>1. k = [index |-> IF h + 1 = n THEN 0 ELSE h + 1, uses |-> 0]
    BY <1>3, <1>4, <1>5
  <2>2. k.index \in 0..(n - 1) /\ k.uses = 0 /\ k.index = IF h + 1 = n THEN 0 ELSE h + 1
    BY <1>1, <2>1
  <2>3. Place(p, k) = k.index
    <3>1. \A x \in 0..(n - 1) : x % n = x
      BY <1>1, SmallModulo
    <3>. QED
      BY <2>2, <3>1 DEF Place
  <2>4. Uses(p, k) = 0 /\ Uses(p, c) + 1 = Sticky(p)
    BY <1>2, <1>5, <2>2 DEF Uses
  <2>5. k \in [index : 0..Cardinality(Member), uses : Nat]
    BY <1>1, <1>2, <2>1
  <2>. QED
    BY <2>2, <2>3, <2>4, <2>5 DEF After
<1>6. CASE ~(c.uses + 1 >= Sticky(p))
  <2>1. k = [index |-> h, uses |-> c.uses + 1]
    BY <1>4, <1>6
  <2>2. Place(p, k) = h
    BY <1>1, <1>3, <2>1 DEF Place
  <2>3. Uses(p, k) = Uses(p, c) + 1
    BY <1>2, <1>6, <2>1 DEF Uses
  <2>4. k \in [index : 0..Cardinality(Member), uses : Nat]
    BY <1>1, <1>2, <2>1
  <2>. QED
    BY <2>2, <2>3, <2>4
<1>. QED
  BY <1>5, <1>6

\* After a selection the counts are as even as they were before it.
LEMMA TurnsMove ==
  ASSUME NEW n \in Nat, n > 1, NEW S \in Nat, NEW a \in 0..(n - 1), NEW h \in 0..(n - 1),
         NEW w \in 0..(S - 1), NEW d \in 0..(S - 1), NEW base \in Int, NEW least \in Int,
         NEW cnt, NEW new,
         Evenly(n, S, a, h, w, d, base, cnt), Counted(n, h, least, cnt, new)
  PROVE  /\ \E b \in Int : Evenly(n, S, a, h, w + 1, d, b, new)
         /\ w + 1 = S => \E b \in Int : Evenly(n, S, a, After(h, n), 0, d, b, new)
<1>. w \in Nat /\ d \in Nat
  OBVIOUS
<1>1. ASSUME NEW i \in 0..(n - 1)
      PROVE  new[i] = base + TimesHead(S, a, h, w, d, i) + Once(i, h) - least
  <2>1. cnt[i] = base + TimesHead(S, a, h, w, d, i) /\ new[i] = cnt[i] + Once(i, h) - least
    BY DEF Evenly, Counted
  <2>. QED
    BY <2>1
<1>2. \E b \in Int : Evenly(n, S, a, h, w + 1, d, b, new)
  <2>1. ASSUME NEW i \in 0..(n - 1) PROVE new[i] = (base - least) + TimesHead(S, a, h, w + 1, d, i)
    BY <1>1 DEF TimesHead, InLap, Once
  <2>. QED
    BY <2>1 DEF Evenly
<1>3. ASSUME w + 1 = S PROVE \E b \in Int : Evenly(n, S, a, After(h, n), 0, d, b, new)
  <2>. DEFINE k == After(h, n)
              lap == IF k = a THEN S ELSE 0
  <2>1. lap \in Int /\ k \in 0..(n - 1) /\ k # h /\ k = IF h + 1 = n THEN 0 ELSE h + 1
    BY <1>3 DEF After
  <2>. HIDE DEF k
  <2>2. ASSUME NEW i \in 0..(n - 1)
        PROVE  TimesHead(S, a, h, w, d, i) + Once(i, h) = lap + TimesHead(S, a, k, 0, d, i)
    <3>1. CASE i = h
      <4>1. ~InLap(a, h, i) /\ (InLap(a, k, i) <=> k # a)
        BY <2>1, <3>1 DEF InLap
      <4>. QED
        BY <1>3, <2>1, <3>1, <4>1 DEF TimesHead, Once
    <3>2. CASE i # h /\ k = a
      <4>1. InLap(a, h, i) /\ ~InLap(a, k, i)
        BY <2>1, <3>2 DEF InLap
      <4>. QED
        BY <1>3, <2>1, <3>2, <4>1 DEF TimesHead, Once
    <3>3. CASE i # h /\ k # a
      <4>1. InLap(a, h, i) <=> InLap(a, k, i)
        BY <2>1, <3>3 DEF InLap
      <4>. QED
        BY <1>3, <2>1, <3>3, <4>1 DEF TimesHead, Once
    <3>. QED
      BY <3>1, <3>2, <3>3
  <2>3. ASSUME NEW i \in 0..(n - 1) PROVE new[i] = (base + lap - least) + TimesHead(S, a, k, 0, d, i)
    <3>. DEFINE t == TimesHead(S, a, h, w, d, i)
                v == TimesHead(S, a, k, 0, d, i)
                e == Once(i, h)
    <3>1. t \in Int /\ v \in Int /\ e \in Int
      BY <2>1 DEF TimesHead, Once
    <3>2. t + e = lap + v /\ new[i] = base + t + e - least
      BY <1>1, <2>2
    <3>. HIDE DEF t, v, e, lap
    <3>3. new[i] = (base + lap - least) + v
      BY <2>1, <3>1, <3>2
    <3>. QED
      BY <1>3, <3>3 DEF v
  <2>. HIDE DEF lap
  <2>4. base + lap - least \in Int
    BY <2>1
  <2>. QED
    BY <2>3, <2>4 DEF Evenly, k
<1>. QED
  BY <1>2, <1>3

\* A selection makes the member at the cursor head, and leaves the counts even.
LEMMA SelectionEven ==
  ASSUME NEW p \in Pools, NEW c \in Cursors, NEW hd \in [Member -> Nat], Rotates(p),
         ToSet(Candidates(p)) \subseteq p.usable, Even(p, c, hd),
         NEW g, g = Levelled([hd EXCEPT ![Head(Order(p, c))] = @ + 1], ToSet(Candidates(p)))
  PROVE  g \in [Member -> Nat] /\ Even(p, Advanced(p, c), g)
<1>. DEFINE l == Candidates(p)
            n == Len(l)
            h == Place(p, c)
            S == Sticky(p)
            k == Advanced(p, c)
            up == [hd EXCEPT ![l[h + 1]] = @ + 1]
            least == Min({up[m] : m \in ToSet(l)})
<1>1. /\ l \in Seq(Member) /\ n \in Nat /\ n > 1 /\ DOMAIN l = 1..n /\ IsInjective(l)
      /\ ToSet(l) \subseteq Member /\ h \in 0..(n - 1) /\ Spots(p) = 0..(n - 1)
  BY CandidateList, PlaceInList DEF Spots
<1>2. S \in Nat /\ S >= 1 /\ Uses(p, c) \in 0..(S - 1)
  BY StickyType, UsesType
<1>3. Head(Order(p, c)) = l[h + 1]
  <2>1. /\ RotateLeft(l, h) \in Seq(Member) /\ ToSet(RotateLeft(l, h)) \subseteq p.usable
        /\ Head(RotateLeft(l, h)) = l[h + 1]
    BY <1>1, Rotated
  <2>2. Order(p, c) = Kept(RotateLeft(l, h), p.usable)
    BY DEF Order, Place
  <2>. QED
    BY <2>1, <2>2, KeptWhole
<1>4. /\ \A i \in 0..(n - 1) : l[i + 1] \in ToSet(l) /\ l[i + 1] \in Member
      /\ \A m \in ToSet(l) : \E i \in 0..(n - 1) : l[i + 1] = m
      /\ \A i, j \in 0..(n - 1) : l[i + 1] = l[j + 1] => i = j
  <2>1. \A i \in 0..(n - 1) : l[i + 1] \in ToSet(l) /\ l[i + 1] \in Member
    BY <1>1 DEF ToSet
  <2>2. ASSUME NEW m \in ToSet(l) PROVE \E i \in 0..(n - 1) : l[i + 1] = m
    <3>1. PICK j \in 1..n : l[j] = m
      BY <1>1 DEF ToSet
    <3>2. j - 1 \in 0..(n - 1) /\ (j - 1) + 1 = j
      BY <1>1
    <3>. QED
      BY <3>1, <3>2
  <2>3. ASSUME NEW i \in 0..(n - 1), NEW j \in 0..(n - 1), l[i + 1] = l[j + 1] PROVE i = j
    <3>1. i + 1 \in 1..n /\ j + 1 \in 1..n
      BY <1>1
    <3>2. i + 1 = j + 1
      BY <1>1, <2>3, <3>1 DEF IsInjective
    <3>. QED
      BY <1>1, <3>2
  <2>. QED
    BY <2>1, <2>2, <2>3
<1>. HIDE DEF l, n, h, S
<1>5. /\ up \in [Member -> Nat]
      /\ \A i \in 0..(n - 1) : up[l[i + 1]] = hd[l[i + 1]] + Once(i, h)
  BY <1>1, <1>4 DEF Once
<1>6. g = [m \in Member |-> IF m \in ToSet(l) THEN up[m] - least ELSE 0]
  BY <1>3 DEF Levelled, l
<1>. HIDE DEF up
<1>7. least \in Nat /\ \A m \in ToSet(l) : least <= up[m]
  <2>. DEFINE T == {up[m] : m \in ToSet(l)}
  <2>1. T \in SUBSET Nat /\ T # {}
    BY <1>1, <1>4, <1>5
  <2>. HIDE DEF T
  <2>2. Min(T) \in T /\ \A y \in T : Min(T) <= y
    BY <2>1, LeastOf
  <2>. QED
    BY <2>1, <2>2 DEF T
<1>. HIDE DEF least
<1>8. \A m \in ToSet(l) : up[m] - least \in Nat
  BY <1>1, <1>5, <1>7
<1>9. g \in [Member -> Nat]
  <2>1. \A m \in Member : (IF m \in ToSet(l) THEN up[m] - least ELSE 0) \in Nat
    BY <1>8
  <2>. QED
    BY <1>6, <2>1
<1>. DEFINE w == Uses(p, c)
<1>10. PICK base \in Int, a \in Spots(p), d \in 0..(S - 1) :
         Evenly(n, S, a, h, w, d, base, ByPlace(p, hd))
  BY DEF Even, S, n, h, l
<1>11. /\ a \in 0..(n - 1) /\ w \in 0..(S - 1)
       /\ \/ Place(p, k) = h /\ Uses(p, k) = w + 1
          \/ Place(p, k) = After(h, n) /\ Uses(p, k) = 0 /\ w + 1 = S
  BY <1>1, <1>2, <1>10, CursorMoves DEF h, n, l, S
<1>. HIDE DEF k, w
<1>12. Counted(n, h, least, ByPlace(p, hd), ByPlace(p, g))
  <2>1. ASSUME NEW i \in 0..(n - 1) PROVE g[l[i + 1]] = hd[l[i + 1]] + Once(i, h) - least
    <3>1. g[l[i + 1]] = up[l[i + 1]] - least
      BY <1>4, <1>6
    <3>2. up[l[i + 1]] = hd[l[i + 1]] + Once(i, h)
      BY <1>5
    <3>3. hd[l[i + 1]] \in Nat /\ Once(i, h) \in Int
      BY <1>4 DEF Once
    <3>. QED
      BY <1>7, <3>1, <3>2, <3>3
  <2>. QED
    BY <1>1, <2>1 DEF Counted, ByPlace, l
<1>13. \E b \in Int : Evenly(n, S, a, Place(p, k), Uses(p, k), d, b, ByPlace(p, g))
  <2>1. /\ \E b \in Int : Evenly(n, S, a, h, w + 1, d, b, ByPlace(p, g))
        /\ w + 1 = S => \E b \in Int : Evenly(n, S, a, After(h, n), 0, d, b, ByPlace(p, g))
    <3>1. n \in Nat /\ n > 1 /\ S \in Nat /\ a \in 0..(n - 1) /\ h \in 0..(n - 1)
          /\ w \in 0..(S - 1) /\ d \in 0..(S - 1) /\ base \in Int /\ least \in Int
      BY <1>1, <1>2, <1>7, <1>10, <1>11
    <3>2. Evenly(n, S, a, h, w, d, base, ByPlace(p, hd))
      BY <1>10
    <3>. HIDE DEF n, S, h, w, least
    <3>. QED
      BY <3>1, <3>2, <1>12, TurnsMove, Zenon
  <2>. QED
    BY <1>11, <2>1
<1>14. Even(p, k, g)
  BY <1>10, <1>13 DEF Even, S, n, l
<1>. QED
  BY <1>9, <1>14 DEF k

-----------------------------------------------------------------------------
(* The invariant holds at the start, and every step keeps it.                *)

LEMMA CursorInType == \A c \in [index : 0..Cardinality(Member), uses : Nat] : c \in Cursors
<1>1. Cardinality(Member) \in Nat
  BY RotationAssumption, FS_CardinalityType
<1>. QED
  BY <1>1 DEF Cursors

\* A pool that is published is as the handlers make it, and nobody is ahead in it.
LEMMA PublicationKeeps ==
  ASSUME pool' \in Pools, cursor' \in [index : 0..Cardinality(Member), uses : Nat],
         clear' \in BOOLEAN, heads' = NoHeads
  PROVE  RotationIInv'
  BY CursorInType, NoHeadsEven DEF RotationIInv, RotationTypeOK

LEMMA FreshCursor == Fresh \in [index : 0..Cardinality(Member), uses : Nat]
<1>1. Cardinality(Member) \in Nat
  BY RotationAssumption, FS_CardinalityType
<1>. QED
  BY <1>1 DEF Fresh

LEMMA NoMembers == <<>> \in Lists
<1>1. Cardinality(Member) \in Nat
  BY RotationAssumption, FS_CardinalityType
<1>2. <<>> \in [1..0 -> Member] /\ IsInjective(<<>>)
  BY DEF IsInjective
<1>. QED
  BY <1>1, <1>2 DEF Lists, SeqOf

LEMMA InitRotation == RotationInit => RotationIInv
<1>. SUFFICES ASSUME RotationInit PROVE RotationIInv
  OBVIOUS
<1>1. pool \in Pools
  <2>1. (CHOOSE n \in StickyLimit : TRUE) \in StickyLimit
    BY RotationAssumption
  <2>. QED
    BY <2>1, NoMembers DEF RotationInit, Pools
<1>2. cursor \in [index : 0..Cardinality(Member), uses : Nat] /\ clear \in BOOLEAN /\ heads = NoHeads
  BY FreshCursor DEF RotationInit
<1>. QED
  BY <1>1, <1>2, CursorInType, NoHeadsEven DEF RotationIInv, RotationTypeOK

LEMMA SelectKeeps == ASSUME RotationIInv, Select PROVE RotationIInv'
<1>1. /\ pool \in Pools /\ clear \in BOOLEAN /\ heads \in [Member -> Nat]
      /\ cursor \in [index : 0..Cardinality(Member), uses : Nat] /\ cursor \in Cursors
      /\ pool' = pool /\ clear' = clear /\ Even(pool, cursor, heads)
  BY CursorInType DEF RotationIInv, RotationTypeOK, Select
<1>2. CASE ~Rotates(pool)
  BY <1>1, <1>2 DEF Select, RotationIInv, RotationTypeOK, Even
<1>3. ASSUME Rotates(pool), ToSet(Candidates(pool)) \subseteq pool.usable PROVE RotationIInv'
  <2>1. /\ cursor' = Advanced(pool, cursor)
        /\ heads' = Levelled([heads EXCEPT ![Head(Order(pool, cursor))] = @ + 1],
                             ToSet(Candidates(pool)))
    BY <1>3 DEF Select
  <2>2. cursor' \in [index : 0..Cardinality(Member), uses : Nat]
    BY <1>1, <1>3, <2>1, CursorMoves
  <2>3. heads' \in [Member -> Nat] /\ Even(pool, Advanced(pool, cursor), heads')
    BY <1>1, <1>3, <2>1, SelectionEven
  <2>. QED
    BY <1>1, <2>1, <2>2, <2>3 DEF RotationIInv, RotationTypeOK
<1>4. ASSUME Rotates(pool), ~(ToSet(Candidates(pool)) \subseteq pool.usable) PROVE RotationIInv'
  <2>1. cursor' = Advanced(pool, cursor) /\ heads' = NoHeads
    BY <1>4 DEF Select
  <2>2. cursor' \in [index : 0..Cardinality(Member), uses : Nat]
    BY <1>1, <1>4, <2>1, CursorMoves
  <2>. QED
    BY <1>1, <2>1, <2>2, PublicationKeeps
<1>. QED
  BY <1>2, <1>3, <1>4

LEMMA RotationStepKeeps == RotationIInv /\ [RotationNext]_rotationVars => RotationIInv'
<1>. SUFFICES ASSUME RotationIInv, [RotationNext]_rotationVars PROVE RotationIInv'
  OBVIOUS
<1>1. /\ pool \in Pools /\ clear \in BOOLEAN
      /\ cursor \in [index : 0..Cardinality(Member), uses : Nat]
  BY DEF RotationIInv, RotationTypeOK
<1>2. CASE Select
  BY <1>2, SelectKeeps
<1>3. CASE DeletePool
  <2>1. pool' \in Pools
    BY <1>1, <1>3, NoMembers DEF DeletePool, Publishes, Pools
  <2>. QED
    BY <1>1, <1>3, <2>1, PublicationKeeps DEF DeletePool, Publishes
<1>4. CASE ForgetCursor
  BY <1>1, <1>4, FreshCursor, PublicationKeeps DEF ForgetCursor
<1>5. CASE LeaveCursor
  BY <1>5 DEF LeaveCursor, RotationIInv, RotationTypeOK
<1>6. CASE RestartRotation
  BY <1>1, <1>6, FreshCursor, PublicationKeeps DEF RestartRotation
<1>7. ASSUME NEW l \in Lists, NEW usable \in SUBSET ToSet(l), ChangeMembers(l, usable)
      PROVE  RotationIInv'
  <2>1. usable \in SUBSET Member
    BY DEF Lists, SeqOf, ToSet
  <2>2. pool' \in Pools
    BY <1>1, <1>7, <2>1 DEF ChangeMembers, Publishes, Pools
  <2>. QED
    BY <1>1, <1>7, <2>2, PublicationKeeps DEF ChangeMembers, Publishes
<1>8. ASSUME NEW s \in {"priority", "round_robin"}, NEW n \in StickyLimit, PatchPool(s, n)
      PROVE  RotationIInv'
  <2>1. pool' \in Pools
    BY <1>1, <1>8 DEF PatchPool, Publishes, Pools
  <2>. QED
    BY <1>1, <1>8, <2>1, PublicationKeeps DEF PatchPool, Publishes
<1>9. ASSUME NEW s \in {"priority", "round_robin"}, NEW n \in StickyLimit,
             NEW k \in {"chat", "image"}, PutPoolRow(s, n, k)
      PROVE  RotationIInv'
  <2>1. pool' \in Pools
    BY <1>1, <1>9 DEF PutPoolRow, Publishes, Pools
  <2>. QED
    BY <1>1, <1>9, <2>1, PublicationKeeps DEF PutPoolRow, Publishes
<1>10. CASE UNCHANGED rotationVars
  BY <1>10 DEF rotationVars, RotationIInv, RotationTypeOK
<1>. QED
  BY <1>2, <1>3, <1>4, <1>5, <1>6, <1>7, <1>8, <1>9, <1>10 DEF RotationNext

-----------------------------------------------------------------------------
(* The counts of a pool that rotates are those of some whole laps and a part *)
(* of one: the inductive invariant.                                          *)
THEOREM RotationInvariance == RotationSpec => []RotationIInv
  BY InitRotation, RotationStepKeeps, PTL DEF RotationSpec

(* The cursor points at most one past the largest list there can be.         *)
THEOREM RotationTyped == RotationSpec => []RotationTypeOK
<1>1. RotationIInv => RotationTypeOK
  BY DEF RotationIInv
<1>. QED
  BY <1>1, RotationInvariance, PTL

(* rotate_from_cursor: for any number of members, any sticky limit and any   *)
(* cursor that earlier configurations left behind, no member of a pool has   *)
(* been head more than one sticky run more often than another.               *)
THEOREM Fair == RotationSpec => []RoundRobinFair
<1>1. RotationIInv => RoundRobinFair
  <2>. SUFFICES ASSUME RotationIInv, Rotates(pool),
                       NEW x \in ToSet(Candidates(pool)), NEW y \in ToSet(Candidates(pool))
                PROVE  heads[x] - heads[y] <= Sticky(pool)
    BY DEF RoundRobinFair
  <2>. DEFINE l == Candidates(pool)
              n == Len(l)
              S == Sticky(pool)
              h == Place(pool, cursor)
              w == Uses(pool, cursor)
  <2>1. pool \in Pools /\ cursor \in Cursors /\ Even(pool, cursor, heads)
    BY CursorInType DEF RotationIInv, RotationTypeOK
  <2>2. /\ n \in Nat /\ DOMAIN l = 1..n /\ h \in 0..(n - 1) /\ S \in Nat /\ w \in 0..(S - 1)
        /\ Spots(pool) = 0..(n - 1)
    BY <2>1, CandidateList, PlaceInList, StickyType, UsesType DEF Spots
  <2>3. PICK base \in Int, a \in Spots(pool), d \in 0..(S - 1) :
          Evenly(n, S, a, h, w, d, base, ByPlace(pool, heads))
    BY <2>1 DEF Even
  <2>. HIDE DEF l, n, S, h, w
  <2>4. \A z \in ToSet(l) : \E i \in 0..(n - 1) : z = l[i + 1]
    <3>1. ASSUME NEW z \in ToSet(l) PROVE \E i \in 0..(n - 1) : z = l[i + 1]
      <4>1. PICK j \in 1..n : l[j] = z
        BY <2>2 DEF ToSet
      <4>2. j - 1 \in 0..(n - 1) /\ (j - 1) + 1 = j
        BY <2>2
      <4>. QED
        BY <4>1, <4>2
    <3>. QED
      BY <3>1
  <2>5. PICK i \in 0..(n - 1), j \in 0..(n - 1) : x = l[i + 1] /\ y = l[j + 1]
    BY <2>4 DEF l
  <2>6. \A k \in 0..(n - 1) : heads[l[k + 1]] = base + TimesHead(S, a, h, w, d, k)
    BY <2>2, <2>3 DEF Evenly, ByPlace, l
  <2>. DEFINE t(k) == TimesHead(S, a, h, w, d, k)
  <2>7. t(i) \in Int /\ t(j) \in Int /\ t(i) - t(j) <= S
    BY Zenon, <2>2, <2>3, <2>5, TimesHeadApart
  <2>8. heads[x] = base + t(i) /\ heads[y] = base + t(j)
    BY <2>5, <2>6
  <2>. HIDE DEF t
  <2>9. heads[x] - heads[y] <= S
    BY <2>2, <2>3, <2>7, <2>8
  <2>. QED
    BY <2>9 DEF S
<1>. QED
  BY <1>1, RotationInvariance, PTL

-----------------------------------------------------------------------------
(***************************************************************************)
(* Theorems about Images, for any number of requests, members, host models *)
(* and permits.  The argument: an outcome after which upstream may be      *)
(* drawing ends the request, so a request that is still at it has begun    *)
(* nothing; and a permit is held from its acquisition to the answer.       *)
(***************************************************************************)

(* The inductive invariant. *)

Holders == {r \in Drawing : Holding(r)}

\* d, the place of a request, and s, what it has spent.
Records(d, s) ==
  s.rows = s.tried - (IF d.at \in {"creds", "call", "refresh", "stream"} THEN 1 ELSE 0)

Spares(d, s) == s.begun <= 1 /\ (d.at # "none" => s.begun = 0)

AtMember(d) == d.at \in {"creds", "call", "refresh", "stream"} => d.member \in Drawer

Tidy(d, s) == Records(d, s) /\ Spares(d, s) /\ AtMember(d)

DrawingsIInv ==
  /\ ImagesTypeOK
  /\ permits = limit - Cardinality(Holders)
  /\ \A r \in Drawing : Tidy(drawing[r], spent[r])

SpentType == [begun : Nat, tried : Nat, rows : Nat]

-----------------------------------------------------------------------------
(* The permits. *)

HoldingPlaces == {"pick", "creds", "call", "refresh", "stream"}

\* One request moves: the permits that are held are those of before, with or
\* without its own.
LEMMA HoldersMove ==
  ASSUME DrawingsIInv, NEW r \in Drawing, NEW d \in DrawingType, drawing' = [drawing EXCEPT ![r] = d]
  PROVE  /\ drawing[r].at \in HoldingPlaces /\ d.at \in HoldingPlaces
              => Cardinality(Holders') = Cardinality(Holders)
         /\ drawing[r].at \notin HoldingPlaces /\ d.at \notin HoldingPlaces
              => Cardinality(Holders') = Cardinality(Holders)
         /\ drawing[r].at \notin HoldingPlaces /\ d.at \in HoldingPlaces
              => Cardinality(Holders') = Cardinality(Holders) + 1
         /\ drawing[r].at \in HoldingPlaces /\ d.at \notin HoldingPlaces
              => Cardinality(Holders') = Cardinality(Holders) - 1
         /\ Cardinality(Holders) \in Nat /\ Cardinality(Holders') \in Nat
<1>1. drawing \in [Drawing -> DrawingType]
  BY DEF DrawingsIInv, ImagesTypeOK
<1>2. IsFiniteSet(Holders) /\ IsFiniteSet(Holders')
  BY ImagesAssumption, FS_Subset DEF Holders
<1>3. /\ r \in Holders <=> drawing[r].at \in HoldingPlaces
      /\ r \in Holders' <=> d.at \in HoldingPlaces
      /\ \A q \in Drawing \ {r} : q \in Holders' <=> q \in Holders
  BY <1>1 DEF Holders, Holding, HoldingPlaces
<1>4. Holders \subseteq Drawing /\ Holders' \subseteq Drawing
  BY DEF Holders
<1>5. CASE d.at \in HoldingPlaces
  <2>1. Holders' = Holders \cup {r}
    BY <1>3, <1>4, <1>5
  <2>. QED
    BY <1>2, <1>3, <1>5, <2>1, FS_AddElement, FS_CardinalityType
<1>6. CASE d.at \notin HoldingPlaces
  <2>1. Holders' = Holders \ {r}
    BY <1>3, <1>4, <1>6
  <2>. QED
    BY <1>2, <1>3, <1>6, <2>1, FS_RemoveElement, FS_CardinalityType
<1>. QED
  BY <1>5, <1>6

\* A permit is handed out, given back, or neither.
Hands(old, new) ==
  \/ permits' = permits /\ old.at \in HoldingPlaces /\ new.at \in HoldingPlaces
  \/ permits' = permits /\ old.at \notin HoldingPlaces /\ new.at \notin HoldingPlaces
  \/ permits' = permits - 1 /\ permits > 0 /\ old.at \notin HoldingPlaces /\ new.at \in HoldingPlaces
  \/ permits' = permits + 1 /\ old.at \in HoldingPlaces /\ new.at \notin HoldingPlaces

LEMMA Balance ==
  ASSUME NEW all \in Nat, NEW left \in 0..all, NEW held \in Nat, left = all - held,
         NEW left2, NEW held2 \in Nat,
         \/ left2 = left /\ held2 = held
         \/ left2 = left - 1 /\ left > 0 /\ held2 = held + 1
         \/ left2 = left + 1 /\ held2 = held - 1
  PROVE  left2 = all - held2 /\ left2 \in 0..all
  OBVIOUS

LEMMA PermitsMove ==
  ASSUME DrawingsIInv, NEW r \in Drawing, NEW d \in DrawingType, drawing' = [drawing EXCEPT ![r] = d],
         limit' = limit, Hands(drawing[r], d)
  PROVE  permits' = limit' - Cardinality(Holders') /\ permits' \in 0..limit'
<1>. DEFINE held == Cardinality(Holders)
            held2 == Cardinality(Holders')
<1>1. held \in Nat /\ held2 \in Nat
  BY HoldersMove
<1>2. limit \in Nat /\ permits \in 0..limit /\ permits = limit - held
  BY DEF DrawingsIInv, ImagesTypeOK
<1>3. \/ permits' = permits /\ held2 = held
      \/ permits' = permits - 1 /\ permits > 0 /\ held2 = held + 1
      \/ permits' = permits + 1 /\ held2 = held - 1
  BY HoldersMove DEF Hands
<1>. HIDE DEF held, held2
<1>4. permits' = limit - held2 /\ permits' \in 0..limit
  BY <1>1, <1>2, <1>3, Balance
<1>. QED
  BY <1>4 DEF held2

-----------------------------------------------------------------------------
(* One request moves, with its permit and its record. *)

LEMMA BeginsOne ==
  ASSUME NEW o
  PROVE  /\ Begins(o) \in {0, 1} /\ (Begins(o) = 1 => MayHaveBegun(o))
         /\ (~MayHaveBegun(o) => Begins(o) = 0)
  BY DEF Begins

\* The record of a request after one more attempt, which may have begun something.
OneMore(s, k) == [begun |-> s.begun + k, tried |-> s.tried, rows |-> s.rows + 1]

LEMMA OneMoreRow ==
  ASSUME NEW s \in SpentType, NEW k \in {0, 1}
  PROVE  /\ OneMore(s, k) \in SpentType /\ OneMore(s, k).rows = s.rows + 1
         /\ OneMore(s, k).tried = s.tried /\ OneMore(s, k).begun = s.begun + k
  BY DEF SpentType, OneMore

LEMMA DrawingMoves ==
  ASSUME DrawingsIInv, NEW r \in Drawing, NEW d \in DrawingType, NEW s \in SpentType,
         drawing' = [drawing EXCEPT ![r] = d], spent' = [spent EXCEPT ![r] = s],
         Tidy(d, s), Hands(drawing[r], d), images' = images, limit' = limit, host' \in 0..(Hosts - 1),
         drawers' \in [Drawer -> {"ready", "cooling", "misconfigured"}]
  PROVE  DrawingsIInv'
<1>1. /\ drawing \in [Drawing -> DrawingType] /\ spent \in [Drawing -> SpentType]
      /\ limit \in Nat /\ permits \in 0..limit /\ permits = limit - Cardinality(Holders)
  BY DEF DrawingsIInv, ImagesTypeOK, SpentType
<1>2. permits' = limit' - Cardinality(Holders') /\ permits' \in 0..limit'
  BY PermitsMove
<1>3. permits' \in 0..limit' /\ images' \in BOOLEAN
  BY <1>2 DEF DrawingsIInv, ImagesTypeOK
<1>4. drawing' \in [Drawing -> DrawingType] /\ spent' \in [Drawing -> SpentType]
  BY <1>1
<1>5. ImagesTypeOK'
  BY <1>3, <1>4 DEF DrawingsIInv, ImagesTypeOK, SpentType
<1>6. ASSUME NEW q \in Drawing PROVE Tidy(drawing'[q], spent'[q])
  <2>1. CASE q = r
    BY <1>1, <2>1
  <2>2. CASE q # r
    BY <1>1, <2>2 DEF DrawingsIInv
  <2>. QED
    BY <2>1, <2>2
<1>7. (\A q \in Drawing : Tidy(drawing[q], spent[q]))'
  BY <1>6
<1>. QED
  BY <1>2, <1>5, <1>7 DEF DrawingsIInv

\* An attempt goes on.
LEMMA StayKeeps ==
  ASSUME DrawingsIInv, NEW r \in Drawing, NEW d \in DrawingType, Draws(r, d), Attempting(r),
         d.at \in {"call", "refresh", "stream"}, d.member = drawing[r].member,
         UNCHANGED <<images, limit, permits, host, drawers, spent>>
  PROVE  DrawingsIInv'
<1>1. drawing' = [drawing EXCEPT ![r] = d] /\ spent' = [spent EXCEPT ![r] = spent[r]]
  BY DEF Draws, DrawingsIInv, ImagesTypeOK
<1>2. spent[r] \in SpentType /\ host' \in 0..(Hosts - 1)
      /\ drawers' \in [Drawer -> {"ready", "cooling", "misconfigured"}]
  BY DEF DrawingsIInv, ImagesTypeOK, SpentType
<1>3. Tidy(drawing[r], spent[r]) /\ drawing[r].at \in {"creds", "call", "refresh", "stream"}
  BY DEF DrawingsIInv, Attempting
<1>4. Tidy(d, spent[r])
  BY <1>3 DEF Tidy, Records, Spares, AtMember
<1>5. drawing[r].at \in HoldingPlaces /\ d.at \in HoldingPlaces
  BY <1>3 DEF HoldingPlaces
<1>. QED
  BY <1>1, <1>2, <1>4, <1>5, DrawingMoves DEF Hands

\* An attempt ends: if upstream may have begun to draw, so does the request.
LEMMA SettleKeeps ==
  ASSUME DrawingsIInv, NEW r \in Drawing, NEW outcome, Attempting(r), Settles(r, outcome),
         MayHaveBegun(outcome) => outcome \in Final,
         images' = images, limit' = limit, host' \in 0..(Hosts - 1)
  PROVE  DrawingsIInv'
<1>. DEFINE m == drawing[r].member
            s == OneMore(spent[r], Begins(outcome))
            on == [drawing[r] EXCEPT !.at = "pick", !.member = Nobody]
<1>1. drawing[r] \in DrawingType /\ spent[r] \in SpentType
      /\ drawers \in [Drawer -> {"ready", "cooling", "misconfigured"}]
  BY DEF DrawingsIInv, ImagesTypeOK, SpentType
<1>2. Tidy(drawing[r], spent[r]) /\ drawing[r].at \in {"creds", "call", "refresh", "stream"}
  BY DEF DrawingsIInv, Attempting
<1>3. m \in Drawer
  BY <1>2 DEF Tidy, AtMember
<1>4. drawers' = [drawers EXCEPT ![m] = HealthAfter(m, outcome)]
  BY DEF Settles
<1>5. HealthAfter(m, outcome) \in {"ready", "cooling", "misconfigured"}
  BY <1>1, <1>3 DEF HealthAfter
<1>6. drawers' \in [Drawer -> {"ready", "cooling", "misconfigured"}]
  BY <1>1, <1>4, <1>5
<1>7. spent' = [spent EXCEPT ![r] = s]
  BY DEF Settles, OnRecord, OneMore, DrawingsIInv, ImagesTypeOK
<1>8. /\ s \in SpentType /\ s.rows = spent[r].rows + 1 /\ s.tried = spent[r].tried
      /\ s.begun = spent[r].begun + Begins(outcome)
  BY <1>1, BeginsOne, OneMoreRow
<1>. HIDE DEF s
<1>9. spent[r].begun = 0 /\ spent[r].rows = spent[r].tried - 1 /\ spent[r].tried \in Nat
  BY <1>1, <1>2 DEF Tidy, Spares, Records, SpentType
<1>10. drawing[r].at \in HoldingPlaces
  BY <1>2 DEF HoldingPlaces
<1>11. CASE outcome \in Final
  <2>1. drawing' = [drawing EXCEPT ![r] = NoDrawing] /\ permits' = permits + 1
    BY <1>11 DEF Settles, Draws
  <2>2. NoDrawing \in DrawingType /\ NoDrawing.at = "none"
    BY ImagesAssumption DEF NoDrawing, DrawingType, DrawingPlaces
  <2>3. Tidy(NoDrawing, s)
    BY <1>8, <1>9, <2>2, BeginsOne DEF Tidy, Records, Spares, AtMember
  <2>. QED
    BY <1>6, <1>7, <1>8, <1>10, <2>1, <2>2, <2>3, DrawingMoves DEF Hands, HoldingPlaces
<1>12. CASE outcome \notin Final
  <2>1. drawing' = [drawing EXCEPT ![r] = on] /\ permits' = permits
    BY <1>12 DEF Settles, Draws
  <2>2. on \in DrawingType /\ on.at = "pick"
    BY <1>1 DEF DrawingType, DrawingPlaces
  <2>. HIDE DEF on
  <2>3. Tidy(on, s)
    BY <1>8, <1>9, <1>12, <2>2, BeginsOne DEF Tidy, Records, Spares, AtMember
  <2>. QED
    BY <1>6, <1>7, <1>8, <1>10, <2>1, <2>2, <2>3, DrawingMoves DEF Hands, HoldingPlaces
<1>. QED
  BY <1>11, <1>12

-----------------------------------------------------------------------------
(* The invariant holds at the start, and every step keeps it. *)

LEMMA NoDrawingTyped == NoDrawing \in DrawingType /\ NoDrawing.at = "none"
  BY ImagesAssumption DEF NoDrawing, DrawingType, DrawingPlaces

LEMMA InitDrawings == ImagesInit => DrawingsIInv
<1>. SUFFICES ASSUME ImagesInit PROVE DrawingsIInv
  OBVIOUS
<1>1. limit \in Nat \ {0} /\ permits = limit
  BY ImagesAssumption DEF ImagesInit
<1>2. drawing \in [Drawing -> DrawingType] /\ \A r \in Drawing : drawing[r] = NoDrawing
  BY NoDrawingTyped DEF ImagesInit
<1>3. spent \in [Drawing -> SpentType] /\ \A r \in Drawing : spent[r] = Unspent
  BY DEF ImagesInit, Unspent, SpentType
<1>4. /\ host \in 0..(Hosts - 1) /\ images \in BOOLEAN
      /\ drawers \in [Drawer -> {"ready", "cooling", "misconfigured"}]
  <2>1. drawers = [m \in Drawer |-> "ready"] /\ host = 0 /\ images = FALSE
    BY DEF ImagesInit
  <2>2. 0 \in 0..(Hosts - 1)
    BY ImagesAssumption
  <2>. QED
    BY <2>1, <2>2
<1>5. ImagesTypeOK
  BY <1>1, <1>2, <1>3, <1>4 DEF ImagesTypeOK, SpentType
<1>6. Holders = {}
  BY <1>2, NoDrawingTyped DEF Holders, Holding
<1>7. permits = limit - Cardinality(Holders)
  BY <1>1, <1>6, FS_EmptySet
<1>8. Tidy(NoDrawing, Unspent)
  BY NoDrawingTyped DEF Tidy, Records, Spares, AtMember, Unspent
<1>. QED
  BY <1>2, <1>3, <1>5, <1>7, <1>8 DEF DrawingsIInv

\* What every step of a request may rely on.
LEMMA InPlace ==
  ASSUME DrawingsIInv, NEW r \in Drawing
  PROVE  /\ drawing[r] \in DrawingType /\ spent[r] \in SpentType
         /\ Tidy(drawing[r], spent[r])
         /\ drawers \in [Drawer -> {"ready", "cooling", "misconfigured"}]
         /\ host \in 0..(Hosts - 1)
         /\ spent = [spent EXCEPT ![r] = spent[r]]
  BY DEF DrawingsIInv, ImagesTypeOK, SpentType

LEMMA AdmitKeeps ==
  ASSUME DrawingsIInv, NEW r \in Drawing, NEW c, AdmitDrawing(r, c) \/ TurnDown(r)
  PROVE  DrawingsIInv'
<1>. DEFINE body == [NoDrawing EXCEPT !.at = "body", !.admin = (c = "admin")]
<1>1. UNCHANGED <<images, limit, permits, host, drawers, spent>>
  BY DEF AdmitDrawing, TurnDown
<1>2. CASE AdmitDrawing(r, c)
  <2>1. body \in DrawingType /\ body.at = "body"
    BY NoDrawingTyped DEF DrawingType, DrawingPlaces
  <2>2. drawing[r].at = "none" /\ spent[r] = Unspent /\ drawing' = [drawing EXCEPT ![r] = body]
    BY <1>2 DEF AdmitDrawing, Draws
  <2>. HIDE DEF body
  <2>3. Tidy(body, spent[r])
    BY <2>1, <2>2 DEF Tidy, Records, Spares, AtMember, Unspent
  <2>4. drawing[r].at \notin HoldingPlaces /\ body.at \notin HoldingPlaces
    BY <2>1, <2>2 DEF HoldingPlaces
  <2>. QED
    BY <1>1, <2>1, <2>2, <2>3, <2>4, InPlace, DrawingMoves DEF Hands
<1>3. CASE TurnDown(r)
  <2>1. drawing[r].at = "body" /\ drawing' = [drawing EXCEPT ![r] = NoDrawing]
    BY <1>3 DEF TurnDown, Draws
  <2>2. Tidy(NoDrawing, spent[r])
    BY <2>1, InPlace, NoDrawingTyped DEF Tidy, Records, Spares, AtMember, SpentType
  <2>3. drawing[r].at \notin HoldingPlaces /\ NoDrawing.at \notin HoldingPlaces
    BY <2>1, NoDrawingTyped DEF HoldingPlaces
  <2>. QED
    BY <1>1, <2>1, <2>2, <2>3, InPlace, NoDrawingTyped, DrawingMoves DEF Hands
<1>. QED
  BY <1>2, <1>3

LEMMA AcquireKeeps == ASSUME DrawingsIInv, NEW r \in Drawing, NEW x \in Selected, AcquirePermit(r, x) PROVE DrawingsIInv'
<1>. DEFINE d == [drawing[r] EXCEPT !.at = "pick", !.members = x.members]
<1>1. /\ drawing[r].at = "body" /\ permits > 0 /\ permits' = permits - 1
      /\ drawing' = [drawing EXCEPT ![r] = d]
      /\ UNCHANGED <<images, limit, host, drawers, spent>>
  BY DEF AcquirePermit, Draws
<1>2. x.members \in Seq(Drawer)
  BY ImagesAssumption
<1>3. d \in DrawingType /\ d.at = "pick"
  BY <1>2, InPlace DEF DrawingType, DrawingPlaces
<1>. HIDE DEF d
<1>4. Tidy(d, spent[r])
  BY <1>1, <1>3, InPlace DEF Tidy, Records, Spares, AtMember
<1>5. drawing[r].at \notin HoldingPlaces /\ d.at \in HoldingPlaces
  BY <1>1, <1>3 DEF HoldingPlaces
<1>. QED
  BY <1>1, <1>3, <1>4, <1>5, InPlace, DrawingMoves DEF Hands

LEMMA PickKeeps == ASSUME DrawingsIInv, NEW r \in Drawing, PickMember(r) PROVE DrawingsIInv'
<1>. DEFINE old == drawing[r]
            m == Head(old.members)
            passed == [old EXCEPT !.members = Tail(@)]
            next == [old EXCEPT !.at = "creds", !.members = Tail(@), !.member = m]
            s == [spent[r] EXCEPT !.tried = @ + 1]
<1>1. old.at = "pick" /\ UNCHANGED <<images, limit, host, drawers>>
  BY DEF PickMember
<1>2. old \in DrawingType /\ old.members \in Seq(Drawer) /\ old.at \in HoldingPlaces
  BY <1>1, InPlace DEF DrawingType, HoldingPlaces
<1>3. CASE old.members = <<>>
  <2>1. drawing' = [drawing EXCEPT ![r] = NoDrawing] /\ permits' = permits + 1 /\ spent' = spent
    BY <1>3 DEF PickMember, Draws
  <2>2. Tidy(NoDrawing, spent[r])
    BY <1>1, InPlace, NoDrawingTyped DEF Tidy, Records, Spares, AtMember
  <2>3. NoDrawing.at \notin HoldingPlaces
    BY NoDrawingTyped DEF HoldingPlaces
  <2>. QED
    BY <1>1, <1>2, <2>1, <2>2, <2>3, InPlace, NoDrawingTyped, DrawingMoves DEF Hands
<1>4. CASE old.members # <<>>
  <2>1. m \in Drawer /\ Tail(old.members) \in Seq(Drawer)
    BY <1>2, <1>4
  <2>2. CASE drawers[m] # "ready"
    <3>1. drawing' = [drawing EXCEPT ![r] = passed] /\ permits' = permits /\ spent' = spent
      BY <1>4, <2>2 DEF PickMember, Draws
    <3>2. passed \in DrawingType /\ passed.at = "pick"
      BY <1>1, <1>2, <2>1 DEF DrawingType
    <3>. HIDE DEF passed
    <3>3. Tidy(passed, spent[r])
      BY <1>1, <3>2, InPlace DEF Tidy, Records, Spares, AtMember
    <3>4. passed.at \in HoldingPlaces
      BY <3>2 DEF HoldingPlaces
    <3>. QED
      BY <1>1, <1>2, <3>1, <3>2, <3>3, <3>4, InPlace, DrawingMoves DEF Hands
  <2>3. CASE drawers[m] = "ready"
    <3>1. drawing' = [drawing EXCEPT ![r] = next] /\ permits' = permits
          /\ spent' = [spent EXCEPT ![r].tried = @ + 1]
      BY <1>4, <2>3 DEF PickMember, Draws
    <3>2. spent' = [spent EXCEPT ![r] = s]
      BY <3>1 DEF DrawingsIInv, ImagesTypeOK
    <3>3. next \in DrawingType /\ next.at = "creds" /\ next.member \in Drawer
      BY <1>2, <2>1 DEF DrawingType, DrawingPlaces
    <3>4. /\ s \in SpentType /\ s.rows = spent[r].rows /\ s.begun = spent[r].begun
          /\ s.tried = spent[r].tried + 1
      BY InPlace DEF SpentType
    <3>. HIDE DEF next, s
    <3>5. Tidy(next, s)
      BY <1>1, <3>3, <3>4, InPlace DEF Tidy, Records, Spares, AtMember, SpentType
    <3>6. next.at \in HoldingPlaces
      BY <3>3 DEF HoldingPlaces
    <3>. QED
      BY <1>1, <1>2, <3>1, <3>2, <3>3, <3>4, <3>5, <3>6, InPlace, DrawingMoves DEF Hands
  <2>. QED
    BY <2>2, <2>3
<1>. QED
  BY <1>3, <1>4

\* attempt_hosts begins, or begins again.
LEMMA CallsKeeps ==
  ASSUME DrawingsIInv, NEW r \in Drawing, NEW again \in BOOLEAN, Attempting(r), Calls(r, again),
         UNCHANGED <<images, limit, permits, host, drawers, spent>>
  PROVE  DrawingsIInv'
<1>1. FirstHost \in 0..(Hosts - 1)
  BY InPlace, ImagesAssumption DEF FirstHost
<1>2. [drawing[r] EXCEPT !.at = "call", !.from = FirstHost, !.host = FirstHost,
                         !.refreshed = again] \in DrawingType
  BY <1>1, InPlace DEF DrawingType, DrawingPlaces
<1>. QED
  BY <1>2, StayKeeps, InPlace DEF Calls, DrawingType

LEMMA CallKeeps ==
  ASSUME DrawingsIInv, NEW r \in Drawing,
         \/ LoadCredentials(r) \/ HostUnsupported(r) \/ CallAccepted(r)
         \/ \E o \in Before : CallFails(r, o)
         \/ \E refreshable \in BOOLEAN : CallUnauthorized(r, refreshable)
         \/ \E result \in {"ok", "invalid_grant", "transient"} : RefreshEnds(r, result)
  PROVE  DrawingsIInv'
<1>1. host \in 0..(Hosts - 1) /\ drawing[r] \in DrawingType
  BY InPlace
<1>2. Attempting(r)
  BY DEF LoadCredentials, HostUnsupported, CallAccepted, CallFails, CallUnauthorized, RefreshEnds, Attempting
<1>3. CASE LoadCredentials(r)
  BY <1>2, <1>3, CallsKeeps DEF LoadCredentials
<1>4. CASE CallAccepted(r)
  <2>1. [drawing[r] EXCEPT !.at = "stream"] \in DrawingType
    BY <1>1 DEF DrawingType, DrawingPlaces
  <2>. QED
    BY <1>1, <1>2, <1>4, <2>1, StayKeeps DEF CallAccepted, DrawingType
<1>5. CASE HostUnsupported(r)
  <2>1. CASE drawing[r].host + 1 < Hosts
    <3>1. [drawing[r] EXCEPT !.host = @ + 1] \in DrawingType
      BY <1>1, <2>1, ImagesAssumption DEF DrawingType
    <3>2. drawing[r].at = "call"
      BY <1>5 DEF HostUnsupported
    <3>. QED
      BY <1>1, <1>2, <1>5, <2>1, <3>1, <3>2, StayKeeps DEF HostUnsupported, DrawingType
  <2>2. CASE ~(drawing[r].host + 1 < Hosts)
    BY <1>1, <1>2, <1>5, <2>2, SettleKeeps DEF HostUnsupported, MayHaveBegun
  <2>. QED
    BY <2>1, <2>2
<1>6. ASSUME NEW o \in Before, CallFails(r, o) PROVE DrawingsIInv'
  BY <1>1, <1>2, <1>6, SettleKeeps DEF CallFails, Before, MayHaveBegun, Final
<1>7. ASSUME NEW refreshable \in BOOLEAN, CallUnauthorized(r, refreshable) PROVE DrawingsIInv'
  <2>1. [drawing[r] EXCEPT !.at = "refresh"] \in DrawingType
    BY <1>1 DEF DrawingType, DrawingPlaces
  <2>2. CASE refreshable /\ ~drawing[r].refreshed
    BY <1>1, <1>2, <1>7, <2>1, <2>2, StayKeeps DEF CallUnauthorized, DrawingType
  <2>3. CASE ~(refreshable /\ ~drawing[r].refreshed)
    BY <1>1, <1>2, <1>7, <2>3, SettleKeeps DEF CallUnauthorized, MayHaveBegun
  <2>. QED
    BY <2>2, <2>3
<1>8. ASSUME NEW result \in {"ok", "invalid_grant", "transient"}, RefreshEnds(r, result) PROVE DrawingsIInv'
  <2>1. CASE result = "ok"
    BY <1>2, <1>8, <2>1, CallsKeeps DEF RefreshEnds
  <2>2. CASE result # "ok"
    BY <1>1, <1>2, <1>8, <2>2, SettleKeeps DEF RefreshEnds, MayHaveBegun
  <2>. QED
    BY <2>1, <2>2
<1>. QED
  BY <1>3, <1>4, <1>5, <1>6, <1>7, <1>8

Verdicts == {"image", "usage_limit", "rejected", "unknown", "refused", "no_image",
             "incomplete", "timed_out", "read_failed"}

LEMMA StreamKeeps == ASSUME DrawingsIInv, NEW r \in Drawing, NEW o \in Verdicts, StreamEnds(r, o) PROVE DrawingsIInv'
<1>1. Attempting(r) /\ Settles(r, o) /\ images' = images /\ limit' = limit
  BY DEF StreamEnds, Attempting
<1>2. host' \in 0..(Hosts - 1)
  BY InPlace DEF StreamEnds, DrawingType
<1>3. MayHaveBegun(o) => o \in Final
  BY DEF Verdicts, MayHaveBegun, Final
<1>. QED
  BY <1>1, <1>2, <1>3, SettleKeeps

LEMMA DropKeeps == ASSUME DrawingsIInv, NEW r \in Drawing, DropDrawing(r) PROVE DrawingsIInv'
<1>. DEFINE Record(o) == OneMore(spent[r], Begins(o))
<1>1. /\ drawing[r].at # "none" /\ drawing' = [drawing EXCEPT ![r] = NoDrawing]
      /\ permits' = permits + (IF drawing[r].at \in HoldingPlaces THEN 1 ELSE 0)
      /\ UNCHANGED <<images, limit, host, drawers>>
  BY DEF DropDrawing, Draws, Holding, HoldingPlaces
<1>2. drawing[r].at \in DrawingPlaces /\ spent[r].begun = 0 /\ permits \in Nat
  BY <1>1, InPlace DEF DrawingType, Tidy, Spares, DrawingsIInv, ImagesTypeOK
<1>3. \A o \in {"gone", "left"} :
        /\ Record(o) \in SpentType /\ Record(o).rows = spent[r].rows + 1
        /\ Record(o).tried = spent[r].tried
        /\ Record(o).begun = spent[r].begun + Begins(o)
  BY InPlace, BeginsOne, OneMoreRow
<1>4. \A o \in {"gone", "left"} : OnRecord(r, o) = [spent EXCEPT ![r] = Record(o)]
  BY DEF OnRecord, OneMore, DrawingsIInv, ImagesTypeOK
<1>. HIDE DEF Record
<1>5. NoDrawing.at \notin HoldingPlaces
  BY NoDrawingTyped DEF HoldingPlaces
<1>6. PICK s \in SpentType : spent' = [spent EXCEPT ![r] = s] /\ Tidy(NoDrawing, s)
  <2>1. ASSUME NEW o \in {"gone", "left"}, spent' = OnRecord(r, o),
               drawing[r].at \in {"creds", "call", "refresh", "stream"}
        PROVE  spent' = [spent EXCEPT ![r] = Record(o)] /\ Tidy(NoDrawing, Record(o))
    BY <1>2, <1>3, <1>4, <2>1, InPlace, NoDrawingTyped, BeginsOne DEF Tidy, Records, Spares, AtMember, SpentType
  <2>2. CASE drawing[r].at \in {"creds", "call", "refresh", "stream"}
    <3>1. spent' = OnRecord(r, "gone") \/ spent' = OnRecord(r, "left")
      BY <2>2 DEF DropDrawing, Attempting
    <3>. QED
      BY <1>3, <2>1, <2>2, <3>1
  <2>3. CASE drawing[r].at \notin {"creds", "call", "refresh", "stream"}
    <3>1. spent' = spent
      BY <2>3 DEF DropDrawing, Attempting
    <3>2. Tidy(NoDrawing, spent[r])
      BY <1>2, <2>3, InPlace, NoDrawingTyped DEF Tidy, Records, Spares, AtMember
    <3>. QED
      BY <3>1, <3>2, InPlace
  <2>. QED
    BY <2>2, <2>3
<1>7. /\ images' = images /\ limit' = limit /\ host' \in 0..(Hosts - 1)
      /\ drawers' \in [Drawer -> {"ready", "cooling", "misconfigured"}]
  BY <1>1, InPlace
<1>8. CASE drawing[r].at \in HoldingPlaces
  <2>1. permits' = permits + 1
    BY <1>1, <1>8
  <2>. QED
    BY <1>1, <1>5, <1>6, <1>7, <1>8, <2>1, NoDrawingTyped, DrawingMoves DEF Hands
<1>9. CASE drawing[r].at \notin HoldingPlaces
  <2>1. permits' = permits
    BY <1>1, <1>2, <1>9
  <2>. QED
    BY <1>1, <1>5, <1>6, <1>7, <1>9, <2>1, NoDrawingTyped, DrawingMoves DEF Hands
<1>. QED
  BY <1>8, <1>9

LEMMA OtherDrawings ==
  ASSUME DrawingsIInv, (\E m \in Drawer : MemberReady(m)) \/ SwitchImages \/ UNCHANGED imageVars
  PROVE  DrawingsIInv'
<1>1. drawing' = drawing /\ spent' = spent /\ permits' = permits /\ limit' = limit /\ host' = host
  BY DEF MemberReady, SwitchImages, imageVars
<1>2. drawers' \in [Drawer -> {"ready", "cooling", "misconfigured"}] /\ images' \in BOOLEAN
  BY DEF DrawingsIInv, ImagesTypeOK, MemberReady, SwitchImages, imageVars
<1>3. ImagesTypeOK'
  BY <1>1, <1>2 DEF DrawingsIInv, ImagesTypeOK
<1>4. Holders' = Holders
  BY <1>1 DEF Holders, Holding
<1>. QED
  BY <1>1, <1>3, <1>4 DEF DrawingsIInv

LEMMA DrawingsStepKeeps == DrawingsIInv /\ [ImagesNext]_imageVars => DrawingsIInv'
  BY AdmitKeeps, AcquireKeeps, PickKeeps, CallKeeps, StreamKeeps, DropKeeps, OtherDrawings
     DEF ImagesNext, Verdicts

-----------------------------------------------------------------------------
(* A request that is still at it has begun no generation, and a permit is    *)
(* out for each request between its acquisition and its answer: the          *)
(* inductive invariant.                                                      *)
THEOREM DrawingsInvariance == ImagesSpec => []DrawingsIInv
  BY InitDrawings, DrawingsStepKeeps, PTL DEF ImagesSpec

(* The semaphore never has more permits than it was made with, nor fewer     *)
(* than none, and a host index stays within the configured hosts.            *)
THEOREM DrawingsTyped == ImagesSpec => []ImagesTypeOK
<1>1. DrawingsIInv => ImagesTypeOK
  BY DEF DrawingsIInv
<1>. QED
  BY <1>1, DrawingsInvariance, PTL

(* generate and AttemptLog: a prompt is drawn at most once, every attempt is *)
(* on record, and permits come back, wherever clients leave.                 *)
THEOREM Drawn == ImagesSpec => []DrawnOnce
<1>1. DrawingsIInv => DrawnOnce
  BY DEF DrawingsIInv, DrawnOnce, Tidy, Records, Spares, Attempting, Holders
<1>. QED
  BY <1>1, DrawingsInvariance, PTL

-----------------------------------------------------------------------------
(***************************************************************************)
(* Theorems about the parts together (MCDesk).  The argument: the part     *)
(* that acts has its own inductive invariant, and no other part moves.     *)
(***************************************************************************)
(* The inductive invariant. *)

DeskIInv ==
  /\ part \in Parts
  /\ part = "setup"    => SetupIInv
  /\ part = "rotation" => RotationIInv
  /\ part = "settings" => SettingsIInv
  /\ part = "sessions" => SessionsIInv
  /\ part = "users"    => KeysIInv
  /\ part = "logins"   => LoginsIInv
  /\ part = "images"   => DrawingsIInv

LEMMA InitDesk == DeskInit => DeskIInv
  BY InitSetup, InitRotation, InitSettings, InitSessions, InitKeys, InitLogins, InitDrawings
  DEF DeskInit, DeskIInv, SetupInit

LEMMA DeskStepKeeps == DeskIInv /\ [DeskNext]_deskVars => DeskIInv'
<1>. SUFFICES ASSUME DeskIInv, [DeskNext]_deskVars PROVE DeskIInv'
  OBVIOUS
<1>1. part' = part /\ part \in Parts
  BY DEF DeskIInv, DeskNext, deskVars
<1>2. part = "setup" => [SetupNext]_setupVars
  BY DEF DeskNext, deskVars
<1>3. part = "rotation" => [RotationNext]_rotationVars
  BY DEF DeskNext, deskVars
<1>4. part = "settings" => [SettingsNext]_settingsVars
  BY DEF DeskNext, deskVars
<1>5. part = "sessions" => [SessionsNext]_sessionVars
  BY DEF DeskNext, deskVars
<1>6. part = "users" => [UserKeysNext]_userVars
  BY DEF DeskNext, deskVars
<1>7. part = "logins" => [LoginsNext]_loginVars
  BY DEF DeskNext, deskVars
<1>8. part = "images" => [ImagesNext]_imageVars
  BY DEF DeskNext, deskVars
<1>. QED
  BY <1>1, <1>2, <1>3, <1>4, <1>5, <1>6, <1>7, <1>8, SetupStepKeeps, RotationStepKeeps,
     SettingsStepKeeps, SessionsStepKeeps, KeysStepKeeps, LoginsStepKeeps, DrawingsStepKeeps
  DEF DeskIInv

(* In any selection of the parts, each with any parameters of its own, the     *)
(* part that acts keeps the types of its rows, tasks and counters.             *)
THEOREM DeskTyped == DeskSpec => []TypeOK
<1>1. SetupIInv => SetupTypeOK
  BY DEF SetupIInv, CatalogIInv, WizardIInv, SetupTypeOK, CatalogTypeOK, SoundRows, IsRows,
         Frame, AdminPlaces, WizardType
<1>2. /\ RotationIInv => RotationTypeOK
      /\ SettingsIInv => SettingsTypeOK
      /\ SessionsIInv => SessionsTypeOK
      /\ KeysIInv => UserKeysTypeOK
      /\ LoginsIInv => LoginsTypeOK
      /\ DrawingsIInv => ImagesTypeOK
  BY DEF RotationIInv, SettingsIInv, SessionsIInv, KeysIInv, LoginsIInv, DrawingsIInv
<1>3. DeskIInv => TypeOK
  BY <1>1, <1>2, DeskAssumption DEF DeskIInv, TypeOK, PartNames
<1>. QED
  BY <1>3, InitDesk, DeskStepKeeps, PTL DEF DeskSpec
=============================================================================
