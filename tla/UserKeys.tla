-------------------------------- MODULE UserKeys --------------------------------
(***************************************************************************)
(* Users of the proxy and their keys: the rows of `users`, the admin       *)
(* handlers that create, revoke and rotate them (users/queries.rs), the    *)
(* import of a dump (admin/mod.rs), and the middleware that asks who is    *)
(* calling (auth/middleware.rs).  Statements of different handlers         *)
(* interleave; only an import is a transaction.                            *)
(***************************************************************************)
EXTENDS Integers, FiniteSets

CONSTANTS
  User,    \* user ids
  Foreign, \* users in the dump of another instance
  Key,     \* keys, in the order they are made: 1..n
  Clerk    \* admin requests in progress

ASSUME UserAssumption ==
  /\ Key \subseteq Nat \ {0} /\ 1 \in Key
  /\ Foreign \subseteq User /\ User # {}

VARIABLES
  users,     \* users: [id, key, revoked]
  clerk,     \* where each admin request is
  dump,      \* an export somebody has kept
  made,      \* keys made so far, here or on the other instance
  retired    \* history: keys that were replaced, or whose user was revoked

userVars == <<users, clerk, dump, made, retired>>

-----------------------------------------------------------------------------
UserRow == [id : User, key : Key, revoked : BOOLEAN]

Free == [at |-> "free", id |-> CHOOSE u \in User : TRUE]

Rows(id) == {u \in users : u.id = id}

NextKey == made + 1

AdminSecret == 0

Clerks(c, o) == clerk' = [clerk EXCEPT ![c] = o]

\* POST /admin/users: one INSERT, which a user of that id makes fail.
CreateUser(id) ==
  /\ NextKey \in Key
  /\ made' = NextKey
  /\ users' = IF Rows(id) = {} THEN users \cup {[id |-> id, key |-> NextKey, revoked |-> FALSE]}
                               ELSE users
  /\ UNCHANGED <<clerk, dump, retired>>

Revoked(table, id) == {IF u.id = id THEN [u EXCEPT !.revoked = TRUE] ELSE u : u \in table}

\* POST .../revoke: one UPDATE.
RevokeUser(id) ==
  /\ users' = Revoked(users, id)
  /\ retired' = retired \cup {u.key : u \in Rows(id)}
  /\ UNCHANGED <<clerk, dump, made>>

\* POST .../rotate reads the row, and turns a revoked user down, ...
BeginRotate(c, id) ==
  /\ clerk[c].at = "free"
  /\ \E u \in Rows(id) : ~u.revoked
  /\ Clerks(c, [at |-> "rotate", id |-> id])
  /\ UNCHANGED <<users, dump, made, retired>>

\* UPDATE ... WHERE id = ? AND revoked_at IS NULL
Replaced(table, id, key) ==
  {IF u.id = id /\ ~u.revoked THEN [u EXCEPT !.key = key] ELSE u : u \in table}

\* ... and then makes a key and updates the row, without looking whether there
\* was one to update.
EndRotate(c) ==
  LET id == clerk[c].id IN
  /\ clerk[c].at = "rotate" /\ NextKey \in Key
  /\ made' = NextKey
  /\ users' = Replaced(users, id, NextKey)
  /\ retired' = retired \cup {u.key : u \in {v \in Rows(id) : ~v.revoked}}
  /\ Clerks(c, Free)
  /\ UNCHANGED dump

AbandonRotate(c) ==
  /\ clerk[c].at = "rotate"
  /\ Clerks(c, Free)
  /\ UNCHANGED <<users, dump, made, retired>>

\* GET /admin/export.
Export == dump' = users /\ UNCHANGED <<users, clerk, made, retired>>

\* Fault model: the dump wins.
Merge_Overwrites(table, d) == {u \in table : \A v \in d : v.id # u.id} \cup d

\* A user that is there keeps its key, and is revoked if either says so.
Merge(table, d) ==
  {[u EXCEPT !.revoked = @ \/ \E v \in d : v.id = u.id /\ v.revoked] : u \in table}
  \cup {v \in d : \A u \in table : u.id # v.id}

\* key_hash is UNIQUE: one clash undoes the whole transaction.
NoClash(table) == \A u, v \in table : u.key = v.key => u = v

\* POST /admin/import, of a dump that was made here or, for users that are not
\* here, elsewhere.
Import(d) ==
  /\ NoClash(Merge(users, d))
  /\ users' = Merge(users, d)
  /\ retired' = retired \cup {u.key : u \in {v \in users' : v.revoked}}
  /\ UNCHANGED <<clerk, dump, made>>

-----------------------------------------------------------------------------
\* require_bearer: the shared secret first, then a user's key, then an
\* identity of Cloudflare Access; whoever is left is anonymous, or turned away.
CallerOf(presented, access, open) ==
  CASE presented = AdminSecret -> "admin"
    [] \E u \in users : u.key = presented /\ ~u.revoked ->
         (CHOOSE u \in users : u.key = presented /\ ~u.revoked).id
    [] OTHER -> IF access THEN "cf" ELSE IF open THEN "anonymous" ELSE "unauthorized"

-----------------------------------------------------------------------------
UserKeysInit ==
  /\ users = {} /\ retired = {}
  /\ \/ dump = {} /\ made = 0
     \/ \E id \in Foreign : dump = {[id |-> id, key |-> 1, revoked |-> FALSE]} /\ made = 1
  /\ clerk = [c \in Clerk |-> Free]

UserKeysNext ==
  \/ \E id \in User : CreateUser(id) \/ RevokeUser(id) \/ \E c \in Clerk : BeginRotate(c, id)
  \/ \E c \in Clerk : EndRotate(c) \/ AbandonRotate(c)
  \/ Export \/ Import(dump)

UserKeysSpec == UserKeysInit /\ [][UserKeysNext]_userVars

-----------------------------------------------------------------------------
UserKeysTypeOK ==
  /\ users \subseteq UserRow /\ dump \subseteq UserRow
  /\ \A u, v \in users : u.id = v.id \/ u.key = v.key => u = v
  /\ clerk \in [Clerk -> [at : {"free", "rotate"}, id : User]]
  /\ made \in Nat /\ retired \subseteq Key

(* A key that was replaced, or whose user was revoked, never again speaks for  *)
(* a user, however rotations, revocations and imports of older dumps follow    *)
(* and overtake each other (queries.rs: rotate_user_key, revoke_user;          *)
(* admin/mod.rs: import_config).                                               *)
RetiredStaysOut ==
  \A k \in retired, access, open \in BOOLEAN :
    CallerOf(k, access, open) \in {"cf", "anonymous", "unauthorized"}

=============================================================================
