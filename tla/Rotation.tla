------------------------------- MODULE Rotation -------------------------------
(***************************************************************************)
(* Selection in one pool (pools/select.rs): the snapshot lists its members *)
(* by priority, a round-robin pool rotates the list by a cursor that lives *)
(* outside of the snapshot, and each request fails over along what it got. *)
(* The admin changes the pool by publishing a new snapshot; some handlers  *)
(* forget the cursor afterwards (pools/routes.rs), and selections go on in *)
(* between.                                                                *)
(***************************************************************************)
EXTENDS Integers, Sequences, FiniteSets, FiniteSetsExt, SequencesExt

CONSTANTS
  Member,      \* members the pool may have: a provider, and a model of its own
  StickyLimit  \* sticky limits the admin may set; below one is one

ASSUME RotationAssumption ==
  /\ IsFiniteSet(Member)
  /\ StickyLimit \subseteq Int /\ StickyLimit # {}

VARIABLES
  pool,    \* the pool in the snapshot
  cursor,  \* AppState.pool_rotation, [index |-> 0, uses |-> 0] if absent
  clear,   \* a handler has published, and will forget the cursor next
  heads    \* history: how often each has been head since the pool changed,
           \* less what all of them have in common, and as long as all are usable

rotationVars == <<pool, cursor, clear, heads>>

-----------------------------------------------------------------------------
\* Lists by priority: members are sorted, and none is there twice.
Lists == {s \in SeqOf(Member, Cardinality(Member)) : IsInjective(s)}

\* present: the snapshot has the pool.  usable: its members whose provider the
\* snapshot has too and, in an image pool, whose provider can make images.
Pools ==
  [present : BOOLEAN, members : Lists, usable : SUBSET Member, modality : {"chat", "image"},
   strategy : {"priority", "round_robin"}, sticky : StickyLimit]

Fresh == [index |-> 0, uses |-> 0]

\* normalize_sticky_limit.
Sticky(p) == IF p.sticky > 0 THEN p.sticky ELSE 1

\* `retain`: the elements of a list that are in a set, in the list's order.
Kept(s, S) ==
  LET at == {i \in DOMAIN s : s[i] \in S}
  IN  [k \in 1..Cardinality(at) |-> s[CHOOSE i \in at : Cardinality({j \in at : j <= i}) = k]]

\* select_image leaves out members it cannot use before it rotates, select
\* (for chat) after.
Candidates(p) ==
  IF p.modality = "image" THEN Kept(p.members, p.usable) ELSE p.members

Rotates(p) == p.strategy = "round_robin" /\ Len(Candidates(p)) > 1

RotateLeft(s, n) == SubSeq(s, n + 1, Len(s)) \o SubSeq(s, 1, n)

\* Fault model: one more use than the limit.
Advanced_OneTooMany(p, c) ==
  LET len == Len(Candidates(p)) head == c.index % len IN
  IF c.uses + 1 > Sticky(p) THEN [index |-> (head + 1) % len, uses |-> 0]
                            ELSE [index |-> head, uses |-> c.uses + 1]

\* The cursor after a selection: it moves on every sticky_limit selections.
Advanced(p, c) ==
  LET len == Len(Candidates(p)) head == c.index % len IN
  IF c.uses + 1 >= Sticky(p) THEN [index |-> (head + 1) % len, uses |-> 0]
                             ELSE [index |-> head, uses |-> c.uses + 1]

\* rotate_from_cursor, and what a request fails over along.
Order(p, c) ==
  LET l == Candidates(p)
  IN  Kept(IF Rotates(p) THEN RotateLeft(l, c.index % Len(l)) ELSE l, p.usable)

\* Counts less what all the members have in common.
Levelled(h, ms) ==
  LET least == Min({h[m] : m \in ms})
  IN  [m \in Member |-> IF m \in ms THEN h[m] - least ELSE 0]

NoHeads == [m \in Member |-> 0]

-----------------------------------------------------------------------------
\* select, select_image: a pool of the other modality is turned down first.
Select ==
  /\ pool.present
  /\ IF Rotates(pool)
     THEN /\ cursor' = Advanced(pool, cursor)
          /\ heads' = LET all == ToSet(Candidates(pool)) IN
                      IF all \subseteq pool.usable
                      THEN Levelled([heads EXCEPT ![Head(Order(pool, cursor))] = @ + 1], all)
                      ELSE NoHeads
     ELSE UNCHANGED <<cursor, heads>>
  /\ UNCHANGED <<pool, clear>>

Publishes(p) ==
  /\ pool' = p
  /\ heads' = NoHeads
  /\ UNCHANGED cursor

\* put_member, delete_member, edits of providers and imports publish other
\* members and leave the cursor where it is, ...
ChangeMembers(members, usable) ==
  /\ pool.present
  /\ Publishes([pool EXCEPT !.members = members, !.usable = usable])
  /\ UNCHANGED clear

\* ... and so do a new pool and an import that changes the pool's own row.
PutPoolRow(strategy, sticky, modality) ==
  /\ Publishes([pool EXCEPT !.present = TRUE, !.strategy = strategy, !.sticky = sticky,
                            !.modality = modality])
  /\ UNCHANGED clear

\* PATCH of the pool, and its deletion: publish, then forget the cursor.
PatchPool(strategy, sticky) ==
  /\ pool.present
  /\ Publishes([pool EXCEPT !.strategy = strategy, !.sticky = sticky])
  /\ clear' = TRUE

DeletePool ==
  /\ pool.present
  /\ Publishes([pool EXCEPT !.present = FALSE, !.members = <<>>, !.usable = {}])
  /\ clear' = TRUE

ForgetCursor ==
  /\ clear
  /\ clear' = FALSE
  /\ cursor' = Fresh
  /\ heads' = NoHeads
  /\ UNCHANGED pool

\* The client leaves, or the database fails, before the cursor is forgotten.
LeaveCursor == clear /\ clear' = FALSE /\ UNCHANGED <<pool, cursor, heads>>

\* Cursors live in memory.
RestartRotation ==
  /\ cursor' = Fresh /\ clear' = FALSE /\ heads' = NoHeads
  /\ UNCHANGED pool

-----------------------------------------------------------------------------
RotationInit ==
  /\ pool = [present |-> FALSE, members |-> <<>>, usable |-> {}, modality |-> "chat",
             strategy |-> "priority", sticky |-> CHOOSE n \in StickyLimit : TRUE]
  /\ cursor = Fresh /\ clear = FALSE /\ heads = NoHeads

RotationNext ==
  \/ Select \/ DeletePool \/ ForgetCursor \/ LeaveCursor \/ RestartRotation
  \/ \E l \in Lists : \E usable \in SUBSET ToSet(l) : ChangeMembers(l, usable)
  \/ \E s \in {"priority", "round_robin"}, n \in StickyLimit :
       PatchPool(s, n) \/ \E k \in {"chat", "image"} : PutPoolRow(s, n, k)

RotationSpec == RotationInit /\ [][RotationNext]_rotationVars

-----------------------------------------------------------------------------
RotationTypeOK ==
  /\ pool \in Pools
  /\ cursor \in [index : 0..Cardinality(Member), uses : Nat]
  /\ clear \in BOOLEAN
  /\ heads \in [Member -> Nat]

(* While a round-robin pool stays as it is, no member has been head more than  *)
(* one sticky run more often than another, wherever the last change left the   *)
(* cursor (rotate_from_cursor; a cursor may point past a shortened list, or    *)
(* carry the uses of another limit).                                           *)
RoundRobinFair ==
  Rotates(pool) =>
    \A m, n \in ToSet(Candidates(pool)) : heads[m] - heads[n] <= Sticky(pool)

=============================================================================
