-------------------------- MODULE TokenRefreshProofs --------------------------
(***************************************************************************)
(* Theorems about TokenRefresh, for every number of requests, of grants    *)
(* and of persist retries.  The argument: only the head of the queue is    *)
(* beyond its second read, so what it holds cannot be overtaken by another *)
(* refresh; and an access token identifies the refresh token that was      *)
(* issued with it, so a row whose access token has not changed has not     *)
(* been refreshed.                                                         *)
(***************************************************************************)
EXTENDS TokenRefresh, SequenceTheorems, TLAPS

-----------------------------------------------------------------------------
(* The inductive invariant. *)

Locked == {"waiting", "calling", "granted", "persisting"}

Inside == {"calling", "granted", "persisting"}

Carrying == {"granted", "persisting"}

\* Every pair of tokens that somebody holds.
Held ==
  {row, login} \cup {task[t].creds : t \in Task} \cup {task[t].new : t \in Task}

\* No token is newer than the last grant.
Issued == \A p \in Held : p.access <= granted /\ p.refresh <= granted

\* An access token identifies the refresh token it is held with.
Paired ==
  \A p, q \in Held : (p.access = q.access /\ p.access > 0) => p.refresh = q.refresh

\* The task under the lock has a token to spend, or its successor in its hands.
InHand ==
  \A t \in Task :
    /\ task[t].pc \in Inside => task[t].creds.refresh # None
    /\ task[t].pc \in Carrying => task[t].new.refresh \in live

\* Nobody can spend a login's refresh token before it is stored.
LoginFresh ==
  login.refresh # None =>
    /\ login.refresh \in live
    /\ row.refresh # login.refresh
    /\ \A t \in Task : /\ task[t].creds.refresh # login.refresh
                       /\ task[t].new.refresh # login.refresh

IInv ==
  /\ TypeOK /\ LockKept
  /\ Issued /\ Paired /\ InHand /\ LoginFresh
  /\ StoredIsLive /\ NeverSpendsSpent

-----------------------------------------------------------------------------
(* The lock. *)

\* Taking the head off a queue without repetitions removes just that task.
LEMMA TailDistinct ==
  ASSUME NEW S, NEW q \in Seq(S), q # <<>>,
         \A i, j \in 1..Len(q) : q[i] = q[j] => i = j
  PROVE  /\ Tail(q) \in Seq(S)
         /\ \A i, j \in 1..Len(Tail(q)) : Tail(q)[i] = Tail(q)[j] => i = j
         /\ \A x : (\E i \in 1..Len(Tail(q)) : Tail(q)[i] = x)
                    <=> (x # Head(q) /\ \E i \in 1..Len(q) : q[i] = x)
<1>1. /\ Tail(q) \in Seq(S) /\ Len(Tail(q)) = Len(q) - 1 /\ Len(q) \in Nat \ {0}
      /\ \A i \in 1..Len(q) - 1 : Tail(q)[i] = q[i + 1]
      /\ Head(q) = q[1]
  OBVIOUS
<1>2. \A i, j \in 1..Len(Tail(q)) : Tail(q)[i] = Tail(q)[j] => i = j
  BY <1>1
<1>3. ASSUME NEW x, NEW i \in 1..Len(Tail(q)), Tail(q)[i] = x
      PROVE  x # Head(q) /\ \E j \in 1..Len(q) : q[j] = x
  BY <1>1, <1>3
<1>4. ASSUME NEW x, x # Head(q), NEW j \in 1..Len(q), q[j] = x
      PROVE  \E i \in 1..Len(Tail(q)) : Tail(q)[i] = x
  <2>1. j - 1 \in 1..Len(q) - 1 /\ q[j - 1 + 1] = x
    BY <1>1, <1>4
  <2>. QED
    BY <1>1, <2>1
<1>. QED
  BY <1>1, <1>2, <1>3, <1>4

\* Appending a task that is not in the queue adds just that task.
LEMMA AppendDistinct ==
  ASSUME NEW S, NEW q \in Seq(S), NEW t \in S,
         \A i, j \in 1..Len(q) : q[i] = q[j] => i = j,
         ~\E i \in 1..Len(q) : q[i] = t
  PROVE  /\ Append(q, t) \in Seq(S) /\ Append(q, t) # <<>>
         /\ q # <<>> => Head(Append(q, t)) = Head(q)
         /\ \A i, j \in 1..Len(Append(q, t)) : Append(q, t)[i] = Append(q, t)[j] => i = j
         /\ \A x : (\E i \in 1..Len(Append(q, t)) : Append(q, t)[i] = x)
                    <=> (x = t \/ \E i \in 1..Len(q) : q[i] = x)
<1>. DEFINE a == Append(q, t)
<1>1. /\ a \in Seq(S) /\ Len(a) = Len(q) + 1 /\ Len(q) \in Nat
      /\ \A i \in 1..Len(q) : a[i] = q[i]
      /\ a[Len(q) + 1] = t
  OBVIOUS
<1>2. a # <<>> /\ (q # <<>> => Head(a) = Head(q))
  BY <1>1
<1>3. \A i \in 1..Len(a) : i \in 1..Len(q) \/ i = Len(q) + 1
  BY <1>1
<1>. HIDE DEF a
<1>4. \A i, j \in 1..Len(a) : a[i] = a[j] => i = j
  BY <1>1, <1>3
<1>5. \A x : (\E i \in 1..Len(a) : a[i] = x) <=> (x = t \/ \E i \in 1..Len(q) : q[i] = x)
  BY <1>1, <1>3
<1>. QED
  BY <1>1, <1>2, <1>4, <1>5 DEF a

\* What a task does to its own local state.
LEMMA OwnState ==
  ASSUME TypeOK, NEW t \in Task, NEW local, Put(t, local)
  PROVE  /\ task'[t] = local
         /\ \A u \in Task \ {t} : task'[u] = task[u]
         /\ local \in Local => task' \in [Task -> Local]
BY DEF TypeOK, Put

\* A task that changes its own state and stays on its side of the lock.
LEMMA LockUntouched ==
  ASSUME TypeOK, LockKept, NEW t \in Task, NEW local, Put(t, local), UNCHANGED queue,
         local.pc \in Locked <=> task[t].pc \in Locked,
         local.pc \in Inside => Holds(t)
  PROVE  LockKept'
BY OwnState DEF LockKept, Locked, Inside, Holds

\* The holder leaves, and the lock passes to the next in the queue.
LEMMA LockReleased ==
  ASSUME TypeOK, LockKept, NEW t \in Task, Holds(t), Release(t)
  PROVE  LockKept' /\ queue' \in Seq(Task)
<1>1. /\ queue \in Seq(Task) /\ queue # <<>> /\ Head(queue) = t
      /\ queue' = Tail(queue) /\ Put(t, Idle)
  BY DEF TypeOK, Holds, Release
<1>2. \A i, j \in 1..Len(queue) : queue[i] = queue[j] => i = j
  BY DEF LockKept
<1>3. /\ queue' \in Seq(Task)
      /\ \A i, j \in 1..Len(queue') : queue'[i] = queue'[j] => i = j
      /\ \A x : (\E i \in 1..Len(queue') : queue'[i] = x)
                 <=> (x # t /\ \E i \in 1..Len(queue) : queue[i] = x)
  BY <1>1, <1>2, TailDistinct
<1>4. /\ task'[t].pc = "idle"
      /\ \A u \in Task \ {t} : task'[u] = task[u]
  BY <1>1, OwnState DEF Idle
<1>5. \A u \in Task \ {t} : task[u].pc \notin Inside
  BY <1>1 DEF LockKept, Inside, Holds
<1>. QED
  BY <1>3, <1>4, <1>5 DEF LockKept, Inside

\* Only the head of the queue is beyond its second read.
LEMMA OneInside ==
  ASSUME LockKept, NEW t \in Task, Holds(t)
  PROVE  \A u \in Task \ {t} : task[u].pc \notin Inside
BY DEF LockKept, Inside, Holds

-----------------------------------------------------------------------------
(* The tokens. *)

\* A step that issues nothing keeps the pairs apart.
LEMMA PairsKept ==
  ASSUME TypeOK, Issued, Paired, UNCHANGED granted, Held' \subseteq Held \cup {NoTokens}
  PROVE  Issued' /\ Paired'
<1>1. granted \in Nat
  BY TokenRefreshAssumption DEF TypeOK
<1>2. NoTokens.access = 0 /\ NoTokens.refresh = 0
  BY DEF NoTokens, None
<1>3. Issued'
  BY <1>1, <1>2 DEF Issued
<1>4. Paired'
  BY <1>2 DEF Paired
<1>. QED
  BY <1>3, <1>4

\* A grant's access token is new, so it pairs with nothing else.
LEMMA PairsIssued ==
  ASSUME TypeOK, Issued, Paired, granted' = granted + 1,
         NEW p, p.access \in {None, Blank, granted'}, p.refresh \in Int, p.refresh <= granted',
         Held' \subseteq Held \cup {NoTokens, p}
  PROVE  Issued' /\ Paired'
<1>1. granted \in Nat
  BY TokenRefreshAssumption DEF TypeOK
<1>2. NoTokens.access = 0 /\ NoTokens.refresh = 0 /\ None = 0 /\ Blank = -1
  BY DEF NoTokens, None, Blank
<1>3. Held \subseteq Tokens
  BY DEF Held, TypeOK, Local
<1>4. \A q \in Held : q.access \in Int /\ q.refresh \in Int
  BY <1>2, <1>3, TokenRefreshAssumption DEF Tokens
<1>5. Issued'
  <2>1. p.access <= granted'
    BY <1>1, <1>2
  <2>2. \A q \in Held : q.access <= granted' /\ q.refresh <= granted'
    BY <1>1, <1>4 DEF Issued
  <2>. QED
    BY <1>1, <1>2, <2>1, <2>2 DEF Issued
<1>6. ASSUME NEW a \in Held \cup {NoTokens, p}, NEW b \in Held \cup {NoTokens, p},
             a.access = b.access, a.access > 0
      PROVE  a.refresh = b.refresh
  <2>1. \A q \in Held \cup {NoTokens} : q.access # granted'
    BY <1>1, <1>2, <1>4 DEF Issued
  <2>2. CASE a = p \/ b = p
    BY <1>1, <1>2, <1>6, <2>1, <2>2
  <2>3. CASE a # p /\ b # p
    BY <1>2, <1>6, <2>3 DEF Paired
  <2>. QED
    BY <2>2, <2>3
<1>. QED
  BY <1>5, <1>6 DEF Paired

\* A task that changes its own state brings in no tokens but those of that state.
LEMMA HeldByOne ==
  ASSUME TypeOK, NEW t \in Task, NEW local, Put(t, local)
  PROVE  Held' \subseteq Held \cup {row', login', local.creds, local.new}
BY OwnState DEF Held

\* The empty states have their types.
LEMMA Empty == NoTokens \in Tokens /\ Idle \in Local
BY TokenRefreshAssumption DEF NoTokens, None, Blank, Tokens, Idle, Local

\* The types of one task's state, and of what it holds.
LEMMA TaskTyped ==
  ASSUME TypeOK, NEW t \in Task
  PROVE  /\ task[t] \in Local
         /\ task[t].creds \in Tokens /\ task[t].new \in Tokens
         /\ task[t].creds \in Held /\ task[t].new \in Held
         /\ row \in Held /\ login \in Held
         /\ row \in Tokens /\ login \in Tokens
BY DEF TypeOK, Local, Held

-----------------------------------------------------------------------------
(* The steps of a task that neither issue nor store tokens. *)

\* Such a step keeps the invariant if it keeps the lock, takes its tokens from the
\* row or keeps them, and does not let go of a successor that is still good.
LEMMA LocalStep ==
  ASSUME IInv, NEW t \in Task, NEW local \in Local, Put(t, local),
         UNCHANGED <<row, login, granted, live>>,
         lost \subseteq lost', lost' \subseteq 1..MaxGrants,
         LockKept', queue' \in Seq(Task),
         local.creds \in {task[t].creds, row, NoTokens},
         local.new \in {task[t].new, NoTokens},
         local.pc \in Inside => local.creds.refresh # None,
         local.pc \in Carrying => local.new.refresh \in live,
         Carries(t, row.refresh) =>
           \/ row.refresh \in live \cup lost'
           \/ local.pc \in Carrying /\ local.creds = task[t].creds,
         (local.pc = "calling" /\ local.saw = "same" /\ local.creds.access # Blank)
           => local.creds.refresh \in live \cup lost
  PROVE  IInv'
<1>1. /\ task'[t] = local
      /\ \A u \in Task \ {t} : task'[u] = task[u]
      /\ task' \in [Task -> Local]
  BY OwnState DEF IInv
<1>2. TypeOK'
  BY <1>1 DEF IInv, TypeOK
<1>3. Issued' /\ Paired'
  <2>1. Held' \subseteq Held \cup {NoTokens}
    BY HeldByOne, TaskTyped DEF IInv
  <2>. QED
    BY <2>1, PairsKept DEF IInv
<1>4. InHand'
  BY <1>1 DEF IInv, InHand
<1>5. LoginFresh'
  BY <1>1 DEF IInv, LoginFresh, NoTokens
<1>6. StoredIsLive'
  BY <1>1 DEF IInv, StoredIsLive, Carries, Carrying
<1>7. NeverSpendsSpent'
  BY <1>1 DEF IInv, NeverSpendsSpent, At
<1>. QED
  BY <1>2, <1>3, <1>4, <1>5, <1>6, <1>7 DEF IInv

\* Leaving the lock with whatever result, a spent token written off.
LEMMA ReleaseKeeps ==
  ASSUME IInv, NEW t \in Task, Holds(t), Release(t),
         UNCHANGED <<row, login, granted, live>>,
         lost' = lost \/ (task[t].pc \in Carrying /\ lost' = lost \cup Wasted(task[t])),
         task[t].pc \in Carrying => lost' = lost \cup Wasted(task[t])
  PROVE  IInv'
<1>1. Put(t, Idle) /\ LockKept' /\ queue' \in Seq(Task)
  BY LockReleased DEF IInv, Release
<1>2. /\ Idle.creds = NoTokens /\ Idle.new = NoTokens /\ Idle.pc = "idle"
  BY DEF Idle
<1>3. lost \subseteq lost' /\ lost' \subseteq 1..MaxGrants
  <2>1. lost \subseteq 1..MaxGrants
    BY DEF IInv, TypeOK
  <2>2. CASE task[t].pc \in Carrying
    <3>1. task[t].creds.refresh # None /\ task[t].creds.refresh \in 0..MaxGrants
      BY <2>2, TaskTyped DEF IInv, InHand, Inside, Carrying, Tokens
    <3>2. task[t].creds.refresh \in 1..MaxGrants
      BY <3>1, TokenRefreshAssumption DEF None
    <3>. QED
      BY <2>1, <2>2, <3>2 DEF Wasted
  <2>. QED
    BY <2>1, <2>2
<1>4. Carries(t, row.refresh) => row.refresh \in live \cup lost'
  BY DEF IInv, InHand, Carries, Carrying, Wasted
<1>. QED
  BY <1>1, <1>2, <1>3, <1>4, Empty, LocalStep DEF Inside, Carrying

\* The credentials a handler reads are those of the row.
LEMMA LoadKeeps ==
  ASSUME IInv, NEW t \in Task, Load(t)
  PROVE  IInv'
<1>. DEFINE local == [Idle EXCEPT !.pc = "loaded", !.creds = row]
<1>1. local \in Local
  BY Empty, TaskTyped DEF IInv, Local
<1>2. /\ local.pc = "loaded" /\ local.creds = row /\ local.new = NoTokens
      /\ task[t].pc = "idle" /\ Put(t, local)
      /\ UNCHANGED <<row, queue, login, live, granted, lost>>
  BY DEF Load, At, Idle
<1>. HIDE DEF local
<1>3. LockKept' /\ queue' \in Seq(Task)
  BY <1>2, LockUntouched DEF IInv, TypeOK, Locked, Inside
<1>4. ~Carries(t, row.refresh)
  BY <1>2 DEF Carries
<1>5. lost \subseteq lost' /\ lost' \subseteq 1..MaxGrants
  BY <1>2 DEF IInv, TypeOK
<1>. QED
  BY <1>1, <1>2, <1>3, <1>4, <1>5, LocalStep DEF Inside, Carrying

\* A handler that ends before it asks for the lock.
LEMMA DropKeeps ==
  ASSUME IInv, NEW t \in Task, Drop(t)
  PROVE  IInv'
<1>1. /\ Put(t, Idle) /\ task[t].pc = "loaded"
      /\ UNCHANGED <<row, queue, login, live, granted, lost>>
      /\ Idle.pc = "idle" /\ Idle.creds = NoTokens /\ Idle.new = NoTokens
  BY DEF Drop, At, Idle
<1>2. LockKept' /\ queue' \in Seq(Task)
  BY <1>1, LockUntouched DEF IInv, TypeOK, Locked, Inside
<1>3. ~Carries(t, row.refresh)
  BY <1>1 DEF Carries
<1>4. lost \subseteq lost' /\ lost' \subseteq 1..MaxGrants
  BY <1>1 DEF IInv, TypeOK
<1>. QED
  BY <1>1, <1>2, <1>3, <1>4, Empty, LocalStep DEF Inside, Carrying

\* A task queues for the lock.
LEMMA AskKeeps ==
  ASSUME IInv, NEW t \in Task, Ask(t)
  PROVE  IInv'
<1>. DEFINE local == [task[t] EXCEPT !.pc = "waiting"]
<1>1. /\ local \in Local /\ local.pc = "waiting"
      /\ local.creds = task[t].creds /\ local.new = task[t].new
  BY TaskTyped DEF IInv, Local
<1>2. /\ task[t].pc = "loaded" /\ Put(t, local) /\ queue' = Append(queue, t)
      /\ UNCHANGED <<row, login, live, granted, lost>>
  BY DEF Ask, At
<1>. HIDE DEF local
<1>3. LockKept' /\ queue' \in Seq(Task)
  <2>1. /\ queue \in Seq(Task)
        /\ \A i, j \in 1..Len(queue) : queue[i] = queue[j] => i = j
        /\ ~\E i \in 1..Len(queue) : queue[i] = t
    BY <1>2 DEF IInv, TypeOK, LockKept
  <2>2. /\ queue' \in Seq(Task) /\ queue' # <<>>
        /\ queue # <<>> => Head(queue') = Head(queue)
        /\ \A i, j \in 1..Len(queue') : queue'[i] = queue'[j] => i = j
        /\ \A x : (\E i \in 1..Len(queue') : queue'[i] = x)
                   <=> (x = t \/ \E i \in 1..Len(queue) : queue[i] = x)
    BY <1>2, <2>1, AppendDistinct
  <2>3. task'[t] = local /\ \A u \in Task \ {t} : task'[u] = task[u]
    BY <1>2, OwnState DEF IInv
  <2>. QED
    BY <1>1, <2>2, <2>3 DEF IInv, LockKept, Holds
<1>4. ~Carries(t, row.refresh)
  BY <1>2 DEF Carries
<1>5. lost \subseteq lost' /\ lost' \subseteq 1..MaxGrants
  BY <1>2 DEF IInv, TypeOK
<1>. QED
  BY <1>1, <1>2, <1>3, <1>4, <1>5, LocalStep DEF Inside, Carrying

\* Under the lock, a row whose access token has not changed still has the refresh
\* token that was loaded with it, and nobody is spending that.
LEMMA SameIsUnspent ==
  ASSUME IInv, NEW t \in Task, Holds(t), task[t].pc = "waiting",
         row.access = task[t].creds.access, row.access \notin {None, Blank},
         task[t].creds.refresh # None
  PROVE  task[t].creds.refresh \in live \cup lost
<1>1. row.access > 0
  BY TaskTyped, TokenRefreshAssumption DEF IInv, Tokens, None, Blank
<1>2. row.refresh = task[t].creds.refresh
  BY <1>1, TaskTyped DEF IInv, Paired
<1>3. \A u \in Task : task[u].pc \notin Inside
  BY OneInside DEF IInv, Inside
<1>. QED
  BY <1>2, <1>3 DEF IInv, StoredIsLive, Carries, Inside

\* The second read of the row.
LEMMA RereadKeeps ==
  ASSUME IInv, NEW t \in Task, Reread(t)
  PROVE  IInv'
<1>1. /\ Holds(t) /\ task[t].pc = "waiting"
      /\ UNCHANGED <<row, login, live, granted, lost>>
  BY DEF Reread, At
<1>2. CASE Release(t)
  BY <1>1, <1>2, ReleaseKeeps DEF Carrying
<1>3. ASSUME NEW saw \in {"same", "empty", "unreadable"},
             saw = "same" => row.access = task[t].creds.access /\ row.access # None,
             task[t].creds.refresh # None,
             Put(t, [task[t] EXCEPT !.pc = "calling", !.saw = saw]), UNCHANGED queue
      PROVE  IInv'
  <2>. DEFINE local == [task[t] EXCEPT !.pc = "calling", !.saw = saw]
  <2>1. /\ local \in Local /\ local.pc = "calling" /\ local.saw = saw
        /\ local.creds = task[t].creds /\ local.new = task[t].new
    BY TaskTyped DEF IInv, Local
  <2>2. Put(t, local)
    BY <1>3
  <2>. HIDE DEF local
  <2>3. LockKept' /\ queue' \in Seq(Task)
    BY <1>1, <1>3, <2>1, <2>2, LockUntouched DEF IInv, TypeOK, Locked, Inside
  <2>4. (saw = "same" /\ local.creds.access # Blank) => local.creds.refresh \in live \cup lost
    BY <1>1, <1>3, <2>1, SameIsUnspent
  <2>5. ~Carries(t, row.refresh)
    BY <1>1 DEF Carries
  <2>6. lost \subseteq lost' /\ lost' \subseteq 1..MaxGrants
    BY <1>1 DEF IInv, TypeOK
  <2>. QED
    BY <1>1, <1>3, <2>1, <2>2, <2>3, <2>4, <2>5, <2>6, LocalStep DEF Inside, Carrying
<1>. QED
  BY <1>1, <1>2, <1>3 DEF Reread

\* invalid_grant, or a call that failed before the token was spent.
LEMMA RefuseKeeps ==
  ASSUME IInv, NEW t \in Task, Refuse(t)
  PROVE  IInv'
<1>1. /\ task[t].pc = "calling" /\ Release(t)
      /\ UNCHANGED <<row, login, live, granted, lost>>
  BY DEF Refuse, At
<1>2. Holds(t)
  BY <1>1 DEF IInv, LockKept
<1>. QED
  BY <1>1, <1>2, ReleaseKeeps DEF Carrying

\* The answer to a refresh arrives, or does not.
LEMMA AnswerKeeps ==
  ASSUME IInv, NEW t \in Task, Answer(t)
  PROVE  IInv'
<1>1. /\ task[t].pc = "granted" /\ UNCHANGED <<row, login, live, granted>>
  BY DEF Answer, At
<1>2. Holds(t)
  BY <1>1 DEF IInv, LockKept
<1>3. CASE Release(t) /\ lost' = lost \cup Wasted(task[t])
  BY <1>1, <1>2, <1>3, ReleaseKeeps DEF Carrying
<1>4. CASE Put(t, [task[t] EXCEPT !.pc = "persisting"]) /\ UNCHANGED <<queue, lost>>
  <2>. DEFINE local == [task[t] EXCEPT !.pc = "persisting"]
  <2>1. /\ local \in Local /\ local.pc = "persisting"
        /\ local.creds = task[t].creds /\ local.new = task[t].new
    BY TaskTyped DEF IInv, Local
  <2>2. Put(t, local)
    BY <1>4
  <2>. HIDE DEF local
  <2>3. LockKept' /\ queue' \in Seq(Task)
    BY <1>1, <1>2, <1>4, <2>1, <2>2, LockUntouched DEF IInv, TypeOK, Locked, Inside
  <2>4. local.creds.refresh # None /\ local.new.refresh \in live
    BY <1>1, <2>1 DEF IInv, InHand, Inside, Carrying
  <2>5. lost \subseteq lost' /\ lost' \subseteq 1..MaxGrants
    BY <1>4 DEF IInv, TypeOK
  <2>. QED
    BY <1>1, <2>1, <2>2, <2>3, <2>4, <2>5, LocalStep DEF Carrying
<1>. QED
  BY <1>3, <1>4 DEF Answer

\* A write that fails is tried again, or given up.
LEMMA PersistFailsKeeps ==
  ASSUME IInv, NEW t \in Task, PersistFails(t)
  PROVE  IInv'
<1>1. /\ task[t].pc = "persisting" /\ UNCHANGED <<row, login, live, granted>>
  BY DEF PersistFails, At
<1>2. Holds(t)
  BY <1>1 DEF IInv, LockKept
<1>3. CASE Release(t) /\ lost' = lost \cup Wasted(task[t])
  BY <1>1, <1>2, <1>3, ReleaseKeeps DEF Carrying
<1>4. CASE /\ task[t].attempts < PersistRetries
           /\ Put(t, [task[t] EXCEPT !.attempts = @ + 1]) /\ UNCHANGED <<queue, lost>>
  <2>. DEFINE local == [task[t] EXCEPT !.attempts = @ + 1]
  <2>1. task[t].attempts \in 0..PersistRetries
    BY TaskTyped DEF IInv, Local
  <2>2. task[t].attempts + 1 \in 0..PersistRetries
    BY <1>4, <2>1, TokenRefreshAssumption
  <2>3. /\ local \in Local /\ local.pc = "persisting"
        /\ local.creds = task[t].creds /\ local.new = task[t].new
    BY <1>1, <2>2, TaskTyped DEF IInv, Local
  <2>4. Put(t, local)
    BY <1>4
  <2>. HIDE DEF local
  <2>5. LockKept' /\ queue' \in Seq(Task)
    BY <1>1, <1>2, <1>4, <2>3, <2>4, LockUntouched DEF IInv, TypeOK, Locked, Inside
  <2>6. local.creds.refresh # None /\ local.new.refresh \in live
    BY <1>1, <2>3 DEF IInv, InHand, Inside, Carrying
  <2>7. lost \subseteq lost' /\ lost' \subseteq 1..MaxGrants
    BY <1>4 DEF IInv, TypeOK
  <2>. QED
    BY <1>1, <2>3, <2>4, <2>5, <2>6, <2>7, LocalStep DEF Carrying
<1>. QED
  BY <1>3, <1>4 DEF PersistFails

-----------------------------------------------------------------------------
(* The steps that issue or store tokens. *)

\* A refresh token is exchanged for a new pair.
LEMMA GrantKeeps ==
  ASSUME IInv, NEW t \in Task, Grant(t)
  PROVE  IInv'
<1>. DEFINE c == task[t].creds.refresh
<1>1. PICK access \in {Blank, granted'}, refresh \in {c, granted'} :
        /\ Put(t, [task[t] EXCEPT !.pc = "granted",
                                  !.new = [access |-> access, refresh |-> refresh]])
        /\ live' = (live \ {c}) \cup {refresh}
  BY DEF Grant
<1>. DEFINE new == [access |-> access, refresh |-> refresh]
            local == [task[t] EXCEPT !.pc = "granted", !.new = new]
<1>2. /\ task[t].pc = "calling" /\ c \in live /\ granted' = granted + 1 /\ granted < MaxGrants
      /\ UNCHANGED <<row, queue, login, lost>>
  BY DEF Grant, At
<1>3. /\ granted \in Nat /\ granted' \in 1..MaxGrants /\ live \subseteq 1..MaxGrants
      /\ c \in 1..MaxGrants /\ c <= granted
  <2>1. granted \in 0..MaxGrants /\ live \subseteq 1..MaxGrants
    BY DEF IInv, TypeOK
  <2>2. granted \in Nat /\ granted' \in 1..MaxGrants
    BY <1>2, <2>1, TokenRefreshAssumption
  <2>3. c <= granted
    BY TaskTyped DEF IInv, Issued
  <2>. HIDE DEF c
  <2>. QED
    BY <1>2, <2>1, <2>2, <2>3
<1>4. new \in Tokens /\ refresh \in 1..MaxGrants
  BY <1>3, TokenRefreshAssumption DEF Tokens
<1>5. /\ local \in Local /\ local.pc = "granted"
      /\ local.creds = task[t].creds /\ local.new = new
  BY <1>4, TaskTyped DEF IInv, Local
<1>6. Put(t, local)
  BY <1>1
<1>7. Holds(t) /\ \A u \in Task \ {t} : task[u].pc \notin Inside
  BY <1>2, OneInside DEF IInv, LockKept
<1>8. /\ new.access \in {None, Blank, granted'} /\ new.refresh \in Int
      /\ new.refresh <= granted' /\ new.refresh = refresh
  <2>1. new.access = access /\ new.refresh = refresh
    OBVIOUS
  <2>. HIDE DEF new, c
  <2>2. c <= granted'
    BY <1>2, <1>3
  <2>3. refresh \in Int /\ refresh <= granted'
    BY <1>3, <2>2
  <2>. QED
    BY <2>1, <2>3
<1>. HIDE DEF local, new
<1>9. /\ task'[t] = local
      /\ \A u \in Task \ {t} : task'[u] = task[u]
      /\ task' \in [Task -> Local]
  BY <1>5, <1>6, OwnState DEF IInv
<1>10. TypeOK'
  BY <1>1, <1>2, <1>3, <1>4, <1>9 DEF IInv, TypeOK
<1>11. LockKept'
  BY <1>2, <1>5, <1>6, <1>7, LockUntouched DEF IInv, Locked
<1>12. Issued' /\ Paired'
  <2>1. Held' \subseteq Held \cup {NoTokens, new}
    BY <1>2, <1>5, <1>6, HeldByOne, TaskTyped DEF IInv
  <2>. QED
    BY <1>2, <1>8, <2>1, PairsIssued DEF IInv
<1>13. InHand'
  <2>1. local.creds.refresh # None /\ local.new.refresh \in live'
    BY <1>1, <1>2, <1>5, <1>8 DEF IInv, InHand, Inside
  <2>. QED
    BY <1>7, <1>9, <2>1 DEF IInv, InHand, Carrying, Inside
<1>14. LoginFresh'
  <2>1. login.refresh <= granted /\ login.refresh \in Int
    BY TaskTyped, TokenRefreshAssumption DEF IInv, Issued, Tokens
  <2>2. login.refresh # granted'
    BY <1>2, <1>3, <2>1
  <2>3. login.refresh # None => refresh # login.refresh /\ c # login.refresh
    BY <1>1, <2>2 DEF IInv, LoginFresh
  <2>. QED
    BY <1>1, <1>2, <1>5, <1>8, <1>9, <2>3 DEF IInv, LoginFresh
<1>15. StoredIsLive'
  BY <1>1, <1>2, <1>5, <1>7, <1>9 DEF IInv, StoredIsLive, Carries, Inside
<1>16. NeverSpendsSpent'
  BY <1>5, <1>7, <1>9 DEF IInv, NeverSpendsSpent, At, Inside
<1>. QED
  BY <1>10, <1>11, <1>12, <1>13, <1>14, <1>15, <1>16 DEF IInv

\* The new pair is stored, whatever the row holds.
LEMMA PersistKeeps ==
  ASSUME IInv, NEW t \in Task, Persist(t)
  PROVE  IInv'
<1>1. /\ task[t].pc = "persisting" /\ row' = task[t].new /\ Release(t)
      /\ UNCHANGED <<login, live, granted, lost>>
  BY DEF Persist, At
<1>2. Holds(t) /\ \A u \in Task \ {t} : task[u].pc \notin Inside
  BY <1>1, OneInside DEF IInv, LockKept
<1>3. LockKept' /\ queue' \in Seq(Task) /\ Put(t, Idle)
  BY <1>1, <1>2, LockReleased DEF IInv, Release
<1>4. /\ task'[t] = Idle
      /\ \A u \in Task \ {t} : task'[u] = task[u]
      /\ task' \in [Task -> Local]
  BY <1>3, Empty, OwnState DEF IInv
<1>5. Idle.pc = "idle" /\ Idle.creds = NoTokens /\ Idle.new = NoTokens
  BY DEF Idle
<1>6. row'.refresh \in live
  BY <1>1 DEF IInv, InHand, Carrying
<1>7. TypeOK'
  BY <1>1, <1>3, <1>4, TaskTyped DEF IInv, TypeOK
<1>8. Issued' /\ Paired'
  <2>1. Held' \subseteq Held \cup {NoTokens}
    BY <1>1, <1>3, <1>5, HeldByOne, TaskTyped DEF IInv
  <2>. QED
    BY <1>1, <2>1, PairsKept DEF IInv
<1>9. InHand'
  BY <1>1, <1>4, <1>5 DEF IInv, InHand, Inside, Carrying
<1>10. LoginFresh'
  BY <1>1, <1>4, <1>5 DEF IInv, LoginFresh, NoTokens
<1>11. StoredIsLive'
  BY <1>1, <1>6 DEF StoredIsLive
<1>12. NeverSpendsSpent'
  BY <1>1, <1>4, <1>5 DEF IInv, NeverSpendsSpent, At
<1>. QED
  BY <1>3, <1>7, <1>8, <1>9, <1>10, <1>11, <1>12 DEF IInv

\* A login's exchange issues a pair that nobody else holds.
LEMMA ExchangeKeeps ==
  ASSUME IInv, Exchange
  PROVE  IInv'
<1>1. PICK refresh \in {None, granted'} :
        /\ login' = [access |-> granted', refresh |-> refresh]
        /\ live' = live \cup ({refresh} \ {None})
  BY DEF Exchange
<1>2. /\ granted < MaxGrants /\ granted' = granted + 1 /\ login = NoTokens
      /\ UNCHANGED <<row, queue, task, lost>>
  BY DEF Exchange
<1>3. granted \in 0..MaxGrants /\ live \subseteq 1..MaxGrants
  BY DEF IInv, TypeOK
<1>4. granted \in Nat /\ granted' \in 1..MaxGrants /\ None = 0
  BY <1>2, <1>3, TokenRefreshAssumption DEF None
<1>5. /\ login'.access = granted' /\ login'.refresh = refresh
      /\ login'.refresh \in 0..MaxGrants /\ login'.refresh <= granted'
  BY <1>1, <1>4, TokenRefreshAssumption
<1>6. login' \in Tokens
  BY <1>1, <1>4, <1>5, TokenRefreshAssumption DEF Tokens
<1>7. TypeOK'
  BY <1>1, <1>2, <1>3, <1>4, <1>6 DEF IInv, TypeOK
<1>8. LockKept'
  BY <1>2 DEF IInv, LockKept, Holds
<1>9. Issued' /\ Paired'
  <2>1. Held' \subseteq Held \cup {NoTokens, login'}
    BY <1>2 DEF Held
  <2>2. login'.refresh \in Int
    BY <1>5, TokenRefreshAssumption
  <2>. QED
    BY <1>2, <1>5, <2>1, <2>2, PairsIssued DEF IInv
<1>10. InHand'
  BY <1>1, <1>2 DEF IInv, InHand
<1>11. LoginFresh'
  <2>1. SUFFICES ASSUME login'.refresh # None PROVE LoginFresh'
    BY DEF LoginFresh
  <2>2. login'.refresh = granted' /\ login'.refresh \in live'
    BY <1>1, <1>5, <2>1
  <2>3. \A p \in Held : p \in Tokens
    BY DEF IInv, TypeOK, Held, Local
  <2>4. \A p \in Held : p.refresh \in Int /\ p.refresh <= granted
    BY <2>3, TokenRefreshAssumption DEF IInv, Issued, Tokens
  <2>5. \A p \in Held : p.refresh # granted'
    BY <1>2, <1>4, <2>4
  <2>. QED
    BY <1>2, <2>2, <2>5 DEF LoginFresh, Held
<1>12. StoredIsLive'
  BY <1>1, <1>2 DEF IInv, StoredIsLive, Carries
<1>13. NeverSpendsSpent'
  BY <1>1, <1>2 DEF IInv, NeverSpendsSpent, At
<1>. QED
  BY <1>7, <1>8, <1>9, <1>10, <1>11, <1>12, <1>13 DEF IInv

\* A step that only changes the row and the login keeps the lock.
LEMMA LockElsewhere ==
  ASSUME LockKept, UNCHANGED <<queue, task>>
  PROVE  LockKept'
BY DEF LockKept, Holds

\* A login replaces the row, or fails to.
LEMMA StoreLoginKeeps ==
  ASSUME IInv, StoreLogin
  PROVE  IInv'
<1>1. /\ login' = NoTokens /\ row' \in {row, login}
      /\ UNCHANGED <<queue, task, live, granted, lost>>
  BY DEF StoreLogin
<1>2. TypeOK'
  BY <1>1, Empty DEF IInv, TypeOK
<1>3. LockKept'
  BY <1>1, LockElsewhere DEF IInv
<1>4. Issued' /\ Paired'
  <2>1. Held' \subseteq Held \cup {NoTokens}
    BY <1>1 DEF Held
  <2>. QED
    BY <1>1, <2>1, PairsKept DEF IInv
<1>5. InHand'
  BY <1>1 DEF IInv, InHand
<1>6. LoginFresh'
  BY <1>1 DEF LoginFresh, NoTokens
<1>7. StoredIsLive'
  BY <1>1 DEF IInv, StoredIsLive, Carries, LoginFresh
<1>8. NeverSpendsSpent'
  BY <1>1 DEF IInv, NeverSpendsSpent, At
<1>. QED
  BY <1>2, <1>3, <1>4, <1>5, <1>6, <1>7, <1>8 DEF IInv

\* The row is deleted, whoever is refreshing it.
LEMMA DisconnectKeeps ==
  ASSUME IInv, Disconnect
  PROVE  IInv'
<1>1. row' = NoTokens /\ UNCHANGED <<queue, task, login, live, granted, lost>>
  BY DEF Disconnect
<1>2. TypeOK'
  BY <1>1, Empty DEF IInv, TypeOK
<1>3. LockKept'
  BY <1>1, LockElsewhere DEF IInv
<1>4. Issued' /\ Paired'
  <2>1. Held' \subseteq Held \cup {NoTokens}
    BY <1>1 DEF Held
  <2>. QED
    BY <1>1, <2>1, PairsKept DEF IInv
<1>5. InHand'
  BY <1>1 DEF IInv, InHand
<1>6. LoginFresh'
  BY <1>1 DEF IInv, LoginFresh, NoTokens
<1>7. StoredIsLive'
  BY <1>1 DEF StoredIsLive, NoTokens
<1>8. NeverSpendsSpent'
  BY <1>1 DEF IInv, NeverSpendsSpent, At
<1>. QED
  BY <1>2, <1>3, <1>4, <1>5, <1>6, <1>7, <1>8 DEF IInv

\* The process stops and comes back.
LEMMA CrashKeeps ==
  ASSUME IInv, Crash
  PROVE  IInv'
<1>. DEFINE carriers == {u \in Task : task[u].pc \in Carrying}
<1>1. PICK reached \in SUBSET {t \in Task : At(t, "calling") /\ task[t].creds.refresh \in live} :
        /\ live' = live \ {task[t].creds.refresh : t \in reached}
        /\ lost' = lost \cup {task[t].creds.refresh : t \in reached} \cup
                     UNION {Wasted(task[t]) : t \in carriers}
  BY DEF Crash, Carrying
<1>2. /\ task' = [t \in Task |-> Idle] /\ queue' = <<>> /\ login' = NoTokens
      /\ UNCHANGED <<row, granted>>
  BY DEF Crash
<1>3. /\ Idle.pc = "idle" /\ Idle.creds = NoTokens /\ Idle.new = NoTokens
      /\ Idle.saw = "nothing"
  BY DEF Idle
<1>4. live \subseteq 1..MaxGrants /\ lost \subseteq 1..MaxGrants
  BY DEF IInv, TypeOK
<1>5. lost' \subseteq 1..MaxGrants
  <2>1. {task[t].creds.refresh : t \in reached} \subseteq live
    OBVIOUS
  <2>2. \A t \in carriers : Wasted(task[t]) \subseteq 1..MaxGrants
    <3>1. SUFFICES ASSUME NEW t \in carriers PROVE task[t].creds.refresh \in 1..MaxGrants
      BY DEF Wasted
    <3>2. task[t].creds.refresh # None /\ task[t].creds.refresh \in 0..MaxGrants
      BY TaskTyped DEF IInv, InHand, Inside, Carrying, Tokens
    <3>. QED
      BY <3>2, TokenRefreshAssumption DEF None
  <2>. HIDE DEF carriers
  <2>. QED
    BY <1>1, <1>4, <2>1, <2>2
<1>6. TypeOK'
  <2>1. task' \in [Task -> Local] /\ queue' \in Seq(Task) /\ login' \in Tokens
    BY <1>2, Empty
  <2>2. live' \subseteq 1..MaxGrants
    BY <1>1, <1>4
  <2>. QED
    BY <1>2, <1>5, <2>1, <2>2 DEF IInv, TypeOK
<1>7. LockKept'
  <2>1. queue' = <<>> /\ \A t \in Task : task'[t].pc = "idle"
    BY <1>2, <1>3
  <2>2. ~\E i \in 1..Len(queue') : TRUE
    BY <2>1
  <2>. QED
    BY <2>1, <2>2 DEF LockKept
<1>8. Issued' /\ Paired'
  <2>1. Held' \subseteq Held \cup {NoTokens}
    BY <1>2, <1>3 DEF Held
  <2>. QED
    BY <1>2, <2>1, PairsKept DEF IInv
<1>9. InHand'
  BY <1>2, <1>3 DEF InHand, Inside, Carrying
<1>10. LoginFresh'
  BY <1>2 DEF LoginFresh, NoTokens
<1>11. StoredIsLive'
  <2>1. SUFFICES ASSUME row.refresh # None PROVE row.refresh \in live' \cup lost'
    BY <1>2 DEF StoredIsLive
  <2>2. CASE row.refresh \in live \cup lost
    BY <1>1, <2>2
  <2>3. CASE row.refresh \notin live \cup lost
    <3>1. PICK t \in carriers : task[t].creds.refresh = row.refresh
      BY <2>1, <2>3 DEF IInv, StoredIsLive, Carries, Carrying
    <3>2. row.refresh \in Wasted(task[t])
      BY <2>3, <3>1 DEF IInv, InHand, Wasted
    <3>. QED
      BY <1>1, <3>2
  <2>. QED
    BY <2>2, <2>3
<1>12. NeverSpendsSpent'
  BY <1>2, <1>3 DEF NeverSpendsSpent, At
<1>. QED
  BY <1>6, <1>7, <1>8, <1>9, <1>10, <1>11, <1>12 DEF IInv

-----------------------------------------------------------------------------
(* The invariant is inductive. *)

LEMMA InitIInv == Init => IInv
<1>. SUFFICES ASSUME Init PROVE IInv
  OBVIOUS
<1>1. /\ row = NoTokens /\ queue = <<>> /\ task = [t \in Task |-> Idle]
      /\ login = NoTokens /\ live = {} /\ granted = 0 /\ lost = {}
  BY DEF Init
<1>2. /\ Idle.pc = "idle" /\ Idle.creds = NoTokens /\ Idle.new = NoTokens
      /\ NoTokens.access = 0 /\ NoTokens.refresh = 0 /\ None = 0
  BY DEF Idle, NoTokens, None
<1>3. TypeOK
  BY <1>1, Empty, TokenRefreshAssumption DEF TypeOK
<1>4. LockKept
  <2>1. ~\E i \in 1..Len(queue) : TRUE
    BY <1>1
  <2>. QED
    BY <1>1, <1>2, <2>1 DEF LockKept
<1>5. Held \subseteq {NoTokens}
  BY <1>1, <1>2 DEF Held
<1>6. Issued /\ Paired
  BY <1>1, <1>2, <1>5 DEF Issued, Paired
<1>7. InHand /\ LoginFresh /\ StoredIsLive /\ NeverSpendsSpent
  BY <1>1, <1>2 DEF InHand, LoginFresh, StoredIsLive, NeverSpendsSpent, At, Inside, Carrying
<1>. QED
  BY <1>3, <1>4, <1>6, <1>7 DEF IInv

LEMMA StutterKeeps ==
  ASSUME IInv, UNCHANGED vars
  PROVE  IInv'
<1>. USE DEF IInv, vars
<1>1. TypeOK'
  BY DEF TypeOK
<1>2. LockKept'
  BY LockElsewhere
<1>3. Issued' /\ Paired' /\ InHand' /\ LoginFresh'
  BY DEF Issued, Paired, Held, InHand, LoginFresh
<1>4. StoredIsLive' /\ NeverSpendsSpent'
  BY DEF StoredIsLive, Carries, NeverSpendsSpent, At
<1>. QED
  BY <1>1, <1>2, <1>3, <1>4

LEMMA NextKeeps == IInv /\ [Next]_vars => IInv'
<1>. SUFFICES ASSUME IInv, [Next]_vars PROVE IInv'
  OBVIOUS
<1>1. ASSUME NEW t \in Task, Load(t) \/ Proceed(t) PROVE IInv'
  BY <1>1, LoadKeeps, DropKeeps, AskKeeps, RereadKeeps, GrantKeeps, RefuseKeeps,
     AnswerKeeps, PersistKeeps, PersistFailsKeeps DEF Proceed
<1>2. CASE Exchange
  BY <1>2, ExchangeKeeps
<1>3. CASE StoreLogin
  BY <1>3, StoreLoginKeeps
<1>4. CASE Disconnect
  BY <1>4, DisconnectKeeps
<1>5. CASE Crash
  BY <1>5, CrashKeeps
<1>6. CASE UNCHANGED vars
  BY <1>6, StutterKeeps
<1>. QED
  BY <1>1, <1>2, <1>3, <1>4, <1>5, <1>6 DEF Next

(* Every reachable state of the token store and its tasks satisfies the      *)
(* inductive invariant.                                                     *)
THEOREM Invariance == Spec => []IInv
<1>. QED
  BY InitIInv, NextKeeps, PTL DEF Spec

(* Type correctness: attempts never pass PERSIST_RETRIES and no token is     *)
(* newer than the grants issued.                                            *)
THEOREM Typed == Spec => []TypeOK
<1>1. IInv => TypeOK
  BY DEF IInv
<1>. QED
  BY <1>1, Invariance, PTL

(* refresh_lock.rs: one task at a time is beyond the second read, and those  *)
(* waiting are in the queue once each, for any number of requests.          *)
THEOREM LockIsKept == Spec => []LockKept
<1>1. IInv => LockKept
  BY DEF IInv
<1>. QED
  BY <1>1, Invariance, PTL

(* refresh_and_persist: the refresh token in provider_oauth_state is good,   *)
(* being replaced by the task under the lock, or lost with its successor.   *)
THEOREM StoredStaysLive == Spec => []StoredIsLive
<1>1. IInv => StoredIsLive
  BY DEF IInv
<1>. QED
  BY <1>1, Invariance, PTL

(* refresh_and_persist: a task that found its access token unchanged under   *)
(* the lock never spends a refresh token that another has spent.            *)
THEOREM NoDoubleSpend == Spec => []NeverSpendsSpent
<1>1. IInv => NeverSpendsSpent
  BY DEF IInv
<1>. QED
  BY <1>1, Invariance, PTL

=============================================================================
