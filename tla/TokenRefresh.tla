----------------------------- MODULE TokenRefresh -----------------------------
(***************************************************************************)
(* One Codex account's OAuth tokens, and the tasks that rotate them        *)
(* (providers/refresh_lock.rs, providers/refresh_task.rs): requests that   *)
(* met a 401, the background refresh, the admin's logins and disconnects,  *)
(* and the authorization server, where a refresh token is good only once.  *)
(*                                                                         *)
(* A token is the number of the grant that issued it.  Whether an access   *)
(* token has expired is left open: any call may be answered with a 401,    *)
(* and needs_refresh may say yes at any time.                              *)
(***************************************************************************)
EXTENDS Integers, Sequences

CONSTANTS
  Req,             \* request slots: a slot is taken until its task has ended
  Background,      \* the background refresh, which runs one refresh at a time
  PersistRetries,  \* 3: further attempts after a failed write
  MaxGrants        \* bound: the grants the authorization server issues

ASSUME TokenRefreshAssumption ==
  /\ Background \notin Req
  /\ PersistRetries \in Nat
  /\ MaxGrants \in Nat

Task == Req \cup {Background}

VARIABLES
  row,      \* the tokens in provider_oauth_state
  queue,    \* the provider's refresh lock, a fair mutex: its head holds it
  task,     \* the local state of each task
  login,    \* tokens a login has exchanged its code for and not yet stored
  live,     \* external: the refresh tokens the authorization server honours
  granted,  \* external: the grants it has issued
  lost      \* history: refresh tokens spent for a successor that never got here

vars == <<row, queue, task, login, live, granted, lost>>

-----------------------------------------------------------------------------
(* NULL columns, or no row.  An answer without an access token is stored as *)
(* an empty string, which is_some() counts as a token.                      *)

None == 0

Blank == -1

Tokens == [access : {Blank} \cup 0..MaxGrants, refresh : 0..MaxGrants]

NoTokens == [access |-> None, refresh |-> None]

\*   creds     the credentials the handler read before it knew of any lock
\*   new       the answer to its refresh, not yet written
\*   attempts  failed writes
\*   saw       history: what the second read of the row found
Local ==
  [pc : {"idle", "loaded", "waiting", "calling", "granted", "persisting"},
   creds : Tokens, new : Tokens, attempts : 0..PersistRetries,
   saw : {"nothing", "same", "empty", "unreadable"}]

Idle ==
  [pc |-> "idle", creds |-> NoTokens, new |-> NoTokens, attempts |-> 0, saw |-> "nothing"]

At(t, place) == task[t].pc = place

Put(t, local) == task' = [task EXCEPT ![t] = local]

\* The critical section ends, with whatever result, and the lock is handed on.
Release(t) ==
  /\ Put(t, Idle)
  /\ queue' = Tail(queue)

\* The token that `local` has spent without keeping its successor.
Wasted(local) ==
  IF local.new.refresh = local.creds.refresh THEN {} ELSE {local.creds.refresh}

-----------------------------------------------------------------------------
(* Up to the lock. *)

\* credentials_for: a request whose provider is_ready.  The background task
\* also takes up a row that a login in progress left without tokens.
Load(t) ==
  /\ At(t, "idle")
  /\ t = Background \/ row # NoTokens
  /\ Put(t, [Idle EXCEPT !.pc = "loaded", !.creds = row])
  /\ UNCHANGED <<row, queue, login, live, granted, lost>>

\* Fault model: the refresh runs in the request's own future.
Drop_Inline(t) ==
  /\ ~At(t, "idle")
  /\ Put(t, Idle)
  /\ queue' = SelectSeq(queue, LAMBDA x : x # t)
  /\ UNCHANGED <<row, login, live, granted, lost>>

\* The request is answered without a 401, or its client leaves, or nothing is
\* due.  From the lock onwards a client that leaves drops only the handler.
Drop(t) ==
  /\ At(t, "loaded")
  /\ Put(t, Idle)
  /\ UNCHANGED <<row, queue, login, live, granted, lost>>

\* A 401 and a refresh token to spend, or a background refresh that is due.
Ask(t) ==
  /\ At(t, "loaded")
  /\ t = Background \/ task[t].creds.refresh # None
  /\ Put(t, [task[t] EXCEPT !.pc = "waiting"])
  /\ queue' = Append(queue, t)
  /\ UNCHANGED <<row, login, live, granted, lost>>

-----------------------------------------------------------------------------
(* Under the lock: refresh_and_persist. *)

Holds(t) == queue # <<>> /\ Head(queue) = t

\* Fault model: the row is not read again.
Reread_Skipped(t) ==
  /\ Holds(t) /\ At(t, "waiting")
  /\ Put(t, [task[t] EXCEPT !.pc = "calling", !.saw = "same"])
  /\ UNCHANGED <<row, queue, login, live, granted, lost>>

\* Fault model: the row is read again before the lock is held.
Reread_Unlocked(t) ==
  /\ At(t, "waiting")
  /\ row.access = task[t].creds.access
  /\ Put(t, [task[t] EXCEPT !.pc = "calling", !.saw = "same"])
  /\ UNCHANGED <<row, queue, login, live, granted, lost>>

\* The row is read again: tokens that somebody else has stored meanwhile are the
\* result; otherwise, or if it cannot be read, the loaded token is spent, and
\* without one the result is InvalidGrant.
Reread(t) ==
  /\ Holds(t) /\ At(t, "waiting")
  /\ \E saw \in {IF row.access = None THEN "empty"
                 ELSE IF row.access = task[t].creds.access THEN "same" ELSE "newer",
                 "unreadable"} :
       IF saw = "newer" \/ task[t].creds.refresh = None
       THEN Release(t)
       ELSE /\ Put(t, [task[t] EXCEPT !.pc = "calling", !.saw = saw])
            /\ UNCHANGED queue
  /\ UNCHANGED <<row, login, live, granted, lost>>

\* The authorization server honours the token: it rotates it, or issues an
\* access token only; refresh_credentials keeps the old one then.
Grant(t) ==
  /\ At(t, "calling")
  /\ task[t].creds.refresh \in live
  /\ granted < MaxGrants
  /\ granted' = granted + 1
  /\ \E access \in {Blank, granted'}, refresh \in {task[t].creds.refresh, granted'} :
       /\ Put(t, [task[t] EXCEPT !.pc = "granted",
                                 !.new = [access |-> access, refresh |-> refresh]])
       /\ live' = (live \ {task[t].creds.refresh}) \cup {refresh}
  /\ UNCHANGED <<row, queue, login, lost>>

\* invalid_grant, or the call fails before the token is spent.
Refuse(t) ==
  /\ At(t, "calling")
  /\ Release(t)
  /\ UNCHANGED <<row, login, live, granted, lost>>

\* The answer arrives; or it never does, or cannot be parsed.
Answer(t) ==
  /\ At(t, "granted")
  /\ \/ /\ Put(t, [task[t] EXCEPT !.pc = "persisting"])
        /\ UNCHANGED <<queue, lost>>
     \/ /\ Release(t)
        /\ lost' = lost \cup Wasted(task[t])
  /\ UNCHANGED <<row, login, live, granted>>

\* upsert_oauth_tokens succeeds: whatever the row holds now is replaced.
Persist(t) ==
  /\ At(t, "persisting")
  /\ row' = task[t].new
  /\ Release(t)
  /\ UNCHANGED <<login, live, granted, lost>>

\* Fault model: the count of failed writes starts over instead of ending the loop.
PersistFails_Forever(t) ==
  /\ At(t, "persisting")
  /\ Put(t, [task[t] EXCEPT !.attempts = (@ + 1) % (PersistRetries + 1)])
  /\ UNCHANGED <<row, queue, login, live, granted, lost>>

\* Fault model: attempt <= PERSIST_RETRIES.
PersistFails_OnceMore(t) ==
  /\ At(t, "persisting")
  /\ IF task[t].attempts <= PersistRetries
     THEN Put(t, [task[t] EXCEPT !.attempts = @ + 1]) /\ UNCHANGED <<queue, lost>>
     ELSE Release(t) /\ lost' = lost \cup Wasted(task[t])
  /\ UNCHANGED <<row, login, live, granted>>

\* upsert_oauth_tokens fails: the lock is kept for another try, a few times.
PersistFails(t) ==
  /\ At(t, "persisting")
  /\ IF task[t].attempts < PersistRetries
     THEN Put(t, [task[t] EXCEPT !.attempts = @ + 1]) /\ UNCHANGED <<queue, lost>>
     ELSE Release(t) /\ lost' = lost \cup Wasted(task[t])
  /\ UNCHANGED <<row, login, live, granted>>

-----------------------------------------------------------------------------
(* Those who do not take the lock. *)

\* A browser or device login exchanges its code; a refresh token is optional.
Exchange ==
  /\ login = NoTokens
  /\ granted < MaxGrants
  /\ granted' = granted + 1
  /\ \E refresh \in {None, granted'} :
       /\ login' = [access |-> granted', refresh |-> refresh]
       /\ live' = live \cup ({refresh} \ {None})
  /\ UNCHANGED <<row, queue, task, lost>>

\* store_codex_tokens; or the write fails, or the admin's request is dropped.
StoreLogin ==
  /\ login # NoTokens
  /\ login' = NoTokens
  /\ row' \in {row, login}
  /\ UNCHANGED <<queue, task, live, granted, lost>>

\* disconnect_oauth: the row is deleted.
Disconnect ==
  /\ row # NoTokens
  /\ row' = NoTokens
  /\ UNCHANGED <<queue, task, login, live, granted, lost>>

\* The process stops and comes back: only the database and the authorization
\* server remain.  A call that was out may still have reached the latter.
Crash ==
  /\ task' = [t \in Task |-> Idle]
  /\ queue' = <<>>
  /\ login' = NoTokens
  /\ \E reached \in SUBSET {t \in Task : At(t, "calling") /\ task[t].creds.refresh \in live} :
       LET spent == {task[t].creds.refresh : t \in reached}
       IN  /\ live' = live \ spent
           /\ lost' = lost \cup spent \cup
                UNION {Wasted(task[t]) : t \in {u \in Task : task[u].pc \in {"granted", "persisting"}}}
  /\ UNCHANGED <<row, granted>>

-----------------------------------------------------------------------------
Init ==
  /\ row = NoTokens
  /\ queue = <<>>
  /\ task = [t \in Task |-> Idle]
  /\ login = NoTokens
  /\ live = {}
  /\ granted = 0
  /\ lost = {}

\* What a task does once it has read its credentials.
Proceed(t) ==
  \/ Drop(t) \/ Ask(t) \/ Reread(t) \/ Grant(t) \/ Refuse(t)
  \/ Answer(t) \/ Persist(t) \/ PersistFails(t)

Next ==
  \/ \E t \in Task : Load(t) \/ Proceed(t)
  \/ Exchange \/ StoreLogin \/ Disconnect \/ Crash

Spec == Init /\ [][Next]_vars

(* A task is scheduled until it ends, its calls end by the client's         *)
(* timeouts, and a write ends one way or the other.  Nothing is assumed of  *)
(* callers, of the admin or of crashes.                                     *)
FairSpec == Spec /\ \A t \in Task : WF_vars(Proceed(t))

-----------------------------------------------------------------------------
TypeOK ==
  /\ row \in Tokens /\ login \in Tokens
  /\ queue \in Seq(Task)
  /\ task \in [Task -> Local]
  /\ live \subseteq 1..MaxGrants /\ lost \subseteq 1..MaxGrants
  /\ granted \in 0..MaxGrants

\* The task has a successor of its token in its hands.
Carries(t, refresh) ==
  task[t].pc \in {"granted", "persisting"} /\ task[t].creds.refresh = refresh

(* "so the rotation always reaches the DB": the refresh token in the        *)
(* database is one the authorization server honours, unless its successor   *)
(* is on its way there, or was lost to a crash, to an answer that never     *)
(* came or to a database that refused every write.  A client that leaves,   *)
(* and a login or a disconnect in the middle of a refresh, lose nothing.    *)
StoredIsLive ==
  row.refresh # None =>
    \/ row.refresh \in live \cup lost
    \/ \E t \in Task : Carries(t, row.refresh)

(* "the second one to arrive must wait for and reuse the first's result": a *)
(* task that found its tokens unchanged under the lock does not spend a     *)
(* token that another has already spent, unless the successor was lost.     *)
(* Access tokens tell refreshes apart, so an answer without one is exempt.  *)
NeverSpendsSpent ==
  \A t \in Task : LET c == task[t].creds IN
    (At(t, "calling") /\ task[t].saw = "same" /\ c.access # Blank)
      => c.refresh \in live \cup lost

(* The tasks under the lock or waiting for it are exactly those in its      *)
(* queue, once each, and only the first has read the row again: no drop,    *)
(* failure or crash leaves the lock held by nobody or shared.               *)
LockKept ==
  /\ \A i, j \in 1..Len(queue) : queue[i] = queue[j] => i = j
  /\ \A t \in Task :
       /\ task[t].pc \in {"waiting", "calling", "granted", "persisting"}
            <=> \E i \in 1..Len(queue) : queue[i] = t
       /\ task[t].pc \in {"calling", "granted", "persisting"} => Holds(t)

(* Every refresh ends: no task waits forever for the lock, whoever else     *)
(* keeps asking for it and whatever the writes do.                          *)
EveryRefreshEnds ==
  \A t \in Task : At(t, "waiting") ~> At(t, "idle")

-----------------------------------------------------------------------------
(* What the source says of itself that its interleavings break. *)

(* "Forget stored OAuth tokens (disconnect). Reconnect via oauth/start +    *)
(* complete." (providers/routes.rs): an account without tokens gets tokens  *)
(* only from a login.                                                       *)
DisconnectSticks ==
  [][(row = NoTokens /\ row' # NoTokens) => row' = login]_vars

=============================================================================
