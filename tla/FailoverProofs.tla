---------------------------- MODULE FailoverProofs ----------------------------
(***************************************************************************)
(* Theorems about Failover, for every number of requests, members and      *)
(* providers and every value of the windows.  The argument: the local      *)
(* state of a handler fits what the upstreams have answered (Fits), a      *)
(* health entry is explained by it (Explained), and the history only       *)
(* advances, so one handler's step cannot invalidate what another handler  *)
(* is about to do.                                                         *)
(***************************************************************************)
EXTENDS Failover, TLAPS

-----------------------------------------------------------------------------
(* The inductive invariant. *)

Verdicts == {"untouched", "called", "faulted"}

\* The history of a key only advances.
Later(w, v) ==
  /\ w # "untouched" => v # "untouched"
  /\ w = "faulted" => v = "faulted"

\* A health entry is explained by the history of its key.
Explained(e, w) ==
  /\ e \in Entry
  /\ ~Tracked(e) => e = Absent
  /\ Tracked(e) => w # "untouched"
  /\ e.status \in {"cooling", "misconfigured"} => w = "faulted"

\* A handler that stands at a member stands within its selection, and so does
\* the member whose failure has not been attributed yet.
Placed(q) ==
  /\ q.pc \in {"check", "dispatch", "sent", "level", "penalise", "transform", "refresh"}
       => q.pos \in 1..Len(q.sel)
  /\ q.err # "none" => (q.pc = "attribute" /\ q.pos - 1 \in 1..Len(q.sel))

\* What the calls to the current member amount to at each place.
Counted(q) ==
  /\ q.calls <= 2 /\ q.logs <= 1
  /\ q.pc = "dispatch" => q.calls = 0
  /\ q.pc = "sent" => q.calls = (IF q.via = "first" THEN 1 ELSE 2)
  /\ q.pc = "refresh" => q.calls = 1
  /\ q.pc \in {"transform", "level", "penalise"} => q.calls \in 1..2
  /\ q.pc \in {"dispatch", "sent", "refresh", "transform", "level", "penalise"} => q.logs = 0
  /\ q.pc \in {"attribute", "check", "exhausted", "done"} => (q.logs = 1 <=> q.calls > 0)

\* What the handler knows of the upstreams it has called.
Honest(q) ==
  /\ q.wait # 0
  /\ q.contacted => (q.tried \/ q.pc \in {"idle", "done"})
  /\ q.pc \in {"sent", "refresh", "transform", "level", "penalise"} => q.contacted
  /\ q.pc = "done" =>
       CASE q.answer = "unavailable" -> q.wait # NoWait => (q.wait > 0 /\ ~q.contacted)
         [] q.answer = "gone"        -> TRUE
         [] q.answer = "refused"     -> ~q.contacted
         [] OTHER                    -> q.contacted

\* A handler that waits for, or acts on, an answer has called its member.
Blamed(q, w) ==
  /\ q.pc \in {"sent", "refresh", "transform"} => w[q.sel[q.pos]] # "untouched"
  /\ q.pc \in {"level", "penalise"} => w[q.sel[q.pos]] = "faulted"

Fits(q, w) == q \in Request /\ Placed(q) /\ Counted(q) /\ Honest(q) /\ Blamed(q, w)

IInv ==
  /\ TypeOK
  /\ \A k \in Key : Explained(runtime[k], past[k])
  /\ \A r \in Req : Fits(req[r], past)

-----------------------------------------------------------------------------
(* The operators on one entry keep it explained. *)

\* A cooldown the ladder gives fits the longest window.
LEMMA CooldownRange ==
  ASSUME NEW e
  PROVE  NextCooldown(e) \in 0..MaxWindow
<1>1. \A s : Capped(s) \in 0..MaxCooldown \/ Capped(s) = MaxCooldown
  BY DEF Capped
<1>2. MaxCooldown \in 0..MaxWindow
  BY ProviderRuntimeAssumption
<1>3. \A s : Capped(s) \in 0..MaxWindow
  BY <1>1, <1>2, ProviderRuntimeAssumption
<1>. QED
  BY <1>3 DEF NextCooldown, CooldownFor

\* The floor of an entry's window and the bottom of the ladder are in range.
LEMMA Floor == -IdleRetention \in -IdleRetention..MaxWindow /\ 0 \in 0..LevelMax
  BY ProviderRuntimeAssumption

\* A healthy entry needs no more than a key that was called (record_success).
LEMMA HealthyExplained ==
  ASSUME NEW w, w # "untouched"
  PROVE  Explained(Healthy, w)
BY Floor DEF Explained, Healthy, Absent, Tracked, Entry, Statuses, Texts

\* A key without an entry needs nothing (prune_idle, delete).
LEMMA AbsentExplained ==
  ASSUME NEW w
  PROVE  Explained(Absent, w)
BY Floor DEF Explained, Absent, Tracked, Entry, Statuses, Texts

\* entry().or_default() on a key that was called.
LEMMA OrDefaultExplained ==
  ASSUME NEW e, NEW w, Explained(e, w), w # "untouched"
  PROVE  Explained(OrDefault(e), w)
BY HealthyExplained DEF OrDefault

\* record_retryable after a fault: the level saturates within its u8.
LEMMA PenaltyExplained ==
  ASSUME NEW e, NEW w, Explained(e, w), NEW cool \in 0..MaxWindow
  PROVE  Explained(RecordRetryable(e, cool), "faulted")
<1>1. OrDefault(e) \in Entry
  BY HealthyExplained DEF OrDefault, Explained
<1>2. cool \in -IdleRetention..MaxWindow
  BY ProviderRuntimeAssumption
<1>3. \A n \in 0..LevelMax : (IF n < LevelMax THEN n + 1 ELSE n) \in 0..LevelMax
  BY ProviderRuntimeAssumption
<1>. QED
  BY <1>1, <1>2, <1>3 DEF Explained, RecordRetryable, Entry, Statuses, Tracked

\* mark_misconfigured after a fault.
LEMMA MisconfiguredExplained ==
  ASSUME NEW e, NEW w, Explained(e, w)
  PROVE  Explained(MarkMisconfigured(e), "faulted")
<1>1. OrDefault(e) \in Entry
  BY HealthyExplained DEF OrDefault, Explained
<1>2. MisconfiguredRetryAfter \in -IdleRetention..MaxWindow
  BY ProviderRuntimeAssumption
<1>. QED
  BY <1>1, <1>2 DEF Explained, MarkMisconfigured, Entry, Statuses, Tracked

\* note_error changes the text only, and creates nothing.
LEMMA NoteExplained ==
  ASSUME NEW e, NEW w, Explained(e, w), NEW why \in Texts
  PROVE  Explained(NoteError(e, why), w)
BY DEF Explained, NoteError, Entry, Tracked

\* A tick of the clock.
LEMMA AgeExplained ==
  ASSUME NEW e, NEW w, Explained(e, w)
  PROVE  Explained(Age(e), w)
<1>1. \A n \in -IdleRetention..MaxWindow : n > -IdleRetention => n - 1 \in -IdleRetention..MaxWindow
  BY ProviderRuntimeAssumption
<1>2. Absent.left = -IdleRetention
  BY DEF Absent
<1>3. CASE e.left > -IdleRetention
  <2>1. Tracked(e)
    BY <1>2, <1>3, ProviderRuntimeAssumption DEF Explained
  <2>. QED
    BY <1>1, <1>3, <2>1 DEF Explained, Age, Entry, Tracked
<1>4. CASE ~(e.left > -IdleRetention)
  BY <1>4 DEF Age
<1>. QED
  BY <1>3, <1>4

\* An explanation survives the advance of the history.
LEMMA LaterExplained ==
  ASSUME NEW e, NEW w, NEW v, Explained(e, w), Later(w, v)
  PROVE  Explained(e, v)
BY DEF Explained, Later

-----------------------------------------------------------------------------
(* The map's entries stay explained, and the history only advances. *)
MapKept ==
  /\ runtime' \in [Key -> Entry]
  /\ past' \in [Key -> Verdicts]
  /\ \A k \in Key : Later(past[k], past'[k])
  /\ \A k \in Key : Explained(runtime'[k], past'[k])

(* One step of one handler: it is enough that its new local state fits, that *)
(* the entries stay explained and that the history advances.                *)

\* A handler's step in general: its own new state fits, the other handlers still
\* fit because the history only advances, and every entry stays explained.
LEMMA Step ==
  ASSUME IInv, NEW r \in Req, NEW q, Put(r, q), Fits(q, past'),
         transport' \in [Provider -> Transports],
         UNCHANGED <<storing, background>>,
         MapKept
  PROVE  IInv'
<1>1. TypeOK'
  BY DEF IInv, TypeOK, Put, Fits, Verdicts, MapKept
<1>2. ASSUME NEW s \in Req
      PROVE  Fits(req[s], past')
  <2>1. Fits(req[s], past)
    BY DEF IInv
  <2>2. req[s].pc \in {"sent", "refresh", "transform", "level", "penalise"}
          => req[s].sel[req[s].pos] \in Key
    BY <2>1 DEF Fits, Request, Placed
  <2>3. Blamed(req[s], past')
    BY <2>1, <2>2 DEF Fits, Blamed, Later, MapKept
  <2>. QED
    BY <2>1, <2>3 DEF Fits
<1>3. \A s \in Req : Fits(req'[s], past')
  BY <1>2 DEF IInv, TypeOK, Put
<1>. QED
  BY <1>1, <1>3 DEF IInv, MapKept

\* The member at which a handler stands.
LEMMA MemberIsKey ==
  ASSUME IInv, NEW r \in Req,
         req[r].pc \in {"check", "dispatch", "sent", "level", "penalise", "transform", "refresh"}
  PROVE  /\ Member(r) \in Key
         /\ Explained(runtime[Member(r)], past[Member(r)])
BY DEF IInv, Fits, Request, Placed, Member

\* An entry is replaced and the history of its key advances.
LEMMA Replace ==
  ASSUME IInv, NEW k \in Key, NEW e, NEW what \in Verdicts \ {"untouched"},
         Update(k, e), Saw(k, what),
         Explained(e, past'[k])
  PROVE  MapKept
<1>1. runtime \in [Key -> Entry] /\ past \in [Key -> Verdicts]
  BY DEF IInv, TypeOK, Verdicts
<1>2. past' \in [Key -> Verdicts] /\ \A j \in Key : Later(past[j], past'[j])
  BY <1>1 DEF Saw, Verdicts, Later
<1>3. \A j \in Key \ {k} : runtime'[j] = runtime[j] /\ past'[j] = past[j]
  BY <1>1 DEF Update, Saw
<1>4. runtime'[k] = e
  BY <1>1 DEF Update
<1>5. \A j \in Key : Explained(runtime'[j], past'[j])
  BY <1>3, <1>4 DEF IInv
<1>6. e \in Entry
  BY DEF Explained
<1>. QED
  BY <1>1, <1>2, <1>5, <1>6 DEF Update, MapKept

\* The same without a new verdict.
LEMMA ReplaceOnly ==
  ASSUME IInv, NEW k \in Key, NEW e,
         Update(k, e), UNCHANGED past,
         Explained(e, past[k])
  PROVE  MapKept
<1>1. runtime \in [Key -> Entry] /\ past \in [Key -> Verdicts]
  BY DEF IInv, TypeOK, Verdicts
<1>2. e \in Entry
  BY DEF Explained
<1>3. \A j \in Key : Explained(runtime'[j], past'[j])
  BY <1>1 DEF IInv, Update
<1>. QED
  BY <1>1, <1>2, <1>3 DEF Update, Later, MapKept

\* And with only a new verdict.
LEMMA SawOnly ==
  ASSUME IInv, NEW k \in Key, NEW what \in Verdicts \ {"untouched"},
         UNCHANGED runtime, Saw(k, what)
  PROVE  /\ MapKept
         /\ past'[k] # "untouched"
         /\ what = "faulted" => past'[k] = "faulted"
<1>1. runtime \in [Key -> Entry] /\ past \in [Key -> Verdicts]
  BY DEF IInv, TypeOK, Verdicts
<1>2. /\ past' \in [Key -> Verdicts]
      /\ \A j \in Key : Later(past[j], past'[j])
      /\ past'[k] # "untouched"
      /\ what = "faulted" => past'[k] = "faulted"
  BY <1>1 DEF Saw, Verdicts, Later
<1>3. \A j \in Key : Explained(runtime'[j], past'[j])
  BY <1>2, LaterExplained DEF IInv
<1>. QED
  BY <1>1, <1>2, <1>3 DEF MapKept

\* Nothing but the handler's own state changes.
LEMMA Still ==
  ASSUME IInv, UNCHANGED <<runtime, past>>
  PROVE  MapKept
BY DEF IInv, TypeOK, Verdicts, Later, MapKept

-----------------------------------------------------------------------------
(* The local states the handlers build. *)

\* A handler that is done with its member: it has one row if it has called it.
Settled(q) ==
  /\ q \in Request
  /\ q.calls <= 2 /\ (q.logs = IF q.calls > 0 THEN 1 ELSE 0)
  /\ q.wait # 0
  /\ q.contacted => q.tried

\* A request that has just arrived.
LEMMA FreshFits ==
  ASSUME NEW sel \in Seq(Key), NEW w
  PROVE  Fits(Fresh(sel), w) /\ Settled(Fresh(sel))
<1>1. NoWait \in NoWait..MaxWindow /\ 0 \in 0..MaxWindow /\ NoWait # 0
  BY ProviderRuntimeAssumption DEF NoWait
<1>2. Fresh(sel) \in Request
  BY <1>1 DEF Fresh, Request, Transports, Texts
<1>. QED
  BY <1>1, <1>2 DEF Fits, Fresh, Placed, Counted, Honest, Blamed, Settled

\* A handler that continues with the next member.
LEMMA MovedFits ==
  ASSUME NEW r, NEW q, Settled(q), q.pos \in 1..Len(q.sel),
         NEW why \in Texts, MoveOn(r, q, why), NEW w
  PROVE  \E q2 : Put(r, q2) /\ Fits(q2, w)
<1>1. PICK err \in {why, "none"} :
        Put(r, [q EXCEPT !.pc = "attribute", !.pos = @ + 1, !.err = err, !.cool = 0])
  BY DEF MoveOn
<1>. DEFINE q2 == [q EXCEPT !.pc = "attribute", !.pos = @ + 1, !.err = err, !.cool = 0]
<1>2. err \in Texts /\ 0 \in 0..MaxWindow
  BY ProviderRuntimeAssumption DEF Texts
<1>3. q2 \in Request
  <2>1. q \in Request /\ q.pos + 1 \in Nat \ {0}
    BY DEF Settled, Request
  <2>. QED
    BY <1>2, <2>1 DEF Request
<1>4. q2.pos - 1 \in 1..Len(q2.sel)
  BY DEF Settled, Request
<1>5. Fits(q2, w)
  BY <1>3, <1>4 DEF Fits, Placed, Counted, Honest, Blamed, Settled, Request
<1>. QED
  BY <1>1, <1>5

\* A handler that has returned.
LEMMA AnsweredFits ==
  ASSUME NEW q, Settled(q), NEW w,
         NEW answer \in {"refused", "served", "embedded", "relayed", "gone"},
         answer \in {"served", "embedded", "relayed"} => q.contacted,
         answer = "refused" => ~q.contacted
  PROVE  Fits(Answered(q, answer), w)
<1>1. Answered(q, answer) \in Request
  <2>1. <<>> \in Seq(Key)
    OBVIOUS
  <2>2. Fresh(<<>>) \in Request
    BY <2>1, FreshFits DEF Fits
  <2>. QED
    BY <2>2 DEF Answered, Settled, Request
<1>2. Fresh(<<>>).err = "none"
  BY DEF Fresh
<1>. QED
  BY <1>1, <1>2 DEF Fits, Answered, Placed, Counted, Honest, Blamed, Settled, Request

\* A handler that has its member's answer, and writes the row.
LEMMA LoggedSettled ==
  ASSUME IInv, NEW r \in Req,
         req[r].pc \in {"sent", "refresh", "transform", "penalise"}
  PROVE  /\ Settled(Logged(req[r]))
         /\ Logged(req[r]).pos \in 1..Len(Logged(req[r]).sel)
         /\ Logged(req[r]).contacted
<1>. DEFINE q == req[r]
<1>1. Fits(q, past)
  BY DEF IInv
<1>2. q \in Request /\ q.logs = 0 /\ q.calls \in 1..2
  BY <1>1 DEF Fits, Counted, Request
<1>. QED
  BY <1>1, <1>2 DEF Fits, Placed, Honest, Settled, Logged, Request

\* A handler whose next upstream call has gone out.
LEMMA CallingFits ==
  ASSUME NEW q \in Request, q.pos \in 1..Len(q.sel), q.err = "none", q.logs = 0,
         q.tried, q.wait # 0,
         NEW via \in {"first", "refresh", "transport"},
         q.calls = (IF via = "first" THEN 0 ELSE 1),
         NEW w, w[q.sel[q.pos]] # "untouched"
  PROVE  Fits(Calling(q, via), w)
<1>. DEFINE q2 == Calling(q, via)
<1>1. q2 \in Request
  <2>1. q.calls + 1 \in Nat
    BY DEF Request
  <2>. QED
    BY <2>1 DEF Calling, Request
<1>2. /\ q2.pc = "sent" /\ q2.via = via /\ q2.pos = q.pos /\ q2.sel = q.sel
      /\ q2.err = "none" /\ q2.logs = 0 /\ q2.tried /\ q2.wait = q.wait /\ q2.contacted
      /\ q2.calls = (IF via = "first" THEN 1 ELSE 2)
  BY DEF Calling, Request
<1>. QED
  BY <1>1, <1>2 DEF Fits, Placed, Counted, Honest, Blamed

-----------------------------------------------------------------------------
(* Each action of a handler. *)

\* A request arrives, or is refused.
LEMMA ArriveKeeps ==
  ASSUME IInv, NEW r \in Req, Arrive(r)
  PROVE  IInv'
<1>1. PICK q : Put(r, q) /\ Fits(q, past')
  <2>1. ASSUME NEW sel \in Selections, Put(r, Fresh(sel))
        PROVE  Fits(Fresh(sel), past')
    BY FreshFits, FailoverAssumption
  <2>2. <<>> \in Seq(Key) /\ ~Fresh(<<>>).contacted
    BY DEF Fresh
  <2>3. Fits(Answered(Fresh(<<>>), "refused"), past')
    BY <2>2, FreshFits, AnsweredFits
  <2>. QED
    BY <2>1, <2>3 DEF Arrive
<1>. QED
  BY <1>1, Step, Still DEF Arrive, IInv, TypeOK

\* attribute_error, at the head of an iteration or after the last.
LEMMA AttributeKeeps ==
  ASSUME IInv, NEW r \in Req, Attribute(r)
  PROVE  IInv'
<1>. DEFINE q == req[r]
            q2 == [q EXCEPT !.err = "none",
                            !.pc = IF q.pos <= Len(q.sel) THEN "check" ELSE "exhausted"]
<1>1. Fits(q, past) /\ q.pc = "attribute"
  BY DEF IInv, Attribute, At
<1>2. Put(r, q2) /\ UNCHANGED past
  BY DEF Attribute
<1>3. q2 \in Request /\ (q2.pc = "check" => q2.pos \in 1..Len(q2.sel))
  <2>1. q2 \in Request
    BY <1>1 DEF Fits, Request, Texts
  <2>2. q.pos \in Nat \ {0} /\ Len(q.sel) \in Nat /\ q2.pos = q.pos /\ q2.sel = q.sel
    BY <1>1 DEF Fits, Request
  <2>3. q2.pc = "check" => q.pos <= Len(q.sel)
    BY <1>1 DEF Fits, Request
  <2>. QED
    BY <2>1, <2>2, <2>3
<1>4. Fits(q2, past')
  BY <1>1, <1>3 DEF Fits, Placed, Counted, Honest, Blamed, Request
<1>5. CASE q.err = "none"
  <2>1. UNCHANGED runtime
    BY <1>5 DEF Attribute
  <2>. QED
    BY <1>2, <1>4, <2>1, Step, Still DEF Attribute, IInv, TypeOK
<1>6. CASE q.err # "none"
  <2>. DEFINE k == q.sel[q.pos - 1]
  <2>1. k \in Key /\ q.err \in Texts
    BY <1>1, <1>6 DEF Fits, Placed, Request
  <2>2. Update(k, NoteError(runtime[k], q.err))
    BY <1>6 DEF Attribute
  <2>3. Explained(NoteError(runtime[k], q.err), past[k])
    BY <2>1, NoteExplained DEF IInv
  <2>4. MapKept
    BY <1>2, <2>1, <2>2, <2>3, ReplaceOnly
  <2>. QED
    BY <1>2, <1>4, <2>4, Step DEF Attribute, IInv, TypeOK
<1>. QED
  BY <1>5, <1>6

\* A member is skipped or taken.
LEMMA CheckKeeps ==
  ASSUME IInv, NEW r \in Req, Check(r)
  PROVE  IInv'
<1>. DEFINE q == req[r]
            e == runtime[Member(r)]
            there == [q EXCEPT !.calls = 0, !.logs = 0, !.pc = "dispatch"]
            past1 == [q EXCEPT !.calls = 0, !.logs = 0, !.pc = "attribute", !.pos = @ + 1,
                               !.wait = IF @ = NoWait \/ e.left < @ THEN e.left ELSE @]
<1>1. Fits(q, past) /\ q.pc = "check" /\ UNCHANGED <<runtime, past>>
  BY DEF IInv, Check, At
<1>2. CASE Available(e)
  <2>1. Put(r, there)
    BY <1>2 DEF Check
  <2>2. there \in Request
    BY <1>1 DEF Fits, Request
  <2>3. /\ there.pc = "dispatch" /\ there.pos = q.pos /\ there.sel = q.sel
        /\ there.calls = 0 /\ there.logs = 0 /\ there.err = q.err /\ there.wait = q.wait
        /\ there.contacted = q.contacted /\ there.tried = q.tried
    BY <1>1 DEF Fits, Request
  <2>4. Fits(there, past')
    BY <1>1, <2>2, <2>3 DEF Fits, Placed, Counted, Honest, Blamed
  <2>. QED
    BY <1>1, <2>1, <2>4, Step, Still DEF Check, IInv, TypeOK
<1>3. CASE ~Available(e)
  <2>1. Put(r, past1)
    BY <1>3 DEF Check
  <2>2. e.left \in 1..MaxWindow
    BY <1>1, <1>3, MemberIsKey, ProviderRuntimeAssumption DEF Available, Explained, Entry
  <2>3. past1 \in Request /\ past1.wait # 0 /\ past1.err = "none"
    <3>1. q \in Request /\ q.pos + 1 \in Nat \ {0} /\ q.wait # 0
      BY <1>1 DEF Fits, Request, Honest
    <3>2. e.left \in NoWait..MaxWindow /\ e.left # 0
      BY <2>2, ProviderRuntimeAssumption DEF NoWait
    <3>3. q.err = "none"
      BY <1>1 DEF Fits, Placed
    <3>. QED
      BY <3>1, <3>2, <3>3, ProviderRuntimeAssumption DEF Request
  <2>4. Fits(past1, past')
    BY <1>1, <2>3 DEF Fits, Placed, Counted, Honest, Blamed, Request
  <2>. QED
    BY <1>1, <2>1, <2>4, Step, Still DEF Check, IInv, TypeOK
<1>. QED
  BY <1>2, <1>3

\* The first call goes out, or none can.
LEMMA DispatchKeeps ==
  ASSUME IInv, NEW r \in Req, Dispatch(r)
  PROVE  IInv'
<1>. DEFINE q == req[r]
            k == Member(r)
            over == transport[ProviderOf[k]]
            sent == Calling([q EXCEPT !.tried = TRUE, !.over = over], "first")
<1>1. Fits(q, past) /\ q.pc = "dispatch" /\ k \in Key
  BY MemberIsKey DEF IInv, Dispatch, At
<1>2. ASSUME NEW q1 \in {q, [q EXCEPT !.tried = TRUE]}, NEW why \in Texts,
             MoveOn(r, q1, why), UNCHANGED past
      PROVE  IInv'
  <2>1. /\ q1 \in Request /\ q1.pos = q.pos /\ q1.sel = q.sel
        /\ q1.calls = q.calls /\ q1.logs = q.logs /\ q1.wait = q.wait
        /\ q1.contacted = q.contacted /\ (q.tried => q1.tried)
    BY <1>1 DEF Fits, Request
  <2>2. Settled(q1) /\ q1.pos \in 1..Len(q1.sel)
    BY <1>1, <2>1 DEF Fits, Placed, Counted, Honest, Settled
  <2>3. PICK q2 : Put(r, q2) /\ Fits(q2, past')
    BY <1>2, <2>2, MovedFits
  <2>. QED
    BY <1>2, <2>3, Step, Still DEF Dispatch, IInv, TypeOK
<1>3. ASSUME Put(r, sent), Saw(k, "called")
      PROVE  IInv'
  <2>. DEFINE q1 == [q EXCEPT !.tried = TRUE, !.over = over]
  <2>1. MapKept /\ past'[k] # "untouched"
    BY <1>1, <1>3, SawOnly DEF Dispatch, Verdicts
  <2>2. over \in Transports
    BY <1>1, FailoverAssumption DEF IInv, TypeOK
  <2>3. /\ q1 \in Request /\ q1.pos = q.pos /\ q1.sel = q.sel /\ q1.err = "none"
        /\ q1.logs = 0 /\ q1.calls = 0 /\ q1.tried /\ q1.wait # 0
    BY <1>1, <2>2 DEF Fits, Request, Placed, Counted, Honest
  <2>4. q1.pos \in 1..Len(q1.sel) /\ past'[q1.sel[q1.pos]] # "untouched"
    BY <1>1, <2>1, <2>3 DEF Fits, Placed, Member
  <2>5. Fits(sent, past')
    BY <2>3, <2>4, CallingFits
  <2>. QED
    BY <1>3, <2>1, <2>5, Step DEF Dispatch, IInv, TypeOK
<1>. QED
  BY <1>2, <1>3 DEF Dispatch, Texts

\* `continue` with the row written.
LEMMA MoveOnKeeps ==
  ASSUME IInv, NEW r \in Req,
         req[r].pc \in {"sent", "refresh", "transform", "penalise"},
         NEW why \in Texts, MoveOn(r, Logged(req[r]), why),
         MapKept,
         transport' \in [Provider -> Transports],
         UNCHANGED <<storing, background>>
  PROVE  IInv'
<1>1. PICK q2 : Put(r, q2) /\ Fits(q2, past')
  BY LoggedSettled, MovedFits
<1>. QED
  BY <1>1, Step

\* `return` with the row written.
LEMMA AnswerKeeps ==
  ASSUME IInv, NEW r \in Req,
         req[r].pc \in {"sent", "refresh", "transform", "penalise"},
         NEW answer \in {"served", "embedded", "relayed"},
         Put(r, Answered(Logged(req[r]), answer)),
         MapKept,
         transport' \in [Provider -> Transports],
         UNCHANGED <<storing, background>>
  PROVE  IInv'
<1>1. Fits(Answered(Logged(req[r]), answer), past')
  BY LoggedSettled, AnsweredFits
<1>. QED
  BY <1>1, Step

\* On to another place of the same member, with the answer in hand.
LEMMA ProceedKeeps ==
  ASSUME IInv, NEW r \in Req, req[r].pc \in {"sent", "level"},
         NEW place \in {"transform", "refresh", "level", "penalise"},
         place = "refresh" => (req[r].pc = "sent" /\ req[r].via = "first"),
         NEW q2 \in Request,
         q2.pc = place, q2.sel = req[r].sel, q2.pos = req[r].pos, q2.err = req[r].err,
         q2.calls = req[r].calls, q2.logs = req[r].logs, q2.wait = req[r].wait,
         q2.tried = req[r].tried, q2.contacted = req[r].contacted,
         Put(r, q2),
         place \in {"level", "penalise"} => past'[Member(r)] = "faulted",
         MapKept,
         transport' \in [Provider -> Transports],
         UNCHANGED <<storing, background>>
  PROVE  IInv'
<1>1. Fits(req[r], past) /\ Member(r) \in Key
  BY MemberIsKey DEF IInv
<1>2. past'[Member(r)] # "untouched"
  BY <1>1 DEF Fits, Blamed, Member, MapKept, Later
<1>3. q2.calls \in 1..2
  BY <1>1 DEF Fits, Counted, Request
<1>4. Fits(q2, past')
  BY <1>1, <1>2, <1>3 DEF Fits, Placed, Counted, Honest, Blamed, Member
<1>. QED
  BY <1>4, Step

\* A fault of the member at which the handler stands.
LEMMA FaultKept ==
  ASSUME IInv, NEW r \in Req,
         req[r].pc \in {"sent", "refresh"},
         NEW e \in {MarkMisconfigured(runtime[Member(r)]),
                    RecordRetryable(runtime[Member(r)], NextCooldown(runtime[Member(r)]))},
         Update(Member(r), e), Saw(Member(r), "faulted")
  PROVE  MapKept
<1>. DEFINE k == Member(r)
<1>1. k \in Key /\ Explained(runtime[k], past[k])
  BY MemberIsKey
<1>2. Explained(e, "faulted")
  BY <1>1, CooldownRange, PenaltyExplained, MisconfiguredExplained
<1>3. past'[k] = "faulted"
  BY <1>1 DEF Saw, IInv, TypeOK
<1>. QED
  BY <1>1, <1>2, <1>3, Replace DEF Verdicts

\* The call could not be made.
LEMMA UnreachableKeeps ==
  ASSUME IInv, NEW r \in Req, Unreachable(r)
  PROVE  IInv'
<1>1. req[r].pc = "sent"
  BY DEF Unreachable, At
<1>2. MapKept
  BY <1>1, FaultKept DEF Unreachable
<1>. QED
  BY <1>1, <1>2, MoveOnKeeps DEF Unreachable, IInv, TypeOK, Texts

\* The upstream answered with a success.
LEMMA SucceedsKeeps ==
  ASSUME IInv, NEW r \in Req, Succeeds(r)
  PROVE  IInv'
<1>. DEFINE q2 == [req[r] EXCEPT !.pc = "transform"]
<1>1. req[r].pc = "sent" /\ Member(r) \in Key /\ Fits(req[r], past)
  BY MemberIsKey DEF Succeeds, At, IInv
<1>2. MapKept
  <2>1. Explained(RecordSuccess(runtime[Member(r)]), past[Member(r)])
    BY <1>1, HealthyExplained DEF RecordSuccess, Fits, Blamed, Member
  <2>. QED
    BY <1>1, <2>1, ReplaceOnly DEF Succeeds
<1>3. q2 \in Request
  BY <1>1 DEF Fits, Request
<1>4. /\ q2.pc = "transform" /\ q2.sel = req[r].sel /\ q2.pos = req[r].pos
      /\ q2.err = req[r].err /\ q2.calls = req[r].calls /\ q2.logs = req[r].logs
      /\ q2.wait = req[r].wait /\ q2.tried = req[r].tried /\ q2.contacted = req[r].contacted
  BY <1>1 DEF Fits, Request
<1>. QED
  BY <1>1, <1>2, <1>3, <1>4, ProceedKeeps DEF Succeeds, IInv, TypeOK

\* The body of a success is transformed.
LEMMA TransformKeeps ==
  ASSUME IInv, NEW r \in Req, Transform(r)
  PROVE  IInv'
<1>1. req[r].pc = "transform" /\ MapKept
  BY Still DEF Transform, At
<1>. QED
  BY <1>1, MoveOnKeeps, AnswerKeeps DEF Transform, IInv, TypeOK, Texts

\* The upstream rejected the request itself.
LEMMA RejectsKeeps ==
  ASSUME IInv, NEW r \in Req, Rejects(r)
  PROVE  IInv'
<1>1. req[r].pc = "sent" /\ MapKept
  BY Still DEF Rejects, At
<1>. QED
  BY <1>1, MoveOnKeeps, AnswerKeeps DEF Rejects, IInv, TypeOK, Texts

\* A 401 to the first call.
LEMMA UnauthorizedKeeps ==
  ASSUME IInv, NEW r \in Req, Unauthorized(r)
  PROVE  IInv'
<1>. DEFINE k == Member(r)
            q2 == [req[r] EXCEPT !.pc = "refresh"]
<1>1. req[r].pc = "sent" /\ req[r].via = "first" /\ Fits(req[r], past)
  BY DEF Unauthorized, At, IInv
<1>2. ASSUME Put(r, q2), UNCHANGED <<runtime, past>>
      PROVE  IInv'
  <2>1. q2 \in Request
    BY <1>1 DEF Fits, Request
  <2>2. /\ q2.pc = "refresh" /\ q2.sel = req[r].sel /\ q2.pos = req[r].pos
        /\ q2.err = req[r].err /\ q2.calls = req[r].calls /\ q2.logs = req[r].logs
        /\ q2.wait = req[r].wait /\ q2.tried = req[r].tried /\ q2.contacted = req[r].contacted
    BY <1>1 DEF Fits, Request
  <2>. QED
    BY <1>1, <1>2, <2>1, <2>2, ProceedKeeps, Still DEF Unauthorized, IInv, TypeOK
<1>3. ASSUME Update(k, MarkMisconfigured(runtime[k])), Saw(k, "faulted"),
             Put(r, Answered(Logged(req[r]), "relayed"))
      PROVE  IInv'
  BY <1>1, <1>3, FaultKept, AnswerKeeps DEF Unauthorized, IInv, TypeOK
<1>. QED
  BY <1>2, <1>3 DEF Unauthorized

\* A 401 to a retry.
LEMMA StillUnauthorizedKeeps ==
  ASSUME IInv, NEW r \in Req, StillUnauthorized(r)
  PROVE  IInv'
<1>1. req[r].pc = "sent"
  BY DEF StillUnauthorized, At
<1>2. MapKept
  BY <1>1, FaultKept DEF StillUnauthorized
<1>. QED
  BY <1>1, <1>2, MoveOnKeeps DEF StillUnauthorized, IInv, TypeOK, Texts

\* The token refresh has returned.
LEMMA RefreshedKeeps ==
  ASSUME IInv, NEW r \in Req, Refreshed(r)
  PROVE  IInv'
<1>. DEFINE q == req[r]
            k == Member(r)
<1>1. q.pc = "refresh" /\ Fits(q, past) /\ k \in Key
  BY MemberIsKey DEF Refreshed, At, IInv
<1>2. ASSUME Put(r, Calling(q, "refresh")), UNCHANGED <<runtime, past>>
      PROVE  IInv'
  <2>1. /\ q \in Request /\ q.pos \in 1..Len(q.sel) /\ q.err = "none" /\ q.logs = 0
        /\ q.calls = 1 /\ q.tried /\ q.wait # 0 /\ past[q.sel[q.pos]] # "untouched"
    BY <1>1 DEF Fits, Placed, Counted, Honest, Blamed
  <2>2. Fits(Calling(q, "refresh"), past')
    BY <1>2, <2>1, CallingFits
  <2>. QED
    BY <1>2, <2>2, Step, Still DEF Refreshed, IInv, TypeOK
<1>3. ASSUME MoveOn(r, Logged(q), "request"), UNCHANGED <<runtime, past>>
      PROVE  IInv'
  BY <1>1, <1>3, MoveOnKeeps, Still DEF Refreshed, IInv, TypeOK, Texts
<1>4. ASSUME NEW e \in {MarkMisconfigured(runtime[k]),
                        RecordRetryable(runtime[k], NextCooldown(runtime[k]))},
             Update(k, e), MoveOn(r, Logged(q), "fault"), Saw(k, "faulted")
      PROVE  IInv'
  BY <1>1, <1>4, FaultKept, MoveOnKeeps DEF Refreshed, IInv, TypeOK, Texts
<1>. QED
  BY <1>2, <1>3, <1>4 DEF Refreshed

\* A retryable status.
LEMMA BusyKeeps ==
  ASSUME IInv, NEW r \in Req, Busy(r)
  PROVE  IInv'
<1>. DEFINE q == req[r]
            explicit == CASE q.via = "first"     -> HeaderWaits \cup QuotaWaits \cup {FlatCooldown}
                          [] q.via = "refresh"   -> HeaderWaits \cup {FlatCooldown}
                          [] q.via = "transport" -> {}
<1>1. q.pc = "sent" /\ Fits(q, past) /\ q \in Request /\ Member(r) \in Key
  BY MemberIsKey DEF Busy, At, IInv, Fits
<1>2. MapKept /\ past'[Member(r)] = "faulted"
  BY <1>1, SawOnly DEF Busy, Verdicts
<1>3. explicit \subseteq 0..MaxWindow
  <2>1. q.via \in {"first", "refresh", "transport"}
    BY <1>1 DEF Request
  <2>. QED
    BY <2>1, FailoverAssumption, ProviderRuntimeAssumption
<1>4. ASSUME NEW q2, Put(r, q2),
             \/ q2 = [q EXCEPT !.pc = "level"]
             \/ \E cool \in explicit : q2 = [q EXCEPT !.pc = "penalise", !.cool = cool]
      PROVE  IInv'
  <2>1. q2 \in Request
    BY <1>1, <1>3, <1>4 DEF Request
  <2>2. /\ q2.pc \in {"level", "penalise"} /\ q2.sel = q.sel /\ q2.pos = q.pos
        /\ q2.err = q.err /\ q2.calls = q.calls /\ q2.logs = q.logs
        /\ q2.wait = q.wait /\ q2.tried = q.tried /\ q2.contacted = q.contacted
    BY <1>1, <1>4 DEF Request
  <2>. QED
    BY <1>1, <1>2, <1>4, <2>1, <2>2, ProceedKeeps DEF Busy, IInv, TypeOK
<1>. QED
  BY <1>4 DEF Busy

\* upgrade_required, with and without a transport to fall back to.
LEMMA UpgradeRequiredKeeps ==
  ASSUME IInv, NEW r \in Req, UpgradeRequired(r)
  PROVE  IInv'
<1>. DEFINE q == req[r]
            p == ProviderOf[Member(r)]
            q2 == [q EXCEPT !.pc = "penalise", !.cool = FlatCooldown]
<1>1. q.pc = "sent" /\ q.via = "first" /\ Fits(q, past) /\ q \in Request /\ Member(r) \in Key
  BY MemberIsKey DEF UpgradeRequired, At, IInv, Fits
<1>2. transport' \in [Provider -> Transports]
  BY DEF UpgradeRequired, IInv, TypeOK, Transports
<1>3. ASSUME Put(r, Calling(q, "transport")), UNCHANGED <<runtime, past>>
      PROVE  IInv'
  <2>1. /\ q.pos \in 1..Len(q.sel) /\ q.err = "none" /\ q.logs = 0
        /\ q.calls = 1 /\ q.tried /\ q.wait # 0 /\ past[q.sel[q.pos]] # "untouched"
    BY <1>1 DEF Fits, Placed, Counted, Honest, Blamed
  <2>2. Fits(Calling(q, "transport"), past')
    BY <1>1, <1>3, <2>1, CallingFits
  <2>. QED
    BY <1>2, <1>3, <2>2, Step, Still DEF UpgradeRequired
<1>4. ASSUME MoveOn(r, Logged(q), "request"), UNCHANGED <<runtime, past>>
      PROVE  IInv'
  BY <1>1, <1>2, <1>4, MoveOnKeeps, Still DEF UpgradeRequired, Texts
<1>5. ASSUME Put(r, q2), Saw(Member(r), "faulted")
      PROVE  IInv'
  <2>1. MapKept /\ past'[Member(r)] = "faulted"
    BY <1>1, <1>5, SawOnly DEF UpgradeRequired, Verdicts
  <2>2. q2 \in Request
    BY <1>1, ProviderRuntimeAssumption DEF Request
  <2>3. /\ q2.pc = "penalise" /\ q2.sel = q.sel /\ q2.pos = q.pos
        /\ q2.err = q.err /\ q2.calls = q.calls /\ q2.logs = q.logs
        /\ q2.wait = q.wait /\ q2.tried = q.tried /\ q2.contacted = q.contacted
    BY <1>1 DEF Request
  <2>. QED
    BY <1>1, <1>2, <1>5, <2>1, <2>2, <2>3, ProceedKeeps DEF UpgradeRequired
<1>. QED
  BY <1>3, <1>4, <1>5 DEF UpgradeRequired

\* The level is read and the cooldown computed.
LEMMA ReadLevelKeeps ==
  ASSUME IInv, NEW r \in Req, ReadLevel(r)
  PROVE  IInv'
<1>. DEFINE q == req[r]
            k == Member(r)
            q2 == [q EXCEPT !.pc = "penalise", !.cool = NextCooldown(runtime[k])]
<1>1. q.pc = "level" /\ Fits(q, past) /\ q \in Request /\ k \in Key /\ past[k] = "faulted"
  BY MemberIsKey DEF ReadLevel, At, IInv, Fits, Blamed, Member
<1>2. Explained(OrDefault(runtime[k]), past[k])
  BY <1>1, MemberIsKey, OrDefaultExplained
<1>3. MapKept /\ UNCHANGED past
  BY <1>1, <1>2, ReplaceOnly DEF ReadLevel
<1>4. q2 \in Request
  BY <1>1, CooldownRange DEF Request
<1>5. /\ q2.pc = "penalise" /\ q2.sel = q.sel /\ q2.pos = q.pos
      /\ q2.err = q.err /\ q2.calls = q.calls /\ q2.logs = q.logs
      /\ q2.wait = q.wait /\ q2.tried = q.tried /\ q2.contacted = q.contacted
  BY <1>1 DEF Request
<1>. QED
  BY <1>1, <1>3, <1>4, <1>5, ProceedKeeps DEF ReadLevel, IInv, TypeOK

\* The cooldown is recorded.
LEMMA PenaliseKeeps ==
  ASSUME IInv, NEW r \in Req, Penalise(r)
  PROVE  IInv'
<1>. DEFINE k == Member(r)
<1>1. /\ req[r].pc = "penalise" /\ req[r].cool \in 0..MaxWindow /\ k \in Key
      /\ past[k] = "faulted"
  BY MemberIsKey DEF Penalise, At, IInv, Fits, Blamed, Member, Request
<1>2. Explained(RecordRetryable(runtime[k], req[r].cool), past[k])
  BY <1>1, MemberIsKey, PenaltyExplained
<1>3. MapKept
  BY <1>1, <1>2, ReplaceOnly DEF Penalise
<1>. QED
  BY <1>1, <1>3, MoveOnKeeps DEF Penalise, IInv, TypeOK, Texts

\* No member is left.
LEMMA GiveUpKeeps ==
  ASSUME IInv, NEW r \in Req, GiveUp(r)
  PROVE  IInv'
<1>. DEFINE q == req[r]
            q2 == [Answered(q, "unavailable") EXCEPT !.wait = IF q.tried THEN NoWait ELSE @]
<1>1. q.pc = "exhausted" /\ Fits(q, past) /\ q \in Request
  BY DEF GiveUp, At, IInv, Fits
<1>2. <<>> \in Seq(Key) /\ NoWait \in NoWait..MaxWindow
  BY ProviderRuntimeAssumption DEF NoWait
<1>3. Fresh(<<>>) \in Request /\ Fresh(<<>>).err = "none"
  BY <1>2, FreshFits DEF Fits, Fresh
<1>4. q2 \in Request
  BY <1>1, <1>2, <1>3 DEF Answered, Request
<1>5. /\ q2.pc = "done" /\ q2.answer = "unavailable" /\ q2.err = "none"
      /\ q2.calls = q.calls /\ q2.logs = q.logs /\ q2.contacted = q.contacted
      /\ q2.wait = (IF q.tried THEN NoWait ELSE q.wait)
  BY <1>1, <1>3 DEF Answered, Request
<1>6. q.wait \in NoWait..MaxWindow /\ q.wait # 0 /\ (q.contacted => q.tried)
  BY <1>1 DEF Fits, Honest, Request
<1>7. Fits(q2, past')
  BY <1>1, <1>4, <1>5, <1>6 DEF Fits, Placed, Counted, Honest, Blamed, NoWait
<1>. QED
  BY <1>7, Step, Still DEF GiveUp, IInv, TypeOK

\* The client has gone.
LEMMA DisconnectKeeps ==
  ASSUME IInv, NEW r \in Req, Disconnect(r)
  PROVE  IInv'
<1>1. <<>> \in Seq(Key)
  OBVIOUS
<1>2. Fits(Answered(Fresh(<<>>), "gone"), past')
  BY <1>1, FreshFits, AnsweredFits
<1>. QED
  BY <1>2, Step, Still DEF Disconnect, IInv, TypeOK

-----------------------------------------------------------------------------
(* The other tasks. *)

\* A step of another task keeps every handler's state and so its fit.
LEMMA Bystanders ==
  ASSUME IInv, UNCHANGED req, MapKept,
         transport' \in [Provider -> Transports],
         storing' \subseteq Provider,
         background' \in [Provider -> 0..BackgroundPeriod]
  PROVE  IInv'
<1>1. TypeOK'
  BY DEF IInv, TypeOK, MapKept, Verdicts
<1>2. ASSUME NEW s \in Req
      PROVE  Fits(req[s], past')
  <2>1. Fits(req[s], past)
    BY DEF IInv
  <2>2. req[s].pc \in {"sent", "refresh", "transform", "level", "penalise"}
          => req[s].sel[req[s].pos] \in Key
    BY <2>1 DEF Fits, Request, Placed
  <2>. QED
    BY <2>1, <2>2 DEF Fits, Blamed, Later, MapKept
<1>. QED
  BY <1>1, <1>2 DEF IInv, MapKept

\* The map is rewritten entry by entry, and the history stays.
LEMMA Rewritten ==
  ASSUME IInv, UNCHANGED past,
         NEW new, runtime' = [k \in Key |-> new[k]],
         \A k \in Key : Explained(new[k], past[k])
  PROVE  MapKept
<1>1. past \in [Key -> Verdicts]
  BY DEF IInv, TypeOK, Verdicts
<1>2. \A k \in Key : new[k] \in Entry
  BY DEF Explained
<1>. QED
  BY <1>1, <1>2 DEF MapKept, Later

\* reset_provider_to_healthy keeps every entry explained.
LEMMA ResetKept ==
  ASSUME IInv, NEW p, ForProvider(p, ResetToHealthy), UNCHANGED past
  PROVE  MapKept
<1>. DEFINE new == [k \in Key |-> IF k \in KeysOf(p) THEN ResetToHealthy(runtime[k])
                                                     ELSE runtime[k]]
<1>1. ASSUME NEW k \in Key PROVE Explained(new[k], past[k])
  <2>1. Explained(runtime[k], past[k])
    BY DEF IInv
  <2>2. Explained(ResetToHealthy(runtime[k]), past[k])
    BY <2>1, HealthyExplained DEF ResetToHealthy, Explained
  <2>. QED
    BY <2>1, <2>2
<1>2. runtime' = [k \in Key |-> new[k]]
  BY DEF ForProvider
<1>. QED
  BY <1>1, <1>2, Rewritten

\* The admin's handlers.
LEMMA AdminKeeps ==
  ASSUME IInv, NEW p \in Provider, Admin(p)
  PROVE  IInv'
<1>1. CASE AdminReset(p)
  BY <1>1, ResetKept, Bystanders DEF AdminReset, IInv, TypeOK
<1>2. CASE DeleteProvider(p)
  <2>. DEFINE new == [k \in Key |-> IF k \in KeysOf(p) THEN Absent ELSE runtime[k]]
  <2>1. \A k \in Key : Explained(new[k], past[k])
    BY AbsentExplained DEF IInv
  <2>2. runtime' = [k \in Key |-> new[k]]
    BY <1>2 DEF DeleteProvider, ForProvider
  <2>3. MapKept
    BY <1>2, <2>1, <2>2, Rewritten DEF DeleteProvider
  <2>. QED
    BY <1>2, <2>3, Bystanders DEF DeleteProvider, IInv, TypeOK
<1>3. CASE StoreKey(p)
  <2>1. MapKept
    BY <1>3, Still DEF StoreKey
  <2>. QED
    BY <1>3, <2>1, Bystanders DEF StoreKey, IInv, TypeOK, Transports
<1>4. CASE KeyStored(p)
  <2>1. MapKept
    BY <1>4, ResetKept, Still DEF KeyStored
  <2>. QED
    BY <1>4, <2>1, Bystanders DEF KeyStored, IInv, TypeOK
<1>5. CASE ProbeUpgrade(p)
  <2>1. MapKept
    BY <1>5, Still DEF ProbeUpgrade
  <2>. QED
    BY <1>5, <2>1, Bystanders DEF ProbeUpgrade, IInv, TypeOK, Transports
<1>. QED
  BY <1>1, <1>2, <1>3, <1>4, <1>5 DEF Admin

\* The background refresh marks only entries that exist.
LEMMA BackgroundKeeps ==
  ASSUME IInv, NEW p \in Provider, BackgroundInvalidGrant(p)
  PROVE  IInv'
<1>1. runtime \in [Key -> Entry] /\ past \in [Key -> Verdicts]
  BY DEF IInv, TypeOK, Verdicts
<1>2. /\ past' \in [Key -> Verdicts]
      /\ \A k \in Key : Later(past[k], past'[k])
  BY <1>1 DEF BackgroundInvalidGrant, Verdicts, Later
<1>3. ASSUME NEW k \in Key
      PROVE  Explained(runtime'[k], past'[k])
  <2>1. Explained(runtime[k], past[k])
    BY DEF IInv
  <2>2. CASE k \in KeysOf(p) /\ Tracked(runtime[k])
    <3>1. runtime'[k] = MarkMisconfigured(runtime[k]) /\ past'[k] = "faulted"
      BY <2>2 DEF BackgroundInvalidGrant, ForProvider, MarkTracked
    <3>. QED
      BY <2>1, <3>1, MisconfiguredExplained
  <2>3. CASE ~(k \in KeysOf(p) /\ Tracked(runtime[k]))
    <3>1. runtime'[k] = runtime[k]
      BY <2>3 DEF BackgroundInvalidGrant, ForProvider, MarkTracked
    <3>. QED
      BY <1>2, <2>1, <3>1, LaterExplained
  <2>. QED
    BY <2>2, <2>3
<1>4. runtime' \in [Key -> Entry]
  <2>1. \A k \in Key : runtime'[k] \in Entry
    BY <1>3 DEF Explained
  <2>. QED
    BY <2>1 DEF BackgroundInvalidGrant, ForProvider
<1>5. background' \in [Provider -> 0..BackgroundPeriod]
  BY FailoverAssumption DEF BackgroundInvalidGrant, IInv, TypeOK
<1>6. MapKept
  BY <1>2, <1>3, <1>4 DEF MapKept
<1>. QED
  BY <1>5, <1>6, Bystanders DEF BackgroundInvalidGrant, IInv, TypeOK

\* The cleanup task.
LEMMA SweepKeeps ==
  ASSUME IInv, Sweep
  PROVE  IInv'
<1>. DEFINE new == [k \in Key |-> PruneIdle(runtime[k])]
<1>1. \A k \in Key : Explained(new[k], past[k])
  BY AbsentExplained DEF PruneIdle, IInv
<1>2. MapKept
  BY <1>1, Rewritten DEF Sweep
<1>. QED
  BY <1>2, Bystanders DEF Sweep, IInv, TypeOK

\* The clock.
LEMMA TickKeeps ==
  ASSUME IInv, Tick
  PROVE  IInv'
<1>. DEFINE new == [k \in Key |-> Age(runtime[k])]
<1>1. \A k \in Key : Explained(new[k], past[k])
  BY AgeExplained DEF IInv
<1>2. MapKept
  BY <1>1, Rewritten DEF Tick
<1>3. background' \in [Provider -> 0..BackgroundPeriod]
  BY FailoverAssumption DEF Tick, IInv, TypeOK
<1>. QED
  BY <1>2, <1>3, Bystanders DEF Tick, IInv, TypeOK

-----------------------------------------------------------------------------
(* The invariant is inductive. *)

\* The invariant holds initially.
LEMMA InitIInv ==
  ASSUME Init
  PROVE  IInv
<1>1. <<>> \in Seq(Key)
  OBVIOUS
<1>. DEFINE idle == [Fresh(<<>>) EXCEPT !.pc = "idle"]
<1>2. Fresh(<<>>) \in Request
  BY <1>1, FreshFits DEF Fits
<1>3. idle \in Request
  BY <1>2 DEF Request
<1>4. idle.pc = "idle" /\ idle.err = "none" /\ idle.calls = 0 /\ idle.logs = 0
      /\ idle.wait = NoWait /\ ~idle.contacted
  BY DEF Fresh
<1>5. Fits(idle, past)
  BY <1>3, <1>4 DEF Fits, Placed, Counted, Honest, Blamed, NoWait
<1>6. \A k \in Key : Explained(runtime[k], past[k])
  BY AbsentExplained DEF Init
<1>7. Absent \in Entry
  BY AbsentExplained DEF Explained
<1>8. TypeOK
  BY <1>3, <1>7, FailoverAssumption DEF Init, TypeOK, Transports
<1>. QED
  BY <1>5, <1>6, <1>8 DEF IInv, Init

\* The invariant is inductive.
LEMMA NextIInv ==
  ASSUME IInv, [Next]_vars
  PROVE  IInv'
<1>1. ASSUME NEW r \in Req, Arrive(r) \/ Handle(r) \/ Disconnect(r)
      PROVE  IInv'
  BY <1>1, ArriveKeeps, DisconnectKeeps, AttributeKeeps, CheckKeeps, DispatchKeeps,
     UnreachableKeeps, SucceedsKeeps, TransformKeeps, RejectsKeeps, UnauthorizedKeeps,
     StillUnauthorizedKeeps, RefreshedKeeps, BusyKeeps, UpgradeRequiredKeeps,
     ReadLevelKeeps, PenaliseKeeps, GiveUpKeeps
  DEF Handle
<1>2. ASSUME NEW p \in Provider, Admin(p) \/ BackgroundInvalidGrant(p)
      PROVE  IInv'
  BY <1>2, AdminKeeps, BackgroundKeeps
<1>3. CASE Sweep \/ Tick
  BY <1>3, SweepKeeps, TickKeeps
<1>4. CASE UNCHANGED vars
  BY <1>4, Still, Bystanders DEF vars, IInv, TypeOK
<1>. QED
  BY <1>1, <1>2, <1>3, <1>4 DEF Next

\* The invariant holds in every state of every behaviour.
THEOREM Invariance == Spec => []IInv
BY InitIInv, NextIInv, PTL DEF Spec

\* Every variable keeps its type: backoff_level stays a u8, windows stay within
\* the longest one an answer can impose, and every handler stands at a member.
THEOREM Typed == Spec => []TypeOK
<1>1. IInv => TypeOK
  BY DEF IInv
<1>. QED
  BY <1>1, Invariance, PTL

\* One call, at most one retry, exactly one row of the request log per member
\* called, whatever the upstreams answer and however handlers interleave.
THEOREM Accounted == Spec => []AttemptsAccounted
<1>1. IInv => AttemptsAccounted
  <2>1. ASSUME IInv, NEW r \in Req
        PROVE  /\ req[r].calls <= 2 /\ req[r].logs <= 1
               /\ req[r].pc \in {"attribute", "exhausted", "done"}
                    => (req[r].logs = 1 <=> req[r].calls > 0)
    BY <2>1 DEF IInv, Fits, Counted
  <2>. QED
    BY <2>1 DEF AttemptsAccounted
<1>. QED
  BY <1>1, Invariance, PTL

\* SEC-01 and SEC-03: only a fault of its own upstream puts a member out of
\* service, and only a call gives it an entry.
THEOREM Faults == Spec => []OnlyFaultsCool
<1>1. IInv => OnlyFaultsCool
  BY DEF IInv, Explained, OnlyFaultsCool
<1>. QED
  BY <1>1, Invariance, PTL

\* A 503 that suggests a wait was given without calling any upstream.
THEOREM HonestAnswers == Spec => []HonestAnswer
<1>1. IInv => HonestAnswer
  BY DEF IInv, Fits, Honest, HonestAnswer, At
<1>. QED
  BY <1>1, Invariance, PTL

-----------------------------------------------------------------------------
(* What a step may never do to an entry's escalation. *)

Escalates ==
  \A k \in Key :
    runtime'[k].level < runtime[k].level =>
      \/ runtime'[k] = Healthy
      \/ runtime'[k] = Absent /\ runtime[k].left = -IdleRetention
      \/ DeleteProvider(ProviderOf[k])

\* What each operator on an entry does to its level.
LEMMA LevelKept ==
  ASSUME NEW e, NEW w, Explained(e, w), NEW cool, NEW why
  PROVE  /\ e.level \in Nat
         /\ OrDefault(e).level \in Nat /\ OrDefault(e).level >= e.level
         /\ RecordRetryable(e, cool).level \in Nat /\ RecordRetryable(e, cool).level >= e.level
         /\ MarkMisconfigured(e).level \in Nat /\ MarkMisconfigured(e).level >= e.level
         /\ NoteError(e, why).level = e.level
         /\ Age(e).level = e.level
         /\ ResetToHealthy(e) = e \/ ResetToHealthy(e) = Healthy
<1>1. e \in Entry /\ (~Tracked(e) => e.level = 0) /\ e.level \in Nat
  BY ProviderRuntimeAssumption DEF Explained, Absent, Entry
<1>2. OrDefault(e) \in Entry /\ OrDefault(e).level >= e.level
  <2>1. Healthy.level = 0 /\ Healthy \in Entry
    BY Floor DEF Healthy, Absent, Entry, Statuses, Texts
  <2>. QED
    BY <1>1, <2>1 DEF OrDefault
<1>3. OrDefault(e).level \in Nat
  BY <1>2, ProviderRuntimeAssumption DEF Entry
<1>4. RecordRetryable(e, cool).level \in Nat /\ RecordRetryable(e, cool).level >= e.level
  <2>1. RecordRetryable(e, cool).level \in {OrDefault(e).level, OrDefault(e).level + 1}
    BY <1>2 DEF RecordRetryable, Entry
  <2>. QED
    BY <1>1, <1>2, <1>3, <2>1
<1>5. MarkMisconfigured(e).level = OrDefault(e).level
  BY <1>2 DEF MarkMisconfigured, Entry
<1>6. NoteError(e, why).level = e.level /\ Age(e).level = e.level
  BY <1>1 DEF NoteError, Age, Entry
<1>. QED
  BY <1>1, <1>2, <1>3, <1>4, <1>5, <1>6 DEF ResetToHealthy

\* A handler that replaces one entry by one with no lower level, or a healthy one.
LEMMA UpdateEscalates ==
  ASSUME IInv, NEW k \in Key, NEW e, Update(k, e),
         (e.level \in Nat /\ e.level >= runtime[k].level) \/ e = Healthy
  PROVE  Escalates
<1>1. \A j \in Key : runtime[j].level \in Nat
  BY LevelKept DEF IInv
<1>2. runtime'[k] = e /\ \A j \in Key \ {k} : runtime'[j] = runtime[j]
  BY DEF Update, IInv, TypeOK
<1>3. e = Healthy \/ ~(e.level < runtime[k].level)
  BY <1>1
<1>. QED
  BY <1>1, <1>2, <1>3 DEF Escalates

\* No step of a handler loses an escalation, but to a success.
LEMMA HandleEscalates ==
  ASSUME IInv, NEW r \in Req, Handle(r)
  PROVE  Escalates
<1>. DEFINE k == Member(r)
<1>1. CASE UNCHANGED runtime
  <2>1. \A j \in Key : runtime[j].level \in Nat
    BY LevelKept DEF IInv
  <2>. QED
    BY <1>1, <2>1 DEF Escalates
<1>2. CASE Attribute(r) /\ req[r].err # "none"
  <2>. DEFINE j == req[r].sel[req[r].pos - 1]
  <2>1. j \in Key
    BY <1>2 DEF IInv, Fits, Placed, Request
  <2>2. Update(j, NoteError(runtime[j], req[r].err))
    BY <1>2 DEF Attribute
  <2>3. Explained(runtime[j], past[j])
    BY <2>1 DEF IInv
  <2>4. /\ NoteError(runtime[j], req[r].err).level = runtime[j].level
        /\ runtime[j].level \in Nat
    BY <2>3, LevelKept
  <2>. QED
    BY <2>1, <2>2, <2>4, UpdateEscalates
<1>3. ASSUME k \in Key,
             NEW e \in {RecordSuccess(runtime[k]), MarkMisconfigured(runtime[k]), OrDefault(runtime[k])}
                        \cup {RecordRetryable(runtime[k], c) : c \in 0..MaxWindow},
             Update(k, e)
      PROVE  Escalates
  <2>1. (e.level \in Nat /\ e.level >= runtime[k].level) \/ e = Healthy
    BY <1>3, LevelKept DEF IInv, RecordSuccess
  <2>. QED
    BY <1>3, <2>1, UpdateEscalates
<1>4. CASE Unreachable(r)
  BY <1>3, <1>4, MemberIsKey, CooldownRange DEF Unreachable, At
<1>5. CASE Succeeds(r)
  BY <1>3, <1>5, MemberIsKey DEF Succeeds, At
<1>6. CASE Unauthorized(r)
  BY <1>1, <1>3, <1>6, MemberIsKey DEF Unauthorized, At
<1>7. CASE StillUnauthorized(r)
  BY <1>3, <1>7, MemberIsKey DEF StillUnauthorized, At
<1>8. CASE Refreshed(r)
  BY <1>1, <1>3, <1>8, MemberIsKey, CooldownRange DEF Refreshed, At
<1>9. CASE ReadLevel(r)
  BY <1>3, <1>9, MemberIsKey DEF ReadLevel, At
<1>10. CASE Penalise(r)
  <2>1. req[r].cool \in 0..MaxWindow
    BY DEF IInv, Fits, Request
  <2>. QED
    BY <1>3, <1>10, <2>1, MemberIsKey DEF Penalise, At
<1>11. CASE Attribute(r) /\ req[r].err = "none"
  BY <1>1, <1>11 DEF Attribute
<1>12. CASE Check(r) \/ Dispatch(r) \/ Transform(r) \/ Rejects(r) \/ Busy(r)
              \/ UpgradeRequired(r) \/ GiveUp(r)
  BY <1>1, <1>12 DEF Check, Dispatch, Transform, Rejects, Busy, UpgradeRequired, GiveUp
<1>. QED
  BY <1>2, <1>4, <1>5, <1>6, <1>7, <1>8, <1>9, <1>10, <1>11, <1>12 DEF Handle

\* No step at all does, but to a success, a reset, a deletion or the pruning.
LEMMA NextEscalates ==
  ASSUME IInv, [Next]_vars
  PROVE  Escalates
<1>1. \A k \in Key : /\ Explained(runtime[k], past[k])
                     /\ runtime[k].level \in Nat
                     /\ runtime[k].left \in -IdleRetention..MaxWindow
  BY LevelKept DEF IInv, Explained, Entry
<1>2. CASE UNCHANGED runtime
  BY <1>1, <1>2 DEF Escalates
<1>3. ASSUME NEW r \in Req, Arrive(r) \/ Handle(r) \/ Disconnect(r)
      PROVE  Escalates
  BY <1>2, <1>3, HandleEscalates DEF Arrive, Disconnect
<1>4. ASSUME NEW p \in Provider, Admin(p) \/ BackgroundInvalidGrant(p)
      PROVE  Escalates
  <2>1. CASE ForProvider(p, ResetToHealthy)
    <3>1. \A k \in Key : runtime'[k] = runtime[k] \/ runtime'[k] = Healthy
      BY <1>1, <2>1, LevelKept DEF ForProvider
    <3>. QED
      BY <1>1, <3>1 DEF Escalates
  <2>2. CASE DeleteProvider(p)
    <3>1. \A k \in Key : runtime'[k] = runtime[k] \/ ProviderOf[k] = p
      BY <2>2 DEF DeleteProvider, ForProvider, KeysOf
    <3>. QED
      BY <1>1, <2>2, <3>1 DEF Escalates
  <2>3. CASE BackgroundInvalidGrant(p)
    <3>1. \A k \in Key : runtime'[k] \in {runtime[k], MarkMisconfigured(runtime[k])}
      BY <2>3 DEF BackgroundInvalidGrant, ForProvider, MarkTracked
    <3>2. \A k \in Key : runtime'[k].level \in Nat /\ runtime'[k].level >= runtime[k].level
      BY <1>1, <3>1, LevelKept
    <3>. QED
      BY <1>1, <3>1, <3>2 DEF Escalates
  <2>. QED
    BY <1>2, <1>4, <2>1, <2>2, <2>3 DEF Admin, AdminReset, StoreKey, KeyStored, ProbeUpgrade
<1>5. CASE Sweep
  <2>1. \A k \in Key : \/ runtime'[k] = runtime[k]
                       \/ runtime'[k] = Absent /\ ~(runtime[k].left > -IdleRetention)
    BY <1>5 DEF Sweep, PruneIdle
  <2>. QED
    BY <1>1, <2>1, ProviderRuntimeAssumption DEF Escalates
<1>6. CASE Tick
  <2>1. \A k \in Key : runtime'[k] = Age(runtime[k])
    BY <1>6 DEF Tick
  <2>2. \A k \in Key : runtime'[k].level >= runtime[k].level /\ runtime'[k].level \in Nat
    BY <1>1, <2>1, AgeExplained, LevelKept
  <2>. QED
    BY <1>1, <2>2 DEF Escalates
<1>. QED
  BY <1>2, <1>3, <1>4, <1>5, <1>6 DEF Next, vars

\* Escalation is lost only to a success, a reset, a deletion or a full
\* retention of quiet.
THEOREM Escalation == Spec => EscalationKept
<1>1. IInv /\ [Next]_vars => Escalates
  BY NextEscalates
<1>. QED
  BY <1>1, Invariance, PTL DEF Spec, EscalationKept, Escalates

=============================================================================
